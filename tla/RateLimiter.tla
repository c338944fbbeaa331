----------------------------- MODULE RateLimiter -----------------------------
(***************************************************************************)
(* RateLimiterGuard and RateLimiterService in front of an endpoint that    *)
(* the gateway forwards to the auth-service, such as login: the guard of   *)
(* the gateway checks its rules one after the other, then the request is   *)
(* forwarded and the guard of the auth-service checks its own.             *)
(*                                                                         *)
(* A check is one Lua script, atomic in Redis; between two checks of a     *)
(* request other requests run.  Every rule has its own key prefix, so a    *)
(* counter is named by the rule's position and the identifier.  What an    *)
(* identifier stands for is up to the request: the address of the gateway  *)
(* is the one that x-forwarded-for names first, whoever sent it.           *)
(***************************************************************************)
EXTENDS Naturals, Sequences, FiniteSets

CONSTANTS
  Addresses,     \* what a socket or x-forwarded-for gives, 'unknown' included
  Emails,        \* values of body.email, lower-cased, trimmed and hashed
  GatewayIp,     \* the address the auth-service sees
  Requests,      \* concurrent requests
  Absent,
  Rules,         \* sequence of [hop, source, limit, window]
  MaxClock,      \* bound on the clock
  MaxArrivals,   \* bound on requests
  MaxFaults,     \* bound on failed Redis calls
  MaxResets      \* bound on counters that are reset

Hops    == {"gateway", "auth"}
Sources == {"ip", "body.email"}

ASSUME RateLimiterAssumption ==
  /\ Rules \in Seq([hop: Hops, source: Sources, limit: Nat \ {0},
                    window: Nat \ {0}])
  /\ MaxClock \in Nat /\ MaxArrivals \in Nat /\ MaxFaults \in Nat
  /\ MaxResets \in Nat
  /\ Absent \notin Addresses \cup Emails

VARIABLES
  counter,   \* Redis: <<rule, identifier>> -> [count, when], or Absent
  req,       \* the requests in the guards
  clock, faults,
  arrivals,  \* history: requests so far
  granted,   \* history: per counter, the times of the checks granted
  cleared    \* history: counters deleted by reset

limiterVars == <<counter, req, clock, faults, arrivals, granted, cleared>>

Idents == Addresses \cup Emails \cup {GatewayIp, "empty"}
Keys   == (DOMAIN Rules) \X Idents
ClockTimes == 0..MaxClock
Entry  == [count: Nat \ {0}, when: Nat]
GrantLogs == [Keys -> Seq(Nat)]
Req    == [pc: {"idle", "check", "passed", "rejected"},
           address: Addresses \cup {Absent}, email: Emails \cup {Absent},
           rule: Nat \ {0}]
Idle   == [pc |-> "idle", address |-> Absent, email |-> Absent, rule |-> 1]

ASSUME AbsentAssumption == Absent \notin Entry

LimiterTypeOK ==
  /\ counter \in [Keys -> Entry \cup {Absent}]
  /\ req \in [Requests -> Req]
  /\ clock \in ClockTimes /\ faults \in 0..MaxFaults
  /\ arrivals \in 0..MaxArrivals
  /\ granted \in GrantLogs
  /\ cleared \subseteq Keys

LimiterInit ==
  /\ counter = [k \in Keys |-> Absent]
  /\ req = [r \in Requests |-> Idle]
  /\ clock = 0 /\ faults = 0
  /\ arrivals = 0
  /\ granted = [k \in Keys |-> <<>>]
  /\ cleared = {}

-----------------------------------------------------------------------------
RuleOf(r) == Rules[req[r].rule]

\* extractIp: the first entry of x-forwarded-for when the request has one,
\* otherwise the address of the socket.
extractIp(forwarded, remote) == IF forwarded # Absent THEN forwarded ELSE remote

\* buildKey: the gateway forwards the body but no x-forwarded-for, so for the
\* auth-service every request comes from the gateway's address.
buildKey(r) ==
  <<req[r].rule,
    CASE RuleOf(r).source = "body.email" ->
           IF req[r].email = Absent THEN "empty" ELSE req[r].email
      [] RuleOf(r).source = "ip" /\ RuleOf(r).hop = "gateway" ->
           req[r].address
      [] RuleOf(r).source = "ip" /\ RuleOf(r).hop = "auth" ->
           extractIp(Absent, GatewayIp)>>

\* Redis drops a key once the clock is past its expiry.
Live(k)  == IF counter[k] = Absent THEN FALSE ELSE clock <= counter[k].when
Count(k) == IF Live(k) THEN counter[k].count ELSE 0

\* The next rule, or past the last one.
Advance(r) ==
  req' = [req EXCEPT ![r] =
            IF req[r].rule = Len(Rules) THEN [req[r] EXCEPT !.pc = "passed"]
            ELSE [req[r] EXCEPT !.rule = req[r].rule + 1]]

\* A request from the socket of remote that names an address in its header, or
\* none, and an e-mail in its body, or none.
Arrive(r, remote, forwarded, email) ==
  /\ req[r] = Idle /\ arrivals < MaxArrivals
  /\ arrivals' = arrivals + 1
  /\ req' = [req EXCEPT ![r] =
               [pc |-> IF Rules = <<>> THEN "passed" ELSE "check",
                address |-> extractIp(forwarded, remote), email |-> email,
                rule |-> 1]]
  /\ UNCHANGED <<counter, clock, faults, granted, cleared>>

\* Mutant: the expiry is set when the limit is reached.
CheckAllowedLate(r) ==
  LET k == buildKey(r)  n == Count(k) + 1
  IN  /\ req[r].pc = "check" /\ Count(k) < RuleOf(r).limit
      /\ counter' = [counter EXCEPT ![k] =
           [count |-> n,
            when  |-> IF n = RuleOf(r).limit THEN clock + RuleOf(r).window
                      ELSE MaxClock + RuleOf(r).window + 1]]
      /\ granted' = [granted EXCEPT ![k] = Append(@, clock)]
      /\ Advance(r)
      /\ UNCHANGED <<clock, faults, arrivals, cleared>>

\* Mutant: every increment sets the expiry anew.
CheckAllowedRenewed(r) ==
  LET k == buildKey(r)
  IN  /\ req[r].pc = "check" /\ Count(k) < RuleOf(r).limit
      /\ counter' = [counter EXCEPT ![k] =
           [count |-> Count(k) + 1, when |-> clock + RuleOf(r).window]]
      /\ granted' = [granted EXCEPT ![k] = Append(@, clock)]
      /\ Advance(r)
      /\ UNCHANGED <<clock, faults, arrivals, cleared>>

\* Mutant: off by one in the comparison with the limit.
CheckAllowedOneMore(r) ==
  LET k == buildKey(r)
  IN  /\ req[r].pc = "check" /\ Count(k) <= RuleOf(r).limit
      /\ counter' = [counter EXCEPT ![k] =
           IF Live(k) THEN [counter[k] EXCEPT !.count = counter[k].count + 1]
           ELSE [count |-> 1, when |-> clock + RuleOf(r).window]]
      /\ granted' = [granted EXCEPT ![k] = Append(@, clock)]
      /\ Advance(r)
      /\ UNCHANGED <<clock, faults, arrivals, cleared>>

\* The script below the limit: INCR, and PEXPIRE when it created the key.
CheckAllowed(r) ==
  LET k == buildKey(r)
  IN  /\ req[r].pc = "check" /\ Count(k) < RuleOf(r).limit
      /\ counter' = [counter EXCEPT ![k] =
           IF Live(k) THEN [counter[k] EXCEPT !.count = counter[k].count + 1]
           ELSE [count |-> 1, when |-> clock + RuleOf(r).window]]
      /\ granted' = [granted EXCEPT ![k] = Append(@, clock)]
      /\ Advance(r)
      /\ UNCHANGED <<clock, faults, arrivals, cleared>>

\* The script at the limit: nothing is written and the guard throws 429;
\* what the earlier rules counted stays counted.
CheckRejected(r) ==
  /\ req[r].pc = "check" /\ Count(buildKey(r)) >= RuleOf(r).limit
  /\ req' = [req EXCEPT ![r].pc = "rejected"]
  /\ UNCHANGED <<counter, clock, faults, arrivals, granted, cleared>>

\* Redis does not answer: check allows the request and counts nothing.
CheckFailsOpen(r) ==
  /\ req[r].pc = "check" /\ faults < MaxFaults
  /\ faults' = faults + 1
  /\ Advance(r)
  /\ UNCHANGED <<counter, clock, arrivals, granted, cleared>>

Done(r) ==
  /\ req[r].pc \in {"passed", "rejected"}
  /\ req' = [req EXCEPT ![r] = Idle]
  /\ UNCHANGED <<counter, clock, faults, arrivals, granted, cleared>>

\* RateLimiterService.reset
Reset(k) ==
  /\ Live(k) /\ Cardinality(cleared) < MaxResets
  /\ counter' = [counter EXCEPT ![k] = Absent]
  /\ cleared' = cleared \cup {k}
  /\ UNCHANGED <<req, clock, faults, arrivals, granted>>

ClockTick ==
  /\ clock < MaxClock
  /\ clock' = clock + 1
  /\ UNCHANGED <<counter, req, faults, arrivals, granted, cleared>>

LimiterNext ==
  \/ \E r \in Requests :
       \/ \E remote \in Addresses, forwarded \in Addresses \cup {Absent},
            email \in Emails \cup {Absent} : Arrive(r, remote, forwarded, email)
       \/ CheckAllowed(r) \/ CheckRejected(r) \/ CheckFailsOpen(r) \/ Done(r)
  \/ \E k \in Keys : Reset(k)
  \/ ClockTick

LimiterSpec == LimiterInit /\ [][LimiterNext]_limiterVars

-----------------------------------------------------------------------------
(* Properties that hold *)

\* Every counter expires within its window, also one at the limit: no client
\* is locked out for good.
NoLockout ==
  \A k \in Keys : Live(k) => counter[k].when <= clock + Rules[k[1]].window

\* The fixed windows of a counter nobody resets let less than twice the limit
\* through in any stretch of one window, whatever the interleaving: of twice
\* that many checks in a row, the last is more than a window after the first.
BurstBound ==
  \A k \in Keys \ cleared : \A i, j \in DOMAIN granted[k] :
    j + 1 = i + 2 * Rules[k[1]].limit =>
      granted[k][j] > granted[k][i] + Rules[k[1]].window

\* A guard turns a request away only out of a full window: as many requests as
\* the rule allows were let through under the same identifier, the first of them
\* not longer than a window ago.  Neither requests that were turned away, nor
\* Redis failures and resets, nor slow but steady traffic bring a counter to
\* its limit.  Whose requests these were is another matter: at the gateway they
\* named the same address, at the auth-service they came through the gateway.
RefusesFullWindows ==
  [][\A r \in Requests :
       req[r].pc = "check" /\ req'[r].pc = "rejected" =>
         LET rule == RuleOf(r)  log == granted[buildKey(r)]
         IN  /\ Len(log) >= rule.limit
             /\ log[Len(log) + 1 - rule.limit] + rule.window >= clock]_limiterVars
=============================================================================
