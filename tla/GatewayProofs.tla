---------------------------- MODULE GatewayProofs ----------------------------
(***************************************************************************)
(* What limits and routes the traffic of the gateway.  The registry of the *)
(* websocket gateway is exact, pushes reach exactly the tabs of their      *)
(* user and the limiter map does not leak, for any number of users and     *)
(* sockets and any limit and window.  The guard of HTTP endpoints locks    *)
(* nobody out and turns requests away only out of a full window.  Both     *)
(* limiters count in fixed windows; the lemmas on such windows come first  *)
(* and are shared.                                                         *)
(***************************************************************************)
EXTENDS WsGateway, RateLimiter, TLAPS

-----------------------------------------------------------------------------
(* Fixed windows.  log holds the times of what was let through, count and  *)
(* end are the counter and the expiry of the current window.               *)

Ordered(log, time) ==
  \A i, j \in DOMAIN log : i <= j => log[i] <= log[j] /\ log[j] <= time

\* Of 2 * max entries in a row, the last is more than a window after the first.
Spread(log, max, window) ==
  \A i, j \in DOMAIN log : j + 1 = i + 2 * max => log[j] > log[i] + window

\* The current window began with entry s, and max entries before it are more
\* than a window back.
Windows(log, count, end, max, window) ==
  \E s \in DOMAIN log :
    /\ s + count = Len(log) + 1
    /\ end = log[s] + window
    /\ \A i \in DOMAIN log : i + max <= s => log[s] > log[i] + window

\* new is log with one entry more.
Extends(new, log, time) ==
  \E n \in Nat :
    /\ Len(log) = n /\ DOMAIN log = 1..n
    /\ Len(new) = n + 1 /\ DOMAIN new = 1..(n + 1)
    /\ new[n + 1] = time
    /\ \A i \in 1..n : new[i] = log[i] /\ log[i] \in Nat

Limited(log, count, end, max, window, time) ==
  /\ Ordered(log, time)
  /\ Spread(log, max, window)
  /\ Windows(log, count, end, max, window)

\* The first entry of a log opens the first window.
LEMMA FirstEntry ==
  ASSUME NEW max \in Nat \ {0}, NEW window \in Nat, NEW time \in Nat,
         NEW new, new = Append(<<>>, time)
  PROVE  Limited(new, 1, time + window, max, window, time)
<1>1. DOMAIN new = {1} /\ new[1] = time /\ Len(new) = 1
  OBVIOUS
<1> QED
  BY <1>1 DEF Limited, Ordered, Spread, Windows

\* Appending time to a log of times gives such a log.
LEMMA Appended ==
  ASSUME NEW time \in Nat, NEW log \in Seq(Nat), NEW new,
         new = Append(log, time)
  PROVE  Extends(new, log, time)
<1>1. PICK n \in Nat : Len(log) = n
  OBVIOUS
<1>2. DOMAIN log = 1..n /\ Len(new) = n + 1 /\ DOMAIN new = 1..(n + 1)
  BY <1>1
<1>3. new[n + 1] = time /\ \A i \in 1..n : new[i] = log[i] /\ log[i] \in Nat
  BY <1>1
<1> QED
  BY <1>1, <1>2, <1>3 DEF Extends

\* An entry in the current window while its counter is below the limit.
LEMMA EntryInWindow ==
  ASSUME NEW max \in Nat \ {0}, NEW window \in Nat, NEW time \in Nat,
         NEW log, NEW new, Extends(new, log, time),
         NEW count \in Nat \ {0}, NEW end, count < max,
         Limited(log, count, end, max, window, time)
  PROVE  Limited(new, count + 1, end, max, window, time)
<1>1. PICK n \in Nat :
           /\ Len(log) = n /\ DOMAIN log = 1..n
           /\ Len(new) = n + 1 /\ DOMAIN new = 1..(n + 1)
           /\ new[n + 1] = time
           /\ \A i \in 1..n : new[i] = log[i] /\ log[i] \in Nat
  BY DEF Extends
<1>2. /\ \A i, j \in 1..n : i <= j => log[i] <= log[j] /\ log[j] <= time
      /\ \A i, j \in 1..n : j + 1 = i + 2 * max => log[j] > log[i] + window
  BY <1>1 DEF Limited, Ordered, Spread
<1>3. PICK s \in 1..n :
           /\ s + count = n + 1
           /\ end = log[s] + window
           /\ \A i \in 1..n : i + max <= s => log[s] > log[i] + window
  BY <1>1 DEF Limited, Windows
<1>4. Ordered(new, time)
  BY <1>1, <1>2 DEF Ordered
<1>5. Windows(new, count + 1, end, max, window)
  <2>1. s \in 1..(n + 1) /\ s + (count + 1) = (n + 1) + 1
    BY <1>3
  <2>2. \A i \in 1..(n + 1) : i + max <= s => new[s] > new[i] + window
    BY <1>1, <1>3
  <2> QED
    BY <1>1, <1>3, <2>1, <2>2 DEF Windows
<1>6. Spread(new, max, window)
  <2> SUFFICES ASSUME NEW i \in 1..(n + 1), NEW j \in 1..(n + 1),
                      j + 1 = i + 2 * max
               PROVE  new[j] > new[i] + window
    BY <1>1 DEF Spread
  <2>1. CASE j <= n
    <3>1. i \in 1..n /\ j \in 1..n
      BY <2>1
    <3> QED
      BY <3>1, <1>1, <1>2
  <2>2. CASE j = n + 1
    <3>1. i \in 1..n /\ i + max <= s
      BY <2>2, <1>3
    <3>2. log[s] > log[i] + window /\ log[s] <= time
      BY <3>1, <1>2, <1>3
    <3>3. new[i] = log[i] /\ log[i] \in Nat /\ log[s] \in Nat /\ new[j] = time
      BY <2>2, <3>1, <1>1
    <3> QED
      BY <3>2, <3>3
  <2> QED
    BY <2>1, <2>2
<1> QED
  BY <1>4, <1>5, <1>6 DEF Limited

\* An entry after the expiry opens a new window.
LEMMA EntryOpensWindow ==
  ASSUME NEW max \in Nat \ {0}, NEW window \in Nat, NEW time \in Nat,
         NEW log, NEW new, Extends(new, log, time),
         NEW count \in 1..max, NEW end, time > end,
         Limited(log, count, end, max, window, time)
  PROVE  Limited(new, 1, time + window, max, window, time)
<1>1. PICK n \in Nat :
           /\ Len(log) = n /\ DOMAIN log = 1..n
           /\ Len(new) = n + 1 /\ DOMAIN new = 1..(n + 1)
           /\ new[n + 1] = time
           /\ \A i \in 1..n : new[i] = log[i] /\ log[i] \in Nat
  BY DEF Extends
<1>2. /\ \A i, j \in 1..n : i <= j => log[i] <= log[j] /\ log[j] <= time
      /\ \A i, j \in 1..n : j + 1 = i + 2 * max => log[j] > log[i] + window
  BY <1>1 DEF Limited, Ordered, Spread
<1>3. PICK s \in 1..n : s + count = n + 1 /\ end = log[s] + window
  BY <1>1 DEF Limited, Windows
<1>4. \A i \in 1..n : i + max <= n + 1 => time > log[i] + window
  <2> SUFFICES ASSUME NEW i \in 1..n, i + max <= n + 1
               PROVE  time > log[i] + window
    OBVIOUS
  <2>1. i <= s
    BY <1>3
  <2>2. log[i] <= log[s] /\ log[i] \in Nat /\ log[s] \in Nat
    BY <2>1, <1>1, <1>2
  <2> QED
    BY <2>2, <1>3
<1>5. Ordered(new, time)
  BY <1>1, <1>2 DEF Ordered
<1>6. Windows(new, 1, time + window, max, window)
  <2>1. \A i \in 1..(n + 1) : i + max <= n + 1 => new[n + 1] > new[i] + window
    BY <1>1, <1>4
  <2>2. /\ n + 1 \in DOMAIN new /\ (n + 1) + 1 = Len(new) + 1
        /\ time + window = new[n + 1] + window
    BY <1>1
  <2>3. \A i \in DOMAIN new : i + max <= n + 1 => new[n + 1] > new[i] + window
    BY <1>1, <2>1
  <2> QED
    BY <2>2, <2>3 DEF Windows
<1>7. Spread(new, max, window)
  <2> SUFFICES ASSUME NEW i \in 1..(n + 1), NEW j \in 1..(n + 1),
                      j + 1 = i + 2 * max
               PROVE  new[j] > new[i] + window
    BY <1>1 DEF Spread
  <2>1. CASE j <= n
    <3>1. i \in 1..n /\ j \in 1..n
      BY <2>1
    <3> QED
      BY <3>1, <1>1, <1>2
  <2>2. CASE j = n + 1
    <3>1. i \in 1..n /\ i + max <= n + 1
      BY <2>2
    <3> QED
      BY <2>2, <3>1, <1>1, <1>4
  <2> QED
    BY <2>1, <2>2
<1> QED
  BY <1>5, <1>6, <1>7 DEF Limited

\* Time passes.
LEMMA TimePasses ==
  ASSUME NEW time \in Nat, NEW log \in Seq(Nat), Ordered(log, time)
  PROVE  Ordered(log, time + 1)
<1>1. \A i \in DOMAIN log : log[i] \in Nat
  OBVIOUS
<1> QED
  BY <1>1 DEF Ordered

-----------------------------------------------------------------------------
(* The websocket gateway *)

\* Open sockets belong to a user.
OpenOwned == \A s \in Sockets : s \in open => data[s] \in Users

\* The limiter entry of a user who kept a tab open is the current window of
\* what was let through.
RateKept ==
  \A u \in Users \ left :
    IF rateLimits[u] = Null THEN accepted[u] = <<>>
    ELSE Limited(accepted[u], rateLimits[u].count, rateLimits[u].resetAt,
                 MaxMessages, Window, now)

IInv == TypeOK /\ OpenOwned /\ RegistryExact /\ NoLimiterLeak /\ RateKept

\* The initial states satisfy the inductive invariant.
LEMMA InitIInv == Init => IInv
  BY WsGatewayAssumption DEF Init, IInv, TypeOK, OpenOwned, RegistryExact,
     NoLimiterLeak, RateKept, Times, Logs

\* handleDisconnect takes the socket out of both maps and leaves the other
\* sockets where they are.
LEMMA UnregisterExact ==
  ASSUME IInv, NEW s \in Sockets, s \in open, unregister(s)
  PROVE  /\ userSockets' = [userSockets EXCEPT ![data[s]] = @ \ {s}]
         /\ socketToUser' = [socketToUser EXCEPT ![s] = Null]
<1>1. socketToUser[s] = data[s] /\ data[s] # Null
  BY WsGatewayAssumption DEF IInv, RegistryExact, OpenOwned
<1> QED
  BY <1>1 DEF unregister

\* checkRateLimit writes a proper entry for u and for nobody else.
LEMMA AcceptTyped ==
  ASSUME TypeOK, NEW u \in Users, Accept(u)
  PROVE  /\ rateLimits' \in [Users -> Limit \cup {Null}]
         /\ rateLimits'[u] \in Limit
         /\ accepted' \in Logs
         /\ accepted'[u] = Append(accepted[u], now)
         /\ \A v \in Users \ {u} : /\ rateLimits'[v] = rateLimits[v]
                                   /\ accepted'[v] = accepted[v]
         /\ IF NewWindow(u)
            THEN rateLimits'[u] = [count |-> 1, resetAt |-> now + Window]
            ELSE /\ rateLimits[u] \in Limit /\ rateLimits[u].count < MaxMessages
                 /\ rateLimits'[u] = [count |-> rateLimits[u].count + 1,
                                      resetAt |-> rateLimits[u].resetAt]
<1> USE WsGatewayAssumption
<1>1. /\ accepted' \in Logs
      /\ accepted'[u] = Append(accepted[u], now)
      /\ \A v \in Users \ {u} : accepted'[v] = accepted[v]
  <2>1. accepted \in Logs /\ now \in Nat
    BY DEF TypeOK, Times
  <2>2. Append(accepted[u], now) \in Seq(Nat)
    BY <2>1 DEF Logs
  <2>3. accepted' = [accepted EXCEPT ![u] = Append(accepted[u], now)]
    BY DEF Accept
  <2> QED
    BY <2>1, <2>2, <2>3 DEF Logs
<1>2. CASE NewWindow(u)
  <2>1. [count |-> 1, resetAt |-> now + Window] \in Limit
    BY DEF TypeOK, Limit, Times
  <2>2. rateLimits' = [rateLimits EXCEPT ![u] =
                         [count |-> 1, resetAt |-> now + Window]]
    BY <1>2 DEF Accept
  <2> QED
    BY <1>1, <1>2, <2>1, <2>2 DEF TypeOK
<1>3. CASE ~NewWindow(u)
  <2>1. rateLimits[u] \in Limit /\ rateLimits[u].count < MaxMessages
    BY <1>3 DEF Accept, NewWindow, TypeOK
  <2>2. [rateLimits[u] EXCEPT !.count = @ + 1]
           = [count |-> rateLimits[u].count + 1,
              resetAt |-> rateLimits[u].resetAt]
    BY <2>1 DEF Limit
  <2>3. [count |-> rateLimits[u].count + 1,
         resetAt |-> rateLimits[u].resetAt] \in Limit
    BY <2>1 DEF Limit
  <2>4. rateLimits' =
          [rateLimits EXCEPT ![u] = [rateLimits[u] EXCEPT !.count = @ + 1]]
    BY <1>3 DEF Accept
  <2> QED
    BY <1>1, <1>3, <2>1, <2>2, <2>3, <2>4 DEF TypeOK
<1> QED
  BY <1>2, <1>3

\* checkRateLimit keeps the entry of u the current window of u's log.
LEMMA AcceptKeepsRate ==
  ASSUME TypeOK, RateKept, NEW u \in Users \ left, Accept(u)
  PROVE  /\ rateLimits'[u] # Null
         /\ Limited(accepted'[u], rateLimits'[u].count, rateLimits'[u].resetAt,
                    MaxMessages, Window, now)
<1> USE WsGatewayAssumption
<1>1. now \in Nat /\ accepted[u] \in Seq(Nat)
  BY DEF TypeOK, Times, Logs
<1>2. Extends(accepted'[u], accepted[u], now)
  BY <1>1, AcceptTyped, Appended
<1>3. rateLimits'[u] # Null
  BY AcceptTyped, NullAssumption
<1>4. NewWindow(u) => /\ rateLimits'[u].count = 1
                      /\ rateLimits'[u].resetAt = now + Window
  <2>1. NewWindow(u) => rateLimits'[u] = [count |-> 1, resetAt |-> now + Window]
    BY AcceptTyped
  <2> QED
    BY <2>1
<1>5. ~NewWindow(u) => /\ rateLimits'[u].count = rateLimits[u].count + 1
                       /\ rateLimits'[u].resetAt = rateLimits[u].resetAt
  <2>1. ~NewWindow(u) => rateLimits'[u] = [count |-> rateLimits[u].count + 1,
                                           resetAt |-> rateLimits[u].resetAt]
    BY AcceptTyped
  <2> QED
    BY <2>1
<1>6. CASE rateLimits[u] = Null
  <2>1. NewWindow(u) /\ accepted[u] = <<>>
    BY <1>6 DEF NewWindow, RateKept
  <2>2. Limited(accepted'[u], 1, now + Window, MaxMessages, Window, now)
    BY <2>1, <1>1, AcceptTyped, FirstEntry
  <2> QED
    BY <1>3, <1>4, <2>1, <2>2
<1>7. CASE rateLimits[u] # Null
  <2>1. /\ rateLimits[u] \in Limit
        /\ Limited(accepted[u], rateLimits[u].count, rateLimits[u].resetAt,
                   MaxMessages, Window, now)
    BY <1>7 DEF RateKept, TypeOK
  <2>2. /\ rateLimits[u].count \in 1..MaxMessages
        /\ rateLimits[u].count \in Nat \ {0}
    BY <2>1 DEF Limit
  <2>3. CASE NewWindow(u)
    <3>1. now > rateLimits[u].resetAt
      BY <1>7, <2>3 DEF NewWindow
    <3>2. Limited(accepted'[u], 1, now + Window, MaxMessages, Window, now)
      BY <1>1, <1>2, <2>1, <2>2, <3>1, EntryOpensWindow
    <3> QED
      BY <1>3, <1>4, <2>3, <3>2
  <2>4. CASE ~NewWindow(u)
    <3>1. rateLimits[u].count < MaxMessages
      BY <2>4, AcceptTyped
    <3>2. Limited(accepted'[u], rateLimits[u].count + 1, rateLimits[u].resetAt,
                  MaxMessages, Window, now)
      BY <1>1, <1>2, <2>1, <2>2, <3>1, EntryInWindow
    <3> QED
      BY <1>3, <1>5, <2>4, <3>2
  <2> QED
    BY <2>3, <2>4
<1> QED
  BY <1>6, <1>7

\* Every step preserves the inductive invariant.
LEMMA NextIInv == IInv /\ [Next]_vars => IInv'
<1> SUFFICES ASSUME IInv, [Next]_vars PROVE IInv'
  OBVIOUS
<1> USE WsGatewayAssumption
<1>1. ASSUME NEW s \in Sockets, NEW u \in Users, HandleConnection(s, u)
      PROVE  IInv'
  <2>1. TypeOK' /\ OpenOwned'
    <3>1. opens' \in 0..MaxOpens
      BY <1>1 DEF IInv, TypeOK, HandleConnection
    <3>2. /\ open' \subseteq Sockets /\ data' \in [Sockets -> Users \cup {Null}]
          /\ userSockets' \in [Users -> SUBSET Sockets]
          /\ socketToUser' \in [Sockets -> Users \cup {Null}]
      <4>1. CASE UNCHANGED <<open, data, userSockets, socketToUser>>
        BY <4>1 DEF IInv, TypeOK
      <4>2. CASE /\ open' = open \cup {s}
                 /\ data' = [data EXCEPT ![s] = u]
                 /\ register(u, s)
        <5>1. open' \subseteq Sockets /\ data' \in [Sockets -> Users \cup {Null}]
          BY <4>2 DEF IInv, TypeOK
        <5>2. userSockets' \in [Users -> SUBSET Sockets]
          BY <4>2 DEF IInv, TypeOK, register
        <5>3. socketToUser' \in [Sockets -> Users \cup {Null}]
          BY <4>2 DEF IInv, TypeOK, register
        <5> QED BY <5>1, <5>2, <5>3
      <4> QED
        BY <1>1, <4>1, <4>2 DEF HandleConnection
    <3>3. OpenOwned'
      BY <1>1 DEF IInv, TypeOK, OpenOwned, HandleConnection, register
    <3> QED
      BY <1>1, <3>1, <3>2, <3>3 DEF IInv, TypeOK, HandleConnection
  <2>2. RegistryExact'
    BY <1>1 DEF IInv, TypeOK, OpenOwned, RegistryExact, HandleConnection,
       register
  <2>3. NoLimiterLeak'
    BY <1>1 DEF IInv, TypeOK, NoLimiterLeak, isUserOnline, HandleConnection,
       register
  <2>4. RateKept'
    BY <1>1 DEF IInv, RateKept, HandleConnection
  <2> QED BY <2>1, <2>2, <2>3, <2>4 DEF IInv
<1>2. ASSUME NEW s \in Sockets, HandleDisconnect(s)
      PROVE  IInv'
  <2>1. /\ userSockets' = [userSockets EXCEPT ![data[s]] = @ \ {s}]
        /\ socketToUser' = [socketToUser EXCEPT ![s] = Null]
        /\ data[s] \in Users /\ s \in open
    BY <1>2, UnregisterExact DEF HandleDisconnect, IInv, OpenOwned
  <2>2. TypeOK' /\ OpenOwned'
    BY <1>2, <2>1 DEF IInv, TypeOK, OpenOwned, HandleDisconnect
  <2>3. RegistryExact'
    BY <1>2, <2>1 DEF IInv, TypeOK, OpenOwned, RegistryExact, HandleDisconnect
  <2>4. NoLimiterLeak'
    BY <1>2, <2>1 DEF IInv, TypeOK, NoLimiterLeak, isUserOnline,
       HandleDisconnect
  <2>5. RateKept'
    BY <1>2, <2>1 DEF IInv, TypeOK, RateKept, HandleDisconnect
  <2> QED BY <2>2, <2>3, <2>4, <2>5 DEF IInv
<1>3. ASSUME NEW s \in Sockets, HandleMessage(s)
      PROVE  IInv'
  <2>1. data[s] \in Users /\ s \in userSockets[data[s]]
    BY <1>3 DEF HandleMessage, IInv, OpenOwned, RegistryExact
  <2>2. TypeOK /\ Accept(data[s])
    BY <1>3 DEF HandleMessage, IInv
  <2>3. /\ rateLimits' \in [Users -> Limit \cup {Null}] /\ accepted' \in Logs
        /\ \A v \in Users \ {data[s]} : /\ rateLimits'[v] = rateLimits[v]
                                        /\ accepted'[v] = accepted[v]
    BY <2>1, <2>2, AcceptTyped
  <2>4. TypeOK' /\ OpenOwned' /\ RegistryExact'
    BY <1>3, <2>1, <2>2, <2>3 DEF HandleMessage, IInv, TypeOK, OpenOwned,
       RegistryExact
  <2>5. NoLimiterLeak'
    BY <1>3, <2>1, <2>2, AcceptTyped DEF HandleMessage, IInv, NoLimiterLeak,
       isUserOnline
  <2>6. RateKept'
    <3> SUFFICES ASSUME NEW v \in Users \ left
                 PROVE  IF rateLimits'[v] = Null THEN accepted'[v] = <<>>
                        ELSE Limited(accepted'[v], rateLimits'[v].count,
                                     rateLimits'[v].resetAt, MaxMessages,
                                     Window, now)
      BY <1>3 DEF HandleMessage, RateKept
    <3>1. CASE v = data[s]
      BY <2>2, <3>1, AcceptKeepsRate DEF IInv
    <3>2. CASE v # data[s]
      <4>1. rateLimits'[v] = rateLimits[v] /\ accepted'[v] = accepted[v]
        BY <2>3, <3>2
      <4> QED
        BY <4>1 DEF IInv, RateKept
    <3> QED BY <3>1, <3>2
  <2> QED BY <2>4, <2>5, <2>6 DEF IInv
<1>4. ASSUME NEW u \in Users, HandlerResumes(u) \/ emitToUser(u)
      PROVE  IInv'
  <2>1. TypeOK'
    BY <1>4 DEF HandlerResumes, emitToUser, getSocketsByUser, IInv, TypeOK
  <2>2. OpenOwned' /\ RegistryExact' /\ NoLimiterLeak' /\ RateKept'
    BY <1>4 DEF HandlerResumes, emitToUser, IInv, OpenOwned, RegistryExact,
       NoLimiterLeak, isUserOnline, RateKept
  <2> QED BY <2>1, <2>2 DEF IInv
<1>5. CASE Tick
  <2>1. TypeOK' /\ OpenOwned' /\ RegistryExact' /\ NoLimiterLeak'
    BY <1>5 DEF Tick, IInv, TypeOK, OpenOwned, RegistryExact, NoLimiterLeak,
       isUserOnline, Times
  <2>2. \A u \in Users : Ordered(accepted[u], now) => Ordered(accepted[u], now')
    <3> SUFFICES ASSUME NEW u \in Users, Ordered(accepted[u], now)
                 PROVE  Ordered(accepted[u], now + 1)
      BY <1>5 DEF Tick
    <3>1. accepted[u] \in Seq(Nat) /\ now \in Nat
      BY DEF IInv, TypeOK, Times, Logs
    <3> QED BY <3>1, TimePasses
  <2>3. RateKept'
    BY <1>5, <2>2 DEF Tick, IInv, RateKept, Limited
  <2> QED BY <2>1, <2>3 DEF IInv
<1>6. CASE UNCHANGED vars
  BY <1>6 DEF vars, IInv, TypeOK, OpenOwned, RegistryExact, NoLimiterLeak,
     isUserOnline, RateKept
<1> QED
  BY <1>1, <1>2, <1>3, <1>4, <1>5, <1>6 DEF Next

\* The invariant holds in every reachable state.
THEOREM Inductive == Spec => []IInv
  BY InitIInv, NextIInv, PTL DEF Spec

\* Type correctness: in particular no limiter entry counts past the limit.
THEOREM TypeCorrect == Spec => []TypeOK
<1>1. IInv => TypeOK
  BY DEF IInv
<1> QED
  BY <1>1, Inductive, PTL

\* The maps of SocketRegistryService are inverse and agree with the open
\* sockets at all times.
THEOREM RegistryIsExact == Spec => []RegistryExact
<1>1. IInv => RegistryExact
  BY DEF IInv
<1> QED
  BY <1>1, Inductive, PTL

\* handleDisconnect leaves no limiter entry of an offline user.
THEOREM LimiterDoesNotLeak == Spec => []NoLimiterLeak
<1>1. IInv => NoLimiterLeak
  BY DEF IInv
<1> QED
  BY <1>1, Inductive, PTL

\* The user-wide limit of checkRateLimit: in any stretch of one window less
\* than twice the limit gets through, however the messages of the tabs lie with
\* respect to the resets.
THEOREM RateIsShared == Spec => []SharedRate
<1>1. IInv => SharedRate
  <2> SUFFICES ASSUME IInv, NEW u \in Users \ left
               PROVE  Spread(accepted[u], MaxMessages, Window)
    BY DEF SharedRate, Spread
  <2>1. CASE rateLimits[u] = Null
    BY <2>1 DEF IInv, RateKept, Spread
  <2>2. CASE rateLimits[u] # Null
    BY <2>2 DEF IInv, RateKept, Limited
  <2> QED
    BY <2>1, <2>2
<1> QED
  BY <1>1, Inductive, PTL

\* emitToUser reaches exactly the open sockets of its user.
THEOREM PushIsExact == Spec => PushExact
<1>1. IInv /\ [Next]_vars =>
        [sent' # sent => sent'.to = {s \in open : data[s] = sent'.user}]_vars
  <2> SUFFICES ASSUME IInv, Next, sent' # sent
               PROVE  sent'.to = {s \in open : data[s] = sent'.user}
    OBVIOUS
  <2>1. PICK u \in Users : sent' = [user |-> u, to |-> userSockets[u]]
    BY DEF Next, HandleConnection, HandleDisconnect, HandleMessage,
       HandlerResumes, emitToUser, getSocketsByUser, Tick
  <2>2. userSockets[u] = {s \in open : data[s] = u}
    BY WsGatewayAssumption DEF IInv, TypeOK, RegistryExact
  <2> QED
    BY <2>1, <2>2
<1> QED
  BY <1>1, Inductive, PTL DEF Spec, PushExact

-----------------------------------------------------------------------------
(* The rate limiter *)

\* A request in a check, or turned away by one, has a rule and an origin.
InCheck ==
  \A r \in Requests :
    req[r].pc \in {"check", "rejected"} =>
      /\ req[r].rule \in DOMAIN Rules
      /\ req[r].address \in Addresses /\ req[r].email \in Emails \cup {Absent}

\* A counter is within its limit and expires within its window.
CountersBounded ==
  \A k \in Keys :
    counter[k] # Absent => /\ counter[k].count <= Rules[k[1]].limit
                           /\ counter[k].when <= clock + Rules[k[1]].window

\* A counter nobody reset is the current window of what it granted.
GrantsKept ==
  \A k \in Keys \ cleared :
    IF counter[k] = Absent THEN granted[k] = <<>>
    ELSE Limited(granted[k], counter[k].count, counter[k].when,
                 Rules[k[1]].limit, Rules[k[1]].window, clock)

\* What a counter counts are the last entries of its log, none of them longer
\* than a window before its expiry.  This holds of counters that were reset, too.
RecentAt(log, entry, window) ==
  /\ entry.count <= Len(log)
  /\ \A i \in DOMAIN log : i + entry.count > Len(log) => log[i] + window >= entry.when

Recent ==
  \A k \in Keys :
    counter[k] # Absent => RecentAt(granted[k], counter[k], Rules[k[1]].window)

LimiterInv ==
  /\ LimiterTypeOK /\ InCheck /\ CountersBounded /\ GrantsKept /\ Recent

\* The entries of a sequence.
LEMMA SeqEntry ==
  ASSUME NEW S, NEW q \in Seq(S), NEW n \in DOMAIN q
  PROVE  q[n] \in S /\ n \in 1..Len(q)
  OBVIOUS

\* The rules are what RateLimiterAssumption says, one by one.
LEMMA RuleTyped ==
  ASSUME NEW n \in DOMAIN Rules
  PROVE  /\ Rules[n].hop \in {"gateway", "auth"}
         /\ Rules[n].source \in {"ip", "body.email"}
         /\ Rules[n].limit \in Nat \ {0} /\ Rules[n].window \in Nat \ {0}
<1>1. Rules[n] \in [hop: {"gateway", "auth"}, source: {"ip", "body.email"},
                    limit: Nat \ {0}, window: Nat \ {0}]
  BY SeqEntry, RateLimiterAssumption DEF Hops, Sources
<1> QED
  BY <1>1

\* The initial states of the limiter satisfy its invariant.
LEMMA LimiterInitInv == LimiterInit => LimiterInv
<1> SUFFICES ASSUME LimiterInit PROVE LimiterInv
  OBVIOUS
<1>1. \A r \in Requests : req[r] = Idle /\ req[r].pc = "idle"
  BY DEF LimiterInit, Idle
<1>2. LimiterTypeOK
  BY RateLimiterAssumption DEF LimiterInit, LimiterTypeOK, ClockTimes, Req, Idle,
     GrantLogs
<1>3. InCheck
  BY <1>1 DEF InCheck
<1>4. CountersBounded /\ GrantsKept /\ Recent
  BY DEF LimiterInit, CountersBounded, GrantsKept, Recent
<1> QED
  BY <1>2, <1>3, <1>4 DEF LimiterInv

\* buildKey names a counter of the request's rule.
LEMMA KeyOfRequest ==
  ASSUME InCheck, NEW r \in Requests, req[r].pc = "check"
  PROVE  buildKey(r) \in Keys /\ buildKey(r)[1] = req[r].rule
<1>1. /\ req[r].rule \in DOMAIN Rules
      /\ req[r].address \in Addresses /\ req[r].email \in Emails \cup {Absent}
  BY DEF InCheck
<1>2. /\ Rules[req[r].rule].hop \in {"gateway", "auth"}
      /\ Rules[req[r].rule].source \in {"ip", "body.email"}
  BY <1>1, RuleTyped
<1>3. \E i \in Idents : buildKey(r) = <<req[r].rule, i>>
  BY <1>1, <1>2 DEF buildKey, RuleOf, extractIp, Idents
<1> QED
  BY <1>1, <1>3 DEF Keys

\* Advance moves request r past its rule and leaves its origin alone.
LEMMA AdvanceTyped ==
  ASSUME LimiterTypeOK, InCheck,
         NEW r \in Requests, req[r].pc = "check", Advance(r)
  PROVE  /\ req' \in [Requests -> Req]
         /\ \A q \in Requests \ {r} : req'[q] = req[q]
         /\ req'[r].address = req[r].address /\ req'[r].email = req[r].email
         /\ \/ req'[r].pc = "passed"
            \/ /\ req'[r].pc = "check" /\ req'[r].rule = req[r].rule + 1
               /\ req[r].rule + 1 \in DOMAIN Rules
         /\ req'[r].pc = "passed" => req[r].rule = Len(Rules)
<1>1. /\ req[r] \in Req /\ req \in [Requests -> Req]
      /\ req[r].rule \in 1..Len(Rules) /\ Len(Rules) \in Nat
      /\ DOMAIN Rules = 1..Len(Rules)
  BY RateLimiterAssumption DEF LimiterTypeOK, InCheck
<1>2. CASE req[r].rule = Len(Rules)
  <2>1. req' = [req EXCEPT ![r] = [req[r] EXCEPT !.pc = "passed"]]
    BY <1>2 DEF Advance
  <2>2. [req[r] EXCEPT !.pc = "passed"] \in Req
    BY <1>1 DEF Req
  <2>3. /\ req'[r].pc = "passed" /\ req'[r].address = req[r].address
        /\ req'[r].email = req[r].email
    BY <2>1, <1>1 DEF Req
  <2> QED
    BY <1>1, <1>2, <2>1, <2>2, <2>3
<1>3. CASE req[r].rule # Len(Rules)
  <2>1. req' = [req EXCEPT ![r] = [req[r] EXCEPT !.rule = req[r].rule + 1]]
    BY <1>3 DEF Advance
  <2>2. [req[r] EXCEPT !.rule = req[r].rule + 1] \in Req
    BY <1>1 DEF Req
  <2>3. /\ req'[r].pc = "check" /\ req'[r].address = req[r].address
        /\ req'[r].email = req[r].email /\ req'[r].rule = req[r].rule + 1
    BY <2>1, <1>1 DEF Req
  <2>4. req[r].rule + 1 \in DOMAIN Rules
    BY <1>1, <1>3
  <2> QED
    BY <1>1, <2>1, <2>2, <2>3, <2>4
<1> QED
  BY <1>2, <1>3

\* checkAllowed below the limit writes the counter of r's key and logs it.
LEMMA CheckAllowedTyped ==
  ASSUME LimiterTypeOK, InCheck, CountersBounded,
         NEW r \in Requests, CheckAllowed(r)
  PROVE  LET k == buildKey(r)
         IN  /\ counter' \in [Keys -> Entry \cup {Absent}]
             /\ granted' \in GrantLogs
             /\ \A q \in Keys \ {k} : /\ counter'[q] = counter[q]
                                         /\ granted'[q] = granted[q]
             /\ granted'[k] = Append(granted[k], clock)
             /\ counter'[k] \in Entry
             /\ \/ /\ counter[k] \in Entry /\ clock <= counter[k].when
                   /\ counter[k].count < Rules[k[1]].limit
                   /\ counter'[k].count = counter[k].count + 1
                   /\ counter'[k].when = counter[k].when
                \/ /\ counter[k] = Absent \/ clock > counter[k].when
                   /\ counter'[k].count = 1
                   /\ counter'[k].when = clock + Rules[k[1]].window
<1> DEFINE k == buildKey(r)
<1>1. /\ k \in Keys /\ k[1] = req[r].rule /\ k[1] \in DOMAIN Rules
      /\ req[r].pc = "check" /\ RuleOf(r) = Rules[k[1]]
  BY KeyOfRequest DEF CheckAllowed, InCheck, RuleOf
<1>2. /\ granted' = [granted EXCEPT ![k] = Append(granted[k], clock)]
      /\ counter' = [counter EXCEPT ![k] =
           IF Live(k) THEN [counter[k] EXCEPT !.count = counter[k].count + 1]
           ELSE [count |-> 1, when |-> clock + Rules[k[1]].window]]
      /\ Count(k) < Rules[k[1]].limit
  <2>1. granted' = [granted EXCEPT ![k] = Append(granted[k], clock)]
    BY DEF CheckAllowed
  <2>2. Count(k) < RuleOf(r).limit
    BY DEF CheckAllowed
  <2>3. counter' = [counter EXCEPT ![k] =
          IF Live(k) THEN [counter[k] EXCEPT !.count = counter[k].count + 1]
          ELSE [count |-> 1, when |-> clock + RuleOf(r).window]]
    BY DEF CheckAllowed
  <2> QED
    BY <1>1, <2>1, <2>2, <2>3
<1>3. /\ counter \in [Keys -> Entry \cup {Absent}] /\ granted \in GrantLogs
      /\ clock \in Nat
  BY DEF LimiterTypeOK, ClockTimes
<1> HIDE DEF k
<1>4. /\ granted' \in GrantLogs /\ granted'[k] = Append(granted[k], clock)
      /\ \A q \in Keys \ {k} : granted'[q] = granted[q]
  <2>1. Append(granted[k], clock) \in Seq(Nat)
    BY <1>1, <1>3 DEF GrantLogs
  <2> QED
    BY <1>1, <1>2, <1>3, <2>1 DEF GrantLogs
<1>5. CASE Live(k)
  <2>1. counter[k] # Absent /\ clock <= counter[k].when /\ Count(k) = counter[k].count
    BY <1>5 DEF Live, Count
  <2>2. counter[k] \in Entry
    BY <2>1, <1>1, <1>3
  <2>3. [counter[k] EXCEPT !.count = counter[k].count + 1] \in Entry
    BY <2>2 DEF Entry
  <2>4. counter' = [counter EXCEPT
                      ![k] = [counter[k] EXCEPT !.count = counter[k].count + 1]]
    BY <1>2, <1>5
  <2>5. counter'[k] = [counter[k] EXCEPT !.count = counter[k].count + 1]
    BY <2>4, <1>1, <1>3
  <2>6. /\ counter'[k].count = counter[k].count + 1
        /\ counter'[k].when = counter[k].when
    BY <2>5, <2>2 DEF Entry
  <2> QED
    BY <1>1, <1>2, <1>3, <1>4, <2>1, <2>2, <2>3, <2>4, <2>5, <2>6 DEF k
<1>6. CASE ~Live(k)
  <2>1. counter[k] = Absent \/ clock > counter[k].when
    <3>1. counter[k] = Absent \/ ~(clock <= counter[k].when)
      BY <1>6 DEF Live
    <3>2. counter[k] # Absent => counter[k].when \in Nat
      BY <1>1, <1>3 DEF Entry
    <3> QED
      BY <3>1, <3>2, <1>3
  <2>2. [count |-> 1, when |-> clock + Rules[k[1]].window] \in Entry
    BY <1>1, <1>3, RuleTyped DEF Entry
  <2>3. counter' = [counter EXCEPT ![k] =
                      [count |-> 1, when |-> clock + Rules[k[1]].window]]
    BY <1>2, <1>6
  <2>4. counter'[k] = [count |-> 1, when |-> clock + Rules[k[1]].window]
    BY <2>3, <1>1, <1>3
  <2>5. counter'[k].count = 1 /\ counter'[k].when = clock + Rules[k[1]].window
    BY <2>4
  <2> QED
    BY <1>1, <1>3, <1>4, <2>1, <2>2, <2>3, <2>4, <2>5 DEF k
<1> QED
  BY <1>5, <1>6

\* When r gets past its rule it is still in check or has passed, and nobody
\* else moves.
LEMMA AdvanceKeepsChecks ==
  ASSUME LimiterTypeOK, InCheck,
         NEW r \in Requests, req[r].pc = "check", Advance(r)
  PROVE  req' \in [Requests -> Req] /\ InCheck'
<1>1. /\ req' \in [Requests -> Req]
      /\ \A q \in Requests \ {r} : req'[q] = req[q]
      /\ req'[r].address = req[r].address /\ req'[r].email = req[r].email
      /\ \/ req'[r].pc = "passed"
         \/ /\ req'[r].pc = "check" /\ req'[r].rule \in DOMAIN Rules
  BY AdvanceTyped
<1> QED
  BY <1>1 DEF InCheck

\* The step of the script below the limit.
LEMMA CheckAllowedInv ==
  ASSUME LimiterInv, NEW r \in Requests, CheckAllowed(r)
  PROVE  LimiterInv'
<1>0. LimiterTypeOK /\ InCheck /\ CountersBounded /\ GrantsKept /\ Recent
  BY DEF LimiterInv
<1>1. PICK k \in Keys :
             k = buildKey(r) /\ k[1] = req[r].rule /\ k[1] \in DOMAIN Rules
  BY <1>0, KeyOfRequest DEF CheckAllowed, InCheck
<1>2. /\ req[r].pc = "check" /\ Advance(r)
      /\ clock' = clock /\ faults' = faults /\ arrivals' = arrivals
      /\ cleared' = cleared
  BY DEF CheckAllowed
<1>3. /\ counter' \in [Keys -> Entry \cup {Absent}]
      /\ granted' \in GrantLogs
      /\ \A q \in Keys \ {k} : /\ counter'[q] = counter[q]
                                  /\ granted'[q] = granted[q]
      /\ granted'[k] = Append(granted[k], clock)
      /\ counter'[k] \in Entry
      /\ \/ /\ counter[k] \in Entry /\ clock <= counter[k].when
            /\ counter[k].count < Rules[k[1]].limit
            /\ counter'[k].count = counter[k].count + 1
            /\ counter'[k].when = counter[k].when
         \/ /\ counter[k] = Absent \/ clock > counter[k].when
            /\ counter'[k].count = 1
            /\ counter'[k].when = clock + Rules[k[1]].window
  BY <1>0, <1>1, CheckAllowedTyped
<1>4. /\ Rules[k[1]].limit \in Nat \ {0} /\ Rules[k[1]].window \in Nat \ {0}
      /\ Rules[k[1]].window \in Nat
  BY <1>1, RuleTyped
<1>5. clock \in Nat /\ granted[k] \in Seq(Nat)
  BY <1>0, <1>1 DEF LimiterTypeOK, ClockTimes, GrantLogs
<1>6. counter[k] \in Entry =>
        counter[k].count \in Nat \ {0} /\ counter[k].when \in Nat
  BY DEF Entry
<1>7. counter'[k] # Absent /\ (counter[k] \in Entry => counter[k] # Absent)
  BY <1>3, AbsentAssumption
<1>8. counter[k] = Absent \/ counter[k] \in Entry
  BY <1>0, <1>1 DEF LimiterTypeOK
<1>9. LimiterTypeOK'
  BY <1>0, <1>2, <1>3, AdvanceKeepsChecks DEF LimiterTypeOK
<1>10. InCheck'
  BY <1>0, <1>2, AdvanceKeepsChecks
<1>11. CountersBounded'
  <2>1. /\ counter'[k].count <= Rules[k[1]].limit
        /\ counter'[k].when <= clock + Rules[k[1]].window
    BY <1>0, <1>3, <1>4, <1>5, <1>6, <1>7 DEF CountersBounded
  <2> QED
    BY <1>0, <1>2, <1>3, <2>1 DEF CountersBounded
<1>12. GrantsKept'
  <2> SUFFICES ASSUME k \notin cleared
               PROVE  Limited(granted'[k], counter'[k].count, counter'[k].when,
                              Rules[k[1]].limit, Rules[k[1]].window, clock)
    BY <1>0, <1>2, <1>3, <1>7 DEF GrantsKept
  <2>1. Extends(granted'[k], granted[k], clock)
    BY <1>3, <1>5, Appended
  <2>2. counter[k] \in Entry =>
          Limited(granted[k], counter[k].count, counter[k].when,
                  Rules[k[1]].limit, Rules[k[1]].window, clock)
    BY <1>0, <1>7 DEF GrantsKept
  <2>3. CASE counter[k] = Absent
    <3>1. granted[k] = <<>> /\ counter[k] \notin Entry
      BY <1>0, <1>7, <2>3 DEF GrantsKept
    <3>2. Limited(granted'[k], 1, clock + Rules[k[1]].window, Rules[k[1]].limit,
                  Rules[k[1]].window, clock)
      BY <1>3, <1>4, <1>5, <3>1, FirstEntry
    <3> QED
      BY <1>3, <3>1, <3>2
  <2>4. CASE counter[k] \in Entry /\ clock > counter[k].when
    <3>1. counter[k].count \in 1..Rules[k[1]].limit
      BY <1>0, <1>4, <1>6, <1>7, <2>4 DEF CountersBounded
    <3>2. Limited(granted'[k], 1, clock + Rules[k[1]].window, Rules[k[1]].limit,
                  Rules[k[1]].window, clock)
      BY <1>4, <1>5, <2>1, <2>2, <2>4, <3>1, EntryOpensWindow
    <3>3. counter'[k].count = 1 /\ counter'[k].when = clock + Rules[k[1]].window
      BY <1>3, <1>5, <1>6, <2>4
    <3> QED
      BY <3>2, <3>3
  <2>5. CASE counter[k] \in Entry /\ ~(clock > counter[k].when)
    <3>1. /\ counter[k].count < Rules[k[1]].limit
          /\ counter'[k].count = counter[k].count + 1
          /\ counter'[k].when = counter[k].when
      BY <1>3, <1>7, <2>5
    <3>2. Limited(granted'[k], counter[k].count + 1, counter[k].when,
                  Rules[k[1]].limit, Rules[k[1]].window, clock)
      BY <1>4, <1>5, <1>6, <2>1, <2>2, <2>5, <3>1, EntryInWindow
    <3> QED
      BY <3>1, <3>2
  <2> QED
    BY <1>8, <2>3, <2>4, <2>5
<1>13. Recent'
  <2>1. PICK n \in Nat :
             /\ Len(granted[k]) = n /\ DOMAIN granted[k] = 1..n
             /\ Len(granted'[k]) = n + 1 /\ DOMAIN granted'[k] = 1..(n + 1)
             /\ granted'[k][n + 1] = clock
             /\ \A i \in 1..n : granted'[k][i] = granted[k][i] /\ granted[k][i] \in Nat
    <3>1. Extends(granted'[k], granted[k], clock)
      BY <1>3, <1>5, Appended
    <3> QED
      BY <3>1 DEF Extends
  <2>2. counter[k] \in Entry => RecentAt(granted[k], counter[k], Rules[k[1]].window)
    BY <1>0, <1>7 DEF Recent
  <2>3. ASSUME counter'[k].count = 1, counter'[k].when = clock + Rules[k[1]].window
        PROVE  RecentAt(granted'[k], counter'[k], Rules[k[1]].window)
    BY <1>4, <1>5, <2>1, <2>3 DEF RecentAt
  <2>4. ASSUME counter[k] \in Entry, clock <= counter[k].when,
               counter'[k].count = counter[k].count + 1,
               counter'[k].when = counter[k].when
        PROVE  RecentAt(granted'[k], counter'[k], Rules[k[1]].window)
    <3>1. counter[k].when <= clock + Rules[k[1]].window
      BY <1>0, <1>7, <2>4 DEF CountersBounded
    <3>2. /\ counter[k].count <= n
          /\ \A i \in 1..n : i + counter[k].count > n =>
               granted[k][i] + Rules[k[1]].window >= counter[k].when
      BY <2>1, <2>2, <2>4 DEF RecentAt
    <3>3. counter[k].count \in Nat
      BY <1>6, <2>4
    <3>4. \A i \in 1..n : i + (counter[k].count + 1) > n + 1 =>
            granted'[k][i] + Rules[k[1]].window >= counter[k].when
      BY <2>1, <3>2, <3>3
    <3>5. granted'[k][n + 1] + Rules[k[1]].window >= counter[k].when
      BY <1>4, <1>6, <2>1, <2>4, <3>1
    <3>6. \A i \in 1..(n + 1) : i + (counter[k].count + 1) > n + 1 =>
            granted'[k][i] + Rules[k[1]].window >= counter[k].when
      <4>1. \A i \in 1..(n + 1) : i \in 1..n \/ i = n + 1
        OBVIOUS
      <4> QED
        BY <3>4, <3>5, <4>1
    <3>7. counter[k].count + 1 <= n + 1
      BY <3>2, <3>3
    <3> QED
      BY <2>1, <2>4, <3>6, <3>7 DEF RecentAt
  <2>5. RecentAt(granted'[k], counter'[k], Rules[k[1]].window)
    BY <1>3, <2>3, <2>4
  <2> QED
    BY <1>0, <1>3, <2>5 DEF Recent
<1> QED
  BY <1>9, <1>10, <1>11, <1>12, <1>13 DEF LimiterInv

\* A request that arrives starts with the first rule.
LEMMA ArriveInv ==
  ASSUME LimiterInv, NEW r \in Requests, NEW remote \in Addresses,
         NEW forwarded \in Addresses \cup {Absent}, NEW email \in Emails \cup {Absent},
         Arrive(r, remote, forwarded, email)
  PROVE  LimiterInv'
<1>0. LimiterTypeOK /\ InCheck /\ CountersBounded /\ GrantsKept /\ Recent
  BY DEF LimiterInv
<1>1. /\ req[r].pc = "idle" /\ arrivals < MaxArrivals /\ arrivals' = arrivals + 1
      /\ req' = [req EXCEPT ![r] =
                   [pc |-> IF Rules = <<>> THEN "passed" ELSE "check",
                    address |-> extractIp(forwarded, remote), email |-> email,
                    rule |-> 1]]
      /\ counter' = counter /\ clock' = clock /\ faults' = faults
      /\ granted' = granted /\ cleared' = cleared
  BY DEF Arrive, Idle
<1>2. extractIp(forwarded, remote) \in Addresses
  BY DEF extractIp
<1>3. /\ req' \in [Requests -> Req]
      /\ \A q \in Requests \ {r} : req'[q] = req[q]
      /\ req'[r].pc = IF Rules = <<>> THEN "passed" ELSE "check"
      /\ req'[r].address \in Addresses /\ req'[r].email \in Emails \cup {Absent}
      /\ req'[r].rule = 1
  BY <1>0, <1>1, <1>2 DEF Req, LimiterTypeOK
<1>4. arrivals' \in 0..MaxArrivals
  BY <1>0, <1>1, RateLimiterAssumption DEF LimiterTypeOK
<1>5. Rules # <<>> => 1 \in DOMAIN Rules
  BY RateLimiterAssumption
<1>6. LimiterTypeOK'
  BY <1>0, <1>1, <1>3, <1>4 DEF LimiterTypeOK
<1>7. InCheck'
  BY <1>0, <1>3, <1>5 DEF InCheck
<1>8. CountersBounded' /\ GrantsKept' /\ Recent'
  BY <1>0, <1>1 DEF CountersBounded, GrantsKept, Recent
<1> QED
  BY <1>6, <1>7, <1>8 DEF LimiterInv

\* A request that is turned away counts for nothing.
LEMMA CheckRejectedInv ==
  ASSUME LimiterInv, NEW r \in Requests, CheckRejected(r)
  PROVE  LimiterInv'
<1>0. LimiterTypeOK /\ InCheck /\ CountersBounded /\ GrantsKept /\ Recent
  BY DEF LimiterInv
<1>1. /\ req[r].pc = "check"
      /\ req' = [req EXCEPT ![r] = [req[r] EXCEPT !.pc = "rejected"]]
      /\ counter' = counter /\ clock' = clock /\ faults' = faults
      /\ arrivals' = arrivals /\ granted' = granted /\ cleared' = cleared
  BY DEF CheckRejected
<1>2. req \in [Requests -> Req] /\ req[r] \in Req
  BY <1>0 DEF LimiterTypeOK
<1>3. /\ req' \in [Requests -> Req]
      /\ \A q \in Requests \ {r} : req'[q] = req[q]
      /\ req'[r].pc = "rejected" /\ req'[r].address = req[r].address
      /\ req'[r].email = req[r].email /\ req'[r].rule = req[r].rule
  BY <1>1, <1>2 DEF Req
<1>4. LimiterTypeOK'
  BY <1>0, <1>1, <1>3 DEF LimiterTypeOK
<1>5. InCheck' /\ CountersBounded' /\ GrantsKept' /\ Recent'
  BY <1>0, <1>1, <1>3 DEF InCheck, CountersBounded, GrantsKept, Recent
<1> QED
  BY <1>4, <1>5 DEF LimiterInv

\* A request that is answered is forgotten, what it was counted for is not.
LEMMA DoneInv ==
  ASSUME LimiterInv, NEW r \in Requests, Done(r)
  PROVE  LimiterInv'
<1>0. LimiterTypeOK /\ InCheck /\ CountersBounded /\ GrantsKept /\ Recent
  BY DEF LimiterInv
<1>1. /\ req' = [req EXCEPT ![r] = Idle]
      /\ counter' = counter /\ clock' = clock /\ faults' = faults
      /\ arrivals' = arrivals /\ granted' = granted /\ cleared' = cleared
  BY DEF Done
<1>2. Idle \in Req /\ Idle.pc = "idle"
  BY DEF Idle, Req
<1>3. /\ req' \in [Requests -> Req]
      /\ \A q \in Requests \ {r} : req'[q] = req[q]
      /\ req'[r].pc = "idle"
  BY <1>0, <1>1, <1>2 DEF LimiterTypeOK
<1>4. LimiterTypeOK'
  BY <1>0, <1>1, <1>3 DEF LimiterTypeOK
<1>5. InCheck' /\ CountersBounded' /\ GrantsKept' /\ Recent'
  BY <1>0, <1>1, <1>3 DEF InCheck, CountersBounded, GrantsKept, Recent
<1> QED
  BY <1>4, <1>5 DEF LimiterInv

\* Redis does not answer: the request moves on and no counter knows.
LEMMA CheckFailsOpenInv ==
  ASSUME LimiterInv, NEW r \in Requests, CheckFailsOpen(r)
  PROVE  LimiterInv'
<1>0. LimiterTypeOK /\ InCheck /\ CountersBounded /\ GrantsKept /\ Recent
  BY DEF LimiterInv
<1>1. /\ req[r].pc = "check" /\ Advance(r)
      /\ counter' = counter /\ clock' = clock /\ faults' \in 0..MaxFaults
      /\ arrivals' = arrivals /\ granted' = granted /\ cleared' = cleared
  BY <1>0, RateLimiterAssumption DEF CheckFailsOpen, LimiterTypeOK
<1>2. LimiterTypeOK' /\ InCheck'
  BY <1>0, <1>1, AdvanceKeepsChecks DEF LimiterTypeOK
<1>3. CountersBounded' /\ GrantsKept' /\ Recent'
  BY <1>0, <1>1 DEF CountersBounded, GrantsKept, Recent
<1> QED
  BY <1>2, <1>3 DEF LimiterInv

\* RateLimiterService.reset forgets a counter.
LEMMA ResetInv ==
  ASSUME LimiterInv, NEW k \in Keys, Reset(k)
  PROVE  LimiterInv'
<1>0. LimiterTypeOK /\ InCheck /\ CountersBounded /\ GrantsKept /\ Recent
  BY DEF LimiterInv
<1>1. /\ counter' = [counter EXCEPT ![k] = Absent] /\ cleared' = cleared \cup {k}
      /\ req' = req /\ clock' = clock /\ faults' = faults
      /\ arrivals' = arrivals /\ granted' = granted
  BY DEF Reset
<1>2. /\ counter' \in [Keys -> Entry \cup {Absent}]
      /\ counter'[k] = Absent
      /\ \A q \in Keys \ {k} : counter'[q] = counter[q]
  BY <1>0, <1>1 DEF LimiterTypeOK
<1>3. LimiterTypeOK'
  BY <1>0, <1>1, <1>2 DEF LimiterTypeOK
<1>4. InCheck' /\ CountersBounded' /\ GrantsKept' /\ Recent'
  BY <1>0, <1>1, <1>2 DEF InCheck, CountersBounded, GrantsKept, Recent
<1> QED
  BY <1>3, <1>4 DEF LimiterInv

\* Time passes.
LEMMA LimiterTickInv == LimiterInv /\ ClockTick => LimiterInv'
<1> SUFFICES ASSUME LimiterInv, ClockTick PROVE LimiterInv'
  OBVIOUS
<1>0. LimiterTypeOK /\ InCheck /\ CountersBounded /\ GrantsKept /\ Recent
  BY DEF LimiterInv
<1>1. /\ clock' = clock + 1 /\ clock < MaxClock /\ clock \in Nat
      /\ req' = req /\ counter' = counter /\ faults' = faults
      /\ arrivals' = arrivals /\ granted' = granted /\ cleared' = cleared
  BY <1>0 DEF ClockTick, LimiterTypeOK, ClockTimes
<1>2. LimiterTypeOK'
  BY <1>0, <1>1, RateLimiterAssumption DEF LimiterTypeOK, ClockTimes
<1>3. InCheck' /\ Recent'
  BY <1>0, <1>1 DEF InCheck, Recent
<1>4. CountersBounded'
  <2> SUFFICES ASSUME NEW k \in Keys, counter[k] # Absent
               PROVE  /\ counter[k].count <= Rules[k[1]].limit
                      /\ counter[k].when <= (clock + 1) + Rules[k[1]].window
    BY <1>1 DEF CountersBounded
  <2>1. k[1] \in DOMAIN Rules /\ counter[k] \in Entry
    BY <1>0 DEF Keys, LimiterTypeOK
  <2>2. counter[k].when \in Nat /\ Rules[k[1]].window \in Nat
    BY <2>1, RuleTyped DEF Entry
  <2> QED
    BY <1>0, <1>1, <2>2 DEF CountersBounded
<1>5. GrantsKept'
  <2>1. \A k \in Keys : Ordered(granted[k], clock) => Ordered(granted[k], clock + 1)
    BY <1>0, <1>1, TimePasses DEF LimiterTypeOK, GrantLogs
  <2> QED
    BY <1>0, <1>1, <2>1 DEF GrantsKept, Limited
<1> QED
  BY <1>2, <1>3, <1>4, <1>5 DEF LimiterInv

\* Every step of the limiter preserves its invariant.
LEMMA LimiterNextInv == LimiterInv /\ [LimiterNext]_limiterVars => LimiterInv'
<1> SUFFICES ASSUME LimiterInv, [LimiterNext]_limiterVars PROVE LimiterInv'
  OBVIOUS
<1>1. CASE UNCHANGED limiterVars
  <2>1. /\ req' = req /\ counter' = counter /\ faults' = faults /\ clock' = clock
        /\ arrivals' = arrivals /\ granted' = granted /\ cleared' = cleared
    BY <1>1 DEF limiterVars
  <2> QED
    BY <2>1 DEF LimiterInv, LimiterTypeOK, InCheck, CountersBounded, GrantsKept,
       Recent
<1> QED
  BY <1>1, ArriveInv, CheckAllowedInv, CheckRejectedInv, CheckFailsOpenInv,
     DoneInv, ResetInv, LimiterTickInv DEF LimiterNext

\* The invariant of the limiter holds in every reachable state.
THEOREM LimiterInductive == LimiterSpec => []LimiterInv
<1>1. LimiterInv /\ [LimiterNext]_limiterVars => LimiterInv'
  BY LimiterNextInv
<1>2. LimiterInit => LimiterInv
  BY LimiterInitInv
<1> QED
  BY <1>1, <1>2, PTL DEF LimiterSpec

\* PEXPIRE when the key is created: every counter expires within its window,
\* also one at the limit, whatever fails or is reset meanwhile.
THEOREM NobodyIsLockedOut == LimiterSpec => []NoLockout
<1>1. LimiterInv => NoLockout
  BY DEF LimiterInv, CountersBounded, NoLockout, Live
<1> QED
  BY <1>1, LimiterInductive, PTL

\* Only the script at the limit turns a request away.
LEMMA OnlyFullRejects ==
  ASSUME LimiterInv, [LimiterNext]_limiterVars, NEW r \in Requests,
         req[r].pc = "check", req'[r].pc = "rejected"
  PROVE  Count(buildKey(r)) >= RuleOf(r).limit
<1>0. LimiterTypeOK /\ InCheck /\ req \in [Requests -> Req]
  BY DEF LimiterInv, LimiterTypeOK
<1>1. req' # req
  OBVIOUS
<1>2. ASSUME NEW q \in Requests, NEW remote, NEW forwarded, NEW email,
             Arrive(q, remote, forwarded, email)
      PROVE  FALSE
  BY <1>0, <1>2 DEF Arrive, Idle
<1>3. ASSUME NEW q \in Requests, CheckAllowed(q) \/ CheckFailsOpen(q)
      PROVE  FALSE
  <2>1. req[q].pc = "check" /\ Advance(q)
    BY <1>3 DEF CheckAllowed, CheckFailsOpen
  <2> QED
    BY <1>0, <2>1, AdvanceTyped
<1>4. ASSUME NEW q \in Requests, Done(q) PROVE FALSE
  BY <1>0, <1>4 DEF Done, Idle
<1>5. ASSUME NEW q \in Requests, CheckRejected(q) PROVE q = r
  BY <1>0, <1>5 DEF CheckRejected
<1>6. CheckRejected(r)
  BY <1>1, <1>2, <1>3, <1>4, <1>5 DEF LimiterNext, limiterVars, Reset, ClockTick
<1> QED
  BY <1>6 DEF CheckRejected

\* A full counter that is not expired has a full window behind it.
LEMMA FullWindow ==
  ASSUME LimiterInv, NEW r \in Requests, req[r].pc = "check",
         Count(buildKey(r)) >= RuleOf(r).limit
  PROVE  /\ Len(granted[buildKey(r)]) >= RuleOf(r).limit
         /\ granted[buildKey(r)][Len(granted[buildKey(r)]) + 1 - RuleOf(r).limit]
              + RuleOf(r).window >= clock
<1>0. LimiterTypeOK /\ InCheck /\ Recent
  BY DEF LimiterInv
<1>1. PICK k \in Keys :
             k = buildKey(r) /\ k[1] = req[r].rule /\ k[1] \in DOMAIN Rules
  BY <1>0, KeyOfRequest DEF InCheck
<1>2. /\ Rules[k[1]].limit \in Nat \ {0} /\ Rules[k[1]].window \in Nat
      /\ RuleOf(r) = Rules[k[1]]
  BY <1>1, RuleTyped DEF RuleOf
<1>3. /\ counter[k] \in Entry \cup {Absent} /\ clock \in Nat
      /\ granted[k] \in Seq(Nat)
  BY <1>0, <1>1 DEF LimiterTypeOK, ClockTimes, GrantLogs
<1>4. /\ counter[k] # Absent /\ clock <= counter[k].when
      /\ counter[k].count >= Rules[k[1]].limit
  BY <1>1, <1>2 DEF Count, Live
<1>5. counter[k].count \in Nat /\ counter[k].when \in Nat
  BY <1>3, <1>4 DEF Entry
<1>6. RecentAt(granted[k], counter[k], Rules[k[1]].window)
  BY <1>0, <1>4 DEF Recent
<1>7. PICK n \in Nat : /\ Len(granted[k]) = n /\ DOMAIN granted[k] = 1..n
                       /\ \A i \in 1..n : granted[k][i] \in Nat
  BY <1>3
<1>8. n >= Rules[k[1]].limit
  BY <1>2, <1>4, <1>5, <1>6, <1>7 DEF RecentAt
<1>9. PICK m \in 1..n : m = n + 1 - Rules[k[1]].limit
  BY <1>2, <1>8
<1>10. granted[k][m] + Rules[k[1]].window >= counter[k].when
  <2>1. m + counter[k].count > n
    BY <1>2, <1>4, <1>5, <1>9
  <2> QED
    BY <1>6, <1>7, <2>1 DEF RecentAt
<1>11. granted[k][m] + Rules[k[1]].window >= clock
  BY <1>2, <1>3, <1>4, <1>5, <1>7, <1>10
<1> QED
  BY <1>1, <1>2, <1>7, <1>8, <1>9, <1>11

\* A guard answers 429 only when as many requests as its rule allows were let
\* through under the same identifier within the window before.
THEOREM OnlyFullWindowsRefuse == LimiterSpec => RefusesFullWindows
<1>1. LimiterInv /\ [LimiterNext]_limiterVars =>
        [\A r \in Requests :
           req[r].pc = "check" /\ req'[r].pc = "rejected" =>
             LET rule == RuleOf(r)  log == granted[buildKey(r)]
             IN  /\ Len(log) >= rule.limit
                 /\ log[Len(log) + 1 - rule.limit] + rule.window >= clock]_limiterVars
  BY OnlyFullRejects, FullWindow
<1> QED
  BY <1>1, LimiterInductive, PTL DEF LimiterSpec, RefusesFullWindows

\* The Lua script lets less than twice the limit through in any stretch of one
\* window, for any rules and however the checks of requests interleave.
THEOREM BurstsAreBounded == LimiterSpec => []BurstBound
<1>1. LimiterInv => BurstBound
  <2> SUFFICES ASSUME LimiterInv, NEW k \in Keys \ cleared
               PROVE  Spread(granted[k], Rules[k[1]].limit, Rules[k[1]].window)
    BY DEF BurstBound, Spread
  <2>1. CASE counter[k] = Absent
    BY <2>1 DEF LimiterInv, GrantsKept, Spread
  <2>2. CASE counter[k] # Absent
    BY <2>2 DEF LimiterInv, GrantsKept, Limited
  <2> QED
    BY <2>1, <2>2
<1> QED
  BY <1>1, LimiterInductive, PTL
=============================================================================
