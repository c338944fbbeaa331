---------------------------- MODULE RegisterOnce ----------------------------
(***************************************************************************)
(* What POST /client/auth/register promises to clients that send a         *)
(* registration again: an e-mail is registered once; under a key a second  *)
(* registration takes place only after an attempt was marked failed; a     *)
(* success names a registration that took place, the same one to all who   *)
(* ask under one key.  A refusal promises nothing: the registration may    *)
(* have taken place or take place later.  Idempotency implements this      *)
(* specification.                                                          *)
(***************************************************************************)
CONSTANTS Requests, Keys, NoKey, Bodies,
          Nobody,   \* the e-mail is not registered
          Pending,  \* the client waits for its answer
          Refused   \* any answer but a success

VARIABLES arg,      \* what each request sends: its key and its body
          users,    \* e-mail (body) -> the request that registered it
          failed,   \* keys an attempt of which was marked failed
          outcome   \* what each client was told: a request, when a success

vars == <<arg, users, failed, outcome>>

Registered(q) == users[arg[q].body] = q
SameKey(q, r) == arg[q].key = arg[r].key /\ arg[r].key # NoKey

Init ==
  /\ arg \in [Requests -> [key: Keys \cup {NoKey}, body: Bodies]]
  /\ users = [b \in Bodies |-> Nobody]
  /\ failed = {}
  /\ outcome = [r \in Requests |-> Pending]

\* The auth-service creates the user, possibly after the client was refused,
\* but never for a request that was answered with a success.
Register(r) ==
  /\ users[arg[r].body] = Nobody
  /\ outcome[r] \in {Pending, Refused}
  /\ \A q \in Requests :
       SameKey(q, r) /\ Registered(q) => arg[r].key \in failed
  /\ users' = [users EXCEPT ![arg[r].body] = r]
  /\ UNCHANGED <<arg, failed, outcome>>

\* The client is told of the registration of q, its own or that of a request
\* with its key.
Succeed(r, q) ==
  /\ outcome[r] = Pending
  /\ Registered(q) /\ (q = r \/ SameKey(q, r))
  /\ \A s \in Requests :
       SameKey(s, r) /\ outcome[s] \in Requests => outcome[s] = q
  /\ outcome' = [outcome EXCEPT ![r] = q]
  /\ UNCHANGED <<arg, users, failed>>

\* The attempt is marked failed, the client is refused, or both.
Fail(r) ==
  /\ outcome[r] = Pending
  /\ failed' \in {failed, failed \cup ({arg[r].key} \ {NoKey})}
  /\ outcome' \in {outcome, [outcome EXCEPT ![r] = Refused]}
  /\ UNCHANGED <<arg, users>>

Next ==
  \E r \in Requests :
    \/ Register(r) \/ Fail(r)
    \/ \E q \in Requests : Succeed(r, q)

Spec == Init /\ [][Next]_vars
=============================================================================
