---------------------------- MODULE MCIdempotency ----------------------------
(***************************************************************************)
(* A small instance of Idempotency: three requests with one key or none    *)
(* and two bodies.  Requests and bodies are interchangeable; since liveness *)
(* is checked, the copies are cut by constraints: requests arrive in the   *)
(* order of their numbers and the first has body 1.  The first of a        *)
(* restart and a failed database call is followed to the end, a second one *)
(* ends the behaviour.                                                     *)
(***************************************************************************)
EXTENDS Idempotency

InOrder == \A r, q \in Requests : r < q /\ pc[q] # "idle" => pc[r] # "idle"
FirstBody == arg[1].body = 1
OneEvent == restarts + dbFaults <= 1
=============================================================================
