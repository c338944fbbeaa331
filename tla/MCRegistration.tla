--------------------------- MODULE MCRegistration ---------------------------
(***************************************************************************)
(* A small instance of Registration: two addresses, two handlers at a      *)
(* time.  Addresses and handlers are interchangeable; since liveness is    *)
(* checked, the copies are cut by constraints: handler 1 registers address *)
(* 1 first.  The first of a fault and a restart is followed to the end, a  *)
(* second one ends the behaviour.                                          *)
(***************************************************************************)
EXTENDS Registration

FirstCode ==
  \A p \in Procs : op[p].pc = "create" /\ op[p].code = 1 => p = 1 /\ op[p].email = 1
OneEvent == faults + crashes <= 1
=============================================================================
