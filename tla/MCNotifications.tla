-------------------------- MODULE MCNotifications --------------------------
(***************************************************************************)
(* A small instance of Notifications.  The reader of the list depends on   *)
(* the rows and their createdAt, and only the reader depends on createdAt: *)
(* the second moment and the third row are for behaviours in which nothing *)
(* is marked read and nothing fails, and rows are created during a walk    *)
(* but their events are not delivered.                                     *)
(***************************************************************************)
EXTENDS Notifications, TLC

Symmetry == Permutations(Users) \cup Permutations(Procs)
LimitsMC == {NaN, -1, 0, 3}

Apart ==
  \/ reads = 0 /\ faults = 0 /\ (walk # Null => events = {})
  \/ /\ walk = Null /\ Len(note) < MaxNotes
     /\ \A i \in 1..Len(note) : note[i].createdAt = 1
=============================================================================
