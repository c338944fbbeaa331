------------------------------- MODULE MCRbac -------------------------------
(***************************************************************************)
(* Instances of Rbac for TLC.  Requests, roles and permissions are         *)
(* interchangeable.                                                        *)
(***************************************************************************)
EXTENDS Rbac, TLC

Symmetry == Permutations(Admins) \cup Permutations(Guards)
              \cup Permutations(Roles) \cup Permutations(Perms)

\* One role edit or one failing request in the middle of the others; a second
\* one is the last step of a behaviour.
FewEvents == edits + faults <= 1
=============================================================================
