----------------------------- MODULE MCSessions -----------------------------
(***************************************************************************)
(* Instances of Sessions for TLC.  Processes and devices are symmetric.    *)
(***************************************************************************)
EXTENDS Sessions, TLC

Symmetry == Permutations(Procs) \cup Permutations(Devices)

\* One role change, password reset or lost response in the middle of the
\* other requests; a second one is the last step of a behaviour.
FewEvents == \A u \in Users : lost + permVersion[u] + pwd[u] <= 1
=============================================================================
