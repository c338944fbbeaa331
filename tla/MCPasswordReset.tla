--------------------------- MODULE MCPasswordReset ---------------------------
\* Small instances of PasswordReset: two users, two handlers at a time.
EXTENDS PasswordReset, TLC

Symmetry == Permutations(Users) \cup Permutations(Procs)
=============================================================================
