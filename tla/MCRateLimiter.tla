---------------------------- MODULE MCRateLimiter ----------------------------
(***************************************************************************)
(* An instance of RateLimiter for TLC.  Requests, addresses and e-mails    *)
(* are interchangeable.                                                    *)
(***************************************************************************)
EXTENDS RateLimiter, TLC

Rule(h, s, l, w) == [hop |-> h, source |-> s, limit |-> l, window |-> w]

\* login with its limits scaled down: per address at both hops, per e-mail at
\* the second.
LoginRules == <<Rule("gateway", "ip", 1, 1), Rule("auth", "ip", 2, 1),
                Rule("auth", "body.email", 1, 1)>>

Symmetry == Permutations(Requests) \cup Permutations(Addresses)
              \cup Permutations(Emails)
=============================================================================
