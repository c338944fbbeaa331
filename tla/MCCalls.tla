------------------------------ MODULE MCCalls ------------------------------
\* A small instance of Calls: one user has the permissions, one has not.
\* Calls share nothing but the expiry of tokens, so one at a time is enough.
EXTENDS Calls
=============================================================================
