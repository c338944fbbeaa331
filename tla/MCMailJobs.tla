----------------------------- MODULE MCMailJobs -----------------------------
\* A small instance of MailJobs: two jobs, restarts and lost locks.
EXTENDS MailJobs
=============================================================================
