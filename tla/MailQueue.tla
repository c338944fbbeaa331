----------------------------- MODULE MailQueue -----------------------------
(***************************************************************************)
(* What the mail queue promises to the services that put jobs into it: a   *)
(* job is mailed only while it is in the queue, it leaves the queue either *)
(* done, and then it was mailed at least once, or failed, and only a       *)
(* failed job is put into the dead-letter queue mail-dlq.  MailJobs        *)
(* implements this specification; PasswordReset builds on it.              *)
(***************************************************************************)
CONSTANT Jobs

VARIABLES status,  \* "none", "queued", "done" or "failed"
          mailed,  \* jobs whose mail went out, once or several times
          dlq      \* jobs in mail-dlq

vars == <<status, mailed, dlq>>

Init ==
  /\ status = [j \in Jobs |-> "none"]
  /\ mailed = {} /\ dlq = {}

\* queue.add has returned.
Enqueue(j) ==
  /\ status[j] = "none"
  /\ status' = [status EXCEPT ![j] = "queued"]
  /\ UNCHANGED <<mailed, dlq>>

\* The mail goes out; the job stays until the outcome is recorded.
Mail(j) ==
  /\ status[j] = "queued"
  /\ mailed' = mailed \cup {j}
  /\ UNCHANGED <<status, dlq>>

Finish(j) ==
  /\ status[j] = "queued" /\ j \in mailed
  /\ status' = [status EXCEPT ![j] = "done"]
  /\ UNCHANGED <<mailed, dlq>>

\* Possible for a mailed job too: the error came after the mail.
GiveUp(j) ==
  /\ status[j] = "queued"
  /\ status' = [status EXCEPT ![j] = "failed"]
  /\ UNCHANGED <<mailed, dlq>>

DeadLetter(j) ==
  /\ status[j] = "failed"
  /\ dlq' = dlq \cup {j}
  /\ UNCHANGED <<status, mailed>>

\* What the worker does on its own.
Work == \E j \in Jobs : Mail(j) \/ Finish(j) \/ GiveUp(j) \/ DeadLetter(j)
Next == Work \/ \E j \in Jobs : Enqueue(j)

Fairness == \A j \in Jobs : WF_vars(Finish(j) \/ GiveUp(j))

Spec     == Init /\ [][Next]_vars
FairSpec == Spec /\ Fairness
=============================================================================
