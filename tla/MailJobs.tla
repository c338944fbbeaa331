------------------------------ MODULE MailJobs ------------------------------
(***************************************************************************)
(* The BullMQ queue "mail": the auth-service adds jobs, the worker of the  *)
(* notification-service (one process, one job at a time) mails them, and   *)
(* its 'failed' listener copies a job that used up its attempts into       *)
(* mail-dlq.                                                               *)
(*                                                                         *)
(* BullMQ itself is modelled from how it is used: a worker holds a lock on *)
(* its active job; a job that failed waits for its back-off and is tried   *)
(* again until attemptsMade reaches attempts; an active job whose lock has *)
(* expired is put back by the stalled check, and one that stalled more     *)
(* than maxStalledCount times carries a deferred failure, with which the   *)
(* worker fails it for good when it takes it next.  'failed' is emitted    *)
(* for every failed attempt.                                               *)
(***************************************************************************)
EXTENDS Naturals

CONSTANTS Jobs, NoJob,
          Attempts,    \* attempts of a job
          MaxStalled,  \* maxStalledCount of the worker
          MaxCrashes,  \* bound on restarts of the worker and on lost locks
          MaxDlqFaults \* bound on failed additions to mail-dlq

ASSUME MailJobsAssumption ==
  /\ Attempts \in Nat \ {0} /\ MaxStalled \in Nat
  /\ MaxCrashes \in Nat /\ MaxDlqFaults \in Nat
  /\ NoJob \notin Jobs

VARIABLES
  job,      \* the jobs in Redis
  current,  \* the job the worker has taken, or NoJob
  outcome,  \* what became of it: "none" before process has run, "returned",
            \* "thrown", or "deferred" when it is to be failed unprocessed
  adding,   \* jobs whose listener waits for dlqQueue.add
  dlq,      \* jobs copied to mail-dlq
  mails,    \* how often the mail of a job went out
  dropped,  \* history: jobs that a fault or a restart kept from mail-dlq
  crashes, dlqFaults

jobVars == <<job, current, outcome, adding, dlq, mails, dropped, crashes,
             dlqFaults>>

Job == [state: {"none", "wait", "active", "delayed", "completed", "failed"},
        attemptsMade: 0..Attempts, stalled: 0..MaxCrashes, locked: BOOLEAN]

JobsTypeOK ==
  /\ job \in [Jobs -> Job]
  /\ current \in Jobs \cup {NoJob}
  /\ outcome \in {"none", "returned", "thrown", "deferred"}
  /\ adding \subseteq Jobs /\ dlq \subseteq Jobs /\ dropped \subseteq Jobs
  /\ mails \in [Jobs -> Nat]
  /\ crashes \in 0..MaxCrashes /\ dlqFaults \in 0..MaxDlqFaults

JobsInit ==
  /\ job = [j \in Jobs |-> [state |-> "none", attemptsMade |-> 0,
                            stalled |-> 0, locked |-> FALSE]]
  /\ current = NoJob /\ outcome = "none"
  /\ adding = {} /\ dlq = {} /\ dropped = {}
  /\ mails = [j \in Jobs |-> 0]
  /\ crashes = 0 /\ dlqFaults = 0

-----------------------------------------------------------------------------
(* The queue *)

\* sendVerifyCode, sendResetPassword: both jobs have the same attempts.
Add(j) ==
  /\ job[j].state = "none"
  /\ job' = [job EXCEPT ![j].state = "wait"]
  /\ UNCHANGED <<current, outcome, adding, dlq, mails, dropped, crashes,
                 dlqFaults>>

DeferredFailure(j) == job[j].stalled > MaxStalled

\* An idle worker takes a waiting job, and its deferred failure with it.
Take(j) ==
  /\ current = NoJob /\ job[j].state = "wait"
  /\ job' = [job EXCEPT ![j].state = "active", ![j].locked = TRUE]
  /\ current' = j
  /\ outcome' = IF DeferredFailure(j) THEN "deferred" ELSE "none"
  /\ UNCHANGED <<adding, dlq, mails, dropped, crashes, dlqFaults>>

\* The back-off of a failed attempt is over.
BackoffElapsed(j) ==
  /\ job[j].state = "delayed"
  /\ job' = [job EXCEPT ![j].state = "wait"]
  /\ UNCHANGED <<current, outcome, adding, dlq, mails, dropped, crashes,
                 dlqFaults>>

\* The lock is renewed while its worker runs and reaches Redis; it expires
\* after a crash, and under a worker that is cut off from Redis.
LockExpires(j) ==
  /\ job[j].locked
  /\ \/ current # j /\ UNCHANGED crashes
     \/ current = j /\ crashes < MaxCrashes /\ crashes' = crashes + 1
  /\ job' = [job EXCEPT ![j].locked = FALSE]
  /\ UNCHANGED <<current, outcome, adding, dlq, mails, dropped, dlqFaults>>

\* The stalled check puts an active job without a lock back.
StalledCheck(j) ==
  /\ job[j].state = "active" /\ ~job[j].locked
  /\ job' = [job EXCEPT ![j].state = "wait", ![j].stalled = @ + 1]
  /\ UNCHANGED <<current, outcome, adding, dlq, mails, dropped, crashes,
                 dlqFaults>>

-----------------------------------------------------------------------------
(* The worker of the notification-service *)

\* process: the mail goes out, the mail server fails, or both (the answer of
\* the mail server is lost); an error is logged and thrown again.
Process ==
  /\ current # NoJob /\ outcome = "none"
  /\ \/ /\ mails' = [mails EXCEPT ![current] = @ + 1]
        /\ outcome' \in {"returned", "thrown"}
     \/ /\ outcome' = "thrown"
        /\ UNCHANGED mails
  /\ UNCHANGED <<job, current, adding, dlq, dropped, crashes, dlqFaults>>

\* process returned: the job is completed.
Complete ==
  /\ outcome = "returned" /\ job[current].locked
  /\ job' = [job EXCEPT ![current].state = "completed",
                        ![current].attemptsMade = @ + 1,
                        ![current].locked = FALSE]
  /\ current' = NoJob /\ outcome' = "none"
  /\ UNCHANGED <<adding, dlq, mails, dropped, crashes, dlqFaults>>

\* Mutant: the comparison of the listener is off by one.
OnFailedAtMost(j, made) ==
  adding' = IF made <= Attempts THEN adding ELSE adding \cup {j}

\* Mutant: the listener does not look at the attempts.
OnFailedAlways(j, made) == adding' = adding \cup {j}

\* The 'failed' listener, up to its await: it returns early while the job
\* has attempts left.
OnFailed(j, made) ==
  adding' = IF made < Attempts THEN adding ELSE adding \cup {j}

\* process threw, or the job carries a deferred failure: the attempt counts,
\* the job is retried after a back-off or has failed for good, and 'failed'
\* is emitted.
Fail ==
  LET made == job[current].attemptsMade + 1
  IN  /\ outcome \in {"thrown", "deferred"} /\ job[current].locked
      /\ job' = [job EXCEPT
           ![current].state = IF outcome = "thrown" /\ made < Attempts
                              THEN "delayed" ELSE "failed",
           ![current].attemptsMade = made, ![current].locked = FALSE]
      /\ OnFailed(current, made)
      /\ current' = NoJob /\ outcome' = "none"
      /\ UNCHANGED <<dlq, mails, dropped, crashes, dlqFaults>>

\* The lock is gone, so neither outcome can be recorded and nothing but
\* 'error' is emitted; the job is left to the stalled check.
LockLost ==
  /\ outcome # "none" /\ ~job[current].locked
  /\ current' = NoJob /\ outcome' = "none"
  /\ UNCHANGED <<job, adding, dlq, mails, dropped, crashes, dlqFaults>>

\* Mutant: the listener gives the job another round instead of parking it.
AddToDlqRetry(j) ==
  /\ j \in adding
  /\ adding' = adding \ {j}
  /\ job' = [job EXCEPT ![j].state = "wait", ![j].attemptsMade = 0]
  /\ UNCHANGED <<current, outcome, dlq, mails, dropped, crashes, dlqFaults>>

\* dlqQueue.add of the listener returns, or its error is logged.
AddToDlq(j) ==
  /\ j \in adding
  /\ adding' = adding \ {j}
  /\ \/ /\ dlq' = dlq \cup {j}
        /\ UNCHANGED <<dropped, dlqFaults>>
     \/ /\ dlqFaults < MaxDlqFaults
        /\ dlqFaults' = dlqFaults + 1
        /\ dropped' = dropped \cup {j}
        /\ UNCHANGED dlq
  /\ UNCHANGED <<job, current, outcome, mails, crashes>>

\* The notification-service restarts: what it was doing is forgotten.
WorkerRestart ==
  /\ crashes < MaxCrashes /\ (current # NoJob \/ adding # {})
  /\ crashes' = crashes + 1
  /\ current' = NoJob /\ outcome' = "none"
  /\ adding' = {} /\ dropped' = dropped \cup adding
  /\ UNCHANGED <<job, dlq, mails, dlqFaults>>

JobsNext ==
  \/ \E j \in Jobs :
       \/ Add(j) \/ Take(j) \/ BackoffElapsed(j) \/ LockExpires(j)
       \/ StalledCheck(j) \/ AddToDlq(j)
  \/ Process \/ Complete \/ Fail \/ LockLost \/ WorkerRestart

JobsSpec == JobsInit /\ [][JobsNext]_jobVars

\* The worker goes on working, the mail server answers or times out, and the
\* timers of BullMQ fire: back-off, lock expiry after a crash, stalled check.
JobsFairSpec ==
  /\ JobsSpec
  /\ WF_jobVars(Process) /\ WF_jobVars(Complete \/ Fail \/ LockLost)
  /\ \A j \in Jobs :
       /\ WF_jobVars(Take(j)) /\ WF_jobVars(BackoffElapsed(j))
       /\ WF_jobVars(current # j /\ LockExpires(j)) /\ WF_jobVars(StalledCheck(j))

-----------------------------------------------------------------------------
(* Properties *)

\* A job that used up its attempts is in mail-dlq or about to be added,
\* unless that addition failed or died with the process.  A job that
\* stalled too often is excepted: the listener takes it for one that will
\* be retried and drops it.
FailedIsDeadLettered ==
  \A j \in Jobs :
    job[j].state = "failed" =>
      j \in dlq \cup adding \cup dropped \/ DeferredFailure(j)

\* Failed attempts, stalls and lost locks together cause a mail to go out
\* once per attempt and once more per tolerated stall at most.
MailsBounded == \A j \in Jobs : mails[j] <= Attempts + MaxStalled

\* What a user of the queue sees of the state of a job.
SeenAs(state) ==
  CASE state = "none"      -> "none"
    [] state = "completed" -> "done"
    [] state = "failed"    -> "failed"
    [] OTHER               -> "queued"

\* The queue as its users rely on it.
Abstract == INSTANCE MailQueue
  WITH status <- [j \in Jobs |-> SeenAs(job[j].state)],
       mailed <- {j \in Jobs : mails[j] > 0}

\* MailJobs implements MailQueue: a completed job was mailed, no mail goes out
\* for a job that is settled, only failed jobs are dead-lettered, and every
\* job added is settled in the end, in spite of restarts and lost locks.
ImplementsMailQueue == Abstract!FairSpec
=============================================================================
