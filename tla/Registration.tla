---------------------------- MODULE Registration ----------------------------
(***************************************************************************)
(* E-mail verification of a new account: register, resend-code and verify  *)
(* of the auth-service, the user.registered events on JetStream, and the   *)
(* consumer of the notification-service that mails the code.               *)
(*                                                                         *)
(* A handler awaits the database several times; each access is an action.  *)
(* A code is the number of its drawing.  It travels encrypted and is       *)
(* decrypted before it is mailed, and what verify compares is the codeHash *)
(* column itself, so the code stored, published and mailed is one value.   *)
(* The consumer loop handles one message at a time and acknowledges it     *)
(* after its handler returned; JetStream delivers a message again when the *)
(* acknowledgement does not come within ack_wait, at most MaxDeliver times *)
(* in all.                                                                 *)
(***************************************************************************)
EXTENDS Naturals, Sequences, SequencesExt

CONSTANTS Emails, Procs, Null,
          MaxDeliver,  \* max_deliver of the consumer
          MaxBatch,    \* max_messages of a fetch
          MaxCodes,    \* bound on codes drawn
          MaxFaults,   \* bound on lost events, failed mails, dead handlers
          MaxCrashes   \* bound on restarts of the notification-service

VARIABLES
  user,     \* users by e-mail: "absent", "inactive" or "active"
  otp,      \* emailOtps by user: an Otp, or Null
  op,       \* the auth-service handlers
  drawn,    \* codes drawn so far
  stream,   \* AUTH_EVENT: the user.registered events, with delivery state
  batch,    \* messages delivered to the consumer and not handled yet
  handled,  \* the handler of the first of them has returned
  mailbox,  \* codes mailed to each address
  failed,   \* history: addresses that a fault cost a mail
  faults, crashes

vars == <<user, otp, op, drawn, stream, batch, handled, mailbox, failed,
          faults, crashes>>
auth     == <<user, otp, op, drawn>>
consumer == <<batch, handled, mailbox>>

Codes == 1..MaxCodes
Otp   == [code: Codes, live: BOOLEAN, isUsed: BOOLEAN]
Op    == [pc: {"idle", "create", "upsert", "publish", "findOtp", "markUsed",
               "activate"},
          email: Emails \cup {Null}, code: Codes \cup {Null}]
Event == [email: Emails, code: Codes, deliveries: 0..MaxDeliver,
          state: {"ready", "out", "acked"}]
Idle  == [pc |-> "idle", email |-> Null, code |-> Null]

ASSUME RegistrationAssumption ==
  /\ MaxDeliver \in Nat \ {0} /\ MaxBatch \in Nat \ {0}
  /\ MaxCodes \in Nat /\ MaxFaults \in Nat /\ MaxCrashes \in Nat
  /\ Null \notin Emails \cup Otp

TypeOK ==
  /\ user \in [Emails -> {"absent", "inactive", "active"}]
  /\ otp \in [Emails -> Otp \cup {Null}]
  /\ op \in [Procs -> Op]
  /\ drawn \in 0..MaxCodes
  /\ stream \in Seq(Event) /\ batch \in Seq(1..Len(stream))
  /\ handled \in BOOLEAN /\ (handled => batch # <<>>)
  /\ mailbox \in [Emails -> SUBSET Codes]
  /\ failed \subseteq Emails
  /\ faults \in 0..MaxFaults /\ crashes \in 0..MaxCrashes

Init ==
  /\ user = [e \in Emails |-> "absent"]
  /\ otp = [e \in Emails |-> Null]
  /\ op = [p \in Procs |-> Idle]
  /\ drawn = 0
  /\ stream = <<>> /\ batch = <<>> /\ handled = FALSE
  /\ mailbox = [e \in Emails |-> {}]
  /\ failed = {} /\ faults = 0 /\ crashes = 0

-----------------------------------------------------------------------------
(* The auth-service *)

Go(p, l)  == op' = [op EXCEPT ![p].pc = l]
End(p)    == op' = [op EXCEPT ![p] = Idle]
Begin(p, l, e, c) ==
  /\ op[p] = Idle
  /\ op' = [op EXCEPT ![p] = [pc |-> l, email |-> e, code |-> c]]

\* create looks the e-mail up (409 when it is taken) and draws the code.
RegisterFind(p, e) ==
  /\ user[e] = "absent" /\ drawn < MaxCodes
  /\ drawn' = drawn + 1
  /\ Begin(p, "create", e, drawn + 1)
  /\ UNCHANGED <<user, otp, stream, consumer, failed, faults, crashes>>

\* user.create; the unique index refuses an e-mail taken in the meantime.
CreateUser(p) ==
  /\ op[p].pc = "create"
  /\ \/ /\ user[op[p].email] = "absent"
        /\ user' = [user EXCEPT ![op[p].email] = "inactive"]
        /\ Go(p, "upsert")
     \/ /\ user[op[p].email] # "absent"
        /\ End(p)
        /\ UNCHANGED user
  /\ UNCHANGED <<otp, drawn, stream, consumer, failed, faults, crashes>>

\* resendCode: only for an account that is not active.
ResendFind(p, e) ==
  /\ user[e] = "inactive" /\ drawn < MaxCodes
  /\ drawn' = drawn + 1
  /\ Begin(p, "upsert", e, drawn + 1)
  /\ UNCHANGED <<user, otp, stream, consumer, failed, faults, crashes>>

\* createOrUpdateEmailOtp: one row per user; an update leaves isUsed alone.
UpsertOtp(p) ==
  LET e == op[p].email
  IN  /\ op[p].pc = "upsert"
      /\ otp' = [otp EXCEPT ![e] =
                   [code |-> op[p].code, live |-> TRUE,
                    isUsed |-> IF otp[e] = Null THEN FALSE ELSE otp[e].isUsed]]
      /\ Go(p, "publish")
      /\ UNCHANGED <<user, drawn, stream, consumer, failed, faults, crashes>>

Publish(p) ==
  /\ op[p].pc = "publish"
  /\ stream' = Append(stream, [email |-> op[p].email, code |-> op[p].code,
                               deliveries |-> 0, state |-> "ready"])
  /\ End(p)
  /\ UNCHANGED <<user, otp, drawn, consumer, failed, faults, crashes>>

\* NATS is not connected or publish throws: both are logged and swallowed,
\* the client is told that all went well.  Or the handler dies half way.
HandlerFails(p) ==
  /\ op[p] # Idle /\ faults < MaxFaults
  /\ faults' = faults + 1
  /\ failed' = IF op[p].pc = "publish" THEN failed \cup {op[p].email}
               ELSE failed
  /\ End(p)
  /\ UNCHANGED <<user, otp, drawn, stream, consumer, crashes>>

\* veryfiRegister with a code that reached somebody: first the user ...
VerifyFindUser(p, e, c) ==
  /\ user[e] = "inactive"
  /\ Begin(p, "findOtp", e, c)
  /\ UNCHANGED <<user, otp, drawn, stream, consumer, failed, faults, crashes>>

\* Mutant: the code is looked up without the userId.
VerifyFindOtpAny(p) ==
  /\ op[p].pc = "findOtp"
  /\ IF /\ otp[op[p].email] # Null
        /\ \E e \in Emails : IF otp[e] = Null THEN FALSE
                             ELSE otp[e].code = op[p].code /\ otp[e].live
     THEN Go(p, "markUsed") ELSE End(p)
  /\ UNCHANGED <<user, otp, drawn, stream, consumer, failed, faults, crashes>>

\* Mutant: a used code is refused.
VerifyFindOtpUnused(p) ==
  LET o == otp[op[p].email]
  IN  /\ op[p].pc = "findOtp"
      /\ IF o = Null THEN End(p)
         ELSE IF o.code = op[p].code /\ o.live /\ ~o.isUsed THEN Go(p, "markUsed")
         ELSE End(p)
      /\ UNCHANGED <<user, otp, drawn, stream, consumer, failed, faults,
                     crashes>>

\* ... then the row of that user with that code, not expired; isUsed is not
\* part of the condition ...
VerifyFindOtp(p) ==
  LET o == otp[op[p].email]
  IN  /\ op[p].pc = "findOtp"
      /\ IF o = Null THEN End(p)
         ELSE IF o.code = op[p].code /\ o.live THEN Go(p, "markUsed")
         ELSE End(p)
      /\ UNCHANGED <<user, otp, drawn, stream, consumer, failed, faults,
                     crashes>>

\* ... which is updated by id, whatever code it holds by now ...
VerifyMarkUsed(p) ==
  /\ op[p].pc = "markUsed"
  /\ otp' = [otp EXCEPT ![op[p].email].isUsed = TRUE]
  /\ Go(p, "activate")
  /\ UNCHANGED <<user, drawn, stream, consumer, failed, faults, crashes>>

\* ... and the user becomes active.
VerifyActivate(p) ==
  /\ op[p].pc = "activate"
  /\ user' = [user EXCEPT ![op[p].email] = "active"]
  /\ End(p)
  /\ UNCHANGED <<otp, drawn, stream, consumer, failed, faults, crashes>>

\* The fifteen minutes of a code are over.
OtpExpires(e) ==
  /\ IF otp[e] = Null THEN FALSE ELSE otp[e].live
  /\ otp' = [otp EXCEPT ![e].live = FALSE]
  /\ UNCHANGED <<user, op, drawn, stream, consumer, failed, faults, crashes>>

-----------------------------------------------------------------------------
(* JetStream and the consumer of the notification-service *)

\* A fetch obtains a message: new ones come in stream order.
Deliver(i) ==
  /\ stream[i].state = "ready" /\ stream[i].deliveries < MaxDeliver
  /\ Len(batch) < MaxBatch
  /\ \A j \in 1..(i - 1) : stream[j].deliveries > 0
  /\ stream' = [stream EXCEPT ![i].state = "out", ![i].deliveries = @ + 1]
  /\ batch' = Append(batch, i)
  /\ UNCHANGED <<auth, handled, mailbox, failed, faults, crashes>>

\* Mutant: the consumer asks for no explicit acknowledgements.
AckWaitNever(i) == FALSE

\* No acknowledgement within ack_wait: the message is due again, also while
\* a copy of it waits in the batch behind a slow mail.
AckWait(i) ==
  /\ stream[i].state = "out"
  /\ stream' = [stream EXCEPT ![i].state = "ready"]
  /\ UNCHANGED <<auth, consumer, failed, faults, crashes>>

\* sendMailRegis: the mail goes out, or the error is logged and swallowed.
SendMailRegis ==
  LET m == stream[Head(batch)]
  IN  /\ batch # <<>> /\ ~handled
      /\ handled' = TRUE
      /\ \/ /\ mailbox' = [mailbox EXCEPT ![m.email] = @ \cup {m.code}]
            /\ UNCHANGED <<failed, faults>>
         \/ /\ faults < MaxFaults
            /\ faults' = faults + 1
            /\ failed' = failed \cup {m.email}
            /\ UNCHANGED mailbox
      /\ UNCHANGED <<auth, stream, batch, crashes>>

\* Mutant: the message is acknowledged before its handler ran.
AckEarly ==
  /\ batch # <<>>
  /\ stream' = [stream EXCEPT ![Head(batch)].state = "acked"]
  /\ batch' = Tail(batch)
  /\ handled' = FALSE
  /\ UNCHANGED <<auth, mailbox, failed, faults, crashes>>

\* The handler returned, so msg.ack() follows; it never throws here.
Ack ==
  /\ batch # <<>> /\ handled
  /\ stream' = [stream EXCEPT ![Head(batch)].state = "acked"]
  /\ batch' = Tail(batch)
  /\ handled' = FALSE
  /\ UNCHANGED <<auth, mailbox, failed, faults, crashes>>

\* The notification-service restarts: what it had fetched is gone.
ConsumerRestart ==
  /\ batch # <<>> /\ crashes < MaxCrashes
  /\ crashes' = crashes + 1
  /\ batch' = <<>> /\ handled' = FALSE
  /\ UNCHANGED <<auth, stream, mailbox, failed, faults>>

Next ==
  \/ \E p \in Procs :
       \/ \E e \in Emails : RegisterFind(p, e) \/ ResendFind(p, e)
       \/ \E e \in Emails, c \in UNION {mailbox[x] : x \in Emails} :
            VerifyFindUser(p, e, c)
       \/ CreateUser(p) \/ UpsertOtp(p) \/ Publish(p) \/ HandlerFails(p)
       \/ VerifyFindOtp(p) \/ VerifyMarkUsed(p) \/ VerifyActivate(p)
  \/ \E e \in Emails : OtpExpires(e)
  \/ \E i \in 1..Len(stream) : Deliver(i) \/ AckWait(i)
  \/ SendMailRegis \/ Ack \/ ConsumerRestart

Spec == Init /\ [][Next]_vars

\* The consumer loop keeps going and JetStream's timers fire; nothing
\* obliges clients, nor the handlers of the auth-service.
FairSpec ==
  /\ Spec
  /\ WF_vars(SendMailRegis) /\ WF_vars(Ack)
  /\ \A i \in Codes : WF_vars(i \in 1..Len(stream) /\ Deliver(i))
                      /\ WF_vars(i \in 1..Len(stream) /\ AckWait(i))

-----------------------------------------------------------------------------
(* Properties that hold *)

\* An account becomes active only after a code for it was mailed to its own
\* address, whatever codes of other accounts are presented for it.
ActiveWasMailed ==
  \A e \in Emails : user[e] = "active" => mailbox[e] # {}

Carries(i, e, c) == stream[i].email = e /\ stream[i].code = c

\* The code an account waits for is in its mailbox, about to be published or
\* in an event not yet acknowledged, unless a swallowed error cost that
\* account a mail: concurrent resends, redeliveries and restarts of the
\* notification-service do not drop it.
NoSilentLoss ==
  \A e \in Emails :
    user[e] = "inactive" /\ otp[e] # Null =>
      LET c == otp[e].code
      IN  \/ c \in mailbox[e] \/ e \in failed
          \/ \E p \in Procs : op[p] = [pc |-> "publish", email |-> e, code |-> c]
          \/ \E i \in 1..Len(stream) :
               Carries(i, e, c) /\ stream[i].state # "acked"

\* No copy is left to be mailed and none will be delivered any more.
Exhausted(i) == /\ stream[i].state # "acked"
                /\ stream[i].deliveries = MaxDeliver /\ ~Contains(batch, i)

\* Every event published leads to its mail, unless the error of the mail
\* server was swallowed or restarts used up the deliveries: a restart in the
\* middle of a batch is made good by redelivery.
EventuallyMailed ==
  \A i \in Codes :
    i \in 1..Len(stream) ~>
      IF i > Len(stream) THEN FALSE
      ELSE \/ stream[i].code \in mailbox[stream[i].email]
           \/ stream[i].email \in failed \/ Exhausted(i)

\* A handler that died between marking the code used and activating the
\* account does not burn the code: whoever presents the live code of an
\* account that is still inactive gets past the check, whatever became of
\* earlier attempts with it.
CodeSurvivesCrash ==
  [][\A p \in Procs :
       LET o == otp[op[p].email] IN
       op[p].pc = "findOtp" /\ op'[p] # op[p] /\ faults' = faults /\ o # Null =>
         (o.code = op[p].code /\ o.live => op'[p].pc = "markUsed")]_vars
=============================================================================
