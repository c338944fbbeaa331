-------------------------- MODULE IdempotencyProofs --------------------------
(***************************************************************************)
(* Proofs about Idempotency for any sets of requests, keys and bodies and  *)
(* any number of restarts and database failures.                           *)
(*                                                                         *)
(* The typing of the EXCEPT updates already needs to know that a request   *)
(* that holds a recordId has a row, so type correctness and the safety     *)
(* properties are carried by one inductive invariant, IInv.  The last      *)
(* section shows that the handler implements RegisterOnce.                 *)
(***************************************************************************)
EXTENDS Idempotency, TLAPS

\* The labels at which the request has a key.
Keyed == {"getFromCache", "find", "decide", "markFailed", "markCompleted",
          "catch"}
KeyedInv == \A r \in Requests : pc[r] \in Keyed => arg[r].key \in Keys

\* The request obtained shouldExecute = true together with a recordId.
Owns(r) == arg[r].key \in Keys /\ (r \in posted \/ pc[r] \in Executing)

\* An owner has a row, and the row was created for its body.
OwnerInv ==
  \A r \in Requests :
    Owns(r) => /\ record[arg[r].key] # Null
               /\ record[arg[r].key].hash = arg[r].body

\* A row once read still exists, with the hash that was read; a failed status
\* that was read had been written by markFailed.
SeenInv ==
  \A r \in Requests :
    (seen[r] # Null /\ arg[r].key \in Keys) =>
      /\ record[arg[r].key] # Null
      /\ record[arg[r].key].hash = seen[r].hash
      /\ seen[r].status = "failed" => arg[r].key \in failedOnce

FailedInv ==
  \A k \in Keys :
    (record[k] # Null /\ record[k].status = "failed") => k \in failedOnce

\* Two owners of one key: the row was marked failed in between.
SoleOwner ==
  \A r1, r2 \in Requests :
    (Owns(r1) /\ Owns(r2) /\ arg[r1].key = arg[r2].key
       /\ arg[r1].key \notin failedOnce) => r1 = r2

\* q is the request of key k whose registration the auth-service executed,
\* for the body the row of k was created for.
Genuine(q, k) ==
  /\ q \in Requests /\ arg[q].key = k
  /\ users[arg[q].body] = q
  /\ record[k] # Null /\ record[k].hash = arg[q].body

ReplyInv ==
  \A r \in Requests :
    /\ pc[r] = "markCompleted" => reply[r] \in Requests
    /\ reply[r] \in Requests =>
         reply[r] = r /\ users[arg[r].body] = r /\ r \in posted

StoredInv ==
  \A k \in Keys :
    /\ cache[k] # Null => Genuine(cache[k], k)
    /\ (record[k] # Null /\ record[k].status = "completed")
         => Genuine(record[k].responseBody, k)

SeenCompletedInv ==
  \A r \in Requests :
    (seen[r] # Null /\ arg[r].key \in Keys /\ seen[r].status = "completed")
      => Genuine(seen[r].responseBody, arg[r].key)

AnswerOk(r) ==
  (answer[r] # Null /\ answer[r].kind = "ok") =>
    IF arg[r].key \in Keys THEN Genuine(answer[r].body, arg[r].key)
    ELSE answer[r].body = r /\ users[arg[r].body] = r
AnswerInv == \A r \in Requests : AnswerOk(r)

Ownership  == KeyedInv /\ OwnerInv /\ SeenInv /\ FailedInv /\ SoleOwner
Provenance == ReplyInv /\ StoredInv /\ SeenCompletedInv /\ AnswerInv

IInv == TypeOK /\ Ownership /\ Provenance

-----------------------------------------------------------------------------
(* What every step keeps *)

RowsKept ==
  \A k \in Keys : record[k] # Null =>
    record'[k] # Null /\ record'[k].hash = record[k].hash
UsersKept ==
  \A b \in Bodies : users[b] # Null => users'[b] = users[b]

\* A registration that took place stays the registration of its key: rows
\* keep their hash and users are never replaced.
LEMMA GenuineKept ==
  ASSUME TypeOK, arg' = arg, RowsKept, UsersKept,
         NEW k \in Keys, NEW q, Genuine(q, k)
  PROVE  Genuine(q, k)'
BY IdempotencyAssumption DEF TypeOK, RowsKept, UsersKept, Genuine

\* The answers the handler builds are answers.
LEMMA AnswerTypes ==
  /\ \A kind \in {"mismatch", "stillProcessing", "emailExists", "error"} :
       Failure(kind) \in Answer /\ Failure(kind).kind = kind
  /\ \A res : Rethrow(res) \in Answer /\ Rethrow(res).kind # "ok"
  /\ \A q \in Requests : [kind |-> "ok", body |-> q] \in Answer
  /\ Null \notin Answer
BY IdempotencyAssumption DEF Failure, Rethrow, Answer

\* Changing the status and the response of an existing row keeps the table
\* well typed, the row in place and its hash.
LEMMA RowUpdate ==
  ASSUME TypeOK, NEW k \in Keys, record[k] # Null,
         NEW s \in Status, NEW x \in Requests \cup {Null, ErrorBody},
         \/ record' = [record EXCEPT ![k].status = s, ![k].responseBody = x]
         \/ /\ record' = [record EXCEPT ![k].status = s]
            /\ x = record[k].responseBody
  PROVE  /\ record' \in [Keys -> Record \cup {Null}] /\ RowsKept
         /\ record'[k] # Null /\ record'[k].hash = record[k].hash
         /\ record'[k].status = s /\ record'[k].responseBody = x
         /\ \A j \in Keys \ {k} : record'[j] = record[j]
<1>1. record[k] \in Record
  BY DEF TypeOK
<1>2. PICK row \in Record : row = record[k]
  BY <1>1
<1>3. record'[k] = [hash |-> row.hash, status |-> s, responseBody |-> x]
  BY <1>2 DEF TypeOK, Record
<1>4. record'[k] \in Record
  BY <1>2, <1>3 DEF Record
<1>5. \A j \in Keys \ {k} : record'[j] = record[j]
  BY DEF TypeOK
<1>6. record' \in [Keys -> Record \cup {Null}]
  BY <1>4, <1>5 DEF TypeOK
<1>7. record'[k] # Null
  BY <1>4, IdempotencyAssumption
<1> QED
  BY <1>2, <1>3, <1>5, <1>6, <1>7 DEF RowsKept, Record

USE IdempotencyAssumption
USE DEF Keyed, Executing, Active, Labels, Status, ErrorReplies

\* Moving to a label, and returning an answer, are well typed.
LEMMA ControlTypes ==
  ASSUME TypeOK, NEW r \in Requests
  PROVE  /\ \A l \in Labels : Go(r, l) => pc' \in [Requests -> Labels]
         /\ \A a \in Answer : Return(r, a) =>
              /\ pc' \in [Requests -> Labels]
              /\ answer' \in [Requests -> Answer \cup {Null}]
<1>1. ASSUME NEW l \in Labels, Go(r, l)
      PROVE  pc' \in [Requests -> Labels]
  BY <1>1 DEF Go, TypeOK
<1>2. ASSUME NEW a \in Answer, Return(r, a)
      PROVE  answer' \in [Requests -> Answer \cup {Null}]
  BY <1>2 DEF Return, TypeOK
<1>3. "done" \in Labels
  OBVIOUS
<1> QED
  BY <1>1, <1>2, <1>3 DEF Return

-----------------------------------------------------------------------------
(* What a step has to respect *)

\* Rows, seen rows and the failed keys only grow, and nobody becomes an
\* owner: then ownership is as it was.
LEMMA OwnershipKept ==
  ASSUME Ownership, RowsKept, UNCHANGED <<arg, seen>>,
         failedOnce \subseteq failedOnce', KeyedInv', FailedInv',
         \A q \in Requests : Owns(q)' => Owns(q)
  PROVE  Ownership'
<1>1. OwnerInv'
  BY DEF Ownership, OwnerInv, RowsKept, Owns
<1>2. SeenInv'
  BY DEF Ownership, SeenInv, RowsKept
<1>3. SoleOwner'
  BY DEF Ownership, SoleOwner
<1> QED
  BY <1>1, <1>2, <1>3 DEF Ownership

\* A reply stays genuine as long as nobody touches it and no other request
\* gets to markCompleted.
LEMMA ReplyKept ==
  ASSUME TypeOK, ReplyInv, UsersKept, UNCHANGED <<arg, reply>>,
         posted \subseteq posted',
         \A q \in Requests : pc'[q] = "markCompleted" => pc[q] = "markCompleted"
  PROVE  ReplyInv'
  BY DEF TypeOK, ReplyInv, UsersKept

\* What is stored, seen and answered stays genuine, provided that what is
\* stored or answered anew is.
LEMMA ProvenanceKept ==
  ASSUME TypeOK, Provenance, RowsKept, UsersKept, UNCHANGED <<arg, seen>>,
         ReplyInv', StoredInv',
         \A q \in Requests : answer'[q] = answer[q] \/ AnswerOk(q)'
  PROVE  Provenance'
<1>1. \A j \in Keys : \A q : Genuine(q, j) => Genuine(q, j)'
  BY GenuineKept
<1>2. SeenCompletedInv'
  BY <1>1 DEF Provenance, SeenCompletedInv
<1>3. AnswerInv'
  <2> SUFFICES ASSUME NEW q \in Requests, answer'[q] = answer[q]
               PROVE  AnswerOk(q)'
    BY DEF AnswerInv
  <2>1. AnswerOk(q)
    BY DEF Provenance, AnswerInv
  <2>2. arg[q].body \in Bodies
    BY DEF TypeOK
  <2> QED
    BY <1>1, <2>1, <2>2 DEF AnswerOk, UsersKept
<1> QED
  BY <1>2, <1>3 DEF Provenance

\* A step that leaves the table and the rows seen alone.
LEMMA QuietStep ==
  ASSUME IInv, TypeOK', KeyedInv', ReplyInv', UsersKept,
         UNCHANGED <<record, arg, seen, failedOnce>>,
         \A q \in Requests : Owns(q)' => Owns(q),
         \A j \in Keys : cache'[j] \in {cache[j], Null}
                          \/ Genuine(cache'[j], j),
         \A q \in Requests : answer'[q] = answer[q] \/ AnswerOk(q)'
  PROVE  IInv'
<1>1. RowsKept
  BY DEF RowsKept
<1>2. FailedInv'
  BY DEF IInv, Ownership, FailedInv
<1>3. \A j \in Keys : \A q : Genuine(q, j) => Genuine(q, j)'
  BY <1>1, GenuineKept DEF IInv
<1>4. StoredInv'
  BY <1>3 DEF IInv, Provenance, StoredInv
<1>5. Ownership'
  BY <1>1, <1>2, OwnershipKept DEF IInv
<1>6. Provenance'
  BY <1>1, <1>4, ProvenanceKept DEF IInv
<1> QED
  BY <1>5, <1>6 DEF IInv

\* The request returns an error.
LEMMA ErrorAnswer ==
  ASSUME TypeOK, NEW r \in Requests, NEW a \in Answer, a.kind # "ok",
         Return(r, a)
  PROVE  \A q \in Requests : answer'[q] = answer[q] \/ AnswerOk(q)'
  BY DEF TypeOK, Return, AnswerOk

-----------------------------------------------------------------------------
(* One lemma for the steps that leave the table alone, one for those that  *)
(* write a row.                                                            *)

\* Requests that are received, looked up, refused, replayed, forwarded or
\* answered, and what the auth-service does meanwhile.
LEMMA HandlerSteps ==
  ASSUME IInv, NEW r \in Requests,
         \/ Receive(r) \/ GetFromCache(r) \/ FindUnique(r)
         \/ RejectMismatch(r) \/ ReplayCompleted(r) \/ RejectProcessing(r)
         \/ Post(r) \/ OnResponse(r) \/ OnTimeout(r) \/ AuthRegister(r)
         \/ DbFails(r)
  PROVE  IInv'
<1>0. TypeOK /\ KeyedInv /\ ReplyInv
  BY DEF IInv, Ownership, Provenance
<1>1. CASE Receive(r)
  <2>1. TypeOK'
    BY <1>1, <1>0, ControlTypes, AnswerTypes DEF Receive, TypeOK
  <2>2. KeyedInv' /\ \A q \in Requests : Owns(q)' => Owns(q)
    BY <1>1, <1>0 DEF Receive, Go, Return, TypeOK, KeyedInv, Owns
  <2>3. UsersKept /\ ReplyInv'
    <3>1. UsersKept
      BY <1>1 DEF Receive, UsersKept
    <3>2. \A q \in Requests : pc'[q] = "markCompleted" => pc[q] = "markCompleted"
      BY <1>1, <1>0 DEF Receive, Go, Return, TypeOK
    <3> QED
      BY <1>1, <1>0, <3>1, <3>2, ReplyKept DEF Receive
  <2>4. \A q \in Requests : answer'[q] = answer[q] \/ AnswerOk(q)'
    BY <1>1 DEF Receive
  <2> QED
    BY <1>1, <2>1, <2>2, <2>3, <2>4, QuietStep DEF Receive
<1>2. CASE GetFromCache(r)
  <2>1. TypeOK'
    <3>1. arg[r].key \in Keys
      BY <1>2, <1>0 DEF GetFromCache, KeyedInv
    <3>2. pc' \in [Requests -> Labels] /\ answer' \in [Requests -> Answer \cup {Null}]
      BY <1>2, <1>0, <3>1, ControlTypes, AnswerTypes DEF GetFromCache, TypeOK
    <3> QED
      BY <1>2, <1>0, <3>2 DEF GetFromCache, TypeOK
  <2>2. KeyedInv' /\ \A q \in Requests : Owns(q)' => Owns(q)
    BY <1>2, <1>0 DEF GetFromCache, Go, Return, TypeOK, KeyedInv, Owns
  <2>3. UsersKept /\ ReplyInv'
    <3>1. UsersKept
      BY <1>2 DEF GetFromCache, UsersKept
    <3>2. \A q \in Requests : pc'[q] = "markCompleted" => pc[q] = "markCompleted"
      BY <1>2, <1>0 DEF GetFromCache, Go, Return, TypeOK
    <3> QED
      BY <1>2, <1>0, <3>1, <3>2, ReplyKept DEF GetFromCache
  <2>4. \A q \in Requests : answer'[q] = answer[q] \/ AnswerOk(q)'
    <3>1. CASE answer' = answer
      BY <3>1
    <3>2. CASE /\ cache[arg[r].key] # Null
               /\ Return(r, [kind |-> "ok", body |-> cache[arg[r].key]])
      <4>1. arg[r].key \in Keys
        BY <1>2, <1>0 DEF GetFromCache, KeyedInv
      <4>2. Genuine(cache[arg[r].key], arg[r].key)'
        BY <1>2, <3>2, <4>1 DEF GetFromCache, IInv, Provenance, StoredInv, Genuine
      <4>3. answer'[r].body = cache[arg[r].key] /\ arg' = arg
            /\ \A q \in Requests \ {r} : answer'[q] = answer[q]
        BY <1>2, <1>0, <3>2 DEF GetFromCache, Return, TypeOK
      <4> QED
        BY <1>2, <4>1, <4>2, <4>3 DEF GetFromCache, AnswerOk
    <3> QED
      BY <1>2, <3>1, <3>2 DEF GetFromCache
  <2> QED
    BY <1>2, <2>1, <2>2, <2>3, <2>4, QuietStep DEF GetFromCache
<1>3. CASE FindUnique(r)
  <2> DEFINE k == arg[r].key
  <2>1. k \in Keys
    BY <1>3, <1>0 DEF FindUnique, KeyedInv
  <2>2. TypeOK'
    BY <1>3, <1>0, <2>1, ControlTypes DEF FindUnique, TypeOK
  <2>3. /\ seen'[r] = record[k]
        /\ \A q \in Requests \ {r} : seen'[q] = seen[q]
    BY <1>3, <1>0 DEF FindUnique, TypeOK
  <2>4. Ownership'
    <3>1. KeyedInv' /\ \A q \in Requests : Owns(q)' <=> Owns(q)
      BY <1>3, <1>0 DEF FindUnique, Go, TypeOK, KeyedInv, Owns
    <3>2. OwnerInv' /\ FailedInv' /\ SoleOwner'
      BY <1>3, <3>1 DEF FindUnique, IInv, Ownership, OwnerInv, FailedInv, SoleOwner
    <3>3. SeenInv'
      BY <1>3, <2>1, <2>3 DEF FindUnique, IInv, Ownership, SeenInv, FailedInv
    <3> QED
      BY <3>1, <3>2, <3>3 DEF Ownership
  <2>5. Provenance'
    <3>1. \A q, j : Genuine(q, j)' <=> Genuine(q, j)
      BY <1>3 DEF FindUnique, Genuine
    <3>2. ReplyInv'
      BY <1>3, <1>0 DEF FindUnique, Go, TypeOK, ReplyInv
    <3>3. StoredInv' /\ AnswerInv'
      BY <1>3, <3>1 DEF FindUnique, IInv, Provenance, StoredInv, AnswerInv, AnswerOk
    <3>4. SeenCompletedInv'
      BY <1>3, <2>1, <2>3, <3>1 DEF FindUnique, IInv, Provenance, StoredInv,
         SeenCompletedInv
    <3> QED
      BY <3>2, <3>3, <3>4 DEF Provenance
  <2> QED
    BY <2>2, <2>4, <2>5 DEF IInv
<1>4. CASE RejectMismatch(r)
  <2>1. TypeOK'
    BY <1>4, <1>0, ControlTypes, AnswerTypes DEF RejectMismatch, TypeOK
  <2>2. KeyedInv' /\ \A q \in Requests : Owns(q)' => Owns(q)
    BY <1>4, <1>0 DEF RejectMismatch, Go, Return, TypeOK, KeyedInv, Owns
  <2>3. UsersKept /\ ReplyInv'
    <3>1. UsersKept
      BY <1>4 DEF RejectMismatch, UsersKept
    <3>2. \A q \in Requests : pc'[q] = "markCompleted" => pc[q] = "markCompleted"
      BY <1>4, <1>0 DEF RejectMismatch, Go, Return, TypeOK
    <3> QED
      BY <1>4, <1>0, <3>1, <3>2, ReplyKept DEF RejectMismatch
  <2>4. \A q \in Requests : answer'[q] = answer[q] \/ AnswerOk(q)'
    BY <1>4, <1>0, AnswerTypes, ErrorAnswer DEF RejectMismatch
  <2> QED
    BY <1>4, <2>1, <2>2, <2>3, <2>4, QuietStep DEF RejectMismatch
<1>5. CASE ReplayCompleted(r)
  <2>1. TypeOK'
    <3>1. Genuine(seen[r].responseBody, arg[r].key) /\ arg[r].key \in Keys
      BY <1>5, <1>0 DEF ReplayCompleted, IInv, Provenance, SeenCompletedInv, KeyedInv
    <3>2. pc' \in [Requests -> Labels] /\ answer' \in [Requests -> Answer \cup {Null}]
      BY <1>5, <1>0, <3>1, ControlTypes, AnswerTypes DEF ReplayCompleted, Genuine
    <3>3. cache' \in [Keys -> Requests \cup {Null}]
      BY <1>5, <1>0, <3>1 DEF ReplayCompleted, TypeOK, Genuine
    <3> QED
      BY <1>5, <1>0, <3>2, <3>3 DEF ReplayCompleted, TypeOK
  <2>2. KeyedInv' /\ \A q \in Requests : Owns(q)' => Owns(q)
    BY <1>5, <1>0 DEF ReplayCompleted, Go, Return, TypeOK, KeyedInv, Owns
  <2>3. UsersKept /\ ReplyInv'
    <3>1. UsersKept
      BY <1>5 DEF ReplayCompleted, UsersKept
    <3>2. \A q \in Requests : pc'[q] = "markCompleted" => pc[q] = "markCompleted"
      BY <1>5, <1>0 DEF ReplayCompleted, Go, Return, TypeOK
    <3> QED
      BY <1>5, <1>0, <3>1, <3>2, ReplyKept DEF ReplayCompleted
  <2>4. \A q \in Requests : answer'[q] = answer[q] \/ AnswerOk(q)'
    <3>1. Genuine(seen[r].responseBody, arg[r].key)' /\ arg[r].key \in Keys
      BY <1>5, <1>0 DEF ReplayCompleted, IInv, Provenance, SeenCompletedInv,
         KeyedInv, Genuine
    <3>2. /\ answer'[r].body = seen[r].responseBody /\ arg' = arg
          /\ \A q \in Requests \ {r} : answer'[q] = answer[q]
      BY <1>5, <1>0 DEF ReplayCompleted, Return, TypeOK
    <3> QED
      BY <1>5, <3>1, <3>2 DEF ReplayCompleted, AnswerOk
  <2>5. \A j \in Keys : cache'[j] \in {cache[j], Null} \/ Genuine(cache'[j], j)
    BY <1>5, <1>0 DEF ReplayCompleted, TypeOK, KeyedInv, IInv, Provenance,
       SeenCompletedInv
  <2> QED
    BY <1>5, <2>1, <2>2, <2>3, <2>4, <2>5, QuietStep DEF ReplayCompleted
<1>6. CASE RejectProcessing(r)
  <2>1. TypeOK'
    BY <1>6, <1>0, ControlTypes, AnswerTypes DEF RejectProcessing, TypeOK
  <2>2. KeyedInv' /\ \A q \in Requests : Owns(q)' => Owns(q)
    BY <1>6, <1>0 DEF RejectProcessing, Go, Return, TypeOK, KeyedInv, Owns
  <2>3. UsersKept /\ ReplyInv'
    <3>1. UsersKept
      BY <1>6 DEF RejectProcessing, UsersKept
    <3>2. \A q \in Requests : pc'[q] = "markCompleted" => pc[q] = "markCompleted"
      BY <1>6, <1>0 DEF RejectProcessing, Go, Return, TypeOK
    <3> QED
      BY <1>6, <1>0, <3>1, <3>2, ReplyKept DEF RejectProcessing
  <2>4. \A q \in Requests : answer'[q] = answer[q] \/ AnswerOk(q)'
    BY <1>6, <1>0, AnswerTypes, ErrorAnswer DEF RejectProcessing
  <2> QED
    BY <1>6, <2>1, <2>2, <2>3, <2>4, QuietStep DEF RejectProcessing
<1>7. CASE Post(r)
  <2>1. TypeOK'
    BY <1>7, <1>0, ControlTypes DEF Post, TypeOK
  <2>2. KeyedInv' /\ \A q \in Requests : Owns(q)' => Owns(q)
    BY <1>7, <1>0 DEF Post, Go, Return, TypeOK, KeyedInv, Owns
  <2>3. UsersKept /\ ReplyInv'
    <3>1. UsersKept
      BY <1>7 DEF Post, UsersKept
    <3>2. \A q \in Requests : pc'[q] = "markCompleted" => pc[q] = "markCompleted"
      BY <1>7, <1>0 DEF Post, Go, Return, TypeOK
    <3> QED
      BY <1>7, <1>0, <3>1, <3>2, ReplyKept DEF Post
  <2>4. \A q \in Requests : answer'[q] = answer[q] \/ AnswerOk(q)'
    BY <1>7 DEF Post
  <2> QED
    BY <1>7, <2>1, <2>2, <2>3, <2>4, QuietStep DEF Post
<1>8. CASE OnResponse(r)
  <2>1. TypeOK'
    <3>1. pc' \in [Requests -> Labels] /\ answer' \in [Requests -> Answer \cup {Null}]
      BY <1>8, <1>0, ControlTypes, AnswerTypes DEF OnResponse, TypeOK
    <3> QED
      BY <1>8, <1>0, <3>1 DEF OnResponse, TypeOK
  <2>2. KeyedInv' /\ \A q \in Requests : Owns(q)' => Owns(q)
    BY <1>8, <1>0 DEF OnResponse, Go, Return, TypeOK, KeyedInv, Owns
  <2>3. UsersKept /\ ReplyInv'
    BY <1>8, <1>0 DEF OnResponse, Go, Return, TypeOK, ReplyInv, UsersKept
  <2>4. \A q \in Requests : answer'[q] = answer[q] \/ AnswerOk(q)'
    <3>1. CASE answer' = answer
      BY <3>1
    <3>2. CASE reply[r] \in ErrorReplies /\ Return(r, Rethrow(reply[r]))
      BY <1>0, <3>2, AnswerTypes, ErrorAnswer
    <3>3. CASE /\ arg[r].key = NoKey /\ reply[r] \notin ErrorReplies
               /\ Return(r, [kind |-> "ok", body |-> reply[r]])
      <4>1. reply[r] = r /\ users[arg[r].body] = r
        BY <1>8, <1>0, <3>3 DEF OnResponse, TypeOK, ReplyInv
      <4>2. /\ answer'[r].body = reply[r] /\ UNCHANGED <<arg, users>>
            /\ \A q \in Requests \ {r} : answer'[q] = answer[q]
        BY <1>8, <1>0, <3>3 DEF OnResponse, Return, TypeOK
      <4> QED
        BY <3>3, <4>1, <4>2 DEF AnswerOk
    <3> QED
      BY <1>8, <3>1, <3>2, <3>3 DEF OnResponse
  <2> QED
    BY <1>8, <2>1, <2>2, <2>3, <2>4, QuietStep DEF OnResponse
<1>9. CASE OnTimeout(r)
  <2>1. TypeOK'
    <3>1. pc' \in [Requests -> Labels] /\ answer' \in [Requests -> Answer \cup {Null}]
      BY <1>9, <1>0, ControlTypes, AnswerTypes DEF OnTimeout, TypeOK
    <3> QED
      BY <1>9, <1>0, <3>1 DEF OnTimeout, TypeOK
  <2>2. KeyedInv' /\ \A q \in Requests : Owns(q)' => Owns(q)
    BY <1>9, <1>0 DEF OnTimeout, Go, Return, TypeOK, KeyedInv, Owns
  <2>3. UsersKept /\ ReplyInv'
    BY <1>9, <1>0 DEF OnTimeout, Go, Return, TypeOK, ReplyInv, UsersKept
  <2>4. \A q \in Requests : answer'[q] = answer[q] \/ AnswerOk(q)'
    BY <1>9, <1>0, AnswerTypes, ErrorAnswer DEF OnTimeout
  <2> QED
    BY <1>9, <2>1, <2>2, <2>3, <2>4, QuietStep DEF OnTimeout
<1>10. CASE AuthRegister(r)
  <2>1. TypeOK'
    <3>1. reply' \in [Requests -> Requests \cup {Null} \cup ErrorReplies]
      BY <1>10, <1>0 DEF AuthRegister, TypeOK
    <3>2. users' \in [Bodies -> Requests \cup {Null}]
      BY <1>10, <1>0 DEF AuthRegister, TypeOK
    <3> QED
      BY <1>10, <1>0, <3>1, <3>2 DEF AuthRegister, TypeOK
  <2>2. KeyedInv' /\ \A q \in Requests : Owns(q)' => Owns(q)
    BY <1>10, <1>0 DEF AuthRegister, Go, Return, TypeOK, KeyedInv, Owns
  <2>3. UsersKept /\ ReplyInv'
    BY <1>10, <1>0 DEF AuthRegister, TypeOK, ReplyInv, UsersKept
  <2>4. \A q \in Requests : answer'[q] = answer[q] \/ AnswerOk(q)'
    BY <1>10 DEF AuthRegister
  <2> QED
    BY <1>10, <2>1, <2>2, <2>3, <2>4, QuietStep DEF AuthRegister
<1>11. CASE DbFails(r)
  <2>1. TypeOK'
    <3>1. pc' \in [Requests -> Labels] /\ answer' \in [Requests -> Answer \cup {Null}]
      BY <1>11, <1>0, ControlTypes, AnswerTypes DEF DbFails, TypeOK
    <3> QED
      BY <1>11, <1>0, <3>1 DEF DbFails, TypeOK
  <2>2. KeyedInv' /\ \A q \in Requests : Owns(q)' => Owns(q)
    BY <1>11, <1>0 DEF DbFails, Go, Return, TypeOK, KeyedInv, Owns
  <2>3. UsersKept /\ ReplyInv'
    BY <1>11, <1>0 DEF DbFails, Go, Return, TypeOK, ReplyInv, UsersKept
  <2>4. \A q \in Requests : answer'[q] = answer[q] \/ AnswerOk(q)'
    BY <1>11, <1>0, AnswerTypes, ErrorAnswer DEF DbFails
  <2> QED
    BY <1>11, <2>1, <2>2, <2>3, <2>4, QuietStep DEF DbFails
<1> QED
  BY <1>1, <1>2, <1>3, <1>4, <1>5, <1>6, <1>7, <1>8, <1>9, <1>10, <1>11

\* The steps that create a row or set its status.
LEMMA RowSteps ==
  ASSUME IInv, NEW r \in Requests,
         \/ RetryFailed(r) \/ CreateRecord(r) \/ MarkFailed(r)
         \/ CatchMarkFailed(r) \/ MarkCompleted(r)
  PROVE  IInv'
<1> DEFINE k == arg[r].key
<1>0. TypeOK
  BY DEF IInv
<1>1. CASE RetryFailed(r)
  <2>1. k \in Keys /\ record[k] # Null
    BY <1>1 DEF RetryFailed, IInv, TypeOK, Ownership, KeyedInv, OwnerInv, SeenInv, Owns
  <2>2. /\ record' \in [Keys -> Record \cup {Null}] /\ RowsKept
        /\ record'[k] # Null /\ record'[k].hash = record[k].hash
        /\ record'[k].status = "processing"
        /\ record'[k].responseBody = record[k].responseBody
        /\ \A j \in Keys \ {k} : record'[j] = record[j]
    <3>1. record' = [record EXCEPT ![k].status = "processing"]
      BY <1>1 DEF RetryFailed
    <3>2. record[k].responseBody \in Requests \cup {Null, ErrorBody}
      BY <1>0, <2>1 DEF TypeOK, Record
    <3> QED
      BY <1>0, <2>1, <3>1, <3>2, RowUpdate
  <2>3. UsersKept /\ arg' = arg
    BY <1>1 DEF RetryFailed, UsersKept
  <2>4. \A j \in Keys : \A q : Genuine(q, j) => Genuine(q, j)'
    BY <1>0, <2>2, <2>3, GenuineKept
  <2>5. TypeOK'
    BY <1>1, <2>1, <2>2, AnswerTypes DEF RetryFailed, Go, Return, IInv, TypeOK,
       Provenance, ReplyInv
  <2>6. Ownership'
    <3>1. k \in failedOnce /\ arg[r].body = record[k].hash
      BY <1>1, <2>1 DEF RetryFailed, HashMatches, IInv, Ownership, SeenInv
    <3>2. KeyedInv' /\ \A q \in Requests \ {r} : Owns(q)' => Owns(q)
      BY <1>1, <1>0 DEF RetryFailed, Go, TypeOK, IInv, Ownership, KeyedInv, Owns
    <3>3. FailedInv'
      BY <1>1, <2>2 DEF RetryFailed, IInv, Ownership, FailedInv
    <3>4. OwnerInv'
      BY <2>1, <2>2, <2>3, <3>1, <3>2 DEF IInv, Ownership, OwnerInv, RowsKept, Owns
    <3>5. SeenInv'
      BY <1>1, <2>2 DEF RetryFailed, IInv, Ownership, SeenInv, RowsKept
    <3>6. SoleOwner'
      BY <1>1, <3>1, <3>2 DEF RetryFailed, IInv, Ownership, SoleOwner
    <3> QED
      BY <3>2, <3>3, <3>4, <3>5, <3>6 DEF Ownership
  <2>7. Provenance'
    <3>1. ReplyInv'
      BY <1>1, <1>0 DEF RetryFailed, Go, TypeOK, IInv, Provenance, ReplyInv
    <3>2. StoredInv'
      BY <1>1, <2>2, <2>4 DEF RetryFailed, IInv, Provenance, StoredInv
    <3> QED
      BY <1>1, <1>0, <2>2, <2>3, <3>1, <3>2, ProvenanceKept DEF RetryFailed, IInv
  <2> QED
    BY <2>5, <2>6, <2>7 DEF IInv
<1>2. CASE MarkFailed(r)
  <2>1. k \in Keys /\ record[k] # Null
    BY <1>2 DEF MarkFailed, IInv, TypeOK, Ownership, KeyedInv, OwnerInv, SeenInv, Owns
  <2>2. /\ record' \in [Keys -> Record \cup {Null}] /\ RowsKept
        /\ record'[k] # Null /\ record'[k].hash = record[k].hash
        /\ record'[k].status = "failed"
        /\ record'[k].responseBody = ErrorBody
        /\ \A j \in Keys \ {k} : record'[j] = record[j]
    <3>1. record' = [record EXCEPT ![k].status = "failed", ![k].responseBody = ErrorBody]
      BY <1>2 DEF MarkFailed, SetFailed
    <3>2. ErrorBody \in Requests \cup {Null, ErrorBody}
      OBVIOUS
    <3> QED
      BY <1>0, <2>1, <3>1, <3>2, RowUpdate
  <2>3. UsersKept /\ arg' = arg
    BY <1>2 DEF MarkFailed, UsersKept
  <2>4. \A j \in Keys : \A q : Genuine(q, j) => Genuine(q, j)'
    BY <1>0, <2>2, <2>3, GenuineKept
  <2>5. TypeOK'
    BY <1>2, <2>1, <2>2, AnswerTypes DEF MarkFailed, SetFailed, Go, Return, IInv,
       TypeOK, Provenance, ReplyInv
  <2>6. Ownership'
    <3>1. KeyedInv' /\ \A q \in Requests : Owns(q)' => Owns(q)
      BY <1>2, <1>0 DEF MarkFailed, Go, Return, TypeOK, IInv, Ownership, KeyedInv, Owns
    <3>2. FailedInv' /\ failedOnce \subseteq failedOnce'
      BY <1>2, <2>2 DEF MarkFailed, SetFailed, IInv, Ownership, FailedInv
    <3> QED
      BY <1>2, <2>2, <3>1, <3>2, OwnershipKept DEF MarkFailed, IInv
  <2>7. Provenance'
    <3>1. ReplyInv'
      BY <1>2, <1>0, <2>3 DEF MarkFailed, Go, Return, TypeOK, IInv, Provenance, ReplyInv
    <3>2. StoredInv'
      BY <1>2, <2>2, <2>4 DEF MarkFailed, IInv, Provenance, StoredInv
    <3>3. \A q \in Requests : answer'[q] = answer[q] \/ AnswerOk(q)'
      BY <1>2 DEF MarkFailed
    <3> QED
      BY <1>2, <1>0, <2>2, <2>3, <3>1, <3>2, <3>3, ProvenanceKept DEF MarkFailed, IInv
  <2> QED
    BY <2>5, <2>6, <2>7 DEF IInv
<1>3. CASE CatchMarkFailed(r)
  <2>1. k \in Keys /\ record[k] # Null
    BY <1>3 DEF CatchMarkFailed, IInv, TypeOK, Ownership, KeyedInv, OwnerInv,
       SeenInv, Owns
  <2>2. /\ record' \in [Keys -> Record \cup {Null}] /\ RowsKept
        /\ record'[k] # Null /\ record'[k].hash = record[k].hash
        /\ record'[k].status = "failed"
        /\ record'[k].responseBody = ErrorBody
        /\ \A j \in Keys \ {k} : record'[j] = record[j]
    <3>1. record' = [record EXCEPT ![k].status = "failed", ![k].responseBody = ErrorBody]
      BY <1>3 DEF CatchMarkFailed, SetFailed
    <3>2. ErrorBody \in Requests \cup {Null, ErrorBody}
      OBVIOUS
    <3> QED
      BY <1>0, <2>1, <3>1, <3>2, RowUpdate
  <2>3. UsersKept /\ arg' = arg
    BY <1>3 DEF CatchMarkFailed, UsersKept
  <2>4. \A j \in Keys : \A q : Genuine(q, j) => Genuine(q, j)'
    BY <1>0, <2>2, <2>3, GenuineKept
  <2>5. TypeOK'
    BY <1>3, <2>1, <2>2, AnswerTypes DEF CatchMarkFailed, SetFailed, Go, Return,
       IInv, TypeOK, Provenance, ReplyInv
  <2>6. Ownership'
    <3>1. KeyedInv' /\ \A q \in Requests : Owns(q)' => Owns(q)
      BY <1>3, <1>0 DEF CatchMarkFailed, Go, Return, TypeOK, IInv, Ownership,
         KeyedInv, Owns
    <3>2. FailedInv' /\ failedOnce \subseteq failedOnce'
      BY <1>3, <2>2 DEF CatchMarkFailed, SetFailed, IInv, Ownership, FailedInv
    <3> QED
      BY <1>3, <2>2, <3>1, <3>2, OwnershipKept DEF CatchMarkFailed, IInv
  <2>7. Provenance'
    <3>1. ReplyInv'
      BY <1>3, <1>0, <2>3 DEF CatchMarkFailed, Go, Return, TypeOK, IInv, Provenance,
         ReplyInv
    <3>2. StoredInv'
      BY <1>3, <2>2, <2>4 DEF CatchMarkFailed, IInv, Provenance, StoredInv
    <3>3. \A q \in Requests : answer'[q] = answer[q] \/ AnswerOk(q)'
      BY <1>3, <1>0, AnswerTypes, ErrorAnswer DEF CatchMarkFailed
    <3> QED
      BY <1>3, <1>0, <2>2, <2>3, <3>1, <3>2, <3>3, ProvenanceKept
         DEF CatchMarkFailed, IInv
  <2> QED
    BY <2>5, <2>6, <2>7 DEF IInv
<1>4. CASE MarkCompleted(r)
  <2>1. k \in Keys /\ record[k] # Null
    BY <1>4 DEF MarkCompleted, IInv, TypeOK, Ownership, KeyedInv, OwnerInv, SeenInv,
       Owns
  <2>2. /\ record' \in [Keys -> Record \cup {Null}] /\ RowsKept
        /\ record'[k] # Null /\ record'[k].hash = record[k].hash
        /\ record'[k].status = "completed"
        /\ record'[k].responseBody = reply[r]
        /\ \A j \in Keys \ {k} : record'[j] = record[j]
    <3>1. record' = [record EXCEPT ![k].status = "completed", ![k].responseBody = reply[r]]
      BY <1>4 DEF MarkCompleted
    <3>2. reply[r] \in Requests \cup {Null, ErrorBody}
      BY <1>4 DEF MarkCompleted, IInv, Provenance, ReplyInv
    <3> QED
      BY <1>0, <2>1, <3>1, <3>2, RowUpdate
  <2>3. UsersKept /\ arg' = arg
    BY <1>4 DEF MarkCompleted, UsersKept
  <2>4. \A j \in Keys : \A q : Genuine(q, j) => Genuine(q, j)'
    BY <1>0, <2>2, <2>3, GenuineKept
  <2>5. TypeOK'
    BY <1>4, <2>1, <2>2, AnswerTypes DEF MarkCompleted, Go, Return, IInv, TypeOK,
       Provenance, ReplyInv
  <2>6. Ownership'
    <3>1. KeyedInv' /\ \A q \in Requests : Owns(q)' => Owns(q)
      BY <1>4, <1>0 DEF MarkCompleted, Go, Return, TypeOK, IInv, Ownership,
         KeyedInv, Owns
    <3>2. FailedInv'
      BY <1>4, <2>2 DEF MarkCompleted, IInv, Ownership, FailedInv
    <3> QED
      BY <1>4, <2>2, <3>1, <3>2, OwnershipKept DEF MarkCompleted, IInv
  <2>7. Provenance'
    <3>1. Genuine(reply[r], k)'
      BY <1>4, <2>1, <2>2, <2>3 DEF MarkCompleted, IInv, TypeOK, Ownership, OwnerInv,
         Owns, Provenance, ReplyInv, Genuine
    <3>2. ReplyInv' /\ SeenCompletedInv'
      BY <1>4, <2>4 DEF MarkCompleted, Go, Return, IInv, TypeOK, Provenance,
         ReplyInv, SeenCompletedInv
    <3>3. StoredInv'
      BY <1>4, <2>1, <2>2, <2>4, <3>1 DEF MarkCompleted, IInv, TypeOK, Provenance,
         StoredInv
    <3>4. AnswerInv'
      BY <1>4, <2>1, <2>4, <3>1 DEF MarkCompleted, Return, IInv, TypeOK, Provenance,
         AnswerInv, AnswerOk
    <3> QED
      BY <3>1, <3>2, <3>3, <3>4 DEF Provenance
  <2> QED
    BY <2>5, <2>6, <2>7 DEF IInv
<1>5. CASE CreateRecord(r)
  <2>1. k \in Keys
    BY <1>5 DEF CreateRecord, IInv, TypeOK, Ownership, KeyedInv
  <2>2. CASE record[k] # Null
    <3>1. /\ Return(r, Failure("error"))
          /\ UNCHANGED <<record, cache, users, arg, seen, reply, posted,
                         inflight, failedOnce, restarts, dbFaults>>
      BY <1>5, <2>2 DEF CreateRecord
    <3>2. TypeOK'
      BY <1>0, <3>1, AnswerTypes, ControlTypes DEF TypeOK
    <3>3. Ownership'
      BY <3>1 DEF Go, Return, IInv, TypeOK, Ownership, KeyedInv, OwnerInv, SeenInv,
         FailedInv, SoleOwner, Owns
    <3>4. Provenance'
      BY <3>1, AnswerTypes DEF Go, Return, IInv, TypeOK, Provenance, ReplyInv,
         StoredInv, SeenCompletedInv, AnswerInv, AnswerOk, Genuine
    <3> QED
      BY <3>2, <3>3, <3>4 DEF IInv
  <2>3. CASE record[k] = Null
    <3> DEFINE row == [hash |-> arg[r].body, status |-> "processing",
                       responseBody |-> Null]
    <3>1. row \in Record /\ row # Null
      BY <1>0 DEF TypeOK, Record
    <3>2. /\ record' = [record EXCEPT ![k] = row] /\ Go(r, "post")
          /\ UNCHANGED <<answer, cache, users, arg, seen, reply, posted,
                         inflight, failedOnce, restarts, dbFaults>>
      BY <1>5, <2>3 DEF CreateRecord
    <3>3. /\ record'[k] = row
          /\ \A j \in Keys \ {k} : record'[j] = record[j]
          /\ record' \in [Keys -> Record \cup {Null}] /\ RowsKept
      BY <1>0, <2>1, <2>3, <3>1, <3>2 DEF TypeOK, RowsKept
    <3>4. \A j \in Keys : \A q : Genuine(q, j) => Genuine(q, j)'
      BY <1>0, <3>2, <3>3, GenuineKept DEF UsersKept
    <3>5. TypeOK'
      BY <3>2, <3>3 DEF Go, IInv, TypeOK
    <3>6. Ownership'
      BY <2>1, <2>3, <3>1, <3>2, <3>3 DEF Go, IInv, TypeOK, Ownership, KeyedInv,
         OwnerInv, SeenInv, FailedInv, SoleOwner, RowsKept, Owns
    <3>7. Provenance'
      BY <2>1, <3>1, <3>2, <3>3, <3>4 DEF Go, IInv, TypeOK, Provenance, ReplyInv,
         StoredInv, SeenCompletedInv, AnswerInv, AnswerOk
    <3> QED
      BY <3>5, <3>6, <3>7 DEF IInv
  <2> QED
    BY <2>2, <2>3
<1> QED
  BY <1>1, <1>2, <1>3, <1>4, <1>5

\* A cache expiry and a restart forget; what is remembered stays true.
LEMMA EnvironmentSteps ==
  ASSUME IInv, (\E k \in Keys : CacheExpires(k)) \/ GatewayRestart
  PROVE  IInv'
<1>1. ASSUME NEW k \in Keys, CacheExpires(k)
      PROVE  IInv'
  BY <1>1 DEF CacheExpires, IInv, TypeOK, Ownership, KeyedInv, OwnerInv, SeenInv,
     FailedInv, SoleOwner, Provenance, ReplyInv, StoredInv, SeenCompletedInv,
     AnswerInv, AnswerOk, Owns, Genuine
<1>2. CASE GatewayRestart
  BY <1>2 DEF GatewayRestart, IInv, TypeOK, Ownership, KeyedInv, OwnerInv, SeenInv,
     FailedInv, SoleOwner, Provenance, ReplyInv, StoredInv, SeenCompletedInv,
     AnswerInv, AnswerOk, Owns, Genuine
<1> QED
  BY <1>1, <1>2

\* IInv is an inductive invariant of the gateway's register handler.
THEOREM Inductive == Spec => []IInv
<1>1. Init => IInv
  BY DEF Init, IInv, TypeOK, Ownership, KeyedInv, OwnerInv, SeenInv, FailedInv,
     SoleOwner, Provenance, ReplyInv, StoredInv, SeenCompletedInv, AnswerInv,
     AnswerOk, Owns, Genuine
<1>2. IInv /\ [Next]_vars => IInv'
  <2> SUFFICES ASSUME IInv, [Next]_vars
               PROVE  IInv'
    OBVIOUS
  <2>1. CASE UNCHANGED vars
    BY <2>1 DEF vars, IInv, TypeOK, Ownership, KeyedInv, OwnerInv, SeenInv,
       FailedInv, SoleOwner, Provenance, ReplyInv, StoredInv, SeenCompletedInv,
       AnswerInv, AnswerOk, Owns, Genuine
  <2>2. CASE Next
    BY <2>2, HandlerSteps, RowSteps, EnvironmentSteps DEF Next, Handle
  <2> QED
    BY <2>1, <2>2
<1> QED
  BY <1>1, <1>2, PTL DEF Spec

\* The handler's state is always well typed: in particular no update ever
\* addresses a row that is not there.
THEOREM TypeCorrect == Spec => []TypeOK
<1>1. IInv => TypeOK
  BY DEF IInv
<1> QED
  BY <1>1, Inductive, PTL

\* Concurrent duplicates of a request are forwarded once, until an attempt is
\* marked failed.
THEOREM UniqueExecutorHolds == Spec => []UniqueExecutor
<1>1. IInv => UniqueExecutor
  BY DEF IInv, TypeOK, Ownership, SoleOwner, Owns, UniqueExecutor
<1> QED
  BY <1>1, Inductive, PTL

\* Every success answer is the response of a registration that took place
\* under the same key.
THEOREM ReplayFaithfulHolds == Spec => []ReplayFaithful
<1>1. IInv => ReplayFaithful
  BY DEF IInv, TypeOK, Provenance, AnswerInv, AnswerOk, Genuine, ReplayFaithful
<1> QED
  BY <1>1, Inductive, PTL

\* One key, one userId: all success answers under a key agree.
THEOREM SameAnswerHolds == Spec => []SameAnswer
<1>1. IInv => SameAnswer
  BY DEF IInv, TypeOK, Provenance, AnswerInv, AnswerOk, Genuine, SameAnswer
<1> QED
  BY <1>1, Inductive, PTL
-----------------------------------------------------------------------------
(* What clients see: the handler implements RegisterOnce                   *)

\* The labels of a request whose POST has left.
Sent == {"wait", "markFailed", "markCompleted", "catch", "done", "lost"}

\* A POST leaves once, its reply is read once, an answer is the end, and a POST
\* still on its way has not been answered with a success.
LateInv ==
  \A r \in Requests :
    /\ r \in posted => pc[r] \in Sent
    /\ pc[r] \in {"wait", "markFailed", "markCompleted", "catch"} => r \in posted
    /\ r \notin posted => reply[r] = Null
    /\ answer[r] # Null => pc[r] = "done"
    /\ r \in inflight =>
         /\ pc[r] \in {"wait", "catch", "done", "lost"}
         /\ pc[r] = "wait" => reply[r] = Null
         /\ answer[r] # Null => answer[r].kind # "ok"

\* An e-mail is registered by a request that was sent.
RegisteredInv == \A b \in Bodies : users[b] # Null => users[b] \in posted

\* The steps of a request keep it in order with its POST.
LEMMA LateSteps ==
  ASSUME TypeOK, LateInv, NEW r \in Requests,
         \/ Receive(r) \/ Handle(r) \/ AuthRegister(r) \/ DbFails(r)
  PROVE  LateInv'
<1>0. /\ pc \in [Requests -> Labels] /\ posted \subseteq Requests
      /\ inflight \subseteq posted
      /\ reply \in [Requests -> Requests \cup {Null} \cup ErrorReplies]
      /\ answer \in [Requests -> Answer \cup {Null}]
  BY DEF TypeOK
<1>1. CASE Receive(r)
  BY <1>1, <1>0, AnswerTypes DEF Receive, LateInv, Sent, Go, Return
<1>2. CASE GetFromCache(r)
  BY <1>2, <1>0, AnswerTypes DEF GetFromCache, LateInv, Sent, Go, Return
<1>3. CASE FindUnique(r)
  BY <1>3, <1>0, AnswerTypes DEF FindUnique, LateInv, Sent, Go, Return
<1>4. CASE RejectMismatch(r)
  BY <1>4, <1>0, AnswerTypes DEF RejectMismatch, LateInv, Sent, Go, Return
<1>5. CASE ReplayCompleted(r)
  BY <1>5, <1>0, AnswerTypes DEF ReplayCompleted, LateInv, Sent, Go, Return
<1>6. CASE RejectProcessing(r)
  BY <1>6, <1>0, AnswerTypes DEF RejectProcessing, LateInv, Sent, Go, Return
<1>7. CASE RetryFailed(r)
  BY <1>7, <1>0, AnswerTypes DEF RetryFailed, LateInv, Sent, Go, Return
<1>8. CASE CreateRecord(r)
  BY <1>8, <1>0, AnswerTypes DEF CreateRecord, LateInv, Sent, Go, Return
<1>9. CASE Post(r)
  BY <1>9, <1>0, AnswerTypes DEF Post, LateInv, Sent, Go, Return
<1>10. CASE AuthRegister(r)
  BY <1>10, <1>0, AnswerTypes DEF AuthRegister, LateInv, Sent, Go, Return
<1>11. CASE OnResponse(r)
  BY <1>11, <1>0, AnswerTypes DEF OnResponse, LateInv, Sent, Go, Return
<1>12. CASE OnTimeout(r)
  BY <1>12, <1>0, AnswerTypes DEF OnTimeout, LateInv, Sent, Go, Return
<1>13. CASE MarkFailed(r)
  BY <1>13, <1>0, AnswerTypes DEF MarkFailed, LateInv, Sent, Go, Return, SetFailed
<1>14. CASE CatchMarkFailed(r)
  BY <1>14, <1>0, AnswerTypes DEF CatchMarkFailed, LateInv, Sent, Go, Return, SetFailed
<1>15. CASE MarkCompleted(r)
  BY <1>15, <1>0, AnswerTypes DEF MarkCompleted, LateInv, Sent, Go, Return
<1>16. CASE DbFails(r)
  BY <1>16, <1>0, AnswerTypes DEF DbFails, LateInv, Sent, Go, Return
<1> QED
  BY <1>1, <1>2, <1>3, <1>4, <1>5, <1>6, <1>7, <1>8, <1>9, <1>10, <1>11, <1>12, <1>13, <1>14, <1>15, <1>16 DEF Handle

\* No step disturbs the order of a request and its POST, and users are created
\* for POSTs that were sent.
LEMMA LateKept == IInv /\ LateInv /\ RegisteredInv /\ [Next]_vars
                    => LateInv' /\ RegisteredInv'
<1> SUFFICES ASSUME IInv, LateInv, RegisteredInv, [Next]_vars
             PROVE  LateInv' /\ RegisteredInv'
  OBVIOUS
<1>0. TypeOK
  BY DEF IInv
<1>1. LateInv'
  <2>1. CASE UNCHANGED vars
    BY <2>1 DEF vars, LateInv
  <2>2. ASSUME NEW k \in Keys, CacheExpires(k) PROVE LateInv'
    BY <2>2 DEF CacheExpires, LateInv
  <2>3. CASE GatewayRestart
    BY <2>3, <1>0 DEF GatewayRestart, TypeOK, LateInv, Sent
  <2> QED
    BY <1>0, <2>1, <2>2, <2>3, LateSteps DEF Next
<1>2. RegisteredInv'
  <2>1. CASE UNCHANGED users /\ posted \subseteq posted'
    BY <2>1 DEF RegisteredInv
  <2>2. ASSUME NEW r \in Requests, AuthRegister(r) PROVE RegisteredInv'
    BY <2>2, <1>0 DEF AuthRegister, TypeOK, RegisteredInv
  <2> QED
    BY <2>1, <2>2 DEF Next, Handle, vars, Receive, GetFromCache, FindUnique,
       RejectMismatch, ReplayCompleted, RejectProcessing, RetryFailed,
       CreateRecord, Post, OnResponse, OnTimeout, MarkFailed, CatchMarkFailed,
       MarkCompleted, DbFails, CacheExpires, GatewayRestart
<1> QED
  BY <1>1, <1>2

\* An answer is one outcome more.
LEMMA ToldOnce ==
  ASSUME TypeOK, LateInv, NEW r \in Requests, NEW a \in Answer, Return(r, a),
         pc[r] # "done"
  PROVE  /\ Told[r] = Null
         /\ Told' = [Told EXCEPT ![r] = IF a.kind = "ok" THEN a.body
                                       ELSE ErrorBody]
<1>1. answer[r] = Null
  BY DEF LateInv
<1>2. answer' = [answer EXCEPT ![r] = a] /\ DOMAIN answer = Requests /\ a # Null
  BY AnswerTypes DEF Return, TypeOK
<1> QED
  BY <1>1, <1>2 DEF Told

\* A request that was refused, or whose attempt was marked failed.
LEMMA RefusalRefines ==
  ASSUME TypeOK, LateInv, NEW r \in Requests, NEW a \in Answer, a.kind # "ok",
         pc[r] # "done", Return(r, a), UNCHANGED <<arg, users>>,
         \/ failedOnce' = failedOnce
         \/ arg[r].key # NoKey /\ failedOnce' = failedOnce \cup {arg[r].key}
  PROVE  Promise!Fail(r)
<1>1. Told[r] = Null /\ Told' = [Told EXCEPT ![r] = ErrorBody]
  BY ToldOnce
<1> QED
  BY <1>1 DEF Promise!Fail

\* A request that was told of a success: provenance and agreement are those
\* of the state the step leads to.
LEMMA SuccessRefines ==
  ASSUME TypeOK, LateInv, IInv', NEW r \in Requests, NEW q \in Requests,
         pc[r] # "done", Return(r, [kind |-> "ok", body |-> q]),
         UNCHANGED <<arg, users, failedOnce>>
  PROVE  Promise!Succeed(r, q)
<1> DEFINE a == [kind |-> "ok", body |-> q]
<1>1. a \in Answer /\ a # Null /\ a.kind = "ok" /\ a.body = q
  BY AnswerTypes
<1>2. Told[r] = Null /\ Told' = [Told EXCEPT ![r] = q]
  BY <1>1, ToldOnce
<1>3. /\ answer' = [answer EXCEPT ![r] = a]
      /\ answer \in [Requests -> Answer \cup {Null}]
      /\ arg \in [Requests -> [key: Keys \cup {NoKey}, body: Bodies]]
  BY DEF Return, TypeOK
<1>4. \A s \in Requests : AnswerOk(s)'
  BY DEF IInv, Provenance, AnswerInv
<1>5. IF arg[r].key \in Keys THEN Genuine(q, arg[r].key)'
     ELSE q = r /\ users[arg[r].body] = r
  <2>1. answer'[r] = a
    BY <1>3
  <2> QED
    BY <1>1, <1>4, <2>1 DEF AnswerOk
<1>6. Promise!Registered(q) /\ (q = r \/ Promise!SameKey(q, r))
  <2>1. arg[r].key \in Keys \/ arg[r].key = NoKey
    BY <1>3
  <2> QED
    BY <1>5, <2>1 DEF Genuine, Promise!Registered, Promise!SameKey
<1>7. ASSUME NEW s \in Requests, Promise!SameKey(s, r), Told[s] \in Requests
      PROVE  Told[s] = q
  <2>1. arg[s].key = arg[r].key /\ arg[r].key \in Keys
    BY <1>3, <1>7 DEF Promise!SameKey
  <2>2. s # r /\ answer'[s] = answer[s]
    BY <1>2, <1>3, <1>7
  <2>3. answer[s] # Null /\ answer[s].kind = "ok" /\ Told[s] = answer[s].body
    BY <1>7 DEF Told
  <2>4. Genuine(answer[s].body, arg[s].key)'
    BY <1>4, <2>1, <2>2, <2>3 DEF AnswerOk
  <2>5. Genuine(q, arg[r].key)'
    BY <1>5, <2>1
  <2> QED
    BY <2>1, <2>2, <2>3, <2>4, <2>5 DEF Genuine
<1> QED
  BY <1>2, <1>6, <1>7 DEF Promise!Succeed

\* A user is created: no other request of the key was registered unless an
\* attempt had been marked failed, since both would own the key.
LEMMA RegistrationRefines ==
  ASSUME IInv, LateInv, RegisteredInv, NEW r \in Requests, AuthRegister(r)
  PROVE  Promise!Register(r) \/ UNCHANGED Promise!vars
<1>0. TypeOK
  BY DEF IInv
<1>1. CASE users' = users
  <2>1. Told' = Told
    BY <1>1 DEF AuthRegister, Told
  <2> QED
    BY <1>1, <2>1 DEF AuthRegister, Promise!vars
<1>2. CASE users' # users
  <2>1. /\ r \in inflight /\ users[arg[r].body] = Null
        /\ users' = [users EXCEPT ![arg[r].body] = r]
        /\ arg' = arg /\ answer' = answer /\ failedOnce' = failedOnce
    BY <1>2 DEF AuthRegister
  <2>2. Told[r] \in {Null, ErrorBody}
    BY <2>1 DEF LateInv, Told
  <2>3. ASSUME NEW q \in Requests, Promise!SameKey(q, r), Promise!Registered(q)
        PROVE  arg[r].key \in failedOnce
    <3>1. /\ arg[q].key = arg[r].key /\ arg[r].key \in Keys
          /\ arg[q].body \in Bodies
      BY <1>0, <2>3 DEF TypeOK, Promise!SameKey
    <3>2. q \in posted /\ r \in posted
      BY <1>0, <2>1, <2>3, <3>1 DEF TypeOK, RegisteredInv, Promise!Registered
    <3>3. q # r
      BY <2>1, <2>3 DEF Promise!Registered
    <3> QED
      BY <3>1, <3>2, <3>3 DEF IInv, Ownership, SoleOwner, Owns
  <2>4. Told' = Told
    BY <2>1 DEF Told
  <2> QED
    BY <2>1, <2>2, <2>3, <2>4 DEF Promise!Register
<1> QED
  BY <1>1, <1>2

\* Every step of the handler is one step of RegisterOnce or none.
LEMMA StepRefines ==
  IInv /\ IInv' /\ LateInv /\ RegisteredInv /\ [Next]_vars
    => [Promise!Next]_Promise!vars
<1> SUFFICES ASSUME IInv, IInv', LateInv, RegisteredInv, [Next]_vars
             PROVE  [Promise!Next]_Promise!vars
  OBVIOUS
<1>0. TypeOK
  BY DEF IInv
<1>1. ASSUME UNCHANGED <<arg, users, failedOnce, answer>>
      PROVE  UNCHANGED Promise!vars
  BY <1>1 DEF Promise!vars, Told
<1>2. ASSUME NEW r \in Requests, GetFromCache(r)
      PROVE  UNCHANGED Promise!vars \/ \E q \in Requests : Promise!Succeed(r, q)
  <2>1. CASE answer' = answer
    BY <1>1, <1>2, <2>1 DEF GetFromCache
  <2>2. CASE answer' # answer
    <3>1. /\ cache[arg[r].key] # Null /\ pc[r] = "getFromCache"
          /\ Return(r, [kind |-> "ok", body |-> cache[arg[r].key]])
          /\ UNCHANGED <<arg, users, failedOnce>>
      BY <1>2, <2>2 DEF GetFromCache
    <3>2. arg[r].key \in Keys
      BY <3>1 DEF IInv, Ownership, KeyedInv
    <3>3. cache[arg[r].key] \in Requests
      BY <1>0, <3>1, <3>2 DEF TypeOK
    <3> QED
      BY <1>0, <3>1, <3>3, SuccessRefines
  <2> QED
    BY <2>1, <2>2
<1>3. ASSUME NEW r \in Requests, ReplayCompleted(r)
      PROVE  \E q \in Requests : Promise!Succeed(r, q)
  <2>1. /\ pc[r] = "decide" /\ seen[r] # Null /\ seen[r].status = "completed"
        /\ Return(r, [kind |-> "ok", body |-> seen[r].responseBody])
        /\ UNCHANGED <<arg, users, failedOnce>>
    BY <1>3 DEF ReplayCompleted
  <2>2. arg[r].key \in Keys
    BY <2>1 DEF IInv, Ownership, KeyedInv
  <2>3. seen[r].responseBody \in Requests
    BY <2>1, <2>2 DEF IInv, Provenance, SeenCompletedInv, Genuine
  <2> QED
    BY <1>0, <2>1, <2>3, SuccessRefines
<1>4. ASSUME NEW r \in Requests, MarkCompleted(r)
      PROVE  \E q \in Requests : Promise!Succeed(r, q)
  <2>1. /\ pc[r] = "markCompleted"
        /\ Return(r, [kind |-> "ok", body |-> reply[r]])
        /\ UNCHANGED <<arg, users, failedOnce>>
    BY <1>4 DEF MarkCompleted
  <2>2. reply[r] \in Requests
    BY <2>1 DEF IInv, Provenance, ReplyInv
  <2> QED
    BY <1>0, <2>1, <2>2, SuccessRefines
<1>5. ASSUME NEW r \in Requests, OnResponse(r)
      PROVE  \/ UNCHANGED Promise!vars \/ Promise!Fail(r)
             \/ \E q \in Requests : Promise!Succeed(r, q)
  <2>1. /\ pc[r] = "wait" /\ reply[r] # Null
        /\ UNCHANGED <<arg, users, failedOnce>>
    BY <1>5 DEF OnResponse
  <2>2. CASE answer' = answer
    BY <1>1, <2>1, <2>2
  <2>3. CASE Return(r, Rethrow(reply[r]))
    BY <1>0, <2>1, <2>3, AnswerTypes, RefusalRefines
  <2>4. CASE /\ reply[r] \notin ErrorReplies
             /\ Return(r, [kind |-> "ok", body |-> reply[r]])
    <3>1. reply[r] \in Requests
      BY <1>0, <2>1, <2>4 DEF TypeOK
    <3> QED
      BY <1>0, <2>1, <2>4, <3>1, SuccessRefines
  <2> QED
    BY <1>5, <2>2, <2>3, <2>4 DEF OnResponse
<1>6. ASSUME NEW r \in Requests, RejectMismatch(r) \/ RejectProcessing(r)
      PROVE  Promise!Fail(r)
  <2>1. PICK a \in Answer : a.kind # "ok" /\ Return(r, a)
    BY <1>6, AnswerTypes DEF RejectMismatch, RejectProcessing, Failure, Answer
  <2>2. pc[r] = "decide" /\ UNCHANGED <<arg, users, failedOnce>>
    BY <1>6 DEF RejectMismatch, RejectProcessing
  <2> QED
    BY <1>0, <2>1, <2>2, RefusalRefines
<1>7. ASSUME NEW r \in Requests, CreateRecord(r) \/ OnTimeout(r) \/ DbFails(r)
      PROVE  UNCHANGED Promise!vars \/ Promise!Fail(r)
  <2>1. pc[r] # "done" /\ UNCHANGED <<arg, users, failedOnce>>
    BY <1>7 DEF CreateRecord, OnTimeout, DbFails
  <2>2. CASE answer' = answer
    BY <1>1, <2>1, <2>2
  <2>3. CASE Return(r, Failure("error"))
    <3>1. Failure("error") \in Answer /\ Failure("error").kind # "ok"
      BY AnswerTypes
    <3> QED
      BY <1>0, <2>1, <2>3, <3>1, RefusalRefines
  <2> QED
    BY <1>7, <2>2, <2>3 DEF CreateRecord, OnTimeout, DbFails
<1>8. ASSUME NEW r \in Requests, MarkFailed(r) \/ CatchMarkFailed(r)
      PROVE  Promise!Fail(r)
  <2>1. /\ pc[r] \in {"markFailed", "catch"} /\ UNCHANGED <<arg, users>>
        /\ failedOnce' = failedOnce \cup {arg[r].key}
    BY <1>8 DEF MarkFailed, CatchMarkFailed, SetFailed
  <2>2. arg[r].key # NoKey
    BY <2>1 DEF IInv, Ownership, KeyedInv
  <2>3. CASE MarkFailed(r)
    <3>1. Told' = Told /\ Told[r] = Null
      BY <2>3 DEF MarkFailed, Told, LateInv
    <3> QED
      BY <2>1, <2>2, <3>1 DEF Promise!Fail
  <2>4. CASE CatchMarkFailed(r)
    <3>1. Return(r, Rethrow(reply[r]))
      BY <2>4 DEF CatchMarkFailed
    <3> QED
      BY <1>0, <2>1, <2>2, <3>1, AnswerTypes, RefusalRefines
  <2> QED
    BY <1>8, <2>3, <2>4
<1>9. ASSUME \/ \E r \in Requests : \/ Receive(r) \/ FindUnique(r)
                                   \/ RetryFailed(r) \/ Post(r)
             \/ \E k \in Keys : CacheExpires(k)
             \/ GatewayRestart \/ UNCHANGED vars
      PROVE  UNCHANGED Promise!vars
  <2>1. UNCHANGED <<arg, users, failedOnce, answer>>
    BY <1>9 DEF Receive, FindUnique, RetryFailed, Post, CacheExpires,
       GatewayRestart, vars
  <2> QED
    BY <1>1, <2>1
<1>10. ASSUME NEW r \in Requests, AuthRegister(r)
       PROVE  Promise!Register(r) \/ UNCHANGED Promise!vars
  BY <1>10, RegistrationRefines
<1> QED
  BY <1>2, <1>3, <1>4, <1>5, <1>6, <1>7, <1>8, <1>9, <1>10
     DEF Next, Handle, Promise!Next

\* POST /client/auth/register does what its clients rely on: an e-mail is
\* registered once, a second registration of a key takes place only after a
\* failed attempt, and a success tells of the registration of its key.
THEOREM Refinement == Spec => ImplementsRegisterOnce
<1>1. Init => LateInv /\ RegisteredInv /\ Promise!Init
  BY DEF Init, LateInv, RegisteredInv, Promise!Init, Told
<1>2. IInv /\ LateInv /\ RegisteredInv /\ [Next]_vars
        => LateInv' /\ RegisteredInv'
  BY LateKept
<1>3. IInv /\ IInv' /\ LateInv /\ RegisteredInv /\ [Next]_vars
        => [Promise!Next]_Promise!vars
  BY StepRefines
<1> QED
  BY <1>1, <1>2, <1>3, Inductive, PTL
     DEF Spec, ImplementsRegisterOnce, Promise!Spec
=============================================================================
