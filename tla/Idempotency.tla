----------------------------- MODULE Idempotency -----------------------------
(***************************************************************************)
(* POST /client/auth/register at the gateway: AuthClientService.register   *)
(* wrapped in IdempotencyService (in-memory cache, then the                *)
(* idempotency_records table), calling the auth-service over HTTP with a   *)
(* 10 s axios timeout.                                                     *)
(*                                                                         *)
(* Every await of the handler is a point where other requests, a cache     *)
(* expiry or a gateway restart may interleave, so each database access and *)
(* each HTTP exchange is an action of its own.  A request is identified by *)
(* a member of Requests; the response body of a successful registration    *)
(* carries the new userId, abstracted to the request that created the      *)
(* user.  Rows are never deleted, so a recordId is abstracted to its key.  *)
(***************************************************************************)
EXTENDS Naturals

CONSTANTS Requests,     \* HTTP register requests reaching the gateway
          Keys,         \* values of the Idempotency-Key header
          NoKey,        \* the header is absent
          Bodies,       \* register payloads, each with its own e-mail
          Null,         \* nothing: no row, no cache entry, no reply
          ErrorBody,    \* any error payload but the next
          EmailExists,  \* the auth-service's 409 'Email already exists'
          MaxRestarts,  \* bound on gateway restarts
          MaxDbFaults   \* bound on failed gateway database writes

VARIABLES
  record,    \* idempotency_records, by key: a Record, or Null when no row
  cache,     \* IdempotencyService.idempotencyCache: key -> response or Null
  users,     \* auth-service users: e-mail (body) -> creating request or Null
  pc,        \* where each request is in AuthClientService.register
  arg,       \* the request's Idempotency-Key and body
  seen,      \* the row findUnique returned to the request
  reply,     \* outcome of the POST as the handler sees it, Null while none
  answer,    \* what the gateway answered the client
  posted,    \* requests whose POST left the gateway for the auth-service
  inflight,  \* of those, the ones the auth-service has not processed yet
  failedOnce,\* keys whose row was marked failed at some time (history)
  restarts,  \* gateway restarts so far
  dbFaults   \* failed gateway database writes so far

vars == <<record, cache, users, pc, arg, seen, reply, answer, posted,
          inflight, failedOnce, restarts, dbFaults>>

Status   == {"processing", "completed", "failed"}
Record   == [hash: Bodies, status: Status,
             responseBody: Requests \cup {Null, ErrorBody}]
Answer   == [kind: {"ok", "mismatch", "stillProcessing", "emailExists",
                    "error"},
             body: Requests \cup {Null}]
ErrorReplies == {ErrorBody, EmailExists}     \* status >= 400
Failure(kind) == [kind |-> kind, body |-> Null]
\* handleAxiosError: the client gets the status the auth-service answered.
Rethrow(res)  == Failure(IF res = EmailExists THEN "emailExists" ELSE "error")

ASSUME IdempotencyAssumption ==
  /\ NoKey \notin Keys
  /\ Requests \cap {Null, ErrorBody, EmailExists} = {}
  /\ Null \notin Record \cup Answer \cup ErrorReplies
  /\ MaxRestarts \in Nat /\ MaxDbFaults \in Nat

\* A request that got shouldExecute = true and has not returned yet.
Executing == {"post", "wait", "markFailed", "markCompleted", "catch"}
Active    == Executing \cup {"getFromCache", "find", "decide"}
Labels    == Active \cup {"idle", "done", "lost"}

TypeOK ==
  /\ record \in [Keys -> Record \cup {Null}]
  /\ cache \in [Keys -> Requests \cup {Null}]
  /\ users \in [Bodies -> Requests \cup {Null}]
  /\ pc \in [Requests -> Labels]
  /\ arg \in [Requests -> [key: Keys \cup {NoKey}, body: Bodies]]
  /\ seen \in [Requests -> Record \cup {Null}]
  /\ reply \in [Requests -> Requests \cup {Null} \cup ErrorReplies]
  /\ answer \in [Requests -> Answer \cup {Null}]
  /\ posted \subseteq Requests /\ inflight \subseteq posted
  /\ failedOnce \subseteq Keys
  /\ restarts \in 0..MaxRestarts /\ dbFaults \in 0..MaxDbFaults

Init ==
  /\ record = [k \in Keys |-> Null]
  /\ cache = [k \in Keys |-> Null]
  /\ users = [b \in Bodies |-> Null]
  /\ pc = [r \in Requests |-> "idle"]
  /\ arg \in [Requests -> [key: Keys \cup {NoKey}, body: Bodies]]
  /\ seen = [r \in Requests |-> Null]
  /\ reply = [r \in Requests |-> Null]
  /\ answer = [r \in Requests |-> Null]
  /\ posted = {} /\ inflight = {} /\ failedOnce = {}
  /\ restarts = 0 /\ dbFaults = 0

-----------------------------------------------------------------------------
Go(r, label)   == pc' = [pc EXCEPT ![r] = label]
Return(r, ans) == Go(r, "done") /\ answer' = [answer EXCEPT ![r] = ans]

\* register is called; without a key checkIdempotency answers at once that
\* the request must execute, with an empty recordId.
Receive(r) ==
  /\ pc[r] = "idle"
  /\ Go(r, IF arg[r].key = NoKey THEN "post" ELSE "getFromCache")
  /\ UNCHANGED <<record, cache, users, arg, seen, reply, answer, posted,
                 inflight, failedOnce, restarts, dbFaults>>

\* A cache hit returns the cached response; the cache is keyed by the key
\* alone and the request hash is not computed yet.  A miss sends findUnique.
GetFromCache(r) ==
  /\ pc[r] = "getFromCache"
  /\ \/ /\ cache[arg[r].key] # Null
        /\ Return(r, [kind |-> "ok", body |-> cache[arg[r].key]])
     \/ /\ cache[arg[r].key] = Null
        /\ Go(r, "find")
        /\ UNCHANGED answer
  /\ UNCHANGED <<record, cache, users, arg, seen, reply, posted,
                 inflight, failedOnce, restarts, dbFaults>>

\* idempotencyRecord.findUnique runs in the database; the row it returns is
\* acted upon later.
FindUnique(r) ==
  /\ pc[r] = "find"
  /\ seen' = [seen EXCEPT ![r] = record[arg[r].key]]
  /\ Go(r, "decide")
  /\ UNCHANGED <<record, cache, users, arg, reply, answer, posted,
                 inflight, failedOnce, restarts, dbFaults>>

HashMatches(r) == seen[r].hash = arg[r].body

\* checkIdempotency goes on to an update or a create.
WritesRow(r) ==
  IF seen[r] = Null THEN TRUE ELSE HashMatches(r) /\ seen[r].status = "failed"

RejectMismatch(r) ==
  /\ pc[r] = "decide" /\ seen[r] # Null
  /\ ~HashMatches(r)
  /\ Return(r, Failure("mismatch"))
  /\ UNCHANGED <<record, cache, users, arg, seen, reply, posted,
                 inflight, failedOnce, restarts, dbFaults>>

\* Mutant: the status test forgotten, a failed row is replayed as well.
ReplaySettled(r) ==
  /\ pc[r] = "decide" /\ seen[r] # Null
  /\ HashMatches(r) /\ seen[r].status # "processing"
  /\ Return(r, [kind |-> "ok", body |-> seen[r].responseBody])
  /\ UNCHANGED <<record, cache, users, arg, seen, reply, posted,
                 inflight, failedOnce, restarts, dbFaults>>

ReplayCompleted(r) ==
  /\ pc[r] = "decide" /\ seen[r] # Null
  /\ HashMatches(r) /\ seen[r].status = "completed"
  /\ cache' = [cache EXCEPT ![arg[r].key] = seen[r].responseBody]
  /\ Return(r, [kind |-> "ok", body |-> seen[r].responseBody])
  /\ UNCHANGED <<record, users, arg, seen, reply, posted,
                 inflight, failedOnce, restarts, dbFaults>>

RejectProcessing(r) ==
  /\ pc[r] = "decide" /\ seen[r] # Null
  /\ HashMatches(r) /\ seen[r].status = "processing"
  /\ Return(r, Failure("stillProcessing"))
  /\ UNCHANGED <<record, cache, users, arg, seen, reply, posted,
                 inflight, failedOnce, restarts, dbFaults>>

\* The row was seen failed: it is put back to processing by id, whatever its
\* status has become since; responseBody is left as it is.
RetryFailed(r) ==
  /\ pc[r] = "decide" /\ seen[r] # Null
  /\ HashMatches(r) /\ seen[r].status = "failed"
  /\ record' = [record EXCEPT ![arg[r].key].status = "processing"]
  /\ Go(r, "post")
  /\ UNCHANGED <<cache, users, arg, seen, reply, answer, posted,
                 inflight, failedOnce, restarts, dbFaults>>

\* Mutant: the unique index on key missing, or create written as upsert.
UpsertRecord(r) ==
  /\ pc[r] = "decide" /\ seen[r] = Null
  /\ record' = [record EXCEPT ![arg[r].key] =
                  [hash |-> arg[r].body, status |-> "processing",
                   responseBody |-> Null]]
  /\ Go(r, "post")
  /\ UNCHANGED <<cache, users, arg, seen, reply, answer, posted,
                 inflight, failedOnce, restarts, dbFaults>>

\* key is unique in the table: create succeeds for the first request only.
\* The loser's error is thrown before recordId is assigned, so nothing is
\* marked failed.
CreateRecord(r) ==
  /\ pc[r] = "decide" /\ seen[r] = Null
  /\ \/ /\ record[arg[r].key] = Null
        /\ record' = [record EXCEPT ![arg[r].key] =
                        [hash |-> arg[r].body, status |-> "processing",
                         responseBody |-> Null]]
        /\ Go(r, "post")
        /\ UNCHANGED answer
     \/ /\ record[arg[r].key] # Null
        /\ Return(r, Failure("error"))
        /\ UNCHANGED record
  /\ UNCHANGED <<cache, users, arg, seen, reply, posted,
                 inflight, failedOnce, restarts, dbFaults>>

-----------------------------------------------------------------------------
\* client.post('auth/internal/register') leaves the gateway.
Post(r) ==
  /\ pc[r] = "post"
  /\ posted' = posted \cup {r} /\ inflight' = inflight \cup {r}
  /\ Go(r, "wait")
  /\ UNCHANGED <<record, cache, users, arg, seen, reply, answer,
                 failedOnce, restarts, dbFaults>>

\* Mutant: no unique index on the e-mail, the user is created once more.
AuthRegisterAgain(r) ==
  /\ r \in inflight
  /\ inflight' = inflight \ {r}
  /\ users' = [users EXCEPT ![arg[r].body] = r]
  /\ reply' = IF pc[r] = "wait" THEN [reply EXCEPT ![r] = r] ELSE reply
  /\ UNCHANGED <<record, cache, pc, arg, seen, answer, posted,
                 failedOnce, restarts, dbFaults>>

\* The auth-service handles the POST, possibly after the gateway gave up, in
\* which case its response is dropped.  It creates the user and succeeds;
\* creates the user and then fails (the OTP upsert or the event schema);
\* finds the e-mail taken; or fails before creating anything (rate limit,
\* database down).
AuthRegister(r) ==
  LET Reply(res) ==
        reply' = IF pc[r] = "wait" THEN [reply EXCEPT ![r] = res] ELSE reply
  IN  /\ r \in inflight
      /\ inflight' = inflight \ {r}
      /\ \/ /\ users[arg[r].body] = Null
            /\ users' = [users EXCEPT ![arg[r].body] = r]
            /\ \E res \in {r, ErrorBody} : Reply(res)
         \/ /\ users[arg[r].body] # Null
            /\ Reply(EmailExists)
            /\ UNCHANGED users
         \/ /\ Reply(ErrorBody)
            /\ UNCHANGED users
      /\ UNCHANGED <<record, cache, pc, arg, seen, answer, posted,
                     failedOnce, restarts, dbFaults>>

\* The response arrives.  Without a recordId there is nothing to mark.
OnResponse(r) ==
  /\ pc[r] = "wait" /\ reply[r] # Null
  /\ IF arg[r].key = NoKey
     THEN Return(r, IF reply[r] \in ErrorReplies THEN Rethrow(reply[r])
                    ELSE [kind |-> "ok", body |-> reply[r]])
     ELSE /\ Go(r, IF reply[r] \in ErrorReplies THEN "markFailed"
                   ELSE "markCompleted")
          /\ UNCHANGED answer
  /\ UNCHANGED <<record, cache, users, arg, seen, reply, posted,
                 inflight, failedOnce, restarts, dbFaults>>

\* Mutant: the client is created without a timeout.
OnTimeoutUnset(r) == FALSE

\* The 10 s axios timeout (or a broken connection): the catch block runs.
OnTimeout(r) ==
  /\ pc[r] = "wait"
  /\ reply' = [reply EXCEPT ![r] = ErrorBody]
  /\ IF arg[r].key = NoKey
     THEN Return(r, Failure("error"))
     ELSE Go(r, "catch") /\ UNCHANGED answer
  /\ UNCHANGED <<record, cache, users, arg, seen, posted,
                 inflight, failedOnce, restarts, dbFaults>>

SetFailed(k) ==
  /\ record' = [record EXCEPT ![k].status = "failed",
                              ![k].responseBody = ErrorBody]
  /\ failedOnce' = failedOnce \cup {k}

\* markFailed for a status >= 400; handleAxiosError then throws into the
\* catch block of the same function.
MarkFailed(r) ==
  /\ pc[r] = "markFailed"
  /\ SetFailed(arg[r].key)
  /\ Go(r, "catch")
  /\ UNCHANGED <<cache, users, arg, seen, reply, answer, posted,
                 inflight, restarts, dbFaults>>

\* Mutant: the catch block only rethrows.
CatchRethrow(r) ==
  /\ pc[r] = "catch"
  /\ Return(r, Failure("error"))
  /\ UNCHANGED <<record, cache, users, arg, seen, reply, posted,
                 inflight, failedOnce, restarts, dbFaults>>

\* The catch block marks the row failed (again) and rethrows.
CatchMarkFailed(r) ==
  /\ pc[r] = "catch"
  /\ SetFailed(arg[r].key)
  /\ Return(r, Rethrow(reply[r]))
  /\ UNCHANGED <<cache, users, arg, seen, reply, posted,
                 inflight, restarts, dbFaults>>

\* markCompleted, cacheResponse, return.
MarkCompleted(r) ==
  /\ pc[r] = "markCompleted"
  /\ record' = [record EXCEPT ![arg[r].key].status = "completed",
                              ![arg[r].key].responseBody = reply[r]]
  /\ cache' = [cache EXCEPT ![arg[r].key] = reply[r]]
  /\ Return(r, [kind |-> "ok", body |-> reply[r]])
  /\ UNCHANGED <<users, arg, seen, reply, posted,
                 inflight, failedOnce, restarts, dbFaults>>

\* A database call fails.  In checkIdempotency recordId is still empty and
\* the client gets the error; in the try block control goes to catch with the
\* database's error in place of the reply; in the catch block it propagates.
DbFails(r) ==
  /\ pc[r] \in {"find", "decide", "markFailed", "markCompleted", "catch"}
  /\ dbFaults < MaxDbFaults
  /\ dbFaults' = dbFaults + 1
  /\ IF pc[r] \in {"markFailed", "markCompleted"}
     THEN /\ Go(r, "catch")
          /\ reply' = [reply EXCEPT ![r] = ErrorBody]
          /\ UNCHANGED answer
     ELSE /\ IF pc[r] = "decide" THEN WritesRow(r) ELSE TRUE
          /\ Return(r, Failure("error"))
          /\ UNCHANGED reply
  /\ UNCHANGED <<record, cache, users, arg, seen, posted,
                 inflight, failedOnce, restarts>>

-----------------------------------------------------------------------------
\* The five-minute entry lapses (getFromCache deletes it when it reads it).
CacheExpires(k) ==
  /\ cache[k] # Null
  /\ cache' = [cache EXCEPT ![k] = Null]
  /\ UNCHANGED <<record, users, pc, arg, seen, reply, answer, posted,
                 inflight, failedOnce, restarts, dbFaults>>

\* The gateway process restarts: the cache and every running handler are
\* lost, the table stays, POSTs already sent are still processed.
GatewayRestart ==
  /\ restarts < MaxRestarts
  /\ restarts' = restarts + 1
  /\ cache' = [k \in Keys |-> Null]
  /\ pc' = [r \in Requests |-> IF pc[r] \in Active THEN "lost" ELSE pc[r]]
  /\ UNCHANGED <<record, users, arg, seen, reply, answer, posted,
                 inflight, failedOnce, dbFaults>>

\* What the gateway does for one request once it was received.
Handle(r) ==
  \/ GetFromCache(r) \/ FindUnique(r) \/ RejectMismatch(r)
  \/ ReplayCompleted(r) \/ RejectProcessing(r) \/ RetryFailed(r)
  \/ CreateRecord(r) \/ Post(r) \/ OnResponse(r) \/ OnTimeout(r)
  \/ MarkFailed(r) \/ CatchMarkFailed(r) \/ MarkCompleted(r)

Next ==
  \/ \E r \in Requests : Receive(r) \/ Handle(r) \/ AuthRegister(r)
                         \/ DbFails(r)
  \/ \E k \in Keys : CacheExpires(k)
  \/ GatewayRestart

Spec == Init /\ [][Next]_vars

\* The event loop runs every handler that can run, and axios fires its
\* timeout; nothing obliges clients, the auth-service, expiry or restarts.
FairSpec == Spec /\ \A r \in Requests : WF_vars(Handle(r))

-----------------------------------------------------------------------------
(* Properties that hold *)

\* As long as no attempt under a key was marked failed, at most one request
\* with that key was forwarded to the auth-service: concurrent duplicates are
\* stopped by findUnique, and by the unique index when they all missed it.
UniqueExecutor ==
  \A r1, r2 \in posted :
    (r1 # r2 /\ arg[r1].key = arg[r2].key /\ arg[r1].key # NoKey)
      => arg[r1].key \in failedOnce

\* A success answer, fresh or replayed from the row or the cache, is the
\* response of a request with the same key whose registration took place.
ReplayFaithful ==
  \A r \in Requests :
    (answer[r] # Null /\ answer[r].kind = "ok") =>
      \E q \in Requests : /\ answer[r].body = q
                         /\ arg[q].key = arg[r].key
                         /\ users[arg[q].body] = q

\* All success answers under one key carry the same userId, whatever the
\* retries, expiries, restarts and failed database calls in between.
SameAnswer ==
  \A r1, r2 \in Requests :
    (/\ answer[r1] # Null /\ answer[r1].kind = "ok"
     /\ answer[r2] # Null /\ answer[r2].kind = "ok"
     /\ arg[r1].key = arg[r2].key /\ arg[r1].key # NoKey)
      => answer[r1].body = answer[r2].body

\* What each client was told: the userId of a success, or that it failed.
Told == [r \in Requests |->
           IF answer[r] = Null THEN Null
           ELSE IF answer[r].kind = "ok" THEN answer[r].body ELSE ErrorBody]

\* The register handler as its clients see it.
Promise == INSTANCE RegisterOnce
  WITH Nobody <- Null, Pending <- Null, Refused <- ErrorBody,
       failed <- failedOnce, outcome <- Told

\* Through duplicates, timeouts, retries, late POSTs, restarts and failed
\* database calls, the cache, the table and the auth-service together register
\* an e-mail once, register under a key again only after a failed attempt, and
\* register nothing more for a request that was told a success.
ImplementsRegisterOnce == Promise!Spec

\* Every request the gateway took up is answered, even when the auth-service
\* never replies, unless the gateway restarts under it.
Answered ==
  \A r \in Requests : (pc[r] \in Active) ~> (pc[r] \in {"done", "lost"})

Undisturbed == restarts = 0 /\ dbFaults = 0

\* Without restarts and database failures no row stays in processing: every
\* attempt ends by marking its row, so that a retry is possible.
Settled ==
  \A k \in Keys :
    (Undisturbed /\ record[k] # Null /\ record[k].status = "processing")
      ~> (~Undisturbed \/ (record[k] # Null /\ record[k].status # "processing"))
=============================================================================
