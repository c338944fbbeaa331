--------------------------- MODULE Notifications ---------------------------
(***************************************************************************)
(* Notifications of a user: the rows kept by the notification-service, the *)
(* HTTP requests and WebSocket messages that mark them read, the pushes    *)
(* that follow, and a client that reads the list page by page meanwhile.   *)
(*                                                                         *)
(* An HTTP call of the gateway is answered with any status, since axios is *)
(* told to accept all of them, or times out while the notification-service *)
(* goes on.  A push to a user goes to the sockets that WsGateway models.   *)
(* createNoti has no caller in the repository; it is the only writer of    *)
(* rows, so it is modelled as the start of every behaviour.                *)
(***************************************************************************)
EXTENDS Integers, Sequences, FiniteSetsExt

CONSTANTS Users, Procs, Null,
          NaN,          \* a query parameter that is absent or not a number
          Limits,       \* limit parameters of the list
          DefaultLimit, \* page size without a usable limit, 20 in the code
          MaxLimit,     \* largest page size, 100 in the code
          Moments,      \* milliseconds in which rows are created
          MaxNotes,     \* bound on rows
          MaxReads,     \* bound on requests that mark rows read
          MaxDeliver,   \* max_deliver of the consumer
          MaxFaults     \* bound on error answers, timeouts and lost events

ASSUME NotificationsAssumption ==
  /\ MaxNotes \in Nat /\ MaxReads \in Nat /\ MaxFaults \in Nat
  /\ MaxDeliver \in Nat \ {0}
  /\ DefaultLimit \in Nat \ {0} /\ MaxLimit \in Nat \ {0}
  /\ DefaultLimit <= MaxLimit
  /\ Moments \subseteq Nat
  /\ Limits \subseteq Int \cup {NaN}
  /\ Null \notin Users /\ Null \notin Nat

VARIABLES
  note,     \* rows in the order of insertion: [user, createdAt, readAt]
  op,       \* requests and messages being handled
  events,   \* notification.created events not acknowledged yet
  shown,    \* notifications pushed to a user as read
  badge,    \* the unread count pushed to a user last, or Null
  walk,     \* a client reading the list of a user, or Null
  reads,    \* requests so far that mark rows read
  failed,   \* history: [user, id] of reads that were not answered 200
  tangled,  \* history: users whose requests overlapped, failed or skip a push
  faults

vars == <<note, op, events, shown, badge, walk, reads, failed, tangled, faults>>
pushed == <<shown, badge>>

Ids   == 1..MaxNotes
Count == 0..MaxNotes
Note  == [user: Users, createdAt: Moments,
          readAt: 0..MaxReads]  \* 0: not read
\* ws: the handler pushes afterwards; lost: the gateway has given up.
Op    == [pc: {"find", "update", "all", "count", "push", "pushAll",
               "createCount", "publish"},
          user: Users, id: Ids \cup {Null}, ws: BOOLEAN, lost: BOOLEAN,
          count: Count \cup {Null}]
Event == [user: Users, id: Ids, count: Count, left: 1..MaxDeliver]
Walk  == [user: Users, asc: BOOLEAN, limit: 1..MaxLimit,
          page: 1..(MaxNotes + 1), begun: SUBSET Ids, seen: SUBSET Ids,
          done: BOOLEAN]

ASSUME NullAssumption == Null \notin Op /\ Null \notin Walk

TypeOK ==
  /\ note \in Seq(Note) /\ Len(note) <= MaxNotes
  /\ op \in [Procs -> Op \cup {Null}]
  /\ events \subseteq Event
  /\ shown \in [Users -> SUBSET Ids]
  /\ badge \in [Users -> Count \cup {Null}]
  /\ walk \in Walk \cup {Null}
  /\ reads \in 0..MaxReads
  /\ failed \subseteq [user: Users, id: Ids]
  /\ tangled \subseteq Users
  /\ faults \in 0..MaxFaults

Init ==
  /\ note = <<>>
  /\ op = [p \in Procs |-> Null]
  /\ events = {}
  /\ shown = [u \in Users |-> {}]
  /\ badge = [u \in Users |-> Null]
  /\ walk = Null
  /\ reads = 0 /\ failed = {} /\ tangled = {} /\ faults = 0

-----------------------------------------------------------------------------
Rows(u)   == {i \in 1..Len(note) : note[i].user = u}
Unread(u) == {i \in Rows(u) : note[i].readAt = 0}

\* Requests and events of a user under way.
Pending(u) ==
  \/ \E p \in Procs : op[p] # Null /\ op[p].user = u
  \/ \E e \in events : e.user = u

At(p, l) == op[p] # Null /\ op[p].pc = l
Go(p, l) == op' = [op EXCEPT ![p].pc = l]
End(p)   == op' = [op EXCEPT ![p] = Null]
Begin(p, l, u, id, ws) ==
  /\ op[p] = Null
  /\ op' = [op EXCEPT ![p] = [pc |-> l, user |-> u, id |-> id, ws |-> ws,
                              lost |-> FALSE, count |-> Null]]
  /\ tangled' = IF Pending(u) \/ ~ws THEN tangled \cup {u} ELSE tangled
Fault(u) ==
  /\ faults < MaxFaults
  /\ faults' = faults + 1
  /\ tangled' = tangled \cup {u}

-----------------------------------------------------------------------------
(* createNoti and the consumer of notification.created in the gateway *)

\* createdAt is a TIMESTAMP(3): rows may share it, and a row inserted later
\* may have an earlier one.
CreateNoti(p, u, at) ==
  /\ Len(note) < MaxNotes
  /\ note' = Append(note, [user |-> u, createdAt |-> at, readAt |-> 0])
  /\ Begin(p, "createCount", u, Len(note) + 1, TRUE)
  /\ UNCHANGED <<events, pushed, walk, reads, failed, faults>>

\* Mutant: the count is meant to be without the new row.
CreateCountOthers(p) ==
  /\ At(p, "createCount")
  /\ op' = [op EXCEPT ![p].pc = "publish",
              ![p].count = Cardinality(Unread(op[p].user) \ {op[p].id})]
  /\ UNCHANGED <<note, events, pushed, walk, reads, failed, tangled, faults>>

CreateCount(p) ==
  /\ At(p, "createCount")
  /\ op' = [op EXCEPT ![p].pc = "publish",
              ![p].count = Cardinality(Unread(op[p].user))]
  /\ UNCHANGED <<note, events, pushed, walk, reads, failed, tangled, faults>>

\* publish; its error is swallowed.
Publish(p) ==
  /\ At(p, "publish")
  /\ \/ /\ events' = events \cup {[user |-> op[p].user, id |-> op[p].id,
                                   count |-> op[p].count, left |-> MaxDeliver]}
        /\ UNCHANGED <<tangled, faults>>
     \/ Fault(op[p].user) /\ UNCHANGED events
  /\ End(p)
  /\ UNCHANGED <<note, pushed, walk, reads, failed>>

\* The consumer pushes notification:new; then the event is acknowledged, or
\* the acknowledgement fails to arrive and it will come again.
PushNew(e) ==
  /\ badge' = [badge EXCEPT ![e.user] = e.count]
  /\ \/ events' = events \ {e}
     \/ /\ e.left > 1
        /\ events' = (events \ {e}) \cup {[e EXCEPT !.left = @ - 1]}
  /\ UNCHANGED <<note, op, shown, walk, reads, failed, tangled, faults>>

-----------------------------------------------------------------------------
(* Reading: POST :id/read and read-all, notification:read and -read-all *)

\* The internal token of the gateway carries the user of the socket; over
\* HTTP the token of the user is forwarded.  The id is whatever the client
\* sends.
Read(p, u, i, ws) ==
  /\ reads < MaxReads /\ reads' = reads + 1
  /\ Begin(p, "find", u, i, ws)
  /\ UNCHANGED <<note, events, pushed, walk, failed, faults>>

ReadAll(p, u, ws) ==
  /\ reads < MaxReads /\ reads' = reads + 1
  /\ Begin(p, "all", u, Null, ws)
  /\ UNCHANGED <<note, events, pushed, walk, failed, faults>>

\* The notification-service has answered, 200 or not: the gateway does not
\* look at the status, so a WebSocket handler goes on to l.
Answered(p, l) == IF op[p].ws /\ ~op[p].lost THEN Go(p, l) ELSE End(p)

\* Mutant: a notification is looked up by its id only.
MarkReadFindAny(p) ==
  LET u == op[p].user  i == op[p].id
  IN  /\ At(p, "find")
      /\ IF i \in 1..Len(note) /\ note[i].readAt = 0
         THEN Go(p, "update") ELSE Answered(p, "count")
      /\ failed' = IF i \in 1..Len(note) THEN failed
                   ELSE failed \cup {[user |-> u, id |-> i]}
      /\ UNCHANGED <<note, events, pushed, walk, reads, tangled, faults>>

\* Mutant: the handler does not wait for markRead.
MarkReadFindAhead(p) ==
  LET u == op[p].user  i == op[p].id
  IN  /\ At(p, "find")
      /\ Answered(p, "count")
      /\ failed' = IF i \in Rows(u) THEN failed
                   ELSE failed \cup {[user |-> u, id |-> i]}
      /\ UNCHANGED <<note, events, pushed, walk, reads, tangled, faults>>

\* markRead: 404 unless the row is the user's; nothing to do when it is read.
MarkReadFind(p) ==
  LET u == op[p].user  i == op[p].id
  IN  /\ At(p, "find")
      /\ IF i \in Unread(u) THEN Go(p, "update") ELSE Answered(p, "count")
      /\ failed' = IF i \in Rows(u) THEN failed
                   ELSE failed \cup {[user |-> u, id |-> i]}
      /\ UNCHANGED <<note, events, pushed, walk, reads, tangled, faults>>

\* The row is updated by its id; a reader in between is overwritten.
MarkReadUpdate(p) ==
  /\ At(p, "update")
  /\ note' = [note EXCEPT ![op[p].id].readAt = reads]
  /\ Answered(p, "count")
  /\ UNCHANGED <<events, pushed, walk, reads, failed, tangled, faults>>

\* readAll of the service is one updateMany.
ReadAllUpdate(p) ==
  /\ At(p, "all")
  /\ note' = [i \in 1..Len(note) |->
                IF i \in Unread(op[p].user)
                THEN [note[i] EXCEPT !.readAt = reads] ELSE note[i]]
  /\ Answered(p, "pushAll")
  /\ UNCHANGED <<events, pushed, walk, reads, failed, tangled, faults>>

\* unreadCount of the service.
UnreadCount(p) ==
  /\ At(p, "count")
  /\ op' = [op EXCEPT ![p].pc = "push",
              ![p].count = Cardinality(Unread(op[p].user))]
  /\ UNCHANGED <<note, events, pushed, walk, reads, failed, tangled, faults>>

\* The service answers an error instead (database down): the body has
\* no count, and the handler goes on all the same.
ServiceError(p) ==
  /\ op[p] # Null /\ op[p].pc \in {"find", "update", "all", "count"}
  /\ Fault(op[p].user)
  /\ Answered(p, CASE op[p].pc = "all"   -> "pushAll"
                   [] op[p].pc = "count" -> "push"
                   [] OTHER              -> "count")
  /\ failed' = IF op[p].pc \in {"find", "update"}
               THEN failed \cup {[user |-> op[p].user, id |-> op[p].id]}
               ELSE failed
  /\ UNCHANGED <<note, events, pushed, walk, reads>>

\* No answer within 10 s: the gateway answers or emits an error, and the
\* notification-service goes on with what it has received.
Timeout(p) ==
  /\ op[p] # Null /\ ~op[p].lost
  /\ op[p].pc \in {"find", "update", "all", "count"}
  /\ Fault(op[p].user)
  /\ IF op[p].pc = "count" THEN End(p)
     ELSE op' = [op EXCEPT ![p].lost = TRUE]
  /\ UNCHANGED <<note, events, pushed, walk, reads, failed>>

\* handleNotificationRead pushes notification:updated.
PushRead(p) ==
  /\ At(p, "push")
  /\ shown' = [shown EXCEPT ![op[p].user] = @ \cup {op[p].id}]
  /\ badge' = [badge EXCEPT ![op[p].user] = op[p].count]
  /\ End(p)
  /\ UNCHANGED <<note, events, walk, reads, failed, tangled, faults>>

\* handleNotificationReadAll pushes an unread count of 0.
PushReadAll(p) ==
  /\ At(p, "pushAll")
  /\ badge' = [badge EXCEPT ![op[p].user] = 0]
  /\ End(p)
  /\ UNCHANGED <<note, events, shown, walk, reads, failed, tangled, faults>>

-----------------------------------------------------------------------------
(* listByUser, called for page 1, 2, ... until a page is empty *)

\* Math.min(100, Math.max(1, Number(limitRaw ?? 20) || 20))
LimitOf(raw) ==
  IF raw \in {NaN, 0} THEN DefaultLimit ELSE Min({MaxLimit, Max({1, raw})})

\* The places that ORDER BY createdAt may give the rows of u: nothing orders
\* rows of one moment, so each query may place them differently.  (Ordered by
\* readAt, rows change places when they are read, and a reader may miss some.)
Earlier(i, j, asc) ==
  IF asc THEN note[i].createdAt < note[j].createdAt
         ELSE note[j].createdAt < note[i].createdAt

Orders(u, asc) ==
  {place \in Bijection(Rows(u), 1..Cardinality(Rows(u))) :
     \A i, j \in Rows(u) : Earlier(i, j, asc) => place[i] < place[j]}

WalkStart(u, asc, raw) ==
  /\ walk = Null /\ Rows(u) # {}
  /\ walk' = [user |-> u, asc |-> asc, limit |-> LimitOf(raw), page |-> 1,
              begun |-> Rows(u), seen |-> {}, done |-> FALSE]
  /\ UNCHANGED <<note, op, events, pushed, reads, failed, tangled, faults>>

\* Mutant: pages are counted from zero.
SkipFromZero(w) == w.page * w.limit

Skip(w) == (w.page - 1) * w.limit

\* skip and take
Items(w, place) ==
  {i \in Rows(w.user) : Skip(w) < place[i] /\ place[i] <= Skip(w) + w.limit}

WalkPage ==
  /\ walk # Null /\ ~walk.done
  /\ \E place \in Orders(walk.user, walk.asc) :
       walk' = IF Items(walk, place) = {} THEN [walk EXCEPT !.done = TRUE]
               ELSE [walk EXCEPT !.page = @ + 1,
                                 !.seen = @ \cup Items(walk, place)]
  /\ UNCHANGED <<note, op, events, pushed, reads, failed, tangled, faults>>

Next ==
  \/ \E p \in Procs, u \in Users :
       \/ \E at \in Moments : CreateNoti(p, u, at)
       \/ \E ws \in BOOLEAN :
            ReadAll(p, u, ws) \/ \E i \in Ids : Read(p, u, i, ws)
  \/ \E p \in Procs :
       \/ CreateCount(p) \/ Publish(p) \/ MarkReadFind(p) \/ MarkReadUpdate(p)
       \/ ReadAllUpdate(p) \/ UnreadCount(p) \/ ServiceError(p) \/ Timeout(p)
       \/ PushRead(p) \/ PushReadAll(p)
  \/ \E e \in events : PushNew(e)
  \/ \E u \in Users, asc \in BOOLEAN, raw \in Limits : WalkStart(u, asc, raw)
  \/ WalkPage

Spec == Init /\ [][Next]_vars

-----------------------------------------------------------------------------
(* Properties *)

\* Whatever id a client sends, a row becomes read only by a request of its
\* own user that is under way.
OwnRowsOnly ==
  [][\A i \in 1..Len(note) :
       note'[i] # note[i] => \E p \in Procs : /\ op[p] # Null
                                              /\ op[p].user = note[i].user
                                              /\ op[p] # op'[p]]_vars

\* A notification that was pushed as read is a row of that user and is read,
\* unless the call that was to do so had failed: those failures the gateway
\* does not notice.
PushedReadIsRead ==
  \A u \in Users : \A i \in shown[u] :
    i \in Rows(u) \ Unread(u) \/ [user |-> u, id |-> i] \in failed

\* When nothing of a user is under way, the count pushed last is the number of
\* unread rows, provided no two requests or events of the user overlapped,
\* none failed, and none came over HTTP, which pushes nothing.
BadgeSettles ==
  \A u \in Users \ tangled :
    ~Pending(u) /\ (Rows(u) # {} \/ badge[u] # Null) =>
      badge[u] = Cardinality(Unread(u))

\* Another row of the user was created in the same millisecond.
Tied(i) ==
  \E j \in Rows(note[i].user) \ {i} : note[j].createdAt = note[i].createdAt

\* A client that reads page after page ordered by createdAt until one is empty
\* has seen every row there was when it began, although new rows, also with an
\* earlier createdAt, shift the pages meanwhile and whatever limit it asked
\* for.  It may have missed a row that shares its createdAt with another one.
WalkComplete ==
  walk # Null /\ walk.done =>
    \A i \in walk.begun : i \in walk.seen \/ Tied(i)
=============================================================================
