--------------------- MODULE NotificationServiceProofs ---------------------
(***************************************************************************)
(* What the notification-service and its clients in the gateway promise.   *)
(* Notifications: only a user's own requests mark its rows, what was       *)
(* pushed as read is read, the badge settles on the unread count, and a    *)
(* reader of the list misses no row, for any number of users, requests,    *)
(* rows and any page size.  The mail queue: the mail of a job goes out a   *)
(* bounded number of times, jobs without attempts left are dead-lettered,  *)
(* and the queue implements the safety part of MailQueue, for any number   *)
(* of jobs, attempts, stalls and crashes.                                  *)
(***************************************************************************)
EXTENDS Notifications, MailJobs, FiniteSetTheorems, TLAPS

-----------------------------------------------------------------------------
(* The invariant of notifications *)

\* A row of user u that is read, or the call to read it had failed.
ReadOrFailed(u, i) ==
  i \in Rows(u) \ Unread(u) \/ [user |-> u, id |-> i] \in failed

\* What a request knows at each of its labels.
Knows(o) ==
  /\ o.pc \in {"createCount", "publish", "find", "update", "count", "push"} =>
       o.id \in Ids
  /\ o.pc \in {"find", "update", "all"} => reads >= 1
  /\ o.pc = "update" => o.id \in Rows(o.user)
  /\ o.pc = "publish" => o.count \in Count
  /\ o.pc \in {"count", "push"} => ReadOrFailed(o.user, o.id)

OpInv == \A p \in Procs : op[p] # Null => Knows(op[p])

\* A request of u.
Of(p, u) == op[p] # Null /\ op[p].user = u

UnreadOf(u) == Cardinality(Unread(u))

\* A user whose requests never overlapped has one request or event at most.
Alone(u) ==
  /\ \A p, q \in Procs : Of(p, u) /\ Of(q, u) => p = q
  /\ \A p \in Procs, e \in events : ~(Of(p, u) /\ e.user = u)
  /\ \A e, f \in events : e.user = u /\ f.user = u => e = f

\* That request will push, and what it is about to push is the unread count.
WillCount(o, u) ==
  /\ o.ws /\ ~o.lost
  /\ o.pc \in {"publish", "push"} => o.count = UnreadOf(u)
  /\ o.pc = "pushAll" => Unread(u) = {}

OpCounts(u) == \A p \in Procs : Of(p, u) => WillCount(op[p], u)

EventCounts(u) == \A e \in events : e.user = u => e.count = UnreadOf(u)

Shown(u) ==
  ~Pending(u) /\ (Rows(u) # {} \/ badge[u] # Null) => badge[u] = UnreadOf(u)

BadgeInv ==
  \A u \in Users \ tangled :
    Alone(u) /\ OpCounts(u) /\ EventCounts(u) /\ Shown(u)

\* The rows of u that are not after row i in its list, and their number: the
\* place of row i in every order unless it is tied.
NotAfter(i, u, asc) == {j \in Rows(u) : ~Earlier(i, j, asc)}

Position(i, u, asc) == Cardinality(NotAfter(i, u, asc))

\* What the reader of the list has not seen yet is on the pages to come.
WalkInv ==
  walk # Null =>
    /\ walk.begun \subseteq Rows(walk.user)
    /\ \A i \in walk.begun :
         walk.done \/ Position(i, walk.user, walk.asc) <= Skip(walk) =>
           i \in walk.seen \/ Tied(i)

IInv == TypeOK /\ OpInv /\ PushedReadIsRead /\ BadgeInv /\ WalkInv

-----------------------------------------------------------------------------
(* Rows *)

\* What the rows are made of.
LEMMA RowTypes ==
  ASSUME TypeOK
  PROVE  /\ Len(note) \in Nat /\ Len(note) <= MaxNotes /\ MaxNotes \in Nat
         /\ \A i \in 1..Len(note) : /\ note[i] \in Note /\ note[i].user \in Users
                                    /\ note[i].readAt \in 0..MaxReads
                                    /\ note[i].createdAt \in Nat
         /\ \A u : Rows(u) \subseteq Ids /\ Unread(u) \subseteq Rows(u)
<1>1. Len(note) \in Nat /\ Len(note) <= MaxNotes /\ MaxNotes \in Nat
  BY NotificationsAssumption DEF TypeOK
<1>2. \A i \in 1..Len(note) : note[i] \in Note
  BY DEF TypeOK
<1>3. \A i \in 1..Len(note) : /\ note[i].user \in Users
                              /\ note[i].readAt \in 0..MaxReads
                              /\ note[i].createdAt \in Nat
  BY <1>2, NotificationsAssumption DEF Note
<1>4. \A u : Rows(u) \subseteq Ids /\ Unread(u) \subseteq Rows(u)
  BY <1>1 DEF Rows, Unread, Ids
<1> QED
  BY <1>1, <1>2, <1>3, <1>4

\* The rows of I are marked read now; nothing else changes.
Marked(I) ==
  /\ note' \in Seq(Note) /\ Len(note') = Len(note)
  /\ \A i \in 1..Len(note) :
       /\ note'[i].user = note[i].user /\ note'[i].createdAt = note[i].createdAt
       /\ note'[i].readAt = IF i \in I THEN reads ELSE note[i].readAt
       /\ i \notin I => note'[i] = note[i]

\* One row is marked by its id.
LEMMA MarkOne ==
  ASSUME TypeOK, NEW k \in 1..Len(note),
         note' = [note EXCEPT ![k].readAt = reads]
  PROVE  Marked({k})
<1>1. /\ Len(note) \in Nat /\ note \in Seq(Note) /\ reads \in 0..MaxReads
      /\ note[k] \in Note
  BY RowTypes DEF TypeOK
<1>2. PICK x : x = [note[k] EXCEPT !.readAt = reads]
  OBVIOUS
<1>3. note' = [note EXCEPT ![k] = x]
  BY <1>2
<1>4. /\ x \in Note /\ x.user = note[k].user /\ x.readAt = reads
      /\ x.createdAt = note[k].createdAt
  BY <1>1, <1>2 DEF Note
<1>5. note' \in Seq(Note) /\ Len(note') = Len(note)
  BY <1>1, <1>3, <1>4
<1>6. \A i \in 1..Len(note) : note'[i] = IF i = k THEN x ELSE note[i]
  BY <1>1, <1>3
<1> QED
  BY <1>4, <1>5, <1>6 DEF Marked

\* The updateMany of readAll marks the unread rows of a user.
LEMMA MarkAll ==
  ASSUME TypeOK, NEW u \in Users,
         note' = [i \in 1..Len(note) |->
                    IF i \in Unread(u)
                    THEN [note[i] EXCEPT !.readAt = reads] ELSE note[i]]
  PROVE  Marked(Unread(u))
<1>1. /\ Len(note) \in Nat /\ reads \in 0..MaxReads
      /\ \A i \in 1..Len(note) : note[i] \in Note
  BY RowTypes DEF TypeOK
<1>2. \A i \in 1..Len(note) :
        LET x == [note[i] EXCEPT !.readAt = reads]
        IN  /\ x \in Note /\ x.user = note[i].user /\ x.readAt = reads
            /\ x.createdAt = note[i].createdAt
  BY <1>1 DEF Note
<1>3. \A i \in 1..Len(note) :
        note'[i] = IF i \in Unread(u) THEN [note[i] EXCEPT !.readAt = reads]
                   ELSE note[i]
  OBVIOUS
<1>4. \A i \in 1..Len(note) : note'[i] \in Note
  BY <1>1, <1>2, <1>3
<1>5. note' \in Seq(Note) /\ Len(note') = Len(note)
  <2>1. DOMAIN note' = 1..Len(note) /\ note' = [i \in 1..Len(note) |-> note'[i]]
    OBVIOUS
  <2> QED
    BY <1>1, <1>4, <2>1
<1> QED
  BY <1>2, <1>3, <1>5 DEF Marked

\* Marking rows of u leaves everybody's rows and the unread rows of others.
LEMMA MarkedRows ==
  ASSUME TypeOK, reads >= 1, NEW u, NEW I \in SUBSET Rows(u), Marked(I)
  PROVE  /\ \A v : Rows(v)' = Rows(v) /\ Unread(v)' = Unread(v) \ I
         /\ \A v : v # u => Unread(v)' = Unread(v)
<1>1. /\ Len(note) \in Nat /\ Len(note') = Len(note) /\ reads \in Nat
      /\ \A i \in 1..Len(note) :
           /\ note'[i].user = note[i].user
           /\ note'[i].readAt = IF i \in I THEN reads ELSE note[i].readAt
  BY RowTypes DEF Marked, TypeOK
<1>2. \A v : Rows(v)' = Rows(v)
  BY <1>1 DEF Rows
<1>3. \A v : Unread(v)' = Unread(v) \ I
  BY <1>1, <1>2 DEF Unread, Rows
<1>4. \A v : v # u => Unread(v) \cap I = {}
  BY DEF Unread, Rows
<1> QED
  BY <1>2, <1>3, <1>4

\* A new row comes last and is unread.
LEMMA CreatedRows ==
  ASSUME TypeOK, NEW u \in Users, NEW at \in Moments, Len(note) < MaxNotes,
         note' = Append(note, [user |-> u, createdAt |-> at, readAt |-> 0])
  PROVE  /\ note' \in Seq(Note) /\ Len(note') = Len(note) + 1
         /\ Len(note') <= MaxNotes /\ Len(note) + 1 \in Ids
         /\ \A i \in 1..Len(note) : note'[i] = note[i]
         /\ Rows(u)' = Rows(u) \cup {Len(note) + 1}
         /\ \A v : v # u => Rows(v)' = Rows(v) /\ Unread(v)' = Unread(v)
         /\ \A v : Rows(v) \subseteq Rows(v)'
         /\ \A v : Rows(v) \ Unread(v) \subseteq Rows(v)' \ Unread(v)'
<1>1. /\ Len(note) \in Nat /\ MaxNotes \in Nat /\ MaxReads \in Nat
      /\ note \in Seq(Note)
  BY RowTypes, NotificationsAssumption DEF TypeOK
<1>2. [user |-> u, createdAt |-> at, readAt |-> 0] \in Note
  BY <1>1 DEF Note
<1>3. /\ note' \in Seq(Note) /\ Len(note') = Len(note) + 1
      /\ Len(note') <= MaxNotes /\ Len(note) + 1 \in Ids
      /\ \A i \in 1..Len(note) : note'[i] = note[i]
      /\ note'[Len(note) + 1] = [user |-> u, createdAt |-> at, readAt |-> 0]
  BY <1>1, <1>2 DEF Ids
<1>4. /\ note'[Len(note) + 1].user = u /\ note'[Len(note) + 1].readAt = 0
      /\ 1..Len(note') = 1..Len(note) \cup {Len(note) + 1}
      /\ Len(note) + 1 \notin 1..Len(note)
  BY <1>1, <1>3
<1>5. \A v : /\ v # u => Rows(v)' = Rows(v) /\ Unread(v)' = Unread(v)
             /\ Rows(v) \subseteq Rows(v)'
             /\ Rows(v) \ Unread(v) \subseteq Rows(v)' \ Unread(v)'
  BY <1>3, <1>4 DEF Rows, Unread
<1>6. Rows(u)' = Rows(u) \cup {Len(note) + 1}
  BY <1>3, <1>4 DEF Rows
<1> QED
  BY <1>3, <1>5, <1>6

\* The unread count is a count.
LEMMA UnreadCounted ==
  ASSUME TypeOK, NEW u
  PROVE  IsFiniteSet(Rows(u)) /\ UnreadOf(u) \in Count
<1>1. IsFiniteSet(Ids) /\ Cardinality(Ids) = MaxNotes /\ MaxNotes \in Nat
  BY RowTypes, FS_Interval DEF Ids
<1>2. Rows(u) \subseteq Ids /\ Unread(u) \subseteq Ids
  BY RowTypes
<1>3. /\ IsFiniteSet(Rows(u)) /\ IsFiniteSet(Unread(u))
      /\ Cardinality(Unread(u)) <= MaxNotes
  BY <1>1, <1>2, FS_Subset
<1>4. Cardinality(Unread(u)) \in Nat
  BY <1>3, FS_CardinalityType
<1> QED
  BY <1>1, <1>3, <1>4 DEF UnreadOf, Count

-----------------------------------------------------------------------------
(* Frames *)

\* Rows do not go away, what is read stays read and failures are remembered.
Grows ==
  /\ \A u : /\ Rows(u) \subseteq Rows(u)'
            /\ Rows(u) \ Unread(u) \subseteq Rows(u)' \ Unread(u)'
  /\ failed \subseteq failed'
  /\ reads' >= reads

\* What requests know and what was shown as read stays true as rows grow, for
\* every request but p.
LEMMA KnownStays ==
  ASSUME TypeOK, OpInv, PushedReadIsRead, Grows, reads' \in Nat,
         NEW p, \A q \in Procs \ {p} : op'[q] = op[q],
         p \in Procs /\ op'[p] # Null => Knows(op[p])',
         \A u \in Users : \A i \in shown'[u] :
           i \in shown[u] \/ ReadOrFailed(u, i)
  PROVE  OpInv' /\ PushedReadIsRead'
<1>1. \A u, i : ReadOrFailed(u, i) => ReadOrFailed(u, i)'
  BY DEF ReadOrFailed, Grows
<1>2. PushedReadIsRead'
  BY <1>1 DEF PushedReadIsRead, ReadOrFailed
<1>3. ASSUME NEW q \in Procs \ {p}, op'[q] # Null PROVE Knows(op[q])'
  <2>1. op'[q] = op[q] /\ Knows(op[q]) /\ reads \in Nat /\ reads' >= reads
    BY <1>3 DEF OpInv, TypeOK, Grows
  <2>2. /\ Rows(op[q].user) \subseteq Rows(op[q].user)'
        /\ ReadOrFailed(op[q].user, op[q].id) =>
             ReadOrFailed(op[q].user, op[q].id)'
    <3>1. PICK u, i : u = op[q].user /\ i = op[q].id
      OBVIOUS
    <3>2. /\ Rows(u) \subseteq Rows(u)'
          /\ ReadOrFailed(u, i) => ReadOrFailed(u, i)'
      BY <1>1 DEF Grows
    <3> QED
      BY <2>1, <3>1, <3>2
  <2> QED
    BY <2>1, <2>2 DEF Knows
<1> QED
  BY <1>2, <1>3 DEF OpInv

\* Users other than that of the acting request p are left alone.
LEMMA OthersKept ==
  ASSUME BadgeInv, NEW p \in Procs, NEW v, tangled \subseteq tangled',
         op[p] = Null \/ op[p].user = v, op'[p] = Null \/ op'[p].user = v,
         \A q \in Procs \ {p} : op'[q] = op[q],
         \A e : e.user # v => (e \in events' <=> e \in events),
         NEW u \in Users \ tangled', u # v,
         Rows(u)' = Rows(u), Unread(u)' = Unread(u), badge'[u] = badge[u]
  PROVE  Alone(u)' /\ OpCounts(u)' /\ EventCounts(u)' /\ Shown(u)'
<1>1. Alone(u) /\ OpCounts(u) /\ EventCounts(u) /\ Shown(u)
  BY DEF BadgeInv
<1>2. \A q \in Procs : /\ Of(q, u)' <=> Of(q, u)
                       /\ Of(q, u) => op'[q] = op[q]
  BY DEF Of
<1>3. \A e : e.user = u => (e \in events' <=> e \in events)
  OBVIOUS
<1>4. Alone(u)'
  BY <1>1, <1>2, <1>3 DEF Alone
<1>5. OpCounts(u)'
  BY <1>1, <1>2 DEF OpCounts, WillCount, UnreadOf
<1>6. EventCounts(u)'
  BY <1>1, <1>3 DEF EventCounts, UnreadOf
<1>7. Pending(u)' <=> Pending(u)
  BY <1>2, <1>3 DEF Pending, Of
<1>8. Shown(u)'
  BY <1>1, <1>7 DEF Shown, UnreadOf
<1> QED
  BY <1>4, <1>5, <1>6, <1>8

\* The user of p when p goes on and nothing else of that user is under way.
LEMMA OwnGoesOn ==
  ASSUME NEW p \in Procs, NEW v,
         \A q \in Procs \ {p} : ~Of(q, v) /\ op'[q] = op[q],
         \A e \in events' : e.user # v,
         op'[p] # Null, op'[p].user = v, WillCount(op[p], v)'
  PROVE  Alone(v)' /\ OpCounts(v)' /\ EventCounts(v)' /\ Shown(v)'
<1>1. \A q \in Procs : Of(q, v)' <=> q = p
  BY DEF Of
<1>2. Pending(v)'
  BY DEF Pending
<1> QED
  BY <1>1, <1>2 DEF Alone, OpCounts, EventCounts, Shown

\* The user of p when p ends with a push of the unread count.
LEMMA OwnEnds ==
  ASSUME NEW p \in Procs, NEW v,
         \A q \in Procs \ {p} : ~Of(q, v) /\ op'[q] = op[q],
         \A e \in events' : e.user # v,
         op'[p] = Null, badge'[v] = UnreadOf(v)'
  PROVE  Alone(v)' /\ OpCounts(v)' /\ EventCounts(v)' /\ Shown(v)'
<1>1. \A q \in Procs : ~Of(q, v)'
  BY DEF Of
<1> QED
  BY <1>1 DEF Alone, OpCounts, EventCounts, Shown

\* A request of an untangled user is the only thing of that user.
LEMMA OwnIsAlone ==
  ASSUME BadgeInv, NEW p \in Procs, NEW v \in Users \ tangled, Of(p, v)
  PROVE  /\ \A q \in Procs \ {p} : ~Of(q, v)
         /\ \A e \in events : e.user # v
         /\ WillCount(op[p], v)
  BY DEF BadgeInv, Alone, OpCounts

\* Every user keeps the badge right, given that the user of p does and the
\* others are left alone.
LEMMA BadgeStep ==
  ASSUME BadgeInv, NEW p \in Procs, NEW v, tangled \subseteq tangled',
         op[p] = Null \/ op[p].user = v, op'[p] = Null \/ op'[p].user = v,
         \A q \in Procs \ {p} : op'[q] = op[q],
         \A e : e.user # v => (e \in events' <=> e \in events),
         \A u \in Users \ {v} : /\ Rows(u)' = Rows(u) /\ Unread(u)' = Unread(u)
                                /\ badge'[u] = badge[u],
         v \in Users \ tangled' =>
           Alone(v)' /\ OpCounts(v)' /\ EventCounts(v)' /\ Shown(v)'
  PROVE  BadgeInv'
<1> SUFFICES ASSUME NEW u \in Users \ tangled'
             PROVE  Alone(u)' /\ OpCounts(u)' /\ EventCounts(u)' /\ Shown(u)'
  BY DEF BadgeInv
<1>1. CASE u = v
  BY <1>1
<1>2. CASE u # v
  BY <1>2, OthersKept
<1> QED
  BY <1>1, <1>2

-----------------------------------------------------------------------------
(* Steps of a request *)

Labels == {"find", "update", "all", "count", "push", "pushAll", "createCount",
           "publish"}

\* Only the record of p changes.
Only(p) ==
  /\ op' \in [Procs -> Op \cup {Null}]
  /\ \A q \in Procs \ {p} : op'[q] = op[q]

\* A request under way is a record.
LEMMA OpTypes ==
  ASSUME TypeOK, NEW p \in Procs, op[p] # Null
  PROVE  /\ op[p] \in Op /\ op[p].user \in Users /\ op[p].pc \in Labels
         /\ op[p].id \in Ids \cup {Null} /\ op[p].ws \in BOOLEAN
         /\ op[p].lost \in BOOLEAN /\ op[p].count \in Count \cup {Null}
<1>1. op[p] \in Op
  BY DEF TypeOK
<1> QED
  BY <1>1 DEF Op, Labels

\* The record of p is replaced by x.
LEMMA Replaced ==
  ASSUME TypeOK, NEW p \in Procs, NEW x \in Op \cup {Null},
         op' = [op EXCEPT ![p] = x]
  PROVE  Only(p) /\ op'[p] = x
  BY DEF TypeOK, Only

\* Go moves p to label l.
LEMMA Went ==
  ASSUME TypeOK, NEW p \in Procs, op[p] # Null, NEW l \in Labels, Go(p, l)
  PROVE  /\ Only(p) /\ op'[p] # Null /\ op'[p].pc = l
         /\ op'[p].user = op[p].user /\ op'[p].id = op[p].id
         /\ op'[p].ws = op[p].ws /\ op'[p].lost = op[p].lost
         /\ op'[p].count = op[p].count
<1>1. PICK x : x = [op[p] EXCEPT !.pc = l]
  OBVIOUS
<1>2. /\ x \in Op /\ x.pc = l /\ x.user = op[p].user /\ x.id = op[p].id
      /\ x.ws = op[p].ws /\ x.lost = op[p].lost /\ x.count = op[p].count
  BY <1>1, OpTypes DEF Op, Labels
<1>3. op' = [op EXCEPT ![p] = x]
  BY <1>1 DEF Go
<1> QED
  BY <1>2, <1>3, Replaced, NullAssumption

\* A label and a count at once.
LEMMA Counted ==
  ASSUME TypeOK, NEW p \in Procs, op[p] # Null, NEW l \in Labels,
         NEW c \in Count, op' = [op EXCEPT ![p].pc = l, ![p].count = c]
  PROVE  /\ Only(p) /\ op'[p] # Null /\ op'[p].pc = l
         /\ op'[p].user = op[p].user /\ op'[p].id = op[p].id
         /\ op'[p].ws = op[p].ws /\ op'[p].lost = op[p].lost
         /\ op'[p].count = c
<1>1. PICK x : x = [op[p] EXCEPT !.pc = l, !.count = c]
  OBVIOUS
<1>2. /\ x \in Op /\ x.pc = l /\ x.user = op[p].user /\ x.id = op[p].id
      /\ x.ws = op[p].ws /\ x.lost = op[p].lost /\ x.count = c
  BY <1>1, OpTypes DEF Op, Labels
<1>3. op' = [op EXCEPT ![p] = x]
  <2>1. op \in [Procs -> Op \cup {Null}]
    BY DEF TypeOK
  <2> QED
    BY <1>1, <2>1
<1> QED
  BY <1>2, <1>3, Replaced, NullAssumption

\* End forgets p.
LEMMA Ended ==
  ASSUME TypeOK, NEW p \in Procs, End(p)
  PROVE  Only(p) /\ op'[p] = Null
  BY Replaced DEF End

\* A WebSocket handler still there goes on, any other request is over.
LEMMA WasAnswered ==
  ASSUME TypeOK, NEW p \in Procs, op[p] # Null, NEW l \in Labels,
         Answered(p, l)
  PROVE  /\ Only(p)
         /\ \/ op'[p] = Null /\ (~op[p].ws \/ op[p].lost)
            \/ /\ op'[p] # Null /\ op'[p].pc = l
               /\ op'[p].user = op[p].user /\ op'[p].id = op[p].id
               /\ op'[p].ws /\ ~op'[p].lost
               /\ op'[p].count = op[p].count
<1>1. CASE op[p].ws /\ ~op[p].lost
  <2>1. Go(p, l)
    BY <1>1 DEF Answered
  <2> QED
    BY <1>1, <2>1, Went
<1>2. CASE ~(op[p].ws /\ ~op[p].lost)
  <2>1. End(p)
    BY <1>2 DEF Answered
  <2> QED
    BY <1>2, <2>1, Ended
<1> QED
  BY <1>1, <1>2

\* Begin starts p and notices what it overlaps with.
LEMMA Began ==
  ASSUME TypeOK, NEW p \in Procs, NEW l \in Labels, NEW u \in Users,
         NEW i \in Ids \cup {Null},
         \E ws \in BOOLEAN : Begin(p, l, u, i, ws)
  PROVE  /\ Only(p) /\ op[p] = Null /\ op'[p] # Null
         /\ op'[p].pc = l /\ op'[p].user = u /\ op'[p].id = i
         /\ ~op'[p].lost
         /\ tangled \subseteq tangled' /\ tangled' \subseteq Users
         /\ u \notin tangled' =>
              /\ op'[p].ws /\ \A q \in Procs : ~Of(q, u)
              /\ \A e \in events : e.user # u
<1>0. PICK ws \in BOOLEAN : Begin(p, l, u, i, ws)
  OBVIOUS
<1>1. PICK x : x = [pc |-> l, user |-> u, id |-> i, ws |-> ws,
                    lost |-> FALSE, count |-> Null]
  OBVIOUS
<1>2. /\ x \in Op /\ x.pc = l /\ x.user = u /\ x.id = i
      /\ x.ws = ws /\ ~x.lost
  BY <1>0, <1>1 DEF Op, Labels
<1>3. op[p] = Null /\ op' = [op EXCEPT ![p] = x]
  BY <1>0, <1>1 DEF Begin
<1>4. tangled' = IF Pending(u) \/ ~ws THEN tangled \cup {u} ELSE tangled
  BY <1>0 DEF Begin
<1>5. tangled \subseteq Users
  BY DEF TypeOK
<1>6. u \notin tangled' => ~Pending(u) /\ x.ws
  BY <1>2, <1>4
<1>7. ~Pending(u) => /\ \A q \in Procs : ~Of(q, u)
                     /\ \A e \in events : e.user # u
  BY DEF Pending, Of
<1> QED
  BY <1>2, <1>3, <1>4, <1>5, <1>6, <1>7, Replaced, NullAssumption

\* What a failed or lost answer does besides.
LEMMA Faulted ==
  ASSUME TypeOK, NEW u \in Users, Fault(u)
  PROVE  /\ faults' \in 0..MaxFaults /\ tangled' \subseteq Users
         /\ tangled \subseteq tangled' /\ u \in tangled'
  BY NotificationsAssumption DEF TypeOK, Fault

\* Where the rows do not change.
LEMMA SameRows ==
  ASSUME note' = note
  PROVE  /\ \A u : Rows(u)' = Rows(u) /\ Unread(u)' = Unread(u)
         /\ \A u : UnreadOf(u)' = UnreadOf(u)
         /\ failed \subseteq failed' /\ reads' >= reads => Grows
  BY DEF Rows, Unread, UnreadOf, Grows

-----------------------------------------------------------------------------
(* Pages *)

\* A place in the list is a number of rows.
LEMMA PlaceTypes ==
  ASSUME TypeOK, NEW u, NEW asc, NEW i
  PROVE  IsFiniteSet(NotAfter(i, u, asc)) /\ Position(i, u, asc) \in 0..MaxNotes
<1>1. IsFiniteSet(Ids) /\ Cardinality(Ids) = MaxNotes /\ MaxNotes \in Nat
  BY RowTypes, FS_Interval DEF Ids
<1>2. NotAfter(i, u, asc) \subseteq Ids
  BY RowTypes DEF NotAfter
<1>3. IsFiniteSet(NotAfter(i, u, asc)) /\ Position(i, u, asc) <= MaxNotes
  BY <1>1, <1>2, FS_Subset DEF Position
<1>4. Position(i, u, asc) \in Nat
  BY <1>3, FS_CardinalityType DEF Position
<1> QED
  BY <1>1, <1>3, <1>4

\* A row of the list has a place.
LEMMA PlaceOfRow ==
  ASSUME TypeOK, NEW u, NEW asc \in BOOLEAN, NEW i \in Rows(u)
  PROVE  i \in NotAfter(i, u, asc) /\ Position(i, u, asc) >= 1
<1>1. note[i].createdAt \in Nat
  BY RowTypes DEF Rows
<1>2. i \in NotAfter(i, u, asc)
  BY <1>1 DEF NotAfter, Earlier
<1>3. IsFiniteSet(NotAfter(i, u, asc)) /\ Position(i, u, asc) \in Nat
  BY PlaceTypes
<1>4. Cardinality(NotAfter(i, u, asc)) # 0
  BY <1>2, <1>3, FS_EmptySet
<1> QED
  BY <1>2, <1>3, <1>4 DEF Position

\* New rows push a row to a later place and do not untie it, whenever they say
\* they were created.
LEMMA PlaceGrows ==
  ASSUME TypeOK, NEW u, NEW asc, NEW i \in Rows(u),
         Rows(u) \subseteq Rows(u)', IsFiniteSet(Rows(u)'),
         \A j \in 1..Len(note) : /\ note'[j].user = note[j].user
                                 /\ note'[j].createdAt = note[j].createdAt
  PROVE  /\ Position(i, u, asc)' \in Nat
         /\ Position(i, u, asc) <= Position(i, u, asc)'
         /\ Tied(i) => Tied(i)'
<1>1. \A j \in Rows(u) : /\ j \in 1..Len(note) /\ note[j].user = u
                         /\ note'[j].user = u
                         /\ note'[j].createdAt = note[j].createdAt
  BY DEF Rows
<1>2. NotAfter(i, u, asc) \subseteq NotAfter(i, u, asc)'
  BY <1>1 DEF NotAfter, Earlier
<1>3. IsFiniteSet(NotAfter(i, u, asc)')
  <2>1. NotAfter(i, u, asc)' \subseteq Rows(u)'
    BY DEF NotAfter
  <2> QED
    BY <2>1, FS_Subset
<1>4. Cardinality(NotAfter(i, u, asc)) <= Cardinality(NotAfter(i, u, asc)')
  BY <1>2, <1>3, FS_Subset
<1>5. Cardinality(NotAfter(i, u, asc)') \in Nat
  BY <1>3, FS_CardinalityType
<1>6. Tied(i) => Tied(i)'
  <2> SUFFICES ASSUME Tied(i) PROVE Tied(i)'
    OBVIOUS
  <2>1. PICK j \in Rows(u) \ {i} : note[j].createdAt = note[i].createdAt
    BY <1>1 DEF Tied
  <2>2. j \in Rows(u)' \ {i} /\ note'[j].createdAt = note'[i].createdAt
    BY <1>1, <2>1
  <2> QED
    BY <1>1, <2>2 DEF Tied
<1> QED
  BY <1>4, <1>5, <1>6 DEF Position

\* Every query gives a row that is not tied the same place.
LEMMA PlaceOfUntied ==
  ASSUME TypeOK, NEW u, NEW asc \in BOOLEAN, NEW place \in Orders(u, asc),
         NEW i \in Rows(u), ~Tied(i)
  PROVE  place[i] = Position(i, u, asc)
<1>1. PICK n : n = Cardinality(Rows(u))
  OBVIOUS
<1>2. /\ n \in Nat
      /\ place \in [Rows(u) -> 1..n]
      /\ \A j, k \in Rows(u) : place[j] = place[k] => j = k
      /\ \A m \in 1..n : \E j \in Rows(u) : place[j] = m
      /\ \A j, k \in Rows(u) : Earlier(j, k, asc) => place[j] < place[k]
  <2>1. n \in Nat
    BY <1>1, UnreadCounted, FS_CardinalityType
  <2>2. place \in Bijection(Rows(u), 1..n)
    BY <1>1 DEF Orders
  <2>3. \A j, k \in Rows(u) : Earlier(j, k, asc) => place[j] < place[k]
    BY DEF Orders
  <2> QED
    BY <2>1, <2>2, <2>3 DEF Bijection, Injection, Surjection, IsInjective
<1>3. PICK T : T = NotAfter(i, u, asc)
  OBVIOUS
<1>4. T \subseteq Rows(u) /\ IsFiniteSet(T) /\ Position(i, u, asc) = Cardinality(T)
  BY <1>3, PlaceTypes DEF NotAfter, Position
<1>5. PICK m \in 1..n : m = place[i]
  BY <1>2
<1>6. \A j \in T : place[j] \in 1..m
  <2> SUFFICES ASSUME NEW j \in T PROVE place[j] \in 1..m
    OBVIOUS
  <2>1. j \in Rows(u) /\ ~Earlier(i, j, asc)
    BY <1>3 DEF NotAfter
  <2>2. note[i].createdAt \in Nat /\ note[j].createdAt \in Nat /\ note[i].user = u
    BY <2>1, RowTypes DEF Rows
  <2>3. j = i \/ note[j].createdAt # note[i].createdAt
    BY <2>1, <2>2 DEF Tied
  <2>4. j = i \/ Earlier(j, i, asc)
    BY <2>1, <2>2, <2>3 DEF Earlier
  <2>5. place[j] <= m
    BY <1>2, <1>5, <2>1, <2>4
  <2> QED
    BY <1>2, <1>5, <2>1, <2>5
<1>7. \A k \in 1..m : \E j \in T : place[j] = k
  <2> SUFFICES ASSUME NEW k \in 1..m PROVE \E j \in T : place[j] = k
    OBVIOUS
  <2>1. PICK j \in Rows(u) : place[j] = k
    BY <1>2, <1>5
  <2>2. ~Earlier(i, j, asc)
    BY <1>2, <1>5, <2>1
  <2> QED
    BY <1>3, <2>1, <2>2 DEF NotAfter
<1>8. PICK f : f = [j \in T |-> place[j]]
  OBVIOUS
<1>9. f \in Bijection(T, 1..m)
  <2>1. f \in [T -> 1..m]
    BY <1>6, <1>8
  <2>2. \A j, k \in T : f[j] = f[k] => j = k
    BY <1>2, <1>4, <1>8
  <2>3. \A k \in 1..m : \E j \in T : f[j] = k
    BY <1>7, <1>8
  <2> QED
    BY <2>1, <2>2, <2>3 DEF Bijection, Injection, Surjection, IsInjective
<1>10. Cardinality(1..m) = Cardinality(T)
  BY <1>4, <1>9, FS_Bijection DEF ExistsBijection
<1>11. Cardinality(1..m) = m
  BY FS_Interval
<1> QED
  BY <1>4, <1>5, <1>10, <1>11

\* Pages begin where the page before ends.
LEMMA SkipTypes ==
  ASSUME NEW w \in Walk
  PROVE  /\ w.page \in Nat \ {0} /\ w.limit \in Nat \ {0}
         /\ Skip(w) \in Nat /\ Skip(w) + w.limit = w.page * w.limit
         /\ w.page <= Skip(w) + 1
<1>1. w.page \in Nat \ {0} /\ w.limit \in Nat \ {0}
  BY NotificationsAssumption DEF Walk
<1>2. PICK k \in Nat, l \in Nat : w.page = k + 1 /\ w.limit = l + 1
  <2>1. PICK k : k = w.page - 1
    OBVIOUS
  <2>2. PICK l : l = w.limit - 1
    OBVIOUS
  <2>3. /\ k \in Nat /\ w.page = k + 1
        /\ l \in Nat /\ w.limit = l + 1
    BY <1>1, <2>1, <2>2
  <2> QED
    BY <2>3
<1>3. /\ k * (l + 1) = k * l + k /\ (k + 1) * (l + 1) = k * l + k + l + 1
      /\ k * l \in Nat
  OBVIOUS
<1>4. Skip(w) = k * (l + 1)
  BY <1>1, <1>2 DEF Skip
<1> QED
  BY <1>1, <1>2, <1>3, <1>4

\* The reader misses nothing when rows are added or marked read.
LEMMA WalkStays ==
  ASSUME TypeOK, WalkInv, walk' = walk,
         \A u : Rows(u) \subseteq Rows(u)' /\ IsFiniteSet(Rows(u)'),
         \A j \in 1..Len(note) : /\ note'[j].user = note[j].user
                                 /\ note'[j].createdAt = note[j].createdAt
  PROVE  WalkInv'
<1> SUFFICES ASSUME walk # Null PROVE WalkInv'
  BY DEF WalkInv
<1>1. PICK u, asc, s, B : /\ u = walk.user /\ asc = walk.asc
                          /\ s = Skip(walk) /\ B = walk.begun
  OBVIOUS
<1>2. s \in Nat /\ Skip(walk)' = s
  <2>1. walk \in Walk
    BY DEF TypeOK
  <2> QED
    BY <1>1, <2>1, SkipTypes DEF Skip
<1>3. /\ B \subseteq Rows(u)
      /\ \A i \in B : walk.done \/ Position(i, u, asc) <= s =>
                     i \in walk.seen \/ Tied(i)
  BY <1>1 DEF WalkInv
<1>4. ASSUME NEW i \in B, walk.done \/ Position(i, u, asc)' <= s
      PROVE  i \in walk.seen \/ Tied(i)'
  <2>1. /\ Position(i, u, asc)' \in Nat
        /\ Position(i, u, asc) <= Position(i, u, asc)'
        /\ Tied(i) => Tied(i)'
    BY <1>3, PlaceGrows
  <2>2. Position(i, u, asc) \in Nat
    BY PlaceTypes, RowTypes
  <2>3. walk.done \/ Position(i, u, asc) <= s
    BY <1>2, <1>4, <2>1, <2>2
  <2> QED
    BY <1>3, <2>1, <2>3
<1>5. B \subseteq Rows(u)'
  BY <1>3
<1> QED
  BY <1>1, <1>2, <1>4, <1>5 DEF WalkInv

\* Nor when the rows stay as they are.
LEMMA WalkSame ==
  ASSUME TypeOK, WalkInv, walk' = walk, note' = note
  PROVE  WalkInv'
<1>1. \A u : Rows(u)' = Rows(u) /\ IsFiniteSet(Rows(u))
  BY UnreadCounted DEF Rows
<1> QED
  BY <1>1, WalkStays

-----------------------------------------------------------------------------
(* The actions *)

\* A request to read one notification or all of them arrives.
LEMMA ReadInv ==
  ASSUME IInv, NEW p \in Procs, NEW u \in Users, NEW ws \in BOOLEAN,
         ReadAll(p, u, ws) \/ \E i \in Ids : Read(p, u, i, ws)
  PROVE  IInv'
<1>0. TypeOK /\ OpInv /\ PushedReadIsRead /\ BadgeInv /\ WalkInv
  BY DEF IInv
<1>1. PICK l \in {"find", "all"}, i \in Ids \cup {Null} :
         Begin(p, l, u, i, ws) /\ (l = "find" => i \in Ids)
  BY DEF ReadAll, Read
<1>2. /\ Only(p) /\ op[p] = Null /\ op'[p] # Null
      /\ op'[p].pc = l /\ op'[p].user = u /\ op'[p].id = i
      /\ ~op'[p].lost
      /\ tangled \subseteq tangled' /\ tangled' \subseteq Users
      /\ u \notin tangled' =>
           /\ op'[p].ws /\ \A q \in Procs : ~Of(q, u)
           /\ \A e \in events : e.user # u
  <2>1. /\ l \in Labels /\ i \in Ids \cup {Null} /\ TypeOK
        /\ \E b \in BOOLEAN : Begin(p, l, u, i, b)
    BY <1>0, <1>1 DEF Labels
  <2> QED
    BY <2>1, Began
<1>3. /\ note' = note /\ events' = events /\ shown' = shown /\ badge' = badge
      /\ walk' = walk /\ failed' = failed /\ faults' = faults
      /\ reads < MaxReads /\ reads' = reads + 1
  BY DEF ReadAll, Read, pushed
<1>4. reads' \in 0..MaxReads /\ reads' \in Nat /\ reads' >= 1 /\ reads' >= reads
  BY <1>0, <1>3, NotificationsAssumption DEF TypeOK
<1>5. TypeOK'
  BY <1>0, <1>2, <1>3, <1>4 DEF TypeOK, Only
<1>6. /\ \A v : Rows(v)' = Rows(v) /\ Unread(v)' = Unread(v)
      /\ Grows
  BY <1>3, <1>4, SameRows
<1>7. Knows(op[p])'
  BY <1>1, <1>2, <1>4 DEF Knows
<1>8. OpInv' /\ PushedReadIsRead'
  BY <1>0, <1>2, <1>3, <1>4, <1>6, <1>7, KnownStays DEF Only
<1>9. BadgeInv'
  <2>1. u \in Users \ tangled' =>
          Alone(u)' /\ OpCounts(u)' /\ EventCounts(u)' /\ Shown(u)'
    <3> SUFFICES ASSUME u \notin tangled'
                 PROVE  Alone(u)' /\ OpCounts(u)' /\ EventCounts(u)' /\ Shown(u)'
      OBVIOUS
    <3>1. WillCount(op[p], u)'
      BY <1>1, <1>2 DEF WillCount
    <3> QED
      BY <1>2, <1>3, <3>1, OwnGoesOn DEF Only
  <2> QED
    BY <1>0, <1>2, <1>3, <1>6, <2>1, BadgeStep DEF Only
<1>10. WalkInv'
  BY <1>0, <1>3, WalkSame
<1> QED
  BY <1>5, <1>8, <1>9, <1>10 DEF IInv

\* The unread count is taken, for a new row or after a read.
LEMMA CountInv ==
  ASSUME IInv, NEW p \in Procs, CreateCount(p) \/ UnreadCount(p)
  PROVE  IInv'
<1>0. TypeOK /\ OpInv /\ PushedReadIsRead /\ BadgeInv /\ WalkInv
  BY DEF IInv
<1>1. PICK l \in {"publish", "push"} :
        /\ op[p] # Null
        /\ op[p].pc = IF l = "publish" THEN "createCount" ELSE "count"
        /\ op' = [op EXCEPT ![p].pc = l,
                            ![p].count = UnreadOf(op[p].user)]
  BY DEF CreateCount, UnreadCount, At, UnreadOf
<1>2. /\ note' = note /\ events' = events /\ shown' = shown /\ badge' = badge
      /\ walk' = walk /\ reads' = reads /\ failed' = failed
      /\ tangled' = tangled /\ faults' = faults
  BY DEF CreateCount, UnreadCount, pushed
<1>3. PICK u \in Users : op[p].user = u
  BY <1>0, <1>1, OpTypes
<1>4. UnreadOf(u) \in Count
  BY <1>0, UnreadCounted
<1>5. /\ Only(p) /\ op'[p] # Null /\ op'[p].pc = l
      /\ op'[p].user = u /\ op'[p].id = op[p].id
      /\ op'[p].ws = op[p].ws /\ op'[p].lost = op[p].lost
      /\ op'[p].count = UnreadOf(u)
  <2>1. TypeOK /\ l \in Labels
    BY <1>0 DEF Labels
  <2>2. op' = [op EXCEPT ![p].pc = l, ![p].count = UnreadOf(u)]
    BY <1>1, <1>3
  <2>3. op[p] # Null
    BY <1>1
  <2> QED
    BY <1>3, <1>4, <2>1, <2>2, <2>3, Counted
<1>6. TypeOK'
  BY <1>0, <1>2, <1>5 DEF TypeOK, Only
<1>7. /\ \A v : Rows(v)' = Rows(v) /\ Unread(v)' = Unread(v)
      /\ \A v : UnreadOf(v)' = UnreadOf(v)
      /\ Grows /\ reads' \in Nat
  BY <1>0, <1>2, SameRows DEF TypeOK
<1>8. Knows(op[p])'
  <2>1. Knows(op[p])
    BY <1>0, <1>1 DEF OpInv
  <2>2. l = "push" => ReadOrFailed(u, op[p].id)
    BY <1>1, <1>3, <2>1 DEF Knows
  <2>3. l = "push" => ReadOrFailed(op[p].user, op[p].id)'
    BY <1>2, <1>5, <1>7, <2>2 DEF ReadOrFailed
  <2> QED
    BY <1>1, <1>4, <1>5, <2>1, <2>3 DEF Knows
<1>9. OpInv' /\ PushedReadIsRead'
  BY <1>0, <1>2, <1>5, <1>7, <1>8, KnownStays DEF Only
<1>10. BadgeInv'
  <2>1. u \in Users \ tangled' =>
          Alone(u)' /\ OpCounts(u)' /\ EventCounts(u)' /\ Shown(u)'
    <3> SUFFICES ASSUME u \notin tangled'
                 PROVE  Alone(u)' /\ OpCounts(u)' /\ EventCounts(u)' /\ Shown(u)'
      OBVIOUS
    <3>1. /\ \A q \in Procs \ {p} : ~Of(q, u)
          /\ \A e \in events : e.user # u
          /\ WillCount(op[p], u)
      BY <1>0, <1>1, <1>2, <1>3, OwnIsAlone DEF Of
    <3>2. WillCount(op[p], u)'
      BY <1>1, <1>5, <1>7, <3>1 DEF WillCount
    <3> QED
      BY <1>2, <1>5, <3>1, <3>2, OwnGoesOn DEF Only
  <2> QED
    BY <1>0, <1>2, <1>3, <1>5, <1>7, <2>1, BadgeStep DEF Only
<1>11. WalkInv'
  BY <1>0, <1>2, WalkSame
<1> QED
  BY <1>6, <1>9, <1>10, <1>11 DEF IInv

\* A notification is created and the creator goes on to count and publish.
LEMMA CreateInv ==
  ASSUME IInv, NEW p \in Procs, NEW u \in Users, NEW at \in Moments,
         CreateNoti(p, u, at)
  PROVE  IInv'
<1>0. TypeOK /\ OpInv /\ PushedReadIsRead /\ BadgeInv /\ WalkInv
  BY DEF IInv
<1>1. /\ Len(note) < MaxNotes
      /\ note' = Append(note, [user |-> u, createdAt |-> at, readAt |-> 0])
      /\ Begin(p, "createCount", u, Len(note) + 1, TRUE)
      /\ events' = events /\ shown' = shown /\ badge' = badge
      /\ walk' = walk /\ reads' = reads /\ failed' = failed /\ faults' = faults
  BY DEF CreateNoti, pushed
<1>2. /\ note' \in Seq(Note) /\ Len(note') = Len(note) + 1
      /\ Len(note') <= MaxNotes /\ Len(note) + 1 \in Ids
      /\ Rows(u)' = Rows(u) \cup {Len(note) + 1}
      /\ \A v : v # u => Rows(v)' = Rows(v) /\ Unread(v)' = Unread(v)
      /\ \A v : Rows(v) \subseteq Rows(v)'
      /\ \A v : Rows(v) \ Unread(v) \subseteq Rows(v)' \ Unread(v)'
  BY <1>0, <1>1, CreatedRows
<1>3. PICK i \in Ids : i = Len(note) + 1 /\ Begin(p, "createCount", u, i, TRUE)
  BY <1>1, <1>2
<1>4. /\ Only(p) /\ op[p] = Null /\ op'[p] # Null
      /\ op'[p].pc = "createCount" /\ op'[p].user = u /\ op'[p].id = i
      /\ ~op'[p].lost
      /\ tangled \subseteq tangled' /\ tangled' \subseteq Users
      /\ u \notin tangled' =>
           /\ op'[p].ws /\ \A q \in Procs : ~Of(q, u)
           /\ \A e \in events : e.user # u
  <2>1. /\ "createCount" \in Labels /\ TypeOK
        /\ \E b \in BOOLEAN : Begin(p, "createCount", u, i, b)
    BY <1>0, <1>3 DEF Labels
  <2> QED
    BY <2>1, Began
<1>5. TypeOK'
  BY <1>0, <1>1, <1>2, <1>4 DEF TypeOK, Only
<1>6. Grows /\ reads' \in Nat
  BY <1>0, <1>1, <1>2 DEF Grows, TypeOK
<1>7. Knows(op[p])'
  BY <1>4 DEF Knows
<1>8. OpInv' /\ PushedReadIsRead'
  BY <1>0, <1>1, <1>4, <1>6, <1>7, KnownStays DEF Only
<1>9. BadgeInv'
  <2>1. u \in Users \ tangled' =>
          Alone(u)' /\ OpCounts(u)' /\ EventCounts(u)' /\ Shown(u)'
    <3> SUFFICES ASSUME u \notin tangled'
                 PROVE  Alone(u)' /\ OpCounts(u)' /\ EventCounts(u)' /\ Shown(u)'
      OBVIOUS
    <3>1. WillCount(op[p], u)'
      BY <1>4 DEF WillCount
    <3> QED
      BY <1>1, <1>4, <3>1, OwnGoesOn DEF Only
  <2> QED
    BY <1>0, <1>1, <1>2, <1>4, <2>1, BadgeStep DEF Only
<1>10. WalkInv'
  <2>1. IsFiniteSet(Rows(u)) /\ \A v : IsFiniteSet(Rows(v))
    BY <1>0, UnreadCounted
  <2>2. \A v : IsFiniteSet(Rows(v)')
    BY <1>2, <2>1, FS_AddElement
  <2>3. \A j \in 1..Len(note) : note'[j] = note[j]
    BY <1>0, <1>1, CreatedRows
  <2> QED
    BY <1>0, <1>1, <1>2, <2>2, <2>3, WalkStays
<1> QED
  BY <1>5, <1>8, <1>9, <1>10 DEF IInv

\* An answer that a handler waits for leaves its user with one request still,
\* which is about to push the unread count.
LEMMA OwnAnswered ==
  ASSUME TypeOK, BadgeInv, NEW p \in Procs, NEW v \in Users \ tangled,
         Of(p, v), NEW l \in {"count", "pushAll"}, Answered(p, l),
         events' = events, l = "pushAll" => Unread(v)' = {}
  PROVE  Alone(v)' /\ OpCounts(v)' /\ EventCounts(v)' /\ Shown(v)'
<1>1. /\ \A q \in Procs \ {p} : ~Of(q, v)
      /\ \A e \in events : e.user # v
      /\ op[p].ws /\ ~op[p].lost
  BY OwnIsAlone DEF WillCount
<1>2. op[p] # Null /\ op[p].user = v /\ l \in Labels
  BY DEF Of, Labels
<1>3. /\ Only(p) /\ op'[p] # Null /\ op'[p].pc = l /\ op'[p].user = v
      /\ op'[p].ws /\ ~op'[p].lost
  BY <1>1, <1>2, WasAnswered
<1>4. WillCount(op[p], v)'
  BY <1>3 DEF WillCount
<1> QED
  BY <1>1, <1>3, <1>4, OwnGoesOn DEF Only

\* markRead looks the row up.
LEMMA MarkReadFindInv ==
  ASSUME IInv, NEW p \in Procs, MarkReadFind(p)
  PROVE  IInv'
<1>0. TypeOK /\ OpInv /\ PushedReadIsRead /\ BadgeInv /\ WalkInv
  BY DEF IInv
<1>1. PICK u, i : u = op[p].user /\ i = op[p].id
  OBVIOUS
<1>2. /\ op[p] # Null /\ op[p].pc = "find"
      /\ IF i \in Unread(u) THEN Go(p, "update") ELSE Answered(p, "count")
      /\ failed' = IF i \in Rows(u) THEN failed
                   ELSE failed \cup {[user |-> u, id |-> i]}
      /\ note' = note /\ events' = events /\ shown' = shown /\ badge' = badge
      /\ walk' = walk /\ reads' = reads
      /\ tangled' = tangled /\ faults' = faults
  BY <1>1 DEF MarkReadFind, At, pushed
<1>3. u \in Users /\ i \in Ids /\ reads >= 1
  BY <1>0, <1>1, <1>2, OpTypes DEF OpInv, Knows
<1>4. /\ Only(p)
      /\ op'[p] # Null => /\ op'[p].user = u /\ op'[p].id = i
                          /\ \/ op'[p].pc = "update" /\ i \in Unread(u)
                             \/ op'[p].pc = "count" /\ i \notin Unread(u)
  <2>1. "update" \in Labels /\ "count" \in Labels
    BY DEF Labels
  <2>2. CASE i \in Unread(u)
    BY <1>0, <1>1, <1>2, <2>1, <2>2, Went
  <2>3. CASE i \notin Unread(u)
    BY <1>0, <1>1, <1>2, <2>1, <2>3, WasAnswered
  <2> QED
    BY <2>2, <2>3
<1>5. failed' \subseteq [user: Users, id: Ids] /\ failed \subseteq failed'
  BY <1>0, <1>2, <1>3 DEF TypeOK
<1>6. TypeOK'
  BY <1>0, <1>2, <1>4, <1>5 DEF TypeOK, Only
<1>7. /\ \A v : Rows(v)' = Rows(v) /\ Unread(v)' = Unread(v)
      /\ Grows /\ reads' \in Nat
  BY <1>0, <1>2, <1>5, SameRows DEF TypeOK
<1>8. op'[p] # Null => Knows(op[p])'
  <2>1. i \in Unread(u) => i \in Rows(u)
    BY DEF Unread
  <2>2. i \notin Unread(u) => ReadOrFailed(u, i)'
    BY <1>2, <1>7 DEF ReadOrFailed
  <2> QED
    BY <1>2, <1>3, <1>4, <1>7, <2>1, <2>2 DEF Knows
<1>9. OpInv' /\ PushedReadIsRead'
  BY <1>0, <1>2, <1>4, <1>7, <1>8, KnownStays DEF Only
<1>10. BadgeInv'
  <2>1. u \in Users \ tangled' =>
          Alone(u)' /\ OpCounts(u)' /\ EventCounts(u)' /\ Shown(u)'
    <3> SUFFICES ASSUME u \notin tangled'
                 PROVE  Alone(u)' /\ OpCounts(u)' /\ EventCounts(u)' /\ Shown(u)'
      OBVIOUS
    <3>1. u \in Users \ tangled /\ Of(p, u)
      BY <1>1, <1>2, <1>3 DEF Of
    <3>2. CASE i \in Unread(u)
      <4>1. /\ \A q \in Procs \ {p} : ~Of(q, u)
            /\ \A e \in events : e.user # u
            /\ op[p].ws /\ ~op[p].lost
        BY <1>0, <3>1, OwnIsAlone DEF WillCount
      <4>2. /\ op'[p] # Null /\ op'[p].pc = "update" /\ op'[p].user = u
            /\ op'[p].ws /\ ~op'[p].lost
        BY <1>0, <1>1, <1>2, <3>2, <4>1, Went DEF Labels
      <4>3. WillCount(op[p], u)'
        BY <4>2 DEF WillCount
      <4> QED
        BY <1>2, <1>4, <4>1, <4>2, <4>3, OwnGoesOn DEF Only
    <3>3. CASE i \notin Unread(u)
      BY <1>0, <1>2, <3>1, <3>3, OwnAnswered
    <3> QED
      BY <3>2, <3>3
  <2> QED
    BY <1>0, <1>1, <1>2, <1>4, <1>7, <2>1, BadgeStep DEF Only
<1>11. WalkInv'
  BY <1>0, <1>2, WalkSame
<1> QED
  BY <1>6, <1>9, <1>10, <1>11 DEF IInv

\* Rows are marked: the one that was found, or all unread rows of the user.
LEMMA MarkInv ==
  ASSUME IInv, NEW p \in Procs, MarkReadUpdate(p) \/ ReadAllUpdate(p)
  PROVE  IInv'
<1>0. TypeOK /\ OpInv /\ PushedReadIsRead /\ BadgeInv /\ WalkInv
  BY DEF IInv
<1>1. /\ op[p] # Null /\ op[p].pc \in {"update", "all"}
      /\ events' = events /\ shown' = shown /\ badge' = badge
      /\ walk' = walk /\ reads' = reads /\ failed' = failed
      /\ tangled' = tangled /\ faults' = faults
  BY DEF MarkReadUpdate, ReadAllUpdate, At, pushed
<1>2. PICK u, i : u = op[p].user /\ i = op[p].id
  OBVIOUS
<1>3. u \in Users /\ reads >= 1 /\ (op[p].pc = "update" => i \in Ids /\ i \in Rows(u))
  BY <1>0, <1>1, <1>2, OpTypes DEF OpInv, Knows
<1>4. PICK I \in SUBSET Rows(u), l \in {"count", "pushAll"} :
        /\ Marked(I) /\ Answered(p, l)
        /\ l = "count" => i \in Ids /\ i \in I
        /\ l = "pushAll" => I = Unread(u)
  <2>1. CASE MarkReadUpdate(p)
    <3>1. /\ op[p].pc = "update" /\ Answered(p, "count")
          /\ note' = [note EXCEPT ![i].readAt = reads]
      BY <1>2, <2>1 DEF MarkReadUpdate, At
    <3>2. i \in Rows(u) /\ i \in Ids /\ i \in 1..Len(note)
      BY <1>3, <3>1 DEF Rows
    <3>3. Marked({i})
      BY <1>0, <3>1, <3>2, MarkOne
    <3> QED
      BY <3>1, <3>2, <3>3
  <2>2. CASE ReadAllUpdate(p)
    <3>1. Answered(p, "pushAll") /\ Marked(Unread(u))
      BY <1>0, <1>2, <1>3, <2>2, MarkAll DEF ReadAllUpdate
    <3>2. Unread(u) \in SUBSET Rows(u)
      BY DEF Unread
    <3> QED
      BY <3>1, <3>2
  <2> QED
    BY <2>1, <2>2
<1>5. /\ \A v : Rows(v)' = Rows(v) /\ Unread(v)' = Unread(v) \ I
      /\ \A v : v # u => Unread(v)' = Unread(v)
  BY <1>0, <1>3, <1>4, MarkedRows
<1>6. /\ Only(p)
      /\ op'[p] # Null => /\ op'[p].pc = l /\ op'[p].user = u /\ op'[p].id = i
  <2>1. l \in Labels
    BY DEF Labels
  <2> QED
    BY <1>0, <1>1, <1>2, <1>4, <2>1, WasAnswered
<1>7. TypeOK'
  BY <1>0, <1>1, <1>4, <1>6 DEF TypeOK, Only, Marked
<1>8. Grows /\ reads' \in Nat
  BY <1>0, <1>1, <1>5 DEF Grows, TypeOK
<1>9. op'[p] # Null => Knows(op[p])'
  <2>1. l = "count" => ReadOrFailed(u, i)'
    BY <1>4, <1>5 DEF ReadOrFailed
  <2> QED
    BY <1>4, <1>6, <2>1 DEF Knows
<1>10. OpInv' /\ PushedReadIsRead'
  BY <1>0, <1>1, <1>6, <1>8, <1>9, KnownStays DEF Only
<1>11. BadgeInv'
  <2>1. u \in Users \ tangled' =>
          Alone(u)' /\ OpCounts(u)' /\ EventCounts(u)' /\ Shown(u)'
    <3>1. l = "pushAll" => Unread(u)' = {}
      BY <1>4, <1>5
    <3>2. Of(p, u)
      BY <1>1, <1>2 DEF Of
    <3> QED
      BY <1>0, <1>1, <1>4, <3>1, <3>2, OwnAnswered
  <2> QED
    BY <1>0, <1>1, <1>2, <1>5, <1>6, <2>1, BadgeStep DEF Only
<1>12. WalkInv'
  <2>1. \A v : Rows(v) \subseteq Rows(v)' /\ IsFiniteSet(Rows(v)')
    BY <1>0, <1>5, UnreadCounted
  <2> QED
    BY <1>0, <1>1, <1>4, <2>1, WalkStays DEF Marked
<1> QED
  BY <1>7, <1>10, <1>11, <1>12 DEF IInv

\* A new notification is published, or the error is swallowed.
LEMMA PublishInv ==
  ASSUME IInv, NEW p \in Procs, Publish(p)
  PROVE  IInv'
<1>0. TypeOK /\ OpInv /\ PushedReadIsRead /\ BadgeInv /\ WalkInv
  BY DEF IInv
<1>1. PICK u, i, c : u = op[p].user /\ i = op[p].id /\ c = op[p].count
  OBVIOUS
<1>2. PICK e : e = [user |-> u, id |-> i, count |-> c, left |-> MaxDeliver]
  OBVIOUS
<1>3. /\ op[p] # Null /\ op[p].pc = "publish" /\ End(p)
      /\ \/ events' = events \cup {e} /\ tangled' = tangled /\ faults' = faults
         \/ Fault(u) /\ events' = events
      /\ note' = note /\ shown' = shown /\ badge' = badge
      /\ walk' = walk /\ reads' = reads /\ failed' = failed
  BY <1>1, <1>2 DEF Publish, At, pushed
<1>4. u \in Users /\ i \in Ids /\ c \in Count
  BY <1>0, <1>1, <1>3, OpTypes DEF OpInv, Knows
<1>5. e \in Event /\ e.user = u /\ e.count = c
  BY <1>2, <1>4, NotificationsAssumption DEF Event
<1>6. Only(p) /\ op'[p] = Null
  BY <1>0, <1>3, Ended
<1>7. /\ tangled' \subseteq Users /\ tangled \subseteq tangled'
      /\ faults' \in 0..MaxFaults
      /\ u \notin tangled' => events' = events \cup {e}
  BY <1>0, <1>3, <1>4, Faulted DEF TypeOK
<1>8. TypeOK'
  BY <1>0, <1>3, <1>5, <1>6, <1>7 DEF TypeOK, Only
<1>9. /\ \A v : Rows(v)' = Rows(v) /\ Unread(v)' = Unread(v)
      /\ \A v : UnreadOf(v)' = UnreadOf(v)
      /\ Grows /\ reads' \in Nat
  BY <1>0, <1>3, SameRows DEF TypeOK
<1>10. OpInv' /\ PushedReadIsRead'
  BY <1>0, <1>3, <1>6, <1>9, KnownStays DEF Only
<1>11. BadgeInv'
  <2>1. u \in Users \ tangled' =>
          Alone(u)' /\ OpCounts(u)' /\ EventCounts(u)' /\ Shown(u)'
    <3> SUFFICES ASSUME u \notin tangled'
                 PROVE  Alone(u)' /\ OpCounts(u)' /\ EventCounts(u)' /\ Shown(u)'
      OBVIOUS
    <3>1. u \in Users \ tangled /\ Of(p, u)
      BY <1>1, <1>3, <1>4, <1>7 DEF Of
    <3>2. /\ \A q \in Procs \ {p} : ~Of(q, u)
          /\ \A f \in events : f.user # u
          /\ c = UnreadOf(u)
      BY <1>0, <1>1, <1>3, <3>1, OwnIsAlone DEF WillCount
    <3>3. events' = events \cup {e}
      BY <1>7
    <3>4. \A q \in Procs : ~Of(q, u)'
      BY <1>6, <3>2 DEF Of, Only
    <3>5. \A f \in events' : f.user = u => f = e
      BY <3>2, <3>3
    <3>6. Alone(u)' /\ OpCounts(u)' /\ EventCounts(u)'
      BY <1>5, <1>9, <3>2, <3>4, <3>5 DEF Alone, OpCounts, EventCounts
    <3>7. Shown(u)'
      BY <1>5, <3>3 DEF Shown, Pending
    <3> QED
      BY <3>6, <3>7
  <2>2. \A f : f.user # u => (f \in events' <=> f \in events)
    BY <1>3, <1>5
  <2> QED
    BY <1>0, <1>1, <1>3, <1>6, <1>7, <1>9, <2>1, <2>2, BadgeStep DEF Only
<1>12. WalkInv'
  BY <1>0, <1>3, WalkSame
<1> QED
  BY <1>8, <1>10, <1>11, <1>12 DEF IInv

\* The service answers an error, or nothing in time.
LEMMA FaultInv ==
  ASSUME IInv, NEW p \in Procs, ServiceError(p) \/ Timeout(p)
  PROVE  IInv'
<1>0. TypeOK /\ OpInv /\ PushedReadIsRead /\ BadgeInv /\ WalkInv
  BY DEF IInv
<1>1. PICK u, i : u = op[p].user /\ i = op[p].id
  OBVIOUS
<1>2. /\ op[p] # Null /\ op[p].pc \in {"find", "update", "all", "count"}
      /\ Fault(u)
      /\ failed' = failed
         \/ /\ op[p].pc \in {"find", "update"}
            /\ failed' = failed \cup {[user |-> u, id |-> i]}
      /\ note' = note /\ events' = events /\ shown' = shown /\ badge' = badge
      /\ walk' = walk /\ reads' = reads
  BY <1>1 DEF ServiceError, Timeout, pushed
<1>3. /\ u \in Users /\ Knows(op[p])
      /\ op[p].pc \in {"find", "update", "count"} => i \in Ids
  BY <1>0, <1>1, <1>2, OpTypes DEF OpInv, Knows
<1>4. /\ Only(p)
      /\ op'[p] # Null =>
           /\ op'[p].user = u /\ op'[p].id = i
           /\ \/ op'[p].pc = op[p].pc
              \/ op'[p].pc = "pushAll"
              \/ op'[p].pc = "push" /\ op[p].pc = "count"
              \/ /\ op'[p].pc = "count" /\ op[p].pc \in {"find", "update"}
                 /\ [user |-> u, id |-> i] \in failed'
  <2>1. CASE ServiceError(p)
    <3>1. PICK l : l = CASE op[p].pc = "all"   -> "pushAll"
                         [] op[p].pc = "count" -> "push"
                         [] OTHER              -> "count"
      OBVIOUS
    <3>2. /\ l \in Labels
          /\ \/ l = "pushAll"
             \/ l = "push" /\ op[p].pc = "count"
             \/ l = "count" /\ op[p].pc \in {"find", "update"}
      BY <1>2, <3>1 DEF Labels
    <3>3. /\ Answered(p, l)
          /\ failed' = IF op[p].pc \in {"find", "update"}
                       THEN failed \cup {[user |-> u, id |-> i]} ELSE failed
      BY <1>1, <2>1, <3>1 DEF ServiceError
    <3>4. /\ Only(p)
          /\ op'[p] # Null => op'[p].user = u /\ op'[p].id = i /\ op'[p].pc = l
      BY <1>0, <1>1, <1>2, <3>2, <3>3, WasAnswered
    <3> QED
      BY <3>2, <3>3, <3>4
  <2>2. CASE Timeout(p)
    <3>1. CASE End(p)
      BY <1>0, <3>1, Ended
    <3>2. CASE op' = [op EXCEPT ![p].lost = TRUE]
      <4>1. PICK x : x = [op[p] EXCEPT !.lost = TRUE]
        OBVIOUS
      <4>2. /\ x \in Op /\ x.user = u /\ x.id = i /\ x.pc = op[p].pc
        BY <1>0, <1>1, <1>2, <4>1, OpTypes DEF Op
      <4>3. op' = [op EXCEPT ![p] = x]
        BY <3>2, <4>1
      <4> QED
        BY <1>0, <4>2, <4>3, Replaced
    <3> QED
      BY <2>2, <3>1, <3>2 DEF Timeout
  <2> QED
    BY <2>1, <2>2
<1>5. /\ tangled' \subseteq Users /\ tangled \subseteq tangled'
      /\ faults' \in 0..MaxFaults /\ u \in tangled'
  BY <1>0, <1>2, <1>3, Faulted
<1>6. failed' \subseteq [user: Users, id: Ids] /\ failed \subseteq failed'
  BY <1>0, <1>2, <1>3 DEF TypeOK
<1>7. TypeOK'
  BY <1>0, <1>2, <1>4, <1>5, <1>6 DEF TypeOK, Only
<1>8. /\ \A v : Rows(v)' = Rows(v) /\ Unread(v)' = Unread(v)
      /\ Grows /\ reads' \in Nat
  BY <1>0, <1>2, <1>6, SameRows DEF TypeOK
<1>9. op'[p] # Null => Knows(op[p])'
  <2>1. ReadOrFailed(u, i) => ReadOrFailed(u, i)'
    BY <1>6, <1>8 DEF ReadOrFailed
  <2>2. [user |-> u, id |-> i] \in failed' => ReadOrFailed(u, i)'
    BY DEF ReadOrFailed
  <2>3. op[p].pc = "update" => i \in Rows(u)
    BY <1>1, <1>3 DEF Knows
  <2>4. op[p].pc = "count" => ReadOrFailed(u, i)
    BY <1>1, <1>3 DEF Knows
  <2>5. op[p].pc \in {"find", "update", "all"} => reads' >= 1
    BY <1>2, <1>3 DEF Knows
  <2> QED
    BY <1>2, <1>3, <1>4, <1>8, <2>1, <2>2, <2>3, <2>4, <2>5 DEF Knows
<1>10. OpInv' /\ PushedReadIsRead'
  BY <1>0, <1>2, <1>4, <1>8, <1>9, KnownStays DEF Only
<1>11. BadgeInv'
  BY <1>0, <1>1, <1>2, <1>4, <1>5, <1>8, BadgeStep DEF Only
<1>12. WalkInv'
  BY <1>0, <1>2, WalkSame
<1> QED
  BY <1>7, <1>10, <1>11, <1>12 DEF IInv

\* A handler pushes what it has read, or that all is read.
LEMMA PushInv ==
  ASSUME IInv, NEW p \in Procs, PushRead(p) \/ PushReadAll(p)
  PROVE  IInv'
<1>0. TypeOK /\ OpInv /\ PushedReadIsRead /\ BadgeInv /\ WalkInv
  BY DEF IInv
<1>1. PICK u, i : u = op[p].user /\ i = op[p].id
  OBVIOUS
<1>2. PICK c : /\ badge' = [badge EXCEPT ![u] = c]
               /\ op[p].pc = "push" => c = op[p].count
               /\ op[p].pc = "pushAll" => c = 0
  BY <1>1 DEF PushRead, PushReadAll, At
<1>3. /\ op[p] # Null /\ op[p].pc \in {"push", "pushAll"} /\ End(p)
      /\ \/ op[p].pc = "push" /\ shown' = [shown EXCEPT ![u] = @ \cup {i}]
         \/ shown' = shown
      /\ note' = note /\ events' = events
      /\ walk' = walk /\ reads' = reads /\ failed' = failed
      /\ tangled' = tangled /\ faults' = faults
  BY <1>1 DEF PushRead, PushReadAll, At
<1>4. /\ u \in Users /\ (op[p].pc = "push" => i \in Ids /\ ReadOrFailed(u, i))
      /\ c \in Count \cup {Null}
  <2>1. 0 \in Count
    BY NotificationsAssumption DEF Count
  <2> QED
    BY <1>0, <1>1, <1>2, <1>3, <2>1, OpTypes DEF OpInv, Knows
<1>5. Only(p) /\ op'[p] = Null
  BY <1>0, <1>3, Ended
<1>6. /\ shown' \in [Users -> SUBSET Ids]
      /\ \A v \in Users : \A j \in shown'[v] :
           j \in shown[v] \/ ReadOrFailed(v, j)
  BY <1>0, <1>3, <1>4 DEF TypeOK
<1>7. badge' \in [Users -> Count \cup {Null}] /\ badge'[u] = c
  BY <1>0, <1>2, <1>4 DEF TypeOK
<1>8. TypeOK'
  BY <1>0, <1>3, <1>5, <1>6, <1>7 DEF TypeOK, Only
<1>9. /\ \A v : Rows(v)' = Rows(v) /\ Unread(v)' = Unread(v)
      /\ \A v : UnreadOf(v)' = UnreadOf(v)
      /\ Grows /\ reads' \in Nat
  BY <1>0, <1>3, SameRows DEF TypeOK
<1>10. OpInv' /\ PushedReadIsRead'
  BY <1>0, <1>5, <1>6, <1>9, KnownStays DEF Only
<1>11. BadgeInv'
  <2>1. u \in Users \ tangled' =>
          Alone(u)' /\ OpCounts(u)' /\ EventCounts(u)' /\ Shown(u)'
    <3> SUFFICES ASSUME u \notin tangled'
                 PROVE  Alone(u)' /\ OpCounts(u)' /\ EventCounts(u)' /\ Shown(u)'
      OBVIOUS
    <3>1. u \in Users \ tangled /\ Of(p, u)
      BY <1>1, <1>3, <1>4 DEF Of
    <3>2. /\ \A q \in Procs \ {p} : ~Of(q, u)
          /\ \A e \in events : e.user # u
          /\ WillCount(op[p], u)
      BY <1>0, <3>1, OwnIsAlone
    <3>3. c = UnreadOf(u)
      <4>1. Cardinality({}) = 0
        BY FS_EmptySet
      <4> QED
        BY <1>2, <1>3, <3>2, <4>1 DEF WillCount, UnreadOf
    <3>4. badge'[u] = UnreadOf(u)'
      BY <1>7, <1>9, <3>3
    <3> QED
      BY <1>3, <1>5, <3>2, <3>4, OwnEnds DEF Only
  <2>2. \A v \in Users \ {u} : badge'[v] = badge[v]
    BY <1>0, <1>2 DEF TypeOK
  <2> QED
    BY <1>0, <1>1, <1>3, <1>5, <1>9, <2>1, <2>2, BadgeStep DEF Only
<1>12. WalkInv'
  BY <1>0, <1>3, WalkSame
<1> QED
  BY <1>8, <1>10, <1>11, <1>12 DEF IInv

\* The gateway consumes an event; it is acknowledged or will come again.
LEMMA PushNewInv ==
  ASSUME IInv, NEW e \in events, PushNew(e)
  PROVE  IInv'
<1>0. TypeOK /\ OpInv /\ PushedReadIsRead /\ BadgeInv /\ WalkInv
  BY DEF IInv
<1>1. PICK x : x = [e EXCEPT !.left = @ - 1]
  OBVIOUS
<1>2. e \in Event /\ e.user \in Users /\ e.count \in Count
  BY <1>0 DEF TypeOK, Event
<1>3. PICK u \in Users, c \in Count : u = e.user /\ c = e.count
  BY <1>2
<1>4. e.left > 1 => x \in Event
  BY <1>1, <1>2, NotificationsAssumption DEF Event
<1>5. x.user = u /\ x.count = c
  BY <1>1, <1>2, <1>3 DEF Event
<1>6. /\ badge' = [badge EXCEPT ![u] = c]
      /\ \/ events' = events \ {e}
         \/ e.left > 1 /\ events' = (events \ {e}) \cup {x}
      /\ note' = note /\ op' = op /\ shown' = shown
      /\ walk' = walk /\ reads' = reads /\ failed' = failed
      /\ tangled' = tangled /\ faults' = faults
  BY <1>1, <1>3 DEF PushNew
<1>7. badge' \in [Users -> Count \cup {Null}] /\ badge'[u] = c
  BY <1>0, <1>6 DEF TypeOK
<1>8. TypeOK'
  BY <1>0, <1>4, <1>6, <1>7 DEF TypeOK
<1>9. /\ \A v : Rows(v)' = Rows(v) /\ Unread(v)' = Unread(v)
      /\ \A v : UnreadOf(v)' = UnreadOf(v)
  BY <1>6, SameRows
<1>10. OpInv' /\ PushedReadIsRead'
  BY <1>0, <1>6, <1>9 DEF OpInv, Knows, PushedReadIsRead, ReadOrFailed
<1>11. ASSUME NEW v \in Users \ tangled'
       PROVE  Alone(v)' /\ OpCounts(v)' /\ EventCounts(v)' /\ Shown(v)'
  <2>1. Alone(v) /\ OpCounts(v) /\ EventCounts(v) /\ Shown(v)
    BY <1>0, <1>6 DEF BadgeInv
  <2>2. OpCounts(v)'
    BY <1>6, <1>9, <2>1 DEF OpCounts, WillCount, Of
  <2>3. CASE v = u
    <3>1. /\ \A p \in Procs : ~Of(p, v)
          /\ \A f \in events : f.user = v => f = e
          /\ c = UnreadOf(v)
      BY <1>3, <2>1, <2>3 DEF Alone, EventCounts
    <3>2. \A p \in Procs : ~Of(p, v)'
      BY <1>6, <3>1 DEF Of
    <3>3. \A f \in events' : f.user = v => f = x
      BY <1>6, <3>1
    <3>4. Alone(v)'
      BY <3>2, <3>3 DEF Alone
    <3>5. EventCounts(v)'
      BY <1>5, <1>9, <3>1, <3>3 DEF EventCounts
    <3>6. Shown(v)'
      BY <1>7, <1>9, <2>3, <3>1 DEF Shown
    <3> QED
      BY <2>2, <3>4, <3>5, <3>6
  <2>4. CASE v # u
    <3>1. \A f : f.user = v => (f \in events' <=> f \in events)
      BY <1>3, <1>5, <1>6, <2>4
    <3>2. badge'[v] = badge[v]
      BY <1>0, <1>6, <2>4 DEF TypeOK
    <3>3. Alone(v)'
      BY <1>6, <2>1, <3>1 DEF Alone, Of
    <3>4. EventCounts(v)'
      BY <1>9, <2>1, <3>1 DEF EventCounts
    <3>5. Pending(v)' <=> Pending(v)
      BY <1>6, <3>1 DEF Pending
    <3>6. Shown(v)'
      BY <1>9, <2>1, <3>2, <3>5 DEF Shown
    <3> QED
      BY <2>2, <3>3, <3>4, <3>6
  <2> QED
    BY <2>3, <2>4
<1>12. BadgeInv'
  BY <1>11 DEF BadgeInv
<1>13. WalkInv'
  BY <1>0, <1>6, WalkSame
<1> QED
  BY <1>8, <1>10, <1>12, <1>13 DEF IInv

-----------------------------------------------------------------------------
(* The reader of the list *)

\* What the reader does is nothing to the requests.
LEMMA OnlyReads ==
  ASSUME IInv, UNCHANGED <<note, op, events, pushed, reads, failed, tangled, faults>>
  PROVE  /\ OpInv' /\ PushedReadIsRead' /\ BadgeInv'
         /\ walk' \in Walk \cup {Null} => TypeOK'
         /\ \A u : Rows(u)' = Rows(u)
<1>0. TypeOK /\ OpInv /\ PushedReadIsRead /\ BadgeInv
  BY DEF IInv
<1>1. /\ note' = note /\ op' = op /\ events' = events /\ shown' = shown
      /\ badge' = badge /\ reads' = reads /\ failed' = failed
      /\ tangled' = tangled /\ faults' = faults
  BY DEF pushed
<1>2. /\ \A u : Rows(u)' = Rows(u) /\ Unread(u)' = Unread(u)
      /\ \A u : UnreadOf(u)' = UnreadOf(u)
  BY <1>1, SameRows
<1>3. OpInv' /\ PushedReadIsRead'
  BY <1>0, <1>1, <1>2 DEF OpInv, Knows, PushedReadIsRead, ReadOrFailed
<1>4. BadgeInv'
  BY <1>0, <1>1, <1>2 DEF BadgeInv, Alone, OpCounts, EventCounts, Shown, Of,
     WillCount, Pending
<1>5. walk' \in Walk \cup {Null} => TypeOK'
  BY <1>0, <1>1 DEF TypeOK
<1> QED
  BY <1>2, <1>3, <1>4, <1>5

\* Whatever limit is asked for, a page has 1 to MaxLimit rows.
LEMMA LimitTypes ==
  ASSUME NEW raw \in Limits
  PROVE  LimitOf(raw) \in 1..MaxLimit
<1>1. /\ DefaultLimit \in 1..MaxLimit /\ MaxLimit \in Nat /\ MaxLimit >= 1
  BY NotificationsAssumption
<1>2. CASE raw \in {NaN, 0}
  BY <1>1, <1>2 DEF LimitOf
<1>3. CASE raw \notin {NaN, 0}
  <2>1. raw \in Int
    BY <1>3, NotificationsAssumption
  <2>2. PICK m : m = Max({1, raw})
    OBVIOUS
  <2>3. m \in Int /\ m >= 1
    BY <2>1, <2>2 DEF Max
  <2>4. Min({MaxLimit, m}) \in 1..MaxLimit
    BY <1>1, <2>3 DEF Min
  <2> QED
    BY <1>3, <2>2, <2>4 DEF LimitOf
<1> QED
  BY <1>2, <1>3

\* The reader asks for its first page.
LEMMA WalkStartInv ==
  ASSUME IInv, NEW u \in Users, NEW asc \in BOOLEAN, NEW raw \in Limits,
         WalkStart(u, asc, raw)
  PROVE  IInv'
<1>0. TypeOK /\ UNCHANGED <<note, op, events, pushed, reads, failed, tangled, faults>>
  BY DEF IInv, WalkStart
<1>1. /\ OpInv' /\ PushedReadIsRead' /\ BadgeInv'
      /\ walk' \in Walk \cup {Null} => TypeOK'
      /\ \A v : Rows(v)' = Rows(v)
  BY <1>0, OnlyReads
<1>2. PICK l \in 1..MaxLimit : l = LimitOf(raw)
  BY LimitTypes
<1>3. walk' = [user |-> u, asc |-> asc, limit |-> l, page |-> 1,
               begun |-> Rows(u), seen |-> {}, done |-> FALSE]
  BY <1>2 DEF WalkStart
<1>4. Rows(u) \subseteq Ids /\ MaxNotes \in Nat
  BY <1>0, RowTypes
<1>5. walk' \in Walk
  BY <1>3, <1>4 DEF Walk
<1>6. /\ walk'.user = u /\ walk'.asc = asc /\ walk'.begun = Rows(u)
      /\ ~walk'.done /\ Skip(walk)' = 0
  BY <1>3 DEF Skip
<1>7. \A i \in Rows(u) : Position(i, u, asc) >= 1 /\ Position(i, u, asc) \in Nat
  <2>1. \A i : Position(i, u, asc) \in 0..MaxNotes
    BY <1>0, PlaceTypes
  <2> QED
    BY <1>0, <2>1, PlaceOfRow
<1>8. \A i : Position(i, u, asc)' = Position(i, u, asc)
  BY <1>0, <1>1 DEF Position, NotAfter, Earlier
<1>9. WalkInv'
  BY <1>1, <1>6, <1>7, <1>8 DEF WalkInv
<1> QED
  BY <1>1, <1>5, <1>9 DEF IInv

\* The reader gets a page, or an empty one and has read all.
LEMMA WalkPageInv == IInv /\ WalkPage => IInv'
<1> SUFFICES ASSUME IInv, WalkPage PROVE IInv'
  OBVIOUS
<1>0. /\ TypeOK /\ WalkInv /\ walk \in Walk /\ walk # Null /\ ~walk.done
      /\ UNCHANGED <<note, op, events, pushed, reads, failed, tangled, faults>>
  BY DEF IInv, WalkPage, TypeOK
<1>1. /\ OpInv' /\ PushedReadIsRead' /\ BadgeInv'
      /\ walk' \in Walk \cup {Null} => TypeOK'
      /\ \A v : Rows(v)' = Rows(v)
  BY <1>0, OnlyReads
<1>2. PICK u, asc, s, l, B, S : /\ u = walk.user /\ asc = walk.asc /\ s = Skip(walk)
                              /\ l = walk.limit /\ B = walk.begun /\ S = walk.seen
  OBVIOUS
<1>3. /\ asc \in BOOLEAN /\ s \in Nat /\ l \in Nat \ {0} /\ walk.page <= s + 1
      /\ walk.page \in 1..(MaxNotes + 1) /\ B \subseteq Ids /\ S \subseteq Ids
      /\ s + l = walk.page * walk.limit
  BY <1>0, <1>2, SkipTypes DEF Walk
<1>4. PICK place \in Orders(u, asc), I \in SUBSET Rows(u) :
        /\ I = Items(walk, place)
        /\ I = {i \in Rows(u) : s < place[i] /\ place[i] <= s + l}
        /\ walk' = IF I = {} THEN [walk EXCEPT !.done = TRUE]
                   ELSE [walk EXCEPT !.page = walk.page + 1, !.seen = S \cup I]
  BY <1>2 DEF WalkPage, Items
<1>5. /\ B \subseteq Rows(u)
      /\ \A i \in B : Position(i, u, asc) <= s => i \in S \/ Tied(i)
  BY <1>0, <1>2 DEF WalkInv
<1>6. /\ \A i : Position(i, u, asc)' = Position(i, u, asc)
      /\ \A i : Tied(i)' = Tied(i)
  BY <1>0, <1>1 DEF Position, NotAfter, Earlier, Tied
<1>7. /\ \A i : Position(i, u, asc) \in 0..MaxNotes
      /\ Rows(u) \subseteq Ids /\ MaxNotes \in Nat
  BY <1>0, PlaceTypes, RowTypes
<1>8. PICK n \in 0..MaxNotes :
        /\ \A i \in Rows(u) : place[i] \in 1..n
        /\ \A m \in 1..n : \E i \in Rows(u) : place[i] = m
  <2>1. PICK n : n = Cardinality(Rows(u))
    OBVIOUS
  <2>2. n \in 0..MaxNotes
    <3>1. IsFiniteSet(Ids) /\ Cardinality(Ids) = MaxNotes
      BY <1>7, FS_Interval DEF Ids
    <3>2. IsFiniteSet(Rows(u)) /\ n <= MaxNotes
      BY <1>7, <2>1, <3>1, FS_Subset
    <3>3. n \in Nat
      BY <2>1, <3>2, FS_CardinalityType
    <3> QED
      BY <1>7, <3>2, <3>3
  <2>3. place \in Bijection(Rows(u), 1..n)
    BY <1>4, <2>1 DEF Orders
  <2> QED
    BY <2>2, <2>3 DEF Bijection, Injection, Surjection
<1>9. \A i \in B : ~Tied(i) => i \in Rows(u) /\ place[i] = Position(i, u, asc)
  BY <1>0, <1>3, <1>4, <1>5, PlaceOfUntied
<1>10. CASE I = {}
  <2>1. walk' = [walk EXCEPT !.done = TRUE]
    BY <1>4, <1>10
  <2>2. /\ walk' \in Walk /\ walk'.user = u /\ walk'.asc = asc
        /\ walk'.begun = B /\ walk'.seen = S
        /\ walk'.page = walk.page /\ walk'.limit = walk.limit
    BY <1>0, <1>2, <2>1 DEF Walk
  <2>3. n <= s
    <3> SUFFICES ASSUME n > s PROVE FALSE
      BY <1>3
    <3>1. PICK i \in Rows(u) : place[i] = s + 1
      BY <1>3, <1>8
    <3> QED
      BY <1>3, <1>4, <1>10, <3>1
  <2>4. \A i \in B : i \in S \/ Tied(i)
    BY <1>3, <1>5, <1>8, <1>9, <2>3
  <2>5. WalkInv'
    BY <1>1, <1>5, <1>6, <2>2, <2>4 DEF WalkInv
  <2> QED
    BY <1>1, <2>2, <2>5 DEF IInv
<1>11. CASE I # {}
  <2>1. walk' = [walk EXCEPT !.page = walk.page + 1, !.seen = S \cup I]
    BY <1>4, <1>11
  <2>2. walk.page + 1 \in 1..(MaxNotes + 1)
    BY <1>3, <1>4, <1>7, <1>8, <1>11
  <2>3. S \cup I \subseteq Ids
    BY <1>3, <1>4, <1>7
  <2>4. /\ walk' \in Walk /\ walk'.user = u /\ walk'.asc = asc
        /\ walk'.begun = B /\ walk'.seen = S \cup I
        /\ walk'.page = walk.page + 1 /\ walk'.limit = walk.limit
        /\ ~walk'.done
    BY <1>0, <1>2, <2>1, <2>2, <2>3 DEF Walk
  <2>5. Skip(walk)' = s + l
    BY <1>3, <2>4 DEF Skip
  <2>6. \A i \in B : Position(i, u, asc) <= s + l => i \in S \cup I \/ Tied(i)
    BY <1>3, <1>4, <1>5, <1>7, <1>9
  <2>7. WalkInv'
    BY <1>1, <1>5, <1>6, <2>4, <2>5, <2>6 DEF WalkInv
  <2> QED
    BY <1>1, <2>4, <2>7 DEF IInv
<1> QED
  BY <1>10, <1>11

-----------------------------------------------------------------------------
(* The theorems on notifications *)

\* The initial states satisfy the inductive invariant.
LEMMA InitIInv == Init => IInv
<1> SUFFICES ASSUME Init PROVE IInv
  OBVIOUS
<1>1. /\ note = <<>> /\ events = {} /\ walk = Null /\ reads = 0
      /\ failed = {} /\ tangled = {} /\ faults = 0
      /\ \A p \in Procs : op[p] = Null
      /\ \A u \in Users : shown[u] = {} /\ badge[u] = Null
  BY DEF Init
<1>2. note \in Seq(Note) /\ Len(note) = 0
  BY <1>1
<1>3. TypeOK
  BY <1>1, <1>2, NotificationsAssumption DEF Init, TypeOK
<1>4. OpInv /\ PushedReadIsRead /\ WalkInv
  BY <1>1 DEF OpInv, PushedReadIsRead, WalkInv
<1>5. \A u : Rows(u) = {}
  BY <1>2 DEF Rows
<1>6. \A u \in Users : Alone(u) /\ OpCounts(u) /\ EventCounts(u) /\ Shown(u)
  BY <1>1, <1>5 DEF Alone, OpCounts, EventCounts, Shown, Of
<1> QED
  BY <1>3, <1>4, <1>6 DEF IInv, BadgeInv

\* Every step preserves the inductive invariant.
LEMMA NextIInv == IInv /\ [Next]_vars => IInv'
<1> SUFFICES ASSUME IInv, [Next]_vars PROVE IInv'
  OBVIOUS
<1>1. CASE UNCHANGED vars
  <2>1. /\ UNCHANGED <<note, op, events, pushed, reads, failed, tangled, faults>>
        /\ walk' = walk /\ TypeOK /\ WalkInv
    BY <1>1 DEF vars, pushed, IInv
  <2>2. /\ OpInv' /\ PushedReadIsRead' /\ BadgeInv' /\ TypeOK'
        /\ \A u : Rows(u)' = Rows(u)
    BY <2>1, OnlyReads DEF TypeOK
  <2>3. WalkInv'
    BY <2>1, WalkSame
  <2> QED
    BY <2>2, <2>3 DEF IInv
<1>2. ASSUME NEW p \in Procs, NEW u \in Users, NEW at \in Moments,
             CreateNoti(p, u, at)
      PROVE  IInv'
  BY <1>2, CreateInv
<1>3. ASSUME NEW p \in Procs, NEW u \in Users, NEW ws \in BOOLEAN,
             ReadAll(p, u, ws) \/ \E i \in Ids : Read(p, u, i, ws)
      PROVE  IInv'
  BY <1>3, ReadInv
<1>4. ASSUME NEW p \in Procs,
             \/ CreateCount(p) \/ Publish(p) \/ MarkReadFind(p)
             \/ MarkReadUpdate(p) \/ ReadAllUpdate(p) \/ UnreadCount(p)
             \/ ServiceError(p) \/ Timeout(p) \/ PushRead(p) \/ PushReadAll(p)
      PROVE  IInv'
  BY <1>4, CountInv, PublishInv, MarkReadFindInv, MarkInv, FaultInv, PushInv
<1>5. ASSUME NEW e \in events, PushNew(e) PROVE IInv'
  BY <1>5, PushNewInv
<1>6. ASSUME NEW u \in Users, NEW asc \in BOOLEAN, NEW raw \in Limits,
             WalkStart(u, asc, raw)
      PROVE  IInv'
  BY <1>6, WalkStartInv
<1>7. CASE WalkPage
  BY <1>7, WalkPageInv
<1> QED
  BY <1>1, <1>2, <1>3, <1>4, <1>5, <1>6, <1>7 DEF Next

\* The invariant holds in every reachable state.
THEOREM Inductive == Spec => []IInv
  BY InitIInv, NextIInv, PTL DEF Spec

\* Type correctness: rows, counts, deliveries left and pages stay within their
\* bounds.
THEOREM TypeCorrect == Spec => []TypeOK
<1>1. IInv => TypeOK
  BY DEF IInv
<1> QED
  BY <1>1, Inductive, PTL

\* The gateway pushes a notification as read only if it is, or if the call
\* failed whose status it does not look at, however requests overlap.
THEOREM PushedReadsAreRead == Spec => []PushedReadIsRead
<1>1. IInv => PushedReadIsRead
  BY DEF IInv
<1> QED
  BY <1>1, Inductive, PTL

\* The badge of a user whose requests did not overlap or fail settles on the
\* number of unread rows, whatever other users do.
THEOREM BadgesSettle == Spec => []BadgeSettles
<1>1. IInv => BadgeSettles
  BY DEF IInv, BadgeInv, BadgeSettles, Shown, UnreadOf
<1> QED
  BY <1>1, Inductive, PTL

\* A reader of the list ordered by createdAt misses no row that was there when
\* it began and has a millisecond of its own, for any page size and however
\* many rows are added meanwhile, with whatever createdAt.
THEOREM WalksAreComplete == Spec => []WalkComplete
<1>1. IInv => WalkComplete
  BY DEF IInv, WalkInv, WalkComplete
<1> QED
  BY <1>1, Inductive, PTL

\* The step behind OwnRowsOnly.
OwnRowStep ==
  \A i \in 1..Len(note) :
    note'[i] # note[i] => \E p \in Procs : /\ op[p] # Null
                                           /\ op[p].user = note[i].user
                                           /\ op[p] # op'[p]

\* A marked row belongs to the user of the request that marks it.
LEMMA MarkOwnRow ==
  ASSUME TypeOK, OpInv, NEW p \in Procs, MarkReadUpdate(p) \/ ReadAllUpdate(p)
  PROVE  OwnRowStep
<1>1. PICK u, i : u = op[p].user /\ i = op[p].id
  OBVIOUS
<1>2. op[p] # Null /\ op[p].pc \in {"update", "all"}
  BY DEF MarkReadUpdate, ReadAllUpdate, At
<1>3. u \in Users /\ (op[p].pc = "update" => i \in Rows(u))
  BY <1>1, <1>2, OpTypes DEF OpInv, Knows
<1>4. PICK l \in {"count", "pushAll"} : Answered(p, l)
  BY DEF MarkReadUpdate, ReadAllUpdate
<1>5. op'[p] # op[p]
  <2>1. l \in Labels
    BY DEF Labels
  <2>2. op'[p] = Null \/ op'[p].pc = l
    BY <1>2, <1>4, <2>1, WasAnswered
  <2> QED
    BY <1>2, <2>2
<1>6. \A j \in 1..Len(note) : note'[j] # note[j] => j \in Rows(u)
  <2>1. CASE MarkReadUpdate(p)
    <3>1. note' = [note EXCEPT ![i].readAt = reads] /\ i \in 1..Len(note)
      BY <1>1, <1>3, <2>1 DEF MarkReadUpdate, At, Rows
    <3>2. Marked({i})
      BY <3>1, MarkOne
    <3> QED
      BY <1>1, <1>3, <2>1, <3>2 DEF Marked, MarkReadUpdate, At
  <2>2. CASE ReadAllUpdate(p)
    <3>1. Marked(Unread(u))
      BY <1>1, <1>3, <2>2, MarkAll DEF ReadAllUpdate
    <3> QED
      BY <3>1 DEF Marked, Unread
  <2> QED
    BY <2>1, <2>2
<1> QED
  BY <1>1, <1>2, <1>5, <1>6 DEF OwnRowStep, Rows

\* Whatever id a client sends, only a request of the row's own user that is
\* under way changes the row.
THEOREM OwnRows == Spec => OwnRowsOnly
<1>1. IInv /\ [Next]_vars => [OwnRowStep]_vars
  <2> SUFFICES ASSUME IInv, Next PROVE OwnRowStep
    OBVIOUS
  <2>1. TypeOK /\ OpInv
    BY DEF IInv
  <2>2. CASE note' = note
    BY <2>2 DEF OwnRowStep
  <2>3. ASSUME NEW p \in Procs, NEW u \in Users, NEW at \in Moments,
               CreateNoti(p, u, at)
        PROVE  OwnRowStep
    <3>1. /\ Len(note) < MaxNotes
          /\ note' = Append(note, [user |-> u, createdAt |-> at, readAt |-> 0])
      BY <2>3 DEF CreateNoti
    <3>2. \A i \in 1..Len(note) : note'[i] = note[i]
      BY <2>1, <3>1, CreatedRows
    <3> QED
      BY <3>2 DEF OwnRowStep
  <2>4. ASSUME NEW p \in Procs, MarkReadUpdate(p) \/ ReadAllUpdate(p)
        PROVE  OwnRowStep
    BY <2>1, <2>4, MarkOwnRow
  <2> QED
    BY <2>2, <2>3, <2>4 DEF Next, ReadAll, Read, CreateCount, Publish,
       MarkReadFind, UnreadCount, ServiceError, Timeout, PushRead, PushReadAll,
       PushNew, WalkStart, WalkPage
<1> QED
  BY <1>1, Inductive, PTL DEF Spec, OwnRowsOnly, OwnRowStep

-----------------------------------------------------------------------------
(* The mail queue *)

\* The worker holds j and the mail of this attempt may still go out.
Unprocessed(j) == current = j /\ outcome = "none"

\* The attempt under way has neither been counted nor put back: its worker
\* died or lost the lock, so that it will end as a stall.
Orphaned(j) == job[j].state = "active" /\ ~(current = j /\ job[j].locked)

\* A lock belongs to an active job, the job of the worker is active or was
\* put back under it, and outcomes are those of the job it holds.
WorkerInv ==
  /\ \A j \in Jobs : job[j].locked => job[j].state = "active"
  /\ current # NoJob => job[current].state \in {"active", "wait"}
  /\ current = NoJob => outcome = "none"
  /\ outcome = "returned" => mails[current] > 0
  /\ outcome = "deferred" => DeferredFailure(current)

\* Jobs that are not settled have attempts left.
AttemptsInv ==
  \A j \in Jobs : job[j].state \notin {"completed", "failed"} =>
                    job[j].attemptsMade < Attempts

\* Every stall is paid for by a crash or a lost lock.
StallInv ==
  \A j \in Jobs :
    job[j].stalled + (IF Orphaned(j) THEN 1 ELSE 0) <= crashes

\* A job is processed only when it has not stalled too often; the stalled
\* check may put it back meanwhile.
TolerableInv ==
  \A j \in Jobs :
    Unprocessed(j) =>
      job[j].stalled <= MaxStalled + (IF job[j].state = "wait" THEN 1 ELSE 0)

\* Every mail is accounted for by an attempt that was counted, by a stall, or
\* by the attempt under way; one that is still to go out is not counted yet.
MailInv ==
  \A j \in Jobs :
    job[j].state \notin {"completed", "failed"} =>
      mails[j] + (IF Unprocessed(j) THEN 1 ELSE 0)
        <= job[j].attemptsMade + job[j].stalled
             + (IF job[j].state = "active" THEN 1 ELSE 0)

\* Listeners wait for, and mail-dlq has, failed jobs only.
DeadInv == \A j \in adding \cup dlq : job[j].state = "failed"

\* The inductive invariant.
QueueInv ==
  /\ JobsTypeOK /\ WorkerInv /\ AttemptsInv /\ StallInv /\ TolerableInv
  /\ MailInv /\ DeadInv /\ MailsBounded /\ FailedIsDeadLettered

\* The initial states satisfy the inductive invariant.
LEMMA InitQueueInv == JobsInit => QueueInv
  BY MailJobsAssumption DEF JobsInit, QueueInv, JobsTypeOK, Job, WorkerInv,
     AttemptsInv, StallInv, TolerableInv, MailInv, DeadInv, MailsBounded,
     FailedIsDeadLettered, Unprocessed, Orphaned

\* Every step preserves the inductive invariant.
LEMMA NextQueueInv ==
  QueueInv /\ [JobsNext]_jobVars => QueueInv'
<1> SUFFICES ASSUME QueueInv, [JobsNext]_jobVars PROVE QueueInv'
  OBVIOUS
<1>0. /\ Attempts \in Nat \ {0} /\ MaxStalled \in Nat
      /\ MaxCrashes \in Nat /\ MaxDlqFaults \in Nat
      /\ NoJob \notin Jobs
  BY MailJobsAssumption
<1> USE <1>0
<1>1. ASSUME NEW j \in Jobs, Add(j) PROVE QueueInv'
  <2>1. JobsTypeOK'
    BY <1>1 DEF Add, QueueInv, JobsTypeOK, Job
  <2>2. WorkerInv' /\ AttemptsInv'
    BY <1>1 DEF Add, QueueInv, JobsTypeOK, Job, WorkerInv, AttemptsInv,
       DeferredFailure
  <2>3. StallInv' /\ TolerableInv'
    BY <1>1 DEF Add, QueueInv, JobsTypeOK, Job, WorkerInv, StallInv, TolerableInv,
       Unprocessed, Orphaned, DeferredFailure
  <2>4. MailInv' /\ MailsBounded'
    BY <1>1 DEF Add, QueueInv, JobsTypeOK, Job, WorkerInv, TolerableInv, MailInv,
       MailsBounded, Unprocessed, DeferredFailure
  <2>5. DeadInv' /\ FailedIsDeadLettered'
    BY <1>1 DEF Add, QueueInv, JobsTypeOK, Job, WorkerInv, DeadInv,
       FailedIsDeadLettered, DeferredFailure
  <2> QED BY <2>1, <2>2, <2>3, <2>4, <2>5 DEF QueueInv
<1>2. ASSUME NEW j \in Jobs, Take(j) PROVE QueueInv'
  <2>1. JobsTypeOK'
    BY <1>2 DEF Take, QueueInv, JobsTypeOK, Job
  <2>2. WorkerInv' /\ AttemptsInv'
    BY <1>2 DEF Take, QueueInv, JobsTypeOK, Job, WorkerInv, AttemptsInv
  <2>3. StallInv' /\ TolerableInv'
    BY <1>2 DEF Take, QueueInv, JobsTypeOK, Job, WorkerInv, StallInv, TolerableInv,
       DeferredFailure
  <2>4. MailInv' /\ MailsBounded'
    BY <1>2 DEF Take, QueueInv, JobsTypeOK, Job, WorkerInv, TolerableInv, MailInv,
       MailsBounded, Unprocessed, DeferredFailure
  <2>5. DeadInv' /\ FailedIsDeadLettered'
    BY <1>2 DEF Take, QueueInv, JobsTypeOK, Job, WorkerInv, DeadInv,
       FailedIsDeadLettered, DeferredFailure
  <2> QED BY <2>1, <2>2, <2>3, <2>4, <2>5 DEF QueueInv
<1>3. ASSUME NEW j \in Jobs, BackoffElapsed(j) PROVE QueueInv'
  <2>1. JobsTypeOK'
    BY <1>3 DEF BackoffElapsed, QueueInv, JobsTypeOK, Job
  <2>2. WorkerInv' /\ AttemptsInv'
    BY <1>3 DEF BackoffElapsed, QueueInv, JobsTypeOK, Job, WorkerInv, AttemptsInv,
       DeferredFailure
  <2>3. StallInv' /\ TolerableInv'
    BY <1>3 DEF BackoffElapsed, QueueInv, JobsTypeOK, Job, WorkerInv, StallInv,
       TolerableInv, Unprocessed, Orphaned, DeferredFailure
  <2>4. MailInv' /\ MailsBounded'
    BY <1>3 DEF BackoffElapsed, QueueInv, JobsTypeOK, Job, WorkerInv,
       TolerableInv, MailInv, MailsBounded, Unprocessed, DeferredFailure
  <2>5. DeadInv' /\ FailedIsDeadLettered'
    BY <1>3 DEF BackoffElapsed, QueueInv, JobsTypeOK, Job, WorkerInv, DeadInv,
       FailedIsDeadLettered, DeferredFailure
  <2> QED BY <2>1, <2>2, <2>3, <2>4, <2>5 DEF QueueInv
<1>4. ASSUME NEW j \in Jobs, LockExpires(j) PROVE QueueInv'
  <2>1. JobsTypeOK'
    <3>1. crashes' \in 0..MaxCrashes
      BY <1>4 DEF LockExpires, QueueInv, JobsTypeOK
    <3>2. job' \in [Jobs -> Job]
      BY <1>4 DEF LockExpires, QueueInv, JobsTypeOK, Job
    <3> QED BY <1>4, <3>1, <3>2 DEF LockExpires, QueueInv, JobsTypeOK
  <2>2. WorkerInv' /\ AttemptsInv'
    BY <1>4 DEF LockExpires, QueueInv, JobsTypeOK, Job, WorkerInv, AttemptsInv,
       DeferredFailure
  <2>3. StallInv' /\ TolerableInv'
    BY <1>4 DEF LockExpires, QueueInv, JobsTypeOK, Job, WorkerInv, StallInv,
       TolerableInv, Unprocessed, Orphaned, DeferredFailure
  <2>4. MailInv' /\ MailsBounded'
    BY <1>4 DEF LockExpires, QueueInv, JobsTypeOK, Job, WorkerInv,
       TolerableInv, MailInv, MailsBounded, Unprocessed, DeferredFailure
  <2>5. DeadInv' /\ FailedIsDeadLettered'
    BY <1>4 DEF LockExpires, QueueInv, JobsTypeOK, Job, WorkerInv, DeadInv,
       FailedIsDeadLettered, DeferredFailure
  <2> QED BY <2>1, <2>2, <2>3, <2>4, <2>5 DEF QueueInv
<1>5. ASSUME NEW j \in Jobs, StalledCheck(j) PROVE QueueInv'
  <2>1. JobsTypeOK'
    BY <1>5 DEF StalledCheck, QueueInv, JobsTypeOK, Job
  <2>2. WorkerInv' /\ AttemptsInv'
    BY <1>5 DEF StalledCheck, QueueInv, JobsTypeOK, Job, WorkerInv, AttemptsInv
  <2>3. StallInv' /\ TolerableInv'
    BY <1>5 DEF StalledCheck, QueueInv, JobsTypeOK, Job, WorkerInv, StallInv,
       TolerableInv, DeferredFailure
  <2>4. MailInv' /\ MailsBounded'
    BY <1>5 DEF StalledCheck, QueueInv, JobsTypeOK, Job, WorkerInv,
       TolerableInv, MailInv, MailsBounded, Unprocessed, DeferredFailure
  <2>5. DeadInv' /\ FailedIsDeadLettered'
    BY <1>5 DEF StalledCheck, QueueInv, JobsTypeOK, Job, WorkerInv, DeadInv,
       FailedIsDeadLettered, DeferredFailure
  <2> QED BY <2>1, <2>2, <2>3, <2>4, <2>5 DEF QueueInv
<1>6. ASSUME NEW j \in Jobs, AddToDlq(j) PROVE QueueInv'
  <2>1. JobsTypeOK'
    BY <1>6 DEF AddToDlq, QueueInv, JobsTypeOK
  <2>2. WorkerInv' /\ AttemptsInv'
    BY <1>6 DEF AddToDlq, QueueInv, JobsTypeOK, Job, WorkerInv, AttemptsInv,
       DeferredFailure
  <2>3. StallInv' /\ TolerableInv'
    BY <1>6 DEF AddToDlq, QueueInv, JobsTypeOK, Job, WorkerInv, StallInv,
       TolerableInv, Unprocessed, Orphaned, DeferredFailure
  <2>4. MailInv' /\ MailsBounded'
    BY <1>6 DEF AddToDlq, QueueInv, JobsTypeOK, Job, WorkerInv, TolerableInv,
       MailInv, MailsBounded, Unprocessed, DeferredFailure
  <2>5. DeadInv' /\ FailedIsDeadLettered'
    BY <1>6 DEF AddToDlq, QueueInv, JobsTypeOK, Job, WorkerInv, DeadInv,
       FailedIsDeadLettered, DeferredFailure
  <2> QED BY <2>1, <2>2, <2>3, <2>4, <2>5 DEF QueueInv
<1>7. ASSUME Process PROVE QueueInv'
  <2>1. JobsTypeOK'
    BY <1>7 DEF Process, QueueInv, JobsTypeOK
  <2>2. WorkerInv' /\ AttemptsInv'
    BY <1>7 DEF Process, QueueInv, JobsTypeOK, Job, WorkerInv, AttemptsInv
  <2>3. StallInv' /\ TolerableInv'
    BY <1>7 DEF Process, QueueInv, JobsTypeOK, Job, WorkerInv, StallInv,
       TolerableInv, Unprocessed, Orphaned, DeferredFailure
  <2>4. MailInv' /\ MailsBounded'
    BY <1>7 DEF Process, QueueInv, JobsTypeOK, Job, WorkerInv, AttemptsInv,
       TolerableInv, MailInv, MailsBounded, Unprocessed, DeferredFailure
  <2>5. DeadInv' /\ FailedIsDeadLettered'
    BY <1>7 DEF Process, QueueInv, JobsTypeOK, Job, WorkerInv, DeadInv,
       FailedIsDeadLettered, DeferredFailure
  <2> QED BY <2>1, <2>2, <2>3, <2>4, <2>5 DEF QueueInv
<1>8. ASSUME Complete PROVE QueueInv'
  <2>1. JobsTypeOK'
    BY <1>8 DEF Complete, QueueInv, JobsTypeOK, Job, WorkerInv
  <2>2. WorkerInv' /\ AttemptsInv'
    BY <1>8 DEF Complete, QueueInv, JobsTypeOK, Job, WorkerInv, AttemptsInv
  <2>3. StallInv' /\ TolerableInv'
    BY <1>8 DEF Complete, QueueInv, JobsTypeOK, Job, WorkerInv, StallInv,
       TolerableInv, DeferredFailure
  <2>4. MailInv' /\ MailsBounded'
    BY <1>8 DEF Complete, QueueInv, JobsTypeOK, Job, WorkerInv, TolerableInv,
       MailInv, MailsBounded, Unprocessed, DeferredFailure
  <2>5. DeadInv' /\ FailedIsDeadLettered'
    BY <1>8 DEF Complete, QueueInv, JobsTypeOK, Job, WorkerInv, DeadInv,
       FailedIsDeadLettered, DeferredFailure
  <2> QED BY <2>1, <2>2, <2>3, <2>4, <2>5 DEF QueueInv
<1>9. ASSUME Fail PROVE QueueInv'
  <2>1. JobsTypeOK'
    BY <1>9 DEF Fail, QueueInv, JobsTypeOK, Job, WorkerInv
  <2>2. WorkerInv' /\ AttemptsInv'
    BY <1>9 DEF Fail, OnFailed, QueueInv, JobsTypeOK, Job, WorkerInv,
       AttemptsInv
  <2>3. StallInv' /\ TolerableInv'
    BY <1>9 DEF Fail, OnFailed, QueueInv, JobsTypeOK, Job, WorkerInv, StallInv,
       TolerableInv, DeferredFailure
  <2>4. MailInv' /\ MailsBounded'
    BY <1>9 DEF Fail, OnFailed, QueueInv, JobsTypeOK, Job, WorkerInv,
       TolerableInv, MailInv, MailsBounded, Unprocessed, DeferredFailure
  <2>5. DeadInv' /\ FailedIsDeadLettered'
    BY <1>9 DEF Fail, OnFailed, QueueInv, JobsTypeOK, Job, WorkerInv, DeadInv,
       FailedIsDeadLettered, DeferredFailure
  <2> QED BY <2>1, <2>2, <2>3, <2>4, <2>5 DEF QueueInv
<1>10. ASSUME LockLost PROVE QueueInv'
  <2>1. JobsTypeOK'
    BY <1>10 DEF LockLost, QueueInv, JobsTypeOK
  <2>2. WorkerInv' /\ AttemptsInv'
    BY <1>10 DEF LockLost, QueueInv, JobsTypeOK, Job, WorkerInv, AttemptsInv
  <2>3. StallInv' /\ TolerableInv'
    BY <1>10 DEF LockLost, QueueInv, JobsTypeOK, Job, WorkerInv, StallInv,
       TolerableInv, Unprocessed, Orphaned, DeferredFailure
  <2>4. MailInv' /\ MailsBounded'
    BY <1>10 DEF LockLost, QueueInv, JobsTypeOK, Job, WorkerInv, TolerableInv,
       MailInv, MailsBounded, Unprocessed, DeferredFailure
  <2>5. DeadInv' /\ FailedIsDeadLettered'
    BY <1>10 DEF LockLost, QueueInv, JobsTypeOK, Job, WorkerInv, DeadInv,
       FailedIsDeadLettered, DeferredFailure
  <2> QED BY <2>1, <2>2, <2>3, <2>4, <2>5 DEF QueueInv
<1>11. ASSUME WorkerRestart PROVE QueueInv'
  <2>1. JobsTypeOK'
    BY <1>11 DEF WorkerRestart, QueueInv, JobsTypeOK
  <2>2. WorkerInv' /\ AttemptsInv'
    BY <1>11 DEF WorkerRestart, QueueInv, JobsTypeOK, Job, WorkerInv, AttemptsInv
  <2>3. StallInv' /\ TolerableInv'
    BY <1>11 DEF WorkerRestart, QueueInv, JobsTypeOK, Job, WorkerInv, StallInv,
       TolerableInv, Unprocessed, DeferredFailure
  <2>4. MailInv' /\ MailsBounded'
    BY <1>11 DEF WorkerRestart, QueueInv, JobsTypeOK, Job, WorkerInv,
       TolerableInv, MailInv, MailsBounded, Unprocessed, DeferredFailure
  <2>5. DeadInv' /\ FailedIsDeadLettered'
    BY <1>11 DEF WorkerRestart, QueueInv, JobsTypeOK, Job, WorkerInv, DeadInv,
       FailedIsDeadLettered, DeferredFailure
  <2> QED BY <2>1, <2>2, <2>3, <2>4, <2>5 DEF QueueInv
<1>12. CASE UNCHANGED jobVars
  BY <1>12 DEF jobVars, QueueInv, JobsTypeOK, WorkerInv, AttemptsInv, StallInv,
     TolerableInv, MailInv, DeadInv, MailsBounded, FailedIsDeadLettered,
     Unprocessed, Orphaned, DeferredFailure
<1> QED
  BY <1>1, <1>2, <1>3, <1>4, <1>5, <1>6, <1>7, <1>8, <1>9, <1>10, <1>11, <1>12
     DEF JobsNext

\* The invariant holds in every reachable state.
THEOREM QueueInductive == JobsSpec => []QueueInv
<1>1. JobsInit => QueueInv
  BY InitQueueInv
<1>2. QueueInv /\ [JobsNext]_jobVars => QueueInv'
  BY NextQueueInv
<1> QED
  BY <1>1, <1>2, PTL DEF JobsSpec

\* Type correctness: attempts and stalls of a job stay within their bounds.
THEOREM QueueTypes == JobsSpec => []JobsTypeOK
<1>1. QueueInv => JobsTypeOK
  BY DEF QueueInv
<1> QED
  BY <1>1, QueueInductive, PTL

\* However often attempts fail, stall or lose their lock, the mail of a job
\* goes out at most once per attempt and tolerated stall.
THEOREM MailsAreBounded == JobsSpec => []MailsBounded
<1>1. QueueInv => MailsBounded
  BY DEF QueueInv
<1> QED
  BY <1>1, QueueInductive, PTL

\* The listener misses no job that used up its attempts, except for faults of
\* mail-dlq and jobs failed for stalling.
THEOREM FailedJobsAreDeadLettered == JobsSpec => []FailedIsDeadLettered
<1>1. QueueInv => FailedIsDeadLettered
  BY DEF QueueInv
<1> QED
  BY <1>1, QueueInductive, PTL

-----------------------------------------------------------------------------
(* The mail queue implements MailQueue *)

\* What the mapping of states says.
LEMMA SeenStates ==
  /\ SeenAs("none") = "none" /\ SeenAs("completed") = "done"
  /\ SeenAs("failed") = "failed"
  /\ \A s \in {"wait", "active", "delayed"} : SeenAs(s) = "queued"
  BY DEF SeenAs

\* The initial state of the queue is that of MailQueue.
LEMMA InitRefines == JobsInit => Abstract!Init
  BY SeenStates DEF JobsInit, Abstract!Init

\* Every step of the queue is one step of MailQueue or none.
LEMMA StepRefines ==
  QueueInv /\ [JobsNext]_jobVars => [Abstract!Next]_Abstract!vars
<1> SUFFICES ASSUME QueueInv, [JobsNext]_jobVars
             PROVE  [Abstract!Next]_Abstract!vars
  OBVIOUS
<1>0. /\ Attempts \in Nat \ {0} /\ MaxStalled \in Nat
      /\ MaxCrashes \in Nat /\ MaxDlqFaults \in Nat
      /\ NoJob \notin Jobs
  BY MailJobsAssumption
<1> USE <1>0, SeenStates
<1>1. ASSUME NEW j \in Jobs, Add(j) PROVE Abstract!Enqueue(j)
  BY <1>1 DEF Add, Abstract!Enqueue, QueueInv, JobsTypeOK, Job
<1>2. ASSUME NEW j \in Jobs,
             Take(j) \/ BackoffElapsed(j) \/ LockExpires(j) \/ StalledCheck(j)
      PROVE UNCHANGED Abstract!vars
  BY <1>2 DEF Take, BackoffElapsed, LockExpires, StalledCheck,
     Abstract!vars, QueueInv, JobsTypeOK, Job
<1>3. ASSUME NEW j \in Jobs, AddToDlq(j)
      PROVE Abstract!DeadLetter(j) \/ UNCHANGED Abstract!vars
  BY <1>3 DEF AddToDlq, Abstract!DeadLetter, Abstract!vars, QueueInv,
     JobsTypeOK, Job, DeadInv
<1>4. CASE Process
  BY <1>4 DEF Process, Abstract!Mail, Abstract!vars, QueueInv, JobsTypeOK,
     Job, WorkerInv, Abstract!Next, Abstract!Work
<1>5. CASE Complete
  BY <1>5 DEF Complete, QueueInv, JobsTypeOK, Job, WorkerInv
<1>6. CASE Fail
  BY <1>6 DEF Fail, QueueInv, JobsTypeOK, Job, WorkerInv
<1>7. CASE LockLost \/ WorkerRestart \/ UNCHANGED jobVars
  BY <1>7 DEF LockLost, WorkerRestart, jobVars, Abstract!vars
<1> QED
  BY <1>1, <1>2, <1>3, <1>4, <1>5, <1>6, <1>7
     DEF JobsNext, Abstract!Next, Abstract!Work

\* The queue, its worker and its listener do what users of the queue rely
\* on: what a job looks like from outside changes only as MailQueue allows.
\* (Safety; that every job is settled in the end is checked by TLC.)
THEOREM Refinement == JobsSpec => Abstract!Spec
<1>1. JobsSpec => []QueueInv
  BY QueueInductive
<1>2. QueueInv /\ [JobsNext]_jobVars => [Abstract!Next]_Abstract!vars
  BY StepRefines
<1> QED
  BY <1>1, <1>2, InitRefines, PTL DEF JobsSpec, Abstract!Spec
=============================================================================
