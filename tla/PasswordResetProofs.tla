------------------------ MODULE PasswordResetProofs ------------------------
(***************************************************************************)
(* Reset codes for any number of users, requests, handlers and faults: a   *)
(* password is set only through a verified code of its own user, a code    *)
(* is confirmed once and used once, and a good code is not refused.        *)
(***************************************************************************)
EXTENDS PasswordReset, TLAPS

\* The handler has read row n.
On(p, n) == op[p] # Null /\ op[p].row = n

\* Tokens drawn have a row, and handlers work on such rows.
RowInv ==
  /\ \A n \in Tokens : IF n <= drawn THEN rows[n] \in Row ELSE rows[n] = Null
  /\ \A p \in Procs : op[p] # Null => op[p].row <= drawn

\* A handler that sets a password found its row used, and rows stay used.
UsedInv ==
  \A p \in Procs :
    op[p] # Null /\ op[p].pc \in {"store", "delete", "revoke"} =>
      rows[op[p].row].used

\* A password was set through a row of its user that had been verified.
OwnInv ==
  \A u \in Users :
    password[u] # Null =>
      /\ password[u] <= drawn
      /\ rows[password[u]].user = u /\ rows[password[u]].used

\* Who gets past delete is the one who deleted the row, and confirms it.
ConfirmInv ==
  /\ \A p, q \in Procs, n \in Tokens :
       At(p, "revoke") /\ On(p, n) /\ At(q, "revoke") /\ On(q, n) => p = q
  /\ \A p \in Procs :
       At(p, "revoke") => rows[op[p].row].gone /\ confirmed[op[p].row] = 0
  /\ \A n \in Tokens :
       /\ confirmed[n] <= 1
       /\ n <= drawn /\ confirmed[n] > 0 => rows[n].gone
       /\ n > drawn => confirmed[n] = 0

\* An undisturbed token has one reset at a time, and once it has set the
\* password its row is gone or about to be deleted.
Resets(p, n) == On(p, n) /\ op[p].pc \in {"store", "delete", "revoke"}

Single(n) ==
  /\ \A p, q \in Procs : Resets(p, n) /\ Resets(q, n) => p = q
  /\ \A p \in Procs : At(p, "store") /\ On(p, n) => stores[n] = 0
  /\ stores[n] > 0 =>
       /\ n <= drawn
       /\ rows[n].gone \/ \E p \in Procs : At(p, "delete") /\ On(p, n)
  /\ stores[n] <= 1

SingleInv == \A n \in Tokens \ disturbed : Single(n)

\* The inductive invariant.
IInv == /\ TypeOK /\ RowInv /\ UsedInv /\ OwnInv /\ ConfirmInv /\ SingleInv
        /\ NoFalseRefusal

\* The bounds are numbers, and Null names nobody.
LEMMA Bounds == MaxTokens \in Nat /\ MaxFaults \in Nat /\ Null \notin Users
  BY PasswordResetAssumption

\* Null is no handler at work either.
LEMMA NullIsNoOp == Null \notin Op
  BY PasswordResetAssumption

\* The initial states satisfy the inductive invariant.
LEMMA InitIInv == Init => IInv
  BY Bounds DEF Init, Mail!Init, IInv, TypeOK, RowInv, UsedInv, OwnInv, ConfirmInv,
     SingleInv, Single, NoFalseRefusal, Tokens, At, On, Resets, Refused

\* The mail queue keeps its types.
LEMMA MailTypes ==
  ASSUME TypeOK, Mail!Work \/ \E n \in Tokens : Mail!Enqueue(n)
  PROVE  /\ status' \in [Tokens -> {"none", "queued", "done", "failed"}]
         /\ mailed' \subseteq Tokens /\ dlq' \subseteq Tokens
  BY DEF TypeOK, Mail!Work, Mail!Enqueue, Mail!Mail, Mail!Finish, Mail!GiveUp,
     Mail!DeadLetter

\* Answers to owners of codes are of their type.
LEMMA ReplyType ==
  ASSUME NEW what \in {"verify", "reset"}, NEW u \in Users, NEW c \in Code,
         NEW ok \in BOOLEAN, Reply(what, u, c, ok)
  PROVE  answer' \in Answer \cup {Null}
  BY DEF Reply, Answer

\* A step that changes the handler of p leaves the others as they are.
LEMMA OpSet ==
  ASSUME TypeOK, NEW p \in Procs, NEW x \in Op \cup {Null},
         op' = [op EXCEPT ![p] = x]
  PROVE  /\ op' \in [Procs -> Op \cup {Null}]
         /\ op'[p] = x
         /\ \A q \in Procs \ {p} : op'[q] = op[q]
  BY DEF TypeOK

\* A handler that goes on keeps its row.
LEMMA GoSets ==
  ASSUME TypeOK, NEW p \in Procs, op[p] # Null,
         NEW l \in {"enqueue", "markUsed", "store", "delete", "revoke"}, Go(p, l)
  PROVE  /\ [pc |-> l, row |-> op[p].row] \in Op
         /\ op' = [op EXCEPT ![p] = [pc |-> l, row |-> op[p].row]]
<1>1. op[p] \in Op /\ op[p] = [pc |-> op[p].pc, row |-> op[p].row]
  BY DEF TypeOK, Op
<1>2. [op[p] EXCEPT !.pc = l] = [pc |-> l, row |-> op[p].row]
  BY <1>1 DEF Op
<1>3. op' = [op EXCEPT ![p] = [op[p] EXCEPT !.pc = l]]
  BY DEF Go
<1> QED BY <1>1, <1>2, <1>3 DEF Op

\* Every step preserves the inductive invariant.
LEMMA NextIInv == IInv /\ [Next]_vars => IInv'
<1> SUFFICES ASSUME IInv, [Next]_vars PROVE IInv'
  OBVIOUS
<1> USE Bounds DEF Tokens
<1>1. ASSUME NEW p \in Procs, NEW u \in Users, CreatePasswordReset(p, u)
      PROVE  IInv'
  <2>1. TypeOK'
    <3>1. rows' \in [Tokens -> Row \cup {Null}]
      BY <1>1 DEF CreatePasswordReset, IInv, TypeOK, Row
    <3>2. op' \in [Procs -> Op \cup {Null}]
      <4>1. drawn + 1 \in Tokens
        BY <1>1 DEF CreatePasswordReset, IInv, TypeOK
      <4> QED BY <1>1, <4>1 DEF CreatePasswordReset, Begin, IInv, TypeOK, Op
    <3>3. drawn' \in 0..MaxTokens
      BY <1>1 DEF CreatePasswordReset, IInv, TypeOK
    <3> QED BY <1>1, <3>1, <3>2, <3>3 DEF CreatePasswordReset, IInv, TypeOK, queue
  <2>2. RowInv'
    BY <1>1 DEF CreatePasswordReset, Begin, IInv, TypeOK, Row, Op, RowInv
  <2>3. UsedInv'
    BY <1>1 DEF CreatePasswordReset, Begin, IInv, TypeOK, Row, Op, At, RowInv,
       UsedInv, Rows
  <2>4. OwnInv'
    BY <1>1 DEF CreatePasswordReset, Begin, IInv, TypeOK, Row, Op, At, RowInv,
       UsedInv, OwnInv, Rows
  <2>5. ConfirmInv'
    BY <1>1 DEF CreatePasswordReset, Begin, IInv, TypeOK, Row, Op, At, On, RowInv,
       ConfirmInv, Rows
  <2>6. SingleInv'
    BY <1>1 DEF CreatePasswordReset, Begin, IInv, TypeOK, Row, Op, At, On, RowInv,
       SingleInv, Single, Resets, Rows
  <2>7. NoFalseRefusal'
    BY <1>1 DEF CreatePasswordReset, Begin, IInv, TypeOK, Row, RowInv,
       NoFalseRefusal, Refused, Rows
  <2> QED BY <2>1, <2>2, <2>3, <2>4, <2>5, <2>6, <2>7 DEF IInv
<1>2. ASSUME NEW p \in Procs, NEW u \in Users, NEW c \in Presentable,
             VerifyFind(p, u, c)
      PROVE  IInv'
  <2>1. c \in Code
    BY DEF Presentable
  <2>2. answer' \in Answer \cup {Null}
    BY <1>2, <2>1, ReplyType DEF VerifyFind
  <2>3. \/ UNCHANGED op
        \/ \E n \in Tokens :
             /\ n <= drawn /\ op[p] = Null
             /\ op' = [op EXCEPT ![p] = [pc |-> "markUsed", row |-> n]]
    BY <1>2 DEF VerifyFind, Begin, Rows, IInv, TypeOK, RowInv
  <2>4. UNCHANGED <<rows, password, drawn, queue, stores, confirmed, disturbed, faults>>
    BY <1>2 DEF VerifyFind
  <2>5. NoFalseRefusal'
    BY <1>2, <2>4 DEF VerifyFind, Reply, IInv, NoFalseRefusal, Refused
  <2>6. CASE UNCHANGED op
    <3>1. TypeOK'
      BY <2>2, <2>4, <2>6 DEF IInv, TypeOK, queue
    <3>2. RowInv' /\ UsedInv' /\ OwnInv'
      BY <2>4, <2>6 DEF IInv, RowInv, UsedInv, OwnInv
    <3>3. ConfirmInv' /\ SingleInv'
      BY <2>4, <2>6 DEF IInv, ConfirmInv, SingleInv, Single, At, On, Resets
    <3> QED BY <2>5, <3>1, <3>2, <3>3 DEF IInv
  <2>7. ASSUME NEW n \in Tokens, n <= drawn, op[p] = Null,
               op' = [op EXCEPT ![p] = [pc |-> "markUsed", row |-> n]]
        PROVE  IInv'
    <3>1. /\ op' \in [Procs -> Op \cup {Null}]
          /\ op'[p] = [pc |-> "markUsed", row |-> n]
          /\ \A q \in Procs \ {p} : op'[q] = op[q]
      BY <2>7, OpSet DEF IInv, Op
    <3>2. TypeOK'
      BY <2>2, <2>4, <3>1 DEF IInv, TypeOK, queue
    <3>3. RowInv' /\ UsedInv' /\ OwnInv'
      BY <2>4, <2>7, <3>1 DEF IInv, RowInv, UsedInv, OwnInv
    <3>4. ConfirmInv'
      BY <2>4, <2>7, <3>1 DEF IInv, ConfirmInv, At, On
    <3>5. SingleInv'
      BY <2>4, <2>7, <3>1 DEF IInv, SingleInv, Single, At, On, Resets
    <3> QED BY <2>5, <3>2, <3>3, <3>4, <3>5 DEF IInv
  <2> QED BY <2>3, <2>6, <2>7
<1>3. ASSUME NEW p \in Procs, NEW u \in Users, NEW c \in Presentable,
             ResetFind(p, u, c)
      PROVE  IInv'
  <2>1. c \in Code
    BY DEF Presentable
  <2>2. answer' \in Answer \cup {Null}
    BY <1>3, <2>1, ReplyType DEF ResetFind
  <2>3. \/ UNCHANGED <<op, disturbed>>
        \/ \E n \in Tokens :
             /\ n <= drawn /\ op[p] = Null /\ rows[n].used /\ ~rows[n].gone
             /\ op' = [op EXCEPT ![p] = [pc |-> "store", row |-> n]]
             /\ disturbed' = IF Resetting(p, n) = {} THEN disturbed
                             ELSE disturbed \cup {n}
    BY <1>3 DEF ResetFind, Begin, Rows, IInv, TypeOK, RowInv
  <2>4. UNCHANGED <<rows, password, drawn, queue, stores, confirmed, faults>>
    BY <1>3 DEF ResetFind
  <2>5. NoFalseRefusal'
    BY <1>3, <2>4 DEF ResetFind, Reply, IInv, NoFalseRefusal, Refused, Rows,
       verifyPassword
  <2>6. CASE UNCHANGED <<op, disturbed>>
    <3>1. TypeOK'
      BY <2>2, <2>4, <2>6 DEF IInv, TypeOK, queue
    <3>2. RowInv' /\ UsedInv' /\ OwnInv'
      BY <2>4, <2>6 DEF IInv, RowInv, UsedInv, OwnInv
    <3>3. ConfirmInv' /\ SingleInv'
      BY <2>4, <2>6 DEF IInv, ConfirmInv, SingleInv, Single, At, On, Resets
    <3> QED BY <2>5, <3>1, <3>2, <3>3 DEF IInv
  <2>7. ASSUME NEW n \in Tokens,
               n <= drawn, op[p] = Null, rows[n].used, ~rows[n].gone,
               op' = [op EXCEPT ![p] = [pc |-> "store", row |-> n]],
               disturbed' = IF Resetting(p, n) = {} THEN disturbed
                            ELSE disturbed \cup {n}
        PROVE  IInv'
    <3>1. /\ op' \in [Procs -> Op \cup {Null}]
          /\ op'[p] = [pc |-> "store", row |-> n]
          /\ \A q \in Procs \ {p} : op'[q] = op[q]
      BY <2>7, OpSet DEF IInv, Op
    <3>2. TypeOK'
      <4>1. disturbed' \subseteq Tokens
        BY <2>7 DEF IInv, TypeOK
      <4> QED BY <2>2, <2>4, <3>1, <4>1 DEF IInv, TypeOK, queue
    <3>3. RowInv' /\ UsedInv' /\ OwnInv'
      BY <2>4, <2>7, <3>1 DEF IInv, RowInv, UsedInv, OwnInv
    <3>4. ConfirmInv'
      BY <2>4, <2>7, <3>1 DEF IInv, ConfirmInv, At, On
    <3>5. SingleInv'
      <4> SUFFICES ASSUME NEW m \in Tokens, m \notin disturbed'
                   PROVE  Single(m)'
        BY DEF SingleInv
      <4>1. m \notin disturbed /\ (m = n => Resetting(p, n) = {})
        BY <2>7
      <4>2. Single(m)
        BY <4>1 DEF IInv, SingleInv
      <4>3. CASE m # n
        BY <2>4, <2>7, <3>1, <4>2, <4>3 DEF Single, At, On, Resets
      <4>4. CASE m = n
        <5>1. \A q \in Procs : ~Resets(q, n)
          BY <2>7, <4>1, <4>4 DEF Resetting, Resets, On
        <5>2. stores[n] = 0
          <6>1. ~\E q \in Procs : At(q, "delete") /\ On(q, n)
            BY <5>1 DEF At, On, Resets
          <6>2. stores[n] \in Nat
            BY DEF IInv, TypeOK
          <6> QED BY <2>7, <4>2, <4>4, <6>1, <6>2 DEF Single
        <5> QED
          BY <2>4, <2>7, <3>1, <4>4, <5>1, <5>2 DEF Single, At, On, Resets
      <4> QED BY <4>3, <4>4
    <3> QED BY <2>5, <3>2, <3>3, <3>4, <3>5 DEF IInv
  <2> QED BY <2>3, <2>6, <2>7
<1>4. ASSUME NEW p \in Procs, SendResetPassword(p)
      PROVE  IInv'
  <2>1. TypeOK'
    BY <1>4, MailTypes DEF SendResetPassword, End, IInv, TypeOK, Op, At
  <2>2. RowInv'
    BY <1>4 DEF SendResetPassword, End, IInv, TypeOK, Op, At, RowInv, Rows
  <2>3. UsedInv'
    BY <1>4 DEF SendResetPassword, End, IInv, TypeOK, Row, Op, At, RowInv, UsedInv, Rows
  <2>4. OwnInv'
    BY <1>4 DEF SendResetPassword, End, IInv, TypeOK, Row, Op, At, RowInv, UsedInv,
       OwnInv, Rows
  <2>5. ConfirmInv'
    BY <1>4 DEF SendResetPassword, End, IInv, TypeOK, Row, Op, At, On, RowInv,
       ConfirmInv, Rows
  <2>6. SingleInv'
    BY <1>4 DEF SendResetPassword, End, IInv, TypeOK, Row, Op, At, On, RowInv,
       SingleInv, Single, Resets, Rows
  <2>7. NoFalseRefusal'
    BY <1>4 DEF SendResetPassword, End, IInv, TypeOK, Row, RowInv, NoFalseRefusal,
       Refused, Rows
  <2> QED BY <2>1, <2>2, <2>3, <2>4, <2>5, <2>6, <2>7 DEF IInv
<1>5. ASSUME NEW p \in Procs, MarkUsed(p)
      PROVE  IInv'
  <2>1. TypeOK'
    <3>1. op[p] \in Op /\ rows[op[p].row] \in Row
      BY <1>5 DEF MarkUsed, At, IInv, TypeOK, RowInv, Op
    <3>2. rows' \in [Tokens -> Row \cup {Null}]
      BY <1>5, <3>1 DEF MarkUsed, IInv, TypeOK, Row, Op
    <3>3. answer' \in Answer \cup {Null}
      BY <1>5, <3>1, ReplyType DEF MarkUsed, Row, Op, Code
    <3> QED BY <1>5, <3>2, <3>3 DEF MarkUsed, End, IInv, TypeOK, queue
  <2>2. RowInv'
    BY <1>5 DEF MarkUsed, End, Code, IInv, TypeOK, Row, Op, At, RowInv
  <2>3. UsedInv'
    BY <1>5 DEF MarkUsed, End, Code, IInv, TypeOK, Row, Op, At, RowInv, UsedInv
  <2>4. OwnInv'
    BY <1>5 DEF MarkUsed, End, Reply, Code, IInv, TypeOK, Row, Op, At, RowInv,
       UsedInv, OwnInv, Rows
  <2>5. ConfirmInv'
    BY <1>5 DEF MarkUsed, End, Reply, Code, IInv, TypeOK, Row, Op, At, On, RowInv,
       ConfirmInv, Rows
  <2>6. SingleInv'
    BY <1>5 DEF MarkUsed, End, Reply, Code, IInv, TypeOK, Row, Op, At, On, RowInv,
       SingleInv, Single, Resets, Rows
  <2>7. NoFalseRefusal'
    BY <1>5 DEF MarkUsed, End, Reply, Code, IInv, TypeOK, Row, RowInv,
       NoFalseRefusal, Refused, Rows
  <2> QED BY <2>1, <2>2, <2>3, <2>4, <2>5, <2>6, <2>7 DEF IInv
<1>6. ASSUME NEW p \in Procs, StorePassword(p)
      PROVE  IInv'
  <2>1. TypeOK'
    <3>1. op[p] \in Op /\ rows[op[p].row] \in Row
      BY <1>6 DEF StorePassword, At, IInv, TypeOK, RowInv, Op
    <3>2. /\ password' \in [Users -> Tokens \cup {Null}]
          /\ stores' \in [Tokens -> Nat]
      BY <1>6, <3>1 DEF StorePassword, IInv, TypeOK, Row, Op
    <3>3. op' \in [Procs -> Op \cup {Null}]
      BY <1>6, GoSets, OpSet DEF StorePassword, At, IInv
    <3> QED BY <1>6, <3>2, <3>3 DEF StorePassword, IInv, TypeOK, queue
  <2>2. RowInv'
    BY <1>6 DEF StorePassword, Go, IInv, TypeOK, At, RowInv
  <2>3. UsedInv'
    BY <1>6 DEF StorePassword, Go, IInv, TypeOK, At, RowInv, UsedInv, Rows
  <2>4. OwnInv'
    BY <1>6 DEF StorePassword, Go, IInv, TypeOK, Row, Op, At, RowInv, UsedInv,
       OwnInv, Rows
  <2>5. ConfirmInv'
    BY <1>6 DEF StorePassword, Go, IInv, TypeOK, Row, Op, At, On, RowInv,
       ConfirmInv, Rows
  <2>6. SingleInv'
    <3>1. op[p] # Null /\ op[p].pc = "store" /\ op[p].row \in Tokens
      BY <1>6 DEF StorePassword, At, IInv, TypeOK, Op
    <3>2. /\ op'[p] = [pc |-> "delete", row |-> op[p].row] /\ op'[p] # Null
          /\ \A q \in Procs \ {p} : op'[q] = op[q]
      <4>1. /\ [pc |-> "delete", row |-> op[p].row] \in Op
            /\ op' = [op EXCEPT ![p] = [pc |-> "delete", row |-> op[p].row]]
        BY <1>6, <3>1, GoSets DEF StorePassword, IInv
      <4> QED BY <4>1, OpSet, NullIsNoOp DEF IInv
    <3>3. /\ stores' = [stores EXCEPT ![op[p].row] = @ + 1]
          /\ UNCHANGED <<rows, drawn, disturbed>>
      BY <1>6 DEF StorePassword
    <3> SUFFICES ASSUME NEW m \in Tokens, m \notin disturbed
                 PROVE  Single(m)'
      BY <3>3 DEF SingleInv
    <3>4. Single(m) /\ stores \in [Tokens -> Nat]
      BY DEF IInv, TypeOK, SingleInv
    <3>5. \A q \in Procs : Resets(q, m)' <=> Resets(q, m)
      BY <3>1, <3>2 DEF Resets, On
    <3>6. CASE m # op[p].row
      <4>1. stores'[m] = stores[m]
        BY <3>3, <3>4, <3>6
      <4> QED BY <3>1, <3>2, <3>3, <3>4, <3>5, <3>6, <4>1 DEF Single, At, On
    <3>7. CASE m = op[p].row
      <4>1. stores[m] = 0 /\ stores'[m] = 1
        BY <3>1, <3>3, <3>4, <3>7 DEF Single, At, On
      <4>2. \A q \in Procs : ~(At(q, "store")' /\ On(q, m)')
        BY <3>1, <3>2, <3>4, <3>7 DEF Single, Resets, At, On
      <4>3. m <= drawn /\ At(p, "delete")' /\ On(p, m)'
        BY <3>1, <3>2, <3>7 DEF IInv, RowInv, At, On
      <4> QED BY <3>3, <3>4, <3>5, <4>1, <4>2, <4>3 DEF Single
    <3> QED BY <3>6, <3>7
  <2>7. NoFalseRefusal'
    BY <1>6 DEF StorePassword, IInv, TypeOK, NoFalseRefusal, Refused
  <2> QED BY <2>1, <2>2, <2>3, <2>4, <2>5, <2>6, <2>7 DEF IInv
<1>7. ASSUME NEW p \in Procs, DeleteRow(p)
      PROVE  IInv'
  <2>1. TypeOK'
    <3>1. op[p] \in Op /\ rows[op[p].row] \in Row
      BY <1>7 DEF DeleteRow, At, IInv, TypeOK, RowInv, Op
    <3>2. rows' \in [Tokens -> Row \cup {Null}]
      BY <1>7, <3>1 DEF DeleteRow, IInv, TypeOK, Row, Op
    <3>3. answer' \in Answer \cup {Null}
      BY <1>7, <3>1, ReplyType DEF DeleteRow, Row, Op, Code
    <3>4. op' \in [Procs -> Op \cup {Null}]
      <4>1. CASE rows[op[p].row].gone
        BY <1>7, <4>1, OpSet DEF DeleteRow, End, IInv
      <4>2. CASE ~rows[op[p].row].gone
        BY <1>7, <4>2, GoSets, OpSet DEF DeleteRow, At, IInv
      <4> QED BY <4>1, <4>2
    <3> QED BY <1>7, <3>2, <3>3, <3>4 DEF DeleteRow, IInv, TypeOK, queue
  <2>2. RowInv'
    BY <1>7 DEF DeleteRow, Go, End, Reply, IInv, TypeOK, Row, Op, At, RowInv, Rows
  <2>3. UsedInv'
    <3>1. \A n \in Tokens : n <= drawn => rows'[n].used = rows[n].used
      BY <1>7 DEF DeleteRow, IInv, TypeOK, RowInv, Row
    <3>2. \A q \in Procs :
            op'[q] # Null /\ op'[q].pc \in {"store", "delete", "revoke"} =>
              /\ op[q] # Null /\ op[q].pc \in {"store", "delete", "revoke"}
              /\ op'[q].row = op[q].row
      <4>1. op[p] # Null /\ op[p].pc = "delete"
        BY <1>7 DEF DeleteRow, At
      <4>2. CASE rows[op[p].row].gone
        <5>1. op'[p] = Null /\ \A q \in Procs \ {p} : op'[q] = op[q]
          BY <1>7, <4>2, OpSet DEF DeleteRow, End, IInv
        <5> QED BY <5>1
      <4>3. CASE ~rows[op[p].row].gone
        <5>1. /\ [pc |-> "revoke", row |-> op[p].row] \in Op
              /\ op' = [op EXCEPT ![p] = [pc |-> "revoke", row |-> op[p].row]]
          BY <1>7, <4>1, <4>3, GoSets DEF DeleteRow, IInv
        <5>2. /\ op'[p] = [pc |-> "revoke", row |-> op[p].row]
              /\ \A q \in Procs \ {p} : op'[q] = op[q]
          BY <5>1, OpSet DEF IInv
        <5> QED BY <4>1, <5>2
      <4> QED BY <4>2, <4>3
    <3>3. \A q \in Procs :
            op[q] # Null => op[q].row \in Tokens /\ op[q].row <= drawn
      BY DEF IInv, TypeOK, RowInv, Op
    <3> QED BY <3>1, <3>2, <3>3 DEF IInv, UsedInv
  <2>4. OwnInv'
    BY <1>7 DEF DeleteRow, IInv, TypeOK, Op, RowInv, UsedInv, OwnInv
  <2>5. ConfirmInv'
    <3>1. /\ op[p] # Null /\ op[p].pc = "delete" /\ op[p].row \in Tokens
          /\ op[p].row <= drawn
          /\ op' = [op EXCEPT ![p] = IF rows[op[p].row].gone THEN Null
                                     ELSE [pc |-> "revoke", row |-> op[p].row]]
          /\ rows' = [rows EXCEPT ![op[p].row].gone = TRUE]
          /\ \A n \in Tokens : n <= drawn =>
                rows'[n].gone = (rows[n].gone \/ n = op[p].row)
          /\ UNCHANGED <<drawn, stores, confirmed, disturbed>>
      BY <1>7 DEF DeleteRow, Go, End, At, IInv, TypeOK, RowInv, Row, Op
    <3>2. \A q \in Procs, n \in Tokens :
            At(q, "revoke")' /\ On(q, n)' =>
              \/ At(q, "revoke") /\ On(q, n)
              \/ q = p /\ n = op[p].row /\ ~rows[n].gone
      BY <3>1 DEF IInv, TypeOK, At, On
    <3> QED BY <3>1, <3>2 DEF IInv, TypeOK, ConfirmInv, At, On
  <2>6. SingleInv'
    <3>1. /\ op[p] # Null /\ op[p].pc = "delete" /\ op[p].row \in Tokens
          /\ op[p].row <= drawn
          /\ op' = [op EXCEPT ![p] = IF rows[op[p].row].gone THEN Null
                                     ELSE [pc |-> "revoke", row |-> op[p].row]]
          /\ rows' = [rows EXCEPT ![op[p].row].gone = TRUE]
          /\ \A n \in Tokens : n <= drawn =>
                rows'[n].gone = (rows[n].gone \/ n = op[p].row)
          /\ UNCHANGED <<drawn, stores, confirmed, disturbed>>
      BY <1>7 DEF DeleteRow, Go, End, At, IInv, TypeOK, RowInv, Row, Op
    <3> SUFFICES ASSUME NEW m \in Tokens, m \notin disturbed
                 PROVE  Single(m)'
      BY <3>1 DEF SingleInv
    <3>2. Single(m)
      BY DEF IInv, SingleInv
    <3>3. \A q \in Procs : Resets(q, m)' => Resets(q, m)
      BY <3>1 DEF IInv, TypeOK, Resets, On
    <3>4. \A q \in Procs :
            At(q, "store")' /\ On(q, m)' => At(q, "store") /\ On(q, m)
      BY <3>1 DEF IInv, TypeOK, At, On
    <3>5. stores[m] > 0 =>
            /\ m <= drawn
            /\ rows'[m].gone \/ \E q \in Procs : At(q, "delete")' /\ On(q, m)'
      BY <3>1, <3>2 DEF IInv, TypeOK, Single, At, On
    <3> QED BY <3>1, <3>2, <3>3, <3>4, <3>5 DEF Single
  <2>7. NoFalseRefusal'
    BY <1>7 DEF DeleteRow, Reply, IInv, TypeOK, NoFalseRefusal, Refused, Rows
  <2> QED BY <2>1, <2>2, <2>3, <2>4, <2>5, <2>6, <2>7 DEF IInv
<1>8. ASSUME NEW p \in Procs, LogoutAllDevices(p)
      PROVE  IInv'
  <2>1. TypeOK'
    <3>1. op[p] \in Op /\ rows[op[p].row] \in Row
      BY <1>8 DEF LogoutAllDevices, At, IInv, TypeOK, RowInv, Op
    <3>2. confirmed' \in [Tokens -> Nat]
      BY <1>8, <3>1 DEF LogoutAllDevices, IInv, TypeOK, Op
    <3>3. answer' \in Answer \cup {Null}
      BY <1>8, <3>1, ReplyType DEF LogoutAllDevices, Row, Op, Code
    <3>4. op' \in [Procs -> Op \cup {Null}]
      BY <1>8, OpSet DEF LogoutAllDevices, End, IInv
    <3> QED BY <1>8, <3>2, <3>3, <3>4 DEF LogoutAllDevices, IInv, TypeOK, queue
  <2>2. RowInv'
    BY <1>8 DEF LogoutAllDevices, End, IInv, TypeOK, RowInv
  <2>3. UsedInv'
    BY <1>8 DEF LogoutAllDevices, End, IInv, TypeOK, RowInv, UsedInv
  <2>4. OwnInv'
    BY <1>8 DEF LogoutAllDevices, End, Reply, Code, IInv, TypeOK, Row, Op, At,
       RowInv, UsedInv, OwnInv, Rows
  <2>5. ConfirmInv'
    BY <1>8 DEF LogoutAllDevices, End, Reply, Code, IInv, TypeOK, Row, Op, At, On,
       RowInv, ConfirmInv, Rows
  <2>6. SingleInv'
    BY <1>8 DEF LogoutAllDevices, End, Reply, Code, IInv, TypeOK, Row, Op, At, On,
       RowInv, SingleInv, Single, Resets, Rows
  <2>7. NoFalseRefusal'
    BY <1>8 DEF LogoutAllDevices, End, Reply, Code, IInv, TypeOK, Row, RowInv,
       NoFalseRefusal, Refused, Rows
  <2> QED BY <2>1, <2>2, <2>3, <2>4, <2>5, <2>6, <2>7 DEF IInv
<1>9. ASSUME NEW p \in Procs, HandlerFails(p)
      PROVE  IInv'
  <2>1. TypeOK'
    BY <1>9, MailTypes DEF HandlerFails, End, IInv, TypeOK, Row, Op, Answer, RowInv,
       queue
  <2>2. RowInv'
    BY <1>9 DEF HandlerFails, End, IInv, TypeOK, Row, Op, At, RowInv, Rows
  <2>3. UsedInv'
    BY <1>9 DEF HandlerFails, End, IInv, TypeOK, Row, Op, At, RowInv, UsedInv, Rows
  <2>4. OwnInv'
    BY <1>9 DEF HandlerFails, End, IInv, TypeOK, Row, Op, At, RowInv, UsedInv,
       OwnInv, Rows
  <2>5. ConfirmInv'
    BY <1>9 DEF HandlerFails, End, IInv, TypeOK, Row, Op, At, On, RowInv,
       ConfirmInv, Rows
  <2>6. SingleInv'
    BY <1>9 DEF HandlerFails, End, IInv, TypeOK, Row, Op, At, On, RowInv, SingleInv,
       Single, Resets, Rows
  <2>7. NoFalseRefusal'
    BY <1>9 DEF HandlerFails, End, IInv, TypeOK, Row, RowInv, NoFalseRefusal,
       Refused, Rows
  <2> QED BY <2>1, <2>2, <2>3, <2>4, <2>5, <2>6, <2>7 DEF IInv
<1>10. ASSUME NEW n \in Tokens, Expire(n)
      PROVE  IInv'
  <2>1. TypeOK'
    BY <1>10, MailTypes DEF Expire, IInv, TypeOK, Row, RowInv, queue
  <2>2. RowInv'
    BY <1>10 DEF Expire, IInv, TypeOK, Row, At, RowInv, Rows
  <2>3. UsedInv'
    BY <1>10 DEF Expire, IInv, TypeOK, Row, Op, At, RowInv, UsedInv, Rows
  <2>4. OwnInv'
    BY <1>10 DEF Expire, IInv, TypeOK, Row, Op, At, RowInv, UsedInv, OwnInv, Rows
  <2>5. ConfirmInv'
    BY <1>10 DEF Expire, IInv, TypeOK, Row, Op, At, On, RowInv, ConfirmInv, Rows
  <2>6. SingleInv'
    BY <1>10 DEF Expire, IInv, TypeOK, Row, Op, At, On, RowInv, SingleInv, Single,
       Resets, Rows
  <2>7. NoFalseRefusal'
    BY <1>10 DEF Expire, IInv, TypeOK, Row, RowInv, NoFalseRefusal, Refused, Rows
  <2> QED BY <2>1, <2>2, <2>3, <2>4, <2>5, <2>6, <2>7 DEF IInv
<1>11. ASSUME QueueStep
      PROVE  IInv'
  <2>1. TypeOK'
    BY <1>11, MailTypes DEF QueueStep, IInv, TypeOK, queue, Rows
  <2>2. RowInv'
    BY <1>11 DEF QueueStep, IInv, TypeOK, RowInv, Rows
  <2>3. UsedInv'
    BY <1>11 DEF QueueStep, IInv, TypeOK, Row, Op, At, RowInv, UsedInv, Rows
  <2>4. OwnInv'
    BY <1>11 DEF QueueStep, IInv, TypeOK, Row, Op, At, RowInv, UsedInv, OwnInv, Rows
  <2>5. ConfirmInv'
    BY <1>11 DEF QueueStep, IInv, TypeOK, Row, Op, At, On, RowInv, ConfirmInv, Rows
  <2>6. SingleInv'
    BY <1>11 DEF QueueStep, IInv, TypeOK, Row, Op, At, On, RowInv, SingleInv,
       Single, Resets, Rows
  <2>7. NoFalseRefusal'
    BY <1>11 DEF QueueStep, IInv, TypeOK, Row, RowInv, NoFalseRefusal, Refused, Rows
  <2> QED BY <2>1, <2>2, <2>3, <2>4, <2>5, <2>6, <2>7 DEF IInv
<1>12. ASSUME UNCHANGED vars
      PROVE  IInv'
  <2>1. TypeOK'
    BY <1>12, MailTypes DEF vars, IInv, TypeOK, queue, Rows
  <2>2. RowInv'
    BY <1>12 DEF vars, IInv, TypeOK, RowInv, Rows
  <2>3. UsedInv'
    BY <1>12 DEF vars, IInv, TypeOK, Row, Op, At, RowInv, UsedInv, Rows
  <2>4. OwnInv'
    BY <1>12 DEF vars, IInv, TypeOK, Row, Op, At, RowInv, UsedInv, OwnInv, Rows
  <2>5. ConfirmInv'
    BY <1>12 DEF vars, IInv, TypeOK, Row, Op, At, On, RowInv, ConfirmInv, Rows
  <2>6. SingleInv'
    BY <1>12 DEF vars, IInv, TypeOK, Row, Op, At, On, RowInv, SingleInv, Single,
       Resets, Rows
  <2>7. NoFalseRefusal'
    BY <1>12 DEF vars, IInv, TypeOK, Row, RowInv, NoFalseRefusal, Refused, Rows
  <2> QED BY <2>1, <2>2, <2>3, <2>4, <2>5, <2>6, <2>7 DEF IInv
<1> QED
  BY <1>1, <1>2, <1>3, <1>4, <1>5, <1>6, <1>7, <1>8, <1>9, <1>10, <1>11, <1>12 DEF Next


\* In every reachable state the inductive invariant holds.
THEOREM Inductive == Spec => []IInv
  BY InitIInv, NextIInv, PTL DEF Spec

\* The rows, the handlers and the counters keep their types.
THEOREM TypeCorrect == Spec => []TypeOK
<1>1. IInv => TypeOK
  BY DEF IInv
<1> QED BY <1>1, Inductive, PTL

\* Whatever codes are presented for whatever address, and however the
\* handlers interleave, resetPassword stores a password only through a row of
\* that same user that verifyPasswordReset has marked used.
THEOREM VerifiedCodesSetPasswords == Spec => []OnlyVerifiedOwnCode
<1>1. IInv => OnlyVerifiedOwnCode
  BY DEF IInv, OwnInv, OnlyVerifiedOwnCode
<1> QED BY <1>1, Inductive, PTL

\* The client is told of a reset through one code at most once: the delete of
\* the row lets one of several resetPassword handlers through.
THEOREM OneConfirmationPerCode == Spec => []OneConfirmation
<1>1. IInv => OneConfirmation
  BY DEF IInv, ConfirmInv, OneConfirmation
<1> QED BY <1>1, Inductive, PTL

\* A code that no fault and no second resetPassword meets sets the password
\* once.
THEOREM CodesAreSingleUse == Spec => []SingleUse
<1>1. IInv => SingleUse
  BY DEF IInv, SingleInv, Single, SingleUse
<1> QED BY <1>1, Inductive, PTL

\* resetPassword refuses a verified code that is neither consumed nor expired
\* only when the findFirst of the user's used rows can return another row.
THEOREM VerifiedCodesAreAccepted == Spec => []NoFalseRefusal
<1>1. IInv => NoFalseRefusal
  BY DEF IInv
<1> QED BY <1>1, Inductive, PTL

=============================================================================
