--------------------------- MODULE SessionsProofs ---------------------------
(***************************************************************************)
(* Sessions for any number of users, devices, requests and rows: on a      *)
(* device whose requests never overlapped there is one row, the cookie is  *)
(* its token, a refresh is not refused for nothing, and no session         *)
(* outlives the password reset that ended it.                              *)
(***************************************************************************)
EXTENDS Sessions, FiniteSetTheorems, TLAPS

Saving == {"saveFind", "saveWrite"}
Asking == {"refreshFind", "logoutFind", "logoutRevoke", "logoutAll"}

\* What a request knows of itself: whose it is, and the row it has found.
OpOk(p) ==
  /\ op[p].pc \in {"idle", "resetRevoke"} => op[p].device = Null
  /\ op[p].pc # "idle" => op[p].user \in Users
  /\ op[p].pc \notin {"idle", "resetRevoke"} => op[p].device \in used
  /\ op[p].pc = "refreshFind" => op[p].old \in Token /\ op[p].old.sub = op[p].user
  /\ op[p].pc = "loginRead" => op[p].old = Null
  /\ op[p].pc \in Asking => op[p].new = Null
  /\ op[p].pc \in Saving => op[p].new \in Token /\ op[p].new.sub = op[p].user
  /\ (op[p].pc = "saveWrite" /\ op[p].row # Null) \/ op[p].pc = "logoutRevoke" =>
       /\ op[p].row \in RowIds /\ Exists(op[p].row)
       /\ rows[op[p].row].device = op[p].device
  /\ op[p].pc = "saveWrite" /\ op[p].row # Null =>
       rows[op[p].row].user = op[p].user

OpInv == \A p \in Procs : OpOk(p)

\* A row holds a token of its user, and devices seen have been handed out.
RowInv ==
  /\ \A i \in RowIds : Exists(i) =>
       rows[i].token.sub = rows[i].user /\ rows[i].device \in used
  /\ \A d \in Devices : jar[d] # Null => d \in used

\* Some row of the device holds the token.
Held(d, t) == \E i \in RowsOf(d) : rows[i].token = t

\* How far the request of p has come with the row of device d.
Stage(p, d) ==
  /\ \/ op[p].pc = "loginRead"
     \/ op[p].pc = "saveFind" /\ op[p].old = Null
     \/ op[p].pc = "saveWrite" /\ op[p].row = Null
     => RowsOf(d) = {}
  /\ op[p].pc \in {"refreshFind", "logoutFind", "refused"} /\ jar[d] # Null =>
       Held(d, jar[d])
  /\ op[p].pc = "refreshFind" => op[p].old = jar[d]
  /\ op[p].pc = "saveFind" /\ op[p].old # Null =>
       \E i \in RowsOf(d) : /\ ~rows[i].revoked /\ rows[i].token = op[p].old
                            /\ rows[i].user = op[p].user
  /\ op[p].pc = "respond" /\ op[p].new # Null => Held(d, op[p].new)

\* A device whose requests never overlapped: one request, one row, and cookie
\* and row in step.
Settled(d) ==
  /\ \A p, q \in Procs : op[p].device = d /\ op[q].device = d => p = q
  /\ \A i, j \in RowsOf(d) : i = j
  /\ jar[d] # Null /\ (\A p \in Procs : op[p].device # d) => Held(d, jar[d])
  /\ \A p \in Procs : op[p].device = d => Stage(p, d)

QuietInv == \A d \in Quiet : Settled(d)

\* A session about to be saved was opened with a password at least as new as
\* the last reset that revoked sessions.
CredInv ==
  /\ \A u \in Users : resetGen[u] <= pwd[u]
  /\ \A p \in Procs :
       op[p].pc = "resetRevoke" => op[p].cred <= pwd[op[p].user]
  /\ \A p \in Procs :
       op[p].pc \in {"loginRead", "saveFind", "saveWrite"} /\ op[p].device \in Quiet =>
         op[p].cred >= resetGen[op[p].user]

IInv == TypeOK /\ OpInv /\ RowInv /\ QuietInv /\ CredInv /\ ResetEndsSessions

-----------------------------------------------------------------------------
(* Facts about steps *)

\* Nothing is revoked, moved or handed to another user.
RowsKeep ==
  \A i \in RowIds : Exists(i) =>
    /\ Exists(i)' /\ rows'[i].device = rows[i].device
    /\ rows'[i].user = rows[i].user

\* The fields of the request of p become these, and no other request changes.
Becomes(p, l, u, d, o, n, r, c) ==
  /\ op' \in [Procs -> Op]
  /\ op'[p].pc = l /\ op'[p].user = u /\ op'[p].device = d
  /\ op'[p].old = o /\ op'[p].new = n /\ op'[p].row = r /\ op'[p].cred = c
  /\ \A q \in Procs \ {p} : op'[q] = op[q]

\* The request of p goes on, and is done.
Moves(p, l, n, r, c) ==
  Becomes(p, l, op[p].user, op[p].device, op[p].old, n, r, c)
Finishes(p, l) ==
  Becomes(p, l, op[p].user, op[p].device, Null, op[p].new, Null, 0)

\* The bounds are numbers, and Null is none of the things it stands in for.
LEMMA Bounds ==
  /\ MaxRows \in Nat /\ MaxTime \in Nat /\ MaxPerm \in Nat /\ MaxPwd \in Nat
  /\ MaxLost \in Nat
  /\ Null \notin Users /\ Null \notin Devices /\ Null \notin RowIds
  /\ Null \notin Token /\ Null \notin Row
  BY SessionsAssumption

\* Replacing the request of p changes no other.
LEMMA OpStep ==
  ASSUME TypeOK, NEW p \in Procs, NEW x \in Op, op' = [op EXCEPT ![p] = x]
  PROVE  Becomes(p, x.pc, x.user, x.device, x.old, x.new, x.row, x.cred)
  BY DEF TypeOK, Becomes

\* A request that is over leaves an idle process.
LEMMA IdleIsOp == Idle \in Op
  BY Bounds DEF Idle, Op, Labels

\* Finish keeps the user, the device and the token signed.
LEMMA FinishStep ==
  ASSUME TypeOK, NEW p \in Procs, NEW l \in {"respond", "refused"}, Finish(p, l)
  PROVE  Finishes(p, l)
<1> DEFINE new == [Idle EXCEPT !.pc = l, !.user = op[p].user,
                               !.device = op[p].device, !.new = op[p].new]
<1>1. op[p] \in Op
  BY DEF TypeOK
<1>2. new \in Op
  <2>1. /\ op[p].user \in Users \cup {Null} /\ op[p].device \in Devices \cup {Null}
        /\ op[p].new \in Token \cup {Null}
    BY <1>1 DEF Op
  <2>2. l \in Labels /\ 0 \in 0..MaxPwd
    BY Bounds DEF Labels
  <2> QED BY <2>1, <2>2 DEF Idle, Op
<1>3. /\ new.pc = l /\ new.user = op[p].user /\ new.device = op[p].device
      /\ new.old = Null /\ new.new = op[p].new /\ new.row = Null /\ new.cred = 0
  BY DEF Idle
<1>4. op' = [op EXCEPT ![p] = new]
  BY DEF Finish
<1> HIDE DEF new
<1> QED BY <1>2, <1>3, <1>4, OpStep DEF Finishes

\* A token is signed for the user, with the version and the second of now.
LEMMA SignType ==
  ASSUME TypeOK, NEW u \in Users
  PROVE  Sign(u) \in Token /\ Sign(u).sub = u
  BY DEF TypeOK, Sign, Token

\* What a request knows stays true while it waits.
LEMMA OpFrame ==
  ASSUME OpInv, NEW p \in Procs, \A q \in Procs \ {p} : op'[q] = op[q],
         used \subseteq used', RowsKeep, OpOk(p)'
  PROVE  OpInv'
<1> SUFFICES ASSUME NEW q \in Procs \ {p} PROVE OpOk(q)'
  BY DEF OpInv
<1>1. OpOk(q) /\ op'[q] = op[q]
  BY DEF OpInv
<1> QED BY <1>1 DEF OpOk, RowsKeep

\* A step of a request for another device leaves a device settled.
LEMMA Elsewhere ==
  ASSUME NEW d \in Devices, Settled(d),
         \A q \in Procs : op[q].device = d \/ op'[q].device = d => op'[q] = op[q],
         jar'[d] = jar[d], RowsOf(d)' = RowsOf(d),
         \A i \in RowsOf(d) : /\ rows'[i].token = rows[i].token
                              /\ rows'[i].user = rows[i].user,
         \A q \in Procs, i \in RowsOf(d) :
           op[q].device = d /\ rows[i].user = op[q].user /\ ~rows[i].revoked =>
             ~rows'[i].revoked
  PROVE  Settled(d)'
<1>1. \A p, q \in Procs : op'[p].device = d /\ op'[q].device = d => p = q
  BY DEF Settled
<1>2. \A i, j \in RowsOf(d)' : i = j
  BY DEF Settled
<1>3. \A t : Held(d, t)' <=> Held(d, t)
  BY DEF Held
<1>4. jar'[d] # Null /\ (\A p \in Procs : op'[p].device # d) => Held(d, jar[d])'
  BY <1>3 DEF Settled
<1>5. ASSUME NEW p \in Procs, op'[p].device = d PROVE Stage(p, d)'
  <2>1. op'[p] = op[p] /\ op[p].device = d /\ Stage(p, d)
    BY <1>5 DEF Settled
  <2> QED BY <2>1, <1>3 DEF Stage
<1> QED BY <1>1, <1>2, <1>4, <1>5 DEF Settled

\* The step of the one request of a device.
LEMMA Mine ==
  ASSUME NEW d \in Devices, NEW p \in Procs, op'[p].device = d,
         \A q \in Procs \ {p} : op[q].device # d /\ op'[q] = op[q],
         \A i, j \in RowsOf(d)' : i = j, Stage(p, d)'
  PROVE  Settled(d)'
  BY DEF Settled

\* The one request of a quiet device has no company.
LEMMA Alone ==
  ASSUME NEW d \in Devices, NEW p \in Procs, Settled(d), op[p].device = d
  PROVE  Stage(p, d) /\ \A q \in Procs \ {p} : op[q].device # d
  BY DEF Settled

\* While the rows stay as they are, so do those of each device.
LEMMA SameRows ==
  ASSUME UNCHANGED rows
  PROVE  /\ \A d : RowsOf(d)' = RowsOf(d)
         /\ \A d, t : Held(d, t)' <=> Held(d, t)
         /\ RowsKeep
  BY DEF RowsOf, Held, Exists, RowsKeep

\* Sessions keep the credential they were opened with.
LEMMA CredFrame ==
  ASSUME CredInv, ResetEndsSessions, NEW p \in Procs,
         \A q \in Procs \ {p} : op'[q] = op[q],
         UNCHANGED <<pwd, resetGen>>, disturbed \subseteq disturbed',
         op'[p].pc # "resetRevoke",
         op'[p].pc \in {"loginRead", "saveFind", "saveWrite"}
           /\ op'[p].device \in Quiet' => op'[p].cred >= resetGen[op'[p].user],
         \A i \in RowIds : Unrevoked(i)' =>
           /\ Unrevoked(i) /\ rows'[i].device = rows[i].device
           /\ rows'[i].user = rows[i].user /\ rows'[i].cred = rows[i].cred
  PROVE  CredInv' /\ ResetEndsSessions'
<1>1. Quiet' \subseteq Quiet
  BY DEF Quiet
<1>2. CredInv'
  BY <1>1 DEF CredInv
<1>3. ResetEndsSessions'
  BY <1>1 DEF ResetEndsSessions
<1> QED BY <1>2, <1>3


\* Tokens stay with their users as long as no row is written.
LEMMA RowFrame ==
  ASSUME RowInv, UNCHANGED <<jar, used>>, RowsKeep,
         \A i \in RowIds : /\ Exists(i)' => Exists(i)
                           /\ Exists(i) => rows'[i].token = rows[i].token
  PROVE  RowInv'
  BY DEF RowInv, RowsKeep

\* A step of a request that touches at most rows of its own device.
LEMMA OwnDevice ==
  ASSUME IInv, NEW p \in Procs, op'[p].device = op[p].device,
         \A q \in Procs \ {p} : op'[q] = op[q],
         UNCHANGED jar, disturbed \subseteq disturbed',
         \A i \in RowIds :
           \/ rows'[i] = rows[i]
           \/ /\ Exists(i) => rows[i].device = op[p].device
              /\ Exists(i)' /\ rows'[i].device = op[p].device,
         \A e \in Quiet : op[p].device = e /\ Settled(e) /\ Stage(p, e) =>
           Stage(p, e)' /\ \A i, j \in RowsOf(e)' : i = j
  PROVE  QuietInv'
<1> SUFFICES ASSUME NEW e \in Quiet PROVE Settled(e)'
  BY DEF QuietInv, Quiet
<1>1. Settled(e) /\ e \in Devices
  BY DEF IInv, QuietInv, Quiet
<1>2. CASE e # op[p].device
  <2>1. RowsOf(e)' = RowsOf(e) /\ \A i \in RowsOf(e) : rows'[i] = rows[i]
    BY <1>2 DEF RowsOf, Exists
  <2> QED BY <1>1, <1>2, <2>1, Elsewhere
<1>3. CASE e = op[p].device
  <2>1. Stage(p, e) /\ \A q \in Procs \ {p} : op[q].device # e
    BY <1>1, <1>3, Alone
  <2> QED BY <1>1, <1>3, <2>1, Mine
<1> QED BY <1>2, <1>3

\* A step that starts no request and touches no cookie: what happens to the
\* rows of quiet devices is at most a revocation no request there waits for.
LEMMA NoDevice ==
  ASSUME IInv, UNCHANGED jar, disturbed \subseteq disturbed', RowsKeep,
         \A i \in RowIds : /\ Exists(i)' => Exists(i)
                           /\ Exists(i) => rows'[i].token = rows[i].token,
         \A e \in Quiet', q \in Procs :
           op[q].device = e \/ op'[q].device = e =>
             /\ op'[q] = op[q]
             /\ \A i \in RowsOf(e) :
                  rows[i].user = op[q].user => rows'[i].revoked = rows[i].revoked
  PROVE  QuietInv'
<1> SUFFICES ASSUME NEW e \in Quiet' PROVE Settled(e)'
  BY DEF QuietInv
<1>1. Settled(e) /\ e \in Devices
  BY DEF IInv, QuietInv, Quiet
<1>2. RowsOf(e)' = RowsOf(e)
  BY DEF RowsOf, RowsKeep
<1> QED BY <1>1, <1>2, Elsewhere DEF RowsOf, RowsKeep

-----------------------------------------------------------------------------
(* Login *)

\* A login draws a device no request, row or cookie knows.
LEMMA LoginValidateStep ==
  ASSUME IInv, NEW p \in Procs, NEW u \in Users, NEW d \in Devices,
         LoginValidate(p, u, d)
  PROVE  IInv'
<1> DEFINE new == [Idle EXCEPT !.pc = "loginRead", !.user = u, !.device = d,
                               !.cred = pwd[u]]
<1>1. /\ op[p] = Idle
      /\ Becomes(p, "loginRead", u, d, Null, Null, Null, pwd[u])
  <2>1. new \in Op
    BY Bounds DEF IInv, TypeOK, Idle, Op, Labels
  <2>2. /\ new.pc = "loginRead" /\ new.user = u /\ new.device = d
        /\ new.old = Null /\ new.new = Null /\ new.row = Null
        /\ new.cred = pwd[u]
    BY DEF Idle
  <2>3. op[p] = Idle /\ op' = [op EXCEPT ![p] = new]
    BY DEF LoginValidate, Begin
  <2> HIDE DEF new
  <2> QED BY <2>1, <2>2, <2>3, OpStep DEF IInv
<1>2. /\ used' = used \cup {d} /\ d \notin used
      /\ UNCHANGED <<rows, permVersion, pwd, now, jar, disturbed, resetGen, lost>>
  BY DEF LoginValidate
<1>3. TypeOK'
  BY <1>1, <1>2 DEF IInv, TypeOK, Becomes, Moves
<1>4. OpInv'
  <2>1. OpOk(p)'
    BY <1>1, <1>2 DEF OpOk, Becomes, Moves, Asking, Saving
  <2> QED BY <1>1, <1>2, <2>1, OpFrame, SameRows DEF IInv, Becomes, Moves
<1>5. RowInv'
  BY <1>2 DEF IInv, RowInv, Exists
<1>6. QuietInv'
  <2> SUFFICES ASSUME NEW e \in Quiet PROVE Settled(e)'
    BY <1>2 DEF QuietInv, Quiet
  <2>1. Settled(e) /\ e \in Devices
    BY DEF IInv, QuietInv, Quiet
  <2>2. CASE e # d
    <3>1. op[p].device # e /\ op'[p].device # e
      BY <1>1, <2>1, <2>2, Bounds DEF Becomes, Moves, Idle
    <3> QED BY <1>1, <1>2, <2>1, <3>1, SameRows, Elsewhere DEF Becomes, Moves
  <2>3. CASE e = d
    <3>1. \A q \in Procs : op[q].device # d
      BY <1>2, Bounds DEF IInv, OpInv, OpOk
    <3>2. RowsOf(d) = {}
      BY <1>2 DEF IInv, RowInv, RowsOf
    <3>3. Stage(p, d)'
      BY <1>1, <1>2, <3>2, SameRows DEF Stage, Becomes, Moves
    <3> QED BY <1>1, <1>2, <2>3, <3>1, <3>2, <3>3, SameRows, Mine DEF Becomes, Moves
  <2> QED BY <2>2, <2>3
<1>7. CredInv' /\ ResetEndsSessions'
  <2>1. pwd[u] >= resetGen[u]
    BY DEF IInv, TypeOK, CredInv
  <2> QED BY <1>1, <1>2, <2>1, CredFrame
             DEF IInv, Becomes, Moves, Unrevoked, Exists, Quiet
<1> QED BY <1>3, <1>4, <1>5, <1>6, <1>7 DEF IInv

\* issueTokens signs a token for the user of the login.
LEMMA LoginReadStep ==
  ASSUME IInv, NEW p \in Procs, LoginRead(p)
  PROVE  IInv'
<1>1. /\ op[p].pc = "loginRead" /\ op[p].user \in Users /\ op[p] \in Op
      /\ op[p].device \in used /\ op[p].old = Null
  BY DEF LoginRead, IInv, TypeOK, OpInv, OpOk
<1>2. Sign(op[p].user) \in Token /\ Sign(op[p].user).sub = op[p].user
  BY <1>1, SignType DEF IInv
<1>3. Moves(p, "saveFind", Sign(op[p].user), op[p].row, op[p].cred)
  BY <1>1, <1>2 DEF LoginRead, IInv, TypeOK, Moves, Becomes, Moves, Op, Labels
<1>4. UNCHANGED <<rows, permVersion, pwd, now, jar, used, disturbed, resetGen, lost>>
  BY DEF LoginRead
<1>5. TypeOK'
  BY <1>3, <1>4 DEF IInv, TypeOK, Becomes, Moves
<1>6. OpInv'
  <2>1. OpOk(p)'
    BY <1>1, <1>2, <1>3, <1>4 DEF OpOk, Becomes, Moves, Asking, Saving
  <2> QED BY <1>3, <1>4, <2>1, OpFrame, SameRows DEF IInv, Becomes, Moves
<1>7. RowInv'
  BY <1>4 DEF IInv, RowInv, Exists
<1>8. QuietInv'
  <2>1. ASSUME NEW e \in Quiet, Settled(e), Stage(p, e)
        PROVE  Stage(p, e)' /\ \A i, j \in RowsOf(e)' : i = j
    BY <1>1, <1>3, <1>4, <2>1, SameRows DEF Stage, Settled, Becomes, Moves
  <2> QED BY <1>3, <1>4, <2>1, OwnDevice DEF Becomes, Moves
<1>9. CredInv' /\ ResetEndsSessions'
  <2>1. op[p].device \in Quiet => op[p].cred >= resetGen[op[p].user]
    BY <1>1 DEF IInv, CredInv
  <2> QED
    BY <1>3, <1>4, <2>1, CredFrame DEF IInv, Becomes, Moves, Unrevoked, Exists, Quiet
<1> QED BY <1>5, <1>6, <1>7, <1>8, <1>9 DEF IInv


-----------------------------------------------------------------------------
(* Refresh and the start of a logout *)

\* A request with cookies starts for the user and device of the cookies.
LEMMA AskStep ==
  ASSUME IInv, NEW p \in Procs, NEW d \in Devices, jar[d] # Null,
         NEW l \in {"refreshFind", "logoutFind", "logoutAll"},
         NEW o \in {jar[d], Null}, l = "refreshFind" => o = jar[d],
         op[p] = Idle, Becomes(p, l, jar[d].sub, d, o, Null, Null, 0),
         disturbed' = disturbed \cup ({d} \cap Busy(p)),
         UNCHANGED <<rows, permVersion, pwd, now, jar, used, resetGen, lost>>
  PROVE  IInv'
<1>1. jar[d] \in Token /\ jar[d].sub \in Users /\ d \in used
  BY DEF IInv, TypeOK, RowInv, Token
<1>2. TypeOK'
  BY DEF IInv, TypeOK, Becomes
<1>3. OpInv'
  <2>1. OpOk(p)'
    BY <1>1 DEF OpOk, Becomes, Asking, Saving
  <2> QED BY <2>1, OpFrame, SameRows DEF IInv, Becomes
<1>4. RowInv'
  BY DEF IInv, RowInv, Exists
<1>5. QuietInv'
  <2> SUFFICES ASSUME NEW e \in Quiet' PROVE Settled(e)'
    BY DEF QuietInv
  <2>1. Settled(e) /\ e \in Devices
    BY DEF IInv, QuietInv, Quiet
  <2>2. op[p].device # e
    BY <2>1, Bounds DEF Idle
  <2>3. CASE e # d
    BY <2>1, <2>2, <2>3, SameRows, Elsewhere DEF Becomes
  <2>4. CASE e = d
    <3>1. \A q \in Procs : op[q].device # d
      BY <2>1, <2>2, <2>4, Bounds DEF Quiet, Busy
    <3>2. Held(d, jar[d])
      BY <2>1, <2>4, <3>1 DEF Settled
    <3>3. Stage(p, d)'
      BY <3>2, SameRows DEF Stage, Becomes
    <3> QED BY <2>1, <2>4, <3>1, <3>3, SameRows, Mine DEF Becomes, Settled
  <2> QED BY <2>3, <2>4
<1>6. CredInv' /\ ResetEndsSessions'
  BY CredFrame DEF IInv, Becomes, Unrevoked, Exists, Quiet
<1> QED BY <1>2, <1>3, <1>4, <1>5, <1>6 DEF IInv

\* refresh, logout-device and logout-all start with the cookies of a device.
LEMMA StartSteps ==
  ASSUME IInv, NEW p \in Procs, NEW d \in Devices,
         RefreshStart(p, d) \/ LogoutStart(p, d) \/ LogoutAllStart(p, d)
  PROVE  IInv'
<1>1. /\ jar[d] \in Token /\ jar[d].sub \in Users /\ op[p] = Idle
      /\ disturbed' = disturbed \cup ({d} \cap Busy(p))
      /\ UNCHANGED <<rows, permVersion, pwd, now, jar, used, resetGen, lost>>
  BY DEF IInv, TypeOK, Token, RefreshStart, LogoutStart, LogoutAllStart, Begin
<1>0. {"refreshFind", "logoutFind", "logoutAll"} \subseteq Labels /\ 0 \in 0..MaxPwd
  BY Bounds DEF Labels
<1>2. ASSUME NEW l \in {"refreshFind", "logoutFind"},
             op' = [op EXCEPT ![p] = [Idle EXCEPT !.pc = l, !.user = jar[d].sub,
                                                  !.device = d, !.old = jar[d]]]
      PROVE  Becomes(p, l, jar[d].sub, d, jar[d], Null, Null, 0)
  <2> DEFINE new == [Idle EXCEPT !.pc = l, !.user = jar[d].sub,
                                 !.device = d, !.old = jar[d]]
  <2>1. new \in Op
    BY <1>0, <1>1 DEF Idle, Op
  <2>2. /\ new.pc = l /\ new.user = jar[d].sub /\ new.device = d
        /\ new.old = jar[d] /\ new.new = Null /\ new.row = Null /\ new.cred = 0
    BY DEF Idle
  <2>3. op' = [op EXCEPT ![p] = new]
    BY <1>2
  <2> HIDE DEF new
  <2> QED BY <2>1, <2>2, <2>3, OpStep DEF IInv
<1>3. ASSUME LogoutAllStart(p, d)
      PROVE  Becomes(p, "logoutAll", jar[d].sub, d, Null, Null, Null, 0)
  <2> DEFINE new == [Idle EXCEPT !.pc = "logoutAll", !.user = jar[d].sub,
                                 !.device = d]
  <2>1. new \in Op
    BY <1>0, <1>1 DEF Idle, Op
  <2>2. /\ new.pc = "logoutAll" /\ new.user = jar[d].sub /\ new.device = d
        /\ new.old = Null /\ new.new = Null /\ new.row = Null /\ new.cred = 0
    BY DEF Idle
  <2>3. op' = [op EXCEPT ![p] = new]
    BY <1>3 DEF LogoutAllStart, Begin
  <2> HIDE DEF new
  <2> QED BY <2>1, <2>2, <2>3, OpStep DEF IInv
<1>4. jar[d] # Null
  BY <1>1, Bounds
<1>5. CASE RefreshStart(p, d)
  BY <1>1, <1>2, <1>4, <1>5, AskStep DEF RefreshStart, Begin
<1>6. CASE LogoutStart(p, d)
  BY <1>1, <1>2, <1>4, <1>6, AskStep DEF LogoutStart, Begin
<1>7. CASE LogoutAllStart(p, d)
  BY <1>1, <1>3, <1>4, <1>7, AskStep
<1> QED BY <1>5, <1>6, <1>7


\* findByRefreshToken finds the row of the cookie, if any row will do.
LEMMA RefreshFindStep ==
  ASSUME IInv, NEW p \in Procs, RefreshFind(p)
  PROVE  IInv'
<1>1. /\ op[p].pc = "refreshFind" /\ op[p].user \in Users /\ op[p] \in Op
      /\ op[p].device \in used /\ op[p].old \in Token
  BY DEF RefreshFind, IInv, TypeOK, OpInv, OpOk
<1>2. UNCHANGED <<rows, permVersion, pwd, now, jar, used, disturbed, resetGen, lost>>
  BY DEF RefreshFind
<1>3. \/ Finishes(p, "refused")
      \/ \E i \in RefreshMatches(p) :
           /\ rows[i].token = op[p].old
           /\ Moves(p, "saveFind", Sign(op[p].user), op[p].row, rows[i].cred)
  <2>1. CASE Finish(p, "refused")
    BY <2>1, FinishStep DEF IInv
  <2>2. ASSUME NEW i \in RefreshMatches(p),
               op' = [op EXCEPT ![p].pc = "saveFind",
                                ![p].new = Sign(op[p].user),
                                ![p].cred = rows[i].cred]
        PROVE  Moves(p, "saveFind", Sign(op[p].user), op[p].row, rows[i].cred)
    <3>1. Sign(op[p].user) \in Token
      BY <1>1, SignType DEF IInv
    <3>2. rows[i].cred \in 0..MaxPwd
      BY DEF IInv, TypeOK, RefreshMatches, Unrevoked, Exists, Row
    <3> QED
      BY <1>1, <2>2, <3>1, <3>2 DEF IInv, TypeOK, Moves, Becomes, Op, Labels
  <2> QED BY <2>1, <2>2 DEF RefreshFind
<1>4. TypeOK'
  BY <1>2, <1>3 DEF IInv, TypeOK, Finishes, Moves, Becomes
<1>5. OpInv'
  <2>1. Sign(op[p].user) \in Token /\ Sign(op[p].user).sub = op[p].user
    BY <1>1, SignType DEF IInv
  <2>2. OpOk(p)'
    BY <1>1, <1>2, <1>3, <2>1
       DEF OpOk, Finishes, Moves, Becomes, Asking, Saving
  <2> QED
    BY <1>2, <1>3, <2>2, OpFrame, SameRows DEF IInv, Finishes, Moves, Becomes
<1>6. RowInv'
  BY <1>2 DEF IInv, RowInv, Exists
<1>7. QuietInv'
  <2>1. ASSUME NEW e \in Quiet, op[p].device = e, Settled(e), Stage(p, e)
        PROVE  Stage(p, e)' /\ \A i, j \in RowsOf(e)' : i = j
    <3>1. CASE Finishes(p, "refused")
      BY <1>1, <1>2, <2>1, <3>1, SameRows
         DEF Stage, Settled, Finishes, Becomes
    <3>2. ASSUME NEW i \in RefreshMatches(p), rows[i].token = op[p].old,
                 Moves(p, "saveFind", Sign(op[p].user), op[p].row, rows[i].cred)
          PROVE  Stage(p, e)'
      <4>1. /\ i \in RowsOf(e) /\ ~rows[i].revoked /\ rows[i].user = op[p].user
            /\ op[p].old # Null
        BY <1>1, <2>1, Bounds DEF RefreshMatches, RowsOf, Unrevoked
      <4> QED BY <1>2, <3>2, <4>1, SameRows DEF Stage, Moves, Becomes
    <3>3. \A i, j \in RowsOf(e)' : i = j
      BY <1>2, <2>1, SameRows DEF Settled
    <3> QED BY <1>3, <3>1, <3>2, <3>3
  <2> QED BY <1>2, <1>3, <2>1, OwnDevice DEF Finishes, Moves, Becomes
<1>8. CredInv' /\ ResetEndsSessions'
  <2>1. \A i \in RefreshMatches(p) : op[p].device \in Quiet =>
          rows[i].cred >= resetGen[op[p].user]
    BY DEF IInv, ResetEndsSessions, RefreshMatches
  <2> QED
    BY <1>2, <1>3, <2>1, CredFrame
       DEF IInv, Finishes, Moves, Becomes, Unrevoked, Exists, Quiet
<1> QED BY <1>4, <1>5, <1>6, <1>7, <1>8 DEF IInv

\* saveRefreshToken finds the row again; on a quiet device it is still the
\* one findByRefreshToken had found.
LEMMA SaveFindStep ==
  ASSUME IInv, NEW p \in Procs, SaveFind(p)
  PROVE  IInv'
<1>1. /\ op[p].pc = "saveFind" /\ op[p].user \in Users /\ op[p] \in Op
      /\ op[p].device \in used
      /\ op[p].new \in Token /\ op[p].new.sub = op[p].user
  BY DEF SaveFind, IInv, TypeOK, OpInv, OpOk, Saving
<1>2. UNCHANGED <<rows, permVersion, pwd, now, jar, used, disturbed, resetGen, lost>>
  BY DEF SaveFind
<1>3. \/ /\ SaveMatches(p) = {}
         /\ Moves(p, "saveWrite", op[p].new, Null, op[p].cred)
      \/ \E i \in SaveMatches(p) :
           /\ op[p].old # Null /\ rows[i].token # op[p].old
           /\ Finishes(p, "refused")
      \/ \E i \in SaveMatches(p) :
           Moves(p, "saveWrite", op[p].new, i, op[p].cred)
  <2>1. ASSUME Finish(p, "refused")
        PROVE  Finishes(p, "refused")
    BY <2>1, FinishStep DEF IInv
  <2>2. ASSUME NEW r \in RowIds \cup {Null},
               op' = [op EXCEPT ![p].pc = "saveWrite", ![p].row = r]
        PROVE  Moves(p, "saveWrite", op[p].new, r, op[p].cred)
    BY <1>1, <2>2 DEF IInv, TypeOK, Moves, Becomes, Op, Labels
  <2> QED BY <2>1, <2>2 DEF SaveFind, SaveMatches
<1>4. TypeOK'
  BY <1>2, <1>3 DEF IInv, TypeOK, Finishes, Moves, Becomes
<1>5. OpInv'
  <2>1. \A i \in SaveMatches(p) :
          /\ i \in RowIds /\ Exists(i)
          /\ rows[i].device = op[p].device /\ rows[i].user = op[p].user
    BY DEF SaveMatches, Unrevoked
  <2>2. OpOk(p)'
    BY <1>1, <1>2, <1>3, <2>1
       DEF OpOk, Finishes, Moves, Becomes, Asking, Saving, Exists
  <2> QED
    BY <1>2, <1>3, <2>2, OpFrame, SameRows DEF IInv, Finishes, Moves, Becomes
<1>6. RowInv'
  BY <1>2 DEF IInv, RowInv, Exists
<1>7. QuietInv'
  <2>1. ASSUME NEW e \in Quiet, op[p].device = e, Settled(e), Stage(p, e)
        PROVE  Stage(p, e)' /\ \A i, j \in RowsOf(e)' : i = j
    <3>1. SaveMatches(p) \subseteq RowsOf(e)
      BY <2>1 DEF SaveMatches, RowsOf, Unrevoked
    <3>2. CASE op[p].old = Null
      <4>1. RowsOf(e) = {}
        BY <1>1, <2>1, <3>2 DEF Stage
      <4>2. Moves(p, "saveWrite", op[p].new, Null, op[p].cred)
        BY <1>3, <3>1, <4>1
      <4> QED BY <1>2, <4>1, <4>2, SameRows DEF Stage, Moves, Becomes
    <3>3. CASE op[p].old # Null
      <4>1. PICK i \in RowsOf(e) : /\ ~rows[i].revoked
                                   /\ rows[i].token = op[p].old
                                   /\ rows[i].user = op[p].user
        BY <1>1, <2>1, <3>3 DEF Stage
      <4>2. i \in SaveMatches(p) /\ \A j \in SaveMatches(p) : j = i
        BY <2>1, <3>1, <4>1 DEF SaveMatches, RowsOf, Unrevoked, Settled
      <4>3. Moves(p, "saveWrite", op[p].new, i, op[p].cred) /\ i # Null
        BY <1>3, <4>1, <4>2, Bounds DEF SaveMatches
      <4>4. \A k, j \in RowsOf(e)' : k = j
        BY <1>2, <2>1, SameRows DEF Settled
      <4> QED BY <1>2, <4>3, <4>4, SameRows DEF Stage, Moves, Becomes
    <3> QED BY <3>2, <3>3
  <2> QED BY <1>2, <1>3, <2>1, OwnDevice DEF Finishes, Moves, Becomes
<1>8. CredInv' /\ ResetEndsSessions'
  <2>1. op[p].device \in Quiet => op[p].cred >= resetGen[op[p].user]
    BY <1>1 DEF IInv, CredInv
  <2> QED
    BY <1>2, <1>3, <2>1, CredFrame
       DEF IInv, Finishes, Moves, Becomes, Unrevoked, Exists, Quiet
<1> QED BY <1>4, <1>5, <1>6, <1>7, <1>8 DEF IInv


\* The row found is given the new token, or the first free row is created.
LEMMA SaveWriteStep ==
  ASSUME IInv, NEW p \in Procs, SaveWrite(p)
  PROVE  IInv'
<1>1. /\ op[p].pc = "saveWrite" /\ op[p].user \in Users /\ op[p] \in Op
      /\ op[p].device \in used /\ op[p].device \in Devices
      /\ op[p].new \in Token /\ op[p].new.sub = op[p].user
      /\ op[p].row # Null =>
           /\ op[p].row \in RowIds /\ Exists(op[p].row)
           /\ rows[op[p].row].device = op[p].device
           /\ rows[op[p].row].user = op[p].user
  BY DEF SaveWrite, IInv, TypeOK, OpInv, OpOk, Saving
<1>2. UNCHANGED <<permVersion, pwd, now, jar, used, disturbed, resetGen, lost>>
  BY DEF SaveWrite
<1>3. Finishes(p, "respond")
  BY FinishStep DEF SaveWrite, IInv
<1>4. \E k \in RowIds :
        /\ \A i \in RowIds \ {k} : rows'[i] = rows[i]
        /\ rows' \in [RowIds -> Row \cup {Null}]
        /\ rows'[k] \in Row /\ rows'[k].token = op[p].new
        /\ rows'[k].device = op[p].device /\ rows'[k].user = op[p].user
        /\ \/ /\ op[p].row = k /\ Exists(k)
              /\ rows[k].device = op[p].device /\ rows[k].user = op[p].user
              /\ rows'[k].revoked = rows[k].revoked
              /\ rows'[k].cred = rows[k].cred
           \/ op[p].row = Null /\ ~Exists(k) /\ rows'[k].cred = op[p].cred
  <2>1. CASE op[p].row # Null
    <3>1. rows' = [rows EXCEPT ![op[p].row].token = op[p].new,
                               ![op[p].row].expired = FALSE]
      BY <2>1 DEF SaveWrite
    <3>2. rows[op[p].row] \in Row /\ rows \in [RowIds -> Row \cup {Null}]
      BY <1>1, <2>1 DEF IInv, TypeOK, Exists
    <3> QED BY <1>1, <2>1, <3>1, <3>2 DEF Row
  <2>2. CASE op[p].row = Null
    <3>1. PICK k \in RowIds :
                 ~Exists(k) /\ rows' = [rows EXCEPT ![k] = NewRow(p)]
      BY <2>2 DEF SaveWrite
    <3>2. NewRow(p) \in Row
      BY <1>1 DEF NewRow, Row, Op
    <3>3. /\ NewRow(p).token = op[p].new /\ NewRow(p).device = op[p].device
          /\ NewRow(p).user = op[p].user /\ NewRow(p).cred = op[p].cred
      BY DEF NewRow
    <3>4. rows \in [RowIds -> Row \cup {Null}]
      BY DEF IInv, TypeOK
    <3> QED BY <2>2, <3>1, <3>2, <3>3, <3>4
  <2> QED BY <2>1, <2>2
<1>5. PICK k \in RowIds :
        /\ \A i \in RowIds \ {k} : rows'[i] = rows[i]
        /\ rows' \in [RowIds -> Row \cup {Null}]
        /\ Exists(k)' /\ rows'[k].token = op[p].new
        /\ rows'[k].device = op[p].device /\ rows'[k].user = op[p].user
        /\ \/ /\ op[p].row = k /\ Exists(k)
              /\ rows[k].device = op[p].device /\ rows[k].user = op[p].user
              /\ rows'[k].revoked = rows[k].revoked
              /\ rows'[k].cred = rows[k].cred
           \/ op[p].row = Null /\ ~Exists(k) /\ rows'[k].cred = op[p].cred
  BY <1>4, Bounds DEF Exists
<1>6. TypeOK'
  BY <1>2, <1>3, <1>5 DEF IInv, TypeOK, Finishes, Becomes
<1>7. RowsKeep
  BY <1>5 DEF RowsKeep, Exists
<1>8. OpInv'
  <2>1. OpOk(p)'
    BY <1>1, <1>2, <1>3 DEF OpOk, Finishes, Becomes, Asking, Saving
  <2> QED BY <1>2, <1>3, <1>7, <2>1, OpFrame DEF IInv, Finishes, Becomes
<1>9. RowInv'
  BY <1>1, <1>2, <1>5 DEF IInv, RowInv, Exists
<1>10. QuietInv'
  <2>1. ASSUME NEW e \in Quiet, op[p].device = e, Settled(e), Stage(p, e)
        PROVE  Stage(p, e)' /\ \A i, j \in RowsOf(e)' : i = j
    <3>1. k \in RowsOf(e)'
      BY <1>5, <2>1 DEF RowsOf
    <3>2. \A i \in RowsOf(e)' : i = k \/ i \in RowsOf(e)
      BY <1>5 DEF RowsOf, Exists
    <3>3. RowsOf(e) \subseteq {k}
      BY <1>1, <1>5, <2>1 DEF RowsOf, Stage, Settled
    <3>4. Stage(p, e)'
      BY <1>3, <1>5, <3>1 DEF Stage, Held, Finishes, Becomes
    <3> QED BY <3>2, <3>3, <3>4
  <2> QED
    BY <1>2, <1>3, <1>5, <2>1, OwnDevice DEF Finishes, Becomes
<1>11. CredInv' /\ ResetEndsSessions'
  <2>1. CredInv'
    BY <1>2, <1>3 DEF IInv, CredInv, Finishes, Becomes, Quiet
  <2>2. op[p].device \in Quiet => op[p].cred >= resetGen[op[p].user]
    BY <1>1 DEF IInv, CredInv
  <2>3. ResetEndsSessions'
    BY <1>2, <1>5, <2>2 DEF IInv, ResetEndsSessions, Unrevoked, Exists, Quiet
  <2> QED BY <2>1, <2>3
<1> QED BY <1>6, <1>8, <1>9, <1>10, <1>11 DEF IInv

-----------------------------------------------------------------------------
(* Logout *)

\* logout-device looks for a row of the device.
LEMMA LogoutFindStep ==
  ASSUME IInv, NEW p \in Procs, LogoutFind(p)
  PROVE  IInv'
<1>1. /\ op[p].pc = "logoutFind" /\ op[p].user \in Users /\ op[p] \in Op
      /\ op[p].device \in used /\ op[p].new = Null
  BY DEF LogoutFind, IInv, TypeOK, OpInv, OpOk, Asking
<1>2. UNCHANGED <<rows, permVersion, pwd, now, jar, used, disturbed, resetGen, lost>>
  BY DEF LogoutFind
<1>3. \/ Finishes(p, "respond")
      \/ \E i \in LogoutMatches(p) :
           Moves(p, "logoutRevoke", Null, i, op[p].cred)
  <2>1. CASE Finish(p, "respond")
    BY <2>1, FinishStep DEF IInv
  <2>2. ASSUME NEW i \in RowIds,
               op' = [op EXCEPT ![p].pc = "logoutRevoke", ![p].row = i]
        PROVE  Moves(p, "logoutRevoke", Null, i, op[p].cred)
    BY <1>1, <2>2 DEF IInv, TypeOK, Moves, Becomes, Op, Labels
  <2> QED BY <2>1, <2>2 DEF LogoutFind, LogoutMatches
<1>4. TypeOK'
  BY <1>2, <1>3 DEF IInv, TypeOK, Finishes, Moves, Becomes
<1>5. OpInv'
  <2>1. \A i \in LogoutMatches(p) :
          i \in RowIds /\ Exists(i) /\ rows[i].device = op[p].device
    BY DEF LogoutMatches, Unrevoked
  <2>2. OpOk(p)'
    BY <1>1, <1>2, <1>3, <2>1
       DEF OpOk, Finishes, Moves, Becomes, Asking, Saving, Exists
  <2> QED
    BY <1>2, <1>3, <2>2, OpFrame, SameRows DEF IInv, Finishes, Moves, Becomes
<1>6. RowInv'
  BY <1>2 DEF IInv, RowInv, Exists
<1>7. QuietInv'
  <2>1. ASSUME NEW e \in Quiet, Settled(e)
        PROVE  Stage(p, e)' /\ \A i, j \in RowsOf(e)' : i = j
    BY <1>1, <1>2, <1>3, <2>1, SameRows
       DEF Stage, Settled, Finishes, Moves, Becomes
  <2> QED BY <1>2, <1>3, <2>1, OwnDevice DEF Finishes, Moves, Becomes
<1>8. CredInv' /\ ResetEndsSessions'
  BY <1>2, <1>3, CredFrame
     DEF IInv, Finishes, Moves, Becomes, Unrevoked, Exists, Quiet
<1> QED BY <1>4, <1>5, <1>6, <1>7, <1>8 DEF IInv

\* Marking rows revoked leaves the rest of them alone.
LEMMA RevokeType ==
  ASSUME TypeOK, NEW I \in SUBSET RowIds, \A i \in I : Exists(i), RevokeRows(I)
  PROVE  /\ rows' \in [RowIds -> Row \cup {Null}]
         /\ \A i \in RowIds \ I : rows'[i] = rows[i]
         /\ \A i \in I : /\ Exists(i)' /\ rows'[i].revoked
                         /\ rows'[i].user = rows[i].user
                         /\ rows'[i].device = rows[i].device
                         /\ rows'[i].token = rows[i].token
                         /\ rows'[i].cred = rows[i].cred
<1>1. \A i \in I : rows[i] \in Row /\ rows'[i] = [rows[i] EXCEPT !.revoked = TRUE]
  BY DEF TypeOK, Exists, RevokeRows
<1>2. \A i \in I : /\ rows'[i] \in Row /\ rows'[i].revoked
                   /\ rows'[i].user = rows[i].user
                   /\ rows'[i].device = rows[i].device
                   /\ rows'[i].token = rows[i].token
                   /\ rows'[i].cred = rows[i].cred
  BY <1>1 DEF Row
<1>3. \A i \in RowIds \ I : rows'[i] = rows[i]
  BY DEF RevokeRows
<1>4. rows' \in [RowIds -> Row \cup {Null}]
  BY <1>2, <1>3 DEF RevokeRows, TypeOK
<1> QED BY <1>2, <1>3, <1>4, Bounds DEF Exists

\* The row found is revoked.
LEMMA LogoutRevokeStep ==
  ASSUME IInv, NEW p \in Procs, LogoutRevoke(p)
  PROVE  IInv'
<1>1. /\ op[p].pc = "logoutRevoke" /\ op[p].user \in Users /\ op[p] \in Op
      /\ op[p].device \in used /\ op[p].new = Null
      /\ op[p].row \in RowIds /\ Exists(op[p].row)
      /\ rows[op[p].row].device = op[p].device
  BY DEF LogoutRevoke, IInv, TypeOK, OpInv, OpOk, Asking
<1>0. PICK k \in RowIds :
        k = op[p].row /\ Exists(k) /\ rows[k].device = op[p].device
  BY <1>1
<1>2. UNCHANGED <<permVersion, pwd, now, jar, used, disturbed, resetGen, lost>>
  BY DEF LogoutRevoke
<1>3. Finishes(p, "respond")
  BY FinishStep DEF LogoutRevoke, IInv
<1>4. RevokeRows({k})
  <2>1. rows' = [rows EXCEPT ![k].revoked = TRUE]
    BY <1>0 DEF LogoutRevoke
  <2> QED BY <2>1 DEF RevokeRows, IInv, TypeOK
<1>5. /\ rows' \in [RowIds -> Row \cup {Null}]
      /\ \A i \in RowIds \ {k} : rows'[i] = rows[i]
      /\ Exists(k)' /\ rows'[k].revoked
      /\ rows'[k].user = rows[k].user /\ rows'[k].device = rows[k].device
      /\ rows'[k].token = rows[k].token /\ rows'[k].cred = rows[k].cred
  <2>1. TypeOK /\ {k} \in SUBSET RowIds /\ \A i \in {k} : Exists(i)
    BY <1>0 DEF IInv
  <2>2. \A i \in {k} : /\ Exists(i)' /\ rows'[i].revoked
                       /\ rows'[i].user = rows[i].user
                       /\ rows'[i].device = rows[i].device
                       /\ rows'[i].token = rows[i].token
                       /\ rows'[i].cred = rows[i].cred
    BY <1>4, <2>1, RevokeType
  <2>3. /\ rows' \in [RowIds -> Row \cup {Null}]
        /\ \A i \in RowIds \ {k} : rows'[i] = rows[i]
    BY <1>4, <2>1, RevokeType
  <2> QED BY <2>2, <2>3
<1>6. TypeOK'
  BY <1>2, <1>3, <1>5 DEF IInv, TypeOK, Finishes, Becomes
<1>7. RowsKeep
  BY <1>5 DEF RowsKeep, Exists
<1>8. OpInv'
  <2>1. OpOk(p)'
    BY <1>1, <1>2, <1>3 DEF OpOk, Finishes, Becomes, Asking, Saving
  <2> QED BY <1>2, <1>3, <1>7, <2>1, OpFrame DEF IInv, Finishes, Becomes
<1>9. RowInv'
  <2>1. \A i \in RowIds : /\ Exists(i)' => Exists(i)
                          /\ Exists(i) => rows'[i].token = rows[i].token
    BY <1>0, <1>5 DEF Exists
  <2> QED BY <1>2, <1>7, <2>1, RowFrame DEF IInv
<1>10. QuietInv'
  <2>1. ASSUME NEW e \in Quiet, op[p].device = e, Settled(e)
        PROVE  Stage(p, e)' /\ \A i, j \in RowsOf(e)' : i = j
    <3>1. RowsOf(e)' = RowsOf(e)
      BY <1>0, <1>5 DEF RowsOf, Exists
    <3>2. Stage(p, e)'
      BY <1>1, <1>3 DEF Stage, Finishes, Becomes
    <3> QED BY <2>1, <3>1, <3>2 DEF Settled
  <2> QED
    BY <1>0, <1>2, <1>3, <1>5, <2>1, OwnDevice DEF Finishes, Becomes
<1>11. CredInv' /\ ResetEndsSessions'
  BY <1>2, <1>3, <1>5, CredFrame
     DEF IInv, Finishes, Becomes, Unrevoked, Exists, Quiet
<1> QED BY <1>6, <1>8, <1>9, <1>10, <1>11 DEF IInv


\* logout-all revokes whatever is live, and disturbs the devices at work.
LEMMA LogoutAllStep ==
  ASSUME IInv, NEW p \in Procs, LogoutAll(p)
  PROVE  IInv'
<1> DEFINE I == {i \in RowIds : Unrevoked(i)}
<1>1. /\ op[p].pc = "logoutAll" /\ op[p].user \in Users /\ op[p] \in Op
      /\ op[p].device \in used /\ op[p].new = Null
  BY DEF LogoutAll, IInv, TypeOK, OpInv, OpOk, Asking
<1>2. /\ UNCHANGED <<permVersion, pwd, now, jar, used, resetGen, lost>>
      /\ disturbed' = disturbed \cup Busy(p) /\ RevokeRows(I)
  BY DEF LogoutAll
<1>3. Finishes(p, "respond")
  BY FinishStep DEF LogoutAll, IInv
<1>4. /\ rows' \in [RowIds -> Row \cup {Null}]
      /\ \A i \in RowIds \ I : rows'[i] = rows[i]
      /\ \A i \in I : /\ Exists(i)' /\ rows'[i].revoked
                      /\ rows'[i].user = rows[i].user
                      /\ rows'[i].device = rows[i].device
                      /\ rows'[i].token = rows[i].token
                      /\ rows'[i].cred = rows[i].cred
  <2>1. I \in SUBSET RowIds /\ \A i \in I : Exists(i)
    BY DEF Unrevoked
  <2> HIDE DEF I
  <2> QED BY <1>2, <2>1, RevokeType DEF IInv
<1>5. \A i \in RowIds :
        /\ Exists(i)' <=> Exists(i)
        /\ Exists(i) => /\ rows'[i].user = rows[i].user
                        /\ rows'[i].device = rows[i].device
                        /\ rows'[i].token = rows[i].token
        /\ ~Unrevoked(i)'
  BY <1>4 DEF Exists, Unrevoked
<1> HIDE DEF I
<1>6. Busy(p) \subseteq Devices
  BY DEF Busy, IInv, TypeOK, Op
<1>7. TypeOK'
  BY <1>2, <1>3, <1>4, <1>6 DEF IInv, TypeOK, Finishes, Becomes
<1>8. RowsKeep
  BY <1>5 DEF RowsKeep
<1>9. OpInv'
  <2>1. OpOk(p)'
    BY <1>1, <1>2, <1>3 DEF OpOk, Finishes, Becomes, Asking, Saving
  <2> QED BY <1>2, <1>3, <1>8, <2>1, OpFrame DEF IInv, Finishes, Becomes
<1>10. RowInv'
  BY <1>2, <1>5, <1>8, RowFrame DEF IInv
<1>11. QuietInv'
  <2> SUFFICES ASSUME NEW e \in Quiet' PROVE Settled(e)'
    BY DEF QuietInv
  <2>1. Settled(e) /\ e \in Devices
    BY <1>2 DEF IInv, QuietInv, Quiet
  <2>2. \A q \in Procs \ {p} : op[q].device # e /\ op'[q] = op[q]
    BY <1>2, <1>3, <2>1, Bounds DEF Quiet, Busy, Finishes, Becomes
  <2>3. RowsOf(e)' = RowsOf(e)
    BY <1>5 DEF RowsOf
  <2>4. op'[p].device = op[p].device
    BY <1>3 DEF Finishes, Becomes
  <2>5. CASE e # op[p].device
    BY <1>2, <1>5, <2>1, <2>2, <2>3, <2>4, <2>5, Elsewhere DEF RowsOf
  <2>6. CASE e = op[p].device
    <3>1. Stage(p, e)'
      BY <1>1, <1>3 DEF Stage, Finishes, Becomes
    <3>2. \A i, j \in RowsOf(e)' : i = j
      BY <2>1, <2>3 DEF Settled
    <3> QED BY <2>1, <2>2, <2>4, <2>6, <3>1, <3>2, Mine
  <2> QED BY <2>5, <2>6
<1>12. CredInv' /\ ResetEndsSessions'
  BY <1>2, <1>3, <1>5, CredFrame DEF IInv, Finishes, Becomes, Quiet
<1> QED BY <1>7, <1>9, <1>10, <1>11, <1>12 DEF IInv

-----------------------------------------------------------------------------
(* The password reset *)

\* resetPassword stores the next generation of the password.
LEMMA ResetPasswordStep ==
  ASSUME IInv, NEW p \in Procs, NEW u \in Users, ResetPassword(p, u)
  PROVE  IInv'
<1> DEFINE new == [Idle EXCEPT !.pc = "resetRevoke", !.user = u,
                               !.cred = pwd[u] + 1]
<1>1. /\ op[p] = Idle /\ op[p].device = Null /\ pwd[u] + 1 \in 0..MaxPwd
      /\ Becomes(p, "resetRevoke", u, Null, Null, Null, Null, pwd[u] + 1)
  <2>1. pwd[u] + 1 \in 0..MaxPwd /\ "resetRevoke" \in Labels
    BY Bounds DEF ResetPassword, IInv, TypeOK, Labels
  <2>2. new \in Op
    BY <2>1 DEF Idle, Op
  <2>3. /\ new.pc = "resetRevoke" /\ new.user = u /\ new.device = Null
        /\ new.old = Null /\ new.new = Null /\ new.row = Null
        /\ new.cred = pwd[u] + 1
    BY DEF Idle
  <2>4. op[p] = Idle /\ op' = [op EXCEPT ![p] = new]
    BY DEF ResetPassword, Begin
  <2>5. op[p].device = Null
    BY <2>4 DEF Idle
  <2> HIDE DEF new
  <2> QED BY <2>1, <2>2, <2>3, <2>4, <2>5, OpStep DEF IInv
<1>2. /\ pwd' = [pwd EXCEPT ![u] = @ + 1]
      /\ UNCHANGED <<rows, permVersion, now, jar, used, disturbed, resetGen, lost>>
  BY DEF ResetPassword
<1>3. TypeOK'
  BY <1>1, <1>2 DEF IInv, TypeOK, Becomes
<1>4. OpInv'
  <2>1. OpOk(p)'
    BY <1>1 DEF OpOk, Becomes, Asking, Saving
  <2> QED BY <1>1, <1>2, <2>1, OpFrame, SameRows DEF IInv, Becomes
<1>5. RowInv'
  BY <1>2 DEF IInv, RowInv, Exists
<1>6. QuietInv'
  <2> SUFFICES ASSUME NEW e \in Quiet PROVE Settled(e)'
    BY <1>2 DEF QuietInv, Quiet
  <2>1. Settled(e) /\ e \in Devices
    BY DEF IInv, QuietInv, Quiet
  <2>2. op[p].device # e /\ op'[p].device # e
    BY <1>1, <2>1, Bounds DEF Becomes
  <2> QED BY <1>1, <1>2, <2>1, <2>2, SameRows, Elsewhere DEF Becomes
<1>7. CredInv'
  <2>1. \A v \in Users : pwd[v] \in Nat /\ pwd'[v] \in Nat /\ pwd[v] <= pwd'[v]
    BY <1>2, Bounds DEF IInv, TypeOK
  <2>2. \A v \in Users : resetGen[v] \in Nat
    BY DEF IInv, TypeOK
  <2>3. \A v \in Users : resetGen'[v] <= pwd'[v]
    BY <1>2, <2>1, <2>2 DEF IInv, TypeOK, CredInv
  <2>4. \A q \in Procs : op'[q].pc = "resetRevoke" =>
          op'[q].cred <= pwd'[op'[q].user]
    <3>1. op'[p].cred <= pwd'[op'[p].user]
      BY <1>1, <1>2 DEF Becomes, IInv, TypeOK
    <3>2. \A q \in Procs \ {p} :
            op[q].pc = "resetRevoke" => op[q].cred <= pwd'[op[q].user]
      <4>1. \A q \in Procs : /\ op[q].cred \in Nat
                             /\ op[q].pc = "resetRevoke" => op[q].user \in Users
        BY DEF IInv, TypeOK, Op, OpInv, OpOk
      <4>2. \A q \in Procs :
              op[q].pc = "resetRevoke" => op[q].cred <= pwd[op[q].user]
        BY DEF IInv, CredInv
      <4> QED BY <2>1, <4>1, <4>2
    <3> QED BY <1>1, <3>1, <3>2 DEF Becomes
  <2>5. \A q \in Procs :
          op'[q].pc \in {"loginRead", "saveFind", "saveWrite"}
            /\ op'[q].device \in Quiet' => op'[q].cred >= resetGen'[op'[q].user]
    BY <1>1, <1>2 DEF IInv, CredInv, Becomes, Quiet
  <2> QED BY <2>3, <2>4, <2>5 DEF CredInv
<1>8. ResetEndsSessions'
  BY <1>2 DEF IInv, ResetEndsSessions, Unrevoked, Exists, Quiet
<1> QED BY <1>3, <1>4, <1>5, <1>6, <1>7, <1>8 DEF IInv

\* logoutAllDevices after it revokes the live rows of the user, and disturbs
\* the devices on which requests of the user are at work.
LEMMA ResetRevokeStep ==
  ASSUME IInv, NEW p \in Procs, ResetRevoke(p)
  PROVE  IInv'
<1> DEFINE u == op[p].user
           I == {i \in RowIds : Unrevoked(i) /\ rows[i].user = u}
<1>1. /\ op[p].pc = "resetRevoke" /\ u \in Users /\ op[p] \in Op
      /\ op[p].device = Null /\ op[p].cred <= pwd[u]
  BY DEF ResetRevoke, IInv, TypeOK, OpInv, OpOk, CredInv
<1>2. /\ UNCHANGED <<permVersion, pwd, now, jar, used, lost>>
      /\ disturbed' = disturbed \cup BusyOf(p, {u}) /\ RevokeRows(I)
      /\ resetGen' = [resetGen EXCEPT ![u] = op[p].cred]
  BY DEF ResetRevoke
<1>3. Becomes(p, "idle", Null, Null, Null, Null, Null, 0)
  <2>1. op' = [op EXCEPT ![p] = Idle]
    BY DEF ResetRevoke
  <2>2. /\ Idle.pc = "idle" /\ Idle.user = Null /\ Idle.device = Null
        /\ Idle.old = Null /\ Idle.new = Null /\ Idle.row = Null
        /\ Idle.cred = 0
    BY DEF Idle
  <2> QED BY <2>1, <2>2, IdleIsOp, OpStep DEF IInv
<1>4. /\ rows' \in [RowIds -> Row \cup {Null}]
      /\ \A i \in RowIds \ I : rows'[i] = rows[i]
      /\ \A i \in I : /\ Exists(i)' /\ rows'[i].revoked
                      /\ rows'[i].user = rows[i].user
                      /\ rows'[i].device = rows[i].device
                      /\ rows'[i].token = rows[i].token
                      /\ rows'[i].cred = rows[i].cred
  <2>1. I \in SUBSET RowIds /\ \A i \in I : Exists(i)
    BY DEF Unrevoked
  <2> HIDE DEF I
  <2> QED BY <1>2, <2>1, RevokeType DEF IInv
<1>5. \A i \in RowIds :
        /\ Exists(i)' <=> Exists(i)
        /\ Exists(i) => /\ rows'[i].user = rows[i].user
                        /\ rows'[i].device = rows[i].device
                        /\ rows'[i].token = rows[i].token
                        /\ rows'[i].cred = rows[i].cred
                        /\ rows[i].user # u =>
                             rows'[i].revoked = rows[i].revoked
        /\ Unrevoked(i)' => Unrevoked(i) /\ rows[i].user # u
  BY <1>4 DEF Exists, Unrevoked
<1> HIDE DEF I
<1>6. BusyOf(p, {u}) \subseteq Devices
  BY DEF BusyOf, IInv, TypeOK, Op
<1>7. TypeOK'
  BY <1>1, <1>2, <1>3, <1>4, <1>6 DEF IInv, TypeOK, Becomes, Op
<1>8. RowsKeep
  BY <1>5 DEF RowsKeep
<1>9. OpInv'
  <2>1. OpOk(p)'
    BY <1>3 DEF OpOk, Becomes, Asking, Saving
  <2> QED BY <1>2, <1>3, <1>8, <2>1, OpFrame DEF IInv, Becomes
<1>10. RowInv'
  BY <1>2, <1>5, <1>8, RowFrame DEF IInv
<1>11. Quiet' \subseteq Quiet
  BY <1>2 DEF Quiet
<1>12. \A q \in Procs \ {p} : op[q].device \in Quiet' => op[q].user # u
  BY <1>2, Bounds DEF Quiet, BusyOf
<1>13. QuietInv'
  <2> SUFFICES ASSUME NEW e \in Quiet' PROVE Settled(e)'
    BY DEF QuietInv
  <2>1. Settled(e) /\ e \in Devices
    BY <1>11 DEF IInv, QuietInv, Quiet
  <2>2. op[p].device # e /\ op'[p].device # e
    BY <1>1, <1>3, <2>1, Bounds DEF Becomes
  <2>3. RowsOf(e)' = RowsOf(e)
    BY <1>5 DEF RowsOf
  <2>4. \A q \in Procs : op[q].device = e \/ op'[q].device = e => op'[q] = op[q]
    BY <1>3, <2>2 DEF Becomes
  <2>5. \A i \in RowsOf(e) : /\ rows'[i].token = rows[i].token
                             /\ rows'[i].user = rows[i].user
    BY <1>5 DEF RowsOf
  <2>6. \A q \in Procs, i \in RowsOf(e) :
          op[q].device = e /\ rows[i].user = op[q].user /\ ~rows[i].revoked =>
            ~rows'[i].revoked
    BY <1>5, <1>12, <2>2 DEF RowsOf
  <2> QED BY <1>2, <2>1, <2>3, <2>4, <2>5, <2>6, Elsewhere
<1>14. CredInv'
  <2>1. \A v \in Users : resetGen'[v] <= pwd'[v]
    BY <1>1, <1>2 DEF IInv, TypeOK, CredInv
  <2>2. \A q \in Procs \ {p} :
          op[q].pc = "resetRevoke" => op[q].cred <= pwd'[op[q].user]
    BY <1>2 DEF IInv, CredInv
  <2>3. \A q \in Procs \ {p} :
          op[q].pc \in {"loginRead", "saveFind", "saveWrite"}
            /\ op[q].device \in Quiet' => op[q].cred >= resetGen'[op[q].user]
    <3>1. \A v : v # u => resetGen'[v] = resetGen[v]
      BY <1>2 DEF IInv, TypeOK
    <3> QED BY <1>11, <1>12, <3>1 DEF IInv, CredInv
  <2> QED BY <1>3, <2>1, <2>2, <2>3 DEF CredInv, Becomes
<1>15. ResetEndsSessions'
  <2>1. \A v \in Users \ {u} : resetGen'[v] = resetGen[v]
    BY <1>2 DEF IInv, TypeOK
  <2>2. \A i \in RowIds : Unrevoked(i) => rows[i].user \in Users
    BY DEF IInv, TypeOK, Unrevoked, Exists, Row
  <2> QED BY <1>5, <1>11, <2>1, <2>2 DEF IInv, ResetEndsSessions, Unrevoked
<1> QED BY <1>7, <1>9, <1>10, <1>13, <1>14, <1>15 DEF IInv


-----------------------------------------------------------------------------
(* Answers, faults and the passing of time *)

\* The response brings the browser the token of the row, or nothing.
LEMMA RespondStep ==
  ASSUME IInv, NEW p \in Procs, Respond(p)
  PROVE  IInv'
<1> DEFINE d == op[p].device
<1>1. /\ op[p].pc \in {"respond", "refused"} /\ op[p] \in Op
      /\ d \in used /\ d \in Devices
  BY DEF Respond, IInv, TypeOK, OpInv, OpOk
<1>2. /\ UNCHANGED <<rows, permVersion, pwd, now, used, disturbed, resetGen, lost>>
      /\ jar' = IF op[p].pc = "refused" THEN jar
                ELSE [jar EXCEPT ![d] = op[p].new]
  BY DEF Respond
<1>3. Becomes(p, "idle", Null, Null, Null, Null, Null, 0)
  <2>1. op' = [op EXCEPT ![p] = Idle]
    BY DEF Respond
  <2>2. /\ Idle.pc = "idle" /\ Idle.user = Null /\ Idle.device = Null
        /\ Idle.old = Null /\ Idle.new = Null /\ Idle.row = Null
        /\ Idle.cred = 0
    BY DEF Idle
  <2> QED BY <2>1, <2>2, IdleIsOp, OpStep DEF IInv
<1> HIDE DEF d
<1>4. jar' \in [Devices -> Token \cup {Null}]
  BY <1>1, <1>2 DEF IInv, TypeOK, Op, d
<1>5. TypeOK'
  BY <1>2, <1>3, <1>4 DEF IInv, TypeOK, Becomes
<1>6. OpInv'
  <2>1. OpOk(p)'
    BY <1>3 DEF OpOk, Becomes, Asking, Saving
  <2> QED BY <1>2, <1>3, <2>1, OpFrame, SameRows DEF IInv, Becomes
<1>7. \A e \in Devices \ {d} : jar'[e] = jar[e]
  BY <1>2 DEF IInv, TypeOK
<1>8. RowInv'
  BY <1>1, <1>2, <1>7 DEF IInv, RowInv, Exists
<1>9. QuietInv'
  <2> SUFFICES ASSUME NEW e \in Quiet PROVE Settled(e)'
    BY <1>2 DEF QuietInv, Quiet
  <2>1. Settled(e) /\ e \in Devices
    BY DEF IInv, QuietInv, Quiet
  <2>2. op'[p].device # e
    BY <1>3, <2>1, Bounds DEF Becomes
  <2>3. CASE e # d
    BY <1>2, <1>3, <1>7, <2>1, <2>2, <2>3, SameRows, Elsewhere DEF Becomes, d
  <2>4. CASE e = d
    <3>1. Stage(p, e) /\ \A q \in Procs \ {p} : op[q].device # e
      BY <2>1, <2>4, Alone DEF d
    <3>2. \A q \in Procs : op'[q].device # e
      BY <1>3, <2>2, <3>1 DEF Becomes
    <3>3. jar'[e] # Null => Held(e, jar'[e])
      BY <1>1, <1>2, <2>4, <3>1 DEF Stage, IInv, TypeOK
    <3>4. \A i, j \in RowsOf(e)' : i = j
      BY <1>2, <2>1, SameRows DEF Settled
    <3>5. jar'[e] # Null => Held(e, jar[e])'
      BY <1>2, <3>3 DEF Held, RowsOf, Exists
    <3> QED BY <3>2, <3>4, <3>5 DEF Settled
  <2> QED BY <2>3, <2>4
<1>10. CredInv' /\ ResetEndsSessions'
  BY <1>2, <1>3, CredFrame DEF IInv, Becomes, Unrevoked, Exists, Quiet
<1> QED BY <1>5, <1>6, <1>8, <1>9, <1>10 DEF IInv

\* A request that is lost disturbs its device.
LEMMA LostStep ==
  ASSUME IInv, NEW p \in Procs, Lost(p)
  PROVE  IInv'
<1>1. /\ UNCHANGED <<rows, permVersion, pwd, now, jar, used, resetGen>>
      /\ disturbed' = disturbed \cup ({op[p].device} \ {Null})
      /\ lost < MaxLost /\ lost' = lost + 1
  BY DEF Lost
<1>2. Becomes(p, "idle", Null, Null, Null, Null, Null, 0)
  <2>1. op' = [op EXCEPT ![p] = Idle]
    BY DEF Lost
  <2>2. /\ Idle.pc = "idle" /\ Idle.user = Null /\ Idle.device = Null
        /\ Idle.old = Null /\ Idle.new = Null /\ Idle.row = Null
        /\ Idle.cred = 0
    BY DEF Idle
  <2> QED BY <2>1, <2>2, IdleIsOp, OpStep DEF IInv
<1>3. TypeOK'
  <2>1. lost' \in 0..MaxLost
    BY <1>1, Bounds DEF IInv, TypeOK
  <2>2. disturbed' \subseteq Devices
    BY <1>1 DEF IInv, TypeOK, Op
  <2> QED BY <1>1, <1>2, <2>1, <2>2 DEF IInv, TypeOK, Becomes
<1>4. OpInv'
  <2>1. OpOk(p)'
    BY <1>2 DEF OpOk, Becomes, Asking, Saving
  <2> QED BY <1>1, <1>2, <2>1, OpFrame, SameRows DEF IInv, Becomes
<1>5. RowInv'
  BY <1>1 DEF IInv, RowInv, Exists
<1>6. QuietInv'
  <2> SUFFICES ASSUME NEW e \in Quiet' PROVE Settled(e)'
    BY DEF QuietInv
  <2>1. Settled(e) /\ e \in Devices
    BY <1>1 DEF IInv, QuietInv, Quiet
  <2>2. op[p].device # e /\ op'[p].device # e
    BY <1>1, <1>2, <2>1, Bounds DEF Becomes, Quiet
  <2> QED BY <1>1, <1>2, <2>1, <2>2, SameRows, Elsewhere DEF Becomes
<1>7. CredInv' /\ ResetEndsSessions'
  BY <1>1, <1>2, CredFrame DEF IInv, Becomes, Unrevoked, Exists, Quiet
<1> QED BY <1>3, <1>4, <1>5, <1>6, <1>7 DEF IInv

\* Role changes and the clock leave rows, cookies and requests alone.
LEMMA ClockSteps ==
  ASSUME IInv, (\E u \in Users : ChangeRole(u)) \/ Tick \/ UNCHANGED vars
  PROVE  IInv'
<1>1. UNCHANGED <<rows, pwd, jar, used, op, disturbed, resetGen, lost>>
  BY DEF ChangeRole, Tick, vars
<1>2. TypeOK'
  <2>1. permVersion' \in [Users -> 0..MaxPerm] /\ now' \in 0..MaxTime
    BY Bounds DEF IInv, TypeOK, ChangeRole, Tick, vars
  <2> QED BY <1>1, <2>1 DEF IInv, TypeOK
<1>3. OpInv' /\ RowInv'
  BY <1>1 DEF IInv, OpInv, OpOk, RowInv, Exists
<1>4. QuietInv'
  BY <1>1, SameRows, NoDevice DEF IInv, Exists
<1>5. CredInv' /\ ResetEndsSessions'
  BY <1>1 DEF IInv, CredInv, ResetEndsSessions, Unrevoked, Exists, Quiet
<1> QED BY <1>2, <1>3, <1>4, <1>5 DEF IInv

\* A row that expires is still a row.
LEMMA ExpireStep ==
  ASSUME IInv, NEW k \in RowIds, Expire(k)
  PROVE  IInv'
<1>1. UNCHANGED <<permVersion, pwd, now, jar, used, op, disturbed, resetGen, lost>>
  BY DEF Expire
<1>2. /\ rows[k] \in Row /\ rows'[k] = [rows[k] EXCEPT !.expired = TRUE]
      /\ \A i \in RowIds \ {k} : rows'[i] = rows[i]
  BY DEF Expire, Unrevoked, Exists, IInv, TypeOK
<1>3. /\ rows'[k] \in Row /\ rows'[k].token = rows[k].token
      /\ rows'[k].user = rows[k].user /\ rows'[k].device = rows[k].device
      /\ rows'[k].revoked = rows[k].revoked /\ rows'[k].cred = rows[k].cred
  BY <1>2 DEF Row
<1>4. \A i \in RowIds :
        /\ Exists(i)' <=> Exists(i)
        /\ Exists(i) => /\ rows'[i].user = rows[i].user
                        /\ rows'[i].device = rows[i].device
                        /\ rows'[i].token = rows[i].token
                        /\ rows'[i].cred = rows[i].cred
                        /\ rows'[i].revoked = rows[i].revoked
  BY <1>2, <1>3, Bounds DEF Exists
<1>5. RowsKeep
  BY <1>4 DEF RowsKeep
<1>6. TypeOK'
  <2>1. rows' \in [RowIds -> Row \cup {Null}]
    BY <1>2, <1>3 DEF Expire, IInv, TypeOK
  <2> QED BY <1>1, <2>1 DEF IInv, TypeOK
<1>7. OpInv'
  BY <1>1, <1>5 DEF IInv, OpInv, OpOk, RowsKeep
<1>8. RowInv'
  BY <1>1, <1>4, <1>5, RowFrame DEF IInv
<1>9. QuietInv'
  BY <1>1, <1>4, <1>5, NoDevice DEF RowsOf
<1>10. CredInv' /\ ResetEndsSessions'
  BY <1>1, <1>4 DEF IInv, CredInv, ResetEndsSessions, Unrevoked, Quiet
<1> QED BY <1>6, <1>7, <1>8, <1>9, <1>10 DEF IInv

-----------------------------------------------------------------------------
(* The theorems *)

\* The initial states satisfy the inductive invariant.
LEMMA InitIInv == Init => IInv
<1> SUFFICES ASSUME Init PROVE IInv
  OBVIOUS
<1>1. /\ Idle.pc = "idle" /\ Idle.device = Null
  BY DEF Idle
<1>2. TypeOK
  BY IdleIsOp, Bounds DEF Init, TypeOK
<1>3. OpInv /\ RowInv
  BY <1>1 DEF Init, OpInv, OpOk, RowInv, Exists, Asking, Saving
<1>4. QuietInv
  BY <1>1, Bounds DEF Init, QuietInv, Quiet, Settled, RowsOf, Exists
<1>5. CredInv /\ ResetEndsSessions
  BY <1>1, Bounds DEF Init, CredInv, ResetEndsSessions, Unrevoked, Exists
<1> QED BY <1>2, <1>3, <1>4, <1>5 DEF IInv

\* Every step preserves the inductive invariant.
LEMMA NextIInv == IInv /\ [Next]_vars => IInv'
  BY LoginValidateStep, LoginReadStep, StartSteps, RefreshFindStep,
     SaveFindStep, SaveWriteStep, LogoutFindStep, LogoutRevokeStep,
     LogoutAllStep, ResetPasswordStep, ResetRevokeStep, RespondStep,
     LostStep, ClockSteps, ExpireStep DEF Next

\* In every reachable state of the sessions the inductive invariant holds.
THEOREM Inductive == Spec => []IInv
  BY InitIInv, NextIInv, PTL DEF Spec

\* Rows, cookies and requests keep their types.
THEOREM TypeCorrect == Spec => []TypeOK
<1>1. IInv => TypeOK
  BY DEF IInv
<1> QED BY <1>1, Inductive, PTL

\* A device whose requests never overlapped has one refreshTokens row at most:
\* saveRefreshToken replaces the token in place.
THEOREM OneRow == Spec => []OneRowPerDevice
<1>1. IInv => OneRowPerDevice
  <2> SUFFICES ASSUME IInv, NEW d \in Quiet PROVE Cardinality(RowsOf(d)) <= 1
    BY DEF OneRowPerDevice
  <2>1. \A i, j \in RowsOf(d) : i = j
    BY DEF IInv, QuietInv, Settled
  <2>2. CASE RowsOf(d) = {}
    BY <2>2, FS_EmptySet
  <2>3. ASSUME NEW i \in RowsOf(d)
        PROVE  Cardinality(RowsOf(d)) <= 1
    <3>1. RowsOf(d) = {i}
      BY <2>1
    <3>2. Cardinality({i}) = 1
      BY FS_Singleton
    <3> QED BY <3>1, <3>2
  <2> QED BY <2>2, <2>3
<1> QED BY <1>1, Inductive, PTL

\* When nothing of such a device is in flight, the refreshToken cookie of its
\* browser is the token of its row.
THEOREM CookieMatchesRow == Spec => []CookieCurrent
<1>1. IInv => CookieCurrent
  BY DEF IInv, QuietInv, Settled, Held, CookieCurrent
<1> QED BY <1>1, Inductive, PTL

\* After logoutAllDevices of a password reset, a live session of such a device
\* was opened with the new password.
THEOREM ResetsEndSessions == Spec => []ResetEndsSessions
<1>1. IInv => ResetEndsSessions
  BY DEF IInv
<1> QED BY <1>1, Inductive, PTL


\* A request comes to be refused in the two comparisons of a refresh only.
LEMMA RefusedWhere ==
  ASSUME TypeOK, [Next]_vars, NEW p \in Procs, IsRefused(p)
  PROVE  \/ RefreshFind(p) /\ op[p].pc = "refreshFind"
         \/ SaveFind(p)
<1>1. TypeOK /\ op'[p] # op[p]
  BY DEF IsRefused
<1>2. \A q \in Procs : \A x : op' = [op EXCEPT ![q] = x] => q = p /\ op'[p] = x
  BY <1>1 DEF TypeOK
<1>3. ASSUME NEW q \in Procs,
             \/ \E u \in Users, d \in Devices : LoginValidate(q, u, d)
             \/ \E d \in Devices : \/ RefreshStart(q, d) \/ LogoutStart(q, d)
                                   \/ LogoutAllStart(q, d)
             \/ \E u \in Users : ResetPassword(q, u)
             \/ ResetRevoke(q) \/ Respond(q) \/ Lost(q)
      PROVE  FALSE
  <2>1. \E x : x.pc # "refused" /\ op' = [op EXCEPT ![q] = x]
    BY <1>3 DEF LoginValidate, RefreshStart, LogoutStart, LogoutAllStart,
       ResetPassword, ResetRevoke, Respond, Lost, Begin, Idle
  <2> QED BY <1>2, <2>1 DEF IsRefused
<1>4. ASSUME NEW q \in Procs, LoginRead(q) PROVE FALSE
  BY <1>4 DEF LoginRead, TypeOK, Op, IsRefused
<1>5. ASSUME NEW q \in Procs, SaveWrite(q) \/ LogoutRevoke(q) \/ LogoutAll(q)
      PROVE  FALSE
  <2>1. Finish(q, "respond")
    BY <1>5 DEF SaveWrite, LogoutRevoke, LogoutAll
  <2> QED BY <2>1, FinishStep DEF Finishes, Becomes, IsRefused
<1>6. ASSUME NEW q \in Procs, LogoutFind(q) PROVE FALSE
  <2>1. CASE Finish(q, "respond")
    BY <2>1, FinishStep DEF Finishes, Becomes, IsRefused
  <2>2. CASE \E i \in LogoutMatches(q) :
               op' = [op EXCEPT ![q].pc = "logoutRevoke", ![q].row = i]
    BY <2>2 DEF TypeOK, Op, IsRefused
  <2> QED BY <1>6, <2>1, <2>2 DEF LogoutFind
<1>7. ASSUME NEW q \in Procs, RefreshFind(q) PROVE RefreshFind(p)
  <2>1. \A r \in Procs \ {q} : op'[r] = op[r]
    BY <1>7 DEF RefreshFind, Finish, TypeOK
  <2> QED BY <1>1, <1>7, <2>1
<1>8. ASSUME NEW q \in Procs, SaveFind(q) PROVE SaveFind(p)
  <2>1. \A r \in Procs \ {q} : op'[r] = op[r]
    BY <1>8 DEF SaveFind, Finish, TypeOK
  <2> QED BY <1>1, <1>8, <2>1
<1>9. ASSUME \/ \E u \in Users : ChangeRole(u)
             \/ \E i \in RowIds : Expire(i)
             \/ Tick \/ UNCHANGED vars
      PROVE  FALSE
  BY <1>1, <1>9 DEF ChangeRole, Expire, Tick, vars
<1> QED
  BY <1>3, <1>4, <1>5, <1>6, <1>7, <1>8, <1>9 DEF Next, RefreshFind

\* On such a device a refresh is refused by findByRefreshToken, and only when
\* the row is revoked or expired or the permVersion has changed; the second
\* comparison, in saveRefreshToken, never refuses.
THEOREM RefusalsAreJustified == Spec => NoFalseRefusal
<1> DEFINE Justified ==
      \A p \in Procs :
       (IsRefused(p) /\ op[p].device \in Quiet) =>
         \/ permVersion[op[p].user] # op[p].old.permVersion
         \/ \A i \in RowsOf(op[p].device) : rows[i].revoked \/ rows[i].expired
<1>1. IInv /\ [Next]_vars => [Justified]_vars
  <2> SUFFICES ASSUME IInv, [Next]_vars, NEW p \in Procs, IsRefused(p),
                      op[p].device \in Quiet,
                      permVersion[op[p].user] = op[p].old.permVersion,
                      NEW i \in RowsOf(op[p].device)
               PROVE  rows[i].revoked \/ rows[i].expired
    OBVIOUS
  <2> DEFINE d == op[p].device
  <2>1. /\ Settled(d) /\ Stage(p, d) /\ OpOk(p) /\ d \in Devices
        /\ i \in RowIds /\ Exists(i) /\ rows[i].device = d
        /\ rows[i].token.sub = rows[i].user
        /\ \A j \in RowsOf(d) : j = i
    BY DEF IInv, OpInv, RowInv, QuietInv, Quiet, Settled, RowsOf
  <2>2. CASE RefreshFind(p) /\ op[p].pc = "refreshFind"
    <3>1. /\ op[p].old \in Token /\ op[p].old.sub = op[p].user
          /\ op[p].old = jar[d] /\ jar[d] # Null
      BY <2>1, <2>2, Bounds DEF OpOk, Stage
    <3>2. rows[i].token = op[p].old /\ rows[i].user = op[p].user
      BY <2>1, <2>2, <3>1 DEF Stage, Held
    <3>3. RefreshMatches(p) \subseteq {i}
      BY <2>1 DEF RefreshMatches, RowsOf, Unrevoked
    <3>4. RefreshMatches(p) = {}
      <4>1. ASSUME NEW j \in RefreshMatches(p),
                   op' = [op EXCEPT ![p].pc = "saveFind",
                                    ![p].new = Sign(op[p].user),
                                    ![p].cred = rows[j].cred]
            PROVE  FALSE
        BY <4>1 DEF IInv, TypeOK, Op, IsRefused
      <4> QED BY <2>2, <3>2, <3>3, <4>1 DEF RefreshFind
    <3> QED BY <2>1, <3>2, <3>4 DEF RefreshMatches, Unrevoked
  <2>3. CASE SaveFind(p)
    <3>1. op[p].pc = "saveFind"
      BY <2>3 DEF SaveFind
    <3>2. SaveMatches(p) \subseteq {i}
      BY <2>1 DEF SaveMatches, RowsOf, Unrevoked
    <3>3. op[p].old # Null /\ rows[i].token = op[p].old /\ i \in SaveMatches(p)
      BY <2>1, <3>1 DEF Stage, SaveMatches, Unrevoked
    <3>4. ASSUME NEW r, op' = [op EXCEPT ![p].pc = "saveWrite", ![p].row = r]
          PROVE  FALSE
      BY <3>4 DEF IInv, TypeOK, Op, IsRefused
    <3> QED BY <2>3, <3>2, <3>3, <3>4 DEF SaveFind
  <2> QED BY <2>2, <2>3, RefusedWhere DEF IInv
<1> QED BY <1>1, Inductive, PTL DEF Spec, NoFalseRefusal

=============================================================================
