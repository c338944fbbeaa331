------------------------------ MODULE Sessions ------------------------------
(***************************************************************************)
(* Refresh-token sessions of the auth-service, used through the gateway:   *)
(* login, refresh with rotation, logout-device, logout-all, and the        *)
(* password reset that ends with a logout of all devices.                  *)
(*                                                                         *)
(* A handler awaits the database several times; each database access is an *)
(* action, and its answer is used by a later one.  The browser of a device *)
(* holds the refreshToken and deviceId cookies; several tabs may send      *)
(* requests at once.  A refresh token is a JWT over (sub, permVersion,     *)
(* iat), iat in seconds: two tokens of a user signed within one second     *)
(* with one permVersion are the same string.                               *)
(***************************************************************************)
EXTENDS Naturals, FiniteSets

CONSTANTS Users, Devices, Procs, Null,
          MaxRows,   \* bound on refreshTokens rows
          MaxTime,   \* bound on the clock, in seconds
          MaxPerm,   \* bound on role changes per user
          MaxPwd,    \* bound on password resets per user
          MaxLost    \* bound on lost handlers and responses

VARIABLES
  rows,        \* refreshTokens: row id -> Row, or Null
  permVersion, \* users.permVersion
  pwd,         \* generation of users.passwordHash
  now,         \* clock in seconds
  jar,         \* refreshToken cookie in the browser of a device, or Null
  used,        \* device ids handed out by randomUUID
  op,          \* the request each process is handling
  disturbed,   \* devices on which requests overlapped or a response was lost
  resetGen,    \* password generation whose reset revoked the user's sessions
  lost

vars == <<rows, permVersion, pwd, now, jar, used, op, disturbed, resetGen, lost>>

RowIds == 1..MaxRows
Token  == [sub: Users, permVersion: 0..MaxPerm, iat: 0..MaxTime]
Row    == [user: Users, device: Devices, token: Token, revoked: BOOLEAN,
           expired: BOOLEAN, cred: 0..MaxPwd]
Labels == {"idle", "loginRead", "refreshFind", "saveFind", "saveWrite",
           "logoutFind", "logoutRevoke", "logoutAll", "resetRevoke",
           "respond", "refused"}
Op     == [pc: Labels, user: Users \cup {Null}, device: Devices \cup {Null},
           old: Token \cup {Null}, new: Token \cup {Null},
           row: RowIds \cup {Null}, cred: 0..MaxPwd]
Idle   == [pc |-> "idle", user |-> Null, device |-> Null, old |-> Null,
           new |-> Null, row |-> Null, cred |-> 0]

ASSUME SessionsAssumption ==
  /\ MaxRows \in Nat /\ MaxTime \in Nat /\ MaxPerm \in Nat
  /\ MaxPwd \in Nat /\ MaxLost \in Nat
  /\ Null \notin Users \cup Devices \cup RowIds \cup Token \cup Row

TypeOK ==
  /\ rows \in [RowIds -> Row \cup {Null}]
  /\ permVersion \in [Users -> 0..MaxPerm]
  /\ pwd \in [Users -> 0..MaxPwd]
  /\ now \in 0..MaxTime
  /\ jar \in [Devices -> Token \cup {Null}]
  /\ used \subseteq Devices
  /\ op \in [Procs -> Op]
  /\ disturbed \subseteq Devices
  /\ resetGen \in [Users -> 0..MaxPwd]
  /\ lost \in 0..MaxLost

Init ==
  /\ rows = [i \in RowIds |-> Null]
  /\ permVersion = [u \in Users |-> 0]
  /\ pwd = [u \in Users |-> 0]
  /\ now = 0
  /\ jar = [d \in Devices |-> Null]
  /\ used = {}
  /\ op = [p \in Procs |-> Idle]
  /\ disturbed = {}
  /\ resetGen = [u \in Users |-> 0]
  /\ lost = 0

-----------------------------------------------------------------------------
Exists(i)    == rows[i] # Null
Unrevoked(i) == Exists(i) /\ ~rows[i].revoked

\* jwtService.sign over the payload of issueTokens.
Sign(u) == [sub |-> u, permVersion |-> permVersion[u], iat |-> now]

\* Devices other requests are working on.
Busy(p) == {op[q].device : q \in Procs \ {p}} \ {Null}
\* ... on behalf of a user in U.
BusyOf(p, U) ==
  {op[q].device : q \in {q \in Procs \ {p} : op[q].user \in U}} \ {Null}

Begin(p, o)  == op[p] = Idle /\ op' = [op EXCEPT ![p] = o]
\* The handler is done; only its response is still on the way.
Finish(p, l) ==
  op' = [op EXCEPT ![p] = [Idle EXCEPT !.pc = l, !.user = op[p].user,
                             !.device = op[p].device, !.new = op[p].new]]

\* LocalStrategy.validate -> validateUser: the password is compared with the
\* hash stored now; login then draws a new deviceId.
LoginValidate(p, u, d) ==
  /\ d \notin used
  /\ used' = used \cup {d}
  /\ Begin(p, [Idle EXCEPT !.pc = "loginRead", !.user = u, !.device = d,
                           !.cred = pwd[u]])
  /\ UNCHANGED <<rows, permVersion, pwd, now, jar, disturbed, resetGen, lost>>

\* checkActiveEmail reads the user again; issueTokens signs a token.
LoginRead(p) ==
  /\ op[p].pc = "loginRead"
  /\ op' = [op EXCEPT ![p].pc = "saveFind", ![p].new = Sign(op[p].user)]
  /\ UNCHANGED <<rows, permVersion, pwd, now, jar, used, disturbed, resetGen, lost>>

\* A tab sends POST refresh with the cookies the browser has at that time.
RefreshStart(p, d) ==
  /\ jar[d] # Null
  /\ Begin(p, [Idle EXCEPT !.pc = "refreshFind", !.user = jar[d].sub,
                           !.device = d, !.old = jar[d]])
  /\ disturbed' = disturbed \cup ({d} \cap Busy(p))
  /\ UNCHANGED <<rows, permVersion, pwd, now, jar, used, resetGen, lost>>

\* findByRefreshToken: any live row of the user and device will do for
\* findFirst, provided the user still has the permVersion of the token; the
\* presented token must then match that row's hash.
RefreshMatches(p) ==
  {i \in RowIds : /\ Unrevoked(i) /\ ~rows[i].expired
                  /\ rows[i].user = op[p].user
                  /\ rows[i].device = op[p].device
                  /\ permVersion[op[p].user] = op[p].old.permVersion}

RefreshFind(p) ==
  /\ op[p].pc = "refreshFind"
  /\ \/ /\ RefreshMatches(p) = {}
        /\ Finish(p, "refused")
     \/ \E i \in RefreshMatches(p) :
          IF rows[i].token = op[p].old
          THEN op' = [op EXCEPT ![p].pc = "saveFind",
                                ![p].new = Sign(op[p].user),
                                ![p].cred = rows[i].cred]
          ELSE Finish(p, "refused")
  /\ UNCHANGED <<rows, permVersion, pwd, now, jar, used, disturbed, resetGen, lost>>

SaveMatches(p) ==
  {i \in RowIds : /\ Unrevoked(i)
                  /\ rows[i].user = op[p].user
                  /\ rows[i].device = op[p].device}

\* Mutant: the rotated token, not the presented one, is compared.
SaveFindNew(p) ==
  /\ op[p].pc = "saveFind"
  /\ \/ /\ SaveMatches(p) = {}
        /\ op' = [op EXCEPT ![p].pc = "saveWrite", ![p].row = Null]
     \/ \E i \in SaveMatches(p) :
          IF op[p].old # Null /\ rows[i].token # op[p].new
          THEN Finish(p, "refused")
          ELSE op' = [op EXCEPT ![p].pc = "saveWrite", ![p].row = i]
  /\ UNCHANGED <<rows, permVersion, pwd, now, jar, used, disturbed, resetGen, lost>>

\* saveRefreshToken looks for the live row of the user and device, and on a
\* refresh checks the presented token against it once more.
SaveFind(p) ==
  /\ op[p].pc = "saveFind"
  /\ \/ /\ SaveMatches(p) = {}
        /\ op' = [op EXCEPT ![p].pc = "saveWrite", ![p].row = Null]
     \/ \E i \in SaveMatches(p) :
          IF op[p].old # Null /\ rows[i].token # op[p].old
          THEN Finish(p, "refused")
          ELSE op' = [op EXCEPT ![p].pc = "saveWrite", ![p].row = i]
  /\ UNCHANGED <<rows, permVersion, pwd, now, jar, used, disturbed, resetGen, lost>>

NewRow(p) == [user |-> op[p].user, device |-> op[p].device,
              token |-> op[p].new, revoked |-> FALSE, expired |-> FALSE,
              cred |-> op[p].cred]

\* Mutant: rotation always creates a row and leaves the old one.
SaveWriteCreate(p) ==
  /\ op[p].pc = "saveWrite"
  /\ \E i \in RowIds : ~Exists(i) /\ rows' = [rows EXCEPT ![i] = NewRow(p)]
  /\ Finish(p, "respond")
  /\ UNCHANGED <<permVersion, pwd, now, jar, used, disturbed, resetGen, lost>>

\* Mutant: the update extends the session but keeps the old hash.
SaveWriteKeep(p) ==
  /\ op[p].pc = "saveWrite"
  /\ IF op[p].row # Null
     THEN rows' = [rows EXCEPT ![op[p].row].expired = FALSE]
     ELSE \E i \in RowIds : ~Exists(i) /\ rows' = [rows EXCEPT ![i] = NewRow(p)]
  /\ Finish(p, "respond")
  /\ UNCHANGED <<permVersion, pwd, now, jar, used, disturbed, resetGen, lost>>

\* The row found is updated by id, whatever happened to it since; when none
\* was found a row is created.
SaveWrite(p) ==
  /\ op[p].pc = "saveWrite"
  /\ IF op[p].row # Null
     THEN rows' = [rows EXCEPT ![op[p].row].token = op[p].new,
                               ![op[p].row].expired = FALSE]
     ELSE \E i \in RowIds :
            /\ ~Exists(i) /\ \A j \in 1..(i - 1) : Exists(j)
            /\ rows' = [rows EXCEPT ![i] = NewRow(p)]
  /\ Finish(p, "respond")
  /\ UNCHANGED <<permVersion, pwd, now, jar, used, disturbed, resetGen,
                 lost>>

-----------------------------------------------------------------------------
\* logout-device.  The guard puts { type, caller, data } in req.user, so the
\* user.id the handler passes on is undefined and findFirst filters on the
\* deviceId alone.
LogoutStart(p, d) ==
  /\ jar[d] # Null
  /\ Begin(p, [Idle EXCEPT !.pc = "logoutFind", !.user = jar[d].sub,
                           !.device = d, !.old = jar[d]])
  /\ disturbed' = disturbed \cup ({d} \cap Busy(p))
  /\ UNCHANGED <<rows, permVersion, pwd, now, jar, used, resetGen, lost>>

LogoutMatches(p) ==
  {i \in RowIds : Unrevoked(i) /\ rows[i].device = op[p].device}

LogoutFind(p) ==
  /\ op[p].pc = "logoutFind"
  /\ \/ /\ LogoutMatches(p) = {}
        /\ Finish(p, "respond")
     \/ \E i \in LogoutMatches(p) :
          IF rows[i].token = op[p].old
          THEN op' = [op EXCEPT ![p].pc = "logoutRevoke", ![p].row = i]
          ELSE Finish(p, "respond")
  /\ UNCHANGED <<rows, permVersion, pwd, now, jar, used, disturbed, resetGen, lost>>

LogoutRevoke(p) ==
  /\ op[p].pc = "logoutRevoke"
  /\ rows' = [rows EXCEPT ![op[p].row].revoked = TRUE]
  /\ Finish(p, "respond")
  /\ UNCHANGED <<permVersion, pwd, now, jar, used, disturbed, resetGen,
                 lost>>

RevokeRows(I) ==
  rows' = [i \in RowIds |-> IF i \in I THEN [rows[i] EXCEPT !.revoked = TRUE]
                            ELSE rows[i]]

\* logout-all passes the same undefined user.id to updateMany, which drops
\* the userId filter.
LogoutAllStart(p, d) ==
  /\ jar[d] # Null
  /\ Begin(p, [Idle EXCEPT !.pc = "logoutAll", !.user = jar[d].sub,
                           !.device = d])
  /\ disturbed' = disturbed \cup ({d} \cap Busy(p))
  /\ UNCHANGED <<rows, permVersion, pwd, now, jar, used, resetGen, lost>>

LogoutAll(p) ==
  /\ op[p].pc = "logoutAll"
  /\ RevokeRows({i \in RowIds : Unrevoked(i)})
  /\ disturbed' = disturbed \cup Busy(p)
  /\ Finish(p, "respond")
  /\ UNCHANGED <<permVersion, pwd, now, jar, used, resetGen, lost>>

\* forgotPasswordReset with a verified code: resetPassword stores the new
\* hash, then logoutAllDevices revokes the sessions of that user.
ResetPassword(p, u) ==
  /\ pwd[u] < MaxPwd
  /\ pwd' = [pwd EXCEPT ![u] = @ + 1]
  /\ Begin(p, [Idle EXCEPT !.pc = "resetRevoke", !.user = u,
                           !.cred = pwd[u] + 1])
  /\ UNCHANGED <<rows, permVersion, now, jar, used, disturbed, resetGen, lost>>

\* Mutant: the call of logoutAllDevices is missing.
ResetRevokeNothing(p) ==
  /\ op[p].pc = "resetRevoke"
  /\ disturbed' = disturbed \cup BusyOf(p, {op[p].user})
  /\ resetGen' = [resetGen EXCEPT ![op[p].user] = op[p].cred]
  /\ op' = [op EXCEPT ![p] = Idle]
  /\ UNCHANGED <<rows, permVersion, pwd, now, jar, used,
                 lost>>

ResetRevoke(p) ==
  /\ op[p].pc = "resetRevoke"
  /\ RevokeRows({i \in RowIds : Unrevoked(i) /\ rows[i].user = op[p].user})
  /\ disturbed' = disturbed \cup BusyOf(p, {op[p].user})
  /\ resetGen' = [resetGen EXCEPT ![op[p].user] = op[p].cred]
  /\ op' = [op EXCEPT ![p] = Idle]
  /\ UNCHANGED <<permVersion, pwd, now, jar, used, lost>>

\* A 2xx response reaches the browser with its Set-Cookie headers: the new
\* token, or cleared cookies after a logout.  The gateway does not forward
\* the Set-Cookie of a 401, so a refused refresh leaves the cookies alone.
Respond(p) ==
  /\ op[p].pc \in {"respond", "refused"}
  /\ jar' = IF op[p].pc = "refused" THEN jar
            ELSE [jar EXCEPT ![op[p].device] = op[p].new]
  /\ op' = [op EXCEPT ![p] = Idle]
  /\ UNCHANGED <<rows, permVersion, pwd, now, used, disturbed, resetGen, lost>>

\* The handler dies with the auth-service, or the gateway's timeout drops
\* its response.
Lost(p) ==
  /\ op[p] # Idle /\ lost < MaxLost
  /\ lost' = lost + 1
  /\ disturbed' = disturbed \cup ({op[p].device} \ {Null})
  /\ op' = [op EXCEPT ![p] = Idle]
  /\ UNCHANGED <<rows, permVersion, pwd, now, jar, used, resetGen>>

-----------------------------------------------------------------------------
\* assignRole or unassignRole bumps the user's permVersion.
ChangeRole(u) ==
  /\ permVersion[u] < MaxPerm
  /\ permVersion' = [permVersion EXCEPT ![u] = @ + 1]
  /\ UNCHANGED <<rows, pwd, now, jar, used, op, disturbed, resetGen, lost>>

\* expiresAt of a row passes.
Expire(i) ==
  /\ Unrevoked(i) /\ ~rows[i].expired
  /\ rows' = [rows EXCEPT ![i].expired = TRUE]
  /\ UNCHANGED <<permVersion, pwd, now, jar, used, op, disturbed, resetGen, lost>>

Tick ==
  /\ now < MaxTime
  /\ now' = now + 1
  /\ UNCHANGED <<rows, permVersion, pwd, jar, used, op, disturbed, resetGen, lost>>

Next ==
  \/ \E p \in Procs :
       \/ \E u \in Users, d \in Devices : LoginValidate(p, u, d)
       \/ \E d \in Devices : \/ RefreshStart(p, d) \/ LogoutStart(p, d)
                             \/ LogoutAllStart(p, d)
       \/ \E u \in Users : ResetPassword(p, u)
       \/ LoginRead(p) \/ RefreshFind(p) \/ SaveFind(p) \/ SaveWrite(p)
       \/ LogoutFind(p) \/ LogoutRevoke(p) \/ LogoutAll(p)
       \/ ResetRevoke(p) \/ Respond(p) \/ Lost(p)
  \/ \E u \in Users : ChangeRole(u)
  \/ \E i \in RowIds : Expire(i)
  \/ Tick

Spec == Init /\ [][Next]_vars

-----------------------------------------------------------------------------
(* Properties that hold *)

Quiet == Devices \ disturbed
RowsOf(d) == {i \in RowIds : Exists(i) /\ rows[i].device = d}

\* A device whose requests never overlapped has at most one row, live or
\* not: refresh replaces the token in place, so a rotated token is dead and
\* a session that was revoked does not come back.
OneRowPerDevice ==
  \A d \in Quiet : Cardinality(RowsOf(d)) <= 1

\* On such a device, when nothing is in flight, the browser's cookie is the
\* token of the device's row: rotation in the table and in the cookie keep
\* pace.
CookieCurrent ==
  \A d \in Quiet :
    (jar[d] # Null /\ \A p \in Procs : op[p].device # d)
      => \E i \in RowsOf(d) : rows[i].token = jar[d]

\* After a password reset revoked the user's sessions, a live session of a
\* device with no request in flight at that time was opened with the new
\* password.
ResetEndsSessions ==
  \A i \in RowIds :
    (Unrevoked(i) /\ rows[i].device \in Quiet)
      => rows[i].cred >= resetGen[rows[i].user]

IsRefused(p) == op[p].pc # "refused" /\ op'[p].pc = "refused"

\* On a device whose requests never overlapped a refresh is refused only
\* when the session was revoked or expired or the user's roles changed.
NoFalseRefusal ==
  [][\A p \in Procs :
       (IsRefused(p) /\ op[p].device \in Quiet) =>
         \/ permVersion[op[p].user] # op[p].old.permVersion
         \/ \A i \in RowsOf(op[p].device) : rows[i].revoked \/ rows[i].expired
    ]_vars

-----------------------------------------------------------------------------
(* A statement of the documentation that the code does not meet *)

\* docs/SECURITY.md, Revocation: logout-all revokes the sessions of the user
\* who asked, so a request of one user revokes no row of another.
LogoutAllIsOwn ==
  [][\A p \in Procs, i \in RowIds :
       (op[p].pc = "logoutAll" /\ Unrevoked(i) /\ rows'[i].revoked
          /\ op'[p].pc = "respond")
         => rows[i].user = op[p].user]_vars
=============================================================================
