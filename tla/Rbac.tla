-------------------------------- MODULE Rbac --------------------------------
(***************************************************************************)
(* Roles, permVersion and the permission cache: RolesService of the        *)
(* auth-service changes roles in the database and then touches the Redis   *)
(* hash of the user; PermissionGuard of every service reads that hash,     *)
(* and on a miss asks the auth-service and writes the hash itself.         *)
(*                                                                         *)
(* Each database access, Redis command and HTTP exchange is an action.  A  *)
(* role is its id: ids are never reused, names and the 409 on a duplicate  *)
(* name (which changes nothing) are left out.                              *)
(***************************************************************************)
EXTENDS Naturals

CONSTANTS Users, Roles, Perms, Null,
          Admins,      \* concurrent requests to RolesController
          Guards,      \* concurrent requests in PermissionGuard
          MaxVer,      \* bound on permVersion
          MaxEdits,    \* bound on create, update and remove requests
          MaxFaults    \* bound on requests that fail or die half way

ASSUME RbacAssumption ==
  /\ MaxVer \in Nat /\ MaxEdits \in Nat /\ MaxFaults \in Nat
  /\ Null \notin Users \cup Roles

VARIABLES
  status,      \* roles table: "absent", "live" or "gone"
  rolePerms,   \* role_permissions
  userRoles,   \* user_roles
  permVersion, \* users.permVersion
  cache,       \* Redis hash permissions:user:<id>: or Null
  tokens,      \* permVersions of the access tokens a user holds
  adm,         \* RolesService requests
  grd,         \* PermissionGuard requests
  raced,       \* users whose permVersion was written from a stale read
  edited,      \* users with a role that was edited or removed under them
  overlapped,  \* users whose role change met a fetch already read, or died
  edits, faults

vars == <<status, rolePerms, userRoles, permVersion, cache, tokens, adm, grd,
          raced, edited, overlapped, edits, faults>>
db      == <<status, rolePerms, userRoles, permVersion>>
history == <<raced, edited, overlapped>>
bounds  == <<edits, faults>>

Versions == 0..MaxVer
Entry == [ver: Versions, perms: SUBSET Perms]
Adm   == [pc: {"idle", "addPerms", "deletePerms", "checkUserRole", "tx",
               "exists", "set"},
          kind: {"create", "update", "assign", "unassign"},
          user: Users \cup {Null}, role: Roles \cup {Null},
          ver: Versions, todo: SUBSET Perms]
Grd   == [pc: {"idle", "fetch", "store", "decide"}, user: Users \cup {Null},
          ver: Versions, perms: SUBSET Perms]
IdleAdm == [pc |-> "idle", kind |-> "create", user |-> Null, role |-> Null,
            ver |-> 0, todo |-> {}]
IdleGrd == [pc |-> "idle", user |-> Null, ver |-> 0, perms |-> {}]

TypeOK ==
  /\ status \in [Roles -> {"absent", "live", "gone"}]
  /\ rolePerms \in [Roles -> SUBSET Perms]
  /\ userRoles \in [Users -> SUBSET Roles]
  /\ permVersion \in [Users -> Versions]
  /\ cache \in [Users -> Entry \cup {Null}]
  /\ tokens \in [Users -> SUBSET Versions]
  /\ adm \in [Admins -> Adm]
  /\ grd \in [Guards -> Grd]
  /\ raced \subseteq Users /\ edited \subseteq Users
  /\ overlapped \subseteq Users
  /\ edits \in 0..MaxEdits /\ faults \in 0..MaxFaults

\* The seed leaves some roles with permissions; users come with any of them.
Init ==
  /\ status \in [Roles -> {"absent", "live"}]
  /\ rolePerms \in [Roles -> SUBSET Perms]
  /\ \A r \in Roles : status[r] = "absent" => rolePerms[r] = {}
  /\ userRoles \in [Users -> SUBSET {r \in Roles : status[r] = "live"}]
  /\ permVersion = [u \in Users |-> 0]
  /\ cache = [u \in Users |-> Null]
  /\ tokens = [u \in Users |-> {}]
  /\ adm = [a \in Admins |-> IdleAdm]
  /\ grd = [g \in Guards |-> IdleGrd]
  /\ raced = {} /\ edited = {} /\ overlapped = {}
  /\ edits = 0 /\ faults = 0

-----------------------------------------------------------------------------
(* RolesService: create, update, remove *)

EndAdm(a)     == adm' = [adm EXCEPT ![a] = IdleAdm]
HoldersOf(r)  == {u \in Users : r \in userRoles[u]}
EditPerms(r, P) ==
  /\ rolePerms' = [rolePerms EXCEPT ![r] = P]
  /\ edited' = edited \cup HoldersOf(r)

BeginEdit(a, r, k, l, P) ==
  /\ adm[a] = IdleAdm /\ edits < MaxEdits
  /\ edits' = edits + 1
  /\ adm' = [adm EXCEPT ![a] = [pc |-> l, kind |-> k, user |-> Null,
                                  role |-> r, ver |-> 0, todo |-> P]]

\* create: the role row is written before the permission ids are checked.
CreateRole(a, r, P) ==
  /\ status[r] = "absent"
  /\ BeginEdit(a, r, "create", "addPerms", P)
  /\ status' = [status EXCEPT ![r] = "live"]
  /\ UNCHANGED <<rolePerms, userRoles, permVersion, cache, tokens, grd,
                 history, faults>>

\* update: findOne and role.update, then the permissions are replaced.
UpdateRole(a, r, P) ==
  /\ status[r] = "live"
  /\ BeginEdit(a, r, "update", "deletePerms", P)
  /\ UNCHANGED <<db, cache, tokens, grd, history, faults>>

DeletePerms(a) ==
  /\ adm[a].pc = "deletePerms"
  /\ EditPerms(adm[a].role, {})
  /\ adm' = [adm EXCEPT ![a].pc = "addPerms"]
  /\ UNCHANGED <<status, userRoles, permVersion, cache, tokens, grd, raced,
                 overlapped, bounds>>

\* One insert per permission.  create upserts; update inserts and dies on a
\* row that is there already; both die when the role is gone.
AddPerms(a) ==
  LET r == adm[a].role
  IN  /\ adm[a].pc = "addPerms"
      /\ \/ /\ adm[a].todo = {}
            /\ EndAdm(a)
            /\ UNCHANGED <<rolePerms, edited>>
         \/ \E p \in adm[a].todo :
              IF \/ status[r] # "live"
                 \/ adm[a].kind = "update" /\ p \in rolePerms[r]
              THEN EndAdm(a) /\ UNCHANGED <<rolePerms, edited>>
              ELSE /\ EditPerms(r, rolePerms[r] \cup {p})
                   /\ adm' = [adm EXCEPT ![a].todo = @ \ {p}]
      /\ UNCHANGED <<status, userRoles, permVersion, cache, tokens, grd,
                     raced, overlapped, bounds>>

\* remove: the delete cascades to role_permissions and user_roles.
RemoveRole(r) ==
  /\ status[r] = "live" /\ edits < MaxEdits
  /\ edits' = edits + 1
  /\ status' = [status EXCEPT ![r] = "gone"]
  /\ EditPerms(r, {})
  /\ userRoles' = [u \in Users |-> userRoles[u] \ {r}]
  /\ UNCHANGED <<permVersion, cache, tokens, adm, grd, raced, overlapped,
                 faults>>

-----------------------------------------------------------------------------
(* RolesService: assignRole, unassignRole *)

\* Both look the role up and read the user, with its permVersion.
ReadUser(a, u, r, k) ==
  /\ adm[a] = IdleAdm /\ status[r] = "live" /\ permVersion[u] < MaxVer
  /\ adm' = [adm EXCEPT ![a] = [IdleAdm EXCEPT !.pc = "checkUserRole",
                                  !.kind = k, !.user = u, !.role = r,
                                  !.ver = permVersion[u]]]
  /\ UNCHANGED <<db, cache, tokens, grd, history, bounds>>

\* 400 when the user already has the role, or does not have it.
CheckUserRole(a) ==
  /\ adm[a].pc = "checkUserRole"
  /\ IF (adm[a].kind = "assign") = (adm[a].role \in userRoles[adm[a].user])
     THEN EndAdm(a)
     ELSE adm' = [adm EXCEPT ![a].pc = "tx"]
  /\ UNCHANGED <<db, cache, tokens, grd, history, bounds>>

\* A fetch of u that has read the database and not yet written the cache.
StorePending(u) == \E g \in Guards : grd[g].pc = "store" /\ grd[g].user = u

\* The transaction changes user_roles and stores the version read earlier
\* plus one.  Assigning a role that is gone violates the foreign key.
ChangeTx(a) ==
  LET u == adm[a].user  r == adm[a].role
  IN  /\ adm[a].pc = "tx"
      /\ \/ /\ adm[a].kind = "assign" /\ status[r] # "live"
            /\ EndAdm(a)
            /\ UNCHANGED <<userRoles, permVersion, raced, overlapped>>
         \/ /\ adm[a].kind = "assign" => status[r] = "live"
            /\ userRoles' = [userRoles EXCEPT ![u] =
                               IF adm[a].kind = "assign" THEN @ \cup {r}
                               ELSE @ \ {r}]
            /\ permVersion' = [permVersion EXCEPT ![u] = adm[a].ver + 1]
            /\ raced' = IF adm[a].ver = permVersion[u] THEN raced
                        ELSE raced \cup {u}
            /\ overlapped' = IF StorePending(u) THEN overlapped \cup {u}
                             ELSE overlapped
            /\ adm' = [adm EXCEPT ![a].pc = "exists"]
      /\ UNCHANGED <<status, rolePerms, cache, tokens, grd, edited, bounds>>

\* updatePermVersion: EXISTS, then HSET of the new version and no
\* permissions.
CacheExists(a) ==
  /\ adm[a].pc = "exists"
  /\ IF cache[adm[a].user] = Null THEN EndAdm(a)
     ELSE adm' = [adm EXCEPT ![a].pc = "set"]
  /\ UNCHANGED <<db, cache, tokens, grd, history, bounds>>

\* Mutant: the version is renewed and the permissions are kept.
CacheSetKeep(a) ==
  /\ adm[a].pc = "set"
  /\ cache' = [cache EXCEPT ![adm[a].user].ver = adm[a].ver + 1]
  /\ EndAdm(a)
  /\ UNCHANGED <<db, tokens, grd, history, bounds>>

CacheSet(a) ==
  /\ adm[a].pc = "set"
  /\ cache' = [cache EXCEPT ![adm[a].user] =
                 [ver |-> adm[a].ver + 1, perms |-> {}]]
  /\ EndAdm(a)
  /\ UNCHANGED <<db, tokens, grd, history, bounds>>

\* A statement fails, or the auth-service dies: what was done stays done.
AdminFails(a) ==
  /\ adm[a] # IdleAdm /\ faults < MaxFaults
  /\ faults' = faults + 1
  /\ overlapped' = IF adm[a].pc \in {"exists", "set"}
                   THEN overlapped \cup {adm[a].user} ELSE overlapped
  /\ EndAdm(a)
  /\ UNCHANGED <<db, cache, tokens, grd, raced, edited, edits>>

-----------------------------------------------------------------------------
(* PermissionGuard with PermissionProvider *)

\* Mutant: the token is signed with the next version.
SignTokenNext(u) ==
  /\ permVersion[u] \notin tokens[u]
  /\ tokens' = [tokens EXCEPT ![u] = @ \cup {permVersion[u] + 1}]
  /\ UNCHANGED <<db, cache, adm, grd, history, bounds>>

\* Login or refresh: the token carries the permVersion of now.
SignToken(u) ==
  /\ permVersion[u] \notin tokens[u]
  /\ tokens' = [tokens EXCEPT ![u] = @ \cup {permVersion[u]}]
  /\ UNCHANGED <<db, cache, adm, grd, history, bounds>>

TokenExpires(u, v) ==
  /\ v \in tokens[u]
  /\ tokens' = [tokens EXCEPT ![u] = @ \ {v}]
  /\ UNCHANGED <<db, cache, adm, grd, history, bounds>>

\* getPermissionCodesForUser
PermsOf(u) == UNION {rolePerms[r] : r \in userRoles[u]}

\* PermissionCache.get followed by the length test: no entry, another
\* version and no permissions are all a miss.
Hit(u, v) == IF cache[u] = Null THEN FALSE
             ELSE cache[u].ver = v /\ cache[u].perms # {}

CacheGet(g, u, v) ==
  /\ grd[g] = IdleGrd /\ v \in tokens[u]
  /\ grd' = [grd EXCEPT ![g] =
       IF Hit(u, v)
       THEN [pc |-> "decide", user |-> u, ver |-> v, perms |-> cache[u].perms]
       ELSE [IdleGrd EXCEPT !.pc = "fetch", !.user = u, !.ver = v]]
  /\ UNCHANGED <<db, cache, tokens, adm, history, bounds>>

\* GET roles/users/:userId/permissions.
Fetch(g) ==
  /\ grd[g].pc = "fetch"
  /\ grd' = [grd EXCEPT ![g].pc = "store", ![g].perms = PermsOf(grd[g].user)]
  /\ UNCHANGED <<db, cache, tokens, adm, history, bounds>>

\* Mutant: the entry is stamped with the version the user has now.
StoreNow(g) ==
  /\ grd[g].pc = "store"
  /\ cache' = [cache EXCEPT ![grd[g].user] =
                 [ver |-> permVersion[grd[g].user], perms |-> grd[g].perms]]
  /\ grd' = [grd EXCEPT ![g].pc = "decide"]
  /\ UNCHANGED <<db, tokens, adm, history, bounds>>

\* cache.set with the version of the token, not of the database.
Store(g) ==
  /\ grd[g].pc = "store"
  /\ cache' = [cache EXCEPT ![grd[g].user] =
                 [ver |-> grd[g].ver, perms |-> grd[g].perms]]
  /\ grd' = [grd EXCEPT ![g].pc = "decide"]
  /\ UNCHANGED <<db, tokens, adm, history, bounds>>

\* hasPermission grants or refuses on these permissions.
Decide(g) ==
  /\ grd[g].pc = "decide"
  /\ grd' = [grd EXCEPT ![g] = IdleGrd]
  /\ UNCHANGED <<db, cache, tokens, adm, history, bounds>>

\* 5 s timeout, an error status, Redis down: the request ends with 5xx.
GuardFails(g) ==
  /\ grd[g].pc \in {"fetch", "store"} /\ faults < MaxFaults
  /\ faults' = faults + 1
  /\ grd' = [grd EXCEPT ![g] = IdleGrd]
  /\ UNCHANGED <<db, cache, tokens, adm, history, edits>>

Next ==
  \/ \E a \in Admins :
       \/ \E r \in Roles, P \in SUBSET Perms : CreateRole(a, r, P)
                                               \/ UpdateRole(a, r, P)
       \/ \E u \in Users, r \in Roles, k \in {"assign", "unassign"} :
            ReadUser(a, u, r, k)
       \/ DeletePerms(a) \/ AddPerms(a) \/ CheckUserRole(a) \/ ChangeTx(a)
       \/ CacheExists(a) \/ CacheSet(a) \/ AdminFails(a)
  \/ \E r \in Roles : RemoveRole(r)
  \/ \E u \in Users : SignToken(u)
  \/ \E u \in Users, v \in Versions : TokenExpires(u, v)
  \/ \E g \in Guards :
       \/ \E u \in Users, v \in Versions : CacheGet(g, u, v)
       \/ Fetch(g) \/ Store(g) \/ Decide(g) \/ GuardFails(g)

Spec == Init /\ [][Next]_vars

-----------------------------------------------------------------------------
(* Properties that hold *)

\* The promise of permVersion: a request whose token has the user's current
\* version is never served outdated permissions from the cache, however
\* fetches, role changes, crashes and tokens of older versions interleave.
\* It is void for users whose roles were edited or whose version was written
\* from a stale read.
CurrentTokenCurrentPerms ==
  [][\A g \in Guards :
       LET u == grd'[g].user
       IN  (/\ grd[g].pc = "idle" /\ grd'[g].pc = "decide"
            /\ u \notin raced \cup edited /\ grd'[g].ver = permVersion[u])
             => grd'[g].perms = PermsOf(u)]_vars

\* updatePermVersion empties the entry, so that tokens of the old version
\* lose the permissions as well: once a role change is through, a non-empty
\* entry of any version is current, unless a fetch straddled the change, a
\* request died in it or the role itself was edited.
ChangeReachesOldTokens ==
  \A u \in Users \ (edited \cup overlapped) :
    (\A a \in Admins : ~(adm[a].user = u /\ adm[a].pc \in {"exists", "set"}))
      => \A v \in Versions : Hit(u, v) => cache[u].perms = PermsOf(u)
=============================================================================
