----------------------------- MODULE RbacProofs -----------------------------
(***************************************************************************)
(* Proof that the version stamped on a cache entry protects the tokens of  *)
(* the current version, for any number of users, roles, permissions,       *)
(* administrators and guards.                                              *)
(***************************************************************************)
EXTENDS Rbac, TLAPS

\* Where a request of RolesService is, its user and role are real, and a
\* version bump it has made is visible in the user's row.
AdmInv ==
  \A a \in Admins :
    /\ adm[a].pc \in {"addPerms", "deletePerms"} => adm[a].role \in Roles
    /\ adm[a].pc \in {"checkUserRole", "tx", "exists", "set"} =>
         /\ adm[a].user \in Users /\ adm[a].role \in Roles
         /\ adm[a].ver < MaxVer
    /\ (adm[a].pc \in {"exists", "set"} /\ adm[a].user \notin raced) =>
         adm[a].ver + 1 <= permVersion[adm[a].user]

\* No token, guard or cache entry carries a version from the future.
TokenInv ==
  \A u \in Users \ raced : \A v \in tokens[u] : v <= permVersion[u]
GuardInv ==
  \A g \in Guards : grd[g].pc # "idle" =>
    /\ grd[g].user \in Users
    /\ grd[g].user \notin raced => grd[g].ver <= permVersion[grd[g].user]
CacheVerInv ==
  \A u \in Users \ raced : cache[u] # Null => cache[u].ver <= permVersion[u]

Trusted == Users \ (raced \cup edited)

\* What is cached, or about to be, under the current version is current.
CacheInv ==
  \A u \in Trusted : Hit(u, permVersion[u]) => cache[u].perms = PermsOf(u)
StoreInv ==
  \A g \in Guards :
    (/\ grd[g].pc = "store" /\ grd[g].user \in Trusted
     /\ grd[g].ver = permVersion[grd[g].user])
      => grd[g].perms = PermsOf(grd[g].user)

IInv == /\ TypeOK /\ AdmInv /\ TokenInv /\ GuardInv /\ CacheVerInv
        /\ CacheInv /\ StoreInv

\* Changing the permissions of a role changes them only for its holders,
\* who become edited.
LEMMA EditKeepsPerms ==
  ASSUME TypeOK, NEW r \in Roles, NEW P \in SUBSET Perms, EditPerms(r, P),
         UNCHANGED userRoles
  PROVE  \A u \in Users \ edited' : PermsOf(u)' = PermsOf(u)
  BY DEF EditPerms, PermsOf, HoldersOf, TypeOK

\* Removing a role takes it away from its holders only.
LEMMA RemoveKeepsPerms ==
  ASSUME TypeOK, NEW r \in Roles, EditPerms(r, {}),
         userRoles' = [u \in Users |-> userRoles[u] \ {r}]
  PROVE  \A u \in Users \ edited' : PermsOf(u)' = PermsOf(u)
<1> SUFFICES ASSUME NEW u \in Users \ edited' PROVE PermsOf(u)' = PermsOf(u)
  OBVIOUS
<1>1. r \notin userRoles[u]
  BY DEF EditPerms, HoldersOf
<1>2. userRoles'[u] = userRoles[u]
  BY <1>1
<1>3. \A q \in userRoles[u] : rolePerms'[q] = rolePerms[q]
  BY <1>1 DEF EditPerms, TypeOK
<1> QED
  BY <1>2, <1>3 DEF PermsOf

\* getPermissionCodesForUser returns permissions.
LEMMA PermsOfType ==
  ASSUME TypeOK, NEW u \in Users
  PROVE  PermsOf(u) \in SUBSET Perms
  BY DEF PermsOf, TypeOK

\* An action that leaves the variables of a conjunct alone preserves it.
LEMMA AdmFrame ==
  ASSUME AdmInv, UNCHANGED <<adm, permVersion, raced>>
  PROVE  AdmInv'
  BY DEF AdmInv

\* Tokens are signed and expire at the versions of their users.
LEMMA TokenFrame ==
  ASSUME TokenInv, UNCHANGED <<tokens, permVersion, raced>>
  PROVE  TokenInv'
  BY DEF TokenInv

\* A guard keeps the version of the token it was given.
LEMMA GuardFrame ==
  ASSUME GuardInv, UNCHANGED <<grd, permVersion, raced>>
  PROVE  GuardInv'
  BY DEF GuardInv

\* A cache entry keeps its version until it is written.
LEMMA CacheVerFrame ==
  ASSUME CacheVerInv, UNCHANGED <<cache, permVersion, raced>>
  PROVE  CacheVerInv'
  BY DEF CacheVerInv

\* What is cached stays current as long as roles and cache are left alone.
LEMMA CacheFrame ==
  ASSUME CacheInv, UNCHANGED <<cache, permVersion, userRoles, rolePerms>>,
         UNCHANGED <<raced, edited>>
  PROVE  CacheInv'
  BY DEF CacheInv, Trusted, Hit, PermsOf

\* So does what a guard is about to store.
LEMMA StoreFrame ==
  ASSUME StoreInv, UNCHANGED <<grd, permVersion, userRoles, rolePerms>>,
         UNCHANGED <<raced, edited>>
  PROVE  StoreInv'
  BY DEF StoreInv, Trusted, PermsOf

\* An action preserves both that changes the permissions of edited users only.
LEMMA EditFrame ==
  ASSUME CacheInv, StoreInv, edited \subseteq edited',
         UNCHANGED <<cache, grd, permVersion, raced>>,
         \A w \in Users \ edited' : PermsOf(w)' = PermsOf(w)
  PROVE  CacheInv' /\ StoreInv'
  BY DEF CacheInv, StoreInv, Trusted, Hit

\* The initial states satisfy the inductive invariant.
LEMMA InitIInv == Init => IInv
  BY RbacAssumption DEF Init, IInv, TypeOK, AdmInv, TokenInv, GuardInv, CacheVerInv,
     CacheInv, StoreInv, IdleAdm, IdleGrd, Adm, Grd, Versions, Hit, Trusted

\* Every step preserves the inductive invariant.
LEMMA NextIInv == IInv /\ [Next]_vars => IInv'
<1> SUFFICES ASSUME IInv, [Next]_vars PROVE IInv'
  OBVIOUS
<1> USE RbacAssumption DEF db, history, bounds
<1>1. ASSUME NEW a \in Admins, NEW r \in Roles, NEW P \in SUBSET Perms,
                    CreateRole(a, r, P)
     PROVE  IInv'
  <2>1. TypeOK'
    <3> DEFINE new == [pc |-> "addPerms", kind |-> "create", user |-> Null,
                       role |-> r, ver |-> 0, todo |-> P]
    <3>1. new \in Adm
      BY DEF Adm, Versions
    <3>2. adm' \in [Admins -> Adm]
      BY <1>1, <3>1 DEF IInv, TypeOK, CreateRole, BeginEdit
    <3> QED
      BY <1>1, <3>2 DEF IInv, TypeOK, CreateRole, BeginEdit
  <2>3. AdmInv'
    BY <1>1, <2>1 DEF IInv, TypeOK, AdmInv, CreateRole, BeginEdit
  <2>4. TokenInv'
    BY <1>1, TokenFrame DEF IInv, CreateRole
  <2>5. GuardInv'
    BY <1>1, GuardFrame DEF IInv, CreateRole
  <2>6. CacheVerInv'
    BY <1>1, CacheVerFrame DEF IInv, CreateRole
  <2>7. CacheInv'
    BY <1>1, CacheFrame DEF IInv, CreateRole
  <2>8. StoreInv'
    BY <1>1, StoreFrame DEF IInv, CreateRole
  <2> QED BY <2>1, <2>3, <2>4, <2>5, <2>6, <2>7, <2>8 DEF IInv
<1>2. ASSUME NEW a \in Admins, NEW r \in Roles, NEW P \in SUBSET Perms,
                    UpdateRole(a, r, P)
     PROVE  IInv'
  <2>1. TypeOK'
    <3> DEFINE new == [pc |-> "deletePerms", kind |-> "update", user |-> Null,
                       role |-> r, ver |-> 0, todo |-> P]
    <3>1. new \in Adm
      BY DEF Adm, Versions
    <3>2. adm' \in [Admins -> Adm]
      BY <1>2, <3>1 DEF IInv, TypeOK, UpdateRole, BeginEdit
    <3> QED
      BY <1>2, <3>2 DEF IInv, TypeOK, UpdateRole, BeginEdit
  <2>3. AdmInv'
    BY <1>2, <2>1 DEF IInv, TypeOK, AdmInv, UpdateRole, BeginEdit
  <2>4. TokenInv'
    BY <1>2, TokenFrame DEF IInv, UpdateRole
  <2>5. GuardInv'
    BY <1>2, GuardFrame DEF IInv, UpdateRole
  <2>6. CacheVerInv'
    BY <1>2, CacheVerFrame DEF IInv, UpdateRole
  <2>7. CacheInv'
    BY <1>2, CacheFrame DEF IInv, UpdateRole
  <2>8. StoreInv'
    BY <1>2, StoreFrame DEF IInv, UpdateRole
  <2> QED BY <2>1, <2>3, <2>4, <2>5, <2>6, <2>7, <2>8 DEF IInv
<1>3. ASSUME NEW a \in Admins, NEW u \in Users, NEW r \in Roles,
                    NEW k \in {"assign", "unassign"},
                    ReadUser(a, u, r, k)
     PROVE  IInv'
  <2>1. TypeOK'
    BY <1>3 DEF IInv, TypeOK, ReadUser, Adm, IdleAdm
  <2>3. AdmInv'
    BY <1>3, <2>1 DEF IInv, TypeOK, AdmInv, GuardInv, ReadUser, Adm, Grd, Entry,
       Versions, IdleAdm, IdleGrd
  <2>4. TokenInv'
    BY <1>3, TokenFrame DEF IInv, ReadUser
  <2>5. GuardInv'
    BY <1>3, GuardFrame DEF IInv, ReadUser
  <2>6. CacheVerInv'
    BY <1>3, CacheVerFrame DEF IInv, ReadUser
  <2>7. CacheInv'
    BY <1>3, CacheFrame DEF IInv, ReadUser
  <2>8. StoreInv'
    BY <1>3, StoreFrame DEF IInv, ReadUser
  <2> QED BY <2>1, <2>3, <2>4, <2>5, <2>6, <2>7, <2>8 DEF IInv
<1>4. ASSUME NEW a \in Admins,
                    DeletePerms(a)
     PROVE  IInv'
  <2>1. TypeOK'
    <3>1. adm[a].role \in Roles /\ [adm[a] EXCEPT !.pc = "addPerms"] \in Adm
      BY <1>4 DEF IInv, TypeOK, AdmInv, DeletePerms, Adm
    <3>2. adm' \in [Admins -> Adm]
      BY <1>4, <3>1 DEF IInv, TypeOK, DeletePerms
    <3> QED
      BY <1>4, <3>1, <3>2 DEF IInv, TypeOK, DeletePerms, EditPerms, HoldersOf
  <2>2. \A w \in Users \ edited' : PermsOf(w)' = PermsOf(w)
    <3>1. adm[a].role \in Roles /\ EditPerms(adm[a].role, {})
          /\ UNCHANGED userRoles
      BY <1>4 DEF IInv, AdmInv, DeletePerms
    <3> QED
      BY <3>1, EditKeepsPerms DEF IInv
  <2>3. AdmInv'
    BY <1>4, <2>1 DEF IInv, TypeOK, AdmInv, DeletePerms
  <2>4. TokenInv'
    BY <1>4, TokenFrame DEF IInv, DeletePerms
  <2>5. GuardInv'
    BY <1>4, GuardFrame DEF IInv, DeletePerms
  <2>6. CacheVerInv'
    BY <1>4, CacheVerFrame DEF IInv, DeletePerms
  <2>7. CacheInv'
    BY <1>4, <2>2, EditFrame DEF IInv, DeletePerms, EditPerms
  <2>8. StoreInv'
    BY <1>4, <2>2, EditFrame DEF IInv, DeletePerms, EditPerms
  <2> QED BY <2>1, <2>3, <2>4, <2>5, <2>6, <2>7, <2>8 DEF IInv
<1>5. ASSUME NEW a \in Admins,
                    AddPerms(a)
     PROVE  IInv'
  <2>1. TypeOK'
    <3>1. IdleAdm \in Adm
      BY DEF IdleAdm, Adm, Versions
    <3>2. adm[a].role \in Roles
          /\ \A p : [adm[a] EXCEPT !.todo = @ \ {p}] \in Adm
      BY <1>5 DEF IInv, TypeOK, AdmInv, AddPerms, Adm
    <3>6. adm' = [adm EXCEPT ![a] = IdleAdm]
          \/ \E p : adm' = [adm EXCEPT ![a] = [adm[a] EXCEPT !.todo = @ \ {p}]]
      BY <1>5 DEF AddPerms, EndAdm
    <3>7. \A o \in Adm : [adm EXCEPT ![a] = o] \in [Admins -> Adm]
      BY DEF IInv, TypeOK
    <3>3. adm' \in [Admins -> Adm]
      BY <3>1, <3>2, <3>6, <3>7
    <3>4. adm[a].todo \subseteq Perms
      BY DEF IInv, TypeOK, Adm
    <3>5. rolePerms' \in [Roles -> SUBSET Perms] /\ edited' \subseteq Users
      BY <1>5, <3>2, <3>4 DEF IInv, TypeOK, AddPerms, EditPerms, HoldersOf
    <3> QED
      BY <1>5, <3>3, <3>5 DEF IInv, TypeOK, AddPerms
  <2>2. \A w \in Users \ edited' : PermsOf(w)' = PermsOf(w)
    <3>1. adm[a].role \in Roles /\ adm[a].todo \subseteq Perms
          /\ UNCHANGED userRoles
      BY <1>5 DEF IInv, TypeOK, AdmInv, AddPerms, Adm
    <3>2. CASE UNCHANGED rolePerms
      BY <3>1, <3>2 DEF PermsOf
    <3>3. CASE \E p \in adm[a].todo :
                 EditPerms(adm[a].role, rolePerms[adm[a].role] \cup {p})
      BY <3>1, <3>3, EditKeepsPerms DEF IInv, TypeOK
    <3> QED
      BY <1>5, <3>2, <3>3 DEF AddPerms
  <2>3. AdmInv'
    BY <1>5, <2>1 DEF IInv, TypeOK, AdmInv, TokenInv, GuardInv, CacheVerInv,
       AddPerms, EditPerms, EndAdm, HoldersOf, Adm, Grd, Entry, Versions, IdleAdm
  <2>4. TokenInv'
    BY <1>5, TokenFrame DEF IInv, AddPerms
  <2>5. GuardInv'
    BY <1>5, GuardFrame DEF IInv, AddPerms
  <2>6. CacheVerInv'
    BY <1>5, CacheVerFrame DEF IInv, AddPerms
  <2>7. CacheInv'
    BY <1>5, <2>2, EditFrame DEF IInv, AddPerms, EditPerms
  <2>8. StoreInv'
    BY <1>5, <2>2, EditFrame DEF IInv, AddPerms, EditPerms
  <2> QED BY <2>1, <2>3, <2>4, <2>5, <2>6, <2>7, <2>8 DEF IInv
<1>6. ASSUME NEW a \in Admins,
                    CheckUserRole(a)
     PROVE  IInv'
  <2>1. TypeOK'
    <3>1. IdleAdm \in Adm
      BY DEF IdleAdm, Adm, Versions
    <3>2. [adm[a] EXCEPT !.pc = "tx"] \in Adm
      BY DEF IInv, TypeOK, Adm
    <3>3. adm' \in [Admins -> Adm]
      BY <1>6, <3>1, <3>2 DEF IInv, TypeOK, CheckUserRole, EndAdm
    <3> QED
      BY <1>6, <3>3 DEF IInv, TypeOK, CheckUserRole
  <2>3. AdmInv'
    <3>1. \A b \in Admins : \/ adm'[b] = adm[b] \/ adm'[b] = IdleAdm
             \/ /\ adm[b].pc = "checkUserRole"
                /\ adm'[b] = [adm[b] EXCEPT !.pc = "tx"]
      BY <1>6 DEF IInv, TypeOK, CheckUserRole, EndAdm
    <3>2. UNCHANGED <<raced, permVersion>>
      BY <1>6 DEF CheckUserRole
    <3>3. SUFFICES ASSUME NEW b \in Admins
                   PROVE  AdmInv!(b)'
      BY DEF AdmInv
    <3>4. CASE adm'[b] = adm[b]
      BY <3>2, <3>4 DEF IInv, AdmInv
    <3>5. CASE adm'[b] = IdleAdm
      BY <3>5 DEF IdleAdm
    <3>6. CASE /\ adm[b].pc = "checkUserRole"
               /\ adm'[b] = [adm[b] EXCEPT !.pc = "tx"]
      <4>1. adm'[b].pc = "tx" /\ adm'[b].user = adm[b].user
            /\ adm'[b].role = adm[b].role /\ adm'[b].ver = adm[b].ver
        BY <3>6 DEF IInv, TypeOK, Adm
      <4> QED
        BY <3>6, <4>1 DEF IInv, AdmInv
    <3> QED
      BY <3>1, <3>4, <3>5, <3>6
  <2>4. TokenInv'
    BY <1>6, TokenFrame DEF IInv, CheckUserRole
  <2>5. GuardInv'
    BY <1>6, GuardFrame DEF IInv, CheckUserRole
  <2>6. CacheVerInv'
    BY <1>6, CacheVerFrame DEF IInv, CheckUserRole
  <2>7. CacheInv'
    BY <1>6, CacheFrame DEF IInv, CheckUserRole
  <2>8. StoreInv'
    BY <1>6, StoreFrame DEF IInv, CheckUserRole
  <2> QED BY <2>1, <2>3, <2>4, <2>5, <2>6, <2>7, <2>8 DEF IInv
<1>7. ASSUME NEW a \in Admins,
                    ChangeTx(a)
     PROVE  IInv'
  <2>1. TypeOK'
    <3>1. IdleAdm \in Adm
      BY DEF IdleAdm, Adm, Versions
    <3>2. [adm[a] EXCEPT !.pc = "exists"] \in Adm
      BY DEF IInv, TypeOK, Adm
    <3>3. adm' \in [Admins -> Adm]
      BY <1>7, <3>1, <3>2 DEF IInv, TypeOK, ChangeTx, EndAdm
    <3>4. adm[a].user \in Users /\ adm[a].role \in Roles
          /\ adm[a].ver + 1 \in Versions
      BY <1>7 DEF IInv, TypeOK, AdmInv, ChangeTx, Adm, Versions
    <3> QED
      BY <1>7, <3>3, <3>4 DEF IInv, TypeOK, ChangeTx
  <2>3. AdmInv'
    BY <1>7, <2>1 DEF IInv, TypeOK, AdmInv, ChangeTx, EndAdm, Adm, Versions, IdleAdm
  <2>4. TokenInv'
    BY <1>7, <2>1 DEF IInv, TypeOK, AdmInv, TokenInv, GuardInv, CacheVerInv,
       ChangeTx, EndAdm, Adm, Grd, Entry, Versions, IdleAdm, IdleGrd
  <2>5. GuardInv'
    BY <1>7, <2>1 DEF IInv, TypeOK, AdmInv, TokenInv, GuardInv, CacheVerInv,
       ChangeTx, EndAdm, Adm, Grd, Entry, Versions, IdleAdm, IdleGrd
  <2>6. CacheVerInv'
    BY <1>7, <2>1 DEF IInv, TypeOK, AdmInv, TokenInv, GuardInv, CacheVerInv,
       ChangeTx, EndAdm, Adm, Grd, Entry, Versions, IdleAdm, IdleGrd
  <2>7. CacheInv'
    BY <1>7, <2>1 DEF IInv, TypeOK, AdmInv, GuardInv, CacheVerInv, CacheInv,
       StoreInv, Trusted, Hit, PermsOf, ChangeTx, EndAdm, Adm, Grd, Entry, Versions,
       IdleAdm, IdleGrd
  <2>8. StoreInv'
    <3>1. adm[a].user \in Users /\ adm[a].ver \in Nat
      BY <1>7 DEF IInv, TypeOK, AdmInv, ChangeTx, Adm, Versions
    <3>2. \A w \in Users \ raced' :
             \/ /\ w # adm[a].user /\ permVersion'[w] = permVersion[w]
                /\ userRoles'[w] = userRoles[w]
             \/ /\ permVersion'[w] = permVersion[w]
                /\ userRoles' = userRoles
             \/ permVersion'[w] = permVersion[w] + 1
      BY <1>7, <3>1 DEF IInv, TypeOK, ChangeTx, Versions
    <3>3. UNCHANGED <<grd, rolePerms, edited>> /\ raced \subseteq raced'
      BY <1>7 DEF ChangeTx
    <3>4. SUFFICES ASSUME NEW g \in Guards, grd[g].pc = "store",
                          grd[g].user \in Trusted',
                          grd[g].ver = permVersion'[grd[g].user]
                   PROVE  grd[g].perms = PermsOf(grd[g].user)'
      BY <3>3 DEF StoreInv
    <3>5. grd[g].user \in Trusted /\ grd[g].user \in Users \ raced'
          /\ grd[g].ver <= permVersion[grd[g].user]
          /\ permVersion[grd[g].user] \in Nat
      BY <3>3, <3>4 DEF IInv, TypeOK, GuardInv, Trusted, Versions
    <3>6. permVersion'[grd[g].user] = permVersion[grd[g].user]
          /\ userRoles'[grd[g].user] = userRoles[grd[g].user]
      BY <3>2, <3>4, <3>5
    <3> QED
      BY <3>3, <3>4, <3>5, <3>6 DEF IInv, StoreInv, PermsOf
  <2> QED BY <2>1, <2>3, <2>4, <2>5, <2>6, <2>7, <2>8 DEF IInv
<1>8. ASSUME NEW a \in Admins,
                    CacheExists(a)
     PROVE  IInv'
  <2>1. TypeOK'
    <3>1. IdleAdm \in Adm
      BY DEF IdleAdm, Adm, Versions
    <3>2. [adm[a] EXCEPT !.pc = "set"] \in Adm
      BY DEF IInv, TypeOK, Adm
    <3>3. adm' \in [Admins -> Adm]
      BY <1>8, <3>1, <3>2 DEF IInv, TypeOK, CacheExists, EndAdm
    <3> QED
      BY <1>8, <3>3 DEF IInv, TypeOK, CacheExists
  <2>3. AdmInv'
    BY <1>8, <2>1 DEF IInv, TypeOK, AdmInv, CacheExists, EndAdm, Adm, Entry,
       Versions, IdleAdm
  <2>4. TokenInv'
    BY <1>8, TokenFrame DEF IInv, CacheExists
  <2>5. GuardInv'
    BY <1>8, GuardFrame DEF IInv, CacheExists
  <2>6. CacheVerInv'
    BY <1>8, CacheVerFrame DEF IInv, CacheExists
  <2>7. CacheInv'
    BY <1>8, CacheFrame DEF IInv, CacheExists
  <2>8. StoreInv'
    BY <1>8, StoreFrame DEF IInv, CacheExists
  <2> QED BY <2>1, <2>3, <2>4, <2>5, <2>6, <2>7, <2>8 DEF IInv
<1>9. ASSUME NEW a \in Admins,
                    CacheSet(a)
     PROVE  IInv'
  <2>1. TypeOK'
    BY <1>9 DEF IInv, TypeOK, CacheSet, EndAdm, Adm, Entry, Versions, IdleAdm, AdmInv
  <2>3. AdmInv'
    BY <1>9, <2>1 DEF IInv, TypeOK, AdmInv, GuardInv, CacheSet, EndAdm, Adm, Grd,
       Entry, Versions, IdleAdm, IdleGrd
  <2>4. TokenInv'
    BY <1>9, TokenFrame DEF IInv, CacheSet
  <2>5. GuardInv'
    BY <1>9, GuardFrame DEF IInv, CacheSet
  <2>6. CacheVerInv'
    BY <1>9, <2>1 DEF IInv, TypeOK, AdmInv, GuardInv, CacheVerInv, CacheSet
  <2>7. CacheInv'
    BY <1>9, <2>1 DEF IInv, TypeOK, AdmInv, GuardInv, CacheVerInv, CacheInv,
       Trusted, Hit, PermsOf, CacheSet, EndAdm, Adm, Grd, Entry, Versions, IdleAdm,
       IdleGrd
  <2>8. StoreInv'
    BY <1>9, StoreFrame DEF IInv, CacheSet
  <2> QED BY <2>1, <2>3, <2>4, <2>5, <2>6, <2>7, <2>8 DEF IInv
<1>10. ASSUME NEW a \in Admins,
                    AdminFails(a)
     PROVE  IInv'
  <2>1. TypeOK'
    BY <1>10 DEF IInv, TypeOK, AdminFails, EndAdm, Adm, Versions, IdleAdm, AdmInv
  <2>3. AdmInv'
    BY <1>10, <2>1 DEF IInv, TypeOK, AdmInv, GuardInv, AdminFails, EndAdm, Adm, Grd,
       Entry, Versions, IdleAdm, IdleGrd
  <2>4. TokenInv'
    BY <1>10, TokenFrame DEF IInv, AdminFails
  <2>5. GuardInv'
    BY <1>10, GuardFrame DEF IInv, AdminFails
  <2>6. CacheVerInv'
    BY <1>10, CacheVerFrame DEF IInv, AdminFails
  <2>7. CacheInv'
    BY <1>10, CacheFrame DEF IInv, AdminFails
  <2>8. StoreInv'
    BY <1>10, StoreFrame DEF IInv, AdminFails
  <2> QED BY <2>1, <2>3, <2>4, <2>5, <2>6, <2>7, <2>8 DEF IInv
<1>11. ASSUME NEW r \in Roles,
                    RemoveRole(r)
     PROVE  IInv'
  <2>1. TypeOK'
    BY <1>11 DEF IInv, TypeOK, RemoveRole, EditPerms, HoldersOf
  <2>2. \A w \in Users \ edited' : PermsOf(w)' = PermsOf(w)
    BY <1>11, EditKeepsPerms, RemoveKeepsPerms
       DEF IInv, TypeOK, AdmInv, RemoveRole, PermsOf, Adm
  <2>3. AdmInv'
    BY <1>11, AdmFrame DEF IInv, RemoveRole
  <2>4. TokenInv'
    BY <1>11, TokenFrame DEF IInv, RemoveRole
  <2>5. GuardInv'
    BY <1>11, GuardFrame DEF IInv, RemoveRole
  <2>6. CacheVerInv'
    BY <1>11, CacheVerFrame DEF IInv, RemoveRole
  <2>7. CacheInv'
    BY <1>11, <2>2, EditFrame DEF IInv, RemoveRole, EditPerms
  <2>8. StoreInv'
    BY <1>11, <2>2, EditFrame DEF IInv, RemoveRole, EditPerms
  <2> QED BY <2>1, <2>3, <2>4, <2>5, <2>6, <2>7, <2>8 DEF IInv
<1>12. ASSUME NEW u \in Users,
                    SignToken(u)
     PROVE  IInv'
  <2>1. TypeOK'
    BY <1>12 DEF IInv, TypeOK, SignToken
  <2>3. AdmInv'
    BY <1>12, AdmFrame DEF IInv, SignToken
  <2>4. TokenInv'
    BY <1>12, <2>1 DEF IInv, TypeOK, AdmInv, TokenInv, SignToken, Versions
  <2>5. GuardInv'
    BY <1>12, GuardFrame DEF IInv, SignToken
  <2>6. CacheVerInv'
    BY <1>12, CacheVerFrame DEF IInv, SignToken
  <2>7. CacheInv'
    BY <1>12, CacheFrame DEF IInv, SignToken
  <2>8. StoreInv'
    BY <1>12, StoreFrame DEF IInv, SignToken
  <2> QED BY <2>1, <2>3, <2>4, <2>5, <2>6, <2>7, <2>8 DEF IInv
<1>13. ASSUME NEW u \in Users, NEW v \in Versions,
                    TokenExpires(u, v)
     PROVE  IInv'
  <2>1. TypeOK'
    BY <1>13 DEF IInv, TypeOK, TokenExpires
  <2>3. AdmInv'
    BY <1>13, AdmFrame DEF IInv, TokenExpires
  <2>4. TokenInv'
    BY <1>13, <2>1 DEF IInv, TypeOK, AdmInv, TokenInv, TokenExpires
  <2>5. GuardInv'
    BY <1>13, GuardFrame DEF IInv, TokenExpires
  <2>6. CacheVerInv'
    BY <1>13, CacheVerFrame DEF IInv, TokenExpires
  <2>7. CacheInv'
    BY <1>13, CacheFrame DEF IInv, TokenExpires
  <2>8. StoreInv'
    BY <1>13, StoreFrame DEF IInv, TokenExpires
  <2> QED BY <2>1, <2>3, <2>4, <2>5, <2>6, <2>7, <2>8 DEF IInv
<1>14. ASSUME NEW g \in Guards, NEW u \in Users, NEW v \in Versions,
                    CacheGet(g, u, v)
     PROVE  IInv'
  <2>1. TypeOK'
    <3>1. [IdleGrd EXCEPT !.pc = "fetch", !.user = u, !.ver = v] \in Grd
      BY DEF IdleGrd, Grd
    <3>2. Hit(u, v) =>
            [pc |-> "decide", user |-> u, ver |-> v, perms |-> cache[u].perms]
              \in Grd
      BY DEF IInv, TypeOK, Hit, Entry, Grd
    <3>3. grd' \in [Guards -> Grd]
      BY <1>14, <3>1, <3>2 DEF IInv, TypeOK, CacheGet
    <3> QED
      BY <1>14, <3>3 DEF IInv, TypeOK, CacheGet
  <2>3. AdmInv'
    BY <1>14, AdmFrame DEF IInv, CacheGet
  <2>4. TokenInv'
    BY <1>14, TokenFrame DEF IInv, CacheGet
  <2>5. GuardInv'
    BY <1>14, <2>1 DEF IInv, TypeOK, TokenInv, GuardInv, CacheGet
  <2>6. CacheVerInv'
    BY <1>14, CacheVerFrame DEF IInv, CacheGet
  <2>7. CacheInv'
    BY <1>14, CacheFrame DEF IInv, CacheGet
  <2>8. StoreInv'
    BY <1>14, <2>1 DEF IInv, TypeOK, CacheInv, StoreInv, Trusted, PermsOf, CacheGet
  <2> QED BY <2>1, <2>3, <2>4, <2>5, <2>6, <2>7, <2>8 DEF IInv
<1>15. ASSUME NEW g \in Guards,
                    Fetch(g)
     PROVE  IInv'
  <2>1. TypeOK'
    <3>1. grd[g].user \in Users
      BY <1>15 DEF IInv, GuardInv, Fetch
    <3>2. [grd[g] EXCEPT !.pc = "store", !.perms = PermsOf(grd[g].user)] \in Grd
      BY <3>1, PermsOfType DEF IInv, TypeOK, Grd
    <3>3. grd' \in [Guards -> Grd]
      BY <1>15, <3>2 DEF IInv, TypeOK, Fetch
    <3> QED
      BY <1>15, <3>3 DEF IInv, TypeOK, Fetch
  <2>3. AdmInv'
    BY <1>15, AdmFrame DEF IInv, Fetch
  <2>4. TokenInv'
    BY <1>15, TokenFrame DEF IInv, Fetch
  <2>5. GuardInv'
    BY <1>15, <2>1 DEF IInv, TypeOK, TokenInv, GuardInv, Fetch
  <2>6. CacheVerInv'
    BY <1>15, CacheVerFrame DEF IInv, Fetch
  <2>7. CacheInv'
    BY <1>15, CacheFrame DEF IInv, Fetch
  <2>8. StoreInv'
    <3>1. \A w : PermsOf(w)' = PermsOf(w)
      BY <1>15 DEF Fetch, PermsOf
    <3> QED
      BY <1>15, <3>1 DEF IInv, TypeOK, StoreInv, Trusted, Fetch
  <2> QED BY <2>1, <2>3, <2>4, <2>5, <2>6, <2>7, <2>8 DEF IInv
<1>16. ASSUME NEW g \in Guards,
                    Store(g)
     PROVE  IInv'
  <2>1. TypeOK'
    BY <1>16 DEF IInv, TypeOK, Store, Grd, Entry, GuardInv
  <2>3. AdmInv'
    BY <1>16, AdmFrame DEF IInv, Store
  <2>4. TokenInv'
    BY <1>16, TokenFrame DEF IInv, Store
  <2>5. GuardInv'
    BY <1>16, <2>1 DEF IInv, TypeOK, TokenInv, GuardInv, Store
  <2>6. CacheVerInv'
    BY <1>16, <2>1 DEF IInv, TypeOK, AdmInv, TokenInv, GuardInv, CacheVerInv, Store,
       Adm, Grd, Entry, Versions, IdleAdm, IdleGrd
  <2>7. CacheInv'
    BY <1>16, <2>1 DEF IInv, TypeOK, AdmInv, GuardInv, CacheVerInv, CacheInv,
       StoreInv, Trusted, Hit, PermsOf, Store, Adm, Grd, Entry, Versions, IdleAdm,
       IdleGrd
  <2>8. StoreInv'
    BY <1>16, <2>1 DEF IInv, TypeOK, AdmInv, GuardInv, CacheVerInv, CacheInv,
       StoreInv, Trusted, Hit, PermsOf, Store, Adm, Grd, Entry, Versions, IdleAdm,
       IdleGrd
  <2> QED BY <2>1, <2>3, <2>4, <2>5, <2>6, <2>7, <2>8 DEF IInv
<1>17. ASSUME NEW g \in Guards,
                    Decide(g)
     PROVE  IInv'
  <2>1. TypeOK'
    BY <1>17 DEF IInv, TypeOK, Decide, Grd, Versions, IdleGrd
  <2>3. AdmInv'
    BY <1>17, AdmFrame DEF IInv, Decide
  <2>4. TokenInv'
    BY <1>17, TokenFrame DEF IInv, Decide
  <2>5. GuardInv'
    BY <1>17, <2>1 DEF IInv, TypeOK, TokenInv, GuardInv, Decide, IdleGrd
  <2>6. CacheVerInv'
    BY <1>17, CacheVerFrame DEF IInv, Decide
  <2>7. CacheInv'
    BY <1>17, CacheFrame DEF IInv, Decide
  <2>8. StoreInv'
    BY <1>17, <2>1 DEF IInv, TypeOK, CacheInv, StoreInv, Trusted, PermsOf, Decide,
       IdleGrd
  <2> QED BY <2>1, <2>3, <2>4, <2>5, <2>6, <2>7, <2>8 DEF IInv
<1>18. ASSUME NEW g \in Guards,
                    GuardFails(g)
     PROVE  IInv'
  <2>1. TypeOK'
    BY <1>18 DEF IInv, TypeOK, GuardFails, Grd, Versions, IdleGrd
  <2>3. AdmInv'
    BY <1>18, AdmFrame DEF IInv, GuardFails
  <2>4. TokenInv'
    BY <1>18, TokenFrame DEF IInv, GuardFails
  <2>5. GuardInv'
    BY <1>18, <2>1 DEF IInv, TypeOK, TokenInv, GuardInv, GuardFails, IdleGrd
  <2>6. CacheVerInv'
    BY <1>18, CacheVerFrame DEF IInv, GuardFails
  <2>7. CacheInv'
    BY <1>18, CacheFrame DEF IInv, GuardFails
  <2>8. StoreInv'
    BY <1>18, <2>1 DEF IInv, TypeOK, CacheInv, StoreInv, Trusted, PermsOf,
       GuardFails, IdleGrd
  <2> QED BY <2>1, <2>3, <2>4, <2>5, <2>6, <2>7, <2>8 DEF IInv
<1>19. CASE UNCHANGED vars
  BY <1>19 DEF vars, IInv, TypeOK, AdmInv, TokenInv, GuardInv, CacheVerInv,
     CacheInv, StoreInv, Trusted, Hit, PermsOf
<1> QED
  BY <1>1, <1>2, <1>3, <1>4, <1>5, <1>6, <1>7, <1>8, <1>9, <1>10, <1>11, <1>12,
     <1>13, <1>14, <1>15, <1>16, <1>17, <1>18, <1>19
     DEF Next

\* The inductive invariant holds in every reachable state: role, guard and
\* cache bookkeeping of RolesService and PermissionGuard stay consistent.
THEOREM Inductive == Spec => []IInv
  BY InitIInv, NextIInv, PTL DEF Spec

\* Type correctness of the model.
THEOREM TypeCorrect == Spec => []TypeOK
<1>1. IInv => TypeOK
  BY DEF IInv
<1> QED
  BY <1>1, Inductive, PTL

\* A request whose token carries the current permVersion is served current
\* permissions by PermissionCache, unless roles were edited or permVersion
\* was written from a stale read.
THEOREM CurrentTokenServed == Spec => CurrentTokenCurrentPerms
<1> DEFINE Served ==
      \A g \in Guards :
        LET u == grd'[g].user
        IN  (/\ grd[g].pc = "idle" /\ grd'[g].pc = "decide"
             /\ u \notin raced \cup edited /\ grd'[g].ver = permVersion[u])
              => grd'[g].perms = PermsOf(u)
<1>1. IInv /\ [Next]_vars => [Served]_vars
  <2> SUFFICES ASSUME IInv, Next, NEW h \in Guards,
                      grd[h].pc = "idle", grd'[h].pc = "decide",
                      grd'[h].user \notin raced \cup edited,
                      grd'[h].ver = permVersion[grd'[h].user]
               PROVE  grd'[h].perms = PermsOf(grd'[h].user)
    OBVIOUS
  <2>1. \E g \in Guards, u \in Users, v \in Versions : CacheGet(g, u, v)
    BY DEF Next, IInv, TypeOK, CreateRole, UpdateRole, ReadUser, DeletePerms,
       AddPerms, CheckUserRole, ChangeTx, CacheExists, CacheSet, AdminFails,
       RemoveRole, SignToken, TokenExpires, Fetch, Store, Decide, GuardFails
  <2>2. PICK g \in Guards, u \in Users, v \in Versions : CacheGet(g, u, v)
    BY <2>1
  <2>3. h = g /\ Hit(u, v) /\ grd'[h] =
          [pc |-> "decide", user |-> u, ver |-> v, perms |-> cache[u].perms]
    BY <2>2 DEF CacheGet, IInv, TypeOK, IdleGrd
  <2> QED
    BY <2>3 DEF IInv, CacheInv, Trusted
<1> QED
  BY <1>1, Inductive, PTL DEF Spec, CurrentTokenCurrentPerms

-----------------------------------------------------------------------------
(* Tokens of older versions *)

\* Users whose role changes met no fetch, no fault and no edited role.
Quiet == Users \ (edited \cup overlapped)

\* A role change of u is committed and has still to touch the cache.
Changing(u) ==
  \E a \in Admins : adm[a].user = u /\ adm[a].pc \in {"exists", "set"}

\* The entry of u, whatever its version, serves nothing outdated.
Settled(u) ==
  cache[u] = Null \/ cache[u].perms = {} \/ cache[u].perms = PermsOf(u)

\* What is cached, or about to be, is current for every version of the token.
SettledInv == \A u \in Quiet : Changing(u) \/ Settled(u)
FreshInv ==
  \A g \in Guards : grd[g].pc = "store" /\ grd[g].user \in Quiet =>
    grd[g].perms = PermsOf(grd[g].user)

QuietInv == SettledInv /\ FreshInv

\* Steps that neither write the cache nor change permissions preserve both,
\* as long as a role change under way is not abandoned unseen.
LEMMA QuietFrame ==
  ASSUME QuietInv, UNCHANGED <<cache, grd>>,
         edited \subseteq edited', overlapped \subseteq overlapped',
         \A w \in Users \ edited' : PermsOf(w)' = PermsOf(w),
         \A w \in Users \ overlapped' : Changing(w) => Changing(w)'
  PROVE  QuietInv'
<1>1. SettledInv'
  BY DEF QuietInv, SettledInv, Settled, Quiet
<1>2. FreshInv'
  BY DEF QuietInv, FreshInv, Quiet
<1> QED BY <1>1, <1>2 DEF QuietInv

\* A request that is not yet at the cache hides no role change.
LEMMA StillChanging ==
  ASSUME NEW a \in Admins, adm[a].pc \notin {"exists", "set"},
         \A b \in Admins \ {a} : adm'[b] = adm[b]
  PROVE  \A w : Changing(w) => Changing(w)'
  BY DEF Changing

\* A step of one request leaves the others alone.
LEMMA OtherAdmins ==
  ASSUME TypeOK, NEW a \in Admins, NEW x, adm' = [adm EXCEPT ![a] = x]
  PROVE  adm'[a] = x /\ \A b \in Admins \ {a} : adm'[b] = adm[b]
  BY DEF TypeOK

\* A step of one guard leaves the others alone.
LEMMA OtherGuards ==
  ASSUME TypeOK, NEW g \in Guards, NEW x, grd' = [grd EXCEPT ![g] = x]
  PROVE  grd'[g] = x /\ \A h \in Guards \ {g} : grd'[h] = grd[h]
  BY DEF TypeOK

\* Permissions follow from the roles alone.
LEMMA SamePerms ==
  ASSUME UNCHANGED <<userRoles, rolePerms>>
  PROVE  \A w : PermsOf(w)' = PermsOf(w)
  BY DEF PermsOf

\* Every step preserves what older tokens are promised.
LEMMA NextQuiet == IInv /\ QuietInv /\ [Next]_vars => QuietInv'
<1> SUFFICES ASSUME IInv, QuietInv, [Next]_vars PROVE QuietInv'
  OBVIOUS
<1> USE DEF db, history, bounds
<1>0. TypeOK
  BY DEF IInv
<1>1. ASSUME NEW a \in Admins, NEW r \in Roles, NEW P \in SUBSET Perms,
             CreateRole(a, r, P) \/ UpdateRole(a, r, P)
      PROVE  QuietInv'
  <2>1. adm[a].pc \notin {"exists", "set"}
    BY <1>1 DEF CreateRole, UpdateRole, BeginEdit, IdleAdm
  <2>2. \A b \in Admins \ {a} : adm'[b] = adm[b]
    BY <1>0, <1>1, OtherAdmins DEF CreateRole, UpdateRole, BeginEdit
  <2>3. UNCHANGED <<cache, grd, userRoles, rolePerms, edited, overlapped>>
    BY <1>1 DEF CreateRole, UpdateRole
  <2> QED BY <2>1, <2>2, <2>3, StillChanging, SamePerms, QuietFrame
<1>2. ASSUME NEW a \in Admins, NEW u \in Users, NEW r \in Roles,
             NEW k \in {"assign", "unassign"}, ReadUser(a, u, r, k)
      PROVE  QuietInv'
  <2>1. adm[a].pc \notin {"exists", "set"}
    BY <1>2 DEF ReadUser, IdleAdm
  <2>2. \A b \in Admins \ {a} : adm'[b] = adm[b]
    BY <1>0, <1>2, OtherAdmins DEF ReadUser
  <2>3. UNCHANGED <<cache, grd, userRoles, rolePerms, edited, overlapped>>
    BY <1>2 DEF ReadUser
  <2> QED BY <2>1, <2>2, <2>3, StillChanging, SamePerms, QuietFrame
<1>3. ASSUME NEW a \in Admins, DeletePerms(a)
      PROVE  QuietInv'
  <2>1. adm[a].pc \notin {"exists", "set"}
    BY <1>3 DEF DeletePerms
  <2>2. \A b \in Admins \ {a} : adm'[b] = adm[b]
    BY <1>3 DEF DeletePerms, IInv, TypeOK
  <2>3. UNCHANGED <<cache, grd, userRoles, overlapped>>
    BY <1>3 DEF DeletePerms
  <2>4. EditPerms(adm[a].role, {}) /\ adm[a].role \in Roles
    BY <1>3 DEF DeletePerms, IInv, AdmInv
  <2>5. /\ edited \subseteq edited'
        /\ \A w \in Users \ edited' : PermsOf(w)' = PermsOf(w)
    <3>1. UNCHANGED userRoles
      BY <2>3
    <3>2. \A w \in Users \ edited' : PermsOf(w)' = PermsOf(w)
      BY <1>0, <2>4, <3>1, EditKeepsPerms
    <3> QED BY <2>4, <3>2 DEF EditPerms
  <2> QED BY <2>1, <2>2, <2>3, <2>5, StillChanging, QuietFrame
<1>4. ASSUME NEW a \in Admins, AddPerms(a)
      PROVE  QuietInv'
  <2>1. adm[a].pc \notin {"exists", "set"}
    BY <1>4 DEF AddPerms
  <2>2. \A b \in Admins \ {a} : adm'[b] = adm[b]
    BY <1>4 DEF AddPerms, EndAdm, IInv, TypeOK
  <2>3. UNCHANGED <<cache, grd, userRoles, overlapped>>
    BY <1>4 DEF AddPerms
  <2>4. adm[a].role \in Roles /\ adm[a].todo \subseteq Perms
    BY <1>4 DEF AddPerms, IInv, TypeOK, AdmInv, Adm
  <2>5. /\ edited \subseteq edited'
        /\ \A w \in Users \ edited' : PermsOf(w)' = PermsOf(w)
    <3>1. CASE UNCHANGED <<rolePerms, edited>>
      BY <2>3, <3>1, SamePerms
    <3>2. CASE \E p \in adm[a].todo :
                 EditPerms(adm[a].role, rolePerms[adm[a].role] \cup {p})
      <4>1. PICK p \in adm[a].todo :
                   EditPerms(adm[a].role, rolePerms[adm[a].role] \cup {p})
        BY <3>2
      <4>2. rolePerms[adm[a].role] \cup {p} \in SUBSET Perms
        BY <1>0, <2>4 DEF TypeOK
      <4>3. UNCHANGED userRoles
        BY <2>3
      <4>4. \A w \in Users \ edited' : PermsOf(w)' = PermsOf(w)
        BY <1>0, <2>4, <4>1, <4>2, <4>3, EditKeepsPerms
      <4> QED BY <4>1, <4>4 DEF EditPerms
    <3> QED BY <1>4, <3>1, <3>2 DEF AddPerms
  <2> QED BY <2>1, <2>2, <2>3, <2>5, StillChanging, QuietFrame
<1>5. ASSUME NEW a \in Admins, CheckUserRole(a)
      PROVE  QuietInv'
  <2>1. adm[a].pc \notin {"exists", "set"}
    BY <1>5 DEF CheckUserRole
  <2>2. \A b \in Admins \ {a} : adm'[b] = adm[b]
    BY <1>5 DEF CheckUserRole, EndAdm, IInv, TypeOK
  <2>3. UNCHANGED <<cache, grd, userRoles, rolePerms, edited, overlapped>>
    BY <1>5 DEF CheckUserRole
  <2> QED BY <2>1, <2>2, <2>3, StillChanging, SamePerms, QuietFrame
<1>6. ASSUME NEW a \in Admins, ChangeTx(a)
      PROVE  QuietInv'
  <2>1. adm[a].pc = "tx" /\ adm[a].user \in Users
    BY <1>6 DEF ChangeTx, IInv, AdmInv
  <2>2. \A b \in Admins \ {a} : adm'[b] = adm[b]
    BY <1>6 DEF ChangeTx, EndAdm, IInv, TypeOK
  <2>3. UNCHANGED <<cache, grd, rolePerms, edited>>
    BY <1>6 DEF ChangeTx
  <2>4. CASE UNCHANGED <<userRoles, overlapped>>
    BY <2>1, <2>2, <2>3, <2>4, StillChanging, SamePerms, QuietFrame
  <2>5. CASE /\ adm' = [adm EXCEPT ![a].pc = "exists"]
             /\ \E R : userRoles' = [userRoles EXCEPT ![adm[a].user] = R]
             /\ overlapped' = IF StorePending(adm[a].user)
                              THEN overlapped \cup {adm[a].user}
                              ELSE overlapped
    <3>1. \A w \in Users \ {adm[a].user} : PermsOf(w)' = PermsOf(w)
      BY <2>1, <2>3, <2>5 DEF PermsOf, IInv, TypeOK
    <3>2. Changing(adm[a].user)'
      <4>1. adm[a] \in Adm
        BY DEF IInv, TypeOK
      <4>2. adm'[a].pc = "exists" /\ adm'[a].user = adm[a].user
        BY <2>5, <4>1 DEF Adm, IInv, TypeOK
      <4> QED BY <4>2 DEF Changing
    <3>3. \A w : Changing(w) => Changing(w)'
      BY <2>1, <2>2, StillChanging
    <3>4. SettledInv'
      BY <2>3, <2>5, <3>1, <3>2, <3>3 DEF QuietInv, SettledInv, Settled, Quiet
    <3>5. FreshInv'
      BY <2>3, <2>5, <3>1 DEF QuietInv, FreshInv, Quiet, StorePending
    <3> QED BY <3>4, <3>5 DEF QuietInv
  <2> QED BY <1>6, <2>4, <2>5 DEF ChangeTx
<1>7. ASSUME NEW a \in Admins, CacheExists(a)
      PROVE  QuietInv'
  <2>1. UNCHANGED <<cache, grd, userRoles, rolePerms, edited, overlapped>>
    BY <1>7 DEF CacheExists
  <2>2. CASE cache[adm[a].user] = Null
    <3>1. \A b \in Admins \ {a} : adm'[b] = adm[b]
      BY <1>0, <1>7, <2>2, OtherAdmins DEF CacheExists, EndAdm
    <3>2. \A w : Changing(w) => w = adm[a].user \/ Changing(w)'
      BY <3>1 DEF Changing
    <3>3. SettledInv'
      BY <2>1, <2>2, <3>2, SamePerms DEF QuietInv, SettledInv, Settled, Quiet
    <3>4. FreshInv'
      BY <2>1, SamePerms DEF QuietInv, FreshInv, Quiet
    <3> QED BY <3>3, <3>4 DEF QuietInv
  <2>3. CASE cache[adm[a].user] # Null
    <3>1. \A w : Changing(w) => Changing(w)'
      <4>1. adm[a] \in Adm /\ adm' = [adm EXCEPT ![a].pc = "set"]
        BY <1>7, <2>3 DEF CacheExists, IInv, TypeOK
      <4>2. /\ adm'[a].pc = "set" /\ adm'[a].user = adm[a].user
            /\ \A b \in Admins \ {a} : adm'[b] = adm[b]
        BY <4>1 DEF Adm, IInv, TypeOK
      <4> QED BY <4>2 DEF Changing
    <3> QED BY <2>1, <3>1, SamePerms, QuietFrame
  <2> QED BY <2>2, <2>3
<1>8. ASSUME NEW a \in Admins, CacheSet(a)
      PROVE  QuietInv'
  <2>1. UNCHANGED <<grd, userRoles, rolePerms, edited, overlapped>>
    BY <1>8 DEF CacheSet
  <2>2. \A b \in Admins \ {a} : adm'[b] = adm[b]
    BY <1>0, <1>8, OtherAdmins DEF CacheSet, EndAdm
  <2>3. \A w : Changing(w) => w = adm[a].user \/ Changing(w)'
    BY <2>2 DEF Changing
  <2>4. /\ adm[a].user \in Users => cache'[adm[a].user].perms = {}
        /\ \A w \in Users \ {adm[a].user} : cache'[w] = cache[w]
    BY <1>8 DEF CacheSet, IInv, TypeOK
  <2>5. SettledInv'
    BY <2>1, <2>3, <2>4, SamePerms DEF QuietInv, SettledInv, Settled, Quiet
  <2>6. FreshInv'
    BY <2>1, SamePerms DEF QuietInv, FreshInv, Quiet
  <2> QED BY <2>5, <2>6 DEF QuietInv
<1>9. ASSUME NEW a \in Admins, AdminFails(a)
      PROVE  QuietInv'
  <2>1. UNCHANGED <<cache, grd, userRoles, rolePerms, edited>>
    BY <1>9 DEF AdminFails
  <2>2. \A b \in Admins \ {a} : adm'[b] = adm[b]
    BY <1>0, <1>9, OtherAdmins DEF AdminFails, EndAdm
  <2>3. /\ overlapped \subseteq overlapped'
        /\ \A w \in Users \ overlapped' : Changing(w) => Changing(w)'
    BY <1>9, <2>2 DEF AdminFails, Changing
  <2> QED BY <2>1, <2>3, SamePerms, QuietFrame
<1>10. ASSUME NEW r \in Roles, RemoveRole(r)
       PROVE  QuietInv'
  <2>1. UNCHANGED <<cache, grd, adm, overlapped>> /\ EditPerms(r, {})
    BY <1>10 DEF RemoveRole
  <2>2. \A w \in Users \ edited' : PermsOf(w)' = PermsOf(w)
    BY <1>0, <1>10, RemoveKeepsPerms DEF RemoveRole
  <2> QED BY <2>1, <2>2, QuietFrame DEF EditPerms, Changing
<1>11. ASSUME NEW u \in Users,
              SignToken(u) \/ \E v \in Versions : TokenExpires(u, v)
       PROVE  QuietInv'
  <2>1. UNCHANGED <<cache, grd, adm, userRoles, rolePerms, edited, overlapped>>
    BY <1>11 DEF SignToken, TokenExpires
  <2> QED BY <2>1, SamePerms, QuietFrame DEF Changing
<1>12. ASSUME NEW g \in Guards,
              \/ \E u \in Users, v \in Versions : CacheGet(g, u, v)
              \/ Decide(g) \/ GuardFails(g)
       PROVE  QuietInv'
  <2>1. UNCHANGED <<cache, adm, userRoles, rolePerms, edited, overlapped>>
    BY <1>12 DEF CacheGet, Decide, GuardFails
  <2>2. grd'[g].pc # "store" /\ \A h \in Guards \ {g} : grd'[h] = grd[h]
    <3>1. \E x : x.pc # "store" /\ grd' = [grd EXCEPT ![g] = x]
      BY <1>12 DEF CacheGet, Decide, GuardFails, IdleGrd
    <3> QED BY <1>0, <3>1, OtherGuards
  <2>3. SettledInv'
    BY <2>1, SamePerms DEF QuietInv, SettledInv, Settled, Quiet, Changing
  <2>4. FreshInv'
    BY <2>1, <2>2, SamePerms DEF QuietInv, FreshInv, Quiet
  <2> QED BY <2>3, <2>4 DEF QuietInv
<1>13. ASSUME NEW g \in Guards, Fetch(g)
       PROVE  QuietInv'
  <2>1. UNCHANGED <<cache, adm, userRoles, rolePerms, edited, overlapped>>
    BY <1>13 DEF Fetch
  <2>2. grd'[g].user = grd[g].user /\ grd'[g].perms = PermsOf(grd[g].user)
    BY <1>13 DEF Fetch, IInv, TypeOK, Grd
  <2>3. \A h \in Guards \ {g} : grd'[h] = grd[h]
    BY <1>13 DEF Fetch, IInv, TypeOK
  <2>4. SettledInv'
    BY <2>1, SamePerms DEF QuietInv, SettledInv, Settled, Quiet, Changing
  <2>5. FreshInv'
    BY <2>1, <2>2, <2>3, SamePerms DEF QuietInv, FreshInv, Quiet
  <2> QED BY <2>4, <2>5 DEF QuietInv
<1>14. ASSUME NEW g \in Guards, Store(g)
       PROVE  QuietInv'
  <2>1. UNCHANGED <<adm, userRoles, rolePerms, edited, overlapped>>
    BY <1>14 DEF Store
  <2>2. grd[g].pc = "store" /\ grd[g].user \in Users
    BY <1>14 DEF Store, IInv, GuardInv
  <2>3. /\ cache'[grd[g].user].perms = grd[g].perms
        /\ \A w \in Users \ {grd[g].user} : cache'[w] = cache[w]
    BY <1>14, <2>2 DEF Store, IInv, TypeOK
  <2>4. grd'[g].pc = "decide" /\ \A h \in Guards \ {g} : grd'[h] = grd[h]
    BY <1>14 DEF Store, IInv, TypeOK, Grd
  <2>5. SettledInv'
    BY <2>1, <2>2, <2>3, SamePerms DEF QuietInv, SettledInv, FreshInv, Settled,
       Quiet, Changing
  <2>6. FreshInv'
    BY <2>1, <2>4, SamePerms DEF QuietInv, FreshInv, Quiet
  <2> QED BY <2>5, <2>6 DEF QuietInv
<1>15. CASE UNCHANGED vars
  <2>1. UNCHANGED <<cache, grd, adm, userRoles, rolePerms, edited, overlapped>>
    BY <1>15 DEF vars
  <2> QED BY <2>1, SamePerms, QuietFrame DEF Changing
<1> QED
  BY <1>1, <1>2, <1>3, <1>4, <1>5, <1>6, <1>7, <1>8, <1>9, <1>10, <1>11,
     <1>12, <1>13, <1>14, <1>15 DEF Next

\* updatePermVersion empties the entry, so once a role change is through, a
\* token of any version is served current permissions or none, unless a fetch
\* straddled the change, a request died in it or the role itself was edited.
THEOREM OldTokensServed == Spec => []ChangeReachesOldTokens
<1>1. Init => QuietInv
  BY DEF Init, QuietInv, SettledInv, FreshInv, Settled, Quiet, IdleGrd
<1>2. QuietInv => ChangeReachesOldTokens
  BY DEF QuietInv, SettledInv, Settled, Quiet, Changing, Hit, ChangeReachesOldTokens
<1> QED
  BY <1>1, <1>2, NextQuiet, Inductive, PTL DEF Spec
=============================================================================
