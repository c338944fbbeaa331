------------------------------- MODULE Calls -------------------------------
(***************************************************************************)
(* A client's call through the gateway: the gateway's JWT guard, the       *)
(* Authorization header its axios clients send on, the guards of the       *)
(* service, its handler, its exception filter, the status check of the     *)
(* client, and the gateway's own filter.  The service runs on when the     *)
(* gateway's axios call has timed out.                                     *)
(*                                                                         *)
(* What a handler does is left to the other modules: here it takes effect, *)
(* refuses with one of the exceptions the services throw, or one of its    *)
(* awaits fails, before it has stored anything or after.  So are the rate  *)
(* limits (they refuse or not) and the permissions (Granted, or the lookup *)
(* fails).  Register goes through the idempotency records (Idempotency).   *)
(***************************************************************************)
EXTENDS Naturals

CONSTANTS Users, Reqs, Null,
          Granted,    \* users with the permissions that routes require
          MaxFaults   \* bound on failed permission lookups

-----------------------------------------------------------------------------
(* The routes, with the decorators of the gateway's and services'          *)
(* controllers                                                             *)

RoleRoutes == {"createRole", "findAllRoles", "findOneRole", "updateRole",
               "removeRole", "assignRole", "unassignRole", "getRolesForUser",
               "getPermissionsForUser"}

\* Auth routes that need a user, and the public ones.
UserRoutes   == {"me", "logoutDevice", "logoutAll"}
PublicRoutes == {"login", "verify", "confirm", "resendCode", "refresh",
                 "forgotPassword", "forgotPasswordVerify",
                 "forgotPasswordReset"}

NotiRoutes   == {"createNoti", "findAll", "unreadCount", "markRead", "readAll"}

\* Messages of an authenticated socket, which the gateway turns into calls:
\* one that marks a notification read makes two, the second for the count.
SocketMessages == {"wsMarkRead", "wsReadAll"}
SocketRoutes   == SocketMessages \cup {"wsUnreadCount"}

Routes == RoleRoutes \cup UserRoutes \cup PublicRoutes \cup NotiRoutes
            \cup SocketRoutes \cup {"ping"}

IsPublic(route)        == route \in PublicRoutes \cup {"ping"}
IsPublicAtService(route) == route \in {"login", "resendCode", "refresh", "ping"}

RequiresPermission(route) ==
  route \in {"createRole", "findAll", "unreadCount", "wsUnreadCount"}
InternalOnly(route)       == route = "createRole"

RateLimited(route) ==
  route \notin UserRoutes \cup SocketRoutes \cup {"verify", "confirm"}
RateLimitedAtService(route) ==
  route \in PublicRoutes \ {"verify", "confirm"}

IsNoti(route) == route \in NotiRoutes \cup SocketRoutes \cup {"ping"}

\* The notification-service has no POST notification.
NoSuchRoute(route) == route = "createNoti"

\* The methods of the gateway's clients that look at the status of the reply.
ChecksStatus(route) == route \notin NotiRoutes \cup SocketRoutes

-----------------------------------------------------------------------------
(* Tokens: the audience, the secret that signed it, and the user it is     *)
(* about (sub of an access token, data.userId of an internal one).         *)

NoToken == [aud |-> "none", secret |-> "none", user |-> Null]

AccessToken(u, s) == [aud |-> "api", secret |-> s, user |-> u]

\* signInternalToken({userId}) or signInternalToken({})
InternalToken(u) == [aud |-> "internal", secret |-> "internal", user |-> u]

\* The Authorization a client may present: none, an access token, or one
\* signed with a secret that is no longer in use.
ClientTokens == {NoToken} \cup {AccessToken(u, s) : u \in Users, s \in {"user", "old"}}
Tokens == ClientTokens \cup {InternalToken(u) : u \in Users \cup {Null}}

Error(s, c) == [status |-> s, code |-> c]
Ok == Error(200, "SUCCESS")
Internal == Error(500, "INTERNAL")

\* What the services throw: a ServiceError with its status and code, a Nest
\* exception with a status and no code, or anything else.
Exception == [kind: {"service", "bad", "http", "unknown"},
              status: {400, 401, 403, 404, 409, 429, 500, 503},
              code: {"none", "AUTH_INVALID_CREDENTIALS", "NOTI_NOT_FOUND",
                     "TOO_MANY_REQUESTS", "AUTH_REFRESH_TOKEN_INVALID",
                     "BAD_REQUEST", "VALIDATION_ERROR", "NOT_FOUND", "INTERNAL"}]

Thrown(k, s, c) == [kind |-> k, status |-> s, code |-> c]

HandlerThrows ==
  {Thrown("service", 401, "AUTH_INVALID_CREDENTIALS"),
   Thrown("service", 404, "NOTI_NOT_FOUND"),
   Thrown("bad", 400, "none"), Thrown("http", 409, "none"),
   Thrown("unknown", 500, "none")}

\* What becomes of an await that fails in a handler (database, Redis, NATS,
\* queue): the catch of verify, login, resendCode, refresh and the reset steps
\* throws it as an error of the request.
Failure(route) ==
  CASE route = "verify"  -> Thrown("service", 401, "VALIDATION_ERROR")
    [] route \in {"login", "resendCode"} ->
         Thrown("service", 401, "AUTH_INVALID_CREDENTIALS")
    [] route = "refresh" -> Thrown("service", 401, "AUTH_REFRESH_TOKEN_INVALID")
    [] route \in {"forgotPasswordVerify", "forgotPasswordReset"} ->
         Thrown("service", 400, "BAD_REQUEST")
    [] route \in {"assignRole", "unassignRole"} -> Thrown("service", 500, "INTERNAL")
    [] OTHER -> Thrown("unknown", 500, "none")

\* What a handler may throw when it has stored something already: createRole
\* looks for the permissions after the role is there, updateRole reads the role
\* back.
ThrowsHalfway(route) ==
  {Failure(route)} \cup
    (CASE route = "createRole" -> {Thrown("service", 400, "NOT_FOUND")}
       [] route = "updateRole" -> {Thrown("http", 404, "none")}
       [] OTHER -> {})

\* forgotPassword gives the same answer whatever happened.
SwallowsErrors(route) == route = "forgotPassword"

-----------------------------------------------------------------------------
VARIABLES
  gw,       \* the gateway's side: "idle", "waiting" for the reply, "done",
            \* or "gaveUp" when it was answered without a reply
  sv,       \* the service's side: "none", "arrived", "known", "allowed",
            \* "replied" (reply under way)
  route, token, header,  \* the call, and the Authorization the gateway sends
  identity, \* req.user at the service
  reply,    \* status and code of the service's reply, or Null
  answer,   \* what the client of the gateway gets, or Null
  raised,   \* history: the exception the service threw, or Null
  runs,     \* history: how often the handler took effect, in part or whole
  actedAs,  \* history: the user the handler acted for
  expired,  \* users whose access tokens have expired
  faults

vars == <<gw, sv, route, token, header, identity, reply, answer, raised, runs,
          actedAs, expired, faults>>

Identity == [type: {"none", "internal", "api", "user"},
             userId: Users \cup {Null}, data: Users \cup {Null}]

\* req.user before a guard has set it, and on a public route.
NoIdentity == [type |-> "none", userId |-> Null, data |-> Null]

Reply == [status: {200, 400, 401, 403, 404, 409, 429, 500, 503},
          code: {"SUCCESS", "INTERNAL", "VALIDATION_ERROR", "UNAUTHORIZED",
                 "FORBIDDEN", "NOT_FOUND", "CONFLICT", "TOO_MANY_REQUESTS",
                 "AUTH_INVALID_CREDENTIALS", "NOTI_NOT_FOUND",
                 "AUTH_REFRESH_TOKEN_INVALID", "BAD_REQUEST"}]

ASSUME CallsAssumption ==
  /\ Granted \subseteq Users /\ MaxFaults \in Nat
  /\ Null \notin Users \cup Reply

TypeOK ==
  /\ gw \in [Reqs -> {"idle", "waiting", "done", "gaveUp"}]
  /\ sv \in [Reqs -> {"none", "arrived", "known", "allowed", "replied"}]
  /\ route \in [Reqs -> Routes]
  /\ token \in [Reqs -> Tokens] /\ header \in [Reqs -> Tokens]
  /\ identity \in [Reqs -> Identity]
  /\ reply \in [Reqs -> Reply \cup {Null}]
  /\ answer \in [Reqs -> Reply \cup {Null}]
  /\ raised \in [Reqs -> Exception \cup {Null}]
  /\ runs \in [Reqs -> Nat] /\ actedAs \in [Reqs -> Users \cup {Null}]
  /\ expired \subseteq Users /\ faults \in 0..MaxFaults

Init ==
  /\ gw = [r \in Reqs |-> "idle"] /\ sv = [r \in Reqs |-> "none"]
  /\ route = [r \in Reqs |-> "ping"]
  /\ token = [r \in Reqs |-> NoToken] /\ header = [r \in Reqs |-> NoToken]
  /\ identity = [r \in Reqs |-> NoIdentity] /\ reply = [r \in Reqs |-> Null]
  /\ answer = [r \in Reqs |-> Null] /\ raised = [r \in Reqs |-> Null]
  /\ runs = [r \in Reqs |-> 0] /\ actedAs = [r \in Reqs |-> Null]
  /\ expired = {} /\ faults = 0

-----------------------------------------------------------------------------
(* HttpExceptionFilter and handleAxiosError                                *)

DefaultCodeForStatus(s) ==
  CASE s = 400 -> "VALIDATION_ERROR"
    [] s = 401 -> "UNAUTHORIZED"
    [] s = 403 -> "FORBIDDEN"
    [] s = 404 -> "NOT_FOUND"
    [] s = 409 -> "CONFLICT"
    [] s = 429 -> "TOO_MANY_REQUESTS"
    [] OTHER   -> "INTERNAL"

\* Mutant: the code of a ServiceError is not looked at.
FilterByStatus(e) == Error(e.status, DefaultCodeForStatus(e.status))

\* HttpExceptionFilter.catch: none of the HttpExceptions carries a code.
Filter(e) ==
  CASE e.kind = "service" -> Error(e.status, e.code)
    [] e.kind = "bad"     -> Error(e.status, "VALIDATION_ERROR")
    [] e.kind = "http"    -> Error(e.status, DefaultCodeForStatus(e.status))
    [] OTHER              -> Internal

\* handleAxiosError turns a reply into a ServiceError with its status and
\* messageKey, and everything that has no reply into 500 INTERNAL; the
\* gateway's filter sends the ServiceError on as it is.
HandleAxiosError(rep) ==
  IF rep = Null THEN Internal ELSE Error(rep.status, rep.code)

-----------------------------------------------------------------------------
(* The gateway *)

\* UserJwtStrategy: the user secret, audience 'api', not expired.
GatewayAccepts(t) == t.aud = "api" /\ t.secret = "user" /\ t.user \notin expired

\* Mutant: every call goes out under the gateway's own token.
GetHeadersInternal(rt, t) == InternalToken(t.user)

\* getHeaders of the three clients; a socket's message is sent on under an
\* internal token with the socket's user.
GetHeaders(rt, t) ==
  CASE rt \in SocketRoutes              -> InternalToken(t.user)
    [] rt \in NotiRoutes                -> t
    [] rt = "ping"                      -> NoToken
    [] rt \in RoleRoutes \cup UserRoutes -> IF t = NoToken THEN InternalToken(Null) ELSE t
    [] OTHER                            -> InternalToken(Null)

Answer(r, a) ==
  /\ gw' = [gw EXCEPT ![r] = "done"]
  /\ answer' = [answer EXCEPT ![r] = a]

\* A request arrives: the guards refuse it, or its call is sent to the
\* service.  A socket was authenticated when it connected.
Receive(r, rt, t) ==
  /\ gw[r] # "waiting" /\ sv[r] = "none" /\ rt # "wsUnreadCount"
  /\ rt \in SocketRoutes => t.aud = "api" /\ t.secret = "user"
  /\ route' = [route EXCEPT ![r] = rt] /\ token' = [token EXCEPT ![r] = t]
  /\ header' = [header EXCEPT ![r] = GetHeaders(rt, t)]
  /\ identity' = [identity EXCEPT ![r] = NoIdentity]
  /\ reply' = [reply EXCEPT ![r] = Null]
  /\ raised' = [raised EXCEPT ![r] = Null]
  /\ runs' = [runs EXCEPT ![r] = 0] /\ actedAs' = [actedAs EXCEPT ![r] = Null]
  /\ \/ /\ ~IsPublic(rt) /\ rt \notin SocketRoutes /\ ~GatewayAccepts(t)
        /\ Answer(r, Filter(Thrown("http", 401, "none")))
        /\ UNCHANGED sv
     \/ /\ IsPublic(rt) \/ rt \in SocketRoutes \/ GatewayAccepts(t)
        /\ \/ /\ RateLimited(rt)
              /\ Answer(r, Filter(Thrown("service", 429, "TOO_MANY_REQUESTS")))
              /\ UNCHANGED sv
           \/ /\ gw' = [gw EXCEPT ![r] = "waiting"]
              /\ answer' = [answer EXCEPT ![r] = Null]
              /\ sv' = [sv EXCEPT ![r] = "arrived"]
  /\ UNCHANGED <<expired, faults>>

\* Mutant: only server errors are looked at.
OutcomeServerErrors(rt, rep) ==
  IF ChecksStatus(rt) /\ rep.status >= 500 THEN HandleAxiosError(rep) ELSE Ok

\* A client method that checks the status throws what handleAxiosError makes
\* of the reply; the others return it as data.
Outcome(rt, rep) ==
  IF ChecksStatus(rt) /\ rep.status >= 400 THEN HandleAxiosError(rep) ELSE Ok

\* The reply arrives in time.
OnReply(r) ==
  /\ gw[r] = "waiting" /\ sv[r] = "replied" /\ route[r] # "wsMarkRead"
  /\ sv' = [sv EXCEPT ![r] = "none"]
  /\ Answer(r, Outcome(route[r], reply[r]))
  /\ UNCHANGED <<route, token, header, identity, reply, raised, runs, actedAs,
                 expired, faults>>

\* handleNotificationRead: markRead has returned, whatever the status of its
\* reply, and the count is asked for under the same internal token.
CountAfterMark(r) ==
  /\ gw[r] = "waiting" /\ sv[r] = "replied" /\ route[r] = "wsMarkRead"
  /\ route' = [route EXCEPT ![r] = "wsUnreadCount"]
  /\ sv' = [sv EXCEPT ![r] = "arrived"]
  /\ identity' = [identity EXCEPT ![r] = NoIdentity]
  /\ reply' = [reply EXCEPT ![r] = Null]
  /\ raised' = [raised EXCEPT ![r] = Null]
  /\ runs' = [runs EXCEPT ![r] = 0] /\ actedAs' = [actedAs EXCEPT ![r] = Null]
  /\ UNCHANGED <<gw, token, header, answer, expired, faults>>

\* axios gives up (timeout, connection lost) before the reply is there; the
\* service is not told.
OnTimeout(r) ==
  /\ gw[r] = "waiting"
  /\ gw' = [gw EXCEPT ![r] = "gaveUp"]
  /\ answer' = [answer EXCEPT ![r] = HandleAxiosError(Null)]
  /\ UNCHANGED <<sv, route, token, header, identity, reply, raised, runs,
                 actedAs, expired, faults>>

-----------------------------------------------------------------------------
(* The service *)

Throws(r, e) ==
  /\ sv' = [sv EXCEPT ![r] = "replied"]
  /\ raised' = [raised EXCEPT ![r] = e]
  /\ reply' = [reply EXCEPT ![r] = Filter(e)]

\* CombinedJwtStrategy: the audience chooses the secret.
SecretOf(aud) ==
  CASE aud = "internal" -> "internal"
    [] aud = "api"      -> "user"
    [] OTHER            -> "unknown"

Verifies(t) ==
  /\ t.secret = SecretOf(t.aud)
  /\ t.aud = "api" => t.user \notin expired

\* validate of the auth-service: the user id is under data.
ValidateAuth(t) ==
  [type   |-> IF t.aud = "internal" THEN "internal" ELSE "api",
   userId |-> Null, data |-> t.user]

\* Mutant: both services keep the user id under data.
ValidateNotiAlike(t) == ValidateAuth(t)

\* validate of the notification-service: that of a user is at the top.
ValidateNoti(t) ==
  IF t.aud = "internal"
  THEN [type |-> "internal", userId |-> Null, data |-> t.user]
  ELSE [type |-> "user", userId |-> t.user, data |-> Null]

\* req.user at the service: nobody on a public route.
IdentityOf(rt, t) ==
  IF IsPublicAtService(rt) THEN NoIdentity
  ELSE IF IsNoti(rt) THEN ValidateNoti(t) ELSE ValidateAuth(t)

\* CombinedJwtAuthGuard, then the rate limiter.  A request that no route
\* matches is answered before any guard.
Authenticate(r) ==
  /\ sv[r] = "arrived"
  /\ \/ /\ NoSuchRoute(route[r])
        /\ Throws(r, Thrown("http", 404, "none")) /\ UNCHANGED identity
     \/ /\ ~NoSuchRoute(route[r]) /\ ~IsPublicAtService(route[r])
        /\ ~Verifies(header[r])
        /\ Throws(r, Thrown("http", 401, "none")) /\ UNCHANGED identity
     \/ /\ ~NoSuchRoute(route[r])
        /\ IsPublicAtService(route[r]) \/ Verifies(header[r])
        /\ identity' = [identity EXCEPT ![r] =
                          IdentityOf(route[r], header[r])]
        /\ \/ /\ sv' = [sv EXCEPT ![r] = "known"]
              /\ UNCHANGED <<raised, reply>>
           \/ /\ RateLimitedAtService(route[r])
              /\ Throws(r, Thrown("service", 429, "TOO_MANY_REQUESTS"))
  /\ UNCHANGED <<gw, route, token, header, answer, runs, actedAs, expired, faults>>

\* The user id PermissionGuard finds.
PermissionUser(id) == IF id.userId # Null THEN id.userId ELSE id.data

\* PermissionGuard lets an internal token pass.
MayPass(r) ==
  \/ ~RequiresPermission(route[r])
  \/ identity[r].type = "internal"
  \/ PermissionUser(identity[r]) \in Granted

\* PermissionGuard and TokenTypeGuard, or a failed permission lookup.
Authorize(r) ==
  /\ sv[r] = "known"
  /\ \/ /\ MayPass(r)
        /\ InternalOnly(route[r]) => identity[r].type = "internal"
        /\ sv' = [sv EXCEPT ![r] = "allowed"]
        /\ UNCHANGED <<raised, reply, faults>>
     \/ /\ ~MayPass(r) \/ (InternalOnly(route[r]) /\ identity[r].type # "internal")
        /\ Throws(r, Thrown("http", 403, "none"))
        /\ UNCHANGED faults
     \/ /\ RequiresPermission(route[r]) /\ identity[r].type # "internal"
        /\ faults < MaxFaults /\ faults' = faults + 1
        /\ \E s \in {500, 503} : Throws(r, Thrown("http", s, "none"))
  /\ UNCHANGED <<gw, route, token, header, identity, answer, runs, actedAs, expired>>

\* req.info.data: set for every token by the auth-service, for internal
\* tokens by the notification-service.
InfoData(rt, id) ==
  IF IsNoti(rt) /\ id.type # "internal" THEN Null ELSE id.data

\* The user a handler acts for: me takes it from req.info, resolveUserId from
\* req.user or req.info.  The logout handlers read req.user.id, which no
\* token sets; the other routes do not act for their caller.
ActsAs(rt, id) ==
  CASE rt = "me" -> InfoData(rt, id)
    [] rt \in NotiRoutes \cup SocketRoutes ->
         IF id.userId # Null THEN id.userId ELSE InfoData(rt, id)
    [] OTHER -> Null

TakesEffect(r) ==
  /\ runs' = [runs EXCEPT ![r] = @ + 1]
  /\ actedAs' = [actedAs EXCEPT ![r] = ActsAs(route[r], identity[r])]

RepliesOk(r) ==
  /\ reply' = [reply EXCEPT ![r] = Ok]
  /\ sv' = [sv EXCEPT ![r] = "replied"]
  /\ UNCHANGED raised

\* The handler runs to its end, refuses before it has stored anything, or an
\* await fails before or after it has.
Handle(r) ==
  /\ sv[r] = "allowed"
  /\ \/ TakesEffect(r) /\ RepliesOk(r)
     \/ /\ \E e \in HandlerThrows : Throws(r, e)
        /\ UNCHANGED <<runs, actedAs>>
     \/ /\ SwallowsErrors(route[r]) /\ RepliesOk(r)
        /\ UNCHANGED <<runs, actedAs>>
     \/ /\ ~SwallowsErrors(route[r])
        /\ \E e \in ThrowsHalfway(route[r]) : Throws(r, e)
        /\ TakesEffect(r) \/ UNCHANGED <<runs, actedAs>>
  /\ UNCHANGED <<gw, route, token, header, identity, answer, expired, faults>>

\* A reply nobody waits for is dropped.
DropReply(r) ==
  /\ sv[r] = "replied" /\ gw[r] = "gaveUp"
  /\ sv' = [sv EXCEPT ![r] = "none"]
  /\ UNCHANGED <<gw, route, token, header, identity, reply, answer, raised,
                 runs, actedAs, expired, faults>>

\* The access tokens of a user run out, at any point of a call.
Expire(u) ==
  /\ u \notin expired /\ expired' = expired \cup {u}
  /\ UNCHANGED <<gw, sv, route, token, header, identity, reply, answer, raised,
                 runs, actedAs, faults>>

Next ==
  \/ \E r \in Reqs :
       \/ \E rt \in Routes, t \in ClientTokens : Receive(r, rt, t)
       \/ OnReply(r) \/ CountAfterMark(r) \/ OnTimeout(r)
       \/ Authenticate(r) \/ Authorize(r) \/ Handle(r) \/ DropReply(r)
  \/ \E u \in Users : Expire(u)

Spec == Init /\ [][Next]_vars

-----------------------------------------------------------------------------
(* Properties *)

\* What the service threw reaches the client through both filters and
\* handleAxiosError: on the routes whose client checks the status, a
\* ServiceError with the status and code it was thrown with, a Nest exception
\* with its status, anything else as 500 INTERNAL.  A token that expires
\* between the gateway's guard and the service's is refused in the same words
\* as one the gateway refuses.
ErrorReachesClient ==
  \A r \in Reqs :
    LET e == raised[r] a == answer[r] IN
    gw[r] = "done" /\ ChecksStatus(route[r]) /\ e # Null =>
      /\ e.kind = "service" => a = [status |-> e.status, code |-> e.code]
      /\ e.kind \in {"bad", "http"} => a.status = e.status
      /\ e.kind = "unknown" => a = Internal
      /\ e.kind = "http" /\ e.status = 401 => a.code = "UNAUTHORIZED"

\* The codes of what guards throw: authentication, permission, rate limit.
GuardCodes == {"UNAUTHORIZED", "FORBIDDEN", "TOO_MANY_REQUESTS"}

\* What the answer tells about the effect.  A success that the client of a
\* status-checking route is told of is one: the handler ran to its end and
\* threw nothing (forgotPassword says so always).  A refusal with the code of a
\* guard means that nothing was stored, and nothing will be, however late.  Any
\* other error leaves it open: a reset that has stored the new password may
\* end in a 400.
AnswerIsTrue ==
  \A r \in Reqs :
    /\ gw[r] = "done" /\ ChecksStatus(route[r]) /\ answer[r] = Ok =>
         SwallowsErrors(route[r]) \/ (runs[r] = 1 /\ raised[r] = Null)
    /\ gw[r] \in {"done", "gaveUp"} /\ runs[r] > 0 =>
         answer[r].code \notin GuardCodes

\* A handler that acts for its caller acts for the user whose token came with
\* the request or whose socket sent the message, whichever service reads the
\* identity and wherever it looks for it.
ActsForCaller ==
  \A r \in Reqs :
    runs[r] > 0 /\ route[r] \in {"me"} \cup NotiRoutes \cup SocketRoutes =>
      actedAs[r] = token[r].user

\* What a route requires of its caller, the caller of the gateway has: the
\* gateway's own identity, which services trust, never stands in for a
\* permission the user lacks, and never opens an internal route to a client.
\* The one exception is the count that the gateway asks for after a socket's
\* markRead: PermissionGuard lets its internal token pass for any user, but
\* what is counted is the socket's own user's.
OnlyEntitled ==
  \A r \in Reqs :
    runs[r] > 0 =>
      /\ RequiresPermission(route[r]) =>
           \/ token[r].user \in Granted
           \/ route[r] = "wsUnreadCount" /\ actedAs[r] = token[r].user
      /\ ~InternalOnly(route[r])
      /\ ~IsPublic(route[r]) => token[r].secret = "user"

=============================================================================
