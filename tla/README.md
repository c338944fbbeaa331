# TLA+ models of backend-core-platform

The platform is a TypeScript monorepo: a public **gateway**, an
**auth-service**, a **notification-service** (all NestJS, PostgreSQL through
Prisma), shared code in `packages/` and NATS JetStream and Redis between them.
This directory holds TLA+ models of its stateful parts, translated from the
source, TLC configurations that check them on small instances, and TLAPS
proofs of the main invariants for every instance.

`PROJECT.json` lists components, runs, mutants, the map from definitions to
source lines, findings, hazards and theorems.  Paths below are relative to
`src/`.

```
tlc -workers 2 -config MCIdempotency.cfg MCIdempotency    # a run
tlapm IdempotencyProofs.tla                               # the proofs
```

## 1. Inventory

| Component | Code | State | Operations |
|---|---|---|---|
| Idempotency | `apps/gateway/.../share/idempotency.service.ts`, `auth-client.service.ts` (`register`) | in-memory response cache (5 min), `idempotency_records` | check, mark completed/failed, cache expiry |
| Sessions | `apps/auth-service/.../auth`, `users` | `refresh_tokens`, `users.permVersion`, password hash, the browser's cookies | login, refresh (rotation), logout-device, logout-all, reset |
| Roles and permissions | `auth-service/.../roles`, `packages/common/src/permission` | `roles`, `role_permissions`, `user_roles`, `permVersion`, Redis hash per user | create/update/remove role, assign/unassign, guard check |
| WebSocket gateway | `apps/gateway/.../websocket`, `share/socket-registry` | two registry maps, limiter map, `client.data` | connect, disconnect, message, push |
| Rate limiter | `packages/common/src/rate-limiter` | Redis counters | Lua check, fail open, reset |
| Registration and verification | `auth-service/.../auth`, `users`; `notification-service` consumer | `users`, `emailOtps`, the AUTH_EVENT stream, mailboxes | register, resend, verify, publish, consume, mail |
| Password reset codes | `auth-service/.../auth`, `users` | `passwordResets`, password hash | request, verify, use |
| Mail jobs | `auth-service/.../queue`, `notification-service/.../jobs`, `mails` | `mail` and `mail-dlq` queues | add, process, retry, dead-letter |
| Notifications | `notification-service/.../notification`, gateway client and WebSocket handlers | `notifications`, what the tabs were shown | create, list, read, read-all, unread count, push |
| Calls: guards, clients, error mapping | JWT strategies and guards of the three apps, gateway clients and controllers, `packages/common/src/errors` | a call under way: header, identity, reply | receive, authenticate, authorize, handle, map errors, time out |
| Event transport | `packages/common` NATS | streams, durable consumers | publish, subscribe |
| Pagination helper, crypto, seeds, health, logging | various | none | not modelled |

How they interact.  A browser or socket talks to the gateway only.  The
gateway calls the other services over HTTP with an internal JWT, or with the
user's own where there is one, and a 10 s timeout, forwards `Set-Cookie` of
successful calls and maps errors.  The
auth-service publishes `user.registered`; the notification-service consumes
it with a durable pull consumer.  Reset mails go through the BullMQ queue
`mail` instead, whose worker runs in the notification-service.  Every service's `PermissionGuard` shares
the Redis permission cache that `RolesService` resets.  Rate limits are
counted twice, at the gateway and at the auth-service.

What is hard here.  Handlers are `async` functions whose steps interleave at
every `await`, and nearly all of them read, decide, and write *by id* later
without a transaction.  A timed-out call may still take effect.  The gateway
keeps state in memory that a restart loses.  JetStream redelivers.  Errors of
NATS, Redis and the mail server are swallowed at several places.  Section 5
lists what each part must nevertheless guarantee; `PROJECT.json` lists each
hazard with its line.

## 2. Modules

| Module | Models | Extended by |
|---|---|---|
| `Idempotency` | `POST /client/auth/register` at the gateway | `MCIdempotency`, `IdempotencyProofs` |
| `RegisterOnce` | what registering promises to clients that retry: an abstract specification | instantiated by `Idempotency` |
| `Sessions` | refresh-token sessions | `MCSessions`, `SessionsProofs` |
| `Rbac` | roles, `permVersion`, permission cache, guard | `MCRbac`, `RbacProofs` |
| `WsGateway` | sockets, registry, message limiter, pushes | `MCWsGateway`, `GatewayProofs` |
| `RateLimiter` | guard and Lua script at both hops | `MCRateLimiter`, `GatewayProofs` |
| `Registration` | account creation to verification mail | `MCRegistration`, `RegistrationProofs` |
| `MailQueue` | what the mail queue promises: the abstract specification | instantiated by `MailJobs`, `PasswordReset` |
| `MailJobs` | BullMQ queue, worker, dead-letter listener | `MCMailJobs`, `NotificationServiceProofs` |
| `PasswordReset` | `passwordResets` from request to new password | `MCPasswordReset`, `PasswordResetProofs` |
| `Notifications` | notification rows, pushes, paging | `MCNotifications`, `NotificationServiceProofs` |
| `Calls` | one call through gateway and service | `MCCalls`, `CallsProofs` |

`Idempotency` implements `RegisterOnce` (property `ImplementsRegisterOnce`),
`MailJobs` implements `MailQueue` (property `ImplementsMailQueue`), and
`PasswordReset` is composed with the queue through `MailQueue`: it enqueues
with `Mail!Enqueue` and lets the queue run with `Mail!Work`, so whatever it
shows of reset mails holds of the detailed queue.  The other modules meet at
the points their headers name: what a reset does to sessions is in `Sessions`,
who receives a push is in `WsGateway`, what a handler does once `Calls` has let
a request through is in the module of its component.

One action is the code between two awaits: a database access, a Redis command
or script, an HTTP exchange, a callback.  What a handler has in local
variables is a record (`op`, `adm`, `grd`, `seen`/`reply`), and a label (`pc`)
says where it is.  Definitions called `Mutant: ...` are plausible bugs; no
specification uses them, they show that each property can fail.

**Idempotency.**  `record` is the table, `cache` the in-memory map, `users`
what the auth-service has created.  `Receive` to `CreateRecord` are
`checkIdempotency` branch by branch (the row found is decided on one step
after it was read); `Post`, `OnResponse`, `OnTimeout`, `MarkCompleted`,
`MarkFailed` and `CatchMarkFailed` the rest of `register`.  `markFailed` is
followed by a throw into the same function's catch block, which marks the row
failed a second time; the model keeps both writes.  `AuthRegister` is the
auth-service, which may act after the gateway gave up.  A response body is
the identity of the request that created the user, which is what a replay has
to preserve.  `failedOnce` is history.
`RegisterOnce` sees of all this the users, the keys an attempt of which was
marked failed, and what each client was told (`Told`).

**Sessions.**  A refresh token is its payload (`sub`, `permVersion`, `iat` in
seconds), so two tokens signed in one second are *equal*, as they are in the
code.  `jar` is the cookie jar of a device; `Respond` delivers `Set-Cookie`,
`Lost` drops it.  `disturbed` remembers the devices whose requests overlapped
or lost a response: the properties that hold are about the others.
`ResetPassword` starts where the reset code has passed its verification, which
is in `PasswordReset`.  `RefreshFind` picks any matching row, as
`findFirst` without an order may.

**Rbac.**  `adm` are requests in `RolesService`, `grd` requests in
`PermissionGuard`.  The version read by `ReadUser` is written, plus one, by
`ChangeTx`; `updatePermVersion` is `CacheExists` then `CacheSet`; the guard's
miss is `CacheGet`, `Fetch`, `Store`.  `raced`, `edited` and `overlapped` are
history variables that name the situations in which the promise of
`permVersion` is void.

**WsGateway.**  Node runs callbacks one at a time, so `handleConnection` and
`handleDisconnect` are single actions; a message handler is split at its await
(`HandleMessage`, `HandlerResumes`).  `accepted` is history: the times at which
messages of a user were let through.

**RateLimiter.**  `Rules` is the sequence of checks a request passes over both
hops.  `CheckAllowed`/`CheckRejected` are the Lua script (atomic in Redis, and
expiry included in `Live`); `CheckFailsOpen` is the catch branch.  `granted`
is history: the times at which a counter let checks through.  A request
arrives from a socket's address and with an `x-forwarded-for`, or without;
`extractIp` prefers the latter, whoever wrote it, so an address in a key is what
a request names and not who sent it.  Any number of requests may share one.

**Registration.**  `op` are auth-service handlers, `stream` the JetStream
messages with their delivery state, `batch` the messages a fetch returned.
`SendMailRegis` and `Ack` are the consumer loop; `AckWait` is JetStream's
redelivery timer.  A code is the number of its drawing: it is encrypted for the event
and decrypted before mailing, and `verify` compares the value with the
`codeHash` column, so all places hold one value.  JetStream itself is external.

**MailJobs.**  `job` is what BullMQ keeps in Redis, `current` and `outcome`
the worker, `adding` the listeners waiting for `dlqQueue.add`.  `Process` is
`JobsService.process`; the mail may have gone out although it throws.
`OnFailed` is the listener up to its await and part of `Fail`, which emits the
event; `AddToDlq` the rest.  BullMQ (locks, back-off, stalled check, deferred
failure of a job that stalled too often) is external and modelled from how the
worker uses it.  `dropped` is history.

**PasswordReset.**  A row is named by the token drawn for it.  A code presented
is a pair of kind and token: the token itself, or the encrypted *hash* that the
mail carries; `verifyPassword` accepts the former.  `VerifyFind`/`MarkUsed` are
`verifyPasswordReset`, `ResetFind`/`StorePassword`/`DeleteRow` are
`resetPassword`, and `findFirst` picks any matching row.  A deleted row stays as
`gone`, so that `delete` and `update` by id can fail as Prisma's do.
`disturbed` names the codes that met a fault or two resets at once.

**Notifications.**  `note` are the rows as they were inserted, with a `createdAt`
that others may have too, `shown` and `badge` what was pushed to the tabs of a
user.  An operation is a request
(`ws = FALSE`) or a WebSocket message (`ws = TRUE`, pushes afterwards);
`ServiceError` and `Timeout` are the answers the gateway takes for successes
and the ones it gives up waiting for.  `walk` is a client that asks for page
after page; `LimitOf` and `Skip` are the arithmetic of `listByUser`.  The query sorts
by `createdAt` alone, so every page is cut out of one of the orders that agree
with it (`Orders`), chosen anew each time, and `Items` is what it returns.

**Calls.**  The routes and their decorators are sets and predicates; a call
has a side at the gateway (`gw`) and one at the service (`sv`) that goes on when
the gateway has given up.  `Authenticate`, `Authorize` and `Handle` are the
guards in the order Nest runs them and the handler, which may take effect and
throw nevertheless: `Failure` is what the catch of each handler makes of an
await that failed, before anything was stored or after, `ThrowsHalfway` adds the
exceptions that `createRole` and `updateRole` throw when the role is there.
`Filter`, `HandleAxiosError` and `Outcome` are the path of an error back to the
client.  A socket's `notification:read` makes two calls under one internal token:
`CountAfterMark` starts the second, for the count, when the first has returned.
Where each service puts the user id (`ValidateAuth`, `ValidateNoti`) and where
its guards and handlers look for it (`PermissionUser`, `InfoData`, `ActsAs`)
are kept apart, as in the code.

## 3. Runs that pass

| Run | Instance | Shows |
|---|---|---|
| `MCIdempotency` | 3 requests, 1 key or none, 2 bodies, 1 restart, 1 DB fault, fair | `UniqueExecutor`, `ReplayFaithful`, `SameAnswer`, `Answered`, `Settled`, `ImplementsRegisterOnce` |
| `MCSessions` | 1 user, 2 devices, 2 handlers, clock 0..1, role change, reset or lost response | `CookieCurrent`, `OneRowPerDevice`, `ResetEndsSessions`, `NoFalseRefusal` |
| `MCRbac` | 2 administrators, 1 guard, versions 0..2, a role edit or a fault | `CurrentTokenCurrentPerms`, `ChangeReachesOldTokens` |
| `MCWsGateway` | 2 users, 3 sockets, 4 connections, limit 2, window 1, clock 0..2 | `RegistryExact`, `NoLimiterLeak`, `SharedRate`, `PushExact` |
| `MCRateLimiter` | 2 addresses, sent or forwarded, rules at both hops, limits 1 and 2, 3 requests, clock 0..2, fault, reset | `NoLockout`, `RefusesFullWindows`, `BurstBound` |
| `MCRegistration` | 2 addresses, 2 handlers, 2 codes, 2 deliveries, fault or restart, fair | `ActiveWasMailed`, `NoSilentLoss`, `CodeSurvivesCrash`, `EventuallyMailed` |
| `MCMailJobs` | 2 jobs, 3 attempts, 1 tolerated stall, 3 crashes, 1 failing dead-letter add, fair | `FailedIsDeadLettered`, `MailsBounded`, `ImplementsMailQueue` |
| `MCPasswordReset` | 2 users, 2 handlers, 2 requests, 1 fault | `OnlyVerifiedOwnCode`, `OneConfirmation`, `SingleUse`, `NoFalseRefusal` |
| `MCNotifications` | 2 users, 2 handlers, 3 rows created in 2 moments, 2 reads, 2 deliveries, limits absent, -1, 0 and 3, 1 fault | `OwnRowsOnly`, `PushedReadIsRead`, `BadgeSettles`, `WalkComplete` |
| `MCCalls` | 2 users of whom 1 has permissions, all 29 routes, 5 tokens, 1 failed lookup | `ErrorReachesClient`, `AnswerIsTrue`, `ActsForCaller`, `OnlyEntitled` |

The runs of `Rbac` and `WsGateway` also check `TypeOK`; the type invariants of
the other modules are proved (section 6).

*Bounds.*  Races here are between two handlers over one row, so two handlers
per shared object reach them; Idempotency takes three requests because the
interesting histories are "one fails, two retry".  Restarts, faults and lost
responses are bounded by one: each property is about what a single such event
may do between any two steps.  Clocks run past the end of a window, into the next.  Limits
are scaled from 5..10 to 1..2, which keeps below, at and above the limit.
The versions, codes and rows are as many as the longest interesting history
(an old, a current and a next version; a code and a resend).  Attempts of a mail job are the
code's three, and three crashes are enough to exceed the one stall that BullMQ
tolerates.  `Calls` needs one request only: calls share nothing but the expiry
of tokens.

*Constraints.*  `MCSessions` and
`MCRbac` use a state constraint (`FewEvents`): one rare event (role change,
reset, lost response; role edit, fault) happens in the middle of everything
else, a second one only as the last step.  `OneEvent` in `MCIdempotency` and
`MCRegistration` does the same for restart and fault.  `InOrder` lets the
requests arrive in the order of their numbers and `FirstBody` gives the first
one the first body, `FirstCode` does so for the first address: other
behaviours are these with names exchanged.  (Symmetry would say that, but is
unsound for the liveness properties of these runs.)  `Apart` in
`MCNotifications` keeps reads and the walk through the list in different
behaviours, since the order of the list does not depend on `readAt` and nothing
but the list looks at `createdAt`: behaviours with reads or faults go on with
two rows of one moment, those with a walk have all three rows and both
moments.  A constraint stops TLC at a state that violates it, so the liveness
properties of these runs are checked within the constraint.

*Deadlock* is checked in `MCCalls`, where requests come without end.  In the
other runs requests, codes and ticks are bounded and the system may then stop,
as a server without clients does.

*Symmetry* is used for safety only, over sets whose members no formula
distinguishes.

*Fairness.*  `Idempotency!FairSpec` has weak fairness of `Handle(r)` for each
request received: Node's event loop runs every ready continuation, database
calls end, and axios' timeout ends the wait for the auth-service, which itself
is not assumed fair.  `Registration!FairSpec` has weak fairness of the
consumer's two steps (`while (true)` around `fetch`), of deliveries and of
`ack_wait`; clients and auth-service handlers are not assumed fair.
`JobsFairSpec` of `MailJobs` has weak fairness of the worker's steps and of BullMQ's
timers (back-off, expiry of a lock whose worker died, stalled check); the mail
server is free to fail every time.  No run needs strong fairness.

## 4. Where documentation and code disagree

Two runs check one sentence of the repository's documentation each; TLC finds
a behaviour of the code that contradicts it.

| Run | The documentation | The code |
|---|---|---|
| `MCSessionsOwn` | logout-all revokes the user's sessions (`docs/SECURITY.md:26`) | `user.id` is undefined there, so the filter is dropped |
| `MCPasswordResetMailed` | the raw token is mailed, and its hash looked up (`idea/FLOW_FORGOT_PASSWORD_NATS_BULLMQ.md:94,129`) | the mail carries the encrypted hash, which never verifies |

The models have further behaviours of this kind.  They have no run of their
own.  Where a passing property is exempt from one, or its statement stops
short of it, the definition named in parentheses says so; a hazard that no
property would notice is listed in `PROJECT.json` without properties and with a
note.

* A used key with another body gets the first response, not 409
  (`docs/SECURITY.md:326`): the in-memory cache answers before the hash is
  computed.
* Two concurrent role changes of a user bump `permVersion` once
  (`docs/RBAC.md:117`), because it is read outside the transaction (`raced`).
* A verification mail that fails is not retried and not dead-lettered
  (`docs/OPERATIONS.md:189-196`): `sendMailRegis` swallows the error and the
  event is acknowledged.
* A mail job that stalled too often fails with attempts left, and the listener
  does not dead-letter it (`DeferredFailure` in `FailedIsDeadLettered`).
* Two resets with one code set the password twice; the second is answered 400
  and ends no sessions.  A second verified code of the user blocks the first.
* The reset accepts a code that expired after it was verified: it looks for
  `used: true` alone (`apps/auth-service/.../users.service.ts:334-336`), where
  `idea/FLOW_FORGOT_PASSWORD_NATS_BULLMQ.md:130` checks `expiresAt > now`.
  `PasswordReset!NoFalseRefusal` holds either way, as it asks nothing for expired
  codes.
* A reset that has stored the new password answers 400 when the delete of the
  row or the logout of the devices fails (`users.service.ts:353-359`,
  `auth.service.ts:354-376`); verify, login, resend-code and refresh likewise
  answer 401 for a failure after an effect, and creating or updating a role 400 or
  404.  Only the codes of guards say that nothing happened (`AnswerIsTrue`).
* The notification clients do not look at the status: a failed `markRead` is
  pushed as read, a failed read-all as zero unread, and `POST
  /client/notification`, for which the notification-service has no route, is
  answered as a success with the 404 as data (`ChecksStatus`).
* After `notification:read` the socket's user is told the unread count without
  `NOTIFICATIONS_READ`: `notification-ws.gateway.ts:61` asks for it under an
  internal token, which `PermissionGuard` lets pass (`permission.guard.ts:38`),
  while the HTTP route requires the permission (second disjunct in `OnlyEntitled`).
* Notifications of one millisecond have no fixed order
  (`notification.service.ts:94-98`, a `TIMESTAMP(3)` without a tie-breaker), so a
  reader may get one of them twice and another never (`Tied` in `WalkComplete`).
* `POST /client/roles` is always refused: the route needs an internal token
  (`@InternalOnly`) and the gateway forwards the user's (`docs/RBAC.md:263,316`).
* Two retries of a failed row both execute, and the loser marks the completed
  row failed (`UniqueExecutor` ends with `failedOnce`).  A retry after a
  timeout may be told that its e-mail is taken.
* Two overlapping refreshes with one token both succeed; a refresh that
  overlaps a logout creates a live row (`disturbed`).
* After a role change a refresh is refused, although `docs/RBAC.md` sends the
  user there for a new token (first disjunct of `NoFalseRefusal`).
* Editing a role's permissions bumps no version (`edited`), and a fetch that
  straddles a role change stores old permissions for old tokens
  (`overlapped`).
* A user who reconnects gets a fresh message limit (`left`).
* Limits by address are not limits by client.  The gateway takes the address
  from the request's own `x-forwarded-for` (`rate-limiter.guard.ts:97-102`), so a
  client may count as another, or as many; clients behind one address share its
  counter.  At the auth-service all share one, because the gateway forwards no
  address.
  `RefusesFullWindows` and `BurstBound` speak of identifiers for that reason.

## 5. What the properties say

* **Idempotency.**  Until a row has been failed, one request at most ever
  executes for a key (`UniqueExecutor`).  All successful answers for a key are
  the same (`SameAnswer`).  Whatever the cache or a completed row replays is
  the response of a registration that was performed (`ReplayFaithful`).
  Every request received gets an answer (`Answered`), and a row does not stay
  `processing` unless a restart or a failed write left it so (`Settled`).
  Seen from outside (`ImplementsRegisterOnce`), an e-mail is registered once,
  and no POST that was delayed registers for a request told a success.
* **Sessions.**  On a device whose requests do not overlap: one row at most,
  the cookie is the token of that row, a refresh is refused only for
  revocation, expiry or a role change; and after a password reset no session
  opened with the old password is left.
* **Rbac.**  A token with the current version is never served outdated
  permissions from the cache, unless versions collided or a role was edited.
  After a finished role change no outdated permissions are left for old tokens
  either, unless a fetch straddled it or it died.
* **WsGateway.**  The registry mirrors the connections, a push after an await
  goes to the user's present tabs and nobody else's, limiter entries do not
  leak, and tabs of one user share one limit.
* **RateLimiter.**  Counters always expire; a stretch of one window lets less
  than twice the limit through; a request is turned away only when as many as
  the limit allows were let through, under the identifier it gives, within one
  window (`RefusesFullWindows`).
* **Registration.**  An account becomes active only after a code was mailed to
  its own address; a current code is in the mailbox or still on its way unless
  an error was swallowed; a crash in the middle of a verification leaves the
  code usable; published events are mailed eventually.
* **MailJobs.**  A job without attempts left is in `mail-dlq` or about to be,
  unless that addition failed or it stalled too often; a mail goes out at most once per attempt and tolerated
  stall.  Seen from outside the queue is `MailQueue`: jobs done were mailed, jobs
  that are dead-lettered are never tried again, and every job is done or failed in the end, whatever crashes.
* **PasswordReset.**  A password is only set through a verified code of that
  user; one code yields one confirmation, and sets the password once unless
  resets overlapped or a handler died; a verified code that has not expired is
  refused only because of another verified row.
* **Notifications.**  Rows are read by requests of their own user only; what was
  pushed as read is read, unless a call failed unnoticed; the last count pushed
  is right once a user whose requests did not overlap or fail is quiet; paging
  by `createdAt` misses no row that was there at the start, whatever the limit
  and whatever is inserted meanwhile, unless it shares its `createdAt` with
  another row of the user.
* **Calls.**  What a service throws reaches the client with its status and code
  through both filters; a success is one, and a refusal by a guard had no effect
  and will have none, however late; handlers act for the user whose token or
  socket it was; the gateway's own identity never stands in for a user's
  permission, except for the user's own count after `notification:read`.

## 6. Proofs

Proved with TLAPS for all values of the constants that satisfy the named
assumptions (`IdempotencyAssumption`, `RbacAssumption`, `WsGatewayAssumption`,
`SessionsAssumption`, `RegistrationAssumption`, `MailJobsAssumption`,
`PasswordResetAssumption`, `CallsAssumption`, `RateLimiterAssumption`,
`NotificationsAssumption`, `AbsentAssumption` and the `NullAssumption`s): the
bounds are naturals, and `Null`, `Absent`, `NoJob` and the error values differ
from the data they stand beside (users, rows, tokens, handler records), as they
do in the code; no finiteness is assumed. Each proof module has an inductive
invariant `IInv` with `Init => IInv` and `IInv /\ [Next]_vars => IInv'`, one
step per action, and derives the properties. TLC checked each `IInv` on the
instance of the component's run before it was proved. `GatewayProofs` and
`NotificationServiceProofs` extend two specifications each, which is why the
names of the second are its own (`LimiterSpec` and `LimiterTypeOK` of
`RateLimiter`, `JobsSpec` and `JobsTypeOK` of `MailJobs`). No theorem is about
both specifications.

* **`IdempotencyProofs`**: `TypeCorrect`, `UniqueExecutorHolds`,
  `ReplayFaithfulHolds`, `SameAnswerHolds`.  `IInv` = `TypeOK`, *Ownership*
  and *Provenance*.  The properties are not inductive: a second executor can
  only be excluded by knowing that a request past `CreateRecord` has a row
  (`OwnerInv`), that a row last seen failed makes the key failed for good
  (`SeenInv`, `FailedInv`), and that there is one owner until then
  (`SoleOwner`); a replay is faithful because replies, stored bodies, seen
  rows and answers all come from a registration performed.  The lemmas
  `OwnershipKept` and `ProvenanceKept` say once what a step has to respect, and
  `QuietStep` combines them for the steps that leave the table alone.
  `Refinement` (`ImplementsRegisterOnce`) shows that every step of the handler
  is a step of `RegisterOnce` or none.  It needs two invariants more: a POST
  still on its way has not been answered with a success (`LateInv`), and users
  were created for POSTs that were sent (`RegisteredInv`), so that two
  registrations of one key would be two owners of it.
* **`SessionsProofs`**: `TypeCorrect`, `OneRow` (`OneRowPerDevice`),
  `CookieMatchesRow` (`CookieCurrent`), `ResetsEndSessions`
  (`ResetEndsSessions`) and the action property `RefusalsAreJustified`
  (`NoFalseRefusal`).  Nothing in the table forbids two rows of a device, so
  the argument follows the request of an undisturbed device through its
  steps.  `OpInv` says what a request knows of itself and of the row it found,
  `RowInv` that rows hold tokens of their users.  `QuietInv` says that an
  undisturbed device has one request, one row, and a cookie in step with it,
  where `Stage` says for each label of the request how far the two have come.
  `CredInv` says that a session about to be saved was opened with a password at
  least as new as the last reset that revoked sessions.
* **`RbacProofs`**: `TypeCorrect`, the action property `CurrentTokenServed`
  (`CurrentTokenCurrentPerms`) and `OldTokensServed`
  (`ChangeReachesOldTokens`).  `IInv` says that cache entries, tokens and the
  versions held by requests are not ahead of `permVersion` (`CacheVerInv`,
  `TokenInv`, `GuardInv`, `AdmInv`), and that an entry (`CacheInv`), or a
  fetch about to be stored (`StoreInv`), under the current version has the
  current permissions.  For tokens of older versions that is not enough:
  `QuietInv` adds, for users on whom nothing overlapped, that an entry is
  current whatever its version unless a change is under way (`SettledInv`), and
  so is what a guard is about to store (`FreshInv`).
* **`GatewayProofs`**, the sockets: `TypeCorrect`, `RegistryIsExact`,
  `LimiterDoesNotLeak`, `RateIsShared` (`SharedRate`) and the action property
  `PushIsExact`.  `IInv` adds `OpenOwned`, that an open socket has an owner, and
  `RateKept`, on fixed windows: the limiter entry is the window that began with some
  entry of the log of what was let through, and as many entries as the limit
  before it are more than a window back (`Windows`).  So of twice the limit of
  entries in a row the last is more than a window after the first (`Spread`);
  the entries before the current window need not be looked at again, which is what
  makes this inductive where a count over the last window is not.
* **`GatewayProofs`**, the rate limiter: `NobodyIsLockedOut` (`NoLockout`),
  `BurstsAreBounded` (`BurstBound`) and the action property
  `OnlyFullWindowsRefuse` (`RefusesFullWindows`) from `LimiterInv`.
  `CountersBounded` bounds each counter and its expiry, `GrantsKept` is the
  argument on fixed windows again, and `Recent` says that a counter is no
  more than the length of its log, and that so many last entries of the log
  are at most a window older than its expiry: a counter at the limit stands for
  as many checks let through.
* **`RegistrationProofs`**: `TypeCorrect`, `ActiveOnlyAfterMail`
  (`ActiveWasMailed`), `NoCodeIsLostSilently` (`NoSilentLoss`) and the action
  property `LiveCodesPass` (`CodeSurvivesCrash`).  `veryfiRegister` checks a code
  in one step and activates the account in a later one, and codes of other accounts may
  be presented.  `OwnerInv` says that every code drawn has one owner with whom
  handlers, rows, events and mails agree, so a code that matches the row of an
  account was mailed to that account (`VerifyInv`).  `PublishInv` and `ServedInv`
  follow a code from the row over the stream to the acknowledgement.
* **`NotificationServiceProofs`**, notifications: `TypeCorrect`,
  `PushedReadsAreRead` (`PushedReadIsRead`), `BadgesSettle` (`BadgeSettles`),
  `WalksAreComplete` (`WalkComplete`) and the action property `OwnRows`
  (`OwnRowsOnly`).  `OpInv` says what a request knows at each label; from the
  moment its call was answered, the row is read or the call had failed.
  `BadgeInv` says of an untangled user that one request or event at most is
  under way (`Alone`), that it will push (`OpCounts`), and that the count it
  holds is the number of unread rows at that moment, not only when it is pushed.
  `WalkInv` says that an untied row whose place is on a page read has been seen.
  The place of a row is the number of rows not after it (`Position`); every order
  a query may choose puts an untied row there (`PlaceOfUntied`), and rows inserted
  later only move it on (`PlaceGrows`), towards pages not yet read.
* **`NotificationServiceProofs`**, the mail queue: `QueueTypes`,
  `MailsAreBounded` (`MailsBounded`), `FailedJobsAreDeadLettered`
  (`FailedIsDeadLettered`) and `Refinement`: under the mapping of `Abstract`,
  every behaviour of `JobsSpec` is one of `MailQueue!Spec`. That is the safety
  part of `ImplementsMailQueue`; its liveness part stays with TLC. The bound on
  mails is not inductive: what is kept is that every mail is accounted for by a
  counted attempt, a stall or the attempt under way (`MailInv`), while
  `AttemptsInv`, `StallInv` and `TolerableInv` bound the two counts.
* **`PasswordResetProofs`**: `TypeCorrect`, `VerifiedCodesSetPasswords`
  (`OnlyVerifiedOwnCode`), `OneConfirmationPerCode` (`OneConfirmation`),
  `CodesAreSingleUse` (`SingleUse`), `VerifiedCodesAreAccepted`
  (`NoFalseRefusal`). `UsedInv` says that a handler about to store a password
  found its row verified, `ConfirmInv` that only one handler gets past the
  delete of a row, and `SingleInv` that an undisturbed code has one reset at a
  time, whose row goes right after the password is stored.
* **`CallsProofs`**: `TypeCorrect`, `ErrorsReachClients`
  (`ErrorReachesClient`), `AnswersAreTrue` (`AnswerIsTrue`),
  `HandlersActForCallers` (`ActsForCaller`), `OnlyEntitledCalls`
  (`OnlyEntitled`).  `IInv` carries each fact from the hop where it is
  established to the end of the call: what the gateway's guard accepted
  (`PassedInv`), the header sent on (`HeaderInv`), the identity the service
  made of it (`IdentityInv`), what its guards required (`AllowedInv`), and
  that a call has one outcome, which reply and answer report
  (`OutcomeInv`, `AnswerInv`): it succeeded, or threw, and then took effect only
  if what it threw may come halfway (`Threw`), which no guard's code does.

Model-checked only:

* `EventuallyMailed`, `Answered`, the `Settled` of `Idempotency` and the
  liveness part of `ImplementsMailQueue`: liveness under fairness is out of the
  prover's reach.

Every other property of a passing run, and every action property, is a
theorem; so is the type invariant of every module (that of `RateLimiter` as a
part of `LimiterInductive`).

## 7. Not modelled

Cryptography is abstracted to equality; error texts and mail bodies are
formatting.  Who really sends a request is not in the models where the code does
not ask: `RateLimiter` knows addresses, not clients.  Stream creation, queue and database connection set-up, seeds,
health endpoints, logging and configuration are start-up code or pure I/O.
`parsePagination`, `PermissionCache.invalidate`, `publishPlain`, `subscribePlain`,
`InternalJwtAuthGuard` and `UserJwtAuthGuard` have no caller.  Lists sorted by
`readAt` are left out of `WalkComplete`: rows change places when they are read,
and a reader may miss some.  The bodies of role, login and verification handlers
are in their own modules; `Calls` knows of them that they take effect or not, and
what they throw.

## 8. Plan

Done, in this order: `Idempotency`, `Sessions`, `Rbac`, `WsGateway`,
`RateLimiter`, `Registration` with the first proofs; then `MailQueue`,
`MailJobs` and the refinement, `PasswordReset` on top of it, `Notifications`,
`Calls`; then the proofs about `MailJobs` with the safety part of the
refinement, `PasswordReset`, `Calls`, `Sessions`, `Registration`, older
tokens in `Rbac`, the rate limits and `Notifications`; then `RegisterOnce` and
the proof that `Idempotency` implements it.  Left:

1. An abstract specification of a versioned permission store, implemented by
   `Rbac`.
