------------------------------ MODULE WsGateway ------------------------------
(***************************************************************************)
(* CoreWebsocketGateway with SocketRegistryService and the two message     *)
(* handlers of NotificationWsGateway.  Node runs one callback at a time:   *)
(* handleConnection, handleDisconnect and a message handler up to its      *)
(* first await are single steps; the push after the HTTP calls to the      *)
(* notification-service is a step of its own, and sockets may come and go  *)
(* before it.                                                              *)
(***************************************************************************)
EXTENDS Naturals, Sequences

CONSTANTS Users, Sockets, Null,
          MaxMessages, \* MAX_MESSAGES_PER_SECOND
          Window,     \* the 1000 ms of checkRateLimit, in clock ticks
          MaxTime,    \* bound on the clock
          MaxOpens,   \* bound on connections
          MaxAwait    \* bound on handlers of a user awaiting a reply

ASSUME WsGatewayAssumption ==
  /\ MaxMessages \in Nat \ {0} /\ Window \in Nat \ {0}
  /\ MaxTime \in Nat /\ MaxOpens \in Nat /\ MaxAwait \in Nat
  /\ Null \notin Users

VARIABLES
  open,         \* connected sockets
  data,         \* client.data.userId of a socket, or Null
  userSockets,  \* registry: userId -> set of socket ids (absent when empty)
  socketToUser, \* registry: socket id -> userId, or Null
  rateLimits,   \* userId -> [count, resetAt], or Null
  awaiting,     \* handlers of a user waiting for the notification-service
  sent,         \* the last push: its user and the sockets it went to
  now, opens,
  accepted,     \* history: per user, the times of the messages let through
  left          \* history: users whose last socket closed at some time

vars == <<open, data, userSockets, socketToUser, rateLimits, awaiting, sent,
          now, opens, accepted, left>>

Times == 0..MaxTime
Limit == [count: 1..MaxMessages, resetAt: Nat]
Logs  == [Users -> Seq(Nat)]

ASSUME NullAssumption == Null \notin Limit

TypeOK ==
  /\ open \subseteq Sockets
  /\ data \in [Sockets -> Users \cup {Null}]
  /\ userSockets \in [Users -> SUBSET Sockets]
  /\ socketToUser \in [Sockets -> Users \cup {Null}]
  /\ rateLimits \in [Users -> Limit \cup {Null}]
  /\ awaiting \in [Users -> 0..MaxAwait]
  /\ sent \in [user: Users \cup {Null}, to: SUBSET Sockets]
  /\ now \in Times /\ opens \in 0..MaxOpens
  /\ accepted \in Logs
  /\ left \subseteq Users

Init ==
  /\ open = {}
  /\ data = [s \in Sockets |-> Null]
  /\ userSockets = [u \in Users |-> {}]
  /\ socketToUser = [s \in Sockets |-> Null]
  /\ rateLimits = [u \in Users |-> Null]
  /\ awaiting = [u \in Users |-> 0]
  /\ sent = [user |-> Null, to |-> {}]
  /\ now = 0 /\ opens = 0
  /\ accepted = [u \in Users |-> <<>>]
  /\ left = {}

-----------------------------------------------------------------------------
(* SocketRegistryService *)

register(u, s) ==
  /\ userSockets' = [userSockets EXCEPT ![u] = @ \cup {s}]
  /\ socketToUser' = [socketToUser EXCEPT ![s] = u]

\* Mutant: only the reverse map is cleaned.
unregisterReverse(s) ==
  /\ socketToUser' = [socketToUser EXCEPT ![s] = Null]
  /\ UNCHANGED userSockets

unregister(s) ==
  IF socketToUser[s] = Null
  THEN UNCHANGED <<userSockets, socketToUser>>
  ELSE /\ userSockets' = [userSockets EXCEPT ![socketToUser[s]] = @ \ {s}]
       /\ socketToUser' = [socketToUser EXCEPT ![s] = Null]

getSocketsByUser(u) == userSockets[u]
isUserOnline(u)     == userSockets[u] # {}

-----------------------------------------------------------------------------
\* handleConnection: no token or an invalid one ends with disconnect() and
\* no registration; a valid one registers the socket under its subject.
HandleConnection(s, u) ==
  /\ s \notin open /\ opens < MaxOpens
  /\ opens' = opens + 1
  /\ \/ UNCHANGED <<open, data, userSockets, socketToUser>>
     \/ /\ open' = open \cup {s}
        /\ data' = [data EXCEPT ![s] = u]
        /\ register(u, s)
  /\ UNCHANGED <<rateLimits, awaiting, sent, now, accepted, left>>

\* Mutant: the limiter entry goes with any socket of the user.
HandleDisconnectEager(s) ==
  /\ s \in open
  /\ open' = open \ {s}
  /\ unregister(s)
  /\ rateLimits' = [rateLimits EXCEPT ![data[s]] = Null]
  /\ left' = IF userSockets'[data[s]] # {} THEN left ELSE left \cup {data[s]}
  /\ data' = [data EXCEPT ![s] = Null]
  /\ UNCHANGED <<awaiting, sent, now, opens, accepted>>

\* Mutant: the limiter entry is never dropped.
HandleDisconnectKeep(s) ==
  /\ s \in open
  /\ open' = open \ {s}
  /\ unregister(s)
  /\ left' = IF userSockets'[data[s]] # {} THEN left ELSE left \cup {data[s]}
  /\ data' = [data EXCEPT ![s] = Null]
  /\ UNCHANGED <<rateLimits, awaiting, sent, now, opens, accepted>>

\* handleDisconnect: when the user's last socket is gone, so is the limiter
\* entry.
HandleDisconnect(s) ==
  /\ s \in open
  /\ open' = open \ {s}
  /\ unregister(s)
  /\ IF userSockets'[data[s]] # {}
     THEN UNCHANGED <<rateLimits, left>>
     ELSE /\ rateLimits' = [rateLimits EXCEPT ![data[s]] = Null]
          /\ left' = left \cup {data[s]}
  /\ data' = [data EXCEPT ![s] = Null]
  /\ UNCHANGED <<awaiting, sent, now, opens, accepted>>

NewWindow(u) ==
  IF rateLimits[u] = Null THEN TRUE ELSE now > rateLimits[u].resetAt

\* Mutant: off by one in the comparison with the limit.
AcceptOneMore(u) ==
  /\ IF NewWindow(u)
     THEN rateLimits' = [rateLimits EXCEPT ![u] =
                           [count |-> 1, resetAt |-> now + Window]]
     ELSE /\ rateLimits[u].count <= MaxMessages
          /\ rateLimits' = [rateLimits EXCEPT ![u].count = @ + 1]
  /\ accepted' = [accepted EXCEPT ![u] = Append(@, now)]

\* checkRateLimit returns true.
Accept(u) ==
  /\ IF NewWindow(u)
     THEN rateLimits' = [rateLimits EXCEPT ![u] =
                           [count |-> 1, resetAt |-> now + Window]]
     ELSE /\ rateLimits[u].count < MaxMessages
          /\ rateLimits' = [rateLimits EXCEPT ![u].count = @ + 1]
  /\ accepted' = [accepted EXCEPT ![u] = Append(@, now)]

\* handleNotificationRead or handleNotificationReadAll up to the first await.
\* A message over the limit or with an invalid payload gets an error event;
\* the latter has been counted.
HandleMessage(s) ==
  /\ s \in open
  /\ Accept(data[s])
  /\ \/ /\ awaiting[data[s]] < MaxAwait
        /\ awaiting' = [awaiting EXCEPT ![data[s]] = @ + 1]
     \/ UNCHANGED awaiting
  /\ UNCHANGED <<open, data, userSockets, socketToUser, sent, now, opens, left>>

\* The calls to the notification-service are through.  On success the update
\* goes to the sockets the user has by now; on an error the sender is told.
HandlerResumes(u) ==
  /\ awaiting[u] > 0
  /\ awaiting' = [awaiting EXCEPT ![u] = @ - 1]
  /\ \/ sent' = [user |-> u, to |-> getSocketsByUser(u)]
     \/ UNCHANGED sent
  /\ UNCHANGED <<open, data, userSockets, socketToUser, rateLimits, now, opens,
                 accepted, left>>

\* Mutant: the event is broadcast.
emitToUserAll(u) ==
  /\ sent' = [user |-> u, to |-> open]
  /\ UNCHANGED <<open, data, userSockets, socketToUser, rateLimits, awaiting,
                 now, opens, accepted, left>>

\* emitToUser called by the consumer of notification.created.
emitToUser(u) ==
  /\ sent' = [user |-> u, to |-> getSocketsByUser(u)]
  /\ UNCHANGED <<open, data, userSockets, socketToUser, rateLimits, awaiting,
                 now, opens, accepted, left>>

Tick ==
  /\ now < MaxTime
  /\ now' = now + 1
  /\ UNCHANGED <<open, data, userSockets, socketToUser, rateLimits, awaiting,
                 sent, opens, accepted, left>>

Next ==
  \/ \E s \in Sockets, u \in Users : HandleConnection(s, u)
  \/ \E s \in Sockets : HandleDisconnect(s) \/ HandleMessage(s)
  \/ \E u \in Users : HandlerResumes(u) \/ emitToUser(u)
  \/ Tick

Spec == Init /\ [][Next]_vars

-----------------------------------------------------------------------------
(* Properties that hold *)

\* The two maps of the registry are inverse of each other and agree with the
\* connections there are: every open socket, and no closed one, is found
\* under the user it authenticated as.
RegistryExact ==
  /\ \A s \in Sockets, u \in Users :
       s \in userSockets[u] <=> socketToUser[s] = u
  /\ \A s \in Sockets :
       socketToUser[s] = IF s \in open THEN data[s] ELSE Null

\* A push, also one made after an await, goes to all the tabs its user has
\* open at that time and to nobody else's.
PushExact ==
  [][sent' # sent =>
       sent'.to = {s \in open : data[s] = sent'.user}]_vars

\* Users without a socket leave no limiter entry behind.
NoLimiterLeak == \A u \in Users : rateLimits[u] # Null => isUserOnline(u)

\* For a user who keeps at least one tab open, all tabs together get less
\* than twice the limit through in any stretch of one window, wherever it
\* lies with respect to the resets: of twice that many messages in a row, the
\* last comes more than a window after the first.
SharedRate ==
  \A u \in Users \ left : \A i, j \in DOMAIN accepted[u] :
    j + 1 = i + 2 * MaxMessages => accepted[u][j] > accepted[u][i] + Window
=============================================================================
