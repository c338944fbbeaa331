---------------------------- MODULE CallsProofs ----------------------------
(***************************************************************************)
(* A call through the gateway, for any number of users, requests and       *)
(* failed permission lookups: errors reach the client as they were thrown, *)
(* answers are true, and a handler acts for the caller of the gateway with *)
(* no more than the caller's permissions, but for a socket's own count.    *)
(***************************************************************************)
EXTENDS Calls, TLAPS

\* The exceptions guards and handlers of the services throw.
Throwable ==
  HandlerThrows \cup {Thrown("http", s, "none") : s \in {401, 403, 404, 500, 503}}
    \cup {Thrown("service", 429, "TOO_MANY_REQUESTS")}
    \cup UNION {ThrowsHalfway(rt) : rt \in Routes}

\* The gateway sends on what getHeaders makes of the client's token.
HeaderInv ==
  \A r \in Reqs : /\ token[r] \in ClientTokens
                  /\ header[r] = GetHeaders(route[r], token[r])

\* A call under way at the service, or carried out, passed the gateway's guard.
PassedInv ==
  \A r \in Reqs :
    (sv[r] # "none" \/ runs[r] > 0) /\ ~IsPublic(route[r]) =>
      token[r].aud = "api" /\ token[r].secret = "user"

\* The service knows the caller by the header ...
IdentityInv ==
  \A r \in Reqs :
    sv[r] \in {"known", "allowed"} \/ runs[r] > 0 =>
      identity[r] = IdentityOf(route[r], header[r])

\* ... has checked what the route requires of it ...
AllowedInv ==
  \A r \in Reqs :
    sv[r] = "allowed" \/ runs[r] > 0 =>
      MayPass(r) /\ (InternalOnly(route[r]) => identity[r].type = "internal")

\* ... and acts for it.
ActedInv ==
  \A r \in Reqs : runs[r] > 0 => actedAs[r] = ActsAs(route[r], identity[r])

\* A call has one outcome: its handler ran to its end, took effect at most
\* once, and the reply is a success, or something was thrown, and the reply
\* says what.
Succeeded(r) ==
  /\ raised[r] = Null /\ reply[r] = Ok
  /\ runs[r] = 1 \/ (runs[r] = 0 /\ SwallowsErrors(route[r]))
Threw(r) ==
  /\ raised[r] \in Throwable /\ reply[r] = Filter(raised[r])
  /\ runs[r] = 0 \/ (runs[r] = 1 /\ raised[r] \in ThrowsHalfway(route[r]))

OutcomeInv ==
  \A r \in Reqs :
    /\ sv[r] # "none" => gw[r] \in {"waiting", "gaveUp"}
    /\ sv[r] \in {"arrived", "known", "allowed"} => runs[r] = 0 /\ raised[r] = Null
    /\ sv[r] = "replied" => Succeeded(r) \/ Threw(r)

\* The gateway answers from the reply, refuses itself, or has given up.
Refused(r) ==
  /\ runs[r] = 0 /\ raised[r] = Null
  /\ answer[r] \in {Error(401, "UNAUTHORIZED"), Error(429, "TOO_MANY_REQUESTS")}

AnswerInv ==
  \A r \in Reqs :
    /\ gw[r] = "gaveUp" => answer[r] = Internal
    /\ gw[r] = "done" =>
         \/ Refused(r)
         \/ /\ Succeeded(r) \/ Threw(r)
            /\ answer[r] = Outcome(route[r], reply[r])

\* The inductive invariant.
IInv == /\ TypeOK /\ HeaderInv /\ PassedInv /\ IdentityInv /\ AllowedInv
        /\ ActedInv /\ OutcomeInv /\ AnswerInv

\* Filter gives every exception thrown a status and code of its own, never
\* those of a success.
LEMMA FilterThrown ==
  ASSUME NEW e \in Throwable
  PROVE  /\ e \in Exception /\ Filter(e) \in Reply /\ Filter(e).status >= 400
         /\ e.kind = "service" => Filter(e) = Error(e.status, e.code)
         /\ e.kind \in {"bad", "http"} => Filter(e).status = e.status
         /\ e.kind = "unknown" => Filter(e) = Internal
         /\ e.kind = "http" /\ e.status = 401 => Filter(e).code = "UNAUTHORIZED"
  BY DEF Throwable, HandlerThrows, ThrowsHalfway, Failure, Thrown, Exception, Filter,
     Reply, Error, DefaultCodeForStatus, Internal

\* What a handler throws when it has stored something is never put in the words
\* of a guard.
LEMMA HalfwayCodes ==
  ASSUME NEW rt \in Routes, NEW e \in ThrowsHalfway(rt)
  PROVE  Filter(e).code \notin GuardCodes
  BY DEF ThrowsHalfway, Failure, Thrown, Filter, Error, DefaultCodeForStatus, Internal,
     GuardCodes

\* The tokens and replies that occur are of their types.
LEMMA Types ==
  /\ NoToken \in ClientTokens /\ ClientTokens \subseteq Tokens
  /\ NoIdentity \in Identity
  /\ Ok \in Reply /\ Internal \in Reply /\ Ok.status = 200
  /\ Error(401, "UNAUTHORIZED") \in Reply
  /\ Error(429, "TOO_MANY_REQUESTS") \in Reply
  /\ Filter(Thrown("http", 401, "none")) = Error(401, "UNAUTHORIZED")
  /\ Filter(Thrown("service", 429, "TOO_MANY_REQUESTS"))
       = Error(429, "TOO_MANY_REQUESTS")
  BY DEF ClientTokens, Tokens, NoIdentity, Identity, Ok, Internal, Reply, Error,
     Filter, Thrown, DefaultCodeForStatus

\* What the guards and handlers throw is among the exceptions above.
LEMMA ThrowableServices ==
  /\ \A s \in {401, 403, 404, 500, 503} : Thrown("http", s, "none") \in Throwable
  /\ Thrown("service", 429, "TOO_MANY_REQUESTS") \in Throwable
  /\ HandlerThrows \subseteq Throwable
  /\ \A rt \in Routes : ThrowsHalfway(rt) \subseteq Throwable
  BY DEF Throwable

\* The header getHeaders makes of a client's token is a token.
LEMMA HeaderType ==
  ASSUME NEW rt \in Routes, NEW t \in ClientTokens
  PROVE  GetHeaders(rt, t) \in Tokens
<1>1. t.user \in Users \cup {Null}
  BY DEF ClientTokens, NoToken, AccessToken
<1>2. /\ InternalToken(t.user) \in Tokens /\ InternalToken(Null) \in Tokens
      /\ NoToken \in Tokens /\ t \in Tokens
  BY <1>1 DEF Tokens, ClientTokens
<1> QED
  BY <1>2 DEF GetHeaders

\* Either strategy's validate makes an identity of a token.
LEMMA IdentityType ==
  ASSUME NEW rt \in Routes, NEW t \in Tokens
  PROVE  IdentityOf(rt, t) \in Identity
  BY DEF IdentityOf, ValidateAuth, ValidateNoti, NoIdentity, Identity, Tokens,
     ClientTokens, InternalToken, NoToken, AccessToken

\* A handler acts for a user or for nobody.
LEMMA ActsAsType ==
  ASSUME NEW rt \in Routes, NEW id \in Identity
  PROVE  ActsAs(rt, id) \in Users \cup {Null}
  BY DEF ActsAs, Identity, InfoData

\* What the client is told comes of the reply, and an error stays one.
LEMMA OutcomeType ==
  ASSUME NEW rt, NEW rep \in Reply
  PROVE  /\ Outcome(rt, rep) \in Reply
         /\ rep.status >= 400 /\ ChecksStatus(rt) => Outcome(rt, rep) = rep
         /\ rep = Ok => Outcome(rt, rep) = Ok
  BY CallsAssumption DEF Outcome, HandleAxiosError, Reply, Error, Ok

\* The initial states satisfy the inductive invariant.
LEMMA InitIInv == Init => IInv
  BY CallsAssumption, Types DEF Init, IInv, TypeOK, HeaderInv, PassedInv,
     IdentityInv, AllowedInv, ActedInv, OutcomeInv, AnswerInv, GetHeaders, Routes,
     RoleRoutes, UserRoutes

\* Every step preserves the inductive invariant.
LEMMA NextIInv == IInv /\ [Next]_vars => IInv'
<1> SUFFICES ASSUME IInv, [Next]_vars PROVE IInv'
  OBVIOUS
<1> USE CallsAssumption, Types
<1>1. ASSUME NEW r \in Reqs, NEW rt \in Routes, NEW t \in ClientTokens,
             Receive(r, rt, t)
      PROVE  IInv'
  <2>1. TypeOK'
    <3>1. /\ header' \in [Reqs -> Tokens] /\ token' \in [Reqs -> Tokens]
          /\ route' \in [Reqs -> Routes]
      BY <1>1, HeaderType DEF Receive, IInv, TypeOK
    <3>2. identity' \in [Reqs -> Identity] /\ actedAs' \in [Reqs -> Users \cup {Null}]
      BY <1>1 DEF Receive, IInv, TypeOK
    <3>3. /\ gw' \in [Reqs -> {"idle", "waiting", "done", "gaveUp"}]
          /\ sv' \in [Reqs -> {"none", "arrived", "known", "allowed", "replied"}]
          /\ answer' \in [Reqs -> Reply \cup {Null}]
      BY <1>1 DEF Receive, Answer, IInv, TypeOK
    <3>4. /\ reply' \in [Reqs -> Reply \cup {Null}] /\ runs' \in [Reqs -> Nat]
          /\ raised' \in [Reqs -> Exception \cup {Null}]
      BY <1>1 DEF Receive, IInv, TypeOK
    <3> QED BY <1>1, <3>1, <3>2, <3>3, <3>4 DEF Receive, IInv, TypeOK
  <2>2. HeaderInv' /\ PassedInv'
    BY <1>1 DEF Receive, IInv, TypeOK, HeaderInv, PassedInv, GatewayAccepts
  <2>3. IdentityInv' /\ ActedInv'
    BY <1>1 DEF Receive, IInv, TypeOK, HeaderInv, IdentityInv, ActedInv
  <2>4. AllowedInv'
    BY <1>1 DEF Receive, Answer, IInv, TypeOK, AllowedInv, OutcomeInv, MayPass
  <2>5. OutcomeInv'
    BY <1>1 DEF Receive, Answer, IInv, TypeOK, OutcomeInv, Succeeded, Threw
  <2>6. AnswerInv'
    BY <1>1, Types DEF Receive, Answer, IInv, TypeOK, OutcomeInv, AnswerInv,
       Succeeded, Threw, Refused
  <2> QED BY <2>1, <2>2, <2>3, <2>4, <2>5, <2>6 DEF IInv
<1>2. ASSUME NEW r \in Reqs, OnReply(r)
      PROVE  IInv'
  <2>1. TypeOK'
    <3>1. reply[r] \in Reply
      BY <1>2, FilterThrown DEF OnReply, IInv, OutcomeInv, Succeeded, Threw
    <3>2. Outcome(route[r], reply[r]) \in Reply
      BY <3>1, OutcomeType
    <3> QED BY <1>2, <3>2 DEF OnReply, Answer, IInv, TypeOK
  <2>2. HeaderInv' /\ PassedInv'
    BY <1>2 DEF OnReply, Answer, IInv, TypeOK, HeaderInv, PassedInv
  <2>3. IdentityInv' /\ ActedInv'
    BY <1>2 DEF OnReply, Answer, IInv, TypeOK, HeaderInv, IdentityInv, ActedInv
  <2>4. AllowedInv'
    BY <1>2 DEF OnReply, Answer, IInv, TypeOK, AllowedInv, OutcomeInv, MayPass
  <2>5. OutcomeInv'
    BY <1>2 DEF OnReply, Answer, IInv, TypeOK, OutcomeInv, Succeeded, Threw
  <2>6. AnswerInv'
    BY <1>2, Types DEF OnReply, Answer, IInv, TypeOK, OutcomeInv, AnswerInv,
       Succeeded, Threw, Refused
  <2> QED BY <2>1, <2>2, <2>3, <2>4, <2>5, <2>6 DEF IInv
<1>3. ASSUME NEW r \in Reqs, OnTimeout(r)
      PROVE  IInv'
  <2>1. TypeOK'
    BY <1>3, HeaderType, IdentityType, ActsAsType, OutcomeType, FilterThrown
       DEF OnTimeout, HandleAxiosError, IInv, TypeOK
  <2>2. HeaderInv' /\ PassedInv'
    BY <1>3 DEF OnTimeout, HandleAxiosError, IInv, TypeOK, HeaderInv, PassedInv
  <2>3. IdentityInv' /\ ActedInv'
    BY <1>3 DEF OnTimeout, HandleAxiosError, IInv, TypeOK, HeaderInv, IdentityInv,
       ActedInv, OutcomeInv
  <2>4. AllowedInv'
    BY <1>3 DEF OnTimeout, HandleAxiosError, IInv, TypeOK, AllowedInv, OutcomeInv,
       MayPass
  <2>5. OutcomeInv'
    BY <1>3 DEF OnTimeout, HandleAxiosError, IInv, TypeOK, OutcomeInv, Succeeded, Threw
  <2>6. AnswerInv'
    BY <1>3, Types DEF OnTimeout, HandleAxiosError, IInv, TypeOK, OutcomeInv,
       AnswerInv, Succeeded, Threw, Refused
  <2> QED BY <2>1, <2>2, <2>3, <2>4, <2>5, <2>6 DEF IInv
<1>4. ASSUME NEW r \in Reqs, Authenticate(r)
      PROVE  IInv'
  <2>1. TypeOK'
    <3>1. identity' \in [Reqs -> Identity]
      BY <1>4, IdentityType DEF Authenticate, IInv, TypeOK
    <3>2. \A e \in Throwable : Throws(r, e) =>
            /\ sv' \in [Reqs -> {"none", "arrived", "known", "allowed", "replied"}]
            /\ raised' \in [Reqs -> Exception \cup {Null}]
            /\ reply' \in [Reqs -> Reply \cup {Null}]
      BY FilterThrown DEF Throws, IInv, TypeOK
    <3>3. /\ sv' \in [Reqs -> {"none", "arrived", "known", "allowed", "replied"}]
          /\ raised' \in [Reqs -> Exception \cup {Null}]
          /\ reply' \in [Reqs -> Reply \cup {Null}]
      BY <1>4, <3>2, ThrowableServices DEF Authenticate, IInv, TypeOK
    <3> QED BY <1>4, <3>1, <3>3 DEF Authenticate, IInv, TypeOK
  <2>2. HeaderInv' /\ PassedInv'
    BY <1>4 DEF Authenticate, Throws, IInv, TypeOK, HeaderInv, PassedInv
  <2>3. IdentityInv' /\ ActedInv'
    BY <1>4 DEF Authenticate, Throws, IInv, TypeOK, HeaderInv, IdentityInv, ActedInv
  <2>4. AllowedInv'
    BY <1>4 DEF Authenticate, Throws, Throwable, IInv, TypeOK, AllowedInv,
       OutcomeInv, MayPass
  <2>5. OutcomeInv'
    BY <1>4 DEF Authenticate, Throws, Throwable, IInv, TypeOK, OutcomeInv,
       Succeeded, Threw
  <2>6. AnswerInv'
    BY <1>4, Types DEF Authenticate, Throws, Throwable, IInv, TypeOK, OutcomeInv,
       AnswerInv, Succeeded, Threw, Refused
  <2> QED BY <2>1, <2>2, <2>3, <2>4, <2>5, <2>6 DEF IInv
<1>5. ASSUME NEW r \in Reqs, Authorize(r)
      PROVE  IInv'
  <2>1. TypeOK'
    <3>2. \A e \in Throwable : Throws(r, e) =>
            /\ sv' \in [Reqs -> {"none", "arrived", "known", "allowed", "replied"}]
            /\ raised' \in [Reqs -> Exception \cup {Null}]
            /\ reply' \in [Reqs -> Reply \cup {Null}]
      BY FilterThrown DEF Throws, IInv, TypeOK
    <3>3. /\ sv' \in [Reqs -> {"none", "arrived", "known", "allowed", "replied"}]
          /\ raised' \in [Reqs -> Exception \cup {Null}]
          /\ reply' \in [Reqs -> Reply \cup {Null}]
      BY <1>5, <3>2, ThrowableServices DEF Authorize, IInv, TypeOK
    <3>4. faults' \in 0..MaxFaults
      BY <1>5 DEF Authorize, IInv, TypeOK
    <3> QED BY <1>5, <3>3, <3>4 DEF Authorize, IInv, TypeOK
  <2>2. HeaderInv' /\ PassedInv'
    BY <1>5 DEF Authorize, Throws, IInv, TypeOK, HeaderInv, PassedInv
  <2>3. IdentityInv' /\ ActedInv'
    BY <1>5 DEF Authorize, Throws, IInv, TypeOK, HeaderInv, IdentityInv, ActedInv
  <2>4. AllowedInv'
    BY <1>5 DEF Authorize, Throws, Throwable, IInv, TypeOK, AllowedInv, OutcomeInv,
       MayPass
  <2>5. OutcomeInv'
    BY <1>5 DEF Authorize, Throws, Throwable, IInv, TypeOK, OutcomeInv, Succeeded, Threw
  <2>6. AnswerInv'
    BY <1>5, Types DEF Authorize, Throws, Throwable, IInv, TypeOK, OutcomeInv,
       AnswerInv, Succeeded, Threw, Refused
  <2> QED BY <2>1, <2>2, <2>3, <2>4, <2>5, <2>6 DEF IInv
<1>6. ASSUME NEW r \in Reqs, Handle(r)
      PROVE  IInv'
  <2>1. TypeOK'
    <3>1. ActsAs(route[r], identity[r]) \in Users \cup {Null}
      BY ActsAsType DEF IInv, TypeOK
    <3>2. \A e \in Throwable : Throws(r, e) =>
            /\ sv' \in [Reqs -> {"none", "arrived", "known", "allowed", "replied"}]
            /\ raised' \in [Reqs -> Exception \cup {Null}]
            /\ reply' \in [Reqs -> Reply \cup {Null}]
      BY FilterThrown DEF Throws, IInv, TypeOK
    <3>3. /\ sv' \in [Reqs -> {"none", "arrived", "known", "allowed", "replied"}]
          /\ raised' \in [Reqs -> Exception \cup {Null}]
          /\ reply' \in [Reqs -> Reply \cup {Null}]
      BY <1>6, <3>2, ThrowableServices DEF Handle, RepliesOk, IInv, TypeOK
    <3>4. runs' \in [Reqs -> Nat] /\ actedAs' \in [Reqs -> Users \cup {Null}]
      BY <1>6, <3>1 DEF Handle, TakesEffect, IInv, TypeOK
    <3> QED BY <1>6, <3>3, <3>4 DEF Handle, IInv, TypeOK
  <2>2. HeaderInv' /\ PassedInv'
    BY <1>6 DEF Handle, TakesEffect, RepliesOk, Throws, IInv, TypeOK, HeaderInv,
       PassedInv
  <2>3. IdentityInv' /\ ActedInv'
    BY <1>6 DEF Handle, TakesEffect, RepliesOk, Throws, IInv, TypeOK, HeaderInv,
       IdentityInv, ActedInv
  <2>4. AllowedInv'
    BY <1>6 DEF Handle, TakesEffect, RepliesOk, Throws, IInv, TypeOK, AllowedInv,
       OutcomeInv, MayPass
  <2>5. OutcomeInv'
    <3>1. ASSUME NEW rr \in Reqs, rr # r
          PROVE  /\ (sv'[rr] # "none" => gw'[rr] \in {"waiting", "gaveUp"})
                 /\ (sv'[rr] \in {"arrived", "known", "allowed"} =>
                      runs'[rr] = 0 /\ raised'[rr] = Null)
                 /\ (sv'[rr] = "replied" => Succeeded(rr)' \/ Threw(rr)')
      BY <1>6, <3>1 DEF Handle, TakesEffect, RepliesOk, Throws, IInv, TypeOK,
         OutcomeInv, Succeeded, Threw
    <3>2. /\ gw'[r] \in {"waiting", "gaveUp"} /\ sv'[r] = "replied"
          /\ runs[r] = 0 /\ raised[r] = Null /\ route[r] \in Routes
          /\ route' = route
      BY <1>6 DEF Handle, RepliesOk, Throws, IInv, TypeOK, OutcomeInv
    <3>3. ASSUME TakesEffect(r), RepliesOk(r) PROVE Succeeded(r)'
      BY <3>2, <3>3 DEF TakesEffect, RepliesOk, IInv, TypeOK, Succeeded
    <3>4. ASSUME NEW e \in HandlerThrows, Throws(r, e), UNCHANGED <<runs, actedAs>>
          PROVE  Threw(r)'
      BY <3>2, <3>4, ThrowableServices DEF Throws, IInv, TypeOK, Threw
    <3>5. ASSUME SwallowsErrors(route[r]), RepliesOk(r), UNCHANGED <<runs, actedAs>>
          PROVE  Succeeded(r)'
      BY <3>2, <3>5 DEF RepliesOk, IInv, TypeOK, Succeeded
    <3>6. ASSUME NEW e \in ThrowsHalfway(route[r]), Throws(r, e),
                 TakesEffect(r) \/ UNCHANGED <<runs, actedAs>>
          PROVE  Threw(r)'
      BY <3>2, <3>6, ThrowableServices DEF Throws, TakesEffect, IInv, TypeOK, Threw
    <3>7. Succeeded(r)' \/ Threw(r)'
      BY <1>6, <3>3, <3>4, <3>5, <3>6 DEF Handle
    <3> QED BY <3>1, <3>2, <3>7 DEF OutcomeInv
  <2>6. AnswerInv'
    BY <1>6, Types DEF Handle, TakesEffect, RepliesOk, Throws, IInv, TypeOK,
       OutcomeInv, AnswerInv, Succeeded, Threw, Refused
  <2> QED BY <2>1, <2>2, <2>3, <2>4, <2>5, <2>6 DEF IInv
<1>7. ASSUME NEW r \in Reqs, DropReply(r)
      PROVE  IInv'
  <2>1. TypeOK'
    BY <1>7, HeaderType, IdentityType, ActsAsType, OutcomeType, FilterThrown
       DEF DropReply, IInv, TypeOK
  <2>2. HeaderInv' /\ PassedInv'
    BY <1>7 DEF DropReply, IInv, TypeOK, HeaderInv, PassedInv
  <2>3. IdentityInv' /\ ActedInv'
    BY <1>7 DEF DropReply, IInv, TypeOK, HeaderInv, IdentityInv, ActedInv, OutcomeInv
  <2>4. AllowedInv'
    BY <1>7 DEF DropReply, IInv, TypeOK, AllowedInv, OutcomeInv, MayPass
  <2>5. OutcomeInv'
    BY <1>7 DEF DropReply, IInv, TypeOK, OutcomeInv, Succeeded, Threw
  <2>6. AnswerInv'
    BY <1>7, Types DEF DropReply, IInv, TypeOK, OutcomeInv, AnswerInv, Succeeded,
       Threw, Refused
  <2> QED BY <2>1, <2>2, <2>3, <2>4, <2>5, <2>6 DEF IInv
<1>8. ASSUME NEW u \in Users, Expire(u)
      PROVE  IInv'
  <2>1. TypeOK'
    BY <1>8, HeaderType, IdentityType, ActsAsType, OutcomeType, FilterThrown
       DEF Expire, IInv, TypeOK
  <2>2. HeaderInv' /\ PassedInv'
    BY <1>8 DEF Expire, IInv, TypeOK, HeaderInv, PassedInv
  <2>3. IdentityInv' /\ ActedInv'
    BY <1>8 DEF Expire, IInv, TypeOK, HeaderInv, IdentityInv, ActedInv, OutcomeInv
  <2>4. AllowedInv'
    BY <1>8 DEF Expire, IInv, TypeOK, AllowedInv, OutcomeInv, MayPass
  <2>5. OutcomeInv'
    BY <1>8 DEF Expire, IInv, TypeOK, OutcomeInv, Succeeded, Threw
  <2>6. AnswerInv'
    BY <1>8, Types DEF Expire, IInv, TypeOK, OutcomeInv, AnswerInv, Succeeded,
       Threw, Refused
  <2> QED BY <2>1, <2>2, <2>3, <2>4, <2>5, <2>6 DEF IInv
<1>10. ASSUME NEW r \in Reqs, CountAfterMark(r)
       PROVE  IInv'
  <2>1. TypeOK'
    BY <1>10 DEF CountAfterMark, IInv, TypeOK, Routes, SocketRoutes
  <2>2. HeaderInv' /\ PassedInv'
    <3>1. /\ GetHeaders("wsUnreadCount", token[r]) = GetHeaders("wsMarkRead", token[r])
          /\ ~IsPublic("wsMarkRead")
      BY DEF GetHeaders, SocketRoutes, SocketMessages, NotiRoutes, RoleRoutes, UserRoutes,
         IsPublic, PublicRoutes
    <3>2. HeaderInv'
      BY <1>10, <3>1 DEF CountAfterMark, IInv, TypeOK, HeaderInv
    <3>3. PassedInv'
      BY <1>10, <3>1 DEF CountAfterMark, IInv, TypeOK, PassedInv
    <3> QED BY <3>2, <3>3
  <2>3. IdentityInv' /\ ActedInv'
    BY <1>10 DEF CountAfterMark, IInv, TypeOK, HeaderInv, IdentityInv, ActedInv
  <2>4. AllowedInv'
    BY <1>10 DEF CountAfterMark, IInv, TypeOK, AllowedInv, OutcomeInv, MayPass
  <2>5. OutcomeInv'
    BY <1>10 DEF CountAfterMark, IInv, TypeOK, OutcomeInv, Succeeded, Threw
  <2>6. AnswerInv'
    BY <1>10 DEF CountAfterMark, IInv, TypeOK, OutcomeInv, AnswerInv, Succeeded, Threw,
       Refused
  <2> QED BY <2>1, <2>2, <2>3, <2>4, <2>5, <2>6 DEF IInv
<1>9. CASE UNCHANGED vars
  BY <1>9 DEF vars, IInv, TypeOK, HeaderInv, PassedInv, IdentityInv, AllowedInv,
     ActedInv, OutcomeInv, AnswerInv, MayPass, Succeeded, Threw, Refused
<1> QED
  BY <1>1, <1>2, <1>3, <1>4, <1>5, <1>6, <1>7, <1>8, <1>9, <1>10 DEF Next

\* The invariant holds in every reachable state.
THEOREM Inductive == Spec => []IInv
  BY InitIInv, NextIInv, PTL DEF Spec

\* Type correctness.
THEOREM TypeCorrect == Spec => []TypeOK
<1>1. IInv => TypeOK
  BY DEF IInv
<1> QED
  BY <1>1, Inductive, PTL

\* No filter, body or default on the way hides what a service threw.
THEOREM ErrorsReachClients == Spec => []ErrorReachesClient
<1>1. IInv => ErrorReachesClient
  <2> SUFFICES ASSUME IInv, NEW r \in Reqs,
                      gw[r] = "done", ChecksStatus(route[r]), raised[r] # Null
               PROVE  LET e == raised[r] a == answer[r] IN
                      /\ e.kind = "service" => a = [status |-> e.status, code |-> e.code]
                      /\ e.kind \in {"bad", "http"} => a.status = e.status
                      /\ e.kind = "unknown" => a = Internal
                      /\ e.kind = "http" /\ e.status = 401 => a.code = "UNAUTHORIZED"
    BY DEF ErrorReachesClient
  <2>1. Threw(r) /\ answer[r] = Outcome(route[r], reply[r])
    BY DEF IInv, AnswerInv, Refused, Succeeded
  <2>2. answer[r] = Filter(raised[r])
    BY <2>1, FilterThrown, OutcomeType DEF Threw
  <2> QED
    BY <2>1, <2>2, FilterThrown DEF Threw, Error
<1> QED
  BY <1>1, Inductive, PTL

\* A success was one, and what a guard refused has no effect, ever.
THEOREM AnswersAreTrue == Spec => []AnswerIsTrue
<1>1. IInv => AnswerIsTrue
  <2> SUFFICES ASSUME IInv, NEW r \in Reqs
               PROVE  /\ gw[r] = "done" /\ ChecksStatus(route[r]) /\ answer[r] = Ok =>
                           SwallowsErrors(route[r]) \/ (runs[r] = 1 /\ raised[r] = Null)
                      /\ gw[r] \in {"done", "gaveUp"} /\ runs[r] > 0 =>
                           answer[r].code \notin GuardCodes
    BY DEF AnswerIsTrue
  <2>1. Ok.code \notin GuardCodes /\ Internal.code \notin GuardCodes
    BY DEF Ok, Internal, Error, GuardCodes
  <2>2. CASE gw[r] = "gaveUp"
    BY <2>1, <2>2 DEF IInv, AnswerInv
  <2>3. CASE gw[r] = "done" /\ Refused(r)
    BY <2>3 DEF Refused, Ok, Error
  <2>4. CASE gw[r] = "done" /\ answer[r] = Outcome(route[r], reply[r]) /\ Succeeded(r)
    BY <2>1, <2>4, OutcomeType, Types DEF Succeeded
  <2>5. CASE gw[r] = "done" /\ answer[r] = Outcome(route[r], reply[r]) /\ Threw(r)
    <3>1. reply[r] \in Reply /\ reply[r].status >= 400
      BY <2>5, FilterThrown DEF Threw
    <3>2. CASE ChecksStatus(route[r])
      <4>1. answer[r] = reply[r] /\ answer[r] # Ok
        BY <2>5, <3>1, <3>2, OutcomeType, Types
      <4> QED BY <2>5, <4>1, HalfwayCodes DEF Threw, IInv, TypeOK
    <3>3. CASE ~ChecksStatus(route[r])
      BY <2>1, <2>5, <3>3 DEF Outcome
    <3> QED BY <3>2, <3>3
  <2> QED
    BY <2>2, <2>3, <2>4, <2>5 DEF IInv, AnswerInv
<1> QED
  BY <1>1, Inductive, PTL

\* A request that was carried out for a user is known to the service as that
\* user, by the user's own token or by the gateway's.
LEMMA KnownAsCaller ==
  ASSUME IInv, NEW r \in Reqs, runs[r] > 0, ~IsPublic(route[r])
  PROVE  /\ token[r].secret = "user" /\ token[r].user \in Users
         /\ identity[r] =
              IF route[r] \in SocketRoutes
              THEN [type |-> "internal", userId |-> Null, data |-> token[r].user]
              ELSE IF route[r] \in NotiRoutes
              THEN [type |-> "user", userId |-> token[r].user, data |-> Null]
              ELSE [type |-> "api", userId |-> Null, data |-> token[r].user]
<1>1. /\ token[r] \in ClientTokens /\ token[r].aud = "api"
      /\ token[r].secret = "user" /\ token[r].user \in Users
  BY DEF IInv, HeaderInv, PassedInv, ClientTokens, AccessToken, NoToken
<1>2. route[r] \in Routes /\ ~IsPublicAtService(route[r])
  BY DEF IInv, TypeOK, IsPublic, IsPublicAtService, PublicRoutes
<1>3. header[r] = IF route[r] \in SocketRoutes THEN InternalToken(token[r].user)
                  ELSE token[r]
  <2>1. token[r] # NoToken
    BY <1>1 DEF NoToken
  <2>2. CASE route[r] \in SocketRoutes
    BY <2>2 DEF IInv, HeaderInv, GetHeaders, SocketRoutes, SocketMessages,
       NotiRoutes, RoleRoutes, UserRoutes
  <2>3. CASE route[r] \in NotiRoutes
    BY <2>3 DEF IInv, HeaderInv, GetHeaders, SocketRoutes, SocketMessages,
       NotiRoutes, RoleRoutes, UserRoutes
  <2>4. CASE route[r] \in RoleRoutes \cup UserRoutes
    BY <2>1, <2>4 DEF IInv, HeaderInv, GetHeaders, SocketRoutes, SocketMessages,
       NotiRoutes,       RoleRoutes, UserRoutes
  <2> QED BY <1>2, <2>2, <2>3, <2>4 DEF Routes, IsPublic
<1>4. IsNoti(route[r]) <=> route[r] \in NotiRoutes \cup SocketRoutes
  BY DEF IsNoti, IsPublic
<1> QED
  BY <1>1, <1>2, <1>3, <1>4 DEF IInv, IdentityInv, IdentityOf, ValidateAuth,
     ValidateNoti, InternalToken, NotiRoutes, SocketRoutes, SocketMessages

\* Both services find the caller of the gateway in what the token says.
LEMMA CallerActedFor ==
  ASSUME IInv, NEW r \in Reqs, runs[r] > 0,
         route[r] \in {"me"} \cup NotiRoutes \cup SocketRoutes
  PROVE  actedAs[r] = token[r].user
<1>1. ~IsPublic(route[r])
  BY DEF IsPublic, PublicRoutes, NotiRoutes, SocketRoutes, SocketMessages
<1> DEFINE u == token[r].user
<1>2. /\ u \in Users /\ u # Null
      /\ actedAs[r] = ActsAs(route[r], identity[r])
  BY <1>1, KnownAsCaller, CallsAssumption DEF IInv, ActedInv
<1>3. CASE route[r] = "me"
  <2>1. identity[r] = [type |-> "api", userId |-> Null, data |-> u]
    BY <1>1, <1>3, KnownAsCaller DEF SocketRoutes, SocketMessages, NotiRoutes
  <2> QED BY <1>2, <1>3, <2>1 DEF ActsAs, InfoData, IsNoti, NotiRoutes, SocketRoutes,
             SocketMessages
<1>4. CASE route[r] \in NotiRoutes
  <2>1. identity[r] = [type |-> "user", userId |-> u, data |-> Null]
    BY <1>1, <1>4, KnownAsCaller DEF SocketRoutes, SocketMessages, NotiRoutes
  <2> QED BY <1>2, <1>4, <2>1 DEF ActsAs, NotiRoutes
<1>5. CASE route[r] \in SocketRoutes
  <2>1. identity[r] = [type |-> "internal", userId |-> Null, data |-> u]
    BY <1>1, <1>5, KnownAsCaller
  <2> QED BY <1>2, <1>5, <2>1 DEF ActsAs, InfoData, SocketRoutes, SocketMessages
<1> QED BY <1>3, <1>4, <1>5

\* Both services act for the user of the gateway's caller.
THEOREM HandlersActForCallers == Spec => []ActsForCaller
<1>1. IInv => ActsForCaller
  BY CallerActedFor DEF ActsForCaller
<1> QED
  BY <1>1, Inductive, PTL

\* No call is carried out that its caller is not entitled to, but the count for
\* a socket's own user.
THEOREM OnlyEntitledCalls == Spec => []OnlyEntitled
<1>1. IInv => OnlyEntitled
  <2> SUFFICES ASSUME IInv, NEW r \in Reqs, runs[r] > 0
               PROVE  /\ RequiresPermission(route[r]) =>
                           \/ token[r].user \in Granted
                           \/ route[r] = "wsUnreadCount" /\ actedAs[r] = token[r].user
                      /\ ~InternalOnly(route[r])
                      /\ ~IsPublic(route[r]) => token[r].secret = "user"
    BY DEF OnlyEntitled
  <2>1. MayPass(r) /\ (InternalOnly(route[r]) => identity[r].type = "internal")
    BY DEF IInv, AllowedInv
  <2>2. ASSUME InternalOnly(route[r]) PROVE FALSE
    <3>1. ~IsPublic(route[r]) /\ route[r] \notin NotiRoutes \cup SocketRoutes
      BY <2>2 DEF InternalOnly, IsPublic, PublicRoutes, NotiRoutes, SocketRoutes,
         SocketMessages
    <3>2. identity[r] = [type |-> "api", userId |-> Null, data |-> token[r].user]
      BY <3>1, KnownAsCaller
    <3> QED BY <2>1, <2>2, <3>2
  <2>3. CASE route[r] \in {"findAll", "unreadCount"}
    <3>1. route[r] \in NotiRoutes \ SocketRoutes /\ ~IsPublic(route[r])
      BY <2>3 DEF IsPublic, PublicRoutes, NotiRoutes, SocketRoutes, SocketMessages
    <3>2. /\ identity[r] = [type |-> "user", userId |-> token[r].user, data |-> Null]
          /\ token[r].user # Null
      BY <3>1, KnownAsCaller, CallsAssumption
    <3>3. RequiresPermission(route[r])
      BY <2>3 DEF RequiresPermission
    <3>4. token[r].user \in Granted
      BY <2>1, <3>2, <3>3 DEF MayPass, PermissionUser
    <3> QED BY <2>2, <3>1, <3>4, KnownAsCaller
  <2>4. CASE route[r] = "wsUnreadCount"
    <3>1. actedAs[r] = token[r].user
      BY <2>4, CallerActedFor DEF SocketRoutes
    <3> QED BY <2>2, <2>4, <3>1, KnownAsCaller
  <2> QED BY <2>2, <2>3, <2>4, KnownAsCaller DEF RequiresPermission, InternalOnly
<1> QED
  BY <1>1, Inductive, PTL
=============================================================================
