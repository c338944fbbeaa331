------------------------ MODULE RegistrationProofs -------------------------
(***************************************************************************)
(* E-mail verification for any number of addresses, handlers, codes and    *)
(* faults: an account becomes active only after a code was mailed to it,   *)
(* the code it waits for is not lost silently, and a live code passes.     *)
(***************************************************************************)
EXTENDS Registration, TLAPS

\* A handler past its first step works on one address and one code.
OpInv ==
  \A p \in Procs :
    op[p].pc # "idle" => op[p].email \in Emails /\ op[p].code \in Codes

\* Every code drawn has one owner: only handlers, rows, events and mails of
\* that address carry it.
Owns(owner) ==
  /\ \A p \in Procs :
       op[p].pc \in {"create", "upsert", "publish"} =>
         op[p].code \in 1..drawn /\ owner[op[p].code] = op[p].email
  /\ \A e \in Emails :
       otp[e] # Null => otp[e].code \in 1..drawn /\ owner[otp[e].code] = e
  /\ \A i \in 1..Len(stream) :
       /\ stream[i].code \in 1..drawn
       /\ owner[stream[i].code] = stream[i].email
  /\ \A e \in Emails : \A c \in mailbox[e] : c \in 1..drawn /\ owner[c] = e

OwnerInv == \E owner \in [1..drawn -> Emails] : Owns(owner)

\* A code presented was mailed to somebody; past the check to that account.
Verifying(p) == op[p].pc \in {"markUsed", "activate"}

VerifyInv ==
  \A p \in Procs :
    /\ op[p].pc = "findOtp" => \E e \in Emails : op[p].code \in mailbox[e]
    /\ Verifying(p) => /\ otp[op[p].email] \in Otp
                       /\ mailbox[op[p].email] # {}

\* The code of a row is about to be published or in an event, unless its
\* publication failed.
PublishInv ==
  \A e \in Emails :
    otp[e] # Null =>
      LET c == otp[e].code
      IN  \/ e \in failed
          \/ \E p \in Procs : op[p] = [pc |-> "publish", email |-> e, code |-> c]
          \/ \E i \in 1..Len(stream) : Carries(i, e, c)

\* An event whose handler returned was mailed, or its mail failed.
Served(i) ==
  \/ stream[i].code \in mailbox[stream[i].email]
  \/ stream[i].email \in failed

ServedInv ==
  /\ \A i \in 1..Len(stream) : stream[i].state = "acked" => Served(i)
  /\ handled => Served(Head(batch))

\* The inductive invariant.
IInv == /\ TypeOK /\ OpInv /\ OwnerInv /\ VerifyInv /\ PublishInv
        /\ ServedInv /\ ActiveWasMailed

\* A step of handler p sets its record and leaves the others alone.
LEMMA OpSet ==
  ASSUME TypeOK, NEW p \in Procs, NEW x \in Op, op' = [op EXCEPT ![p] = x]
  PROVE  /\ op' \in [Procs -> Op] /\ op'[p] = x
         /\ \A q \in Procs \ {p} : op'[q] = op[q]
  BY DEF TypeOK

\* A handler that goes on keeps its address and code.
LEMMA GoSets ==
  ASSUME TypeOK, NEW p \in Procs,
         NEW l \in {"upsert", "publish", "markUsed", "activate"}, Go(p, l)
  PROVE  /\ op' \in [Procs -> Op]
         /\ op'[p] = [pc |-> l, email |-> op[p].email, code |-> op[p].code]
         /\ op'[p].pc = l /\ op'[p].email = op[p].email /\ op'[p].code = op[p].code
         /\ \A q \in Procs \ {p} : op'[q] = op[q]
<1>1. op[p] \in Op
  BY DEF TypeOK
<1>2. [op[p] EXCEPT !.pc = l]
        = [pc |-> l, email |-> op[p].email, code |-> op[p].code]
  BY <1>1 DEF Op
<1>3. [op[p] EXCEPT !.pc = l] \in Op
  BY <1>1 DEF Op
<1>4. op' = [op EXCEPT ![p] = [op[p] EXCEPT !.pc = l]]
  BY DEF Go
<1> QED BY <1>2, <1>3, <1>4, OpSet

\* The records handlers go on with keep the invariant on handlers.
LEMMA OpStays ==
  ASSUME OpInv, NEW p \in Procs, NEW x,
         op'[p] = x, x.pc # "idle" => x.email \in Emails /\ x.code \in Codes,
         \A q \in Procs \ {p} : op'[q] = op[q]
  PROVE  OpInv'
  BY DEF OpInv

\* A handler at work that goes on keeps the invariant on handlers.
LEMMA GoStays ==
  ASSUME TypeOK, OpInv, NEW p \in Procs, op[p].pc # "idle",
         NEW l \in {"upsert", "publish", "markUsed", "activate"}, Go(p, l)
  PROVE  OpInv' /\ op' \in [Procs -> Op]
<1> DEFINE x == [pc |-> l, email |-> op[p].email, code |-> op[p].code]
<1>1. /\ op' \in [Procs -> Op] /\ op'[p] = x
      /\ \A q \in Procs \ {p} : op'[q] = op[q]
  BY GoSets
<1>2. x.email \in Emails /\ x.code \in Codes
  BY DEF OpInv
<1> QED BY <1>1, <1>2, OpStays

\* A handler that ends is idle.
LEMMA EndSets ==
  ASSUME TypeOK, NEW p \in Procs, End(p)
  PROVE  /\ op' \in [Procs -> Op] /\ op'[p] = Idle
         /\ \A q \in Procs \ {p} : op'[q] = op[q]
<1>1. Idle \in Op
  BY DEF Idle, Op
<1> QED BY <1>1, OpSet DEF End

\* Idle handlers satisfy the invariant on handlers.
LEMMA EndStays ==
  ASSUME TypeOK, OpInv, NEW p \in Procs, End(p)
  PROVE  OpInv' /\ op' \in [Procs -> Op]
  BY EndSets, OpStays DEF Idle

\* A handler that begins works on the address and code given.
LEMMA BeginSets ==
  ASSUME TypeOK, NEW p \in Procs, NEW l \in {"create", "upsert", "findOtp"},
         NEW e \in Emails, NEW c \in Codes, Begin(p, l, e, c)
  PROVE  /\ op' \in [Procs -> Op]
         /\ op'[p] = [pc |-> l, email |-> e, code |-> c]
         /\ op'[p].pc = l /\ op'[p].email = e /\ op'[p].code = c
         /\ \A q \in Procs \ {p} : op'[q] = op[q]
<1>1. [pc |-> l, email |-> e, code |-> c] \in Op
  BY DEF Op
<1> QED BY <1>1, OpSet DEF Begin

\* A change of one event keeps the stream in shape.
LEMMA StreamSet ==
  ASSUME TypeOK, NEW i \in 1..Len(stream), NEW x \in Event,
         stream' = [stream EXCEPT ![i] = x]
  PROVE  /\ stream' \in Seq(Event) /\ Len(stream') = Len(stream)
         /\ stream'[i] = x
         /\ \A k \in (1..Len(stream)) \ {i} : stream'[k] = stream[k]
  BY DEF TypeOK

\* Events change their delivery state only.
LEMMA StateSet ==
  ASSUME TypeOK, NEW i \in 1..Len(stream), NEW st \in {"ready", "acked"},
         stream' = [stream EXCEPT ![i].state = st]
  PROVE  /\ stream' \in Seq(Event) /\ Len(stream') = Len(stream)
         /\ stream'[i].state = st
         /\ \A k \in 1..Len(stream) :
              /\ stream'[k].email = stream[k].email
              /\ stream'[k].code = stream[k].code
              /\ k # i => stream'[k] = stream[k]
<1>1. stream[i] \in Event
  BY DEF TypeOK
<1>2. [stream[i] EXCEPT !.state = st] \in Event
  BY <1>1 DEF Event
<1>3. stream' = [stream EXCEPT ![i] = [stream[i] EXCEPT !.state = st]]
  OBVIOUS
<1> DEFINE x == [stream[i] EXCEPT !.state = st]
<1>4. x.state = st /\ x.email = stream[i].email /\ x.code = stream[i].code
  BY <1>1 DEF Event
<1> QED BY <1>2, <1>3, <1>4, StreamSet

\* A delivery is counted.
LEMMA DeliverSets ==
  ASSUME TypeOK, NEW i \in 1..Len(stream), Deliver(i)
  PROVE  /\ stream' \in Seq(Event) /\ Len(stream') = Len(stream)
         /\ stream'[i].state = "out"
         /\ \A k \in 1..Len(stream) :
              /\ stream'[k].email = stream[k].email
              /\ stream'[k].code = stream[k].code
              /\ k # i => stream'[k] = stream[k]
<1>1. stream[i] \in Event /\ stream[i].deliveries < MaxDeliver
  BY DEF TypeOK, Deliver
<1> DEFINE x == [stream[i] EXCEPT !.state = "out", !.deliveries = @ + 1]
<1>2. stream[i].deliveries + 1 \in 0..MaxDeliver
  BY <1>1, RegistrationAssumption DEF Event
<1>3. x \in Event
  BY <1>1, <1>2 DEF Event
<1>4. stream' = [stream EXCEPT ![i] = x]
  BY DEF Deliver
<1>5. x.state = "out" /\ x.email = stream[i].email /\ x.code = stream[i].code
  BY <1>1 DEF Event
<1> QED BY <1>3, <1>4, <1>5, StreamSet

\* A mail goes to the address of the first message of the batch, or fails.
LEMMA MailSets ==
  ASSUME TypeOK, SendMailRegis
  PROVE  LET m == stream[Head(batch)]
         IN  /\ Head(batch) \in 1..Len(stream) /\ m \in Event
             /\ mailbox' \in [Emails -> SUBSET Codes]
             /\ \A e \in Emails : mailbox[e] \subseteq mailbox'[e]
             /\ \A e \in Emails, c \in Codes :
                  c \in mailbox'[e] =>
                    c \in mailbox[e] \/ (e = m.email /\ c = m.code)
             /\ m.code \in mailbox'[m.email] \/ m.email \in failed'
             /\ failed \subseteq failed'
<1> DEFINE m == stream[Head(batch)]
           to == m.email
           c == m.code
<1>1. Head(batch) \in 1..Len(stream) /\ m \in Event
  BY DEF SendMailRegis, TypeOK
<1>2. to \in Emails /\ c \in Codes
  BY <1>1 DEF Event
<1>3. \/ /\ mailbox' = [mailbox EXCEPT ![to] = mailbox[to] \cup {c}]
         /\ failed' = failed
      \/ mailbox' = mailbox /\ failed' = failed \cup {to}
  BY DEF SendMailRegis
<1> HIDE DEF m, to, c
<1>4. CASE /\ mailbox' = [mailbox EXCEPT ![to] = mailbox[to] \cup {c}]
           /\ failed' = failed
  <2>1. /\ mailbox' \in [Emails -> SUBSET Codes]
        /\ mailbox'[to] = mailbox[to] \cup {c}
        /\ \A e \in Emails : e # to => mailbox'[e] = mailbox[e]
    BY <1>2, <1>4 DEF TypeOK
  <2> QED BY <1>1, <1>2, <1>4, <2>1 DEF m, to, c
<1>5. CASE mailbox' = mailbox /\ failed' = failed \cup {to}
  BY <1>1, <1>5 DEF TypeOK, m, to, c
<1> QED BY <1>3, <1>4, <1>5

\* The code a verification passed with was mailed to the account it is for:
\* the row of an account carries only codes of that account.
LEMMA PassedWasMailed ==
  ASSUME OwnerInv, NEW e \in Emails, NEW x \in Emails,
         otp[e] # Null, otp[e].code \in mailbox[x]
  PROVE  x = e
  BY DEF OwnerInv, Owns

\* The initial states satisfy the inductive invariant.
LEMMA InitIInv == Init => IInv
<1> SUFFICES ASSUME Init PROVE IInv
  OBVIOUS
<1>1. TypeOK
  <2>1. Idle \in Op
    BY DEF Op, Idle
  <2>2. stream \in Seq(Event) /\ batch \in Seq(1..Len(stream))
    BY DEF Init
  <2>3. handled \in BOOLEAN /\ ~handled
    BY DEF Init
  <2>4. drawn \in 0..MaxCodes /\ faults \in 0..MaxFaults /\ crashes \in 0..MaxCrashes
    BY RegistrationAssumption DEF Init
  <2> QED BY <2>1, <2>2, <2>3, <2>4 DEF Init, TypeOK
<1>2. OwnerInv
  <2>1. PICK owner \in [1..drawn -> Emails] : TRUE
    <3>1. [c \in 1..drawn |-> CHOOSE e \in Emails : TRUE] \in [1..drawn -> Emails]
      BY DEF Init
    <3> QED BY <3>1
  <2>2. Owns(owner)
    BY DEF Init, Owns, Idle
  <2> QED BY <2>2 DEF OwnerInv
<1>3. OpInv /\ VerifyInv /\ PublishInv /\ ServedInv /\ ActiveWasMailed
  BY DEF Init, OpInv, VerifyInv, Verifying, PublishInv, ServedInv,
     ActiveWasMailed, Idle
<1> QED BY <1>1, <1>2, <1>3 DEF IInv

\* Every step keeps the types, and handlers keep address and code.
LEMMA NextType == IInv /\ [Next]_vars => TypeOK' /\ OpInv'
<1> SUFFICES ASSUME TypeOK, OpInv, VerifyInv, [Next]_vars
             PROVE  TypeOK' /\ OpInv'
  BY DEF IInv
<1> USE RegistrationAssumption DEF OpInv
<1>1. ASSUME NEW p \in Procs, NEW e \in Emails,
             RegisterFind(p, e) \/ ResendFind(p, e)
      PROVE  TypeOK' /\ OpInv'
  <2>1. drawn + 1 \in Codes /\ drawn' = drawn + 1
    BY <1>1 DEF RegisterFind, ResendFind, Codes, TypeOK
  <2>2. PICK l \in {"create", "upsert"} : Begin(p, l, e, drawn + 1)
    BY <1>1 DEF RegisterFind, ResendFind
  <2> DEFINE x == [pc |-> l, email |-> e, code |-> drawn + 1]
  <2>3. /\ op' \in [Procs -> Op] /\ op'[p] = x
        /\ \A q \in Procs \ {p} : op'[q] = op[q]
    BY <2>1, <2>2, BeginSets
  <2>4. OpInv'
    BY <2>1, <2>3, OpStays
  <2> QED BY <1>1, <2>1, <2>3, <2>4
          DEF RegisterFind, ResendFind, Codes, consumer, TypeOK
<1>2. ASSUME NEW p \in Procs, NEW e \in Emails,
             NEW c \in UNION {mailbox[x] : x \in Emails}, VerifyFindUser(p, e, c)
      PROVE  TypeOK' /\ OpInv'
  <2>1. c \in Codes
    BY DEF TypeOK
  <2> DEFINE x == [pc |-> "findOtp", email |-> e, code |-> c]
  <2>2. /\ op' \in [Procs -> Op] /\ op'[p] = x
        /\ \A q \in Procs \ {p} : op'[q] = op[q]
    BY <1>2, <2>1, BeginSets DEF VerifyFindUser
  <2>3. OpInv'
    BY <2>1, <2>2, OpStays
  <2> QED BY <1>2, <2>2, <2>3 DEF VerifyFindUser, consumer, TypeOK
<1>3. ASSUME NEW p \in Procs, CreateUser(p)
      PROVE  TypeOK' /\ OpInv'
  <2>1. OpInv' /\ op' \in [Procs -> Op]
    BY <1>3, GoStays, EndStays DEF CreateUser
  <2> QED BY <1>3, <2>1 DEF CreateUser, consumer, TypeOK
<1>4. ASSUME NEW p \in Procs, HandlerFails(p)
      PROVE  TypeOK' /\ OpInv'
  <2>1. OpInv' /\ op' \in [Procs -> Op]
    BY <1>4, EndStays DEF HandlerFails
  <2>2. op[p].pc = "publish" => op[p].email \in Emails
    OBVIOUS
  <2>3. failed' \subseteq Emails /\ faults' \in 0..MaxFaults
    BY <1>4, <2>2 DEF HandlerFails, TypeOK
  <2> QED BY <1>4, <2>1, <2>3 DEF HandlerFails, consumer, TypeOK
<1>5. ASSUME NEW p \in Procs, UpsertOtp(p)
      PROVE  TypeOK' /\ OpInv'
  <2>1. op[p].email \in Emails /\ op[p].code \in Codes
    BY <1>5 DEF UpsertOtp
  <2>2. OpInv' /\ op' \in [Procs -> Op]
    BY <1>5, GoStays DEF UpsertOtp
  <2>3. otp' \in [Emails -> Otp \cup {Null}]
    BY <1>5, <2>1 DEF UpsertOtp, Otp, TypeOK
  <2> QED BY <1>5, <2>2, <2>3 DEF UpsertOtp, consumer, TypeOK
<1>6. ASSUME NEW p \in Procs, Publish(p)
      PROVE  TypeOK' /\ OpInv'
  <2>1. OpInv' /\ op' \in [Procs -> Op]
    BY <1>6, EndStays DEF Publish
  <2>2. stream' \in Seq(Event) /\ Len(stream') = Len(stream) + 1
    BY <1>6 DEF Publish, Event, TypeOK
  <2>3. batch' \in Seq(1..Len(stream'))
    BY <1>6, <2>2 DEF Publish, consumer, TypeOK
  <2> QED BY <1>6, <2>1, <2>2, <2>3 DEF Publish, consumer, TypeOK
<1>7. ASSUME NEW p \in Procs, VerifyFindOtp(p)
      PROVE  TypeOK' /\ OpInv'
  <2>1. Go(p, "markUsed") \/ End(p)
    BY <1>7 DEF VerifyFindOtp
  <2>2. OpInv' /\ op' \in [Procs -> Op]
    BY <1>7, <2>1, GoStays, EndStays DEF VerifyFindOtp
  <2> QED BY <1>7, <2>2 DEF VerifyFindOtp, consumer, TypeOK
<1>8. ASSUME NEW p \in Procs, VerifyMarkUsed(p)
      PROVE  TypeOK' /\ OpInv'
  <2>1. OpInv' /\ op' \in [Procs -> Op]
    BY <1>8, GoStays DEF VerifyMarkUsed
  <2>2. otp' \in [Emails -> Otp \cup {Null}]
    BY <1>8 DEF VerifyMarkUsed, VerifyInv, Verifying, TypeOK, Otp
  <2> QED BY <1>8, <2>1, <2>2 DEF VerifyMarkUsed, consumer, TypeOK
<1>9. ASSUME NEW p \in Procs, VerifyActivate(p)
      PROVE  TypeOK' /\ OpInv'
  <2>1. OpInv' /\ op' \in [Procs -> Op]
    BY <1>9, EndStays DEF VerifyActivate
  <2> QED BY <1>9, <2>1 DEF VerifyActivate, consumer, TypeOK
<1>10. ASSUME NEW e \in Emails, OtpExpires(e)
       PROVE  TypeOK' /\ OpInv'
  BY <1>10 DEF OtpExpires, Otp, consumer, TypeOK
<1>11. ASSUME NEW i \in 1..Len(stream), Deliver(i) \/ AckWait(i)
       PROVE  TypeOK' /\ OpInv'
  <2>1. stream' \in Seq(Event) /\ Len(stream') = Len(stream)
    BY <1>11, DeliverSets, StateSet DEF AckWait
  <2>2. batch' \in Seq(1..Len(stream)) /\ (batch # <<>> => batch' # <<>>)
    <3>1. CASE Deliver(i)
      <4>1. batch' = Append(batch, i) /\ batch \in Seq(1..Len(stream))
        BY <3>1 DEF Deliver, TypeOK
      <4> QED BY <4>1
    <3>2. CASE AckWait(i)
      BY <3>2 DEF AckWait, consumer, TypeOK
    <3> QED BY <1>11, <3>1, <3>2
  <2>3. handled' = handled
    BY <1>11 DEF Deliver, AckWait, consumer
  <2> QED BY <1>11, <2>1, <2>2, <2>3 DEF Deliver, AckWait, auth, consumer, TypeOK
<1>12. CASE SendMailRegis
  <2>1. stream[Head(batch)] \in Event
    BY <1>12, MailSets
  <2>2. mailbox' \in [Emails -> SUBSET Codes]
    BY <1>12, MailSets
  <2>3. failed' \subseteq Emails /\ faults' \in 0..MaxFaults
    BY <1>12, <2>1 DEF SendMailRegis, Event, TypeOK
  <2>4. handled' \in BOOLEAN /\ batch' # <<>>
    BY <1>12 DEF SendMailRegis
  <2> QED BY <1>12, <2>2, <2>3, <2>4 DEF SendMailRegis, auth, TypeOK
<1>13. CASE Ack
  <2>1. Head(batch) \in 1..Len(stream)
    BY <1>13 DEF Ack, TypeOK
  <2>2. stream' \in Seq(Event) /\ Len(stream') = Len(stream)
    BY <1>13, <2>1, StateSet DEF Ack
  <2>3. batch' \in Seq(1..Len(stream))
    BY <1>13 DEF Ack, TypeOK
  <2>4. handled' \in BOOLEAN /\ ~handled'
    BY <1>13 DEF Ack
  <2> QED BY <1>13, <2>2, <2>3, <2>4 DEF Ack, auth, TypeOK
<1>14. CASE ConsumerRestart
  <2>1. batch' \in Seq(1..Len(stream)) /\ crashes' \in 0..MaxCrashes
    BY <1>14 DEF ConsumerRestart, TypeOK
  <2>2. handled' \in BOOLEAN /\ ~handled'
    BY <1>14 DEF ConsumerRestart
  <2> QED BY <1>14, <2>1, <2>2 DEF ConsumerRestart, auth, TypeOK
<1>15. CASE UNCHANGED vars
  BY <1>15 DEF vars, TypeOK
<1> QED BY <1>1, <1>2, <1>3, <1>4, <1>5, <1>6, <1>7, <1>8, <1>9, <1>10, <1>11,
        <1>12, <1>13, <1>14, <1>15 DEF Next

\* Every code drawn keeps its one owner.
LEMMA NextOwner == IInv /\ [Next]_vars => OwnerInv'
<1> SUFFICES ASSUME TypeOK, OpInv, OwnerInv, VerifyInv, [Next]_vars
             PROVE  OwnerInv'
  BY DEF IInv
<1> PICK owner \in [1..drawn -> Emails] : Owns(owner)
  BY DEF OwnerInv
<1>1. ASSUME NEW p \in Procs, NEW e \in Emails,
             RegisterFind(p, e) \/ ResendFind(p, e)
      PROVE  OwnerInv'
  <2>1. drawn \in Nat /\ drawn' = drawn + 1 /\ drawn + 1 \in Codes
    BY <1>1, RegistrationAssumption DEF RegisterFind, ResendFind, TypeOK, Codes
  <2>2. PICK l \in {"create", "upsert"} : Begin(p, l, e, drawn + 1)
    BY <1>1 DEF RegisterFind, ResendFind
  <2>3. /\ op'[p].email = e /\ op'[p].code = drawn + 1
        /\ \A q \in Procs \ {p} : op'[q] = op[q]
    <3>1. l \in {"create", "upsert", "findOtp"}
      OBVIOUS
    <3>2. /\ op'[p] = [pc |-> l, email |-> e, code |-> drawn + 1]
          /\ \A q \in Procs \ {p} : op'[q] = op[q]
      BY <2>1, <2>2, <3>1, BeginSets
    <3> QED BY <3>2
  <2>4. PICK new \in [1..(drawn + 1) -> Emails] :
          /\ new[drawn + 1] = e
          /\ \A c \in 1..drawn : c \in 1..(drawn + 1) /\ new[c] = owner[c]
    <3> DEFINE f == [c \in 1..(drawn + 1) |->
                       IF c = drawn + 1 THEN e ELSE owner[c]]
    <3>1. f \in [1..(drawn + 1) -> Emails]
      BY <2>1
    <3>2. /\ f[drawn + 1] = e
          /\ \A c \in 1..drawn : c \in 1..(drawn + 1) /\ f[c] = owner[c]
      BY <2>1
    <3> QED BY <3>1, <3>2
  <2>5. \A c \in 1..drawn : c \in 1..drawn' /\ new[c] = owner[c]
    BY <2>1, <2>4
  <2>6. drawn + 1 \in 1..drawn'
    BY <2>1
  <2>7. ASSUME NEW q \in Procs, op'[q].pc \in {"create", "upsert", "publish"}
        PROVE  op'[q].code \in 1..drawn' /\ new[op'[q].code] = op'[q].email
    <3>1. CASE q = p
      BY <2>3, <2>4, <2>6, <3>1
    <3>2. CASE q # p
      BY <2>3, <2>5, <2>7, <3>2 DEF Owns
    <3> QED BY <3>1, <3>2
  <2>8. UNCHANGED <<otp, stream, mailbox>>
    BY <1>1 DEF RegisterFind, ResendFind, consumer
  <2>9. Owns(new)'
    BY <2>5, <2>7, <2>8 DEF Owns
  <2> QED BY <2>1, <2>4, <2>9 DEF OwnerInv
<1>2. ASSUME NEW p \in Procs, NEW e \in Emails,
             NEW c \in UNION {mailbox[x] : x \in Emails}, VerifyFindUser(p, e, c)
      PROVE  drawn' = drawn /\ Owns(owner)'
  <2>1. c \in Codes
    BY DEF TypeOK
  <2>2. /\ op'[p].pc = "findOtp"
        /\ \A q \in Procs \ {p} : op'[q] = op[q]
    BY <1>2, <2>1, BeginSets DEF VerifyFindUser
  <2> QED BY <1>2, <2>2 DEF VerifyFindUser, consumer, Owns
<1>3. ASSUME NEW p \in Procs,
             CreateUser(p) \/ HandlerFails(p) \/ VerifyFindOtp(p) \/ VerifyActivate(p)
      PROVE  drawn' = drawn /\ Owns(owner)'
  <2>1. /\ \A q \in Procs \ {p} : op'[q] = op[q]
        /\ \/ op'[p].pc \in {"idle", "markUsed"}
           \/ /\ op[p].pc = "create"
              /\ op'[p].email = op[p].email /\ op'[p].code = op[p].code
    <3>1. CASE End(p)
      BY <3>1, EndSets DEF Idle
    <3>2. CASE op[p].pc = "create" /\ Go(p, "upsert")
      BY <3>2, GoSets
    <3>3. CASE Go(p, "markUsed")
      BY <3>3, GoSets
    <3> QED BY <1>3, <3>1, <3>2, <3>3
            DEF CreateUser, HandlerFails, VerifyFindOtp, VerifyActivate
  <2>2. UNCHANGED <<otp, stream, mailbox, drawn>>
    BY <1>3 DEF CreateUser, HandlerFails, VerifyFindOtp, VerifyActivate, consumer
  <2> QED BY <2>1, <2>2 DEF Owns
<1>4. ASSUME NEW p \in Procs, UpsertOtp(p)
      PROVE  drawn' = drawn /\ Owns(owner)'
  <2> DEFINE e == op[p].email
  <2>1. e \in Emails /\ op[p].code \in 1..drawn /\ owner[op[p].code] = e
    BY <1>4 DEF UpsertOtp, OpInv, Owns
  <2>2. /\ otp'[e].code = op[p].code
        /\ \A x \in Emails \ {e} : otp'[x] = otp[x]
    BY <1>4, <2>1 DEF UpsertOtp, TypeOK
  <2>3. /\ op'[p].email = e /\ op'[p].code = op[p].code
        /\ \A q \in Procs \ {p} : op'[q] = op[q]
    BY <1>4, GoSets DEF UpsertOtp
  <2>4. UNCHANGED <<stream, mailbox, drawn>>
    BY <1>4 DEF UpsertOtp, consumer
  <2> QED BY <2>1, <2>2, <2>3, <2>4 DEF Owns
<1>5. ASSUME NEW p \in Procs, VerifyMarkUsed(p)
      PROVE  drawn' = drawn /\ Owns(owner)'
  <2>1. /\ op'[p].pc = "activate"
        /\ \A q \in Procs \ {p} : op'[q] = op[q]
    BY <1>5, GoSets DEF VerifyMarkUsed
  <2>2. \A e \in Emails : otp'[e] # Null => otp[e] # Null /\ otp'[e].code = otp[e].code
    <3>1. op[p].email \in Emails /\ otp[op[p].email] \in Otp
      BY <1>5 DEF VerifyMarkUsed, VerifyInv, Verifying, OpInv
    <3> DEFINE a == op[p].email
               row == [otp[a] EXCEPT !.isUsed = TRUE]
    <3>2. otp' = [otp EXCEPT ![a] = row] /\ a \in Emails
      BY <1>5, <3>1 DEF VerifyMarkUsed
    <3>3. row.code = otp[a].code
      BY <3>1 DEF Otp
    <3>4. otp[a] # Null
      BY <3>1, RegistrationAssumption
    <3> QED BY <3>2, <3>3, <3>4 DEF TypeOK
  <2>3. UNCHANGED <<stream, mailbox, drawn>>
    BY <1>5 DEF VerifyMarkUsed, consumer
  <2> QED BY <2>1, <2>2, <2>3 DEF Owns
<1>6. ASSUME NEW e \in Emails, OtpExpires(e)
      PROVE  drawn' = drawn /\ Owns(owner)'
  <2>1. \A x \in Emails : otp'[x] # Null => otp[x] # Null /\ otp'[x].code = otp[x].code
    BY <1>6 DEF OtpExpires, TypeOK, Otp
  <2>2. UNCHANGED <<op, stream, mailbox, drawn>>
    BY <1>6 DEF OtpExpires, consumer
  <2> QED BY <2>1, <2>2 DEF Owns
<1>7. ASSUME NEW p \in Procs, Publish(p)
      PROVE  drawn' = drawn /\ Owns(owner)'
  <2>1. op[p].code \in 1..drawn /\ owner[op[p].code] = op[p].email
    BY <1>7 DEF Publish, Owns
  <2>2. /\ Len(stream') = Len(stream) + 1
        /\ stream'[Len(stream')].email = op[p].email
        /\ stream'[Len(stream')].code = op[p].code
        /\ \A i \in 1..Len(stream) : stream'[i] = stream[i]
    BY <1>7 DEF Publish, TypeOK
  <2>3. ASSUME NEW i \in 1..Len(stream')
        PROVE  stream'[i].code \in 1..drawn /\ owner[stream'[i].code] = stream'[i].email
    <3>1. i \in 1..Len(stream) \/ i = Len(stream')
      BY <2>2 DEF TypeOK
    <3> QED BY <2>1, <2>2, <3>1 DEF Owns
  <2>4. /\ op'[p].pc = "idle" /\ \A q \in Procs \ {p} : op'[q] = op[q]
    BY <1>7, EndSets DEF Publish, Idle
  <2>5. UNCHANGED <<otp, mailbox, drawn>>
    BY <1>7 DEF Publish, consumer
  <2> QED BY <2>3, <2>4, <2>5 DEF Owns
<1>8. ASSUME \/ \E i \in 1..Len(stream) : Deliver(i) \/ AckWait(i)
             \/ Ack
      PROVE  drawn' = drawn /\ Owns(owner)'
  <2>1. /\ Len(stream') = Len(stream)
        /\ \A k \in 1..Len(stream) :
             stream'[k].email = stream[k].email /\ stream'[k].code = stream[k].code
    <3>1. CASE Ack
      <4>1. Head(batch) \in 1..Len(stream)
        BY <3>1 DEF Ack, TypeOK
      <4> QED BY <3>1, <4>1, StateSet DEF Ack
    <3> QED BY <1>8, <3>1, DeliverSets, StateSet DEF AckWait
  <2>2. UNCHANGED <<op, otp, mailbox, drawn>>
    BY <1>8 DEF Deliver, AckWait, Ack, auth, consumer
  <2> QED BY <2>1, <2>2 DEF Owns
<1>9. CASE SendMailRegis
  <2> DEFINE m == stream[Head(batch)]
  <2>1. Head(batch) \in 1..Len(stream) /\ m \in Event
    BY <1>9, MailSets
  <2>2. m.code \in 1..drawn /\ owner[m.code] = m.email /\ m.email \in Emails
    BY <2>1 DEF Owns, Event
  <2>3. \A e \in Emails, c \in Codes :
          c \in mailbox'[e] => c \in mailbox[e] \/ (e = m.email /\ c = m.code)
    BY <1>9, MailSets
  <2>4. mailbox' \in [Emails -> SUBSET Codes]
    BY <1>9, MailSets
  <2>5. \A e \in Emails : \A c \in mailbox'[e] : c \in 1..drawn /\ owner[c] = e
    BY <2>2, <2>3, <2>4 DEF Owns
  <2>6. op' = op /\ otp' = otp /\ stream' = stream /\ drawn' = drawn
    BY <1>9 DEF SendMailRegis, auth
  <2>7. Owns(owner)'
    BY <2>5, <2>6 DEF Owns
  <2> QED BY <2>6, <2>7 DEF OwnerInv
<1>10. CASE ConsumerRestart \/ UNCHANGED vars
  <2>1. /\ op' = op /\ otp' = otp /\ stream' = stream /\ drawn' = drawn
        /\ mailbox' = mailbox
    BY <1>10 DEF ConsumerRestart, auth, vars
  <2>2. Owns(owner)'
    BY <2>1 DEF Owns
  <2> QED BY <2>1, <2>2 DEF OwnerInv
<1> QED BY <1>1, <1>2, <1>3, <1>4, <1>5, <1>6, <1>7, <1>8, <1>9, <1>10
        DEF Next, OwnerInv

\* Mailboxes only fill, and rows are never deleted.
LEMMA NothingIsLost ==
  ASSUME IInv, [Next]_vars
  PROVE  /\ \A e \in Emails : mailbox[e] \subseteq mailbox'[e]
         /\ \A e \in Emails : otp[e] # Null => otp'[e] \in Otp
         /\ failed \subseteq failed'
<1>1. TypeOK /\ TypeOK'
  BY NextType DEF IInv
<1>2. CASE SendMailRegis
  BY <1>1, <1>2, MailSets DEF SendMailRegis, auth, TypeOK
<1>3. ASSUME NEW p \in Procs, UpsertOtp(p)
      PROVE  /\ UNCHANGED <<mailbox, failed>>
             /\ \A e \in Emails : otp[e] # Null => otp'[e] # Null
  <2> DEFINE row == [code |-> op[p].code, live |-> TRUE,
                     isUsed |-> IF otp[op[p].email] = Null THEN FALSE
                                ELSE otp[op[p].email].isUsed]
  <2>1. op[p].email \in Emails /\ op[p].code \in Codes
    BY <1>3 DEF UpsertOtp, IInv, OpInv
  <2>2. row \in Otp
    BY <1>1, <2>1 DEF Otp, TypeOK
  <2>3. row # Null
    BY <2>2, RegistrationAssumption
  <2>4. otp' = [otp EXCEPT ![op[p].email] = row]
    BY <1>3 DEF UpsertOtp
  <2> HIDE DEF row
  <2>5. UNCHANGED <<mailbox, failed>>
    BY <1>3 DEF UpsertOtp, consumer
  <2> QED BY <1>1, <2>3, <2>4, <2>5 DEF TypeOK
<1>4. ASSUME NEW e \in Emails, NEW row \in Otp, otp' = [otp EXCEPT ![e] = row]
      PROVE  \A x \in Emails : otp[x] # Null => otp'[x] # Null
  BY <1>1, <1>4, RegistrationAssumption DEF TypeOK
<1>5. ASSUME NEW p \in Procs, VerifyMarkUsed(p)
      PROVE  /\ UNCHANGED <<mailbox, failed>>
             /\ \A e \in Emails : otp[e] # Null => otp'[e] # Null
  <2> DEFINE row == [otp[op[p].email] EXCEPT !.isUsed = TRUE]
  <2>1. op[p].email \in Emails /\ otp[op[p].email] \in Otp
    BY <1>5 DEF VerifyMarkUsed, IInv, OpInv, VerifyInv, Verifying
  <2>2. row \in Otp
    BY <2>1 DEF Otp
  <2>3. otp' = [otp EXCEPT ![op[p].email] = row]
    BY <1>5 DEF VerifyMarkUsed
  <2>4. UNCHANGED <<mailbox, failed>>
    BY <1>5 DEF VerifyMarkUsed, consumer
  <2> QED BY <1>4, <2>1, <2>2, <2>3, <2>4
<1>6. ASSUME NEW e \in Emails, OtpExpires(e)
      PROVE  /\ UNCHANGED <<mailbox, failed>>
             /\ \A x \in Emails : otp[x] # Null => otp'[x] # Null
  <2> DEFINE row == [otp[e] EXCEPT !.live = FALSE]
  <2>1. otp[e] \in Otp
    BY <1>1, <1>6 DEF OtpExpires, TypeOK
  <2>2. row \in Otp
    BY <2>1 DEF Otp
  <2>3. otp' = [otp EXCEPT ![e] = row]
    BY <1>6 DEF OtpExpires
  <2>4. UNCHANGED <<mailbox, failed>>
    BY <1>6 DEF OtpExpires, consumer
  <2> QED BY <1>4, <2>2, <2>3, <2>4
<1>7. ASSUME NEW p \in Procs, HandlerFails(p)
      PROVE  UNCHANGED <<otp, mailbox>> /\ failed \subseteq failed'
  BY <1>7 DEF HandlerFails, consumer
<1>8. CASE UNCHANGED <<otp, mailbox, failed>>
  BY <1>1, <1>8 DEF TypeOK
<1>9. \/ SendMailRegis \/ UNCHANGED <<otp, mailbox, failed>>
      \/ \E p \in Procs : UpsertOtp(p) \/ VerifyMarkUsed(p) \/ HandlerFails(p)
      \/ \E e \in Emails : OtpExpires(e)
  BY DEF Next, RegisterFind, ResendFind, VerifyFindUser, CreateUser, Publish,
     VerifyFindOtp, VerifyActivate, Deliver, AckWait, Ack, ConsumerRestart,
     auth, consumer, vars
<1> QED BY <1>1, <1>2, <1>3, <1>5, <1>6, <1>7, <1>8, <1>9 DEF TypeOK

\* A code gets past the check only where it was mailed.
LEMMA NextVerify == IInv /\ [Next]_vars => VerifyInv' /\ ActiveWasMailed'
<1> SUFFICES ASSUME IInv, [Next]_vars PROVE VerifyInv' /\ ActiveWasMailed'
  OBVIOUS
<1>1. TypeOK /\ TypeOK' /\ OpInv /\ VerifyInv
  BY NextType DEF IInv
<1>2. /\ \A e \in Emails : mailbox[e] \subseteq mailbox'[e]
      /\ \A e \in Emails : otp[e] # Null => otp'[e] \in Otp
  BY NothingIsLost
<1> DEFINE Ok(q) == /\ op'[q].pc = "findOtp" =>
                         \E e \in Emails : op'[q].code \in mailbox'[e]
                    /\ op'[q].pc \in {"markUsed", "activate"} =>
                         /\ otp'[op'[q].email] \in Otp
                         /\ mailbox'[op'[q].email] # {}
<1>3. ASSUME NEW q \in Procs, op'[q] = op[q] PROVE Ok(q)
  <2>1. CASE op[q].pc = "findOtp"
    BY <1>1, <1>2, <1>3, <2>1 DEF VerifyInv
  <2>2. CASE Verifying(q)
    <3>1. op[q].email \in Emails /\ otp[op[q].email] # Null
      BY <1>1, <2>2, RegistrationAssumption DEF VerifyInv, Verifying, OpInv
    <3> QED BY <1>1, <1>2, <1>3, <2>2, <3>1 DEF VerifyInv, Verifying
  <2> QED BY <1>3, <2>1, <2>2 DEF Verifying
<1>4. ASSUME NEW p \in Procs, \A q \in Procs \ {p} : op'[q] = op[q], Ok(p)
      PROVE  VerifyInv'
  BY <1>3, <1>4 DEF VerifyInv, Verifying
<1>5. ASSUME NEW p \in Procs, NEW e \in Emails,
             RegisterFind(p, e) \/ ResendFind(p, e)
      PROVE  VerifyInv'
  <2>1. drawn + 1 \in Codes
    BY <1>1, <1>5, RegistrationAssumption DEF RegisterFind, ResendFind, Codes, TypeOK
  <2>2. PICK l \in {"create", "upsert"} : Begin(p, l, e, drawn + 1)
    BY <1>5 DEF RegisterFind, ResendFind
  <2>3. op'[p].pc = l /\ \A q \in Procs \ {p} : op'[q] = op[q]
    <3>1. l \in {"create", "upsert", "findOtp"}
      OBVIOUS
    <3>2. /\ op'[p] = [pc |-> l, email |-> e, code |-> drawn + 1]
          /\ \A q \in Procs \ {p} : op'[q] = op[q]
      BY <1>1, <2>1, <2>2, <3>1, BeginSets
    <3> QED BY <3>2
  <2> QED BY <1>4, <2>3
<1>6. ASSUME NEW p \in Procs, NEW e \in Emails,
             NEW c \in UNION {mailbox[x] : x \in Emails}, VerifyFindUser(p, e, c)
      PROVE  VerifyInv'
  <2>1. c \in Codes /\ \E x \in Emails : c \in mailbox'[x]
    BY <1>1, <1>2 DEF TypeOK
  <2>2. /\ op'[p].pc = "findOtp" /\ op'[p].code = c
        /\ \A q \in Procs \ {p} : op'[q] = op[q]
    <3>1. /\ op'[p] = [pc |-> "findOtp", email |-> e, code |-> c]
          /\ \A q \in Procs \ {p} : op'[q] = op[q]
      BY <1>1, <1>6, <2>1, BeginSets DEF VerifyFindUser
    <3> QED BY <3>1
  <2> QED BY <1>4, <2>1, <2>2
<1>7. ASSUME NEW p \in Procs, End(p) PROVE VerifyInv'
  <2>1. op'[p].pc = "idle" /\ \A q \in Procs \ {p} : op'[q] = op[q]
    BY <1>1, <1>7, EndSets DEF Idle
  <2> QED BY <1>4, <2>1
<1>8. ASSUME NEW p \in Procs, CreateUser(p) \/ UpsertOtp(p), ~End(p)
      PROVE  VerifyInv'
  <2>1. Go(p, "upsert") \/ Go(p, "publish")
    BY <1>8 DEF CreateUser, UpsertOtp
  <2>2. /\ op'[p].pc \in {"upsert", "publish"}
        /\ \A q \in Procs \ {p} : op'[q] = op[q]
    BY <1>1, <2>1, GoSets
  <2> QED BY <1>4, <2>2
<1>9. ASSUME NEW p \in Procs, VerifyFindOtp(p), ~End(p)
      PROVE  VerifyInv'
  <2> DEFINE e == op[p].email
  <2>1. e \in Emails /\ otp[e] # Null /\ otp[e].code = op[p].code
    BY <1>1, <1>9 DEF VerifyFindOtp, OpInv
  <2>2. PICK x \in Emails : op[p].code \in mailbox[x]
    BY <1>1, <1>9 DEF VerifyFindOtp, VerifyInv
  <2>3. op[p].code \in mailbox[e]
    BY <2>1, <2>2, PassedWasMailed DEF IInv
  <2>4. Go(p, "markUsed")
    BY <1>9 DEF VerifyFindOtp
  <2>5. /\ op'[p].pc = "markUsed" /\ op'[p].email = e
        /\ \A q \in Procs \ {p} : op'[q] = op[q]
    BY <1>1, <2>4, GoSets
  <2>6. otp'[e] \in Otp /\ mailbox'[e] # {}
    BY <1>2, <2>1, <2>3
  <2> QED BY <1>4, <2>5, <2>6
<1>10. ASSUME NEW p \in Procs, VerifyMarkUsed(p)
       PROVE  VerifyInv'
  <2> DEFINE e == op[p].email
  <2>1. e \in Emails /\ otp[e] # Null /\ mailbox[e] # {}
    BY <1>1, <1>10, RegistrationAssumption
       DEF VerifyMarkUsed, VerifyInv, Verifying, OpInv
  <2>2. /\ op'[p].pc = "activate" /\ op'[p].email = e
        /\ \A q \in Procs \ {p} : op'[q] = op[q]
    BY <1>1, <1>10, GoSets DEF VerifyMarkUsed
  <2>3. otp'[e] \in Otp /\ mailbox'[e] # {}
    BY <1>2, <2>1
  <2> QED BY <1>4, <2>2, <2>3
<1>11. ASSUME op' = op PROVE VerifyInv'
  BY <1>3, <1>11 DEF VerifyInv, Verifying
<1>12. VerifyInv'
  <2>1. \A p \in Procs : Publish(p) \/ HandlerFails(p) \/ VerifyActivate(p) => End(p)
    BY DEF Publish, HandlerFails, VerifyActivate
  <2>2. \A i \in 1..Len(stream) : Deliver(i) \/ AckWait(i) => op' = op
    BY DEF Deliver, AckWait, auth
  <2>3. SendMailRegis \/ Ack \/ ConsumerRestart \/ UNCHANGED vars => op' = op
    BY DEF SendMailRegis, Ack, ConsumerRestart, auth, vars
  <2>4. \A e \in Emails : OtpExpires(e) => op' = op
    BY DEF OtpExpires
  <2> QED BY <1>5, <1>6, <1>7, <1>8, <1>9, <1>10, <1>11, <2>1, <2>2, <2>3, <2>4
          DEF Next
<1>13. ActiveWasMailed'
  <2>1. ASSUME NEW p \in Procs, VerifyActivate(p)
        PROVE  ActiveWasMailed'
    <3>1. op[p].email \in Emails /\ mailbox[op[p].email] # {}
      BY <1>1, <2>1 DEF VerifyActivate, VerifyInv, Verifying, OpInv
    <3>2. user' = [user EXCEPT ![op[p].email] = "active"]
      BY <2>1 DEF VerifyActivate
    <3> QED BY <1>1, <1>2, <3>1, <3>2 DEF ActiveWasMailed, IInv, TypeOK
  <2>2. CASE \A e \in Emails : user'[e] = "active" => user[e] = "active"
    BY <1>2, <2>2 DEF ActiveWasMailed, IInv
  <2>3. ASSUME NEW p \in Procs, CreateUser(p)
        PROVE  \A e \in Emails : user'[e] = "active" => user[e] = "active"
    BY <1>1, <2>3 DEF CreateUser, TypeOK
  <2>4. \/ user' = user
        \/ \E p \in Procs : VerifyActivate(p) \/ CreateUser(p)
    BY DEF Next, RegisterFind, ResendFind, VerifyFindUser, UpsertOtp, Publish,
       HandlerFails, VerifyFindOtp, VerifyMarkUsed, OtpExpires, Deliver, AckWait,
       SendMailRegis, Ack, ConsumerRestart, auth, vars
  <2> QED BY <2>1, <2>2, <2>3, <2>4
<1> QED BY <1>12, <1>13

\* Only its own steps move a handler, each from the place it is at.
LEMMA OtherSteps ==
  ASSUME TypeOK, [Next]_vars, NEW p \in Procs, op'[p] # op[p]
  PROVE  \/ op[p].pc = "idle"
         \/ HandlerFails(p) \/ CreateUser(p) \/ UpsertOtp(p) \/ Publish(p)
         \/ VerifyFindOtp(p) \/ VerifyMarkUsed(p) \/ VerifyActivate(p)
<1>1. ASSUME NEW q \in Procs, q # p, NEW l, Go(q, l) \/ End(q)
      PROVE  FALSE
  BY <1>1 DEF Go, End, TypeOK
<1>2. ASSUME NEW q \in Procs, NEW l, NEW e, NEW c, Begin(q, l, e, c)
      PROVE  op[p].pc = "idle"
  BY <1>2 DEF Begin, TypeOK, Idle
<1>3. ASSUME NEW q \in Procs, q # p,
             \/ HandlerFails(q) \/ CreateUser(q) \/ UpsertOtp(q) \/ Publish(q)
             \/ VerifyFindOtp(q) \/ VerifyMarkUsed(q) \/ VerifyActivate(q)
      PROVE  FALSE
  <2>1. \/ End(q) \/ Go(q, "upsert") \/ Go(q, "publish")
        \/ Go(q, "markUsed") \/ Go(q, "activate")
    BY <1>3 DEF HandlerFails, CreateUser, UpsertOtp, Publish, VerifyFindOtp,
       VerifyMarkUsed, VerifyActivate
  <2> QED BY <1>1, <1>3, <2>1
<1>4. ASSUME NEW q \in Procs, NEW e \in Emails,
             RegisterFind(q, e) \/ ResendFind(q, e)
      PROVE  op[p].pc = "idle"
  BY <1>2, <1>4 DEF RegisterFind, ResendFind
<1>5. ASSUME NEW q \in Procs, NEW e \in Emails, NEW c, VerifyFindUser(q, e, c)
      PROVE  op[p].pc = "idle"
  BY <1>2, <1>5 DEF VerifyFindUser
<1>6. op' # op
  OBVIOUS
<1>7. ~(\E e \in Emails : OtpExpires(e)) /\ ~SendMailRegis /\ ~Ack /\ ~ConsumerRestart
  BY <1>6 DEF OtpExpires, SendMailRegis, Ack, ConsumerRestart, auth
<1>8. ~(\E i \in 1..Len(stream) : Deliver(i) \/ AckWait(i)) /\ ~UNCHANGED vars
  BY <1>6 DEF Deliver, AckWait, auth, vars
<1> QED BY <1>3, <1>4, <1>5, <1>7, <1>8 DEF Next

\* Events are never dropped nor changed but for their delivery state.
LEMMA EventsStay ==
  ASSUME IInv, [Next]_vars
  PROVE  /\ Len(stream) <= Len(stream')
         /\ \A i \in 1..Len(stream) :
              /\ i \in 1..Len(stream')
              /\ stream'[i].email = stream[i].email
              /\ stream'[i].code = stream[i].code
<1>1. TypeOK
  BY DEF IInv
<1>2. ASSUME NEW p \in Procs, Publish(p)
      PROVE  /\ Len(stream') = Len(stream) + 1
             /\ \A i \in 1..Len(stream) : stream'[i] = stream[i]
  BY <1>1, <1>2 DEF Publish, TypeOK
<1>3. ASSUME Ack \/ \E i \in 1..Len(stream) : Deliver(i) \/ AckWait(i)
      PROVE  /\ Len(stream') = Len(stream)
             /\ \A k \in 1..Len(stream) :
                  /\ stream'[k].email = stream[k].email
                  /\ stream'[k].code = stream[k].code
  <2>1. CASE Ack
    <3>1. Head(batch) \in 1..Len(stream)
      BY <1>1, <2>1 DEF Ack, TypeOK
    <3> QED BY <1>1, <2>1, <3>1, StateSet DEF Ack
  <2> QED BY <1>1, <1>3, <2>1, DeliverSets, StateSet DEF AckWait
<1>4. \/ stream' = stream \/ Ack
      \/ \E p \in Procs : Publish(p)
      \/ \E i \in 1..Len(stream) : Deliver(i) \/ AckWait(i)
  BY DEF Next, RegisterFind, ResendFind, VerifyFindUser, CreateUser, UpsertOtp,
     HandlerFails, VerifyFindOtp, VerifyMarkUsed, VerifyActivate, OtpExpires,
     SendMailRegis, ConsumerRestart, auth, vars
<1>5. Len(stream) \in Nat
  BY <1>1 DEF TypeOK
<1> QED BY <1>2, <1>3, <1>4, <1>5

\* The code of a row stays published, on its way to it or known to be lost.
LEMMA NextPublish == IInv /\ [Next]_vars => PublishInv'
<1> SUFFICES ASSUME IInv, [Next]_vars, NEW e \in Emails, otp'[e] # Null
             PROVE  \/ e \in failed'
                    \/ \E p \in Procs :
                         op'[p] = [pc |-> "publish", email |-> e, code |-> otp'[e].code]
                    \/ \E i \in 1..Len(stream') :
                         stream'[i].email = e /\ stream'[i].code = otp'[e].code
  BY DEF PublishInv, Carries
<1> DEFINE Pub(c) == [pc |-> "publish", email |-> e, code |-> c]
           Sent(c) == \E i \in 1..Len(stream) :
                         stream[i].email = e /\ stream[i].code = c
<1>1. TypeOK /\ OpInv /\ PublishInv
  BY DEF IInv
<1>2. ASSUME NEW c, Sent(c)
      PROVE  \E i \in 1..Len(stream') : stream'[i].email = e /\ stream'[i].code = c
  BY <1>2, EventsStay
<1>3. failed \subseteq failed'
  BY NothingIsLost
<1>4. ASSUME NEW p \in Procs, UpsertOtp(p), op[p].email = e
      PROVE  op'[p] = Pub(otp'[e].code)
  <2>1. op'[p] = [pc |-> "publish", email |-> e, code |-> op[p].code]
    BY <1>1, <1>4, GoSets DEF UpsertOtp
  <2>2. otp'[e].code = op[p].code
    BY <1>1, <1>4 DEF UpsertOtp, TypeOK
  <2> QED BY <2>1, <2>2
<1>5. ASSUME \A p \in Procs : ~(UpsertOtp(p) /\ op[p].email = e)
      PROVE  otp[e] # Null /\ otp'[e].code = otp[e].code
  <2>1. ASSUME NEW p \in Procs, VerifyMarkUsed(p)
        PROVE  otp[e] # Null /\ otp'[e].code = otp[e].code
    <3> DEFINE a == op[p].email
               row == [otp[a] EXCEPT !.isUsed = TRUE]
    <3>1. a \in Emails /\ otp[a] \in Otp /\ otp[a] # Null
      BY <2>1, RegistrationAssumption
         DEF VerifyMarkUsed, IInv, VerifyInv, Verifying, OpInv
    <3>2. otp' = [otp EXCEPT ![a] = row]
      BY <2>1 DEF VerifyMarkUsed
    <3>3. row.code = otp[a].code
      BY <3>1 DEF Otp
    <3> QED BY <1>1, <3>1, <3>2, <3>3 DEF TypeOK
  <2>2. ASSUME NEW x \in Emails, OtpExpires(x)
        PROVE  otp[e] # Null /\ otp'[e].code = otp[e].code
    <3> DEFINE row == [otp[x] EXCEPT !.live = FALSE]
    <3>1. otp[x] \in Otp /\ otp[x] # Null
      BY <1>1, <2>2 DEF OtpExpires, TypeOK
    <3>2. otp' = [otp EXCEPT ![x] = row]
      BY <2>2 DEF OtpExpires
    <3>3. row.code = otp[x].code
      BY <3>1 DEF Otp
    <3> QED BY <1>1, <3>1, <3>2, <3>3 DEF TypeOK
  <2>3. ASSUME NEW p \in Procs, UpsertOtp(p)
        PROVE  otp[e] # Null /\ otp'[e].code = otp[e].code
    BY <1>1, <1>5, <2>3 DEF UpsertOtp, TypeOK
  <2>4. CASE otp' = otp
    BY <2>4
  <2>5. \/ otp' = otp
        \/ \E p \in Procs : UpsertOtp(p) \/ VerifyMarkUsed(p)
        \/ \E x \in Emails : OtpExpires(x)
    BY DEF Next, RegisterFind, ResendFind, VerifyFindUser, CreateUser, Publish,
       HandlerFails, VerifyFindOtp, VerifyActivate, Deliver, AckWait,
       SendMailRegis, Ack, ConsumerRestart, auth, vars
  <2> QED BY <2>1, <2>2, <2>3, <2>4, <2>5
<1>6. ASSUME NEW p \in Procs, NEW c, op[p] = Pub(c), op'[p] # op[p]
      PROVE  e \in failed' \/ \E i \in 1..Len(stream') :
                                stream'[i].email = e /\ stream'[i].code = c
  <2>1. op[p].pc = "publish" /\ op[p].email = e /\ op[p].code = c
    BY <1>6
  <2>2. CASE Publish(p)
    <3>1. /\ Len(stream') = Len(stream) + 1 /\ Len(stream) \in Nat
          /\ stream'[Len(stream')] = [email |-> e, code |-> c,
                                      deliveries |-> 0, state |-> "ready"]
      BY <1>1, <2>1, <2>2 DEF Publish, TypeOK
    <3> QED BY <3>1
  <2>3. CASE HandlerFails(p)
    BY <2>1, <2>3 DEF HandlerFails
  <2>4. Publish(p) \/ HandlerFails(p)
    BY <1>1, <1>6, <2>1, OtherSteps
       DEF CreateUser, UpsertOtp, VerifyFindOtp, VerifyMarkUsed, VerifyActivate
  <2> QED BY <2>2, <2>3, <2>4
<1> QED
  <2>1. CASE \E p \in Procs : UpsertOtp(p) /\ op[p].email = e
    BY <1>4, <2>1
  <2>2. CASE \A p \in Procs : ~(UpsertOtp(p) /\ op[p].email = e)
    <3>1. otp[e] # Null /\ otp'[e].code = otp[e].code
      BY <1>5, <2>2
    <3>2. \/ e \in failed \/ Sent(otp[e].code)
          \/ \E p \in Procs : op[p] = Pub(otp[e].code)
      BY <1>1, <3>1 DEF PublishInv, Carries
    <3> HIDE DEF Sent
    <3> QED BY <1>2, <1>3, <1>6, <3>1, <3>2
  <2> QED BY <2>1, <2>2

\* What was acknowledged was mailed or its mail failed.
LEMMA NextServed == IInv /\ [Next]_vars => ServedInv'
<1> SUFFICES ASSUME IInv, [Next]_vars PROVE ServedInv'
  OBVIOUS
<1>1. TypeOK /\ TypeOK' /\ ServedInv
  BY NextType DEF IInv
<1>2. ASSUME NEW i \in 1..Len(stream), Served(i)
      PROVE  Served(i)'
  <2>1. stream[i] \in Event
    BY <1>1 DEF TypeOK
  <2>2. stream[i].email \in Emails
    BY <2>1 DEF Event
  <2> QED BY <1>2, <2>2, EventsStay, NothingIsLost DEF Served
<1>3. ASSUME NEW p \in Procs, Publish(p)
      PROVE  ServedInv'
  <2>1. /\ Len(stream') = Len(stream) + 1 /\ Len(stream) \in Nat
        /\ stream'[Len(stream')].state = "ready"
        /\ \A i \in 1..Len(stream) : stream'[i] = stream[i]
    BY <1>1, <1>3 DEF Publish, TypeOK
  <2>2. ASSUME NEW i \in 1..Len(stream'), stream'[i].state = "acked"
        PROVE  Served(i)'
    <3>1. i \in 1..Len(stream) /\ stream[i].state = "acked"
      BY <2>1, <2>2
    <3> QED BY <1>1, <1>2, <3>1 DEF ServedInv
  <2>3. batch' = batch /\ handled' = handled
    BY <1>3 DEF Publish, consumer
  <2>4. handled => Head(batch) \in 1..Len(stream)
    BY <1>1 DEF TypeOK
  <2> QED BY <1>1, <1>2, <2>2, <2>3, <2>4 DEF ServedInv
<1>4. ASSUME NEW i \in 1..Len(stream), Deliver(i) \/ AckWait(i)
      PROVE  ServedInv'
  <2>1. /\ Len(stream') = Len(stream) /\ stream'[i].state # "acked"
        /\ \A k \in 1..Len(stream) : k # i => stream'[k] = stream[k]
    BY <1>1, <1>4, DeliverSets, StateSet DEF AckWait
  <2>2. ASSUME NEW k \in 1..Len(stream'), stream'[k].state = "acked"
        PROVE  Served(k)'
    BY <1>1, <1>2, <2>1, <2>2 DEF ServedInv
  <2>3. /\ handled' = handled
        /\ handled => Head(batch') = Head(batch) /\ Head(batch) \in 1..Len(stream)
    <3>1. CASE Deliver(i)
      <4>1. batch' = Append(batch, i) /\ handled' = handled
        BY <3>1 DEF Deliver
      <4> QED BY <1>1, <4>1 DEF TypeOK
    <3>2. CASE AckWait(i)
      BY <1>1, <3>2 DEF AckWait, consumer, TypeOK
    <3> QED BY <1>4, <3>1, <3>2
  <2> QED BY <1>1, <1>2, <2>2, <2>3 DEF ServedInv
<1>5. CASE SendMailRegis
  <2>1. Served(Head(batch))' /\ batch' = batch /\ stream' = stream
    BY <1>1, <1>5, MailSets DEF Served, SendMailRegis, auth
  <2> QED BY <1>1, <1>2, <2>1 DEF ServedInv
<1>6. CASE Ack
  <2>1. PICK h \in 1..Len(stream) : h = Head(batch)
    BY <1>1, <1>6 DEF Ack, TypeOK
  <2>2. /\ Len(stream') = Len(stream)
        /\ \A k \in 1..Len(stream) : k # h => stream'[k] = stream[k]
    BY <1>1, <1>6, <2>1, StateSet DEF Ack
  <2>3. Served(h)'
    BY <1>1, <1>2, <1>6, <2>1 DEF ServedInv, Ack
  <2>4. \A k \in 1..Len(stream') : stream'[k].state = "acked" => Served(k)'
    BY <1>1, <1>2, <2>2, <2>3 DEF ServedInv
  <2>5. ~handled'
    BY <1>6 DEF Ack
  <2> QED BY <2>4, <2>5 DEF ServedInv
<1>7. ASSUME UNCHANGED stream, \/ UNCHANGED <<batch, handled>>
                               \/ ConsumerRestart
      PROVE  ServedInv'
  <2>1. \A k \in 1..Len(stream') : stream'[k].state = "acked" => Served(k)'
    BY <1>1, <1>2, <1>7 DEF ServedInv
  <2>2. ~handled' \/ (batch' = batch /\ handled' = handled)
    BY <1>7 DEF ConsumerRestart
  <2>3. handled => Head(batch) \in 1..Len(stream)
    BY <1>1 DEF TypeOK
  <2> QED BY <1>1, <1>2, <2>1, <2>2, <2>3 DEF ServedInv
<1>8. \/ SendMailRegis \/ Ack \/ UNCHANGED <<stream, batch, handled>>
      \/ stream' = stream /\ ConsumerRestart
      \/ \E p \in Procs : Publish(p)
      \/ \E i \in 1..Len(stream) : Deliver(i) \/ AckWait(i)
  BY DEF Next, RegisterFind, ResendFind, VerifyFindUser, CreateUser, UpsertOtp,
     HandlerFails, VerifyFindOtp, VerifyMarkUsed, VerifyActivate, OtpExpires,
     ConsumerRestart, consumer, vars
<1> QED BY <1>3, <1>4, <1>5, <1>6, <1>7, <1>8

\* The inductive invariant: codes have one owner, so a code that gets past
\* the check was mailed to that account; and an event acknowledged was mailed.
THEOREM Inductive == Spec => []IInv
<1>1. IInv /\ [Next]_vars => IInv'
  BY NextType, NextOwner, NextVerify, NextPublish, NextServed DEF IInv
<1> QED BY InitIInv, <1>1, PTL DEF Spec

\* Every variable keeps its type.
THEOREM TypeCorrect == Spec => []TypeOK
<1>1. IInv => TypeOK
  BY DEF IInv
<1> QED BY <1>1, Inductive, PTL

\* An account becomes active (veryfiRegister) only after a code was mailed to
\* its own address, whatever codes of others are presented for it.
THEOREM ActiveOnlyAfterMail == Spec => []ActiveWasMailed
<1>1. IInv => ActiveWasMailed
  BY DEF IInv
<1> QED BY <1>1, Inductive, PTL

\* The code an account waits for is mailed, on its way, or was lost with an
\* error that publish or sendMailRegis swallowed.
THEOREM NoCodeIsLostSilently == Spec => []NoSilentLoss
<1>1. IInv => NoSilentLoss
  <2> SUFFICES ASSUME IInv, NEW e \in Emails, otp[e] # Null,
                      NEW i \in 1..Len(stream), Carries(i, e, otp[e].code)
               PROVE  \/ otp[e].code \in mailbox[e] \/ e \in failed
                      \/ stream[i].state # "acked"
    BY DEF IInv, PublishInv, NoSilentLoss
  <2> QED BY DEF IInv, ServedInv, Served, Carries
<1> QED BY <1>1, Inductive, PTL

\* A live code of an inactive account gets past veryfiRegister's check, also
\* when an earlier handler died after marking it used.
THEOREM LiveCodesPass == Spec => CodeSurvivesCrash
<1>1. ASSUME IInv, [Next]_vars, NEW p \in Procs, op[p].pc = "findOtp",
             op'[p] # op[p], faults' = faults, otp[op[p].email] # Null,
             otp[op[p].email].code = op[p].code, otp[op[p].email].live
      PROVE  op'[p].pc = "markUsed"
  <2>1. TypeOK
    BY <1>1 DEF IInv
  <2>2. ~HandlerFails(p)
    BY <1>1, <2>1 DEF HandlerFails, TypeOK
  <2>3. VerifyFindOtp(p)
    BY <1>1, <2>1, <2>2, OtherSteps
       DEF CreateUser, UpsertOtp, Publish, VerifyMarkUsed, VerifyActivate
  <2>4. Go(p, "markUsed")
    BY <1>1, <2>3 DEF VerifyFindOtp
  <2> QED BY <2>1, <2>4, GoSets
<1>2. IInv /\ [Next]_vars =>
        [\A p \in Procs :
           LET o == otp[op[p].email] IN
           op[p].pc = "findOtp" /\ op'[p] # op[p] /\ faults' = faults /\ o # Null =>
             (o.code = op[p].code /\ o.live => op'[p].pc = "markUsed")]_vars
  BY <1>1
<1> QED BY <1>2, Inductive, PTL DEF Spec, CodeSurvivesCrash
=============================================================================
