--------------------------- MODULE PasswordReset ---------------------------
(***************************************************************************)
(* The forgotten password: the auth-service stores a passwordResets row    *)
(* and enqueues a mail; the user verifies the code, which marks the row    *)
(* used, and then sets a new password, which deletes the row and ends all  *)
(* sessions.  The mail queue is the one MailQueue specifies.               *)
(*                                                                         *)
(* A handler awaits the database several times; each access that depends   *)
(* on what other handlers write is an action (users are never deleted, so  *)
(* looking one up by e-mail is not).  A code presented is a string of one  *)
(* of two kinds: the token drawn at random, of which the row keeps a hash, *)
(* or the encryption of that hash, which is what createPasswordReset       *)
(* returns and the mail carries.  verifyPassword accepts the token only.   *)
(***************************************************************************)
EXTENDS Naturals

CONSTANTS Users, Procs, Null,
          MaxTokens,  \* bound on reset requests
          MaxFaults   \* bound on failed enqueuings and dead handlers

VARIABLES
  rows,      \* passwordResets: a Row by token, or Null
  password,  \* token through which the password was set last, or Null
  op,        \* the handlers
  drawn,     \* tokens drawn so far
  status, mailed, dlq,  \* the mail queue; a job has the name of its token
  stores,    \* history: how often a token set a password
  confirmed, \* history: how often the client was told so
  disturbed, \* history: tokens that met a fault or two resets at a time
  answer,    \* what the last step has answered to the owner of a code, or Null
  faults

queue == <<status, mailed, dlq>>
vars  == <<rows, password, op, drawn, queue, stores, confirmed, disturbed,
           answer, faults>>

Tokens == 1..MaxTokens
Mail   == INSTANCE MailQueue WITH Jobs <- Tokens

Code   == [kind: {"token", "mailed"}, n: Tokens]
\* A deleted row is kept as one that is gone: its token has an owner.
Row    == [user: Users, live: BOOLEAN, used: BOOLEAN, gone: BOOLEAN]
Op     == [pc: {"enqueue", "markUsed", "store", "delete", "revoke"},
           row: Tokens]
Answer == [what: {"verify", "reset"}, code: Code, ok: BOOLEAN]

ASSUME PasswordResetAssumption ==
  /\ MaxTokens \in Nat /\ MaxFaults \in Nat
  /\ Null \notin Users \cup Op

TypeOK ==
  /\ rows \in [Tokens -> Row \cup {Null}]
  /\ password \in [Users -> Tokens \cup {Null}]
  /\ op \in [Procs -> Op \cup {Null}]
  /\ drawn \in 0..MaxTokens
  /\ status \in [Tokens -> {"none", "queued", "done", "failed"}]
  /\ mailed \subseteq Tokens /\ dlq \subseteq Tokens
  /\ stores \in [Tokens -> Nat] /\ confirmed \in [Tokens -> Nat]
  /\ disturbed \subseteq Tokens
  /\ answer \in Answer \cup {Null}
  /\ faults \in 0..MaxFaults

Init ==
  /\ rows = [n \in Tokens |-> Null]
  /\ password = [u \in Users |-> Null]
  /\ op = [p \in Procs |-> Null]
  /\ drawn = 0
  /\ Mail!Init
  /\ stores = [n \in Tokens |-> 0] /\ confirmed = [n \in Tokens |-> 0]
  /\ disturbed = {} /\ answer = Null /\ faults = 0

-----------------------------------------------------------------------------
Rows(u)  == {n \in Tokens : /\ rows[n] # Null
                            /\ rows[n].user = u /\ ~rows[n].gone}
At(p, l) == op[p] # Null /\ op[p].pc = l
Begin(p, l, n) == op' = [op EXCEPT ![p] = [pc |-> l, row |-> n]]
Go(p, l) == op' = [op EXCEPT ![p].pc = l]
End(p)   == op' = [op EXCEPT ![p] = Null]
Reply(what, u, c, ok) ==
  answer' = IF c.n \in Rows(u) THEN [what |-> what, code |-> c, ok |-> ok]
            ELSE Null

\* verifyPassword(tokenHash, code) for the row of token n.
verifyPassword(n, c) == c = [kind |-> "token", n |-> n]

\* forgotPassword of a known address: createPasswordReset adds a row, older
\* ones of the user stay as they are.
CreatePasswordReset(p, u) ==
  /\ op[p] = Null /\ drawn < MaxTokens
  /\ drawn' = drawn + 1
  /\ rows' = [rows EXCEPT ![drawn + 1] =
                [user |-> u, live |-> TRUE, used |-> FALSE, gone |-> FALSE]]
  /\ Begin(p, "enqueue", drawn + 1)
  /\ answer' = Null
  /\ UNCHANGED <<password, queue, stores, confirmed, disturbed, faults>>

\* queueService.sendResetPassword, with the encrypted hash as payload.
SendResetPassword(p) ==
  /\ At(p, "enqueue")
  /\ Mail!Enqueue(op[p].row)
  /\ End(p)
  /\ answer' = Null
  /\ UNCHANGED <<rows, password, drawn, stores, confirmed, disturbed, faults>>

\* verifyPasswordReset: findFirst returns any live row of the user that is
\* not used, and the code is compared with that row only.
VerifyFind(p, u, c) ==
  LET found == {n \in Rows(u) : rows[n].live /\ ~rows[n].used}
  IN  /\ op[p] = Null
      /\ \/ /\ found = {}
            /\ Reply("verify", u, c, FALSE) /\ UNCHANGED op
         \/ \E n \in found :
              IF verifyPassword(n, c)
              THEN Begin(p, "markUsed", n) /\ answer' = Null
              ELSE Reply("verify", u, c, FALSE) /\ UNCHANGED op
      /\ UNCHANGED <<rows, password, drawn, queue, stores, confirmed,
                     disturbed, faults>>

\* The row is updated by id; when it was deleted in between, update throws.
MarkUsed(p) ==
  LET n == op[p].row
      c == [kind |-> "token", n |-> n]
  IN  /\ At(p, "markUsed")
      /\ rows' = [rows EXCEPT ![n].used = @ \/ ~rows[n].gone]
      /\ Reply("verify", rows[n].user, c, ~rows[n].gone)
      /\ End(p)
      /\ UNCHANGED <<password, drawn, queue, stores, confirmed, disturbed,
                     faults>>

\* Other handlers in the middle of a reset through row n.
Resetting(p, n) ==
  {q \in Procs \ {p} : /\ op[q] # Null /\ op[q].row = n
                       /\ op[q].pc \in {"store", "delete", "revoke"}}

\* Mutant: findFirst returns any row of the user; used is not asked for.
ResetFindAnyRow(p, u, c) ==
  LET found == Rows(u)
  IN  /\ op[p] = Null
      /\ \/ /\ found = {}
            /\ Reply("reset", u, c, FALSE) /\ UNCHANGED <<op, disturbed>>
         \/ \E n \in found :
              IF rows[n].used /\ verifyPassword(n, c)
              THEN /\ Begin(p, "store", n) /\ answer' = Null
                   /\ disturbed' = IF Resetting(p, n) = {} THEN disturbed
                                   ELSE disturbed \cup {n}
              ELSE Reply("reset", u, c, FALSE) /\ UNCHANGED <<op, disturbed>>
      /\ UNCHANGED <<rows, password, drawn, queue, stores, confirmed, faults>>

\* Mutant: resetPassword does not ask for a verified row.
ResetFindUnverified(p, u, c) ==
  /\ op[p] = Null
  /\ \E n \in Rows(u) : /\ verifyPassword(n, c)
                        /\ Begin(p, "store", n) /\ answer' = Null
  /\ UNCHANGED <<rows, password, drawn, queue, stores, confirmed, disturbed,
                 faults>>

\* resetPassword: any used row of the user.  Its expiry is not looked at,
\* other than idea/FLOW_FORGOT_PASSWORD_NATS_BULLMQ.md has it.
ResetFind(p, u, c) ==
  LET found == {n \in Rows(u) : rows[n].used}
  IN  /\ op[p] = Null
      /\ \/ /\ found = {}
            /\ Reply("reset", u, c, FALSE) /\ UNCHANGED <<op, disturbed>>
         \/ \E n \in found :
              IF verifyPassword(n, c)
              THEN /\ Begin(p, "store", n) /\ answer' = Null
                   /\ disturbed' = IF Resetting(p, n) = {} THEN disturbed
                                   ELSE disturbed \cup {n}
              ELSE Reply("reset", u, c, FALSE) /\ UNCHANGED <<op, disturbed>>
      /\ UNCHANGED <<rows, password, drawn, queue, stores, confirmed, faults>>

\* user.update with the new hash ...
StorePassword(p) ==
  LET n == op[p].row
  IN  /\ At(p, "store")
      /\ password' = [password EXCEPT ![rows[n].user] = n]
      /\ stores' = [stores EXCEPT ![n] = @ + 1]
      /\ Go(p, "delete")
      /\ answer' = Null
      /\ UNCHANGED <<rows, drawn, queue, confirmed, disturbed, faults>>

\* Mutant: a row that is gone already is no error.
DeleteRowMany(p) ==
  /\ At(p, "delete")
  /\ rows' = [rows EXCEPT ![op[p].row].gone = TRUE]
  /\ Go(p, "revoke") /\ answer' = Null
  /\ UNCHANGED <<password, drawn, queue, stores, confirmed, disturbed, faults>>

\* Mutant: the row is kept after use.
DeleteRowKeep(p) ==
  /\ At(p, "delete")
  /\ Go(p, "revoke") /\ answer' = Null
  /\ UNCHANGED <<rows, password, drawn, queue, stores, confirmed, disturbed,
                 faults>>

\* ... the row is deleted; when another handler was faster, delete throws:
\* the client gets 400 and logoutAllDevices is not reached ...
DeleteRow(p) ==
  LET n == op[p].row
      c == [kind |-> "token", n |-> n]
  IN  /\ At(p, "delete")
      /\ rows' = [rows EXCEPT ![n].gone = TRUE]
      /\ IF rows[n].gone
         THEN Reply("reset", rows[n].user, c, FALSE) /\ End(p)
         ELSE Go(p, "revoke") /\ answer' = Null
      /\ UNCHANGED <<password, drawn, queue, stores, confirmed, disturbed,
                     faults>>

\* ... and logoutAllDevices ends the sessions, see Sessions.
LogoutAllDevices(p) ==
  LET n == op[p].row
  IN  /\ At(p, "revoke")
      /\ confirmed' = [confirmed EXCEPT ![n] = @ + 1]
      /\ Reply("reset", rows[n].user, [kind |-> "token", n |-> n], TRUE)
      /\ End(p)
      /\ UNCHANGED <<rows, password, drawn, queue, stores, disturbed, faults>>

\* The handler dies, or its next await throws: forgotPassword swallows the
\* error of the queue, the other two answer 400.
HandlerFails(p) ==
  /\ op[p] # Null /\ faults < MaxFaults
  /\ faults' = faults + 1
  /\ disturbed' = disturbed \cup {op[p].row}
  /\ End(p)
  /\ answer' = Null
  /\ UNCHANGED <<rows, password, drawn, queue, stores, confirmed>>

\* The fifteen minutes of a row are over.
Expire(n) ==
  /\ rows[n] # Null /\ rows[n].live
  /\ rows' = [rows EXCEPT ![n].live = FALSE]
  /\ answer' = Null
  /\ UNCHANGED <<password, op, drawn, queue, stores, confirmed, disturbed,
                 faults>>

QueueStep ==
  /\ Mail!Work
  /\ answer' = Null
  /\ UNCHANGED <<rows, password, op, drawn, stores, confirmed, disturbed,
                 faults>>

\* The encrypted form is known from the mail only.
Presentable == {c \in Code : c.kind = "mailed" => c.n \in mailed}

Next ==
  \/ \E p \in Procs :
       \/ \E u \in Users : CreatePasswordReset(p, u)
       \/ \E u \in Users, c \in Presentable :
            VerifyFind(p, u, c) \/ ResetFind(p, u, c)
       \/ SendResetPassword(p) \/ MarkUsed(p) \/ StorePassword(p)
       \/ DeleteRow(p) \/ LogoutAllDevices(p) \/ HandlerFails(p)
  \/ \E n \in Tokens : Expire(n)
  \/ QueueStep

Spec == Init /\ [][Next]_vars

-----------------------------------------------------------------------------
(* Properties that hold *)

\* A password is only ever set through a code of that same user whose row
\* had been verified, whatever codes are presented for whatever address and
\* however the handlers interleave.
OnlyVerifiedOwnCode ==
  \A u \in Users :
    password[u] # Null => rows[password[u]].user = u /\ rows[password[u]].used

\* One code yields one confirmed reset, also when several resets with it
\* run at the same time.
OneConfirmation == \A n \in Tokens : confirmed[n] <= 1

\* Without such an overlap and without a fault in the middle a code sets the
\* password once.  (With one it really may do so again: the row is deleted
\* after the password was stored.)
SingleUse == \A n \in Tokens \ disturbed : stores[n] <= 1

Refused(what, n) ==
  /\ answer # Null /\ answer.what = what /\ ~answer.ok
  /\ answer.code = [kind |-> "token", n |-> n]

\* A reset with a verified code that is not consumed and has not expired is
\* refused only when the user has another verified row, which findFirst may
\* have found instead: requests that the user has left unverified, however
\* many, do not get in its way.
NoFalseRefusal ==
  \A n \in Tokens :
    Refused("reset", n) /\ rows[n].used /\ rows[n].live =>
      \E k \in Rows(rows[n].user) : k # n /\ rows[k].used

-----------------------------------------------------------------------------
(* A statement of the documentation that the code does not meet *)

\* idea/FLOW_FORGOT_PASSWORD_NATS_BULLMQ.md: the raw token is sent in the
\* mail and the reset looks up the hash of the token it is given; so a code
\* that arrived by mail, presented for its own user in time and before it was
\* used, is accepted when the user has no other request open.
MailedCodeVerifies ==
  \A n \in mailed :
    /\ answer # Null
    /\ answer.what = "verify" /\ answer.code = [kind |-> "mailed", n |-> n]
    /\ Rows(rows[n].user) = {n} /\ rows[n].live /\ ~rows[n].used
    => answer.ok
=============================================================================
