--------------------------- MODULE AccountAccess ---------------------------
(***************************************************************************)
(* One account from registration to login: the identity handlers           *)
(* (register, verify-email, forgot-password, reset-password), the          *)
(* LoginHandler with its two lockout keys, and the sessions that logins    *)
(* open and resets end.                                                    *)
(*                                                                         *)
(* A handler awaits PostgreSQL or Redis between its steps and no           *)
(* transaction spans them: users.save writes back the whole row that       *)
(* the handler loaded, tokens are read, used and only then consumed.       *)
(* Requests interleave at each await and may die at any of them.           *)
(*                                                                         *)
(* Passwords are numbered by the password_changed event that announced     *)
(* them, 0 being the one chosen at registration.  Token lifetimes are      *)
(* abstracted to the fact that a token may expire at any moment.  What     *)
(* happens to the tokens of a session is in RefreshRotation and            *)
(* SessionRevocation.                                                      *)
(***************************************************************************)
EXTENDS Naturals, FiniteSets, Sequences

CONSTANTS
  Requests,     \* concurrent requests
  Keys,         \* lockout keys of a login, in order: account, then address
  Threshold,    \* Threshold[k]: policy of key k
  MaxResets,    \* bound: password reset tokens
  MaxLogins,    \* bound: sessions
  MaxFailures,  \* bound: requests that die, and Redis errors
  NoUser        \* no row

ASSUME AccountAssumption ==
  /\ IsFiniteSet(Requests)
  /\ Keys \in Seq({"account", "address"})
  /\ \A i, j \in DOMAIN Keys : Keys[i] = Keys[j] => i = j
  /\ \A i \in DOMAIN Keys : Threshold[Keys[i]] \in Nat \ {0}
  /\ MaxResets \in Nat /\ MaxLogins \in Nat /\ MaxFailures \in Nat
  /\ NoUser \notin [password : Nat, status : {"pending", "active"}]

VARIABLES
  user,       \* users: the row of the e-mail address
  outbox,     \* outbox: events of the account, counted by type
  tokens,     \* token rows: 0 the e-mail verification, the others resets
  mailbox,    \* tokens that were mailed to the user
  sessions,   \* sessions: status, and the password its login verified
  counter,    \* Redis: failures counted under each key
  req,        \* what each request does, and what it has loaded
  failures,   \* requests that died and Redis calls that failed
  spent,      \* history: tokens that an answered request has used
  settled,    \* history: newest password of an answered reset
  clobbered,  \* history: a verification wrote back an older password
  stranded,   \* history: a registration died with the row saved
  wrong       \* history: failed logins since the counter of a key started,
              \* with those that were then still to be counted

vars == <<user, outbox, tokens, mailbox, sessions, counter, req,
          failures, spent, settled, clobbered, stranded, wrong>>

identity == <<user, outbox, tokens, mailbox>>
history == <<spent, settled, clobbered, stranded>>
lockout == <<counter, wrong>>

KeySet == {Keys[i] : i \in DOMAIN Keys}
Verification == 0
Resets == 1 .. MaxResets
TokenIds == {Verification} \cup Resets

(* The row of a user; no operation sets the status suspended. *)
Rows == {NoUser} \cup [password : Nat, status : {"pending", "active"}]

(* A verification or reset token; one that is used is not said to expire. *)
TokenStatus == {"none", "live", "expired", "consumed"}

(* A request at rest. *)
Idle == [op |-> "none", step |-> "idle", token |-> Verification, row |-> NoUser,
         key |-> 1, locked |-> FALSE, late |-> FALSE, raced |-> FALSE]

Init ==
  /\ user = NoUser
  /\ outbox = [registered |-> 0, verified |-> 0, changed |-> 0]
  /\ tokens = [t \in TokenIds |-> "none"]
  /\ mailbox = {}
  /\ sessions = <<>>
  /\ counter = [k \in KeySet |-> 0]
  /\ req = [r \in Requests |-> Idle]
  /\ failures = 0
  /\ spent = {}
  /\ settled = 0
  /\ clobbered = FALSE
  /\ stranded = FALSE
  /\ wrong = [k \in KeySet |-> 0]

-----------------------------------------------------------------------------
At(r, op, s) == req[r].op = op /\ req[r].step = s

Goto(r, s) == req' = [req EXCEPT ![r].step = s]

Return(r) == req' = [req EXCEPT ![r] = Idle]

(* A request begins with the step s of the operation op. *)
Begin(r, op, s, t) ==
  /\ req[r] = Idle
  /\ req' = [req EXCEPT ![r] = [Idle EXCEPT !.op = op, !.step = s, !.token = t,
                                            !.late = op \in {"verify", "reset"} /\ t \in spent]]
  /\ UNCHANGED <<identity, sessions, lockout, failures, history>>

(* The expiresAt of an unused token passes. *)
Expire(t) ==
  /\ tokens[t] = "live"
  /\ tokens' = [tokens EXCEPT ![t] = "expired"]
  /\ UNCHANGED <<user, outbox, mailbox, sessions, lockout, req, failures, history>>

(* The process dies, or PostgreSQL fails, before the request's next step. *)
Die(r) ==
  /\ req[r] # Idle /\ failures < MaxFailures
  /\ failures' = failures + 1
  /\ stranded' = (stranded \/ At(r, "register", "token") \/ At(r, "register", "mail"))
  /\ Return(r)
  /\ UNCHANGED <<identity, sessions, lockout, spent, settled, clobbered>>

-----------------------------------------------------------------------------
MutSave(row, events) ==
  /\ user' = IF user = NoUser THEN row ELSE [row EXCEPT !.password = user.password]
  /\ outbox' = [e \in DOMAIN outbox |-> outbox[e] + IF e \in events THEN 1 ELSE 0]

(* users.save: an upsert of the whole row, by id; its domain events go to  *)
(* the outbox in the same transaction.                                     *)
Save(row, events) ==
  /\ user' = row
  /\ outbox' = [e \in DOMAIN outbox |-> outbox[e] + IF e \in events THEN 1 ELSE 0]

(* RegisterUserHandler: an address that is taken is answered alike. *)
RegisterFind(r) ==
  /\ At(r, "register", "find")
  /\ IF user # NoUser THEN Return(r) ELSE Goto(r, "save")
  /\ UNCHANGED <<identity, sessions, lockout, failures, history>>

(* The e-mail address is unique: the later of two saves fails. *)
RegisterSave(r) ==
  /\ At(r, "register", "save")
  /\ IF user # NoUser
     THEN Return(r) /\ UNCHANGED <<user, outbox>>
     ELSE /\ Save([password |-> 0, status |-> "pending"], {"registered"})
          /\ Goto(r, "token")
  /\ UNCHANGED <<tokens, mailbox, sessions, lockout, failures, history>>

RegisterToken(r) ==
  /\ At(r, "register", "token")
  /\ tokens' = [tokens EXCEPT ![Verification] = "live"]
  /\ Goto(r, "mail")
  /\ UNCHANGED <<user, outbox, mailbox, sessions, lockout, failures, history>>

RegisterMail(r) ==
  /\ At(r, "register", "mail")
  /\ mailbox' = mailbox \cup {Verification}
  /\ Return(r)
  /\ UNCHANGED <<user, outbox, tokens, sessions, lockout, failures, history>>

-----------------------------------------------------------------------------
(* RequestPasswordResetHandler writes to active users only. *)
ActiveUser == user # NoUser /\ user.status = "active"

(* Bound: a reset token is left for every request that may issue one. *)
TokensLeft ==
  Cardinality({q \in Requests : req[q].op = "forgot"})
    < Cardinality({t \in Resets : tokens[t] = "none"})

ForgotFind(r) ==
  /\ At(r, "forgot", "find")
  /\ IF ActiveUser THEN Goto(r, "token") ELSE Return(r)
  /\ UNCHANGED <<identity, sessions, lockout, failures, history>>

ForgotToken(r) ==
  /\ At(r, "forgot", "token")
  /\ \E t \in Resets :
       /\ \A u \in Resets : tokens[u] = "none" <=> u >= t
       /\ tokens' = [tokens EXCEPT ![t] = "live"]
       /\ req' = [req EXCEPT ![r].step = "mail", ![r].token = t]
  /\ UNCHANGED <<user, outbox, mailbox, sessions, lockout, failures, history>>

ForgotMail(r) ==
  /\ At(r, "forgot", "mail")
  /\ mailbox' = mailbox \cup {req[r].token}
  /\ Return(r)
  /\ UNCHANGED <<user, outbox, tokens, sessions, lockout, failures, history>>

-----------------------------------------------------------------------------
(* isConsumed and isExpired, of a token that was found by its hash. *)
Usable(t) == tokens[t] = "live"

MutVerifySteps == <<"consume", "save">>

(* The writes of VerifyEmailHandler, in order ... *)
VerifySteps == <<"save", "consume">>

MutResetSteps == <<"revoke", "save", "consume">>

(* ... and those of ResetPasswordHandler. *)
ResetSteps == <<"save", "consume", "revoke">>

StepsOf(op) == IF op = "verify" THEN VerifySteps ELSE ResetSteps

(* The step after s; a handler answers when its writes are done. *)
Following(op, s) ==
  LET steps == StepsOf(op)
      i == CHOOSE j \in DOMAIN steps : steps[j] = s
  IN IF i = Len(steps) THEN "answer" ELSE steps[i + 1]

(* Both handlers look the token up ... *)
FindToken(r) ==
  /\ At(r, "verify", "token") \/ At(r, "reset", "token")
  /\ IF Usable(req[r].token) THEN Goto(r, "user") ELSE Return(r)
  /\ UNCHANGED <<identity, sessions, lockout, failures, history>>

(* ... and load the user; a reset hashes the new password next. *)
FindUser(r) ==
  /\ At(r, "verify", "user") \/ At(r, "reset", "user")
  /\ req' = [req EXCEPT ![r].step = Head(StepsOf(req[r].op)), ![r].row = user]
  /\ UNCHANGED <<identity, sessions, lockout, failures, history>>

(* User.verifyEmail on the loaded row, saved whole. *)
VerifySave(r) ==
  /\ At(r, "verify", "save")
  /\ Save([req[r].row EXCEPT !.status = "active"],
          IF req[r].row.status = "active" THEN {} ELSE {"verified"})
  /\ Goto(r, Following("verify", "save"))
  /\ clobbered' = (clobbered \/ user.password # req[r].row.password)
  /\ UNCHANGED <<tokens, mailbox, sessions, lockout, failures, spent,
                 settled, stranded>>

(* User.changePassword on the loaded row, saved whole. *)
ResetSave(r) ==
  LET row == [req[r].row EXCEPT !.password = outbox.changed + 1] IN
  /\ At(r, "reset", "save")
  /\ Save(row, {"changed"})
  /\ req' = [req EXCEPT ![r].step = Following("reset", "save"), ![r].row = row]
  /\ UNCHANGED <<tokens, mailbox, sessions, lockout, failures, history>>

(* consume: an update of the token's row that asks nothing of it. *)
Consume(r) ==
  /\ req[r].op \in {"verify", "reset"} /\ req[r].step = "consume"
  /\ tokens' = [tokens EXCEPT ![req[r].token] = "consumed"]
  /\ Goto(r, Following(req[r].op, "consume"))
  /\ UNCHANGED <<user, outbox, mailbox, sessions, lockout, failures, history>>

(* A login that has verified the password and not yet opened its session. *)
Verified(r) == At(r, "login", "reset") \/ At(r, "login", "create")

(* SessionTerminator.terminateAllForUser revokes the sessions it sees. *)
RevokeAll ==
  /\ sessions' = [i \in DOMAIN sessions |-> [sessions[i] EXCEPT !.status = "revoked"]]

RevokeSessions(r) ==
  /\ At(r, "reset", "revoke")
  /\ RevokeAll
  /\ req' = [q \in Requests |->
               IF q = r THEN [req[q] EXCEPT !.step = Following("reset", "revoke")]
               ELSE [req[q] EXCEPT !.raced = @ \/ Verified(q)]]
  /\ UNCHANGED <<identity, lockout, failures, history>>

(* The response is sent: 200, verified or reset. *)
Answer(r) ==
  /\ req[r].op \in {"verify", "reset"} /\ req[r].step = "answer"
  /\ spent' = spent \cup {req[r].token}
  /\ settled' = IF req[r].op = "reset" /\ req[r].row.password > settled
                THEN req[r].row.password ELSE settled
  /\ Return(r)
  /\ UNCHANGED <<identity, sessions, lockout, failures, clobbered, stranded>>

(* POST /auth/logout-all *)
LogoutAll ==
  /\ \E i \in DOMAIN sessions : sessions[i].status = "active"
  /\ RevokeAll
  /\ UNCHANGED <<identity, lockout, req, failures, history>>

-----------------------------------------------------------------------------
(* A Redis command of the lockout store that fails is logged and ignored. *)
RedisFails ==
  /\ failures < MaxFailures
  /\ failures' = failures + 1

MutLocked(k) == counter[k] > Threshold[k]

Locked(k) == counter[k] >= Threshold[k]

(* The request goes on to the next key, or to the step s. *)
NextKey(r, s) ==
  IF req[r].key < Len(Keys)
  THEN [req[r] EXCEPT !.key = @ + 1]
  ELSE [req[r] EXCEPT !.key = 1, !.step = s]

(* isLocked of each key in turn, of both even if the first one is locked. *)
LoginCheckLock(r) ==
  LET k == Keys[req[r].key] IN
  /\ At(r, "login", "locked")
  /\ \/ /\ req' = [req EXCEPT ![r] = [NextKey(r, "find") EXCEPT !.locked = @ \/ Locked(k)]]
        /\ UNCHANGED failures
     \/ RedisFails /\ req' = [req EXCEPT ![r] = NextKey(r, "find")]
  /\ UNCHANGED <<identity, sessions, lockout, history>>

(* Bound: every login that verifies may open a session. *)
SessionsLeft ==
  Len(sessions) + Cardinality({q \in Requests : Verified(q)}) < MaxLogins

(* IdentityCredentials.verify: the row is loaded once and the password,    *)
(* right or wrong, compared with it.                                       *)
LoginVerify(r, right) ==
  /\ At(r, "login", "find")
  /\ \/ req[r].locked /\ Return(r) /\ UNCHANGED wrong
     \/ /\ ~req[r].locked /\ right /\ ActiveUser /\ SessionsLeft
        /\ req' = [req EXCEPT ![r].step = "reset", ![r].row = user]
        /\ UNCHANGED wrong
     \/ /\ ~req[r].locked /\ ~(right /\ ActiveUser)
        /\ Goto(r, "failed")
        /\ wrong' = [k \in KeySet |-> wrong[k] + 1]
  /\ UNCHANGED <<identity, sessions, counter, failures, history>>

(* registerFailure of each key: INCR. *)
LoginFailure(r) ==
  LET k == Keys[req[r].key] IN
  /\ At(r, "login", "failed")
  /\ req' = [req EXCEPT ![r] = IF req[r].key < Len(Keys) THEN NextKey(r, "failed") ELSE Idle]
  /\ \/ counter' = [counter EXCEPT ![k] = @ + 1] /\ UNCHANGED failures
     \/ RedisFails /\ UNCHANGED counter
  /\ UNCHANGED <<identity, sessions, wrong, history>>

(* A login that has failed and is still to be counted under the key. *)
Uncounted(i) == {q \in Requests : At(q, "login", "failed") /\ req[q].key <= i}

(* The counter of a key is gone; the guesses to be counted are not. *)
StartAgain(i) ==
  /\ counter' = [counter EXCEPT ![Keys[i]] = 0]
  /\ wrong' = [wrong EXCEPT ![Keys[i]] = Cardinality(Uncounted(i))]

(* reset of each key: DEL. *)
LoginReset(r) ==
  /\ At(r, "login", "reset")
  /\ req' = [req EXCEPT ![r] = NextKey(r, "create")]
  /\ \/ StartAgain(req[r].key) /\ UNCHANGED failures
     \/ RedisFails /\ UNCHANGED lockout
  /\ UNCHANGED <<identity, sessions, history>>

(* The session, its family and its first refresh token, in a transaction;  *)
(* the organization was looked up and the access token signed before.      *)
LoginCreate(r) ==
  /\ At(r, "login", "create")
  /\ sessions' = Append(sessions, [status |-> "active", password |-> req[r].row.password,
                                   raced |-> req[r].raced])
  /\ Return(r)
  /\ UNCHANGED <<identity, lockout, failures, history>>

(* EXPIRE, set by the first failure, ends the window of a key. *)
WindowEnds(i) ==
  /\ counter[Keys[i]] > 0
  /\ StartAgain(i)
  /\ UNCHANGED <<identity, sessions, req, failures, history>>

-----------------------------------------------------------------------------
Register(r) ==
  \/ Begin(r, "register", "find", Verification)
  \/ RegisterFind(r)
  \/ RegisterSave(r)
  \/ RegisterToken(r)
  \/ RegisterMail(r)

RequestPasswordReset(r) ==
  \/ TokensLeft /\ Begin(r, "forgot", "find", Verification)
  \/ ForgotFind(r)
  \/ ForgotToken(r)
  \/ ForgotMail(r)

VerifyEmail(r) ==
  \/ Verification \in mailbox /\ Begin(r, "verify", "token", Verification)
  \/ VerifySave(r)

ResetPassword(r) ==
  \/ \E t \in mailbox \ {Verification} : Begin(r, "reset", "token", t)
  \/ ResetSave(r)
  \/ RevokeSessions(r)

UseToken(r) == FindToken(r) \/ FindUser(r) \/ Consume(r) \/ Answer(r)

Login(r) ==
  \/ Begin(r, "login", "locked", Verification)
  \/ LoginCheckLock(r)
  \/ \E right \in BOOLEAN : LoginVerify(r, right)
  \/ LoginFailure(r)
  \/ LoginReset(r)
  \/ LoginCreate(r)

Next ==
  \/ \E r \in Requests : Register(r) \/ RequestPasswordReset(r)
  \/ \E r \in Requests : VerifyEmail(r) \/ ResetPassword(r) \/ UseToken(r)
  \/ \E r \in Requests : Login(r)
  \/ \E r \in Requests : Die(r)
  \/ \E t \in TokenIds : Expire(t)
  \/ \E i \in DOMAIN Keys : WindowEnds(i)
  \/ LogoutAll

Spec == Init /\ [][Next]_vars

-----------------------------------------------------------------------------
TypeOK ==
  /\ user \in Rows
  /\ outbox \in [{"registered", "verified", "changed"} -> Nat]
  /\ tokens \in [TokenIds -> TokenStatus]
  /\ mailbox \subseteq TokenIds
  /\ sessions \in Seq([status : {"active", "revoked"}, password : Nat, raced : BOOLEAN])
  /\ counter \in [KeySet -> Nat]
  /\ \A r \in Requests : req[r].row \in Rows /\ req[r].token \in TokenIds
  /\ failures \in 0 .. MaxFailures
  /\ spent \subseteq TokenIds
  /\ settled \in Nat
  /\ clobbered \in BOOLEAN /\ stranded \in BOOLEAN
  /\ wrong \in [KeySet -> Nat]

(***************************************************************************)
(* A mailed token works once, as the routes promise: a request that begins *)
(* after the answer to one that used the token gets no further than        *)
(* looking it up.  Requests that overlap may both succeed, and one that    *)
(* dies before consume leaves the token usable.                            *)
(***************************************************************************)
SpentTokenStaysSpent ==
  \A r \in Requests : req[r].late => req[r].step = "token"

(***************************************************************************)
(* The password of a reset that was answered is the account's password     *)
(* until a later one replaces it.  The one thing that undoes it is a       *)
(* verification that loaded the row before.                                *)
(***************************************************************************)
ResetPasswordSticks ==
  settled > 0 => user.password >= settled \/ clobbered

(***************************************************************************)
(* When a reset was answered, no session opened with an older password is  *)
(* active, except for a login that had verified the old password when the  *)
(* sessions were revoked and opened its own afterwards.                    *)
(***************************************************************************)
SessionsEndWithReset ==
  \A i \in DOMAIN sessions :
    sessions[i].status = "active" =>
      sessions[i].password >= settled \/ sessions[i].raced \/ clobbered

(***************************************************************************)
(* An account that waits for its verification can be verified: its token   *)
(* is in the user's mailbox and works, unless it expired or the            *)
(* registration died after saving the row (the address is then taken, and  *)
(* nothing sends another token).                                           *)
(***************************************************************************)
PendingAccountsCanVerify ==
  (user # NoUser /\ user.status = "pending") =>
    \/ Usable(Verification) /\ Verification \in mailbox
    \/ tokens[Verification] = "expired"
    \/ stranded
    \/ \E r \in Requests : At(r, "register", "token") \/ At(r, "register", "mail")

(***************************************************************************)
(* The lockout bounds password guessing under each key: attempts that pass *)
(* isLocked before a failure is counted, and Redis failing open, add at    *)
(* most one each.                                                          *)
(***************************************************************************)
LoginGuessesAreBounded ==
  \A k \in KeySet : wrong[k] <= Threshold[k] - 1 + Cardinality(Requests) + failures

(***************************************************************************)
(* What an answered reset guarantees: its token is spent, and its password *)
(* is the account's.                                                       *)
(***************************************************************************)
ResetTakesHold == SpentTokenStaysSpent /\ ResetPasswordSticks
=============================================================================
