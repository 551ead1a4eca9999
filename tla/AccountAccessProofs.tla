------------------------ MODULE AccountAccessProofs ------------------------
(***************************************************************************)
(* Proofs about AccountAccess: what an answered reset guarantees, that a   *)
(* pending account can be verified, and how many passwords a lockout key   *)
(* lets be guessed.                                                        *)
(***************************************************************************)
EXTENDS AccountAccess, FiniteSetTheorems, TLAPS

-----------------------------------------------------------------------------
(* What a request keeps between its awaits. *)
Account == [password : Nat, status : {"pending", "active"}]

InProgress ==
  [op : {"none", "register", "forgot", "verify", "reset", "login"},
   step : {"idle", "find", "save", "token", "mail", "user", "consume", "revoke",
           "answer", "locked", "failed", "reset", "create"},
   token : TokenIds, row : Rows, key : Nat \ {0},
   locked : BOOLEAN, late : BOOLEAN, raced : BOOLEAN]

AccountTyped == TypeOK /\ req \in [Requests -> InProgress]

Session == [status : {"active", "revoked"}, password : Nat, raced : BOOLEAN]

(* A registration that has saved the row and not yet mailed its token. *)
Registering(r) == At(r, "register", "token") \/ At(r, "register", "mail")

(* One registration saves the row; its token is there before the mail. *)
RegistrationInv ==
  /\ \A r \in Requests : Registering(r) =>
       /\ user # NoUser /\ Verification \notin mailbox
       /\ At(r, "register", "token") <=> tokens[Verification] = "none"
       /\ \A q \in Requests : Registering(q) => q = r
       /\ tokens[Verification] # "consumed"
  /\ user # NoUser =>
       stranded \/ Verification \in mailbox \/ \E r \in Requests : Registering(r)

(* What is known of the row and the tokens together: nothing exists before *)
(* the row, a reset is for an active account, and a verification token is  *)
(* consumed after the account has become active.                           *)
RowInv ==
  /\ user = NoUser => outbox.changed = 0 /\ tokens[Verification] = "none" /\ mailbox = {}
  /\ \A t \in mailbox : tokens[t] # "none"
  /\ (\E t \in Resets : tokens[t] # "none") => ActiveUser
  /\ tokens[Verification] = "consumed" => ActiveUser
  /\ user # NoUser => user.password = outbox.changed \/ clobbered
  /\ settled <= outbox.changed
  /\ \A t \in spent : t \in mailbox /\ tokens[t] = "consumed"

(* What a request knows: its token was mailed, the row it loaded exists,   *)
(* and the writes before its step have taken hold.                         *)
RequestInv(r) ==
  /\ req[r].op = "verify" => req[r].token = Verification /\ Verification \in mailbox
  /\ req[r].op = "reset" => req[r].token \in mailbox \ {Verification}
  /\ req[r].op = "forgot" => /\ req[r].step \in {"token", "mail"} => ActiveUser
                             /\ req[r].step = "mail" => tokens[req[r].token] # "none"
                                                        /\ req[r].token \in Resets
  /\ req[r].op \in {"verify", "reset"} =>
       /\ req[r].step \in {"save", "consume", "revoke", "answer"} => req[r].row # NoUser
       /\ req[r].step \in {"revoke", "answer"} => tokens[req[r].token] = "consumed"
       /\ req[r].step \in {"consume", "revoke", "answer"} => ActiveUser
  /\ (req[r].op = "reset" /\ req[r].step \in {"save", "consume", "revoke", "answer"}) =>
       req[r].row.status = "active"
  /\ (req[r].op = "reset" /\ req[r].step \in {"consume", "revoke", "answer"}) =>
       req[r].row.password <= outbox.changed
  /\ req[r].late =>
       /\ req[r].op \in {"verify", "reset"} /\ req[r].step = "token"
       /\ req[r].token \in spent
  /\ Verified(r) => req[r].row # NoUser

AccountInv ==
  AccountTyped /\ RegistrationInv /\ RowInv /\ \A r \in Requests : RequestInv(r)

(* A password that a reset has put in place of p is no excuse for a        *)
(* session or a login of an older one.                                     *)
Ended(p) ==
  /\ \A i \in DOMAIN sessions :
       sessions[i].status = "active" =>
         sessions[i].password >= p \/ sessions[i].raced \/ clobbered
  /\ \A q \in Requests :
       Verified(q) => req[q].row.password >= p \/ req[q].raced \/ clobbered

(* An answered reset has ended the older sessions, and so has one that is  *)
(* about to be answered.                                                   *)
SessionsInv ==
  /\ Ended(settled)
  /\ \A r \in Requests : At(r, "reset", "answer") => Ended(req[r].row.password)

-----------------------------------------------------------------------------
(* The lockout, key by key: i is the place of the key in Keys. *)

(* A login that has passed isLocked of the key and may fail. *)
Passed(i) ==
  {r \in Requests : /\ req[r].op = "login" /\ ~req[r].locked
                    /\ \/ req[r].step = "find"
                       \/ req[r].step = "locked" /\ req[r].key > i}

(* The keys are gone through from the first to the last. *)
KeysInOrder ==
  \A r \in Requests : req[r].op = "login" =>
    req[r].key = 1 \/ (req[r].key <= Len(Keys) /\ req[r].step # "find")

(* A wrong password is counted, will be, or Redis has failed; and those    *)
(* that were let through cannot be more than the requests.                 *)
LockAt(i) ==
  /\ wrong[Keys[i]] <= counter[Keys[i]] + Cardinality(Uncounted(i)) + failures
  /\ wrong[Keys[i]] + Cardinality(Passed(i))
       <= Threshold[Keys[i]] - 1 + Cardinality(Requests) + failures

LockInv == \A i \in DOMAIN Keys : LockAt(i)

LockoutInv == KeysInOrder /\ LockInv

-----------------------------------------------------------------------------
(* The order of the writes of the two handlers that use a token. *)
LEMMA WritesInOrder ==
  /\ Head(StepsOf("verify")) = "save" /\ Head(StepsOf("reset")) = "save"
  /\ Following("verify", "save") = "consume" /\ Following("verify", "consume") = "answer"
  /\ Following("reset", "save") = "consume" /\ Following("reset", "consume") = "revoke"
  /\ Following("reset", "revoke") = "answer"
<1>1. /\ StepsOf("verify") = <<"save", "consume">>
      /\ StepsOf("reset") = <<"save", "consume", "revoke">>
  BY DEF StepsOf, VerifySteps, ResetSteps
<1>2. /\ Len(StepsOf("verify")) = 2 /\ DOMAIN StepsOf("verify") = 1 .. 2
      /\ StepsOf("verify")[1] = "save" /\ StepsOf("verify")[2] = "consume"
  BY <1>1
<1>3. /\ Len(StepsOf("reset")) = 3 /\ DOMAIN StepsOf("reset") = 1 .. 3
      /\ StepsOf("reset")[1] = "save" /\ StepsOf("reset")[2] = "consume"
      /\ StepsOf("reset")[3] = "revoke"
  BY <1>1
<1>4. ASSUME NEW steps, NEW s, NEW n \in DOMAIN steps, steps[n] = s,
             \A m \in DOMAIN steps : steps[m] = s => m = n
      PROVE  (CHOOSE j \in DOMAIN steps : steps[j] = s) = n
  BY <1>4
<1>5. /\ (CHOOSE j \in DOMAIN StepsOf("verify") : StepsOf("verify")[j] = "save") = 1
      /\ (CHOOSE j \in DOMAIN StepsOf("verify") : StepsOf("verify")[j] = "consume") = 2
  BY <1>2, <1>4
<1>6. /\ (CHOOSE j \in DOMAIN StepsOf("reset") : StepsOf("reset")[j] = "save") = 1
      /\ (CHOOSE j \in DOMAIN StepsOf("reset") : StepsOf("reset")[j] = "consume") = 2
      /\ (CHOOSE j \in DOMAIN StepsOf("reset") : StepsOf("reset")[j] = "revoke") = 3
  BY <1>3, <1>4
<1>7. Head(StepsOf("verify")) = "save" /\ Head(StepsOf("reset")) = "save"  BY <1>1
<1> QED  BY <1>2, <1>3, <1>5, <1>6, <1>7 DEF Following

-----------------------------------------------------------------------------
(* Types. *)
LEMMA AccountTypedInit == ASSUME Init PROVE AccountTyped
<1> USE DEF Init
<1>1. Idle \in InProgress
  BY DEF Idle, InProgress, Rows, TokenIds, Verification
<1>2. req \in [Requests -> InProgress]  BY <1>1
<1>3. \A r \in Requests : req[r].row \in Rows /\ req[r].token \in TokenIds
  BY <1>2 DEF InProgress
<1>4. outbox \in [{"registered", "verified", "changed"} -> Nat]  OBVIOUS
<1>5. tokens \in [TokenIds -> TokenStatus]  BY DEF TokenStatus
<1>6. counter \in [KeySet -> Nat] /\ wrong \in [KeySet -> Nat]  OBVIOUS
<1>7. sessions \in Seq([status : {"active", "revoked"}, password : Nat, raced : BOOLEAN])
  OBVIOUS
<1>8. failures \in 0 .. MaxFailures /\ user \in Rows
  BY AccountAssumption DEF Rows
<1> QED
  BY <1>2, <1>3, <1>4, <1>5, <1>6, <1>7, <1>8 DEF AccountTyped, TypeOK

(* Request r moves, and no other does. *)
Moved(r) ==
  /\ req' \in [Requests -> InProgress]
  /\ \A q \in Requests : q # r => req'[q] = req[q]

LEMMA GotoFacts ==
  ASSUME AccountTyped, NEW r \in Requests, NEW s, Goto(r, s),
         s \in {"save", "token", "mail", "user", "consume", "revoke", "answer", "failed"}
  PROVE  /\ Moved(r) /\ req'[r].op = req[r].op /\ req'[r].step = s
         /\ req'[r].token = req[r].token /\ req'[r].row = req[r].row
         /\ req'[r].key = req[r].key /\ req'[r].locked = req[r].locked
         /\ req'[r].late = req[r].late /\ req'[r].raced = req[r].raced
BY DEF Goto, AccountTyped, Moved, InProgress

LEMMA ReturnFacts ==
  ASSUME AccountTyped, NEW r \in Requests, Return(r)
  PROVE  Moved(r) /\ req'[r] = Idle
<1>1. Idle \in InProgress  BY DEF Idle, InProgress, Rows, TokenIds, Verification
<1> QED  BY <1>1 DEF Return, AccountTyped, Moved

(* Nothing is promised of a request at rest. *)
LEMMA IdleFacts ==
  ASSUME NEW r, req'[r] = Idle
  PROVE  RequestInv(r)' /\ ~Registering(r)' /\ ~Verified(r)' /\ ~At(r, "reset", "answer")'
<1>1. /\ req'[r].op = "none" /\ req'[r].step = "idle" /\ req'[r].late = FALSE
  BY DEF Idle
<1> QED  BY <1>1 DEF RequestInv, Registering, Verified, At

(* A step of requests that leaves the tables alone keeps their types. *)
LEMMA TypedKept ==
  ASSUME AccountTyped, req' \in [Requests -> InProgress],
         UNCHANGED <<identity, sessions, lockout, failures, history>>
  PROVE  AccountTyped'
BY DEF AccountTyped, TypeOK, identity, lockout, history, InProgress

(* The same for a step that only leaves the rows and their tokens alone. *)
LEMMA TypedOutside ==
  ASSUME AccountTyped, req' \in [Requests -> InProgress],
         UNCHANGED <<identity, spent, settled, clobbered>>, stranded' \in BOOLEAN,
         failures' \in {failures, failures + 1}, failures' # failures => failures < MaxFailures,
         sessions' \in Seq([status : {"active", "revoked"}, password : Nat, raced : BOOLEAN]),
         counter' \in [KeySet -> Nat], wrong' \in [KeySet -> Nat]
  PROVE  AccountTyped'
<1>1. failures' \in 0 .. MaxFailures
  BY AccountAssumption DEF AccountTyped, TypeOK
<1> QED  BY <1>1 DEF AccountTyped, TypeOK, identity, InProgress

-----------------------------------------------------------------------------
(* What never goes back: the account stays active, mails stay mailed,      *)
(* consumed tokens consumed and passwords numbered.                        *)
Monotone ==
  /\ ActiveUser => ActiveUser'
  /\ mailbox \subseteq mailbox' /\ spent \subseteq spent'
  /\ outbox.changed <= outbox'.changed
  /\ \A t \in TokenIds : /\ tokens[t] = "consumed" => tokens'[t] = "consumed"
                         /\ tokens[t] # "none" => tokens'[t] # "none"

LEMMA OthersKeep ==
  ASSUME AccountTyped, AccountTyped', Monotone, NEW q \in Requests, RequestInv(q),
         req'[q].op = req[q].op, req'[q].step = req[q].step,
         req'[q].token = req[q].token, req'[q].row = req[q].row, req'[q].late = req[q].late
  PROVE  RequestInv(q)'
<1>1. req[q].token \in TokenIds /\ req[q].row \in Rows
      /\ outbox.changed \in Nat /\ outbox'.changed \in Nat
  BY DEF AccountTyped, TypeOK
<1>2. /\ req[q].op = "reset" /\ req[q].step \in {"consume", "revoke", "answer"} =>
           req[q].row.password <= outbox'.changed
  <2>1. ASSUME req[q].op = "reset", req[q].step \in {"consume", "revoke", "answer"}
        PROVE  req[q].row.password <= outbox'.changed
    <3>1. req[q].row # NoUser /\ req[q].row.password <= outbox.changed
      BY <2>1 DEF RequestInv
    <3>2. req[q].row.password \in Nat  BY <1>1, <3>1 DEF Rows
    <3> QED  BY <1>1, <3>1, <3>2 DEF Monotone
  <2> QED  BY <2>1
<1> QED  BY <1>1, <1>2 DEF Monotone, RequestInv, Verified, At

(* A step that leaves rows and tokens alone, and no registration half done. *)
LEMMA QuietKeeps ==
  ASSUME AccountInv, NEW r \in Requests, Moved(r), AccountTyped', RequestInv(r)',
         UNCHANGED <<identity, spent, settled, clobbered>>, stranded => stranded',
         ~Registering(r) \/ stranded', ~Registering(r)'
  PROVE  AccountInv'
<1>1. Monotone
  <2>1. outbox.changed \in Nat  BY DEF AccountInv, AccountTyped, TypeOK
  <2> QED  BY <2>1 DEF Monotone, ActiveUser, identity
<1>2. \A q \in Requests : RequestInv(q)'
  BY <1>1, OthersKeep DEF AccountInv, Moved
<1>3. RowInv'  BY DEF AccountInv, RowInv, ActiveUser, identity
<1>4. \A q \in Requests : q # r => /\ Registering(q)' <=> Registering(q)
                                   /\ At(q, "register", "token")' <=> At(q, "register", "token")
  BY DEF Moved, Registering, At
<1>5. RegistrationInv'
  BY <1>4 DEF AccountInv, RegistrationInv, identity
<1> QED  BY <1>2, <1>3, <1>5 DEF AccountInv

(* A request begins; one that comes with a token has it from the mailbox. *)
LEMMA BeginFacts ==
  ASSUME AccountTyped, NEW r \in Requests, NEW t \in TokenIds,
         NEW o \in {"register", "forgot", "verify", "reset", "login"},
         NEW s \in {"find", "token", "locked"}, Begin(r, o, s, t)
  PROVE  /\ Moved(r) /\ req[r] = Idle
         /\ req'[r].op = o /\ req'[r].step = s /\ req'[r].token = t
         /\ req'[r].row = NoUser /\ req'[r].key = 1
         /\ req'[r].locked = FALSE /\ req'[r].raced = FALSE
         /\ req'[r].late => o \in {"verify", "reset"} /\ t \in spent
         /\ UNCHANGED <<identity, sessions, lockout, failures, history>>
<1>1. PICK late : late = (o \in {"verify", "reset"} /\ t \in spent)  OBVIOUS
<1>2. late \in BOOLEAN /\ (late => o \in {"verify", "reset"} /\ t \in spent)
  BY <1>1
<1>3. req' = [req EXCEPT ![r] = [Idle EXCEPT !.op = o, !.step = s, !.token = t, !.late = late]]
  BY <1>1 DEF Begin
<1>4. PICK x : x = [Idle EXCEPT !.op = o, !.step = s, !.token = t, !.late = late]
  OBVIOUS
<1>5. /\ x.op = o /\ x.step = s /\ x.token = t /\ x.row = NoUser /\ x.key = 1
      /\ x.locked = FALSE /\ x.raced = FALSE /\ x.late = late
  BY <1>4 DEF Idle
<1>6. x \in InProgress
  <2>1. x = [op |-> o, step |-> s, token |-> t, row |-> NoUser,
             key |-> 1, locked |-> FALSE, late |-> late, raced |-> FALSE]
    BY <1>4 DEF Idle
  <2> QED  BY <1>2, <2>1 DEF InProgress, Rows
<1>7. Moved(r) /\ req'[r] = x  BY <1>3, <1>4, <1>6 DEF AccountTyped, Moved
<1> QED  BY <1>2, <1>5, <1>7 DEF Begin

LEMMA BeginKeeps ==
  ASSUME AccountInv, NEW r \in Requests, NEW t \in TokenIds,
         NEW o \in {"register", "forgot", "verify", "reset", "login"},
         NEW s \in {"find", "token", "locked"}, Begin(r, o, s, t),
         o \in {"register", "forgot"} => s = "find",
         o \in {"verify", "reset"} => s = "token" /\ t \in mailbox
                                      /\ (o = "verify" <=> t = Verification),
         o = "login" => s = "locked"
  PROVE  AccountInv'
<1>0. AccountTyped  BY DEF AccountInv
<1>1. /\ Moved(r) /\ req[r] = Idle
      /\ req'[r].op = o /\ req'[r].step = s /\ req'[r].token = t
      /\ (req'[r].late => o \in {"verify", "reset"} /\ t \in spent)
      /\ UNCHANGED <<identity, sessions, lockout, failures, history>>
  BY <1>0, BeginFacts, Zenon
<1>2. AccountTyped'  BY <1>1, TypedKept DEF AccountInv, Moved
<1>3. ~Registering(r) /\ ~Registering(r)'
  BY <1>1 DEF Idle, Registering, At
<1>4. RequestInv(r)'
  BY <1>1 DEF RequestInv, Verified, At, identity, history
<1> QED  BY <1>1, <1>2, <1>3, <1>4, QuietKeeps DEF history

(* The lookups with which the handlers begin. *)
LEMMA FindKeeps ==
  ASSUME AccountInv, NEW r \in Requests,
         RegisterFind(r) \/ ForgotFind(r) \/ FindToken(r)
  PROVE  AccountInv'
<1>0. AccountTyped /\ RequestInv(r)  BY DEF AccountInv
<1>1. UNCHANGED <<identity, sessions, lockout, failures, history>>
  BY DEF RegisterFind, ForgotFind, FindToken
<1>2. ~Registering(r)
  BY DEF RegisterFind, ForgotFind, FindToken, Registering, At
<1>3. CASE Return(r)
  <2>1. Moved(r) /\ RequestInv(r)' /\ ~Registering(r)'
    BY <1>0, <1>3, ReturnFacts, IdleFacts
  <2>2. AccountTyped'  BY <1>0, <1>1, <2>1, TypedKept DEF Moved
  <2> QED  BY <1>1, <1>2, <2>1, <2>2, QuietKeeps DEF history
<1>4. CASE RegisterFind(r) /\ Goto(r, "save")
  <2>1. Moved(r) /\ req'[r].op = "register" /\ req'[r].step = "save" /\ req'[r].late = req[r].late
    BY <1>0, <1>4, GotoFacts DEF RegisterFind, At
  <2>2. AccountTyped'  BY <1>0, <1>1, <2>1, TypedKept DEF Moved
  <2>3. RequestInv(r)' /\ ~Registering(r)'
    BY <1>0, <1>4, <2>1 DEF RequestInv, Registering, Verified, At, RegisterFind
  <2> QED  BY <1>1, <1>2, <2>1, <2>2, <2>3, QuietKeeps DEF history
<1>5. CASE ForgotFind(r) /\ ActiveUser /\ Goto(r, "token")
  <2>1. Moved(r) /\ req'[r].op = "forgot" /\ req'[r].step = "token" /\ req'[r].late = req[r].late
    BY <1>0, <1>5, GotoFacts DEF ForgotFind, At
  <2>2. AccountTyped'  BY <1>0, <1>1, <2>1, TypedKept DEF Moved
  <2>3. RequestInv(r)' /\ ~Registering(r)'
    BY <1>0, <1>1, <1>5, <2>1
       DEF RequestInv, Registering, Verified, At, ForgotFind, ActiveUser, identity
  <2> QED  BY <1>1, <1>2, <2>1, <2>2, <2>3, QuietKeeps DEF history
<1>6. CASE FindToken(r) /\ Usable(req[r].token) /\ Goto(r, "user")
  <2>1. /\ Moved(r) /\ req'[r].op = req[r].op /\ req'[r].step = "user"
        /\ req'[r].token = req[r].token /\ req'[r].late = req[r].late
        /\ req[r].op \in {"verify", "reset"}
    BY <1>0, <1>6, GotoFacts DEF FindToken, At
  <2>2. AccountTyped'  BY <1>0, <1>1, <2>1, TypedKept DEF Moved
  <2>3. ~req[r].late
    BY <1>0, <1>6 DEF RequestInv, AccountInv, RowInv, Usable
  <2>4. RequestInv(r)' /\ ~Registering(r)'
    BY <1>0, <1>1, <2>1, <2>3 DEF RequestInv, Registering, Verified, At, identity
  <2> QED  BY <1>1, <1>2, <2>1, <2>2, <2>4, QuietKeeps DEF history
<1> QED  BY <1>3, <1>4, <1>5, <1>6 DEF RegisterFind, ForgotFind, FindToken

(* The row of a mailed token is there, and is active if the token is a reset. *)
LEMMA MailedFacts ==
  ASSUME AccountInv, NEW t \in mailbox
  PROVE  /\ user \in Account /\ user # NoUser /\ t \in TokenIds
         /\ t # Verification => user.status = "active"
<1>1. t \in TokenIds /\ user \in Rows  BY DEF AccountInv, AccountTyped, TypeOK
<1>2. user # NoUser /\ tokens[t] # "none"  BY DEF AccountInv, RowInv
<1>3. t # Verification => t \in Resets  BY <1>1 DEF TokenIds
<1> QED  BY <1>1, <1>2, <1>3 DEF AccountInv, RowInv, ActiveUser, Rows, Account

LEMMA FindUserKeeps ==
  ASSUME AccountInv, NEW r \in Requests, FindUser(r)
  PROVE  AccountInv'
<1>0. AccountTyped /\ RequestInv(r)  BY DEF AccountInv
<1>1. /\ req[r].op \in {"verify", "reset"} /\ req[r].step = "user"
      /\ UNCHANGED <<identity, sessions, lockout, failures, history>>
      /\ req' = [req EXCEPT ![r].step = "save", ![r].row = user]
  BY WritesInOrder DEF FindUser, At
<1>2. req[r].token \in mailbox /\ (req[r].op = "verify" <=> req[r].token = Verification)
  BY <1>0, <1>1 DEF RequestInv
<1>3. user \in Account /\ user # NoUser /\ (req[r].op = "reset" => user.status = "active")
  BY <1>1, <1>2, MailedFacts
<1>4. user \in Rows  BY <1>0 DEF AccountTyped, TypeOK
<1>5. /\ Moved(r) /\ req'[r].op = req[r].op /\ req'[r].step = "save"
      /\ req'[r].token = req[r].token /\ req'[r].late = req[r].late /\ req'[r].row = user
  <2>1. PICK x : x = [req[r] EXCEPT !.step = "save", !.row = user]  OBVIOUS
  <2>2. req[r] \in InProgress  BY <1>0 DEF AccountTyped
  <2>3. /\ x \in InProgress /\ x.op = req[r].op /\ x.step = "save" /\ x.row = user
        /\ x.token = req[r].token /\ x.late = req[r].late
    BY <1>4, <2>1, <2>2 DEF InProgress
  <2>4. req' = [req EXCEPT ![r] = x]  BY <1>1, <2>1
  <2> QED  BY <1>0, <2>3, <2>4 DEF AccountTyped, Moved
<1>6. AccountTyped'  BY <1>0, <1>1, <1>5, TypedKept DEF Moved
<1>7. ~Registering(r) /\ ~Registering(r)'
  BY <1>1, <1>5 DEF Registering, At
<1>8. RequestInv(r)'
  BY <1>0, <1>1, <1>2, <1>3, <1>5 DEF RequestInv, Verified, At, identity
<1> QED  BY <1>1, <1>5, <1>6, <1>7, <1>8, QuietKeeps DEF history

-----------------------------------------------------------------------------
(* The steps of a login, as far as the invariants look at them. *)
LEMMA NextKeyFacts ==
  ASSUME AccountTyped, NEW r \in Requests, NEW s \in {"find", "failed", "create"},
         NEW x, x = NextKey(r, s)
  PROVE  /\ x \in InProgress /\ x.op = req[r].op /\ x.token = req[r].token
         /\ x.row = req[r].row /\ x.locked = req[r].locked /\ x.late = req[r].late
         /\ x.raced = req[r].raced
         /\ IF req[r].key < Len(Keys) THEN x.key = req[r].key + 1 /\ x.step = req[r].step
            ELSE x.key = 1 /\ x.step = s
<1>1. req[r] \in InProgress /\ Len(Keys) \in Nat
  BY AccountAssumption DEF AccountTyped
<1>2. req[r].key \in Nat \ {0}  BY <1>1 DEF InProgress
<1>3. CASE req[r].key < Len(Keys)
  <2>1. x = [req[r] EXCEPT !.key = req[r].key + 1]  BY <1>3 DEF NextKey
  <2> QED  BY <1>1, <1>2, <1>3, <2>1 DEF InProgress
<1>4. CASE ~(req[r].key < Len(Keys))
  <2>1. x = [req[r] EXCEPT !.key = 1, !.step = s]  BY <1>4 DEF NextKey
  <2>2. PICK y : y = [req[r] EXCEPT !.step = s]  OBVIOUS
  <2>3. /\ y \in InProgress /\ y.op = req[r].op /\ y.token = req[r].token
        /\ y.row = req[r].row /\ y.locked = req[r].locked /\ y.late = req[r].late
        /\ y.raced = req[r].raced /\ y.step = s
    BY <1>1, <2>2 DEF InProgress
  <2>4. x = [y EXCEPT !.key = 1]  BY <1>1, <2>1, <2>2 DEF InProgress
  <2>5. /\ x \in InProgress /\ x.op = y.op /\ x.token = y.token
        /\ x.row = y.row /\ x.locked = y.locked /\ x.late = y.late
        /\ x.raced = y.raced /\ x.step = y.step /\ x.key = 1
    BY <2>3, <2>4 DEF InProgress
  <2> QED  BY <1>4, <2>3, <2>5
<1> QED  BY <1>3, <1>4

LEMMA LoginCheckLockFacts ==
  ASSUME AccountTyped, NEW r \in Requests, LoginCheckLock(r)
  PROVE  /\ Moved(r) /\ req[r].op = "login" /\ req[r].step = "locked"
         /\ req'[r].op = "login" /\ req'[r].late = req[r].late
         /\ IF req[r].key < Len(Keys)
            THEN req'[r].key = req[r].key + 1 /\ req'[r].step = "locked"
            ELSE req'[r].key = 1 /\ req'[r].step = "find"
         /\ req[r].locked => req'[r].locked
         /\ \/ /\ failures' = failures
               /\ ~req'[r].locked => ~Locked(Keys[req[r].key])
            \/ failures' = failures + 1 /\ failures < MaxFailures
         /\ UNCHANGED <<identity, sessions, lockout, history>>
<1>1. PICK x : x = NextKey(r, "find")  OBVIOUS
<1>2. PICK k : k = Keys[req[r].key]  OBVIOUS
<1>3. /\ x \in InProgress /\ x.op = req[r].op /\ x.locked = req[r].locked
      /\ x.late = req[r].late
      /\ IF req[r].key < Len(Keys) THEN x.key = req[r].key + 1 /\ x.step = req[r].step
         ELSE x.key = 1 /\ x.step = "find"
  BY <1>1, NextKeyFacts
<1>4. req[r].op = "login" /\ req[r].step = "locked"
      /\ UNCHANGED <<identity, sessions, lockout, history>>
  BY DEF LoginCheckLock, At
<1>5. CASE /\ req' = [req EXCEPT ![r] = [x EXCEPT !.locked = @ \/ Locked(k)]]
           /\ UNCHANGED failures
  <2>1. PICK locked : locked = (x.locked \/ Locked(k))  OBVIOUS
  <2>2. locked \in BOOLEAN /\ (x.locked => locked) /\ (~locked => ~Locked(k))
    BY <2>1
  <2>3. req' = [req EXCEPT ![r] = [x EXCEPT !.locked = locked]]
    BY <1>5, <2>1
  <2>4. PICK y : y = [x EXCEPT !.locked = locked]  OBVIOUS
  <2>5. /\ y \in InProgress /\ y.op = x.op /\ y.step = x.step /\ y.key = x.key
        /\ y.late = x.late /\ y.locked = locked
    BY <1>3, <2>2, <2>4 DEF InProgress
  <2>6. Moved(r) /\ req'[r] = y  BY <2>3, <2>4, <2>5 DEF AccountTyped, Moved
  <2> QED  BY <1>2, <1>3, <1>4, <1>5, <2>2, <2>5, <2>6
<1>6. CASE RedisFails /\ req' = [req EXCEPT ![r] = x]
  <2>1. Moved(r) /\ req'[r] = x  BY <1>3, <1>6 DEF AccountTyped, Moved
  <2> QED  BY <1>3, <1>4, <1>6, <2>1 DEF RedisFails
<1> QED  BY <1>1, <1>2, <1>5, <1>6 DEF LoginCheckLock

LEMMA LoginVerifyFacts ==
  ASSUME AccountTyped, NEW r \in Requests, NEW right \in BOOLEAN, LoginVerify(r, right)
  PROVE  /\ Moved(r) /\ req[r].op = "login" /\ req[r].step = "find"
         /\ \/ req'[r] = Idle /\ UNCHANGED wrong
            \/ /\ ActiveUser /\ UNCHANGED wrong
               /\ req'[r].op = "login" /\ req'[r].step = "reset" /\ req'[r].row = user
               /\ req'[r].key = req[r].key /\ req'[r].late = req[r].late
            \/ /\ ~req[r].locked /\ wrong' = [k \in KeySet |-> wrong[k] + 1]
               /\ req'[r].op = "login" /\ req'[r].step = "failed"
               /\ req'[r].key = req[r].key /\ req'[r].late = req[r].late
         /\ UNCHANGED <<identity, sessions, counter, failures, history>>
<1>1. req[r].op = "login" /\ req[r].step = "find"
      /\ UNCHANGED <<identity, sessions, counter, failures, history>>
  BY DEF LoginVerify, At
<1>2. CASE Return(r) /\ UNCHANGED wrong
  BY <1>1, <1>2, ReturnFacts
<1>3. CASE ActiveUser /\ UNCHANGED wrong
           /\ req' = [req EXCEPT ![r].step = "reset", ![r].row = user]
  <2>1. PICK x : x = [req[r] EXCEPT !.step = "reset", !.row = user]  OBVIOUS
  <2>2. req[r] \in InProgress /\ user \in Rows  BY DEF AccountTyped, TypeOK
  <2>3. /\ x \in InProgress /\ x.op = req[r].op /\ x.step = "reset" /\ x.row = user
        /\ x.key = req[r].key /\ x.late = req[r].late
    BY <2>1, <2>2 DEF InProgress
  <2>4. req' = [req EXCEPT ![r] = x]  BY <1>3, <2>1
  <2>5. Moved(r) /\ req'[r] = x  BY <2>3, <2>4 DEF AccountTyped, Moved
  <2> QED  BY <1>1, <1>3, <2>3, <2>5
<1>4. CASE ~req[r].locked /\ Goto(r, "failed") /\ wrong' = [k \in KeySet |-> wrong[k] + 1]
  BY <1>1, <1>4, GotoFacts
<1> QED  BY <1>2, <1>3, <1>4 DEF LoginVerify

LEMMA LoginFailureFacts ==
  ASSUME AccountTyped, NEW r \in Requests, LoginFailure(r)
  PROVE  /\ Moved(r) /\ req[r].op = "login" /\ req[r].step = "failed"
         /\ IF req[r].key < Len(Keys)
            THEN /\ req'[r].op = "login" /\ req'[r].step = "failed"
                 /\ req'[r].key = req[r].key + 1 /\ req'[r].late = req[r].late
            ELSE req'[r] = Idle
         /\ \/ /\ counter' = [counter EXCEPT ![Keys[req[r].key]] = @ + 1]
               /\ failures' = failures
            \/ failures' = failures + 1 /\ failures < MaxFailures /\ UNCHANGED counter
         /\ UNCHANGED <<identity, sessions, wrong, history>>
<1>1. /\ req[r].op = "login" /\ req[r].step = "failed"
      /\ \/ /\ counter' = [counter EXCEPT ![Keys[req[r].key]] = @ + 1]
            /\ failures' = failures
         \/ failures' = failures + 1 /\ failures < MaxFailures /\ UNCHANGED counter
      /\ UNCHANGED <<identity, sessions, wrong, history>>
      /\ req' = [req EXCEPT ![r] = IF req[r].key < Len(Keys) THEN NextKey(r, "failed") ELSE Idle]
  BY DEF LoginFailure, At, RedisFails
<1>2. CASE req[r].key < Len(Keys)
  <2>1. PICK x : x = NextKey(r, "failed")  OBVIOUS
  <2>2. /\ x \in InProgress /\ x.op = "login" /\ x.late = req[r].late
        /\ x.key = req[r].key + 1 /\ x.step = "failed"
    BY <1>1, <1>2, <2>1, NextKeyFacts
  <2>3. req' = [req EXCEPT ![r] = x]  BY <1>1, <1>2, <2>1
  <2>4. Moved(r) /\ req'[r] = x  BY <2>2, <2>3 DEF AccountTyped, Moved
  <2> QED  BY <1>1, <1>2, <2>2, <2>4
<1>3. CASE ~(req[r].key < Len(Keys))
  <2>1. Return(r)  BY <1>1, <1>3 DEF Return
  <2> QED  BY <1>1, <1>3, <2>1, ReturnFacts
<1> QED  BY <1>2, <1>3

LEMMA LoginResetFacts ==
  ASSUME AccountTyped, NEW r \in Requests, LoginReset(r)
  PROVE  /\ Moved(r) /\ req[r].op = "login" /\ req[r].step = "reset"
         /\ req'[r].op = "login" /\ req'[r].late = req[r].late
         /\ req'[r].row = req[r].row /\ req'[r].raced = req[r].raced
         /\ IF req[r].key < Len(Keys)
            THEN req'[r].key = req[r].key + 1 /\ req'[r].step = "reset"
            ELSE req'[r].key = 1 /\ req'[r].step = "create"
         /\ \/ StartAgain(req[r].key) /\ failures' = failures
            \/ failures' = failures + 1 /\ failures < MaxFailures /\ UNCHANGED lockout
         /\ UNCHANGED <<identity, sessions, history>>
<1>1. PICK x : x = NextKey(r, "create")  OBVIOUS
<1>2. /\ req[r].op = "login" /\ req[r].step = "reset"
      /\ req' = [req EXCEPT ![r] = x]
      /\ \/ StartAgain(req[r].key) /\ failures' = failures
         \/ failures' = failures + 1 /\ failures < MaxFailures /\ UNCHANGED lockout
      /\ UNCHANGED <<identity, sessions, history>>
  BY <1>1 DEF LoginReset, At, RedisFails
<1>3. /\ x \in InProgress /\ x.op = "login" /\ x.late = req[r].late
      /\ x.row = req[r].row /\ x.raced = req[r].raced
      /\ IF req[r].key < Len(Keys) THEN x.key = req[r].key + 1 /\ x.step = "reset"
         ELSE x.key = 1 /\ x.step = "create"
  BY <1>1, <1>2, NextKeyFacts
<1>4. Moved(r) /\ req'[r] = x  BY <1>2, <1>3 DEF AccountTyped, Moved
<1> QED  BY <1>2, <1>3, <1>4

(* What starts a key again leaves numbers. *)
LEMMA StartAgainTyped ==
  ASSUME counter \in [KeySet -> Nat], wrong \in [KeySet -> Nat], NEW i, StartAgain(i)
  PROVE  counter' \in [KeySet -> Nat] /\ wrong' \in [KeySet -> Nat]
<1>1. Cardinality(Uncounted(i)) \in Nat
  <2>1. Uncounted(i) \subseteq Requests  BY DEF Uncounted
  <2> QED  BY <2>1, FS_Subset, FS_CardinalityType, AccountAssumption
<1>2. PICK n \in Nat : n = Cardinality(Uncounted(i))  BY <1>1
<1>3. PICK k : k = Keys[i]  OBVIOUS
<1>4. counter' = [counter EXCEPT ![k] = 0] /\ wrong' = [wrong EXCEPT ![k] = n]
  BY <1>2, <1>3 DEF StartAgain
<1> QED  BY <1>4

(* A key's number is counted up or starts again. *)
LEMMA CountTyped ==
  ASSUME NEW count \in [KeySet -> Nat], NEW k, NEW next,
         \/ next = count
         \/ next = [count EXCEPT ![k] = 0]
         \/ next = [count EXCEPT ![k] = @ + 1]
  PROVE  next \in [KeySet -> Nat]
<1>1. [count EXCEPT ![k] = 0] \in [KeySet -> Nat]  OBVIOUS
<1>2. [count EXCEPT ![k] = @ + 1] = [j \in KeySet |-> IF j = k THEN count[j] + 1 ELSE count[j]]
  OBVIOUS
<1>3. \A j \in KeySet : count[j] \in Nat  OBVIOUS
<1>4. [j \in KeySet |-> IF j = k THEN count[j] + 1 ELSE count[j]] \in [KeySet -> Nat]
  BY <1>3
<1> QED  BY <1>1, <1>2, <1>4

LEMMA LoginCreateFacts ==
  ASSUME AccountInv, NEW r \in Requests, LoginCreate(r)
  PROVE  /\ Moved(r) /\ req'[r] = Idle /\ req[r].op = "login" /\ req[r].step = "create"
         /\ \E x \in Session : /\ x.status = "active" /\ x.password = req[r].row.password
                               /\ x.raced = req[r].raced /\ sessions' = Append(sessions, x)
         /\ UNCHANGED <<identity, lockout, failures, history>>
<1>0. AccountTyped /\ RequestInv(r)  BY DEF AccountInv
<1>1. req[r].op = "login" /\ req[r].step = "create"
  BY DEF LoginCreate, At
<1>2. Moved(r) /\ req'[r] = Idle
  BY <1>0, ReturnFacts DEF LoginCreate
<1>3. req[r].row \in Account /\ req[r].raced \in BOOLEAN
  BY <1>0, <1>1 DEF RequestInv, Verified, At, AccountTyped, TypeOK, Rows, Account, InProgress
<1>4. PICK x : x = [status |-> "active", password |-> req[r].row.password, raced |-> req[r].raced]
  OBVIOUS
<1>5. /\ x \in Session /\ x.status = "active" /\ x.password = req[r].row.password
      /\ x.raced = req[r].raced
  BY <1>3, <1>4 DEF Session, Account
<1>6. sessions' = Append(sessions, x)  BY <1>4 DEF LoginCreate
<1> QED  BY <1>1, <1>2, <1>5, <1>6 DEF LoginCreate

(* The step of a login that is not its last. *)
LEMMA LoginGoesOn ==
  ASSUME AccountInv, NEW r \in Requests, Moved(r), AccountTyped',
         UNCHANGED <<identity, history>>, req[r].op = "login", req'[r].op = "login",
         req[r].step \in {"locked", "find", "failed", "reset"},
         req'[r].step \in {"locked", "find", "failed", "reset", "create"},
         req'[r].late = req[r].late,
         req'[r].step \in {"reset", "create"} => req'[r].row # NoUser
  PROVE  AccountInv'
<1>1. ~Registering(r) /\ ~Registering(r)'  BY DEF Registering, At
<1>2. ~req[r].late  BY DEF AccountInv, RequestInv
<1>3. RequestInv(r)'  BY <1>2 DEF RequestInv, Verified, At
<1> QED  BY <1>1, <1>3, QuietKeeps DEF history

LEMMA LoginKeeps ==
  ASSUME AccountInv, NEW r \in Requests,
         \/ LoginCheckLock(r)
         \/ \E right \in BOOLEAN : LoginVerify(r, right)
         \/ LoginFailure(r)
         \/ LoginReset(r)
         \/ LoginCreate(r)
  PROVE  AccountInv'
<1>0. /\ AccountTyped /\ RequestInv(r)
      /\ counter \in [KeySet -> Nat] /\ wrong \in [KeySet -> Nat]
      /\ sessions \in Seq(Session) /\ stranded \in BOOLEAN
  BY DEF AccountInv, AccountTyped, TypeOK, Session
<1>1. ASSUME Moved(r), UNCHANGED <<identity, sessions, history>>,
             \/ failures' = failures
             \/ failures' = failures + 1 /\ failures < MaxFailures,
             counter' \in [KeySet -> Nat], wrong' \in [KeySet -> Nat]
      PROVE  AccountTyped'
  BY <1>0, <1>1, TypedOutside DEF Moved, history, Session
<1>2. ASSUME Moved(r), AccountTyped', UNCHANGED <<identity, history>>, req'[r] = Idle,
             req[r].op = "login"
      PROVE  AccountInv'
  <2>1. ~Registering(r)  BY <1>2 DEF Registering, At
  <2>2. RequestInv(r)' /\ ~Registering(r)'  BY <1>2, IdleFacts
  <2> QED  BY <1>2, <2>1, <2>2, QuietKeeps DEF history
<1>3. CASE LoginCheckLock(r)
  <2>1. /\ Moved(r) /\ req[r].op = "login" /\ req[r].step = "locked"
        /\ req'[r].op = "login" /\ req'[r].late = req[r].late
        /\ req'[r].step \in {"locked", "find"}
        /\ (\/ failures' = failures
            \/ failures' = failures + 1 /\ failures < MaxFailures)
        /\ UNCHANGED <<identity, sessions, lockout, history>>
    BY <1>0, <1>3, LoginCheckLockFacts
  <2>2. AccountTyped'  BY <1>0, <1>1, <2>1 DEF lockout
  <2> QED  BY <2>1, <2>2, LoginGoesOn
<1>4. CASE \E right \in BOOLEAN : LoginVerify(r, right)
  <2>0. PICK right \in BOOLEAN : LoginVerify(r, right)  BY <1>4
  <2>1. /\ Moved(r) /\ req[r].op = "login" /\ req[r].step = "find"
        /\ (\/ req'[r] = Idle /\ UNCHANGED wrong
            \/ /\ ActiveUser /\ UNCHANGED wrong
               /\ req'[r].op = "login" /\ req'[r].step = "reset" /\ req'[r].row = user
               /\ req'[r].key = req[r].key /\ req'[r].late = req[r].late
            \/ /\ ~req[r].locked /\ wrong' = [k \in KeySet |-> wrong[k] + 1]
               /\ req'[r].op = "login" /\ req'[r].step = "failed"
               /\ req'[r].key = req[r].key /\ req'[r].late = req[r].late)
        /\ UNCHANGED <<identity, sessions, counter, failures, history>>
    BY <1>0, <2>0, LoginVerifyFacts, Zenon
  <2>2. wrong' \in [KeySet -> Nat] /\ counter' \in [KeySet -> Nat] /\ failures' = failures
    BY <1>0, <2>1
  <2>3. AccountTyped'  BY <1>1, <2>1, <2>2
  <2>4. CASE req'[r] = Idle  BY <1>2, <2>1, <2>3, <2>4
  <2>5. CASE ActiveUser /\ req'[r].op = "login" /\ req'[r].step = "reset" /\ req'[r].row = user
             /\ req'[r].late = req[r].late
    BY <2>1, <2>3, <2>5, LoginGoesOn DEF ActiveUser
  <2>6. CASE req'[r].op = "login" /\ req'[r].step = "failed" /\ req'[r].late = req[r].late
    BY <2>1, <2>3, <2>6, LoginGoesOn
  <2> QED  BY <2>1, <2>4, <2>5, <2>6
<1>5. CASE LoginFailure(r)
  <2>1. /\ Moved(r) /\ req[r].op = "login" /\ req[r].step = "failed"
        /\ (\/ /\ req'[r].op = "login" /\ req'[r].step = "failed"
               /\ req'[r].late = req[r].late
            \/ req'[r] = Idle)
        /\ (\/ /\ counter' = [counter EXCEPT ![Keys[req[r].key]] = @ + 1]
               /\ failures' = failures
            \/ failures' = failures + 1 /\ failures < MaxFailures /\ UNCHANGED counter)
        /\ UNCHANGED <<identity, sessions, wrong, history>>
    BY <1>0, <1>5, LoginFailureFacts
  <2>2. wrong' \in [KeySet -> Nat] /\ counter' \in [KeySet -> Nat]
    <3>1. PICK k : k = Keys[req[r].key]  OBVIOUS
    <3>2. counter' = counter \/ counter' = [counter EXCEPT ![k] = @ + 1]
      BY <2>1, <3>1
    <3>3. counter' \in [KeySet -> Nat]  BY <1>0, <3>2, CountTyped, Zenon
    <3> QED  BY <1>0, <2>1, <3>3
  <2>3. AccountTyped'  BY <1>1, <2>1, <2>2
  <2> QED  BY <1>2, <2>1, <2>3, LoginGoesOn
<1>6. CASE LoginReset(r)
  <2>1. /\ Moved(r) /\ req[r].op = "login" /\ req[r].step = "reset"
        /\ req'[r].op = "login" /\ req'[r].late = req[r].late
        /\ req'[r].row = req[r].row /\ req'[r].step \in {"reset", "create"}
        /\ (\/ StartAgain(req[r].key) /\ failures' = failures
            \/ failures' = failures + 1 /\ failures < MaxFailures /\ UNCHANGED lockout)
        /\ UNCHANGED <<identity, sessions, history>>
    BY <1>0, <1>6, LoginResetFacts
  <2>2. wrong' \in [KeySet -> Nat] /\ counter' \in [KeySet -> Nat]
    <3>1. CASE StartAgain(req[r].key)  BY <1>0, <3>1, StartAgainTyped
    <3>2. CASE UNCHANGED lockout  BY <1>0, <3>2 DEF lockout
    <3> QED  BY <2>1, <3>1, <3>2
  <2>3. AccountTyped'  BY <1>1, <2>1, <2>2
  <2>4. req[r].row # NoUser  BY <1>0, <2>1 DEF RequestInv, Verified, At
  <2> QED  BY <2>1, <2>3, <2>4, LoginGoesOn
<1>7. CASE LoginCreate(r)
  <2>1. /\ Moved(r) /\ req'[r] = Idle /\ req[r].op = "login"
        /\ (\E x \in Session : sessions' = Append(sessions, x))
        /\ UNCHANGED <<identity, lockout, failures, history>>
    BY <1>7, LoginCreateFacts
  <2>2. sessions' \in Seq(Session)  BY <1>0, <2>1
  <2>3. AccountTyped'
    BY <1>0, <2>1, <2>2, TypedOutside DEF Moved, history, lockout, Session
  <2> QED  BY <1>2, <2>1, <2>3
<1> QED  BY <1>3, <1>4, <1>5, <1>6, <1>7

-----------------------------------------------------------------------------
(* What ends a request, a window or all sessions. *)
LEMMA RevokeAllFacts ==
  ASSUME AccountTyped, RevokeAll
  PROVE  /\ sessions' \in Seq(Session) /\ DOMAIN sessions' = DOMAIN sessions
         /\ \A i \in DOMAIN sessions : sessions'[i].status = "revoked"
<1>1. sessions \in Seq(Session)  BY DEF AccountTyped, TypeOK, Session
<1>2. \A i \in DOMAIN sessions : [sessions[i] EXCEPT !.status = "revoked"] \in Session
  <2>1. ASSUME NEW x \in Session PROVE [x EXCEPT !.status = "revoked"] \in Session
    BY DEF Session
  <2> QED  BY <1>1, <2>1
<1>3. sessions' = [i \in DOMAIN sessions |-> [sessions[i] EXCEPT !.status = "revoked"]]
  BY DEF RevokeAll
<1>4. DOMAIN sessions = 1 .. Len(sessions) /\ Len(sessions) \in Nat  BY <1>1
<1>5. sessions' \in [1 .. Len(sessions) -> Session]  BY <1>2, <1>3, <1>4
<1>6. sessions' \in Seq(Session)  BY <1>4, <1>5
<1>7. \A i \in DOMAIN sessions : sessions[i] \in Session  BY <1>1
<1>8. \A i \in DOMAIN sessions : sessions'[i].status = "revoked"
  BY <1>3, <1>7 DEF Session
<1> QED  BY <1>3, <1>6, <1>8

LEMMA DieKeeps ==
  ASSUME AccountInv, NEW r \in Requests, Die(r)
  PROVE  AccountInv'
<1>0. /\ AccountTyped /\ stranded \in BOOLEAN
      /\ counter \in [KeySet -> Nat] /\ wrong \in [KeySet -> Nat]
      /\ sessions \in Seq(Session)
  BY DEF AccountInv, AccountTyped, TypeOK, Session
<1>1. Moved(r) /\ req'[r] = Idle /\ RequestInv(r)' /\ ~Registering(r)'
  BY <1>0, ReturnFacts, IdleFacts DEF Die
<1>2. stranded' = (stranded \/ Registering(r))  BY DEF Die, Registering
<1>3. stranded' \in BOOLEAN /\ (stranded => stranded') /\ (~Registering(r) \/ stranded')
  BY <1>2
<1>4. AccountTyped'
  BY <1>0, <1>1, <1>3, TypedOutside DEF Die, Moved, lockout, Session
<1> QED  BY <1>1, <1>3, <1>4, QuietKeeps DEF Die

LEMMA StillKeeps ==
  ASSUME AccountInv, AccountTyped', UNCHANGED <<identity, req, history>>
  PROVE  AccountInv'
<1>1. Monotone
  <2>1. outbox.changed \in Nat  BY DEF AccountInv, AccountTyped, TypeOK
  <2> QED  BY <2>1 DEF Monotone, ActiveUser, identity, history
<1>2. \A q \in Requests : RequestInv(q)'
  BY <1>1, OthersKeep DEF AccountInv
<1>3. RowInv'  BY DEF AccountInv, RowInv, ActiveUser, identity, history
<1>4. RegistrationInv'  BY DEF AccountInv, RegistrationInv, Registering, At, identity, history
<1> QED  BY <1>2, <1>3, <1>4 DEF AccountInv

LEMMA WindowEndsKeeps ==
  ASSUME AccountInv, (\E i \in DOMAIN Keys : WindowEnds(i)) \/ LogoutAll
  PROVE  AccountInv'
<1>0. /\ AccountTyped /\ counter \in [KeySet -> Nat] /\ wrong \in [KeySet -> Nat]
      /\ sessions \in Seq(Session) /\ req \in [Requests -> InProgress]
      /\ stranded \in BOOLEAN
  BY DEF AccountInv, AccountTyped, TypeOK, Session
<1>1. UNCHANGED <<identity, req, failures, history>>
  BY DEF WindowEnds, LogoutAll
<1>2. /\ counter' \in [KeySet -> Nat] /\ wrong' \in [KeySet -> Nat]
      /\ sessions' \in Seq(Session)
  <2>1. CASE \E i \in DOMAIN Keys : WindowEnds(i)
    <3>1. PICK i : StartAgain(i) /\ UNCHANGED sessions
      BY <2>1 DEF WindowEnds
    <3> QED  BY <1>0, <3>1, StartAgainTyped
  <2>2. CASE LogoutAll
    BY <1>0, <2>2, RevokeAllFacts DEF LogoutAll, lockout
  <2> QED  BY <2>1, <2>2
<1>3. AccountTyped'
  BY <1>0, <1>1, <1>2, TypedOutside DEF history, Session
<1> QED  BY <1>1, <1>3, StillKeeps

-----------------------------------------------------------------------------
(* The steps that write rows and tokens. *)
LEMMA TypedInside ==
  ASSUME AccountTyped, req' \in [Requests -> InProgress],
         UNCHANGED <<sessions, lockout, failures>>, user' \in Rows,
         outbox' \in [{"registered", "verified", "changed"} -> Nat],
         tokens' \in [TokenIds -> TokenStatus], mailbox' \subseteq TokenIds,
         spent' \subseteq TokenIds, settled' \in Nat,
         clobbered' \in BOOLEAN, stranded' \in BOOLEAN
  PROVE  AccountTyped'
BY DEF AccountTyped, TypeOK, lockout, InProgress

LEMMA WriteKeeps ==
  ASSUME AccountInv, NEW r \in Requests, Moved(r), AccountTyped', Monotone,
         RowInv', RegistrationInv', RequestInv(r)'
  PROVE  AccountInv'
BY OthersKeep DEF AccountInv, Moved

LEMMA SaveFacts ==
  ASSUME AccountTyped, NEW row \in Account,
         NEW events \in SUBSET {"registered", "verified", "changed"}, Save(row, events)
  PROVE  /\ user' = row /\ user' \in Account /\ user' \in Rows /\ user' # NoUser
         /\ outbox' \in [{"registered", "verified", "changed"} -> Nat]
         /\ outbox.changed \in Nat
         /\ outbox'.changed = outbox.changed + IF "changed" \in events THEN 1 ELSE 0
<1>1. outbox \in [{"registered", "verified", "changed"} -> Nat]
  BY DEF AccountTyped, TypeOK
<1>2. user' = row /\ user' \in Account /\ user' \in Rows /\ user' # NoUser
  BY AccountAssumption DEF Save, Rows, Account
<1>3. \A e \in {"registered", "verified", "changed"} :
        outbox'[e] = outbox[e] + IF e \in events THEN 1 ELSE 0
  BY <1>1 DEF Save
<1>4. \A e \in {"registered", "verified", "changed"} : outbox'[e] \in Nat
  BY <1>1, <1>3
<1>5. outbox' = [e \in {"registered", "verified", "changed"} |-> outbox'[e]]
  BY <1>1 DEF Save
<1>6. outbox' \in [{"registered", "verified", "changed"} -> Nat]
  BY <1>4, <1>5
<1> QED  BY <1>1, <1>2, <1>3, <1>6

(* One token gets a new status. *)
LEMMA TokenFacts ==
  ASSUME AccountTyped, NEW t \in TokenIds, NEW s \in TokenStatus,
         tokens' = [tokens EXCEPT ![t] = s]
  PROVE  /\ tokens' \in [TokenIds -> TokenStatus] /\ tokens'[t] = s
         /\ \A u \in TokenIds : u # t => tokens'[u] = tokens[u]
BY DEF AccountTyped, TypeOK

LEMMA RegisterSaveKeeps ==
  ASSUME AccountInv, NEW r \in Requests, RegisterSave(r)
  PROVE  AccountInv'
<1>0. /\ AccountTyped /\ RequestInv(r) /\ RowInv /\ RegistrationInv
      /\ req[r].op = "register" /\ req[r].step = "save" /\ ~Registering(r)
      /\ UNCHANGED <<tokens, mailbox, sessions, lockout, failures, history>>
  BY DEF AccountInv, RegisterSave, At, Registering
<1>1. CASE Return(r) /\ UNCHANGED <<user, outbox>>
  <2>1. Moved(r) /\ RequestInv(r)' /\ ~Registering(r)'
    BY <1>0, <1>1, ReturnFacts, IdleFacts
  <2>2. AccountTyped'  BY <1>0, <1>1, <2>1, TypedKept DEF Moved, identity
  <2> QED  BY <1>0, <1>1, <2>1, <2>2, QuietKeeps DEF history, identity
<1>2. CASE /\ user = NoUser /\ Goto(r, "token")
           /\ Save([password |-> 0, status |-> "pending"], {"registered"})
  <2>1. PICK row : row = [password |-> 0, status |-> "pending"]  OBVIOUS
  <2>2. row \in Account /\ row.password = 0  BY <2>1 DEF Account
  <2>3. Save(row, {"registered"})  BY <1>2, <2>1
  <2>4. /\ user' = row /\ user' \in Rows /\ user' # NoUser
        /\ outbox' \in [{"registered", "verified", "changed"} -> Nat]
        /\ outbox.changed \in Nat /\ outbox'.changed = outbox.changed
    BY <1>0, <2>2, <2>3, SaveFacts
  <2>5. Moved(r) /\ req'[r].op = "register" /\ req'[r].step = "token" /\ req'[r].late = req[r].late
    BY <1>0, <1>2, GotoFacts
  <2>6. AccountTyped'
    BY <1>0, <2>4, <2>5, TypedInside DEF Moved, AccountTyped, TypeOK, history
  <2>7. Monotone
    BY <1>0, <1>2, <2>4 DEF Monotone, ActiveUser, history
  <2>8. outbox.changed = 0 /\ tokens[Verification] = "none" /\ mailbox = {}
        /\ spent = {} /\ settled \in Nat /\ settled <= outbox.changed
        /\ \A t \in Resets : tokens[t] = "none"
    BY <1>0, <1>2 DEF RowInv, ActiveUser, AccountTyped, TypeOK
  <2>9. RowInv'
    BY <1>0, <2>2, <2>4, <2>8 DEF RowInv, history
  <2>10. \A q \in Requests : Registering(q)' <=> q = r
    BY <1>0, <1>2, <2>5 DEF Moved, Registering, At, RegistrationInv
  <2>11. At(r, "register", "token")'  BY <2>5 DEF At
  <2>12. RegistrationInv'
    BY <1>0, <2>4, <2>8, <2>10, <2>11 DEF RegistrationInv
  <2>13. RequestInv(r)'
    BY <1>0, <2>5 DEF RequestInv, Verified, At
  <2> QED  BY <2>5, <2>6, <2>7, <2>9, <2>12, <2>13, WriteKeeps
<1> QED  BY <1>1, <1>2 DEF RegisterSave

LEMMA RegisterTokenKeeps ==
  ASSUME AccountInv, NEW r \in Requests, RegisterToken(r)
  PROVE  AccountInv'
<1>0. /\ AccountTyped /\ RequestInv(r) /\ RowInv /\ RegistrationInv
      /\ At(r, "register", "token") /\ req[r].op = "register" /\ req[r].step = "token"
      /\ Registering(r) /\ Verification \in TokenIds
      /\ UNCHANGED <<user, outbox, mailbox, sessions, lockout, failures, history>>
      /\ tokens' = [tokens EXCEPT ![Verification] = "live"] /\ Goto(r, "mail")
  BY DEF AccountInv, RegisterToken, At, Registering, TokenIds
<1>1. Moved(r) /\ req'[r].op = "register" /\ req'[r].step = "mail" /\ req'[r].late = req[r].late
  BY <1>0, GotoFacts
<1>2. /\ tokens' \in [TokenIds -> TokenStatus] /\ tokens'[Verification] = "live"
      /\ \A u \in TokenIds : u # Verification => tokens'[u] = tokens[u]
  BY <1>0, TokenFacts DEF TokenStatus
<1>3. AccountTyped'
  BY <1>0, <1>1, <1>2, TypedInside DEF Moved, AccountTyped, TypeOK, history
<1>4. /\ user # NoUser /\ Verification \notin mailbox /\ tokens[Verification] = "none"
      /\ \A q \in Requests : Registering(q) => q = r
  BY <1>0 DEF RegistrationInv
<1>5. outbox.changed \in Nat /\ mailbox \subseteq TokenIds /\ Resets \subseteq TokenIds
      /\ Verification \notin Resets
  BY <1>0 DEF AccountTyped, TypeOK, TokenIds, Resets, Verification
<1>6. Monotone
  BY <1>0, <1>2, <1>4, <1>5 DEF Monotone, ActiveUser, history
<1>7. RowInv'
  BY <1>0, <1>2, <1>4, <1>5 DEF RowInv, ActiveUser, history
<1>8. \A q \in Requests : Registering(q)' <=> q = r
  BY <1>1, <1>4 DEF Moved, Registering, At
<1>9. ~At(r, "register", "token")'  BY <1>1 DEF At
<1>10. RegistrationInv'
  BY <1>0, <1>2, <1>4, <1>8, <1>9 DEF RegistrationInv
<1>11. RequestInv(r)'
  BY <1>0, <1>1 DEF RequestInv, Verified, At
<1> QED  BY <1>1, <1>3, <1>6, <1>7, <1>10, <1>11, WriteKeeps

LEMMA RegisterMailKeeps ==
  ASSUME AccountInv, NEW r \in Requests, RegisterMail(r)
  PROVE  AccountInv'
<1>0. /\ AccountTyped /\ RowInv /\ RegistrationInv
      /\ ~At(r, "register", "token") /\ Registering(r) /\ Verification \in TokenIds
      /\ UNCHANGED <<user, outbox, tokens, sessions, lockout, failures, history>>
      /\ mailbox' = mailbox \cup {Verification} /\ Return(r)
  BY DEF AccountInv, RegisterMail, At, Registering, TokenIds
<1>1. Moved(r) /\ RequestInv(r)' /\ ~Registering(r)'
  BY <1>0, ReturnFacts, IdleFacts
<1>2. AccountTyped'
  BY <1>0, <1>1, TypedInside DEF Moved, AccountTyped, TypeOK, history
<1>3. /\ user # NoUser /\ tokens[Verification] # "none"
      /\ \A q \in Requests : Registering(q) => q = r
  BY <1>0 DEF RegistrationInv
<1>4. outbox.changed \in Nat  BY <1>0 DEF AccountTyped, TypeOK
<1>5. Monotone  BY <1>0, <1>4 DEF Monotone, ActiveUser, history
<1>6. RowInv'  BY <1>0, <1>3 DEF RowInv, ActiveUser, history
<1>7. \A q \in Requests : ~Registering(q)'
  BY <1>1, <1>3 DEF Moved, Registering, At
<1>8. RegistrationInv'  BY <1>0, <1>3, <1>7 DEF RegistrationInv
<1> QED  BY <1>1, <1>2, <1>5, <1>6, <1>8, WriteKeeps

(* A request that is no registration leaves the one in progress as it is. *)
LEMMA RegistrationKept ==
  ASSUME RegistrationInv, NEW r \in Requests, Moved(r), ~Registering(r), ~Registering(r)',
         user # NoUser, user' # NoUser, UNCHANGED stranded, mailbox \subseteq mailbox',
         \/ Verification \in mailbox
         \/ tokens'[Verification] = tokens[Verification] /\ Verification \notin mailbox'
  PROVE  RegistrationInv'
<1>1. \A q \in Requests : /\ Registering(q)' <=> Registering(q)
                          /\ q # r => (At(q, "register", "token")' <=> At(q, "register", "token"))
  BY DEF Moved, Registering, At
<1>2. CASE Verification \in mailbox
  BY <1>1, <1>2 DEF RegistrationInv
<1>3. CASE tokens'[Verification] = tokens[Verification] /\ Verification \notin mailbox'
  BY <1>1, <1>3 DEF RegistrationInv
<1> QED  BY <1>2, <1>3

LEMMA ForgotTokenKeeps ==
  ASSUME AccountInv, NEW r \in Requests, ForgotToken(r)
  PROVE  AccountInv'
<1>0. /\ AccountTyped /\ RequestInv(r) /\ RowInv /\ RegistrationInv
      /\ req[r].op = "forgot" /\ req[r].step = "token" /\ ~Registering(r)
      /\ UNCHANGED <<user, outbox, mailbox, sessions, lockout, failures, history>>
  BY DEF AccountInv, ForgotToken, At, Registering
<1>1. PICK t \in Resets : /\ \A u \in Resets : tokens[u] = "none" <=> u >= t
                          /\ tokens' = [tokens EXCEPT ![t] = "live"]
                          /\ req' = [req EXCEPT ![r].step = "mail", ![r].token = t]
  BY DEF ForgotToken
<1>2. t \in TokenIds /\ t # Verification /\ tokens[t] = "none"
  BY <1>1 DEF Resets, TokenIds, Verification
<1>3. Moved(r) /\ req'[r].op = "forgot" /\ req'[r].step = "mail" /\ req'[r].token = t
      /\ req'[r].late = req[r].late
  <2>1. PICK x : x = [req[r] EXCEPT !.step = "mail", !.token = t]  OBVIOUS
  <2>2. req[r] \in InProgress  BY <1>0 DEF AccountTyped
  <2>3. /\ x \in InProgress /\ x.op = req[r].op /\ x.step = "mail" /\ x.token = t
        /\ x.late = req[r].late
    BY <1>2, <2>1, <2>2 DEF InProgress
  <2>4. req' = [req EXCEPT ![r] = x]  BY <1>1, <2>1
  <2> QED  BY <1>0, <2>3, <2>4 DEF AccountTyped, Moved
<1>4. /\ tokens' \in [TokenIds -> TokenStatus] /\ tokens'[t] = "live"
      /\ \A u \in TokenIds : u # t => tokens'[u] = tokens[u]
  BY <1>0, <1>1, <1>2, TokenFacts DEF TokenStatus
<1>5. AccountTyped'
  BY <1>0, <1>3, <1>4, TypedInside DEF Moved, AccountTyped, TypeOK, history
<1>6. ActiveUser /\ user # NoUser  BY <1>0 DEF RequestInv, ActiveUser
<1>7. outbox.changed \in Nat /\ mailbox \subseteq TokenIds /\ Verification \in TokenIds
  BY <1>0 DEF AccountTyped, TypeOK, TokenIds
<1>8. Monotone  BY <1>0, <1>2, <1>4, <1>7 DEF Monotone, ActiveUser, history
<1>9. RowInv'
  BY <1>0, <1>2, <1>4, <1>6, <1>7 DEF RowInv, ActiveUser, history
<1>10. ~Registering(r)'  BY <1>3 DEF Registering, At
<1>11. tokens'[Verification] = tokens[Verification]  BY <1>2, <1>4, <1>7
<1>12. RegistrationInv'
  BY <1>0, <1>3, <1>6, <1>10, <1>11, RegistrationKept DEF history
<1>13. RequestInv(r)'
  BY <1>0, <1>1, <1>3, <1>4, <1>6 DEF RequestInv, Verified, At, ActiveUser
<1> QED  BY <1>3, <1>5, <1>8, <1>9, <1>12, <1>13, WriteKeeps

LEMMA ForgotMailKeeps ==
  ASSUME AccountInv, NEW r \in Requests, ForgotMail(r)
  PROVE  AccountInv'
<1>0. /\ AccountTyped /\ RequestInv(r) /\ RowInv /\ RegistrationInv
      /\ req[r].op = "forgot" /\ req[r].step = "mail" /\ ~Registering(r)
      /\ UNCHANGED <<user, outbox, tokens, sessions, lockout, failures, history>>
      /\ mailbox' = mailbox \cup {req[r].token} /\ Return(r)
  BY DEF AccountInv, ForgotMail, At, Registering
<1>1. Moved(r) /\ RequestInv(r)' /\ ~Registering(r)'
  BY <1>0, ReturnFacts, IdleFacts
<1>2. /\ ActiveUser /\ user # NoUser /\ tokens[req[r].token] # "none"
      /\ req[r].token \in TokenIds /\ req[r].token # Verification
  BY <1>0 DEF RequestInv, ActiveUser, Resets, TokenIds, Verification
<1>3. AccountTyped'
  BY <1>0, <1>1, <1>2, TypedInside DEF Moved, AccountTyped, TypeOK, history
<1>4. outbox.changed \in Nat  BY <1>0 DEF AccountTyped, TypeOK
<1>5. Monotone  BY <1>0, <1>4 DEF Monotone, ActiveUser, history
<1>6. RowInv'  BY <1>0, <1>2 DEF RowInv, ActiveUser, history
<1>7. RegistrationInv'
  BY <1>0, <1>1, <1>2, RegistrationKept DEF history
<1> QED  BY <1>1, <1>3, <1>5, <1>6, <1>7, WriteKeeps

LEMMA VerifySaveFacts ==
  ASSUME AccountInv, NEW r \in Requests, VerifySave(r)
  PROVE  /\ Moved(r) /\ req[r].op = "verify" /\ req[r].step = "save"
         /\ req'[r].op = "verify" /\ req'[r].step = "consume"
         /\ req'[r].token = req[r].token /\ req'[r].row = req[r].row
         /\ req'[r].late = req[r].late
         /\ user' \in Account /\ user' \in Rows /\ user' # NoUser
         /\ user'.status = "active" /\ user'.password = req[r].row.password
         /\ req[r].row # NoUser /\ req[r].row \in Account
         /\ outbox' \in [{"registered", "verified", "changed"} -> Nat]
         /\ outbox.changed \in Nat /\ outbox'.changed = outbox.changed
         /\ clobbered' \in BOOLEAN /\ (clobbered => clobbered')
         /\ user.password = req[r].row.password \/ clobbered'
         /\ UNCHANGED <<tokens, mailbox, sessions, lockout, failures, spent, settled, stranded>>
<1>0. /\ AccountTyped /\ RequestInv(r) /\ clobbered \in BOOLEAN
      /\ req[r].op = "verify" /\ req[r].step = "save" /\ Goto(r, "consume")
      /\ UNCHANGED <<tokens, mailbox, sessions, lockout, failures, spent, settled, stranded>>
  BY WritesInOrder DEF AccountInv, VerifySave, At, AccountTyped, TypeOK
<1>1. req[r].row # NoUser /\ req[r].row \in Rows
  BY <1>0 DEF RequestInv, AccountTyped, TypeOK
<1>2. req[r].row \in Account  BY <1>1 DEF Rows, Account
<1>3. PICK row : row = [req[r].row EXCEPT !.status = "active"]  OBVIOUS
<1>4. row \in Account /\ row.status = "active" /\ row.password = req[r].row.password
  BY <1>2, <1>3 DEF Account
<1>5. PICK events : events = IF req[r].row.status = "active" THEN {} ELSE {"verified"}
  OBVIOUS
<1>6. events \in SUBSET {"registered", "verified", "changed"} /\ "changed" \notin events
  BY <1>5
<1>7. Save(row, events)  BY <1>3, <1>5 DEF VerifySave
<1>8. /\ user' = row /\ user' \in Account /\ user' \in Rows /\ user' # NoUser
      /\ outbox' \in [{"registered", "verified", "changed"} -> Nat]
      /\ outbox.changed \in Nat /\ outbox'.changed = outbox.changed
  BY <1>0, <1>4, <1>6, <1>7, SaveFacts
<1>9. clobbered' = (clobbered \/ user.password # req[r].row.password)
  BY DEF VerifySave
<1>10. /\ clobbered' \in BOOLEAN /\ (clobbered => clobbered')
       /\ user.password = req[r].row.password \/ clobbered'
  BY <1>0, <1>9
<1>11. /\ Moved(r) /\ req'[r].op = "verify" /\ req'[r].step = "consume"
       /\ req'[r].token = req[r].token /\ req'[r].row = req[r].row
       /\ req'[r].late = req[r].late
  BY <1>0, GotoFacts
<1> QED  BY <1>0, <1>1, <1>2, <1>4, <1>8, <1>10, <1>11

LEMMA VerifySaveKeeps ==
  ASSUME AccountInv, NEW r \in Requests, VerifySave(r)
  PROVE  AccountInv'
<1>0. AccountTyped /\ RequestInv(r) /\ RowInv /\ RegistrationInv
  BY DEF AccountInv
<1>1. /\ Moved(r) /\ req[r].op = "verify" /\ req[r].step = "save"
      /\ req'[r].op = "verify" /\ req'[r].step = "consume"
      /\ req'[r].token = req[r].token /\ req'[r].row = req[r].row
      /\ req'[r].late = req[r].late
      /\ user' \in Account /\ user' \in Rows /\ user' # NoUser
      /\ user'.status = "active" /\ user'.password = req[r].row.password
      /\ req[r].row # NoUser
      /\ outbox' \in [{"registered", "verified", "changed"} -> Nat]
      /\ outbox.changed \in Nat /\ outbox'.changed = outbox.changed
      /\ clobbered' \in BOOLEAN /\ (clobbered => clobbered')
      /\ (user.password = req[r].row.password \/ clobbered')
      /\ UNCHANGED <<tokens, mailbox, sessions, lockout, failures, spent, settled, stranded>>
  BY VerifySaveFacts
<1>2. req[r].token = Verification /\ Verification \in mailbox /\ user # NoUser
  BY <1>0, <1>1 DEF RequestInv, RowInv
<1>3. AccountTyped'
  BY <1>0, <1>1, TypedInside DEF Moved, AccountTyped, TypeOK
<1>4. ActiveUser'  BY <1>1 DEF ActiveUser
<1>5. Monotone  BY <1>1, <1>4 DEF Monotone
<1>6. RowInv'  BY <1>0, <1>1, <1>2, <1>4 DEF RowInv
<1>7. ~Registering(r) /\ ~Registering(r)'  BY <1>1 DEF Registering, At
<1>8. RegistrationInv'
  BY <1>0, <1>1, <1>2, <1>7, RegistrationKept
<1>9. RequestInv(r)'
  BY <1>0, <1>1, <1>2, <1>4 DEF RequestInv, Verified, At
<1> QED  BY <1>1, <1>3, <1>5, <1>6, <1>8, <1>9, WriteKeeps

LEMMA ResetSaveFacts ==
  ASSUME AccountInv, NEW r \in Requests, ResetSave(r)
  PROVE  /\ Moved(r) /\ req[r].op = "reset" /\ req[r].step = "save"
         /\ req'[r].op = "reset" /\ req'[r].step = "consume"
         /\ req'[r].token = req[r].token /\ req'[r].row = user'
         /\ req'[r].late = req[r].late
         /\ user' \in Account /\ user' \in Rows /\ user' # NoUser
         /\ user'.status = "active" /\ user'.password = outbox'.changed
         /\ outbox' \in [{"registered", "verified", "changed"} -> Nat]
         /\ outbox.changed \in Nat /\ outbox'.changed = outbox.changed + 1
         /\ UNCHANGED <<tokens, mailbox, sessions, lockout, failures, history>>
<1>0. /\ AccountTyped /\ RequestInv(r) /\ outbox.changed \in Nat
      /\ req[r].op = "reset" /\ req[r].step = "save"
      /\ UNCHANGED <<tokens, mailbox, sessions, lockout, failures, history>>
  BY DEF AccountInv, ResetSave, At, AccountTyped, TypeOK
<1>1. req[r].row # NoUser /\ req[r].row \in Rows /\ req[r].row.status = "active"
  BY <1>0 DEF RequestInv, AccountTyped, TypeOK
<1>2. req[r].row \in Account  BY <1>1 DEF Rows, Account
<1>3. PICK row : row = [req[r].row EXCEPT !.password = outbox.changed + 1]  OBVIOUS
<1>4. row \in Account /\ row.status = "active" /\ row.password = outbox.changed + 1
  BY <1>0, <1>1, <1>2, <1>3 DEF Account
<1>5. Save(row, {"changed"}) /\ req' = [req EXCEPT ![r].step = "consume", ![r].row = row]
  BY <1>3, WritesInOrder DEF ResetSave
<1>6. /\ user' = row /\ user' \in Account /\ user' \in Rows /\ user' # NoUser
      /\ outbox' \in [{"registered", "verified", "changed"} -> Nat]
      /\ outbox'.changed = outbox.changed + 1
  BY <1>0, <1>4, <1>5, SaveFacts
<1>7. /\ Moved(r) /\ req'[r].op = "reset" /\ req'[r].step = "consume"
      /\ req'[r].token = req[r].token /\ req'[r].row = row /\ req'[r].late = req[r].late
  <2>1. PICK x : x = [req[r] EXCEPT !.step = "consume", !.row = row]  OBVIOUS
  <2>2. req[r] \in InProgress /\ row \in Rows  BY <1>0, <1>6 DEF AccountTyped
  <2>3. /\ x \in InProgress /\ x.op = req[r].op /\ x.step = "consume" /\ x.row = row
        /\ x.token = req[r].token /\ x.late = req[r].late
    BY <2>1, <2>2 DEF InProgress
  <2>4. req' = [req EXCEPT ![r] = x]  BY <1>5, <2>1
  <2> QED  BY <1>0, <2>3, <2>4 DEF AccountTyped, Moved
<1> QED  BY <1>0, <1>4, <1>6, <1>7

LEMMA ResetSaveKeeps ==
  ASSUME AccountInv, NEW r \in Requests, ResetSave(r)
  PROVE  AccountInv'
<1>0. AccountTyped /\ RequestInv(r) /\ RowInv /\ RegistrationInv
  BY DEF AccountInv
<1>1. /\ Moved(r) /\ req[r].op = "reset" /\ req[r].step = "save"
      /\ req'[r].op = "reset" /\ req'[r].step = "consume"
      /\ req'[r].token = req[r].token /\ req'[r].row = user'
      /\ req'[r].late = req[r].late
      /\ user' \in Account /\ user' \in Rows /\ user' # NoUser
      /\ user'.status = "active" /\ user'.password = outbox'.changed
      /\ outbox' \in [{"registered", "verified", "changed"} -> Nat]
      /\ outbox.changed \in Nat /\ outbox'.changed = outbox.changed + 1
      /\ UNCHANGED <<tokens, mailbox, sessions, lockout, failures, history>>
  BY ResetSaveFacts
<1>2. /\ req[r].token \in mailbox \ {Verification} /\ user # NoUser
  BY <1>0, <1>1 DEF RequestInv, RowInv
<1>3. AccountTyped'
  BY <1>0, <1>1, TypedInside DEF Moved, AccountTyped, TypeOK, history
<1>4. ActiveUser'  BY <1>1 DEF ActiveUser
<1>5. Monotone  BY <1>1, <1>4 DEF Monotone, history
<1>6. settled \in Nat  BY <1>0 DEF AccountTyped, TypeOK
<1>7. RowInv'  BY <1>0, <1>1, <1>4, <1>6 DEF RowInv, history
<1>8. ~Registering(r) /\ ~Registering(r)'  BY <1>1 DEF Registering, At
<1>9. RegistrationInv'
  <2>1. CASE Verification \in mailbox
    BY <1>0, <1>1, <1>2, <1>8, <2>1, RegistrationKept DEF history
  <2>2. CASE Verification \notin mailbox
    BY <1>0, <1>1, <1>2, <1>8, <2>2, RegistrationKept DEF history
  <2> QED  BY <2>1, <2>2
<1>10. RequestInv(r)'
  BY <1>0, <1>1, <1>2, <1>4 DEF RequestInv, Verified, At
<1> QED  BY <1>1, <1>3, <1>5, <1>7, <1>9, <1>10, WriteKeeps

LEMMA ConsumeFacts ==
  ASSUME AccountInv, NEW r \in Requests, Consume(r)
  PROVE  /\ Moved(r) /\ req[r].op \in {"verify", "reset"} /\ req[r].step = "consume"
         /\ req'[r].op = req[r].op /\ req'[r].step \in {"revoke", "answer"}
         /\ req'[r].step = "answer" => req[r].op = "verify"
         /\ req'[r].token = req[r].token /\ req'[r].row = req[r].row
         /\ req'[r].late = req[r].late
         /\ req[r].token \in mailbox /\ req[r].token \in TokenIds
         /\ tokens' \in [TokenIds -> TokenStatus] /\ tokens'[req[r].token] = "consumed"
         /\ \A u \in TokenIds : u # req[r].token => tokens'[u] = tokens[u]
         /\ UNCHANGED <<user, outbox, mailbox, sessions, lockout, failures, history>>
<1>0. /\ AccountTyped /\ RequestInv(r) /\ req[r].op \in {"verify", "reset"}
      /\ req[r].step = "consume" /\ tokens' = [tokens EXCEPT ![req[r].token] = "consumed"]
      /\ UNCHANGED <<user, outbox, mailbox, sessions, lockout, failures, history>>
  BY DEF AccountInv, Consume
<1>1. req[r].token \in mailbox /\ req[r].token \in TokenIds
  BY <1>0 DEF RequestInv, AccountTyped, TypeOK
<1>2. PICK t : t = req[r].token  OBVIOUS
<1>3. /\ tokens' \in [TokenIds -> TokenStatus] /\ tokens'[t] = "consumed"
      /\ \A u \in TokenIds : u # t => tokens'[u] = tokens[u]
  BY <1>0, <1>1, <1>2, TokenFacts DEF TokenStatus
<1>4. PICK s : s = Following(req[r].op, "consume")  OBVIOUS
<1>5. Goto(r, s) /\ s \in {"revoke", "answer"} /\ (s = "answer" => req[r].op = "verify")
  BY <1>0, <1>4, WritesInOrder DEF Consume
<1>6. /\ Moved(r) /\ req'[r].op = req[r].op /\ req'[r].step = s
      /\ req'[r].token = req[r].token /\ req'[r].row = req[r].row
      /\ req'[r].late = req[r].late
  BY <1>0, <1>5, GotoFacts
<1> QED  BY <1>0, <1>1, <1>2, <1>3, <1>5, <1>6

LEMMA ConsumeKeeps ==
  ASSUME AccountInv, NEW r \in Requests, Consume(r)
  PROVE  AccountInv'
<1>0. AccountTyped /\ RequestInv(r) /\ RowInv /\ RegistrationInv
  BY DEF AccountInv
<1>1. /\ Moved(r) /\ req[r].op \in {"verify", "reset"} /\ req[r].step = "consume"
      /\ req'[r].op = req[r].op /\ req'[r].step \in {"revoke", "answer"}
      /\ req'[r].token = req[r].token /\ req'[r].row = req[r].row
      /\ req'[r].late = req[r].late
      /\ req[r].token \in mailbox /\ req[r].token \in TokenIds
      /\ tokens' \in [TokenIds -> TokenStatus] /\ tokens'[req[r].token] = "consumed"
      /\ (\A u \in TokenIds : u # req[r].token => tokens'[u] = tokens[u])
      /\ UNCHANGED <<user, outbox, mailbox, sessions, lockout, failures, history>>
  BY ConsumeFacts
<1>2. ActiveUser /\ user # NoUser  BY <1>0, <1>1 DEF RequestInv, ActiveUser
<1>3. AccountTyped'
  BY <1>0, <1>1, TypedInside DEF Moved, AccountTyped, TypeOK, history
<1>4. outbox.changed \in Nat /\ mailbox \subseteq TokenIds /\ Verification \in TokenIds
      /\ spent \subseteq TokenIds
  BY <1>0 DEF AccountTyped, TypeOK, TokenIds
<1>5. ActiveUser'  BY <1>1, <1>2 DEF ActiveUser
<1>6. Monotone
  <2>1. \A t \in TokenIds : /\ tokens[t] = "consumed" => tokens'[t] = "consumed"
                            /\ tokens[t] # "none" => tokens'[t] # "none"
    <3>1. ASSUME NEW t \in TokenIds
          PROVE  /\ tokens[t] = "consumed" => tokens'[t] = "consumed"
                 /\ tokens[t] # "none" => tokens'[t] # "none"
      BY <1>1
    <3> QED  BY <3>1
  <2> QED  BY <1>1, <1>4, <1>5, <2>1 DEF Monotone, history
<1>7. RowInv'
  <2>1. \A t \in mailbox' : tokens'[t] # "none"
    BY <1>0, <1>1, <1>4 DEF RowInv
  <2>2. \A t \in spent' : t \in mailbox' /\ tokens'[t] = "consumed"
    BY <1>0, <1>1, <1>4 DEF RowInv, history
  <2> QED  BY <1>0, <1>1, <1>2, <1>5, <2>1, <2>2 DEF RowInv, history
<1>8. ~Registering(r) /\ ~Registering(r)'  BY <1>1 DEF Registering, At
<1>9. RegistrationInv'
  <2>1. CASE Verification \in mailbox
    BY <1>0, <1>1, <1>2, <1>8, <2>1, RegistrationKept DEF history
  <2>2. CASE Verification \notin mailbox
    BY <1>0, <1>1, <1>2, <1>4, <1>8, <2>2, RegistrationKept DEF history
  <2> QED  BY <2>1, <2>2
<1>10. RequestInv(r)'
  BY <1>0, <1>1, <1>2, <1>5 DEF RequestInv, Verified, At
<1> QED  BY <1>1, <1>3, <1>6, <1>7, <1>9, <1>10, WriteKeeps

LEMMA AnswerFacts ==
  ASSUME AccountInv, NEW r \in Requests, Answer(r)
  PROVE  /\ Moved(r) /\ req'[r] = Idle /\ req[r].op \in {"verify", "reset"}
         /\ req[r].step = "answer" /\ spent' = spent \cup {req[r].token}
         /\ settled' = settled \/ (req[r].op = "reset" /\ settled' = req[r].row.password)
         /\ settled \in Nat /\ settled' \in Nat /\ settled <= settled'
         /\ settled' <= outbox.changed
         /\ UNCHANGED <<identity, sessions, lockout, failures, clobbered, stranded>>
<1>0. /\ AccountTyped /\ RequestInv(r) /\ RowInv
      /\ req[r].op \in {"verify", "reset"} /\ req[r].step = "answer"
      /\ spent' = spent \cup {req[r].token} /\ Return(r)
      /\ UNCHANGED <<identity, sessions, lockout, failures, clobbered, stranded>>
  BY DEF AccountInv, Answer
<1>1. Moved(r) /\ req'[r] = Idle  BY <1>0, ReturnFacts
<1>2. settled \in Nat /\ settled <= outbox.changed
  BY <1>0 DEF AccountTyped, TypeOK, RowInv
<1>3. CASE req[r].op = "reset" /\ req[r].row.password > settled
  <2>1. settled' = req[r].row.password  BY <1>3 DEF Answer
  <2>2. req[r].row \in Rows /\ req[r].row # NoUser /\ req[r].row.password <= outbox.changed
    BY <1>0, <1>3 DEF RequestInv, AccountTyped, TypeOK
  <2>3. req[r].row.password \in Nat  BY <2>2 DEF Rows
  <2> QED  BY <1>0, <1>1, <1>2, <1>3, <2>1, <2>2, <2>3
<1>4. CASE ~(req[r].op = "reset" /\ req[r].row.password > settled)
  <2>1. settled' = settled  BY <1>4 DEF Answer
  <2> QED  BY <1>0, <1>1, <1>2, <2>1
<1> QED  BY <1>3, <1>4

LEMMA AnswerKeeps ==
  ASSUME AccountInv, NEW r \in Requests, Answer(r)
  PROVE  AccountInv'
<1>0. AccountTyped /\ RequestInv(r) /\ RowInv /\ RegistrationInv
  BY DEF AccountInv
<1>1. /\ Moved(r) /\ req'[r] = Idle /\ req[r].op \in {"verify", "reset"}
      /\ req[r].step = "answer" /\ spent' = spent \cup {req[r].token}
      /\ settled' \in Nat /\ settled' <= outbox.changed
      /\ UNCHANGED <<identity, sessions, lockout, failures, clobbered, stranded>>
  BY AnswerFacts
<1>2. /\ user # NoUser /\ req[r].token \in mailbox /\ req[r].token \in TokenIds
      /\ tokens[req[r].token] = "consumed"
  BY <1>0, <1>1 DEF RequestInv, AccountTyped, TypeOK, RowInv
<1>3. AccountTyped'
  BY <1>0, <1>1, <1>2, TypedInside DEF Moved, AccountTyped, TypeOK, identity
<1>4. outbox.changed \in Nat  BY <1>0 DEF AccountTyped, TypeOK
<1>5. Monotone  BY <1>1, <1>4 DEF Monotone, ActiveUser, identity
<1>6. RowInv'  BY <1>0, <1>1, <1>2 DEF RowInv, ActiveUser, identity
<1>7. RequestInv(r)' /\ ~Registering(r)'  BY <1>1, IdleFacts
<1>8. ~Registering(r)  BY <1>1 DEF Registering, At
<1>9. RegistrationInv'
  <2>1. CASE Verification \in mailbox
    BY <1>0, <1>1, <1>2, <1>7, <1>8, <2>1, RegistrationKept DEF identity
  <2>2. CASE Verification \notin mailbox
    BY <1>0, <1>1, <1>2, <1>7, <1>8, <2>2, RegistrationKept DEF identity
  <2> QED  BY <2>1, <2>2
<1> QED  BY <1>1, <1>3, <1>5, <1>6, <1>7, <1>9, WriteKeeps

LEMMA ExpireKeeps ==
  ASSUME AccountInv, NEW t \in TokenIds, Expire(t)
  PROVE  AccountInv'
<1>0. /\ AccountTyped /\ RowInv /\ RegistrationInv /\ (\A q \in Requests : RequestInv(q))
      /\ tokens[t] = "live" /\ tokens' = [tokens EXCEPT ![t] = "expired"]
      /\ UNCHANGED <<user, outbox, mailbox, sessions, lockout, req, failures, history>>
  BY DEF AccountInv, Expire
<1>1. /\ tokens' \in [TokenIds -> TokenStatus] /\ tokens'[t] = "expired"
      /\ \A u \in TokenIds : u # t => tokens'[u] = tokens[u]
  BY <1>0, TokenFacts DEF TokenStatus
<1>2. req \in [Requests -> InProgress]  BY <1>0 DEF AccountTyped
<1>3. AccountTyped'
  BY <1>0, <1>1, <1>2, TypedInside DEF AccountTyped, TypeOK, history
<1>4. \A u \in TokenIds : /\ tokens[u] = "consumed" <=> tokens'[u] = "consumed"
                          /\ tokens[u] = "none" <=> tokens'[u] = "none"
  <2>1. ASSUME NEW u \in TokenIds
        PROVE  /\ tokens[u] = "consumed" <=> tokens'[u] = "consumed"
               /\ tokens[u] = "none" <=> tokens'[u] = "none"
    BY <1>0, <1>1
  <2> QED  BY <2>1
<1>5. outbox.changed \in Nat /\ mailbox \subseteq TokenIds /\ Verification \in TokenIds
      /\ spent \subseteq TokenIds /\ Resets \subseteq TokenIds
  BY <1>0 DEF AccountTyped, TypeOK, TokenIds
<1>6. Monotone  BY <1>0, <1>4, <1>5 DEF Monotone, ActiveUser, history
<1>7. RowInv'
  BY <1>0, <1>4, <1>5 DEF RowInv, ActiveUser, history
<1>8. RegistrationInv'
  BY <1>0, <1>4, <1>5 DEF RegistrationInv, Registering, At, history
<1>9. \A q \in Requests : RequestInv(q)'
  BY <1>0, <1>3, <1>6, OthersKeep
<1> QED  BY <1>3, <1>7, <1>8, <1>9 DEF AccountInv

(* The sessions end, and the logins that are about to open one are marked. *)
LEMMA RevokeSessionsFacts ==
  ASSUME AccountTyped, NEW r \in Requests, RevokeSessions(r)
  PROVE  /\ req' \in [Requests -> InProgress]
         /\ \A q \in Requests :
              /\ req'[q].op = req[q].op /\ req'[q].token = req[q].token
              /\ req'[q].row = req[q].row /\ req'[q].late = req[q].late
              /\ req'[q].key = req[q].key /\ req'[q].locked = req[q].locked
              /\ q # r => req'[q].step = req[q].step
              /\ q # r /\ Verified(q) => req'[q].raced
         /\ req[r].op = "reset" /\ req[r].step = "revoke" /\ req'[r].step = "answer"
         /\ UNCHANGED <<identity, lockout, failures, history>>
<1>1. /\ req[r].op = "reset" /\ req[r].step = "revoke"
      /\ req' = [q \in Requests |-> IF q = r THEN [req[q] EXCEPT !.step = "answer"]
                                    ELSE [req[q] EXCEPT !.raced = @ \/ Verified(q)]]
      /\ UNCHANGED <<identity, lockout, failures, history>>
  BY WritesInOrder DEF RevokeSessions, At
<1>2. ASSUME NEW q \in Requests
      PROVE  /\ req'[q] \in InProgress
             /\ req'[q].op = req[q].op /\ req'[q].token = req[q].token
             /\ req'[q].row = req[q].row /\ req'[q].late = req[q].late
             /\ req'[q].key = req[q].key /\ req'[q].locked = req[q].locked
             /\ q # r => req'[q].step = req[q].step
             /\ q # r /\ Verified(q) => req'[q].raced
             /\ q = r => req'[q].step = "answer"
  <2>1. req[q] \in InProgress  BY DEF AccountTyped
  <2>2. CASE q = r
    <3>1. req'[q] = [req[q] EXCEPT !.step = "answer"]  BY <1>1, <2>2
    <3> QED  BY <2>1, <2>2, <3>1 DEF InProgress
  <2>3. CASE q # r
    <3>1. PICK raced : raced = (req[q].raced \/ Verified(q))  OBVIOUS
    <3>2. raced \in BOOLEAN /\ (Verified(q) => raced)  BY <3>1
    <3>3. req'[q] = [req[q] EXCEPT !.raced = raced]  BY <1>1, <2>3, <3>1
    <3>4. /\ req'[q] \in InProgress /\ req'[q].raced = raced
          /\ req'[q].op = req[q].op /\ req'[q].token = req[q].token
          /\ req'[q].row = req[q].row /\ req'[q].late = req[q].late
          /\ req'[q].key = req[q].key /\ req'[q].locked = req[q].locked
          /\ req'[q].step = req[q].step
      BY <2>1, <3>2, <3>3 DEF InProgress
    <3> QED  BY <2>3, <3>2, <3>4
  <2> QED  BY <2>2, <2>3
<1>3. req' \in [Requests -> InProgress]
  <2>1. req' = [q \in Requests |-> req'[q]]  BY <1>1
  <2> QED  BY <1>2, <2>1
<1> QED  BY <1>1, <1>2, <1>3

LEMMA RevokeSessionsKeeps ==
  ASSUME AccountInv, NEW r \in Requests, RevokeSessions(r)
  PROVE  AccountInv'
<1>0. /\ AccountTyped /\ RowInv /\ RegistrationInv /\ (\A q \in Requests : RequestInv(q))
      /\ counter \in [KeySet -> Nat] /\ wrong \in [KeySet -> Nat]
      /\ stranded \in BOOLEAN
  BY DEF AccountInv, AccountTyped, TypeOK
<1>1. /\ req' \in [Requests -> InProgress]
      /\ (\A q \in Requests :
            /\ req'[q].op = req[q].op /\ req'[q].token = req[q].token
            /\ req'[q].row = req[q].row /\ req'[q].late = req[q].late
            /\ q # r => req'[q].step = req[q].step)
      /\ req[r].op = "reset" /\ req[r].step = "revoke" /\ req'[r].step = "answer"
      /\ UNCHANGED <<identity, lockout, failures, history>>
  BY <1>0, RevokeSessionsFacts
<1>2. sessions' \in Seq(Session)
  BY <1>0, RevokeAllFacts DEF RevokeSessions
<1>3. AccountTyped'
  BY <1>0, <1>1, <1>2, TypedOutside DEF history, lockout, Session
<1>4. outbox.changed \in Nat  BY <1>0 DEF AccountTyped, TypeOK
<1>5. Monotone  BY <1>1, <1>4 DEF Monotone, ActiveUser, identity, history
<1>6. RowInv'  BY <1>0, <1>1 DEF RowInv, ActiveUser, identity, history
<1>7. \A q \in Requests : /\ Registering(q)' <=> Registering(q)
                          /\ At(q, "register", "token")' <=> At(q, "register", "token")
  BY <1>1 DEF Registering, At
<1>8. RegistrationInv'
  BY <1>0, <1>1, <1>7 DEF RegistrationInv, identity, history
<1>9. \A q \in Requests : q # r => RequestInv(q)'
  BY <1>0, <1>1, <1>3, <1>5, OthersKeep
<1>10. RequestInv(r)'
  BY <1>0, <1>1 DEF RequestInv, Verified, At, ActiveUser, identity
<1> QED  BY <1>3, <1>6, <1>8, <1>9, <1>10 DEF AccountInv

-----------------------------------------------------------------------------
(* The steps of the identity handlers that neither end a session nor       *)
(* answer a reset: no login begins, moves or ends.                         *)
LEMMA ElsewhereFacts ==
  ASSUME AccountInv, NEW r \in Requests,
         \/ Register(r) \/ RequestPasswordReset(r) \/ VerifyEmail(r)
         \/ \E t \in mailbox \ {Verification} : Begin(r, "reset", "token", t)
         \/ ResetSave(r) \/ FindToken(r) \/ FindUser(r) \/ Consume(r)
  PROVE  /\ AccountInv' /\ Moved(r) /\ req[r].op # "login" /\ req'[r].op # "login"
         /\ ~At(r, "reset", "answer")'
         /\ UNCHANGED <<sessions, lockout, failures, settled>> /\ (clobbered => clobbered')
<1>0. AccountTyped /\ RequestInv(r) /\ mailbox \subseteq TokenIds /\ Verification \in TokenIds
  BY DEF AccountInv, AccountTyped, TypeOK, TokenIds
<1>1. ASSUME NEW o \in {"register", "forgot", "verify", "reset"}, NEW s \in {"find", "token"},
             NEW t \in TokenIds, Begin(r, o, s, t),
             o \in {"register", "forgot"} => s = "find",
             o \in {"verify", "reset"} => s = "token" /\ t \in mailbox
                                          /\ (o = "verify" <=> t = Verification)
      PROVE  /\ AccountInv' /\ Moved(r) /\ req[r].op # "login" /\ req'[r].op # "login"
             /\ ~At(r, "reset", "answer")'
             /\ UNCHANGED <<sessions, lockout, failures, settled>> /\ (clobbered => clobbered')
  <2>1. /\ Moved(r) /\ req[r] = Idle /\ req'[r].op = o /\ req'[r].step = s
        /\ UNCHANGED <<identity, sessions, lockout, failures, history>>
    BY <1>0, <1>1, BeginFacts, Zenon
  <2>2. AccountInv'  BY <1>1, BeginKeeps
  <2> QED  BY <1>1, <2>1, <2>2 DEF Idle, At, history
<1>2. ASSUME Goto(r, "save") \/ Goto(r, "token") \/ Goto(r, "user") \/ Goto(r, "mail")
             \/ Return(r), req[r].op # "login"
      PROVE  Moved(r) /\ req'[r].op # "login" /\ ~At(r, "reset", "answer")'
  <2>1. CASE Return(r)  BY <1>0, <2>1, ReturnFacts DEF Idle, At
  <2>2. CASE Goto(r, "save") \/ Goto(r, "token") \/ Goto(r, "user") \/ Goto(r, "mail")
    BY <1>0, <1>2, <2>2, GotoFacts DEF At
  <2> QED  BY <1>2, <2>1, <2>2
<1>3. CASE Begin(r, "register", "find", Verification)  BY <1>0, <1>1, <1>3
<1>4. CASE RegisterFind(r) \/ ForgotFind(r) \/ FindToken(r)
  <2>1. AccountInv'  BY <1>4, FindKeeps
  <2> QED  BY <1>2, <1>4, <2>1 DEF RegisterFind, ForgotFind, FindToken, At, history
<1>5. CASE RegisterSave(r)
  <2>1. AccountInv'  BY <1>5, RegisterSaveKeeps
  <2> QED  BY <1>2, <1>5, <2>1 DEF RegisterSave, At, history
<1>6. CASE RegisterToken(r)
  <2>1. AccountInv'  BY <1>6, RegisterTokenKeeps
  <2> QED  BY <1>2, <1>6, <2>1 DEF RegisterToken, At, history
<1>7. CASE RegisterMail(r)
  <2>1. AccountInv'  BY <1>7, RegisterMailKeeps
  <2> QED  BY <1>2, <1>7, <2>1 DEF RegisterMail, At, history
<1>8. CASE Begin(r, "forgot", "find", Verification)  BY <1>0, <1>1, <1>8
<1>9. CASE ForgotToken(r)
  <2>1. AccountInv'  BY <1>9, ForgotTokenKeeps
  <2>2. PICK t : req' = [req EXCEPT ![r].step = "mail", ![r].token = t]
    BY <1>9 DEF ForgotToken
  <2>3. Moved(r)
    <3>1. req' \in [Requests -> InProgress]  BY <2>1 DEF AccountInv, AccountTyped
    <3> QED  BY <1>0, <2>2, <3>1 DEF AccountTyped, Moved
  <2>4. req[r].op = "forgot" /\ req'[r].op = "forgot"
    <3>1. req[r].op = "forgot"  BY <1>9 DEF ForgotToken, At
    <3> QED  BY <1>0, <2>2, <3>1 DEF AccountTyped, InProgress
  <2> QED  BY <1>9, <2>1, <2>3, <2>4 DEF ForgotToken, At, history
<1>10. CASE ForgotMail(r)
  <2>1. AccountInv'  BY <1>10, ForgotMailKeeps
  <2> QED  BY <1>2, <1>10, <2>1 DEF ForgotMail, At, history
<1>11. CASE Verification \in mailbox /\ Begin(r, "verify", "token", Verification)
  BY <1>0, <1>1, <1>11
<1>12. CASE VerifySave(r)
  <2>1. AccountInv'  BY <1>12, VerifySaveKeeps
  <2> QED  BY <1>12, <2>1, VerifySaveFacts DEF At
<1>13. CASE \E t \in mailbox \ {Verification} : Begin(r, "reset", "token", t)
  BY <1>0, <1>1, <1>13
<1>14. CASE ResetSave(r)
  <2>1. AccountInv'  BY <1>14, ResetSaveKeeps
  <2> QED  BY <1>14, <2>1, ResetSaveFacts DEF At, history
<1>15. CASE FindUser(r)
  <2>1. AccountInv'  BY <1>15, FindUserKeeps
  <2>2. /\ req[r].op \in {"verify", "reset"}
        /\ req' = [req EXCEPT ![r].step = "save", ![r].row = user]
        /\ UNCHANGED <<identity, sessions, lockout, failures, history>>
    BY <1>15, WritesInOrder DEF FindUser, At
  <2>3. Moved(r)
    <3>1. req' \in [Requests -> InProgress]  BY <2>1 DEF AccountInv, AccountTyped
    <3> QED  BY <1>0, <2>2, <3>1 DEF AccountTyped, Moved
  <2>4. req'[r].op = req[r].op /\ req'[r].step = "save"
    BY <1>0, <2>2 DEF AccountTyped, InProgress
  <2> QED  BY <2>1, <2>2, <2>3, <2>4 DEF At, history
<1>16. CASE Consume(r)
  <2>1. AccountInv'  BY <1>16, ConsumeKeeps
  <2> QED  BY <1>16, <2>1, ConsumeFacts DEF At, history
<1> QED
  BY <1>3, <1>4, <1>5, <1>6, <1>7, <1>8, <1>9, <1>10, <1>11, <1>12, <1>13, <1>14, <1>15, <1>16
     DEF Register, RequestPasswordReset, VerifyEmail

(* A request of login begins. *)
LEMMA LoginBegins ==
  ASSUME AccountInv, NEW r \in Requests, Begin(r, "login", "locked", Verification)
  PROVE  /\ AccountInv' /\ Moved(r) /\ req[r] = Idle
         /\ req'[r].op = "login" /\ req'[r].step = "locked" /\ req'[r].key = 1
         /\ UNCHANGED <<identity, sessions, lockout, failures, history>>
<1>0. AccountTyped /\ Verification \in TokenIds  BY DEF AccountInv, TokenIds
<1>1. AccountInv'  BY <1>0, BeginKeeps
<1> QED  BY <1>0, <1>1, BeginFacts

(* The next-state relation, sorted by what it does to logins and sessions. *)
LEMMA NextCases ==
  ASSUME Next
  PROVE  \/ \E r \in Requests :
              \/ Register(r) \/ RequestPasswordReset(r) \/ VerifyEmail(r)
              \/ \E t \in mailbox \ {Verification} : Begin(r, "reset", "token", t)
              \/ ResetSave(r) \/ FindToken(r) \/ FindUser(r) \/ Consume(r)
         \/ \E r \in Requests : Begin(r, "login", "locked", Verification)
         \/ \E r \in Requests : LoginCheckLock(r)
         \/ \E r \in Requests, right \in BOOLEAN : LoginVerify(r, right)
         \/ \E r \in Requests : LoginFailure(r)
         \/ \E r \in Requests : LoginReset(r)
         \/ \E r \in Requests : LoginCreate(r)
         \/ \E r \in Requests : RevokeSessions(r)
         \/ \E r \in Requests : Answer(r)
         \/ \E r \in Requests : Die(r)
         \/ \E t \in TokenIds : Expire(t)
         \/ \E i \in DOMAIN Keys : WindowEnds(i)
         \/ LogoutAll
BY DEF Next, ResetPassword, UseToken, Login

LEMMA AccountInvInit == ASSUME Init PROVE AccountInv
<1>1. AccountTyped  BY AccountTypedInit
<1>2. \A r \in Requests : req[r].op = "none" /\ req[r].step = "idle" /\ req[r].late = FALSE
  BY DEF Init, Idle
<1>3. RegistrationInv  BY <1>2 DEF Init, RegistrationInv, Registering, At
<1>4. \A t \in TokenIds : tokens[t] = "none"  BY DEF Init
<1>5. RowInv
  BY <1>4 DEF Init, RowInv, ActiveUser, TokenIds, Resets, Verification
<1>6. \A r \in Requests : RequestInv(r)  BY <1>2 DEF RequestInv, Verified, At
<1> QED  BY <1>1, <1>3, <1>5, <1>6 DEF AccountInv

LEMMA AccountInvNext == ASSUME AccountInv, [Next]_vars PROVE AccountInv'
<1>1. CASE UNCHANGED vars
  BY <1>1 DEF vars, AccountInv, AccountTyped, TypeOK, RegistrationInv, Registering, RowInv,
              ActiveUser, RequestInv, Verified, At
<1>2. CASE Next
  BY <1>2, NextCases, ElsewhereFacts, LoginBegins, LoginKeeps, RevokeSessionsKeeps,
     AnswerKeeps, DieKeeps, ExpireKeeps, WindowEndsKeeps, Zenon
<1> QED  BY <1>1, <1>2

-----------------------------------------------------------------------------
(* A step after which every active session was active before, and every    *)
(* login that has verified a password had done so before.                  *)
LEMMA EndedKept ==
  ASSUME NEW p, Ended(p), clobbered => clobbered', UNCHANGED sessions,
         \A q \in Requests : Verified(q)' =>
           Verified(q) /\ req'[q].row = req[q].row /\ (req[q].raced => req'[q].raced)
  PROVE  Ended(p)'
BY DEF Ended

LEMMA SessionsQuiet ==
  ASSUME SessionsInv, NEW r \in Requests, Moved(r), clobbered => clobbered',
         UNCHANGED <<sessions, settled>>, ~At(r, "reset", "answer")',
         Verified(r)' =>
           Verified(r) /\ req'[r].row = req[r].row /\ (req[r].raced => req'[r].raced)
  PROVE  SessionsInv'
<1>1. \A q \in Requests : Verified(q)' =>
        Verified(q) /\ req'[q].row = req[q].row /\ (req[q].raced => req'[q].raced)
  BY DEF Moved, Verified, At
<1>2. \A q \in Requests : At(q, "reset", "answer")' =>
        At(q, "reset", "answer") /\ req'[q].row = req[q].row
  BY DEF Moved, At
<1>3. Ended(settled)'  BY <1>1 DEF SessionsInv, Ended
<1>4. ASSUME NEW q \in Requests, At(q, "reset", "answer")'
      PROVE  Ended(req[q].row.password)'
  <2>1. Ended(req[q].row.password)  BY <1>2, <1>4 DEF SessionsInv
  <2> QED  BY <1>1, <1>2, <1>4, <2>1 DEF Ended
<1> QED  BY <1>3, <1>4 DEF SessionsInv

(* The password of an active account is at least that of any answered or   *)
(* answering reset, unless a verification wrote an older one back.         *)
LEMMA NewestPassword ==
  ASSUME AccountInv, user # NoUser
  PROVE  /\ user.password >= settled \/ clobbered
         /\ \A q \in Requests : At(q, "reset", "answer") =>
              user.password >= req[q].row.password \/ clobbered
<1>1. /\ settled \in Nat /\ outbox.changed \in Nat /\ settled <= outbox.changed
      /\ user.password = outbox.changed \/ clobbered
  BY DEF AccountInv, AccountTyped, TypeOK, RowInv
<1>2. ASSUME NEW q \in Requests, At(q, "reset", "answer")
      PROVE  req[q].row.password \in Nat /\ req[q].row.password <= outbox.changed
  BY <1>2 DEF AccountInv, RequestInv, At, AccountTyped, TypeOK, Rows
<1> QED  BY <1>1, <1>2

LEMMA SessionsInvNext ==
  ASSUME AccountInv, SessionsInv, [Next]_vars
  PROVE  SessionsInv'
<1>0. AccountTyped /\ sessions \in Seq(Session)
  BY DEF AccountInv, AccountTyped, TypeOK, Session
<1>1. CASE UNCHANGED vars
  BY <1>1 DEF vars, SessionsInv, Ended, Verified, At
<1>2. ASSUME NEW r \in Requests, Moved(r), req'[r] = Idle, UNCHANGED <<sessions, settled, clobbered>>
      PROVE  SessionsInv'
  BY <1>2, IdleFacts, SessionsQuiet
<1>3. ASSUME UNCHANGED <<settled, clobbered>>,
             (UNCHANGED sessions) \/ (\A i \in DOMAIN sessions' : sessions'[i].status = "revoked"),
             UNCHANGED req
      PROVE  SessionsInv'
  BY <1>3 DEF SessionsInv, Ended, Verified, At
<1>4. ASSUME NEW r \in Requests,
             \/ Register(r) \/ RequestPasswordReset(r) \/ VerifyEmail(r)
             \/ \E t \in mailbox \ {Verification} : Begin(r, "reset", "token", t)
             \/ ResetSave(r) \/ FindToken(r) \/ FindUser(r) \/ Consume(r)
      PROVE  SessionsInv'
  <2>1. /\ Moved(r) /\ req'[r].op # "login" /\ ~At(r, "reset", "answer")'
        /\ UNCHANGED <<sessions, lockout, failures, settled>> /\ (clobbered => clobbered')
    BY <1>4, ElsewhereFacts, Zenon
  <2>2. ~Verified(r)'  BY <2>1 DEF Verified, At
  <2> QED  BY <2>1, <2>2, SessionsQuiet
<1>5. ASSUME NEW r \in Requests, Begin(r, "login", "locked", Verification)
      PROVE  SessionsInv'
  <2>1. /\ Moved(r) /\ req'[r].op = "login" /\ req'[r].step = "locked"
        /\ UNCHANGED <<identity, sessions, lockout, failures, history>>
    BY <1>5, LoginBegins
  <2> QED  BY <2>1, SessionsQuiet DEF Verified, At, history
<1>6. ASSUME NEW r \in Requests, LoginCheckLock(r)
      PROVE  SessionsInv'
  <2>1. /\ Moved(r) /\ req'[r].op = "login" /\ req'[r].step \in {"locked", "find"}
        /\ UNCHANGED <<identity, sessions, lockout, history>>
    BY <1>0, <1>6, LoginCheckLockFacts
  <2> QED  BY <2>1, SessionsQuiet DEF Verified, At, history
<1>7. ASSUME NEW r \in Requests, NEW right \in BOOLEAN, LoginVerify(r, right)
      PROVE  SessionsInv'
  <2>1. /\ Moved(r) /\ req[r].op = "login" /\ req[r].step = "find"
        /\ (\/ req'[r] = Idle
            \/ ActiveUser /\ req'[r].op = "login" /\ req'[r].step = "reset" /\ req'[r].row = user
            \/ req'[r].op = "login" /\ req'[r].step = "failed")
        /\ UNCHANGED <<sessions, settled, clobbered>>
    <3>1. UNCHANGED <<sessions, settled, clobbered>>  BY <1>7 DEF LoginVerify, history
    <3> QED  BY <1>0, <1>7, <3>1, LoginVerifyFacts
  <2>2. CASE req'[r] = Idle  BY <1>2, <2>1, <2>2
  <2>3. CASE req'[r].op = "login" /\ req'[r].step = "failed"
    BY <2>1, <2>3, SessionsQuiet DEF Verified, At
  <2>4. CASE ActiveUser /\ req'[r].op = "login" /\ req'[r].step = "reset" /\ req'[r].row = user
    <3>1. /\ user.password >= settled \/ clobbered
          /\ \A q \in Requests : At(q, "reset", "answer") =>
               user.password >= req[q].row.password \/ clobbered
      BY <2>4, NewestPassword DEF ActiveUser
    <3>2. \A q \in Requests : At(q, "reset", "answer")' =>
            At(q, "reset", "answer") /\ req'[q].row = req[q].row /\ q # r
      BY <2>1, <2>4 DEF Moved, At
    <3>3. \A q \in Requests : q # r =>
            req'[q] = req[q] /\ (Verified(q)' <=> Verified(q))
      BY <2>1 DEF Moved, Verified, At
    <3>4. Ended(settled)'
      BY <2>1, <2>4, <3>1, <3>3 DEF SessionsInv, Ended
    <3>5. ASSUME NEW q \in Requests, At(q, "reset", "answer")'
          PROVE  Ended(req[q].row.password)'
      <4>1. Ended(req[q].row.password)  BY <3>2, <3>5 DEF SessionsInv
      <4>2. user.password >= req[q].row.password \/ clobbered
        BY <3>1, <3>2, <3>5
      <4> QED  BY <2>1, <2>4, <3>2, <3>3, <3>5, <4>1, <4>2 DEF Ended
    <3> QED  BY <3>4, <3>5 DEF SessionsInv
  <2> QED  BY <2>1, <2>2, <2>3, <2>4
<1>8. ASSUME NEW r \in Requests, LoginFailure(r)
      PROVE  SessionsInv'
  <2>1. /\ Moved(r)
        /\ (req'[r].op = "login" /\ req'[r].step = "failed") \/ req'[r] = Idle
        /\ UNCHANGED <<identity, sessions, wrong, history>>
    BY <1>0, <1>8, LoginFailureFacts
  <2> QED  BY <1>2, <2>1, SessionsQuiet DEF Verified, At, history
<1>9. ASSUME NEW r \in Requests, LoginReset(r)
      PROVE  SessionsInv'
  <2>1. /\ Moved(r) /\ Verified(r) /\ ~At(r, "reset", "answer")'
        /\ req'[r].row = req[r].row /\ req'[r].raced = req[r].raced
        /\ UNCHANGED <<identity, sessions, history>>
    BY <1>0, <1>9, LoginResetFacts DEF Verified, At
  <2> QED  BY <2>1, SessionsQuiet DEF history
<1>10. ASSUME NEW r \in Requests, LoginCreate(r)
       PROVE  SessionsInv'
  <2>1. /\ Moved(r) /\ req'[r] = Idle /\ Verified(r)
        /\ UNCHANGED <<identity, lockout, failures, history>>
    BY <1>10, LoginCreateFacts DEF Verified, At
  <2>2. PICK x \in Session : /\ x.status = "active" /\ x.password = req[r].row.password
                             /\ x.raced = req[r].raced /\ sessions' = Append(sessions, x)
    BY <1>10, LoginCreateFacts
  <2>3. \A i \in DOMAIN sessions' :
          \/ i \in DOMAIN sessions /\ sessions'[i] = sessions[i]
          \/ sessions'[i] = x
    BY <1>0, <2>2
  <2>4. \A q \in Requests : Verified(q)' => Verified(q) /\ req'[q] = req[q]
    BY <2>1, IdleFacts DEF Moved, Verified, At
  <2>5. \A q \in Requests : At(q, "reset", "answer")' =>
          At(q, "reset", "answer") /\ req'[q] = req[q]
    BY <2>1, IdleFacts DEF Moved, At
  <2>6. ASSUME NEW p, Ended(p) PROVE Ended(p)'
    BY <2>1, <2>2, <2>3, <2>4, <2>6 DEF Ended, history
  <2>7. Ended(settled)'  BY <2>1, <2>6 DEF SessionsInv, Ended, history
  <2>8. ASSUME NEW q \in Requests, At(q, "reset", "answer")'
        PROVE  Ended(req[q].row.password)'
    <3>1. PICK p : p = req[q].row.password  OBVIOUS
    <3>2. Ended(p) /\ req'[q].row.password = p  BY <2>5, <2>8, <3>1 DEF SessionsInv
    <3>3. Ended(p)'  BY <2>6, <3>2
    <3> QED  BY <3>2, <3>3
  <2> QED  BY <2>7, <2>8 DEF SessionsInv
<1>11. ASSUME NEW r \in Requests, RevokeSessions(r)
       PROVE  SessionsInv'
  <2>1. /\ \A q \in Requests : /\ req'[q].op = req[q].op
                               /\ q # r => req'[q].step = req[q].step
                               /\ q # r /\ Verified(q) => req'[q].raced
        /\ req[r].op = "reset"
    BY <1>0, <1>11, RevokeSessionsFacts
  <2>2. \A q \in Requests : Verified(q)' => req'[q].raced
    BY <2>1 DEF Verified, At
  <2>3. \A i \in DOMAIN sessions' : sessions'[i].status = "revoked"
    BY <1>0, <1>11, RevokeAllFacts DEF RevokeSessions
  <2> QED  BY <2>2, <2>3 DEF SessionsInv, Ended
<1>12. ASSUME NEW r \in Requests, Answer(r)
       PROVE  SessionsInv'
  <2>1. /\ Moved(r) /\ req'[r] = Idle /\ UNCHANGED <<sessions, clobbered>>
        /\ settled' = settled \/ (At(r, "reset", "answer") /\ settled' = req[r].row.password)
    BY <1>12, AnswerFacts DEF At
  <2>2. \A q \in Requests : Verified(q)' => Verified(q) /\ req'[q] = req[q]
    BY <2>1, IdleFacts DEF Moved, Verified, At
  <2>3. \A q \in Requests : At(q, "reset", "answer")' =>
          At(q, "reset", "answer") /\ req'[q] = req[q]
    BY <2>1, IdleFacts DEF Moved, At
  <2>4. ASSUME NEW p, Ended(p) PROVE Ended(p)'
    BY <2>1, <2>2, <2>4, EndedKept
  <2>5. Ended(settled)'
    <3>1. PICK p : p = settled'  OBVIOUS
    <3>2. Ended(p)  BY <2>1, <3>1 DEF SessionsInv
    <3>3. Ended(p)'  BY <2>4, <3>2
    <3> QED  BY <3>1, <3>3
  <2>6. ASSUME NEW q \in Requests, At(q, "reset", "answer")'
        PROVE  Ended(req[q].row.password)'
    <3>1. PICK p : p = req[q].row.password  OBVIOUS
    <3>2. Ended(p) /\ req'[q].row.password = p  BY <2>3, <2>6, <3>1 DEF SessionsInv
    <3>3. Ended(p)'  BY <2>4, <3>2
    <3> QED  BY <3>2, <3>3
  <2> QED  BY <2>5, <2>6 DEF SessionsInv
<1>13. ASSUME NEW r \in Requests, Die(r)
       PROVE  SessionsInv'
  <2>1. Moved(r) /\ req'[r] = Idle /\ UNCHANGED <<sessions, settled, clobbered>>
    BY <1>0, <1>13, ReturnFacts DEF Die
  <2> QED  BY <1>2, <2>1
<1>14. ASSUME NEW t \in TokenIds, Expire(t)
       PROVE  SessionsInv'
  BY <1>3, <1>14 DEF Expire, history
<1>15. ASSUME NEW k \in DOMAIN Keys, WindowEnds(k)
       PROVE  SessionsInv'
  BY <1>3, <1>15 DEF WindowEnds, history
<1>16. CASE LogoutAll
  BY <1>0, <1>3, <1>16, RevokeAllFacts DEF LogoutAll, history
<1>17. CASE Next
  BY <1>4, <1>5, <1>6, <1>7, <1>8, <1>9, <1>10, <1>11, <1>12, <1>13, <1>14, <1>15, <1>16,
     <1>17, NextCases, Zenon
<1> QED  BY <1>1, <1>17

-----------------------------------------------------------------------------
(* How many requests a set of them holds. *)
LEMMA Sizes ==
  ASSUME NEW S \in SUBSET Requests, NEW T \in SUBSET Requests, NEW r
  PROVE  /\ IsFiniteSet(S) /\ Cardinality(S) \in Nat /\ Cardinality(T) \in Nat
         /\ Cardinality(Requests) \in Nat /\ Cardinality(S) <= Cardinality(Requests)
         /\ S \subseteq T => Cardinality(S) <= Cardinality(T)
         /\ S \subseteq T \cup {r} => Cardinality(S) <= Cardinality(T) + 1
         /\ r \in T /\ S \subseteq T \ {r} => Cardinality(S) + 1 <= Cardinality(T)
         /\ S \cap T = {} => Cardinality(S) + Cardinality(T) <= Cardinality(Requests)
<1>1. IsFiniteSet(Requests)  BY AccountAssumption
<1>2. /\ IsFiniteSet(S) /\ Cardinality(S) <= Cardinality(Requests)
      /\ IsFiniteSet(T) /\ Cardinality(T) <= Cardinality(Requests)
  BY <1>1, FS_Subset
<1>3. Cardinality(S) \in Nat /\ Cardinality(T) \in Nat /\ Cardinality(Requests) \in Nat
  BY <1>1, <1>2, FS_CardinalityType
<1>4. S \subseteq T => Cardinality(S) <= Cardinality(T)
  BY <1>2, FS_Subset
<1>5. S \subseteq T \cup {r} => Cardinality(S) <= Cardinality(T) + 1
  <2>1. /\ IsFiniteSet(T \cup {r})
        /\ Cardinality(T \cup {r}) = Cardinality(T) \/ Cardinality(T \cup {r}) = Cardinality(T) + 1
    BY <1>2, FS_AddElement
  <2>2. S \subseteq T \cup {r} => Cardinality(S) <= Cardinality(T \cup {r})
    BY <2>1, FS_Subset
  <2> QED  BY <1>3, <2>1, <2>2
<1>6. r \in T /\ S \subseteq T \ {r} => Cardinality(S) + 1 <= Cardinality(T)
  <2>1. /\ IsFiniteSet(T \ {r})
        /\ r \in T => Cardinality(T \ {r}) = Cardinality(T) - 1
    BY <1>2, FS_RemoveElement
  <2>2. S \subseteq T \ {r} => Cardinality(S) <= Cardinality(T \ {r})
    BY <2>1, FS_Subset
  <2> QED  BY <1>3, <2>1, <2>2
<1>7. S \cap T = {} => Cardinality(S) + Cardinality(T) <= Cardinality(Requests)
  <2>1. IsFiniteSet(S \cup T)
        /\ Cardinality(S \cup T) = Cardinality(S) + Cardinality(T) - Cardinality(S \cap T)
    BY <1>2, FS_Union
  <2>2. Cardinality(S \cup T) <= Cardinality(Requests)  BY <1>1, FS_Subset
  <2>3. S \cap T = {} => Cardinality(S \cap T) = 0  BY FS_EmptySet
  <2> QED  BY <1>3, <2>1, <2>2, <2>3
<1> QED  BY <1>2, <1>3, <1>4, <1>5, <1>6, <1>7

LEMMA LockNumbers ==
  ASSUME AccountTyped, NEW i \in DOMAIN Keys
  PROVE  /\ i \in Nat /\ i >= 1 /\ i <= Len(Keys) /\ Len(Keys) \in Nat /\ Keys[i] \in KeySet
         /\ counter[Keys[i]] \in Nat /\ wrong[Keys[i]] \in Nat /\ failures \in Nat
         /\ Threshold[Keys[i]] \in Nat /\ Threshold[Keys[i]] >= 1
BY AccountAssumption DEF AccountTyped, TypeOK, KeySet

LEMMA Groups ==
  ASSUME NEW i
  PROVE  /\ Passed(i) \in SUBSET Requests /\ Uncounted(i) \in SUBSET Requests
         /\ Passed(i) \cap Uncounted(i) = {}
BY DEF Passed, Uncounted, At

LEMMA GroupsNext ==
  ASSUME NEW i
  PROVE  /\ Passed(i)' \in SUBSET Requests /\ Uncounted(i)' \in SUBSET Requests
         /\ Passed(i)' \cap Uncounted(i)' = {}
BY DEF Passed, Uncounted, At

(* A step that adds no wrong password and lets no further login through. *)
LEMMA LockSame ==
  ASSUME AccountTyped, AccountTyped', NEW i \in DOMAIN Keys, LockAt(i), NEW r,
         wrong'[Keys[i]] = wrong[Keys[i]], counter'[Keys[i]] >= counter[Keys[i]],
         failures' >= failures, Passed(i)' \subseteq Passed(i),
         \/ Uncounted(i) \subseteq Uncounted(i)'
         \/ /\ Uncounted(i) \subseteq Uncounted(i)' \cup {r}
            /\ counter'[Keys[i]] = counter[Keys[i]] + 1 \/ failures' = failures + 1
  PROVE  LockAt(i)'
<1>1. /\ counter[Keys[i]] \in Nat /\ wrong[Keys[i]] \in Nat /\ failures \in Nat
      /\ Threshold[Keys[i]] \in Nat /\ Keys[i] \in KeySet
  BY LockNumbers
<1>2. counter'[Keys[i]] \in Nat /\ failures' \in Nat
  BY <1>1, AccountAssumption DEF AccountTyped, TypeOK
<1>3. PICK P, Q, U, V : P = Passed(i) /\ Q = Passed(i)' /\ U = Uncounted(i) /\ V = Uncounted(i)'
  OBVIOUS
<1>4. /\ P \in SUBSET Requests /\ Q \in SUBSET Requests
      /\ U \in SUBSET Requests /\ V \in SUBSET Requests
  BY <1>3, Groups, GroupsNext
<1>5. /\ Cardinality(P) \in Nat /\ Cardinality(Q) \in Nat /\ Cardinality(Q) <= Cardinality(P)
      /\ Cardinality(Requests) \in Nat
  BY <1>3, <1>4, Sizes
<1>6. /\ Cardinality(U) \in Nat /\ Cardinality(V) \in Nat
      /\ U \subseteq V => Cardinality(U) <= Cardinality(V)
      /\ U \subseteq V \cup {r} => Cardinality(U) <= Cardinality(V) + 1
  BY <1>4, Sizes
<1>7. /\ wrong[Keys[i]] <= counter[Keys[i]] + Cardinality(U) + failures
      /\ wrong[Keys[i]] + Cardinality(P)
           <= Threshold[Keys[i]] - 1 + Cardinality(Requests) + failures
  BY <1>3 DEF LockAt
<1>8. wrong'[Keys[i]] <= counter'[Keys[i]] + Cardinality(V) + failures'
  BY <1>1, <1>2, <1>3, <1>6, <1>7
<1>9. wrong'[Keys[i]] + Cardinality(Q)
        <= Threshold[Keys[i]] - 1 + Cardinality(Requests) + failures'
  BY <1>1, <1>2, <1>3, <1>5, <1>7
<1> QED  BY <1>3, <1>8, <1>9 DEF LockAt

(* The key starts again. *)
LEMMA LockCleared ==
  ASSUME AccountTyped, AccountTyped', NEW i \in DOMAIN Keys, StartAgain(i),
         Uncounted(i) \subseteq Uncounted(i)'
  PROVE  LockAt(i)'
<1>1. /\ Keys[i] \in KeySet /\ Threshold[Keys[i]] \in Nat /\ Threshold[Keys[i]] >= 1
      /\ wrong \in [KeySet -> Nat]
  BY AccountAssumption DEF KeySet, AccountTyped, TypeOK
<1>2. counter'[Keys[i]] \in Nat /\ failures' \in Nat
  BY <1>1, AccountAssumption DEF AccountTyped, TypeOK
<1>3. PICK Q, U, V : Q = Passed(i)' /\ U = Uncounted(i) /\ V = Uncounted(i)'  OBVIOUS
<1>4. /\ Q \in SUBSET Requests /\ U \in SUBSET Requests /\ V \in SUBSET Requests
      /\ U \subseteq V /\ Q \cap V = {}
  BY <1>3, Groups, GroupsNext
<1>5. /\ Cardinality(Q) \in Nat /\ Cardinality(U) \in Nat /\ Cardinality(V) \in Nat
      /\ Cardinality(Requests) \in Nat /\ Cardinality(U) <= Cardinality(V)
      /\ Cardinality(Q) + Cardinality(V) <= Cardinality(Requests)
  BY <1>4, Sizes
<1>6. wrong'[Keys[i]] = Cardinality(U)  BY <1>1, <1>3 DEF StartAgain
<1> QED  BY <1>1, <1>2, <1>3, <1>5, <1>6 DEF LockAt

(* A login passes isLocked of the key c, or goes on because Redis failed. *)
LEMMA LockPassed ==
  ASSUME AccountTyped, KeysInOrder, LockInv, NEW r \in Requests, LoginCheckLock(r),
         AccountTyped'
  PROVE  KeysInOrder' /\ LockInv'
<1>1. /\ Moved(r) /\ req[r].op = "login" /\ req[r].step = "locked" /\ req'[r].op = "login"
      /\ (IF req[r].key < Len(Keys)
          THEN req'[r].key = req[r].key + 1 /\ req'[r].step = "locked"
          ELSE req'[r].key = 1 /\ req'[r].step = "find")
      /\ (req[r].locked => req'[r].locked)
      /\ (\/ /\ failures' = failures
             /\ ~req'[r].locked => ~Locked(Keys[req[r].key])
          \/ failures' = failures + 1 /\ failures < MaxFailures)
      /\ UNCHANGED <<identity, sessions, lockout, history>>
  BY LoginCheckLockFacts
<1>2. req[r].key \in Nat \ {0} /\ Len(Keys) \in Nat
  BY AccountAssumption DEF AccountTyped, InProgress
<1>3. KeysInOrder'
  <2>1. req'[r].key = 1 \/ (req'[r].key <= Len(Keys) /\ req'[r].step # "find")
    BY <1>1, <1>2
  <2> QED  BY <1>1, <2>1 DEF KeysInOrder, Moved
<1>4. ASSUME NEW i \in DOMAIN Keys PROVE LockAt(i)'
  <2>1. LockAt(i)  BY DEF LockInv
  <2>2. /\ i \in Nat /\ i >= 1 /\ i <= Len(Keys)
        /\ counter[Keys[i]] \in Nat /\ wrong[Keys[i]] \in Nat /\ failures \in Nat
        /\ Threshold[Keys[i]] \in Nat
    BY LockNumbers
  <2>3. wrong' = wrong /\ counter' = counter /\ failures' >= failures
    BY <1>1, <2>2 DEF lockout
  <2>4. Uncounted(i)' = Uncounted(i) /\ r \notin Uncounted(i)
    BY <1>1 DEF Uncounted, At, Moved
  <2>5. CASE req'[r].locked \/ req[r].key # i
    <3>1. r \in Passed(i)' => r \in Passed(i)
      BY <1>1, <1>2, <2>2, <2>5 DEF Passed, KeysInOrder
    <3>2. Passed(i)' \subseteq Passed(i)  BY <1>1, <3>1 DEF Passed, Moved
    <3> QED  BY <2>1, <2>2, <2>3, <2>4, <3>2, LockSame
  <2>6. CASE ~req'[r].locked /\ req[r].key = i
    <3>1. PICK P, Q, U : P = Passed(i) /\ Q = Passed(i)' /\ U = Uncounted(i)  OBVIOUS
    <3>2. Q \subseteq P \cup {r}  BY <1>1, <3>1 DEF Passed, Moved
    <3>3. P \in SUBSET Requests /\ Q \in SUBSET Requests /\ U \in SUBSET Requests
      BY <3>1, Groups, GroupsNext
    <3>4. Q \cap U = {}  BY <2>4, <3>1, GroupsNext
    <3>5. /\ Cardinality(P) \in Nat /\ Cardinality(Q) \in Nat
          /\ Cardinality(Requests) \in Nat /\ Cardinality(Q) <= Cardinality(P) + 1
      BY <3>2, <3>3, Sizes
    <3>6. Cardinality(U) \in Nat /\ Cardinality(Q) + Cardinality(U) <= Cardinality(Requests)
      BY <3>3, <3>4, Sizes
    <3>7. /\ wrong[Keys[i]] <= counter[Keys[i]] + Cardinality(U) + failures
          /\ wrong[Keys[i]] + Cardinality(P)
               <= Threshold[Keys[i]] - 1 + Cardinality(Requests) + failures
      BY <2>1, <3>1 DEF LockAt
    <3>8. wrong[Keys[i]] <= counter[Keys[i]] + Cardinality(U) + failures'
      BY <2>2, <2>3, <3>6, <3>7, <1>1
    <3>9. wrong[Keys[i]] + Cardinality(Q)
            <= Threshold[Keys[i]] - 1 + Cardinality(Requests) + failures'
      <4>1. CASE failures' = failures /\ ~Locked(Keys[i])
        <5>1. counter[Keys[i]] < Threshold[Keys[i]]  BY <2>2, <4>1 DEF Locked
        <5>2. PICK w, c, t : /\ w = wrong[Keys[i]] /\ c = counter[Keys[i]]
                             /\ t = Threshold[Keys[i]]
          OBVIOUS
        <5>3. w \in Nat /\ c \in Nat /\ t \in Nat /\ failures \in Nat
          BY <2>2, <5>2
        <5>4. c < t /\ w <= c + Cardinality(U) + failures
          BY <3>7, <5>1, <5>2
        <5>5. w + Cardinality(Q) <= t - 1 + Cardinality(Requests) + failures
          BY <3>5, <3>6, <5>3, <5>4
        <5> QED  BY <4>1, <5>2, <5>5
      <4>2. CASE failures' = failures + 1
        <5>1. PICK w, t : w = wrong[Keys[i]] /\ t = Threshold[Keys[i]]  OBVIOUS
        <5>2. w \in Nat /\ t \in Nat /\ failures \in Nat
          BY <2>2, <5>1
        <5>3. w + Cardinality(P) <= t - 1 + Cardinality(Requests) + failures
          BY <3>7, <5>1
        <5>4. w + Cardinality(Q) <= t - 1 + Cardinality(Requests) + (failures + 1)
          BY <3>5, <5>2, <5>3
        <5> QED  BY <4>2, <5>1, <5>4
      <4> QED  BY <1>1, <2>6, <4>1, <4>2
    <3>10. PICK V : V = Uncounted(i)'  OBVIOUS
    <3>11. V = U  BY <2>4, <3>1, <3>10
    <3> QED  BY <2>3, <3>1, <3>8, <3>9, <3>10, <3>11 DEF LockAt
  <2> QED  BY <2>5, <2>6
<1> QED  BY <1>3, <1>4 DEF LockInv

(* A password is wrong: it is one less to pass, and one more to count. *)
LEMMA LockFailed ==
  ASSUME AccountTyped, KeysInOrder, LockInv, NEW r \in Requests, NEW right \in BOOLEAN,
         LoginVerify(r, right), AccountTyped'
  PROVE  KeysInOrder' /\ LockInv'
<1>1. /\ Moved(r) /\ req[r].op = "login" /\ req[r].step = "find"
      /\ (\/ req'[r] = Idle /\ UNCHANGED wrong
          \/ /\ ActiveUser /\ UNCHANGED wrong
             /\ req'[r].op = "login" /\ req'[r].step = "reset" /\ req'[r].row = user
             /\ req'[r].key = req[r].key /\ req'[r].late = req[r].late
          \/ /\ ~req[r].locked /\ wrong' = [k \in KeySet |-> wrong[k] + 1]
             /\ req'[r].op = "login" /\ req'[r].step = "failed"
             /\ req'[r].key = req[r].key /\ req'[r].late = req[r].late)
      /\ UNCHANGED <<identity, sessions, counter, failures, history>>
  BY LoginVerifyFacts, Zenon
<1>2. req[r].key = 1  BY <1>1 DEF KeysInOrder
<1>3. KeysInOrder'
  <2>1. req'[r].op = "login" => req'[r].key = 1  BY <1>1, <1>2 DEF Idle
  <2> QED  BY <1>1, <2>1 DEF KeysInOrder, Moved
<1>4. ASSUME NEW i \in DOMAIN Keys PROVE LockAt(i)'
  <2>1. LockAt(i)  BY DEF LockInv
  <2>2. /\ i \in Nat /\ i >= 1 /\ Keys[i] \in KeySet
        /\ counter[Keys[i]] \in Nat /\ wrong[Keys[i]] \in Nat /\ failures \in Nat
        /\ Threshold[Keys[i]] \in Nat
    BY LockNumbers
  <2>3. counter' = counter /\ failures' = failures  BY <1>1
  <2>4. r \notin Passed(i)'  BY <1>1 DEF Passed, Idle
  <2>5. Passed(i)' \subseteq Passed(i) \ {r}
    BY <1>1, <2>4 DEF Passed, Moved
  <2>6. r \notin Uncounted(i) /\ Uncounted(i) \subseteq Uncounted(i)'
    BY <1>1 DEF Uncounted, At, Moved
  <2>7. CASE UNCHANGED wrong
    BY <2>1, <2>2, <2>3, <2>5, <2>6, <2>7, LockSame
  <2>8. CASE /\ ~req[r].locked /\ wrong' = [k \in KeySet |-> wrong[k] + 1]
             /\ req'[r].op = "login" /\ req'[r].step = "failed" /\ req'[r].key = req[r].key
    <3>1. r \in Passed(i)  BY <1>1, <2>8 DEF Passed
    <3>2. r \in Uncounted(i)'  BY <1>2, <2>2, <2>8 DEF Uncounted, At
    <3>3. wrong'[Keys[i]] = wrong[Keys[i]] + 1  BY <2>2, <2>8
    <3>4. PICK P, Q, U, V :
            P = Passed(i) /\ Q = Passed(i)' /\ U = Uncounted(i) /\ V = Uncounted(i)'
      OBVIOUS
    <3>5. /\ P \in SUBSET Requests /\ Q \in SUBSET Requests
          /\ U \in SUBSET Requests /\ V \in SUBSET Requests
      BY <3>4, Groups, GroupsNext
    <3>6. r \in P /\ Q \subseteq P \ {r} /\ r \in V /\ U \subseteq V \ {r}
      BY <2>5, <2>6, <3>1, <3>2, <3>4
    <3>7. /\ Cardinality(P) \in Nat /\ Cardinality(Q) \in Nat
          /\ Cardinality(Requests) \in Nat /\ Cardinality(Q) + 1 <= Cardinality(P)
      BY <3>5, <3>6, Sizes
    <3>8. /\ Cardinality(U) \in Nat /\ Cardinality(V) \in Nat
          /\ Cardinality(U) + 1 <= Cardinality(V)
      BY <3>5, <3>6, Sizes
    <3>9. /\ wrong[Keys[i]] <= counter[Keys[i]] + Cardinality(U) + failures
          /\ wrong[Keys[i]] + Cardinality(P)
               <= Threshold[Keys[i]] - 1 + Cardinality(Requests) + failures
      BY <2>1, <3>4 DEF LockAt
    <3>10. wrong'[Keys[i]] <= counter'[Keys[i]] + Cardinality(V) + failures'
      BY <2>2, <2>3, <3>3, <3>8, <3>9
    <3>11. wrong'[Keys[i]] + Cardinality(Q)
             <= Threshold[Keys[i]] - 1 + Cardinality(Requests) + failures'
      BY <2>2, <2>3, <3>3, <3>7, <3>9
    <3> QED  BY <3>4, <3>10, <3>11 DEF LockAt
  <2> QED  BY <1>1, <2>7, <2>8
<1> QED  BY <1>3, <1>4 DEF LockInv

(* A step that leaves the keys alone and lets nobody through. *)
LEMMA LockQuiet ==
  ASSUME AccountTyped, KeysInOrder, LockInv, AccountTyped', NEW r \in Requests, Moved(r),
         UNCHANGED lockout,
         \/ failures' = failures /\ (req[r].op # "login" \/ req[r].step # "failed")
         \/ failures' = failures + 1,
         \/ req'[r].op # "login"
         \/ req'[r].key = 1 /\ req'[r].step = "locked"
         \/ req'[r].step = "failed" /\ req[r].op = "login" /\ req'[r].key <= req[r].key
  PROVE  LockInv'
<1>1. ASSUME NEW i \in DOMAIN Keys PROVE LockAt(i)'
  <2>1. LockAt(i)  BY DEF LockInv
  <2>2. i \in Nat /\ i >= 1 /\ counter[Keys[i]] \in Nat /\ failures \in Nat
    BY LockNumbers
  <2>3. wrong' = wrong /\ counter' = counter /\ failures' >= failures
    BY <2>2 DEF lockout
  <2>4. r \notin Passed(i)'  BY <2>2 DEF Passed
  <2>5. Passed(i)' \subseteq Passed(i)  BY <2>4 DEF Passed, Moved
  <2>6. Uncounted(i) \subseteq Uncounted(i)' \cup {r}
    BY DEF Uncounted, At, Moved
  <2>7. failures' = failures => r \notin Uncounted(i)
    BY <2>2 DEF Uncounted, At
  <2> QED  BY <2>1, <2>2, <2>3, <2>5, <2>6, <2>7, LockSame
<1> QED  BY <1>1 DEF LockInv

LEMMA LockStill ==
  ASSUME AccountTyped, AccountTyped', KeysInOrder, LockInv, UNCHANGED <<lockout, failures>>,
         \A q \in Requests : /\ req'[q].op = "login" <=> req[q].op = "login"
                             /\ req[q].op = "login" => /\ req'[q].step = req[q].step
                                                       /\ req'[q].key = req[q].key
                                                       /\ req'[q].locked = req[q].locked
  PROVE  KeysInOrder' /\ LockInv'
<1>1. KeysInOrder'  BY DEF KeysInOrder
<1>2. ASSUME NEW i \in DOMAIN Keys PROVE LockAt(i)'
  <2>1. Passed(i)' = Passed(i)  BY DEF Passed
  <2>2. Uncounted(i)' = Uncounted(i)  BY DEF Uncounted, At
  <2>3. LockAt(i) /\ counter[Keys[i]] \in Nat /\ failures \in Nat
    BY LockNumbers DEF LockInv
  <2> QED  BY <2>1, <2>2, <2>3, LockSame DEF lockout
<1> QED  BY <1>1, <1>2 DEF LockInv

LEMMA LockCounted ==
  ASSUME AccountTyped, AccountTyped', KeysInOrder, LockInv, NEW r \in Requests, LoginFailure(r)
  PROVE  KeysInOrder' /\ LockInv'
<1>1. /\ Moved(r) /\ req[r].op = "login" /\ req[r].step = "failed"
      /\ (IF req[r].key < Len(Keys)
          THEN /\ req'[r].op = "login" /\ req'[r].step = "failed"
               /\ req'[r].key = req[r].key + 1 /\ req'[r].late = req[r].late
          ELSE req'[r] = Idle)
      /\ (\/ /\ counter' = [counter EXCEPT ![Keys[req[r].key]] = @ + 1]
             /\ failures' = failures
          \/ failures' = failures + 1 /\ failures < MaxFailures /\ UNCHANGED counter)
      /\ UNCHANGED <<identity, sessions, wrong, history>>
  BY LoginFailureFacts
<1>2. req[r].key \in Nat \ {0} /\ Len(Keys) \in Nat /\ counter \in [KeySet -> Nat]
  BY AccountAssumption DEF AccountTyped, InProgress, TypeOK
<1>3. KeysInOrder'
  <2>1. req'[r].op = "login" => req'[r].key <= Len(Keys) /\ req'[r].step = "failed"
    BY <1>1, <1>2 DEF Idle
  <2> QED  BY <1>1, <2>1 DEF KeysInOrder, Moved
<1>4. ASSUME NEW i \in DOMAIN Keys PROVE LockAt(i)'
  <2>1. LockAt(i)  BY DEF LockInv
  <2>2. /\ i \in Nat /\ i >= 1 /\ i <= Len(Keys) /\ Keys[i] \in KeySet
        /\ counter[Keys[i]] \in Nat /\ failures \in Nat
    BY LockNumbers
  <2>3. r \notin Passed(i)'  BY <1>1 DEF Passed, Idle
  <2>4. Passed(i)' \subseteq Passed(i)  BY <1>1, <2>3 DEF Passed, Moved
  <2>5. Uncounted(i) \subseteq Uncounted(i)' \cup {r}
    BY <1>1 DEF Uncounted, At, Moved
  <2>6. wrong' = wrong  BY <1>1
  <2>7. CASE failures' = failures + 1 /\ UNCHANGED counter
    BY <2>1, <2>2, <2>4, <2>5, <2>6, <2>7, LockSame
  <2>8. CASE failures' = failures /\ Keys[i] = Keys[req[r].key]
             /\ counter' = [counter EXCEPT ![Keys[req[r].key]] = @ + 1]
    <3>1. counter'[Keys[i]] = counter[Keys[i]] + 1  BY <1>2, <2>2, <2>8
    <3>2. counter'[Keys[i]] >= counter[Keys[i]] /\ failures' >= failures
      BY <2>2, <2>8, <3>1
    <3>3. wrong'[Keys[i]] = wrong[Keys[i]]  BY <2>6
    <3> QED  BY <2>1, <2>4, <2>5, <3>1, <3>2, <3>3, LockSame, Zenon
  <2>9. CASE failures' = failures /\ Keys[i] # Keys[req[r].key]
             /\ counter' = [counter EXCEPT ![Keys[req[r].key]] = @ + 1]
    <3>1. counter'[Keys[i]] = counter[Keys[i]]  BY <1>2, <2>2, <2>9
    <3>2. req[r].key # i  BY <2>9
    <3>3. r \in Uncounted(i) => r \in Uncounted(i)'
      BY <1>1, <1>2, <2>2, <3>2 DEF Uncounted, At
    <3>4. Uncounted(i) \subseteq Uncounted(i)'  BY <2>5, <3>3
    <3> QED  BY <2>1, <2>2, <2>4, <2>6, <2>9, <3>1, <3>4, LockSame
  <2> QED  BY <1>1, <2>7, <2>8, <2>9
<1> QED  BY <1>3, <1>4 DEF LockInv

LEMMA LockReset ==
  ASSUME AccountTyped, AccountTyped', KeysInOrder, LockInv, NEW r \in Requests, LoginReset(r)
  PROVE  KeysInOrder' /\ LockInv'
<1>1. /\ Moved(r) /\ req[r].op = "login" /\ req[r].step = "reset"
      /\ req'[r].op = "login"
      /\ (IF req[r].key < Len(Keys)
          THEN req'[r].key = req[r].key + 1 /\ req'[r].step = "reset"
          ELSE req'[r].key = 1 /\ req'[r].step = "create")
      /\ (\/ StartAgain(req[r].key) /\ failures' = failures
          \/ failures' = failures + 1 /\ failures < MaxFailures /\ UNCHANGED lockout)
  BY LoginResetFacts
<1>2. /\ req[r].key \in Nat \ {0} /\ Len(Keys) \in Nat
      /\ counter \in [KeySet -> Nat] /\ wrong \in [KeySet -> Nat]
  BY AccountAssumption DEF AccountTyped, InProgress, TypeOK
<1>3. KeysInOrder'
  <2>1. req'[r].key = 1 \/ (req'[r].key <= Len(Keys) /\ req'[r].step # "find")
    BY <1>1, <1>2
  <2> QED  BY <1>1, <2>1 DEF KeysInOrder, Moved
<1>4. ASSUME NEW i \in DOMAIN Keys PROVE LockAt(i)'
  <2>1. LockAt(i)  BY DEF LockInv
  <2>2. Keys[i] \in KeySet /\ counter[Keys[i]] \in Nat /\ failures \in Nat
    BY LockNumbers
  <2>3. Passed(i)' \subseteq Passed(i)
    BY <1>1 DEF Passed, Moved
  <2>4. Uncounted(i) \subseteq Uncounted(i)'
    BY <1>1 DEF Uncounted, At, Moved
  <2>5. CASE failures' = failures + 1 /\ UNCHANGED lockout
    BY <2>1, <2>2, <2>3, <2>4, <2>5, LockSame DEF lockout
  <2>6. CASE StartAgain(req[r].key) /\ i = req[r].key
    BY <2>4, <2>6, LockCleared
  <2>7. CASE StartAgain(req[r].key) /\ failures' = failures /\ i # req[r].key
    <3>1. req[r].key \in DOMAIN Keys => Keys[i] # Keys[req[r].key]
      BY <2>7, AccountAssumption
    <3>2. req[r].key \in DOMAIN Keys
      <4>1. req[r].key = 1 \/ req[r].key <= Len(Keys)  BY <1>1 DEF KeysInOrder
      <4>2. DOMAIN Keys = 1 .. Len(Keys)  BY AccountAssumption
      <4> QED  BY <1>2, <4>1, <4>2
    <3>3. PICK k, n : /\ k = Keys[req[r].key] /\ n = Cardinality(Uncounted(req[r].key))
      OBVIOUS
    <3>4. counter' = [counter EXCEPT ![k] = 0] /\ wrong' = [wrong EXCEPT ![k] = n] /\ k # Keys[i]
      BY <2>7, <3>1, <3>2, <3>3 DEF StartAgain
    <3>5. wrong'[Keys[i]] = wrong[Keys[i]] /\ counter'[Keys[i]] = counter[Keys[i]]
      BY <1>2, <2>2, <3>4
    <3> QED  BY <2>1, <2>2, <2>3, <2>4, <2>7, <3>5, LockSame
  <2> QED  BY <1>1, <2>5, <2>6, <2>7
<1> QED  BY <1>3, <1>4 DEF LockInv

LEMMA LockWindow ==
  ASSUME AccountTyped, AccountTyped', KeysInOrder, LockInv, NEW k \in DOMAIN Keys, WindowEnds(k)
  PROVE  KeysInOrder' /\ LockInv'
<1>1. /\ StartAgain(k) /\ UNCHANGED <<req, failures>>
      /\ counter \in [KeySet -> Nat] /\ wrong \in [KeySet -> Nat]
  BY DEF WindowEnds, AccountTyped, TypeOK
<1>2. KeysInOrder'  BY <1>1 DEF KeysInOrder
<1>3. ASSUME NEW i \in DOMAIN Keys PROVE LockAt(i)'
  <2>1. LockAt(i) /\ Keys[i] \in KeySet /\ counter[Keys[i]] \in Nat /\ failures \in Nat
    BY LockNumbers DEF LockInv
  <2>2. Passed(i)' = Passed(i) /\ Uncounted(i)' = Uncounted(i)
    BY <1>1 DEF Passed, Uncounted, At
  <2>3. CASE i = k  BY <1>1, <2>2, <2>3, LockCleared
  <2>4. CASE i # k
    <3>1. Keys[i] # Keys[k]  BY <2>4, AccountAssumption
    <3>2. PICK j, n : j = Keys[k] /\ n = Cardinality(Uncounted(k))  OBVIOUS
    <3>3. counter' = [counter EXCEPT ![j] = 0] /\ wrong' = [wrong EXCEPT ![j] = n]
      BY <1>1, <3>2 DEF StartAgain
    <3>4. wrong'[Keys[i]] = wrong[Keys[i]] /\ counter'[Keys[i]] = counter[Keys[i]]
      BY <1>1, <2>1, <3>1, <3>2, <3>3
    <3> QED  BY <1>1, <2>1, <2>2, <3>4, LockSame
  <2> QED  BY <2>3, <2>4
<1> QED  BY <1>2, <1>3 DEF LockInv

LEMMA LockoutInvInit == ASSUME Init PROVE LockoutInv
<1>1. AccountTyped  BY AccountTypedInit
<1>2. \A r \in Requests : req[r].op = "none"  BY DEF Init, Idle
<1>3. KeysInOrder  BY <1>2 DEF KeysInOrder
<1>4. ASSUME NEW i \in DOMAIN Keys PROVE LockAt(i)
  <2>1. /\ Keys[i] \in KeySet /\ Threshold[Keys[i]] \in Nat /\ Threshold[Keys[i]] >= 1
    BY <1>1, LockNumbers
  <2>2. wrong[Keys[i]] = 0 /\ counter[Keys[i]] = 0 /\ failures = 0
    BY <2>1 DEF Init
  <2>3. PICK P, U : P = Passed(i) /\ U = Uncounted(i)  OBVIOUS
  <2>4. P \in SUBSET Requests /\ U \in SUBSET Requests  BY <2>3, Groups
  <2>5. /\ Cardinality(P) \in Nat /\ Cardinality(U) \in Nat /\ Cardinality(Requests) \in Nat
        /\ Cardinality(P) <= Cardinality(Requests)
    BY <2>4, Sizes
  <2> QED  BY <2>1, <2>2, <2>3, <2>5 DEF LockAt
<1> QED  BY <1>3, <1>4 DEF LockoutInv, LockInv

LEMMA LockoutInvNext ==
  ASSUME AccountInv, AccountInv', LockoutInv, [Next]_vars
  PROVE  LockoutInv'
<1>0. AccountTyped /\ AccountTyped' /\ KeysInOrder /\ LockInv
  BY DEF AccountInv, LockoutInv
<1>1. CASE UNCHANGED vars
  BY <1>0, <1>1, LockStill DEF vars, lockout, LockoutInv
<1>2. ASSUME NEW r \in Requests, Moved(r), req'[r].op # "login", UNCHANGED lockout,
             \/ failures' = failures /\ (req[r].op # "login" \/ req[r].step # "failed")
             \/ failures' = failures + 1
      PROVE  LockoutInv'
  <2>1. KeysInOrder'  BY <1>0, <1>2 DEF KeysInOrder, Moved
  <2>2. LockInv'  BY <1>0, <1>2, LockQuiet
  <2> QED  BY <2>1, <2>2 DEF LockoutInv
<1>3. ASSUME NEW r \in Requests,
             \/ Register(r) \/ RequestPasswordReset(r) \/ VerifyEmail(r)
             \/ \E t \in mailbox \ {Verification} : Begin(r, "reset", "token", t)
             \/ ResetSave(r) \/ FindToken(r) \/ FindUser(r) \/ Consume(r)
      PROVE  LockoutInv'
  <2>1. /\ Moved(r) /\ req[r].op # "login" /\ req'[r].op # "login"
        /\ UNCHANGED <<sessions, lockout, failures, settled>>
    BY <1>3, ElsewhereFacts, Zenon
  <2> QED  BY <1>2, <2>1
<1>4. ASSUME NEW r \in Requests, Begin(r, "login", "locked", Verification)
      PROVE  LockoutInv'
  <2>1. /\ Moved(r) /\ req[r] = Idle
        /\ req'[r].op = "login" /\ req'[r].step = "locked" /\ req'[r].key = 1
        /\ UNCHANGED <<identity, sessions, lockout, failures, history>>
    BY <1>4, LoginBegins
  <2>2. req[r].op # "login"  BY <2>1 DEF Idle
  <2>3. KeysInOrder'  BY <1>0, <2>1 DEF KeysInOrder, Moved
  <2>4. LockInv'  BY <1>0, <2>1, <2>2, LockQuiet
  <2> QED  BY <2>3, <2>4 DEF LockoutInv
<1>5. ASSUME NEW r \in Requests, LoginCheckLock(r)
      PROVE  LockoutInv'
  BY <1>0, <1>5, LockPassed DEF LockoutInv
<1>6. ASSUME NEW r \in Requests, NEW right \in BOOLEAN, LoginVerify(r, right)
      PROVE  LockoutInv'
  BY <1>0, <1>6, LockFailed DEF LockoutInv
<1>7. ASSUME NEW r \in Requests, LoginFailure(r)
      PROVE  LockoutInv'
  BY <1>0, <1>7, LockCounted DEF LockoutInv
<1>8. ASSUME NEW r \in Requests, LoginReset(r)
      PROVE  LockoutInv'
  BY <1>0, <1>8, LockReset DEF LockoutInv
<1>9. ASSUME NEW r \in Requests, LoginCreate(r)
      PROVE  LockoutInv'
  <2>1. /\ Moved(r) /\ req'[r].op # "login" /\ req[r].step = "create"
        /\ UNCHANGED <<identity, lockout, failures, history>>
    BY <1>9, LoginCreateFacts DEF Idle
  <2> QED  BY <1>2, <2>1
<1>10. ASSUME NEW r \in Requests, RevokeSessions(r)
       PROVE  LockoutInv'
  <2>1. /\ \A q \in Requests :
             /\ req'[q].op = req[q].op /\ req'[q].key = req[q].key
             /\ req'[q].locked = req[q].locked /\ (q # r => req'[q].step = req[q].step)
        /\ req[r].op = "reset"
        /\ UNCHANGED <<identity, lockout, failures, history>>
    BY <1>0, <1>10, RevokeSessionsFacts
  <2> QED  BY <1>0, <2>1, LockStill DEF LockoutInv
<1>11. ASSUME NEW r \in Requests, Answer(r)
       PROVE  LockoutInv'
  <2>1. /\ Moved(r) /\ req'[r].op # "login" /\ req[r].step = "answer"
        /\ UNCHANGED <<identity, sessions, lockout, failures, clobbered, stranded>>
    BY <1>11, AnswerFacts DEF Idle
  <2> QED  BY <1>2, <2>1
<1>12. ASSUME NEW r \in Requests, Die(r)
       PROVE  LockoutInv'
  <2>1. Moved(r) /\ req'[r].op # "login" /\ UNCHANGED lockout /\ failures' = failures + 1
    BY <1>0, <1>12, ReturnFacts DEF Die, Idle
  <2> QED  BY <1>2, <2>1
<1>13. ASSUME NEW t \in TokenIds, Expire(t)
       PROVE  LockoutInv'
  BY <1>0, <1>13, LockStill DEF Expire, LockoutInv
<1>14. ASSUME NEW k \in DOMAIN Keys, WindowEnds(k)
       PROVE  LockoutInv'
  BY <1>0, <1>14, LockWindow DEF LockoutInv
<1>15. CASE LogoutAll
  BY <1>0, <1>15, LockStill DEF LogoutAll, LockoutInv
<1>16. CASE Next
  BY <1>3, <1>4, <1>5, <1>6, <1>7, <1>8, <1>9, <1>10, <1>11, <1>12, <1>13, <1>14, <1>15,
     <1>16, NextCases, Zenon
<1> QED  BY <1>1, <1>16

-----------------------------------------------------------------------------
LEMMA AccountInvAlways == Spec => []AccountInv
<1>1. Init => AccountInv  BY AccountInvInit
<1>2. AccountInv /\ [Next]_vars => AccountInv'  BY AccountInvNext
<1> QED  BY <1>1, <1>2, PTL DEF Spec

(***************************************************************************)
(* An account that waits for its verification can be verified: its token   *)
(* works and is in the mailbox, or has expired, or a registration is about *)
(* to mail it or has died.                                                 *)
(***************************************************************************)
THEOREM PendingAccountsCanVerifyAlways == Spec => []PendingAccountsCanVerify
<1>1. AccountInv => PendingAccountsCanVerify
  <2> SUFFICES ASSUME AccountInv, user # NoUser, user.status = "pending", ~stranded,
                      ~\E r \in Requests : Registering(r), tokens[Verification] # "expired"
               PROVE  Usable(Verification) /\ Verification \in mailbox
    BY DEF PendingAccountsCanVerify, Registering
  <2>1. Verification \in mailbox  BY DEF AccountInv, RegistrationInv
  <2>2. Verification \in TokenIds  BY DEF TokenIds
  <2>3. tokens[Verification] \in TokenStatus
    BY <2>2 DEF AccountInv, AccountTyped, TypeOK
  <2>4. tokens[Verification] # "none" /\ tokens[Verification] # "consumed"
    BY <2>1 DEF AccountInv, RowInv, ActiveUser
  <2> QED  BY <2>1, <2>3, <2>4 DEF TokenStatus, Usable
<1> QED  BY <1>1, AccountInvAlways, PTL

(***************************************************************************)
(* What an answered reset guarantees, whatever requests overlap it: a      *)
(* request that begins afterwards does not use its token again, and the    *)
(* account keeps its password or a newer one, unless a verification that   *)
(* had loaded the row before wrote it back.                                *)
(***************************************************************************)
THEOREM ResetTakesHoldAlways == Spec => []ResetTakesHold
<1>1. AccountInv => ResetTakesHold
  <2> SUFFICES ASSUME AccountInv PROVE ResetTakesHold
    OBVIOUS
  <2>1. SpentTokenStaysSpent  BY DEF AccountInv, RequestInv, SpentTokenStaysSpent
  <2>2. ASSUME settled > 0 PROVE user.password >= settled \/ clobbered
    <3>1. settled \in Nat /\ outbox.changed \in Nat /\ settled <= outbox.changed
      BY DEF AccountInv, AccountTyped, TypeOK, RowInv
    <3>2. outbox.changed # 0  BY <2>2, <3>1
    <3>3. user # NoUser  BY <3>2 DEF AccountInv, RowInv
    <3> QED  BY <3>3, NewestPassword
  <2> QED  BY <2>1, <2>2 DEF ResetTakesHold, ResetPasswordSticks
<1> QED  BY <1>1, AccountInvAlways, PTL

(***************************************************************************)
(* An answered reset has ended the sessions of older passwords, but for a  *)
(* login that was past its check when they were revoked.                   *)
(***************************************************************************)
THEOREM SessionsEndWithResetAlways == Spec => []SessionsEndWithReset
<1>1. Init => SessionsInv
  BY DEF Init, Idle, SessionsInv, Ended, Verified, At
<1>2. AccountInv /\ SessionsInv /\ [Next]_vars => SessionsInv'
  BY SessionsInvNext
<1>3. SessionsInv => SessionsEndWithReset
  BY DEF SessionsInv, Ended, SessionsEndWithReset
<1> QED  BY <1>1, <1>2, <1>3, AccountInvAlways, PTL DEF Spec

(***************************************************************************)
(* However many logins run at once, and however Redis fails, the wrong     *)
(* passwords tried under a key since its count began are fewer than its    *)
(* threshold, plus one for each concurrent request and each failure.       *)
(***************************************************************************)
THEOREM LoginGuessesAreBoundedAlways == Spec => []LoginGuessesAreBounded
<1>1. Init => LockoutInv  BY LockoutInvInit
<1>2. AccountInv /\ AccountInv' /\ LockoutInv /\ [Next]_vars => LockoutInv'
  BY LockoutInvNext
<1>3. AccountInv /\ LockoutInv => LoginGuessesAreBounded
  <2> SUFFICES ASSUME AccountInv, LockoutInv, NEW k \in KeySet
               PROVE  wrong[k] <= Threshold[k] - 1 + Cardinality(Requests) + failures
    BY DEF LoginGuessesAreBounded
  <2>1. PICK i \in DOMAIN Keys : Keys[i] = k  BY DEF KeySet
  <2>2. LockAt(i) /\ AccountTyped  BY DEF LockoutInv, LockInv, AccountInv
  <2>3. wrong[k] \in Nat /\ Threshold[k] \in Nat /\ failures \in Nat
    BY <2>1, <2>2, LockNumbers
  <2>4. PICK P : P = Passed(i)  OBVIOUS
  <2>5. P \in SUBSET Requests  BY <2>4, Groups
  <2>6. Cardinality(P) \in Nat /\ Cardinality(Requests) \in Nat  BY <2>5, Sizes
  <2>7. wrong[k] + Cardinality(P) <= Threshold[k] - 1 + Cardinality(Requests) + failures
    BY <2>1, <2>2, <2>4 DEF LockAt
  <2> QED  BY <2>3, <2>6, <2>7
<1> QED  BY <1>1, <1>2, <1>3, AccountInvAlways, PTL DEF Spec
=============================================================================
