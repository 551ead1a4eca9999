---------------------------- MODULE SecondFactor ----------------------------
(***************************************************************************)
(* The second factor of one user: enrollment, activation, replacement and  *)
(* disabling of TOTP credentials, recovery codes, and step-up with either  *)
(* behind a lockout.                                                       *)
(*                                                                         *)
(* Every handler reads, waits and writes back: a credential is loaded,     *)
(* changed in memory and saved whole.  A request is split at each of its   *)
(* awaits on PostgreSQL and Redis; any number of requests interleave.      *)
(* A TOTP code is the pair of the credential whose secret produces it and  *)
(* the time step it is for; a batch of recovery codes is one of its codes. *)
(***************************************************************************)
EXTENDS Integers, FiniteSets

CONSTANTS
  Requests,        \* concurrent requests of the user, or in the user's name
  Creds,           \* credential identifiers that may be drawn
  MaxBatch,        \* bound on batches of recovery codes
  MaxClock,        \* bound on TOTP time steps
  Threshold,       \* lockout policy of the second factor
  MaxFailures,     \* bound on failed statements
  None             \* no credential

ASSUME SecondFactorAssumption ==
  /\ IsFiniteSet(Requests)
  /\ MaxBatch \in Nat /\ MaxClock \in Nat /\ MaxFailures \in Nat
  /\ Threshold \in Nat \ {0}
  /\ None \notin Creds

Steps == 0 .. MaxClock
Unused == -1                    \* lastUsedStep is null

VARIABLES
  row,        \* mfa_credentials: status and last used step of each credential
  codes,      \* recovery_codes: status of each batch's code
  failures,   \* the lockout counter in Redis
  aal,        \* the highest assurance level that a token of the user carries
  clock,      \* the current time step
  step,       \* where each request is
  op,         \* what each request does
  cred,       \* the credential that a request handles, as it loaded it
  other,      \* the active credential that an activation replaces
  input,      \* the code that a request presents
  doomed,     \* the recovery codes that a replacement found
  broken,     \* failed statements, of PostgreSQL and of Redis
  used,       \* history: TOTP codes accepted
  redeemed,   \* history: how often each recovery code was accepted
  enabled,    \* history: MFA was activated, and not disabled since
  wrong,      \* history: wrong codes tried since the counter started
  raced       \* history: what was overwritten by a request that had not seen it

vars == <<row, codes, failures, aal, clock, step, op, cred, other, input,
          doomed, broken, used, redeemed, enabled, wrong, raced>>

history == <<used, redeemed, enabled, wrong, raced>>
tables == <<row, codes, failures, aal>>
locals == <<op, cred, other, input, doomed>>

Batches == 1 .. MaxBatch
Totp == Creds \X Steps
NoCode == <<None, Unused>>
NoCred == [id |-> None, status |-> "none", last |-> Unused]

(* An activation by a caller whose token is of level 2 is a reactivation.  *)
Ops == {"enroll", "activate", "reactivate", "disable", "regenerate", "totp",
        "recovery"}
SteppedUp == {"reactivate", "disable", "regenerate"}
Activations == {"activate", "reactivate"}

Init ==
  /\ row = [c \in Creds |-> [status |-> "none", last |-> Unused]]
  /\ codes = [b \in Batches |-> "none"]
  /\ failures = 0
  /\ aal = 1
  /\ clock = 0
  /\ step = [r \in Requests |-> "idle"]
  /\ op = [r \in Requests |-> "none"]
  /\ cred = [r \in Requests |-> NoCred]
  /\ other = [r \in Requests |-> NoCred]
  /\ input = [r \in Requests |-> NoCode]
  /\ doomed = [r \in Requests |-> {}]
  /\ broken = 0
  /\ used = {}
  /\ redeemed = [b \in Batches |-> 0]
  /\ enabled = FALSE
  /\ wrong = 0
  /\ raced = {}

-----------------------------------------------------------------------------
Goto(r, s) == step' = [step EXCEPT ![r] = s]

(* What a request had loaded is of no more use to it. *)
Forget(r) ==
  /\ op' = [op EXCEPT ![r] = "none"]
  /\ cred' = [cred EXCEPT ![r] = NoCred]
  /\ other' = [other EXCEPT ![r] = NoCred]
  /\ input' = [input EXCEPT ![r] = NoCode]
  /\ doomed' = [doomed EXCEPT ![r] = {}]

Return(r) == Goto(r, "idle") /\ Forget(r)

(* findByStatus: one of the credentials with the status, as it is now. *)
Found(status) ==
  LET hits == {c \in Creds : row[c].status = status}
  IN IF hits = {} THEN {NoCred}
     ELSE {[id |-> c, status |-> status, last |-> row[c].last] : c \in hits}

(* The unique index admits one active credential. *)
Saves(c, new) ==
  new.status = "active" => \A d \in Creds \ {c} : row[d].status # "active"

(* save: the row becomes what the request made of the credential it had    *)
(* loaded, whatever the row is by now.                                     *)
Save(loaded, status, last) ==
  LET c == loaded.id IN
  /\ row' = [row EXCEPT ![c] = [status |-> status, last |-> last]]
  /\ raced' = raced \cup
       (IF row[c] # [status |-> loaded.status, last |-> loaded.last]
        THEN {"credential"} ELSE {})

-----------------------------------------------------------------------------
(* The bounds leave an identifier for each enrollment and a batch for each *)
(* issue of codes that has begun.                                          *)
Enrolling == {q \in Requests : op[q] = "enroll"}

Issuing ==
  {q \in Requests : op[q] \in Activations \cup {"regenerate"}
                    \/ step[q] \in {"delete", "insert"}}

WithinBounds(o) ==
  /\ o = "enroll" =>
       Cardinality({c \in Creds : row[c].status = "none"}) > Cardinality(Enrolling)
  /\ o \in Activations \cup {"regenerate"} =>
       Cardinality({b \in Batches : codes[b] = "none"}) > Cardinality(Issuing)

(* A request arrives.  Disabling MFA and regenerating codes need a token   *)
(* of level 2 (StepUpGuard); a step-up and an activation bring a code.     *)
Arrive(r, o, code) ==
  /\ step[r] = "idle"
  /\ WithinBounds(o)
  /\ o \in SteppedUp => aal = 2
  /\ o \in Activations \cup {"totp"} => code \in Totp
  /\ o = "recovery" => code \in {<<None, b>> : b \in Batches}
  /\ o \in {"enroll", "disable", "regenerate"} => code = NoCode
  /\ op' = [op EXCEPT ![r] = o]
  /\ input' = [input EXCEPT ![r] = code]
  /\ Goto(r, IF o \in {"totp", "recovery"} THEN "locked" ELSE "find")
  /\ UNCHANGED <<tables, clock, cred, other, doomed, broken, history>>

MutSuperseded == Found("active")

(* enroll: the pending credential, if any, is superseded. *)
Superseded == Found("pending")

EnrollFind(r) ==
  /\ step[r] = "find" /\ op[r] = "enroll"
  /\ \E p \in Superseded :
       /\ cred' = [cred EXCEPT ![r] = p]
       /\ Goto(r, IF p = NoCred THEN "enroll" ELSE "supersede")
  /\ UNCHANGED <<tables, clock, op, other, input, doomed, broken, history>>

Supersede(r) ==
  /\ step[r] = "supersede"
  /\ Save(cred[r], "revoked", cred[r].last)
  /\ Goto(r, "enroll")
  /\ UNCHANGED <<codes, failures, aal, clock, locals, broken, used, redeemed,
                 enabled, wrong>>

Enroll(r) ==
  /\ step[r] = "enroll"
  /\ \E c \in Creds :
       /\ row[c].status = "none"
       /\ row' = [row EXCEPT ![c].status = "pending"]
  /\ Return(r)
  /\ UNCHANGED <<codes, failures, aal, clock, broken, history>>

-----------------------------------------------------------------------------
(* Rfc6238Totp.verify: the code is of this secret, within the drift        *)
(* window, and newer than the step that was used last.                     *)
Matches(c, code) ==
  /\ code[1] = c.id
  /\ code[2] \in clock - 1 .. clock + 1
  /\ code[2] > c.last

(* activate: the pending credential and its first code. *)
ActivateFind(r) ==
  /\ step[r] = "find" /\ op[r] \in Activations
  /\ \E p \in Found("pending") :
       \/ /\ p # NoCred /\ Matches(p, input[r])
          /\ cred' = [cred EXCEPT ![r] = p]
          /\ Goto(r, "findActive")
          /\ UNCHANGED <<op, other, input, doomed>>
       \/ /\ p = NoCred \/ ~Matches(p, input[r])
          /\ Return(r)
  /\ UNCHANGED <<tables, clock, broken, history>>

MutMayReplace(r) == TRUE

(* An active credential is replaced only for a caller of level 2. *)
MayReplace(r) == op[r] = "reactivate"

ActivateCheck(r) ==
  /\ step[r] = "findActive"
  /\ \E a \in Found("active") :
       \/ /\ a # NoCred /\ ~MayReplace(r)
          /\ Return(r)
       \/ /\ a = NoCred \/ MayReplace(r)
          /\ other' = [other EXCEPT ![r] = a]
          /\ Goto(r, IF a = NoCred THEN "activate" ELSE "replace")
          /\ UNCHANGED <<op, cred, input, doomed>>
  /\ UNCHANGED <<tables, clock, broken, history>>

Replace(r) ==
  /\ step[r] = "replace"
  /\ Save(other[r], "revoked", other[r].last)
  /\ Goto(r, "activate")
  /\ UNCHANGED <<codes, failures, aal, clock, locals, broken, used, redeemed,
                 enabled, wrong>>

MutActivate(r) ==
  /\ step[r] = "activate"
  /\ \/ /\ Saves(cred[r].id, [status |-> "active"])
        /\ Save(cred[r], "active", cred[r].last)
        /\ used' = used \cup {input[r]}
        /\ enabled' = TRUE
        /\ Goto(r, "delete")
        /\ Forget(r)
     \/ /\ ~Saves(cred[r].id, [status |-> "active"])
        /\ Return(r)
        /\ UNCHANGED <<row, raced, used, enabled>>
  /\ UNCHANGED <<codes, failures, aal, clock, broken, redeemed, wrong>>

(* The pending credential becomes active and its code is used up; then     *)
(* recovery codes are issued.  The insert of a second active row fails.    *)
Activate(r) ==
  /\ step[r] = "activate"
  /\ \/ /\ Saves(cred[r].id, [status |-> "active"])
        /\ Save(cred[r], "active", input[r][2])
        /\ used' = used \cup {input[r]}
        /\ enabled' = TRUE
        /\ Goto(r, "delete")
        /\ Forget(r)
     \/ /\ ~Saves(cred[r].id, [status |-> "active"])
        /\ Return(r)
        /\ UNCHANGED <<row, raced, used, enabled>>
  /\ UNCHANGED <<codes, failures, aal, clock, broken, redeemed, wrong>>

(* disable and regenerate need an active credential. *)
ActiveFind(r) ==
  /\ step[r] = "find" /\ op[r] \in {"disable", "regenerate"}
  /\ \E a \in Found("active") :
       \/ /\ a = NoCred
          /\ Return(r)
       \/ /\ a # NoCred
          /\ \/ /\ op[r] = "disable"
                /\ cred' = [cred EXCEPT ![r] = a]
                /\ Goto(r, "disable")
                /\ UNCHANGED <<op, other, input, doomed>>
             \/ /\ op[r] = "regenerate"
                /\ Goto(r, "delete")
                /\ Forget(r)
  /\ UNCHANGED <<tables, clock, broken, history>>

Disable(r) ==
  /\ step[r] = "disable"
  /\ Save(cred[r], "revoked", cred[r].last)
  /\ enabled' = FALSE
  /\ Return(r)
  /\ UNCHANGED <<codes, failures, aal, clock, broken, used, redeemed, wrong>>

-----------------------------------------------------------------------------
(* The recovery codes that a statement would find unused. *)
Live == {b \in Batches : codes[b] = "live"}

(* replaceForUser: the delete sees the codes committed when it starts.     *)
DeleteCodes(r) ==
  /\ step[r] = "delete"
  /\ doomed' = [doomed EXCEPT ![r] = Live]
  /\ raced' = raced \cup
       (IF \E q \in Requests \ {r} : step[q] = "insert" THEN {"codes"} ELSE {})
  /\ Goto(r, "insert")
  /\ UNCHANGED <<tables, clock, op, cred, other, input, broken, used, redeemed,
                 enabled, wrong>>

(* The commit: the codes found are gone and a new batch is there. *)
InsertCodes(r) ==
  /\ step[r] = "insert"
  /\ \E b \in Batches :
       /\ codes[b] = "none"
       /\ \A x \in 1 .. b - 1 : codes[x] # "none"
       /\ codes' = [x \in Batches |->
            IF x = b THEN "live" ELSE IF x \in doomed[r] THEN "gone" ELSE codes[x]]
  /\ Return(r)
  /\ UNCHANGED <<row, failures, aal, clock, broken, history>>

-----------------------------------------------------------------------------
Exceeded == failures >= Threshold

(* Step-up: isLocked; a failing Redis lets the attempt through. *)
IsLocked(r) ==
  /\ step[r] = "locked"
  /\ \/ /\ Exceeded
        /\ Return(r)
        /\ UNCHANGED broken
     \/ /\ ~Exceeded
        /\ Goto(r, "find")
        /\ UNCHANGED <<locals, broken>>
     \/ /\ Exceeded /\ broken < MaxFailures
        /\ broken' = broken + 1
        /\ Goto(r, "find")
        /\ UNCHANGED locals
  /\ UNCHANGED <<tables, clock, history>>

(* A proof is not accepted: the attempt is to be counted. *)
Reject(r) == Goto(r, "failed") /\ wrong' = wrong + 1 /\ Forget(r)

(* IdentitySecondFactor.verify with a TOTP code. *)
TotpFind(r) ==
  /\ step[r] = "find" /\ op[r] = "totp"
  /\ \E a \in Found("active") :
       \/ /\ a = NoCred
          /\ Reject(r)
       \/ /\ a # NoCred
          /\ cred' = [cred EXCEPT ![r] = a]
          /\ Goto(r, "verify")
          /\ UNCHANGED <<op, other, input, doomed, wrong>>
  /\ UNCHANGED <<tables, clock, broken, used, redeemed, enabled, raced>>

Verify(r) ==
  /\ step[r] = "verify"
  /\ \/ Matches(cred[r], input[r]) /\ Goto(r, "use") /\ UNCHANGED <<locals, wrong>>
     \/ ~Matches(cred[r], input[r]) /\ Reject(r)
  /\ UNCHANGED <<tables, clock, broken, used, redeemed, enabled, raced>>

(* registerUse, and the credential is saved as it was loaded otherwise. *)
Use(r) ==
  /\ step[r] = "use"
  /\ \/ /\ Saves(cred[r].id, [status |-> "active"])
        /\ Save(cred[r], "active", input[r][2])
        /\ used' = used \cup {input[r]}
        /\ Goto(r, "reset")
        /\ Forget(r)
     \/ /\ ~Saves(cred[r].id, [status |-> "active"])
        /\ Return(r)
        /\ UNCHANGED <<row, raced, used>>
  /\ UNCHANGED <<codes, failures, aal, clock, broken, redeemed, enabled, wrong>>

(* RedeemRecoveryCodeHandler: the code is looked up. *)
RecoveryFind(r) ==
  /\ step[r] = "find" /\ op[r] = "recovery"
  /\ \/ codes[input[r][2]] = "live" /\ Goto(r, "consume") /\ UNCHANGED <<locals, wrong>>
     \/ codes[input[r][2]] # "live" /\ Reject(r)
  /\ UNCHANGED <<tables, clock, broken, used, redeemed, enabled, raced>>

MutConsumable(b) == codes[b] \in {"live", "consumed"}

(* consume updates the row only while it is not consumed. *)
Consumable(b) == codes[b] = "live"

(* A code that a replacement is deleting is locked until it commits. *)
Consume(r) ==
  LET b == input[r][2] IN
  /\ step[r] = "consume"
  /\ \A q \in Requests : step[q] = "insert" => b \notin doomed[q]
  /\ \/ /\ Consumable(b)
        /\ codes' = [codes EXCEPT ![b] = "consumed"]
        /\ redeemed' = [redeemed EXCEPT ![b] = @ + 1]
        /\ Goto(r, "reset")
        /\ Forget(r)
        /\ UNCHANGED wrong
     \/ /\ ~Consumable(b)
        /\ Reject(r)
        /\ UNCHANGED <<codes, redeemed>>
  /\ UNCHANGED <<row, failures, aal, clock, broken, used, enabled, raced>>

(* registerFailure; a failing Redis loses the count. *)
RegisterFailure(r) ==
  /\ step[r] = "failed"
  /\ \/ failures' = failures + 1 /\ UNCHANGED broken
     \/ broken < MaxFailures /\ broken' = broken + 1 /\ UNCHANGED failures
  /\ Return(r)
  /\ UNCHANGED <<row, codes, aal, clock, history>>

Uncounted == Cardinality({r \in Requests : step[r] = "failed"})

(* The counter is deleted; attempts that are not counted yet start it anew. *)
Restart == failures' = 0 /\ wrong' = Uncounted

(* lockout.reset, sessions.elevate and the token of level 2. *)
ResetLockout(r) ==
  /\ step[r] = "reset"
  /\ \/ Restart /\ UNCHANGED broken
     \/ broken < MaxFailures /\ broken' = broken + 1 /\ UNCHANGED <<failures, wrong>>
  /\ Goto(r, "elevate")
  /\ UNCHANGED <<row, codes, aal, clock, locals, used, redeemed, enabled, raced>>

Elevate(r) ==
  /\ step[r] = "elevate"
  /\ aal' = 2
  /\ Return(r)
  /\ UNCHANGED <<row, codes, failures, clock, broken, history>>

-----------------------------------------------------------------------------
(* A statement fails: the request ends where it is. *)
Fail(r) ==
  /\ step[r] # "idle"
  /\ broken < MaxFailures
  /\ broken' = broken + 1
  /\ Return(r)
  /\ UNCHANGED <<tables, clock, history>>

(* The lockout window ends. *)
WindowEnds ==
  /\ failures > 0
  /\ Restart
  /\ UNCHANGED <<row, codes, aal, clock, step, locals, broken, used, redeemed,
                 enabled, raced>>

Tick ==
  /\ clock < MaxClock
  /\ clock' = clock + 1
  /\ UNCHANGED <<tables, step, locals, broken, history>>

RequestStep(r) ==
  \/ \E o \in Ops, code \in Totp \cup {<<None, b>> : b \in Batches} \cup {NoCode} :
       Arrive(r, o, code)
  \/ EnrollFind(r) \/ Supersede(r) \/ Enroll(r)
  \/ ActivateFind(r) \/ ActivateCheck(r) \/ Replace(r) \/ Activate(r)
  \/ ActiveFind(r) \/ Disable(r)
  \/ DeleteCodes(r) \/ InsertCodes(r)
  \/ IsLocked(r) \/ TotpFind(r) \/ Verify(r) \/ Use(r)
  \/ RecoveryFind(r) \/ Consume(r)
  \/ RegisterFailure(r) \/ ResetLockout(r) \/ Elevate(r)
  \/ Fail(r)

Next == (\E r \in Requests : RequestStep(r)) \/ WindowEnds \/ Tick

Spec == Init /\ [][Next]_vars

-----------------------------------------------------------------------------
Status == {"none", "pending", "active", "revoked"}

TypeOK ==
  /\ row \in [Creds -> [status : Status, last : Steps \cup {Unused}]]
  /\ codes \in [Batches -> {"none", "live", "consumed", "gone"}]
  /\ failures \in Nat
  /\ aal \in 1 .. 2
  /\ clock \in 0 .. MaxClock
  /\ step \in [Requests -> {"idle", "find", "supersede", "enroll", "findActive",
                "replace", "activate", "disable", "delete", "insert", "locked",
                "verify", "use", "consume", "failed", "reset", "elevate"}]
  /\ op \in [Requests -> Ops \cup {"none"}]
  /\ cred \in [Requests -> [id : Creds \cup {None}, status : Status,
                            last : Steps \cup {Unused}]]
  /\ other \in [Requests -> [id : Creds \cup {None}, status : Status,
                             last : Steps \cup {Unused}]]
  /\ input \in [Requests -> (Creds \cup {None}) \X (Steps \cup Batches \cup {Unused})]
  /\ doomed \in [Requests -> SUBSET Batches]
  /\ broken \in 0 .. MaxFailures
  /\ used \in SUBSET Totp
  /\ redeemed \in [Batches -> Nat]
  /\ enabled \in BOOLEAN
  /\ wrong \in Nat
  /\ raced \in SUBSET {"credential", "codes"}

(***************************************************************************)
(* A recovery code is accepted once, whatever requests present it at the   *)
(* same time and whatever replacements of the batch run beside them.       *)
(***************************************************************************)
RecoveryCodeIsSingleUse == \A b \in Batches : redeemed[b] <= 1

(***************************************************************************)
(* A TOTP code, the one of the activation included, is accepted once, as   *)
(* long as no request overwrites a credential that changed after it was    *)
(* loaded.  The replay guard is a column that is read, compared in memory  *)
(* and written back, so two requests in flight are what it cannot see.     *)
(***************************************************************************)
TotpIsSingleUse ==
  [][\A r \in Requests :
       (/\ step[r] \in {"use", "activate"} /\ step'[r] \in {"reset", "delete"}
        /\ input[r] \in used)
       => "credential" \in raced']_vars

(***************************************************************************)
(* A revoked credential stays revoked, and an active one is given up only  *)
(* by a caller who proved a second factor, unless a request overwrites a   *)
(* credential that changed after it was loaded.                            *)
(***************************************************************************)
FactorIsProtected ==
  [][\A c \in Creds :
       /\ row[c].status = "revoked" =>
            row'[c].status = "revoked" \/ "credential" \in raced'
       /\ (row[c].status = "active" /\ row'[c].status # "active") =>
            \/ "credential" \in raced'
            \/ \E r \in Requests : op[r] \in SteppedUp /\ step'[r] # step[r]]_vars

(***************************************************************************)
(* MFA that was activated and not disabled stays on: the only gap is an    *)
(* activation between the two saves with which it replaces the factor, or  *)
(* one that died there.                                                    *)
(***************************************************************************)
MfaStaysOn ==
  (enabled /\ "credential" \notin raced /\ broken = 0) =>
    \/ \E c \in Creds : row[c].status = "active"
    \/ \E r \in Requests : step[r] = "activate" /\ other[r] # NoCred

(***************************************************************************)
(* A new batch of recovery codes ends the older ones, unless two           *)
(* replacements overlapped: neither deletes what the other inserts.        *)
(***************************************************************************)
OneLiveBatch ==
  "codes" \in raced \/ Cardinality({b \in Batches : codes[b] = "live"}) <= 1

(***************************************************************************)
(* The lockout bounds guessing: parallel attempts that pass isLocked       *)
(* before a failure is counted, and Redis failing open, add at most one    *)
(* wrong code each.                                                        *)
(***************************************************************************)
GuessesAreBounded == wrong <= Threshold - 1 + Cardinality(Requests) + broken

(***************************************************************************)
(* What a stolen or guessed code is worth: a recovery code is accepted     *)
(* once, a replacement leaves no older batch behind, and the lockout       *)
(* bounds the guesses.                                                     *)
(***************************************************************************)
CodesAreContained == RecoveryCodeIsSingleUse /\ OneLiveBatch /\ GuessesAreBounded
=============================================================================
