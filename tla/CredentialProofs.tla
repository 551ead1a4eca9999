-------------------------- MODULE CredentialProofs --------------------------
(***************************************************************************)
(* Proofs about what vouches for a user and for a token.                   *)
(*                                                                         *)
(* SecondFactor comes first: types, that what a stolen code is worth is    *)
(* bounded, and that short of an overwritten credential a TOTP code is     *)
(* used once, a factor is given up only by who proved one, and MFA stays   *)
(* on; for any number of requests, credentials and batches.                *)
(*                                                                         *)
(* SigningKeys follows: the version in charge was promoted unless a        *)
(* rotation is on its way to pin it, every document covers the tokens that *)
(* its drains are for, and a key that a cached set lacks was made since;   *)
(* for any number of commands, issuances, readers and versions.            *)
(***************************************************************************)
EXTENDS SecondFactor, SigningKeys, FiniteSetTheorems, WellFoundedInduction, TLAPS

(* The types, of what requests keep and of what they share. *)
RequestTypes ==
  /\ step \in [Requests -> {"idle", "find", "supersede", "enroll", "findActive",
                "replace", "activate", "disable", "delete", "insert", "locked",
                "verify", "use", "consume", "failed", "reset", "elevate"}]
  /\ op \in [Requests -> Ops \cup {"none"}]
  /\ cred \in [Requests -> [id : Creds \cup {None}, status : Status,
                            last : Steps \cup {Unused}]]
  /\ other \in [Requests -> [id : Creds \cup {None}, status : Status,
                             last : Steps \cup {Unused}]]
  /\ input \in [Requests -> (Creds \cup {None}) \X (Steps \cup Batches \cup {Unused})]
  /\ doomed \in [Requests -> SUBSET Batches]

SharedTypes ==
  /\ row \in [Creds -> [status : Status, last : Steps \cup {Unused}]]
  /\ codes \in [Batches -> {"none", "live", "consumed", "gone"}]
  /\ failures \in Nat
  /\ aal \in 1 .. 2
  /\ clock \in 0 .. MaxClock
  /\ broken \in 0 .. MaxFailures
  /\ used \in SUBSET Totp
  /\ redeemed \in [Batches -> Nat]
  /\ enabled \in BOOLEAN
  /\ wrong \in Nat
  /\ raced \in SUBSET {"credential", "codes"}

(* A credential that a lookup found with the status. *)
Loaded(x, status) == x.id \in Creds /\ x.status = status

(* The code of a request is of its credential, and newer than the last one *)
(* that was used when the credential was loaded.                           *)
Fresh(r) ==
  /\ input[r] \in Totp
  /\ input[r][1] = cred[r].id
  /\ input[r][2] > cred[r].last

(* What a request carries from one await to the next. *)
RequestFits(r) ==
  /\ op[r] \in Activations \cup {"totp"} => input[r] \in Totp
  /\ op[r] = "recovery" => input[r][2] \in Batches
  /\ step[r] = "consume" => op[r] = "recovery"
  /\ step[r] = "supersede" => Loaded(cred[r], "pending")
  /\ step[r] \in {"findActive", "replace", "activate"} =>
       Loaded(cred[r], "pending") /\ Fresh(r)
  /\ step[r] = "replace" => Loaded(other[r], "active") /\ op[r] = "reactivate"
  /\ step[r] \in {"disable", "verify", "use"} => Loaded(cred[r], "active")
  /\ step[r] = "disable" => op[r] = "disable"
  /\ step[r] = "verify" => op[r] = "totp"
  /\ step[r] = "use" => Fresh(r)

(* The row of a code's credential remembers that the code was used.        *)
UsesAreRecorded ==
  "credential" \notin raced => \A x \in used : row[x[1]].last >= x[2]

(* A code that was never issued or is live has not been accepted.          *)
AcceptedOnce ==
  \A b \in Batches :
    /\ redeemed[b] <= 1
    /\ codes[b] \in {"none", "live"} => redeemed[b] = 0

(* Replacements that do not overlap find all the codes that are live.      *)
BatchesReplaced ==
  "codes" \notin raced =>
    /\ \A b, x \in Live : b = x
    /\ \A r \in Requests :
         step[r] = "insert" =>
           /\ Live \subseteq doomed[r]
           /\ \A q \in Requests : step[q] = "insert" => q = r

(* Requests that isLocked let through and that may still guess wrong, and  *)
(* those that did and are not counted yet.                                 *)
Guessing ==
  {r \in Requests : \/ step[r] \in {"verify", "consume"}
                    \/ step[r] = "find" /\ op[r] \in {"totp", "recovery"}}

Failed == {r \in Requests : step[r] = "failed"}

GuessInv ==
  /\ wrong <= failures + Cardinality(Failed) + broken
  /\ wrong + Cardinality(Guessing) <= Threshold - 1 + Cardinality(Requests) + broken

FactorInv ==
  /\ TypeOK
  /\ \A r \in Requests : RequestFits(r)
  /\ UsesAreRecorded
  /\ AcceptedOnce
  /\ BatchesReplaced
  /\ GuessInv
  /\ MfaStaysOn

-----------------------------------------------------------------------------
(* The invariant holds initially.                                          *)
LEMMA FactorInitially == Init => FactorInv
<1> SUFFICES ASSUME Init PROVE FactorInv
  OBVIOUS
<1> USE SecondFactorAssumption
<1>0. /\ NoCred \in [id : Creds \cup {None}, status : Status, last : Steps \cup {Unused}]
      /\ NoCode \in (Creds \cup {None}) \X (Steps \cup Batches \cup {Unused})
  BY DEF NoCred, NoCode, Status
<1>1. TypeOK
  <2>1. RequestTypes  BY <1>0 DEF Init, RequestTypes
  <2>2. row \in [Creds -> [status : Status, last : Steps \cup {Unused}]]
    BY DEF Init, Status
  <2>3. used \in SUBSET Totp /\ raced \in SUBSET {"credential", "codes"}
    BY DEF Init
  <2>5. /\ codes \in [Batches -> {"none", "live", "consumed", "gone"}]
        /\ redeemed \in [Batches -> Nat]
    BY DEF Init
  <2>6. enabled \in BOOLEAN  BY Zenon DEF Init
  <2>7. /\ failures \in Nat /\ aal \in 1 .. 2 /\ clock \in 0 .. MaxClock
        /\ broken \in 0 .. MaxFailures /\ wrong \in Nat
    BY DEF Init
  <2>4. SharedTypes  BY <2>2, <2>3, <2>5, <2>6, <2>7, Zenon DEF SharedTypes
  <2> QED  BY <2>1, <2>4 DEF TypeOK, RequestTypes, SharedTypes
<1>2. \A r \in Requests : RequestFits(r)
  BY DEF Init, RequestFits, Activations
<1>3. UsesAreRecorded /\ AcceptedOnce /\ BatchesReplaced /\ MfaStaysOn
  BY DEF Init, UsesAreRecorded, AcceptedOnce, BatchesReplaced, MfaStaysOn, Live
<1>4. GuessInv
  <2>1. Guessing = {} /\ Failed = {}  BY DEF Init, Guessing, Failed
  <2>2. Cardinality(Guessing) = 0 /\ Cardinality(Failed) = 0  BY <2>1, FS_EmptySet
  <2>3. Cardinality(Requests) \in Nat  BY FS_CardinalityType
  <2> QED  BY <2>2, <2>3 DEF Init, GuessInv
<1> QED  BY <1>1, <1>2, <1>3, <1>4 DEF FactorInv

(* The types are those of the requests and those of the tables.            *)
LEMMA TypesSplit == TypeOK <=> RequestTypes /\ SharedTypes
BY DEF TypeOK, RequestTypes, SharedTypes

(* What a request forgets, and what it keeps for later, has its type.      *)
LEMMA ForgetTypes ==
  ASSUME NEW r \in Requests, RequestTypes, Forget(r)
  PROVE  /\ op' \in [Requests -> Ops \cup {"none"}]
         /\ cred' \in [Requests -> [id : Creds \cup {None}, status : Status,
                                    last : Steps \cup {Unused}]]
         /\ other' \in [Requests -> [id : Creds \cup {None}, status : Status,
                                     last : Steps \cup {Unused}]]
         /\ input' \in [Requests -> (Creds \cup {None}) \X (Steps \cup Batches \cup {Unused})]
         /\ doomed' \in [Requests -> SUBSET Batches]
<1>1. NoCred \in [id : Creds \cup {None}, status : Status, last : Steps \cup {Unused}]
  BY DEF NoCred, Status
<1>2. NoCode \in (Creds \cup {None}) \X (Steps \cup Batches \cup {Unused})
  BY DEF NoCode
<1> QED  BY <1>1, <1>2 DEF RequestTypes, Forget

(* A lookup finds a credential with the status, or none.                   *)
LEMMA FoundFacts ==
  ASSUME SharedTypes, NEW status \in Status, NEW x \in Found(status)
  PROVE  /\ x \in [id : Creds \cup {None}, status : Status, last : Steps \cup {Unused}]
         /\ x = NoCred <=> x.id = None
         /\ x # NoCred => Loaded(x, status) /\ row[x.id] = [status |-> status, last |-> x.last]
         /\ x = NoCred => \A c \in Creds : row[c].status # status
<1> DEFINE hits == {c \in Creds : row[c].status = status}
<1>1. CASE hits = {}
  <2>1. x = NoCred  BY <1>1 DEF Found
  <2> QED  BY <1>1, <2>1 DEF NoCred, Status
<1>2. CASE hits # {}
  <2>1. PICK c \in hits : x = [id |-> c, status |-> status, last |-> row[c].last]
    BY <1>2 DEF Found
  <2>2. row[c] \in [status : Status, last : Steps \cup {Unused}]
    BY DEF SharedTypes
  <2>3. row[c] = [status |-> status, last |-> row[c].last]
    BY <2>2
  <2>4. x.id = c /\ x.status = status /\ x.last = row[c].last  BY <2>1
  <2>5. c # None /\ c \in Creds  BY SecondFactorAssumption
  <2>6. x # NoCred  BY <2>4, <2>5 DEF NoCred
  <2>7. row[x.id] = [status |-> status, last |-> x.last]  BY <2>3, <2>4
  <2> QED  BY <2>1, <2>2, <2>4, <2>5, <2>6, <2>7 DEF Loaded
<1> QED  BY <1>1, <1>2

-----------------------------------------------------------------------------
(* A step of one request leaves what the others keep.                      *)
Elsewhere(r) ==
  \A q \in Requests \ {r} :
    /\ step'[q] = step[q] /\ op'[q] = op[q] /\ cred'[q] = cred[q]
    /\ other'[q] = other[q] /\ input'[q] = input[q] /\ doomed'[q] = doomed[q]

(* What a request has after it forgot, or after it moved on.               *)
LEMMA ForgetFacts ==
  ASSUME NEW r \in Requests, RequestTypes, Forget(r)
  PROVE  /\ \A q \in Requests \ {r} :
              /\ op'[q] = op[q] /\ cred'[q] = cred[q] /\ other'[q] = other[q]
              /\ input'[q] = input[q] /\ doomed'[q] = doomed[q]
         /\ op'[r] = "none" /\ cred'[r] = NoCred /\ other'[r] = NoCred
         /\ input'[r] = NoCode /\ doomed'[r] = {}
BY DEF RequestTypes, Forget

Stages ==
  {"idle", "find", "supersede", "enroll", "findActive", "replace", "activate",
   "disable", "delete", "insert", "locked", "verify", "use", "consume", "failed",
   "reset", "elevate"}

LEMMA GotoFacts ==
  ASSUME NEW r \in Requests, RequestTypes, NEW s \in Stages, Goto(r, s)
  PROVE  /\ step' \in [Requests -> Stages]
         /\ \A q \in Requests \ {r} : step'[q] = step[q]
         /\ step'[r] = s
BY DEF RequestTypes, Goto, Stages

(* A request that goes on and forgets, or that keeps everything.           *)
LEMMA ForgetKeeps ==
  ASSUME NEW r \in Requests, RequestTypes, NEW s \in Stages, Goto(r, s),
         Forget(r) \/ UNCHANGED locals
  PROVE  RequestTypes' /\ Elsewhere(r) /\ step'[r] = s
<1>1. /\ step' \in [Requests -> Stages]
      /\ \A q \in Requests \ {r} : step'[q] = step[q]
      /\ step'[r] = s
  BY GotoFacts
<1>2. CASE Forget(r)
  BY <1>1, <1>2, ForgetTypes, ForgetFacts DEF RequestTypes, Elsewhere, Stages
<1>3. CASE UNCHANGED locals
  BY <1>1, <1>3 DEF RequestTypes, Elsewhere, Stages, locals
<1> QED  BY <1>2, <1>3

(* A request that goes on with a credential that it found.                 *)
LEMMA LoadKeeps ==
  ASSUME NEW r \in Requests, RequestTypes, NEW s \in Stages, Goto(r, s),
         NEW x \in [id : Creds \cup {None}, status : Status, last : Steps \cup {Unused}],
         \/ cred' = [cred EXCEPT ![r] = x] /\ UNCHANGED other
         \/ other' = [other EXCEPT ![r] = x] /\ UNCHANGED cred,
         UNCHANGED <<op, input, doomed>>
  PROVE  RequestTypes' /\ Elsewhere(r) /\ step'[r] = s
<1>1. /\ step' \in [Requests -> Stages]
      /\ \A q \in Requests \ {r} : step'[q] = step[q]
      /\ step'[r] = s
  BY GotoFacts
<1>2. /\ cred' \in [Requests -> [id : Creds \cup {None}, status : Status,
                                 last : Steps \cup {Unused}]]
      /\ other' \in [Requests -> [id : Creds \cup {None}, status : Status,
                                  last : Steps \cup {Unused}]]
      /\ \A q \in Requests \ {r} : cred'[q] = cred[q] /\ other'[q] = other[q]
  <2>1. PICK C : C = [id : Creds \cup {None}, status : Status, last : Steps \cup {Unused}]
    OBVIOUS
  <2>2. x \in C /\ cred \in [Requests -> C] /\ other \in [Requests -> C]
    BY <2>1 DEF RequestTypes
  <2>3. /\ cred' \in [Requests -> C] /\ other' \in [Requests -> C]
        /\ \A q \in Requests \ {r} : cred'[q] = cred[q] /\ other'[q] = other[q]
    BY <2>2
  <2> QED  BY <2>1, <2>3
<1> QED  BY <1>1, <1>2 DEF RequestTypes, Elsewhere, Stages

(* A request forgets all that it kept, when it returns or is rejected.     *)
LEMMA ReturnKeeps ==
  ASSUME NEW r \in Requests, RequestTypes, Return(r)
  PROVE  RequestTypes' /\ Elsewhere(r) /\ step'[r] = "idle"
<1>1. "idle" \in Stages  BY DEF Stages
<1> QED  BY <1>1, ForgetKeeps DEF Return

LEMMA RejectKeeps ==
  ASSUME NEW r \in Requests, RequestTypes, Reject(r)
  PROVE  RequestTypes' /\ Elsewhere(r) /\ step'[r] = "failed"
<1>1. "failed" \in Stages  BY DEF Stages
<1> QED  BY <1>1, ForgetKeeps DEF Reject

LEMMA ArriveKeeps ==
  ASSUME NEW r \in Requests, RequestTypes, NEW o \in Ops,
         NEW code \in Totp \cup {<<None, b>> : b \in Batches} \cup {NoCode},
         Arrive(r, o, code)
  PROVE  RequestTypes' /\ Elsewhere(r)
<1>1. code \in (Creds \cup {None}) \X (Steps \cup Batches \cup {Unused})
  BY DEF Totp, NoCode
<1>2. PICK s \in {"locked", "find"} : Goto(r, s)  BY DEF Arrive
<1>3. /\ step' \in [Requests -> Stages]
      /\ \A q \in Requests \ {r} : step'[q] = step[q]
  BY <1>2, GotoFacts DEF Stages
<1>4. /\ op' \in [Requests -> Ops \cup {"none"}]
      /\ \A q \in Requests \ {r} : op'[q] = op[q]
  BY DEF Arrive, RequestTypes
<1>5. /\ input' \in [Requests -> (Creds \cup {None}) \X (Steps \cup Batches \cup {Unused})]
      /\ \A q \in Requests \ {r} : input'[q] = input[q]
  BY <1>1 DEF Arrive, RequestTypes
<1>6. UNCHANGED <<cred, other, doomed>>  BY DEF Arrive
<1> QED  BY <1>3, <1>4, <1>5, <1>6 DEF RequestTypes, Elsewhere, Stages

(* Every step of a request keeps the types of what requests keep, and      *)
(* leaves the other requests.                                              *)
LEMMA RequestTypesNext ==
  ASSUME NEW r \in Requests, RequestTypes, SharedTypes, RequestStep(r)
  PROVE  RequestTypes' /\ Elsewhere(r)
<1> USE DEF Stages
<1>1. CASE \E o \in Ops, code \in Totp \cup {<<None, b>> : b \in Batches} \cup {NoCode} :
             Arrive(r, o, code)
  BY <1>1, ArriveKeeps
<1>2. CASE EnrollFind(r)
  <2>1. PICK p \in Found("pending") :
          /\ cred' = [cred EXCEPT ![r] = p]
          /\ Goto(r, IF p = NoCred THEN "enroll" ELSE "supersede")
    BY <1>2 DEF EnrollFind, Superseded
  <2>2. p \in [id : Creds \cup {None}, status : Status, last : Steps \cup {Unused}]
    BY FoundFacts DEF Status
  <2>3. UNCHANGED <<other, op, input, doomed>>  BY <1>2 DEF EnrollFind
  <2>4. PICK s \in {"enroll", "supersede"} : Goto(r, s)  BY <2>1
  <2> QED  BY <2>1, <2>2, <2>3, <2>4, LoadKeeps
<1>3. CASE Supersede(r)
  <2>1. Goto(r, "enroll") /\ UNCHANGED locals  BY <1>3 DEF Supersede
  <2> QED  BY <2>1, ForgetKeeps
<1>4. CASE Enroll(r) \/ Disable(r) \/ InsertCodes(r) \/ RegisterFailure(r) \/ Elevate(r) \/ Fail(r)
  <2>1. Return(r)
    BY <1>4 DEF Enroll, Disable, InsertCodes, RegisterFailure, Elevate, Fail
  <2> QED  BY <2>1, ReturnKeeps
<1>5. CASE ActivateFind(r)
  <2>1. PICK p \in Found("pending") :
       \/ /\ p # NoCred /\ Matches(p, input[r])
          /\ cred' = [cred EXCEPT ![r] = p]
          /\ Goto(r, "findActive")
          /\ UNCHANGED <<op, other, input, doomed>>
       \/ /\ p = NoCred \/ ~Matches(p, input[r])
          /\ Return(r)
    BY <1>5 DEF ActivateFind
  <2>2. p \in [id : Creds \cup {None}, status : Status, last : Steps \cup {Unused}]
    BY FoundFacts DEF Status
  <2> QED  BY <2>1, <2>2, LoadKeeps, ReturnKeeps
<1>6. CASE ActivateCheck(r)
  <2>1. PICK a \in Found("active") :
       \/ /\ a # NoCred /\ ~MayReplace(r)
          /\ Return(r)
       \/ /\ a = NoCred \/ MayReplace(r)
          /\ other' = [other EXCEPT ![r] = a]
          /\ Goto(r, IF a = NoCred THEN "activate" ELSE "replace")
          /\ UNCHANGED <<op, cred, input, doomed>>
    BY <1>6 DEF ActivateCheck
  <2>2. a \in [id : Creds \cup {None}, status : Status, last : Steps \cup {Unused}]
    BY FoundFacts DEF Status
  <2>3. CASE Return(r)  BY <2>3, ReturnKeeps
  <2>4. CASE /\ other' = [other EXCEPT ![r] = a]
             /\ Goto(r, IF a = NoCred THEN "activate" ELSE "replace")
             /\ UNCHANGED <<op, cred, input, doomed>>
    <3>1. PICK s \in {"activate", "replace"} : Goto(r, s)  BY <2>4
    <3> QED  BY <2>2, <2>4, <3>1, LoadKeeps
  <2> QED  BY <2>1, <2>3, <2>4
<1>7. CASE Replace(r)
  <2>1. Goto(r, "activate") /\ UNCHANGED locals  BY <1>7 DEF Replace
  <2> QED  BY <2>1, ForgetKeeps
<1>8. CASE Activate(r)
  <2>1. (Goto(r, "delete") /\ Forget(r)) \/ Return(r)  BY <1>8 DEF Activate
  <2> QED  BY <2>1, ForgetKeeps, ReturnKeeps
<1>9. CASE ActiveFind(r)
  <2>1. PICK a \in Found("active") :
       \/ /\ a = NoCred
          /\ Return(r)
       \/ /\ a # NoCred
          /\ \/ /\ op[r] = "disable"
                /\ cred' = [cred EXCEPT ![r] = a]
                /\ Goto(r, "disable")
                /\ UNCHANGED <<op, other, input, doomed>>
             \/ /\ op[r] = "regenerate"
                /\ Goto(r, "delete")
                /\ Forget(r)
    BY <1>9 DEF ActiveFind
  <2>2. a \in [id : Creds \cup {None}, status : Status, last : Steps \cup {Unused}]
    BY FoundFacts DEF Status
  <2> QED  BY <2>1, <2>2, LoadKeeps, ReturnKeeps, ForgetKeeps
<1>10. CASE DeleteCodes(r)
  <2>1. Goto(r, "insert") /\ doomed' = [doomed EXCEPT ![r] = Live]
        /\ UNCHANGED <<op, cred, other, input>>
    BY <1>10 DEF DeleteCodes
  <2>2. Live \in SUBSET Batches  BY DEF Live
  <2>3. /\ doomed' \in [Requests -> SUBSET Batches]
        /\ \A q \in Requests \ {r} : doomed'[q] = doomed[q]
    BY <2>1, <2>2 DEF RequestTypes
  <2>4. /\ step' \in [Requests -> Stages]
        /\ \A q \in Requests \ {r} : step'[q] = step[q]
    BY <2>1, GotoFacts
  <2> QED  BY <2>1, <2>3, <2>4 DEF RequestTypes, Elsewhere
<1>11. CASE IsLocked(r)
  <2>1. Return(r) \/ (Goto(r, "find") /\ UNCHANGED locals)  BY <1>11 DEF IsLocked
  <2> QED  BY <2>1, ReturnKeeps, ForgetKeeps
<1>12. CASE TotpFind(r)
  <2>1. PICK a \in Found("active") :
       \/ Reject(r)
       \/ /\ cred' = [cred EXCEPT ![r] = a]
          /\ Goto(r, "verify")
          /\ UNCHANGED <<op, other, input, doomed>>
    BY <1>12 DEF TotpFind
  <2>2. a \in [id : Creds \cup {None}, status : Status, last : Steps \cup {Unused}]
    BY FoundFacts DEF Status
  <2> QED  BY <2>1, <2>2, LoadKeeps, RejectKeeps
<1>13. CASE Verify(r)
  <2>1. Reject(r) \/ (Goto(r, "use") /\ UNCHANGED locals)  BY <1>13 DEF Verify
  <2> QED  BY <2>1, RejectKeeps, ForgetKeeps
<1>14. CASE Use(r)
  <2>1. (Goto(r, "reset") /\ Forget(r)) \/ Return(r)  BY <1>14 DEF Use
  <2> QED  BY <2>1, ForgetKeeps, ReturnKeeps
<1>15. CASE RecoveryFind(r)
  <2>1. Reject(r) \/ (Goto(r, "consume") /\ UNCHANGED locals)  BY <1>15 DEF RecoveryFind
  <2> QED  BY <2>1, RejectKeeps, ForgetKeeps
<1>16. CASE Consume(r)
  <2>1. (Goto(r, "reset") /\ Forget(r)) \/ Reject(r)  BY <1>16 DEF Consume
  <2> QED  BY <2>1, RejectKeeps, ForgetKeeps
<1>17. CASE ResetLockout(r)
  <2>1. Goto(r, "elevate") /\ UNCHANGED locals  BY <1>17 DEF ResetLockout
  <2> QED  BY <2>1, ForgetKeeps
<1> QED
  BY <1>1, <1>2, <1>3, <1>4, <1>5, <1>6, <1>7, <1>8, <1>9, <1>10, <1>11, <1>12,
     <1>13, <1>14, <1>15, <1>16, <1>17, Zenon
     DEF RequestStep

(* Nothing is expected of a request at the stages between lookups.         *)
LEMMA NeutralFits ==
  ASSUME NEW r \in Requests, RequestTypes, RequestFits(r), NEW s \in Stages, Goto(r, s),
         Forget(r) \/ UNCHANGED <<op, input>>,
         s \notin {"supersede", "findActive", "replace", "activate", "disable",
                   "verify", "use", "consume"}
  PROVE  RequestFits(r)'
<1>1. step'[r] = s  BY GotoFacts
<1>2. op'[r] = "none" \/ (op'[r] = op[r] /\ input'[r] = input[r])
  BY ForgetFacts
<1> QED  BY <1>1, <1>2 DEF RequestFits, Activations

LEMMA RequestFitsNext ==
  ASSUME NEW r \in Requests, RequestTypes, SharedTypes, RequestFits(r), RequestStep(r)
  PROVE  RequestFits(r)'
<1> USE DEF Stages
<1>1. ASSUME NEW o \in Ops,
             NEW code \in Totp \cup {<<None, b>> : b \in Batches} \cup {NoCode},
             Arrive(r, o, code)
      PROVE  RequestFits(r)'
  <2>1. step'[r] \in {"locked", "find"} /\ op'[r] = o /\ input'[r] = code
    BY <1>1 DEF Arrive, Goto, RequestTypes
  <2>2. /\ o \in Activations \cup {"totp"} => code \in Totp
        /\ o = "recovery" => code[2] \in Batches
    BY <1>1 DEF Arrive
  <2> QED  BY <2>1, <2>2 DEF RequestFits
<1>2. CASE EnrollFind(r)
  <2>1. PICK p \in Found("pending") :
          /\ cred' = [cred EXCEPT ![r] = p]
          /\ Goto(r, IF p = NoCred THEN "enroll" ELSE "supersede")
    BY <1>2 DEF EnrollFind, Superseded
  <2>2. p # NoCred => Loaded(p, "pending")  BY FoundFacts DEF Status
  <2>3. /\ cred'[r] = p /\ op'[r] = op[r] /\ input'[r] = input[r] /\ op[r] = "enroll"
        /\ step'[r] = IF p = NoCred THEN "enroll" ELSE "supersede"
    BY <1>2, <2>1 DEF EnrollFind, RequestTypes, Goto
  <2> QED  BY <2>2, <2>3 DEF RequestFits, Activations
<1>3. CASE Supersede(r)
  <2>1. Goto(r, "enroll") /\ UNCHANGED locals  BY <1>3 DEF Supersede
  <2> QED  BY <2>1, NeutralFits DEF locals
<1>4. CASE Return(r)
  BY <1>4, NeutralFits DEF Return
<1>5. CASE Reject(r)
  BY <1>5, NeutralFits DEF Reject
<1>6. CASE ActivateFind(r)
  <2>1. PICK p \in Found("pending") :
       \/ /\ p # NoCred /\ Matches(p, input[r])
          /\ cred' = [cred EXCEPT ![r] = p]
          /\ Goto(r, "findActive")
          /\ UNCHANGED <<op, other, input, doomed>>
       \/ /\ p = NoCred \/ ~Matches(p, input[r])
          /\ Return(r)
    BY <1>6 DEF ActivateFind
  <2>2. CASE /\ p # NoCred /\ Matches(p, input[r])
             /\ cred' = [cred EXCEPT ![r] = p]
             /\ Goto(r, "findActive")
             /\ UNCHANGED <<op, other, input, doomed>>
    <3>1. Loaded(p, "pending")  BY <2>2, FoundFacts DEF Status
    <3>2. cred'[r] = p /\ op'[r] = op[r] /\ input'[r] = input[r] /\ step'[r] = "findActive"
      BY <2>2 DEF RequestTypes, Goto
    <3>3. input[r] \in Totp  BY <1>6 DEF RequestFits, ActivateFind
    <3>4. input[r][1] = p.id /\ input[r][2] > p.last  BY <2>2 DEF Matches
    <3>5. op[r] \in Activations  BY <1>6 DEF ActivateFind
    <3> QED  BY <3>1, <3>2, <3>3, <3>4, <3>5 DEF RequestFits, Fresh, Activations
  <2> QED  BY <1>4, <2>1, <2>2
<1>7. CASE ActivateCheck(r)
  <2>1. PICK a \in Found("active") :
       \/ /\ a # NoCred /\ ~MayReplace(r)
          /\ Return(r)
       \/ /\ a = NoCred \/ MayReplace(r)
          /\ other' = [other EXCEPT ![r] = a]
          /\ Goto(r, IF a = NoCred THEN "activate" ELSE "replace")
          /\ UNCHANGED <<op, cred, input, doomed>>
    BY <1>7 DEF ActivateCheck
  <2>2. CASE /\ a = NoCred \/ MayReplace(r)
             /\ other' = [other EXCEPT ![r] = a]
             /\ Goto(r, IF a = NoCred THEN "activate" ELSE "replace")
             /\ UNCHANGED <<op, cred, input, doomed>>
    <3>1. a # NoCred => Loaded(a, "active") /\ op[r] = "reactivate"
      BY <2>2, FoundFacts DEF Status, MayReplace
    <3>2. /\ other'[r] = a /\ op'[r] = op[r] /\ input'[r] = input[r] /\ cred'[r] = cred[r]
          /\ step'[r] = IF a = NoCred THEN "activate" ELSE "replace"
      BY <2>2 DEF RequestTypes, Goto
    <3>3. step[r] = "findActive"  BY <1>7 DEF ActivateCheck
    <3> QED  BY <3>1, <3>2, <3>3 DEF RequestFits, Fresh
  <2> QED  BY <1>4, <2>1, <2>2
<1>8. CASE Replace(r)
  <2>1. Goto(r, "activate") /\ UNCHANGED locals /\ step[r] = "replace"  BY <1>8 DEF Replace
  <2>2. /\ cred'[r] = cred[r] /\ op'[r] = op[r] /\ input'[r] = input[r]
        /\ step'[r] = "activate"
    BY <2>1, GotoFacts DEF locals
  <2> QED  BY <2>1, <2>2 DEF RequestFits, Fresh
<1>9. CASE Activate(r)
  <2>1. (Goto(r, "delete") /\ Forget(r)) \/ Return(r)  BY <1>9 DEF Activate
  <2> QED  BY <1>4, <2>1, NeutralFits
<1>10. CASE ActiveFind(r)
  <2>1. PICK a \in Found("active") :
       \/ /\ a = NoCred
          /\ Return(r)
       \/ /\ a # NoCred
          /\ \/ /\ op[r] = "disable"
                /\ cred' = [cred EXCEPT ![r] = a]
                /\ Goto(r, "disable")
                /\ UNCHANGED <<op, other, input, doomed>>
             \/ /\ op[r] = "regenerate"
                /\ Goto(r, "delete")
                /\ Forget(r)
    BY <1>10 DEF ActiveFind
  <2>2. CASE /\ a # NoCred
             /\ op[r] = "disable"
             /\ cred' = [cred EXCEPT ![r] = a]
             /\ Goto(r, "disable")
             /\ UNCHANGED <<op, other, input, doomed>>
    <3>1. Loaded(a, "active")  BY <2>2, FoundFacts DEF Status
    <3>2. cred'[r] = a /\ op'[r] = "disable" /\ step'[r] = "disable"
      BY <2>2 DEF RequestTypes, Goto
    <3> QED  BY <3>1, <3>2 DEF RequestFits, Activations
  <2>3. CASE Goto(r, "delete") /\ Forget(r)  BY <2>3, NeutralFits
  <2> QED  BY <1>4, <2>1, <2>2, <2>3
<1>11. CASE DeleteCodes(r)
  <2>1. Goto(r, "insert") /\ UNCHANGED <<op, input>>  BY <1>11 DEF DeleteCodes
  <2> QED  BY <2>1, NeutralFits
<1>12. CASE IsLocked(r)
  <2>1. Return(r) \/ (Goto(r, "find") /\ UNCHANGED <<op, input>>)
    BY <1>12 DEF IsLocked, locals
  <2> QED  BY <1>4, <2>1, NeutralFits
<1>13. CASE TotpFind(r)
  <2>1. PICK a \in Found("active") :
       \/ Reject(r)
       \/ /\ a # NoCred
          /\ cred' = [cred EXCEPT ![r] = a]
          /\ Goto(r, "verify")
          /\ UNCHANGED <<op, other, input, doomed>>
    BY <1>13 DEF TotpFind
  <2>2. CASE /\ a # NoCred
             /\ cred' = [cred EXCEPT ![r] = a]
             /\ Goto(r, "verify")
             /\ UNCHANGED <<op, other, input, doomed>>
    <3>1. Loaded(a, "active")  BY <2>2, FoundFacts DEF Status
    <3>2. cred'[r] = a /\ op'[r] = op[r] /\ input'[r] = input[r] /\ step'[r] = "verify"
      BY <2>2 DEF RequestTypes, Goto
    <3>3. op[r] = "totp"  BY <1>13 DEF TotpFind
    <3> QED  BY <3>1, <3>2, <3>3 DEF RequestFits
  <2> QED  BY <1>5, <2>1, <2>2
<1>14. CASE Verify(r)
  <2>1. CASE Matches(cred[r], input[r]) /\ Goto(r, "use") /\ UNCHANGED locals
    <3>1. /\ cred'[r] = cred[r] /\ op'[r] = op[r] /\ input'[r] = input[r]
          /\ step'[r] = "use" /\ step[r] = "verify"
      BY <1>14, <2>1, GotoFacts DEF locals, Verify
    <3>2. input[r] \in Totp  BY <3>1 DEF RequestFits
    <3>3. input[r][1] = cred[r].id /\ input[r][2] > cred[r].last  BY <2>1 DEF Matches
    <3> QED  BY <3>1, <3>2, <3>3 DEF RequestFits, Fresh
  <2> QED  BY <1>5, <1>14, <2>1 DEF Verify
<1>15. CASE Use(r)
  <2>1. (Goto(r, "reset") /\ Forget(r)) \/ Return(r)  BY <1>15 DEF Use
  <2> QED  BY <1>4, <2>1, NeutralFits
<1>16. CASE RecoveryFind(r)
  <2>1. CASE Goto(r, "consume") /\ UNCHANGED locals
    <3>1. /\ op'[r] = op[r] /\ input'[r] = input[r] /\ op[r] = "recovery"
          /\ step'[r] = "consume"
      BY <1>16, <2>1, GotoFacts DEF locals, RecoveryFind
    <3> QED  BY <3>1 DEF RequestFits, Activations
  <2>2. (Goto(r, "consume") /\ UNCHANGED locals) \/ Reject(r)
    BY <1>16 DEF RecoveryFind
  <2> QED  BY <1>5, <2>1, <2>2
<1>17. CASE Consume(r)
  <2>1. (Goto(r, "reset") /\ Forget(r)) \/ Reject(r)  BY <1>17 DEF Consume
  <2> QED  BY <1>5, <2>1, NeutralFits
<1>18. CASE ResetLockout(r)
  <2>1. Goto(r, "elevate") /\ UNCHANGED <<op, input>>  BY <1>18 DEF ResetLockout, locals
  <2> QED  BY <2>1, NeutralFits
<1>19. CASE Enroll(r) \/ Disable(r) \/ InsertCodes(r) \/ RegisterFailure(r) \/ Elevate(r) \/ Fail(r)
  <2>1. Return(r)
    BY <1>19 DEF Enroll, Disable, InsertCodes, RegisterFailure, Elevate, Fail
  <2> QED  BY <1>4, <2>1
<1> QED
  BY <1>1, <1>2, <1>3, <1>6, <1>7, <1>8, <1>9, <1>10, <1>11, <1>12, <1>13, <1>14,
     <1>15, <1>16, <1>17, <1>18, <1>19, Zenon
     DEF RequestStep

-----------------------------------------------------------------------------
(* What a save does to the rows, and what its history remembers.           *)
LEMMA SaveFacts ==
  ASSUME SharedTypes, NEW x, x.id \in Creds, NEW status \in Status,
         NEW last \in Steps \cup {Unused}, Save(x, status, last)
  PROVE  /\ row' \in [Creds -> [status : Status, last : Steps \cup {Unused}]]
         /\ row'[x.id].status = status /\ row'[x.id].last = last
         /\ \A d \in Creds : d # x.id => row'[d] = row[d]
         /\ raced' \in SUBSET {"credential", "codes"}
         /\ raced \subseteq raced'
         /\ "codes" \in raced' => "codes" \in raced
         /\ "credential" \notin raced' =>
              row[x.id].status = x.status /\ row[x.id].last = x.last
<1>1. PICK c \in Creds : c = x.id  OBVIOUS
<1>2. row' = [row EXCEPT ![c] = [status |-> status, last |-> last]]
  BY <1>1 DEF Save
<1>3. /\ row' \in [Creds -> [status : Status, last : Steps \cup {Unused}]]
      /\ row'[c].status = status /\ row'[c].last = last
      /\ \A d \in Creds : d # c => row'[d] = row[d]
  BY <1>2 DEF SharedTypes
<1>4. raced' = raced \cup
       (IF row[c] # [status |-> x.status, last |-> x.last] THEN {"credential"} ELSE {})
  BY <1>1 DEF Save
<1>5. /\ raced' \in SUBSET {"credential", "codes"} /\ raced \subseteq raced'
      /\ "codes" \in raced' => "codes" \in raced
  BY <1>4 DEF SharedTypes
<1>6. "credential" \notin raced' => row[c] = [status |-> x.status, last |-> x.last]
  BY <1>4
<1>7. "credential" \notin raced' => row[c].status = x.status /\ row[c].last = x.last
  BY <1>6
<1> QED  BY <1>1, <1>3, <1>5, <1>7

(* The statements of a request that write a row, by what it was loaded as. *)
Saving(r, x, status, last) ==
  /\ Save(x, status, last)
  /\ x.id \in Creds
  /\ last \in Steps \cup {Unused}
  /\ \/ /\ step[r] = "supersede" /\ step'[r] = "enroll"
        /\ x.status = "pending" /\ status = "revoked" /\ last = x.last
        /\ UNCHANGED <<used, enabled>>
     \/ /\ step[r] = "replace" /\ step'[r] = "activate" /\ op[r] = "reactivate"
        /\ x.status = "active" /\ status = "revoked" /\ last = x.last
        /\ other'[r] # NoCred
        /\ UNCHANGED <<used, enabled>>
     \/ /\ step[r] = "activate" /\ step'[r] = "delete"
        /\ x.status = "pending" /\ status = "active"
        /\ used' = used \cup {input[r]} /\ enabled' = TRUE
        /\ input[r] \in Totp /\ input[r] = <<x.id, last>> /\ last > x.last
     \/ /\ step[r] = "disable" /\ step'[r] = "idle" /\ op[r] = "disable"
        /\ x.status = "active" /\ status = "revoked" /\ last = x.last
        /\ UNCHANGED used /\ enabled' = FALSE
     \/ /\ step[r] = "use" /\ step'[r] = "reset"
        /\ x.status = "active" /\ status = "active"
        /\ used' = used \cup {input[r]} /\ UNCHANGED enabled
        /\ input[r] \in Totp /\ input[r] = <<x.id, last>> /\ last > x.last

(* A request writes a row of what it loaded, inserts a pending one, or     *)
(* leaves the rows alone.                                                  *)
Enrolled(r) ==
  /\ \E c \in Creds :
       row[c].status = "none" /\ row' = [row EXCEPT ![c].status = "pending"]
  /\ UNCHANGED <<used, enabled, raced>>
  /\ step[r] = "enroll"

Rowless(r) ==
  /\ UNCHANGED <<row, used, enabled>>
  /\ raced \subseteq raced'
  /\ raced' \subseteq raced \cup {"codes"}
  /\ step[r] \in {"use", "activate"} => step'[r] = "idle"
  /\ step[r] = "activate" =>
       broken' > 0 \/ \E c \in Creds : row[c].status = "active"

LEMMA TotpPair ==
  ASSUME NEW r \in Requests, Fresh(r)
  PROVE  /\ input[r] = <<cred[r].id, input[r][2]>> /\ input[r][2] \in Steps
         /\ input[r] \in Totp /\ input[r][2] > cred[r].last
BY DEF Fresh, Totp

LEMMA RowStep ==
  ASSUME NEW r \in Requests, RequestTypes, SharedTypes, RequestFits(r), RequestStep(r)
  PROVE  \/ \E x \in {cred[r], other[r]}, status \in Status, last \in Steps \cup {Unused} :
              Saving(r, x, status, last)
         \/ Enrolled(r)
         \/ Rowless(r)
<1> USE DEF Stages
<1>0. /\ cred[r] \in [id : Creds \cup {None}, status : Status, last : Steps \cup {Unused}]
      /\ other[r] \in [id : Creds \cup {None}, status : Status, last : Steps \cup {Unused}]
  BY DEF RequestTypes
<1>1. CASE Supersede(r)
  <2>1. step[r] = "supersede" /\ step'[r] = "enroll" /\ Save(cred[r], "revoked", cred[r].last)
    BY <1>1 DEF Supersede, Goto, RequestTypes
  <2>2. UNCHANGED <<used, enabled>>  BY <1>1 DEF Supersede
  <2>3. Loaded(cred[r], "pending")  BY <2>1 DEF RequestFits
  <2>4. Saving(r, cred[r], "revoked", cred[r].last)
    BY <1>0, <2>1, <2>2, <2>3 DEF Saving, Loaded
  <2> QED  BY <1>0, <2>4 DEF Status
<1>2. CASE Replace(r)
  <2>1. step[r] = "replace" /\ step'[r] = "activate" /\ Save(other[r], "revoked", other[r].last)
    BY <1>2 DEF Replace, Goto, RequestTypes
  <2>2. UNCHANGED <<used, enabled, other>>  BY <1>2 DEF Replace, locals
  <2>3. Loaded(other[r], "active") /\ op[r] = "reactivate"  BY <2>1 DEF RequestFits
  <2>4. other'[r] # NoCred
    BY <2>2, <2>3, SecondFactorAssumption DEF Loaded, NoCred
  <2>5. Saving(r, other[r], "revoked", other[r].last)
    BY <1>0, <2>1, <2>2, <2>3, <2>4 DEF Saving, Loaded
  <2> QED  BY <1>0, <2>5 DEF Status
<1>3. CASE Activate(r)
  <2>1. step[r] = "activate"  BY <1>3 DEF Activate
  <2>2. CASE Return(r) /\ UNCHANGED <<row, raced, used, enabled>>
    <3>1. step'[r] = "idle"  BY <2>2, ReturnKeeps
    <3>2. ~Saves(cred[r].id, [status |-> "active"])
      BY <1>3, <2>2, <3>1, GotoFacts DEF Activate
    <3>3. \E c \in Creds : row[c].status = "active"  BY <3>2 DEF Saves
    <3> QED  BY <2>2, <3>1, <3>3 DEF Rowless
  <2>3. CASE /\ Save(cred[r], "active", input[r][2])
             /\ used' = used \cup {input[r]}
             /\ enabled' = TRUE
             /\ Goto(r, "delete")
    <3>1. Loaded(cred[r], "pending") /\ Fresh(r)  BY <2>1 DEF RequestFits
    <3>2. step'[r] = "delete"  BY <2>3, GotoFacts
    <3>3. /\ input[r] = <<cred[r].id, input[r][2]>> /\ input[r][2] \in Steps
          /\ input[r] \in Totp /\ input[r][2] > cred[r].last
      BY <3>1, TotpPair
    <3>4. Saving(r, cred[r], "active", input[r][2])
      BY <2>1, <2>3, <3>1, <3>2, <3>3 DEF Saving, Loaded
    <3> QED  BY <3>3, <3>4 DEF Status
  <2> QED  BY <1>3, <2>2, <2>3 DEF Activate
<1>4. CASE Disable(r)
  <2>1. step[r] = "disable" /\ Save(cred[r], "revoked", cred[r].last) /\ Return(r)
    BY <1>4 DEF Disable
  <2>2. UNCHANGED used /\ enabled' = FALSE  BY <1>4 DEF Disable
  <2>3. Loaded(cred[r], "active") /\ op[r] = "disable"  BY <2>1 DEF RequestFits
  <2>4. step'[r] = "idle"  BY <2>1, ReturnKeeps
  <2>5. Saving(r, cred[r], "revoked", cred[r].last)
    BY <1>0, <2>1, <2>2, <2>3, <2>4 DEF Saving, Loaded
  <2> QED  BY <1>0, <2>5 DEF Status
<1>5. CASE Use(r)
  <2>1. step[r] = "use" /\ UNCHANGED enabled  BY <1>5 DEF Use
  <2>2. CASE Return(r) /\ UNCHANGED <<row, raced, used>>
    <3>1. step'[r] = "idle"  BY <2>2, ReturnKeeps
    <3> QED  BY <2>1, <2>2, <3>1 DEF Rowless
  <2>3. CASE /\ Save(cred[r], "active", input[r][2])
             /\ used' = used \cup {input[r]}
             /\ Goto(r, "reset")
    <3>1. Loaded(cred[r], "active") /\ Fresh(r)  BY <2>1 DEF RequestFits
    <3>2. step'[r] = "reset"  BY <2>3, GotoFacts
    <3>3. /\ input[r] = <<cred[r].id, input[r][2]>> /\ input[r][2] \in Steps
          /\ input[r] \in Totp /\ input[r][2] > cred[r].last
      BY <3>1, TotpPair
    <3>4. Saving(r, cred[r], "active", input[r][2])
      BY <2>1, <2>3, <3>1, <3>2, <3>3 DEF Saving, Loaded
    <3> QED  BY <3>3, <3>4 DEF Status
  <2> QED  BY <1>5, <2>2, <2>3 DEF Use
<1>6. CASE Enroll(r)
  BY <1>6 DEF Enroll, Enrolled, history
<1>7. CASE Fail(r)
  <2>1. Return(r) /\ UNCHANGED <<row, used, enabled, raced>>
    BY <1>7 DEF Fail, tables, history
  <2>2. broken \in Nat /\ broken' = broken + 1  BY <1>7 DEF Fail, SharedTypes
  <2> QED  BY <2>1, <2>2, ReturnKeeps DEF Rowless
<1>8. CASE DeleteCodes(r)
  <2>1. UNCHANGED <<row, used, enabled>> /\ step[r] = "delete"
    BY <1>8 DEF DeleteCodes, tables
  <2>2. raced' = raced \cup (IF \E q \in Requests \ {r} : step[q] = "insert"
                             THEN {"codes"} ELSE {})
    BY <1>8 DEF DeleteCodes
  <2> QED  BY <2>1, <2>2 DEF Rowless
<1>9. CASE \/ \E o \in Ops, code \in Totp \cup {<<None, b>> : b \in Batches} \cup {NoCode} :
                Arrive(r, o, code)
           \/ EnrollFind(r) \/ ActivateFind(r) \/ ActivateCheck(r) \/ ActiveFind(r)
           \/ InsertCodes(r) \/ IsLocked(r) \/ TotpFind(r) \/ Verify(r)
           \/ RecoveryFind(r) \/ Consume(r) \/ RegisterFailure(r) \/ ResetLockout(r)
           \/ Elevate(r)
  <2>1. UNCHANGED <<row, used, enabled, raced>> /\ step[r] \notin {"use", "activate"}
    BY <1>9 DEF Arrive, EnrollFind, ActivateFind, ActivateCheck, ActiveFind,
         InsertCodes, IsLocked, TotpFind, Verify, RecoveryFind, Consume,
         RegisterFailure, ResetLockout, Elevate, tables, history
  <2> QED  BY <2>1 DEF Rowless
<1> QED
  BY <1>1, <1>2, <1>3, <1>4, <1>5, <1>6, <1>7, <1>8, <1>9, Zenon DEF RequestStep

-----------------------------------------------------------------------------
(* How many requests have failed without being counted, or may still.      *)
LEMMA RequestCounts ==
  ASSUME NEW S \in SUBSET Requests, NEW T \in SUBSET Requests, NEW r \in Requests
  PROVE  /\ Cardinality(S) \in Nat /\ Cardinality(T) \in Nat
         /\ Cardinality(Requests) \in Nat /\ Cardinality(S) <= Cardinality(Requests)
         /\ S \subseteq T => Cardinality(S) <= Cardinality(T)
         /\ S \subseteq T \cup {r} => Cardinality(S) <= Cardinality(T) + 1
         /\ r \in T /\ S \subseteq T \ {r} => Cardinality(S) + 1 <= Cardinality(T)
         /\ S \cap T = {} => Cardinality(S) + Cardinality(T) <= Cardinality(Requests)
<1>1. IsFiniteSet(Requests)  BY SecondFactorAssumption
<1>2. /\ IsFiniteSet(S) /\ Cardinality(S) <= Cardinality(Requests)
      /\ IsFiniteSet(T) /\ Cardinality(T) <= Cardinality(Requests)
  BY <1>1, FS_Subset
<1>3. Cardinality(S) \in Nat /\ Cardinality(T) \in Nat /\ Cardinality(Requests) \in Nat
  BY <1>1, <1>2, FS_CardinalityType
<1>4. S \subseteq T => Cardinality(S) <= Cardinality(T)
  BY <1>2, FS_Subset
<1>5. S \subseteq T \cup {r} => Cardinality(S) <= Cardinality(T) + 1
  <2>1. /\ IsFiniteSet(T \cup {r})
        /\ Cardinality(T \cup {r}) = Cardinality(T) \/ Cardinality(T \cup {r}) = Cardinality(T) + 1
    BY <1>2, FS_AddElement
  <2>2. S \subseteq T \cup {r} => Cardinality(S) <= Cardinality(T \cup {r})
    BY <2>1, FS_Subset
  <2> QED  BY <1>3, <2>1, <2>2
<1>6. r \in T /\ S \subseteq T \ {r} => Cardinality(S) + 1 <= Cardinality(T)
  <2>1. /\ IsFiniteSet(T \ {r})
        /\ r \in T => Cardinality(T \ {r}) = Cardinality(T) - 1
    BY <1>2, FS_RemoveElement
  <2>2. S \subseteq T \ {r} => Cardinality(S) <= Cardinality(T \ {r})
    BY <2>1, FS_Subset
  <2> QED  BY <1>3, <2>1, <2>2
<1>7. S \cap T = {} => Cardinality(S) + Cardinality(T) <= Cardinality(Requests)
  <2>1. /\ IsFiniteSet(S \cup T)
        /\ Cardinality(S \cup T) = Cardinality(S) + Cardinality(T) - Cardinality(S \cap T)
    BY <1>2, FS_Union
  <2>2. Cardinality(S \cup T) <= Cardinality(Requests)  BY <1>1, FS_Subset
  <2>3. S \cap T = {} => Cardinality(S \cap T) = 0  BY FS_EmptySet
  <2> QED  BY <1>3, <2>1, <2>2, <2>3
<1> QED  BY <1>2, <1>3, <1>4, <1>5, <1>6, <1>7

LEMMA UncountedIsFailed == Uncounted = Cardinality(Failed) /\ Uncounted \in Nat
<1>1. Failed \in SUBSET Requests  BY DEF Failed
<1>2. IsFiniteSet(Failed)  BY <1>1, SecondFactorAssumption, FS_Subset
<1> QED  BY <1>2, FS_CardinalityType DEF Uncounted, Failed

(* The failed statements are only ever more. *)
LEMMA BrokenGrows ==
  ASSUME NEW r \in Requests, SharedTypes, RequestStep(r)
  PROVE  broken' \in 0 .. MaxFailures /\ broken' >= broken
<1>0. broken \in 0 .. MaxFailures /\ MaxFailures \in Nat
  BY SecondFactorAssumption DEF SharedTypes
<1>1. broken' = broken \/ (broken' = broken + 1 /\ broken < MaxFailures)
  <2>1. CASE \/ \E o \in Ops, code \in Totp \cup {<<None, b>> : b \in Batches} \cup {NoCode} :
                  Arrive(r, o, code)
             \/ EnrollFind(r) \/ Supersede(r) \/ Enroll(r)
             \/ ActivateFind(r) \/ ActivateCheck(r) \/ Replace(r) \/ Activate(r)
             \/ ActiveFind(r) \/ Disable(r) \/ DeleteCodes(r) \/ InsertCodes(r)
             \/ TotpFind(r) \/ Verify(r) \/ Use(r) \/ RecoveryFind(r) \/ Consume(r)
             \/ Elevate(r)
    BY <2>1 DEF Arrive, EnrollFind, Supersede, Enroll, ActivateFind, ActivateCheck,
         Replace, Activate, ActiveFind, Disable, DeleteCodes, InsertCodes, TotpFind,
         Verify, Use, RecoveryFind, Consume, Elevate
  <2>2. CASE IsLocked(r) \/ RegisterFailure(r) \/ ResetLockout(r) \/ Fail(r)
    BY <2>2 DEF IsLocked, RegisterFailure, ResetLockout, Fail
  <2> QED  BY <2>1, <2>2, Zenon DEF RequestStep
<1> QED  BY <1>0, <1>1

(* The rows and their history keep their types. *)
LEMMA RowTypes ==
  ASSUME NEW r \in Requests, RequestTypes, SharedTypes, RequestFits(r), RequestStep(r)
  PROVE  /\ row' \in [Creds -> [status : Status, last : Steps \cup {Unused}]]
         /\ used' \in SUBSET Totp /\ enabled' \in BOOLEAN
         /\ raced' \in SUBSET {"credential", "codes"}
         /\ raced \subseteq raced' /\ used \subseteq used'
<1>0. used \in SUBSET Totp /\ enabled \in BOOLEAN  BY DEF SharedTypes
<1>1. ASSUME NEW x, NEW status \in Status, NEW last \in Steps \cup {Unused},
             Saving(r, x, status, last)
      PROVE  /\ row' \in [Creds -> [status : Status, last : Steps \cup {Unused}]]
             /\ used' \in SUBSET Totp /\ enabled' \in BOOLEAN
             /\ raced' \in SUBSET {"credential", "codes"}
             /\ raced \subseteq raced' /\ used \subseteq used'
  <2>1. x.id \in Creds /\ Save(x, status, last)  BY <1>1 DEF Saving
  <2>2. used' = used \/ (used' = used \cup {input[r]} /\ input[r] \in Totp)
    BY <1>1 DEF Saving
  <2>3. enabled' = enabled \/ enabled' = TRUE \/ enabled' = FALSE
    BY <1>1, Zenon DEF Saving
  <2>4. enabled' \in BOOLEAN  BY <1>0, <2>3, Zenon
  <2>5. used' \in SUBSET Totp /\ used \subseteq used'  BY <1>0, <2>2
  <2>6. /\ row' \in [Creds -> [status : Status, last : Steps \cup {Unused}]]
        /\ raced' \in SUBSET {"credential", "codes"} /\ raced \subseteq raced'
    BY <2>1, SaveFacts
  <2> QED  BY <2>4, <2>5, <2>6, Zenon
<1>2. CASE Enrolled(r)
  <2>1. /\ row' \in [Creds -> [status : Status, last : Steps \cup {Unused}]]
    BY <1>2 DEF Enrolled, SharedTypes, Status
  <2>2. UNCHANGED <<used, enabled, raced>>  BY <1>2 DEF Enrolled
  <2> QED  BY <2>1, <2>2 DEF SharedTypes
<1>3. CASE Rowless(r)
  BY <1>3 DEF Rowless, SharedTypes
<1> QED  BY <1>1, <1>2, <1>3, RowStep

LEMMA SharedTypesNext ==
  ASSUME NEW r \in Requests, RequestTypes, SharedTypes, RequestFits(r), RequestStep(r)
  PROVE  SharedTypes'
<1>1. /\ row' \in [Creds -> [status : Status, last : Steps \cup {Unused}]]
      /\ used' \in SUBSET Totp /\ enabled' \in BOOLEAN
      /\ raced' \in SUBSET {"credential", "codes"}
      /\ broken' \in 0 .. MaxFailures
  BY RowTypes, BrokenGrows
<1>2. /\ codes' \in [Batches -> {"none", "live", "consumed", "gone"}]
      /\ failures' \in Nat /\ aal' \in 1 .. 2 /\ clock' \in 0 .. MaxClock
      /\ redeemed' \in [Batches -> Nat] /\ wrong' \in Nat
  <2>1. CASE UNCHANGED <<codes, failures, aal, clock, redeemed, wrong>>
    BY <2>1 DEF SharedTypes
  <2>2. CASE \/ \E o \in Ops, code \in Totp \cup {<<None, b>> : b \in Batches} \cup {NoCode} :
                  Arrive(r, o, code)
             \/ EnrollFind(r) \/ Supersede(r) \/ Enroll(r)
             \/ ActivateFind(r) \/ ActivateCheck(r) \/ Replace(r) \/ Activate(r)
             \/ ActiveFind(r) \/ Disable(r) \/ DeleteCodes(r) \/ IsLocked(r) \/ Use(r)
             \/ Fail(r)
    <3>1. UNCHANGED <<codes, failures, aal, clock, redeemed, wrong>>
      BY <2>2 DEF Arrive, EnrollFind, Supersede, Enroll, ActivateFind, ActivateCheck,
         Replace, Activate, ActiveFind, Disable, DeleteCodes, IsLocked, Use, Fail,
         tables, history
    <3> QED  BY <2>1, <3>1
  <2>3. CASE TotpFind(r) \/ Verify(r) \/ RecoveryFind(r)
    <3>1. /\ UNCHANGED <<codes, failures, aal, clock, redeemed>>
          /\ wrong' = wrong \/ wrong' = wrong + 1
      BY <2>3 DEF TotpFind, Verify, RecoveryFind, Reject, tables
    <3> QED  BY <3>1 DEF SharedTypes
  <2>4. CASE InsertCodes(r)
    <3>1. PICK b \in Batches : codes' = [x \in Batches |->
            IF x = b THEN "live" ELSE IF x \in doomed[r] THEN "gone" ELSE codes[x]]
      BY <2>4 DEF InsertCodes
    <3>2. codes' \in [Batches -> {"none", "live", "consumed", "gone"}]
      BY <3>1 DEF SharedTypes
    <3>3. UNCHANGED <<failures, aal, clock, redeemed, wrong>>
      BY <2>4 DEF InsertCodes, history
    <3> QED  BY <3>2, <3>3 DEF SharedTypes
  <2>5. CASE Consume(r)
    <3>1. input[r][2] \in Batches  BY <2>5 DEF Consume, RequestFits
    <3>2. UNCHANGED <<failures, aal, clock>>  BY <2>5 DEF Consume
    <3>3. \/ /\ codes' = [codes EXCEPT ![input[r][2]] = "consumed"]
             /\ redeemed' = [redeemed EXCEPT ![input[r][2]] = @ + 1]
             /\ wrong' = wrong
          \/ UNCHANGED <<codes, redeemed>> /\ wrong' = wrong + 1
      BY <2>5 DEF Consume, Reject
    <3> QED  BY <3>1, <3>2, <3>3 DEF SharedTypes
  <2>6. CASE RegisterFailure(r) \/ Elevate(r)
    BY <2>6 DEF RegisterFailure, Elevate, SharedTypes, history
  <2>7. CASE ResetLockout(r)
    BY <2>7, UncountedIsFailed DEF ResetLockout, Restart, SharedTypes
  <2> QED
    BY <2>2, <2>3, <2>4, <2>5, <2>6, <2>7, Zenon DEF RequestStep
<1> QED  BY <1>1, <1>2, Zenon DEF SharedTypes

-----------------------------------------------------------------------------
(* What a save changes, as long as it overwrites nothing unseen.           *)
LEMMA SavingFacts ==
  ASSUME NEW r \in Requests, RequestTypes, SharedTypes, NEW x, NEW status \in Status,
         x.last \in Steps \cup {Unused},
         NEW last \in Steps \cup {Unused}, Saving(r, x, status, last),
         "credential" \notin raced'
  PROVE  /\ x.id \in Creds
         /\ row[x.id].status = x.status /\ row[x.id].last = x.last
         /\ row'[x.id].status = status /\ row'[x.id].last = last
         /\ row'[x.id].last >= row[x.id].last
         /\ \A d \in Creds : d # x.id => row'[d] = row[d]
<1>1. x.id \in Creds /\ Save(x, status, last)  BY DEF Saving
<1>2. /\ row[x.id].status = x.status /\ row[x.id].last = x.last
      /\ row'[x.id].status = status /\ row'[x.id].last = last
      /\ \A d \in Creds : d # x.id => row'[d] = row[d]
  BY <1>1, SaveFacts
<1>3. last = x.last \/ last > x.last  BY DEF Saving
<1>4. last \in Int /\ x.last \in Int  BY SecondFactorAssumption DEF Steps, Unused
<1> QED  BY <1>1, <1>2, <1>3, <1>4

LEMMA CredTypes ==
  ASSUME NEW r \in Requests, RequestTypes, NEW x \in {cred[r], other[r]}
  PROVE  x \in [id : Creds \cup {None}, status : Status, last : Steps \cup {Unused}]
BY DEF RequestTypes

LEMMA EnrolledFacts ==
  ASSUME NEW r \in Requests, SharedTypes, Enrolled(r)
  PROVE  \A d \in Creds :
           /\ row'[d].last = row[d].last
           /\ row'[d].status = row[d].status
              \/ (row[d].status = "none" /\ row'[d].status = "pending")
<1>1. PICK c \in Creds :
        row[c].status = "none" /\ row' = [row EXCEPT ![c].status = "pending"]
  BY DEF Enrolled
<1>2. TAKE d \in Creds
<1>3. row[d] \in [status : Status, last : Steps \cup {Unused}]  BY DEF SharedTypes
<1>4. CASE d = c
  <2>1. row'[d] = [row[d] EXCEPT !.status = "pending"]  BY <1>1, <1>4 DEF SharedTypes
  <2> QED  BY <1>1, <1>3, <1>4, <2>1
<1>5. CASE d # c  BY <1>1, <1>5 DEF SharedTypes
<1> QED  BY <1>4, <1>5

(* A code that is used stays on record. *)
LEMMA UsesNext ==
  ASSUME NEW r \in Requests, RequestTypes, SharedTypes, RequestFits(r), RequestStep(r),
         UsesAreRecorded
  PROVE  UsesAreRecorded'
<1> SUFFICES ASSUME "credential" \notin raced', NEW code \in used'
             PROVE  row'[code[1]].last >= code[2]
  BY DEF UsesAreRecorded
<1>1. "credential" \notin raced  BY RowTypes
<1>2. code \in Totp /\ code[1] \in Creds /\ code[2] \in Steps  BY RowTypes DEF Totp
<1>3. code \in used => row[code[1]].last >= code[2]  BY <1>1 DEF UsesAreRecorded
<1>4. row[code[1]].last \in Int /\ row'[code[1]].last \in Int /\ code[2] \in Int
  <2>1. /\ row \in [Creds -> [status : Status, last : Steps \cup {Unused}]]
        /\ row' \in [Creds -> [status : Status, last : Steps \cup {Unused}]]
    BY RowTypes DEF SharedTypes
  <2>2. /\ row[code[1]].last \in Steps \cup {Unused}
        /\ row'[code[1]].last \in Steps \cup {Unused}
    BY <1>2, <2>1
  <2> QED  BY <1>2, <2>2, SecondFactorAssumption DEF Steps, Unused
<1>5. ASSUME NEW x \in {cred[r], other[r]}, NEW status \in Status,
             NEW last \in Steps \cup {Unused}, Saving(r, x, status, last)
      PROVE  row'[code[1]].last >= code[2]
  <2>1. x.last \in Steps \cup {Unused}  BY CredTypes
  <2>2. /\ x.id \in Creds /\ row'[x.id].last = last
        /\ row'[x.id].last >= row[x.id].last
        /\ \A d \in Creds : d # x.id => row'[d] = row[d]
    BY <1>5, <2>1, SavingFacts, SMTT(30)
  <2>3. code \in used \/ (code = input[r] /\ input[r] = <<x.id, last>>)
    BY <1>5 DEF Saving
  <2>4. CASE code \in used
    <3>1. CASE code[1] = x.id
      <4>1. row'[code[1]].last >= row[code[1]].last  BY <2>2, <3>1
      <4> QED  BY <1>3, <1>4, <2>4, <4>1
    <3>2. CASE code[1] # x.id  BY <1>2, <1>3, <2>2, <2>4, <3>2
    <3> QED  BY <3>1, <3>2
  <2>5. CASE code = <<x.id, last>>
    <3>1. code[1] = x.id /\ code[2] = last  BY <2>5
    <3> QED  BY <1>4, <2>2, <3>1
  <2> QED  BY <2>3, <2>4, <2>5
<1>6. CASE Enrolled(r)
  <2>1. code \in used  BY <1>6 DEF Enrolled
  <2>2. row'[code[1]].last = row[code[1]].last  BY <1>2, <1>6, EnrolledFacts
  <2> QED  BY <1>3, <2>1, <2>2
<1>7. CASE Rowless(r)
  BY <1>3, <1>7 DEF Rowless
<1> QED  BY <1>5, <1>6, <1>7, RowStep

(* MFA stays on: a step that revokes an active row is a disabling, or a    *)
(* replacement that goes on to activate its own.                           *)
LEMMA StaysOnNext ==
  ASSUME NEW r \in Requests, RequestTypes, SharedTypes, RequestFits(r), RequestStep(r),
         MfaStaysOn
  PROVE  MfaStaysOn'
<1> SUFFICES ASSUME enabled', "credential" \notin raced', broken' = 0
             PROVE  \/ \E c \in Creds : row'[c].status = "active"
                    \/ \E q \in Requests : step'[q] = "activate" /\ other'[q] # NoCred
  BY DEF MfaStaysOn
<1>1. "credential" \notin raced  BY RowTypes
<1>2. broken = 0
  <2>1. broken \in Nat /\ broken' >= broken
    BY BrokenGrows, SecondFactorAssumption DEF SharedTypes
  <2> QED  BY <2>1
<1>3. enabled => \/ \E c \in Creds : row[c].status = "active"
                 \/ \E q \in Requests : step[q] = "activate" /\ other[q] # NoCred
  BY <1>1, <1>2 DEF MfaStaysOn
<1>4. ASSUME NEW q \in Requests \ {r}, step[q] = "activate", other[q] # NoCred
      PROVE  step'[q] = "activate" /\ other'[q] # NoCred
  BY <1>4, RequestTypesNext DEF Elsewhere
<1>5. ASSUME NEW x \in {cred[r], other[r]}, NEW status \in Status,
             NEW last \in Steps \cup {Unused}, Saving(r, x, status, last)
      PROVE  \/ \E c \in Creds : row'[c].status = "active"
             \/ \E q \in Requests : step'[q] = "activate" /\ other'[q] # NoCred
  <2>1. x.last \in Steps \cup {Unused}  BY CredTypes
  <2>2. /\ x.id \in Creds /\ row'[x.id].status = status /\ row[x.id].status = x.status
        /\ \A d \in Creds : d # x.id => row'[d] = row[d]
    BY <1>5, <2>1, SavingFacts, SMTT(30)
  <2>3. CASE status = "active"  BY <2>2, <2>3
  <2>4. CASE step'[r] = "activate" /\ other'[r] # NoCred  BY <2>4
  <2>5. CASE step[r] = "disable" /\ enabled' = FALSE  BY <2>5
  <2>6. CASE step[r] = "supersede" /\ x.status = "pending" /\ UNCHANGED <<used, enabled>>
    <3>1. enabled  BY <2>6, Zenon
    <3>2. CASE \E c \in Creds : row[c].status = "active"
      BY <2>2, <2>6, <3>2
    <3>3. CASE \E q \in Requests : step[q] = "activate" /\ other[q] # NoCred
      BY <1>4, <2>6, <3>3
    <3> QED  BY <1>3, <3>1, <3>2, <3>3
  <2> QED  BY <1>5, <2>3, <2>4, <2>5, <2>6 DEF Saving
<1>6. CASE Enrolled(r)
  <2>1. enabled  BY <1>6, Zenon DEF Enrolled
  <2>2. step[r] = "enroll"  BY <1>6 DEF Enrolled
  <2>3. CASE \E c \in Creds : row[c].status = "active"
    BY <1>6, <2>3, EnrolledFacts
  <2>4. CASE \E q \in Requests : step[q] = "activate" /\ other[q] # NoCred
    BY <1>4, <2>2, <2>4
  <2> QED  BY <1>3, <2>1, <2>3, <2>4
<1>7. CASE Rowless(r)
  <2>1. enabled  BY <1>7, Zenon DEF Rowless
  <2>2. row' = row  BY <1>7 DEF Rowless
  <2>3. CASE \E c \in Creds : row[c].status = "active"
    BY <2>2, <2>3
  <2>4. CASE step[r] = "activate"
    <3>1. \E c \in Creds : row[c].status = "active"  BY <1>7, <2>4 DEF Rowless
    <3> QED  BY <2>3, <3>1
  <2>5. CASE /\ step[r] # "activate"
             /\ \E q \in Requests : step[q] = "activate" /\ other[q] # NoCred
    BY <1>4, <2>5
  <2> QED  BY <1>3, <2>1, <2>3, <2>4, <2>5
<1> QED  BY <1>5, <1>6, <1>7, RowStep

-----------------------------------------------------------------------------
(* A code that is accepted was not used before. *)
LEMMA AcceptedWasUnused ==
  ASSUME NEW r \in Requests, RequestTypes, SharedTypes, RequestFits(r), RequestStep(r),
         UsesAreRecorded,
         step[r] \in {"use", "activate"}, step'[r] \in {"reset", "delete"},
         input[r] \in used
  PROVE  "credential" \in raced'
<1> SUFFICES ASSUME "credential" \notin raced' PROVE FALSE
  OBVIOUS
<1>1. "credential" \notin raced  BY RowTypes
<1>2. ~Enrolled(r) /\ ~Rowless(r)  BY DEF Enrolled, Rowless
<1>3. PICK x \in {cred[r], other[r]}, status \in Status, last \in Steps \cup {Unused} :
        Saving(r, x, status, last)
  BY <1>2, RowStep
<1>4. x.last \in Steps \cup {Unused}  BY CredTypes
<1>5. row[x.id].last = x.last  BY <1>3, <1>4, SavingFacts
<1>6. input[r] = <<x.id, last>> /\ last > x.last  BY <1>3 DEF Saving
<1>7. row[input[r][1]].last >= input[r][2]  BY <1>1 DEF UsesAreRecorded
<1>8. x.last >= last  BY <1>5, <1>6, <1>7
<1>9. x.last \in Int /\ last \in Int  BY <1>4, SecondFactorAssumption DEF Steps, Unused
<1> QED  BY <1>6, <1>8, <1>9

(* A row is given up by who may.  *)
LEMMA GivenUpByOwner ==
  ASSUME NEW r \in Requests, RequestTypes, SharedTypes, RequestFits(r), RequestStep(r),
         "credential" \notin raced', NEW c \in Creds
  PROVE  /\ row[c].status = "revoked" => row'[c].status = "revoked"
         /\ (row[c].status = "active" /\ row'[c].status # "active") =>
              op[r] \in SteppedUp /\ step'[r] # step[r]
<1>1. ASSUME NEW x \in {cred[r], other[r]}, NEW status \in Status,
             NEW last \in Steps \cup {Unused}, Saving(r, x, status, last)
      PROVE  /\ row[c].status = "revoked" => row'[c].status = "revoked"
             /\ (row[c].status = "active" /\ row'[c].status # "active") =>
                  op[r] \in SteppedUp /\ step'[r] # step[r]
  <2>1. x.last \in Steps \cup {Unused}  BY CredTypes
  <2>2. /\ x.id \in Creds /\ row'[x.id].status = status /\ row[x.id].status = x.status
        /\ \A d \in Creds : d # x.id => row'[d] = row[d]
    BY <1>1, <2>1, SavingFacts
  <2>3. CASE c = x.id
    <3>1. x.status \in {"pending", "active"}  BY <1>1 DEF Saving
    <3>2. (x.status = "active" /\ status # "active") =>
            op[r] \in SteppedUp /\ step'[r] # step[r]
      BY <1>1 DEF Saving, SteppedUp
    <3> QED  BY <2>2, <2>3, <3>1, <3>2
  <2>4. CASE c # x.id  BY <2>2, <2>4
  <2> QED  BY <2>3, <2>4
<1>2. CASE Enrolled(r)  BY <1>2, EnrolledFacts
<1>3. CASE Rowless(r)  BY <1>3 DEF Rowless
<1> QED  BY <1>1, <1>2, <1>3, RowStep

-----------------------------------------------------------------------------
(* Recovery codes.  Most steps neither touch the codes nor begin to        *)
(* replace them.                                                           *)
LEMMA CodeStep ==
  ASSUME NEW r \in Requests, RequestTypes, SharedTypes, RequestStep(r)
  PROVE  \/ DeleteCodes(r) \/ InsertCodes(r) \/ Consume(r)
         \/ UNCHANGED <<codes, redeemed>> /\ step'[r] # "insert"
<1> USE DEF Stages
<1>1. CASE \E o \in Ops, code \in Totp \cup {<<None, b>> : b \in Batches} \cup {NoCode} :
             Arrive(r, o, code)
  <2>1. PICK s \in {"locked", "find"} : Goto(r, s)  BY <1>1 DEF Arrive
  <2>2. step'[r] # "insert"  BY <2>1, GotoFacts
  <2> QED  BY <1>1, <2>2 DEF Arrive, tables, history
<1>2. CASE EnrollFind(r)
  <2>1. PICK s \in {"enroll", "supersede"} : Goto(r, s)  BY <1>2 DEF EnrollFind
  <2>2. step'[r] # "insert"  BY <2>1, GotoFacts
  <2> QED  BY <1>2, <2>2 DEF EnrollFind, tables, history
<1>3. CASE Supersede(r) \/ Replace(r) \/ TotpFind(r) \/ Verify(r) \/ RecoveryFind(r)
           \/ ResetLockout(r) \/ IsLocked(r)
  <2>1. PICK s \in {"enroll", "activate", "verify", "use", "consume", "elevate", "find",
                    "failed", "idle"} : Goto(r, s)
    BY <1>3 DEF Supersede, Replace, TotpFind, Verify, RecoveryFind, ResetLockout,
         IsLocked, Reject, Return
  <2>2. step'[r] # "insert"  BY <2>1, GotoFacts
  <2> QED
    BY <1>3, <2>2 DEF Supersede, Replace, TotpFind, Verify, RecoveryFind,
       ResetLockout, IsLocked, tables, history
<1>4. CASE ActivateFind(r) \/ ActivateCheck(r) \/ ActiveFind(r) \/ Activate(r) \/ Use(r)
  <2>1. PICK s \in {"findActive", "activate", "replace", "disable", "delete", "reset",
                    "idle"} : Goto(r, s)
    BY <1>4 DEF ActivateFind, ActivateCheck, ActiveFind, Activate, Use, Return
  <2>2. step'[r] # "insert"  BY <2>1, GotoFacts
  <2> QED
    BY <1>4, <2>2 DEF ActivateFind, ActivateCheck, ActiveFind, Activate, Use, tables,
       history
<1>5. CASE Enroll(r) \/ Disable(r) \/ RegisterFailure(r) \/ Elevate(r) \/ Fail(r)
  <2>1. Return(r)
    BY <1>5 DEF Enroll, Disable, RegisterFailure, Elevate, Fail
  <2>2. step'[r] # "insert"  BY <2>1, ReturnKeeps
  <2> QED
    BY <1>5, <2>2 DEF Enroll, Disable, RegisterFailure, Elevate, Fail, tables, history
<1> QED  BY <1>1, <1>2, <1>3, <1>4, <1>5, Zenon DEF RequestStep

(* What a redemption does to its code. *)
LEMMA Consumed ==
  ASSUME NEW r \in Requests, SharedTypes, RequestFits(r), Consume(r)
  PROVE  \/ UNCHANGED <<codes, redeemed>>
         \/ \E b \in Batches :
              /\ codes[b] = "live" /\ codes'[b] = "consumed"
              /\ redeemed'[b] = redeemed[b] + 1
              /\ \A x \in Batches : x # b => codes'[x] = codes[x] /\ redeemed'[x] = redeemed[x]
<1>1. input[r][2] \in Batches  BY DEF Consume, RequestFits
<1>2. \/ /\ codes[input[r][2]] = "live"
         /\ codes' = [codes EXCEPT ![input[r][2]] = "consumed"]
         /\ redeemed' = [redeemed EXCEPT ![input[r][2]] = @ + 1]
      \/ UNCHANGED <<codes, redeemed>>
  BY DEF Consume, Consumable
<1> QED  BY <1>1, <1>2 DEF SharedTypes

LEMMA AcceptedOnceNext ==
  ASSUME NEW r \in Requests, RequestTypes, SharedTypes, RequestFits(r), RequestStep(r),
         AcceptedOnce
  PROVE  AcceptedOnce'
<1>1. CASE UNCHANGED <<codes, redeemed>>  BY <1>1 DEF AcceptedOnce
<1>2. CASE DeleteCodes(r)  BY <1>1, <1>2 DEF DeleteCodes, tables
<1>3. CASE InsertCodes(r)
  <2>1. PICK b \in Batches :
          /\ codes[b] = "none"
          /\ codes' = [x \in Batches |->
               IF x = b THEN "live" ELSE IF x \in doomed[r] THEN "gone" ELSE codes[x]]
    BY <1>3 DEF InsertCodes
  <2>2. redeemed' = redeemed  BY <1>3 DEF InsertCodes, history
  <2> QED  BY <2>1, <2>2 DEF AcceptedOnce
<1>4. CASE Consume(r)
  BY <1>1, <1>4, Consumed DEF AcceptedOnce, SharedTypes
<1> QED  BY <1>1, <1>2, <1>3, <1>4, CodeStep

LEMMA BatchesNext ==
  ASSUME NEW r \in Requests, RequestTypes, SharedTypes, RequestFits(r), RequestStep(r),
         BatchesReplaced
  PROVE  BatchesReplaced'
<1> SUFFICES ASSUME "codes" \notin raced'
             PROVE  /\ \A b, x \in Live' : b = x
                    /\ \A p \in Requests :
                         step'[p] = "insert" =>
                           /\ Live' \subseteq doomed'[p]
                           /\ \A q \in Requests : step'[q] = "insert" => q = p
  BY DEF BatchesReplaced
<1>1. "codes" \notin raced  BY RowTypes
<1>2. /\ \A b, x \in Live : b = x
      /\ \A p \in Requests :
           step[p] = "insert" =>
             /\ Live \subseteq doomed[p]
             /\ \A q \in Requests : step[q] = "insert" => q = p
  BY <1>1 DEF BatchesReplaced
<1>3. \A q \in Requests \ {r} : step'[q] = step[q] /\ doomed'[q] = doomed[q]
  BY RequestTypesNext DEF Elsewhere
<1>4. ASSUME Live' \subseteq Live, step'[r] # "insert"
      PROVE  /\ \A b, x \in Live' : b = x
             /\ \A p \in Requests :
                  step'[p] = "insert" =>
                    /\ Live' \subseteq doomed'[p]
                    /\ \A q \in Requests : step'[q] = "insert" => q = p
  BY <1>2, <1>3, <1>4
<1>5. CASE UNCHANGED <<codes, redeemed>> /\ step'[r] # "insert"
  <2>1. Live' = Live  BY <1>5 DEF Live
  <2> QED  BY <1>4, <1>5, <2>1
<1>6. CASE Consume(r)
  <2>1. Live' \subseteq Live  BY <1>6, Consumed DEF Live
  <2>2. PICK s \in {"reset", "failed"} : Goto(r, s)  BY <1>6 DEF Consume, Reject
  <2>3. step'[r] # "insert"  BY <2>2, GotoFacts DEF Stages
  <2> QED  BY <1>4, <2>1, <2>3
<1>7. CASE DeleteCodes(r)
  <2>1. ~\E q \in Requests \ {r} : step[q] = "insert"  BY <1>7 DEF DeleteCodes
  <2>2. doomed'[r] = Live  BY <1>7 DEF DeleteCodes, RequestTypes
  <2>3. Live' = Live  BY <1>7 DEF DeleteCodes, Live, tables
  <2> QED  BY <1>2, <1>3, <2>1, <2>2, <2>3
<1>8. CASE InsertCodes(r)
  <2>1. PICK b \in Batches :
          codes' = [x \in Batches |->
            IF x = b THEN "live" ELSE IF x \in doomed[r] THEN "gone" ELSE codes[x]]
    BY <1>8 DEF InsertCodes
  <2>2. step[r] = "insert" /\ step'[r] = "idle"  BY <1>8, ReturnKeeps DEF InsertCodes
  <2>3. Live \subseteq doomed[r]  BY <1>2, <2>2
  <2>4. Live' \subseteq {b}  BY <2>1, <2>3 DEF Live
  <2>5. \A q \in Requests : step'[q] # "insert"  BY <1>2, <1>3, <2>2
  <2> QED  BY <2>4, <2>5
<1> QED  BY <1>5, <1>6, <1>7, <1>8, CodeStep

-----------------------------------------------------------------------------
(* Guesses.  What a step of a request does to the counts.                  *)
Quiet(r) ==
  /\ UNCHANGED <<failures, wrong>> /\ broken' >= broken
  /\ r \in Failed => r \in Failed'
  /\ r \in Guessing' => r \in Guessing

LetThrough(r) ==
  /\ UNCHANGED <<failures, wrong>>
  /\ r \notin Failed
  /\ \/ failures < Threshold /\ broken' = broken
     \/ broken' = broken + 1

GuessRejected(r) ==
  /\ r \in Guessing /\ r \notin Guessing'
  /\ r \notin Failed /\ r \in Failed'
  /\ wrong' = wrong + 1 /\ UNCHANGED <<failures, broken>>

Counted(r) ==
  /\ r \notin Guessing'
  /\ UNCHANGED wrong
  /\ \/ failures' = failures + 1 /\ UNCHANGED broken
     \/ broken' = broken + 1 /\ UNCHANGED failures

Anew(r) ==
  /\ r \notin Guessing'
  /\ r \notin Failed
  /\ Restart /\ UNCHANGED broken

LEMMA GuessStep ==
  ASSUME NEW r \in Requests, RequestTypes, SharedTypes, RequestFits(r), RequestStep(r)
  PROVE  Quiet(r) \/ LetThrough(r) \/ GuessRejected(r) \/ Counted(r) \/ Anew(r)
<1> USE DEF Stages
<1>0. broken \in Nat /\ broken' \in Nat /\ broken' >= broken
  BY BrokenGrows, SecondFactorAssumption DEF SharedTypes
<1>1. ASSUME UNCHANGED <<failures, wrong>>, step[r] # "failed",
             step'[r] \notin {"find", "verify", "consume"}
      PROVE  Quiet(r)
  BY <1>0, <1>1 DEF Quiet, Failed, Guessing
<1>2. ASSUME Reject(r), UNCHANGED <<failures, broken>>,
             \/ step[r] \in {"verify", "consume"}
             \/ step[r] = "find" /\ op[r] \in {"totp", "recovery"}
      PROVE  GuessRejected(r)
  <2>1. step'[r] = "failed" /\ wrong' = wrong + 1  BY <1>2, RejectKeeps DEF Reject
  <2> QED  BY <1>2, <2>1 DEF GuessRejected, Failed, Guessing
<1>3. CASE \E o \in Ops, code \in Totp \cup {<<None, b>> : b \in Batches} \cup {NoCode} :
             Arrive(r, o, code)
  <2>1. PICK o \in Ops, code \in Totp \cup {<<None, b>> : b \in Batches} \cup {NoCode} :
          Arrive(r, o, code)
    BY <1>3
  <2>2. step'[r] = (IF o \in {"totp", "recovery"} THEN "locked" ELSE "find") /\ op'[r] = o
    BY <2>1 DEF Arrive, Goto, RequestTypes
  <2>3. UNCHANGED <<failures, wrong>> /\ step[r] = "idle"
    BY <2>1 DEF Arrive, tables, history
  <2> QED  BY <1>0, <2>2, <2>3 DEF Quiet, Failed, Guessing
<1>4. CASE Enroll(r) \/ Disable(r) \/ InsertCodes(r) \/ Elevate(r)
  <2>1. step'[r] = "idle"
    BY <1>4, ReturnKeeps DEF Enroll, Disable, InsertCodes, Elevate
  <2>2. UNCHANGED <<failures, wrong>> /\ step[r] # "failed"
    BY <1>4 DEF Enroll, Disable, InsertCodes, Elevate, history
  <2> QED  BY <1>1, <2>1, <2>2
<1>5. CASE EnrollFind(r) \/ Supersede(r) \/ Replace(r) \/ DeleteCodes(r)
  <2>1. PICK s \in {"enroll", "supersede", "activate", "insert"} : Goto(r, s)
    BY <1>5 DEF EnrollFind, Supersede, Replace, DeleteCodes
  <2>2. step'[r] \notin {"find", "verify", "consume"}  BY <2>1, GotoFacts
  <2>3. UNCHANGED <<failures, wrong>> /\ step[r] # "failed"
    BY <1>5 DEF EnrollFind, Supersede, Replace, DeleteCodes, tables, history
  <2> QED  BY <1>1, <2>2, <2>3
<1>6. CASE ActivateFind(r) \/ ActivateCheck(r) \/ ActiveFind(r) \/ Activate(r) \/ Use(r)
  <2>1. PICK s \in {"findActive", "activate", "replace", "disable", "delete", "reset",
                    "idle"} : Goto(r, s)
    BY <1>6 DEF ActivateFind, ActivateCheck, ActiveFind, Activate, Use, Return
  <2>2. step'[r] \notin {"find", "verify", "consume"}  BY <2>1, GotoFacts
  <2>3. UNCHANGED <<failures, wrong>> /\ step[r] # "failed"
    BY <1>6 DEF ActivateFind, ActivateCheck, ActiveFind, Activate, Use, tables, history
  <2> QED  BY <1>1, <2>2, <2>3
<1>7. CASE IsLocked(r)
  <2>1. step[r] = "locked" /\ UNCHANGED <<failures, wrong>>
    BY <1>7 DEF IsLocked, tables, history
  <2>2. CASE Return(r)  BY <1>1, <2>1, <2>2, ReturnKeeps
  <2>3. CASE (~Exceeded /\ UNCHANGED broken) \/ broken' = broken + 1
    <3>1. failures \in Nat /\ Threshold \in Nat
      BY SecondFactorAssumption DEF SharedTypes
    <3> QED  BY <2>1, <2>3, <3>1 DEF LetThrough, Exceeded, Failed
  <2> QED  BY <1>7, <2>2, <2>3 DEF IsLocked
<1>8. CASE TotpFind(r)
  <2>1. step[r] = "find" /\ op[r] = "totp" /\ UNCHANGED <<failures, broken>>
    BY <1>8 DEF TotpFind, tables
  <2>2. Reject(r) \/ UNCHANGED wrong  BY <1>8 DEF TotpFind
  <2>3. ASSUME UNCHANGED wrong PROVE Quiet(r)
    BY <1>0, <2>1, <2>3 DEF Quiet, Failed, Guessing
  <2> QED  BY <1>2, <2>1, <2>2, <2>3
<1>9. CASE Verify(r)
  <2>1. step[r] = "verify" /\ UNCHANGED <<failures, broken>>
    BY <1>9 DEF Verify, tables
  <2>2. Reject(r) \/ UNCHANGED wrong  BY <1>9 DEF Verify
  <2>3. ASSUME UNCHANGED wrong PROVE Quiet(r)
    BY <1>0, <2>1, <2>3 DEF Quiet, Failed, Guessing
  <2> QED  BY <1>2, <2>1, <2>2, <2>3
<1>10. CASE RecoveryFind(r)
  <2>1. step[r] = "find" /\ op[r] = "recovery" /\ UNCHANGED <<failures, broken>>
    BY <1>10 DEF RecoveryFind, tables
  <2>2. Reject(r) \/ UNCHANGED wrong  BY <1>10 DEF RecoveryFind
  <2>3. ASSUME UNCHANGED wrong PROVE Quiet(r)
    BY <1>0, <2>1, <2>3 DEF Quiet, Failed, Guessing
  <2> QED  BY <1>2, <2>1, <2>2, <2>3
<1>11. CASE Consume(r)
  <2>1. step[r] = "consume" /\ UNCHANGED <<failures, broken>>
    BY <1>11 DEF Consume
  <2>2. Reject(r) \/ UNCHANGED wrong  BY <1>11 DEF Consume
  <2>3. ASSUME UNCHANGED wrong PROVE Quiet(r)
    BY <1>0, <2>1, <2>3 DEF Quiet, Failed, Guessing
  <2> QED  BY <1>2, <2>1, <2>2, <2>3
<1>12. CASE RegisterFailure(r)
  <2>1. step'[r] = "idle"  BY <1>12, ReturnKeeps DEF RegisterFailure
  <2>2. UNCHANGED wrong  BY <1>12 DEF RegisterFailure, history
  <2>3. \/ failures' = failures + 1 /\ UNCHANGED broken
        \/ broken' = broken + 1 /\ UNCHANGED failures
    BY <1>12 DEF RegisterFailure
  <2> QED  BY <2>1, <2>2, <2>3 DEF Counted, Guessing
<1>13. CASE Fail(r)
  <2>1. step'[r] = "idle"  BY <1>13, ReturnKeeps DEF Fail
  <2>2. UNCHANGED <<failures, wrong>> /\ broken' = broken + 1
    BY <1>13 DEF Fail, tables, history
  <2> QED  BY <2>1, <2>2 DEF Counted, Guessing
<1>14. CASE ResetLockout(r)
  <2>1. step[r] = "reset" /\ step'[r] = "elevate"
    BY <1>14, GotoFacts DEF ResetLockout
  <2>2. CASE Restart /\ UNCHANGED broken
    BY <2>1, <2>2 DEF Anew, Guessing, Failed
  <2>3. CASE broken' = broken + 1 /\ UNCHANGED <<failures, wrong>>
    BY <2>1, <2>3 DEF Counted, Guessing
  <2> QED  BY <1>14, <2>2, <2>3 DEF ResetLockout
<1> QED
  BY <1>3, <1>4, <1>5, <1>6, <1>7, <1>8, <1>9, <1>10, <1>11, <1>12, <1>13, <1>14, Zenon
     DEF RequestStep

(* A step of one request moves only that request between the counts.       *)
LEMMA SetsMove ==
  ASSUME NEW r \in Requests, Elsewhere(r)
  PROVE  /\ Guessing \in SUBSET Requests /\ Guessing' \in SUBSET Requests
         /\ Failed \in SUBSET Requests /\ Failed' \in SUBSET Requests
         /\ \A q \in Requests \ {r} :
              (q \in Guessing' <=> q \in Guessing) /\ (q \in Failed' <=> q \in Failed)
BY DEF Elsewhere, Guessing, Failed

LEMMA GuessNext ==
  ASSUME NEW r \in Requests, RequestTypes, SharedTypes, RequestFits(r), RequestStep(r),
         GuessInv
  PROVE  GuessInv'
<1>1. Elsewhere(r)  BY RequestTypesNext
<1>2. PICK G, H, F, E :
        /\ G = Guessing /\ H = Guessing' /\ F = Failed /\ E = Failed'
  OBVIOUS
<1>3. /\ G \in SUBSET Requests /\ H \in SUBSET Requests
      /\ F \in SUBSET Requests /\ E \in SUBSET Requests
      /\ \A q \in Requests \ {r} : (q \in H <=> q \in G) /\ (q \in E <=> q \in F)
      /\ F \cap G = {} /\ E \cap H = {}
  BY <1>1, <1>2, SetsMove DEF Guessing, Failed
<1>4. PICK g, h, f, e, n :
        /\ g = Cardinality(G) /\ h = Cardinality(H) /\ f = Cardinality(F)
        /\ e = Cardinality(E) /\ n = Cardinality(Requests)
  OBVIOUS
<1>5. /\ g \in Nat /\ h \in Nat /\ f \in Nat /\ e \in Nat /\ n \in Nat
      /\ H \subseteq G => h <= g
      /\ H \subseteq G \cup {r} => h <= g + 1
      /\ (r \in G /\ H \subseteq G \ {r}) => h + 1 <= g
  BY <1>3, <1>4, RequestCounts
<1>6. /\ F \subseteq E => f <= e
      /\ F \subseteq E \cup {r} => f <= e + 1
      /\ (r \in E /\ F \subseteq E \ {r}) => f + 1 <= e
  BY <1>3, <1>4, RequestCounts
<1>7. f + h <= n \/ F \cap H # {}
  BY <1>3, <1>4, RequestCounts
<1>8. /\ broken \in Nat /\ broken' \in Nat /\ failures \in Nat /\ failures' \in Nat
      /\ wrong \in Nat /\ wrong' \in Nat /\ Threshold \in Nat \ {0}
  BY SharedTypesNext, BrokenGrows, SecondFactorAssumption DEF SharedTypes
<1>9. /\ wrong <= failures + f + broken
      /\ wrong + g <= Threshold - 1 + n + broken
  BY <1>2, <1>4 DEF GuessInv
<1>10. SUFFICES /\ wrong' <= failures' + e + broken'
                /\ wrong' + h <= Threshold - 1 + n + broken'
  BY <1>2, <1>4 DEF GuessInv
<1>11. CASE Quiet(r)
  <2>1. UNCHANGED <<failures, wrong>> /\ broken' >= broken /\ F \subseteq E /\ H \subseteq G
    BY <1>2, <1>3, <1>11 DEF Quiet
  <2>2. h <= g /\ f <= e  BY <1>5, <1>6, <2>1
  <2>3. wrong' = wrong /\ failures' = failures /\ broken' >= broken  BY <2>1
  <2>4. PICK b, b2, w, k :
          b = broken /\ b2 = broken' /\ w = wrong /\ k = failures
    OBVIOUS
  <2>5. /\ b \in Nat /\ b2 \in Nat /\ w \in Nat /\ k \in Nat /\ b <= b2
        /\ w <= k + f + b /\ w + g <= Threshold - 1 + n + b
    BY <1>8, <1>9, <2>3, <2>4
  <2>6. w <= k + e + b2 /\ w + h <= Threshold - 1 + n + b2
    BY <1>5, <1>8, <2>2, <2>5
  <2> QED  BY <2>3, <2>4, <2>6
<1>12. CASE LetThrough(r)
  <2>1. /\ UNCHANGED <<failures, wrong>> /\ F \subseteq E /\ H \subseteq G \cup {r}
        /\ F \cap H = {}
    BY <1>2, <1>3, <1>12 DEF LetThrough
  <2>2. (failures < Threshold /\ broken' = broken) \/ broken' = broken + 1
    BY <1>12 DEF LetThrough
  <2>3. h <= g + 1 /\ f <= e /\ f + h <= n  BY <1>5, <1>6, <1>7, <2>1
  <2>4. wrong' = wrong /\ failures' = failures  BY <2>1
  <2>5. CASE failures < Threshold /\ broken' = broken
    BY <1>5, <1>8, <1>9, <2>3, <2>4, <2>5
  <2>6. CASE broken' = broken + 1
    BY <1>5, <1>8, <1>9, <2>3, <2>4, <2>6
  <2> QED  BY <2>2, <2>5, <2>6
<1>13. CASE GuessRejected(r)
  <2>1. /\ wrong' = wrong + 1 /\ UNCHANGED <<failures, broken>>
        /\ r \in G /\ H \subseteq G \ {r} /\ r \in E /\ F \subseteq E \ {r}
    BY <1>2, <1>3, <1>13 DEF GuessRejected
  <2> QED  BY <1>5, <1>6, <1>8, <1>9, <2>1
<1>14. CASE Counted(r)
  <2>1. /\ UNCHANGED wrong /\ H \subseteq G /\ F \subseteq E \cup {r}
        /\ \/ failures' = failures + 1 /\ UNCHANGED broken
           \/ broken' = broken + 1 /\ UNCHANGED failures
    BY <1>2, <1>3, <1>14 DEF Counted
  <2>2. h <= g /\ f <= e + 1 /\ wrong' = wrong  BY <1>5, <1>6, <2>1
  <2>3. CASE failures' = failures + 1 /\ broken' = broken
    BY <1>5, <1>8, <1>9, <2>2, <2>3
  <2>4. CASE broken' = broken + 1 /\ failures' = failures
    BY <1>5, <1>8, <1>9, <2>2, <2>4
  <2> QED  BY <2>1, <2>3, <2>4
<1>15. CASE Anew(r)
  <2>1. /\ failures' = 0 /\ wrong' = f /\ UNCHANGED broken
        /\ F \subseteq E /\ F \cap H = {}
    BY <1>2, <1>3, <1>4, <1>15, UncountedIsFailed DEF Anew, Restart
  <2> QED  BY <1>5, <1>6, <1>7, <1>8, <2>1
<1> QED  BY <1>11, <1>12, <1>13, <1>14, <1>15, GuessStep

(* The lockout window ends: the counts start with what is not counted yet. *)
LEMMA GuessAnew ==
  ASSUME SharedTypes, GuessInv, WindowEnds
  PROVE  GuessInv' /\ wrong' \in Nat
<1>1. Guessing' = Guessing /\ Failed' = Failed
  BY DEF WindowEnds, Guessing, Failed, locals
<1>2. Failed \cap Guessing = {} /\ Failed \in SUBSET Requests /\ Guessing \in SUBSET Requests
  BY DEF Failed, Guessing
<1>3. failures' = 0 /\ wrong' = Cardinality(Failed) /\ broken' = broken
  BY UncountedIsFailed DEF WindowEnds, Restart
<1>4. Cardinality(Failed) + Cardinality(Guessing) <= Cardinality(Requests)
  <2>1. CASE Requests = {}
    <3>1. Failed = {} /\ Guessing = {}  BY <1>2, <2>1
    <3> QED  BY <2>1, <3>1, FS_EmptySet
  <2>2. CASE Requests # {}
    <3>1. PICK r \in Requests : TRUE  BY <2>2
    <3> QED  BY <1>2, <3>1, RequestCounts
  <2> QED  BY <2>1, <2>2
<1>5. /\ Cardinality(Failed) \in Nat /\ Cardinality(Guessing) \in Nat
      /\ Cardinality(Requests) \in Nat
  BY <1>2, SecondFactorAssumption, FS_Subset, FS_CardinalityType
<1>6. broken \in Nat /\ Threshold \in Nat \ {0}
  BY SecondFactorAssumption DEF SharedTypes
<1>7. /\ wrong' <= failures' + Cardinality(Failed') + broken'
      /\ wrong' + Cardinality(Guessing') <= Threshold - 1 + Cardinality(Requests) + broken'
  BY <1>1, <1>3, <1>4, <1>5, <1>6
<1> QED  BY <1>3, <1>5, <1>7 DEF GuessInv

-----------------------------------------------------------------------------
(* Every step keeps the invariant. *)
LEMMA FactorInvNext == FactorInv /\ [Next]_vars => FactorInv'
<1> SUFFICES ASSUME FactorInv, [Next]_vars PROVE FactorInv'
  OBVIOUS
<1>0. /\ RequestTypes /\ SharedTypes /\ \A r \in Requests : RequestFits(r)
      /\ UsesAreRecorded /\ AcceptedOnce /\ BatchesReplaced /\ GuessInv /\ MfaStaysOn
  BY TypesSplit DEF FactorInv
<1>1. ASSUME NEW r \in Requests, RequestStep(r)
      PROVE  FactorInv'
  <2>1. RequestFits(r)  BY <1>0
  <2>2. RequestTypes' /\ Elsewhere(r)  BY <1>0, <1>1, RequestTypesNext
  <2>3. SharedTypes'  BY <1>0, <1>1, <2>1, SharedTypesNext
  <2>4. TypeOK'  BY <2>2, <2>3 DEF TypeOK, RequestTypes, SharedTypes
  <2>5. ASSUME NEW q \in Requests PROVE RequestFits(q)'
    <3>1. CASE q = r  BY <1>0, <1>1, <2>1, <3>1, RequestFitsNext
    <3>2. CASE q # r
      BY <1>0, <2>2, <3>2 DEF Elsewhere, RequestFits, Fresh
    <3> QED  BY <3>1, <3>2
  <2>6. UsesAreRecorded'  BY <1>0, <1>1, <2>1, UsesNext
  <2>7. AcceptedOnce'  BY <1>0, <1>1, <2>1, AcceptedOnceNext
  <2>8. BatchesReplaced'  BY <1>0, <1>1, <2>1, BatchesNext
  <2>9. GuessInv'  BY <1>0, <1>1, <2>1, GuessNext
  <2>10. MfaStaysOn'  BY <1>0, <1>1, <2>1, StaysOnNext
  <2> QED
    BY <2>4, <2>5, <2>6, <2>7, <2>8, <2>9, <2>10 DEF FactorInv
<1>2. ASSUME UNCHANGED <<row, codes, step, locals, used, redeemed, enabled, raced, broken>>
      PROVE  /\ RequestTypes' /\ \A r \in Requests : RequestFits(r)'
             /\ UsesAreRecorded' /\ AcceptedOnce' /\ BatchesReplaced' /\ MfaStaysOn'
             /\ Guessing' = Guessing /\ Failed' = Failed
  <2>1. RequestTypes'  BY <1>0, <1>2 DEF RequestTypes, locals
  <2>2. \A r \in Requests : RequestFits(r)'
    BY <1>0, <1>2 DEF RequestFits, Fresh, locals
  <2>3. UsesAreRecorded' /\ AcceptedOnce' /\ MfaStaysOn'
    BY <1>0, <1>2 DEF UsesAreRecorded, AcceptedOnce, MfaStaysOn, locals
  <2>4. BatchesReplaced'  BY <1>0, <1>2 DEF BatchesReplaced, Live, locals
  <2>5. Guessing' = Guessing /\ Failed' = Failed
    BY <1>2 DEF Guessing, Failed, locals
  <2> QED  BY <2>1, <2>2, <2>3, <2>4, <2>5
<1>3. CASE WindowEnds
  <2>1. UNCHANGED <<row, codes, step, locals, used, redeemed, enabled, raced, broken>>
        /\ UNCHANGED <<aal, clock>>
    BY <1>3 DEF WindowEnds
  <2>2. failures' = 0 /\ wrong' \in Nat /\ GuessInv'
    BY <1>0, <1>3, GuessAnew DEF WindowEnds, Restart
  <2>3. SharedTypes'  BY <1>0, <2>1, <2>2 DEF SharedTypes
  <2>4. /\ RequestTypes' /\ \A r \in Requests : RequestFits(r)'
        /\ UsesAreRecorded' /\ AcceptedOnce' /\ BatchesReplaced' /\ MfaStaysOn'
    BY <1>2, <2>1
  <2>5. TypeOK'  BY <2>3, <2>4 DEF TypeOK, RequestTypes, SharedTypes
  <2> QED  BY <2>2, <2>4, <2>5 DEF FactorInv
<1>4. CASE Tick \/ UNCHANGED vars
  <2>1. UNCHANGED <<row, codes, step, locals, used, redeemed, enabled, raced, broken>>
        /\ UNCHANGED <<aal, failures, wrong>>
    BY <1>4 DEF Tick, vars, tables, locals, history
  <2>2. clock' \in 0 .. MaxClock
    BY <1>0, <1>4, SecondFactorAssumption DEF Tick, vars, SharedTypes
  <2>3. SharedTypes'  BY <1>0, <2>1, <2>2 DEF SharedTypes
  <2>4. /\ RequestTypes' /\ \A r \in Requests : RequestFits(r)'
        /\ UsesAreRecorded' /\ AcceptedOnce' /\ BatchesReplaced' /\ MfaStaysOn'
        /\ Guessing' = Guessing /\ Failed' = Failed
    BY <1>2, <2>1
  <2>5. TypeOK'  BY <2>3, <2>4 DEF TypeOK, RequestTypes, SharedTypes
  <2>6. GuessInv'  BY <1>0, <2>1, <2>4 DEF GuessInv
  <2> QED  BY <2>4, <2>5, <2>6 DEF FactorInv
<1> QED  BY <1>1, <1>3, <1>4 DEF Next

-----------------------------------------------------------------------------
(* The inductive invariant holds in every reachable state. *)
THEOREM FactorInvAlways == Spec => []FactorInv
<1>1. Init => FactorInv  BY FactorInitially
<1>2. FactorInv /\ [Next]_vars => FactorInv'  BY FactorInvNext
<1> QED  BY <1>1, <1>2, PTL DEF Spec

(* Types, for any number of requests, credentials and batches. *)
THEOREM FactorTypeCorrect == Spec => []TypeOK
<1>1. FactorInv => TypeOK  BY DEF FactorInv
<1> QED  BY <1>1, FactorInvAlways, PTL

(***************************************************************************)
(* What a stolen or guessed code is worth, whatever runs beside it: a      *)
(* recovery code is accepted once, replacements that do not overlap leave  *)
(* one live batch, and the lockout counter bounds the wrong guesses.       *)
(***************************************************************************)
THEOREM CodesAreContainedAlways == Spec => []CodesAreContained
<1>1. ASSUME FactorInv PROVE CodesAreContained
  <2>1. AcceptedOnce /\ BatchesReplaced /\ GuessInv /\ SharedTypes
    BY <1>1, TypesSplit DEF FactorInv
  <2>2. RecoveryCodeIsSingleUse  BY <2>1 DEF AcceptedOnce, RecoveryCodeIsSingleUse
  <2>3. OneLiveBatch
    <3>1. Live = {b \in Batches : codes[b] = "live"}  BY DEF Live
    <3>2. CASE Live = {}
      <4>1. Cardinality(Live) = 0  BY <3>2, FS_EmptySet
      <4> QED  BY <3>1, <4>1 DEF OneLiveBatch
    <3>3. CASE Live # {} /\ "codes" \notin raced
      <4>1. PICK b \in Live : Live = {b}
        BY <2>1, <3>3 DEF BatchesReplaced
      <4>2. Cardinality(Live) = 1  BY <4>1, FS_Singleton
      <4> QED  BY <3>1, <4>2 DEF OneLiveBatch
    <3> QED  BY <3>2, <3>3 DEF OneLiveBatch
  <2>4. GuessesAreBounded
    <3>1. IsFiniteSet(Guessing)
      BY SecondFactorAssumption, FS_Subset DEF Guessing
    <3>2. Cardinality(Guessing) \in Nat /\ Cardinality(Requests) \in Nat
      BY <3>1, SecondFactorAssumption, FS_CardinalityType
    <3>3. broken \in Nat /\ wrong \in Nat /\ Threshold \in Nat
      BY <2>1, SecondFactorAssumption DEF SharedTypes
    <3>4. wrong + Cardinality(Guessing) <= Threshold - 1 + Cardinality(Requests) + broken
      BY <2>1 DEF GuessInv
    <3> QED  BY <3>2, <3>3, <3>4 DEF GuessesAreBounded
  <2> QED  BY <2>2, <2>3, <2>4 DEF CodesAreContained
<1> QED  BY <1>1, FactorInvAlways, PTL

(***************************************************************************)
(* MFA that was activated and not disabled stays on, apart from the gap    *)
(* between the two saves of a replacement.                                 *)
(***************************************************************************)
THEOREM MfaStaysOnAlways == Spec => []MfaStaysOn
<1>1. FactorInv => MfaStaysOn  BY DEF FactorInv
<1> QED  BY <1>1, FactorInvAlways, PTL

(***************************************************************************)
(* A TOTP code is accepted once, as long as no request overwrites a        *)
(* credential that changed after it was loaded.                            *)
(***************************************************************************)
THEOREM TotpIsSingleUseAlways == Spec => TotpIsSingleUse
<1> DEFINE Single ==
      \A r \in Requests :
        (/\ step[r] \in {"use", "activate"} /\ step'[r] \in {"reset", "delete"}
         /\ input[r] \in used)
        => "credential" \in raced'
<1>1. ASSUME FactorInv, Next PROVE Single
  <2> SUFFICES ASSUME NEW r \in Requests, step[r] \in {"use", "activate"},
                      step'[r] \in {"reset", "delete"}, input[r] \in used
               PROVE  "credential" \in raced'
    OBVIOUS
  <2>1. /\ RequestTypes /\ SharedTypes /\ RequestFits(r) /\ UsesAreRecorded
    BY <1>1, TypesSplit DEF FactorInv
  <2>2. step'[r] # step[r]  OBVIOUS
  <2>3. PICK q \in Requests : RequestStep(q)
    BY <1>1, <2>2 DEF Next, WindowEnds, Tick
  <2>4. q = r  BY <2>1, <2>2, <2>3, RequestTypesNext DEF Elsewhere
  <2> QED  BY <2>1, <2>3, <2>4, AcceptedWasUnused
<1>2. FactorInv /\ [Next]_vars => [Single]_vars  BY <1>1
<1> QED  BY <1>2, FactorInvAlways, PTL DEF Spec, TotpIsSingleUse

(***************************************************************************)
(* A revoked credential stays revoked and an active one is given up only   *)
(* by a caller who proved a second factor, unless a request overwrites a   *)
(* credential that changed after it was loaded.                            *)
(***************************************************************************)
THEOREM FactorIsProtectedAlways == Spec => FactorIsProtected
<1> DEFINE Protected ==
      \A c \in Creds :
        /\ row[c].status = "revoked" =>
             row'[c].status = "revoked" \/ "credential" \in raced'
        /\ (row[c].status = "active" /\ row'[c].status # "active") =>
             \/ "credential" \in raced'
             \/ \E r \in Requests : op[r] \in SteppedUp /\ step'[r] # step[r]
<1>1. ASSUME FactorInv, Next PROVE Protected
  <2>1. RequestTypes /\ SharedTypes /\ \A r \in Requests : RequestFits(r)
    BY <1>1, TypesSplit DEF FactorInv
  <2>2. CASE UNCHANGED row  BY <2>2
  <2>3. CASE \E r \in Requests : RequestStep(r)
    <3>1. PICK r \in Requests : RequestStep(r)  BY <2>3
    <3>2. ASSUME NEW c \in Creds, "credential" \notin raced'
          PROVE  /\ row[c].status = "revoked" => row'[c].status = "revoked"
                 /\ (row[c].status = "active" /\ row'[c].status # "active") =>
                      op[r] \in SteppedUp /\ step'[r] # step[r]
      BY <2>1, <3>1, <3>2, GivenUpByOwner
    <3> QED  BY <3>2
  <2> QED  BY <1>1, <2>2, <2>3 DEF Next, WindowEnds, Tick, tables
<1>2. FactorInv /\ [Next]_vars => [Protected]_vars  BY <1>1
<1> QED  BY <1>2, FactorInvAlways, PTL DEF Spec, FactorIsProtected

-----------------------------------------------------------------------------
(* Signing keys.                                                           *)

(* What commands, issuances and readers keep between their awaits. *)
Command ==
  [op : {"none", "rotate", "promote", "retire"},
   step : {"idle", "read", "latest", "go", "reread", "pin", "unpin", "promote", "drop"},
   version : Versions \cup {NoPin}, doc : Docs, at : 0 .. MaxTime, waited : 0 .. Delay]

Issuance ==
  [step : {"idle", "resolve", "latest", "sign"}, version : Versions \cup {NoPin},
   iat : 0 .. MaxTime, caught : BOOLEAN]

Reading ==
  [step : {"idle", "load", "stamp", "rejected"}, version : Versions \cup {NoPin},
   keys : SUBSET Versions, at : 0 .. MaxTime, waited : 0 .. Delay]

KeysTyped ==
  /\ KeyTypeOK
  /\ adm \in [Admins -> Command]
  /\ iss \in [Issuers -> Issuance]
  /\ ver \in [Verifiers -> Reading]
  /\ cache \in [keys : SUBSET Versions, at : 0 .. MaxTime]
  /\ lost \in BOOLEAN /\ unpinned \in BOOLEAN
  /\ deaths \in Nat

(* A version that a promotion has replaced, or that one put in charge.     *)
Replaced(n) == \E p \in promoted : n < p
Old(n) == \E p \in promoted : n <= p

(* A rotation of an old version is between the new version and its pin.    *)
Rooted ==
  \E a \in Admins : adm[a].step \in {"reread", "pin"} /\ Old(adm[a].version)

(* Versions in use exist, and what drains was replaced. *)
VersionsInv ==
  /\ promoted # {} /\ \A p \in promoted : p <= latest
  /\ \E p \in promoted : min <= p
  /\ doc.pinned # NoPin => doc.pinned < latest
  /\ \A e \in doc.retiring : Replaced(e.version)
  /\ \A t \in tokens : t.version <= latest /\ t.iat <= now

(* What a command knows at its step. *)
CommandFits(a) ==
  /\ adm[a].step = "idle" <=> adm[a].op = "none"
  /\ adm[a].step \in {"reread", "pin"} => adm[a].op = "rotate"
  /\ adm[a].step \in {"promote", "unpin"} => adm[a].op = "promote"
  /\ adm[a].step = "latest" => adm[a].op \in {"rotate", "promote"}
  /\ adm[a].step = "latest" => adm[a].doc.pinned = NoPin
  /\ adm[a].step = "drop" => adm[a].op = "retire"
  /\ adm[a].version <= latest
  /\ adm[a].doc.pinned # NoPin => adm[a].doc.pinned < latest
  /\ \A e \in adm[a].doc.retiring : Replaced(e.version)
  /\ (adm[a].op \in {"rotate", "promote"} /\ adm[a].step \notin {"read", "latest"}) =>
       adm[a].version # NoPin
  /\ (/\ adm[a].op = "promote" /\ adm[a].step \in {"go", "unpin", "promote"}
      /\ adm[a].doc.pinned # NoPin) => adm[a].version = adm[a].doc.pinned
  /\ adm[a].step \in {"reread", "pin"} => adm[a].version < latest
  /\ adm[a].step = "promote" => adm[a].version < latest /\ now = adm[a].at + adm[a].waited
  /\ adm[a].step # "promote" => adm[a].waited = 0
  /\ adm[a].step = "unpin" => adm[a].doc.pinned = NoPin
  /\ adm[a].at <= now
  /\ (adm[a].op = "retire" /\ adm[a].step \in {"go", "drop"}) => Drained(a) # {}

(* No version but a promoted one is in charge, or about to be pinned,      *)
(* unless a rotation is at it.                                             *)
Settled ==
  /\ doc.pinned # NoPin => doc.pinned \in promoted \/ Rooted
  /\ doc.pinned = NoPin => latest \in promoted \/ Rooted
  /\ \A a \in Admins :
       (adm[a].op = "rotate" /\ adm[a].step \in {"go", "reread", "pin"}) =>
         Old(adm[a].version) \/ doc.pinned # NoPin \/ Rooted

InCharge == Settled \/ unpinned \/ lost

IssuanceFits(i) ==
  /\ iss[i].step = "idle" => iss[i] = Unissued
  /\ iss[i].step # "idle" => iss[i].iat <= now
  /\ iss[i].step = "sign" => iss[i].version \in 1 .. latest
  /\ iss[i].step = "latest" =>
       latest \in promoted \/ iss[i].caught \/ unpinned \/ lost

PinHolds == ~lost => doc.pinned = NoPin \/ ~Replaced(doc.pinned)

(* Tokens of a draining version, and those about to be signed, were begun  *)
(* before the promotion that drains it was written.                        *)
DrainedBy(iat, n, d) ==
  \A e \in d.retiring : n <= e.version => iat + AccessTtl <= e.until + Delay

Covers(d, toks, issued) ==
  /\ \A t \in toks : DrainedBy(t.iat, t.version, d)
  /\ \A i \in Issuers :
       issued[i].step = "sign" => DrainedBy(issued[i].iat, issued[i].version, d)

DrainsHold ==
  ~lost => /\ Covers(doc, tokens, iss)
           /\ \A a \in Admins : Covers(adm[a].doc, tokens, iss)

(* A version that a reader does not find is younger than its reading. *)
ReadingFits(v) ==
  /\ ver[v].version <= latest
  /\ ver[v].step = "rejected" => ver[v].version # NoPin
  /\ ver[v].step # "stamp" => ver[v].waited = 0
  /\ ver[v].step = "stamp" =>
       (~lost => \A n \in (1 .. latest) \ ver[v].keys : n >= min => now <= born[n] + ver[v].waited)

CacheFits ==
  /\ cache.at <= now
  /\ (cache.keys # {} /\ ~lost) =>
       \A n \in (1 .. latest) \ cache.keys : n >= min => cache.at <= born[n] + Delay

KeyInv ==
  /\ KeysTyped
  /\ VersionsInv
  /\ \A a \in Admins : CommandFits(a)
  /\ InCharge
  /\ \A i \in Issuers : IssuanceFits(i)
  /\ PinHolds
  /\ DrainsHold
  /\ \A v \in Verifiers : ReadingFits(v)
  /\ CacheFits
  /\ PublishBeforeSign
  /\ RetireAfterDrain
  /\ NewKeysAreFound

-----------------------------------------------------------------------------
Less == {p \in Nat \X Nat : p[1] < p[2]}

(* The naturals are well ordered. *)
LEMMA LessWellFounded == IsWellFoundedOn(Less, Nat)
BY NatLessThanWellFounded DEF OpToRel, Less

(* A set of naturals that is not empty has a least element. *)
LEMMA LeastElement ==
  ASSUME NEW S \in SUBSET Nat, S # {}
  PROVE  \E m \in S : \A n \in S : m <= n
<1>1. PICK m \in S : \A n \in S : <<n, m>> \notin Less
  BY LessWellFounded, WFMin, Zenon
<1>2. ASSUME NEW n \in S, n < m PROVE FALSE
  <2>1. <<n, m>> \in Nat \X Nat  OBVIOUS
  <2>2. <<n, m>> \in Less  BY <2>1, <1>2 DEF Less
  <2> QED  BY <2>2, <1>1
<1> QED  BY <1>2

(* Max of a set of versions that is not empty is the newest of them.       *)
LEMMA NewestVersion ==
  ASSUME NEW S \in SUBSET Versions, S # {}
  PROVE  Max(S) \in S /\ \A k \in S : k <= Max(S)
<1> DEFINE Bounds == {b \in Nat : \A k \in S : k <= b}
<1>1. MaxVersion \in Bounds  BY SigningKeysAssumption DEF Versions
<1>2. PICK b \in Bounds : \A c \in Bounds : b <= c
  <2>1. Bounds \in SUBSET Nat  OBVIOUS
  <2> HIDE DEF Bounds
  <2> QED  BY <1>1, <2>1, LeastElement
<1>3. b \in S
  <2>1. SUFFICES ASSUME b \notin S PROVE FALSE  OBVIOUS
  <2>2. \A j \in S : j \in Nat /\ j < b  BY <2>1 DEF Versions
  <2>3. PICK k \in S : TRUE  OBVIOUS
  <2>4. b - 1 \in Bounds  BY <2>2, <2>3
  <2> QED  BY <2>4, <1>2
<1>4. \E m \in S : \A k \in S : m >= k  BY <1>3 DEF Versions
<1>5. /\ Max(S) \in S
      /\ \A k \in S : Max(S) >= k
  BY <1>4, Zenon DEF Max
<1> QED  BY <1>5 DEF Versions

-----------------------------------------------------------------------------
(* A step of one command leaves what the others keep. *)
Becomes(a, o, s, n, d, t) ==
  /\ adm' \in [Admins -> Command]
  /\ \A b \in Admins \ {a} : adm'[b] = adm[b]
  /\ adm'[a].op = o /\ adm'[a].step = s /\ adm'[a].version = n
  /\ adm'[a].doc = d /\ adm'[a].at = t /\ adm'[a].waited = 0

LEMMA RestIsCommand ==
  /\ NoDoc \in Docs /\ NoDoc.pinned = NoPin /\ NoDoc.retiring = {}
  /\ Rest \in Command
  /\ Rest.op = "none" /\ Rest.step = "idle" /\ Rest.version = NoPin
  /\ Rest.doc = NoDoc /\ Rest.at = 0 /\ Rest.waited = 0
<1>1. NoDoc \in Docs  BY DEF NoDoc, Docs
<1> QED  BY <1>1, SigningKeysAssumption DEF Rest, Command, NoDoc

LEMMA EndMoves ==
  ASSUME KeysTyped, NEW a \in Admins, EndCommand(a)
  PROVE  /\ adm'[a] = Rest
         /\ Becomes(a, "none", "idle", NoPin, NoDoc, 0)
BY RestIsCommand DEF KeysTyped, EndCommand, Becomes

LEMMA BeginMoves ==
  ASSUME KeysTyped, NEW a \in Admins, NEW o \in {"rotate", "promote", "retire"},
         Begin(a, o)
  PROVE  Becomes(a, o, "read", NoPin, NoDoc, 0)
<1>1. PICK C : C = Command  OBVIOUS
<1>2. [[Rest EXCEPT !.op = o] EXCEPT !.step = "read"] \in C
  BY <1>1, RestIsCommand DEF Rest, Command
<1> QED  BY <1>1, <1>2, RestIsCommand DEF Begin, KeysTyped, Becomes, Command

LEMMA ReadStateMoves ==
  ASSUME KeysTyped, NEW a \in Admins, CommandFits(a), ReadState(a)
  PROVE  /\ Becomes(a, adm[a].op, IF doc.pinned = NoPin THEN "latest" ELSE "go",
                    doc.pinned, doc, adm[a].at)
         /\ adm[a].op \in {"rotate", "promote"}
<1>1. doc \in Docs /\ doc.pinned \in Versions \cup {NoPin}  BY DEF KeysTyped, KeyTypeOK, Docs
<1> QED  BY <1>1 DEF ReadState, KeysTyped, Becomes, Command, CommandFits

LEMMA ReadLatestMoves ==
  ASSUME KeysTyped, NEW a \in Admins, CommandFits(a), ReadLatest(a)
  PROVE  Becomes(a, adm[a].op, "go", latest, adm[a].doc, adm[a].at)
<1>1. latest \in Versions  BY DEF KeysTyped, KeyTypeOK
<1> QED  BY <1>1 DEF ReadLatest, KeysTyped, Becomes, Command, CommandFits

LEMMA RotateKeyMoves ==
  ASSUME KeysTyped, NEW a \in Admins, CommandFits(a), RotateKey(a)
  PROVE  Becomes(a, "rotate", "reread", adm[a].version, adm[a].doc, adm[a].at)
BY DEF RotateKey, At, KeysTyped, Becomes, Command, CommandFits

LEMMA RotateRereadMoves ==
  ASSUME KeysTyped, NEW a \in Admins, CommandFits(a), RotateReread(a)
  PROVE  Becomes(a, "rotate", "pin", adm[a].version, doc, adm[a].at)
<1>1. doc \in Docs  BY DEF KeysTyped, KeyTypeOK
<1> QED  BY <1>1 DEF RotateReread, At, KeysTyped, Becomes, Command, CommandFits

LEMMA PromoteLatestMoves ==
  ASSUME KeysTyped, NEW a \in Admins, CommandFits(a), PromoteLatest(a)
  PROVE  Becomes(a, "promote",
                 IF latest <= adm[a].version THEN "unpin" ELSE "promote",
                 adm[a].version, adm[a].doc, now)
<1>1. now \in 0 .. MaxTime /\ adm[a] \in Command  BY DEF KeysTyped, KeyTypeOK
<1>2. PICK s \in {"unpin", "promote"} :
        s = IF latest <= adm[a].version THEN "unpin" ELSE "promote"
  OBVIOUS
<1>3. /\ adm' = [adm EXCEPT ![a].step = s, ![a].at = now]
      /\ adm[a].op = "promote" /\ adm[a].waited = 0
  BY <1>2 DEF PromoteLatest, At, CommandFits
<1>4. Becomes(a, "promote", s, adm[a].version, adm[a].doc, now)
  BY <1>1, <1>3 DEF KeysTyped, Becomes, Command
<1> QED  BY <1>2, <1>4

LEMMA RetireReadMoves ==
  ASSUME KeysTyped, NEW a \in Admins, CommandFits(a), RetireRead(a)
  PROVE  \/ /\ Becomes(a, "retire", "go", adm[a].version, doc, now)
            /\ \E e \in doc.retiring : e.until <= now
         \/ adm'[a] = Rest /\ Becomes(a, "none", "idle", NoPin, NoDoc, 0)
<1>1. doc \in Docs /\ now \in 0 .. MaxTime  BY DEF KeysTyped, KeyTypeOK
<1>2. CASE \E e \in doc.retiring : e.until <= now
  <2>1. adm' = [adm EXCEPT ![a] = [adm[a] EXCEPT !.doc = doc, !.at = now, !.step = "go"]]
    BY <1>2 DEF RetireRead
  <2>2. adm[a].op = "retire" /\ adm[a].step = "read"  BY DEF RetireRead, At
  <2>3. Becomes(a, "retire", "go", adm[a].version, doc, now)
    BY <1>1, <2>1, <2>2 DEF KeysTyped, Becomes, Command, CommandFits
  <2> QED  BY <1>2, <2>3
<1>3. CASE ~\E e \in doc.retiring : e.until <= now
  <2>1. EndCommand(a)  BY <1>3 DEF RetireRead, EndCommand
  <2> QED  BY <2>1, EndMoves
<1> QED  BY <1>2, <1>3

LEMMA RetireKeysMoves ==
  ASSUME KeysTyped, NEW a \in Admins, CommandFits(a), RetireKeys(a)
  PROVE  Becomes(a, "retire", "drop", adm[a].version, adm[a].doc, adm[a].at)
BY DEF RetireKeys, At, KeysTyped, Becomes, Command, CommandFits

(* The clock moves on, and so does what waits. *)
LEMMA TickMoves ==
  ASSUME KeysTyped, KeyTick
  PROVE  /\ adm' \in [Admins -> Command] /\ ver' \in [Verifiers -> Reading]
         /\ now' = now + 1 /\ now' \in 0 .. MaxTime
         /\ UNCHANGED <<latest, min, born, doc, tokens, cache, iss, deaths,
                        promoted, unpinned, lost>>
         /\ \A a \in Admins :
              /\ adm'[a].op = adm[a].op /\ adm'[a].step = adm[a].step
              /\ adm'[a].version = adm[a].version /\ adm'[a].doc = adm[a].doc
              /\ adm'[a].at = adm[a].at
              /\ adm'[a].waited = IF adm[a].step = "promote" THEN adm[a].waited + 1
                                  ELSE adm[a].waited
         /\ \A v \in Verifiers :
              /\ ver'[v].step = ver[v].step /\ ver'[v].version = ver[v].version
              /\ ver'[v].keys = ver[v].keys /\ ver'[v].at = ver[v].at
              /\ ver'[v].waited = IF ver[v].step = "stamp" THEN ver[v].waited + 1
                                  ELSE ver[v].waited
<1>1. now' = now + 1 /\ now' \in 0 .. MaxTime
  BY SigningKeysAssumption DEF KeyTick, KeysTyped, KeyTypeOK
<1>2. UNCHANGED <<latest, min, born, doc, tokens, cache, iss, deaths,
                  promoted, unpinned, lost>>
  BY DEF KeyTick, vault, keyHistory
<1>3. ASSUME NEW a \in Admins
      PROVE  /\ adm'[a] \in Command
             /\ adm'[a].op = adm[a].op /\ adm'[a].step = adm[a].step
             /\ adm'[a].version = adm[a].version /\ adm'[a].doc = adm[a].doc
             /\ adm'[a].at = adm[a].at
             /\ adm'[a].waited = IF adm[a].step = "promote" THEN adm[a].waited + 1
                                 ELSE adm[a].waited
  <2>1. adm[a] \in Command  BY DEF KeysTyped
  <2>2. adm[a].step # "stamp"  BY <2>1 DEF Command
  <2>3. CASE Timed(adm[a])
    <3>1. adm'[a] = [adm[a] EXCEPT !.waited = @ + 1] /\ adm[a].waited < Delay
      BY <2>3 DEF KeyTick
    <3>2. adm[a].step = "promote"  BY <2>2, <2>3 DEF Timed
    <3> QED  BY <2>1, <3>1, <3>2, SigningKeysAssumption DEF Command
  <2>4. CASE ~Timed(adm[a])
    BY <2>1, <2>4 DEF KeyTick, Timed
  <2> QED  BY <2>3, <2>4
<1>4. ASSUME NEW v \in Verifiers
      PROVE  /\ ver'[v] \in Reading
             /\ ver'[v].step = ver[v].step /\ ver'[v].version = ver[v].version
             /\ ver'[v].keys = ver[v].keys /\ ver'[v].at = ver[v].at
             /\ ver'[v].waited = IF ver[v].step = "stamp" THEN ver[v].waited + 1
                                 ELSE ver[v].waited
  <2>1. ver[v] \in Reading  BY DEF KeysTyped
  <2>2. ver[v].step # "promote"  BY <2>1 DEF Reading
  <2>3. CASE Timed(ver[v])
    <3>1. ver'[v] = [ver[v] EXCEPT !.waited = @ + 1] /\ ver[v].waited < Delay
      BY <2>3 DEF KeyTick
    <3>2. ver[v].step = "stamp"  BY <2>2, <2>3 DEF Timed
    <3> QED  BY <2>1, <3>1, <3>2, SigningKeysAssumption DEF Reading
  <2>4. CASE ~Timed(ver[v])
    BY <2>1, <2>4 DEF KeyTick, Timed
  <2> QED  BY <2>3, <2>4
<1>5. adm' \in [Admins -> Command]
  <2>1. adm' = [a \in Admins |-> adm'[a]]  BY DEF KeyTick
  <2> QED  BY <1>3, <2>1
<1>6. ver' \in [Verifiers -> Reading]
  <2>1. ver' = [v \in Verifiers |-> ver'[v]]  BY DEF KeyTick
  <2> QED  BY <1>4, <2>1
<1> QED  BY <1>1, <1>2, <1>3, <1>4, <1>5, <1>6

-----------------------------------------------------------------------------
(* A step of an issuance or of a reading leaves the others. *)
IssueMoves(i, s, n, t) ==
  /\ iss' \in [Issuers -> Issuance]
  /\ \A j \in Issuers \ {i} : iss'[j] = iss[j]
  /\ iss'[i].step = s /\ iss'[i].version = n /\ iss'[i].iat = t

ReadMoves(v, s, n, k) ==
  /\ ver' \in [Verifiers -> Reading]
  /\ \A w \in Verifiers \ {v} : ver'[w] = ver[w]
  /\ ver'[v].step = s /\ ver'[v].version = n /\ ver'[v].keys = k
  /\ ver'[v].waited = 0

LEMMA IssueBegins ==
  ASSUME KeysTyped, NEW i \in Issuers, Issue(i)
  PROVE  IssueMoves(i, "resolve", NoPin, now)
<1>1. now \in 0 .. MaxTime  BY DEF KeysTyped, KeyTypeOK
<1>2. PICK x : x = [[Unissued EXCEPT !.step = "resolve"] EXCEPT !.iat = now]
  OBVIOUS
<1>3. x \in Issuance /\ x.step = "resolve" /\ x.version = NoPin /\ x.iat = now
  BY <1>1, <1>2 DEF Unissued, Issuance
<1>4. iss' = [iss EXCEPT ![i] = x]
  BY <1>2 DEF Issue
<1> QED  BY <1>3, <1>4 DEF KeysTyped, IssueMoves

LEMMA ResolveMoves ==
  ASSUME KeysTyped, NEW i \in Issuers, Resolve(i)
  PROVE  \/ /\ iss[i].step = "resolve" /\ doc.pinned = NoPin
            /\ IssueMoves(i, "latest", NoPin, iss[i].iat)
            /\ iss'[i].caught = Unpinned
         \/ /\ iss[i].step = "resolve" /\ doc.pinned # NoPin
            /\ IssueMoves(i, "sign", doc.pinned, iss[i].iat)
            /\ iss'[i].caught = Unpinned
         \/ /\ iss[i].step = "latest"
            /\ IssueMoves(i, "sign", latest, iss[i].iat)
            /\ iss'[i].caught = (iss[i].caught \/ Unpinned)
<1>1. /\ latest \in Versions /\ doc.pinned \in Versions \cup {NoPin}
      /\ iss[i] \in Issuance
  BY DEF KeysTyped, KeyTypeOK, Docs
<1>2. PICK u \in BOOLEAN : u = Unpinned  BY DEF Unpinned
<1>3. CASE iss[i].step = "resolve"
  <2>1. iss' = [iss EXCEPT ![i].version = doc.pinned,
                  ![i].step = IF doc.pinned = NoPin THEN "latest" ELSE "sign",
                  ![i].caught = u]
    BY <1>2, <1>3, Zenon DEF Resolve
  <2>2. CASE doc.pinned = NoPin
    <3>1. IssueMoves(i, "latest", NoPin, iss[i].iat) /\ iss'[i].caught = u
      BY <1>1, <2>1, <2>2 DEF KeysTyped, IssueMoves, Issuance
    <3> QED  BY <1>2, <1>3, <2>2, <3>1
  <2>3. CASE doc.pinned # NoPin
    <3>1. IssueMoves(i, "sign", doc.pinned, iss[i].iat) /\ iss'[i].caught = u
      BY <1>1, <2>1, <2>3 DEF KeysTyped, IssueMoves, Issuance
    <3> QED  BY <1>2, <1>3, <2>3, <3>1
  <2> QED  BY <2>2, <2>3
<1>4. CASE iss[i].step = "latest"
  <2>1. iss' = [iss EXCEPT ![i].version = latest, ![i].step = "sign",
                  ![i].caught = @ \/ u]
    BY <1>2, <1>4 DEF Resolve
  <2>2. PICK c \in BOOLEAN : c = (iss[i].caught \/ u)  OBVIOUS
  <2>3. iss' = [iss EXCEPT ![i].version = latest, ![i].step = "sign", ![i].caught = c]
    BY <2>1, <2>2
  <2>4. IssueMoves(i, "sign", latest, iss[i].iat) /\ iss'[i].caught = c
    BY <1>1, <2>3 DEF KeysTyped, IssueMoves, Issuance
  <2> QED  BY <1>2, <1>4, <2>2, <2>4
<1> QED  BY <1>3, <1>4 DEF Resolve

LEMMA SignMoves ==
  ASSUME KeysTyped, NEW i \in Issuers, Sign(i)
  PROVE  IssueMoves(i, "idle", NoPin, 0) /\ iss'[i] = Unissued
<1>1. Unissued \in Issuance  BY SigningKeysAssumption DEF Unissued, Issuance
<1> QED  BY <1>1 DEF Sign, KeysTyped, IssueMoves, Unissued

LEMMA KeysMoves ==
  ASSUME KeysTyped, NEW v \in Verifiers, Keys(v)
  PROVE  ReadMoves(v, "load", NoPin, {})
BY SigningKeysAssumption DEF Keys, KeysTyped, ReadMoves, Reading, Unread

LEMMA VerifyMoves ==
  ASSUME KeysTyped, NEW v \in Verifiers, NEW n \in Versions, VerifyToken(v, n)
  PROVE  \/ ReadMoves(v, "load", n, {})
         \/ /\ ReadMoves(v, "rejected", n, {}) /\ ver'[v].at = now
            /\ n \notin cache.keys /\ Younger(RefreshAge)
<1>1. now \in 0 .. MaxTime  BY DEF KeysTyped, KeyTypeOK
<1>2. CASE ver' = [ver EXCEPT ![v].step = "load", ![v].version = n]
  BY <1>2, SigningKeysAssumption DEF VerifyToken, KeysTyped, ReadMoves, Reading, Unread
<1>3. CASE /\ ver' = [ver EXCEPT ![v].step = "rejected", ![v].version = n, ![v].at = now]
           /\ n \notin cache.keys /\ Younger(RefreshAge)
  <2>1. ReadMoves(v, "rejected", n, {}) /\ ver'[v].at = now
    BY <1>1, <1>3, SigningKeysAssumption DEF VerifyToken, KeysTyped, ReadMoves, Reading, Unread
  <2> QED  BY <1>3, <2>1
<1> QED  BY <1>2, <1>3 DEF VerifyToken

LEMMA LoadMoves ==
  ASSUME KeysTyped, NEW v \in Verifiers, ReadingFits(v), Load(v)
  PROVE  ReadMoves(v, "stamp", ver[v].version, min .. latest)
<1>1. min .. latest \in SUBSET Versions
  BY SigningKeysAssumption DEF KeysTyped, KeyTypeOK, Versions
<1>2. PICK k \in SUBSET Versions : k = min .. latest  BY <1>1
<1>3. ver' = [ver EXCEPT ![v].step = "stamp", ![v].keys = k]  BY <1>2 DEF Load
<1>4. PICK x : x = [[ver[v] EXCEPT !.step = "stamp"] EXCEPT !.keys = k]
  OBVIOUS
<1>5. ver[v] \in Reading /\ ver[v].waited = 0
  BY DEF Load, KeysTyped, ReadingFits
<1>6. /\ x \in Reading /\ x.step = "stamp" /\ x.version = ver[v].version
      /\ x.keys = k /\ x.waited = 0
  BY <1>4, <1>5 DEF Reading
<1>7. ver' = [ver EXCEPT ![v] = x]  BY <1>3, <1>4
<1> QED  BY <1>2, <1>6, <1>7 DEF KeysTyped, ReadMoves

LEMMA StampMoves ==
  ASSUME KeysTyped, NEW v \in Verifiers, Stamp(v)
  PROVE  \/ ReadMoves(v, "idle", NoPin, {})
         \/ /\ ReadMoves(v, "rejected", ver[v].version, {}) /\ ver'[v].at = now
            /\ ver[v].version \notin ver[v].keys /\ ver[v].version # NoPin
<1>1. now \in 0 .. MaxTime /\ ver[v] \in Reading /\ Unread \in Reading
  BY SigningKeysAssumption DEF KeysTyped, KeyTypeOK, Unread, Reading
<1>2. CASE ver' = [ver EXCEPT ![v] = Unread]
  BY <1>1, <1>2 DEF KeysTyped, ReadMoves, Unread
<1>3. CASE /\ ver' = [ver EXCEPT ![v] = [ver[v] EXCEPT !.step = "rejected", !.keys = {},
                                             !.at = now, !.waited = 0]]
           /\ ver[v].version \notin ver[v].keys /\ ver[v].version # NoPin
  <2>1. PICK x : x = [ver[v] EXCEPT !.step = "rejected", !.keys = {}, !.at = now,
                                    !.waited = 0]
    OBVIOUS
  <2>2. /\ x \in Reading /\ x.step = "rejected" /\ x.version = ver[v].version
        /\ x.keys = {} /\ x.waited = 0 /\ x.at = now
    <3>1. PICK y : y = [[ver[v] EXCEPT !.step = "rejected"] EXCEPT !.keys = {}]
      OBVIOUS
    <3>2. /\ y \in Reading /\ y.step = "rejected" /\ y.version = ver[v].version
          /\ y.keys = {}
      BY <1>1, <3>1 DEF Reading
    <3>3. x = [[y EXCEPT !.at = now] EXCEPT !.waited = 0]
      BY <2>1, <3>1
    <3>4. PICK z : z = [y EXCEPT !.at = now]
      OBVIOUS
    <3>5. /\ z \in Reading /\ z.step = "rejected" /\ z.version = ver[v].version
          /\ z.keys = {} /\ z.at = now
      BY <1>1, <3>2, <3>4 DEF Reading
    <3>6. 0 \in 0 .. Delay  BY SigningKeysAssumption
    <3>7. x = [z EXCEPT !.waited = 0]  BY <3>3, <3>4
    <3> QED  BY <3>5, <3>6, <3>7 DEF Reading
  <2>3. ver' = [ver EXCEPT ![v] = x]  BY <1>3, <2>1
  <2>4. ReadMoves(v, "rejected", ver[v].version, {}) /\ ver'[v].at = now
    BY <2>2, <2>3 DEF KeysTyped, ReadMoves
  <2> QED  BY <1>3, <2>4
<1> QED  BY <1>2, <1>3 DEF Stamp

LEMMA RejectedMoves ==
  ASSUME KeysTyped, NEW v \in Verifiers, Rejected(v)
  PROVE  ReadMoves(v, "idle", NoPin, {})
<1>1. Unread \in Reading
  BY SigningKeysAssumption DEF Unread, Reading
<1> QED  BY <1>1 DEF Rejected, KeysTyped, ReadMoves, Unread

-----------------------------------------------------------------------------
(* What commands, issuances and readers keep, and what they share.         *)
LocalTypes ==
  /\ adm \in [Admins -> Command]
  /\ iss \in [Issuers -> Issuance]
  /\ ver \in [Verifiers -> Reading]

StoredTypes ==
  /\ now \in 0 .. MaxTime
  /\ latest \in Versions /\ min \in 1 .. MaxVersion + 1
  /\ doc \in Docs
  /\ tokens \subseteq Tokens
  /\ cache \in [keys : SUBSET Versions, at : 0 .. MaxTime]
  /\ born \in [1 .. latest -> 0 .. MaxTime]
  /\ promoted \subseteq Versions
  /\ lost \in BOOLEAN /\ unpinned \in BOOLEAN
  /\ deaths \in Nat

LEMMA KeysTypedSplit == KeysTyped <=> LocalTypes /\ StoredTypes
<1>1. ASSUME LocalTypes, StoredTypes PROVE KeyTypeOK
  BY <1>1 DEF LocalTypes, StoredTypes, KeyTypeOK, Command, Issuance, Reading
<1> QED  BY <1>1 DEF KeysTyped, KeyTypeOK, LocalTypes, StoredTypes

(* The documents that commands write. *)
LEMMA WrittenDocs ==
  ASSUME KeysTyped, NEW a \in Admins, CommandFits(a)
  PROVE  /\ adm[a].doc \in Docs /\ adm[a].doc.pinned \in Versions \cup {NoPin}
         /\ Pinned(a) \in Docs /\ Pinned(a).pinned = adm[a].version
         /\ Pinned(a).retiring = adm[a].doc.retiring
         /\ [adm[a].doc EXCEPT !.pinned = NoPin] \in Docs
         /\ [adm[a].doc EXCEPT !.retiring = @ \ Drained(a)] \in Docs
         /\ At(a, "promote", "promote") => PromotedDoc(a) \in Docs
<1>1. adm[a] \in Command  BY DEF KeysTyped
<1>2. /\ adm[a].doc \in Docs /\ adm[a].version \in Versions \cup {NoPin}
      /\ adm[a].at \in 0 .. MaxTime
  BY <1>1 DEF Command
<1>3. ASSUME At(a, "promote", "promote")
      PROVE  PromotedDoc(a) \in Docs
  <2>1. adm[a].version \in Versions  BY <1>2, <1>3 DEF At, CommandFits
  <2>2. DrainUntil(a) \in 0 .. MaxTime + AccessTtl
    BY <1>2, SigningKeysAssumption DEF DrainUntil
  <2>3. [version |-> adm[a].version, until |-> DrainUntil(a)]
          \in [version : Versions, until : 0 .. MaxTime + AccessTtl]
    BY <2>1, <2>2
  <2> QED  BY <1>2, <2>3 DEF PromotedDoc, Docs
<1> QED  BY <1>2, <1>3 DEF Pinned, Docs

LEMMA LocalTypesNext ==
  ASSUME KeyInv, KeyNext
  PROVE  LocalTypes'
<1> USE DEF KeyInv
<1>0. LocalTypes  BY KeysTypedSplit
<1>1. ASSUME NEW a \in Admins, ReadState(a) \/ ReadLatest(a) \/ Die(a)
      PROVE  LocalTypes'
  <2>1. adm' \in [Admins -> Command]
    BY <1>1, ReadStateMoves, ReadLatestMoves, EndMoves, Zenon DEF Die, Becomes
  <2> QED  BY <1>0, <1>1, <2>1 DEF ReadState, ReadLatest, Die, LocalTypes
<1>2. ASSUME NEW a \in Admins, NEW o \in {"rotate", "promote", "retire"}, Begin(a, o)
      PROVE  LocalTypes'
  BY <1>0, <1>2, BeginMoves DEF Becomes, Begin, LocalTypes
<1>3. ASSUME NEW a \in Admins, RotateKey(a)
      PROVE  LocalTypes'
  <2>1. adm' \in [Admins -> Command]
    BY <1>3, RotateKeyMoves, Zenon DEF Becomes
  <2>2. UNCHANGED ver  BY <1>3 DEF RotateKey
  <2>3. ASSUME NEW i \in Issuers PROVE iss'[i] \in Issuance
    <3>1. PICK c \in BOOLEAN : c = (iss[i].caught \/ iss[i].step = "latest")
      OBVIOUS
    <3>2. iss'[i] = [iss[i] EXCEPT !.caught = c]
      BY <1>3, <3>1 DEF RotateKey
    <3> QED  BY <1>0, <3>2 DEF LocalTypes, Issuance
  <2>4. iss' = [i \in Issuers |-> iss'[i]]  BY <1>3 DEF RotateKey
  <2>5. iss' \in [Issuers -> Issuance]  BY <2>3, <2>4
  <2> QED  BY <1>0, <2>1, <2>2, <2>5 DEF LocalTypes
<1>4. ASSUME NEW a \in Admins, RotateReread(a) \/ PromoteLatest(a) \/ RetireRead(a)
      PROVE  LocalTypes'
  <2>1. adm' \in [Admins -> Command]
    BY <1>4, RotateRereadMoves, PromoteLatestMoves, RetireReadMoves, Zenon DEF Becomes
  <2> QED  BY <1>0, <1>4, <2>1 DEF RotateReread, PromoteLatest, RetireRead, LocalTypes
<1>5. ASSUME NEW a \in Admins, NEW d, Write(a, d), UNCHANGED <<iss, ver>>
      PROVE  LocalTypes'
  BY <1>0, <1>5, EndMoves DEF Write, Becomes, LocalTypes
<1>6. ASSUME NEW a \in Admins,
             RotatePin(a) \/ PromoteUnpin(a) \/ PromoteWrite(a) \/ RetireDrop(a)
      PROVE  LocalTypes'
  BY <1>5, <1>6 DEF RotatePin, PromoteUnpin, PromoteWrite, RetireDrop
<1>7. ASSUME NEW a \in Admins, RetireKeys(a)
      PROVE  LocalTypes'
  BY <1>0, <1>7, RetireKeysMoves DEF Becomes, RetireKeys, LocalTypes
<1>8. ASSUME NEW i \in Issuers, Issue(i) \/ Resolve(i) \/ Sign(i)
      PROVE  LocalTypes'
  <2>1. iss' \in [Issuers -> Issuance]
    BY <1>8, IssueBegins, ResolveMoves, SignMoves, Zenon DEF IssueMoves
  <2> QED  BY <1>0, <1>8, <2>1 DEF Issue, Resolve, Sign, LocalTypes
<1>9. ASSUME NEW v \in Verifiers, NEW t \in tokens, VerifyToken(v, t.version)
      PROVE  LocalTypes'
  <2>1. t.version \in Versions  BY DEF KeysTyped, KeyTypeOK, Tokens
  <2>2. ver' \in [Verifiers -> Reading]
    BY <1>9, <2>1, VerifyMoves, Zenon DEF ReadMoves
  <2> QED  BY <1>0, <1>9, <2>2 DEF VerifyToken, LocalTypes
<1>10. ASSUME NEW v \in Verifiers, Keys(v) \/ Load(v) \/ Stamp(v) \/ Rejected(v)
       PROVE  LocalTypes'
  <2>1. ver' \in [Verifiers -> Reading]
    BY <1>10, KeysMoves, LoadMoves, StampMoves, RejectedMoves, Zenon DEF ReadMoves
  <2> QED  BY <1>0, <1>10, <2>1 DEF Keys, Load, Stamp, Rejected, LocalTypes
<1>11. ASSUME KeyTick PROVE LocalTypes'
  BY <1>0, <1>11, TickMoves DEF LocalTypes
<1> QED
  BY <1>1, <1>2, <1>3, <1>4, <1>6, <1>7, <1>8, <1>9, <1>10, <1>11, Zenon
  DEF KeyNext, Rotate, Promote, Retire

(* The newest drained version was replaced before it drains.               *)
LEMMA RetiredVersion ==
  ASSUME KeysTyped, VersionsInv, NEW a \in Admins, CommandFits(a), RetireKeys(a)
  PROVE  \E e \in adm[a].doc.retiring :
           /\ e \in [version : Versions, until : 0 .. MaxTime + AccessTtl]
           /\ e.until <= adm[a].at /\ min' = e.version + 1 /\ Replaced(e.version)
<1> DEFINE drained == {e.version : e \in Drained(a)}
<1>1. \A e \in adm[a].doc.retiring :
        e \in [version : Versions, until : 0 .. MaxTime + AccessTtl]
  BY DEF KeysTyped, Command, Docs
<1>2. drained \in SUBSET Versions  BY <1>1 DEF Drained
<1>3. drained # {}  BY DEF RetireKeys, At, CommandFits
<1>4. Max(drained) \in drained
  <2> HIDE DEF drained
  <2> QED  BY <1>2, <1>3, NewestVersion
<1>5. PICK e \in Drained(a) : Max(drained) = e.version  BY <1>4
<1>6. min' = e.version + 1  BY <1>5 DEF RetireKeys
<1> QED  BY <1>1, <1>5, <1>6 DEF Drained, CommandFits

LEMMA StoredTypesNext ==
  ASSUME KeyInv, KeyNext
  PROVE  StoredTypes'
<1> USE DEF KeyInv
<1>0. StoredTypes  BY KeysTypedSplit
<1>1. ASSUME NEW a \in Admins, ReadState(a) \/ ReadLatest(a)
      PROVE  StoredTypes'
  BY <1>0, <1>1 DEF ReadState, ReadLatest, StoredTypes, vault, keyHistory
<1>2. ASSUME NEW a \in Admins, Die(a)
      PROVE  StoredTypes'
  <2>1. PICK u \in BOOLEAN : u = (unpinned \/ adm[a].step \in {"reread", "pin"})
    OBVIOUS
  <2>2. unpinned' = u  BY <1>2, <2>1 DEF Die
  <2> QED  BY <1>0, <1>2, <2>2 DEF Die, StoredTypes, vault
<1>3. ASSUME NEW a \in Admins, NEW o, Begin(a, o)
      PROVE  StoredTypes'
  BY <1>0, <1>3 DEF Begin, StoredTypes, vault, keyHistory
<1>4. ASSUME NEW a \in Admins, RotateKey(a)
      PROVE  StoredTypes'
  <2>1. latest' = latest + 1 /\ latest' \in Versions
    <3>1. latest' = latest + 1 /\ latest < MaxVersion  BY <1>4 DEF RotateKey
    <3>2. latest \in Nat /\ latest >= 1  BY <1>0 DEF StoredTypes, Versions
    <3> QED  BY <3>1, <3>2, SigningKeysAssumption DEF Versions
  <2>2. born' \in [1 .. latest' -> 0 .. MaxTime]
    <3>1. ASSUME NEW n \in 1 .. latest', n # latest' PROVE n \in 1 .. latest
      BY <1>0, <2>1, <3>1 DEF StoredTypes, Versions
    <3> QED  BY <1>0, <1>4, <3>1 DEF RotateKey, StoredTypes
  <2> QED  BY <1>0, <1>4, <2>1, <2>2 DEF RotateKey, StoredTypes, keyHistory
<1>5. ASSUME NEW a \in Admins, RotateReread(a) \/ PromoteLatest(a) \/ RetireRead(a)
      PROVE  StoredTypes'
  BY <1>0, <1>5 DEF RotateReread, PromoteLatest, RetireRead, StoredTypes, vault, keyHistory
<1>6. ASSUME NEW a \in Admins, NEW d \in Docs, Write(a, d),
             UNCHANGED <<now, vault, tokens, cache, deaths, unpinned>>,
             promoted' \subseteq Versions
      PROVE  StoredTypes'
  <2>1. lost' \in BOOLEAN  BY <1>6, Zenon DEF Write
  <2> QED  BY <1>0, <1>6, <2>1 DEF Write, StoredTypes, vault
<1>7. ASSUME NEW a \in Admins,
             RotatePin(a) \/ PromoteUnpin(a) \/ PromoteWrite(a) \/ RetireDrop(a)
      PROVE  StoredTypes'
  <2>1. latest \in Versions /\ promoted \subseteq Versions  BY <1>0 DEF StoredTypes
  <2>2. CASE RotatePin(a)
    BY <1>6, <2>1, <2>2, WrittenDocs DEF RotatePin
  <2>3. CASE PromoteUnpin(a)
    BY <1>6, <2>1, <2>3, WrittenDocs DEF PromoteUnpin
  <2>4. CASE PromoteWrite(a)
    BY <1>6, <2>1, <2>4, WrittenDocs DEF PromoteWrite
  <2>5. CASE RetireDrop(a)
    BY <1>6, <2>1, <2>5, WrittenDocs DEF RetireDrop
  <2> QED  BY <1>7, <2>2, <2>3, <2>4, <2>5
<1>8. ASSUME NEW a \in Admins, RetireKeys(a)
      PROVE  StoredTypes'
  <2>1. min' \in 1 .. MaxVersion + 1
    BY <1>8, RetiredVersion, SigningKeysAssumption DEF Versions
  <2>2. lost' \in BOOLEAN  BY <1>8, Zenon DEF RetireKeys
  <2> QED  BY <1>0, <1>8, <2>1, <2>2 DEF RetireKeys, StoredTypes
<1>9. ASSUME NEW i \in Issuers, Issue(i) \/ Resolve(i)
      PROVE  StoredTypes'
  BY <1>0, <1>9 DEF Issue, Resolve, StoredTypes, vault, keyHistory
<1>10. ASSUME NEW i \in Issuers, Sign(i)
       PROVE  StoredTypes'
  <2>1. iss[i] \in Issuance  BY DEF KeysTyped
  <2>2. iss[i].version \in Versions /\ iss[i].iat \in 0 .. MaxTime
    <3>1. iss[i].version \in 1 .. latest
      BY <1>10 DEF Sign, IssuanceFits
    <3>2. iss[i].version \in Versions
      BY <1>0, <3>1, SigningKeysAssumption DEF StoredTypes, Versions
    <3> QED  BY <2>1, <3>2 DEF Issuance
  <2>3. tokens' \subseteq Tokens
    BY <1>0, <1>10, <2>2 DEF Sign, StoredTypes, Tokens
  <2> QED  BY <1>0, <1>10, <2>3 DEF Sign, StoredTypes, vault, keyHistory
<1>11. ASSUME NEW v \in Verifiers, NEW n, VerifyToken(v, n)
       PROVE  StoredTypes'
  BY <1>0, <1>11 DEF VerifyToken, StoredTypes, vault, keyHistory
<1>12. ASSUME NEW v \in Verifiers, Keys(v) \/ Load(v) \/ Rejected(v)
       PROVE  StoredTypes'
  BY <1>0, <1>12 DEF Keys, Load, Rejected, StoredTypes, vault, keyHistory
<1>13. ASSUME NEW v \in Verifiers, Stamp(v)
       PROVE  StoredTypes'
  <2>1. ver[v].keys \in SUBSET Versions  BY DEF KeysTyped, Reading
  <2>2. cache' \in [keys : SUBSET Versions, at : 0 .. MaxTime]
    BY <1>0, <1>13, <2>1 DEF Stamp, StoredTypes
  <2> QED  BY <1>0, <1>13, <2>2 DEF Stamp, StoredTypes, vault, keyHistory
<1>14. ASSUME KeyTick PROVE StoredTypes'
  BY <1>0, <1>14, TickMoves DEF StoredTypes
<1> QED
  BY <1>1, <1>2, <1>3, <1>4, <1>5, <1>7, <1>8, <1>9, <1>10, <1>11, <1>12, <1>13,
     <1>14, Zenon
  DEF KeyNext, Rotate, Promote, Retire

-----------------------------------------------------------------------------
(* Versions are made and put in charge, never unmade; histories are kept.  *)
Grows ==
  /\ latest' \in {latest, latest + 1} /\ promoted \subseteq promoted'
  /\ lost => lost'
  /\ unpinned => unpinned'
  /\ now' \in {now, now + 1}

LEMMA WritesGrow ==
  ASSUME NEW a, NEW d, Write(a, d)
  PROVE  lost => lost'
BY DEF Write

LEMMA HistoryGrows ==
  ASSUME KeyInv, KeyNext
  PROVE  Grows
<1>1. ASSUME NEW a \in Admins, ReadState(a) \/ ReadLatest(a) \/ Die(a)
      PROVE  Grows
  <2>1. CASE ReadState(a) \/ ReadLatest(a)
    BY <2>1 DEF ReadState, ReadLatest, Grows, vault, keyHistory
  <2>2. CASE Die(a)
    <3>1. unpinned => unpinned'  BY <2>2, Zenon DEF Die
    <3> QED  BY <2>2, <3>1 DEF Die, Grows, vault
  <2> QED  BY <1>1, <2>1, <2>2
<1>2. ASSUME NEW a \in Admins, Rotate(a)
      PROVE  Grows
  BY <1>2, WritesGrow DEF Rotate, Begin, RotateKey, RotateReread, RotatePin, Grows, vault,
                          keyHistory
<1>3. ASSUME NEW a \in Admins, Promote(a)
      PROVE  Grows
  BY <1>3, WritesGrow DEF Promote, Begin, PromoteLatest, PromoteUnpin, PromoteWrite, Grows,
                          vault, keyHistory
<1>4. ASSUME NEW a \in Admins, Retire(a)
      PROVE  Grows
  <2>1. CASE RetireKeys(a)
    <3>1. lost => lost'  BY <2>1, Zenon DEF RetireKeys
    <3> QED  BY <2>1, <3>1 DEF RetireKeys, Grows
  <2>2. CASE RetireDrop(a)
    BY <2>2, WritesGrow DEF RetireDrop, Grows, vault
  <2>3. CASE Begin(a, "retire") \/ RetireRead(a)
    BY <2>3 DEF Begin, RetireRead, Grows, vault, keyHistory
  <2> QED  BY <1>4, <2>1, <2>2, <2>3 DEF Retire
<1>5. ASSUME NEW i \in Issuers, Issue(i) \/ Resolve(i) \/ Sign(i)
      PROVE  Grows
  BY <1>5 DEF Issue, Resolve, Sign, Grows, vault, keyHistory
<1>6. ASSUME NEW v \in Verifiers, NEW n, VerifyToken(v, n)
      PROVE  Grows
  BY <1>6 DEF VerifyToken, Grows, vault, keyHistory
<1>7. ASSUME NEW v \in Verifiers, Keys(v) \/ Load(v) \/ Stamp(v) \/ Rejected(v)
      PROVE  Grows
  BY <1>7 DEF Keys, Load, Stamp, Rejected, Grows, vault, keyHistory
<1>8. ASSUME KeyTick PROVE Grows
  BY <1>8 DEF KeyTick, Grows, vault, keyHistory
<1> QED
  BY <1>1, <1>2, <1>3, <1>4, <1>5, <1>6, <1>7, <1>8, Zenon DEF KeyNext

(* A version that was replaced stays so, whatever happens next. *)
LEMMA ReplacedStays ==
  ASSUME Grows, NEW n
  PROVE  /\ Replaced(n) => Replaced(n)'
         /\ Old(n) => Old(n)'
BY DEF Grows, Replaced, Old

(* A command that does not move still fits. *)
LEMMA StillFits ==
  ASSUME Grows, KeysTyped, NEW b \in Admins, CommandFits(b),
         adm'[b] = adm[b], now' = now
  PROVE  CommandFits(b)'
<1>1. latest' >= latest  BY DEF Grows, KeysTyped, KeyTypeOK, Versions
<1>2. adm[b] \in Command  BY DEF KeysTyped
<1>3. adm[b].version \in Nat /\ adm[b].doc.pinned \in Nat
  BY <1>2 DEF Command, Docs, Versions, NoPin
<1>4. Drained(b)' = Drained(b)  BY DEF Drained
<1>5. \A e \in adm[b].doc.retiring : Replaced(e.version)'
  BY ReplacedStays DEF CommandFits
<1>6. latest \in Nat /\ latest' \in Nat
  BY DEF Grows, KeysTyped, KeyTypeOK, Versions
<1> QED  BY <1>1, <1>3, <1>4, <1>5, <1>6 DEF CommandFits

LEMMA RestFits ==
  ASSUME Grows, KeysTyped, NEW a \in Admins, Becomes(a, "none", "idle", NoPin, NoDoc, 0)
  PROVE  CommandFits(a)'
<1>1. now' \in Nat /\ latest' \in Nat  BY DEF Grows, KeysTyped, KeyTypeOK, Versions
<1> QED  BY <1>1, RestIsCommand DEF Becomes, CommandFits, NoPin

(* What commands know, after every step. *)
LEMMA CommandFitsNext ==
  ASSUME KeyInv, KeyNext, NEW b \in Admins
  PROVE  CommandFits(b)'
<1> USE DEF KeyInv
<1> DEFINE Fits == CommandFits(b)'
<1>0. Grows  BY HistoryGrows
<1>a. /\ latest \in Nat /\ latest' \in Nat /\ latest <= latest' /\ now \in Nat
      /\ doc.pinned \in Nat /\ \A c \in Admins : adm[c].version \in Nat
  BY <1>0 DEF Grows, KeysTyped, KeyTypeOK, Versions, Docs, Command, NoPin
<1>b. ASSUME NEW a \in Admins, adm' = [adm EXCEPT ![a] = Rest], now' = now
      PROVE  Fits
  <2>1. Becomes(a, "none", "idle", NoPin, NoDoc, 0)
    BY <1>b, EndMoves DEF EndCommand
  <2>2. CASE a = b  BY <1>0, <2>1, <2>2, RestFits
  <2>3. CASE a # b  BY <1>0, <1>b, <2>1, <2>3, StillFits DEF Becomes
  <2> QED  BY <2>2, <2>3
<1>1. ASSUME NEW a \in Admins, Begin(a, "rotate") \/ Begin(a, "promote") \/ Begin(a, "retire")
      PROVE  Fits
  <2>1. PICK o \in {"rotate", "promote", "retire"} :
          Begin(a, o) /\ Becomes(a, o, "read", NoPin, NoDoc, 0)
    BY <1>1, BeginMoves
  <2>2. CASE a = b
    BY <1>0, <1>a, <2>1, <2>2, RestIsCommand DEF Begin, Becomes, CommandFits, NoPin
  <2>3. CASE a # b  BY <1>0, <2>1, <2>3, StillFits DEF Becomes, Begin
  <2> QED  BY <2>2, <2>3
<1>2. ASSUME NEW a \in Admins, ReadState(a)
      PROVE  Fits
  <2>1. /\ Becomes(a, adm[a].op, IF doc.pinned = NoPin THEN "latest" ELSE "go",
                   doc.pinned, doc, adm[a].at)
        /\ adm[a].op \in {"rotate", "promote"}
    BY <1>2, ReadStateMoves
  <2>2. CASE a = b
    <3>1. \A e \in doc.retiring : Replaced(e.version)'
      BY <1>0, ReplacedStays DEF VersionsInv
    <3> QED
      BY <1>0, <1>2, <1>a, <2>1, <2>2, <3>1
      DEF ReadState, Becomes, CommandFits, VersionsInv, NoPin, vault
  <2>3. CASE a # b  BY <1>0, <1>2, <2>1, <2>3, StillFits DEF Becomes, ReadState
  <2> QED  BY <2>2, <2>3
<1>3. ASSUME NEW a \in Admins, ReadLatest(a)
      PROVE  Fits
  <2>1. Becomes(a, adm[a].op, "go", latest, adm[a].doc, adm[a].at)
    BY <1>3, ReadLatestMoves
  <2>2. CASE a = b
    <3>1. \A e \in adm[a].doc.retiring : Replaced(e.version)'
      BY <1>0, ReplacedStays DEF CommandFits
    <3>2. latest # NoPin  BY DEF KeysTyped, KeyTypeOK, Versions, NoPin
    <3> QED
      BY <1>0, <1>3, <1>a, <2>1, <2>2, <3>1, <3>2
      DEF ReadLatest, Becomes, CommandFits, NoPin, vault
  <2>3. CASE a # b  BY <1>0, <1>3, <2>1, <2>3, StillFits DEF Becomes, ReadLatest
  <2> QED  BY <2>2, <2>3
<1>4. ASSUME NEW a \in Admins, Die(a)
      PROVE  Fits
  BY <1>4, <1>b DEF Die, EndCommand
<1>5. ASSUME NEW a \in Admins, RotateKey(a)
      PROVE  Fits
  <2>1. Becomes(a, "rotate", "reread", adm[a].version, adm[a].doc, adm[a].at)
    BY <1>5, RotateKeyMoves
  <2>2. CASE a = b
    <3>1. \A e \in adm[a].doc.retiring : Replaced(e.version)'
      BY <1>0, ReplacedStays DEF CommandFits
    <3>2. latest' = latest + 1 /\ now' = now  BY <1>5 DEF RotateKey
    <3>3. adm[a].version <= latest /\ adm[a].version # NoPin /\ adm[a].at <= now
      BY <1>5 DEF RotateKey, At, CommandFits
    <3>4. adm[a].doc.pinned # NoPin => adm[a].doc.pinned < latest'
      <4>1. adm[a].doc.pinned \in Nat  BY DEF KeysTyped, Command, Docs, Versions, NoPin
      <4> QED  BY <1>a, <3>2, <4>1 DEF CommandFits
    <3> QED
      BY <1>a, <2>1, <2>2, <3>1, <3>2, <3>3, <3>4 DEF Becomes, CommandFits
  <2>3. CASE a # b  BY <1>0, <1>5, <2>1, <2>3, StillFits DEF Becomes, RotateKey
  <2> QED  BY <2>2, <2>3
<1>6. ASSUME NEW a \in Admins, RotateReread(a)
      PROVE  Fits
  <2>1. Becomes(a, "rotate", "pin", adm[a].version, doc, adm[a].at)
    BY <1>6, RotateRereadMoves
  <2>2. CASE a = b
    <3>1. \A e \in doc.retiring : Replaced(e.version)'
      BY <1>0, ReplacedStays DEF VersionsInv
    <3>2. /\ adm[a].version < latest /\ adm[a].version # NoPin /\ adm[a].at <= now
          /\ latest' = latest /\ now' = now
      BY <1>6 DEF RotateReread, At, CommandFits, vault
    <3> QED
      BY <1>a, <2>1, <2>2, <3>1, <3>2 DEF Becomes, CommandFits, VersionsInv
  <2>3. CASE a # b  BY <1>0, <1>6, <2>1, <2>3, StillFits DEF Becomes, RotateReread
  <2> QED  BY <2>2, <2>3
<1>7. ASSUME NEW a \in Admins, RotatePin(a) \/ PromoteUnpin(a) \/ PromoteWrite(a) \/ RetireDrop(a)
      PROVE  Fits
  BY <1>7, <1>b DEF RotatePin, PromoteUnpin, PromoteWrite, RetireDrop, Write, EndCommand
<1>8. ASSUME NEW a \in Admins, PromoteLatest(a)
      PROVE  Fits
  <2>1. Becomes(a, "promote", IF latest <= adm[a].version THEN "unpin" ELSE "promote",
                adm[a].version, adm[a].doc, now)
    BY <1>8, PromoteLatestMoves
  <2>2. CASE a = b
    <3>1. \A e \in adm[a].doc.retiring : Replaced(e.version)'
      BY <1>0, ReplacedStays DEF CommandFits
    <3>2. /\ adm[a].op = "promote" /\ adm[a].step = "go"
          /\ latest' = latest /\ now' = now
      BY <1>8 DEF PromoteLatest, At, vault
    <3>3. /\ adm[a].version <= latest /\ adm[a].version # NoPin
          /\ adm[a].doc.pinned # NoPin =>
               adm[a].doc.pinned < latest /\ adm[a].version = adm[a].doc.pinned
      BY <3>2 DEF CommandFits
    <3>4. CASE latest <= adm[a].version
      <4>1. adm[a].doc.pinned = NoPin  BY <1>a, <3>3, <3>4
      <4> QED
        BY <1>a, <2>1, <2>2, <3>1, <3>2, <3>3, <3>4, <4>1 DEF Becomes, CommandFits
    <3>5. CASE ~(latest <= adm[a].version)
      <4>1. adm[a].version < latest /\ now = now + 0  BY <1>a, <3>5
      <4> QED
        BY <1>a, <2>1, <2>2, <3>1, <3>2, <3>3, <3>5, <4>1 DEF Becomes, CommandFits
    <3> QED  BY <3>4, <3>5
  <2>3. CASE a # b  BY <1>0, <1>8, <2>1, <2>3, StillFits DEF Becomes, PromoteLatest
  <2> QED  BY <2>2, <2>3
<1>9. ASSUME NEW a \in Admins, RetireRead(a)
      PROVE  Fits
  <2>1. CASE /\ Becomes(a, "retire", "go", adm[a].version, doc, now)
             /\ \E e \in doc.retiring : e.until <= now
    <3>1. CASE a = b
      <4>1. \A e \in doc.retiring : Replaced(e.version)'
        BY <1>0, ReplacedStays DEF VersionsInv
      <4>2. latest' = latest /\ now' = now  BY <1>9 DEF RetireRead, vault
      <4>3. Drained(a)' # {}  BY <2>1 DEF Becomes, Drained
      <4>4. adm[a].version <= latest  BY DEF CommandFits
      <4> QED
        BY <1>a, <2>1, <3>1, <4>1, <4>2, <4>3, <4>4 DEF Becomes, CommandFits, VersionsInv
    <3>2. CASE a # b  BY <1>0, <1>9, <2>1, <3>2, StillFits DEF Becomes, RetireRead
    <3> QED  BY <3>1, <3>2
  <2>2. CASE adm'[a] = Rest /\ Becomes(a, "none", "idle", NoPin, NoDoc, 0)
    <3>1. CASE a = b  BY <1>0, <2>2, <3>1, RestFits
    <3>2. CASE a # b  BY <1>0, <1>9, <2>2, <3>2, StillFits DEF Becomes, RetireRead
    <3> QED  BY <3>1, <3>2
  <2> QED  BY <1>9, <2>1, <2>2, RetireReadMoves
<1>10. ASSUME NEW a \in Admins, RetireKeys(a)
       PROVE  Fits
  <2>1. Becomes(a, "retire", "drop", adm[a].version, adm[a].doc, adm[a].at)
    BY <1>10, RetireKeysMoves
  <2>2. CASE a = b
    <3>1. \A e \in adm[a].doc.retiring : Replaced(e.version)'
      BY <1>0, ReplacedStays DEF CommandFits
    <3>2. /\ Drained(a)' = Drained(a) /\ latest' = latest /\ now' = now
          /\ adm[a].op = "retire" /\ adm[a].step = "go"
      BY <1>10, <2>1 DEF RetireKeys, At, Becomes, Drained
    <3> QED
      BY <1>a, <2>1, <2>2, <3>1, <3>2 DEF Becomes, CommandFits
  <2>3. CASE a # b  BY <1>0, <1>10, <2>1, <2>3, StillFits DEF Becomes, RetireKeys
  <2> QED  BY <2>2, <2>3
<1>11. ASSUME UNCHANGED <<adm, now>>
       PROVE  Fits
  BY <1>0, <1>11, StillFits
<1>12. ASSUME KeyTick PROVE Fits
  <2>1. /\ adm'[b].op = adm[b].op /\ adm'[b].step = adm[b].step
        /\ adm'[b].version = adm[b].version /\ adm'[b].doc = adm[b].doc
        /\ adm'[b].at = adm[b].at
        /\ adm'[b].waited = IF adm[b].step = "promote" THEN adm[b].waited + 1
                            ELSE adm[b].waited
        /\ now' = now + 1 /\ latest' = latest /\ promoted' = promoted
    BY <1>12, TickMoves
  <2>2. Drained(b)' = Drained(b)  BY <2>1 DEF Drained
  <2>3. \A e \in adm[b].doc.retiring : Replaced(e.version)'
    BY <1>0, ReplacedStays DEF CommandFits
  <2>4. adm[b].at \in Nat /\ adm[b].waited \in Nat
    BY DEF KeysTyped, Command
  <2> QED  BY <1>a, <2>1, <2>2, <2>3, <2>4 DEF CommandFits
<1>13. ASSUME NEW i \in Issuers, Issue(i) \/ Resolve(i) \/ Sign(i)
       PROVE  Fits
  BY <1>11, <1>13 DEF Issue, Resolve, Sign
<1>14. ASSUME NEW v \in Verifiers, NEW n, VerifyToken(v, n)
       PROVE  Fits
  BY <1>11, <1>14 DEF VerifyToken
<1>15. ASSUME NEW v \in Verifiers, Keys(v) \/ Load(v) \/ Stamp(v) \/ Rejected(v)
       PROVE  Fits
  BY <1>11, <1>15 DEF Keys, Load, Stamp, Rejected
<1> QED
  BY <1>1, <1>2, <1>3, <1>4, <1>5, <1>6, <1>7, <1>8, <1>9, <1>10, <1>12, <1>13, <1>14,
     <1>15, Zenon
  DEF KeyNext, Rotate, Promote, Retire

-----------------------------------------------------------------------------
(* A write that undoes nothing pins, if it pins, the newest version that   *)
(* was put in charge, and writes over the document that its command read.  *)
LEMMA WriteUndoesNothing ==
  ASSUME KeysTyped, VersionsInv, NEW a \in Admins, NEW d \in Docs, Write(a, d), ~lost'
  PROVE  /\ doc = adm[a].doc
         /\ d.pinned # NoPin => ~Replaced(d.pinned) /\ doc.pinned \in {NoPin, d.pinned}
<1>1. /\ doc = adm[a].doc
      /\ d.pinned # NoPin => ~(d.pinned < Max(promoted)) /\ doc.pinned \in {NoPin, d.pinned}
  BY Zenon DEF Write
<1>2. Max(promoted) \in promoted /\ \A p \in promoted : p <= Max(promoted)
  BY NewestVersion DEF KeysTyped, KeyTypeOK, VersionsInv
<1>3. \A p \in promoted : p \in Nat  BY DEF KeysTyped, KeyTypeOK, Versions
<1>4. d.pinned \in Nat  BY DEF Docs, Versions, NoPin
<1> QED  BY <1>1, <1>2, <1>3, <1>4 DEF Replaced

(* What is written drains versions that were replaced. *)
LEMMA VersionsNext ==
  ASSUME KeyInv, KeyNext
  PROVE  VersionsInv'
<1> USE DEF KeyInv
<1>0. Grows  BY HistoryGrows
<1>a. /\ latest \in Nat /\ now \in Nat /\ min \in Nat /\ promoted \subseteq Nat
      /\ doc.pinned \in Nat
      /\ \A t \in tokens : t.version \in Nat /\ t.iat \in Nat
  BY DEF KeysTyped, KeyTypeOK, Versions, Tokens, Docs, NoPin
<1>1. ASSUME UNCHANGED <<now, vault, doc, tokens, promoted>>
      PROVE  VersionsInv'
  BY <1>1 DEF VersionsInv, vault, Replaced
<1>2. ASSUME NEW a \in Admins,
             \/ ReadState(a) \/ ReadLatest(a) \/ Die(a)
             \/ RotateReread(a) \/ PromoteLatest(a) \/ RetireRead(a)
      PROVE  VersionsInv'
  BY <1>1, <1>2 DEF ReadState, ReadLatest, Die, RotateReread, PromoteLatest, RetireRead, keyHistory
<1>3. ASSUME NEW a \in Admins, NEW o, Begin(a, o)
      PROVE  VersionsInv'
  BY <1>1, <1>3 DEF Begin, keyHistory
<1>4. ASSUME NEW a \in Admins, RotateKey(a)
      PROVE  VersionsInv'
  <2>1. latest' = latest + 1 /\ UNCHANGED <<now, min, doc, tokens, promoted>>
    BY <1>4 DEF RotateKey, keyHistory
  <2>2. \A e \in doc.retiring : Replaced(e.version)'
    BY <2>1 DEF VersionsInv, Replaced
  <2> QED  BY <1>a, <2>1, <2>2 DEF VersionsInv
<1>5. ASSUME NEW a \in Admins, RotatePin(a)
      PROVE  VersionsInv'
  <2>1. doc' = Pinned(a) /\ UNCHANGED <<now, vault, tokens, promoted>>
    BY <1>5 DEF RotatePin, Write
  <2>2. doc'.pinned = adm[a].version /\ adm[a].version < latest
    BY <1>5, <2>1, WrittenDocs DEF RotatePin, At, CommandFits
  <2>3. \A e \in doc'.retiring : Replaced(e.version)'
    BY <1>0, <2>1, WrittenDocs, ReplacedStays DEF CommandFits
  <2> QED  BY <2>1, <2>2, <2>3 DEF VersionsInv, vault
<1>6. ASSUME NEW a \in Admins, PromoteUnpin(a)
      PROVE  VersionsInv'
  <2>1. /\ doc' = [adm[a].doc EXCEPT !.pinned = NoPin]
        /\ UNCHANGED <<now, vault, tokens, promoted>>
    BY <1>6 DEF PromoteUnpin, Write
  <2>2. doc'.pinned = NoPin /\ doc'.retiring = adm[a].doc.retiring
    BY <2>1, WrittenDocs DEF Docs
  <2>3. \A e \in doc'.retiring : Replaced(e.version)'
    BY <1>0, <2>2, ReplacedStays DEF CommandFits
  <2> QED  BY <2>1, <2>2, <2>3 DEF VersionsInv, vault
<1>7. ASSUME NEW a \in Admins, PromoteWrite(a)
      PROVE  VersionsInv'
  <2>1. /\ doc' = PromotedDoc(a) /\ promoted' = promoted \cup {latest}
        /\ UNCHANGED <<now, vault, tokens>>
    BY <1>7 DEF PromoteWrite, Write
  <2>2. adm[a].version < latest  BY <1>7 DEF PromoteWrite, At, CommandFits
  <2>3. doc'.pinned = NoPin  BY <2>1 DEF PromotedDoc
  <2>4. ASSUME NEW e \in doc'.retiring PROVE Replaced(e.version)'
    <3>1. CASE e \in adm[a].doc.retiring
      BY <1>0, <3>1, ReplacedStays DEF CommandFits
    <3>2. CASE e = [version |-> adm[a].version, until |-> DrainUntil(a)]
      BY <2>1, <2>2, <3>2 DEF Replaced
    <3> QED  BY <2>1, <2>4, <3>1, <3>2 DEF PromotedDoc
  <2> QED  BY <1>a, <2>1, <2>3, <2>4 DEF VersionsInv, vault
<1>8. ASSUME NEW a \in Admins, RetireKeys(a)
      PROVE  VersionsInv'
  <2>1. PICK e \in adm[a].doc.retiring :
          e.version \in Nat /\ min' = e.version + 1 /\ Replaced(e.version)
    BY <1>8, RetiredVersion DEF Versions
  <2>2. \E p \in promoted : min' <= p
    <3>1. PICK p \in promoted : e.version < p  BY <2>1 DEF Replaced
    <3>2. p \in Nat  BY <1>a
    <3>3. min' <= p  BY <2>1, <3>1, <3>2
    <3> QED  BY <3>3
  <2>3. UNCHANGED <<now, latest, doc, tokens, promoted>>
    BY <1>8 DEF RetireKeys
  <2> QED  BY <2>2, <2>3 DEF VersionsInv, Replaced
<1>9. ASSUME NEW a \in Admins, RetireDrop(a)
      PROVE  VersionsInv'
  <2>1. /\ doc' = [adm[a].doc EXCEPT !.retiring = @ \ Drained(a)]
        /\ UNCHANGED <<now, vault, tokens, promoted>>
    BY <1>9 DEF RetireDrop, Write
  <2>2. /\ doc'.pinned = adm[a].doc.pinned
        /\ doc'.retiring \subseteq adm[a].doc.retiring
    BY <2>1, WrittenDocs DEF Docs
  <2>3. \A e \in doc'.retiring : Replaced(e.version)'
    BY <1>0, <2>2, ReplacedStays DEF CommandFits
  <2>4. doc'.pinned # NoPin => doc'.pinned < latest
    BY <2>2 DEF CommandFits
  <2> QED  BY <2>1, <2>3, <2>4 DEF VersionsInv, vault
<1>10. ASSUME NEW i \in Issuers, Issue(i) \/ Resolve(i)
       PROVE  VersionsInv'
  BY <1>1, <1>10 DEF Issue, Resolve, keyHistory
<1>11. ASSUME NEW i \in Issuers, Sign(i)
       PROVE  VersionsInv'
  <2>1. iss[i].version <= latest /\ iss[i].iat <= now
    BY <1>11 DEF Sign, IssuanceFits
  <2>2. \A t \in tokens' : t.version <= latest /\ t.iat <= now
    BY <1>11, <2>1 DEF Sign, VersionsInv
  <2> QED  BY <1>11, <2>2 DEF Sign, VersionsInv, vault, keyHistory, Replaced
<1>12. ASSUME NEW v \in Verifiers, NEW n, VerifyToken(v, n)
       PROVE  VersionsInv'
  BY <1>1, <1>12 DEF VerifyToken, keyHistory
<1>13. ASSUME NEW v \in Verifiers, Keys(v) \/ Load(v) \/ Stamp(v) \/ Rejected(v)
       PROVE  VersionsInv'
  BY <1>1, <1>13 DEF Keys, Load, Stamp, Rejected, keyHistory
<1>14. ASSUME KeyTick PROVE VersionsInv'
  <2>1. now' = now + 1 /\ UNCHANGED <<latest, min, doc, tokens, promoted>>
    BY <1>14, TickMoves
  <2>2. \A e \in doc.retiring : Replaced(e.version)'
    BY <2>1 DEF VersionsInv, Replaced
  <2> QED  BY <1>a, <2>1, <2>2 DEF VersionsInv
<1> QED
  BY <1>2, <1>3, <1>4, <1>5, <1>6, <1>7, <1>8, <1>9, <1>10, <1>11, <1>12, <1>13, <1>14, Zenon
  DEF KeyNext, Rotate, Promote, Retire

-----------------------------------------------------------------------------
(* A rotation that keeps its place keeps an old version in charge.         *)
LEMMA RootedStays ==
  ASSUME Grows, Rooted,
         \A b \in Admins : adm[b].step \in {"reread", "pin"} =>
           adm'[b].step \in {"reread", "pin"} /\ adm'[b].version = adm[b].version
  PROVE  Rooted'
<1>1. PICK b \in Admins : adm[b].step \in {"reread", "pin"} /\ Old(adm[b].version)
  BY DEF Rooted
<1>2. Old(adm[b].version)'  BY <1>1, ReplacedStays DEF Old
<1> QED  BY <1>1, <1>2 DEF Rooted, Old

(* What a step that writes no document and makes no version must respect.  *)
LEMMA SettledStays ==
  ASSUME Grows, Settled, latest \in Nat, UNCHANGED <<latest, doc>>,
         \A b \in Admins : adm[b].step \in {"reread", "pin"} =>
           adm'[b].step \in {"reread", "pin"} /\ adm'[b].version = adm[b].version,
         \A b \in Admins :
           (adm'[b].op = "rotate" /\ adm'[b].step \in {"go", "reread", "pin"}) =>
             \/ adm'[b].version = latest
             \/ doc.pinned # NoPin
             \/ /\ adm[b].op = "rotate" /\ adm[b].step \in {"go", "reread", "pin"}
                /\ adm'[b].version = adm[b].version
  PROVE  Settled'
<1>1. Rooted => Rooted'  BY RootedStays
<1>2. promoted \subseteq promoted'  BY DEF Grows
<1>3. ASSUME NEW b \in Admins, adm'[b].op = "rotate", adm'[b].step \in {"go", "reread", "pin"}
      PROVE  Old(adm[b].version)' \/ doc.pinned # NoPin \/ Rooted'
  <2>1. CASE adm'[b].version = latest /\ doc.pinned = NoPin
    <3>1. CASE latest \in promoted
      <4>1. \E p \in promoted' : adm'[b].version <= p
        <5>1. latest <= latest  OBVIOUS
        <5> QED  BY <1>2, <2>1, <3>1, <5>1
      <4> QED  BY <4>1 DEF Old
    <3>2. CASE Rooted  BY <1>1, <3>2
    <3> QED  BY <2>1, <3>1, <3>2 DEF Settled
  <2>2. CASE /\ adm[b].op = "rotate" /\ adm[b].step \in {"go", "reread", "pin"}
             /\ adm'[b].version = adm[b].version
    <3>1. Old(adm[b].version) \/ doc.pinned # NoPin \/ Rooted  BY <2>2 DEF Settled
    <3>2. Old(adm[b].version) => Old(adm[b].version)'
      <4>1. ASSUME Old(adm[b].version) PROVE \E p \in promoted' : adm'[b].version <= p
        BY <1>2, <2>2, <4>1 DEF Old
      <4> QED  BY <4>1 DEF Old
    <3> QED  BY <1>1, <3>1, <3>2
  <2> QED  BY <1>3, <2>1, <2>2
<1> QED  BY <1>1, <1>2, <1>3 DEF Settled

LEMMA InChargeNext ==
  ASSUME KeyInv, KeyNext
  PROVE  InCharge'
<1> USE DEF KeyInv
<1>0. Grows  BY HistoryGrows
<1>a. /\ latest \in Nat /\ promoted \subseteq Nat /\ latest \in Versions
      /\ \A c \in Admins : adm[c].version \in Nat
  BY DEF KeysTyped, KeyTypeOK, Versions, Command, NoPin
<1>b. SUFFICES ASSUME ~unpinned', ~lost' PROVE Settled'
  BY DEF InCharge
<1>c. ~unpinned /\ ~lost /\ Settled  BY <1>0, <1>b, Zenon DEF Grows, InCharge
<1>1. ASSUME NEW a \in Admins, Begin(a, "rotate") \/ Begin(a, "promote") \/ Begin(a, "retire")
      PROVE  Settled'
  <2>1. PICK o \in {"rotate", "promote", "retire"} :
          Begin(a, o) /\ Becomes(a, o, "read", NoPin, NoDoc, 0)
    BY <1>1, BeginMoves
  <2>2. adm[a].step = "idle" /\ UNCHANGED <<latest, doc>>
    BY <2>1, RestIsCommand DEF Begin, vault
  <2> QED  BY <1>0, <1>a, <1>c, <2>1, <2>2, SettledStays DEF Becomes
<1>2. ASSUME NEW a \in Admins, ReadState(a)
      PROVE  Settled'
  <2>1. /\ Becomes(a, adm[a].op, IF doc.pinned = NoPin THEN "latest" ELSE "go",
                   doc.pinned, doc, adm[a].at)
        /\ adm[a].step = "read" /\ UNCHANGED <<latest, doc>>
    BY <1>2, ReadStateMoves DEF ReadState, vault
  <2>2. adm'[a].step = "latest" \/ doc.pinned # NoPin
    BY <2>1 DEF Becomes
  <2>3. adm'[a].step \in {"latest", "go"}  BY <2>1 DEF Becomes
  <2> QED  BY <1>0, <1>a, <1>c, <2>1, <2>2, <2>3, SettledStays DEF Becomes
<1>3. ASSUME NEW a \in Admins, ReadLatest(a)
      PROVE  Settled'
  <2>1. /\ Becomes(a, adm[a].op, "go", latest, adm[a].doc, adm[a].at)
        /\ adm[a].step = "latest" /\ UNCHANGED <<latest, doc>>
    BY <1>3, ReadLatestMoves DEF ReadLatest, vault
  <2> QED  BY <1>0, <1>a, <1>c, <2>1, SettledStays DEF Becomes
<1>4. ASSUME NEW a \in Admins, Die(a)
      PROVE  Settled'
  <2>1. /\ Becomes(a, "none", "idle", NoPin, NoDoc, 0)
        /\ UNCHANGED <<latest, doc>>
    BY <1>4, EndMoves DEF Die, vault
  <2>2. adm[a].step \notin {"reread", "pin"}
    BY <1>4, <1>b, Zenon DEF Die
  <2> QED  BY <1>0, <1>a, <1>c, <2>1, <2>2, SettledStays DEF Becomes
<1>5. ASSUME NEW a \in Admins, RotateKey(a)
      PROVE  Settled'
  <2>1. /\ Becomes(a, "rotate", "reread", adm[a].version, adm[a].doc, adm[a].at)
        /\ adm[a].op = "rotate" /\ adm[a].step = "go"
        /\ UNCHANGED <<doc, promoted>>
    BY <1>5, RotateKeyMoves DEF RotateKey, At, keyHistory
  <2>2. Rooted => Rooted'  BY <1>0, <2>1, RootedStays DEF Becomes
  <2>3. Old(adm[a].version) \/ doc.pinned # NoPin \/ Rooted
    BY <1>c, <2>1 DEF Settled
  <2>4. Old(adm[a].version) => Rooted'
    BY <2>1 DEF Becomes, Rooted, Old
  <2>5. ASSUME NEW b \in Admins, adm'[b].op = "rotate", adm'[b].step \in {"go", "reread", "pin"}
        PROVE  Old(adm[b].version)' \/ doc.pinned # NoPin \/ Rooted'
    <3>1. CASE a = b  BY <2>2, <2>3, <2>4, <3>1
    <3>2. CASE a # b
      <4>1. adm'[b] = adm[b]  BY <2>1, <3>2 DEF Becomes
      <4>2. Old(adm[b].version) \/ doc.pinned # NoPin \/ Rooted
        BY <1>c, <2>5, <4>1 DEF Settled
      <4>3. Old(adm[b].version) => Old(adm[b].version)'  BY <2>1, <4>1 DEF Old
      <4> QED  BY <2>2, <4>2, <4>3
    <3> QED  BY <3>1, <3>2
  <2>6. doc.pinned # NoPin => doc.pinned \in promoted \/ Rooted'
    BY <1>c, <2>2 DEF Settled
  <2> QED  BY <2>1, <2>2, <2>3, <2>4, <2>5, <2>6 DEF Settled
<1>6. ASSUME NEW a \in Admins, RotateReread(a)
      PROVE  Settled'
  <2>1. /\ Becomes(a, "rotate", "pin", adm[a].version, doc, adm[a].at)
        /\ adm[a].op = "rotate" /\ adm[a].step = "reread" /\ UNCHANGED <<latest, doc>>
    BY <1>6, RotateRereadMoves DEF RotateReread, At, vault
  <2> QED  BY <1>0, <1>a, <1>c, <2>1, SettledStays DEF Becomes
<1>7. ASSUME NEW a \in Admins, RotatePin(a)
      PROVE  Settled'
  <2>1. /\ Write(a, Pinned(a)) /\ adm[a].op = "rotate" /\ adm[a].step = "pin"
        /\ UNCHANGED <<latest, promoted>>
    BY <1>7 DEF RotatePin, At, vault
  <2>2. /\ Becomes(a, "none", "idle", NoPin, NoDoc, 0) /\ doc' = Pinned(a)
    BY <2>1, EndMoves DEF Write
  <2>3. doc'.pinned = adm[a].version /\ Pinned(a) \in Docs
    BY <2>2, WrittenDocs
  <2>4. adm[a].version # NoPin  BY <2>1 DEF CommandFits
  <2>5. /\ ~Replaced(adm[a].version) /\ doc.pinned \in {NoPin, adm[a].version}
    BY <1>b, <2>1, <2>2, <2>3, <2>4, WriteUndoesNothing
  <2>6. Old(adm[a].version) => adm[a].version \in promoted
    <3>1. SUFFICES ASSUME NEW p \in promoted, adm[a].version <= p
                   PROVE  adm[a].version = p
      BY DEF Old
    <3>2. ~(adm[a].version < p)  BY <2>5 DEF Replaced
    <3>3. p \in Nat /\ adm[a].version \in Nat  BY <1>a
    <3> QED  BY <3>1, <3>2, <3>3
  <2>7. Rooted => Old(adm[a].version) \/ Rooted'
    <3>1. ASSUME NEW b \in Admins \ {a}, adm[b].step \in {"reread", "pin"}, Old(adm[b].version)
          PROVE  Rooted'
      <4>1. adm'[b] = adm[b]  BY <2>2 DEF Becomes
      <4> QED  BY <2>1, <3>1, <4>1 DEF Rooted, Old
    <3> QED  BY <3>1 DEF Rooted
  <2>8. adm[a].version \in promoted \/ Rooted'
    <3>1. Old(adm[a].version) \/ doc.pinned # NoPin \/ Rooted
      BY <1>c, <2>1 DEF Settled
    <3>2. CASE doc.pinned # NoPin
      <4>1. doc.pinned = adm[a].version  BY <2>5, <3>2
      <4> QED  BY <1>c, <2>6, <2>7, <3>2, <4>1 DEF Settled
    <3> QED  BY <2>6, <2>7, <3>1, <3>2
  <2> QED  BY <2>1, <2>3, <2>4, <2>8 DEF Settled
<1>8. ASSUME NEW a \in Admins, NEW d \in Docs, Write(a, d), adm[a].step \notin {"reread", "pin"},
             d.pinned = adm[a].doc.pinned, UNCHANGED <<latest, promoted>>
      PROVE  Settled'
  <2>1. Becomes(a, "none", "idle", NoPin, NoDoc, 0) /\ doc' = d
    BY <1>8, EndMoves DEF Write
  <2>2. doc'.pinned = doc.pinned
    BY <1>8, <1>b, <2>1, WriteUndoesNothing
  <2>3. Rooted => Rooted'  BY <1>0, <1>8, <2>1, RootedStays DEF Becomes
  <2>4. ASSUME NEW b \in Admins, adm'[b].op = "rotate", adm'[b].step \in {"go", "reread", "pin"}
        PROVE  Old(adm[b].version)' \/ doc.pinned # NoPin \/ Rooted'
    <3>1. adm'[b] = adm[b]  BY <2>1, <2>4 DEF Becomes
    <3>2. Old(adm[b].version) \/ doc.pinned # NoPin \/ Rooted
      BY <1>c, <2>4, <3>1 DEF Settled
    <3>3. Old(adm[b].version) => Old(adm[b].version)'  BY <1>8, <3>1 DEF Old
    <3> QED  BY <2>3, <3>2, <3>3
  <2>5. doc.pinned # NoPin => doc.pinned \in promoted \/ Rooted'
    BY <1>c, <2>3 DEF Settled
  <2>6. doc.pinned = NoPin => latest \in promoted \/ Rooted'
    BY <1>c, <2>3 DEF Settled
  <2> QED  BY <1>8, <2>2, <2>4, <2>5, <2>6 DEF Settled
<1>9. ASSUME NEW a \in Admins, PromoteUnpin(a)
      PROVE  Settled'
  <2>1. /\ Write(a, [adm[a].doc EXCEPT !.pinned = NoPin]) /\ adm[a].step = "unpin"
        /\ UNCHANGED <<latest, promoted>>
    BY <1>9 DEF PromoteUnpin, At, vault
  <2>2. /\ adm[a].doc.pinned = NoPin  BY <2>1 DEF CommandFits
  <2>3. /\ [adm[a].doc EXCEPT !.pinned = NoPin] \in Docs
        /\ [adm[a].doc EXCEPT !.pinned = NoPin].pinned = NoPin
    BY WrittenDocs DEF Docs
  <2> QED  BY <1>8, <2>1, <2>2, <2>3
<1>10. ASSUME NEW a \in Admins, PromoteWrite(a)
       PROVE  Settled'
  <2>1. /\ doc' = PromotedDoc(a) /\ promoted' = promoted \cup {latest} /\ latest' = latest
        /\ Becomes(a, "none", "idle", NoPin, NoDoc, 0)
    BY <1>10, EndMoves DEF PromoteWrite, Write, vault
  <2>2. doc'.pinned = NoPin /\ latest \in promoted'  BY <2>1 DEF PromotedDoc
  <2>3. ASSUME NEW b \in Admins, adm'[b].op = "rotate"
        PROVE  Old(adm[b].version)'
    <3>1. adm'[b] = adm[b]  BY <2>1, <2>3 DEF Becomes
    <3>2. adm[b].version <= latest  BY DEF CommandFits
    <3> QED  BY <2>2, <3>1, <3>2 DEF Old
  <2> QED  BY <2>1, <2>2, <2>3 DEF Settled
<1>11. ASSUME NEW a \in Admins, PromoteLatest(a)
       PROVE  Settled'
  <2>1. /\ Becomes(a, "promote", IF latest <= adm[a].version THEN "unpin" ELSE "promote",
                   adm[a].version, adm[a].doc, now)
        /\ adm[a].op = "promote" /\ adm[a].step = "go" /\ UNCHANGED <<latest, doc>>
    BY <1>11, PromoteLatestMoves DEF PromoteLatest, At, vault
  <2> QED  BY <1>0, <1>a, <1>c, <2>1, SettledStays DEF Becomes
<1>12. ASSUME NEW a \in Admins, RetireRead(a)
       PROVE  Settled'
  <2>1. /\ \/ Becomes(a, "retire", "go", adm[a].version, doc, now)
           \/ Becomes(a, "none", "idle", NoPin, NoDoc, 0)
        /\ adm[a].op = "retire" /\ adm[a].step = "read" /\ UNCHANGED <<latest, doc>>
    BY <1>12, RetireReadMoves DEF RetireRead, At, vault
  <2> QED  BY <1>0, <1>a, <1>c, <2>1, SettledStays DEF Becomes
<1>13. ASSUME NEW a \in Admins, RetireKeys(a)
       PROVE  Settled'
  <2>1. /\ Becomes(a, "retire", "drop", adm[a].version, adm[a].doc, adm[a].at)
        /\ adm[a].op = "retire" /\ adm[a].step = "go" /\ UNCHANGED <<latest, doc>>
    BY <1>13, RetireKeysMoves DEF RetireKeys, At
  <2> QED  BY <1>0, <1>a, <1>c, <2>1, SettledStays DEF Becomes
<1>14. ASSUME NEW a \in Admins, RetireDrop(a)
       PROVE  Settled'
  <2>1. /\ Write(a, [adm[a].doc EXCEPT !.retiring = @ \ Drained(a)]) /\ adm[a].step = "drop"
        /\ UNCHANGED <<latest, promoted>>
    BY <1>14 DEF RetireDrop, At, vault
  <2>2. /\ [adm[a].doc EXCEPT !.retiring = @ \ Drained(a)] \in Docs
        /\ [adm[a].doc EXCEPT !.retiring = @ \ Drained(a)].pinned = adm[a].doc.pinned
    BY WrittenDocs DEF Docs
  <2> QED  BY <1>8, <2>1, <2>2
<1>15. ASSUME UNCHANGED <<adm, latest, doc>>
       PROVE  Settled'
  BY <1>0, <1>a, <1>c, <1>15, SettledStays
<1>16. ASSUME KeyTick PROVE Settled'
  <2>1. /\ \A b \in Admins : /\ adm'[b].op = adm[b].op /\ adm'[b].step = adm[b].step
                             /\ adm'[b].version = adm[b].version
        /\ UNCHANGED <<latest, doc>>
    BY <1>16, TickMoves
  <2> QED  BY <1>0, <1>a, <1>c, <2>1, SettledStays
<1>17. ASSUME NEW i \in Issuers, Issue(i) \/ Resolve(i) \/ Sign(i)
       PROVE  Settled'
  BY <1>15, <1>17 DEF Issue, Resolve, Sign, vault
<1>18. ASSUME NEW v \in Verifiers, NEW n, VerifyToken(v, n)
       PROVE  Settled'
  BY <1>15, <1>18 DEF VerifyToken, vault
<1>19. ASSUME NEW v \in Verifiers, Keys(v) \/ Load(v) \/ Stamp(v) \/ Rejected(v)
       PROVE  Settled'
  BY <1>15, <1>19 DEF Keys, Load, Stamp, Rejected, vault
<1> QED
  BY <1>1, <1>2, <1>3, <1>4, <1>5, <1>6, <1>7, <1>9, <1>10, <1>11, <1>12, <1>13, <1>14,
     <1>16, <1>17, <1>18, <1>19, Zenon
  DEF KeyNext, Rotate, Promote, Retire

-----------------------------------------------------------------------------
(* Issuances: what resolveActive answered, and what was going on meanwhile. *)
Signs(i) ==
  iss[i].step = "sign" =>
    iss[i].version \in promoted \/ iss[i].caught \/ unpinned \/ lost

LEMMA RootedIsUnpinned == Rooted => Unpinned
BY DEF Rooted, Unpinned

(* An issuance that does not move. *)
LEMMA StillIssues ==
  ASSUME KeysTyped, Grows, NEW j \in Issuers, IssuanceFits(j), Signs(j), iss'[j] = iss[j],
         iss[j].step = "latest" => latest' = latest
  PROVE  IssuanceFits(j)' /\ Signs(j)'
<1>1. /\ latest \in Nat /\ latest' \in {latest, latest + 1} /\ promoted \subseteq promoted'
      /\ now \in Nat /\ now' \in {now, now + 1}
      /\ iss[j].version \in Nat /\ iss[j].iat \in Nat
  BY DEF Grows, KeysTyped, KeyTypeOK, Versions, Issuance, NoPin
<1>2. /\ lost => lost'
      /\ unpinned => unpinned'
  BY Zenon DEF Grows
<1>3. IssuanceFits(j)'
  <2>1. iss[j].step = "sign" => iss[j].version \in 1 .. latest'
    BY <1>1 DEF IssuanceFits
  <2>2. iss[j].step # "idle" => iss[j].iat <= now'
    BY <1>1 DEF IssuanceFits
  <2>3. iss[j].step = "latest" => latest' \in promoted' \/ iss[j].caught \/ unpinned' \/ lost'
    BY <1>1, <1>2 DEF IssuanceFits
  <2> QED  BY <2>1, <2>2, <2>3 DEF IssuanceFits
<1>4. Signs(j)'
  BY <1>1, <1>2 DEF Signs
<1> QED  BY <1>3, <1>4

LEMMA IssuanceNext ==
  ASSUME KeyInv, KeyNext, NEW j \in Issuers
  PROVE  IssuanceFits(j)' /\ Signs(j)'
<1> USE DEF KeyInv
<1> DEFINE Goal == IssuanceFits(j)' /\ Signs(j)'
<1>0. Grows  BY HistoryGrows
<1>a. /\ latest \in Nat /\ latest \in Versions /\ now \in Nat /\ iss[j] \in Issuance
      /\ doc.pinned \in Versions \cup {NoPin} /\ IssuanceFits(j) /\ Signs(j)
  BY DEF KeysTyped, KeyTypeOK, Docs, Versions, PublishBeforeSign, Signs
<1>b. ASSUME UNCHANGED <<iss, latest>> PROVE Goal
  BY <1>0, <1>a, <1>b, StillIssues
<1>1. ASSUME NEW a \in Admins, ReadState(a) \/ ReadLatest(a) \/ Die(a)
      PROVE  Goal
  BY <1>1, <1>b DEF ReadState, ReadLatest, Die, vault
<1>2. ASSUME NEW a \in Admins, NEW o, Begin(a, o)
      PROVE  Goal
  BY <1>2, <1>b DEF Begin, vault
<1>3. ASSUME NEW a \in Admins, RotateKey(a)
      PROVE  Goal
  <2>1. /\ iss'[j] = [iss[j] EXCEPT !.caught = @ \/ iss[j].step = "latest"]
        /\ latest' = latest + 1 /\ UNCHANGED <<now, keyHistory>>
    BY <1>3 DEF RotateKey
  <2>2. CASE iss[j].step = "latest"
    <3>a. PICK c \in BOOLEAN : c = (iss[j].caught \/ iss[j].step = "latest")
      OBVIOUS
    <3>b. iss'[j] = [iss[j] EXCEPT !.caught = c] /\ c  BY <2>1, <2>2, <3>a
    <3>1. iss'[j].step = "latest" /\ iss'[j].iat = iss[j].iat
      BY <1>a, <2>2, <3>b DEF Issuance
    <3>2. iss'[j].caught  BY <1>a, <3>b DEF Issuance
    <3> QED  BY <2>1, <2>2, <3>1, <3>2, <1>a DEF IssuanceFits, Signs
  <2>3. CASE iss[j].step # "latest"
    <3>1. PICK c \in BOOLEAN : c = iss[j].caught  BY <1>a DEF Issuance
    <3>2. iss'[j] = [iss[j] EXCEPT !.caught = c]  BY <2>1, <2>3, <3>1
    <3>3. iss'[j] = iss[j]  BY <1>a, <3>1, <3>2 DEF Issuance
    <3> QED  BY <1>0, <1>a, <2>3, <3>3, StillIssues
  <2> QED  BY <2>2, <2>3
<1>4. ASSUME NEW a \in Admins,
             RotateReread(a) \/ PromoteLatest(a) \/ RetireRead(a) \/ RetireKeys(a)
      PROVE  Goal
  BY <1>4, <1>b DEF RotateReread, PromoteLatest, RetireRead, RetireKeys, vault
<1>5. ASSUME NEW a \in Admins,
             RotatePin(a) \/ PromoteUnpin(a) \/ PromoteWrite(a) \/ RetireDrop(a)
      PROVE  Goal
  BY <1>5, <1>b DEF RotatePin, PromoteUnpin, PromoteWrite, RetireDrop, vault
<1>6. ASSUME NEW i \in Issuers, Issue(i)
      PROVE  Goal
  <2>1. IssueMoves(i, "resolve", NoPin, now) /\ UNCHANGED <<latest, now>>
    BY <1>6, IssueBegins DEF Issue, vault
  <2>2. CASE i = j  BY <1>a, <2>1, <2>2 DEF IssueMoves, IssuanceFits, Signs
  <2>3. CASE i # j  BY <1>0, <1>a, <2>1, <2>3, StillIssues DEF IssueMoves
  <2> QED  BY <2>2, <2>3
<1>7. ASSUME NEW i \in Issuers, Resolve(i)
      PROVE  Goal
  <2>1. UNCHANGED <<latest, now, promoted, unpinned, lost>>
    BY <1>7 DEF Resolve, vault, keyHistory
  <2>2. Rooted => Unpinned  BY RootedIsUnpinned
  <2>3. CASE i # j
    <3>1. iss'[j] = iss[j]  BY <1>7, <2>3, ResolveMoves DEF IssueMoves
    <3> QED  BY <1>0, <1>a, <2>1, <3>1, StillIssues
  <2>4. CASE i = j
    <3>1. iss[j].step # "idle"  BY <1>7, <2>4 DEF Resolve
    <3>2. iss[j].iat <= now  BY <1>a, <3>1 DEF IssuanceFits
    <3>3. CASE /\ iss[i].step = "resolve" /\ doc.pinned = NoPin
               /\ IssueMoves(i, "latest", NoPin, iss[i].iat)
               /\ iss'[i].caught = Unpinned
      <4>1. latest \in promoted \/ Unpinned \/ unpinned \/ lost
        BY <2>2, <3>3, Zenon DEF InCharge, Settled
      <4>2. latest' \in promoted' \/ iss'[j].caught \/ unpinned' \/ lost'
        BY <2>1, <2>4, <3>3, <4>1, Zenon
      <4> QED  BY <2>1, <2>4, <3>2, <3>3, <4>2 DEF IssueMoves, IssuanceFits, Signs
    <3>4. CASE /\ iss[i].step = "resolve" /\ doc.pinned # NoPin
               /\ IssueMoves(i, "sign", doc.pinned, iss[i].iat)
               /\ iss'[i].caught = Unpinned
      <4>1. doc.pinned \in promoted \/ Unpinned \/ unpinned \/ lost
        BY <2>2, <3>4, Zenon DEF InCharge, Settled
      <4>2. doc.pinned \in promoted' \/ iss'[j].caught \/ unpinned' \/ lost'
        BY <2>1, <2>4, <3>4, <4>1, Zenon
      <4>3. doc.pinned \in 1 .. latest
        BY <1>a, <3>4 DEF VersionsInv, Versions
      <4> QED  BY <2>1, <2>4, <3>2, <3>4, <4>2, <4>3 DEF IssueMoves, IssuanceFits, Signs
    <3>5. CASE /\ iss[i].step = "latest"
               /\ IssueMoves(i, "sign", latest, iss[i].iat)
               /\ iss'[i].caught = (iss[i].caught \/ Unpinned)
      <4>1. latest \in promoted \/ iss[j].caught \/ unpinned \/ lost
        BY <1>a, <2>4, <3>5 DEF IssuanceFits
      <4>2. latest \in promoted' \/ iss'[j].caught \/ unpinned' \/ lost'
        BY <2>1, <2>4, <3>5, <4>1, Zenon
      <4>3. latest \in 1 .. latest  BY <1>a DEF Versions
      <4> QED  BY <2>1, <2>4, <3>2, <3>5, <4>2, <4>3 DEF IssueMoves, IssuanceFits, Signs
    <3> QED  BY <1>7, <3>3, <3>4, <3>5, ResolveMoves
  <2> QED  BY <2>3, <2>4
<1>8. ASSUME NEW i \in Issuers, Sign(i)
      PROVE  Goal
  <2>1. IssueMoves(i, "idle", NoPin, 0) /\ iss'[i] = Unissued /\ latest' = latest
    BY <1>8, SignMoves DEF Sign, vault
  <2>2. CASE i = j
    <3>1. Unissued' = Unissued  BY DEF Unissued
    <3> QED  BY <2>1, <2>2, <3>1 DEF IssueMoves, IssuanceFits, Signs
  <2>3. CASE i # j  BY <1>0, <1>a, <2>1, <2>3, StillIssues DEF IssueMoves
  <2> QED  BY <2>2, <2>3
<1>9. ASSUME NEW v \in Verifiers, NEW n, VerifyToken(v, n)
      PROVE  Goal
  BY <1>9, <1>b DEF VerifyToken, vault
<1>10. ASSUME NEW v \in Verifiers, Keys(v) \/ Load(v) \/ Stamp(v) \/ Rejected(v)
       PROVE  Goal
  BY <1>10, <1>b DEF Keys, Load, Stamp, Rejected, vault
<1>11. ASSUME KeyTick PROVE Goal
  BY <1>11, <1>b, TickMoves
<1> QED
  BY <1>1, <1>2, <1>3, <1>4, <1>5, <1>6, <1>7, <1>8, <1>9, <1>10, <1>11, Zenon
  DEF KeyNext, Rotate, Promote, Retire

-----------------------------------------------------------------------------
(* A write that undoes nothing pins the newest version in charge.          *)
LEMMA PinHoldsNext ==
  ASSUME KeyInv, KeyNext
  PROVE  PinHolds'
<1> USE DEF KeyInv
<1>0. Grows  BY HistoryGrows
<1>b. SUFFICES ASSUME ~lost' PROVE (doc.pinned = NoPin \/ ~Replaced(doc.pinned))'
  BY DEF PinHolds
<1>c. ~lost /\ (doc.pinned = NoPin \/ ~Replaced(doc.pinned))
  BY <1>0, <1>b, Zenon DEF Grows, PinHolds
<1> DEFINE Goal == (doc.pinned = NoPin \/ ~Replaced(doc.pinned))'
<1>1. ASSUME UNCHANGED <<doc, promoted>> PROVE Goal
  BY <1>1, <1>c DEF Replaced
<1>2. ASSUME NEW a \in Admins,
             \/ ReadState(a) \/ ReadLatest(a) \/ Die(a) \/ RotateKey(a)
             \/ RotateReread(a) \/ PromoteLatest(a) \/ RetireRead(a) \/ RetireKeys(a)
      PROVE  Goal
  BY <1>1, <1>2
  DEF ReadState, ReadLatest, Die, RotateKey, RotateReread, PromoteLatest, RetireRead, RetireKeys,
      keyHistory
<1>3. ASSUME NEW a \in Admins, NEW o, Begin(a, o)
      PROVE  Goal
  BY <1>1, <1>3 DEF Begin, keyHistory
<1>4. ASSUME NEW a \in Admins, RotatePin(a)
      PROVE  Goal
  <2>1. Write(a, Pinned(a)) /\ doc' = Pinned(a) /\ promoted' = promoted
    BY <1>4 DEF RotatePin, Write
  <2>2. Pinned(a) \in Docs  BY WrittenDocs
  <2>3. Pinned(a).pinned # NoPin => ~Replaced(Pinned(a).pinned)
    BY <1>b, <2>1, <2>2, WriteUndoesNothing
  <2> QED  BY <2>1, <2>3 DEF Replaced
<1>5. ASSUME NEW a \in Admins, PromoteUnpin(a) \/ PromoteWrite(a)
      PROVE  Goal
  <2>1. doc' = [adm[a].doc EXCEPT !.pinned = NoPin] \/ doc' = PromotedDoc(a)
    BY <1>5 DEF PromoteUnpin, PromoteWrite, Write
  <2>2. PromotedDoc(a).pinned = NoPin  BY DEF PromotedDoc
  <2>3. [adm[a].doc EXCEPT !.pinned = NoPin].pinned = NoPin
    BY WrittenDocs DEF Docs
  <2> QED  BY <2>1, <2>2, <2>3
<1>6. ASSUME NEW a \in Admins, RetireDrop(a)
      PROVE  Goal
  <2> DEFINE d == [adm[a].doc EXCEPT !.retiring = @ \ Drained(a)]
  <2>1. Write(a, d) /\ doc' = d /\ promoted' = promoted
    BY <1>6 DEF RetireDrop, Write
  <2>2. d \in Docs  BY WrittenDocs
  <2>3. d.pinned # NoPin => ~Replaced(d.pinned)
    <3> HIDE DEF d
    <3> QED  BY <1>b, <2>1, <2>2, WriteUndoesNothing
  <2> HIDE DEF d
  <2> QED  BY <2>1, <2>3 DEF Replaced
<1>7. ASSUME NEW i \in Issuers, Issue(i) \/ Resolve(i) \/ Sign(i)
      PROVE  Goal
  BY <1>1, <1>7 DEF Issue, Resolve, Sign, keyHistory
<1>8. ASSUME NEW v \in Verifiers, NEW n, VerifyToken(v, n)
      PROVE  Goal
  BY <1>1, <1>8 DEF VerifyToken, keyHistory
<1>9. ASSUME NEW v \in Verifiers, Keys(v) \/ Load(v) \/ Stamp(v) \/ Rejected(v)
      PROVE  Goal
  BY <1>1, <1>9 DEF Keys, Load, Stamp, Rejected, keyHistory
<1>10. ASSUME KeyTick PROVE Goal
  BY <1>1, <1>10, TickMoves
<1> QED
  BY <1>2, <1>3, <1>4, <1>5, <1>6, <1>7, <1>8, <1>9, <1>10, Zenon
  DEF KeyNext, Rotate, Promote, Retire

-----------------------------------------------------------------------------
(* A version that none in charge is newer than is newer than all that      *)
(* drain: the tokens that it signs are covered by every document.          *)
LEMMA NewestIsCovered ==
  ASSUME KeysTyped, NEW n \in Nat, ~Replaced(n), NEW t, NEW d \in Docs,
         \A e \in d.retiring : Replaced(e.version)
  PROVE  DrainedBy(t, n, d)
<1>1. /\ promoted \subseteq Nat
      /\ \A e \in d.retiring : e.version \in Nat
  BY DEF KeysTyped, KeyTypeOK, Docs, Versions
<1>2. ASSUME NEW e \in d.retiring, n <= e.version PROVE FALSE
  <2>1. PICK p \in promoted : e.version < p  BY DEF Replaced
  <2> QED  BY <1>1, <1>2, <2>1 DEF Replaced
<1> QED  BY <1>2 DEF DrainedBy

LEMMA LatestIsNewest ==
  ASSUME KeysTyped, VersionsInv
  PROVE  latest \in Nat /\ ~Replaced(latest)
<1>1. latest \in Nat /\ promoted \subseteq Nat
  BY DEF KeysTyped, KeyTypeOK, Versions
<1> QED  BY <1>1 DEF VersionsInv, Replaced

(* A document stays covered, whatever is issued. *)
LEMMA CoverStays ==
  ASSUME KeyInv, KeyNext, ~lost, NEW d \in Docs, Covers(d, tokens, iss),
         \A e \in d.retiring : Replaced(e.version)
  PROVE  Covers(d, tokens', iss')
<1> USE DEF KeyInv
<1>a. ASSUME UNCHANGED <<tokens, iss>> PROVE Covers(d, tokens', iss')
  BY <1>a
<1>1. ASSUME NEW a \in Admins,
             \/ ReadState(a) \/ ReadLatest(a) \/ Die(a)
             \/ RotateReread(a) \/ PromoteLatest(a) \/ RetireRead(a) \/ RetireKeys(a)
      PROVE  Covers(d, tokens', iss')
  BY <1>1, <1>a DEF ReadState, ReadLatest, Die, RotateReread, PromoteLatest, RetireRead, RetireKeys
<1>2. ASSUME NEW a \in Admins, NEW o, Begin(a, o)
      PROVE  Covers(d, tokens', iss')
  BY <1>2, <1>a DEF Begin
<1>3. ASSUME NEW a \in Admins, RotateKey(a)
      PROVE  Covers(d, tokens', iss')
  <2>1. tokens' = tokens  BY <1>3 DEF RotateKey
  <2>2. ASSUME NEW i \in Issuers
        PROVE  /\ iss'[i].step = iss[i].step /\ iss'[i].iat = iss[i].iat
               /\ iss'[i].version = iss[i].version
    <3>1. PICK c \in BOOLEAN : c = (iss[i].caught \/ iss[i].step = "latest")
      OBVIOUS
    <3>2. iss'[i] = [iss[i] EXCEPT !.caught = c] /\ iss[i] \in Issuance
      BY <1>3, <3>1 DEF RotateKey, KeysTyped
    <3> QED  BY <3>2 DEF Issuance
  <2> QED  BY <2>1, <2>2 DEF Covers
<1>4. ASSUME NEW a \in Admins,
             RotatePin(a) \/ PromoteUnpin(a) \/ PromoteWrite(a) \/ RetireDrop(a)
      PROVE  Covers(d, tokens', iss')
  BY <1>4, <1>a DEF RotatePin, PromoteUnpin, PromoteWrite, RetireDrop
<1>5. ASSUME NEW i \in Issuers, Issue(i)
      PROVE  Covers(d, tokens', iss')
  <2>1. IssueMoves(i, "resolve", NoPin, now) /\ tokens' = tokens
    BY <1>5, IssueBegins DEF Issue
  <2> QED  BY <2>1 DEF IssueMoves, Covers
<1>6. ASSUME NEW i \in Issuers, Resolve(i)
      PROVE  Covers(d, tokens', iss')
  <2>1. tokens' = tokens  BY <1>6 DEF Resolve
  <2>2. DrainedBy(iss[i].iat, latest, d)
    BY LatestIsNewest, NewestIsCovered
  <2>3. doc.pinned # NoPin => DrainedBy(iss[i].iat, doc.pinned, d)
    <3>1. doc.pinned \in Nat  BY DEF KeysTyped, KeyTypeOK, Docs, Versions, NoPin
    <3> QED  BY <3>1, NewestIsCovered DEF PinHolds
  <2>4. \E n, s : /\ IssueMoves(i, s, n, iss[i].iat)
                  /\ s = "sign" => DrainedBy(iss[i].iat, n, d)
    BY <1>6, <2>2, <2>3, ResolveMoves
  <2> QED  BY <2>1, <2>4 DEF IssueMoves, Covers
<1>7. ASSUME NEW i \in Issuers, Sign(i)
      PROVE  Covers(d, tokens', iss')
  <2>1. IssueMoves(i, "idle", NoPin, 0)  BY <1>7, SignMoves
  <2>2. \A t \in tokens' : DrainedBy(t.iat, t.version, d)
    BY <1>7 DEF Sign, Covers
  <2> QED  BY <2>1, <2>2 DEF IssueMoves, Covers
<1>8. ASSUME NEW v \in Verifiers, NEW n, VerifyToken(v, n)
      PROVE  Covers(d, tokens', iss')
  BY <1>8, <1>a DEF VerifyToken
<1>9. ASSUME NEW v \in Verifiers, Keys(v) \/ Load(v) \/ Stamp(v) \/ Rejected(v)
      PROVE  Covers(d, tokens', iss')
  BY <1>9, <1>a DEF Keys, Load, Stamp, Rejected
<1>10. ASSUME KeyTick PROVE Covers(d, tokens', iss')
  BY <1>10, <1>a DEF KeyTick
<1> QED
  BY <1>1, <1>2, <1>3, <1>4, <1>5, <1>6, <1>7, <1>8, <1>9, <1>10, Zenon
  DEF KeyNext, Rotate, Promote, Retire

(* What covers a document covers any part of it, and the empty one.        *)
LEMMA PartIsCovered ==
  ASSUME NEW d, NEW f, NEW T, NEW I, Covers(d, T, I), f.retiring \subseteq d.retiring
  PROVE  Covers(f, T, I)
BY DEF Covers, DrainedBy

LEMMA NoDocIsCovered ==
  ASSUME NEW T, NEW I PROVE Covers(NoDoc, T, I)
BY DEF NoDoc, Covers, DrainedBy

(* Every token was begun before a promotion that is written now.           *)
LEMMA PromotedIsCovered ==
  ASSUME KeyInv, ~lost, NEW a \in Admins, At(a, "promote", "promote")
  PROVE  Covers(PromotedDoc(a), tokens, iss)
<1> USE DEF KeyInv
<1> DEFINE e == [version |-> adm[a].version, until |-> DrainUntil(a)]
<1>1. adm[a].at \in Nat /\ adm[a].waited \in 0 .. Delay /\ now = adm[a].at + adm[a].waited
  BY DEF KeysTyped, Command, At, CommandFits
<1>2. e.until = adm[a].at + AccessTtl  BY DEF DrainUntil
<1>3. ASSUME NEW t \in Nat, t <= now PROVE t + AccessTtl <= e.until + Delay
  <2> HIDE DEF e
  <2> QED  BY <1>1, <1>2, <1>3, SigningKeysAssumption
<1>4. Covers(adm[a].doc, tokens, iss)  BY DEF DrainsHold
<1>5. ASSUME NEW f \in PromotedDoc(a).retiring
      PROVE  f \in adm[a].doc.retiring \/ f = e
  BY DEF PromotedDoc
<1>6. ASSUME NEW t \in tokens PROVE DrainedBy(t.iat, t.version, PromotedDoc(a))
  <2>1. t.iat \in Nat /\ t.iat <= now  BY DEF KeysTyped, KeyTypeOK, Tokens, VersionsInv
  <2>2. t.iat + AccessTtl <= e.until + Delay  BY <1>3, <2>1
  <2>3. DrainedBy(t.iat, t.version, adm[a].doc)  BY <1>4 DEF Covers
  <2> HIDE DEF e
  <2> QED  BY <1>5, <2>2, <2>3 DEF DrainedBy
<1>7. ASSUME NEW i \in Issuers, iss[i].step = "sign"
      PROVE  DrainedBy(iss[i].iat, iss[i].version, PromotedDoc(a))
  <2>1. iss[i].iat \in Nat /\ iss[i].iat <= now
    BY <1>7 DEF KeysTyped, Issuance, IssuanceFits
  <2>2. iss[i].iat + AccessTtl <= e.until + Delay  BY <1>3, <2>1
  <2>3. DrainedBy(iss[i].iat, iss[i].version, adm[a].doc)  BY <1>4, <1>7 DEF Covers
  <2> HIDE DEF e
  <2> QED  BY <1>5, <2>2, <2>3 DEF DrainedBy
<1> QED  BY <1>6, <1>7 DEF Covers

LEMMA DrainsHoldNext ==
  ASSUME KeyInv, KeyNext
  PROVE  DrainsHold'
<1> USE DEF KeyInv
<1>0. Grows  BY HistoryGrows
<1>b. SUFFICES ASSUME ~lost'
               PROVE  /\ Covers(doc', tokens', iss')
                      /\ \A b \in Admins : Covers(adm'[b].doc, tokens', iss')
  BY DEF DrainsHold
<1>c. ~lost  BY <1>0, <1>b, Zenon DEF Grows
<1> DEFINE Stay == \A b \in Admins : adm'[b].doc \in {doc, adm[b].doc, NoDoc}
<1>d. Covers(doc, tokens', iss')
  <2>1. doc \in Docs /\ \A e \in doc.retiring : Replaced(e.version)
    BY DEF KeysTyped, KeyTypeOK, VersionsInv
  <2> QED  BY <1>c, <2>1, CoverStays DEF DrainsHold
<1>e. ASSUME NEW b \in Admins PROVE Covers(adm[b].doc, tokens', iss')
  <2>1. adm[b].doc \in Docs /\ \A e \in adm[b].doc.retiring : Replaced(e.version)
    BY DEF KeysTyped, Command, CommandFits
  <2> QED  BY <1>c, <2>1, CoverStays DEF DrainsHold
<1>f. ASSUME Stay PROVE \A b \in Admins : Covers(adm'[b].doc, tokens', iss')
  BY <1>d, <1>e, <1>f, NoDocIsCovered
<1>g. ASSUME Stay, doc' = doc
      PROVE  /\ Covers(doc', tokens', iss')
             /\ \A b \in Admins : Covers(adm'[b].doc, tokens', iss')
  BY <1>d, <1>f, <1>g
<1> DEFINE Goal == /\ Covers(doc', tokens', iss')
                   /\ \A b \in Admins : Covers(adm'[b].doc, tokens', iss')
<1>1. ASSUME NEW a \in Admins, NEW o, NEW s, NEW n, NEW d, NEW t,
             Becomes(a, o, s, n, d, t), d \in {doc, adm[a].doc, NoDoc}
      PROVE  Stay
  BY <1>1 DEF Becomes
<1>2. ASSUME NEW a \in Admins, Begin(a, "rotate") \/ Begin(a, "promote") \/ Begin(a, "retire")
      PROVE  Goal
  <2>1. PICK o \in {"rotate", "promote", "retire"} :
          Begin(a, o) /\ Becomes(a, o, "read", NoPin, NoDoc, 0)
    BY <1>2, BeginMoves
  <2> QED  BY <1>1, <1>g, <2>1 DEF Begin
<1>3. ASSUME NEW a \in Admins, ReadState(a)
      PROVE  Goal
  <2>1. PICK s : Becomes(a, adm[a].op, s, doc.pinned, doc, adm[a].at)
    BY <1>3, ReadStateMoves
  <2> QED  BY <1>1, <1>3, <1>g, <2>1 DEF ReadState
<1>4. ASSUME NEW a \in Admins, ReadLatest(a)
      PROVE  Goal
  BY <1>1, <1>4, <1>g, ReadLatestMoves DEF ReadLatest
<1>5. ASSUME NEW a \in Admins, Die(a)
      PROVE  Goal
  BY <1>1, <1>5, <1>g, EndMoves DEF Die
<1>6. ASSUME NEW a \in Admins, RotateKey(a)
      PROVE  Goal
  BY <1>1, <1>6, <1>g, RotateKeyMoves DEF RotateKey
<1>7. ASSUME NEW a \in Admins, RotateReread(a)
      PROVE  Goal
  BY <1>1, <1>7, <1>g, RotateRereadMoves DEF RotateReread
<1>8. ASSUME NEW a \in Admins, PromoteLatest(a)
      PROVE  Goal
  <2>1. PICK s : Becomes(a, "promote", s, adm[a].version, adm[a].doc, now)
    BY <1>8, PromoteLatestMoves
  <2> QED  BY <1>1, <1>8, <1>g, <2>1 DEF PromoteLatest
<1>9. ASSUME NEW a \in Admins, RetireRead(a)
      PROVE  Goal
  <2>1. PICK o, s, n, d, t : Becomes(a, o, s, n, d, t) /\ d \in {doc, NoDoc}
    BY <1>9, RetireReadMoves
  <2> QED  BY <1>1, <1>9, <1>g, <2>1 DEF RetireRead
<1>10. ASSUME NEW a \in Admins, RetireKeys(a)
       PROVE  Goal
  BY <1>1, <1>10, <1>g, RetireKeysMoves DEF RetireKeys
<1>11. ASSUME NEW a \in Admins, NEW d, Write(a, d), d.retiring \subseteq adm[a].doc.retiring
       PROVE  Goal
  <2>1. Becomes(a, "none", "idle", NoPin, NoDoc, 0) /\ doc' = d
    BY <1>11, EndMoves DEF Write
  <2>2. Covers(doc', tokens', iss')  BY <1>11, <1>e, <2>1, PartIsCovered
  <2> QED  BY <1>1, <1>f, <2>1, <2>2
<1>12. ASSUME NEW a \in Admins, RotatePin(a) \/ PromoteUnpin(a) \/ RetireDrop(a)
       PROVE  Goal
  <2>1. CASE RotatePin(a)
    BY <1>11, <2>1, WrittenDocs DEF RotatePin
  <2>2. CASE PromoteUnpin(a)
    <3>1. [adm[a].doc EXCEPT !.pinned = NoPin].retiring \subseteq adm[a].doc.retiring
      BY WrittenDocs DEF Docs
    <3> QED  BY <1>11, <2>2, <3>1 DEF PromoteUnpin
  <2>3. CASE RetireDrop(a)
    <3>1. [adm[a].doc EXCEPT !.retiring = @ \ Drained(a)].retiring \subseteq adm[a].doc.retiring
      BY WrittenDocs DEF Docs
    <3> QED  BY <1>11, <2>3, <3>1 DEF RetireDrop
  <2> QED  BY <1>12, <2>1, <2>2, <2>3
<1>13. ASSUME NEW a \in Admins, PromoteWrite(a)
       PROVE  Goal
  <2>1. /\ Becomes(a, "none", "idle", NoPin, NoDoc, 0) /\ doc' = PromotedDoc(a)
        /\ UNCHANGED <<tokens, iss>>
    BY <1>13, EndMoves DEF PromoteWrite, Write
  <2>2. Covers(PromotedDoc(a), tokens, iss)
    BY <1>13, <1>c, PromotedIsCovered DEF PromoteWrite
  <2>3. Stay  BY <1>1, <2>1
  <2>4. Covers(doc', tokens', iss')  BY <2>1, <2>2
  <2> QED  BY <1>f, <2>3, <2>4
<1>14. ASSUME UNCHANGED <<adm, doc>> PROVE Goal
  BY <1>14, <1>g
<1>15. ASSUME NEW i \in Issuers, Issue(i) \/ Resolve(i) \/ Sign(i)
       PROVE  Goal
  BY <1>14, <1>15 DEF Issue, Resolve, Sign
<1>16. ASSUME NEW v \in Verifiers, NEW n, VerifyToken(v, n)
       PROVE  Goal
  BY <1>14, <1>16 DEF VerifyToken
<1>17. ASSUME NEW v \in Verifiers, Keys(v) \/ Load(v) \/ Stamp(v) \/ Rejected(v)
       PROVE  Goal
  BY <1>14, <1>17 DEF Keys, Load, Stamp, Rejected
<1>18. ASSUME KeyTick PROVE Goal
  BY <1>18, <1>g, TickMoves
<1> QED
  BY <1>2, <1>3, <1>4, <1>5, <1>6, <1>7, <1>8, <1>9, <1>10, <1>12, <1>13, <1>15, <1>16,
     <1>17, <1>18, Zenon
  DEF KeyNext, Rotate, Promote, Retire

(* A version leaves once the tokens of all the drained ones have expired.  *)
LEMMA RetireAfterDrainNext ==
  ASSUME KeyInv, KeyNext
  PROVE  RetireAfterDrain'
<1> USE DEF KeyInv
<1>0. Grows  BY HistoryGrows
<1>b. SUFFICES ASSUME ~lost', NEW t \in tokens', t.version < min'
               PROVE  t.iat + AccessTtl <= now' + Delay
  BY DEF RetireAfterDrain
<1>c. ~lost  BY <1>0, <1>b, Zenon DEF Grows
<1>a. /\ now \in Nat /\ now' \in {now, now + 1} /\ min \in Nat
      /\ \A u \in tokens : u.version \in Nat /\ u.iat \in Nat
      /\ AccessTtl \in Nat /\ Delay \in Nat
  BY <1>0, SigningKeysAssumption DEF Grows, KeysTyped, KeyTypeOK, Tokens, Versions
<1> DEFINE Goal == t.iat + AccessTtl <= now' + Delay
<1>d. ASSUME t \in tokens, min' = min PROVE Goal
  <2>1. t.iat + AccessTtl <= now + Delay  BY <1>b, <1>c, <1>d DEF RetireAfterDrain
  <2> QED  BY <1>a, <1>d, <2>1
<1>1. ASSUME NEW a \in Admins,
             \/ ReadState(a) \/ ReadLatest(a) \/ Die(a) \/ RotateKey(a)
             \/ RotateReread(a) \/ PromoteLatest(a) \/ RetireRead(a)
      PROVE  Goal
  BY <1>1, <1>b, <1>d
  DEF ReadState, ReadLatest, Die, RotateKey, RotateReread, PromoteLatest, RetireRead, vault
<1>2. ASSUME NEW a \in Admins, NEW o, Begin(a, o)
      PROVE  Goal
  BY <1>2, <1>b, <1>d DEF Begin, vault
<1>3. ASSUME NEW a \in Admins,
             RotatePin(a) \/ PromoteUnpin(a) \/ PromoteWrite(a) \/ RetireDrop(a)
      PROVE  Goal
  BY <1>3, <1>b, <1>d DEF RotatePin, PromoteUnpin, PromoteWrite, RetireDrop, vault
<1>4. ASSUME NEW a \in Admins, RetireKeys(a)
      PROVE  Goal
  <2>1. PICK e \in adm[a].doc.retiring :
          /\ e \in [version : Versions, until : 0 .. MaxTime + AccessTtl]
          /\ e.until <= adm[a].at /\ min' = e.version + 1
    BY <1>4, RetiredVersion
  <2>2. t \in tokens /\ now' = now  BY <1>4, <1>b DEF RetireKeys
  <2>3. t.version <= e.version  BY <1>a, <1>b, <2>1, <2>2 DEF Versions
  <2>4. t.iat + AccessTtl <= e.until + Delay
    BY <1>c, <2>1, <2>2, <2>3 DEF DrainsHold, Covers, DrainedBy
  <2>5. adm[a].at <= now /\ adm[a].at \in Nat  BY DEF CommandFits, KeysTyped, Command
  <2>6. e.until \in Nat  BY <2>1, SigningKeysAssumption
  <2> QED  BY <1>a, <2>1, <2>2, <2>4, <2>5, <2>6
<1>5. ASSUME NEW i \in Issuers, Issue(i) \/ Resolve(i)
      PROVE  Goal
  BY <1>5, <1>b, <1>d DEF Issue, Resolve, vault
<1>6. ASSUME NEW i \in Issuers, Sign(i)
      PROVE  Goal
  <2>1. min' = min  BY <1>6 DEF Sign, vault
  <2>2. iss[i].version \in Nat  BY DEF KeysTyped, Issuance, Versions, NoPin
  <2>3. t \in tokens
    <3>1. CASE iss[i].version < min  BY <1>6, <1>b, <3>1 DEF Sign
    <3>2. CASE ~(iss[i].version < min)
      <4>1. tokens' = tokens \cup {[version |-> iss[i].version, iat |-> iss[i].iat]}
        BY <1>6, <3>2 DEF Sign
      <4>2. t # [version |-> iss[i].version, iat |-> iss[i].iat]
        BY <1>b, <2>1, <3>2
      <4> QED  BY <1>b, <4>1, <4>2
    <3> QED  BY <3>1, <3>2
  <2> QED  BY <1>d, <2>1, <2>3
<1>7. ASSUME NEW v \in Verifiers, NEW n, VerifyToken(v, n)
      PROVE  Goal
  BY <1>7, <1>b, <1>d DEF VerifyToken, vault
<1>8. ASSUME NEW v \in Verifiers, Keys(v) \/ Load(v) \/ Stamp(v) \/ Rejected(v)
      PROVE  Goal
  BY <1>8, <1>b, <1>d DEF Keys, Load, Stamp, Rejected, vault
<1>9. ASSUME KeyTick PROVE Goal
  BY <1>9, <1>b, <1>d, TickMoves
<1> QED
  BY <1>1, <1>2, <1>3, <1>4, <1>5, <1>6, <1>7, <1>8, <1>9, Zenon
  DEF KeyNext, Rotate, Promote, Retire

-----------------------------------------------------------------------------
(* A rejection is younger than its key by less than a reload and a load.   *)
FoundInTime(v) ==
  (ver[v].step = "rejected" /\ ver[v].version >= min /\ ~lost) =>
    ver[v].at < born[ver[v].version] + MinRefresh + Delay

(* Versions keep their birth, and none comes back to Vault.                *)
LEMMA KeysMoveOn ==
  ASSUME KeyInv, KeyNext, ~lost'
  PROVE  /\ ~lost /\ min' >= min
         /\ \A n \in 1 .. latest : born'[n] = born[n]
         /\ \A n \in 1 .. latest' : n \in 1 .. latest \/ (born'[n] = now /\ now' = now)
<1> USE DEF KeyInv
<1>0. Grows  BY HistoryGrows
<1>a. ~lost  BY <1>0, Zenon DEF Grows
<1>b. latest \in Nat /\ min \in Nat /\ latest \in Versions
  BY DEF KeysTyped, KeyTypeOK, Versions
<1> DEFINE Goal == /\ min' >= min
                   /\ \A n \in 1 .. latest : born'[n] = born[n]
                   /\ \A n \in 1 .. latest' : n \in 1 .. latest \/ (born'[n] = now /\ now' = now)
<1>1. ASSUME NEW a \in Admins, RotateKey(a)
      PROVE  Goal
  <2>1. /\ latest' = latest + 1 /\ now' = now /\ min' = min
        /\ born' = [n \in 1 .. latest' |-> IF n = latest' THEN now ELSE born[n]]
    BY <1>1 DEF RotateKey
  <2> QED  BY <1>b, <2>1
<1>2. ASSUME NEW a \in Admins, RetireKeys(a)
      PROVE  Goal
  <2>1. ~(min' < min) /\ latest' = latest /\ born' = born
    BY <1>2, Zenon DEF RetireKeys
  <2>2. min' \in Nat  BY <1>2, RetiredVersion DEF Versions
  <2> QED  BY <1>b, <2>1, <2>2
<1>3. ASSUME UNCHANGED vault PROVE Goal
  BY <1>3, <1>b DEF vault
<1>4. ASSUME NEW a \in Admins,
             \/ ReadState(a) \/ ReadLatest(a) \/ Die(a)
             \/ RotateReread(a) \/ PromoteLatest(a) \/ RetireRead(a)
             \/ RotatePin(a) \/ PromoteUnpin(a) \/ PromoteWrite(a) \/ RetireDrop(a)
      PROVE  Goal
  BY <1>4, <1>3
  DEF ReadState, ReadLatest, Die, RotateReread, PromoteLatest, RetireRead, RotatePin,
      PromoteUnpin, PromoteWrite, RetireDrop, vault
<1>5. ASSUME NEW a \in Admins, NEW o, Begin(a, o)
      PROVE  Goal
  BY <1>5, <1>3 DEF Begin, vault
<1>6. ASSUME NEW i \in Issuers, Issue(i) \/ Resolve(i) \/ Sign(i)
      PROVE  Goal
  BY <1>6, <1>3 DEF Issue, Resolve, Sign, vault
<1>7. ASSUME NEW v \in Verifiers, NEW n, VerifyToken(v, n)
      PROVE  Goal
  BY <1>7, <1>3 DEF VerifyToken, vault
<1>8. ASSUME NEW v \in Verifiers, Keys(v) \/ Load(v) \/ Stamp(v) \/ Rejected(v)
      PROVE  Goal
  BY <1>8, <1>3 DEF Keys, Load, Stamp, Rejected, vault
<1>9. ASSUME KeyTick PROVE Goal
  BY <1>9, <1>3, TickMoves DEF vault
<1>10. Goal
  BY <1>1, <1>2, <1>4, <1>5, <1>6, <1>7, <1>8, <1>9, Zenon
  DEF KeyNext, Rotate, Promote, Retire
<1> QED  BY <1>a, <1>10

(* The steps of a reader, and those of the others. *)
LEMMA ReaderSteps ==
  ASSUME KeyInv, KeyNext
  PROVE  \/ KeyTick
         \/ UNCHANGED <<ver, cache, now>>
         \/ \E v \in Verifiers, n \in Versions : VerifyToken(v, n) /\ n <= latest
         \/ \E v \in Verifiers : Keys(v) \/ Load(v) \/ Stamp(v) \/ Rejected(v)
<1> DEFINE Same == UNCHANGED <<ver, cache, now>>
<1>1. ASSUME NEW a \in Admins, ReadState(a) \/ ReadLatest(a) \/ Die(a)
      PROVE  Same
  BY <1>1 DEF ReadState, ReadLatest, Die
<1>2. ASSUME NEW a \in Admins, Rotate(a) \/ Promote(a) \/ Retire(a)
      PROVE  Same
  BY <1>2
  DEF Rotate, Promote, Retire, Begin, RotateKey, RotateReread, RotatePin, PromoteLatest,
      PromoteUnpin, PromoteWrite, RetireRead, RetireKeys, RetireDrop
<1>3. ASSUME NEW i \in Issuers, Issue(i) \/ Resolve(i) \/ Sign(i)
      PROVE  Same
  BY <1>3 DEF Issue, Resolve, Sign
<1>4. ASSUME NEW v \in Verifiers, NEW t \in tokens, VerifyToken(v, t.version)
      PROVE  \E w \in Verifiers, n \in Versions : VerifyToken(w, n) /\ n <= latest
  <2>1. t.version \in Versions /\ t.version <= latest
    BY DEF KeyInv, KeysTyped, KeyTypeOK, Tokens, VersionsInv
  <2> QED  BY <1>4, <2>1
<1> QED  BY <1>1, <1>2, <1>3, <1>4, Zenon DEF KeyNext

LEMMA CacheFitsNext ==
  ASSUME KeyInv, KeyNext
  PROVE  CacheFits'
<1> USE DEF KeyInv
<1>0. Grows  BY HistoryGrows
<1>a. /\ now \in Nat /\ now' \in {now, now + 1} /\ min \in Nat /\ latest \in Nat
      /\ latest' \in Nat /\ Delay \in Nat /\ cache.at \in Nat
      /\ \A n \in 1 .. latest : born[n] \in Nat
  BY <1>0, SigningKeysAssumption DEF Grows, KeysTyped, KeyTypeOK, Versions
<1>b. min' \in Nat  BY StoredTypesNext DEF StoredTypes
<1>1. CASE cache' = cache
  <2>1. cache.at <= now'  BY <1>a DEF CacheFits
  <2>2. ASSUME cache.keys # {}, ~lost', NEW n \in (1 .. latest') \ cache.keys, n >= min'
        PROVE  cache.at <= born'[n] + Delay
    <3>1. /\ ~lost /\ min' >= min
          /\ \A k \in 1 .. latest : born'[k] = born[k]
          /\ n \in 1 .. latest \/ (born'[n] = now /\ now' = now)
      BY <2>2, KeysMoveOn
    <3>2. CASE n \in 1 .. latest
      <4>1. n >= min  BY <1>a, <1>b, <2>2, <3>1
      <4>2. cache.at <= born[n] + Delay  BY <2>2, <3>1, <3>2, <4>1 DEF CacheFits
      <4> QED  BY <3>1, <3>2, <4>2
    <3>3. CASE born'[n] = now
      BY <1>a, <3>3 DEF CacheFits
    <3> QED  BY <3>1, <3>2, <3>3
  <2> QED  BY <1>1, <2>1, <2>2 DEF CacheFits
<1>2. ASSUME NEW v \in Verifiers, Stamp(v) PROVE CacheFits'
  <2>1. /\ cache' = [keys |-> ver[v].keys, at |-> now] /\ now' = now
        /\ UNCHANGED <<latest, min, born, lost>> /\ ver[v].step = "stamp"
    BY <1>2 DEF Stamp, vault, keyHistory
  <2>2. ver[v].waited \in 0 .. Delay  BY DEF KeysTyped, Reading
  <2>3. ASSUME ~lost, NEW n \in (1 .. latest) \ ver[v].keys, n >= min
        PROVE  now <= born[n] + Delay
    <3>1. now <= born[n] + ver[v].waited  BY <2>1, <2>3 DEF ReadingFits
    <3> QED  BY <1>a, <2>2, <3>1
  <2> QED  BY <1>a, <2>1, <2>3 DEF CacheFits
<1>3. cache' = cache \/ \E v \in Verifiers : Stamp(v)
  BY ReaderSteps, TickMoves DEF VerifyToken, Keys, Load, Rejected
<1> QED  BY <1>1, <1>2, <1>3

LEMMA ReadingNext ==
  ASSUME KeyInv, KeyNext, NEW w \in Verifiers
  PROVE  ReadingFits(w)' /\ FoundInTime(w)'
<1> USE DEF KeyInv
<1>0. Grows  BY HistoryGrows
<1>a. /\ now \in Nat /\ now' \in {now, now + 1} /\ min \in Nat /\ latest \in Nat
      /\ latest' \in {latest, latest + 1} /\ Delay \in Nat /\ MinRefresh \in Nat \ {0}
      /\ \A n \in 1 .. latest : born[n] \in Nat
  BY <1>0, SigningKeysAssumption DEF Grows, KeysTyped, KeyTypeOK, Versions
<1>b. min' \in Nat  BY StoredTypesNext DEF StoredTypes
<1>c. /\ ver[w] \in Reading /\ ReadingFits(w) /\ FoundInTime(w)
      /\ ver[w].version \in Nat /\ ver[w].at \in Nat /\ ver[w].waited \in 0 .. Delay
  BY DEF KeysTyped, Reading, Versions, NoPin, NewKeysAreFound, FoundInTime
<1>d. ASSUME ver'[w].step = ver[w].step, ver'[w].version = ver[w].version,
             ver'[w].keys = ver[w].keys, ver'[w].at = ver[w].at,
             ver'[w].waited \in Nat,
             ver[w].step # "stamp" => ver'[w].waited = 0,
             ver[w].step = "stamp" => now' - now <= ver'[w].waited - ver[w].waited
      PROVE  ReadingFits(w)' /\ FoundInTime(w)'
  <2>1. ver'[w].version <= latest'  BY <1>a, <1>c, <1>d DEF ReadingFits
  <2>2. ver'[w].step = "rejected" => ver'[w].version # NoPin
    BY <1>c, <1>d DEF ReadingFits
  <2>3. ASSUME ver'[w].step = "stamp", ~lost',
               NEW n \in (1 .. latest') \ ver'[w].keys, n >= min'
        PROVE  now' <= born'[n] + ver'[w].waited
    <3>1. /\ ~lost /\ min' >= min
          /\ \A k \in 1 .. latest : born'[k] = born[k]
          /\ n \in 1 .. latest \/ (born'[n] = now /\ now' = now)
      BY <2>3, KeysMoveOn
    <3>2. CASE n \in 1 .. latest
      <4>1. n >= min  BY <1>a, <1>b, <2>3, <3>1
      <4>2. now <= born[n] + ver[w].waited
        BY <1>c, <1>d, <2>3, <3>1, <3>2, <4>1 DEF ReadingFits
      <4>3. born[n] \in Nat /\ born'[n] = born[n]  BY <1>a, <3>1, <3>2
      <4>4. now' - now <= ver'[w].waited - ver[w].waited  BY <1>d, <2>3
      <4> QED  BY <1>a, <1>c, <1>d, <4>2, <4>3, <4>4
    <3>3. CASE born'[n] = now /\ now' = now
      BY <1>a, <1>d, <3>3
    <3> QED  BY <3>1, <3>2, <3>3
  <2>4. ReadingFits(w)'
    BY <1>d, <2>1, <2>2, <2>3 DEF ReadingFits
  <2>5. ASSUME ver'[w].step = "rejected", ver'[w].version >= min', ~lost'
        PROVE  ver'[w].at < born'[ver'[w].version] + MinRefresh + Delay
    <3>1. ~lost /\ min' >= min /\ \A k \in 1 .. latest : born'[k] = born[k]
      BY <2>5, KeysMoveOn
    <3>2. ver[w].version \in 1 .. latest
      BY <1>a, <1>c, <1>d, <2>5 DEF ReadingFits, NoPin
    <3>3. ver[w].version >= min  BY <1>a, <1>b, <1>c, <1>d, <2>5, <3>1
    <3>4. ver[w].at < born[ver[w].version] + MinRefresh + Delay
      BY <1>c, <1>d, <2>5, <3>1, <3>3 DEF FoundInTime
    <3> QED  BY <1>d, <3>1, <3>2, <3>4
  <2> QED  BY <2>4, <2>5 DEF FoundInTime
<1>1. CASE ver'[w] = ver[w] /\ now' = now
  <2>1. ver[w].step # "stamp" => ver'[w].waited = 0  BY <1>1, <1>c DEF ReadingFits
  <2>2. now' - now <= ver'[w].waited - ver[w].waited /\ ver'[w].waited \in Nat
    BY <1>1, <1>a, <1>c
  <2> QED  BY <1>1, <1>d, <2>1, <2>2
<1>2. CASE KeyTick
  <2>1. /\ ver'[w].step = ver[w].step /\ ver'[w].version = ver[w].version
        /\ ver'[w].keys = ver[w].keys /\ ver'[w].at = ver[w].at /\ now' = now + 1
        /\ ver'[w].waited = IF ver[w].step = "stamp" THEN ver[w].waited + 1
                            ELSE ver[w].waited
    BY <1>2, TickMoves
  <2>2. ver[w].step # "stamp" => ver[w].waited = 0  BY <1>c DEF ReadingFits
  <2> QED  BY <1>a, <1>c, <1>d, <2>1, <2>2
<1>3. ASSUME NEW n, NEW k, \/ ReadMoves(w, "idle", n, k) /\ n = NoPin
                           \/ ReadMoves(w, "load", n, k) /\ n \in 0 .. latest,
             latest' = latest
      PROVE  ReadingFits(w)' /\ FoundInTime(w)'
  BY <1>a, <1>3 DEF ReadMoves, ReadingFits, FoundInTime, NoPin
<1>4. ASSUME NEW v \in Verifiers, NEW n \in Versions, VerifyToken(v, n), n <= latest
      PROVE  ReadingFits(w)' /\ FoundInTime(w)'
  <2>1. UNCHANGED <<now, latest, min, born, lost>>
    BY <1>4 DEF VerifyToken, vault, keyHistory
  <2>2. CASE v # w
    <3>1. ver'[w] = ver[w]  BY <1>4, <2>2, VerifyMoves DEF ReadMoves
    <3> QED  BY <1>1, <2>1, <3>1
  <2>3. CASE v = w /\ ReadMoves(v, "load", n, {})
    BY <1>3, <1>4, <2>1, <2>3 DEF Versions
  <2>4. CASE /\ v = w /\ ReadMoves(v, "rejected", n, {}) /\ ver'[v].at = now
             /\ n \notin cache.keys /\ Younger(RefreshAge)
    <3>1. /\ ver'[w].step = "rejected" /\ ver'[w].version = n /\ ver'[w].at = now
          /\ ver'[w].waited = 0
      BY <2>4 DEF ReadMoves
    <3>2. n # NoPin /\ n \in 1 .. latest  BY <1>a, <1>4 DEF Versions, NoPin
    <3>3. ReadingFits(w)'
      BY <1>4, <2>1, <3>1, <3>2 DEF ReadingFits
    <3>4. ASSUME n >= min, ~lost PROVE now < born[n] + MinRefresh + Delay
      <4>1. cache.keys # {} /\ now - cache.at < MinRefresh
        BY <2>4 DEF Younger, RefreshAge
      <4>2. cache.at <= born[n] + Delay
        BY <2>4, <3>2, <3>4, <4>1 DEF CacheFits
      <4>3. cache.at \in Nat /\ born[n] \in Nat
        BY <1>a, <3>2 DEF KeysTyped
      <4> QED  BY <1>a, <4>1, <4>2, <4>3
    <3>5. FoundInTime(w)'  BY <2>1, <3>1, <3>4 DEF FoundInTime
    <3> QED  BY <3>3, <3>5
  <2> QED  BY <1>4, <2>2, <2>3, <2>4, VerifyMoves
<1>5. ASSUME NEW v \in Verifiers, Keys(v) \/ Rejected(v)
      PROVE  ReadingFits(w)' /\ FoundInTime(w)'
  <2>1. now' = now /\ latest' = latest  BY <1>5 DEF Keys, Rejected, vault
  <2>2. ReadMoves(v, "load", NoPin, {}) \/ ReadMoves(v, "idle", NoPin, {})
    BY <1>5, KeysMoves, RejectedMoves
  <2>3. CASE v = w
    BY <1>3, <1>a, <2>1, <2>2, <2>3 DEF NoPin
  <2>4. CASE v # w  BY <1>1, <2>1, <2>2, <2>4 DEF ReadMoves
  <2> QED  BY <2>3, <2>4
<1>6. ASSUME NEW v \in Verifiers, Load(v)
      PROVE  ReadingFits(w)' /\ FoundInTime(w)'
  <2>1. ReadMoves(v, "stamp", ver[v].version, min .. latest) /\ ver[v].version <= latest
        /\ UNCHANGED <<now, latest, min, born, lost>>
    BY <1>6, LoadMoves DEF Load, vault, keyHistory, ReadingFits
  <2>2. CASE v = w
    <3>1. \A n \in (1 .. latest) \ (min .. latest) : ~(n >= min)  BY <1>a
    <3> QED  BY <2>1, <2>2, <3>1 DEF ReadMoves, ReadingFits, FoundInTime
  <2>3. CASE v # w  BY <1>1, <2>1, <2>3 DEF ReadMoves
  <2> QED  BY <2>2, <2>3
<1>7. ASSUME NEW v \in Verifiers, Stamp(v)
      PROVE  ReadingFits(w)' /\ FoundInTime(w)'
  <2>1. UNCHANGED <<now, latest, min, born, lost>> /\ ver[v].step = "stamp"
    BY <1>7 DEF Stamp, vault, keyHistory
  <2>2. CASE v # w
    <3>1. ver'[w] = ver[w]  BY <1>7, <2>2, StampMoves DEF ReadMoves
    <3> QED  BY <1>1, <2>1, <3>1
  <2>3. CASE v = w /\ ReadMoves(v, "idle", NoPin, {})
    BY <1>3, <2>1, <2>3
  <2>4. CASE /\ v = w /\ ReadMoves(v, "rejected", ver[v].version, {}) /\ ver'[v].at = now
             /\ ver[v].version \notin ver[v].keys /\ ver[v].version # NoPin
    <3>1. /\ ver'[w].step = "rejected" /\ ver'[w].version = ver[w].version
          /\ ver'[w].at = now /\ ver'[w].waited = 0
      BY <2>4 DEF ReadMoves
    <3>2. ver[w].version \in 1 .. latest
      BY <1>a, <1>c, <2>4 DEF ReadingFits, NoPin
    <3>3. ReadingFits(w)'
      BY <1>c, <2>1, <2>4, <3>1 DEF ReadingFits
    <3>4. ASSUME ver[w].version >= min, ~lost
          PROVE  now < born[ver[w].version] + MinRefresh + Delay
      <4>1. now <= born[ver[w].version] + ver[w].waited
        BY <1>c, <2>1, <2>4, <3>2, <3>4 DEF ReadingFits
      <4>2. born[ver[w].version] \in Nat  BY <1>a, <3>2
      <4> QED  BY <1>a, <1>c, <4>1, <4>2
    <3>5. FoundInTime(w)'  BY <2>1, <3>1, <3>4 DEF FoundInTime
    <3> QED  BY <3>3, <3>5
  <2> QED  BY <1>7, <2>2, <2>3, <2>4, StampMoves
<1>8. \/ KeyTick
      \/ ver' = ver /\ now' = now
      \/ \E v \in Verifiers, n \in Versions : VerifyToken(v, n) /\ n <= latest
      \/ \E v \in Verifiers : Keys(v) \/ Load(v) \/ Stamp(v) \/ Rejected(v)
  BY ReaderSteps
<1> QED  BY <1>1, <1>2, <1>4, <1>5, <1>6, <1>7, <1>8

-----------------------------------------------------------------------------
LEMMA KeyInvInitially == KeyInit => KeyInv
<1> SUFFICES ASSUME KeyInit PROVE KeyInv  OBVIOUS
<1> USE SigningKeysAssumption DEF KeyInit
<1>1. 1 \in Versions /\ 0 \in 0 .. MaxTime /\ NoPin = 0
  BY DEF Versions, NoPin
<1>2. /\ Unissued \in Issuance /\ Unissued.step = "idle"
      /\ Unread \in Reading /\ Unread.step = "idle" /\ Unread.version = NoPin
      /\ Unread.waited = 0
  BY <1>1 DEF Unissued, Issuance, Unread, Reading
<1>3. LocalTypes
  BY <1>2, RestIsCommand DEF LocalTypes
<1>4. StoredTypes
  <2>1. cache \in [keys : SUBSET Versions, at : 0 .. MaxTime]  BY <1>1
  <2>2. born \in [1 .. latest -> 0 .. MaxTime]  BY <1>1
  <2>3. lost \in BOOLEAN /\ unpinned \in BOOLEAN  OBVIOUS
  <2> QED  BY <1>1, <2>1, <2>2, <2>3, RestIsCommand DEF StoredTypes
<1>5. KeysTyped  BY <1>3, <1>4, KeysTypedSplit
<1>6. VersionsInv  BY RestIsCommand DEF VersionsInv
<1>7. ASSUME NEW a \in Admins PROVE CommandFits(a)
  <2>1. adm[a] = Rest  OBVIOUS
  <2> QED  BY <1>1, <2>1, RestIsCommand DEF CommandFits
<1>8. InCharge
  <2>1. \A a \in Admins : adm[a].op = "none"  BY RestIsCommand
  <2> QED  BY <2>1, RestIsCommand DEF InCharge, Settled
<1>9. ASSUME NEW i \in Issuers PROVE IssuanceFits(i) /\ iss[i].step = "idle"
  BY <1>2 DEF IssuanceFits
<1>10. PinHolds  BY RestIsCommand DEF PinHolds
<1>11. DrainsHold
  <2>1. \A a \in Admins : adm[a].doc = NoDoc  BY RestIsCommand
  <2> QED  BY <2>1, NoDocIsCovered DEF DrainsHold
<1>12. ASSUME NEW v \in Verifiers PROVE ReadingFits(v) /\ ver[v].step = "idle"
  BY <1>1, <1>2 DEF ReadingFits
<1>13. CacheFits  BY DEF CacheFits
<1>14. PublishBeforeSign  BY <1>9 DEF PublishBeforeSign
<1>15. RetireAfterDrain  BY DEF RetireAfterDrain
<1>16. NewKeysAreFound  BY <1>12 DEF NewKeysAreFound
<1> QED
  BY <1>5, <1>6, <1>7, <1>8, <1>9, <1>10, <1>11, <1>12, <1>13, <1>14, <1>15, <1>16
  DEF KeyInv

LEMMA KeyInvNext == KeyInv /\ [KeyNext]_keyVars => KeyInv'
<1> SUFFICES ASSUME KeyInv, [KeyNext]_keyVars PROVE KeyInv'  OBVIOUS
<1>1. CASE KeyNext
  <2>1. KeysTyped'
    <3>1. LocalTypes' /\ StoredTypes'  BY <1>1, LocalTypesNext, StoredTypesNext
    <3> QED  BY <3>1, KeysTypedSplit, PTL
  <2>2. VersionsInv' /\ InCharge' /\ PinHolds' /\ DrainsHold'
    BY <1>1, VersionsNext, InChargeNext, PinHoldsNext, DrainsHoldNext
  <2>3. \A a \in Admins : CommandFits(a)'  BY <1>1, CommandFitsNext
  <2>4. \A i \in Issuers : IssuanceFits(i)' /\ Signs(i)'  BY <1>1, IssuanceNext
  <2>5. PublishBeforeSign'  BY <2>4 DEF PublishBeforeSign, Signs
  <2>6. \A v \in Verifiers : ReadingFits(v)' /\ FoundInTime(v)'  BY <1>1, ReadingNext
  <2>7. NewKeysAreFound'  BY <2>6 DEF NewKeysAreFound, FoundInTime
  <2>8. CacheFits' /\ RetireAfterDrain'  BY <1>1, CacheFitsNext, RetireAfterDrainNext
  <2> QED  BY <2>1, <2>2, <2>3, <2>4, <2>5, <2>6, <2>7, <2>8 DEF KeyInv
<1>2. CASE UNCHANGED keyVars
  BY <1>2
  DEF keyVars, KeyInv, KeysTyped, KeyTypeOK, VersionsInv, CommandFits, Drained, InCharge, Settled,
      Rooted, Old, Replaced, IssuanceFits, PinHolds, DrainsHold, ReadingFits, CacheFits,
      PublishBeforeSign, RetireAfterDrain, NewKeysAreFound
<1> QED  BY <1>1, <1>2

(* The inductive invariant of the signing keys: who may put a version in   *)
(* charge, and what readers and the cache know of the key set.             *)
THEOREM KeyInvAlways == KeySpec => []KeyInv
<1>1. KeyInit => KeyInv  BY KeyInvInitially
<1>2. KeyInv /\ [KeyNext]_keyVars => KeyInv'  BY KeyInvNext
<1> QED  BY <1>1, <1>2, PTL DEF KeySpec

(* The document, the tokens, the cache and what is under way keep their    *)
(* types.                                                                  *)
THEOREM KeysTypeCorrect == KeySpec => []KeyTypeOK
<1>1. KeyInv => KeyTypeOK  BY DEF KeyInv, KeysTyped
<1> QED  BY <1>1, KeyInvAlways, PTL

(* JWKS publishes a key from before its first token until after its last,  *)
(* whatever commands overlap, unless one undid what another had written.   *)
THEOREM KeysOutliveTheirTokensAlways == KeySpec => []KeysOutliveTheirTokens
<1>1. KeyInv => KeysOutliveTheirTokens  BY DEF KeyInv, KeysOutliveTheirTokens
<1> QED  BY <1>1, KeyInvAlways, PTL

(* resolveActive gives a version that Vault signs with, whatever commands  *)
(* died and where.                                                         *)
THEOREM ActiveKeyIsLiveAlways == KeySpec => []ActiveKeyIsLive
<1>1. ASSUME KeyInv PROVE ActiveKeyIsLive
  <2>1. SUFFICES ASSUME ~lost PROVE Active >= min  BY DEF ActiveKeyIsLive
  <2>2. PICK p \in promoted : min <= p /\ p <= latest
    BY <1>1 DEF KeyInv, VersionsInv
  <2>3. p \in Nat /\ min \in Nat /\ latest \in Nat /\ doc.pinned \in Nat
    BY <1>1 DEF KeyInv, KeysTyped, KeyTypeOK, Versions, Docs, NoPin
  <2>4. doc.pinned = NoPin \/ ~(doc.pinned < p)
    BY <1>1, <2>1 DEF KeyInv, PinHolds, Replaced
  <2> QED  BY <2>2, <2>3, <2>4 DEF Active
<1> QED  BY <1>1, KeyInvAlways, PTL

(* JwtVerifier knows a published key once it is older than the refresh     *)
(* interval and a load.                                                    *)
THEOREM NewKeysAreFoundAlways == KeySpec => []NewKeysAreFound
<1>1. KeyInv => NewKeysAreFound  BY DEF KeyInv
<1> QED  BY <1>1, KeyInvAlways, PTL
=============================================================================
