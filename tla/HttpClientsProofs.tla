------------------------- MODULE HttpClientsProofs -------------------------
(***************************************************************************)
(* Proofs about the clients of the API, one at a time as HttpClients       *)
(* composes them: the refreshing client (RefreshRotation), the demo        *)
(* account and its seed (DemoAccount, DemoSeed), the enforcement points    *)
(* (Enforcement, over SessionRevocation) and the browser tab               *)
(* (ConsoleSession), whose shown recovery codes work.  Each has an         *)
(* inductive invariant over its own variables; a step of another client    *)
(* stutters on them.                                                       *)
(***************************************************************************)
EXTENDS HttpClients, FiniteSetTheorems, TLAPS

-----------------------------------------------------------------------------
(* Session revocation: a token older than the blocklist entry of its       *)
(* session, by the clock skew and the delay of the guard, stays rejected,  *)
(* for every TTL, skew, delay and number of requests.                      *)

(* A token that verified had, when it did, less than the skew to live past *)
(* its expiry; the time since is counted.                                  *)
VerifiedInTime ==
  \A g \in Guards :
    /\ guard[g] = "idle" => waited[g] = 0
    /\ guard[g] # "idle" => bearer[g] \in Nat
    /\ guard[g] = "verified" => bearer[g] + AccessTtl + ClockSkew + waited[g] > now

(* A request that began after the revocation knows that the entry is there *)
(* and that nobody will write it again.                                    *)
AfterIsSettled ==
  \A g \in Guards : after[g] => ending = "done" /\ listedAt \in Nat

(* Only a signed token can be handed out. *)
SignedHasToken ==
  \A i \in Issuers : issuer[i] = "signed" => draft[i] \in 0 .. now

Inv ==
  /\ TypeOK
  /\ SignedHasToken
  /\ VerifiedInTime
  /\ AfterIsSettled
  /\ OlderTokensStayRevoked

-----------------------------------------------------------------------------
(* The invariant holds initially. *)
LEMMA InvInit == Init => Inv
BY SessionRevocationAssumption
   DEF Init, Inv, TypeOK, SignedHasToken, VerifiedInTime, AfterIsSettled,
       OlderTokensStayRevoked

(* Every step keeps the types and the tokens that issuers have signed. *)
LEMMA TypeNext ==
  ASSUME TypeOK, SignedHasToken, [Next]_vars
  PROVE  (TypeOK /\ SignedHasToken)'
<1> USE SessionRevocationAssumption DEF TypeOK, SignedHasToken
<1>1. CASE Tick  BY <1>1 DEF Tick
<1>2. CASE \E i \in Issuers : FindSession(i)  BY <1>2 DEF FindSession
<1>3. CASE \E i \in Issuers : Sign(i)  BY <1>3 DEF Sign
<1>4. CASE \E i \in Issuers : HandOut(i)  BY <1>4 DEF HandOut
<1>5. CASE RevokeSession  BY <1>5 DEF RevokeSession
<1>6. CASE Blocklist  BY <1>6 DEF Blocklist
<1>7. CASE \E g \in Guards, t \in issued : Verify(g, t)  BY <1>7 DEF Verify
<1>8. CASE \E g \in Guards : CheckBlocklist(g)  BY <1>8 DEF CheckBlocklist
<1>9. CASE \E g \in Guards : EndRequest(g)  BY <1>9 DEF EndRequest
<1>10. CASE UNCHANGED vars  BY <1>10 DEF vars
<1> QED  BY <1>1, <1>2, <1>3, <1>4, <1>5, <1>6, <1>7, <1>8, <1>9, <1>10 DEF Next

(* The steps of issuers and of the revocation, up to the blocklist, leave  *)
(* the requests of the guard alone.                                        *)
LEMMA GuardUntouched ==
  ASSUME Inv, UNCHANGED <<now, ending, listedAt, guard, bearer, waited, after>>
  PROVE  (VerifiedInTime /\ AfterIsSettled /\ OlderTokensStayRevoked)'
BY DEF Inv, VerifiedInTime, AfterIsSettled, OlderTokensStayRevoked

(* Every step keeps the invariant. *)
LEMMA InvNext ==
  ASSUME Inv, [Next]_vars
  PROVE  Inv'
<1> USE SessionRevocationAssumption
<1>1. TypeOK' /\ SignedHasToken'  BY TypeNext DEF Inv
<1>2. CASE Tick
  <2>1. VerifiedInTime'  BY <1>2 DEF Tick, Inv, TypeOK, VerifiedInTime
  <2>2. AfterIsSettled'  BY <1>2 DEF Tick, Inv, AfterIsSettled
  <2>3. OlderTokensStayRevoked'
    BY <1>2 DEF Tick, Inv, TypeOK, OlderTokensStayRevoked
  <2> QED  BY <1>1, <2>1, <2>2, <2>3 DEF Inv
<1>3. CASE \E i \in Issuers : FindSession(i) \/ Sign(i) \/ HandOut(i)
  BY <1>1, <1>3, GuardUntouched DEF FindSession, Sign, HandOut, Inv
<1>4. CASE RevokeSession
  <2>1. VerifiedInTime' /\ OlderTokensStayRevoked'
    BY <1>4 DEF RevokeSession, Inv, VerifiedInTime, OlderTokensStayRevoked
  <2>2. AfterIsSettled'  BY <1>4 DEF RevokeSession, Inv, AfterIsSettled
  <2> QED  BY <1>1, <2>1, <2>2 DEF Inv
<1>5. CASE Blocklist
  <2>1. \A g \in Guards : ~after[g]  BY <1>5 DEF Blocklist, Inv, AfterIsSettled
  <2> QED  BY <1>1, <1>5, <2>1
           DEF Blocklist, Inv, VerifiedInTime, AfterIsSettled, OlderTokensStayRevoked
<1>6. ASSUME NEW g \in Guards, NEW t \in issued, Verify(g, t) PROVE Inv'
  <2>1. t \in Nat /\ now \in Nat /\ waited[g] = 0
    BY <1>6 DEF Verify, Inv, TypeOK, VerifiedInTime
  <2>2. VerifiedInTime'
    BY <1>6, <2>1 DEF Verify, Verifies, Inv, TypeOK, VerifiedInTime
  <2>3. AfterIsSettled'
    BY <1>6 DEF Verify, Inv, TypeOK, AfterIsSettled
  <2>4. OlderTokensStayRevoked'
    BY <1>6 DEF Verify, Inv, TypeOK, OlderTokensStayRevoked
  <2> QED  BY <1>1, <2>2, <2>3, <2>4 DEF Inv
<1>7. ASSUME NEW g \in Guards, CheckBlocklist(g) PROVE Inv'
  <2>1. VerifiedInTime'
    BY <1>7 DEF CheckBlocklist, Inv, TypeOK, VerifiedInTime
  <2>2. AfterIsSettled'  BY <1>7 DEF CheckBlocklist, Inv, AfterIsSettled
  \* The entry has expired, so the token verified with nothing but skew left.
  <2>3. ASSUME guard'[g] = "accepted", after[g]
        PROVE  bearer[g] + ClockSkew + waited[g] > listedAt
    <3>1. ~Listed
      BY <1>7, <2>3 DEF CheckBlocklist, Inv, TypeOK
    <3>2. listedAt \in Nat  BY <2>3 DEF Inv, AfterIsSettled
    <3>3. now >= listedAt + AccessTtl
      BY <3>1, <3>2 DEF Listed, Inv, TypeOK
    <3>4. bearer[g] \in Nat /\ bearer[g] + AccessTtl + ClockSkew + waited[g] > now
      BY <1>7 DEF CheckBlocklist, Inv, VerifiedInTime
    <3>5. waited[g] \in Nat /\ now \in Nat  BY DEF Inv, TypeOK
    <3> QED  BY <3>2, <3>3, <3>4, <3>5
  <2>4. OlderTokensStayRevoked'
    BY <1>7, <2>3 DEF CheckBlocklist, Inv, TypeOK, OlderTokensStayRevoked
  <2> QED  BY <1>1, <2>1, <2>2, <2>4 DEF Inv
<1>8. ASSUME NEW g \in Guards, EndRequest(g) PROVE Inv'
  <2>1. VerifiedInTime'  BY <1>8 DEF EndRequest, Inv, TypeOK, VerifiedInTime
  <2>2. AfterIsSettled'  BY <1>8 DEF EndRequest, Inv, TypeOK, AfterIsSettled
  <2>3. OlderTokensStayRevoked'
    BY <1>8 DEF EndRequest, Inv, TypeOK, OlderTokensStayRevoked
  <2> QED  BY <1>1, <2>1, <2>2, <2>3 DEF Inv
<1>9. CASE UNCHANGED vars  BY <1>1, <1>9, GuardUntouched DEF vars, Inv
<1> QED  BY <1>2, <1>3, <1>4, <1>5, <1>6, <1>7, <1>8, <1>9 DEF Next

-----------------------------------------------------------------------------
(* The inductive invariant holds in every reachable state. *)
THEOREM InvAlways == Spec => []Inv
<1>1. Init => Inv  BY InvInit
<1>2. Inv /\ [Next]_vars => Inv'  BY InvNext
<1> QED  BY <1>1, <1>2, PTL DEF Spec

(* Types, for any number of issuers and requests. *)
THEOREM TypeCorrect == Spec => []TypeOK
<1>1. Inv => TypeOK  BY DEF Inv
<1> QED  BY <1>1, InvAlways, PTL

(***************************************************************************)
(* What the blocklist guarantees, for every TTL, skew and interleaving of  *)
(* issuers, the revocation and the guard: a token older than the entry, by *)
(* the skew and the guard's delay, is never accepted again.                *)
(***************************************************************************)
THEOREM OlderTokensStayRevokedAlways == Spec => []OlderTokensStayRevoked
<1>1. Inv => OlderTokensStayRevoked  BY DEF Inv
<1> QED  BY <1>1, InvAlways, PTL

-----------------------------------------------------------------------------
(* Refresh-token rotation.                                                 *)

(* The tokens form one chain: token i is of generation i, and only the     *)
(* newest may be active.                                                   *)
OneChain ==
  \A i \in Ids :
    /\ tokens[i].gen = i
    /\ tokens[i].status = "active" => i = Cardinality(Ids)

(* Whoever holds the lock of a row holds the one of the active token.      *)
LockHeld ==
  \A r \in Requests :
    step[r] = "insert" =>
      /\ tokens[shown[r]].status = "active"
      /\ Cardinality(Ids) < MaxTokens
      /\ \A q \in Requests : step[q] = "insert" => q = r

(* What a request carries from one await to the next: a token of the       *)
(* family, an attempt that is left, the successor that it wrote or found.  *)
RequestFits(r) ==
  /\ step[r] # "idle" => shown[r] \in Ids
  /\ step[r] = "grace" => left[r] >= 1
  /\ step[r] \in {"touch", "put"} => pair[r] \in Ids /\ pair[r] = shown[r] + 1
  /\ step[r] = "replay" => hit[r] \in Ids /\ hit[r] = shown[r] + 1
  /\ step[r] # "done" => outcome[r] = "none"
  /\ stale[r] => /\ family = "revoked"
                 /\ step[r] \in {"token", "family", "done"}
                 /\ outcome[r] # "ok"

(* The grace cache and the answers name the next token of the chain.       *)
OneSuccessor ==
  \A i \in 1 .. MaxTokens :
    /\ grace[i] # NoRefresh => i \in Ids /\ grace[i] \in Ids /\ grace[i] = i + 1
    /\ \A j \in answers[i] : i \in Ids /\ j \in Ids /\ j = i + 1

(* Between the family's revocation and the session's, the request that     *)
(* does both is under way or has died.                                     *)
ClosingGoesOn ==
  family = "revoked" =>
    \/ sessionRow = "revoked"
    \/ failures > 0
    \/ \E r \in Requests : step[r] = "revokeSession"

RefreshInv ==
  /\ RefreshTypeOK
  /\ Cardinality(Ids) \in Nat
  /\ OneChain
  /\ LockHeld
  /\ \A r \in Requests : RequestFits(r)
  /\ OneSuccessor
  /\ ClosingGoesOn

-----------------------------------------------------------------------------
(* The demo account.                                                       *)

DemoTyped ==
  /\ minute \in Nat
  /\ seeded \in Nat \cup {NotYet}
  /\ resolution \in [user : BOOLEAN, resolvedAt : Nat] \cup {NotYet}
  /\ visit \in [Visitors -> [step : {"idle", "asked", "found", "refused", "passed"},
                             start : Nat, found : BOOLEAN]]

(* A lookup that found no account began before there was one; so did the   *)
(* one that the cached answer is of.                                       *)
LookupsAreOld ==
  seeded # NotYet =>
    /\ seeded <= minute
    /\ (resolution # NotYet /\ ~resolution.user) => resolution.resolvedAt <= seeded
    /\ \A v \in Visitors :
         (visit[v].step = "found" /\ ~visit[v].found) => visit[v].start <= seeded

DemoInv ==
  /\ DemoTyped
  /\ resolution # NotYet => resolution.resolvedAt <= minute
  /\ \A v \in Visitors : visit[v].start <= minute
  /\ LookupsAreOld
  /\ DemoLockTakesHold

-----------------------------------------------------------------------------
(* The seed.                                                               *)

SeedTyped ==
  /\ personalOrgs \subseteq Seeders
  /\ deaths \in Nat /\ abandoned \in BOOLEAN
  /\ seeder \in [Seeders -> [step : {"off", "save", "org", "provision", "write",
                                     "applied", "already", "failed"},
                             found : BOOLEAN, next : Nat]]

(* The writes begin with the organization, and the run that created it     *)
(* makes them in order.                                                    *)
OneWriter ==
  /\ \A s, q \in personalOrgs : s = q
  /\ personalOrgs = {} => content = {}
  /\ \A s \in Seeders :
       /\ seeder[s].step \in {"off", "save", "org", "provision"} => seeder[s].next = 1
       /\ seeder[s].step = "write" =>
            /\ s \in personalOrgs
            /\ seeder[s].next \in 1 .. SeedWrites
            /\ content = 1 .. seeder[s].next - 1
       /\ seeder[s].step \in {"applied", "already"} => personalOrgs # {}

(* An organization is complete, or being completed, or was abandoned.      *)
NothingLeftHalf ==
  personalOrgs # {} =>
    \/ content = 1 .. SeedWrites
    \/ abandoned
    \/ \E q \in Seeders : seeder[q].step = "write"

SeedInv == SeedTyped /\ OneWriter /\ NothingLeftHalf

-----------------------------------------------------------------------------
(* Enforcement.                                                            *)

EnforcementTyped ==
  /\ allows \in BOOLEAN
  /\ route \in [Guards -> Routes \cup {NoRoute}]
  /\ role \in [Guards -> Roles]
  /\ zookie \in [Guards -> Zookies]
  /\ stage \in [Guards -> {"idle", "sent", "answered", "decided", "done"}]
  /\ reply \in [Guards -> {"none", "401", "400", "403", "404", "500", "503", "ok", "ran",
                           "permit", "deny", "no_org_context", "consistency_unavailable",
                           "unauthenticated", "pdp_unavailable"}]
  /\ seen \in [Guards -> SUBSET BOOLEAN]
  /\ fault \in [Guards -> BOOLEAN]

(* A request that is under way has seen the present decision.              *)
UnderWay(g) == stage[g] \notin {"idle", "done"} => allows \in seen[g]

(* A permit on its way to the caller was given to an accepted token, in a  *)
(* store that had reached the consistency token.                           *)
PermitIsEarned(g) ==
  reply[g] \in {"permit", "ran"} =>
    TRUE \in seen[g] /\ role[g] # "none" /\ zookie[g] # "ahead" /\ guard[g] = "accepted"

(* What a reply to, or a decision of, the SDK client says of the request.  *)
ReplyHasCause(g, r, failed) ==
  /\ r = "deny" => FALSE \in seen[g] /\ role[g] # "none" /\ zookie[g] # "ahead"
  /\ r = "consistency_unavailable" => role[g] # "none" /\ zookie[g] # "met"
  /\ r = "no_org_context" => role[g] = "none"
  /\ r = "pdp_unavailable" => failed
  /\ (r \in {"400", "503"} /\ route[g] = "sdk") => failed
  /\ (r = "403" /\ route[g] = "sdk") => FALSE \in seen[g] \/ role[g] = "none" \/ zookie[g] # "met"

FromApi == {"401", "400", "503", "permit"} \cup Denials
FromClient == {"unauthenticated", "pdp_unavailable", "permit"} \cup Denials

(* What the reply of a stage says of the request.                          *)
ReplyFits(g) ==
  /\ stage[g] \in {"idle", "sent"} => reply[g] = "none"
  /\ stage[g] = "answered" => reply[g] \in FromApi
  /\ stage[g] = "decided" => reply[g] \in FromClient
  /\ ReplyHasCause(g, reply[g], fault[g])
  /\ stage[g] \in {"answered", "decided"} => route[g] = "sdk"

CallsFit ==
  /\ EnforcementTyped
  /\ \A g \in Guards : UnderWay(g) /\ PermitIsEarned(g) /\ ReplyFits(g)

EnforcementInv == Inv /\ CallsFit

-----------------------------------------------------------------------------
(* The browser tab.                                                        *)

Replies == {"none", "ok", "401", "error", "unavailable", "on", "off"}

(* The shape of what the tab keeps; what a token or a flag is made of does *)
(* not matter here.                                                        *)
FlightTyped(f) ==
  f \in [id : {f.id}, op : Operations \cup {"status", "render", "logout"}, mount : Nat,
         token : {f.token}, reply : Replies, data : Nat]

PanelTyped ==
  panel \in [mount : Nat, status : {panel.status}, enrolling : {panel.enrolling},
             codes : Nat, busy : {panel.busy}, steppedUp : {panel.steppedUp}]

FactorTyped == mfa \in [on : {mfa.on}, pending : {mfa.pending}, batch : Nat]

ConsoleTyped == FactorTyped /\ PanelTyped /\ \A f \in flights : FlightTyped(f)

(* An operation that the mounted panel waits for.                          *)
Pending(f) == f.op \in Operations /\ Waited(f)

(* A panel waits for one operation at a time and shows no codes meanwhile; *)
(* codes that are on their way to it are the newest ones.                  *)
OneAtATime ==
  /\ page = "panel" => panel.mount > 0
  /\ \A f \in flights :
       /\ f.mount <= panel.mount
       /\ Pending(f) =>
            /\ panel.busy
            /\ panel.codes = 0
            /\ \A g \in flights : Pending(g) => g = f
            /\ (f.op \in {"activate", "regenerate"} /\ f.reply \in {"ok", "on", "off"}) =>
                 (f.data = mfa.batch \/ stray)

ConsoleInv == ConsoleTyped /\ OneAtATime /\ ShownCodesWork

-----------------------------------------------------------------------------
(* The refresh tokens' invariant holds when the login has committed. *)
LEMMA RefreshInitially == RefreshInit => RefreshInv
<1> SUFFICES ASSUME RefreshInit PROVE RefreshInv
  OBVIOUS
<1>1. Ids = 1 .. 1 /\ Cardinality(Ids) = 1
  <2>1. Ids = {1}  BY DEF RefreshInit, Ids
  <2> QED  BY <2>1, FS_Singleton
<1>2. RefreshTypeOK
  <2> USE RefreshAssumption DEF RefreshInit
  <2>1. \A i \in Ids : tokens[i] = [gen |-> 1, status |-> "active"]  BY <1>1
  <2>2. \A i \in Ids : tokens[i] \in [gen : 1 .. MaxTokens,
                                      status : {"active", "rotated", "revoked"}]
    BY <2>1
  <2>3. grace \in [1 .. MaxTokens -> 1 .. MaxTokens \cup {NoRefresh}]
    OBVIOUS
  <2>4. answers \in [1 .. MaxTokens -> SUBSET (1 .. MaxTokens)]
    OBVIOUS
  <2>5. left \in [Requests -> 0 .. RaceRetries] /\ failures \in 0 .. MaxFailures
    OBVIOUS
  <2>6. /\ shown \in [Requests -> 1 .. MaxTokens \cup {NoRefresh}]
        /\ hit \in [Requests -> 1 .. MaxTokens \cup {NoRefresh}]
        /\ pair \in [Requests -> 1 .. MaxTokens \cup {NoRefresh}]
        /\ scanned \in [Requests -> SUBSET (1 .. MaxTokens)]
    OBVIOUS
  <2>7. /\ step = [r \in Requests |-> "idle"] /\ late = [r \in Requests |-> FALSE]
        /\ found = [r \in Requests |-> "none"] /\ outcome = [r \in Requests |-> "none"]
        /\ stale = [r \in Requests |-> FALSE]
        /\ family = "active" /\ sessionRow = "active" /\ expired = FALSE
    OBVIOUS
  <2>8. Ids = 1 .. Cardinality(Ids) /\ Cardinality(Ids) <= MaxTokens
    BY <1>1
  <2> HIDE DEF RefreshInit
  <2> QED  BY <2>2, <2>3, <2>4, <2>5, <2>6, <2>7, <2>8 DEF RefreshTypeOK
<1>3. OneChain  BY <1>1 DEF RefreshInit, OneChain
<1>4. LockHeld /\ ClosingGoesOn  BY DEF RefreshInit, LockHeld, ClosingGoesOn
<1>5. \A r \in Requests : RequestFits(r)  BY DEF RefreshInit, RequestFits
<1>6. OneSuccessor  BY DEF RefreshInit, OneSuccessor
<1> QED  BY <1>1, <1>2, <1>3, <1>4, <1>5, <1>6 DEF RefreshInv

(* A rotation that commits adds the next token and retires the presented   *)
(* one, the only active one.                                               *)
LEMMA Rotated ==
  ASSUME RefreshInv, NEW r \in Requests, RotateCommit(r)
  PROVE  LET n == Cardinality(Ids) IN
         /\ shown[r] = n
         /\ Ids' = 1 .. n + 1 /\ Cardinality(Ids)' = n + 1
         /\ tokens'[n + 1].gen = n + 1 /\ tokens'[n + 1].status = "active"
         /\ \A i \in Ids : tokens'[i].gen = tokens[i].gen
         /\ tokens'[n].status = "rotated"
         /\ \A i \in Ids : i # n => tokens'[i].status = tokens[i].status
<1> DEFINE n == Cardinality(Ids)
<1>1. n \in Nat /\ Ids = 1 .. n  BY DEF RefreshInv, RefreshTypeOK
<1>2. step[r] = "insert"  BY DEF RotateCommit
<1>3. shown[r] \in Ids  BY <1>2 DEF RefreshInv, RequestFits
<1>4. shown[r] = n /\ tokens[n].gen = n
  BY <1>2, <1>3 DEF RefreshInv, LockHeld, OneChain
<1>5. tokens' = [i \in 1 .. n + 1 |->
        IF i = n + 1 THEN [gen |-> n + 1, status |-> "active"]
        ELSE IF i = n THEN [tokens[i] EXCEPT !.status = "rotated"]
        ELSE tokens[i]]
  <2>1. Ids \cup {n + 1} = 1 .. n + 1  BY <1>1
  <2> QED  BY <1>4, <2>1 DEF RotateCommit
<1>6. Ids' = 1 .. n + 1  BY <1>5 DEF Ids
<1>7. Cardinality(Ids)' = n + 1
  <2>1. Cardinality(1 .. n + 1) = (n + 1) - 1 + 1  BY <1>1, FS_Interval
  <2> QED  BY <1>1, <1>6, <2>1
<1>8. \A i \in Ids : tokens[i] \in [gen : 1 .. MaxTokens,
                                    status : {"active", "rotated", "revoked"}]
  BY DEF RefreshInv, RefreshTypeOK
<1> HIDE DEF n
<1>9. tokens'[n + 1] = [gen |-> n + 1, status |-> "active"]  BY <1>1, <1>5
<1>10. \A i \in Ids : i # n => tokens'[i] = tokens[i]  BY <1>1, <1>5
<1>11. tokens'[n] = [tokens[n] EXCEPT !.status = "rotated"]  BY <1>1, <1>3, <1>4, <1>5
<1>12. tokens'[n].status = "rotated" /\ tokens'[n].gen = tokens[n].gen
  BY <1>3, <1>4, <1>8, <1>11
<1> QED  BY <1>4, <1>6, <1>7, <1>9, <1>10, <1>12 DEF n

(* A revocation by reuse revokes what it scanned, which no rotation has    *)
(* locked, and leaves the other tokens as they are.                        *)
LEMMA Revoked ==
  ASSUME RefreshInv, NEW r \in Requests, RevokeCommit(r)
  PROVE  /\ Ids' = Ids /\ Cardinality(Ids)' = Cardinality(Ids)
         /\ \A i \in Ids : tokens'[i].gen = tokens[i].gen
         /\ \A i \in scanned[r] \cap Ids : tokens'[i].status = "revoked"
         /\ \A i \in Ids \ scanned[r] : tokens'[i].status = tokens[i].status
         /\ \A q \in Requests : step[q] = "insert" => shown[q] \in Ids \ scanned[r]
<1>1. tokens' = [i \in Ids |->
        IF i \in scanned[r] THEN [tokens[i] EXCEPT !.status = "revoked"] ELSE tokens[i]]
  BY DEF RevokeCommit
<1>2. Ids' = Ids  BY <1>1 DEF Ids
<1>3. \A i \in Ids : tokens[i] \in [gen : 1 .. MaxTokens,
                                    status : {"active", "rotated", "revoked"}]
  BY DEF RefreshInv, RefreshTypeOK
<1>4. \A q \in Requests : step[q] = "insert" => shown[q] \in Ids \ scanned[r]
  BY DEF RevokeCommit, RowLocked, RefreshInv, RequestFits
<1>5. \A i \in Ids \ scanned[r] : tokens'[i] = tokens[i]  BY <1>1
<1>6. ASSUME NEW i \in scanned[r] \cap Ids
      PROVE  tokens'[i].gen = tokens[i].gen /\ tokens'[i].status = "revoked"
  <2>1. tokens'[i] = [tokens[i] EXCEPT !.status = "revoked"]  BY <1>1
  <2> QED  BY <1>3, <2>1
<1> QED  BY <1>2, <1>4, <1>5, <1>6

(* Every step keeps the types and the number of tokens in bounds.          *)
LEMMA RefreshTypeNext ==
  ASSUME RefreshInv, [RefreshNext]_refreshVars
  PROVE  RefreshTypeOK' /\ (Cardinality(Ids) \in Nat)'
<1> USE RefreshAssumption
<1> DEFINE Steps == {"idle", "token", "family", "session", "rotate", "insert", "touch",
                     "put", "grace", "replay", "reuse", "revoke", "revokeSession",
                     "blocklist", "done"}
<1>1. RefreshTypeOK /\ Cardinality(Ids) \in Nat /\ Ids \subseteq 1 .. MaxTokens
  BY DEF RefreshInv, RefreshTypeOK
<1>0. /\ step \in [Requests -> Steps] /\ left \in [Requests -> 0 .. RaceRetries]
      /\ hit \in [Requests -> 1 .. MaxTokens \cup {NoRefresh}]
      /\ outcome \in [Requests -> {"none", "ok", "invalid", "reuse"}]
      /\ pair \in [Requests -> 1 .. MaxTokens \cup {NoRefresh}]
      /\ answers \in [1 .. MaxTokens -> SUBSET (1 .. MaxTokens)]
      /\ grace \in [1 .. MaxTokens -> 1 .. MaxTokens \cup {NoRefresh}]
  BY DEF RefreshInv, RefreshTypeOK
<1>2. ASSUME UNCHANGED tokens
      PROVE  Ids' = Ids /\ Cardinality(Ids)' = Cardinality(Ids)
  BY <1>2 DEF Ids
<1>3. CASE \E r \in Requests, i \in Ids : Present(r, i)
  BY <1>1, <1>2, <1>3 DEF Present, Goto, RefreshTypeOK
<1>4. ASSUME NEW r \in Requests, FindToken(r) PROVE RefreshTypeOK'
  <2>1. shown[r] \in Ids  BY <1>4 DEF FindToken, RefreshInv, RequestFits
  <2>2. tokens[shown[r]].status \in {"active", "rotated", "revoked"}
    BY <1>1, <2>1 DEF RefreshTypeOK
  <2> QED  BY <1>1, <1>2, <1>4, <2>2 DEF FindToken, Goto, RefuseRefresh, RefreshTypeOK
<1>5. CASE \E r \in Requests : FindFamily(r)
  BY <1>1, <1>2, <1>5 DEF FindFamily, Goto, RefuseRefresh, RefreshTypeOK
<1>6. ASSUME NEW r \in Requests, FindSessionRow(r) PROVE RefreshTypeOK'
  <2>1. step' \in [Requests -> Steps]
    BY <1>0, <1>6 DEF FindSessionRow, Goto, RefuseRefresh
  <2>2. left' \in [Requests -> 0 .. RaceRetries]
    <3>1. left' = left \/ left' = [left EXCEPT ![r] = 1]  BY <1>6 DEF FindSessionRow
    <3>2. 1 \in 0 .. RaceRetries  OBVIOUS
    <3> QED  BY <1>0, <3>1, <3>2
  <2>3. outcome' \in [Requests -> {"none", "ok", "invalid", "reuse"}]
    BY <1>0, <1>6 DEF FindSessionRow, RefuseRefresh
  <2>4. UNCHANGED <<tokens, family, sessionRow, expired, grace, shown, late, found,
                    hit, scanned, pair, stale, answers, failures>>
    BY <1>6 DEF FindSessionRow
  <2> QED  BY <1>1, <1>2, <2>1, <2>2, <2>3, <2>4 DEF RefreshTypeOK, Steps
<1>7. ASSUME NEW r \in Requests, RotateUpdate(r) PROVE RefreshTypeOK'
  <2>1. step' \in [Requests -> Steps]
    BY <1>0, <1>7 DEF RotateUpdate, Goto
  <2>2. left' \in [Requests -> 0 .. RaceRetries]
    <3>1. left' = left \/ left' = [left EXCEPT ![r] = RaceRetries]  BY <1>7 DEF RotateUpdate
    <3>2. RaceRetries \in 0 .. RaceRetries  OBVIOUS
    <3> QED  BY <1>0, <3>1, <3>2
  <2>3. UNCHANGED <<tokens, family, sessionRow, expired, grace, shown, late, found,
                    hit, scanned, outcome, pair, stale, answers, failures>>
    BY <1>7 DEF RotateUpdate
  <2> QED  BY <1>1, <1>2, <2>1, <2>2, <2>3 DEF RefreshTypeOK, Steps
<1>8. ASSUME NEW r \in Requests, RotateCommit(r)
      PROVE  RefreshTypeOK' /\ (Cardinality(Ids) \in Nat)'
  <2> DEFINE n == Cardinality(Ids)
  <2>1. n \in Nat /\ n < MaxTokens /\ Ids = 1 .. n
    BY <1>1, <1>8 DEF RotateCommit, RefreshInv, LockHeld, RefreshTypeOK
  <2>2. Ids' = 1 .. n + 1 /\ Cardinality(Ids)' = n + 1  BY <1>8, Rotated
  <2>3. pair' = [pair EXCEPT ![r] = n + 1] /\ step' = [step EXCEPT ![r] = "touch"]
    BY <1>8 DEF RotateCommit, Goto
  <2>4. \A i \in Ids' : tokens'[i] \in [gen : 1 .. MaxTokens,
                                        status : {"active", "rotated", "revoked"}]
    <3>1. shown[r] = n  BY <1>8, Rotated
    <3>2. tokens[shown[r]].gen = n
      BY <1>8, <2>1, <3>1 DEF RotateCommit, RefreshInv, RequestFits, OneChain
    <3>3. tokens'[n + 1] = [gen |-> n + 1, status |-> "active"]
      BY <1>8, <2>1, <3>2 DEF RotateCommit
    <3>4. ASSUME NEW i \in Ids
          PROVE  tokens'[i] \in {[tokens[i] EXCEPT !.status = "rotated"], tokens[i]}
      BY <1>8, <2>1 DEF RotateCommit
    <3>5. ASSUME NEW i \in Ids
          PROVE  tokens'[i] \in [gen : 1 .. MaxTokens,
                                 status : {"active", "rotated", "revoked"}]
      BY <1>1, <3>4 DEF RefreshTypeOK
    <3>6. Ids' = Ids \cup {n + 1}  BY <2>1, <2>2
    <3> QED  BY <2>1, <3>3, <3>5, <3>6
  <2> HIDE DEF n
  <2>5. UNCHANGED <<family, sessionRow, expired, grace, shown, late, found, left,
                    hit, scanned, outcome, stale, answers, failures>>
    BY <1>8 DEF RotateCommit
  <2>6. Ids' = 1 .. Cardinality(Ids)' /\ Cardinality(Ids)' <= MaxTokens
    BY <2>1, <2>2
  <2> QED  BY <1>1, <2>1, <2>2, <2>3, <2>4, <2>5, <2>6 DEF RefreshTypeOK
<1>9. CASE \E r \in Requests : Touch(r)
  BY <1>1, <1>2, <1>9 DEF Touch, Goto, RefreshTypeOK
<1>10. ASSUME NEW r \in Requests, PutGrace(r) PROVE RefreshTypeOK'
  <2>1. pair[r] \in 1 .. MaxTokens /\ shown[r] \in 1 .. MaxTokens
    BY <1>1, <1>10 DEF PutGrace, RefreshInv, RequestFits
  <2> QED  BY <1>1, <1>2, <1>10, <2>1 DEF PutGrace, Grant, Goto, RefreshTypeOK
<1>11. ASSUME NEW r \in Requests, GraceGet(r) PROVE RefreshTypeOK'
  <2>1. shown[r] \in 1 .. MaxTokens /\ left[r] >= 1
    BY <1>1, <1>11 DEF GraceGet, RefreshInv, RequestFits
  <2>2. left' \in [Requests -> 0 .. RaceRetries]
    <3>1. left' = left \/ (left[r] # 1 /\ left' = [left EXCEPT ![r] = left[r] - 1])
      BY <1>11 DEF GraceGet, LastAttempt
    <3>2. left[r] - 1 \in 0 .. RaceRetries  BY <1>0, <2>1
    <3> QED  BY <1>0, <3>1, <3>2
  <2>3. hit' \in [Requests -> 1 .. MaxTokens \cup {NoRefresh}]
    BY <1>0, <1>11, <2>1 DEF GraceGet
  <2>4. step' \in [Requests -> Steps]
    BY <1>0, <1>11 DEF GraceGet, Goto
  <2>5. UNCHANGED <<tokens, family, sessionRow, expired, grace, shown, late, found,
                    scanned, outcome, pair, stale, answers, failures>>
    BY <1>11 DEF GraceGet
  <2> QED  BY <1>1, <1>2, <2>2, <2>3, <2>4, <2>5 DEF RefreshTypeOK, Steps
<1>12. ASSUME NEW r \in Requests, Replay(r) PROVE RefreshTypeOK'
  <2>1. hit[r] \in 1 .. MaxTokens /\ shown[r] \in 1 .. MaxTokens
    BY <1>1, <1>12 DEF Replay, RefreshInv, RequestFits
  <2>2. pair' \in [Requests -> 1 .. MaxTokens \cup {NoRefresh}]
    BY <1>0, <1>12, <2>1 DEF Replay, Grant
  <2>3. answers' \in [1 .. MaxTokens -> SUBSET (1 .. MaxTokens)]
    <3>1. answers' = answers \/ answers' = [answers EXCEPT ![shown[r]] = @ \cup {hit[r]}]
      BY <1>12 DEF Replay, Grant
    <3>2. answers[shown[r]] \cup {hit[r]} \in SUBSET (1 .. MaxTokens)  BY <1>0, <2>1
    <3>3. [answers EXCEPT ![shown[r]] = @ \cup {hit[r]}]
            = [answers EXCEPT ![shown[r]] = answers[shown[r]] \cup {hit[r]}]
      BY <1>0, <2>1, Zenon
    <3> QED  BY <1>0, <2>1, <3>1, <3>2, <3>3
  <2>4. outcome' \in [Requests -> {"none", "ok", "invalid", "reuse"}]
    BY <1>0, <1>12 DEF Replay, Grant
  <2>5. step' \in [Requests -> Steps]
    BY <1>0, <1>12 DEF Replay, Grant, Goto
  <2>6. UNCHANGED <<tokens, family, sessionRow, expired, grace, shown, late, found,
                    left, hit, scanned, stale, failures>>
    BY <1>12 DEF Replay
  <2> QED  BY <1>1, <1>2, <2>2, <2>3, <2>4, <2>5, <2>6 DEF RefreshTypeOK, Steps
<1>13. CASE \E r \in Requests : RevokeScan(r)
  BY <1>1, <1>2, <1>13 DEF RevokeScan, Goto, RefreshTypeOK
<1>14. ASSUME NEW r \in Requests, RevokeCommit(r)
       PROVE  RefreshTypeOK' /\ (Cardinality(Ids) \in Nat)'
  <2>1. Ids' = Ids /\ Cardinality(Ids)' = Cardinality(Ids)  BY <1>14, Revoked
  <2>2. ASSUME NEW i \in Ids
        PROVE  tokens'[i] \in {[tokens[i] EXCEPT !.status = "revoked"], tokens[i]}
    BY <1>14 DEF RevokeCommit
  <2>3. \A i \in Ids : tokens'[i] \in [gen : 1 .. MaxTokens,
                                       status : {"active", "rotated", "revoked"}]
    BY <1>1, <2>2 DEF RefreshTypeOK
  <2>4. step' = [step EXCEPT ![r] = "revokeSession"] /\ family' = "revoked"
    BY <1>14 DEF RevokeCommit, Goto
  <2>5. UNCHANGED <<sessionRow, expired, grace, shown, late, found, left, hit, scanned,
                    outcome, pair, stale, answers, failures>>
    BY <1>14 DEF RevokeCommit
  <2> QED  BY <1>1, <2>1, <2>3, <2>4, <2>5 DEF RefreshTypeOK
<1>15. CASE \E r \in Requests : RevokeSessionRow(r)
  BY <1>1, <1>2, <1>15 DEF RevokeSessionRow, Goto, RefreshTypeOK
<1>16. CASE \E r \in Requests : RevokeAccess(r)
  BY <1>1, <1>2, <1>16 DEF RevokeAccess, RefuseRefresh, Goto, RefreshTypeOK
<1>17. CASE \E r \in Requests : End(r)
  BY <1>1, <1>2, <1>17 DEF End, Forget, Goto, RefreshTypeOK
<1>18. CASE \E r \in Requests : Fail(r)
  BY <1>1, <1>2, <1>18 DEF Fail, Forget, Goto, RefreshTypeOK
<1>19. CASE \E i \in 1 .. MaxTokens : GraceExpires(i)
  BY <1>1, <1>2, <1>19 DEF GraceExpires, requestVars, RefreshTypeOK
<1>20. CASE SessionExpires
  BY <1>1, <1>2, <1>20 DEF SessionExpires, requestVars, RefreshTypeOK
<1>21. CASE Terminate
  BY <1>1, <1>2, <1>21 DEF Terminate, requestVars, RefreshTypeOK
<1>22. CASE UNCHANGED refreshVars
  BY <1>1, <1>2, <1>22 DEF refreshVars, RefreshTypeOK
<1>23. ASSUME UNCHANGED tokens
       PROVE  (Cardinality(Ids) \in Nat)'
  BY <1>1, <1>2, <1>23
<1>24. ASSUME NEW r \in Requests, RequestStep(r)
       PROVE  RefreshTypeOK'
  BY <1>4, <1>5, <1>6, <1>7, <1>8, <1>9, <1>10, <1>11, <1>12, <1>13, <1>14, <1>15,
     <1>16, <1>17, <1>24 DEF RequestStep
<1>25. RefreshTypeOK'
  BY <1>3, <1>18, <1>19, <1>20, <1>21, <1>22, <1>24 DEF RefreshNext
<1>26. \/ UNCHANGED tokens
       \/ \E r \in Requests : RotateCommit(r) \/ RevokeCommit(r)
  BY DEF RefreshNext, RequestStep, refreshVars, Present, FindToken, FindFamily,
         FindSessionRow, RotateUpdate, Touch, PutGrace, GraceGet, Replay, RevokeScan,
         RevokeSessionRow, RevokeAccess, End, Fail, GraceExpires, SessionExpires, Terminate
<1> QED  BY <1>8, <1>14, <1>23, <1>25, <1>26

(* The functions of the requests.                                          *)
LEMMA RequestTypes ==
  ASSUME RefreshInv
  PROVE  /\ step = [q \in Requests |-> step[q]] /\ shown = [q \in Requests |-> shown[q]]
         /\ left = [q \in Requests |-> left[q]] /\ hit = [q \in Requests |-> hit[q]]
         /\ outcome = [q \in Requests |-> outcome[q]] /\ pair = [q \in Requests |-> pair[q]]
         /\ stale = [q \in Requests |-> stale[q]] /\ found = [q \in Requests |-> found[q]]
         /\ grace = [i \in 1 .. MaxTokens |-> grace[i]]
         /\ answers = [i \in 1 .. MaxTokens |-> answers[i]]
         /\ \A q \in Requests : left[q] \in Nat
BY DEF RefreshInv, RefreshTypeOK

(* Tokens are only added, and a revoked family stays revoked.              *)
LEMMA SharedMoves ==
  ASSUME RefreshInv, [RefreshNext]_refreshVars
  PROVE  Ids \subseteq Ids' /\ (family = "revoked" => family' = "revoked")
<1>1. CASE UNCHANGED tokens /\ (family' = family \/ family' = "revoked")
  BY <1>1 DEF Ids
<1>2. ASSUME NEW r \in Requests, RotateCommit(r)
      PROVE  Ids \subseteq Ids' /\ family' = family
  BY <1>2 DEF RotateCommit, Ids
<1>3. ASSUME NEW r \in Requests, RevokeCommit(r)
      PROVE  Ids \subseteq Ids' /\ family' = "revoked"
  BY <1>3 DEF RevokeCommit, Ids
<1>4. \/ UNCHANGED tokens /\ (family' = family \/ family' = "revoked")
      \/ \E r \in Requests : RotateCommit(r) \/ RevokeCommit(r)
  BY DEF RefreshNext, RequestStep, refreshVars, Present, FindToken, FindFamily,
         FindSessionRow, RotateUpdate, Touch, PutGrace, GraceGet, Replay, RevokeScan,
         RevokeSessionRow, RevokeAccess, End, Fail, GraceExpires, SessionExpires, Terminate
<1> QED  BY <1>1, <1>2, <1>3, <1>4

(* What a request carries fits as long as the request does not move.       *)
LEMMA OtherRequestFits ==
  ASSUME NEW q, RequestFits(q), Ids \subseteq Ids',
         family = "revoked" => family' = "revoked",
         UNCHANGED <<step[q], shown[q], left[q], hit[q], outcome[q], pair[q], stale[q]>>
  PROVE  RequestFits(q)'
BY DEF RequestFits

(* Every step of a request leaves the others alone, and what it carries    *)
(* itself fits.                                                            *)
LEMMA RequestFitsNext ==
  ASSUME RefreshInv, [RefreshNext]_refreshVars, NEW q \in Requests
  PROVE  RequestFits(q)'
<1> USE RefreshAssumption
<1>1. Ids \subseteq Ids' /\ (family = "revoked" => family' = "revoked")  BY SharedMoves
<1>2. RequestFits(q) /\ Ids \subseteq 1 .. MaxTokens
  BY DEF RefreshInv, RefreshTypeOK
<1>3. ASSUME NEW r \in Requests, NEW i \in Ids, Present(r, i) PROVE RequestFits(q)'
  <2>1. CASE q = r  BY <1>1, <1>2, <1>3, <2>1, RequestTypes DEF Present, Goto, RequestFits
  <2>2. CASE q # r
    BY <1>1, <1>2, <1>3, <2>2, OtherRequestFits, RequestTypes DEF Present, Goto
  <2> QED  BY <2>1, <2>2
<1>4. ASSUME NEW r \in Requests, RequestStep(r) \/ Fail(r), q # r PROVE RequestFits(q)'
  <2>1. UNCHANGED <<step[q], shown[q], left[q], hit[q], outcome[q], pair[q], stale[q]>>
    BY <1>4, RequestTypes
    DEF RequestStep, FindToken, FindFamily, FindSessionRow, RotateUpdate, RotateCommit, Touch,
        PutGrace, GraceGet, Replay, RevokeScan, RevokeCommit, RevokeSessionRow, RevokeAccess,
        End, Fail, Forget, Goto, RefuseRefresh, Grant
  <2> QED  BY <1>1, <1>2, <2>1, OtherRequestFits
<1>5. CASE FindToken(q) \/ FindFamily(q) \/ FindSessionRow(q)
  BY <1>1, <1>2, <1>5, RequestTypes
  DEF FindToken, FindFamily, FindSessionRow, FamilyGone, Goto, RefuseRefresh, RequestFits
<1>6. CASE RotateUpdate(q)
  BY <1>1, <1>2, <1>6, RequestTypes DEF RotateUpdate, Goto, RequestFits
<1>7. CASE RotateCommit(q)
  <2> DEFINE n == Cardinality(Ids)
  <2>1. shown[q] = n /\ Ids' = 1 .. n + 1 /\ n \in Nat
    BY <1>7, Rotated DEF RefreshInv
  <2>2. /\ pair' = [pair EXCEPT ![q] = n + 1] /\ step' = [step EXCEPT ![q] = "touch"]
        /\ step[q] = "insert" /\ UNCHANGED <<shown, outcome, stale, family>>
    BY <1>7 DEF RotateCommit, Goto
  <2> HIDE DEF n
  <2> QED  BY <1>1, <1>2, <2>1, <2>2, RequestTypes DEF RequestFits
<1>8. CASE Touch(q) \/ PutGrace(q)
  BY <1>1, <1>2, <1>8, RequestTypes DEF Touch, PutGrace, Grant, Goto, RequestFits
<1>9. CASE GraceGet(q)
  <2>1. shown[q] \in 1 .. MaxTokens /\ left[q] \in Nat /\ left[q] >= 1
    BY <1>2, <1>9, RequestTypes DEF GraceGet, RequestFits
  <2>2. grace[shown[q]] # NoRefresh =>
          grace[shown[q]] \in Ids /\ grace[shown[q]] = shown[q] + 1
    BY <2>1 DEF RefreshInv, OneSuccessor
  <2> QED  BY <1>1, <1>2, <1>9, <2>1, <2>2, RequestTypes
           DEF GraceGet, LastAttempt, Goto, RequestFits
<1>10. CASE Replay(q)
  BY <1>1, <1>2, <1>10, RequestTypes DEF Replay, Grant, Goto, RequestFits
<1>11. CASE RevokeScan(q) \/ RevokeCommit(q) \/ RevokeSessionRow(q) \/ RevokeAccess(q)
  BY <1>1, <1>2, <1>11, RequestTypes
  DEF RevokeScan, RevokeCommit, RevokeSessionRow, RevokeAccess, RefuseRefresh, Goto, RequestFits
<1>12. CASE End(q) \/ Fail(q)
  BY <1>1, <1>2, <1>12, RequestTypes DEF End, Fail, Forget, Goto, RequestFits
<1>13. CASE \/ \E i \in 1 .. MaxTokens : GraceExpires(i)
            \/ SessionExpires
            \/ Terminate
            \/ UNCHANGED refreshVars
  <2>1. UNCHANGED requestVars
    BY <1>13 DEF GraceExpires, SessionExpires, Terminate, refreshVars, requestVars
  <2>2. UNCHANGED <<step[q], shown[q], left[q], hit[q], outcome[q], pair[q], stale[q]>>
    BY <2>1 DEF requestVars
  <2> QED  BY <1>1, <1>2, <2>2, OtherRequestFits
<1>14. ASSUME NEW r \in Requests, RequestStep(r) \/ Fail(r) PROVE RequestFits(q)'
  BY <1>4, <1>5, <1>6, <1>7, <1>8, <1>9, <1>10, <1>11, <1>12, <1>14 DEF RequestStep
<1> QED  BY <1>3, <1>13, <1>14 DEF RefreshNext

(* No rotation is under way once one may begin, so the bound leaves room   *)
(* for its successor.                                                      *)
LEMMA RoomForSuccessor ==
  ASSUME RefreshInv, NEW r \in Requests, RotateUpdate(r), CanRotate(shown[r])
  PROVE  /\ tokens[shown[r]].status = "active"
         /\ Cardinality(Ids) < MaxTokens
         /\ \A q \in Requests : step[q] # "insert"
<1>1. shown[r] \in Ids  BY DEF RotateUpdate, RefreshInv, RequestFits
<1>2. tokens[shown[r]].status = "active" /\ shown[r] = Cardinality(Ids)
  BY <1>1 DEF CanRotate, RefreshInv, OneChain
<1>3. ASSUME NEW q \in Requests, step[q] = "insert" PROVE FALSE
  <2>1. shown[q] \in Ids  BY <1>3 DEF RefreshInv, RequestFits
  <2>2. shown[q] = Cardinality(Ids)
    BY <1>3, <2>1 DEF RefreshInv, LockHeld, OneChain
  <2> QED  BY <1>2, <1>3, <2>2 DEF RotateUpdate, RowLocked
<1>4. Cardinality({q \in Requests : step[q] = "insert"}) = 0
  <2>1. {q \in Requests : step[q] = "insert"} = {}  BY <1>3
  <2> QED  BY <2>1, FS_EmptySet
<1>5. Cardinality(Ids) < MaxTokens
  BY <1>4 DEF RotateUpdate, RefreshInv
<1> QED  BY <1>2, <1>3, <1>5

(* Every step keeps the tokens one chain, with one rotation at a time.     *)
LEMMA ChainNext ==
  ASSUME RefreshInv, [RefreshNext]_refreshVars
  PROVE  (OneChain /\ LockHeld)'
<1>1. ASSUME NEW r \in Requests, RotateCommit(r) PROVE (OneChain /\ LockHeld)'
  <2> DEFINE n == Cardinality(Ids)
  <2>1. n \in Nat /\ Ids = 1 .. n  BY DEF RefreshInv, RefreshTypeOK
  <2>2. /\ shown[r] = n
        /\ Ids' = 1 .. n + 1 /\ Cardinality(Ids)' = n + 1
        /\ tokens'[n + 1].gen = n + 1 /\ tokens'[n + 1].status = "active"
        /\ \A i \in Ids : tokens'[i].gen = tokens[i].gen
        /\ tokens'[n].status = "rotated"
        /\ \A i \in Ids : i # n => tokens'[i].status = tokens[i].status
    BY <1>1, Rotated
  <2>3. \A i \in Ids : tokens[i].gen = i /\ (tokens[i].status = "active" => i = n)
    BY DEF RefreshInv, OneChain
  <2>4. step[r] = "insert" /\ step' = [step EXCEPT ![r] = "touch"]
    BY <1>1 DEF RotateCommit, Goto
  <2>5. \A q \in Requests : step'[q] # "insert"
    BY <2>4, RequestTypes DEF RefreshInv, LockHeld
  <2> HIDE DEF n
  <2>6. \A i \in Ids' : tokens'[i].gen = i /\ (tokens'[i].status = "active" => i = n + 1)
    BY <2>1, <2>2, <2>3
  <2> QED  BY <2>2, <2>5, <2>6 DEF OneChain, LockHeld
<1>2. ASSUME NEW r \in Requests, RevokeCommit(r) PROVE (OneChain /\ LockHeld)'
  <2>1. /\ Ids' = Ids /\ Cardinality(Ids)' = Cardinality(Ids)
        /\ \A i \in Ids : tokens'[i].gen = tokens[i].gen
        /\ \A i \in scanned[r] \cap Ids : tokens'[i].status = "revoked"
        /\ \A i \in Ids \ scanned[r] : tokens'[i].status = tokens[i].status
        /\ \A q \in Requests : step[q] = "insert" => shown[q] \in Ids \ scanned[r]
    BY <1>2, Revoked
  <2>2. step' = [step EXCEPT ![r] = "revokeSession"] /\ shown' = shown
    BY <1>2 DEF RevokeCommit, Goto
  <2>3. OneChain'  BY <2>1 DEF RefreshInv, OneChain
  <2>4. ASSUME NEW q \in Requests, step'[q] = "insert" PROVE step[q] = "insert"
    BY <2>2, <2>4, RequestTypes
  <2> QED  BY <2>1, <2>2, <2>3, <2>4 DEF RefreshInv, LockHeld
<1>3. ASSUME NEW r \in Requests, RotateUpdate(r) PROVE (OneChain /\ LockHeld)'
  <2>1. UNCHANGED <<tokens, shown>> /\ Ids' = Ids  BY <1>3 DEF RotateUpdate, Ids
  <2>2. OneChain'  BY <2>1 DEF RefreshInv, OneChain
  <2>3. CASE CanRotate(shown[r])
    <3>1. step' = [step EXCEPT ![r] = "insert"]
      BY <1>3, <2>3 DEF RotateUpdate, Goto
    <3> QED  BY <1>3, <2>1, <2>2, <2>3, <3>1, RoomForSuccessor, RequestTypes DEF LockHeld
  <2>4. CASE ~CanRotate(shown[r])
    <3>1. step' = [step EXCEPT ![r] = "grace"]
      BY <1>3, <2>4 DEF RotateUpdate, Goto
    <3> QED  BY <2>1, <2>2, <3>1, RequestTypes DEF RefreshInv, LockHeld
  <2> QED  BY <2>3, <2>4
<1>4. ASSUME UNCHANGED tokens,
             \A q \in Requests : step'[q] = "insert" =>
               step[q] = "insert" /\ shown'[q] = shown[q]
      PROVE  (OneChain /\ LockHeld)'
  BY <1>4 DEF RefreshInv, OneChain, LockHeld, Ids
<1>5. ASSUME NEW r \in Requests, NEW i \in Ids, Present(r, i) PROVE (OneChain /\ LockHeld)'
  BY <1>4, <1>5, RequestTypes DEF Present, Goto
<1>6. ASSUME NEW r \in Requests,
             FindToken(r) \/ FindFamily(r) \/ FindSessionRow(r) \/ Touch(r) \/ PutGrace(r)
      PROVE  (OneChain /\ LockHeld)'
  BY <1>4, <1>6, RequestTypes
  DEF FindToken, FindFamily, FindSessionRow, Touch, PutGrace, Goto, RefuseRefresh, Grant
<1>7. ASSUME NEW r \in Requests,
             \/ GraceGet(r) \/ Replay(r) \/ RevokeScan(r)
             \/ RevokeSessionRow(r) \/ RevokeAccess(r)
      PROVE  (OneChain /\ LockHeld)'
  BY <1>4, <1>7, RequestTypes
  DEF GraceGet, Replay, RevokeScan, RevokeSessionRow, RevokeAccess, Goto, RefuseRefresh, Grant
<1>8. ASSUME NEW r \in Requests, End(r) \/ Fail(r) PROVE (OneChain /\ LockHeld)'
  BY <1>4, <1>8, RequestTypes DEF End, Fail, Forget, Goto
<1>9. CASE \/ \E i \in 1 .. MaxTokens : GraceExpires(i)
           \/ SessionExpires
           \/ Terminate
           \/ UNCHANGED refreshVars
  BY <1>4, <1>9 DEF GraceExpires, SessionExpires, Terminate, refreshVars, requestVars
<1> QED  BY <1>1, <1>2, <1>3, <1>5, <1>6, <1>7, <1>8, <1>9 DEF RefreshNext, RequestStep

(* Every step keeps the successors in the grace cache and in the answers.  *)
LEMMA SuccessorNext ==
  ASSUME RefreshInv, [RefreshNext]_refreshVars
  PROVE  OneSuccessor'
<1>1. Ids \subseteq Ids'  BY SharedMoves
<1>2. ASSUME UNCHANGED <<grace, answers>> PROVE OneSuccessor'
  BY <1>1, <1>2 DEF RefreshInv, OneSuccessor
<1>3. ASSUME NEW i \in 1 .. MaxTokens, GraceExpires(i) PROVE OneSuccessor'
  BY <1>1, <1>3, RequestTypes DEF GraceExpires, RefreshInv, OneSuccessor
<1>4. ASSUME NEW i \in Ids, i + 1 \in Ids,
             answers' = answers \/ answers' = [answers EXCEPT ![i] = @ \cup {i + 1}],
             grace' = grace \/ grace' = [grace EXCEPT ![i] = i + 1]
      PROVE  OneSuccessor'
  <2>1. \A k \in 1 .. MaxTokens :
          /\ grace[k] # NoRefresh => k \in Ids /\ grace[k] \in Ids /\ grace[k] = k + 1
          /\ \A j \in answers[k] : k \in Ids /\ j \in Ids /\ j = k + 1
    BY DEF RefreshInv, OneSuccessor
  <2>2. ASSUME NEW k \in 1 .. MaxTokens, grace'[k] # NoRefresh
        PROVE  k \in Ids' /\ grace'[k] \in Ids' /\ grace'[k] = k + 1
    BY <1>1, <1>4, <2>1, <2>2, RequestTypes
  <2>3. ASSUME NEW k \in 1 .. MaxTokens, NEW j \in answers'[k]
        PROVE  k \in Ids' /\ j \in Ids' /\ j = k + 1
    <3>1. answers = [m \in 1 .. MaxTokens |-> answers[m]]  BY RequestTypes
    <3>2. j \in answers[k] \/ (k = i /\ j = i + 1)  BY <1>4, <3>1
    <3> QED  BY <1>1, <1>4, <2>1, <3>2
  <2> QED  BY <2>2, <2>3 DEF OneSuccessor
<1>5. ASSUME NEW r \in Requests, PutGrace(r) \/ Replay(r) PROVE OneSuccessor'
  <2>1. CASE PutGrace(r)
    <3>1. shown[r] \in Ids /\ pair[r] \in Ids /\ pair[r] = shown[r] + 1
      BY <2>1 DEF PutGrace, RefreshInv, RequestFits
    <3> QED  BY <1>4, <2>1, <3>1 DEF PutGrace, Grant
  <2>2. CASE Replay(r)
    <3>1. shown[r] \in Ids /\ hit[r] \in Ids /\ hit[r] = shown[r] + 1
      BY <2>2 DEF Replay, RefreshInv, RequestFits
    <3> QED  BY <1>4, <2>2, <3>1 DEF Replay, Grant
  <2> QED  BY <1>5, <2>1, <2>2
<1>6. \/ UNCHANGED <<grace, answers>>
      \/ \E i \in 1 .. MaxTokens : GraceExpires(i)
      \/ \E r \in Requests : PutGrace(r) \/ Replay(r)
  BY DEF RefreshNext, RequestStep, refreshVars, Present, FindToken, FindFamily,
         FindSessionRow, RotateUpdate, RotateCommit, Touch, GraceGet, RevokeScan, RevokeCommit,
         RevokeSessionRow, RevokeAccess, End, Fail, SessionExpires, Terminate
<1> QED  BY <1>2, <1>3, <1>5, <1>6

(* Every step keeps the session's revocation going.                        *)
LEMMA ClosingNext ==
  ASSUME RefreshInv, [RefreshNext]_refreshVars
  PROVE  ClosingGoesOn'
<1>0. failures \in Nat  BY RefreshAssumption DEF RefreshInv, RefreshTypeOK
<1>1. CASE Terminate  BY <1>1 DEF Terminate, ClosingGoesOn
<1>2. ASSUME NEW r \in Requests, RevokeCommit(r) PROVE ClosingGoesOn'
  BY <1>2, RequestTypes DEF RevokeCommit, Goto, ClosingGoesOn
<1>3. ASSUME NEW r \in Requests, RevokeSessionRow(r) PROVE ClosingGoesOn'
  BY <1>3 DEF RevokeSessionRow, ClosingGoesOn
<1>4. ASSUME NEW r \in Requests, Fail(r) PROVE ClosingGoesOn'
  BY <1>0, <1>4 DEF Fail, ClosingGoesOn
<1>5. ASSUME UNCHANGED <<family, sessionRow, failures>>,
             \A q \in Requests : step[q] = "revokeSession" => step'[q] = step[q]
      PROVE  ClosingGoesOn'
  BY <1>5 DEF RefreshInv, ClosingGoesOn
<1>6. ASSUME NEW r \in Requests, NEW i \in Ids, Present(r, i) PROVE ClosingGoesOn'
  BY <1>5, <1>6, RequestTypes DEF Present, Goto
<1>7. ASSUME NEW r \in Requests,
             \/ FindToken(r) \/ FindFamily(r) \/ FindSessionRow(r) \/ RotateUpdate(r)
             \/ RotateCommit(r) \/ Touch(r) \/ PutGrace(r)
      PROVE  ClosingGoesOn'
  BY <1>5, <1>7, RequestTypes
  DEF FindToken, FindFamily, FindSessionRow, RotateUpdate, RotateCommit, Touch, PutGrace,
      Goto, RefuseRefresh, Grant
<1>8. ASSUME NEW r \in Requests,
             GraceGet(r) \/ Replay(r) \/ RevokeScan(r) \/ RevokeAccess(r) \/ End(r)
      PROVE  ClosingGoesOn'
  BY <1>5, <1>8, RequestTypes
  DEF GraceGet, Replay, RevokeScan, RevokeAccess, End, Forget, Goto, RefuseRefresh, Grant
<1>9. CASE \/ \E i \in 1 .. MaxTokens : GraceExpires(i)
           \/ SessionExpires
           \/ UNCHANGED refreshVars
  BY <1>5, <1>9 DEF GraceExpires, SessionExpires, refreshVars, requestVars
<1> QED  BY <1>1, <1>2, <1>3, <1>4, <1>6, <1>7, <1>8, <1>9 DEF RefreshNext, RequestStep

(* Every step of a refresh keeps the invariant. *)
LEMMA RefreshInvNext ==
  ASSUME RefreshInv, [RefreshNext]_refreshVars
  PROVE  RefreshInv'
<1>1. RefreshTypeOK' /\ (Cardinality(Ids) \in Nat)'  BY RefreshTypeNext
<1>2. \A q \in Requests : RequestFits(q)'  BY RequestFitsNext
<1> QED  BY <1>1, <1>2, ChainNext, SuccessorNext, ClosingNext DEF RefreshInv

(* The invariant says what the runs check of a refresh.                    *)
LEMMA RefreshInvSuffices ==
  ASSUME RefreshInv
  PROVE  FamilyNeverForks /\ RevokedFamilyStaysClosed /\ ReuseEndsSession
<1>1. Cardinality({i \in Ids : tokens[i].status = "active"}) <= 1
  <2> DEFINE A == {i \in Ids : tokens[i].status = "active"}
  <2>1. A \subseteq {Cardinality(Ids)}  BY DEF RefreshInv, OneChain
  <2>2. IsFiniteSet({Cardinality(Ids)}) /\ Cardinality({Cardinality(Ids)}) = 1
    BY FS_Singleton
  <2> HIDE DEF A
  <2>3. Cardinality(A) <= Cardinality({Cardinality(Ids)})  BY <2>1, <2>2, FS_Subset
  <2> QED  BY <2>2, <2>3 DEF A
<1>2. ASSUME NEW i \in 1 .. MaxTokens
      PROVE  /\ Cardinality(answers[i]) <= 1
             /\ \A j \in answers[i] : tokens[j].gen = tokens[i].gen + 1
  <2>1. \A j \in answers[i] : i \in Ids /\ j \in Ids /\ j = i + 1
    BY DEF RefreshInv, OneSuccessor
  <2>2. answers[i] \subseteq {i + 1}  BY <2>1
  <2>3. IsFiniteSet({i + 1}) /\ Cardinality({i + 1}) = 1  BY FS_Singleton
  <2>4. Cardinality(answers[i]) <= Cardinality({i + 1})  BY <2>2, <2>3, FS_Subset
  <2>5. \A j \in answers[i] : tokens[j].gen = tokens[i].gen + 1
    BY <2>1 DEF RefreshInv, OneChain
  <2> QED  BY <2>3, <2>4, <2>5
<1>3. FamilyNeverForks  BY <1>1, <1>2 DEF FamilyNeverForks
<1>4. RevokedFamilyStaysClosed
  BY DEF RefreshInv, RequestFits, RevokedFamilyStaysClosed
<1>5. ReuseEndsSession
  BY DEF RefreshInv, ClosingGoesOn, ReuseEndsSession
<1> QED  BY <1>3, <1>4, <1>5

(* A step of any client is a step of the refresh or leaves it alone. *)
LEMMA RefreshStep == [ClientsNext]_clientVars => [RefreshNext]_refreshVars
BY DEF ClientsNext, clientVars

THEOREM RefreshInvAlways == ClientsSpec => []RefreshInv
<1>1. ClientsInit => RefreshInv  BY RefreshInitially DEF ClientsInit
<1>2. RefreshInv /\ [ClientsNext]_clientVars => RefreshInv'
  BY RefreshInvNext, RefreshStep
<1> QED  BY <1>1, <1>2, PTL DEF ClientsSpec

(***************************************************************************)
(* Refresh rotation never forks a family, for any number of parallel       *)
(* requests, tokens, retries and failures: one active token, and one       *)
(* successor for each token however often and by whomever it is presented. *)
(***************************************************************************)
THEOREM FamilyNeverForksAlways == ClientsSpec => []FamilyNeverForks
<1>1. RefreshInv => FamilyNeverForks  BY RefreshInvSuffices
<1> QED  BY <1>1, RefreshInvAlways, PTL

(***************************************************************************)
(* No refresh that begins after the family was revoked gets tokens, even   *)
(* when a racing rotation's successor escaped the revocation's snapshot.   *)
(***************************************************************************)
THEOREM RevokedFamilyStaysClosedAlways == ClientsSpec => []RevokedFamilyStaysClosed
<1>1. RefreshInv => RevokedFamilyStaysClosed  BY RefreshInvSuffices
<1> QED  BY <1>1, RefreshInvAlways, PTL

(***************************************************************************)
(* Reuse detection ends the session, too, unless the request that detected *)
(* it died between the two.                                                *)
(***************************************************************************)
THEOREM ReuseEndsSessionAlways == ClientsSpec => []ReuseEndsSession
<1>1. RefreshInv => ReuseEndsSession  BY RefreshInvSuffices
<1> QED  BY <1>1, RefreshInvAlways, PTL

-----------------------------------------------------------------------------
(* Every step of the demo account keeps its invariant. *)
LEMMA DemoInvNext ==
  ASSUME DemoInv, [DemoNext]_demoVars
  PROVE  DemoInv'
<1> USE DemoAccountAssumption
<1>1. CASE Seed
  BY <1>1 DEF Seed, DemoInv, DemoTyped, LookupsAreOld, DemoLockTakesHold
<1>2. CASE Minute
  BY <1>2 DEF Minute, DemoInv, DemoTyped, LookupsAreOld, DemoLockTakesHold
<1>3. ASSUME NEW v \in Visitors, Ask(v) PROVE DemoInv'
  <2>1. UNCHANGED <<minute, seeded, resolution>>  BY <1>3 DEF Ask
  <2>2. CASE Resolved
    <3>1. visit' = [visit EXCEPT ![v] = [step |-> IF resolution.user THEN "refused" ELSE "passed",
                                         start |-> minute, found |-> resolution.user]]
      BY <1>3, <2>2 DEF Ask, Pass
    <3>2. /\ resolution \in [user : BOOLEAN, resolvedAt : Nat]
          /\ minute - resolution.resolvedAt < ResolutionTtl
      BY <2>2 DEF Resolved, DemoInv, DemoTyped
    <3>3. (~resolution.user /\ seeded # NotYet) => minute < seeded + ResolutionTtl
      BY <2>2, <3>2 DEF Resolved, DemoInv, DemoTyped, LookupsAreOld
    <3> QED  BY <2>1, <3>1, <3>2, <3>3
             DEF DemoInv, DemoTyped, LookupsAreOld, DemoLockTakesHold
  <2>3. CASE ~Resolved
    <3>1. visit' = [visit EXCEPT ![v] = [step |-> "asked", start |-> minute, found |-> FALSE]]
      BY <1>3, <2>3 DEF Ask
    <3> QED  BY <2>1, <3>1 DEF DemoInv, DemoTyped, LookupsAreOld, DemoLockTakesHold
  <2> QED  BY <2>2, <2>3
<1>4. ASSUME NEW v \in Visitors, FindByEmail(v) PROVE DemoInv'
  <2>1. UNCHANGED <<minute, seeded, resolution>>  BY <1>4 DEF FindByEmail
  <2>2. /\ visit'[v].step = "found" /\ visit'[v].start = visit[v].start
        /\ visit'[v].found = (seeded # NotYet)
        /\ \A w \in Visitors : w # v => visit'[w] = visit[w]
        /\ visit' \in [Visitors -> [step : {"idle", "asked", "found", "refused", "passed"},
                                    start : Nat, found : BOOLEAN]]
    <3>1. visit \in [Visitors -> [step : {"idle", "asked", "found", "refused", "passed"},
                                  start : Nat, found : BOOLEAN]]
      BY DEF DemoInv, DemoTyped
    <3>2. visit' = [visit EXCEPT ![v].step = "found", ![v].found = seeded # NotYet]
      BY <1>4 DEF FindByEmail
    <3> QED  BY <3>1, <3>2
  <2> QED  BY <2>1, <2>2 DEF DemoInv, DemoTyped, LookupsAreOld, DemoLockTakesHold
<1>5. ASSUME NEW v \in Visitors, Resolve(v) PROVE DemoInv'
  <2>1. UNCHANGED <<minute, seeded>> /\ visit[v].step = "found"  BY <1>5 DEF Resolve
  <2>2. visit' = [visit EXCEPT ![v] = [step |-> IF visit[v].found THEN "refused" ELSE "passed",
                                       start |-> visit[v].start, found |-> visit[v].found]]
    BY <1>5 DEF Resolve, Pass
  <2>3. resolution' = [user |-> visit[v].found, resolvedAt |-> visit[v].start]
    BY <1>5 DEF Resolve
  <2>4. (~visit[v].found /\ seeded # NotYet) => visit[v].start <= seeded
    BY <2>1 DEF DemoInv, LookupsAreOld
  <2> QED  BY <2>1, <2>2, <2>3, <2>4 DEF DemoInv, DemoTyped, LookupsAreOld, DemoLockTakesHold
<1>6. ASSUME NEW v \in Visitors, Leave(v) PROVE DemoInv'
  BY <1>6 DEF Leave, Away, DemoInv, DemoTyped, LookupsAreOld, DemoLockTakesHold
<1>7. CASE UNCHANGED demoVars
  BY <1>7 DEF demoVars, DemoInv, DemoTyped, LookupsAreOld, DemoLockTakesHold
<1> QED  BY <1>1, <1>2, <1>3, <1>4, <1>5, <1>6, <1>7 DEF DemoNext

(* A run of the seed that moves stays typed. *)
LEMMA SeederTypes ==
  ASSUME SeedInv, NEW s \in Seeders, NEW p \in {"off", "save", "org", "provision", "write",
                                                "applied", "already", "failed"},
         Move(s, p)
  PROVE  /\ SeedTyped => seeder' \in [Seeders -> [step : {"off", "save", "org", "provision",
                           "write", "applied", "already", "failed"}, found : BOOLEAN, next : Nat]]
         /\ seeder'[s].step = p /\ seeder'[s].next = seeder[s].next
         /\ \A q \in Seeders : q # s => seeder'[q] = seeder[q]
BY DEF Move, SeedInv, SeedTyped

(* Every step of the seed keeps its invariant. *)
LEMMA SeedInvNext ==
  ASSUME SeedInv, [SeedNext]_seedVars
  PROVE  SeedInv'
<1> USE SeedAssumption
<1> DEFINE Places == {"off", "save", "org", "provision", "write", "applied", "already",
                      "failed"}
           Runs == [Seeders -> [step : Places, found : BOOLEAN, next : Nat]]
\* A run that moves without writing, to a place that its next write and the
\* organization allow.
<1>1. ASSUME NEW s \in Seeders, NEW p \in Places,
             seeder' \in Runs, seeder'[s].step = p, seeder'[s].next = seeder[s].next,
             \A q \in Seeders : q # s => seeder'[q] = seeder[q],
             UNCHANGED <<personalOrgs, content, deaths, abandoned>>,
             seeder[s].step # "write", p # "write",
             p \in {"off", "save", "org", "provision"} => seeder[s].next = 1,
             p \in {"applied", "already"} => personalOrgs # {}
      PROVE  SeedInv'
  <2>1. SeedTyped'  BY <1>1 DEF SeedInv, SeedTyped
  <2>2. OneWriter'  BY <1>1 DEF SeedInv, OneWriter
  <2>3. NothingLeftHalf'
    BY <1>1 DEF SeedInv, NothingLeftHalf
  <2> QED  BY <2>1, <2>2, <2>3 DEF SeedInv
<1>2. CASE RegisterAddress
  BY <1>2 DEF RegisterAddress, deathVars, SeedInv, SeedTyped, OneWriter, NothingLeftHalf
<1>3. ASSUME NEW s \in Seeders, FindDemoUser(s) PROVE SeedInv'
  <2>1. PICK p \in {"save", "org"}, f \in BOOLEAN :
          seeder' = [seeder EXCEPT ![s] = [step |-> p, found |-> f, next |-> seeder[s].next]]
    BY <1>3 DEF FindDemoUser, SeedInv, SeedTyped
  <2>2. /\ seeder' \in Runs /\ seeder'[s].step = p /\ seeder'[s].next = seeder[s].next
        /\ \A q \in Seeders : q # s => seeder'[q] = seeder[q]
    BY <2>1 DEF SeedInv, SeedTyped
  <2>3. seeder[s].step = "off" /\ seeder[s].next = 1
    BY <1>3 DEF FindDemoUser, SeedInv, OneWriter
  <2> QED  BY <1>1, <1>3, <2>2, <2>3 DEF FindDemoUser, deathVars
<1>4. ASSUME NEW s \in Seeders, FindActiveOrganization(s) PROVE SeedInv'
  <2>1. PICK p \in {"already", "provision"} :
          Move(s, p) /\ (p = "already" => personalOrgs # {})
    BY <1>4 DEF FindActiveOrganization
  <2>2. seeder[s].step = "org" /\ seeder[s].next = 1
    BY <1>4 DEF FindActiveOrganization, SeedInv, OneWriter
  <2> QED  BY <1>1, <1>4, <2>1, <2>2, SeederTypes DEF FindActiveOrganization, SeedInv, deathVars
<1>5. ASSUME NEW s \in Seeders, SaveUser(s) PROVE SeedInv'
  <2>1. PICK p \in {"provision", "failed"} : Move(s, p)  BY <1>5 DEF SaveUser
  <2>2. seeder[s].step = "save" /\ seeder[s].next = 1
    BY <1>5 DEF SaveUser, SeedInv, OneWriter
  <2> QED  BY <1>1, <1>5, <2>1, <2>2, SeederTypes DEF SaveUser, SeedInv, deathVars
<1>6. ASSUME NEW s \in Seeders, ProvisionPersonalOrganization(s) PROVE SeedInv'
  <2>1. seeder[s].step = "provision" /\ seeder[s].next = 1
    BY <1>6 DEF ProvisionPersonalOrganization, SeedInv, OneWriter
  <2>2. CASE personalOrgs = {}
    <3>1. personalOrgs' = {s} /\ Move(s, "write") /\ UNCHANGED <<content, deaths, abandoned>>
      BY <1>6, <2>2 DEF ProvisionPersonalOrganization, SlugIsFree, deathVars
    <3>2. seeder' \in Runs /\ seeder'[s].step = "write" /\ seeder'[s].next = 1
          /\ \A q \in Seeders : q # s => seeder'[q] = seeder[q]
      BY <2>1, <3>1, SeederTypes DEF SeedInv
    <3>3. content = {} /\ \A q \in Seeders : seeder[q].step # "write"
      BY <2>2 DEF SeedInv, OneWriter
    <3>4. SeedTyped'  BY <3>1, <3>2 DEF SeedInv, SeedTyped
    <3>5. OneWriter'
      <4>1. content' = 1 .. 1 - 1  BY <3>1, <3>3
      <4>2. 1 \in 1 .. SeedWrites  OBVIOUS
      <4> QED  BY <3>1, <3>2, <3>3, <4>1, <4>2 DEF SeedInv, OneWriter
    <3>6. NothingLeftHalf'  BY <3>2 DEF NothingLeftHalf
    <3> QED  BY <3>4, <3>5, <3>6 DEF SeedInv
  <2>3. CASE personalOrgs # {}
    <3>1. Move(s, "failed") /\ UNCHANGED <<personalOrgs, content, deaths, abandoned>>
      BY <1>6, <2>3 DEF ProvisionPersonalOrganization, SlugIsFree, deathVars
    <3> QED  BY <1>1, <2>1, <3>1, SeederTypes DEF SeedInv
  <2> QED  BY <2>2, <2>3
<1>7. ASSUME NEW s \in Seeders, WriteNext(s) PROVE SeedInv'
  <2> DEFINE n == seeder[s].next
             p == IF n = SeedWrites THEN "applied" ELSE "write"
  <2>1. /\ n \in 1 .. SeedWrites /\ content = 1 .. n - 1 /\ s \in personalOrgs
        /\ seeder[s].step = "write"
    BY <1>7 DEF WriteNext, SeedInv, OneWriter
  <2>2. content' = 1 .. n  BY <1>7, <2>1 DEF WriteNext
  <2>3. UNCHANGED <<personalOrgs, deaths, abandoned>>  BY <1>7 DEF WriteNext, deathVars
  <2>4. seeder' = [seeder EXCEPT ![s].next = n + 1, ![s].step = p]  BY <1>7 DEF WriteNext
  <2>5. p \in {"applied", "write"}  OBVIOUS
  <2> HIDE DEF n, p
  <2>6. /\ seeder' \in Runs /\ seeder'[s].step = p /\ seeder'[s].next = n + 1
        /\ \A q \in Seeders : q # s => seeder'[q] = seeder[q]
    <3>1. seeder \in Runs  BY DEF SeedInv, SeedTyped
    <3>2. n + 1 \in Nat /\ p \in Places  BY <2>1, <2>5
    <3>3. seeder'[s].step = p /\ seeder'[s].next = n + 1
      BY <2>4, <3>1
    <3>4. \A q \in Seeders : q # s => seeder'[q] = seeder[q]  BY <2>4, <3>1
    <3> HIDE DEF Places
    <3>5. seeder' \in Runs  BY <2>4, <3>1, <3>2
    <3> QED  BY <3>3, <3>4, <3>5
  <2>7. \A q \in Seeders : seeder[q].step = "write" => q = s
    BY <2>1 DEF SeedInv, OneWriter
  <2>8. SeedTyped'  BY <2>3, <2>6 DEF SeedInv, SeedTyped
  <2>9. OneWriter'
    <3>1. p = "write" => n + 1 \in 1 .. SeedWrites /\ content' = 1 .. (n + 1) - 1
      BY <2>1, <2>2 DEF p
    <3> QED  BY <2>1, <2>3, <2>5, <2>6, <2>7, <3>1 DEF SeedInv, OneWriter
  <2>10. NothingLeftHalf'
    <3>1. CASE n = SeedWrites  BY <2>2, <3>1 DEF NothingLeftHalf
    <3>2. CASE n # SeedWrites  BY <2>6, <3>2 DEF p, NothingLeftHalf
    <3> QED  BY <3>1, <3>2
  <2> QED  BY <2>8, <2>9, <2>10 DEF SeedInv
<1>8. ASSUME NEW s \in Seeders, Exit(s) \/ DieSeeding(s) PROVE SeedInv'
  <2>1. /\ seeder' = [seeder EXCEPT ![s] = [step |-> "off", found |-> FALSE, next |-> 1]]
        /\ UNCHANGED <<personalOrgs, content>>
    BY <1>8 DEF Exit, DieSeeding, Off
  <2>2. /\ seeder' \in Runs /\ seeder'[s].step = "off" /\ seeder'[s].next = 1
        /\ \A q \in Seeders : q # s => seeder'[q] = seeder[q]
    BY <2>1 DEF SeedInv, SeedTyped
  <2>3. deaths' \in Nat /\ abandoned' = (abandoned \/ seeder[s].step = "write")
    BY <1>8 DEF Exit, DieSeeding, Ended, deathVars, SeedInv, SeedTyped
  <2>4. SeedTyped'  BY <2>1, <2>2, <2>3 DEF SeedInv, SeedTyped
  <2>5. OneWriter'  BY <2>1, <2>2 DEF SeedInv, OneWriter
  <2>6. NothingLeftHalf'
    BY <2>1, <2>2, <2>3 DEF SeedInv, NothingLeftHalf
  <2> QED  BY <2>4, <2>5, <2>6 DEF SeedInv
<1>9. CASE UNCHANGED seedVars
  BY <1>9 DEF seedVars, deathVars, SeedInv, SeedTyped, OneWriter, NothingLeftHalf
<1> QED  BY <1>2, <1>3, <1>4, <1>5, <1>6, <1>7, <1>8, <1>9 DEF SeedNext

(* One organization, and a run that reports the seed as applied leaves a   *)
(* complete demo.                                                          *)
LEMMA SeedInvSuffices == SeedInv => SeedIsRepeatable
<1> SUFFICES ASSUME SeedInv PROVE SeedIsRepeatable
  OBVIOUS
<1>1. Cardinality(personalOrgs) <= 1
  <2>1. CASE personalOrgs = {}  BY <2>1, FS_EmptySet
  <2>2. CASE personalOrgs # {}
    <3>1. PICK s \in personalOrgs : TRUE  BY <2>2
    <3>2. personalOrgs = {s}  BY <3>1 DEF SeedInv, OneWriter
    <3> QED  BY <3>2, FS_Singleton
  <2> QED  BY <2>1, <2>2
<1> QED  BY <1>1 DEF SeedInv, OneWriter, NothingLeftHalf, SeedIsRepeatable

(***************************************************************************)
(* The demo is ready, for any number of visitors, runs of the seed, writes *)
(* and deaths: one organization, never reported complete when it is not    *)
(* (unless a run died while it wrote), and, a resolution's time after the  *)
(* account exists, no request of it that passes the guard.                 *)
(***************************************************************************)
THEOREM DemoIsReadyAlways == ClientsSpec => []DemoIsReady
<1>1. ClientsInit => DemoInv /\ SeedInv
  <2>1. DemoInit => DemoInv
    BY DemoAccountAssumption
    DEF DemoInit, Away, DemoInv, DemoTyped, LookupsAreOld, DemoLockTakesHold
  <2>2. SeedInit => SeedInv
    <3>1. SeedInit => SeedTyped
      <4> SUFFICES ASSUME SeedInit PROVE SeedTyped  OBVIOUS
      <4>1. personalOrgs \subseteq Seeders  BY DEF SeedInit
      <4>2. deaths \in Nat  BY DEF SeedInit
      <4>3. abandoned \in BOOLEAN  BY DEF SeedInit
      <4> QED  BY <4>1, <4>2, <4>3 DEF SeedInit, Off, SeedTyped
    <3>2. SeedInit => OneWriter  BY DEF SeedInit, Off, OneWriter
    <3>3. SeedInit => NothingLeftHalf  BY DEF SeedInit, NothingLeftHalf
    <3> QED  BY <3>1, <3>2, <3>3 DEF SeedInv
  <2> QED  BY <2>1, <2>2 DEF ClientsInit
<1>2. [ClientsNext]_clientVars => [DemoNext]_demoVars /\ [SeedNext]_seedVars
  BY DEF ClientsNext, clientVars
<1>3. DemoInv /\ SeedInv /\ [ClientsNext]_clientVars => (DemoInv /\ SeedInv)'
  BY <1>2, DemoInvNext, SeedInvNext
<1>4. DemoInv /\ SeedInv => DemoIsReady
  BY SeedInvSuffices DEF DemoInv, DemoIsReady
<1> QED  BY <1>1, <1>3, <1>4, PTL DEF ClientsSpec

-----------------------------------------------------------------------------
(* The enforcement points take the steps of SessionRevocation, or none. *)
LEMMA EnforcementStep == [EnforcementNext]_enforcementVars => [Next]_vars
BY DEF EnforcementNext, enforcementVars, SessionStep, Send, Authenticate, Unauthorized,
       Check, LocalCheck, PapAdmin, Administer, AdminFails, OthersWrite, Browse, Explore,
       Abort, ReadResponse, Enforce, Finish, Next, vars

(* A request that was accepted stays so until it ends.                     *)
LEMMA AcceptedStays ==
  ASSUME Inv, NEW g \in Guards, guard[g] = "accepted",
         SessionStep \/ \E h \in Guards, t \in issued : Authenticate(h, t)
  PROVE  guard'[g] = "accepted"
BY DEF SessionStep, Authenticate, Verify, CheckBlocklist, Tick, FindSession, Sign, HandOut,
       RevokeSession, Blocklist, Inv, TypeOK

(* Requests that a step does not answer keep what is known of them. *)
LEMMA OtherCallFits ==
  ASSUME EnforcementInv, NEW g \in Guards,
         UNCHANGED <<route[g], role[g], stage[g], reply[g], fault[g]>>,
         \/ zookie'[g] = zookie[g]
         \/ zookie[g] = "ahead" /\ zookie'[g] = "caught up",
         seen[g] \subseteq seen'[g],
         stage[g] \notin {"idle", "done"} => allows' \in seen'[g],
         guard[g] = "accepted" => guard'[g] = "accepted"
  PROVE  (UnderWay(g) /\ PermitIsEarned(g) /\ ReplyFits(g))'
BY DEF EnforcementInv, CallsFit, UnderWay, PermitIsEarned, ReplyFits, ReplyHasCause

(* What a reply of a stage must be for an answer to fit. *)
AnswerFits(g, r, s, failed) ==
  /\ s = "answered" => r \in FromApi
  /\ s = "decided" => r \in FromClient
  /\ s = "done" => r \in {"401", "400", "403", "404", "500", "503", "ok", "ran"}
  /\ s \in {"answered", "decided"} => route[g] = "sdk" /\ allows \in seen[g]
  /\ r \in {"permit", "ran"} =>
       TRUE \in seen[g] /\ role[g] # "none" /\ zookie[g] # "ahead" /\ guard[g] = "accepted"
  /\ ReplyHasCause(g, r, failed)

(* An answer that fits keeps what is known of every request.               *)
LEMMA AnswerKeeps ==
  ASSUME EnforcementInv, NEW g \in Guards, NEW r, NEW s \in {"answered", "decided", "done"},
         Answer(g, r, s), AnswerFits(g, r, s, fault'[g]),
         UNCHANGED <<guard, allows, asked>>,
         fault' = fault \/ fault' = [fault EXCEPT ![g] = TRUE]
  PROVE  CallsFit'
<1>1. /\ reply' = [reply EXCEPT ![g] = r] /\ stage' = [stage EXCEPT ![g] = s]
  BY DEF Answer
<1>2. r \in {"401", "400", "403", "404", "500", "503", "ok", "ran", "permit", "deny",
             "no_org_context", "consistency_unavailable", "unauthenticated", "pdp_unavailable"}
  BY DEF AnswerFits, FromApi, FromClient, Denials
<1>3. EnforcementTyped  BY DEF EnforcementInv, CallsFit
<1>4. EnforcementTyped'  BY <1>1, <1>2, <1>3 DEF EnforcementTyped, asked
<1>5. ASSUME NEW h \in Guards, h # g PROVE (UnderWay(h) /\ PermitIsEarned(h) /\ ReplyFits(h))'
  <2>1. UNCHANGED <<route[h], role[h], zookie[h], stage[h], reply[h], fault[h], seen[h],
                    guard[h], allows>>
    BY <1>1, <1>3, <1>5 DEF EnforcementTyped, asked
  <2>2. stage[h] \notin {"idle", "done"} => allows' \in seen'[h]
    BY <2>1 DEF EnforcementInv, CallsFit, UnderWay
  <2> QED  BY <2>1, <2>2, OtherCallFits
<1>6. stage'[g] = s /\ reply'[g] = r  BY <1>1, <1>3 DEF EnforcementTyped
<1>7. fault'[g] \in BOOLEAN  BY <1>4 DEF EnforcementTyped
<1>8. (UnderWay(g) /\ PermitIsEarned(g) /\ ReplyFits(g))'
  BY <1>2, <1>6, <1>7 DEF AnswerFits, UnderWay, PermitIsEarned, ReplyFits, ReplyHasCause, asked
<1> QED  BY <1>4, <1>5, <1>8 DEF CallsFit

(* What is known of a request that holds an answer of the API. *)
LEMMA CallFacts ==
  ASSUME EnforcementInv, NEW g \in Guards
  PROVE  /\ stage[g] \in {"sent", "answered", "decided"} => allows \in seen[g]
         /\ reply[g] = "permit" =>
              TRUE \in seen[g] /\ role[g] # "none" /\ zookie[g] # "ahead" /\ guard[g] = "accepted"
         /\ stage[g] = "answered" => reply[g] \in FromApi
         /\ stage[g] = "decided" => reply[g] \in FromClient
         /\ stage[g] \in {"answered", "decided"} => route[g] = "sdk"
         /\ ReplyHasCause(g, reply[g], fault[g])
         /\ role[g] \in Roles /\ zookie[g] \in Zookies
         /\ allows \in BOOLEAN
         /\ fault = [h \in Guards |-> fault[h]] /\ seen = [h \in Guards |-> seen[h]]
         /\ guard = [h \in Guards |-> guard[h]]
BY DEF EnforcementInv, CallsFit, EnforcementTyped, UnderWay, PermitIsEarned, ReplyFits, Inv, TypeOK

(* The answers of the API, the SDK client and the guards fit.              *)
LEMMA EnforcementAnswers ==
  ASSUME EnforcementInv, NEW g \in Guards,
         \/ Unauthorized(g) \/ Check(g) \/ LocalCheck(g) \/ PapAdmin(g) \/ AdminFails(g)
         \/ Browse(g) \/ Explore(g) \/ Abort(g) \/ ReadResponse(g) \/ Enforce(g)
  PROVE  CallsFit'
<1>0. ASSUME NEW r, NEW s \in {"answered", "decided", "done"}, Answer(g, r, s),
             AnswerFits(g, r, s, fault'[g]), UNCHANGED <<guard, allows, asked>>,
             fault' = fault \/ fault' = [fault EXCEPT ![g] = TRUE]
      PROVE  CallsFit'
  BY <1>0, AnswerKeeps
<1>1. CASE Unauthorized(g)
  <2>1. AnswerFits(g, "401", Destination(g), fault'[g])
    BY <1>1, CallFacts DEF Unauthorized, Destination, AnswerFits, ReplyHasCause, FromApi
  <2>2. Destination(g) \in {"answered", "decided", "done"}  BY DEF Destination
  <2> QED  BY <1>0, <1>1, <2>1, <2>2 DEF Unauthorized, vars
<1>2. CASE Check(g)
  <2>1. ASSUME NEW r \in CheckFailures, Answer(g, r, "answered"),
               fault' = [fault EXCEPT ![g] = TRUE]
        PROVE  CallsFit'
    <3>1. AnswerFits(g, r, "answered", fault'[g])
      BY <1>2, <2>1, CallFacts DEF Check, Handling, CheckFailures, AnswerFits, ReplyHasCause, FromApi
    <3> QED  BY <1>0, <1>2, <2>1, <3>1 DEF Check, vars
  <2>2. ASSUME Answer(g, CheckDecision(g), "answered"), UNCHANGED fault
        PROVE  CallsFit'
    <3>1. AnswerFits(g, CheckDecision(g), "answered", fault'[g])
      <4>1. stage[g] = "sent" /\ guard[g] = "accepted" /\ route[g] = "sdk"
        BY <1>2 DEF Check, Handling
      <4>2. /\ allows \in BOOLEAN /\ allows \in seen[g] /\ role[g] \in Roles
            /\ zookie[g] \in Zookies
        BY <4>1, CallFacts
      <4> QED
        BY <4>1, <4>2
        DEF CheckDecision, AnswerFits, ReplyHasCause, FromApi, Denials, Zookies
    <3> QED  BY <1>0, <1>2, <2>2, <3>1 DEF Check, vars
  <2> QED  BY <1>2, <2>1, <2>2 DEF Check
<1>3. CASE LocalCheck(g)
  <2>1. ASSUME NEW r \in {"ran", "403"}, Answer(g, r, "done"),
               r = "ran" => allows /\ role[g] # "none" /\ zookie[g] # "ahead",
               fault' = fault \/ fault' = [fault EXCEPT ![g] = TRUE]
        PROVE  CallsFit'
    <3>1. AnswerFits(g, r, "done", fault'[g])
      BY <1>3, <2>1, CallFacts DEF LocalCheck, Handling, AnswerFits, ReplyHasCause
    <3> QED  BY <1>0, <1>3, <2>1, <3>1 DEF LocalCheck, vars
  <2>2. \/ /\ Answer(g, IF CheckDecision(g) = "permit" THEN "ran" ELSE "403", "done")
           /\ UNCHANGED fault
        \/ Answer(g, "403", "done") /\ fault' = [fault EXCEPT ![g] = TRUE]
    BY <1>3 DEF LocalCheck
  <2>3. CheckDecision(g) = "permit" => allows /\ role[g] # "none" /\ zookie[g] # "ahead"
    BY CallFacts DEF CheckDecision
  <2>4. CASE CheckDecision(g) = "permit"  BY <2>1, <2>2, <2>3, <2>4
  <2>5. CASE CheckDecision(g) # "permit"  BY <2>1, <2>2, <2>5
  <2> QED  BY <2>4, <2>5
\* A route that owners call is not the SDK's: its replies say nothing of a decision.
<1>4. ASSUME NEW r \in {"ok", "400", "403", "404", "500", "503"}, Answer(g, r, "done"),
             route[g] # "sdk", UNCHANGED <<guard, allows, asked>>,
             fault' = fault \/ fault' = [fault EXCEPT ![g] = TRUE]
      PROVE  CallsFit'
  <2>1. AnswerFits(g, r, "done", fault'[g])  BY <1>4 DEF AnswerFits, ReplyHasCause
  <2> QED  BY <1>0, <1>4, <2>1
<1>5. CASE PapAdmin(g)
  BY <1>4, <1>5 DEF PapAdmin, Handling, Writes, Reads, vars
<1>6. CASE AdminFails(g)
  BY <1>4, <1>6 DEF AdminFails, Handling, Writes, vars
<1>7. CASE Browse(g)  BY <1>4, <1>7 DEF Browse, Handling, vars
<1>8. CASE Explore(g)  BY <1>4, <1>8 DEF Explore, Handling, vars
<1>9. CASE Abort(g)
  <2>1. fault' = [fault EXCEPT ![g] = TRUE] /\ fault'[g]
    BY <1>9, CallFacts DEF Abort
  <2>2. AnswerFits(g, Unavailable, "decided", fault'[g])
    BY <1>9, <2>1, CallFacts DEF Abort, Unavailable, AnswerFits, ReplyHasCause, FromClient
  <2> QED  BY <1>0, <1>9, <2>1, <2>2 DEF Abort, vars
<1>10. CASE ReadResponse(g)
  <2>1. /\ route[g] = "sdk" /\ stage[g] = "answered"
        /\ reply[g] \in FromApi
    BY <1>10, CallFacts DEF ReadResponse
  <2>2. CASE Answer(g, Decision(reply[g], reply[g]), "decided") /\ UNCHANGED fault
    <3>1. AnswerFits(g, Decision(reply[g], reply[g]), "decided", fault'[g])
      BY <2>1, <2>2, CallFacts
      DEF Decision, CheckFailures, Unavailable, AnswerFits, ReplyHasCause, FromApi, FromClient,
          Denials
    <3> QED  BY <1>0, <1>10, <2>2, <3>1 DEF ReadResponse, vars
  <2>3. CASE /\ Answer(g, Decision(reply[g], "garbled"), "decided")
             /\ fault' = [fault EXCEPT ![g] = TRUE]
    <3>1. fault'[g]  BY <2>3, CallFacts
    <3>2. AnswerFits(g, Decision(reply[g], "garbled"), "decided", fault'[g])
      BY <2>1, <3>1, CallFacts
      DEF Decision, CheckFailures, Unavailable, AnswerFits, ReplyHasCause, FromApi, FromClient,
          Denials
    <3> QED  BY <1>0, <1>10, <2>3, <3>2 DEF ReadResponse, vars
  <2> QED  BY <1>10, <2>2, <2>3 DEF ReadResponse
<1>11. CASE Enforce(g)
  <2> DEFINE r == CASE reply[g] = "permit" -> "ran"
                    [] reply[g] = "unauthenticated" -> "401"
                    [] reply[g] = "pdp_unavailable" -> "503"
                    [] OTHER -> "403"
  <2>1. Answer(g, r, "done") /\ UNCHANGED <<fault, guard, allows, asked>>
    BY <1>11 DEF Enforce, vars
  <2>2. /\ route[g] = "sdk" /\ stage[g] = "decided"
        /\ reply[g] \in FromClient
    BY <1>11, CallFacts DEF Enforce
  <2>3. AnswerFits(g, r, "done", fault'[g])
    BY <2>1, <2>2, CallFacts DEF AnswerFits, ReplyHasCause, FromClient, Denials
  <2> HIDE DEF r
  <2> QED  BY <1>0, <2>1, <2>3
<1> QED  BY <1>1, <1>2, <1>3, <1>5, <1>6, <1>7, <1>8, <1>9, <1>10, <1>11

(* A write changes the decision; the requests under way see it.            *)
LEMMA RewriteKeeps ==
  ASSUME EnforcementInv, NEW permits \in BOOLEAN, Rewrite(permits),
         UNCHANGED <<guard, route, role, fault>>
  PROVE  /\ allows' \in BOOLEAN /\ seen' \in [Guards -> SUBSET BOOLEAN]
         /\ zookie' \in [Guards -> Zookies]
         /\ \A h \in Guards :
              /\ seen[h] \subseteq seen'[h]
              /\ \/ zookie'[h] = zookie[h]
                 \/ zookie[h] = "ahead" /\ zookie'[h] = "caught up"
              /\ stage[h] \notin {"idle", "done"} => allows' \in seen'[h]
BY DEF Rewrite, Zookies, EnforcementInv, CallsFit, EnforcementTyped

(* Every step of the enforcement points keeps what is known of requests.   *)
LEMMA CallsFitNext ==
  ASSUME EnforcementInv, [EnforcementNext]_enforcementVars
  PROVE  CallsFit'
<1>0. EnforcementTyped /\ CallsFit /\ Inv  BY DEF EnforcementInv, CallsFit
<1>1. CASE SessionStep \/ \E g \in Guards, t \in issued : Authenticate(g, t)
  <2>1. UNCHANGED <<allows, route, role, zookie, stage, reply, seen, fault>>
    BY <1>1 DEF SessionStep, Authenticate, callVars, asked
  <2>2. ASSUME NEW g \in Guards PROVE (UnderWay(g) /\ PermitIsEarned(g) /\ ReplyFits(g))'
    <3>1. stage[g] \notin {"idle", "done"} => allows' \in seen'[g]
      BY <1>0, <2>1 DEF CallsFit, UnderWay
    <3>2. guard[g] = "accepted" => guard'[g] = "accepted"  BY <1>0, <1>1, AcceptedStays
    <3> QED  BY <2>1, <3>1, <3>2, OtherCallFits
  <2> QED  BY <1>0, <2>1, <2>2 DEF CallsFit, EnforcementTyped
<1>2. ASSUME NEW g \in Guards, NEW r \in Routes, Send(g, r) PROVE CallsFit'
  <2>1. EnforcementTyped'
    <3>1. PICK p \in Roles, z \in Zookies : role' = [role EXCEPT ![g] = p]
                                         /\ zookie' = [zookie EXCEPT ![g] = z]
      BY <1>2 DEF Send, Zookies
    <3>2. role' \in [Guards -> Roles] /\ zookie' \in [Guards -> Zookies]
      BY <1>0, <3>1 DEF EnforcementTyped
    <3> QED  BY <1>0, <1>2, <3>2 DEF Send, EnforcementTyped
  <2>2. ASSUME NEW h \in Guards, h # g
        PROVE  (UnderWay(h) /\ PermitIsEarned(h) /\ ReplyFits(h))'
    <3>1. UNCHANGED <<route[h], role[h], zookie[h], stage[h], reply[h], fault[h], seen[h],
                      guard[h], allows>>
      BY <1>0, <1>2, <2>2 DEF Send, EnforcementTyped, vars
    <3>2. stage[h] \notin {"idle", "done"} => allows' \in seen'[h]
      BY <1>0, <3>1 DEF CallsFit, UnderWay
    <3> QED  BY <3>1, <3>2, OtherCallFits
  <2>3. (UnderWay(g) /\ PermitIsEarned(g) /\ ReplyFits(g))'
    <3>1. reply'[g] = "none" /\ stage'[g] = "sent" /\ allows' \in seen'[g]
      BY <1>0, <1>2 DEF Send, CallsFit, ReplyFits, EnforcementTyped
    <3> QED  BY <3>1 DEF UnderWay, PermitIsEarned, ReplyFits, ReplyHasCause
  <2> QED  BY <2>1, <2>2, <2>3 DEF CallsFit
<1>3. CASE OthersWrite
  <2>1. PICK permits \in BOOLEAN :
          /\ Rewrite(permits)
          /\ UNCHANGED <<guard, route, role, stage, reply, fault>>
    BY <1>3 DEF OthersWrite, vars
  <2>2. /\ allows' \in BOOLEAN /\ seen' \in [Guards -> SUBSET BOOLEAN]
        /\ zookie' \in [Guards -> Zookies]
        /\ \A h \in Guards :
             /\ seen[h] \subseteq seen'[h]
             /\ \/ zookie'[h] = zookie[h]
                \/ zookie[h] = "ahead" /\ zookie'[h] = "caught up"
             /\ stage[h] \notin {"idle", "done"} => allows' \in seen'[h]
    BY <2>1, RewriteKeeps
  <2>3. \A h \in Guards : (UnderWay(h) /\ PermitIsEarned(h) /\ ReplyFits(h))'
    BY <2>1, <2>2, OtherCallFits
  <2>4. EnforcementTyped'  BY <1>0, <2>1, <2>2 DEF EnforcementTyped
  <2> QED  BY <2>3, <2>4 DEF CallsFit
<1>4. ASSUME NEW g \in Guards, Administer(g) PROVE CallsFit'
  <2>1. /\ Rewrite(route[g] = "grant") /\ (route[g] = "grant") \in BOOLEAN
        /\ UNCHANGED <<guard, route, role, fault>> /\ route[g] # "sdk"
        /\ reply' = [reply EXCEPT ![g] = "ok"] /\ stage' = [stage EXCEPT ![g] = "done"]
    BY <1>4 DEF Administer, Handling, Writes, Answer, vars
  <2>2. /\ allows' \in BOOLEAN /\ seen' \in [Guards -> SUBSET BOOLEAN]
        /\ zookie' \in [Guards -> Zookies]
        /\ \A h \in Guards :
             /\ seen[h] \subseteq seen'[h]
             /\ \/ zookie'[h] = zookie[h]
                \/ zookie[h] = "ahead" /\ zookie'[h] = "caught up"
             /\ stage[h] \notin {"idle", "done"} => allows' \in seen'[h]
    BY <2>1, RewriteKeeps
  <2>3. EnforcementTyped'  BY <1>0, <2>1, <2>2 DEF EnforcementTyped
  <2>4. ASSUME NEW h \in Guards, h # g
        PROVE  (UnderWay(h) /\ PermitIsEarned(h) /\ ReplyFits(h))'
    <3>1. UNCHANGED <<route[h], role[h], stage[h], reply[h], fault[h], guard[h]>>
      BY <1>0, <2>1, <2>4 DEF EnforcementTyped
    <3> QED  BY <2>2, <3>1, OtherCallFits
  <2>5. stage'[g] = "done" /\ reply'[g] = "ok" /\ route'[g] # "sdk"
    BY <1>0, <2>1 DEF EnforcementTyped
  <2>6. (UnderWay(g) /\ PermitIsEarned(g) /\ ReplyFits(g))'
    BY <2>5 DEF UnderWay, PermitIsEarned, ReplyFits, ReplyHasCause
  <2> QED  BY <2>3, <2>4, <2>6 DEF CallsFit
<1>5. ASSUME NEW g \in Guards, Finish(g) PROVE CallsFit'
  <2>1. /\ route' = [route EXCEPT ![g] = NoRoute] /\ seen' = [seen EXCEPT ![g] = {}]
        /\ role' = [role EXCEPT ![g] = "none"] /\ zookie' = [zookie EXCEPT ![g] = "met"]
        /\ fault' = [fault EXCEPT ![g] = FALSE] /\ allows' = allows
        /\ reply' = [reply EXCEPT ![g] = "none"] /\ stage' = [stage EXCEPT ![g] = "idle"]
        /\ guard' = guard \/ guard' = [guard EXCEPT ![g] = "idle"]
    BY <1>5 DEF Finish, Answer, EndRequest, vars
  <2>2. EnforcementTyped'  BY <1>0, <2>1 DEF EnforcementTyped, Zookies, Roles
  <2>3. ASSUME NEW h \in Guards, h # g
        PROVE  (UnderWay(h) /\ PermitIsEarned(h) /\ ReplyFits(h))'
    <3>1. UNCHANGED <<route[h], role[h], zookie[h], stage[h], reply[h], fault[h], seen[h],
                      guard[h], allows>>
      BY <1>0, <2>1, <2>3 DEF EnforcementTyped, Inv, TypeOK
    <3>2. stage[h] \notin {"idle", "done"} => allows' \in seen'[h]
      BY <1>0, <3>1 DEF CallsFit, UnderWay
    <3> QED  BY <3>1, <3>2, OtherCallFits
  <2>4. stage'[g] = "idle" /\ reply'[g] = "none"
    BY <1>0, <2>1 DEF EnforcementTyped
  <2>5. (UnderWay(g) /\ PermitIsEarned(g) /\ ReplyFits(g))'
    BY <2>4 DEF UnderWay, PermitIsEarned, ReplyFits, ReplyHasCause
  <2> QED  BY <2>2, <2>3, <2>5 DEF CallsFit
<1>6. CASE UNCHANGED enforcementVars
  BY <1>0, <1>6 DEF enforcementVars, callVars, asked, vars, CallsFit, EnforcementTyped, UnderWay,
                    PermitIsEarned, ReplyFits, ReplyHasCause
<1> QED  BY <1>1, <1>2, <1>3, <1>4, <1>5, <1>6, EnforcementAnswers DEF EnforcementNext

(* Behind every client the blocklist and the enforcement points keep their *)
(* invariant.                                                              *)
THEOREM EnforcementInvAlways == ClientsSpec => []EnforcementInv
<1>1. ClientsInit => EnforcementInv
  <2>1. EnforcementInit => CallsFit
    BY DEF EnforcementInit, Zookies, Roles, CallsFit, EnforcementTyped, UnderWay, PermitIsEarned,
           ReplyFits, ReplyHasCause
  <2>2. EnforcementInit => Inv  BY InvInit DEF EnforcementInit
  <2> QED  BY <2>1, <2>2 DEF ClientsInit, EnforcementInv
<1>2. [ClientsNext]_clientVars => [EnforcementNext]_enforcementVars
  BY DEF ClientsNext, clientVars
<1>3. EnforcementInv /\ [EnforcementNext]_enforcementVars => EnforcementInv'
  BY EnforcementStep, InvNext, CallsFitNext DEF EnforcementInv
<1> QED  BY <1>1, <1>2, <1>3, PTL DEF ClientsSpec

(***************************************************************************)
(* A protected handler runs only on a permit of its own request and with a *)
(* token that the guard accepted and no earlier revocation covers, in a    *)
(* store that has reached the request's consistency token, and every       *)
(* refusal has its cause: for any number of requests, whatever fails, is   *)
(* lost or comes late, and whatever owners write meanwhile.                *)
(***************************************************************************)
THEOREM AccessFollowsDecisionsAlways == ClientsSpec => []AccessFollowsDecisions
<1>1. EnforcementInv => AccessFollowsDecisions
  BY DEF EnforcementInv, CallsFit, PermitIsEarned, ReplyFits, ReplyHasCause, Inv, Unavailable,
         OlderTokensStayRevoked, AccessFollowsDecisions, HandlersRunAuthorised, RefusalsHaveCause
<1> QED  BY <1>1, EnforcementInvAlways, PTL

(* The guarantee of the blocklist holds behind the enforcement points. *)
THEOREM TokensStayRevokedBehindClients == ClientsSpec => []OlderTokensStayRevoked
<1>1. EnforcementInv => OlderTokensStayRevoked  BY DEF EnforcementInv, Inv
<1> QED  BY <1>1, EnforcementInvAlways, PTL

-----------------------------------------------------------------------------
(* A request that the tab sends has the shape of one. *)
LEMMA Requested ==
  ASSUME PanelTyped, NEW n, NEW op \in Operations \cup {"status", "render", "logout"},
         NEW g, g = Request(op, n)
  PROVE  FlightTyped(g) /\ g.op = op /\ g.mount = panel.mount /\ g.reply = "none"
BY DEF PanelTyped, FlightTyped, Request, Replies

(* The page is not, or no longer, the panel. *)
LEMMA NobodyWaits ==
  ASSUME page' # "panel", \A f \in flights' : f.mount <= panel'.mount
  PROVE  (OneAtATime /\ ShownCodesWork)'
BY DEF OneAtATime, Pending, Waited, ShownCodesWork

(* A request is answered at the API while the tab stays as it is.  If it   *)
(* made codes, nobody else's are on their way, or nobody waits for its.    *)
LEMMA AnsweredInPlace ==
  ASSUME ConsoleInv, NEW f \in flights, NEW r \in Replies, NEW d \in Nat,
         Replied(f, r, d), UNCHANGED <<page, panel>>,
         \/ mfa'.batch = mfa.batch /\ stray' = stray
         \/ Pending(f)
         \/ stray',
         (Pending(f) /\ f.op \in {"activate", "regenerate"} /\ r \in {"ok", "on", "off"}) =>
           (d = mfa'.batch \/ stray')
  PROVE  /\ \A g \in flights' : FlightTyped(g)
         /\ OneAtATime'
         /\ ShownCodesWork'
<1>0. PICK a : a = [f EXCEPT !.reply = r, !.data = d]  OBVIOUS
<1>1. FlightTyped(a) /\ a.op = f.op /\ a.mount = f.mount /\ a.reply = r /\ a.data = d
  <2>1. FlightTyped(f)  BY DEF ConsoleInv, ConsoleTyped
  <2>2. a \in [id : {f.id}, op : Operations \cup {"status", "render", "logout"}, mount : Nat,
               token : {f.token}, reply : Replies, data : Nat]
    BY <1>0, <2>1 DEF FlightTyped
  <2>3. a.op = f.op /\ a.mount = f.mount /\ a.reply = r /\ a.data = d
    BY <1>0, <2>1 DEF FlightTyped
  <2>4. a.id = f.id /\ a.token = f.token  BY <2>2
  <2> QED  BY <2>2, <2>3, <2>4 DEF FlightTyped
<1>2. flights' \subseteq (flights \ {f}) \cup {a}  BY <1>0 DEF Replied
<1>3. \A g \in flights' : FlightTyped(g)
  BY <1>1, <1>2 DEF ConsoleInv, ConsoleTyped
<1>4. \A g : Pending(g)' <=> Pending(g)  BY DEF Pending, Waited
<1>5. Pending(a) <=> Pending(f)  BY <1>1 DEF Pending, Waited
<1>6. OneAtATime'
  <2>1. page' = "panel" => panel'.mount > 0  BY DEF ConsoleInv, OneAtATime
  <2>2. ASSUME NEW g \in flights', Pending(g)
        PROVE  /\ panel.busy /\ panel.codes = 0
               /\ \A h \in flights' : Pending(h) => h = g
               /\ (g.op \in {"activate", "regenerate"} /\ g.reply \in {"ok", "on", "off"}) =>
                    (g.data = mfa'.batch \/ stray')
    BY <1>1, <1>2, <1>5, <2>2 DEF ConsoleInv, OneAtATime
  <2>3. \A g \in flights' : g.mount <= panel.mount
    BY <1>1, <1>2 DEF ConsoleInv, OneAtATime
  <2> QED  BY <1>4, <2>1, <2>2, <2>3 DEF OneAtATime
<1>7. ShownCodesWork'
  BY DEF ConsoleInv, OneAtATime, ShownCodesWork
<1> QED  BY <1>3, <1>6, <1>7

(* The API's answers, whatever they are, keep the tab's invariant. *)
LEMMA ServingKeeps ==
  ASSUME ConsoleInv, NEW f \in flights,
         Refuse(f) \/ ServeCodes(f) \/ ServeFactor(f) \/ ServeRead(f) \/ ServeLogout(f)
  PROVE  ConsoleInv'
<1>0. ConsoleTyped  BY DEF ConsoleInv
<1>1. CASE Refuse(f)
  <2>1. PICK r \in (IF f.op = "logout" THEN {"ok"} ELSE {"401", "error", "unavailable"}) :
          Replied(f, r, 0)
    BY <1>1 DEF Refuse
  <2>2. UNCHANGED <<page, panel, mfa, stray>>  BY <1>1 DEF Refuse
  <2>3. ~(f.op \in {"activate", "regenerate"} /\ r \in {"ok", "on", "off"})  BY <2>1
  <2>4. r \in Replies  BY <2>1 DEF Replies
  <2>5. /\ \A g \in flights' : FlightTyped(g)
        /\ OneAtATime' /\ ShownCodesWork'
    BY <2>1, <2>2, <2>3, <2>4, AnsweredInPlace
  <2> QED  BY <1>0, <2>2, <2>5 DEF ConsoleInv, ConsoleTyped, FactorTyped, PanelTyped
<1>2. CASE ServeCodes(f)
  <2> DEFINE b == mfa'.batch
  <2>1. /\ mfa' = [on |-> TRUE, pending |-> mfa.pending /\ f.op # "activate",
                   batch |-> mfa.batch + 1]
        /\ Replied(f, "ok", mfa'.batch)
        /\ stray' = ~Waited(f) /\ UNCHANGED <<page, panel>>
        /\ f.op \in {"activate", "regenerate"}
    BY <1>2 DEF ServeCodes, Issues
  <2>2. b \in Nat /\ FactorTyped'  BY <1>0, <2>1 DEF ConsoleTyped, FactorTyped
  <2>3. Pending(f) \/ stray'  BY <2>1 DEF Pending, Operations
  <2>4. "ok" \in Replies  BY DEF Replies
  <2>5. Replied(f, "ok", b)  BY <2>1
  <2> HIDE DEF b
  <2>6. /\ \A g \in flights' : FlightTyped(g)
        /\ OneAtATime' /\ ShownCodesWork'
    BY <2>1, <2>2, <2>3, <2>4, <2>5, AnsweredInPlace DEF b
  <2> QED  BY <1>0, <2>1, <2>2, <2>6 DEF ConsoleInv, ConsoleTyped, PanelTyped
<1>3. CASE ServeFactor(f) \/ ServeRead(f) \/ ServeLogout(f)
  <2>1. PICK r \in {"ok", "on", "off"} : Replied(f, r, 0)
    BY <1>3 DEF ServeFactor, ServeRead, ServeLogout, Status
  <2>2. f.op \notin {"activate", "regenerate"} /\ UNCHANGED <<page, panel, stray>>
    BY <1>3 DEF ServeFactor, ServeRead, ServeLogout
  <2>3. mfa' \in {mfa, [mfa EXCEPT !.pending = TRUE], [mfa EXCEPT !.on = FALSE]}
    BY <1>3 DEF ServeFactor, ServeRead, ServeLogout
  <2>4. mfa'.batch = mfa.batch /\ FactorTyped'
    BY <1>0, <2>3 DEF ConsoleTyped, FactorTyped
  <2>5. r \in Replies  BY <2>1 DEF Replies
  <2>6. /\ \A g \in flights' : FlightTyped(g)
        /\ OneAtATime' /\ ShownCodesWork'
    BY <2>1, <2>2, <2>4, <2>5, AnsweredInPlace
  <2> QED  BY <1>0, <2>2, <2>4, <2>6 DEF ConsoleInv, ConsoleTyped, PanelTyped
<1> QED  BY <1>1, <1>2, <1>3

(* What the user does keeps the tab's invariant. *)
LEMMA UserKeeps ==
  ASSUME ConsoleInv, (\E op \in Operations : Click(op)) \/ Dismiss \/ SignOut
  PROVE  ConsoleInv'
<1>0. ConsoleTyped /\ OneAtATime /\ ShownCodesWork /\ PanelTyped
  BY DEF ConsoleInv, ConsoleTyped
<1>1. ASSUME NEW op \in Operations, Click(op) PROVE ConsoleInv'
  <2>1. PICK g : g = Request(op, clicks')  OBVIOUS
  <2>2. FlightTyped(g) /\ g.op = op /\ g.mount = panel.mount /\ g.reply = "none"
    BY <1>0, <2>1, Requested
  <2>3. /\ panel' = [panel EXCEPT !.busy = TRUE] /\ flights' = flights \cup {g}
        /\ ~panel.busy /\ page = "panel" /\ UNCHANGED <<page, mfa, stray>>
    BY <1>1, <2>1 DEF Click
  <2>4. panel.codes = 0
    <3>1. Screen \in {"off", "enrollment", "manage"}  BY <1>1 DEF Click, Offered, Operations
    <3>2. panel.status = "unknown" => Screen = "unavailable"  BY DEF Screen
    <3>3. (panel.status # "unknown" /\ panel.codes # 0) => Screen = "codes"  BY DEF Screen
    <3> QED  BY <3>1, <3>2, <3>3
  <2>5. panel'.busy /\ panel'.mount = panel.mount /\ panel'.codes = 0 /\ PanelTyped'
    BY <1>0, <2>3, <2>4 DEF PanelTyped
  <2>6. \A f \in flights : ~Pending(f)  BY <1>0, <2>3 DEF OneAtATime
  <2>7. \A f : Pending(f)' <=> Pending(f)  BY <2>3, <2>5 DEF Pending, Waited
  <2>8. OneAtATime'
    BY <1>0, <2>2, <2>3, <2>5, <2>6, <2>7 DEF OneAtATime, PanelTyped
  <2>9. ShownCodesWork'  BY <2>5 DEF ShownCodesWork
  <2> QED  BY <1>0, <2>2, <2>3, <2>5, <2>8, <2>9 DEF ConsoleInv, ConsoleTyped, FactorTyped
<1>2. CASE Dismiss
  <2>1. /\ panel' \in {[panel EXCEPT !.enrolling = FALSE], [panel EXCEPT !.codes = 0]}
        /\ UNCHANGED <<page, mfa, flights, stray>>
    BY <1>2 DEF Dismiss
  <2>2. /\ panel'.busy = panel.busy /\ panel'.mount = panel.mount
        /\ panel'.codes \in {panel.codes, 0} /\ PanelTyped'
    BY <1>0, <2>1 DEF PanelTyped
  <2>3. \A f : Pending(f)' <=> Pending(f)  BY <2>1, <2>2 DEF Pending, Waited
  <2>4. OneAtATime'  BY <1>0, <2>1, <2>2, <2>3 DEF OneAtATime
  <2>5. ShownCodesWork'  BY <1>0, <2>1, <2>2 DEF ShownCodesWork
  <2> QED  BY <1>0, <2>1, <2>2, <2>4, <2>5 DEF ConsoleInv, ConsoleTyped, FactorTyped
<1>3. CASE SignOut
  <2>1. PICK g : g = Request("logout", clicks')  OBVIOUS
  <2>2. FlightTyped(g) /\ g.op = "logout" /\ g.mount = panel.mount
    BY <1>0, <2>1, Requested
  <2>3. flights' = flights \cup {g} /\ UNCHANGED <<page, mfa, panel, stray>>
    BY <1>3, <2>1 DEF SignOut
  <2>4. \A f : Pending(f)' <=> Pending(f)  BY <2>3 DEF Pending, Waited
  <2>5. ~Pending(g)  BY <2>2 DEF Pending, Operations
  <2>6. OneAtATime'
    BY <1>0, <2>2, <2>3, <2>4, <2>5 DEF OneAtATime, PanelTyped
  <2>7. ShownCodesWork'  BY <1>0, <2>3 DEF ShownCodesWork
  <2> QED  BY <1>0, <2>2, <2>3, <2>6, <2>7
           DEF ConsoleInv, ConsoleTyped, FactorTyped, PanelTyped
<1> QED  BY <1>1, <1>2, <1>3

(* Cookies, sessions and redirects keep the tab's invariant; a panel that  *)
(* is mounted anew waits for nothing. *)
LEMMA BrowsingKeeps ==
  ASSUME ConsoleInv,
         \/ CookieExpires \/ SignIn \/ OpenLogin \/ OpenConsole
         \/ \E s \in 1 .. MaxLogins : EndSession(s)
         \/ UNCHANGED consoleVars
  PROVE  ConsoleInv'
<1>0. ConsoleTyped /\ OneAtATime /\ ShownCodesWork /\ PanelTyped
  BY DEF ConsoleInv, ConsoleTyped
<1>1. ASSUME UNCHANGED <<page, mfa, panel, flights, stray>> PROVE ConsoleInv'
  BY <1>0, <1>1 DEF ConsoleInv, ConsoleTyped, FactorTyped, PanelTyped, OneAtATime, Pending,
                    Waited, ShownCodesWork
<1>2. ASSUME page' # "panel", UNCHANGED <<mfa, panel, flights, stray>> PROVE ConsoleInv'
  <2>1. OneAtATime' /\ ShownCodesWork'
    BY <1>0, <1>2, NobodyWaits DEF OneAtATime
  <2> QED  BY <1>0, <1>2, <2>1 DEF ConsoleInv, ConsoleTyped, FactorTyped, PanelTyped
<1>3. CASE CookieExpires \/ \E s \in 1 .. MaxLogins : EndSession(s)
  BY <1>1, <1>3 DEF CookieExpires, EndSession
<1>4. CASE SignIn \/ OpenLogin
  BY <1>2, <1>4 DEF SignIn, OpenLogin
<1>5. CASE OpenConsole
  <2>1. CASE page' = "toLogin" /\ UNCHANGED panel
    BY <1>2, <1>5, <2>1 DEF OpenConsole
  <2>2. ASSUME NEW status, panel' = Mounted(panel.mount + 1, status, cookie.aal)
        PROVE  ConsoleInv'
    <3>1. panel'.mount = panel.mount + 1 /\ panel'.codes = 0 /\ panel.mount \in Nat
      BY <1>0, <2>2 DEF Mounted, PanelTyped
    <3>2. PanelTyped'  BY <3>1, <2>2 DEF Mounted, PanelTyped
    <3>3. UNCHANGED <<mfa, flights, stray>>  BY <1>5 DEF OpenConsole
    <3>4. \A f \in flights : f.mount \in Nat /\ f.mount <= panel.mount
      BY <1>0 DEF ConsoleTyped, FlightTyped, OneAtATime
    <3>5. \A f \in flights : ~Pending(f)' /\ f.mount <= panel'.mount
      BY <3>1, <3>4 DEF Pending, Waited
    <3>6. OneAtATime'  BY <3>1, <3>3, <3>5 DEF OneAtATime
    <3>7. ShownCodesWork'  BY <3>1 DEF ShownCodesWork
    <3> QED  BY <1>0, <3>2, <3>3, <3>6, <3>7 DEF ConsoleInv, ConsoleTyped, FactorTyped
  <2> QED  BY <1>5, <2>1, <2>2 DEF OpenConsole
<1>6. CASE UNCHANGED consoleVars  BY <1>1, <1>6 DEF consoleVars
<1> QED  BY <1>3, <1>4, <1>5, <1>6

(* What a success starts is a read for the same panel, never an operation. *)
LEMMA FollowUps ==
  ASSUME PanelTyped, NEW f, NEW g \in FollowUp(f)
  PROVE  FlightTyped(g) /\ g.op \notin Operations /\ g.mount = panel.mount
<1>1. CASE g = Request("status", f.id)
  BY <1>1, Requested DEF Operations
<1>2. CASE g = [Request("render", f.id) EXCEPT !.token = cookie']
  <2>1. PICK q : q = Request("render", f.id)  OBVIOUS
  <2>2. FlightTyped(q) /\ q.op = "render" /\ q.mount = panel.mount  BY <2>1, Requested
  <2>3. g = [q EXCEPT !.token = cookie']  BY <1>2, <2>1
  <2>4. g \in [id : {q.id}, op : {"render"}, mount : {panel.mount}, token : {cookie'},
               reply : Replies, data : Nat]
    BY <2>2, <2>3 DEF FlightTyped
  <2>5. g.id = q.id /\ g.token = cookie' /\ g.op = "render" /\ g.mount = panel.mount
    BY <2>4
  <2>6. panel.mount \in Nat  BY DEF PanelTyped
  <2> QED  BY <2>4, <2>5, <2>6 DEF FlightTyped, Operations
<1> QED  BY <1>1, <1>2 DEF FollowUp

(* A request leaves the tab, and what comes in its place is no operation   *)
(* that the panel waits for.  If the panel waited for the request, its     *)
(* operation is over, and the codes that it brought are the newest.        *)
LEMMA LeavingKeeps ==
  ASSUME ConsoleInv, NEW f \in flights, NEW added,
         flights' = (flights \ {f}) \cup added,
         \A g \in added : /\ FlightTyped(g) /\ g.mount <= panel.mount
                          /\ g.op \notin Operations \/ g.mount = 0,
         UNCHANGED <<mfa, stray>>, PanelTyped', panel'.mount = panel.mount,
         \/ UNCHANGED <<page, panel>>
         \/ /\ Waited(f)
            /\ page' # "panel"
         \/ /\ Waited(f) /\ page' = page /\ f.op \notin Operations
            /\ panel'.busy = panel.busy /\ panel'.codes = panel.codes
         \/ /\ Waited(f) /\ page' = page /\ f.op \in Operations
            /\ \/ panel'.codes = panel.codes
               \/ /\ f.op \in {"activate", "regenerate"} /\ f.reply \in {"ok", "on", "off"}
                  /\ panel'.codes = f.data
  PROVE  ConsoleInv'
<1>0. ConsoleTyped /\ OneAtATime /\ ShownCodesWork  BY DEF ConsoleInv
<1>1. ConsoleTyped'
  BY <1>0 DEF ConsoleTyped, FactorTyped, FlightTyped
<1>2. \A g \in flights' : g.mount <= panel'.mount
  BY <1>0 DEF OneAtATime
<1>3. CASE page' # "panel"
  <2>1. (OneAtATime /\ ShownCodesWork)'  BY <1>2, <1>3, NobodyWaits
  <2> QED  BY <1>1, <2>1 DEF ConsoleInv
<1>4. CASE page' = "panel"
  <2>0. page = "panel"  BY <1>4 DEF Waited
  <2>1. panel.mount > 0 /\ panel'.mount > 0  BY <1>0, <2>0 DEF OneAtATime
  <2>2. \A g : Pending(g)' <=> Pending(g)
    BY <1>4, <2>0 DEF Pending, Waited
  <2>3. \A g \in added : ~Pending(g)  BY <2>1 DEF Pending, Waited
  <2>4. \A g \in flights' : Pending(g) => g \in flights /\ g # f  BY <2>3
  <2>5. CASE \/ UNCHANGED <<page, panel>>
             \/ /\ f.op \notin Operations
                /\ panel'.busy = panel.busy
                /\ panel'.codes = panel.codes
    <3>1. OneAtATime'
      BY <1>0, <1>2, <2>1, <2>2, <2>4, <2>5 DEF OneAtATime
    <3>2. ShownCodesWork'  BY <1>0, <2>0, <2>5 DEF ShownCodesWork
    <3> QED  BY <1>1, <3>1, <3>2 DEF ConsoleInv
  <2>6. CASE Waited(f) /\ f.op \in Operations
    <3>1. Pending(f)  BY <2>6 DEF Pending
    <3>2. \A g \in flights' : ~Pending(g)
      BY <1>0, <2>4, <3>1 DEF OneAtATime
    <3>3. OneAtATime'  BY <1>2, <2>1, <2>2, <3>2 DEF OneAtATime
    <3>4. panel.codes = 0 /\ ((f.op \in {"activate", "regenerate"}
                               /\ f.reply \in {"ok", "on", "off"}) =>
                                 (f.data = mfa.batch \/ stray))
      BY <1>0, <3>1 DEF OneAtATime
    <3>5. ShownCodesWork'  BY <1>0, <2>0, <2>6, <3>4 DEF ShownCodesWork
    <3> QED  BY <1>1, <3>3, <3>5 DEF ConsoleInv
  <2> QED  BY <1>4, <2>5, <2>6
<1> QED  BY <1>3, <1>4

(* The panel after an answer that it waited for. *)
LEMMA PanelAnswered ==
  ASSUME PanelTyped, NEW f, FlightTyped(f),
         \/ panel' = Failed(f)
         \/ f.reply \in {"ok", "on", "off"} /\ panel' = Applied(f)
  PROVE  /\ PanelTyped' /\ panel'.mount = panel.mount
         /\ f.op \notin Operations =>
              (f.op # "logout" => panel'.busy = panel.busy) /\ panel'.codes = panel.codes
         /\ \/ panel'.codes = panel.codes
            \/ /\ f.op \in {"activate", "regenerate"} /\ f.reply \in {"ok", "on", "off"}
               /\ panel'.codes = f.data
<1>1. CASE panel' = Failed(f)
  BY <1>1 DEF PanelTyped, Failed
<1>2. CASE f.reply \in {"ok", "on", "off"} /\ panel' = Applied(f)
  <2>0. f.data \in Nat  BY DEF FlightTyped
  <2>1. CASE f.op \in {"status", "render"}
    <3>1. panel' \in {[panel EXCEPT !.status = f.reply],
                      [panel EXCEPT !.steppedUp = f.token.aal >= 2]}
      BY <1>2, <2>1 DEF Applied
    <3> QED  BY <2>1, <3>1 DEF PanelTyped
  <2>2. CASE f.op \in {"activate", "regenerate"}
    <3>1. panel' \in {[panel EXCEPT !.busy = FALSE, !.enrolling = FALSE, !.codes = f.data],
                      [panel EXCEPT !.busy = FALSE, !.codes = f.data]}
      BY <1>2, <2>2 DEF Applied
    <3>2. panel'.mount = panel.mount /\ panel'.codes = f.data  BY <3>1 DEF PanelTyped
    <3>3. PanelTyped'  BY <2>0, <3>1 DEF PanelTyped
    <3> QED  BY <1>2, <2>2, <3>2, <3>3 DEF Operations
  <2>3. CASE f.op \notin {"status", "render", "activate", "regenerate"}
    <3>1. panel' \in {[panel EXCEPT !.busy = FALSE, !.enrolling = TRUE],
                      [panel EXCEPT !.busy = FALSE]}
      BY <1>2, <2>3 DEF Applied
    <3>2. panel'.mount = panel.mount /\ panel'.codes = panel.codes /\ PanelTyped'
      BY <3>1 DEF PanelTyped
    <3>3. f.op \notin Operations => f.op = "logout"  BY <2>3 DEF FlightTyped
    <3> QED  BY <3>2, <3>3
  <2> QED  BY <2>1, <2>2, <2>3
<1> QED  BY <1>1, <1>2

(* An answer that arrives, and one that does not, keep the tab's invariant. *)
LEMMA AnswersKeep ==
  ASSUME ConsoleInv, NEW f \in flights, Receive(f) \/ Lose(f)
  PROVE  ConsoleInv'
<1>0. PanelTyped /\ FlightTyped(f) /\ f.mount \in Nat /\ f.mount <= panel.mount
      /\ panel.mount \in Nat
  BY DEF ConsoleInv, ConsoleTyped, OneAtATime, FlightTyped, PanelTyped
<1>1. UNCHANGED <<mfa, stray>>  BY DEF Receive, Lose
<1>2. CASE Receive(f) /\ ~Waited(f)
  <2>1. PICK added : added = {}  OBVIOUS
  <2>2. flights' = (flights \ {f}) \cup added /\ UNCHANGED <<page, panel>>
    BY <1>2, <2>1 DEF Receive
  <2>3. PanelTyped' /\ panel'.mount = panel.mount  BY <1>0, <2>2 DEF PanelTyped
  <2>4. \A g \in added : FALSE  BY <2>1
  <2> QED  BY <1>1, <2>2, <2>3, <2>4, LeavingKeeps
<1>3. CASE Receive(f) /\ Waited(f)
  <2>1. /\ page' = IF f.reply = "401" \/ f.op = "logout" THEN "toLogin" ELSE page
        /\ panel' = CASE f.reply \in {"ok", "on", "off"} -> Applied(f)
                      [] f.reply = "401" -> panel
                      [] OTHER -> Failed(f)
        /\ flights' = (flights \ {f}) \cup FollowUp(f)
    BY <1>3 DEF Receive
  <2>2. \A g \in FollowUp(f) : /\ FlightTyped(g) /\ g.mount <= panel.mount
                               /\ g.op \notin Operations \/ g.mount = 0
    BY <1>0, FollowUps
  <2>3. CASE f.reply = "401"
    <3>1. page' # "panel" /\ panel' = panel  BY <2>1, <2>3
    <3> QED  BY <1>0, <1>1, <1>3, <2>1, <2>2, <3>1, LeavingKeeps DEF PanelTyped
  <2>4. CASE f.reply # "401"
    <3>1. \/ panel' = Failed(f)
          \/ f.reply \in {"ok", "on", "off"} /\ panel' = Applied(f)
      BY <2>1, <2>4
    <3>2. f.op = "logout" => page' # "panel"  BY <2>1
    <3>3. f.op # "logout" => page' = page  BY <2>1, <2>4
    <3> QED  BY <1>0, <1>1, <1>3, <2>1, <2>2, <3>1, <3>2, <3>3, PanelAnswered, LeavingKeeps
  <2> QED  BY <2>3, <2>4
<1>4. CASE Lose(f)
  <2>1. PICK added : added = IF f.reply = "none" THEN {[f EXCEPT !.mount = 0]} ELSE {}
    OBVIOUS
  <2>2. flights' = (flights \ {f}) \cup added  BY <1>4, <2>1 DEF Lose
  <2>3. \A g \in added : FlightTyped(g) /\ g.mount = 0
    BY <1>0, <2>1 DEF FlightTyped
  <2>4. \A g \in added : /\ FlightTyped(g) /\ g.mount <= panel.mount
                         /\ g.op \notin Operations \/ g.mount = 0
    BY <1>0, <2>3
  <2>5. CASE Waited(f)
    <3>1. /\ page' = IF f.op = "logout" THEN "toLogin" ELSE page
          /\ panel' = Failed(f)
      BY <1>4, <2>5 DEF Lose
    <3> QED  BY <1>0, <1>1, <2>2, <2>4, <2>5, <3>1, PanelAnswered, LeavingKeeps
  <2>6. CASE ~Waited(f)
    <3>1. UNCHANGED <<page, panel>>  BY <1>4, <2>6 DEF Lose
    <3> QED  BY <1>0, <1>1, <2>2, <2>4, <3>1, LeavingKeeps DEF PanelTyped
  <2> QED  BY <2>5, <2>6
<1> QED  BY <1>2, <1>3, <1>4

-----------------------------------------------------------------------------
LEMMA ConsoleInitially == ConsoleInit => ConsoleInv
BY DEF ConsoleInit, ConsoleInv, ConsoleTyped, FactorTyped, PanelTyped, OneAtATime,
       ShownCodesWork, Mounted

LEMMA ConsoleInvNext == ConsoleInv /\ [ConsoleNext]_consoleVars => ConsoleInv'
<1> SUFFICES ASSUME ConsoleInv, [ConsoleNext]_consoleVars PROVE ConsoleInv'
  OBVIOUS
<1>1. CASE \/ CookieExpires \/ SignIn \/ OpenLogin \/ OpenConsole
           \/ \E s \in 1 .. MaxLogins : EndSession(s)
           \/ UNCHANGED consoleVars
  BY <1>1, BrowsingKeeps
<1>2. CASE (\E op \in Operations : Click(op)) \/ Dismiss \/ SignOut
  BY <1>2, UserKeeps
<1>3. CASE \E f \in flights : \/ Refuse(f) \/ ServeCodes(f) \/ ServeFactor(f)
                              \/ ServeRead(f) \/ ServeLogout(f)
  BY <1>3, ServingKeeps
<1>4. CASE \E f \in flights : Receive(f) \/ Lose(f)
  BY <1>4, AnswersKeep
<1> QED  BY <1>1, <1>2, <1>3, <1>4 DEF ConsoleNext

(***************************************************************************)
(* ShownCodesWork, whatever the tab, the routes and the network do: the    *)
(* recovery codes on the screen are those that the API accepts, unless a   *)
(* request that the page had given up or left made newer ones.             *)
(***************************************************************************)
THEOREM ShownCodesWorkAlways == ClientsSpec => []ShownCodesWork
<1>1. ClientsInit => ConsoleInv  BY ConsoleInitially DEF ClientsInit
<1>2. ConsoleInv /\ [ClientsNext]_clientVars => ConsoleInv'
  <2>1. [ClientsNext]_clientVars => [ConsoleNext]_consoleVars
    BY DEF ClientsNext, clientVars, consoleVars
  <2> QED  BY <2>1, ConsoleInvNext
<1>3. ConsoleInv => ShownCodesWork  BY DEF ConsoleInv
<1> QED  BY <1>1, <1>2, <1>3, PTL DEF ClientsSpec
=============================================================================
