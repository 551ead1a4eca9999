--------------------------- MODULE DecisionProofs ---------------------------
(***************************************************************************)
(* Proofs about PdpCheck and MembershipIndexer, the two readers of the     *)
(* store that decisions depend on.                                         *)
(*                                                                         *)
(* PdpCheck: cached decisions match the state their key names, every       *)
(* answer is fresh, a batch spans two states at most, and the decision     *)
(* point implements PdpContract.                                           *)
(*                                                                         *)
(* MembershipIndexer: whatever ticks overlap with whatever writes, an      *)
(* index that passes the gate is the index of the graph that the reader's  *)
(* snapshot holds.  GateIsSound speaks of committed indexes only.  Its     *)
(* strengthening says the same of what a tick has read so far and has      *)
(* written and not yet committed: if nothing of the organization's graph   *)
(* is newer than the watermark, the read is still current.  This holds     *)
(* since a watermark is a committed revision when it is drawn, before the  *)
(* reads, and every later change of the graph is stamped with a newer one. *)
(***************************************************************************)
EXTENDS PdpCheck, MembershipIndexer, RevisionStoreProofs

(* The steps of a call after it has read the revision. *)
Keyed == {"get", "snapshot", "evaluate", "set", "log", "done"}

(* The revision a call looks up under is committed and no older than the   *)
(* newest commit when the call began.                                      *)
KeyIsFresh ==
  \A c \in Checkers :
    /\ since[c] <= db.current
    /\ pc[c] \in Keyed => /\ key[c] \in DOMAIN hist
                          /\ since[c] <= key[c]
                          /\ key[c] <= db.current

(* An open transaction reads the state that its revision names. *)
SnapshotIsHistory ==
  \A c \in Checkers : pc[c] = "evaluate" =>
    /\ snap[c] \in Database
    /\ snap[c].current \in DOMAIN hist
    /\ hist[snap[c].current] = snap[c]
    /\ since[c] <= snap[c].current

(* Result a answers request q soundly for a call that began at `begun'. *)
Sound(q, a, begun) ==
  /\ q # NoRequest
  /\ q.org = NoOrg =>
       a.outcome = "no_org_context" /\ a.rev = 0 /\ a.cacheable = FALSE
  /\ q.org # NoOrg =>
       /\ a.rev \in DOMAIN hist
       /\ begun <= a.rev
       /\ (q.mode = "at-least" /\ a.rev < q.token) =>
            a.outcome = "consistency_unavailable" /\ a.cacheable = FALSE
       /\ ~(q.mode = "at-least" /\ a.rev < q.token) =>
            /\ a.outcome = Decide(hist[a.rev], q.org, q.subject, q.ctx)
            /\ a.cacheable = TRUE => Applicable(hist[a.rev], q.org) = {}

ResultsAreSound ==
  \A c \in Checkers : \A i \in Slots :
    result[c][i] # NoResult =>
      pc[c] \in Keyed /\ Sound(call[c][i], result[c][i], since[c])

(* After the evaluation every slot of the call has its result. *)
EverySlotAnswered ==
  \A c \in Checkers : pc[c] \in {"set", "log", "done"} =>
    \A i \in Slots : call[c][i] # NoRequest => result[c][i] # NoResult

Inv ==
  /\ StoreInv
  /\ PdpTypeOK
  /\ CacheEntriesMatchHistory
  /\ KeyIsFresh
  /\ SnapshotIsHistory
  /\ ResultsAreSound
  /\ EverySlotAnswered

-----------------------------------------------------------------------------
(* Where no policy applies the decision is the ReBAC decision, in every    *)
(* context: what makes such a decision cacheable.                          *)
LEMMA DecideWithoutPolicies ==
  ASSUME NEW s, NEW org, NEW subject, NEW ctx, Applicable(s, org) = {}
  PROVE  Decide(s, org, subject, ctx) = Rebac(s, org, subject)
BY DEF Decide, Rebac

(* A decision is an effect, ALLOW or DENY. *)
LEMMA DecideType ==
  ASSUME NEW s, NEW org, NEW subject, NEW ctx
  PROVE  Decide(s, org, subject, ctx) \in Effect
BY DEF Decide, Effect

(* The inductive invariant holds initially. *)
LEMMA InvInit ==
  ASSUME Init PROVE Inv
<1> USE RevisionStoreAssumption, PdpCheckAssumption DEF Slots
<1>1. StoreInv  BY StoreInvInit DEF Init
<1>2. PdpTypeOK  BY DEF Init, PdpInit, PdpTypeOK
<1>3. db.current \in Nat /\ db.current >= 0
  BY <1>1 DEF StoreInv, StoreTypeOK, Database
<1> QED
  BY <1>1, <1>2, <1>3 DEF Init, PdpInit, Inv, CacheEntriesMatchHistory, KeyIsFresh,
     SnapshotIsHistory, ResultsAreSound, EverySlotAnswered, Keyed

(* A write never disturbs the decision point: it only adds to the history. *)
LEMMA StoreStepKeepsInv ==
  ASSUME Inv, [StoreNext]_storeVars, UNCHANGED pdpVars
  PROVE  Inv'
<1>1. StoreInv'  BY StoreInvNext DEF Inv
<1>3. db.current \in Nat /\ db'.current \in Nat
  BY <1>1 DEF Inv, StoreInv, StoreTypeOK, Database
<1>2. /\ db'.current >= db.current
      /\ \A r \in DOMAIN hist : r \in DOMAIN hist' /\ hist'[r] = hist[r]
  <2>1. /\ db' # db => db'.current > db.current
        /\ \A r \in DOMAIN hist : r \in DOMAIN hist' /\ hist'[r] = hist[r]
    BY HistoryGrows DEF Inv
  <2> QED  BY <1>3, <2>1
<1>4. PdpTypeOK'
  BY DEF Inv, PdpTypeOK, pdpVars
<1>5. CacheEntriesMatchHistory'
  BY <1>2 DEF Inv, CacheEntriesMatchHistory, pdpVars
<1>6. KeyIsFresh'
  BY <1>2, <1>3 DEF Inv, KeyIsFresh, pdpVars, PdpTypeOK
<1>7. SnapshotIsHistory'
  BY <1>2 DEF Inv, SnapshotIsHistory, pdpVars
<1>8. ResultsAreSound'
  BY <1>2 DEF Inv, ResultsAreSound, Sound, pdpVars
<1>9. EverySlotAnswered'
  BY DEF Inv, EverySlotAnswered, pdpVars
<1> QED  BY <1>1, <1>4, <1>5, <1>6, <1>7, <1>8, <1>9 DEF Inv

-----------------------------------------------------------------------------
(* The store does not change in a step of the decision point. *)
LEMMA StoreInvKept ==
  ASSUME Inv, UNCHANGED <<db, seq, pending, hist>>
  PROVE  StoreInv'
BY DEF Inv, StoreInv, StoreTypeOK, RevisionNamesSnapshot, HistoryIndexed,
       PendingIsNewest

(* Facts about the store that the steps below use. *)
LEMMA CurrentFacts ==
  ASSUME Inv
  PROVE  /\ db \in Database
         /\ db.current \in 0 .. MaxRevision
         /\ db.current \in DOMAIN hist
         /\ hist[db.current] = db
         /\ DOMAIN hist \subseteq 0 .. MaxRevision
BY RevisionStoreAssumption
   DEF Inv, StoreInv, StoreTypeOK, RevisionNamesSnapshot, HistoryIndexed,
       PendingIsNewest, Database

(* A call starts: it holds no view and no results. *)
LEMMA InvokeKeepsInv ==
  ASSUME Inv, NEW c \in Checkers, NEW slots \in Calls, Invoke(c, slots)
  PROVE  Inv'
<1> USE PdpCheckAssumption DEF Invoke
<1>1. StoreInv'  BY StoreInvKept
<1>2. PdpTypeOK'  BY CurrentFacts DEF Inv, PdpTypeOK
<1>3. CacheEntriesMatchHistory'  BY DEF Inv, CacheEntriesMatchHistory
<1>4. KeyIsFresh'  BY CurrentFacts DEF Inv, KeyIsFresh, PdpTypeOK, Keyed
<1>5. SnapshotIsHistory'  BY DEF Inv, SnapshotIsHistory, PdpTypeOK
<1>6. ResultsAreSound'
  <2> SUFFICES ASSUME NEW d \in Checkers, NEW i \in Slots, result'[d][i] # NoResult
               PROVE  (pc[d] \in Keyed /\ Sound(call[d][i], result[d][i], since[d]))'
    BY DEF ResultsAreSound
  <2>1. pc[d] \in Keyed /\ Sound(call[d][i], result[d][i], since[d])
    BY DEF Inv, ResultsAreSound
  <2>2. d # c  BY <2>1 DEF Keyed
  <2>3. call'[d] = call[d] /\ since'[d] = since[d] /\ pc'[d] = pc[d]
    BY <2>2 DEF Inv, PdpTypeOK
  <2> QED  BY <2>1, <2>3 DEF Sound
<1>7. EverySlotAnswered'  BY DEF Inv, EverySlotAnswered, PdpTypeOK
<1> QED  BY <1>1, <1>2, <1>3, <1>4, <1>5, <1>6, <1>7 DEF Inv

(* revisions.current: the view of the call is the committed revision. *)
LEMMA ReadRevisionKeepsInv ==
  ASSUME Inv, NEW c \in Checkers, ReadRevision(c)
  PROVE  Inv'
<1> USE PdpCheckAssumption DEF ReadRevision
<1>1. StoreInv'  BY StoreInvKept
<1>2. PdpTypeOK'  BY CurrentFacts DEF Inv, PdpTypeOK, Slots
<1>3. CacheEntriesMatchHistory'  BY DEF Inv, CacheEntriesMatchHistory
<1>4. KeyIsFresh'  BY CurrentFacts DEF Inv, KeyIsFresh, PdpTypeOK, Keyed
<1>5. SnapshotIsHistory'  BY DEF Inv, SnapshotIsHistory, PdpTypeOK
<1>6. ResultsAreSound'
  <2> SUFFICES ASSUME NEW d \in Checkers, NEW i \in Slots, result'[d][i] # NoResult
               PROVE  (pc[d] \in Keyed /\ Sound(call[d][i], result[d][i], since[d]))'
    BY DEF ResultsAreSound
  <2>1. pc[d] \in Keyed /\ Sound(call[d][i], result[d][i], since[d])
    BY DEF Inv, ResultsAreSound
  <2>2. d # c  BY <2>1 DEF Keyed
  <2>3. call'[d] = call[d] /\ since'[d] = since[d] /\ pc'[d] = pc[d]
    BY <2>2 DEF Inv, PdpTypeOK
  <2> QED  BY <2>1, <2>3 DEF Sound
<1>7. EverySlotAnswered'  BY DEF Inv, EverySlotAnswered, PdpTypeOK
<1> QED  BY <1>1, <1>2, <1>3, <1>4, <1>5, <1>6, <1>7 DEF Inv

(* A hit is the decision of the state its key names: no policy applied     *)
(* there, so the context of the request that filled the entry is nothing   *)
(* to the request that reads it.                                           *)
LEMMA HitIsSound ==
  ASSUME Inv, NEW c \in Checkers, NEW i \in Slots, pc[c] = "get",
         HasKey(call[c][i]), EntryFor(c, call[c][i]) # NoEntry
  PROVE  LET a == [outcome |-> EntryFor(c, call[c][i]), rev |-> key[c],
                   cacheable |-> TRUE, hit |-> TRUE]
         IN a \in Result /\ Sound(call[c][i], a, since[c])
<1> DEFINE q == call[c][i]
           k == <<q.org, q.subject, key[c]>>
           a == [outcome |-> cache[k], rev |-> key[c], cacheable |-> TRUE,
                 hit |-> TRUE]
<1>1. q \in Request /\ q.org \in Orgs /\ q.subject \in Subjects
      /\ q.mode = "full" /\ q # NoRequest
  BY PdpCheckAssumption DEF Inv, PdpTypeOK, HasKey, Request
<1>2. key[c] \in 0 .. MaxRevision /\ key[c] \in DOMAIN hist /\ since[c] <= key[c]
  BY DEF Inv, KeyIsFresh, PdpTypeOK, Keyed
<1>3. k \in DOMAIN cache /\ cache[k] \in Effect /\ k[1] = q.org
      /\ k[2] = q.subject /\ k[3] = key[c]
  BY <1>1, <1>2 DEF Inv, PdpTypeOK, EntryFor
<1>4. Applicable(hist[key[c]], q.org) = {}
      /\ cache[k] = Rebac(hist[key[c]], q.org, q.subject)
  BY <1>3 DEF Inv, CacheEntriesMatchHistory, EntryFor
<1>5. cache[k] = Decide(hist[key[c]], q.org, q.subject, q.ctx)
  BY <1>4, DecideWithoutPolicies
<1>6. a \in Result  BY <1>2, <1>3 DEF Result, Outcome
<1>7. q.org # NoOrg  BY <1>1, PdpCheckAssumption
<1>8. Sound(q, a, since[c])
  BY <1>1, <1>2, <1>4, <1>5, <1>7 DEF Sound
<1> QED  BY <1>6, <1>8 DEF EntryFor

(* A hit takes an entry of the revision that was read; a miss takes nothing. *)
LEMMA CacheGetKeepsInv ==
  ASSUME Inv, NEW c \in Checkers, CacheGet(c)
  PROVE  Inv'
<1> USE PdpCheckAssumption
<1> DEFINE after == IF Misses(c, result'[c]) = {} THEN "log" ELSE "snapshot"
<1>1. /\ pc[c] = "get"
      /\ Advance(c, "get", after)
      /\ UNCHANGED <<db, seq, pending, hist, cache, call, key, snap, since>>
  BY DEF CacheGet
<1>2. /\ idx' \in [Checkers -> Slots]
      /\ pc' = [pc EXCEPT ![c] = IF idx[c] < NumSlots THEN "get" ELSE after]
  BY <1>1, PdpCheckAssumption DEF Advance, Inv, PdpTypeOK, Slots
<1>3. idx[c] \in Slots  BY DEF Inv, PdpTypeOK
<1>4. \/ result' = result
      \/ /\ result' \in [Checkers -> [Slots -> Result \cup {NoResult}]]
         /\ \A d \in Checkers : d # c => result'[d] = result[d]
         /\ \A i \in Slots : i # idx[c] => result'[c][i] = result[c][i]
         /\ result'[c][idx[c]] \in Result
         /\ Sound(call[c][idx[c]], result'[c][idx[c]], since[c])
  <2>1. CASE result' = result  BY <2>1
  <2>2. CASE result' # result
    <3> DEFINE q == call[c][idx[c]]
               a == [outcome |-> EntryFor(c, q), rev |-> key[c],
                     cacheable |-> TRUE, hit |-> TRUE]
    <3>1. HasKey(q) /\ EntryFor(c, q) # NoEntry
          /\ result' = [result EXCEPT ![c][idx[c]] = a]
      BY <2>2 DEF CacheGet
    <3>2. a \in Result /\ Sound(q, a, since[c])
      BY <1>1, <1>3, <3>1, HitIsSound
    <3> HIDE DEF a
    <3>3. result \in [Checkers -> [Slots -> Result \cup {NoResult}]]
      BY DEF Inv, PdpTypeOK
    <3>4. result'[c][idx[c]] = a  BY <1>3, <3>1, <3>3
    <3> QED  BY <1>3, <3>1, <3>2, <3>3, <3>4
  <2> QED  BY <2>1, <2>2
<1>5. StoreInv'  BY <1>1, StoreInvKept
<1>6. PdpTypeOK'
  <2>1. result' \in [Checkers -> [Slots -> Result \cup {NoResult}]]
    BY <1>4 DEF Inv, PdpTypeOK
  <2> QED  BY <1>1, <1>2, <2>1 DEF Inv, PdpTypeOK
<1>7. CacheEntriesMatchHistory'  BY <1>1 DEF Inv, CacheEntriesMatchHistory
<1>8. pc'[c] \in {"get", "snapshot", "log"} /\ \A d \in Checkers : d # c => pc'[d] = pc[d]
  BY <1>2 DEF Inv, PdpTypeOK
<1>9. KeyIsFresh'
  BY <1>1, <1>8 DEF Inv, KeyIsFresh, Keyed
<1>10. SnapshotIsHistory'
  BY <1>1, <1>8 DEF Inv, SnapshotIsHistory
<1>11. ResultsAreSound'
  <2> SUFFICES ASSUME NEW d \in Checkers, NEW i \in Slots, result'[d][i] # NoResult
               PROVE  (pc[d] \in Keyed /\ Sound(call[d][i], result[d][i], since[d]))'
    BY DEF ResultsAreSound
  <2>1. pc'[d] \in Keyed
    BY <1>1, <1>4, <1>8 DEF Inv, ResultsAreSound, Keyed
  <2>2. CASE result'[d][i] = result[d][i]
    BY <1>1, <2>1, <2>2 DEF Inv, ResultsAreSound, Sound
  <2>3. CASE result'[d][i] # result[d][i]
    <3>1. d = c /\ i = idx[c]  BY <1>4, <2>3
    <3>2. Sound(call[d][i], result'[d][i], since[d])  BY <1>4, <2>3, <3>1
    <3> QED  BY <1>1, <2>1, <3>2 DEF Sound
  <2> QED  BY <2>2, <2>3
<1>12. EverySlotAnswered'
  <2> SUFFICES ASSUME NEW d \in Checkers, pc'[d] \in {"set", "log", "done"},
                      NEW i \in Slots, call'[d][i] # NoRequest
               PROVE  result'[d][i] # NoResult
    BY DEF EverySlotAnswered
  <2>1. CASE d # c
    BY <1>1, <1>4, <1>8, <2>1 DEF Inv, EverySlotAnswered
  <2>2. CASE d = c
    <3>1. after = "log"  BY <1>2, <2>2 DEF Inv, PdpTypeOK
    <3>2. Misses(c, result'[c]) = {}  BY <3>1
    <3> QED  BY <1>1, <2>2, <3>2 DEF Misses
  <2> QED  BY <2>1, <2>2
<1> QED  BY <1>5, <1>6, <1>7, <1>9, <1>10, <1>11, <1>12 DEF Inv

(* The evaluation context: the revision read again, and its snapshot. *)
LEMMA OpenContextKeepsInv ==
  ASSUME Inv, NEW c \in Checkers, OpenContext(c)
  PROVE  Inv'
<1> USE DEF OpenContext
<1>1. StoreInv'  BY StoreInvKept
<1>2. PdpTypeOK'  BY CurrentFacts DEF Inv, PdpTypeOK
<1>3. CacheEntriesMatchHistory'  BY DEF Inv, CacheEntriesMatchHistory
<1>4. KeyIsFresh'  BY DEF Inv, KeyIsFresh, PdpTypeOK, Keyed
<1>5. SnapshotIsHistory'
  BY CurrentFacts DEF Inv, SnapshotIsHistory, PdpTypeOK, KeyIsFresh
<1>6. ResultsAreSound'
  <2> SUFFICES ASSUME NEW d \in Checkers, NEW i \in Slots, result'[d][i] # NoResult
               PROVE  (pc[d] \in Keyed /\ Sound(call[d][i], result[d][i], since[d]))'
    BY DEF ResultsAreSound
  <2>1. pc[d] \in Keyed /\ Sound(call[d][i], result[d][i], since[d])
    BY DEF Inv, ResultsAreSound
  <2>2. pc'[d] \in Keyed  BY <2>1 DEF Inv, PdpTypeOK, Keyed
  <2> QED  BY <2>1, <2>2 DEF Sound
<1>7. EverySlotAnswered'  BY DEF Inv, EverySlotAnswered, PdpTypeOK
<1> QED  BY <1>1, <1>2, <1>3, <1>4, <1>5, <1>6, <1>7 DEF Inv

(* An evaluation in a snapshot of the history answers its request soundly. *)
LEMMA EvaluationIsSound ==
  ASSUME Inv, NEW c \in Checkers, NEW i \in Slots, pc[c] = "evaluate",
         call[c][i] # NoRequest
  PROVE  LET a == EvaluateWithin(snap[c], call[c][i])
         IN a \in Result /\ Sound(call[c][i], a, since[c])
<1> DEFINE q == call[c][i]
           s == snap[c]
           a == EvaluateWithin(s, q)
<1>1. s \in Database /\ s.current \in DOMAIN hist /\ hist[s.current] = s
      /\ since[c] <= s.current
  BY DEF Inv, SnapshotIsHistory
<1>2. q \in Request  BY DEF Inv, PdpTypeOK
<1>3. s.current \in Nat /\ q.token \in Nat
  BY <1>1, <1>2 DEF Database, Request
<1>4. CASE q.org = NoOrg
  BY <1>4 DEF EvaluateWithin, Result, Outcome, Sound
<1>5. CASE q.org # NoOrg /\ q.mode = "at-least" /\ q.token > s.current
  BY <1>1, <1>3, <1>5 DEF EvaluateWithin, Result, Outcome, Sound
<1>6. CASE q.org # NoOrg /\ ~(q.mode = "at-least" /\ q.token > s.current)
  <2>1. a = [outcome |-> Decide(s, q.org, q.subject, q.ctx), rev |-> s.current,
             cacheable |-> Applicable(s, q.org) = {}, hit |-> FALSE]
    BY <1>6 DEF EvaluateWithin
  <2>2. Decide(s, q.org, q.subject, q.ctx) \in Outcome
    BY DecideType DEF Outcome
  <2>3. a \in Result  BY <1>3, <2>1, <2>2 DEF Result
  <2>4. a.rev = s.current
        /\ a.outcome = Decide(s, q.org, q.subject, q.ctx)
        /\ a.cacheable = (Applicable(s, q.org) = {})
    BY <2>1
  <2> HIDE DEF a
  <2>5. Sound(q, a, since[c])
    BY <1>1, <1>3, <1>6, <2>4 DEF Sound
  <2> QED  BY <2>3, <2>5 DEF a
<1> QED  BY <1>4, <1>5, <1>6

(* The missed slots are decided in the snapshot. *)
LEMMA EvaluateKeepsInv ==
  ASSUME Inv, NEW c \in Checkers, Evaluate(c)
  PROVE  Inv'
<1> USE PdpCheckAssumption
<1>1. /\ pc[c] = "evaluate"
      /\ snap' = [snap EXCEPT ![c] = NoSnapshot]
      /\ pc' = [pc EXCEPT ![c] = "set"]
      /\ UNCHANGED <<db, seq, pending, hist, cache, call, idx, key, since>>
  BY DEF Evaluate
<1>2. /\ \A d \in Checkers : d # c => result'[d] = result[d]
      /\ \A i \in Slots : i \in Misses(c, result[c]) =>
           result'[c][i] = EvaluateWithin(snap[c], call[c][i])
      /\ \A i \in Slots : i \notin Misses(c, result[c]) => result'[c][i] = result[c][i]
      /\ DOMAIN result' = Checkers
      /\ result'[c] = [i \in Slots |-> result'[c][i]]
  BY DEF Evaluate, ReadView, Inv, PdpTypeOK
<1>3. \A i \in Slots : i \in Misses(c, result[c]) =>
        result'[c][i] \in Result /\ Sound(call[c][i], result'[c][i], since[c])
  BY <1>1, <1>2, EvaluationIsSound DEF Misses
<1>4. StoreInv'  BY <1>1, StoreInvKept
<1>5. result' \in [Checkers -> [Slots -> Result \cup {NoResult}]]
  <2>1. result \in [Checkers -> [Slots -> Result \cup {NoResult}]]
    BY DEF Inv, PdpTypeOK
  <2>2. \A i \in Slots : result'[c][i] \in Result \cup {NoResult}
    BY <1>2, <1>3, <2>1
  <2>3. result'[c] \in [Slots -> Result \cup {NoResult}]
    BY <1>2, <2>2
  <2>4. \A d \in Checkers : result'[d] \in [Slots -> Result \cup {NoResult}]
    BY <1>2, <2>1, <2>3
  <2>5. result' = [d \in Checkers |-> result'[d]]
    BY <2>1 DEF Evaluate
  <2> QED  BY <2>4, <2>5
<1>6. PdpTypeOK'  BY <1>1, <1>5 DEF Inv, PdpTypeOK
<1>7. CacheEntriesMatchHistory'  BY <1>1 DEF Inv, CacheEntriesMatchHistory
<1>8. KeyIsFresh'  BY <1>1 DEF Inv, KeyIsFresh, PdpTypeOK, Keyed
<1>9. SnapshotIsHistory'  BY <1>1 DEF Inv, SnapshotIsHistory, PdpTypeOK
<1>10. ResultsAreSound'
  <2> SUFFICES ASSUME NEW d \in Checkers, NEW i \in Slots, result'[d][i] # NoResult
               PROVE  (pc[d] \in Keyed /\ Sound(call[d][i], result[d][i], since[d]))'
    BY DEF ResultsAreSound
  <2>1. CASE d = c /\ i \in Misses(c, result[c])
    <3>1. Sound(call[d][i], result'[d][i], since[d])  BY <1>3, <2>1
    <3>2. pc'[d] \in Keyed  BY <1>1, <2>1 DEF Inv, PdpTypeOK, Keyed
    <3> QED  BY <1>1, <3>1, <3>2 DEF Sound
  <2>2. CASE ~(d = c /\ i \in Misses(c, result[c]))
    <3>1. result'[d][i] = result[d][i]  BY <1>2, <2>2
    <3>2. pc[d] \in Keyed /\ Sound(call[d][i], result[d][i], since[d])
      BY <3>1 DEF Inv, ResultsAreSound
    <3>3. pc'[d] \in Keyed  BY <1>1, <3>2 DEF Inv, PdpTypeOK, Keyed
    <3> QED  BY <1>1, <3>1, <3>2, <3>3 DEF Sound
  <2> QED  BY <2>1, <2>2
<1>11. EverySlotAnswered'
  <2> SUFFICES ASSUME NEW d \in Checkers, pc'[d] \in {"set", "log", "done"},
                      NEW i \in Slots, call'[d][i] # NoRequest
               PROVE  result'[d][i] # NoResult
    BY DEF EverySlotAnswered
  <2>1. CASE d # c
    BY <1>1, <1>2, <2>1 DEF Inv, EverySlotAnswered, PdpTypeOK
  <2>2. CASE d = c
    BY <1>1, <1>2, <1>3, <2>2 DEF Misses
  <2> QED  BY <2>1, <2>2
<1> QED  BY <1>4, <1>6, <1>7, <1>8, <1>9, <1>10, <1>11 DEF Inv

(* The result of a cacheable miss is what an entry of its revision holds. *)
LEMMA StoredIsHistory ==
  ASSUME Inv, NEW c \in Checkers, NEW i \in Slots, HasKey(call[c][i]),
         pc[c] = "set", result[c][i].cacheable
  PROVE  LET q == call[c][i]
             r == result[c][i].rev
         IN /\ q.org \in Orgs /\ q.subject \in Subjects
            /\ r \in 0 .. MaxRevision /\ r \in DOMAIN hist
            /\ Applicable(hist[r], q.org) = {}
            /\ result[c][i].outcome = Rebac(hist[r], q.org, q.subject)
            /\ result[c][i].outcome \in Effect
<1> DEFINE q == call[c][i]
           r == result[c][i].rev
<1>1. q \in Request /\ q.org \in Orgs /\ q.subject \in Subjects
      /\ q.mode = "full" /\ q # NoRequest /\ q.org # NoOrg
  BY PdpCheckAssumption DEF Inv, PdpTypeOK, HasKey, Request
<1>2. result[c][i] # NoResult
  BY <1>1 DEF Inv, EverySlotAnswered
<1>3. result[c][i] \in Result /\ Sound(q, result[c][i], since[c])
  BY <1>2 DEF Inv, ResultsAreSound, PdpTypeOK
<1>4. result[c][i].cacheable = TRUE
  BY <1>3 DEF Result
<1>5. r \in DOMAIN hist /\ Applicable(hist[r], q.org) = {}
      /\ result[c][i].outcome = Decide(hist[r], q.org, q.subject, q.ctx)
  BY <1>1, <1>3, <1>4 DEF Sound
<1>6. r \in 0 .. MaxRevision  BY <1>5, CurrentFacts
<1>7. result[c][i].outcome = Rebac(hist[r], q.org, q.subject)
  BY <1>5, DecideWithoutPolicies
<1>8. result[c][i].outcome \in Effect  BY <1>5, DecideType
<1> QED  BY <1>1, <1>5, <1>6, <1>7, <1>8

(* Cacheable results enter the cache under the key of their revision. *)
LEMMA CacheSetKeepsInv ==
  ASSUME Inv, NEW c \in Checkers, CacheSet(c)
  PROVE  Inv'
<1> USE PdpCheckAssumption
<1>1. /\ pc[c] = "set"
      /\ Advance(c, "set", "log")
      /\ UNCHANGED <<db, seq, pending, hist, call, key, snap, result, since>>
  BY DEF CacheSet
<1>2. /\ idx' \in [Checkers -> Slots]
      /\ pc' = [pc EXCEPT ![c] = IF idx[c] < NumSlots THEN "set" ELSE "log"]
  BY <1>1 DEF Advance, Inv, PdpTypeOK, Slots
<1>3. pc'[c] \in {"set", "log"} /\ \A d \in Checkers : d # c => pc'[d] = pc[d]
  BY <1>2 DEF Inv, PdpTypeOK
<1>4. /\ cache' \in [Orgs \X Subjects \X (0 .. MaxRevision) -> Effect \cup {NoEntry}]
      /\ CacheEntriesMatchHistory'
  <2>1. CASE cache' = cache
    BY <1>1, <2>1 DEF Inv, PdpTypeOK, CacheEntriesMatchHistory
  <2>2. CASE cache' # cache
    <3> DEFINE i == idx[c]
               q == call[c][i]
               r == result[c][i].rev
               k == <<q.org, q.subject, r>>
               out == result[c][i].outcome
    <3>1. i \in Slots /\ HasKey(q) /\ result[c][i].cacheable
          /\ cache' = [cache EXCEPT ![k] = out]
      BY <2>2 DEF CacheSet, StoreKey, Inv, PdpTypeOK
    <3>2. /\ q.org \in Orgs /\ q.subject \in Subjects
          /\ r \in 0 .. MaxRevision /\ r \in DOMAIN hist
          /\ Applicable(hist[r], q.org) = {}
          /\ out = Rebac(hist[r], q.org, q.subject)
          /\ out \in Effect
      BY <1>1, <3>1, StoredIsHistory
    <3>3. cache \in [Orgs \X Subjects \X (0 .. MaxRevision) -> Effect \cup {NoEntry}]
      BY DEF Inv, PdpTypeOK
    <3>4. k \in DOMAIN cache /\ k[1] = q.org /\ k[2] = q.subject /\ k[3] = r
      BY <3>2, <3>3
    <3> HIDE DEF k, out
    <3>5. cache' \in [Orgs \X Subjects \X (0 .. MaxRevision) -> Effect \cup {NoEntry}]
      BY <3>1, <3>2, <3>3
    <3>6. ASSUME NEW j \in DOMAIN cache, cache'[j] # NoEntry
          PROVE  /\ j[3] \in DOMAIN hist
                 /\ Applicable(hist[j[3]], j[1]) = {}
                 /\ cache'[j] = Rebac(hist[j[3]], j[1], j[2])
      <4>1. CASE j = k  BY <3>1, <3>2, <3>3, <3>4, <4>1
      <4>2. CASE j # k
        <5>1. cache'[j] = cache[j]  BY <3>1, <3>3, <4>2
        <5> QED  BY <3>6, <5>1 DEF Inv, CacheEntriesMatchHistory
      <4> QED  BY <4>1, <4>2
    <3>7. DOMAIN cache' = DOMAIN cache  BY <3>3, <3>5
    <3> QED  BY <1>1, <3>5, <3>6, <3>7 DEF CacheEntriesMatchHistory
  <2> QED  BY <2>1, <2>2
<1>5. StoreInv'  BY <1>1, StoreInvKept
<1>6. PdpTypeOK'  BY <1>1, <1>2, <1>4 DEF Inv, PdpTypeOK
<1>7. KeyIsFresh'  BY <1>1, <1>3 DEF Inv, KeyIsFresh, Keyed
<1>8. SnapshotIsHistory'  BY <1>1, <1>3 DEF Inv, SnapshotIsHistory
<1>9. ResultsAreSound'
  <2> SUFFICES ASSUME NEW d \in Checkers, NEW i \in Slots, result'[d][i] # NoResult
               PROVE  (pc[d] \in Keyed /\ Sound(call[d][i], result[d][i], since[d]))'
    BY DEF ResultsAreSound
  <2>1. pc[d] \in Keyed /\ Sound(call[d][i], result[d][i], since[d])
    BY <1>1 DEF Inv, ResultsAreSound
  <2>2. pc'[d] \in Keyed  BY <1>3, <2>1 DEF Keyed
  <2> QED  BY <1>1, <2>1, <2>2 DEF Sound
<1>10. EverySlotAnswered'  BY <1>1, <1>3 DEF Inv, EverySlotAnswered
<1> QED  BY <1>4, <1>5, <1>6, <1>7, <1>8, <1>9, <1>10 DEF Inv

(* The decision log records the results and changes none. *)
LEMMA LogKeepsInv ==
  ASSUME Inv, NEW c \in Checkers, Log(c)
  PROVE  Inv'
<1> USE DEF Log
<1>1. StoreInv'  BY StoreInvKept
<1>2. PdpTypeOK'  BY DEF Inv, PdpTypeOK
<1>3. CacheEntriesMatchHistory'  BY DEF Inv, CacheEntriesMatchHistory
<1>4. KeyIsFresh'  BY DEF Inv, KeyIsFresh, PdpTypeOK, Keyed
<1>5. SnapshotIsHistory'  BY DEF Inv, SnapshotIsHistory, PdpTypeOK
<1>6. ResultsAreSound'
  <2> SUFFICES ASSUME NEW d \in Checkers, NEW i \in Slots, result'[d][i] # NoResult
               PROVE  (pc[d] \in Keyed /\ Sound(call[d][i], result[d][i], since[d]))'
    BY DEF ResultsAreSound
  <2>1. pc[d] \in Keyed /\ Sound(call[d][i], result[d][i], since[d])
    BY DEF Inv, ResultsAreSound
  <2>2. pc'[d] \in Keyed  BY <2>1 DEF Inv, PdpTypeOK, Keyed
  <2> QED  BY <2>1, <2>2 DEF Sound
<1>7. EverySlotAnswered'  BY DEF Inv, EverySlotAnswered, PdpTypeOK
<1> QED  BY <1>1, <1>2, <1>3, <1>4, <1>5, <1>6, <1>7 DEF Inv

(* Return and Fail: the call is over and holds nothing. *)
LEMMA ForgetKeepsInv ==
  ASSUME Inv, NEW c \in Checkers, Forget(c)
  PROVE  Inv'
<1> USE PdpCheckAssumption DEF Forget
<1>1. StoreInv'  BY StoreInvKept
<1>2. PdpTypeOK'  BY RevisionStoreAssumption DEF Inv, PdpTypeOK, Slots
<1>3. CacheEntriesMatchHistory'  BY DEF Inv, CacheEntriesMatchHistory
<1>4. KeyIsFresh'  BY CurrentFacts DEF Inv, KeyIsFresh, PdpTypeOK, Keyed
<1>5. SnapshotIsHistory'  BY DEF Inv, SnapshotIsHistory, PdpTypeOK
<1>6. ResultsAreSound'
  <2> SUFFICES ASSUME NEW d \in Checkers, NEW i \in Slots, result'[d][i] # NoResult
               PROVE  (pc[d] \in Keyed /\ Sound(call[d][i], result[d][i], since[d]))'
    BY DEF ResultsAreSound
  <2>1. d # c  BY DEF Inv, PdpTypeOK
  <2>2. call'[d] = call[d] /\ since'[d] = since[d] /\ pc'[d] = pc[d]
        /\ result'[d] = result[d]
    BY <2>1 DEF Inv, PdpTypeOK
  <2>3. pc[d] \in Keyed /\ Sound(call[d][i], result[d][i], since[d])
    BY <2>2 DEF Inv, ResultsAreSound
  <2> QED  BY <2>2, <2>3 DEF Sound
<1>7. EverySlotAnswered'  BY DEF Inv, EverySlotAnswered, PdpTypeOK
<1> QED  BY <1>1, <1>2, <1>3, <1>4, <1>5, <1>6, <1>7 DEF Inv

(* An entry leaves the cache at the end of its TTL. *)
LEMMA ExpireKeepsInv ==
  ASSUME Inv, NEW k \in DOMAIN cache, Expire(k)
  PROVE  Inv'
<1> USE DEF Expire
<1>1. StoreInv'  BY StoreInvKept
<1>2. PdpTypeOK'  BY DEF Inv, PdpTypeOK
<1>3. CacheEntriesMatchHistory'  BY DEF Inv, CacheEntriesMatchHistory, PdpTypeOK
<1>4. KeyIsFresh'  BY DEF Inv, KeyIsFresh
<1>5. SnapshotIsHistory'  BY DEF Inv, SnapshotIsHistory
<1>6. ResultsAreSound'  BY DEF Inv, ResultsAreSound, Sound
<1>7. EverySlotAnswered'  BY DEF Inv, EverySlotAnswered
<1> QED  BY <1>1, <1>2, <1>3, <1>4, <1>5, <1>6, <1>7 DEF Inv

(* Every step keeps the inductive invariant. *)
LEMMA InvNext ==
  ASSUME Inv, [Next]_vars PROVE Inv'
<1>1. CASE UNCHANGED vars
  <2>1. UNCHANGED storeVars /\ UNCHANGED pdpVars
    BY <1>1 DEF vars, storeVars, pdpVars
  <2> QED  BY <2>1, StoreStepKeepsInv
<1>2. CASE StoreNext /\ UNCHANGED pdpVars
  BY <1>2, StoreStepKeepsInv
<1>3. CASE PdpNext
  <2>1. ASSUME NEW c \in Checkers, NEW slots \in Calls, Invoke(c, slots) PROVE Inv'
    BY <2>1, InvokeKeepsInv
  <2>2. ASSUME NEW c \in Checkers, ReadRevision(c) PROVE Inv'
    BY <2>2, ReadRevisionKeepsInv
  <2>3. ASSUME NEW c \in Checkers, CacheGet(c) PROVE Inv'
    BY <2>3, CacheGetKeepsInv
  <2>4. ASSUME NEW c \in Checkers, OpenContext(c) PROVE Inv'
    BY <2>4, OpenContextKeepsInv
  <2>5. ASSUME NEW c \in Checkers, Evaluate(c) PROVE Inv'
    BY <2>5, EvaluateKeepsInv
  <2>6. ASSUME NEW c \in Checkers, CacheSet(c) PROVE Inv'
    BY <2>6, CacheSetKeepsInv
  <2>7. ASSUME NEW c \in Checkers, Log(c) PROVE Inv'
    BY <2>7, LogKeepsInv
  <2>8. ASSUME NEW c \in Checkers, Return(c) \/ Fail(c) PROVE Inv'
    BY <2>8, ForgetKeepsInv DEF Return, Fail
  <2>9. ASSUME NEW k \in DOMAIN cache, Expire(k) PROVE Inv'
    BY <2>9, ExpireKeepsInv
  <2> QED
    BY <1>3, <2>1, <2>2, <2>3, <2>4, <2>5, <2>6, <2>7, <2>8, <2>9 DEF PdpNext
<1> QED  BY <1>1, <1>2, <1>3 DEF Next

(* The inductive invariant holds in every reachable state. *)
THEOREM InvAlways == Spec => []Inv
<1>1. Init => Inv  BY InvInit
<1>2. Inv /\ [Next]_vars => Inv'  BY InvNext
<1> QED  BY <1>1, <1>2, PTL DEF Spec

(* Types, for any number of organizations, calls, slots and revisions. *)
THEOREM TypeCorrect == Spec => []TypeOK
<1>1. Inv => TypeOK  BY DEF Inv, StoreInv, TypeOK
<1> QED  BY <1>1, InvAlways, PTL

(* An entry of the decision cache is the decision of the state its         *)
(* revision names, whatever interleaving of writers, calls and expiries    *)
(* led to it.                                                              *)
THEOREM CacheIsCoherent == Spec => []CacheEntriesMatchHistory
<1>1. Inv => CacheEntriesMatchHistory  BY DEF Inv
<1> QED  BY <1>1, InvAlways, PTL

(* No new enemy: the answers of check and batchCheck are fresh. *)
THEOREM AnswersAreAlwaysFresh == Spec => []AnswersAreFresh
<1>1. Inv => AnswersAreFresh
  <2> SUFFICES ASSUME Inv, NEW c \in Checkers, pc[c] = "done", NEW i \in Slots,
                      call[c][i] # NoRequest, call[c][i].org # NoOrg
               PROVE  /\ result[c][i].rev >= since[c]
                      /\ IF call[c][i].mode = "at-least"
                            /\ result[c][i].rev < call[c][i].token
                         THEN result[c][i].outcome = "consistency_unavailable"
                         ELSE DecisionOfItsState(c, i)
    BY DEF AnswersAreFresh
  <2>1. result[c][i] # NoResult /\ Sound(call[c][i], result[c][i], since[c])
    BY DEF Inv, EverySlotAnswered, ResultsAreSound
  <2>2. result[c][i].rev \in Nat /\ since[c] \in Nat
    BY <2>1 DEF Inv, PdpTypeOK, Result
  <2> QED  BY <2>1, <2>2 DEF Sound, DecisionOfItsState
<1> QED  BY <1>1, InvAlways, PTL

-----------------------------------------------------------------------------
(* The revisions of one batch.                                             *)

(* Slot i of the call has a decision of a state of the store.              *)
Decided(c, i) == result[c][i] # NoResult /\ call[c][i].org # NoOrg

(* A call's hits have the revision of its lookups; until its evaluation it *)
(* has only hits; its evaluations have one revision, which is no older.    *)
RevisionsOf(c) ==
  /\ pc[c] = "evaluate" => key[c] <= snap[c].current
  /\ pc[c] \in {"get", "snapshot", "evaluate"} =>
       \A i \in Slots : result[c][i] # NoResult => result[c][i].hit
  /\ \A i \in Slots : Decided(c, i) =>
       /\ result[c][i].hit => result[c][i].rev = key[c]
       /\ ~result[c][i].hit =>
            /\ key[c] <= result[c][i].rev
            /\ \A j \in Slots : (Decided(c, j) /\ ~result[c][j].hit) =>
                 result[c][j].rev = result[c][i].rev

BatchInv == \A c \in Checkers : RevisionsOf(c)

(* What another call does is nothing to this call's revisions. *)
LEMMA RevisionsKept ==
  ASSUME NEW c, RevisionsOf(c), pc'[c] = pc[c], call'[c] = call[c], key'[c] = key[c],
         snap'[c] = snap[c], result'[c] = result[c]
  PROVE  RevisionsOf(c)'
BY DEF RevisionsOf, Decided

(* A call that has no results yet has no revisions to compare. *)
LEMMA NoRevisions ==
  ASSUME NEW c, pc'[c] # "evaluate", \A i \in Slots : result'[c][i] = NoResult
  PROVE  RevisionsOf(c)'
BY DEF RevisionsOf, Decided

(* A call on its way from its revision read to its lookups, or back at rest. *)
LEMMA EmptyCallSteps ==
  ASSUME Inv, NEW c \in Checkers,
         (\E slots \in Calls : Invoke(c, slots)) \/ ReadRevision(c) \/ Forget(c)
  PROVE  RevisionsOf(c)'
<1>1. CASE (\E slots \in Calls : Invoke(c, slots)) \/ ReadRevision(c)
  <2>1. pc[c] \notin Keyed /\ pc'[c] # "evaluate" /\ result' = result
    BY <1>1 DEF Inv, PdpTypeOK, Invoke, ReadRevision, Keyed
  <2>2. \A i \in Slots : result[c][i] = NoResult
    BY <2>1 DEF Inv, ResultsAreSound
  <2> QED  BY <2>1, <2>2, NoRevisions
<1>2. CASE Forget(c)
  <2>1. pc'[c] # "evaluate" /\ result'[c] = [i \in Slots |-> NoResult]
    BY <1>2 DEF Inv, PdpTypeOK, Forget
  <2> QED  BY <2>1, NoRevisions
<1> QED  BY <1>1, <1>2

(* A lookup adds a decision of the revision it was made under. *)
LEMMA LookupKeepsRevisions ==
  ASSUME Inv, NEW c \in Checkers, RevisionsOf(c), CacheGet(c)
  PROVE  RevisionsOf(c)'
<1>1. pc[c] = "get" /\ pc'[c] \in {"get", "log", "snapshot"} /\ UNCHANGED <<call, key, snap>>
  BY DEF CacheGet, Advance, Inv, PdpTypeOK
<1>2. \A i \in Slots : \/ result'[c][i] = result[c][i]
                       \/ result'[c][i].hit /\ result'[c][i].rev = key[c]
  BY DEF CacheGet, Inv, PdpTypeOK
<1> QED  BY <1>1, <1>2 DEF RevisionsOf, Decided

(* The snapshot is opened after the revision was read. *)
LEMMA SnapshotKeepsRevisions ==
  ASSUME Inv, NEW c \in Checkers, RevisionsOf(c), OpenContext(c)
  PROVE  RevisionsOf(c)'
<1>1. /\ pc[c] = "snapshot" /\ pc'[c] = "evaluate" /\ snap'[c] = db
      /\ UNCHANGED <<call, key, result>>
  BY DEF OpenContext, Inv, PdpTypeOK
<1>2. key[c] <= db.current  BY <1>1 DEF Inv, KeyIsFresh, Keyed
<1> QED  BY <1>1, <1>2 DEF RevisionsOf, Decided

(* The evaluations are all of the snapshot's revision. *)
LEMMA EvaluationKeepsRevisions ==
  ASSUME Inv, NEW c \in Checkers, RevisionsOf(c), Evaluate(c)
  PROVE  RevisionsOf(c)'
<1>1. /\ pc[c] = "evaluate" /\ pc'[c] = "set" /\ UNCHANGED <<call, key>>
      /\ key[c] <= snap[c].current
  BY DEF Evaluate, Inv, PdpTypeOK, RevisionsOf
<1>2. ASSUME NEW i \in Slots
      PROVE  IF i \in Misses(c, result[c])
             THEN result'[c][i] = EvaluateWithin(snap[c], call[c][i])
             ELSE result'[c][i] = result[c][i]
  BY DEF Evaluate, ReadView, Inv, PdpTypeOK
<1>3. ASSUME NEW i \in Slots, Decided(c, i)'
      PROVE  \/ result'[c][i].hit /\ result'[c][i].rev = key[c]
             \/ ~result'[c][i].hit /\ result'[c][i].rev = snap[c].current
  <2>1. call[c][i].org # NoOrg  BY <1>1, <1>3 DEF Decided
  <2>2. CASE i \in Misses(c, result[c])
    <3>1. result'[c][i] = EvaluateWithin(snap[c], call[c][i])  BY <1>2, <2>2
    <3>2. /\ EvaluateWithin(snap[c], call[c][i]).hit = FALSE
          /\ EvaluateWithin(snap[c], call[c][i]).rev = snap[c].current
      BY <2>1 DEF EvaluateWithin
    <3> QED  BY <3>1, <3>2
  <2>3. CASE i \notin Misses(c, result[c])
    BY <1>1, <1>2, <1>3, <2>1, <2>3 DEF RevisionsOf, Decided
  <2> QED  BY <2>2, <2>3
<1> QED  BY <1>1, <1>3 DEF RevisionsOf

(* Storing and logging change no result. *)
LEMMA RecordingKeepsRevisions ==
  ASSUME Inv, NEW c \in Checkers, RevisionsOf(c), CacheSet(c) \/ Log(c)
  PROVE  RevisionsOf(c)'
<1>1. pc'[c] \in {"set", "log", "done"} /\ UNCHANGED <<call, key, snap, result>>
  BY DEF CacheSet, Log, Advance, Inv, PdpTypeOK
<1> QED  BY <1>1 DEF RevisionsOf, Decided

LEMMA BatchInvNext == Inv /\ BatchInv /\ [Next]_vars => BatchInv'
<1> SUFFICES ASSUME Inv, BatchInv, [Next]_vars, NEW d \in Checkers PROVE RevisionsOf(d)'
  BY DEF BatchInv
<1>0. RevisionsOf(d)  BY DEF BatchInv
<1>1. CASE UNCHANGED <<pc, call, key, snap, result>>
  BY <1>0, <1>1, RevisionsKept
<1>2. ASSUME NEW c \in Checkers,
             \/ \E slots \in Calls : Invoke(c, slots)
             \/ ReadRevision(c) \/ CacheGet(c) \/ OpenContext(c) \/ Evaluate(c)
             \/ CacheSet(c) \/ Log(c) \/ Return(c) \/ Fail(c)
      PROVE  RevisionsOf(d)'
  <2>1. CASE d = c
    <3>1. CASE (\E slots \in Calls : Invoke(c, slots)) \/ ReadRevision(c)
               \/ Return(c) \/ Fail(c)
      BY <2>1, <3>1, EmptyCallSteps DEF Return, Fail
    <3>2. CASE CacheGet(c)  BY <1>0, <2>1, <3>2, LookupKeepsRevisions
    <3>3. CASE OpenContext(c)  BY <1>0, <2>1, <3>3, SnapshotKeepsRevisions
    <3>4. CASE Evaluate(c)  BY <1>0, <2>1, <3>4, EvaluationKeepsRevisions
    <3>5. CASE CacheSet(c) \/ Log(c)  BY <1>0, <2>1, <3>5, RecordingKeepsRevisions
    <3> QED  BY <1>2, <3>1, <3>2, <3>3, <3>4, <3>5
  <2>2. CASE d # c
    <3>1. /\ pc'[d] = pc[d] /\ call'[d] = call[d] /\ key'[d] = key[d]
          /\ snap'[d] = snap[d] /\ result'[d] = result[d]
      BY <1>2, <2>2 DEF Invoke, ReadRevision, CacheGet, OpenContext, Evaluate, CacheSet,
                        Log, Return, Fail, Forget, Advance, Inv, PdpTypeOK
    <3> QED  BY <1>0, <3>1, RevisionsKept
  <2> QED  BY <2>1, <2>2
<1>3. CASE \E k \in DOMAIN cache : Expire(k)
  BY <1>1, <1>3 DEF Expire
<1>4. CASE UNCHANGED vars \/ (StoreNext /\ UNCHANGED pdpVars)
  BY <1>1, <1>4 DEF vars, pdpVars
<1> QED  BY <1>2, <1>3, <1>4 DEF Next, PdpNext

(***************************************************************************)
(* BatchSpansTwoStates: the hits of a batch are of the revision that it    *)
(* read before its lookups, its evaluations of the one snapshot that it    *)
(* opened after them, whatever commits in between.                         *)
(***************************************************************************)
THEOREM BatchSpansTwoStatesAlways == Spec => []BatchSpansTwoStates
<1>1. Init => BatchInv
  BY DEF Init, PdpInit, BatchInv, RevisionsOf, Decided
<1>2. Inv /\ BatchInv /\ [Next]_vars => BatchInv'  BY BatchInvNext
<1>3. Inv /\ BatchInv => BatchSpansTwoStates
  <2> SUFFICES ASSUME Inv, BatchInv, NEW c \in Checkers, pc[c] = "done",
                      NEW i \in Slots, call[c][i] # NoRequest, call[c][i].org # NoOrg,
                      NEW j \in Slots, call[c][j] # NoRequest, call[c][j].org # NoOrg
               PROVE  /\ result[c][i].hit = result[c][j].hit =>
                           result[c][i].rev = result[c][j].rev
                      /\ result[c][i].hit => result[c][i].rev <= result[c][j].rev
    BY DEF BatchSpansTwoStates
  <2>1. result[c][i] \in Result /\ result[c][j] \in Result /\ Decided(c, i) /\ Decided(c, j)
    BY DEF Inv, EverySlotAnswered, PdpTypeOK, Decided
  <2>2. RevisionsOf(c) /\ key[c] \in Nat  BY DEF BatchInv, Inv, PdpTypeOK
  <2> QED  BY <2>1, <2>2 DEF RevisionsOf, Result
<1> QED  BY <1>1, <1>2, <1>3, InvAlways, PTL DEF Spec

-----------------------------------------------------------------------------
(* The refinement.  The store is the same in both specifications. *)
LEMMA SameStoreInit == ASSUME StoreInit PROVE Contract!StoreInit
BY DEF StoreInit, Contract!StoreInit

(* Every step of the store is a step of the contract's store. *)
LEMMA SameStoreNext == ASSUME StoreNext PROVE Contract!StoreNext
BY Zenon DEF StoreNext, Contract!StoreNext, Allocate, Contract!Allocate,
   RevisionLockFree, Contract!RevisionLockFree, Tuple, Contract!Tuple,
   WriteTuple, Contract!WriteTuple, RevokeTuple, Contract!RevokeTuple,
   DefineNamespace, Contract!DefineNamespace, WritePolicy, Contract!WritePolicy,
   DeletePolicy, Contract!DeletePolicy, Rollback, Contract!Rollback,
   Commit, Contract!Commit, CurrentWith, Contract!CurrentWith,
   Policy, Contract!Policy

(* The contract's view of a call. *)
PhaseOf == [c \in Checkers |-> Phase(c)]

AnswerOf == [c \in Checkers |-> Seen(c)]

(* While a call is under way its caller sees nothing of its results. *)
LEMMA SilentWhileWorking ==
  ASSUME NEW c \in Checkers, pc[c] # "done"
  PROVE  Seen(c) = [i \in Slots |-> NoResult]
BY DEF Seen

(* The same, in the next state. *)
LEMMA SilentWhileWorkingNext ==
  ASSUME NEW c \in Checkers, pc'[c] # "done"
  PROVE  Seen(c)' = [i \in Slots |-> NoResult]
BY DEF Seen

(* A step that moves one call from one working state to another is no      *)
(* step of the contract.                                                   *)
LEMMA WorkingStep ==
  ASSUME NEW c \in Checkers,
         pc[c] \notin {"idle", "done"}, pc'[c] \notin {"idle", "done"},
         \A d \in Checkers : d # c => pc'[d] = pc[d] /\ result'[d] = result[d]
  PROVE  PhaseOf' = PhaseOf /\ AnswerOf' = AnswerOf
<1>1. \A d \in Checkers : Phase(d)' = Phase(d)
  BY DEF Phase
<1>2. \A d \in Checkers : Seen(d)' = Seen(d)
  <2> SUFFICES ASSUME NEW d \in Checkers PROVE Seen(d)' = Seen(d)  OBVIOUS
  <2>1. CASE d = c
    BY <2>1, SilentWhileWorking, SilentWhileWorkingNext
  <2>2. CASE d # c
    BY <2>2 DEF Seen
  <2> QED  BY <2>1, <2>2
<1> QED  BY <1>1, <1>2 DEF PhaseOf, AnswerOf

(* Initial states map to initial states. *)
LEMMA RefinesInit == ASSUME Init PROVE Contract!ContractInit
<1>1. Contract!StoreInit  BY SameStoreInit DEF Init
<1>2. PhaseOf = [c \in Checkers |-> "idle"]
  BY DEF Init, PdpInit, PhaseOf, Phase
<1>3. AnswerOf = [c \in Checkers |-> Contract!Silent]
  BY DEF Init, PdpInit, AnswerOf, Seen, Contract!Silent, Slots
<1>4. call = [c \in Checkers |-> [i \in 1 .. NumSlots |-> NoRequest]]
      /\ since = [c \in Checkers |-> 0]
  BY DEF Init, PdpInit, Slots
<1> QED
  BY <1>1, <1>2, <1>3, <1>4 DEF Contract!ContractInit, PhaseOf, AnswerOf

(* Invoke is the contract's invocation. *)
LEMMA InvokeRefines ==
  ASSUME Inv, NEW c \in Checkers, NEW slots \in Calls, Invoke(c, slots)
  PROVE  Contract!Begin(c, slots)
<1> USE DEF Invoke
<1>1. pc[c] = "idle" /\ pc' = [pc EXCEPT ![c] = "revision"] /\ pc'[c] = "revision"
      /\ \A d \in Checkers : d # c => pc'[d] = pc[d]
  BY DEF Inv, PdpTypeOK
<1>2. PhaseOf' = [PhaseOf EXCEPT ![c] = "working"] /\ PhaseOf[c] = "idle"
  BY <1>1 DEF PhaseOf, Phase
<1>3. AnswerOf' = AnswerOf
  <2> SUFFICES ASSUME NEW d \in Checkers PROVE Seen(d)' = Seen(d)  BY DEF AnswerOf
  <2>1. CASE d = c
    BY <1>1, <2>1, SilentWhileWorking, SilentWhileWorkingNext
  <2>2. CASE d # c  BY <1>1, <2>2 DEF Seen
  <2> QED  BY <2>1, <2>2
<1> QED  BY <1>2, <1>3 DEF Contract!Begin, PhaseOf, AnswerOf

(* The log record ends the call's work: what the caller now sees is        *)
(* admissible for each of its slots.                                       *)
LEMMA LogRefines ==
  ASSUME Inv, NEW c \in Checkers, Log(c)
  PROVE  Contract!Answer(c)
<1> USE DEF Log
<1> DEFINE a == [i \in Slots |->
                   IF result[c][i] # NoResult
                   THEN [outcome |-> result[c][i].outcome, rev |-> result[c][i].rev]
                   ELSE NoResult]
<1>1. pc[c] = "log" /\ pc'[c] = "done" /\ result' = result
      /\ \A d \in Checkers : d # c => pc'[d] = pc[d]
  BY DEF Inv, PdpTypeOK
<1>2. PhaseOf' = [PhaseOf EXCEPT ![c] = "answered"] /\ PhaseOf[c] = "working"
  BY <1>1 DEF PhaseOf, Phase
<1>3. AnswerOf' = [AnswerOf EXCEPT ![c] = a]
  <2>1. Seen(c)' = a  BY <1>1 DEF Seen
  <2>2. \A d \in Checkers : d # c => Seen(d)' = Seen(d)  BY <1>1 DEF Seen
  <2> QED  BY <2>1, <2>2 DEF AnswerOf
<1>4. ASSUME NEW i \in Slots
      PROVE  /\ a[i] \in Contract!PossibleAnswer \cup {NoResult}
             /\ Contract!Admissible(call[c][i], since[c], a[i])
  <2>1. CASE call[c][i] = NoRequest
    <3>1. result[c][i] = NoResult  BY <2>1 DEF Inv, ResultsAreSound, Sound
    <3>2. a[i] = NoResult  BY <3>1
    <3> QED  BY <2>1, <3>2 DEF Contract!Admissible
  <2>2. CASE call[c][i] # NoRequest
    <3> DEFINE q == call[c][i]
               o == result[c][i].outcome
               r == result[c][i].rev
    <3>1. result[c][i] # NoResult /\ Sound(q, result[c][i], since[c])
          /\ result[c][i] \in Result
      BY <1>1, <2>2 DEF Inv, EverySlotAnswered, ResultsAreSound, PdpTypeOK
    <3>2. a[i] = [outcome |-> o, rev |-> r]  BY <3>1
    <3>3. o \in {"permit", "deny", "no_org_context", "consistency_unavailable"}
      BY <3>1 DEF Result, Outcome, Effect
    <3>4. r \in 0 .. MaxRevision
      BY <3>1, CurrentFacts, RevisionStoreAssumption DEF Sound
    <3>5. CASE q.org = NoOrg
      BY <2>2, <3>1, <3>2, <3>3, <3>4, <3>5
         DEF Sound, Contract!Admissible, Contract!PossibleAnswer
    <3>6. CASE q.org # NoOrg
      <4>1. r \in DOMAIN hist /\ since[c] <= r  BY <3>1, <3>6 DEF Sound
      <4>2. IF q.mode = "at-least" /\ r < q.token
            THEN a[i] = [outcome |-> "consistency_unavailable", rev |-> r]
            ELSE a[i] = [outcome |-> Contract!Decide(hist[r], q.org, q.subject, q.ctx),
                         rev |-> r]
        <5>1. Decide(hist[r], q.org, q.subject, q.ctx)
                = Contract!Decide(hist[r], q.org, q.subject, q.ctx)
          BY DEF Decide, Contract!Decide, Rebac, Contract!Rebac,
                 Applicable, Contract!Applicable
        <5> QED  BY <3>1, <3>2, <3>6, <5>1 DEF Sound
      <4> HIDE DEF a
      <4>3. Contract!Admissible(q, since[c], a[i])
        BY <2>2, <3>6, <4>1, <4>2 DEF Contract!Admissible
      <4> QED  BY <3>2, <3>3, <3>4, <4>3 DEF Contract!PossibleAnswer
    <3> QED  BY <3>5, <3>6
  <2> QED  BY <2>1, <2>2
<1>5. a \in [1 .. NumSlots -> Contract!PossibleAnswer \cup {NoResult}]
  BY <1>4 DEF Slots
<1> HIDE DEF a
<1> QED
  BY <1>2, <1>3, <1>4, <1>5 DEF Contract!Answer, PhaseOf, AnswerOf, Slots

(* Return and Fail end the call in the contract as well. *)
LEMMA ForgetRefines ==
  ASSUME Inv, NEW c \in Checkers, pc[c] # "idle", Forget(c)
  PROVE  Contract!End(c)
<1> USE DEF Forget
<1>1. pc'[c] = "idle" /\ \A d \in Checkers : d # c =>
        pc'[d] = pc[d] /\ result'[d] = result[d]
  BY DEF Inv, PdpTypeOK
<1>2. PhaseOf' = [PhaseOf EXCEPT ![c] = "idle"] /\ PhaseOf[c] # "idle"
  BY <1>1 DEF PhaseOf, Phase
<1>3. AnswerOf' = [AnswerOf EXCEPT ![c] = Contract!Silent]
  <2>1. Seen(c)' = Contract!Silent
    BY <1>1, SilentWhileWorkingNext DEF Contract!Silent, Slots
  <2>2. \A d \in Checkers : d # c => Seen(d)' = Seen(d)  BY <1>1 DEF Seen
  <2> QED  BY <2>1, <2>2 DEF AnswerOf
<1> QED  BY <1>2, <1>3 DEF Contract!End, PhaseOf, AnswerOf, Slots

(* Every step of the decision point is a step of the contract or none. *)
LEMMA RefinesNext ==
  ASSUME Inv, [Next]_vars PROVE [Contract!ContractNext]_(Contract!contractVars)
<1> DEFINE Abstract == <<db, seq, pending, hist, PhaseOf, call, AnswerOf, since>>
<1>0. ASSUME Abstract' = Abstract PROVE UNCHANGED Contract!contractVars
  BY <1>0 DEF Contract!contractVars, PhaseOf, AnswerOf
<1>1. CASE UNCHANGED vars
  <2>1. Abstract' = Abstract
    BY <1>1 DEF vars, PhaseOf, AnswerOf, Phase, Seen
  <2> QED  BY <1>0, <2>1
<1>2. CASE StoreNext /\ UNCHANGED pdpVars
  <2>1. PhaseOf' = PhaseOf /\ AnswerOf' = AnswerOf /\ call' = call /\ since' = since
    BY <1>2 DEF pdpVars, PhaseOf, AnswerOf, Phase, Seen
  <2>2. Contract!StoreNext  BY <1>2, SameStoreNext
  <2> QED  BY <2>1, <2>2 DEF Contract!ContractNext, PhaseOf, AnswerOf
<1>3. CASE PdpNext
  <2>1. ASSUME NEW c \in Checkers, NEW slots \in Calls, Invoke(c, slots)
        PROVE  Contract!ContractNext
    BY <2>1, InvokeRefines DEF Contract!ContractNext
  <2>2. ASSUME NEW c \in Checkers, Log(c) PROVE Contract!ContractNext
    BY <2>2, LogRefines DEF Contract!ContractNext
  <2>3. ASSUME NEW c \in Checkers, Return(c) \/ Fail(c) PROVE Contract!ContractNext
    <3>1. Contract!End(c)  BY <2>3, ForgetRefines DEF Return, Fail
    <3> QED  BY <3>1 DEF Contract!ContractNext
  <2>4. ASSUME NEW c \in Checkers,
               ReadRevision(c) \/ CacheGet(c) \/ OpenContext(c)
                 \/ Evaluate(c) \/ CacheSet(c)
        PROVE  Abstract' = Abstract
    <3>1. /\ pc[c] \notin {"idle", "done"}
          /\ pc'[c] \notin {"idle", "done"}
          /\ \A d \in Checkers : d # c => pc'[d] = pc[d] /\ result'[d] = result[d]
      BY <2>4 DEF ReadRevision, CacheGet, OpenContext, Evaluate, CacheSet, Advance,
                  Inv, PdpTypeOK
    <3>2. PhaseOf' = PhaseOf /\ AnswerOf' = AnswerOf
      BY <3>1, WorkingStep
    <3>3. UNCHANGED <<db, seq, pending, hist, call, since>>
      BY <2>4 DEF ReadRevision, CacheGet, OpenContext, Evaluate, CacheSet
    <3> QED  BY <3>2, <3>3
  <2>5. ASSUME NEW k \in DOMAIN cache, Expire(k) PROVE Abstract' = Abstract
    BY <2>5 DEF Expire, PhaseOf, AnswerOf, Phase, Seen
  <2> QED
    BY <1>0, <1>3, <2>1, <2>2, <2>3, <2>4, <2>5 DEF PdpNext
<1> QED  BY <1>1, <1>2, <1>3 DEF Next

(***************************************************************************)
(* check and batchCheck, with the cache, the snapshots and everything that *)
(* can run between two of their steps, implement the contract: each answer *)
(* is the decision of one committed state no older than the call.          *)
(***************************************************************************)
THEOREM PdpImplementsContract == Spec => ImplementsContract
<1>1. Init => Contract!ContractInit  BY RefinesInit
<1>2. Inv /\ [Next]_vars => [Contract!ContractNext]_(Contract!contractVars)
  BY RefinesNext
<1> QED
  BY <1>1, <1>2, InvAlways, PTL DEF Spec, ImplementsContract, Contract!ContractSpec

-----------------------------------------------------------------------------
(***************************************************************************)
(* The membership index.                                                   *)
(***************************************************************************)
(* Nothing of the organization's graph is newer than v. *)
Unchanged(o, v) == \A r \in ChangeRevisions(o) : r <= v

(* An entry holds the organization's graph. *)
Describes(entry, o) ==
  /\ entry.tuples = TuplesOf(o)
  /\ entry.ns = db.ns[o]
  /\ entry.usersets = TuplesOf(o)

IndexerTyped ==
  /\ IndexerTypeOK
  /\ work = [i \in Ticks |-> work[i]]
  /\ \A i \in Ticks : step[i] \in {"listByOrg", "usersets"} =>
       draft[i] \in [org : Orgs, tuples : SUBSET Tuple, ns : SUBSET Relations]

(* Watermarks are committed revisions. *)
WatermarksCommitted ==
  /\ cursor <= db.current
  /\ \A i \in Ticks : from[i] <= db.current /\ high[i] <= db.current
                        /\ upTo[i] <= db.current
  /\ \A i \in Ticks : \A o \in DOMAIN work[i] : work[i][o].valid <= db.current
  /\ \A o \in Orgs : index[o] # NoIndex => index[o].valid <= db.current

(* What a tick has read is current unless the graph passed its watermark. *)
DraftsMatch ==
  \A i \in Ticks, o \in Orgs, v \in Nat :
    /\ step[i] \in {"listByOrg", "usersets"}
    /\ draft[i].org = o
    /\ upTo[i] = v
    /\ Unchanged(o, v)
    => /\ draft[i].tuples = TuplesOf(o)
       /\ step[i] = "usersets" => draft[i].ns = db.ns[o]

(* And so is what it is to commit, *)
WorkMatches ==
  \A i \in Ticks, o \in Orgs, v \in Nat :
    /\ o \in DOMAIN work[i]
    /\ work[i][o].valid = v
    /\ Unchanged(o, v)
    => Describes(work[i][o], o)

(* and what was committed. *)
IndexMatches ==
  \A o \in Orgs, v \in Nat :
    /\ index[o] # NoIndex
    /\ index[o].valid = v
    /\ Unchanged(o, v)
    => Describes(index[o], o)

IndexInv ==
  /\ StoreInv
  /\ RowsStamped
  /\ IndexerTyped
  /\ WatermarksCommitted
  /\ DraftsMatch
  /\ WorkMatches
  /\ IndexMatches

-----------------------------------------------------------------------------
(* Largest is the greatest element, or the default. *)
LEMMA LargestIs ==
  ASSUME NEW n \in Nat, NEW S \in SUBSET (0 .. n), NEW d
  PROVE  /\ S = {} => Largest(S, d) = d
         /\ S # {} => Largest(S, d) \in S /\ \A m \in S : m <= Largest(S, d)
<1>1. CASE S = {}  BY <1>1 DEF Largest
<1>2. CASE S # {}
  <2>1. PICK m \in S : \A k \in S : k <= m  BY <1>2, GreatestElement
  <2>2. Largest(S, d) = CHOOSE x \in S : \A y \in S : y <= x
    BY <1>2 DEF Largest
  <2>3. (CHOOSE x \in S : \A y \in S : y <= x) \in S
        /\ \A y \in S : y <= (CHOOSE x \in S : \A y1 \in S : y1 <= x)
    BY <2>1, Zenon
  <2> QED  BY <1>2, <2>2, <2>3, Zenon
<1> QED  BY <1>1, <1>2

(* The rows of an organization, by type. *)
LEMMA RowFacts ==
  ASSUME StoreInv, RowsStamped
  PROVE  /\ db \in Database /\ db.current \in Nat
         /\ \A o \in Orgs : ChangeRevisions(o) \in SUBSET (0 .. db.current)
         /\ \A c \in db.changelog : c.rev \in 0 .. db.current /\ c.org \in Orgs
<1>1. db \in Database /\ db.current \in Nat
  BY DEF StoreInv, StoreTypeOK, Database
<1>2. \A c \in db.changelog : c.rev \in 0 .. db.current /\ c.org \in Orgs
  BY <1>1 DEF Database, Change, RowsStamped
<1>3. \A o \in Orgs : db.nsRev[o] \in 0 .. db.current
  BY <1>1 DEF Database, RowsStamped
<1> QED  BY <1>1, <1>2, <1>3 DEF ChangeRevisions

(* An index passes the gate only if nothing is newer than its watermark. *)
LEMMA FreshIsUnchanged ==
  ASSUME StoreInv, RowsStamped, NEW o \in Orgs, Fresh(o), index[o].valid \in Nat
  PROVE  Unchanged(o, index[o].valid)
<1>1. db.current \in Nat /\ ChangeRevisions(o) \in SUBSET (0 .. db.current)
  BY RowFacts
<1> DEFINE S == ChangeRevisions(o)
           V == Largest(S, 0)
<1>2. \A m \in S : m <= V /\ V \in 0 .. db.current
  <2> HIDE DEF S
  <2> QED  BY <1>1, LargestIs DEF S
<1>3. index[o].valid >= V  BY DEF Fresh, OrganizationVersion
<1>4. ASSUME NEW r \in S, index[o].valid >= V PROVE r <= index[o].valid
  BY <1>1, <1>2, <1>4
<1> QED  BY <1>3, <1>4 DEF Unchanged

(* Steps of the indexer leave the graphs alone. *)
LEMMA SameGraph ==
  ASSUME IndexInv, UNCHANGED storeVars
  PROVE  /\ db' = db /\ StoreInv' /\ RowsStamped'
         /\ \A o : TuplesOf(o)' = TuplesOf(o)
         /\ \A o, v : Unchanged(o, v)' <=> Unchanged(o, v)
<1>1. db' = db /\ StoreInv' /\ RowsStamped'
  BY StoreInvNext, RowsStampedNext DEF storeVars, IndexInv
<1>2. \A o : TuplesOf(o)' = TuplesOf(o)  BY <1>1 DEF TuplesOf
<1>3. \A o : ChangeRevisions(o)' = ChangeRevisions(o)  BY <1>1 DEF ChangeRevisions
<1> QED  BY <1>1, <1>2, <1>3 DEF Unchanged

(* A write to an organization's graph is newer than any watermark. *)
LEMMA WritesAreNewer ==
  ASSUME StoreInv, RowsStamped, [StoreNext]_storeVars,
         NEW o \in Orgs, NEW v \in Nat, v <= db.current, Unchanged(o, v)'
  PROVE  Unchanged(o, v) /\ TuplesOf(o)' = TuplesOf(o) /\ db'.ns[o] = db.ns[o]
<1>0. /\ db \in Database /\ db' \in Database /\ db.current \in Nat /\ db'.current \in Nat
      /\ RowsStamped' /\ StoreInv'
  BY StoreInvNext, RowsStampedNext DEF StoreInv, StoreTypeOK, Database
<1>1. /\ db'.current >= db.current
      /\ db.changelog \subseteq db'.changelog
      /\ \A p \in Orgs :
           \/ db'.nsRev[p] = db.nsRev[p] /\ db'.ns[p] = db.ns[p]
           \/ db'.nsRev[p] > db.current /\ db'.nsRev[p] <= db'.current
      /\ \A t \in Tuple : (t \in db'.tuples) # (t \in db.tuples) =>
           \E c \in db'.changelog : c.org = t[1] /\ c.rev > db.current
  BY RowsMove
<1>2. \A c \in db'.changelog : c.org = o => c.rev <= v /\ c.rev \in Nat
  <2> SUFFICES ASSUME NEW c \in db'.changelog, c.org = o PROVE c.rev <= v /\ c.rev \in Nat
    OBVIOUS
  <2>1. c.rev \in ChangeRevisions(o)'  BY DEF ChangeRevisions
  <2>2. c.rev \in Nat  BY <1>0 DEF Database, Change
  <2> QED  BY <2>1, <2>2 DEF Unchanged
<1>3. db'.nsRev[o] <= v /\ db'.nsRev[o] \in Nat
  <2>1. db'.nsRev[o] \in Nat  BY <1>0 DEF Database
  <2>2. db'.nsRev[o] > 0 => db'.nsRev[o] \in ChangeRevisions(o)'
    BY DEF ChangeRevisions
  <2> QED  BY <2>1, <2>2 DEF Unchanged
<1>4. db'.nsRev[o] = db.nsRev[o] /\ db'.ns[o] = db.ns[o]
  BY <1>0, <1>1, <1>3
<1>5. TuplesOf(o)' = TuplesOf(o)
  <2>1. \A t \in Tuple : t[1] = o => (t \in db'.tuples <=> t \in db.tuples)
    BY <1>0, <1>1, <1>2
  <2>2. db.tuples \subseteq Tuple /\ db'.tuples \subseteq Tuple  BY <1>0 DEF Database
  <2> QED  BY <2>1, <2>2 DEF TuplesOf
<1>6. Unchanged(o, v)  BY <1>1, <1>4 DEF Unchanged, ChangeRevisions
<1> QED  BY <1>4, <1>5, <1>6

(* A write of the store keeps the invariant of the indexer. *)
LEMMA WritesKeep ==
  ASSUME IndexInv, [StoreNext]_storeVars, UNCHANGED indexerVars
  PROVE  IndexInv'
<1>1. StoreInv' /\ RowsStamped' /\ StoreInv /\ RowsStamped
  BY StoreInvNext, RowsStampedNext DEF IndexInv
<1>2. db.current \in Nat /\ db'.current \in Nat /\ db'.current >= db.current
  BY <1>1, RowsMove DEF StoreInv, StoreTypeOK, Database
<1>3. IndexerTyped'  BY DEF IndexInv, IndexerTyped, IndexerTypeOK, indexerVars
<1>4. /\ \A i \in Ticks : from[i] \in Nat /\ high[i] \in Nat /\ upTo[i] \in Nat
      /\ \A i \in Ticks : \A o \in DOMAIN work[i] : o \in Orgs /\ work[i][o].valid \in Nat
      /\ \A o \in Orgs : index[o] # NoIndex => index[o].valid \in Nat
      /\ cursor \in Nat
      /\ \A i \in Ticks : step[i] \in {"listByOrg", "usersets"} => draft[i].org \in Orgs
  BY DEF IndexInv, IndexerTyped, IndexerTypeOK, IndexEntry
<1>5. WatermarksCommitted'
  BY <1>2, <1>4 DEF IndexInv, WatermarksCommitted, indexerVars
<1>6. \A o \in Orgs, v \in Nat : v <= db.current /\ Unchanged(o, v)' =>
        Unchanged(o, v) /\ TuplesOf(o)' = TuplesOf(o) /\ db'.ns[o] = db.ns[o]
  BY <1>1, WritesAreNewer
<1>7. DraftsMatch'
  BY <1>4, <1>6 DEF IndexInv, DraftsMatch, WatermarksCommitted, indexerVars
<1>8. WorkMatches'
  BY <1>4, <1>6 DEF IndexInv, WorkMatches, WatermarksCommitted, Describes, indexerVars
<1>9. IndexMatches'
  BY <1>4, <1>6 DEF IndexInv, IndexMatches, WatermarksCommitted, Describes, indexerVars
<1> QED  BY <1>1, <1>3, <1>5, <1>7, <1>8, <1>9 DEF IndexInv

(* A tick that is over leaves nothing behind. *)
LEMMA FinishKeeps ==
  ASSUME IndexInv, UNCHANGED storeVars, NEW i \in Ticks, Finish(i),
         aborts' \in 0 .. MaxAborts, cursor' \in Nat, cursor' <= db.current,
         \A o \in Orgs :
           \/ index'[o] = index[o]
           \/ o \in DOMAIN work[i] /\ index'[o] = work[i][o],
         index' = [o \in Orgs |-> index'[o]]
  PROVE  IndexInv'
<1> USE DEF IndexInv, IndexerTyped, IndexerTypeOK
<1>1. /\ db' = db /\ StoreInv' /\ RowsStamped'
      /\ \A p : TuplesOf(p)' = TuplesOf(p)
      /\ \A p, v : Unchanged(p, v)' <=> Unchanged(p, v)
  BY SameGraph
<1>2. /\ step' = [step EXCEPT ![i] = "off"]
      /\ from' = [from EXCEPT ![i] = 0]
      /\ high' = [high EXCEPT ![i] = 0]
      /\ upTo' = [upTo EXCEPT ![i] = 0]
      /\ todo' = [todo EXCEPT ![i] = {}]
      /\ draft' = [draft EXCEPT ![i] = NoDraft]
      /\ work' = [work EXCEPT ![i] = Unwritten]
      /\ DOMAIN Unwritten = {}
  BY DEF Finish, Unwritten
<1>3. /\ \A j \in Ticks : work'[j] = IF j = i THEN Unwritten ELSE work[j]
      /\ work' = [j \in Ticks |-> work'[j]]
  BY <1>2
<1>4. index' \in [Orgs -> IndexEntry \cup {NoIndex}]
  BY DEF IndexEntry
<1>5. IndexerTyped'
  <2>1. \A j \in Ticks : /\ DOMAIN work'[j] \subseteq Orgs
                         /\ \A o \in DOMAIN work'[j] : work'[j][o] \in IndexEntry
    BY <1>2, <1>3
  <2>2. /\ step' \in [Ticks -> {"off", "lock", "high", "changes", "namespaces",
                               "reindex", "listByOrg", "usersets"}]
        /\ from' \in [Ticks -> Nat] /\ high' \in [Ticks -> Nat] /\ upTo' \in [Ticks -> Nat]
        /\ todo' \in [Ticks -> SUBSET Orgs]
    BY <1>2
  <2>3. draft' \in [Ticks -> [org : Orgs, tuples : SUBSET Tuple,
                              ns : SUBSET Relations] \cup {NoDraft}]
    BY <1>2
  <2>4. \A j \in Ticks : step'[j] \in {"listByOrg", "usersets"} =>
          draft'[j] \in [org : Orgs, tuples : SUBSET Tuple, ns : SUBSET Relations]
    BY <1>2
  <2> QED  BY <1>3, <1>4, <2>1, <2>2, <2>3, <2>4
<1>6. db.current \in Nat  BY RowFacts
<1>7. WatermarksCommitted'
  <2>1. \A o \in Orgs : index'[o] # NoIndex => index'[o].valid <= db.current
    BY DEF WatermarksCommitted
  <2>2. \A j \in Ticks : \A o \in DOMAIN work'[j] : work'[j][o].valid <= db.current
    BY <1>2, <1>3 DEF WatermarksCommitted
  <2>3. \A j \in Ticks : from'[j] <= db.current /\ high'[j] <= db.current
                            /\ upTo'[j] <= db.current
    BY <1>2, <1>6 DEF WatermarksCommitted
  <2> QED  BY <1>1, <2>1, <2>2, <2>3 DEF WatermarksCommitted
<1>8. DraftsMatch'
  BY <1>1, <1>2 DEF DraftsMatch
<1>9. WorkMatches'
  <2>1. \A j \in Ticks, o \in Orgs : o \in DOMAIN work'[j] => work'[j] = work[j]
    BY <1>2, <1>3
  <2>2. \A j \in Ticks, o \in Orgs, v \in Nat :
          o \in DOMAIN work'[j] /\ work'[j][o].valid = v /\ Unchanged(o, v)
            => Describes(work'[j][o], o)
    <3> SUFFICES ASSUME NEW j \in Ticks, NEW o \in Orgs, NEW v \in Nat,
                        o \in DOMAIN work'[j], work'[j][o].valid = v, Unchanged(o, v)
                 PROVE  Describes(work'[j][o], o)
      OBVIOUS
    <3>1. work'[j] = work[j]  BY <2>1
    <3> QED  BY <3>1 DEF WorkMatches
  <2> QED  BY <1>1, <2>2 DEF WorkMatches, Describes
<1>10. IndexMatches'
  <2>1. \A o \in Orgs, v \in Nat :
          index'[o] # NoIndex /\ index'[o].valid = v /\ Unchanged(o, v)
            => Describes(index'[o], o)
    BY DEF WorkMatches, IndexMatches
  <2> QED  BY <1>1, <2>1 DEF IndexMatches, Describes
<1> QED  BY <1>1, <1>5, <1>7, <1>8, <1>9, <1>10

(* A step that neither reads the graph nor writes an entry. *)
LEMMA OtherStepKeeps ==
  ASSUME IndexInv, UNCHANGED storeVars, UNCHANGED <<index, cursor, work, aborts>>,
         NEW i \in Ticks,
         step' \in [Ticks -> {"off", "lock", "high", "changes", "namespaces",
                              "reindex", "listByOrg", "usersets"}],
         from' \in [Ticks -> Nat], high' \in [Ticks -> Nat], upTo' \in [Ticks -> Nat],
         todo' \in [Ticks -> SUBSET Orgs],
         draft' = draft,
         \A j \in Ticks : j # i => step'[j] = step[j] /\ upTo'[j] = upTo[j],
         step'[i] \notin {"listByOrg", "usersets"},
         \A j \in Ticks : from'[j] <= db.current /\ high'[j] <= db.current
                            /\ upTo'[j] <= db.current
  PROVE  IndexInv'
<1> USE DEF IndexInv, IndexerTyped, IndexerTypeOK
<1>1. /\ db' = db /\ StoreInv' /\ RowsStamped'
      /\ \A p : TuplesOf(p)' = TuplesOf(p)
      /\ \A p, v : Unchanged(p, v)' <=> Unchanged(p, v)
  BY SameGraph
<1>2. IndexerTyped'  OBVIOUS
<1>3. WatermarksCommitted'  BY <1>1 DEF WatermarksCommitted
<1>4. DraftsMatch'
  BY <1>1 DEF DraftsMatch
<1>5. WorkMatches' /\ IndexMatches'
  BY <1>1 DEF WorkMatches, IndexMatches, Describes
<1> QED  BY <1>1, <1>2, <1>3, <1>4, <1>5

(* The watermark of a tick is a committed revision. *)
LEMMA WatermarkCommitted ==
  ASSUME IndexInv, NEW i \in Ticks
  PROVE  Watermark(i, SinceAll(from[i])) \in 0 .. db.current
<1> DEFINE changes == SinceAll(from[i])
           revs == {c.rev : c \in changes}
           last == Largest(revs, from[i])
<1>1. /\ db.current \in Nat
      /\ \A c \in db.changelog : c.rev \in 0 .. db.current
      /\ from[i] \in 0 .. db.current /\ high[i] \in 0 .. db.current
  BY RowFacts DEF IndexInv, IndexerTyped, IndexerTypeOK, WatermarksCommitted
<1>2. revs \in SUBSET (0 .. db.current)  BY <1>1 DEF SinceAll
<1>3. last \in 0 .. db.current
  <2> HIDE DEF revs
  <2> QED  BY <1>1, <1>2, LargestIs
<1>4. Largest({high[i], last}, 0) \in 0 .. db.current
  <2> HIDE DEF last
  <2> QED  BY <1>1, <1>3, LargestIs
<1>5. Watermark(i, changes) =
        IF Cardinality(changes) = PageSize THEN last ELSE Largest({high[i], last}, 0)
  BY DEF Watermark
<1> QED  BY <1>3, <1>4, <1>5

(* The first read of an organization's graph. *)
LEMMA ReadTuplesKeeps ==
  ASSUME IndexInv, UNCHANGED storeVars, NEW i \in Ticks, NEW o \in Orgs, ReadTuples(i, o)
  PROVE  IndexInv'
<1> USE DEF IndexInv, IndexerTyped, IndexerTypeOK
<1>1. /\ db' = db /\ StoreInv' /\ RowsStamped'
      /\ \A p : TuplesOf(p)' = TuplesOf(p)
      /\ \A p, v : Unchanged(p, v)' <=> Unchanged(p, v)
  BY SameGraph
<1>2. todo' \in [Ticks -> SUBSET Orgs]  BY DEF ReadTuples
<1>3. CASE UNCHANGED <<step, draft>>
  BY <1>2, <1>3, OtherStepKeeps DEF ReadTuples, WatermarksCommitted
<1>4. CASE /\ draft' = [draft EXCEPT ![i] = [org |-> o, tuples |-> TuplesOf(o), ns |-> {}]]
           /\ step' = [step EXCEPT ![i] = "listByOrg"]
  <2> DEFINE d == [org |-> o, tuples |-> TuplesOf(o), ns |-> {}]
  <2>1. /\ d \in [org : Orgs, tuples : SUBSET Tuple, ns : SUBSET Relations]
        /\ d.org = o /\ d.tuples = TuplesOf(o)
    BY RowFacts DEF TuplesOf, Database
  <2> HIDE DEF d
  <2>2. /\ UNCHANGED <<index, cursor, from, high, upTo, work, aborts>>
        /\ draft' = [draft EXCEPT ![i] = d]
        /\ step' = [step EXCEPT ![i] = "listByOrg"]
    BY <1>4 DEF ReadTuples, d
  <2>3. IndexerTyped'  BY <1>2, <2>1, <2>2
  <2>4. WatermarksCommitted'  BY <1>1, <2>2 DEF WatermarksCommitted
  <2>5. DraftsMatch'
    BY <1>1, <2>1, <2>2 DEF DraftsMatch
  <2>6. WorkMatches' /\ IndexMatches'
    BY <1>1, <2>2 DEF WorkMatches, IndexMatches, Describes
  <2> QED  BY <1>1, <2>3, <2>4, <2>5, <2>6
<1> QED  BY <1>3, <1>4 DEF ReadTuples

(* The second read. *)
LEMMA ReadNamespacesKeeps ==
  ASSUME IndexInv, UNCHANGED storeVars, NEW i \in Ticks, ReadNamespaces(i)
  PROVE  IndexInv'
<1> USE DEF IndexInv, IndexerTyped, IndexerTypeOK
<1>1. /\ db' = db /\ StoreInv' /\ RowsStamped'
      /\ \A p : TuplesOf(p)' = TuplesOf(p)
      /\ \A p, v : Unchanged(p, v)' <=> Unchanged(p, v)
  BY SameGraph
<1>2. /\ step[i] = "listByOrg"
      /\ step' = [step EXCEPT ![i] = "usersets"]
      /\ draft' = [draft EXCEPT ![i].ns = db.ns[draft[i].org]]
      /\ UNCHANGED <<index, cursor, from, high, upTo, todo, work, aborts>>
  BY DEF ReadNamespaces
<1>3. /\ draft[i] \in [org : Orgs, tuples : SUBSET Tuple, ns : SUBSET Relations]
      /\ db.ns[draft[i].org] \subseteq Relations
  BY <1>2, RowFacts DEF Database
<1>4. /\ draft'[i] \in [org : Orgs, tuples : SUBSET Tuple, ns : SUBSET Relations]
      /\ draft'[i].org = draft[i].org /\ draft'[i].tuples = draft[i].tuples
      /\ draft'[i].ns = db.ns[draft[i].org]
      /\ \A j \in Ticks : j # i => draft'[j] = draft[j]
      /\ draft' = [j \in Ticks |-> draft'[j]]
  BY <1>2, <1>3
<1>5. IndexerTyped'  BY <1>2, <1>4
<1>6. WatermarksCommitted'  BY <1>1, <1>2 DEF WatermarksCommitted
<1>7. DraftsMatch'
  BY <1>1, <1>2, <1>4 DEF DraftsMatch
<1>8. WorkMatches' /\ IndexMatches'
  BY <1>1, <1>2 DEF WorkMatches, IndexMatches, Describes
<1> QED  BY <1>1, <1>5, <1>6, <1>7, <1>8

(* The third read and the writes. *)
LEMMA ReplaceSetsKeeps ==
  ASSUME IndexInv, UNCHANGED storeVars, NEW i \in Ticks, ReplaceSets(i)
  PROVE  IndexInv'
<1> USE DEF IndexInv, IndexerTyped, IndexerTypeOK
<1>1. /\ db' = db /\ StoreInv' /\ RowsStamped'
      /\ \A p : TuplesOf(p)' = TuplesOf(p)
      /\ \A p, v : Unchanged(p, v)' <=> Unchanged(p, v)
  BY SameGraph
<1> DEFINE o == draft[i].org
           entry == [tuples |-> draft[i].tuples, ns |-> draft[i].ns,
                     usersets |-> TuplesOf(o), valid |-> upTo[i]]
<1>2. /\ step[i] = "usersets"
      /\ work' = [work EXCEPT ![i] =
           [p \in DOMAIN work[i] \cup {o} |-> IF p = o THEN entry ELSE work[i][p]]]
      /\ draft' = [draft EXCEPT ![i] = NoDraft]
      /\ step' = [step EXCEPT ![i] = "reindex"]
      /\ UNCHANGED <<index, cursor, from, high, upTo, todo, aborts>>
  BY DEF ReplaceSets
<1>3. /\ draft[i] \in [org : Orgs, tuples : SUBSET Tuple, ns : SUBSET Relations]
      /\ upTo[i] \in Nat /\ upTo[i] <= db.current
      /\ TuplesOf(o) \subseteq Tuple
  BY <1>2, RowFacts DEF TuplesOf, Database, WatermarksCommitted
<1>4. /\ o \in Orgs /\ entry \in IndexEntry /\ entry.valid = upTo[i]
      /\ entry.tuples = draft[i].tuples /\ entry.ns = draft[i].ns
      /\ entry.usersets = TuplesOf(o)
  BY <1>3 DEF IndexEntry
<1>5. Unchanged(o, upTo[i]) => Describes(entry, o)
  BY <1>2, <1>4 DEF DraftsMatch, Describes
<1> HIDE DEF o, entry
<1>6. /\ work' = [j \in Ticks |-> work'[j]]
      /\ \A j \in Ticks : j # i => work'[j] = work[j]
      /\ DOMAIN work'[i] = DOMAIN work[i] \cup {o}
      /\ \A p \in DOMAIN work'[i] : work'[i][p] = IF p = o THEN entry ELSE work[i][p]
  BY <1>2
<1>7. IndexerTyped'
  <2>1. \A j \in Ticks : /\ DOMAIN work'[j] \subseteq Orgs
                         /\ \A p \in DOMAIN work'[j] : work'[j][p] \in IndexEntry
    BY <1>4, <1>6
  <2> QED  BY <1>2, <1>6, <2>1
<1>8. WatermarksCommitted'
  <2>1. \A j \in Ticks : \A p \in DOMAIN work'[j] : work'[j][p].valid <= db.current
    BY <1>3, <1>4, <1>6 DEF WatermarksCommitted
  <2> QED  BY <1>1, <1>2, <2>1 DEF WatermarksCommitted
<1>9. DraftsMatch'
  BY <1>1, <1>2 DEF DraftsMatch
<1>10. WorkMatches'
  <2>1. \A j \in Ticks, p \in Orgs, v \in Nat :
          p \in DOMAIN work'[j] /\ work'[j][p].valid = v /\ Unchanged(p, v)
            => Describes(work'[j][p], p)
    BY <1>4, <1>5, <1>6 DEF WorkMatches
  <2> QED  BY <1>1, <2>1 DEF WorkMatches, Describes
<1>11. IndexMatches'  BY <1>1, <1>2 DEF IndexMatches, Describes
<1> QED  BY <1>1, <1>7, <1>8, <1>9, <1>10, <1>11

(* Every step of a tick keeps the invariant of the indexer. *)
LEMMA TickKeeps ==
  ASSUME IndexInv, UNCHANGED storeVars, NEW i \in Ticks, TickStep(i) \/ Abort(i)
  PROVE  IndexInv'
<1>0. /\ db.current \in Nat /\ RowsStamped
      /\ cursor \in Nat /\ cursor <= db.current
      /\ step \in [Ticks -> {"off", "lock", "high", "changes", "namespaces",
                            "reindex", "listByOrg", "usersets"}]
      /\ from \in [Ticks -> Nat] /\ high \in [Ticks -> Nat] /\ upTo \in [Ticks -> Nat]
      /\ todo \in [Ticks -> SUBSET Orgs] /\ aborts \in 0 .. MaxAborts
      /\ index = [o \in Orgs |-> index[o]]
      /\ \A j \in Ticks : from[j] <= db.current /\ high[j] <= db.current
                            /\ upTo[j] <= db.current
  BY RowFacts DEF IndexInv, IndexerTyped, IndexerTypeOK, WatermarksCommitted
<1>1. CASE ReadCursor(i)  BY <1>0, <1>1, OtherStepKeeps DEF ReadCursor
<1>2. CASE TryLock(i)
  <2>1. CASE Finish(i)  BY <1>0, <1>2, <2>1, FinishKeeps DEF TryLock
  <2>2. CASE ~Locked /\ step' = [step EXCEPT ![i] = "high"]
             /\ UNCHANGED <<from, high, upTo, todo, draft, work>>
    BY <1>0, <1>2, <2>2, OtherStepKeeps DEF TryLock
  <2> QED  BY <1>2, <2>1, <2>2 DEF TryLock
<1>3. CASE ReadHigh(i)  BY <1>0, <1>3, OtherStepKeeps DEF ReadHigh
<1>4. CASE ReadChanges(i)
  <2> DEFINE u == Watermark(i, SinceAll(from[i]))
             orgs == {c.org : c \in SinceAll(from[i])}
  <2>1. u \in 0 .. db.current  BY WatermarkCommitted
  <2>2. orgs \subseteq Orgs  BY RowFacts DEF IndexInv, SinceAll
  <2>3. CASE Finish(i)  BY <1>0, <1>4, <2>3, FinishKeeps DEF ReadChanges
  <2>4. CASE /\ upTo' = [upTo EXCEPT ![i] = u]
             /\ todo' = [todo EXCEPT ![i] = orgs]
             /\ step' = [step EXCEPT ![i] = "namespaces"]
             /\ UNCHANGED <<from, high, draft, work>>
    <3>1. UNCHANGED <<index, cursor, aborts>>  BY <1>4 DEF ReadChanges
    <3> HIDE DEF u, orgs
    <3> QED  BY <1>0, <2>1, <2>2, <2>4, <3>1, OtherStepKeeps
  <2> QED  BY <1>4, <2>3, <2>4 DEF ReadChanges
<1>5. CASE ListOrgs(i)
  BY <1>0, <1>5, OtherStepKeeps DEF ListOrgs, NamespaceChanges
<1>6. CASE \E o \in Orgs : ReadTuples(i, o)  BY <1>6, ReadTuplesKeeps
<1>7. CASE ReadNamespaces(i)  BY <1>7, ReadNamespacesKeeps
<1>8. CASE ReplaceSets(i)  BY <1>8, ReplaceSetsKeeps
<1>9. CASE CommitTick(i)  BY <1>0, <1>9, FinishKeeps DEF CommitTick
<1>10. CASE Abort(i)
  <2>1. aborts' \in 0 .. MaxAborts  BY <1>0, <1>10, IndexerAssumption DEF Abort
  <2> QED  BY <1>0, <1>10, <2>1, FinishKeeps DEF Abort
<1> QED
  BY <1>1, <1>2, <1>3, <1>4, <1>5, <1>6, <1>7, <1>8, <1>9, <1>10 DEF TickStep

(* The invariant of the indexer holds initially. *)
LEMMA IndexInvInit == ASSUME IndexingInit PROVE IndexInv
<1>1. StoreInv /\ RowsStamped  BY StoreInvInit, RowsStampedInit DEF IndexingInit
<1>2. db.current \in Nat  BY <1>1, RowFacts
<1>3. DOMAIN Unwritten = {}  BY DEF Unwritten
<1> QED
  BY <1>1, <1>2, <1>3, IndexerAssumption
     DEF IndexingInit, IndexerInit, IndexInv, IndexerTyped, IndexerTypeOK, WatermarksCommitted,
         DraftsMatch, WorkMatches, IndexMatches

(* Every step of the indexer and of the writers keeps it. *)
LEMMA IndexInvNext ==
  ASSUME IndexInv, [IndexingNext]_allVars PROVE IndexInv'
<1>1. CASE UNCHANGED allVars
  BY <1>1, WritesKeep DEF allVars, indexerVars, storeVars
<1>2. CASE StoreNext /\ UNCHANGED indexerVars  BY <1>2, WritesKeep
<1>3. CASE \E i \in Ticks : (TickStep(i) \/ Abort(i)) /\ UNCHANGED storeVars
  BY <1>3, TickKeeps
<1> QED  BY <1>1, <1>2, <1>3 DEF IndexingNext

(***************************************************************************)
(* For any number of organizations, writers and overlapping ticks, pages   *)
(* and bounds of any size: an index that passes the gate was computed from *)
(* exactly the graph that the reader's snapshot holds.                     *)
(***************************************************************************)
THEOREM GateIsSoundAlways == IndexingSpec => []GateIsSound
<1>1. IndexingInit => IndexInv  BY IndexInvInit
<1>2. IndexInv /\ [IndexingNext]_allVars => IndexInv'  BY IndexInvNext
<1>3. IndexInv => GateIsSound
  <2> SUFFICES ASSUME IndexInv, NEW o \in Orgs, Fresh(o) PROVE Describes(index[o], o)
    BY DEF GateIsSound, Describes
  <2>1. index[o] # NoIndex /\ index[o].valid \in Nat
    BY DEF Fresh, IndexInv, IndexerTyped, IndexerTypeOK, IndexEntry
  <2>2. Unchanged(o, index[o].valid)  BY <2>1, FreshIsUnchanged DEF IndexInv
  <2> QED  BY <2>1, <2>2 DEF IndexInv, IndexMatches
<1> QED  BY <1>1, <1>2, <1>3, PTL DEF IndexingSpec
=============================================================================
