------------------------ MODULE RecordKeepingProofs ------------------------
(***************************************************************************)
(* Proofs about the two records of the API process, for any buffer, any    *)
(* number of decisions, requests and crashes.                              *)
(*                                                                         *)
(* The audit chain comes first.  AuditInv says who may extend the chain    *)
(* and what that request knows: TrailIsWhole alone is not inductive, since *)
(* it does not say that the tail a transaction read is still the tail when *)
(* its row is committed.  A table is finite and ordered by seq, so facts   *)
(* about "the row before" rest on the naturals being well ordered.         *)
(*                                                                         *)
(* The decision log follows.  BufferInv puts every recorded entry in       *)
(* exactly one place; the counts of AccountedOnce are derived from it.     *)
(***************************************************************************)
EXTENDS RecordKeeping, FiniteSetTheorems, SequenceTheorems, FunctionTheorems,
        WellFoundedInduction, TLAPS

-----------------------------------------------------------------------------
Less == {p \in Nat \X Nat : p[1] < p[2]}

(* The naturals are well ordered. *)
LEMMA LessWellFounded == IsWellFoundedOn(Less, Nat)
BY NatLessThanWellFounded DEF OpToRel, Less

(* A set of naturals that is not empty has a least element. *)
LEMMA LeastElement ==
  ASSUME NEW S \in SUBSET Nat, S # {}
  PROVE  \E m \in S : \A n \in S : m <= n
<1>1. PICK m \in S : \A n \in S : <<n, m>> \notin Less
  BY LessWellFounded, WFMin, Zenon
<1>2. ASSUME NEW n \in S, n < m PROVE FALSE
  <2>1. <<n, m>> \in Nat \X Nat  OBVIOUS
  <2>2. <<n, m>> \in Less  BY <2>1, <1>2 DEF Less
  <2> QED  BY <2>2, <1>1
<1> QED  BY <1>2

(* A bounded set of naturals that is not empty has a greatest element. *)
LEMMA GreatestElement ==
  ASSUME NEW n \in Nat, NEW S \in SUBSET (0 .. n), S # {}
  PROVE  \E m \in S : \A k \in S : k <= m
<1> DEFINE Bounds == {b \in Nat : \A k \in S : k <= b}
<1>1. n \in Bounds  OBVIOUS
<1>2. PICK b \in Bounds : \A c \in Bounds : b <= c
  <2>1. Bounds \in SUBSET Nat  OBVIOUS
  <2> HIDE DEF Bounds
  <2> QED  BY <1>1, <2>1, LeastElement
<1>3. ASSUME b \notin S PROVE FALSE
  <2>1. \A j \in S : j < b  BY <1>3
  <2>2. PICK k \in S : TRUE  OBVIOUS
  <2>3. b - 1 \in Bounds  BY <2>1, <2>2
  <2> QED  BY <2>3, <1>2
<1> QED  BY <1>2, <1>3

-----------------------------------------------------------------------------
(* Row p is the one that a row at position s continues. *)
Precedes(rows, p, s) ==
  /\ p \in Before(rows, s)
  /\ \A u \in Before(rows, s) : u <= p

Table(rows) == \E n \in Nat : DOMAIN rows \subseteq 1 .. n

(* A position has a predecessor unless it is the first. *)
LEMMA PredecessorExists ==
  ASSUME NEW rows, Table(rows), NEW s \in Nat, Before(rows, s) # {}
  PROVE  \E p \in DOMAIN rows : Precedes(rows, p, s)
<1>1. PICK n \in Nat : DOMAIN rows \subseteq 1 .. n  BY DEF Table
<1>2. Before(rows, s) \in SUBSET (0 .. n)  BY <1>1 DEF Before
<1>3. PICK m \in Before(rows, s) : \A k \in Before(rows, s) : k <= m
  BY <1>2, GreatestElement
<1> QED  BY <1>3 DEF Precedes, Before

(* A row continues the hash of its predecessor. *)
LEMMA HashBeforeIs ==
  ASSUME NEW rows, Table(rows), NEW s \in Nat, NEW p, Precedes(rows, p, s)
  PROVE  HashBefore(rows, s) = rows[p].hash
<1> DEFINE before == Before(rows, s)
<1> DEFINE last == CHOOSE t \in before : \A u \in before : u <= t
<1>1. before \subseteq Nat  BY DEF Table, Before
<1>2. p \in before /\ \A u \in before : u <= p  BY DEF Precedes
<1>3. last \in before /\ \A u \in before : u <= last
  <2> HIDE DEF before
  <2> QED BY <1>2, Zenon
<1>4. last = p  
  <2> HIDE DEF before, last
  <2> QED BY <1>1, <1>2, <1>3
<1> QED  BY <1>2, <1>4, Zenon DEF HashBefore

(* The first row continues the genesis hash. *)
LEMMA HashBeforeFirst ==
  ASSUME NEW rows, NEW s, Before(rows, s) = {}
  PROVE  HashBefore(rows, s) = Genesis
BY DEF HashBefore

-----------------------------------------------------------------------------
Steps == {"new", "changed", "locked", "read", "inserted", "appended", "answered", "failed"}

(* Where requests are.  Hashes come from a set that grows with the chain.  *)
Tracked(a) == \E T : a \in [Requests -> [step : Steps, tail : T, seq : Nat]]

(* Types of the audit: rows are built by Row, requests keep their record.  *)
AuditTyped ==
  /\ lastSeq \in Nat
  /\ security_audit = [s \in DOMAIN security_audit |-> security_audit[s]]
  /\ DOMAIN security_audit \subseteq 1 .. lastSeq
  /\ \A s \in DOMAIN security_audit :
       /\ security_audit[s].event \in Requests
       /\ security_audit[s] = Row(security_audit[s].event, security_audit[s].prevHash)
  /\ Tracked(appending)

(* A transaction that has read or is to write the tail has the lock. *)
WritersHoldLock == \A r \in Requests : InFlight(r) => lockHolder = r

(* What the transaction read is still the tail: nobody else extends it. *)
TailIsCurrent ==
  \A r \in Requests :
    /\ appending[r].step = "read" =>
         appending[r].tail = HashBefore(security_audit, lastSeq + 1)
    /\ appending[r].step = "inserted" =>
         /\ appending[r].seq = lastSeq /\ lastSeq > 0
         /\ \A s \in DOMAIN security_audit : s < lastSeq
         /\ appending[r].tail = HashBefore(security_audit, lastSeq)

(* Every row continues the one before it. *)
Linked ==
  \A s \in DOMAIN security_audit :
    security_audit[s].prevHash = HashBefore(security_audit, s)

(* A request is in the chain once its append committed, and not before. *)
RowsOnce ==
  /\ \A s \in DOMAIN security_audit :
       appending[security_audit[s].event].step \in {"appended", "answered", "failed"}
  /\ \A r \in Requests : appending[r].step \in {"appended", "answered"} =>
       \E s \in DOMAIN security_audit : security_audit[s].event = r
  /\ \A s, t \in DOMAIN security_audit :
       security_audit[s].event = security_audit[t].event => s = t

AuditInv ==
  /\ AuditTyped
  /\ WritersHoldLock
  /\ TailIsCurrent
  /\ Linked
  /\ RowsOnce

(* Linked rows verify. *)
LEMMA LinkedVerifies ==
  ASSUME AuditTyped
  PROVE  Linked <=> ChainIsIntact
<1>1. \A s \in DOMAIN security_audit :
        security_audit[s].hash = <<security_audit[s].prevHash, security_audit[s].event>>
  BY DEF AuditTyped, Row, HashRecord
<1>2. ChainIsIntact <=> Diverging(security_audit) = {}
  BY DEF ChainIsIntact, VerifyChain
<1> QED  BY <1>1, <1>2 DEF Linked, Diverging, HashRecord

(* A step of one request leaves the others where they are. *)
LEMMA GotoFacts ==
  ASSUME AuditTyped, NEW r \in Requests, NEW to \in Steps, appending' = Goto(r, to)
  PROVE  /\ Tracked(appending')
         /\ \A q \in Requests :
              /\ appending'[q].step = IF q = r THEN to ELSE appending[q].step
              /\ appending'[q].tail = appending[q].tail
              /\ appending'[q].seq = appending[q].seq
<1>1. PICK T : appending \in [Requests -> [step : Steps, tail : T, seq : Nat]]
  BY DEF AuditTyped, Tracked
<1>2. appending' \in [Requests -> [step : Steps, tail : T, seq : Nat]]
  BY <1>1 DEF Goto
<1> QED  BY <1>1, <1>2 DEF Tracked, Goto

(* What ReadTail does to the request. *)
LEMMA ReadFacts ==
  ASSUME AuditTyped, NEW r \in Requests, ReadTail(r)
  PROVE  /\ Tracked(appending')
         /\ \A q \in Requests :
              /\ appending'[q].step = IF q = r THEN "read" ELSE appending[q].step
              /\ appending'[q].tail = IF q = r THEN HashBefore(security_audit, lastSeq + 1)
                                      ELSE appending[q].tail
              /\ appending'[q].seq = appending[q].seq
<1> DEFINE tail == HashBefore(security_audit, lastSeq + 1)
<1>1. PICK T : appending \in [Requests -> [step : Steps, tail : T, seq : Nat]]
  BY DEF AuditTyped, Tracked
<1>2. appending' = [appending EXCEPT ![r].step = "read", ![r].tail = tail]
  BY DEF ReadTail
<1> HIDE DEF tail
<1>3. appending \in [Requests -> [step : Steps, tail : T \cup {tail}, seq : Nat]]
  BY <1>1
<1>4. appending' \in [Requests -> [step : Steps, tail : T \cup {tail}, seq : Nat]]
  BY <1>2, <1>3 DEF Steps
<1>5. /\ Tracked(appending')
      /\ \A q \in Requests :
           /\ appending'[q].step = IF q = r THEN "read" ELSE appending[q].step
           /\ appending'[q].tail = IF q = r THEN tail ELSE appending[q].tail
           /\ appending'[q].seq = appending[q].seq
  BY <1>2, <1>3, <1>4 DEF Tracked
<1> QED  BY <1>5 DEF tail

(* What InsertRow does to the request. *)
LEMMA InsertFacts ==
  ASSUME AuditTyped, NEW r \in Requests, InsertRow(r)
  PROVE  /\ Tracked(appending')
         /\ \A q \in Requests :
              /\ appending'[q].step = IF q = r THEN "inserted" ELSE appending[q].step
              /\ appending'[q].tail = appending[q].tail
              /\ appending'[q].seq = IF q = r THEN lastSeq + 1 ELSE appending[q].seq
<1>1. PICK T : appending \in [Requests -> [step : Steps, tail : T, seq : Nat]]
  BY DEF AuditTyped, Tracked
<1>2. lastSeq + 1 \in Nat  BY DEF AuditTyped
<1>3. appending' \in [Requests -> [step : Steps, tail : T, seq : Nat]]
  BY <1>1, <1>2 DEF InsertRow, Steps
<1> QED  BY <1>1, <1>2, <1>3 DEF Tracked, InsertRow

(* The audit invariant holds initially. *)
LEMMA AuditInvInit == ASSUME AuditInit PROVE AuditInv
<1>1. appending \in [Requests -> [step : Steps, tail : {Genesis}, seq : Nat]]
  BY DEF AuditInit, Steps
<1>2. Tracked(appending)  BY <1>1 DEF Tracked
<1> QED
  BY <1>2 DEF AuditInit, AuditInv, AuditTyped, WritersHoldLock, TailIsCurrent, Linked,
              RowsOnce, InFlight

(* Rows with the same rows before them continue the same hash. *)
LEMMA HashBeforeAgrees ==
  ASSUME NEW rows, NEW more, Table(rows), Table(more), NEW s \in Nat, NEW u \in Nat,
         Before(more, u) = Before(rows, s),
         \A t \in Before(rows, s) : more[t].hash = rows[t].hash
  PROVE  HashBefore(more, u) = HashBefore(rows, s)
<1>1. CASE Before(rows, s) = {}
  BY <1>1, HashBeforeFirst
<1>2. CASE Before(rows, s) # {}
  <2>1. PICK p \in DOMAIN rows : Precedes(rows, p, s)  BY <1>2, PredecessorExists
  <2>2. Precedes(more, p, u)  BY <2>1 DEF Precedes
  <2>3. HashBefore(rows, s) = rows[p].hash  BY <2>1, HashBeforeIs
  <2>4. HashBefore(more, u) = more[p].hash  BY <2>2, HashBeforeIs
  <2> QED  BY <2>1, <2>3, <2>4 DEF Precedes
<1> QED  BY <1>1, <1>2

(* The table of the audit is bounded by the sequence. *)
LEMMA AuditTable == ASSUME AuditTyped PROVE Table(security_audit)
BY DEF AuditTyped, Table

(***************************************************************************)
(* The commit of an append adds one row at the last seq that was handed    *)
(* out, after every other row, and the chain stays linked.                 *)
(***************************************************************************)
LEMMA CommitLinks ==
  ASSUME AuditInv, NEW r \in Requests, appending[r].step = "inserted",
         security_audit' = WithRow(r), lastSeq' = lastSeq
  PROVE  /\ security_audit' = [s \in DOMAIN security_audit' |-> security_audit'[s]]
         /\ DOMAIN security_audit' = DOMAIN security_audit \cup {lastSeq}
         /\ lastSeq \in (1 .. lastSeq) \ DOMAIN security_audit
         /\ security_audit'[lastSeq] = Row(r, appending[r].tail)
         /\ \A s \in DOMAIN security_audit : security_audit'[s] = security_audit[s]
         /\ Linked'
<1>1. /\ appending[r].seq = lastSeq
      /\ lastSeq \in Nat
      /\ \A s \in DOMAIN security_audit : s < lastSeq
      /\ appending[r].tail = HashBefore(security_audit, lastSeq)
  BY DEF AuditInv, AuditTyped, TailIsCurrent
<1>2. lastSeq > 0
  BY DEF AuditInv, AuditTyped, TailIsCurrent
<1>3. /\ security_audit' = [s \in DOMAIN security_audit' |-> security_audit'[s]]
      /\ DOMAIN security_audit' = DOMAIN security_audit \cup {lastSeq}
      /\ security_audit'[lastSeq] = Row(r, appending[r].tail)
      /\ \A s \in DOMAIN security_audit : security_audit'[s] = security_audit[s]
  BY <1>1 DEF WithRow
<1>4. ASSUME NEW s \in 1 .. lastSeq
      PROVE  HashBefore(security_audit', s) = HashBefore(security_audit, s)
  <2>1. Before(security_audit', s) = Before(security_audit, s)
    BY <1>1, <1>3 DEF Before
  <2>2. \A t \in Before(security_audit, s) : security_audit'[t] = security_audit[t]
    BY <1>3 DEF Before
  <2>3. Table(security_audit) /\ Table(security_audit')
    BY <1>1, <1>2, <1>3 DEF AuditInv, AuditTyped, Table
  <2> QED  BY <1>1, <2>1, <2>2, <2>3, HashBeforeAgrees
<1>5. Linked'
  <2>1. ASSUME NEW s \in DOMAIN security_audit
        PROVE  security_audit'[s].prevHash = HashBefore(security_audit', s)
    BY <1>3, <1>4, <2>1 DEF AuditInv, AuditTyped, Linked
  <2>2. security_audit'[lastSeq].prevHash = HashBefore(security_audit', lastSeq)
    BY <1>1, <1>2, <1>3, <1>4 DEF Row
  <2> QED  BY <1>3, <2>1, <2>2 DEF Linked
<1> QED  BY <1>1, <1>2, <1>3, <1>5

(* The steps that leave the table and the sequence alone. *)
LEMMA QuietStep ==
  ASSUME AuditInv, NEW r \in Requests, NEW to \in Steps,
         appending' = Goto(r, to), security_audit' = security_audit, lastSeq' = lastSeq,
         to \notin {"read", "inserted"},
         to \in {"appended", "answered"} => appending[r].step = "appended",
         appending[r].step \in {"appended", "answered", "failed"} =>
           to \in {"appended", "answered", "failed"}
  PROVE  (AuditTyped /\ TailIsCurrent /\ Linked /\ RowsOnce)'
<1> USE DEF AuditInv
<1>1. /\ Tracked(appending')
      /\ \A q \in Requests :
           /\ appending'[q].step = IF q = r THEN to ELSE appending[q].step
           /\ appending'[q].tail = appending[q].tail
           /\ appending'[q].seq = appending[q].seq
  BY GotoFacts DEF Steps
<1>2. AuditTyped'  BY <1>1 DEF AuditTyped
<1>3. TailIsCurrent'  BY <1>1 DEF TailIsCurrent
<1>4. Linked'  BY DEF Linked
<1>5. RowsOnce'  BY <1>1 DEF RowsOnce, AuditTyped
<1> QED  BY <1>2, <1>3, <1>4, <1>5

(* The lock goes to one request, and away from the one that has it. *)
LEMMA LockKept ==
  ASSUME AuditInv, NEW r \in Requests,
         \A q \in Requests : q # r => (InFlight(q)' <=> InFlight(q)),
         \/ lockHolder = None /\ lockHolder' = r
         \/ lockHolder' = lockHolder /\ (InFlight(r)' => InFlight(r))
         \/ lockHolder' = Unlocked(r) /\ ~InFlight(r)'
  PROVE  WritersHoldLock'
BY AuditAssumption DEF AuditInv, WritersHoldLock, Unlocked

(* Every step of a request keeps the audit invariant. *)
LEMMA AuditStepKeeps ==
  ASSUME AuditInv, NEW r \in Requests,
         \/ CommitChange(r) \/ LockChain(r) \/ ReadTail(r) \/ InsertRow(r)
         \/ CommitAppend(r) \/ Answer(r) \/ AppendFails(r)
  PROVE  AuditInv'
<1> USE DEF AuditInv
<1>1. CASE CommitChange(r)
  <2> USE <1>1 DEF CommitChange
  <2>1. (AuditTyped /\ TailIsCurrent /\ Linked /\ RowsOnce)'  BY QuietStep DEF Steps
  <2>2. WritersHoldLock'  BY GotoFacts, LockKept DEF InFlight, Steps
  <2> QED  BY <2>1, <2>2
<1>2. CASE LockChain(r)
  <2> USE <1>2 DEF LockChain, MayLock
  <2>1. (AuditTyped /\ TailIsCurrent /\ Linked /\ RowsOnce)'  BY QuietStep DEF Steps
  <2>2. WritersHoldLock'  BY GotoFacts, LockKept DEF InFlight, Steps
  <2> QED  BY <2>1, <2>2
<1>3. CASE Answer(r)
  <2> USE <1>3 DEF Answer, MayAnswer
  <2>1. (AuditTyped /\ TailIsCurrent /\ Linked /\ RowsOnce)'  BY QuietStep DEF Steps
  <2>2. WritersHoldLock'  BY GotoFacts, LockKept DEF InFlight, Steps
  <2> QED  BY <2>1, <2>2
<1>4. CASE AppendFails(r)
  <2> USE <1>4 DEF AppendFails
  <2>1. (AuditTyped /\ TailIsCurrent /\ Linked /\ RowsOnce)'  BY QuietStep DEF InFlight, Steps
  <2>2. WritersHoldLock'  BY GotoFacts, LockKept DEF InFlight, Steps
  <2> QED  BY <2>1, <2>2
<1>5. CASE ReadTail(r)
  <2>0. /\ appending[r].step = "locked"
        /\ UNCHANGED <<security_audit, lastSeq, lockHolder>>
    BY <1>5 DEF ReadTail
  <2>1. /\ Tracked(appending')
        /\ \A q \in Requests :
             /\ appending'[q].step = IF q = r THEN "read" ELSE appending[q].step
             /\ appending'[q].tail = IF q = r THEN HashBefore(security_audit, lastSeq + 1)
                                     ELSE appending[q].tail
             /\ appending'[q].seq = appending[q].seq
    BY <1>5, ReadFacts, Zenon
  <2>2. AuditTyped'  BY <2>0, <2>1 DEF AuditTyped
  <2>3. TailIsCurrent'  BY <2>0, <2>1 DEF TailIsCurrent
  <2>4. Linked'  BY <2>0 DEF Linked
  <2>5. RowsOnce'  BY <2>0, <2>1 DEF RowsOnce, AuditTyped
  <2>6. WritersHoldLock'  BY <2>0, <2>1, LockKept DEF InFlight
  <2> QED  BY <2>2, <2>3, <2>4, <2>5, <2>6
<1>6. CASE InsertRow(r)
  <2>0. /\ appending[r].step = "read"
        /\ lastSeq' = lastSeq + 1
        /\ UNCHANGED <<security_audit, lockHolder>>
    BY <1>6 DEF InsertRow
  <2>1. /\ Tracked(appending')
        /\ \A q \in Requests :
             /\ appending'[q].step = IF q = r THEN "inserted" ELSE appending[q].step
             /\ appending'[q].tail = appending[q].tail
             /\ appending'[q].seq = IF q = r THEN lastSeq + 1 ELSE appending[q].seq
    BY <1>6, InsertFacts, Zenon
  <2>2. AuditTyped'  BY <2>0, <2>1 DEF AuditTyped
  <2>3. \A q \in Requests : q # r => ~InFlight(q)
    BY <2>0 DEF WritersHoldLock, InFlight
  <2>4. TailIsCurrent'
    BY <2>0, <2>1, <2>3 DEF TailIsCurrent, InFlight, AuditTyped
  <2>5. Linked'  BY <2>0 DEF Linked
  <2>6. RowsOnce'  BY <2>0, <2>1 DEF RowsOnce, AuditTyped
  <2>7. WritersHoldLock'  BY <2>0, <2>1, LockKept DEF InFlight
  <2> QED  BY <2>2, <2>4, <2>5, <2>6, <2>7
<1>7. CASE CommitAppend(r)
  <2> USE <1>7 DEF CommitAppend
  <2>1. /\ security_audit' = [s \in DOMAIN security_audit' |-> security_audit'[s]]
        /\ DOMAIN security_audit' = DOMAIN security_audit \cup {lastSeq}
        /\ lastSeq \in (1 .. lastSeq) \ DOMAIN security_audit
        /\ security_audit'[lastSeq] = Row(r, appending[r].tail)
        /\ \A s \in DOMAIN security_audit : security_audit'[s] = security_audit[s]
        /\ Linked'
    BY CommitLinks
  <2>2. /\ Tracked(appending')
        /\ \A q \in Requests :
             /\ appending'[q].step = IF q = r THEN "appended" ELSE appending[q].step
             /\ appending'[q].tail = appending[q].tail
             /\ appending'[q].seq = appending[q].seq
    BY GotoFacts DEF Steps
  <2>3. \A q \in Requests : q # r => ~InFlight(q)
    BY DEF WritersHoldLock, InFlight
  <2>4. AuditTyped'  BY <2>1, <2>2 DEF AuditTyped, Row
  <2>5. TailIsCurrent'  BY <2>2, <2>3 DEF TailIsCurrent, InFlight
  <2>6. RowsOnce'  BY <2>1, <2>2 DEF RowsOnce, AuditTyped, Row
  <2>7. WritersHoldLock'  BY <2>2, LockKept DEF InFlight
  <2> QED  BY <2>1, <2>4, <2>5, <2>6, <2>7
<1> QED  BY <1>1, <1>2, <1>3, <1>4, <1>5, <1>6, <1>7

(* A crash fails what is open; at most the one insert that had been sent   *)
(* its commit becomes a row, of a request that nobody answers.             *)
LEMMA AuditCrashKeeps == ASSUME AuditInv, AuditCrash PROVE AuditInv'
<1> USE DEF AuditInv, AuditCrash
<1>1. /\ Tracked(appending')
      /\ \A q \in Requests :
           /\ appending'[q].step =
                IF appending[q].step \in {"new", "answered", "failed"}
                THEN appending[q].step ELSE "failed"
           /\ appending'[q].tail = appending[q].tail
           /\ appending'[q].seq = appending[q].seq
  <2>1. PICK T : appending \in [Requests -> [step : Steps, tail : T, seq : Nat]]
    BY DEF AuditTyped, Tracked
  <2>2. appending' \in [Requests -> [step : Steps, tail : T, seq : Nat]]
    BY <2>1 DEF Steps
  <2> QED  BY <2>1, <2>2 DEF Tracked
<1>2. WritersHoldLock' /\ TailIsCurrent'
  BY <1>1 DEF WritersHoldLock, TailIsCurrent, InFlight
<1>3. CASE UNCHANGED security_audit
  <2>1. AuditTyped'  BY <1>1, <1>3 DEF AuditTyped
  <2>2. Linked'  BY <1>3 DEF Linked
  <2>3. RowsOnce'  BY <1>1, <1>3 DEF RowsOnce, AuditTyped
  <2> QED  BY <1>2, <2>1, <2>2, <2>3
<1>4. ASSUME NEW r \in Requests, appending[r].step = "inserted",
             security_audit' = WithRow(r)
      PROVE  AuditInv'
  <2>1. /\ security_audit' = [s \in DOMAIN security_audit' |-> security_audit'[s]]
        /\ DOMAIN security_audit' = DOMAIN security_audit \cup {lastSeq}
        /\ lastSeq \in (1 .. lastSeq) \ DOMAIN security_audit
        /\ security_audit'[lastSeq] = Row(r, appending[r].tail)
        /\ \A s \in DOMAIN security_audit : security_audit'[s] = security_audit[s]
        /\ Linked'
    BY <1>4, CommitLinks
  <2>2. AuditTyped'  BY <1>1, <2>1 DEF AuditTyped, Row
  <2>3. RowsOnce'  BY <1>1, <1>4, <2>1 DEF RowsOnce, AuditTyped, Row
  <2> QED  BY <1>2, <2>1, <2>2, <2>3
<1> QED  BY <1>3, <1>4

(* The audit invariant is kept, whatever the decision log does meanwhile. *)
LEMMA AuditInvNext ==
  ASSUME AuditInv, [RecordNext]_<<vars, auditVars>> PROVE AuditInv'
<1>1. CASE UNCHANGED auditVars
  BY <1>1 DEF auditVars, AuditInv, AuditTyped, WritersHoldLock, TailIsCurrent, Linked,
              RowsOnce, InFlight
<1>2. CASE AuditStep  BY <1>2, AuditStepKeeps DEF AuditStep
<1>3. CASE AuditCrash  BY <1>3, AuditCrashKeeps
<1> QED  BY <1>1, <1>2, <1>3 DEF RecordNext

(***************************************************************************)
(* For any number of audited requests, crashes and failed appends: the     *)
(* chain verifies in every state that a reader can see, and a handler that *)
(* answered has its event in it, once.                                     *)
(***************************************************************************)
THEOREM TrailIsWholeAlways == RecordSpec => []TrailIsWhole
<1>1. RecordInit => AuditInv  BY AuditInvInit DEF RecordInit
<1>2. AuditInv /\ [RecordNext]_<<vars, auditVars>> => AuditInv'  BY AuditInvNext
<1>3. AuditInv => TrailIsWhole
  BY LinkedVerifies DEF AuditInv, TrailIsWhole, RowsOnce, AnsweredIsRecorded
<1> QED  BY <1>1, <1>2, <1>3, PTL DEF RecordSpec

-----------------------------------------------------------------------------
(* A chain: rows that follow each other, of distinct unforged events. *)
Chain(rows) ==
  /\ Table(rows)
  /\ \E P, H : rows \in [DOMAIN rows -> [event : Requests, prevHash : P, hash : H]]
  /\ \A s \in DOMAIN rows : rows[s].hash = <<HashBefore(rows, s), rows[s].event>>
  /\ \A s, t \in DOMAIN rows : rows[s].event = rows[t].event => s = t

(* What the audit invariant makes of the table. *)
LEMMA AuditIsChain == ASSUME AuditInv PROVE Chain(security_audit)
<1> DEFINE P == {security_audit[s].prevHash : s \in DOMAIN security_audit}
           H == {security_audit[s].hash : s \in DOMAIN security_audit}
<1>1. \A s \in DOMAIN security_audit :
        security_audit[s] \in [event : Requests, prevHash : P, hash : H]
  BY DEF AuditInv, AuditTyped, Row
<1>2. \E Q, G : security_audit \in
        [DOMAIN security_audit -> [event : Requests, prevHash : Q, hash : G]]
  <2> HIDE DEF P, H
  <2>1. security_audit \in
          [DOMAIN security_audit -> [event : Requests, prevHash : P, hash : H]]
    BY <1>1 DEF AuditInv, AuditTyped
  <2> QED  BY <2>1
<1>3. \A s \in DOMAIN security_audit :
        security_audit[s].hash = <<HashBefore(security_audit, s), security_audit[s].event>>
  BY DEF AuditInv, AuditTyped, Linked, Row, HashRecord
<1> QED  BY <1>2, <1>3, AuditTable DEF Chain, AuditInv, RowsOnce

(* A hash is not the one it continues: their events differ. *)
LEMMA HashesDiffer ==
  ASSUME NEW rows, Chain(rows), NEW s \in DOMAIN rows
  PROVE  HashBefore(rows, s) # rows[s].hash
<1>1. s \in Nat  BY DEF Chain, Table
<1>2. rows[s].hash = <<HashBefore(rows, s), rows[s].event>>  BY DEF Chain
<1>3. CASE Before(rows, s) = {}
  BY <1>2, <1>3, HashBeforeFirst DEF Genesis
<1>4. CASE Before(rows, s) # {}
  <2>1. PICK p \in DOMAIN rows : Precedes(rows, p, s)
    BY <1>1, <1>4, PredecessorExists DEF Chain
  <2>2. HashBefore(rows, s) = rows[p].hash  BY <1>1, <2>1, HashBeforeIs DEF Chain
  <2>3. rows[p].hash = <<HashBefore(rows, p), rows[p].event>>  BY DEF Chain
  <2>4. p # s  BY <2>1 DEF Precedes, Before, Chain, Table
  <2>5. rows[p].event # rows[s].event  BY <2>4 DEF Chain
  <2> QED  BY <1>2, <2>2, <2>3, <2>5
<1> QED  BY <1>3, <1>4

(* verify reports the one row that diverges by the number of rows before. *)
LEMMA BrokenAtOne ==
  ASSUME NEW rows, NEW t \in Nat, Diverging(rows) = {t}
  PROVE  VerifyChain(rows).brokenAt = {Cardinality(Before(rows, t))}
BY DEF VerifyChain

(* A change of row s is felt only by the row that continues it. *)
LEMMA UnfeltElsewhere ==
  ASSUME NEW rows, NEW other, Table(rows), Table(other), NEW s \in DOMAIN rows,
         DOMAIN other \subseteq DOMAIN rows, DOMAIN rows \ {s} \subseteq DOMAIN other,
         \A u \in DOMAIN rows \ {s} : other[u].hash = rows[u].hash,
         NEW t \in Nat, ~Precedes(rows, s, t)
  PROVE  HashBefore(other, t) = HashBefore(rows, t)
<1>1. CASE Before(rows, t) = {}
  <2>1. Before(other, t) = {}  BY <1>1 DEF Before
  <2> QED  BY <1>1, <2>1, HashBeforeFirst
<1>2. CASE Before(rows, t) # {}
  <2>1. PICK p \in DOMAIN rows : Precedes(rows, p, t)  BY <1>2, PredecessorExists
  <2>2. p # s  BY <2>1
  <2>3. Precedes(other, p, t)  BY <2>1, <2>2 DEF Precedes, Before
  <2>4. HashBefore(rows, t) = rows[p].hash  BY <2>1, HashBeforeIs
  <2>5. HashBefore(other, t) = other[p].hash  BY <2>3, HashBeforeIs
  <2> QED  BY <2>2, <2>4, <2>5
<1> QED  BY <1>1, <1>2

(* A row that is not the last has a successor, the only one to continue it. *)
LEMMA SuccessorExists ==
  ASSUME NEW rows, Chain(rows), NEW s \in DOMAIN rows,
         ~(\A t \in DOMAIN rows : t <= s)
  PROVE  \E n \in DOMAIN rows :
           /\ n > s
           /\ Before(rows, n) = Before(rows, s) \cup {s}
           /\ \A t \in DOMAIN rows : Precedes(rows, s, t) <=> t = n
<1> DEFINE later == {t \in DOMAIN rows : t > s}
<1>1. DOMAIN rows \subseteq Nat  BY DEF Chain, Table
<1>2. later \in SUBSET Nat /\ later # {}  BY <1>1
<1>3. PICK n \in later : \A t \in later : n <= t
  <2> HIDE DEF later
  <2> QED  BY <1>2, LeastElement
<1>4. n \in DOMAIN rows /\ n > s  OBVIOUS
<1>5. \A t \in DOMAIN rows : t < n <=> (t < s \/ t = s)  BY <1>1, <1>3
<1>6. Before(rows, n) = Before(rows, s) \cup {s}  BY <1>5 DEF Before
<1>7. Precedes(rows, s, n)  BY <1>1, <1>6 DEF Precedes, Before
<1>8. ASSUME NEW t \in DOMAIN rows, Precedes(rows, s, t) PROVE t = n
  <2>1. t > s  BY <1>1, <1>8 DEF Precedes, Before
  <2>2. ~(n < t)  BY <1>1, <1>4, <1>8 DEF Precedes, Before
  <2> QED  BY <1>1, <1>3, <2>1, <2>2
<1> QED  BY <1>4, <1>6, <1>7, <1>8

(* A rewritten event is reported at its row. *)
LEMMA RewrittenIsFound ==
  ASSUME NEW rows, Chain(rows), NEW s \in DOMAIN rows
  PROVE  VerifyChain(Rewritten(rows, s)).brokenAt = {Cardinality(Before(rows, s))}
<1> DEFINE other == Rewritten(rows, s)
<1>1. PICK P, H : rows \in [DOMAIN rows -> [event : Requests, prevHash : P, hash : H]]
  BY DEF Chain
<1>2. /\ DOMAIN other = DOMAIN rows
      /\ \A t \in DOMAIN rows : other[t].hash = rows[t].hash
      /\ other[s].event = Forged
      /\ \A t \in DOMAIN rows \ {s} : other[t].event = rows[t].event
  BY <1>1 DEF Rewritten
<1> HIDE DEF other
<1>3. Table(rows) /\ Table(other) /\ DOMAIN rows \subseteq Nat
  BY <1>2 DEF Chain, Table
<1>4. ASSUME NEW t \in DOMAIN rows
      PROVE  HashBefore(other, t) = HashBefore(rows, t) /\ Before(other, t) = Before(rows, t)
  <2>1. Before(other, t) = Before(rows, t)  BY <1>2 DEF Before
  <2>2. \A u \in Before(rows, t) : other[u].hash = rows[u].hash  BY <1>2 DEF Before
  <2>3. t \in Nat  BY <1>3
  <2> QED  BY <1>3, <2>1, <2>2, <2>3, HashBeforeAgrees
<1>5. rows[s].event # Forged  BY <1>1, AuditAssumption
<1>6. \A t \in DOMAIN rows : rows[t].hash = <<HashBefore(rows, t), rows[t].event>>
  BY DEF Chain
<1>7. Diverging(other) = {s}
  BY <1>2, <1>4, <1>5, <1>6 DEF Diverging, HashRecord
<1>8. s \in Nat  BY <1>3
<1>9. VerifyChain(other).brokenAt = {Cardinality(Before(other, s))}
  BY <1>7, <1>8, BrokenAtOne
<1> QED  BY <1>4, <1>9 DEF other

(* A removed row is reported at its successor, now in its place. *)
LEMMA RemovedIsFound ==
  ASSUME NEW rows, Chain(rows), NEW s \in DOMAIN rows,
         ~(\A t \in DOMAIN rows : t <= s)
  PROVE  VerifyChain(Removed(rows, s)).brokenAt = {Cardinality(Before(rows, s))}
<1> DEFINE other == Removed(rows, s)
<1>1. /\ DOMAIN other = DOMAIN rows \ {s}
      /\ \A t \in DOMAIN rows \ {s} : other[t] = rows[t]
  BY DEF Removed
<1> HIDE DEF other
<1>2. Table(rows) /\ Table(other) /\ DOMAIN rows \subseteq Nat
  BY <1>1 DEF Chain, Table
<1>3. PICK n \in DOMAIN rows :
        /\ n > s
        /\ Before(rows, n) = Before(rows, s) \cup {s}
        /\ \A t \in DOMAIN rows : Precedes(rows, s, t) <=> t = n
  BY SuccessorExists
<1>4. \A t \in DOMAIN rows : rows[t].hash = <<HashBefore(rows, t), rows[t].event>>
  BY DEF Chain
<1>5. \A t \in DOMAIN rows \ {n} : HashBefore(other, t) = HashBefore(rows, t)
  BY <1>1, <1>2, <1>3, UnfeltElsewhere
<1>6. Before(other, n) = Before(rows, s)
  BY <1>1, <1>2, <1>3 DEF Before
<1>7. HashBefore(other, n) = HashBefore(rows, s)
  <2>1. \A u \in Before(rows, s) : other[u].hash = rows[u].hash
    BY <1>1, <1>2 DEF Before
  <2>2. s \in Nat /\ n \in Nat  BY <1>2
  <2> QED  BY <1>2, <1>6, <2>1, <2>2, HashBeforeAgrees
<1>8. HashBefore(rows, n) = rows[s].hash
  BY <1>2, <1>3, HashBeforeIs
<1>9. HashBefore(rows, s) # rows[s].hash  BY HashesDiffer
<1>10. n \in DOMAIN other /\ n # s  BY <1>1, <1>2, <1>3
<1>11. Diverging(other) = {n}
  BY <1>1, <1>4, <1>5, <1>7, <1>8, <1>9, <1>10 DEF Diverging, HashRecord
<1>12. n \in Nat  BY <1>2
<1>13. VerifyChain(other).brokenAt = {Cardinality(Before(other, n))}
  BY <1>11, <1>12, BrokenAtOne
<1> QED  BY <1>6, <1>13 DEF other

(* A row rewritten together with its hash is reported at its successor. *)
LEMMA RehashedIsFound ==
  ASSUME NEW rows, Chain(rows), NEW s \in DOMAIN rows,
         ~(\A t \in DOMAIN rows : t <= s)
  PROVE  VerifyChain(Rehashed(rows, s)).brokenAt = {Cardinality(Before(rows, s)) + 1}
<1> DEFINE other == Rehashed(rows, s)
<1>1. /\ DOMAIN other = DOMAIN rows
      /\ other[s] = Row(Forged, HashBefore(rows, s))
      /\ \A t \in DOMAIN rows \ {s} : other[t] = rows[t]
  BY DEF Rehashed, Chain
<1> HIDE DEF other
<1>2. Table(rows) /\ Table(other) /\ DOMAIN rows \subseteq Nat
  BY <1>1 DEF Chain, Table
<1>3. PICK n \in DOMAIN rows :
        /\ n > s
        /\ Before(rows, n) = Before(rows, s) \cup {s}
        /\ \A t \in DOMAIN rows : Precedes(rows, s, t) <=> t = n
  BY SuccessorExists
<1>4. \A t \in DOMAIN rows : rows[t].hash = <<HashBefore(rows, t), rows[t].event>>
  BY DEF Chain
<1>5. \A t \in DOMAIN rows \ {n} : HashBefore(other, t) = HashBefore(rows, t)
  BY <1>1, <1>2, <1>3, UnfeltElsewhere
<1>6. Before(other, n) = Before(rows, s) \cup {s} /\ Precedes(other, s, n)
  BY <1>1, <1>3 DEF Before, Precedes
<1>7. HashBefore(other, n) = <<HashBefore(rows, s), Forged>>
  <2>1. n \in Nat  BY <1>2
  <2>2. HashBefore(other, n) = other[s].hash  BY <1>2, <1>6, <2>1, HashBeforeIs
  <2> QED  BY <1>1, <2>2 DEF Row, HashRecord
<1>8. HashBefore(rows, n) = <<HashBefore(rows, s), rows[s].event>>
  <2>1. n \in Nat  BY <1>2
  <2>2. HashBefore(rows, n) = rows[s].hash  BY <1>2, <1>3, <2>1, HashBeforeIs
  <2> QED  BY <1>4, <2>2
<1>9. rows[s].event # Forged  BY AuditAssumption DEF Chain
<1>10. n # s  BY <1>2, <1>3
<1>11. other[s].hash = <<HashBefore(other, s), other[s].event>>
  BY <1>1, <1>5, <1>10 DEF Row, HashRecord
<1>12. Diverging(other) = {n}
  BY <1>1, <1>4, <1>5, <1>7, <1>8, <1>9, <1>10, <1>11 DEF Diverging, HashRecord
<1>13. n \in Nat  BY <1>2
<1>14. VerifyChain(other).brokenAt = {Cardinality(Before(other, n))}
  BY <1>12, <1>13, BrokenAtOne
<1>15. Cardinality(Before(rows, s) \cup {s}) = Cardinality(Before(rows, s)) + 1
  <2>1. PICK k \in Nat : DOMAIN rows \subseteq 1 .. k  BY <1>2 DEF Table
  <2>2. IsFiniteSet(1 .. k)  BY FS_Interval
  <2>3. Before(rows, s) \in SUBSET (1 .. k)  BY <2>1 DEF Before
  <2>4. IsFiniteSet(Before(rows, s))  BY <2>2, <2>3, FS_Subset
  <2>5. s \notin Before(rows, s)  BY <1>2 DEF Before
  <2> QED  BY <2>4, <2>5, FS_AddElement
<1> QED  BY <1>6, <1>14, <1>15 DEF other

(***************************************************************************)
(* For a chain of any length: verify reports a row that was rewritten at   *)
(* its index, a removed row at the index of its successor, and a row that  *)
(* was rewritten together with its hash at the next index.                 *)
(***************************************************************************)
THEOREM TamperingIsLocatedAlways == RecordSpec => []TamperingIsLocated
<1>1. RecordInit => AuditInv  BY AuditInvInit DEF RecordInit
<1>2. AuditInv /\ [RecordNext]_<<vars, auditVars>> => AuditInv'  BY AuditInvNext
<1>3. AuditInv => TamperingIsLocated
  <2> SUFFICES ASSUME AuditInv, NEW s \in DOMAIN security_audit
               PROVE  /\ VerifyChain(Rewritten(security_audit, s)).brokenAt =
                           {Cardinality(Before(security_audit, s))}
                      /\ ~(\A t \in DOMAIN security_audit : t <= s) =>
                           /\ VerifyChain(Removed(security_audit, s)).brokenAt =
                                {Cardinality(Before(security_audit, s))}
                           /\ VerifyChain(Rehashed(security_audit, s)).brokenAt =
                                {Cardinality(Before(security_audit, s)) + 1}
    BY Zenon DEF TamperingIsLocated
  <2> QED  BY AuditIsChain, RewrittenIsFound, RemovedIsFound, RehashedIsFound
<1> QED  BY <1>1, <1>2, <1>3, PTL DEF RecordSpec

-----------------------------------------------------------------------------
(* Entries by position: what a sequence has, and what crashes took. *)
Positions(s) == 1 .. Len(s)

Has(s, e) == \E i \in Positions(s) : s[i] = e

Distinct(s) == \A i, j \in Positions(s) : s[i] = s[j] => i = j

LostIn(i, e) == i \in Positions(lost) /\ e \in lost[i]

IsLost(e) == \E i \in Positions(lost) : LostIn(i, e)

(* An entry that was recorded is in one place: in the buffer, in the batch *)
(* being written, in the hands of its own request, in the table once, or   *)
(* counted as dropped, refused or lost in one crash.                       *)
Exclusive ==
  \A e \in Entries :
    /\ Has(buffer, e) => ~Has(batch, e) /\ e \notin direct
    /\ Has(batch, e) => e \notin direct
    /\ Has(buffer, e) \/ Has(batch, e) \/ e \in direct =>
         sink[e] = 0 /\ e \notin dropped \cup refused /\ ~IsLost(e)
    /\ e \in dropped => e \notin refused
    /\ e \in dropped \cup refused => sink[e] = 0 /\ ~IsLost(e)
    /\ IsLost(e) => sink[e] = 0
    /\ \A i, j \in Positions(lost) : LostIn(i, e) /\ LostIn(j, e) => i = j
    /\ sink[e] \in {0, 1}

Somewhere(e) ==
  Has(buffer, e) \/ Has(batch, e) \/ e \in direct \cup dropped \cup refused
    \/ sink[e] = 1 \/ IsLost(e)

Complete == \A e \in Entries : Somewhere(e) <=> e <= recorded

(* The drain holds a batch only while it writes it; close leaves nothing   *)
(* behind and nothing that could fill the buffer again.                    *)
DrainInv ==
  /\ Distinct(buffer) /\ Distinct(batch)
  /\ flushing # "writing" => batch = <<>>
  /\ closing # "no" => ~timer
  /\ closing = "closed" => flushing = "none" /\ buffer = <<>>

BufferInv == TypeOK /\ DrainInv /\ Exclusive /\ Complete

(* The decision-log invariant holds initially. *)
LEMMA BufferInvInit == ASSUME Init PROVE BufferInv
BY DecisionLogAssumption
   DEF Init, BufferInv, TypeOK, DrainInv, Exclusive, Complete, Somewhere, Entries,
       Has, Distinct, Positions, IsLost, LostIn

(* What the head of the drain's loop does with the entries. *)
LEMMA DrainFacts ==
  ASSUME NEW entries \in Seq(Entries), Distinct(entries), Drain(entries)
  PROVE  /\ buffer' \in Seq(Entries) /\ Len(buffer') <= Len(entries)
         /\ batch' \in Seq(Entries) /\ Len(batch') <= FlushBatch
         /\ Distinct(buffer') /\ Distinct(batch')
         /\ \A e \in Entries :
              /\ Has(entries, e) <=> (Has(buffer', e) \/ Has(batch', e))
              /\ ~(Has(buffer', e) /\ Has(batch', e))
         /\ flushing' \in {"writing", "settling"}
         /\ flushing' = "settling" => batch' = <<>> /\ buffer' = <<>>
<1> DEFINE n == Least(FlushBatch, Len(entries))
<1>1. /\ n \in 0 .. Len(entries) /\ n <= FlushBatch
      /\ n = 0 => Len(entries) = 0
  BY DecisionLogAssumption DEF Least
<1>2. /\ batch' = SubSeq(entries, 1, n)
      /\ buffer' = SubSeq(entries, n + 1, Len(entries))
      /\ flushing' = IF n = 0 THEN "settling" ELSE "writing"
  BY DEF Drain
<1> HIDE DEF n
<1>3. /\ batch' \in Seq(Entries)
      /\ Len(batch') = n
      /\ \A i \in 1 .. n : batch'[i] = entries[i]
  BY <1>1, <1>2
<1>4. /\ buffer' \in Seq(Entries)
      /\ Len(buffer') = Len(entries) - n
      /\ \A i \in 1 .. (Len(entries) - n) : buffer'[i] = entries[n + i]
  BY <1>1, <1>2
<1>5. Distinct(batch')  BY <1>1, <1>3 DEF Distinct, Positions
<1>6. Distinct(buffer')  BY <1>1, <1>4 DEF Distinct, Positions
<1>7. ASSUME NEW e \in Entries
      PROVE  /\ Has(entries, e) <=> (Has(buffer', e) \/ Has(batch', e))
             /\ ~(Has(buffer', e) /\ Has(batch', e))
  <2>1. ASSUME Has(batch', e) PROVE Has(entries, e)
    BY <1>1, <1>3, <2>1 DEF Has, Positions
  <2>2. ASSUME Has(buffer', e) PROVE Has(entries, e)
    BY <1>1, <1>4, <2>2 DEF Has, Positions
  <2>3. ASSUME Has(entries, e) PROVE Has(buffer', e) \/ Has(batch', e)
    <3>1. PICK i \in 1 .. Len(entries) : entries[i] = e  BY <2>3 DEF Has, Positions
    <3>2. CASE i <= n  BY <1>1, <1>3, <3>1, <3>2 DEF Has, Positions
    <3>3. CASE i > n
      <4>1. i - n \in 1 .. (Len(entries) - n) /\ n + (i - n) = i  BY <1>1, <3>1, <3>3
      <4>2. buffer'[i - n] = e  BY <1>4, <3>1, <4>1
      <4> QED  BY <1>4, <4>1, <4>2 DEF Has, Positions
    <3> QED  BY <1>1, <3>2, <3>3
  <2>4. ASSUME Has(buffer', e), Has(batch', e) PROVE FALSE
    <3>1. PICK i \in 1 .. (Len(entries) - n) : buffer'[i] = e
      BY <1>4, <2>4 DEF Has, Positions
    <3>2. PICK j \in 1 .. n : batch'[j] = e  BY <1>3, <2>4 DEF Has, Positions
    <3>3. entries[n + i] = entries[j]  BY <1>3, <1>4, <3>1, <3>2
    <3>4. n + i \in 1 .. Len(entries) /\ j \in 1 .. Len(entries) /\ n + i # j
      BY <1>1, <3>1, <3>2
    <3> QED  BY <3>3, <3>4 DEF Distinct, Positions
  <2> QED  BY <2>1, <2>2, <2>3, <2>4
<1>8. flushing' = "settling" => batch' = <<>> /\ buffer' = <<>>
  <2> SUFFICES ASSUME flushing' = "settling" PROVE batch' = <<>> /\ buffer' = <<>>
    OBVIOUS
  <2>1. n = 0 /\ Len(entries) = 0  BY <1>1, <1>2
  <2> QED  BY <1>3, <1>4, <2>1
<1> QED  BY <1>1, <1>2, <1>3, <1>4, <1>5, <1>6, <1>7, <1>8

(* The entries that the process has in memory, apart from the direct ones. *)
InMemory(e) == Has(buffer, e) \/ Has(batch, e)

(* A flush starts a drain of the entries, or leaves them in the buffer. *)
LEMMA FlushFacts ==
  ASSUME TypeOK, DrainInv, NEW entries \in Seq(Entries), Distinct(entries),
         \A e \in Entries : Has(entries, e) => ~Has(batch, e),
         Flush(entries)
  PROVE  /\ buffer' \in Seq(Entries) /\ Len(buffer') <= Len(entries)
         /\ batch' \in Seq(Entries) /\ Len(batch') <= FlushBatch
         /\ Distinct(buffer') /\ Distinct(batch')
         /\ \A e \in Entries :
              /\ Has(entries, e) \/ Has(batch, e) <=> InMemory(e)'
              /\ ~(Has(buffer', e) /\ Has(batch', e))
         /\ flushing' \in {"writing", "settling"}
         /\ flushing' = "settling" => batch' = <<>>
<1>1. CASE flushing = "none" /\ Drain(entries)
  <2>1. \A e \in Entries : ~Has(batch, e)
    BY <1>1 DEF DrainInv, Has, Positions
  <2> QED  BY <1>1, <2>1, DrainFacts DEF InMemory
<1>2. CASE flushing # "none" /\ buffer' = entries /\ UNCHANGED <<batch, flushing>>
  BY <1>2 DEF InMemory, TypeOK, DrainInv
<1> QED  BY <1>1, <1>2 DEF Flush

(* The entries of a sequence. *)
LEMMA ElementsHave ==
  ASSUME NEW s \in Seq(Entries)
  PROVE  Elements(s) = {e \in Entries : Has(s, e)}
BY DEF Elements, Has, Positions

(* An empty sequence has no entry. *)
LEMMA EmptyHas == \A e : ~Has(<<>>, e)
BY DEF Has, Positions

(* An appended entry is new: nothing is repeated. *)
LEMMA AppendHas ==
  ASSUME NEW s \in Seq(Entries), Distinct(s), NEW x \in Entries, ~Has(s, x)
  PROVE  /\ Append(s, x) \in Seq(Entries) /\ Len(Append(s, x)) = Len(s) + 1
         /\ Distinct(Append(s, x))
         /\ \A e \in Entries : Has(Append(s, x), e) <=> (Has(s, e) \/ e = x)
<1>1. /\ Append(s, x) \in Seq(Entries)
      /\ Len(Append(s, x)) = Len(s) + 1
      /\ \A i \in 1 .. Len(s) : Append(s, x)[i] = s[i]
      /\ Append(s, x)[Len(s) + 1] = x
      /\ Len(s) \in Nat
  OBVIOUS
<1> DEFINE t == Append(s, x)
<1> HIDE DEF t
<1>2. Distinct(t)  BY <1>1 DEF Distinct, Has, Positions, t
<1>3. ASSUME NEW e \in Entries PROVE Has(t, e) <=> (Has(s, e) \/ e = x)
  BY <1>1 DEF Has, Positions, t
<1> QED  BY <1>1, <1>2, <1>3 DEF t

(* An entry goes to a buffer that is not full, or is written directly. *)
LEMMA RecordKeeps == ASSUME BufferInv, Record PROVE BufferInv'
<1> DEFINE entry == recorded + 1
           entries == Append(buffer, entry)
<1>1. /\ entry \in Entries /\ recorded' = entry /\ recorded \in Nat
      /\ closing # "closed"
      /\ UNCHANGED <<sink, dropped, refused, lost, timer, closing>>
  BY DecisionLogAssumption DEF Record, BufferInv, TypeOK, Entries
<1>2. ~Somewhere(entry)  BY <1>1 DEF BufferInv, Complete
<1>3. \A e \in Entries : e <= recorded' <=> (e <= recorded \/ e = entry)
  BY <1>1 DEF Entries
<1> HIDE DEF entry
<1>4. CASE Degrades /\ direct' = direct \cup {entry} /\ UNCHANGED <<buffer, batch, flushing>>
  <2>1. TypeOK'  BY <1>1, <1>4 DEF BufferInv, TypeOK, Entries
  <2>2. DrainInv'  BY <1>1, <1>4 DEF BufferInv, DrainInv
  <2>3. Exclusive'
    BY <1>1, <1>2, <1>4 DEF BufferInv, Exclusive, Somewhere, IsLost, LostIn, TypeOK
  <2>4. Complete'
    BY <1>1, <1>3, <1>4 DEF BufferInv, Complete, Somewhere, IsLost, LostIn
  <2> QED  BY <2>1, <2>2, <2>3, <2>4 DEF BufferInv
<1>5. ASSUME UNCHANGED direct,
             buffer' \in Seq(Entries), Len(buffer') <= MaxBuffer,
             batch' \in Seq(Entries), Len(batch') <= FlushBatch,
             Distinct(buffer'), Distinct(batch'),
             \A e \in Entries : /\ InMemory(e)' <=> (InMemory(e) \/ e = entry)
                                /\ ~(Has(buffer', e) /\ Has(batch', e)),
             flushing' \in {"none", "writing", "settling"},
             flushing' # "writing" => batch' = <<>>
      PROVE  BufferInv'
  <2>1. TypeOK'  BY <1>1, <1>5 DEF BufferInv, TypeOK, Entries
  <2>2. DrainInv'  BY <1>1, <1>5 DEF BufferInv, DrainInv
  <2>3. Exclusive'
    BY <1>1, <1>2, <1>5 DEF BufferInv, Exclusive, Somewhere, IsLost, LostIn, InMemory
  <2>4. Complete'
    BY <1>1, <1>3, <1>5 DEF BufferInv, Complete, Somewhere, IsLost, LostIn, InMemory
  <2> QED  BY <2>1, <2>2, <2>3, <2>4 DEF BufferInv
<1>6. CASE ~Degrades /\ UNCHANGED direct
  <2>1. /\ buffer \in Seq(Entries) /\ Distinct(buffer) /\ ~Has(buffer, entry)
        /\ ~Has(batch, entry) /\ Len(buffer) < MaxBuffer /\ MaxBuffer \in Nat
        /\ batch \in Seq(Entries) /\ Len(batch) <= FlushBatch /\ Distinct(batch)
    BY <1>2, <1>6, DecisionLogAssumption
       DEF BufferInv, DrainInv, Somewhere, TypeOK, Degrades
  <2>2. /\ entries \in Seq(Entries) /\ Len(entries) <= MaxBuffer
        /\ Distinct(entries)
        /\ \A e \in Entries : Has(entries, e) <=> (Has(buffer, e) \/ e = entry)
    BY <1>1, <2>1, AppendHas
  <2> HIDE DEF entries
  <2>3. \A e \in Entries : Has(entries, e) => ~Has(batch, e)
    BY <2>1, <2>2 DEF BufferInv, Exclusive
  <2>4. CASE Flush(entries)
    <3>1. /\ buffer' \in Seq(Entries) /\ Len(buffer') <= Len(entries)
          /\ batch' \in Seq(Entries) /\ Len(batch') <= FlushBatch
          /\ Distinct(buffer') /\ Distinct(batch')
          /\ \A e \in Entries :
               /\ Has(entries, e) \/ Has(batch, e) <=> InMemory(e)'
               /\ ~(Has(buffer', e) /\ Has(batch', e))
          /\ flushing' \in {"writing", "settling"}
          /\ flushing' = "settling" => batch' = <<>>
      BY <2>2, <2>3, <2>4, FlushFacts DEF BufferInv
    <3>2. \A e \in Entries : InMemory(e)' <=> (InMemory(e) \/ e = entry)
      BY <2>2, <3>1 DEF InMemory
    <3>3. Len(buffer') <= MaxBuffer  BY <2>1, <2>2, <3>1
    <3> QED  BY <1>5, <1>6, <3>1, <3>2, <3>3
  <2>5. CASE buffer' = entries /\ UNCHANGED <<batch, flushing>>
    <3>1. \A e \in Entries : /\ InMemory(e)' <=> (InMemory(e) \/ e = entry)
                             /\ ~(Has(buffer', e) /\ Has(batch', e))
      BY <2>2, <2>3, <2>5 DEF InMemory
    <3> QED  BY <1>5, <1>6, <2>1, <2>2, <2>5, <3>1 DEF BufferInv, TypeOK, DrainInv
  <2> QED  BY <1>6, <2>4, <2>5 DEF Record, entries, entry
<1> QED  BY <1>4, <1>6 DEF Record, entry

(* A step in which entries only move within the memory. *)
LEMMA MemoryMoves ==
  ASSUME BufferInv,
         UNCHANGED <<recorded, direct, sink, dropped, refused, lost>>,
         buffer' \in Seq(Entries), Len(buffer') <= Len(buffer),
         batch' \in Seq(Entries), Len(batch') <= FlushBatch,
         Distinct(buffer'), Distinct(batch'),
         \A e \in Entries : /\ InMemory(e)' <=> InMemory(e)
                            /\ ~(Has(buffer', e) /\ Has(batch', e)),
         flushing' \in {"none", "writing", "settling"},
         flushing' # "writing" => batch' = <<>>,
         timer' \in BOOLEAN, closing' \in {"no", "waiting", "closed"},
         closing' # "no" => ~timer',
         closing' = "closed" => flushing' = "none" /\ buffer' = <<>>
  PROVE  BufferInv'
<1>1. TypeOK'
  <2>1. Len(buffer') <= MaxBuffer
    BY DecisionLogAssumption DEF BufferInv, TypeOK
  <2> QED  BY <2>1 DEF BufferInv, TypeOK, Entries
<1>2. DrainInv'  BY DEF DrainInv
<1>3. Exclusive'  BY DEF BufferInv, Exclusive, IsLost, LostIn, InMemory
<1>4. Complete'  BY DEF BufferInv, Complete, Somewhere, IsLost, LostIn, InMemory
<1> QED  BY <1>1, <1>2, <1>3, <1>4 DEF BufferInv

(* Flushes, of the timer and of close, move entries within the memory. *)
LEMMA FlushKeeps ==
  ASSUME BufferInv, closing # "closed", Flush(buffer),
         UNCHANGED <<recorded, direct, sink, dropped, refused, lost>>,
         timer' \in BOOLEAN, closing' \in {"no", "waiting"}, closing' # "no" => ~timer'
  PROVE  BufferInv'
<1>1. /\ buffer \in Seq(Entries) /\ Distinct(buffer)
      /\ \A e \in Entries : Has(buffer, e) => ~Has(batch, e)
  BY DEF BufferInv, TypeOK, DrainInv, Exclusive
<1>2. /\ buffer' \in Seq(Entries) /\ Len(buffer') <= Len(buffer)
      /\ batch' \in Seq(Entries) /\ Len(batch') <= FlushBatch
      /\ Distinct(buffer') /\ Distinct(batch')
      /\ \A e \in Entries :
           /\ Has(buffer, e) \/ Has(batch, e) <=> InMemory(e)'
           /\ ~(Has(buffer', e) /\ Has(batch', e))
      /\ flushing' \in {"writing", "settling"}
      /\ flushing' = "settling" => batch' = <<>>
  BY <1>1, FlushFacts DEF BufferInv
<1>3. \A e \in Entries : InMemory(e)' <=> InMemory(e)  BY <1>2 DEF InMemory
<1> QED  BY <1>2, <1>3, MemoryMoves

(* The batch is written, or dropped, and the drain takes the next one. *)
LEMMA BatchKeeps ==
  ASSUME BufferInv, flushing = "writing", Drain(buffer),
         UNCHANGED <<recorded, direct, refused, lost, timer, closing>>,
         \/ sink' = Inserted(Elements(batch)) /\ UNCHANGED dropped
         \/ dropped' = dropped \cup Elements(batch) /\ UNCHANGED sink
  PROVE  BufferInv'
<1>1. /\ buffer \in Seq(Entries) /\ Distinct(buffer) /\ batch \in Seq(Entries)
      /\ sink \in [Entries -> Nat]
  BY DEF BufferInv, TypeOK, DrainInv
<1>2. /\ buffer' \in Seq(Entries) /\ Len(buffer') <= Len(buffer)
      /\ batch' \in Seq(Entries) /\ Len(batch') <= FlushBatch
      /\ Distinct(buffer') /\ Distinct(batch')
      /\ \A e \in Entries :
           /\ Has(buffer, e) <=> (Has(buffer', e) \/ Has(batch', e))
           /\ ~(Has(buffer', e) /\ Has(batch', e))
      /\ flushing' \in {"writing", "settling"}
      /\ flushing' = "settling" => batch' = <<>> /\ buffer' = <<>>
  BY <1>1, DrainFacts
<1>3. Elements(batch) = {e \in Entries : Has(batch, e)}  BY <1>1, ElementsHave
<1>4. Len(buffer') <= MaxBuffer
  BY <1>1, <1>2, DecisionLogAssumption DEF BufferInv, TypeOK
<1>5. DrainInv'  BY <1>2 DEF BufferInv, DrainInv
<1>6. CASE sink' = Inserted(Elements(batch)) /\ UNCHANGED dropped
  <2>1. /\ sink' \in [Entries -> Nat]
        /\ \A e \in Entries : sink'[e] = IF Has(batch, e) THEN sink[e] + 1 ELSE sink[e]
    BY <1>1, <1>3, <1>6 DEF Inserted
  <2>2. TypeOK'  BY <1>2, <1>4, <1>6, <2>1 DEF BufferInv, TypeOK, Entries
  <2>3. Exclusive'
    BY <1>2, <1>6, <2>1 DEF BufferInv, Exclusive, IsLost, LostIn
  <2>4. Complete'
    BY <1>2, <1>6, <2>1 DEF BufferInv, Exclusive, Complete, Somewhere, IsLost, LostIn
  <2> QED  BY <1>5, <2>2, <2>3, <2>4 DEF BufferInv
<1>7. CASE dropped' = dropped \cup Elements(batch) /\ UNCHANGED sink
  <2>1. \A e \in Entries : e \in dropped' <=> (e \in dropped \/ Has(batch, e))
    BY <1>3, <1>7
  <2>2. TypeOK'  BY <1>2, <1>3, <1>4, <1>7 DEF BufferInv, TypeOK, Entries
  <2>3. Exclusive'
    BY <1>2, <1>7, <2>1 DEF BufferInv, Exclusive, IsLost, LostIn
  <2>4. Complete'
    BY <1>2, <1>7, <2>1 DEF BufferInv, Complete, Somewhere, IsLost, LostIn
  <2> QED  BY <1>5, <2>2, <2>3, <2>4 DEF BufferInv
<1> QED  BY <1>6, <1>7

(* A request writes its own entry, or its check fails. *)
LEMMA DirectKeeps ==
  ASSUME BufferInv, NEW entry \in direct, DirectWritten(entry) \/ DirectFailed(entry)
  PROVE  BufferInv'
<1>1. /\ entry \in Entries /\ sink \in [Entries -> Nat] /\ direct' = direct \ {entry}
      /\ UNCHANGED <<recorded, buffer, flushing, batch, dropped, lost, timer, closing>>
  BY DEF DirectWritten, DirectFailed, BufferInv, TypeOK
<1>2. DrainInv'  BY <1>1 DEF BufferInv, DrainInv
<1>3. CASE DirectWritten(entry)
  <2>1. /\ refused' = refused
        /\ sink' \in [Entries -> Nat]
        /\ \A e \in Entries : sink'[e] = IF e = entry THEN sink[e] + 1 ELSE sink[e]
    BY <1>1, <1>3 DEF DirectWritten, Inserted
  <2>2. TypeOK'  BY <1>1, <2>1 DEF BufferInv, TypeOK, Entries
  <2>3. Exclusive'
    BY <1>1, <2>1 DEF BufferInv, Exclusive, IsLost, LostIn
  <2>4. Complete'
    BY <1>1, <2>1 DEF BufferInv, Exclusive, Complete, Somewhere, IsLost, LostIn
  <2> QED  BY <1>2, <2>2, <2>3, <2>4 DEF BufferInv
<1>4. CASE DirectFailed(entry)
  <2>1. sink' = sink /\ refused' = refused \cup {entry}
    BY <1>4 DEF DirectFailed
  <2>2. TypeOK'  BY <1>1, <2>1 DEF BufferInv, TypeOK, Entries
  <2>3. Exclusive'
    BY <1>1, <2>1 DEF BufferInv, Exclusive, IsLost, LostIn
  <2>4. Complete'
    BY <1>1, <2>1 DEF BufferInv, Complete, Somewhere, IsLost, LostIn
  <2> QED  BY <1>2, <2>2, <2>3, <2>4 DEF BufferInv
<1> QED  BY <1>3, <1>4

(* close goes on: another drain, or the end. *)
LEMMA CloseResumesKeeps == ASSUME BufferInv, CloseResumes PROVE BufferInv'
<1>1. /\ flushing = "settling" /\ closing = "waiting" /\ batch = <<>> /\ ~timer
      /\ buffer \in Seq(Entries) /\ Distinct(buffer)
      /\ UNCHANGED <<recorded, direct, sink, dropped, refused, lost, timer>>
  BY DEF CloseResumes, BufferInv, DrainInv, TypeOK
<1>2. CASE Drain(buffer) /\ UNCHANGED closing
  <2>1. /\ buffer' \in Seq(Entries) /\ Len(buffer') <= Len(buffer)
        /\ batch' \in Seq(Entries) /\ Len(batch') <= FlushBatch
        /\ Distinct(buffer') /\ Distinct(batch')
        /\ \A e \in Entries :
             /\ Has(buffer, e) <=> (Has(buffer', e) \/ Has(batch', e))
             /\ ~(Has(buffer', e) /\ Has(batch', e))
        /\ flushing' \in {"writing", "settling"}
        /\ flushing' = "settling" => batch' = <<>> /\ buffer' = <<>>
    BY <1>1, <1>2, DrainFacts
  <2>2. \A e \in Entries : InMemory(e)' <=> InMemory(e)
    BY <1>1, <2>1, EmptyHas DEF InMemory
  <2>3. timer' \in BOOLEAN /\ ~timer'  BY <1>1 DEF BufferInv, TypeOK
  <2> QED  BY <1>1, <1>2, <2>1, <2>2, <2>3, MemoryMoves
<1>3. CASE /\ buffer = <<>> /\ flushing' = "none" /\ closing' = "closed"
           /\ UNCHANGED <<buffer, batch>>
  BY <1>1, <1>3, MemoryMoves DEF BufferInv, DrainInv, Exclusive, TypeOK, InMemory
<1> QED  BY <1>2, <1>3 DEF CloseResumes

(* The process dies: its memory is lost, except for what the database had  *)
(* been sent and committed.                                                *)
LEMMA CrashKeeps == ASSUME BufferInv, Crash PROVE BufferInv'
<1>1. PICK sent \in {{}, Elements(batch)}, kept \in SUBSET direct :
        /\ sink' = Inserted(sent \cup kept)
        /\ lost' = Append(lost, Elements(buffer) \cup (Elements(batch) \ sent)
                                  \cup (direct \ kept))
  BY DEF Crash
<1>2. /\ buffer' = <<>> /\ flushing' = "none" /\ batch' = <<>> /\ direct' = {}
      /\ timer' = TRUE /\ closing' = "no"
      /\ UNCHANGED <<recorded, dropped, refused>>
  BY DEF Crash
<1> DEFINE gone == Elements(buffer) \cup (Elements(batch) \ sent) \cup (direct \ kept)
<1>3. /\ buffer \in Seq(Entries) /\ batch \in Seq(Entries) /\ direct \subseteq Entries
      /\ sink \in [Entries -> Nat] /\ lost \in Seq(SUBSET Entries)
  BY DEF BufferInv, TypeOK
<1>4. /\ Elements(buffer) = {e \in Entries : Has(buffer, e)}
      /\ Elements(batch) = {e \in Entries : Has(batch, e)}
  BY <1>3, ElementsHave
<1>5. gone \in SUBSET Entries  BY <1>3, <1>4
<1>6. \A e \in Entries : e \in sent \cup kept => Has(batch, e) \/ e \in direct
  BY <1>4
<1>7. \A e \in Entries :
        e \in gone <=> /\ Has(buffer, e) \/ Has(batch, e) \/ e \in direct
                       /\ e \notin sent \cup kept
  BY <1>3, <1>4 DEF BufferInv, Exclusive
<1>8. /\ sink' \in [Entries -> Nat]
      /\ \A e \in Entries : sink'[e] = IF e \in sent \cup kept THEN sink[e] + 1 ELSE sink[e]
  BY <1>1, <1>3 DEF Inserted
<1> HIDE DEF gone
<1>9. /\ lost' \in Seq(SUBSET Entries) /\ Len(lost') = Len(lost) + 1
      /\ \A i \in 1 .. Len(lost) : lost'[i] = lost[i]
      /\ lost'[Len(lost) + 1] = gone
      /\ Len(lost) \in Nat
  BY <1>1, <1>3, <1>5 DEF gone
<1>10. ASSUME NEW e \in Entries
       PROVE  \A i : LostIn(i, e)' <=> (LostIn(i, e) \/ (i = Len(lost) + 1 /\ e \in gone))
  BY <1>9 DEF LostIn, Positions
<1>11. ASSUME NEW e \in Entries PROVE IsLost(e)' <=> (IsLost(e) \/ e \in gone)
  <2>1. IsLost(e) <=> \E i : LostIn(i, e)  BY DEF IsLost, LostIn
  <2>2. IsLost(e)' <=> \E i : LostIn(i, e)'  BY DEF IsLost, LostIn
  <2> QED  BY <1>10, <2>1, <2>2
<1>12. TypeOK'
  BY <1>2, <1>8, <1>9, DecisionLogAssumption DEF BufferInv, TypeOK, Entries
<1>13. DrainInv'  BY <1>2 DEF DrainInv, Distinct, Positions
<1>14. Exclusive'
  <2> SUFFICES ASSUME NEW e \in Entries
               PROVE  /\ e \in dropped' => e \notin refused'
                      /\ e \in dropped' \cup refused' => sink'[e] = 0 /\ ~IsLost(e)'
                      /\ IsLost(e)' => sink'[e] = 0
                      /\ \A i, j \in Positions(lost') :
                           LostIn(i, e)' /\ LostIn(j, e)' => i = j
                      /\ sink'[e] \in {0, 1}
    BY <1>2, EmptyHas DEF Exclusive
  <2>1. e \in gone => ~IsLost(e)  BY <1>7 DEF BufferInv, Exclusive
  <2>2. \A i, j \in Positions(lost') : LostIn(i, e)' /\ LostIn(j, e)' => i = j
    <3> SUFFICES ASSUME NEW i, NEW j, LostIn(i, e)', LostIn(j, e)' PROVE i = j
      OBVIOUS
    <3>1. LostIn(i, e) \/ (i = Len(lost) + 1 /\ e \in gone)  BY <1>10
    <3>2. LostIn(j, e) \/ (j = Len(lost) + 1 /\ e \in gone)  BY <1>10
    <3>3. CASE e \in gone
      <4>1. ~LostIn(i, e) /\ ~LostIn(j, e)  BY <2>1, <3>3 DEF IsLost, LostIn
      <4> QED  BY <3>1, <3>2, <4>1
    <3>4. CASE e \notin gone
      <4>1. LostIn(i, e) /\ LostIn(j, e)  BY <3>1, <3>2, <3>4
      <4> QED  BY <4>1 DEF BufferInv, Exclusive, LostIn
    <3> QED  BY <3>3, <3>4
  <2> QED
    BY <1>2, <1>6, <1>7, <1>8, <1>11, <2>1, <2>2 DEF BufferInv, Exclusive
<1>15. Complete'
  <2> SUFFICES ASSUME NEW e \in Entries PROVE Somewhere(e)' <=> e <= recorded'
    BY DEF Complete
  <2>1. Somewhere(e)' <=> e \in dropped \cup refused \/ sink'[e] = 1 \/ IsLost(e)'
    BY <1>2, EmptyHas DEF Somewhere
  <2>2. Somewhere(e) <=> e <= recorded'  BY <1>2 DEF BufferInv, Complete
  <2>3. Has(batch, e) \/ e \in direct => sink[e] = 0  BY DEF BufferInv, Exclusive
  <2> QED
    BY <1>3, <1>6, <1>7, <1>8, <1>11, <2>1, <2>2, <2>3 DEF Somewhere
<1> QED  BY <1>12, <1>13, <1>14, <1>15 DEF BufferInv

(* Every step of the decision log keeps its invariant. *)
LEMMA BufferInvNext ==
  ASSUME BufferInv, [RecordNext]_<<vars, auditVars>> PROVE BufferInv'
<1>1. CASE UNCHANGED vars
  BY <1>1 DEF vars, BufferInv, TypeOK, DrainInv, Exclusive, Complete, Somewhere,
              IsLost, LostIn
<1>2. CASE Record  BY <1>2, RecordKeeps
<1>3. CASE \E entry \in direct : DirectWritten(entry) \/ DirectFailed(entry)
  BY <1>3, DirectKeeps
<1>4. CASE TimerFlush
  <2>1. closing # "closed" /\ closing' \in {"no", "waiting"} /\ timer' \in BOOLEAN
    BY <1>4 DEF TimerFlush, BufferInv, TypeOK, DrainInv
  <2> QED  BY <1>4, <2>1, FlushKeeps DEF TimerFlush, BufferInv, DrainInv
<1>5. CASE BatchWritten \/ BatchFailed
  BY <1>5, BatchKeeps DEF BatchWritten, BatchFailed
<1>6. CASE Settle
  <2>1. \A e \in Entries : /\ InMemory(e)' <=> InMemory(e)
                           /\ ~(Has(buffer', e) /\ Has(batch', e))
    BY <1>6 DEF Settle, InMemory, BufferInv, Exclusive
  <2> QED  BY <1>6, <2>1, MemoryMoves DEF Settle, BufferInv, TypeOK, DrainInv
<1>7. CASE Close
  BY <1>7, FlushKeeps DEF Close
<1>8. CASE CloseResumes  BY <1>8, CloseResumesKeeps
<1>9. CASE Crash  BY <1>9, CrashKeeps
<1> QED
  BY <1>1, <1>2, <1>3, <1>4, <1>5, <1>6, <1>7, <1>8, <1>9 DEF RecordNext, Step

-----------------------------------------------------------------------------
(* How often an entry is in a sequence without repetitions. *)
LEMMA CountInSequence ==
  ASSUME NEW s, NEW e, Distinct(s), DOMAIN s = Positions(s)
  PROVE  Cardinality({i \in DOMAIN s : s[i] = e}) = IF Has(s, e) THEN 1 ELSE 0
<1>1. CASE Has(s, e)
  <2>1. PICK k \in Positions(s) : s[k] = e  BY <1>1 DEF Has
  <2>2. {i \in DOMAIN s : s[i] = e} = {k}  BY <2>1 DEF Distinct
  <2> QED  BY <1>1, <2>2, FS_Singleton
<1>2. CASE ~Has(s, e)
  <2>1. {i \in DOMAIN s : s[i] = e} = {}  BY <1>2 DEF Has
  <2> QED  BY <1>2, <2>1, FS_EmptySet
<1> QED  BY <1>1, <1>2

(* How often an entry is in a set. *)
LEMMA CountInSet ==
  \A S, e : Cardinality({e} \cap S) = IF e \in S THEN 1 ELSE 0
<1> SUFFICES ASSUME NEW S, NEW e
             PROVE  Cardinality({e} \cap S) = IF e \in S THEN 1 ELSE 0
  OBVIOUS
<1>1. CASE e \in S
  <2>1. {e} \cap S = {e}  BY <1>1
  <2> QED  BY <1>1, <2>1, FS_Singleton
<1>2. CASE e \notin S
  <2>1. {e} \cap S = {}  BY <1>2
  <2> QED  BY <1>2, <2>1, FS_EmptySet
<1> QED  BY <1>1, <1>2

(* In one place at a time is what the sum of the counts says. *)
LEMMA OnePlace == ASSUME BufferInv PROVE AccountedOnce
<1> SUFFICES ASSUME NEW e \in 1 .. recorded PROVE Places(e) = 1
  BY DEF AccountedOnce
<1>0. recorded \in 0 .. MaxEntries /\ MaxEntries \in Nat
  BY DecisionLogAssumption DEF BufferInv, TypeOK
<1>1. /\ e \in Entries /\ e <= recorded
      /\ DOMAIN buffer = Positions(buffer) /\ DOMAIN batch = Positions(batch)
      /\ DOMAIN lost = Positions(lost) /\ sink[e] \in {0, 1}
  <2>1. e \in Entries /\ e <= recorded  BY <1>0 DEF Entries
  <2>2. /\ buffer \in Seq(Entries) /\ batch \in Seq(Entries)
        /\ lost \in Seq(SUBSET Entries)
    BY DEF BufferInv, TypeOK
  <2>3. sink[e] \in {0, 1}  BY <2>1 DEF BufferInv, Exclusive
  <2> QED  BY <2>1, <2>2, <2>3 DEF Positions
<1>2. /\ Cardinality({i \in DOMAIN buffer : buffer[i] = e}) = IF Has(buffer, e) THEN 1 ELSE 0
      /\ Cardinality({i \in DOMAIN batch : batch[i] = e}) = IF Has(batch, e) THEN 1 ELSE 0
  BY <1>1, CountInSequence DEF BufferInv, DrainInv
<1>3. Cardinality({i \in DOMAIN lost : e \in lost[i]}) = IF IsLost(e) THEN 1 ELSE 0
  <2>1. CASE IsLost(e)
    <3>1. PICK k \in Positions(lost) : LostIn(k, e)  BY <2>1 DEF IsLost
    <3>2. {i \in DOMAIN lost : e \in lost[i]} = {k}
      BY <1>1, <3>1 DEF BufferInv, Exclusive, LostIn
    <3> QED  BY <2>1, <3>2, FS_Singleton
  <2>2. CASE ~IsLost(e)
    <3>1. {i \in DOMAIN lost : e \in lost[i]} = {}  BY <1>1, <2>2 DEF IsLost, LostIn
    <3> QED  BY <2>2, <3>1, FS_EmptySet
  <2> QED  BY <2>1, <2>2
<1>4. /\ Cardinality({e} \cap direct) = IF e \in direct THEN 1 ELSE 0
      /\ Cardinality({e} \cap dropped) = IF e \in dropped THEN 1 ELSE 0
      /\ Cardinality({e} \cap refused) = IF e \in refused THEN 1 ELSE 0
  BY CountInSet
<1>5. Somewhere(e)  BY <1>1 DEF BufferInv, Complete
<1>6. Places(e) = (IF Has(buffer, e) THEN 1 ELSE 0) + (IF Has(batch, e) THEN 1 ELSE 0)
                    + sink[e] + (IF e \in direct THEN 1 ELSE 0)
                    + (IF e \in dropped THEN 1 ELSE 0) + (IF e \in refused THEN 1 ELSE 0)
                    + (IF IsLost(e) THEN 1 ELSE 0)
  BY <1>2, <1>3, <1>4, Zenon DEF Places
<1> QED  BY <1>1, <1>5, <1>6 DEF BufferInv, Exclusive, Somewhere

(* A sequence has at most as many entries as positions. *)
LEMMA FewElements ==
  ASSUME NEW s \in Seq(Entries)
  PROVE  IsFiniteSet(Elements(s)) /\ Cardinality(Elements(s)) <= Len(s)
<1>1. s \in Surjection(1 .. Len(s), Elements(s))
  BY DEF Surjection, Elements
<1>2. IsFiniteSet(1 .. Len(s)) /\ Cardinality(1 .. Len(s)) = Len(s)
  <2>1. Len(s) \in Nat /\ 1 \in Int /\ Len(s) \in Int  OBVIOUS
  <2> DEFINE n == Len(s)
  <2> HIDE DEF n
  <2>2. n \in Nat /\ n \in Int  BY <2>1 DEF n
  <2>3. /\ IsFiniteSet(1 .. n)
        /\ Cardinality(1 .. n) = IF 1 > n THEN 0 ELSE n - 1 + 1
    BY <2>1, <2>2, FS_Interval
  <2>4. (IF 1 > n THEN 0 ELSE n - 1 + 1) = n  BY <2>2
  <2> QED  BY <2>3, <2>4 DEF n
<1> QED  BY <1>1, <1>2, FS_Surjection

(***************************************************************************)
(* For any sizes of buffer and batch, and any number of decisions and      *)
(* crashes: every decision is in exactly one place, and none is left in    *)
(* memory when close returns.                                              *)
(***************************************************************************)
THEOREM NothingIsLostSilentlyAlways == RecordSpec => []NothingIsLostSilently
<1>1. RecordInit => BufferInv  BY BufferInvInit DEF RecordInit
<1>2. BufferInv /\ [RecordNext]_<<vars, auditVars>> => BufferInv'  BY BufferInvNext
<1>3. BufferInv => NothingIsLostSilently
  BY OnePlace DEF BufferInv, DrainInv, NothingIsLostSilently, CloseDrains
<1> QED  BY <1>1, <1>2, <1>3, PTL DEF RecordSpec

(***************************************************************************)
(* A crash takes a full buffer and one batch at most, whatever the         *)
(* database does in the meantime.                                          *)
(***************************************************************************)
THEOREM LossIsBoundedAlways == RecordSpec => []LossIsBounded
<1>1. RecordInit => BufferInv  BY BufferInvInit DEF RecordInit
<1>2. BufferInv /\ [RecordNext]_<<vars, auditVars>> => BufferInv'  BY BufferInvNext
<1>3. BufferInv => LossIsBounded
  <2> SUFFICES ASSUME BufferInv PROVE LossIsBounded  OBVIOUS
  <2>1. /\ buffer \in Seq(Entries) /\ Len(buffer) <= MaxBuffer
        /\ batch \in Seq(Entries) /\ Len(batch) <= FlushBatch
    BY DEF BufferInv, TypeOK
  <2>2. /\ Cardinality(Elements(buffer)) \in Nat /\ Cardinality(Elements(batch)) \in Nat
        /\ Cardinality(Elements(buffer)) <= Len(buffer)
        /\ Cardinality(Elements(batch)) <= Len(batch)
    BY <2>1, FewElements, FS_CardinalityType
  <2> QED  BY <2>1, <2>2, DecisionLogAssumption DEF LossIsBounded
<1> QED  BY <1>1, <1>2, <1>3, PTL DEF RecordSpec

=============================================================================
