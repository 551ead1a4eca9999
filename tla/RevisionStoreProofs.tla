------------------------ MODULE RevisionStoreProofs ------------------------
(***************************************************************************)
(* Proofs about RevisionStore: types, and that the newest committed        *)
(* revision names the committed state.                                     *)
(***************************************************************************)
EXTENDS RevisionStore, FiniteSetTheorems, WellFoundedInduction, TLAPS

Less == {p \in Nat \X Nat : p[1] < p[2]}

(* The naturals are well ordered. *)
LEMMA LessWellFounded == IsWellFoundedOn(Less, Nat)
BY NatLessThanWellFounded DEF OpToRel, Less

(* A set of naturals that is not empty has a least element. *)
LEMMA LeastElement ==
  ASSUME NEW S \in SUBSET Nat, S # {}
  PROVE  \E m \in S : \A n \in S : m <= n
<1>1. PICK m \in S : \A n \in S : <<n, m>> \notin Less
  BY LessWellFounded, WFMin, Zenon
<1>2. ASSUME NEW n \in S, n < m PROVE FALSE
  <2>1. <<n, m>> \in Nat \X Nat  OBVIOUS
  <2>2. <<n, m>> \in Less  BY <2>1, <1>2 DEF Less
  <2> QED  BY <2>2, <1>1
<1> QED  BY <1>2

(* A bounded set of naturals that is not empty has a greatest element. *)
LEMMA GreatestElement ==
  ASSUME NEW n \in Nat, NEW S \in SUBSET (0 .. n), S # {}
  PROVE  \E m \in S : \A k \in S : k <= m
<1> DEFINE Bounds == {b \in Nat : \A k \in S : k <= b}
<1>1. n \in Bounds  OBVIOUS
<1>2. PICK b \in Bounds : \A c \in Bounds : b <= c
  <2>1. Bounds \in SUBSET Nat  OBVIOUS
  <2> HIDE DEF Bounds
  <2> QED  BY <1>1, <2>1, LeastElement
<1>3. ASSUME b \notin S PROVE FALSE
  <2>1. \A j \in S : j < b  BY <1>3
  <2>2. PICK k \in S : TRUE  OBVIOUS
  <2>3. b - 1 \in Bounds  BY <2>1, <2>2
  <2> QED  BY <2>3, <1>2
<1> QED  BY <1>2, <1>3

-----------------------------------------------------------------------------
(* The state hist keeps for a revision carries that revision. *)
HistoryIndexed ==
  /\ DOMAIN hist \subseteq 0 .. db.current
  /\ \A r \in DOMAIN hist : hist[r].current = r

(* The lock admits one uncommitted revision, and it is newer than every    *)
(* committed one: the next commit can only add the new maximum.            *)
PendingIsNewest ==
  /\ db.current <= seq
  /\ seq <= MaxRevision
  /\ \A w \in Writers : pending[w] # 0 => pending[w] > db.current /\ pending[w] <= seq
  /\ \A w, v \in Writers : pending[w] # 0 /\ pending[v] # 0 => w = v

StoreInv ==
  /\ StoreTypeOK
  /\ RevisionNamesSnapshot
  /\ HistoryIndexed
  /\ PendingIsNewest

-----------------------------------------------------------------------------
(* Each write's new contents, before the revision is stamped, is a         *)
(* database: what Commit is given in every writer.                         *)
Written(w, changed) ==
  \/ \E t \in Tuple : changed =
       [db EXCEPT !.tuples = @ \cup {t},
                  !.changelog = @ \cup {[rev |-> pending[w], op |-> "upsert",
                                         org |-> t[1], tuple |-> t]}]
  \/ \E t \in Tuple : changed =
       [db EXCEPT !.tuples = @ \ {t},
                  !.changelog = IF t \in db.tuples
                                THEN @ \cup {[rev |-> pending[w], op |-> "delete",
                                              org |-> t[1], tuple |-> t]}
                                ELSE @]
  \/ \E o \in Orgs, required \in SUBSET Relations :
       changed = [db EXCEPT !.ns[o] = required, !.nsRev[o] = pending[w]]
  \/ \E p \in PolicyIds, policy \in Policy :
       changed = [db EXCEPT !.policies[p] = policy]
  \/ \E o \in Orgs, p \in PolicyIds :
       changed = [db EXCEPT !.policies[p] =
                    IF @ # NoPolicy /\ @.org = o THEN NoPolicy ELSE @]

(* Every step of the store allocates, rolls back, or commits one write. *)
LEMMA StoreStep ==
  ASSUME StoreNext
  PROVE  \E w \in Writers :
           \/ Allocate(w)
           \/ Rollback(w)
           \/ \E changed : Written(w, changed) /\ Commit(w, changed)
<1> PICK w \in Writers :
      \/ Allocate(w)
      \/ \E t \in Tuple : WriteTuple(w, t)
      \/ \E t \in Tuple : RevokeTuple(w, t)
      \/ \E o \in Orgs, required \in SUBSET Relations :
           DefineNamespace(w, o, required)
      \/ \E p \in PolicyIds, policy \in Policy : WritePolicy(w, p, policy)
      \/ \E o \in Orgs, p \in PolicyIds : DeletePolicy(w, o, p)
      \/ Rollback(w)
  BY DEF StoreNext
<1>1. CASE Allocate(w)  BY <1>1
<1>2. CASE Rollback(w)  BY <1>2
<1>3. CASE \E t \in Tuple : WriteTuple(w, t)
  BY <1>3, Zenon DEF WriteTuple, Written
<1>4. CASE \E t \in Tuple : RevokeTuple(w, t)
  BY <1>4, Zenon DEF RevokeTuple, Written
<1>5. CASE \E o \in Orgs, required \in SUBSET Relations :
             DefineNamespace(w, o, required)
  BY <1>5, Zenon DEF DefineNamespace, Written
<1>6. CASE \E p \in PolicyIds, policy \in Policy : WritePolicy(w, p, policy)
  BY <1>6, Zenon DEF WritePolicy, Written
<1>7. CASE \E o \in Orgs, p \in PolicyIds : DeletePolicy(w, o, p)
  BY <1>7, Zenon DEF DeletePolicy, Written
<1> QED  BY <1>1, <1>2, <1>3, <1>4, <1>5, <1>6, <1>7

(* The contents every write commits are well typed. *)
LEMMA WrittenType ==
  ASSUME StoreTypeOK, NEW w \in Writers, NEW changed, Written(w, changed)
  PROVE  changed \in Database
<1> USE DEF StoreTypeOK, Database
<1>1. CASE \E t \in Tuple : changed =
       [db EXCEPT !.tuples = @ \cup {t},
                  !.changelog = @ \cup {[rev |-> pending[w], op |-> "upsert",
                                         org |-> t[1], tuple |-> t]}]
  <2> PICK t \in Tuple : changed =
       [db EXCEPT !.tuples = @ \cup {t},
                  !.changelog = @ \cup {[rev |-> pending[w], op |-> "upsert",
                                         org |-> t[1], tuple |-> t]}]
    BY <1>1
  <2>1. [rev |-> pending[w], op |-> "upsert", org |-> t[1], tuple |-> t] \in Change
    BY DEF Change, Tuple
  <2> QED  BY <2>1
<1>2. CASE \E t \in Tuple : changed =
       [db EXCEPT !.tuples = @ \ {t},
                  !.changelog = IF t \in db.tuples
                                THEN @ \cup {[rev |-> pending[w], op |-> "delete",
                                              org |-> t[1], tuple |-> t]}
                                ELSE @]
  <2> PICK t \in Tuple : changed =
       [db EXCEPT !.tuples = @ \ {t},
                  !.changelog = IF t \in db.tuples
                                THEN @ \cup {[rev |-> pending[w], op |-> "delete",
                                              org |-> t[1], tuple |-> t]}
                                ELSE @]
    BY <1>2
  <2>1. [rev |-> pending[w], op |-> "delete", org |-> t[1], tuple |-> t] \in Change
    BY DEF Change, Tuple
  <2>2. CASE t \in db.tuples  BY <2>1, <2>2
  <2>3. CASE t \notin db.tuples  BY <2>3
  <2> QED  BY <2>2, <2>3
<1>3. CASE \E o \in Orgs, required \in SUBSET Relations :
       changed = [db EXCEPT !.ns[o] = required, !.nsRev[o] = pending[w]]
  <2> PICK o \in Orgs, required \in SUBSET Relations :
         changed = [db EXCEPT !.ns[o] = required, !.nsRev[o] = pending[w]]
    BY <1>3
  <2>1. [db.ns EXCEPT ![o] = required] \in [Orgs -> SUBSET Relations]
    OBVIOUS
  <2>2. [db.nsRev EXCEPT ![o] = pending[w]] \in [Orgs -> Nat]
    OBVIOUS
  <2>3. changed = [db EXCEPT !.ns = [db.ns EXCEPT ![o] = required],
                             !.nsRev = [db.nsRev EXCEPT ![o] = pending[w]]]
    OBVIOUS
  <2> QED  BY <2>1, <2>2, <2>3
<1>4. CASE \E p \in PolicyIds, policy \in Policy :
       changed = [db EXCEPT !.policies[p] = policy]
  BY <1>4
<1>5. CASE \E o \in Orgs, p \in PolicyIds :
       changed = [db EXCEPT !.policies[p] =
                    IF @ # NoPolicy /\ @.org = o THEN NoPolicy ELSE @]
  BY <1>5
<1> QED  BY <1>1, <1>2, <1>3, <1>4, <1>5 DEF Written

(***************************************************************************)
(* What a commit does to the history: its revision is newer than every     *)
(* committed one, becomes the current one and names the new state; every   *)
(* older revision keeps the state it named.                                *)
(***************************************************************************)
LEMMA CommitStep ==
  ASSUME StoreInv, NEW w \in Writers, NEW changed \in Database,
         Commit(w, changed)
  PROVE  /\ db' \in Database
         /\ pending[w] > db.current
         /\ db'.current = pending[w]
         /\ DOMAIN hist' = DOMAIN hist \cup {pending[w]}
         /\ hist'[pending[w]] = db'
         /\ \A r \in DOMAIN hist : r # pending[w] /\ hist'[r] = hist[r]
<1>1. pending[w] \in Nat /\ pending[w] > db.current /\ db.current \in Nat
  BY DEF StoreInv, StoreTypeOK, PendingIsNewest, Commit, Database
<1>2. db' = [changed EXCEPT !.current = pending[w]]
  BY <1>1 DEF Commit, CurrentWith
<1>3. db' \in Database /\ db'.current = pending[w]
  BY <1>1, <1>2 DEF Database
<1>4. \A r \in DOMAIN hist : r # pending[w]
  BY <1>1 DEF StoreInv, HistoryIndexed
<1> QED  BY <1>1, <1>3, <1>4 DEF Commit

(* The store's inductive invariant holds initially. *)
LEMMA StoreInvInit ==
  ASSUME StoreInit PROVE StoreInv
<1> USE RevisionStoreAssumption
<1>1. SeedDatabase.current \in Nat  BY DEF Database
<1> QED
  BY <1>1 DEF StoreInit, StoreInv, StoreTypeOK, RevisionNamesSnapshot,
              HistoryIndexed, PendingIsNewest

(* Every step of the store keeps its inductive invariant. *)
LEMMA StoreInvNext ==
  ASSUME StoreInv, [StoreNext]_storeVars PROVE StoreInv'
<1> USE RevisionStoreAssumption
<1>1. CASE UNCHANGED storeVars
  BY <1>1 DEF storeVars, StoreInv, StoreTypeOK, RevisionNamesSnapshot,
              HistoryIndexed, PendingIsNewest
<1>2. ASSUME NEW w \in Writers, Allocate(w) PROVE StoreInv'
  <2>1. seq \in Nat /\ pending \in [Writers -> Nat] /\ db.current \in Nat
    BY DEF StoreInv, StoreTypeOK, Database
  <2>2. PendingIsNewest'
    BY <1>2, <2>1 DEF StoreInv, Allocate, RevisionLockFree, PendingIsNewest
  <2> QED
    BY <1>2, <2>1, <2>2 DEF Allocate, StoreInv, StoreTypeOK,
                            RevisionNamesSnapshot, HistoryIndexed
<1>3. ASSUME NEW w \in Writers, Rollback(w) PROVE StoreInv'
  BY <1>3 DEF Rollback, StoreInv, StoreTypeOK, RevisionNamesSnapshot,
              HistoryIndexed, PendingIsNewest
<1>4. ASSUME NEW w \in Writers, NEW changed, Written(w, changed), Commit(w, changed)
      PROVE StoreInv'
  <2>1. changed \in Database
    BY <1>4, WrittenType DEF StoreInv
  <2>2. /\ db' \in Database
        /\ pending[w] > db.current
        /\ db'.current = pending[w]
        /\ DOMAIN hist' = DOMAIN hist \cup {pending[w]}
        /\ hist'[pending[w]] = db'
        /\ \A r \in DOMAIN hist : r # pending[w] /\ hist'[r] = hist[r]
    BY <1>4, <2>1, CommitStep
  <2>3. pending[w] \in Nat /\ db.current \in Nat /\ seq \in Nat /\ seq' = seq
        /\ pending' = [pending EXCEPT ![w] = 0] /\ pending \in [Writers -> Nat]
        /\ pending[w] # 0
    BY <1>4 DEF StoreInv, StoreTypeOK, Database, Commit
  <2>4. StoreTypeOK'
    BY <2>2, <2>3 DEF StoreInv, StoreTypeOK
  <2>5. RevisionNamesSnapshot'
    BY <2>2 DEF RevisionNamesSnapshot
  <2>6. HistoryIndexed'
    BY <2>2, <2>3 DEF StoreInv, HistoryIndexed
  <2>7. PendingIsNewest'
    BY <2>2, <2>3 DEF StoreInv, PendingIsNewest
  <2> QED  BY <2>4, <2>5, <2>6, <2>7 DEF StoreInv
<1> QED  BY <1>1, <1>2, <1>3, <1>4, StoreStep

(* A step of the store only adds to the history. *)
LEMMA HistoryGrows ==
  ASSUME StoreInv, [StoreNext]_storeVars
  PROVE  /\ db' # db => db'.current > db.current
         /\ \A r \in DOMAIN hist : r \in DOMAIN hist' /\ hist'[r] = hist[r]
<1>1. CASE UNCHANGED storeVars  BY <1>1 DEF storeVars
<1>2. CASE StoreNext
  <2>1. PICK w \in Writers :
          \/ Allocate(w)
          \/ Rollback(w)
          \/ \E changed : Written(w, changed) /\ Commit(w, changed)
    BY <1>2, StoreStep
  <2>2. CASE Allocate(w) \/ Rollback(w)
    BY <2>2 DEF Allocate, Rollback
  <2>3. ASSUME NEW changed, Written(w, changed), Commit(w, changed)
        PROVE  /\ db' # db => db'.current > db.current
               /\ \A r \in DOMAIN hist : r \in DOMAIN hist' /\ hist'[r] = hist[r]
    <3>1. changed \in Database  BY <2>3, WrittenType DEF StoreInv
    <3> QED  BY <2>3, <3>1, CommitStep
  <2> QED  BY <2>1, <2>2, <2>3
<1> QED  BY <1>1, <1>2

(* The rows of a store are stamped with committed revisions. *)
RowsStamped ==
  /\ \A c \in db.changelog : c.rev <= db.current
  /\ \A o \in Orgs : db.nsRev[o] <= db.current

(* Initially by assumption on the database at start-up. *)
LEMMA RowsStampedInit == ASSUME StoreInit PROVE RowsStamped
BY SeedAssumption DEF StoreInit, RowsStamped

(***************************************************************************)
(* What a step of the store does to the rows: the changelog only grows,    *)
(* and what is new in the changelog, or changed in the tuples or the       *)
(* namespaces of an organization, is stamped later than all before it.     *)
(***************************************************************************)
LEMMA RowsMove ==
  ASSUME StoreInv, [StoreNext]_storeVars
  PROVE  /\ db'.current >= db.current
         /\ db.changelog \subseteq db'.changelog
         /\ \A c \in db'.changelog \ db.changelog :
              c.rev > db.current /\ c.rev <= db'.current
         /\ \A o \in Orgs :
              \/ db'.nsRev[o] = db.nsRev[o] /\ db'.ns[o] = db.ns[o]
              \/ db'.nsRev[o] > db.current /\ db'.nsRev[o] <= db'.current
         /\ \A t \in Tuple : (t \in db'.tuples) # (t \in db.tuples) =>
              \E c \in db'.changelog : c.org = t[1] /\ c.rev > db.current
<1>0. db \in Database /\ db.current \in Nat
  BY DEF StoreInv, StoreTypeOK, Database
<1>1. CASE db' = db  BY <1>0, <1>1
<1>2. ASSUME NEW w \in Writers, NEW changed, Written(w, changed), Commit(w, changed)
      PROVE  /\ db'.current >= db.current
             /\ db.changelog \subseteq db'.changelog
             /\ \A c \in db'.changelog \ db.changelog :
                  c.rev > db.current /\ c.rev <= db'.current
             /\ \A o \in Orgs :
                  \/ db'.nsRev[o] = db.nsRev[o] /\ db'.ns[o] = db.ns[o]
                  \/ db'.nsRev[o] > db.current /\ db'.nsRev[o] <= db'.current
             /\ \A t \in Tuple : (t \in db'.tuples) # (t \in db.tuples) =>
                  \E c \in db'.changelog : c.org = t[1] /\ c.rev > db.current
  <2>1. changed \in Database  BY <1>2, WrittenType DEF StoreInv
  <2>2. pending[w] > db.current /\ db'.current = pending[w] /\ pending[w] \in Nat
    BY <1>2, <2>1, CommitStep DEF StoreInv, StoreTypeOK
  <2>3. /\ db'.changelog = changed.changelog /\ db'.tuples = changed.tuples
        /\ db'.ns = changed.ns /\ db'.nsRev = changed.nsRev
    BY <1>2, <2>1 DEF Commit, Database
  <2>4. CASE \E t \in Tuple : changed =
         [db EXCEPT !.tuples = @ \cup {t},
                    !.changelog = @ \cup {[rev |-> pending[w], op |-> "upsert",
                                           org |-> t[1], tuple |-> t]}]
    <3> PICK t \in Tuple : changed =
         [db EXCEPT !.tuples = @ \cup {t},
                    !.changelog = @ \cup {[rev |-> pending[w], op |-> "upsert",
                                           org |-> t[1], tuple |-> t]}]
      BY <2>4
    <3> DEFINE row == [rev |-> pending[w], op |-> "upsert", org |-> t[1], tuple |-> t]
    <3>1. row.org = t[1] /\ row.rev = pending[w]  OBVIOUS
    <3>2. /\ db'.changelog = db.changelog \cup {row} /\ db'.tuples = db.tuples \cup {t}
          /\ db'.ns = db.ns /\ db'.nsRev = db.nsRev
      BY <1>0, <2>3 DEF Database
    <3> HIDE DEF row
    <3> QED  BY <1>0, <2>2, <3>1, <3>2
  <2>5. CASE \E t \in Tuple : changed =
         [db EXCEPT !.tuples = @ \ {t},
                    !.changelog = IF t \in db.tuples
                                  THEN @ \cup {[rev |-> pending[w], op |-> "delete",
                                                org |-> t[1], tuple |-> t]}
                                  ELSE @]
    <3> PICK t \in Tuple : changed =
         [db EXCEPT !.tuples = @ \ {t},
                    !.changelog = IF t \in db.tuples
                                  THEN @ \cup {[rev |-> pending[w], op |-> "delete",
                                                org |-> t[1], tuple |-> t]}
                                  ELSE @]
      BY <2>5
    <3> DEFINE row == [rev |-> pending[w], op |-> "delete", org |-> t[1], tuple |-> t]
    <3>1. row.org = t[1] /\ row.rev = pending[w]  OBVIOUS
    <3>2. /\ db'.changelog = IF t \in db.tuples THEN db.changelog \cup {row}
                            ELSE db.changelog
          /\ db'.tuples = db.tuples \ {t}
          /\ db'.ns = db.ns /\ db'.nsRev = db.nsRev
      BY <1>0, <2>3 DEF Database
    <3> HIDE DEF row
    <3> QED  BY <1>0, <2>2, <3>1, <3>2
  <2>6. CASE \E o \in Orgs, required \in SUBSET Relations :
         changed = [db EXCEPT !.ns[o] = required, !.nsRev[o] = pending[w]]
    <3> PICK o \in Orgs, required \in SUBSET Relations :
           changed = [db EXCEPT !.ns[o] = required, !.nsRev[o] = pending[w]]
      BY <2>6
    <3>1. /\ db'.changelog = db.changelog /\ db'.tuples = db.tuples
          /\ \A p \in Orgs : p # o => db'.ns[p] = db.ns[p] /\ db'.nsRev[p] = db.nsRev[p]
          /\ db'.nsRev[o] = pending[w]
      BY <1>0, <2>3 DEF Database
    <3> QED  BY <1>0, <2>2, <3>1
  <2>7. CASE \/ \E p \in PolicyIds, policy \in Policy :
                 changed = [db EXCEPT !.policies[p] = policy]
             \/ \E o \in Orgs, p \in PolicyIds :
                 changed = [db EXCEPT !.policies[p] =
                              IF @ # NoPolicy /\ @.org = o THEN NoPolicy ELSE @]
    <3>1. /\ db'.changelog = db.changelog /\ db'.tuples = db.tuples
          /\ db'.ns = db.ns /\ db'.nsRev = db.nsRev
      BY <1>0, <2>3, <2>7 DEF Database
    <3> QED  BY <1>0, <2>2, <3>1
  <2> QED  BY <1>2, <2>4, <2>5, <2>6, <2>7 DEF Written
<1>3. CASE StoreNext
  <2>1. PICK w \in Writers :
          \/ Allocate(w)
          \/ Rollback(w)
          \/ \E changed : Written(w, changed) /\ Commit(w, changed)
    BY <1>3, StoreStep
  <2>2. CASE Allocate(w) \/ Rollback(w)
    BY <1>1, <2>2 DEF Allocate, Rollback
  <2> QED  BY <1>2, <2>1, <2>2
<1> QED  BY <1>1, <1>3 DEF storeVars

(* Every step of the store keeps its rows stamped. *)
LEMMA RowsStampedNext ==
  ASSUME StoreInv, RowsStamped, [StoreNext]_storeVars PROVE RowsStamped'
<1>1. /\ db.current \in Nat /\ db'.current \in Nat
      /\ \A c \in db.changelog : c.rev \in Nat
      /\ \A o \in Orgs : db.nsRev[o] \in Nat
  BY StoreInvNext DEF StoreInv, StoreTypeOK, Database, Change
<1> QED  BY <1>1, RowsMove DEF RowsStamped

(***************************************************************************)
(* For any number of organizations, writers and revisions, the newest      *)
(* committed revision names the committed state.                           *)
(***************************************************************************)
THEOREM RevisionNamesSnapshotAlways == StoreSpec => []RevisionNamesSnapshot
<1>1. StoreInit => StoreInv  BY StoreInvInit
<1>2. StoreInv /\ [StoreNext]_storeVars => StoreInv'  BY StoreInvNext
<1>3. StoreInv => RevisionNamesSnapshot  BY DEF StoreInv
<1> QED  BY <1>1, <1>2, <1>3, PTL DEF StoreSpec

(***************************************************************************)
(* A commit advances the revision and never rewrites what an older         *)
(* revision names.                                                         *)
(***************************************************************************)
THEOREM RevisionsAdvanceAlways == StoreSpec => RevisionsAdvance
<1> DEFINE Step == /\ db' # db => db'.current > db.current
                   /\ \A r \in DOMAIN hist : r \in DOMAIN hist' /\ hist'[r] = hist[r]
<1>1. StoreInit => StoreInv  BY StoreInvInit
<1>2. StoreInv /\ [StoreNext]_storeVars => StoreInv'  BY StoreInvNext
<1>3. StoreInv /\ [StoreNext]_storeVars => [Step]_storeVars  BY HistoryGrows
<1> QED  BY <1>1, <1>2, <1>3, PTL DEF StoreSpec, RevisionsAdvance
=============================================================================
