------------------------- MODULE MembershipIndexer -------------------------
(***************************************************************************)
(* The background materializer of flattened group memberships              *)
(* (MembershipIndexer.runOnce) and the gate through which the decision     *)
(* point reads its index (PdpService.indexedMemberships).                  *)
(*                                                                         *)
(* A tick is one READ COMMITTED transaction: each of its statements sees   *)
(* the commits before that statement, and its own writes become visible    *)
(* together at its commit.  Ticks overlap, of one process (setInterval     *)
(* does not wait for the last tick) and of several.                        *)
(*                                                                         *)
(* The index of an organization is abstracted to what it was computed      *)
(* from: the tuples, the namespaces and the referenced usersets that the   *)
(* three statements of reindexOrg returned.  All the sets of an            *)
(* organization are replaced or removed together, so they share one        *)
(* watermark.                                                              *)
(***************************************************************************)
EXTENDS RevisionStore, Integers

CONSTANTS
  Ticks,            \* overlapping executions of runOnce
  PageSize,         \* MEMBERSHIP_INDEX_CHANGE_PAGE_SIZE
  MaxTuplesPerOrg,  \* MEMBERSHIP_INDEX_MAX_TUPLES_PER_ORG
  NoIndex,          \* the organization was never indexed
  NoDraft,          \* the tick is not reindexing an organization
  MaxAborts         \* bound: ticks that die before they commit

VARIABLES
  index,            \* committed index of each organization
  cursor,           \* committed row of index_cursors
  step,             \* step[i]: the statement that tick i executes next
  from,             \* the cursor that tick i read
  high,             \* MAX(revision) that tick i read
  upTo,             \* the watermark of tick i
  todo,             \* organizations that tick i has still to reindex
  draft,            \* the organization that tick i is reindexing, as read so far
  work,             \* the sets that tick i has written and not yet committed
  aborts            \* ticks that have died so far

indexerVars == <<index, cursor, step, from, high, upTo, todo, draft, work,
                 aborts>>

allVars == <<db, seq, pending, hist, index, cursor, step, from, high, upTo, todo,
             draft, work, aborts>>

ASSUME IndexerAssumption ==
  /\ PageSize \in Nat \ {0}
  /\ MaxTuplesPerOrg \in Nat
  /\ MaxAborts \in Nat

-----------------------------------------------------------------------------
Largest(S, default) ==
  IF S = {} THEN default ELSE CHOOSE m \in S : \A n \in S : n <= m

TuplesOf(o) == {t \in db.tuples : t[1] = o}

(* organizationVersion: the newest change of the organization's graph. *)
ChangeRevisions(o) ==
  {c.rev : c \in {d \in db.changelog : d.org = o}}
    \cup (IF db.nsRev[o] > 0 THEN {db.nsRev[o]} ELSE {})

OrganizationVersion(o) == Largest(ChangeRevisions(o), 0)

MutFresh(o) == index[o] # NoIndex /\ index[o].valid >= OrganizationVersion(o) - 1

(* indexedMemberships keeps the hits whose watermark passes the gate. *)
Fresh(o) == index[o] # NoIndex /\ index[o].valid >= OrganizationVersion(o)

(* changelog.sinceAll: the first PageSize changes after `after', one       *)
(* change per revision.                                                    *)
SinceAll(after) ==
  LET later == {c \in db.changelog : c.rev > after}
  IN {c \in later : Cardinality({d \in later : d.rev < c.rev}) < PageSize}

Unwritten == [o \in {} |-> NoIndex]

IndexerInit ==
  /\ index = [o \in Orgs |-> NoIndex]
  /\ cursor = 0
  /\ step = [i \in Ticks |-> "off"]
  /\ from = [i \in Ticks |-> 0]
  /\ high = [i \in Ticks |-> 0]
  /\ upTo = [i \in Ticks |-> 0]
  /\ todo = [i \in Ticks |-> {}]
  /\ draft = [i \in Ticks |-> NoDraft]
  /\ work = [i \in Ticks |-> Unwritten]
  /\ aborts = 0

(* What a tick that is over leaves behind. *)
Finish(i) ==
  /\ step' = [step EXCEPT ![i] = "off"]
  /\ from' = [from EXCEPT ![i] = 0]
  /\ high' = [high EXCEPT ![i] = 0]
  /\ upTo' = [upTo EXCEPT ![i] = 0]
  /\ todo' = [todo EXCEPT ![i] = {}]
  /\ draft' = [draft EXCEPT ![i] = NoDraft]
  /\ work' = [work EXCEPT ![i] = Unwritten]

(* The timer fires: readCursor is the first statement of the tick. *)
ReadCursor(i) ==
  /\ step[i] = "off"
  /\ step' = [step EXCEPT ![i] = "lock"]
  /\ from' = [from EXCEPT ![i] = cursor]
  /\ UNCHANGED <<index, cursor, high, upTo, todo, draft, work, aborts>>

(* The lock is held until its transaction ends. *)
Locked == \E i \in Ticks : step[i] \notin {"off", "lock"}

(* tryLock: the tick that does not get the lock is over. *)
TryLock(i) ==
  /\ step[i] = "lock"
  /\ UNCHANGED <<index, cursor, aborts>>
  /\ \/ /\ Locked
        /\ Finish(i)
     \/ /\ ~Locked
        /\ step' = [step EXCEPT ![i] = "high"]
        /\ UNCHANGED <<from, high, upTo, todo, draft, work>>

(* revisions.current within the tick's transaction. *)
ReadHigh(i) ==
  /\ step[i] = "high"
  /\ high' = [high EXCEPT ![i] = db.current]
  /\ step' = [step EXCEPT ![i] = "changes"]
  /\ UNCHANGED <<index, cursor, from, upTo, todo, draft, work, aborts>>

(* A full page is covered only up to its last change; a page that is not   *)
(* full covers all that was committed when the revision was read.          *)
Watermark(i, changes) ==
  LET last == Largest({c.rev : c \in changes}, from[i])
  IN IF Cardinality(changes) = PageSize THEN last
     ELSE Largest({high[i], last}, 0)

(* sinceAll; a tick without anything new is over. *)
ReadChanges(i) ==
  LET changes == SinceAll(from[i]) IN
  /\ step[i] = "changes"
  /\ \/ /\ Watermark(i, changes) <= from[i]
        /\ Finish(i)
     \/ /\ Watermark(i, changes) > from[i]
        /\ upTo' = [upTo EXCEPT ![i] = Watermark(i, changes)]
        /\ todo' = [todo EXCEPT ![i] = {c.org : c \in changes}]
        /\ step' = [step EXCEPT ![i] = "namespaces"]
        /\ UNCHANGED <<from, high, draft, work>>
  /\ UNCHANGED <<index, cursor, aborts>>

MutNamespaceChanges(i) == {}

(* listOrgsWithNamespaceChanges over (from, upTo]. *)
NamespaceChanges(i) ==
  {o \in Orgs : from[i] < db.nsRev[o] /\ db.nsRev[o] <= upTo[i]}

ListOrgs(i) ==
  /\ step[i] = "namespaces"
  /\ todo' = [todo EXCEPT ![i] = @ \cup NamespaceChanges(i)]
  /\ step' = [step EXCEPT ![i] = "reindex"]
  /\ UNCHANGED <<index, cursor, from, high, upTo, draft, work, aborts>>

-----------------------------------------------------------------------------
(* reindexOrg, for one organization after another: three reads, which are  *)
(* three statements, and the writes.                                       *)

(* tuples.list: an organization over the bound is left as it was. *)
ReadTuples(i, o) ==
  /\ step[i] = "reindex"
  /\ o \in todo[i]
  /\ todo' = [todo EXCEPT ![i] = @ \ {o}]
  /\ \/ /\ Cardinality(TuplesOf(o)) > MaxTuplesPerOrg
        /\ UNCHANGED <<step, draft>>
     \/ /\ Cardinality(TuplesOf(o)) <= MaxTuplesPerOrg
        /\ draft' = [draft EXCEPT ![i] =
             [org |-> o, tuples |-> TuplesOf(o), ns |-> {}]]
        /\ step' = [step EXCEPT ![i] = "listByOrg"]
  /\ UNCHANGED <<index, cursor, from, high, upTo, work, aborts>>

(* namespaces.listByOrg. *)
ReadNamespaces(i) ==
  /\ step[i] = "listByOrg"
  /\ draft' = [draft EXCEPT ![i].ns = db.ns[draft[i].org]]
  /\ step' = [step EXCEPT ![i] = "usersets"]
  /\ UNCHANGED <<index, cursor, from, high, upTo, todo, work, aborts>>

(* listReferencedUsersets; then the organization's sets are removed or     *)
(* replaced under the tick's watermark.                                    *)
ReplaceSets(i) ==
  LET o == draft[i].org
      entry == [tuples |-> draft[i].tuples, ns |-> draft[i].ns,
                usersets |-> TuplesOf(o), valid |-> upTo[i]] IN
  /\ step[i] = "usersets"
  /\ work' = [work EXCEPT ![i] =
       [p \in DOMAIN @ \cup {o} |-> IF p = o THEN entry ELSE @[p]]]
  /\ draft' = [draft EXCEPT ![i] = NoDraft]
  /\ step' = [step EXCEPT ![i] = "reindex"]
  /\ UNCHANGED <<index, cursor, from, high, upTo, todo, aborts>>

(* writeCursor and the commit of the tick. *)
CommitTick(i) ==
  /\ step[i] = "reindex"
  /\ todo[i] = {}
  /\ index' = [o \in Orgs |-> IF o \in DOMAIN work[i] THEN work[i][o] ELSE index[o]]
  /\ cursor' = upTo[i]
  /\ Finish(i)
  /\ UNCHANGED aborts

(* The process dies, the connection is lost, a statement fails. *)
Abort(i) ==
  /\ step[i] # "off"
  /\ aborts < MaxAborts
  /\ aborts' = aborts + 1
  /\ Finish(i)
  /\ UNCHANGED <<index, cursor>>

TickStep(i) ==
  \/ ReadCursor(i)
  \/ TryLock(i)
  \/ ReadHigh(i)
  \/ ReadChanges(i)
  \/ ListOrgs(i)
  \/ \E o \in Orgs : ReadTuples(i, o)
  \/ ReadNamespaces(i)
  \/ ReplaceSets(i)
  \/ CommitTick(i)

IndexingInit == StoreInit /\ IndexerInit

IndexingNext ==
  \/ StoreNext /\ UNCHANGED indexerVars
  \/ \E i \in Ticks : (TickStep(i) \/ Abort(i)) /\ UNCHANGED storeVars

(* The interval timer keeps firing and a statement that is sent returns. *)
Fairness == \A i \in Ticks : WF_allVars(TickStep(i) /\ UNCHANGED storeVars)

IndexingSpec == IndexingInit /\ [][IndexingNext]_allVars /\ Fairness

-----------------------------------------------------------------------------
IndexEntry ==
  [tuples : SUBSET Tuple, ns : SUBSET Relations, usersets : SUBSET Tuple,
   valid : Nat]

IndexerTypeOK ==
  /\ index \in [Orgs -> IndexEntry \cup {NoIndex}]
  /\ cursor \in Nat
  /\ step \in [Ticks -> {"off", "lock", "high", "changes", "namespaces",
                        "reindex", "listByOrg", "usersets"}]
  /\ from \in [Ticks -> Nat]
  /\ high \in [Ticks -> Nat]
  /\ upTo \in [Ticks -> Nat]
  /\ todo \in [Ticks -> SUBSET Orgs]
  /\ draft \in [Ticks -> [org : Orgs, tuples : SUBSET Tuple,
                          ns : SUBSET Relations] \cup {NoDraft}]
  /\ \A i \in Ticks :
       /\ DOMAIN work[i] \subseteq Orgs
       /\ \A o \in DOMAIN work[i] : work[i][o] \in IndexEntry
  /\ aborts \in 0 .. MaxAborts

(***************************************************************************)
(* The gate is sound: an index that passes it was computed from exactly    *)
(* the tuples, namespaces and usersets that the reader's snapshot holds,   *)
(* although the tick read them with three statements while writers         *)
(* committed, and although its watermark is older than what it read.  A    *)
(* membership that was revoked is never granted from the index.            *)
(***************************************************************************)
GateIsSound ==
  \A o \in Orgs : Fresh(o) =>
    /\ index[o].tuples = TuplesOf(o)
    /\ index[o].ns = db.ns[o]
    /\ index[o].usersets = TuplesOf(o)

(***************************************************************************)
(* Once the writers are quiet, every organization within the bound gets a  *)
(* fresh index and keeps it, whatever ticks died, when ticks come one      *)
(* after another.  Ticks that overlap, with the cursor read before the     *)
(* lock, can leave an index stale.                                         *)
(***************************************************************************)
IndexConverges ==
  <>[](\A o \in Orgs :
         (OrganizationVersion(o) > 0 /\ Cardinality(TuplesOf(o)) <= MaxTuplesPerOrg)
           => Fresh(o))
=============================================================================
