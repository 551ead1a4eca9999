--------------------------- MODULE RevisionStore ---------------------------
(***************************************************************************)
(* The authorization store: relation tuples, namespace definitions and     *)
(* policies in PostgreSQL, written by the policy administration point      *)
(* (RelationTupleWriter, NamespaceConfigWriter, PolicyWriter).             *)
(*                                                                         *)
(* Every write is one transaction that first takes a transaction-scoped    *)
(* advisory lock, then draws a revision from a sequence, changes its       *)
(* table, and (for tuples) appends to the changelog.  The sequence is not  *)
(* transactional, so a rollback leaves a gap in the revisions.             *)
(*                                                                         *)
(* `db' is the committed database, the state a new snapshot sees.  `hist'  *)
(* is a history variable: hist[r] is the database in which r was the       *)
(* newest committed revision.                                              *)
(***************************************************************************)
EXTENDS Naturals, FiniteSets

CONSTANTS
  Orgs,         \* tenants
  Relations,    \* relations an action may require on the resource
  Subjects,     \* principals that tuples grant a relation to
  PolicyIds,    \* policy identifiers (the primary key of `policies')
  NoPolicy,     \* an identifier that holds no policy row
  SeedDatabase, \* the database at start-up, whatever an earlier run left
  Writers,      \* concurrent administrative requests
  MaxRevision   \* bound: revisions drawn from the sequence

VARIABLES
  db,           \* the committed database
  seq,          \* last value drawn from the revision sequence
  pending,      \* pending[w]: revision w has allocated and not committed, or 0
  hist          \* history: the database at each committed revision

storeVars == <<db, seq, pending, hist>>

Tuple == Orgs \X Relations \X Subjects

Policy == [org : Orgs, effect : {"permit", "forbid"}]

Change ==
  [rev : Nat, op : {"upsert", "delete"}, org : Orgs, tuple : Tuple]

(***************************************************************************)
(* A namespace definition is abstracted to the relations that its action   *)
(* binding requires, any one of which grants; an organization without the  *)
(* definition requires none and so grants nothing.                         *)
(***************************************************************************)
Database ==
  [tuples : SUBSET Tuple,
   ns : [Orgs -> SUBSET Relations],
   nsRev : [Orgs -> Nat],
   policies : [PolicyIds -> Policy \cup {NoPolicy}],
   changelog : SUBSET Change,
   current : Nat]

EmptyDatabase ==
  [tuples |-> {},
   ns |-> [o \in Orgs |-> {}],
   nsRev |-> [o \in Orgs |-> 0],
   policies |-> [p \in PolicyIds |-> NoPolicy],
   changelog |-> {},
   current |-> 0]

ASSUME RevisionStoreAssumption ==
  /\ MaxRevision \in Nat
  /\ NoPolicy \notin Policy
  /\ SeedDatabase \in Database
  /\ SeedDatabase.current <= MaxRevision

(* What an earlier run left is stamped with revisions that it committed:   *)
(* a write and its row of `revisions' are one transaction, and no row of   *)
(* `revisions' is ever deleted.                                            *)
ASSUME SeedAssumption ==
  /\ \A c \in SeedDatabase.changelog : c.rev <= SeedDatabase.current
  /\ \A o \in Orgs : SeedDatabase.nsRev[o] <= SeedDatabase.current

StoreInit ==
  /\ db = SeedDatabase
  /\ seq = SeedDatabase.current
  /\ pending = [w \in Writers |-> 0]
  /\ hist = [r \in {SeedDatabase.current} |-> SeedDatabase]

-----------------------------------------------------------------------------
(* The advisory lock is held exactly while a writer has an allocated       *)
(* revision whose transaction has not ended.                               *)
RevisionLockFree == \A w \in Writers : pending[w] = 0

MutAllocate(w) ==
  /\ pending[w] = 0
  /\ seq < MaxRevision
  /\ seq' = seq + 1
  /\ pending' = [pending EXCEPT ![w] = seq + 1]
  /\ UNCHANGED <<db, hist>>

(* RevisionsRepository.allocate: wait for the lock, then nextval. *)
Allocate(w) ==
  /\ RevisionLockFree
  /\ seq < MaxRevision
  /\ seq' = seq + 1
  /\ pending' = [pending EXCEPT ![w] = seq + 1]
  /\ UNCHANGED <<db, hist>>

(* MAX(revision) over the committed rows once rev is one of them. *)
CurrentWith(rev) == IF rev > db.current THEN rev ELSE db.current

(***************************************************************************)
(* The end of a writer's transaction: the new database becomes visible,    *)
(* revision row included, and the lock is released.                        *)
(***************************************************************************)
Commit(w, changed) ==
  /\ pending[w] # 0
  /\ db' = [changed EXCEPT !.current = CurrentWith(pending[w])]
  /\ hist' = [r \in DOMAIN hist \cup {pending[w]} |->
                IF r = pending[w] THEN db' ELSE hist[r]]
  /\ pending' = [pending EXCEPT ![w] = 0]
  /\ UNCHANGED seq

(* RelationTupleWriter.write: upsert the tuple and log the change. *)
WriteTuple(w, t) ==
  Commit(w, [db EXCEPT
    !.tuples = @ \cup {t},
    !.changelog = @ \cup {[rev |-> pending[w], op |-> "upsert",
                           org |-> t[1], tuple |-> t]}])

(* RelationTupleWriter.revoke: the delete is logged only if a row went. *)
RevokeTuple(w, t) ==
  Commit(w, [db EXCEPT
    !.tuples = @ \ {t},
    !.changelog = IF t \in db.tuples
                  THEN @ \cup {[rev |-> pending[w], op |-> "delete",
                                org |-> t[1], tuple |-> t]}
                  ELSE @])

(* NamespaceConfigWriter.define with a config that validated. *)
DefineNamespace(w, o, required) ==
  Commit(w, [db EXCEPT !.ns[o] = required, !.nsRev[o] = pending[w]])

(* PolicyWriter.write: the upsert's conflict target is the id alone and it *)
(* overwrites the row's organization with the rest.                        *)
WritePolicy(w, p, policy) ==
  Commit(w, [db EXCEPT !.policies[p] = policy])

(* PolicyWriter.delete: only a row of the caller's organization goes; the  *)
(* revision is consumed either way.                                        *)
DeletePolicy(w, o, p) ==
  Commit(w, [db EXCEPT
    !.policies[p] = IF @ # NoPolicy /\ @.org = o THEN NoPolicy ELSE @])

(* Any failure inside the transaction, a lost connection included. *)
Rollback(w) ==
  /\ pending[w] # 0
  /\ pending' = [pending EXCEPT ![w] = 0]
  /\ UNCHANGED <<db, seq, hist>>

StoreNext ==
  \E w \in Writers :
    \/ Allocate(w)
    \/ \E t \in Tuple : WriteTuple(w, t)
    \/ \E t \in Tuple : RevokeTuple(w, t)
    \/ \E o \in Orgs, required \in SUBSET Relations :
         DefineNamespace(w, o, required)
    \/ \E p \in PolicyIds, policy \in Policy : WritePolicy(w, p, policy)
    \/ \E o \in Orgs, p \in PolicyIds : DeletePolicy(w, o, p)
    \/ Rollback(w)

StoreSpec == StoreInit /\ [][StoreNext]_storeVars

-----------------------------------------------------------------------------
StoreTypeOK ==
  /\ db \in Database
  /\ seq \in Nat
  /\ pending \in [Writers -> Nat]
  /\ DOMAIN hist \subseteq Nat
  /\ \A r \in DOMAIN hist : hist[r] \in Database

(***************************************************************************)
(* The newest committed revision names the committed state: no write that  *)
(* is still to commit can change what a snapshot that reads this revision  *)
(* contains.  This is what the advisory lock of allocate is for; without   *)
(* it revision 2 can commit before revision 1.                             *)
(***************************************************************************)
RevisionNamesSnapshot ==
  /\ db.current \in DOMAIN hist
  /\ hist[db.current] = db

(***************************************************************************)
(* A committed write never rewrites the past: the state a revision names   *)
(* stays what it was, and whatever changes the database advances the       *)
(* revision, rows that no changelog covers (namespaces, policies) too.     *)
(***************************************************************************)
RevisionsAdvance ==
  [][/\ db' # db => db'.current > db.current
     /\ \A r \in DOMAIN hist : r \in DOMAIN hist' /\ hist'[r] = hist[r]]_storeVars

=============================================================================
