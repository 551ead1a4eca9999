----------------------------- MODULE AuditChain -----------------------------
(***************************************************************************)
(* The tamper-evident security audit.  A handler (activate, disable,       *)
(* step-up) commits its own change, then appends one event to the table    *)
(* security_audit and only then answers.  An append is one READ COMMITTED  *)
(* transaction: take the advisory lock, read the hash of the last row,     *)
(* insert a row that hashes that and the event, commit.  verify reads the  *)
(* table with one statement and walks it.                                  *)
(*                                                                         *)
(* SHA-256 is a free constructor: equal hashes have equal inputs.  Keys    *)
(* are sorted before hashing, so an event is a value, however it is laid   *)
(* out in the jsonb column.                                                *)
(***************************************************************************)
EXTENDS Naturals, FiniteSets

CONSTANT Requests        \* requests to the audited handlers, each with its event

VARIABLES
  security_audit,        \* committed rows by seq
  lastSeq,               \* the bigserial: last value handed out
  lockHolder,            \* the request whose transaction has LOCK_KEY
  appending              \* where each request is, and what its transaction read

auditVars == <<security_audit, lastSeq, lockHolder, appending>>

None == "none"
Genesis == <<>>
Forged == "forged"

ASSUME AuditAssumption == None \notin Requests /\ Forged \notin Requests

MutHashRecord(prevHash, event) == <<Genesis, event>>

HashRecord(prevHash, event) == <<prevHash, event>>

Row(event, prevHash) ==
  [event |-> event, prevHash |-> prevHash, hash |-> HashRecord(prevHash, event)]

AuditInit ==
  /\ security_audit = <<>>
  /\ lastSeq = 0
  /\ lockHolder = None
  /\ appending = [r \in Requests |-> [step |-> "new", tail |-> Genesis, seq |-> 0]]

Goto(r, step) == [appending EXCEPT ![r].step = step]

(* The rows before position s, and the hash that a row there continues. *)
Before(rows, s) == {t \in DOMAIN rows : t < s}

HashBefore(rows, s) ==
  LET before == Before(rows, s) IN
  IF before = {} THEN Genesis
  ELSE rows[CHOOSE t \in before : \A u \in before : u <= t].hash

(* The handler's own change commits. *)
CommitChange(r) ==
  /\ appending[r].step = "new"
  /\ appending' = Goto(r, "changed")
  /\ UNCHANGED <<security_audit, lastSeq, lockHolder>>

MutMayLock == TRUE

MayLock == lockHolder = None

(* pg_advisory_xact_lock returns. *)
LockChain(r) ==
  /\ appending[r].step = "changed"
  /\ MayLock
  /\ lockHolder' = r
  /\ appending' = Goto(r, "locked")
  /\ UNCHANGED <<security_audit, lastSeq>>

(* The tail of the committed chain. *)
ReadTail(r) ==
  /\ appending[r].step = "locked"
  /\ appending' = [appending EXCEPT
       ![r].step = "read",
       ![r].tail = HashBefore(security_audit, lastSeq + 1)]
  /\ UNCHANGED <<security_audit, lastSeq, lockHolder>>

(* The insert takes the next seq; nobody else sees the row yet. *)
InsertRow(r) ==
  /\ appending[r].step = "read"
  /\ lastSeq' = lastSeq + 1
  /\ appending' = [appending EXCEPT ![r].step = "inserted", ![r].seq = lastSeq + 1]
  /\ UNCHANGED <<security_audit, lockHolder>>

Unlocked(r) == IF lockHolder = r THEN None ELSE lockHolder

(* The table with the row that the transaction of r inserted. *)
WithRow(r) ==
  [s \in DOMAIN security_audit \cup {appending[r].seq} |->
     IF s = appending[r].seq THEN Row(r, appending[r].tail) ELSE security_audit[s]]

(* The transaction commits and its lock goes with it. *)
CommitAppend(r) ==
  /\ appending[r].step = "inserted"
  /\ security_audit' = WithRow(r)
  /\ lockHolder' = Unlocked(r)
  /\ appending' = Goto(r, "appended")
  /\ UNCHANGED lastSeq

MayAnswer(r) == appending[r].step = "appended"

(* The awaited append returned: the handler answers. *)
Answer(r) ==
  /\ MayAnswer(r)
  /\ appending' = Goto(r, "answered")
  /\ UNCHANGED <<security_audit, lastSeq, lockHolder>>

InFlight(r) == appending[r].step \in {"locked", "read", "inserted"}

(* A statement fails, or the connection is lost: rollback, and the seq it  *)
(* took is never used.  The handler's own change stays.                    *)
AppendFails(r) ==
  /\ InFlight(r)
  /\ lockHolder' = Unlocked(r)
  /\ appending' = Goto(r, "failed")
  /\ UNCHANGED <<security_audit, lastSeq>>

(* The process dies: PostgreSQL rolls back what its connections had open,  *)
(* except for a commit that it had received.                               *)
AuditCrash ==
  /\ appending' = [r \in Requests |->
       IF appending[r].step \in {"new", "answered", "failed"} THEN appending[r]
       ELSE [appending[r] EXCEPT !.step = "failed"]]
  /\ lockHolder' = None
  /\ \/ UNCHANGED security_audit
     \/ \E r \in Requests : appending[r].step = "inserted" /\ security_audit' = WithRow(r)
  /\ UNCHANGED lastSeq

AuditStep ==
  \E r \in Requests :
    \/ CommitChange(r) \/ LockChain(r) \/ ReadTail(r) \/ InsertRow(r)
    \/ CommitAppend(r) \/ Answer(r) \/ AppendFails(r)

-----------------------------------------------------------------------------
(* verifyChain: the index of the first row, if any, that does not hash to *)
(* what it stores.                                                       *)
Diverging(rows) ==
  {s \in DOMAIN rows : HashRecord(HashBefore(rows, s), rows[s].event) # rows[s].hash}

VerifyChain(rows) ==
  LET diverging == Diverging(rows) IN
  [ok |-> diverging = {},
   length |-> Cardinality(DOMAIN rows),
   brokenAt |-> {Cardinality(Before(rows, s)) :
                   s \in {t \in diverging : \A u \in diverging : t <= u}}]

(***************************************************************************)
(* verify accepts the chain in every state that a reader can see: however  *)
(* appends interleave, fail after taking a seq, or die between insert and  *)
(* commit, no two rows continue the same row.                              *)
(***************************************************************************)
ChainIsIntact == VerifyChain(security_audit).ok

(***************************************************************************)
(* A handler that answered has its event in the chain, once: a failed or   *)
(* abandoned append surfaces as a failed request, never as a security      *)
(* change that was confirmed and not recorded.                             *)
(***************************************************************************)
AnsweredIsRecorded ==
  /\ \A r \in Requests : appending[r].step = "answered" =>
       \E s \in DOMAIN security_audit : security_audit[s].event = r
  /\ \A s, t \in DOMAIN security_audit :
       security_audit[s].event = security_audit[t].event => s = t

Rewritten(rows, s) == [rows EXCEPT ![s].event = Forged]

Rehashed(rows, s) == [rows EXCEPT ![s] = Row(Forged, HashBefore(rows, s))]

Removed(rows, s) == [t \in DOMAIN rows \ {s} |-> rows[t]]

(***************************************************************************)
(* Whoever bypasses the runtime role is found out by verify, at the place: *)
(* a rewritten row is reported at its index, a removed row at the index of *)
(* its successor, and a row rewritten together with its hash at the next   *)
(* one.  The last row can be replaced or cut off unnoticed: the head is    *)
(* not anchored.                                                           *)
(***************************************************************************)
TamperingIsLocated ==
  \A s \in DOMAIN security_audit :
    LET index == Cardinality(Before(security_audit, s))
        last == \A t \in DOMAIN security_audit : t <= s IN
    /\ VerifyChain(Rewritten(security_audit, s)).brokenAt = {index}
    /\ ~last => /\ VerifyChain(Removed(security_audit, s)).brokenAt = {index}
                /\ VerifyChain(Rehashed(security_audit, s)).brokenAt = {index + 1}

(***************************************************************************)
(* The audit trail is whole: it verifies in every state, and every         *)
(* security change that was confirmed is in it, once.                      *)
(***************************************************************************)
TrailIsWhole == ChainIsIntact /\ AnsweredIsRecorded
=============================================================================
