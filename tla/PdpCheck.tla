----------------------------- MODULE PdpCheck -----------------------------
(***************************************************************************)
(* The policy decision point: PdpService.check and PdpService.batchCheck   *)
(* over the store of RevisionStore, with the revision-keyed decision cache *)
(* in Redis.                                                               *)
(*                                                                         *)
(* A call is a vector of slots.  `check' is the call with one slot:        *)
(* batchCheck runs the same steps, reading the revision once, looking up   *)
(* and storing slot after slot, and evaluating all its misses in one       *)
(* snapshot.  Between two steps of a call (each an await on PostgreSQL or  *)
(* Redis) writers commit and other calls run.                              *)
(***************************************************************************)
EXTENDS PolicyDecision

CONSTANTS
  Checkers,     \* concurrent calls of the decision point
  NumSlots,     \* bound: queries in one call (batchCheckSchema: 50)
  NoRequest,    \* a slot the call does not use
  NoOrg,        \* the organization of a principal without one
  Calls,        \* the calls clients make: functions from slots to requests
  NoEntry,      \* the cache holds nothing under this key
  NoResult,     \* the slot has no decision yet
  NoSnapshot    \* the call has no open transaction

Slots == 1 .. NumSlots

(***************************************************************************)
(* A request carries the verdict that its context (assurance level, IP,    *)
(* time) gives each policy's condition.                                    *)
(***************************************************************************)
Request ==
  [org : Orgs \cup {NoOrg}, subject : Subjects,
   mode : {"full", "at-least"}, token : Nat, ctx : [PolicyIds -> Verdict]]

VARIABLES
  cache,        \* Redis: decision under (org, subject, revision)
  pc,           \* what each call does next
  call,         \* the slots of each call
  idx,          \* the slot a loop of the call is at
  key,          \* the revision the call read before its lookups
  snap,         \* the snapshot of the call's read-only transaction
  result,       \* the decisions of each call so far
  since         \* history: newest committed revision when the call began

pdpVars == <<cache, pc, call, idx, key, snap, result, since>>

vars == <<db, seq, pending, hist, cache, pc, call, idx, key, snap, result, since>>

CacheKey == Orgs \X Subjects \X Nat

Effect == {"permit", "deny"}

(* Denials that are not evaluations of the store get effects of their own. *)
Outcome == Effect \cup {"no_org_context", "consistency_unavailable"}

(* hit: the lookup answered the slot, so the store loop passes it over. *)
Result == [outcome : Outcome, rev : Nat, cacheable : BOOLEAN, hit : BOOLEAN]

ASSUME PdpCheckAssumption ==
  /\ NumSlots \in Nat \ {0}
  /\ NoOrg \notin Orgs
  /\ NoRequest \notin Request
  /\ Calls \subseteq [Slots -> Request \cup {NoRequest}]
  /\ NoEntry \notin Effect
  /\ NoResult \notin Result
  /\ NoSnapshot \notin Database

-----------------------------------------------------------------------------
MutEvaluateWithin(s, q) ==
  [outcome |-> Decide(s, q.org, q.subject, q.ctx), rev |-> s.current,
   cacheable |-> TRUE, hit |-> FALSE]

(* evaluateWithin and prepare on snapshot s. *)
EvaluateWithin(s, q) ==
  IF q.org = NoOrg
  THEN [outcome |-> "no_org_context", rev |-> 0, cacheable |-> FALSE,
        hit |-> FALSE]
  ELSE IF q.mode = "at-least" /\ q.token > s.current
  THEN [outcome |-> "consistency_unavailable", rev |-> s.current,
        cacheable |-> FALSE, hit |-> FALSE]
  ELSE [outcome |-> Decide(s, q.org, q.subject, q.ctx), rev |-> s.current,
        cacheable |-> Applicable(s, q.org) = {}, hit |-> FALSE]

(* cacheKeyFor returns a key: an organization and full consistency. *)
HasKey(q) == q # NoRequest /\ q.org # NoOrg /\ q.mode = "full"

-----------------------------------------------------------------------------
PdpInit ==
  /\ cache = [k \in Orgs \X Subjects \X (0 .. MaxRevision) |-> NoEntry]
  /\ pc = [c \in Checkers |-> "idle"]
  /\ call = [c \in Checkers |-> [i \in Slots |-> NoRequest]]
  /\ idx = [c \in Checkers |-> 1]
  /\ key = [c \in Checkers |-> 0]
  /\ snap = [c \in Checkers |-> NoSnapshot]
  /\ result = [c \in Checkers |-> [i \in Slots |-> NoResult]]
  /\ since = [c \in Checkers |-> 0]

(* A client's call arrives. *)
Invoke(c, slots) ==
  /\ pc[c] = "idle"
  /\ pc' = [pc EXCEPT ![c] = "revision"]
  /\ call' = [call EXCEPT ![c] = slots]
  /\ since' = [since EXCEPT ![c] = db.current]
  /\ UNCHANGED <<db, seq, pending, hist, cache, idx, key, snap, result>>

(* revisions.current() outside any transaction: R_now. *)
ReadRevision(c) ==
  /\ pc[c] = "revision"
  /\ key' = [key EXCEPT ![c] = db.current]
  /\ idx' = [idx EXCEPT ![c] = 1]
  /\ pc' = [pc EXCEPT ![c] = "get"]
  /\ UNCHANGED <<db, seq, pending, hist, cache, call, snap, result, since>>

(* The entry that the lookup of request q finds under the call's key. *)
EntryFor(c, q) == cache[<<q.org, q.subject, key[c]>>]

(* The slots that still need an evaluation, given the results res. *)
Misses(c, res) == {i \in Slots : call[c][i] # NoRequest /\ res[i] = NoResult}

(* The loop over the slots goes to the next one or, after the last, to     *)
(* the call's next step.                                                   *)
Advance(c, here, after) ==
  /\ idx' = [idx EXCEPT ![c] = IF @ < NumSlots THEN @ + 1 ELSE 1]
  /\ pc' = [pc EXCEPT ![c] = IF idx[c] < NumSlots THEN here ELSE after]

(***************************************************************************)
(* decisionCache.get for the slot the loop is at.  A slot without a key is *)
(* passed over; a read error or an absent entry is a miss.  After the last *)
(* lookup a transaction is opened only if something missed.                *)
(***************************************************************************)
CacheGet(c) ==
  LET q == call[c][idx[c]] IN
  /\ pc[c] = "get"
  /\ \/ UNCHANGED result
     \/ /\ HasKey(q)
        /\ EntryFor(c, q) # NoEntry
        /\ result' = [result EXCEPT ![c][idx[c]] =
             [outcome |-> EntryFor(c, q), rev |-> key[c], cacheable |-> TRUE,
              hit |-> TRUE]]
  /\ Advance(c, "get", IF Misses(c, result'[c]) = {} THEN "log" ELSE "snapshot")
  /\ UNCHANGED <<db, seq, pending, hist, cache, call, key, snap, since>>

(* openContext: the first statement of the repeatable-read transaction     *)
(* fixes the snapshot that all its later statements read.                  *)
OpenContext(c) ==
  /\ pc[c] = "snapshot"
  /\ snap' = [snap EXCEPT ![c] = db]
  /\ pc' = [pc EXCEPT ![c] = "evaluate"]
  /\ UNCHANGED <<db, seq, pending, hist, cache, call, idx, key, result, since>>

(* The state that the statements of the call's transaction read. *)
MutReadView(c) == [db EXCEPT !.current = snap[c].current]

ReadView(c) == snap[c]

MutEvaluate(c) ==
  /\ pc[c] = "evaluate"
  /\ result' = [result EXCEPT ![c] =
       [i \in Slots |->
          IF i \in Misses(c, result[c])
          THEN EvaluateWithin(IF i = 1 THEN ReadView(c) ELSE db, call[c][i])
          ELSE @[i]]]
  /\ snap' = [snap EXCEPT ![c] = NoSnapshot]
  /\ pc' = [pc EXCEPT ![c] = "set"]
  /\ UNCHANGED <<db, seq, pending, hist, cache, call, idx, key, since>>

(* evaluateWithin for every miss, then the transaction ends. *)
Evaluate(c) ==
  /\ pc[c] = "evaluate"
  /\ result' = [result EXCEPT ![c] =
       [i \in Slots |->
          IF i \in Misses(c, result[c]) THEN EvaluateWithin(ReadView(c), call[c][i])
          ELSE @[i]]]
  /\ snap' = [snap EXCEPT ![c] = NoSnapshot]
  /\ pc' = [pc EXCEPT ![c] = "set"]
  /\ UNCHANGED <<db, seq, pending, hist, cache, call, idx, key, since>>

MutStoreKey(c, i) == <<call[c][i].org, call[c][i].subject, db.current>>

(* The key a result is stored under: the revision its evaluation used. *)
StoreKey(c, i) ==
  <<call[c][i].org, call[c][i].subject, result[c][i].rev>>

(***************************************************************************)
(* decisionCache.set for the slot the loop is at, if it was a miss.  A     *)
(* write error is swallowed.                                               *)
(***************************************************************************)
CacheSet(c) ==
  LET i == idx[c] IN
  /\ pc[c] = "set"
  /\ \/ UNCHANGED cache
     \/ /\ HasKey(call[c][i])
        /\ ~result[c][i].hit
        /\ result[c][i].cacheable
        /\ cache' = [cache EXCEPT ![StoreKey(c, i)] = result[c][i].outcome]
  /\ Advance(c, "set", "log")
  /\ UNCHANGED <<db, seq, pending, hist, call, key, snap, result, since>>

(* decisionLog.record for every slot; the decisions go to the caller. *)
Log(c) ==
  /\ pc[c] = "log"
  /\ pc' = [pc EXCEPT ![c] = "done"]
  /\ UNCHANGED <<db, seq, pending, hist, cache, call, idx, key, snap, result, since>>

Forget(c) ==
  /\ pc' = [pc EXCEPT ![c] = "idle"]
  /\ call' = [call EXCEPT ![c] = [i \in Slots |-> NoRequest]]
  /\ idx' = [idx EXCEPT ![c] = 1]
  /\ key' = [key EXCEPT ![c] = 0]
  /\ snap' = [snap EXCEPT ![c] = NoSnapshot]
  /\ result' = [result EXCEPT ![c] = [i \in Slots |-> NoResult]]
  /\ since' = [since EXCEPT ![c] = 0]
  /\ UNCHANGED <<db, seq, pending, hist, cache>>

(* The caller has its decisions. *)
Return(c) == pc[c] = "done" /\ Forget(c)

(* A statement on PostgreSQL (or a degraded decision-log write) throws:    *)
(* the controller answers 503 and the guard denies; no decision leaves.    *)
Fail(c) ==
  /\ pc[c] \in {"revision", "snapshot", "evaluate", "log"}
  /\ Forget(c)

(* DECISION_CACHE_TTL_SECONDS, or Redis evicting the key. *)
Expire(k) ==
  /\ cache[k] # NoEntry
  /\ cache' = [cache EXCEPT ![k] = NoEntry]
  /\ UNCHANGED <<db, seq, pending, hist, pc, call, idx, key, snap, result, since>>

PdpNext ==
  \/ \E c \in Checkers :
       \/ \E slots \in Calls : Invoke(c, slots)
       \/ ReadRevision(c)
       \/ CacheGet(c)
       \/ OpenContext(c)
       \/ Evaluate(c)
       \/ CacheSet(c)
       \/ Log(c)
       \/ Return(c)
       \/ Fail(c)
  \/ \E k \in DOMAIN cache : Expire(k)

Init == StoreInit /\ PdpInit

Next == (StoreNext /\ UNCHANGED pdpVars) \/ PdpNext

Spec == Init /\ [][Next]_vars

-----------------------------------------------------------------------------
PdpTypeOK ==
  /\ cache \in [Orgs \X Subjects \X (0 .. MaxRevision) -> Effect \cup {NoEntry}]
  /\ pc \in [Checkers -> {"idle", "revision", "get", "snapshot", "evaluate",
                          "set", "log", "done"}]
  /\ call \in [Checkers -> [Slots -> Request \cup {NoRequest}]]
  /\ idx \in [Checkers -> Slots]
  /\ key \in [Checkers -> 0 .. MaxRevision]
  /\ snap \in [Checkers -> Database \cup {NoSnapshot}]
  /\ result \in [Checkers -> [Slots -> Result \cup {NoResult}]]
  /\ since \in [Checkers -> 0 .. MaxRevision]

TypeOK == StoreTypeOK /\ PdpTypeOK

(***************************************************************************)
(* A cached decision is the decision of the state its key's revision       *)
(* names, for every context: no policy applied in that state.  A writer    *)
(* that commits while a call is between its revision read, its snapshot    *)
(* and its cache write never gets an older decision stored under a newer   *)
(* revision, and a permit computed in a stepped-up session is never        *)
(* served to another.                                                      *)
(***************************************************************************)
CacheEntriesMatchHistory ==
  \A k \in DOMAIN cache :
    cache[k] # NoEntry =>
      /\ k[3] \in DOMAIN hist
      /\ Applicable(hist[k[3]], k[1]) = {}
      /\ cache[k] = Rebac(hist[k[3]], k[1], k[2])

(* The slot's decision is the one its own request gets in the state its    *)
(* revision names.                                                         *)
DecisionOfItsState(c, i) ==
  /\ result[c][i].rev \in DOMAIN hist
  /\ LET q == call[c][i]
     IN result[c][i].outcome =
          Decide(hist[result[c][i].rev], q.org, q.subject, q.ctx)

(***************************************************************************)
(* No "new enemy": when a call returns, each full-consistency slot has     *)
(* the decision of a state at least as new as the newest commit when the   *)
(* call began, hit or miss, and each at-least slot has one at least as new *)
(* as its token, or the denial that says the store is behind it.           *)
(***************************************************************************)
AnswersAreFresh ==
  \A c \in Checkers : pc[c] = "done" =>
    \A i \in Slots :
      (call[c][i] # NoRequest /\ call[c][i].org # NoOrg) =>
        /\ result[c][i].rev >= since[c]
        /\ IF call[c][i].mode = "at-least" /\ result[c][i].rev < call[c][i].token
           THEN result[c][i].outcome = "consistency_unavailable"
           ELSE DecisionOfItsState(c, i)

(***************************************************************************)
(* The decisions of one batch are of at most two states, in order: its     *)
(* cache hits are of the revision read once before the lookups, its        *)
(* evaluations of the one snapshot opened after them, however many writers *)
(* commit in between.                                                      *)
(***************************************************************************)
BatchSpansTwoStates ==
  \A c \in Checkers : pc[c] = "done" =>
    \A i, j \in {s \in Slots : call[c][s] # NoRequest /\ call[c][s].org # NoOrg} :
      /\ result[c][i].hit = result[c][j].hit => result[c][i].rev = result[c][j].rev
      /\ result[c][i].hit => result[c][i].rev <= result[c][j].rev

-----------------------------------------------------------------------------
(* A call is working from its arrival to its log record, and what its      *)
(* caller sees of a result is the outcome and the revision that is logged. *)
Phase(c) == IF pc[c] \in {"idle", "done"}
            THEN IF pc[c] = "idle" THEN "idle" ELSE "answered"
            ELSE "working"

Seen(c) ==
  [i \in Slots |->
     IF pc[c] = "done" /\ result[c][i] # NoResult
     THEN [outcome |-> result[c][i].outcome, rev |-> result[c][i].rev]
     ELSE NoResult]

Contract == INSTANCE PdpContract WITH
  NoAnswer <- NoResult,
  phase <- [c \in Checkers |-> Phase(c)],
  asked <- call,
  answer <- [c \in Checkers |-> Seen(c)],
  began <- since

(* The decision point with its cache and its snapshots implements the      *)
(* contract: the steps of check and batchCheck are one atomic answer.      *)
ImplementsContract == Contract!ContractSpec
=============================================================================
