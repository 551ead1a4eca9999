-------------------------- MODULE RefreshRotation --------------------------
(***************************************************************************)
(* RefreshHandler.execute: rotation of the refresh tokens of one session,  *)
(* with a grace window for parallel refreshes and reuse detection that     *)
(* revokes the token family; and the termination of the session            *)
(* (SessionTerminator), which runs against it.  What access tokens and     *)
(* the blocklist do is in SessionRevocation.                               *)
(*                                                                         *)
(* Requests interleave at every await.  The two multi-statement            *)
(* transactions are modelled by their statements: rotate locks the         *)
(* presented row (UPDATE ... WHERE status = 'active') before it commits    *)
(* with the successor, and revokeForReuse updates the tokens that its      *)
(* statement's snapshot holds, waiting for a row that a rotation has       *)
(* locked.  A successor that commits meanwhile is not in that snapshot.    *)
(***************************************************************************)
EXTENDS Naturals, FiniteSets

CONSTANTS
  Requests,     \* concurrent refresh requests
  MaxTokens,    \* bound: refresh tokens issued to the session
  RaceRetries,  \* RACE_RETRIES: grace lookups of a request that lost the race
  MaxFailures,  \* bound: requests that fail on PostgreSQL or die
  NoRefresh       \* no refresh token

VARIABLES
  tokens,       \* rows of refresh_tokens: generation and status
  family,       \* status of the token family
  sessionRow,      \* status of the session row
  expired,      \* whether the session's expiry has passed
  grace,        \* grace cache: the successor stored for a presented token
  step,         \* step[r]: what request r does next
  shown,        \* the token that r presented
  late,         \* expired, by the clock that r read when it began
  found,        \* the status that r read for its token
  left,         \* grace lookups that r may still make
  hit,          \* the successor that r found in the grace cache
  scanned,         \* the tokens that r's revokeForReuse updates
  outcome,      \* the answer of r
  pair,         \* the refresh token in the answer of r
  stale,        \* history: the family was revoked when r began
  answers,      \* history: refresh tokens ever handed out for a presented one
  failures      \* requests that have failed so far

requestVars == <<step, shown, late, found, left, hit, scanned, outcome, pair, stale>>

refreshVars == <<tokens, family, sessionRow, expired, grace, step, shown, late,
          found, left, hit, scanned, outcome, pair, stale, answers, failures>>

ASSUME RefreshAssumption ==
  /\ MaxTokens \in Nat \ {0}
  /\ RaceRetries \in Nat \ {0}
  /\ MaxFailures \in Nat
  /\ NoRefresh \notin Nat

Ids == DOMAIN tokens

(* LoginHandler.execute has committed the session, its family and the      *)
(* token of generation 1.                                                  *)
RefreshInit ==
  /\ tokens = [i \in {1} |-> [gen |-> 1, status |-> "active"]]
  /\ family = "active"
  /\ sessionRow = "active"
  /\ expired = FALSE
  /\ grace = [i \in 1 .. MaxTokens |-> NoRefresh]
  /\ step = [r \in Requests |-> "idle"]
  /\ shown = [r \in Requests |-> NoRefresh]
  /\ late = [r \in Requests |-> FALSE]
  /\ found = [r \in Requests |-> "none"]
  /\ left = [r \in Requests |-> 0]
  /\ hit = [r \in Requests |-> NoRefresh]
  /\ scanned = [r \in Requests |-> {}]
  /\ outcome = [r \in Requests |-> "none"]
  /\ pair = [r \in Requests |-> NoRefresh]
  /\ stale = [r \in Requests |-> FALSE]
  /\ answers = [i \in 1 .. MaxTokens |-> {}]
  /\ failures = 0

Goto(r, s) == step' = [step EXCEPT ![r] = s]

(* The request answers without tokens. *)
RefuseRefresh(r, why) ==
  /\ Goto(r, "done")
  /\ outcome' = [outcome EXCEPT ![r] = why]

(* The request answers with refresh token i. *)
Grant(r, i) ==
  /\ Goto(r, "done")
  /\ outcome' = [outcome EXCEPT ![r] = "ok"]
  /\ pair' = [pair EXCEPT ![r] = i]
  /\ answers' = [answers EXCEPT ![shown[r]] = @ \cup {i}]

-----------------------------------------------------------------------------
(* A client presents a token it was issued; the handler reads the clock. *)
Present(r, i) ==
  /\ step[r] = "idle"
  /\ Goto(r, "token")
  /\ shown' = [shown EXCEPT ![r] = i]
  /\ late' = [late EXCEPT ![r] = expired]
  /\ stale' = [stale EXCEPT ![r] = family = "revoked"]
  /\ UNCHANGED <<tokens, family, sessionRow, expired, grace, found, left, hit,
                 scanned, outcome, pair, answers, failures>>

(* findByHash; a token expires with its session. *)
FindToken(r) ==
  /\ step[r] = "token"
  /\ found' = [found EXCEPT ![r] = tokens[shown[r]].status]
  /\ \/ late[r] /\ RefuseRefresh(r, "invalid")
     \/ ~late[r] /\ Goto(r, "family") /\ UNCHANGED outcome
  /\ UNCHANGED <<tokens, family, sessionRow, expired, grace, shown, late, left,
                 hit, scanned, pair, stale, answers, failures>>

MutFamilyGone == FALSE

FamilyGone == family # "active"

FindFamily(r) ==
  /\ step[r] = "family"
  /\ \/ FamilyGone /\ RefuseRefresh(r, "invalid")
     \/ ~FamilyGone /\ Goto(r, "session") /\ UNCHANGED outcome
  /\ UNCHANGED <<tokens, family, sessionRow, expired, grace, shown, late, found,
                 left, hit, scanned, pair, stale, answers, failures>>

(* The session, and the branch on the status read before. *)
FindSessionRow(r) ==
  /\ step[r] = "session"
  /\ \/ /\ sessionRow # "active"
        /\ RefuseRefresh(r, "invalid")
        /\ UNCHANGED left
     \/ /\ sessionRow = "active"
        /\ Goto(r, IF found[r] = "active" THEN "rotate" ELSE "grace")
        /\ left' = [left EXCEPT ![r] = 1]
        /\ UNCHANGED outcome
  /\ UNCHANGED <<tokens, family, sessionRow, expired, grace, shown, late, found,
                 hit, scanned, pair, stale, answers, failures>>

-----------------------------------------------------------------------------
(* A rotation in flight has locked the row of its token. *)
RowLocked(i) == \E r \in Requests : step[r] = "insert" /\ shown[r] = i

MutCanRotate(i) == TRUE

(* The WHERE clause of rotate's UPDATE, once the row is free. *)
CanRotate(i) == tokens[i].status = "active"

(* issue, and the first statement of rotate: it locks the row, or finds    *)
(* that another request has rotated the token.                             *)
RotateUpdate(r) ==
  /\ step[r] = "rotate"
  /\ ~RowLocked(shown[r])
  /\ Cardinality(Ids) + Cardinality({q \in Requests : step[q] = "insert"}) < MaxTokens
  /\ \/ /\ CanRotate(shown[r])
        /\ Goto(r, "insert")
        /\ UNCHANGED left
     \/ /\ ~CanRotate(shown[r])
        /\ Goto(r, "grace")
        /\ left' = [left EXCEPT ![r] = RaceRetries]
  /\ UNCHANGED <<tokens, family, sessionRow, expired, grace, shown, late, found,
                 hit, scanned, outcome, pair, stale, answers, failures>>

(* The successor is inserted and the transaction commits. *)
RotateCommit(r) ==
  LET new == Cardinality(Ids) + 1 IN
  /\ step[r] = "insert"
  /\ tokens' = [i \in Ids \cup {new} |->
       IF i = new THEN [gen |-> tokens[shown[r]].gen + 1, status |-> "active"]
       ELSE IF i = shown[r] THEN [tokens[i] EXCEPT !.status = "rotated"]
       ELSE tokens[i]]
  /\ pair' = [pair EXCEPT ![r] = new]
  /\ Goto(r, "touch")
  /\ UNCHANGED <<family, sessionRow, expired, grace, shown, late, found, left,
                 hit, scanned, outcome, stale, answers, failures>>

(* sessions.touch. *)
Touch(r) ==
  /\ step[r] = "touch"
  /\ Goto(r, "put")
  /\ UNCHANGED <<tokens, family, sessionRow, expired, grace, shown, late, found,
                 left, hit, scanned, outcome, pair, stale, answers, failures>>

(* graceCache.put, whose errors are swallowed, and the answer. *)
PutGrace(r) ==
  /\ step[r] = "put"
  /\ \/ grace' = [grace EXCEPT ![shown[r]] = pair[r]]
     \/ UNCHANGED grace
  /\ Grant(r, pair[r])
  /\ UNCHANGED <<tokens, family, sessionRow, expired, shown, late, found, left,
                 hit, scanned, stale, failures>>

-----------------------------------------------------------------------------
(* attempt < attempts - 1 fails. *)
LastAttempt(r) == left[r] = 1

(* graceCache.get: an error reads as an absent entry.  Without an entry    *)
(* the request tries again, up to its last attempt.                        *)
GraceGet(r) ==
  /\ step[r] = "grace"
  /\ \/ /\ grace[shown[r]] # NoRefresh
        /\ hit' = [hit EXCEPT ![r] = grace[shown[r]]]
        /\ Goto(r, "replay")
        /\ UNCHANGED left
     \/ /\ ~LastAttempt(r)
        /\ left' = [left EXCEPT ![r] = @ - 1]
        /\ UNCHANGED <<step, hit>>
     \/ /\ LastAttempt(r)
        /\ Goto(r, "reuse")
        /\ UNCHANGED <<left, hit>>
  /\ UNCHANGED <<tokens, family, sessionRow, expired, grace, shown, late, found,
                 scanned, outcome, pair, stale, answers, failures>>

(* Row i is what findActiveByFamily returned: the cached pair is replayed  *)
(* only if it is of the generation that is active.                         *)
Replayable(i, cached) ==
  tokens[i].status = "active" /\ tokens[i].gen = tokens[cached].gen

(* findActiveByFamily and the comparison of generations. *)
Replay(r) ==
  LET replays == \E i \in Ids : Replayable(i, hit[r]) IN
  /\ step[r] = "replay"
  /\ \/ replays /\ Grant(r, hit[r])
     \/ ~replays /\ Goto(r, "reuse") /\ UNCHANGED <<outcome, pair, answers>>
  /\ UNCHANGED <<tokens, family, sessionRow, expired, grace, shown, late, found,
                 left, hit, scanned, stale, failures>>

(* revokeForReuse: the family's update, and the snapshot of the update of  *)
(* its tokens.                                                             *)
RevokeScan(r) ==
  /\ step[r] = "reuse"
  /\ scanned' = [scanned EXCEPT ![r] = Ids]
  /\ Goto(r, "revoke")
  /\ UNCHANGED <<tokens, family, sessionRow, expired, grace, shown, late, found,
                 left, hit, outcome, pair, stale, answers, failures>>

(* ... which waits for the rows that a rotation has locked; the commit. *)
RevokeCommit(r) ==
  /\ step[r] = "revoke"
  /\ \A i \in scanned[r] : ~RowLocked(i)
  /\ tokens' = [i \in Ids |->
       IF i \in scanned[r] THEN [tokens[i] EXCEPT !.status = "revoked"] ELSE tokens[i]]
  /\ family' = "revoked"
  /\ Goto(r, "revokeSession")
  /\ UNCHANGED <<sessionRow, expired, grace, shown, late, found, left, hit, scanned,
                 outcome, pair, stale, answers, failures>>

MutRevokeSessionRow(r) ==
  /\ step[r] = "revokeSession"
  /\ Goto(r, "blocklist")
  /\ UNCHANGED <<tokens, family, sessionRow, expired, grace, shown, late, found,
                 left, hit, scanned, outcome, pair, stale, answers, failures>>

(* sessions.revoke. *)
RevokeSessionRow(r) ==
  /\ step[r] = "revokeSession"
  /\ sessionRow' = "revoked"
  /\ Goto(r, "blocklist")
  /\ UNCHANGED <<tokens, family, expired, grace, shown, late, found, left, hit,
                 scanned, outcome, pair, stale, answers, failures>>

(* revocation.revoke (SessionRevocation has the blocklist), and the answer. *)
RevokeAccess(r) ==
  /\ step[r] = "blocklist"
  /\ RefuseRefresh(r, "reuse")
  /\ UNCHANGED <<tokens, family, sessionRow, expired, grace, shown, late, found, left, hit,
                 scanned, pair, stale, answers, failures>>

-----------------------------------------------------------------------------
Forget(r) ==
  /\ Goto(r, "idle")
  /\ shown' = [shown EXCEPT ![r] = NoRefresh]
  /\ late' = [late EXCEPT ![r] = FALSE]
  /\ found' = [found EXCEPT ![r] = "none"]
  /\ left' = [left EXCEPT ![r] = 0]
  /\ hit' = [hit EXCEPT ![r] = NoRefresh]
  /\ scanned' = [scanned EXCEPT ![r] = {}]
  /\ outcome' = [outcome EXCEPT ![r] = "none"]
  /\ pair' = [pair EXCEPT ![r] = NoRefresh]
  /\ stale' = [stale EXCEPT ![r] = FALSE]

(* The client has its answer. *)
End(r) ==
  /\ step[r] = "done"
  /\ Forget(r)
  /\ UNCHANGED <<tokens, family, sessionRow, expired, grace, answers, failures>>

(* A statement on PostgreSQL fails, or the process dies: what has not      *)
(* committed is rolled back and the client has no answer.                  *)
Fail(r) ==
  /\ step[r] \notin {"idle", "done", "grace", "put", "blocklist"}
  /\ failures < MaxFailures
  /\ failures' = failures + 1
  /\ Forget(r)
  /\ UNCHANGED <<tokens, family, sessionRow, expired, grace, answers>>

(* REFRESH_GRACE_SECONDS have passed. *)
GraceExpires(i) ==
  /\ grace[i] # NoRefresh
  /\ grace' = [grace EXCEPT ![i] = NoRefresh]
  /\ UNCHANGED <<tokens, family, sessionRow, expired, answers, failures>>
  /\ UNCHANGED requestVars

SessionExpires ==
  /\ ~expired
  /\ expired' = TRUE
  /\ UNCHANGED <<tokens, family, sessionRow, grace, answers, failures>>
  /\ UNCHANGED requestVars

(* The transaction of SessionTerminator.terminateSession. *)
Terminate ==
  /\ sessionRow = "active"
  /\ family' = "revoked"
  /\ sessionRow' = "revoked"
  /\ UNCHANGED <<tokens, expired, grace, answers, failures>>
  /\ UNCHANGED requestVars

RequestStep(r) ==
  \/ FindToken(r)
  \/ FindFamily(r)
  \/ FindSessionRow(r)
  \/ RotateUpdate(r)
  \/ RotateCommit(r)
  \/ Touch(r)
  \/ PutGrace(r)
  \/ GraceGet(r)
  \/ Replay(r)
  \/ RevokeScan(r)
  \/ RevokeCommit(r)
  \/ RevokeSessionRow(r)
  \/ RevokeAccess(r)
  \/ End(r)

RefreshNext ==
  \/ \E r \in Requests, i \in Ids : Present(r, i)
  \/ \E r \in Requests : RequestStep(r) \/ Fail(r)
  \/ \E i \in 1 .. MaxTokens : GraceExpires(i)
  \/ SessionExpires
  \/ Terminate

-----------------------------------------------------------------------------
RefreshTypeOK ==
  /\ Ids = 1 .. Cardinality(Ids) /\ Cardinality(Ids) <= MaxTokens
  /\ \A i \in Ids : tokens[i] \in [gen : 1 .. MaxTokens,
                                  status : {"active", "rotated", "revoked"}]
  /\ family \in {"active", "revoked"}
  /\ sessionRow \in {"active", "revoked"}
  /\ expired \in BOOLEAN
  /\ grace \in [1 .. MaxTokens -> 1 .. MaxTokens \cup {NoRefresh}]
  /\ step \in [Requests -> {"idle", "token", "family", "session", "rotate", "insert",
                            "touch", "put", "grace", "replay", "reuse", "revoke",
                            "revokeSession", "blocklist", "done"}]
  /\ shown \in [Requests -> 1 .. MaxTokens \cup {NoRefresh}]
  /\ late \in [Requests -> BOOLEAN]
  /\ found \in [Requests -> {"none", "active", "rotated", "revoked"}]
  /\ left \in [Requests -> 0 .. RaceRetries]
  /\ hit \in [Requests -> 1 .. MaxTokens \cup {NoRefresh}]
  /\ scanned \in [Requests -> SUBSET (1 .. MaxTokens)]
  /\ outcome \in [Requests -> {"none", "ok", "invalid", "reuse"}]
  /\ pair \in [Requests -> 1 .. MaxTokens \cup {NoRefresh}]
  /\ stale \in [Requests -> BOOLEAN]
  /\ answers \in [1 .. MaxTokens -> SUBSET (1 .. MaxTokens)]
  /\ failures \in 0 .. MaxFailures

(***************************************************************************)
(* A family never forks: at most one of its tokens is active, and whoever  *)
(* presents a token, alone, in parallel or in the grace window, is handed  *)
(* the same successor, the one of the next generation.                     *)
(***************************************************************************)
FamilyNeverForks ==
  /\ Cardinality({i \in Ids : tokens[i].status = "active"}) <= 1
  /\ \A i \in 1 .. MaxTokens :
       /\ Cardinality(answers[i]) <= 1
       /\ \A j \in answers[i] : tokens[j].gen = tokens[i].gen + 1

(***************************************************************************)
(* A revoked family stays closed: a refresh that begins after the          *)
(* revocation committed, by reuse detection or by logout, gets no tokens,  *)
(* even with a successor that a racing rotation inserted behind the        *)
(* revocation's back.                                                      *)
(***************************************************************************)
RevokedFamilyStaysClosed ==
  \A r \in Requests : stale[r] => outcome[r] # "ok"

(***************************************************************************)
(* A revoked family ends its session: reuse detection revokes the session  *)
(* row in a statement of its own after the family's transaction, while     *)
(* other requests rotate, replay and detect reuse, and once no request is  *)
(* under way the session is revoked too, unless one of them died.          *)
(***************************************************************************)
ReuseEndsSession ==
  (family = "revoked" /\ \A r \in Requests : step[r] = "idle") =>
    (sessionRow = "revoked" \/ failures > 0)
=============================================================================
