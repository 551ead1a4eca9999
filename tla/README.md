# AccessCore: TLA+ models, checks and proofs

AccessCore is an authorization and authentication service: a policy decision
point (PDP) over relation tuples, namespaces and policies in PostgreSQL, with a
decision cache in Redis, a flattened membership index, a change feed, a buffered
decision log, and a token platform (sessions, rotating refresh tokens, short
access tokens, a revocation blocklist), with a console, an SDK and a demo account
in front of it. This directory models the parts whose correctness depends on
interleavings, failures, time or a long sequence of inputs, checks them with TLC
on small instances, and proves the most important results with TLAPS for every
instance.

Paths below are relative to `apps/api/src/` unless they start with `docs/`,
`packages/` or `console/` (for `apps/console/src/`).

## 1. Inventory

| Component | State | Operations | Hard because | Correct when |
|---|---|---|---|---|
| Revisions and store (`db/`, `authz/infrastructure/persistence`) | tables, `revisions` sequence, advisory lock | allocate, current, transactions | sequence values are not transactional | the newest revision names the committed state |
| Policy administration (`relation-tuple-writer`, `policy-writer`, `namespace-config-writer`) | tuples, changelog, namespaces, policies | write, revoke, define, delete | concurrent writers, rollback | the changelog replays to the tuples; tenants do not touch each other |
| Decision point (`pdp-service`) | per-call context, Redis cache | check, batchCheck, expand, simulate | the revision is read before the snapshot; the cache is shared | answers are of one state, no older than the call |
| ReBAC evaluation (`domain/evaluate`) | none (pure) | evaluate, flattenSet, expand | depth bound, shared visited sets, negation | equals a reference semantics, a truncated walk never opens access |
| Policy conditions (`domain/policy`) | none (pure) | parseCondition, evalCondition, decide | two functions read the same nodes apart; error verdicts | what is accepted decides; forbid wins, errors deny; an unknown address fails closed |
| Membership index (`membership-indexer`) | sets, watermark, cursor | timer tick, gate | overlapping ticks, read committed, crashes | an index that passes the gate equals the live walk; it becomes fresh |
| Watch (`tuple-change-stream`, `watch.controller`) | stream cursor, client's last id | connect, poll, heartbeat | broken connections, two reads | every change reaches the consumer, ids cover history |
| Decision log (`buffered-decision-log`) | buffer, in-flight drain | record, flush, close | three triggers, one drain | each entry once, none lost uncounted |
| Refresh rotation (`authn/application/refresh`) | tokens, family, session, grace cache | refresh, reuse detection | parallel refreshes, late puts | one successor per token, reuse closes the family |
| Session revocation (`session-terminator`, `access-token.guard`) | session row, blocklist | logout, logout-all, guard | TTLs, skew, in-flight issuers | a revoked session's tokens are rejected |
| Login, lockout | session, lockout counters by account and address | login | check before count, a store that fails open | bounded guesses |
| MFA and step-up (`identity/`, `authn/application/step-up`) | credentials, recovery codes, lockout counter | enroll, activate, disable, regenerate, step-up | credentials are loaded, changed and saved whole | codes are single use, a factor is given up only with a proof of it |
| Account lifecycle (`identity/`) | users, verification and reset tokens | register, verify, request and complete a reset | the row is saved whole, no transaction spans a handler | a spent token stays spent, a reset takes hold and ends the sessions |
| Signing keys (`signing-keys`, JWKS) | state document, Vault key versions | rotate, promote, retire | read-modify-write of a document, caches | a token in circulation verifies until it expires |
| Audit chain (`security/`) | rows by sequence, advisory lock | append, verify | concurrent appends, death before the append | one chain, every answered event in it, tampering located |
| Enforcement (`access-token.guard`, `permission.guard`, `pap-admin.guard`, `packages/sdk`) | none | check over HTTP or in process, owner routes | time-outs, errors, a session revoked on the way | a handler runs only with a permit of its own request |
| Console session (`console/lib`, `console/app/api`, `mfa-manager`) | token cookie, panel state, requests in flight | sign in and out, MFA operations, redirects | answers late or lost | the codes shown are those that work; redirects settle |
| Console forms (`condition-builder`, `policy-form`, `namespace-form`) | form state | open, edit, save | they show a part of what can be stored | an unedited save keeps the meaning |
| Demo account, seed, tenancy (`demo-account`, `seed`, `tenancy-service`) | cached lookup; user, organization, content | guard; seed | overlapping lookups and runs, death | the restriction takes hold; one organization, complete |
| Directory pages, observability, configuration, health, other console pages | - | reads, wiring | - | not modelled, see section 7 |

How they interact: writers commit in PostgreSQL and everything else observes
commits. The PDP reads the revision, looks the decision up in Redis under it,
else evaluates in a repeatable-read snapshot, stores under the snapshot's
revision and hands the record to the decision log. The indexer and Watch poll
the changelog that writers append to. The PDP consults the index through a gate
that compares the index's watermark with the organization's newest change. The
access-token guard stands in front of every call; refresh, step-up and login
issue what it verifies, signed with the key that the signing-key service holds
active; the terminator, reuse detection and password resets feed the blocklist it
reads. The SDK and the console are clients of the HTTP interface; the console's
forms author the policies and namespaces that decisions follow.

`PROJECT.json` lists the hazards, each at its source line with the properties
that cover it.

## 2. Modules

```
RevisionStore --- PolicyDecision --- PdpCheck ----+--- DecisionProofs
   |   |   |                     (refines         |
   |   |   |                      PdpContract)    |
   |   |   +--- RevisionStoreProofs (extended by  |
   |   |           the other two proof modules)   |
   |   +--- MembershipIndexer --------------------+
   +--- WatchStream --- WatchStreamProofs

Usersets --- UsersetEvaluation --+--- UsersetEvaluationProofs
    |                            +---------------------------+--- DecisionRules
    +------- NamespaceForm --+--- ConsoleForms --------------+
PolicyConditions --- PolicyForm

DecisionLogBuffer --+--- RecordKeeping --- RecordKeepingProofs
AuditChain ---------+
                                                AccountAccess --- AccountAccessProofs
SessionRevocation --- Enforcement --+           SecondFactor --+--- CredentialProofs
                                    |           SigningKeys ---+
RefreshRotation, ConsoleSession ----+--- HttpClients --- HttpClientsProofs
DemoAccount, DemoSeed --------------+
```

`MC_*` modules only define constants for TLC; each `.cfg` names its bounds.
`RecordKeeping` composes two components that share a process and die together.
`DecisionRules` and `HttpClients` put components that share a language or an
interface, but no state, into one specification: a variable that never changes
(`side`, `client`) says which of them a behaviour follows, and the others stay
in an initial state.

**RevisionStore** is the database seen by everyone: `db` is the committed state
(tuples, namespace definitions, policies, changelog, newest revision), `pending`
the revision a transaction has drawn while it holds the advisory lock. Each
writer is an action that commits its whole transaction; `Rollback` leaves a gap
in the sequence. `hist` is a history variable, the database at each committed
revision. A namespace is abstracted to the relations its action requires, a
tuple to (organization, relation, subject), a policy to its owner and effect.

**PolicyDecision** defines the decision on one state: any required relation
grants; a forbid whose condition is not false wins; else the grant or a permit
whose condition is true. A request's context is the verdict (true, false, error)
it gives each policy's condition. Userset rewrites are not in this module: its
grant is a direct tuple, which is enough to tell one state of the store from
another. They are in UsersetEvaluation; conditions are in PolicyConditions.

**UsersetEvaluation** is the pure part of a decision. The code's functions call each
other, and the model follows them: `Derive...` is `derive`, `deriveThis` and
`deriveRewrite`, with the visited set and the truncation flag that the code mutates
carried along; `Collect...` is `collectRewrite`, the flattening behind `expand` and
the index; `Walk...` is `loadClosure`, which fetches the rows that the evaluation
then sees. A call (`AtNode`, `AtRewrite`, `AtHops`) is a record with the walk so far;
`Deriving(s)[n]`, `Collecting(s)[n]` and `Walking(s)[n]` map each call to its result
when at most `n` calls may still nest, so that each function is defined by a step in
terms of what the nested calls return. `MaxCalls` bounds the nesting as a stack does; a walk
that meets it is truncated, a collection that meets it is `cut`. Of what
a flattening collects, the model keeps the target's depths in the order the code
finds them, since no member's result depends on another member. The state is an
organization's tuples, written and revoked one at a time under one of several
namespace configurations. `Known` is the reference, what the tuples mean: which
claims (the target holds a rewrite within so many hops, or does not) follow in `n`
steps of reasoning. A claim whose rewrite subtracts, directly or not, what it grants
is neither known nor refuted. Reason codes and grant paths are left out.

**PdpCheck** is `check` and `batchCheck`, split at every await: arrival, revision
read, one cache lookup per slot, snapshot, evaluation, one cache store per slot,
log record, return; any PostgreSQL step may fail, any Redis operation may be lost,
entries expire. `check` is the call with one slot. A call without an organization
reads the revision as well (`batchCheck` does; for `check` the read has no
effect).

**PdpContract** is what the PDP promises: an atomic answer, each slot decided in
one committed state no older than the call (or than its token, or a denial that
says so). `PdpCheck` maps onto it; `ImplementsContract` is the refinement.

**MembershipIndexer** is `runOnce`, statement by statement, in a read-committed
transaction with the advisory lock, and the gate of `indexedMemberships`. The
index of an organization is represented by what it was computed from (the tuples,
namespaces and usersets that three statements returned), so `GateIsSound` says
that a flattening of those is a flattening of what the reader's snapshot holds.

**WatchStream** is the polling generator, the SSE connection as a FIFO that may
break, and a consumer that resumes with `Last-Event-ID`.

**DecisionLogBuffer** is `BufferedDecisionLog` from await to await, including the
microtask gap between the end of a drain and the `finally` that clears `flushing`,
and a crash of the process with what it holds. **AuditChain** is the security
audit: an append by statement under the advisory lock, the handler that commits
its change before it and answers after it, and `verify`. SHA-256 is a free
constructor. **RecordKeeping** runs both in one process.

**PolicyConditions** is the condition language: `CheckNode` is `parseCondition`'s
walk with its bounds, `EvalCondition` the three-valued evaluation, with addresses
of a few bits and the CIDR mask computed on them. **PolicyForm** is the policy
form with its condition builder over it, **NamespaceForm** the schema form and
`NamespaceConfig.create` with its cycle check; a form is opened from a stored
value, edited, submitted, refused or accepted. Times are half minutes, so that a
builder without seconds cuts something.

**AccountAccess** is one account: the four identity handlers and login, from await
to await, any of which may die. `users.save` writes the whole row that the handler
loaded; `clobbered` records that this restored an older one. Passwords are numbered
by the event that announced them. The two lockout counters expire and fail open.

**SigningKeys** is `SigningKeyService` from await to await: the document of
`app_meta` read and written whole, the versions in Vault, the issuer that resolves
the active version and signs later, and the verifier with the cached key set that
an unknown key identifier reloads. `lost` records that a command undid what another
had written: it wrote back a document read before the other wrote, pinned a version
that a promotion or another pin had replaced, or lowered `min_decryption_version`.

**RefreshRotation** is `RefreshHandler.execute` from await to await, with
`rotate` and `revokeForReuse` by statement (row locks, statement snapshots), the
grace cache, expiry of the session and `SessionTerminator` running against it.

**SecondFactor** is MFA for one user: the enroll, activate, disable and regenerate
handlers and step-up with a TOTP code or a recovery code, each split at its
awaits. A credential is loaded, changed in memory and saved whole, so `Save`
writes what the request had loaded, whatever the row is by then; `raced` records
that this overwrote a change. The replacement of recovery codes is two
statements of a read-committed transaction. The lockout counter lives in Redis,
expires, and fails open. A TOTP code is the pair of a secret and a time step; one
code stands for a batch of recovery codes.

**SessionRevocation** has a clock: tokens live `AccessTtl` from their signature,
the blocklist entry `AccessTtl` from its writing, and the verifier adds
`ClockSkew`. Issuers check the session and sign later; the guard verifies and asks
the blocklist later. One session is revoked once; a second revocation of the same
session, which would renew the entry, is left out. **Enforcement** puts what a
request is for behind that guard: a resource service that asks through the SDK
(`client.ts` and its Nest guard, with time-outs, refusals, unreadable answers), a
route with `PermissionGuard`, and the owners' routes behind `PapAdminGuard`, while
others change what is permitted. A bearer may name no organization (`role`) and a
request may carry a consistency token ahead of the store (`zookie`; a write may let
the store catch up): the decision point then answers a 200 that denies with
`no_org_context` or `consistency_unavailable` before it evaluates anything
(`CheckDecision`), and the SDK hands that on. `seen` collects the decisions of the
policies that held during the request.

**ConsoleSession** is a browser tab on the console's security page: the cookie, the
redirects of the two pages, `MfaManager`, and every request as a message that may
be served late, answered out of order, or lost. `mfa` is the API's side, in one
step each (SecondFactor has the details). **DemoAccount** is the guard that
protects the shared account with its cached lookup, **DemoSeed** the seed script
with `TenancyService`, write by write.

**HttpClients** is their composition, one client per behaviour.

## 3. What the runs check

Passing runs:

| Run | Bounds | Shows |
|---|---|---|
| `pdp_check` | two concurrent checks in two contexts, two writers, rollbacks | `RevisionNamesSnapshot`, `RevisionsAdvance`, `CacheEntriesMatchHistory`, `AnswersAreFresh` |
| `pdp_batch` | one call at a time, the next reading what the last cached: checks of every kind, two-slot batches, tokens of the past and the future, no organization | `BatchSpansTwoStates`, `ImplementsContract` |
| `indexer` | two overlapping ticks, one may die, an organization over the bound | `GateIsSound` |
| `indexer_progress` | one tick at a time, one may die, two organizations, full pages | `IndexConverges` |
| `watch` | a consumer with or without a token, a connection that breaks, another organization writing | `StreamCoversHistory`, `EveryChangeArrives` |
| `records` | batches of two, a buffer of two, five entries; two audited requests; one crash of the process | `NothingIsLostSilently`, `LossIsBounded`, `TrailIsWhole`, `TamperingIsLocated`, `BufferedEntriesSettle` |
| `rules` | a document, two folders and three groups, nested in any way, under five namespace configurations with every kind of rewrite, depth bound 2; conditions up to the depth bound opened in the form; three edits, two clauses; six schemas | `AcceptedConditionsAreSafe`, `FormsAreFaithful`, `CycleCheckIsExact`, `WalkIsExact`, `QueriesAgree`, `ClosureIsComplete` |
| `second_factor` | two requests, two credentials, two batches of codes, a threshold of one, one failed statement | `CodesAreContained`, `TotpIsSingleUse`, `FactorIsProtected`, `MfaStaysOn` |
| `account` | two requests, one reset token, one session, the keys of account and address with a threshold of one, one death or Redis error | `ResetTakesHold`, `SessionsEndWithReset`, `PendingAccountsCanVerify`, `LoginGuessesAreBounded` |
| `signing_keys` | two operators' commands, an issuer, a verifier, two versions, TTL 2, cache 3 | `KeysOutliveTheirTokens`, `ActiveKeyIsLive`, `NewKeysAreFound` |
| `clients` | one guarded request at a time, others who write, TTL 2, skew 1, delay 1; a tab over two sessions and three operations; two requests of the demo account; two refreshes over three generations with a failure; two runs of the seed, one of which dies | `OlderTokensStayRevoked`, `AccessFollowsDecisions`, `ShownCodesWork`, `RedirectsSettle`, `DemoIsReady`, `FamilyNeverForks`, `RevokedFamilyStaysClosed`, `ReuseEndsSession` |

Several of these are conjunctions of named parts, defined beside them:
`StreamCoversHistory` is `IdsCoverHistory` and `AtLeastOnce`; `NothingIsLostSilently`
is `AccountedOnce` and `CloseDrains`; `TrailIsWhole` is `ChainIsIntact` and
`AnsweredIsRecorded`; `QueriesAgree` is `IndexedWalkIsExact` and
`ExpandAgreesWithCheck`; `CodesAreContained` is `RecoveryCodeIsSingleUse`,
`OneLiveBatch` and `GuessesAreBounded`; `ResetTakesHold` is `SpentTokenStaysSpent`
and `ResetPasswordSticks`; `KeysOutliveTheirTokens` is `PublishBeforeSign` and
`RetireAfterDrain`; `AccessFollowsDecisions` is `HandlersRunAuthorised` and
`RefusalsHaveCause`; `DemoIsReady` is `SeedIsRepeatable` and `DemoLockTakesHold`. The
type invariants (`TypeOK`, `IndexerTypeOK`, `WatchTypeOK`, `RefreshTypeOK`) stand in
the modules as the start of the proofs; they are proved wherever section 5 has a
theorem.

Why the bounds are enough to be interesting: three revisions suffice for a write
before, during and after a call; two writers for a sequence value that commits
out of order; two calls for a cache entry filled by one and read by the other; a
page of one or two changes makes pages full; two requests for every race between
two handlers, each of which may come again; two versions for a rotation whose
predecessor drains; a TTL of two with skew and delay of one makes the entry and the token expire in either order; three nested groups
reach past a depth bound of two, in cycles and diamonds, and since every nesting
occurs one order of the rows is enough (another is a relabelling of the groups);
the hundred calls that may nest are far more than a walk of these graphs needs;
two credentials are what a replacement needs. `second_factor` does not go on from a
state in which a credential was overwritten, nor `signing_keys` from one in which a
command undid another: the properties that name these events
promise nothing there.

A run that refutes something the repository says:

| Run | Refutes |
|---|---|
| `closure_loader` | "a truncated negative operand never opens access": the loader walks a node once per query, so one first met at the depth bound through an exclusion's base is not walked again from the subtract, and the evaluator, which starts afresh there, finds nothing to subtract |

Further observations. The models behave so, and the properties name it as their
exception or do not promise it:

* A batch is not of a single snapshot: hits are of the revision read before the
  lookups, misses of the snapshot opened after them. `BatchSpansTwoStates` is the
  strongest that holds.
* An index does not leave every decision as it is: where the walk meets a deep
  path first and is cut, the index can turn the truncated denial into a permit
  that is provable within the bound. `IndexedWalkIsExact` says that this is all.
* With an action that requires several relations, or with intersections and
  exclusions, the loader's shared set of walked nodes can lose rows;
  `ClosureIsComplete` states what holds without them, and without unions
  nested in a union, which it does not cover.
* The indexer reads its cursor before it takes the lock. With two overlapping
  ticks (`Ticks = {i1, i2}` in `IndexerProgress.cfg`) `IndexConverges` fails: a
  tick with an old cursor commits an older watermark while another moves the
  cursor past the changes, and the index stays stale until the organization's
  next write, not "until the next tick" (ADR-026). `GateIsSound` holds with
  overlapping ticks, so such an index is never used.
* Second-factor credentials are saved whole, without a version or a condition.
  Two step-ups in flight can both be accepted with one TOTP code (ADR-003 calls
  codes single-use), a step-up in flight can undo a disable, and an enrollment
  in flight can revoke the credential activated meanwhile. `TotpIsSingleUse`,
  `FactorIsProtected` and `MfaStaysOn` hold exactly up to such an overwrite;
  recovery codes, consumed with a conditional update, are single-use without it.
  Two overlapping replacements of recovery codes leave two live batches.
* A policy's id is the primary key of the whole table (`schema.ts:137`) and the
  upsert's conflict target is the id alone, overwriting the organization: a write by
  one organization moves another's policy of that id to itself, although
  `pap.controller.ts:143` calls the id "unique within the org". `WritePolicy` does so.
* The loser of two benign parallel refreshes looks the grace cache up a bounded
  number of times; when the winner's put is late or lost it is taken for a reuse
  and the family is revoked (`RefreshHandler.tryRotate`). ADR-003 says that the
  grace window prevents this. What holds is `FamilyNeverForks`.
* Refresh and step-up sign a token some awaits after they checked the session. A
  token signed after the revocation outlives the blocklist entry, so revocation
  is not quite "immediate for online verifiers" (ADR-010).
* The blocklist entry lives one access-token TTL, while the verifier accepts a
  token for the TTL and the clock skew. `OlderTokensStayRevoked` says exactly
  which tokens stay out.
* A stream opened without a token that breaks before its first event starts anew
  at the then newest revision, and what committed in between is not delivered.
  `joined` records where a consumer follows from, and `EveryChangeArrives` is
  about the changes after it.
* A verification in flight while a reset completes writes back the row it loaded,
  with the old password (`ResetPasswordSticks` up to `clobbered`). Two overlapping
  resets with one token can both succeed, and one that dies before `consume` leaves
  the token usable, although `auth.controller.ts` speaks of a single-use token. A
  registration that dies after saving the row, or whose token expires, strands the
  address: nothing sends another token. A login that verified the old password before
  a reset may open its session after the reset revoked the others.
* Signing keys: between `signer.rotate` and the write of the pin an issuance signs
  with the new version before it was promoted, and after a rotation that died there
  every one does (`docs/architecture.md:108` says publish before sign). Overlapping
  commands lose one another's document. Two rotations can pin a version that was never
  promoted: the second reads the first one's unpinned version as the active one. A
  rotation beside a promotion can pin a version that the promotion has replaced and
  `retire` then removes (`architecture.md:109`), and of two retirements the slower can
  lower `min_decryption_version`, so that removed versions come back. The properties
  promise nothing then. The first and the last take three versions; the run has two,
  and the proof is what showed that the promise needs these exceptions.
* Audit: a handler commits its change before it appends, so a failed append leaves an
  unanswered change without a record. The head of the chain is not anchored, as
  ADR-021 admits: the last row can be replaced or cut off unnoticed.
* ADR-024:66 says a crash loses at most one flush interval of decisions. While the
  database stalls it is a full buffer and a batch (`LossIsBounded`), besides the
  records that requests write themselves when the buffer is full.
* Conditions: `in` with `env.now` and a CIDR test of a literal that is no address are
  accepted and never decide; `isValidCidr` takes hexadecimal digits and colons that
  `parseIp` rejects; comparing `env.ip` as text takes `unknown` for an address.
* Forms: the builder reads a UTC deadline as local time, so every save moves it by the
  zone's offset and cuts its seconds. Removing a relation leaves references to it in
  other relations' rewrites, which the server rejects; of two actions with one verb the
  last wins. A save is last-writer-wins.
* Console: the login page redirects to the console whenever there is a cookie, and the
  console to the login page on a 401: with a revoked session the browser goes back and
  forth until the cookie's `maxAge` (`RedirectsSettle`, and only by that; a real browser
  shows an error after some twenty redirects, until the user tries again). A wrong
  step-up code is a 401 upstream, which the page takes for the end of its session. A
  late answer to a step-up installs its cookie after a logout or a new login. A failed
  logout upstream is swallowed. Status reads answered out of order leave an older one,
  and a lost answer to `activate` leaves recovery codes that nobody saw (`stray`).
* SDK: a malformed query (400) becomes a retryable 503 like an outage, while the API's
  own `PermissionGuard` turns errors into 403; the client's timer is cleared when the
  headers arrive, so the body may take any time. The Nest guard makes a 403 of every
  denial but two, so a caller whom the policies permit all along is refused like a
  stranger when its consistency token is ahead of the store
  (`consistency_unavailable`), and gets no hint to try again, though `client.check`
  names the code. `RefusalsHaveCause` lists the causes that a 403 may have. An error of the store on the owners'
  routes is a 500, where ADR-014:128 says 503. No shipped route uses
  `PermissionGuard`.
* Demo: the restriction can lag the creation of the account by the lifetime of a cached
  lookup. A seed that dies after creating the organization leaves an incomplete demo
  that every later run reports as "already applied" (`src/README.md:298` calls it
  idempotent). The seed adopts a user who registered the address before, whose password
  is not the one it prints.

## 4. Fairness

Safety runs assume none. `IndexConverges`: a tick's next statement is eventually
executed (the timer keeps firing, PostgreSQL answers); deaths are bounded by
`MaxAborts` and writers by `MaxRevision`. `EveryChangeArrives`: the stream's loop
goes on, the consumer reads and reconnects; breaks are bounded. The disjunction
of a stream's steps is fair, never one of them: no heartbeat is assumed.
`BufferedEntriesSettle`: the interval timer fires, a query returns or fails,
microtasks run. `RedirectsSettle`: the browser follows redirects, and drops a
cookie after its age; no user action and no answer of the API is assumed. This
browser is an ideal one, which follows redirects without a limit. All weak.

## 5. What is proved

TLAPS proves these for every value of the constants: any number of tenants,
writers, calls, slots, ticks, consumers, requests, visitors and seed runs, any page,
batch and buffer size, any TTL, skew and delay. The bounds that make a run finite
(`MaxRevision`, `MaxFailures`, ...) are arbitrary naturals in the theorems.

* `RevisionStoreProofs`: `RevisionNamesSnapshot` and `RevisionsAdvance`. The
  invariant is not inductive alone: it needs that the lock admits one uncommitted
  revision and that it is newer than every committed one (`PendingIsNewest`), and
  that history is indexed by revision. `RowsStamped` adds, for the modules that poll
  the changelog, that each change carries a committed revision and that the current
  tuples follow from them.
* `DecisionProofs`, of the decision point: type correctness, `CacheEntriesMatchHistory`,
  `AnswersAreFresh`, `BatchSpansTwoStates`, and the refinement
  `Spec => ImplementsContract`. The inductive invariant adds to the store's: the
  revision a call read is at least the one at its arrival and names a state of the
  history (`KeyIsFresh`), an open snapshot is a state of the history
  (`SnapshotIsHistory`), each result so far is the decision of such a state
  (`ResultsAreSound`), and the slots are answered by the time they are logged
  (`EverySlotAnswered`). The heart is two lemmas: a hit is sound because no policy
  applied in the state its key names, so the decision does not depend on the
  context (`HitIsSound`); a stored result is of the revision it is stored under
  (`StoredIsHistory`). `BatchInv` adds which of the two revisions each slot is of.
  Of the membership index: `GateIsSound`. It speaks of committed indexes; its
  strengthening says the same of what a tick has read (`DraftsMatch`) and is about
  to commit (`WorkMatches`): if nothing of the organization is newer than the
  watermark, the read is still current. It is preserved because a watermark is a
  committed revision when it is drawn, before the reads, and later changes are
  newer. The lock plays no part: the theorem holds with overlapping ticks.
* `WatchStreamProofs`: `StreamCoversHistory`. The strengthening follows a change
  from the changelog into a stream's page, the events in flight and the consumer;
  `SincePage` says what a page of any size leaves out (only changes after its last).
* `UsersetEvaluationProofs`: `WalkIsExact`, `QueriesAgree` and `ClosureIsComplete`, for
  any namespaces, tuples, bounds and order of the rows. Induction is over the calls
  that may nest.
  * The walk. What it does not grant and did not cut is closed (`Closed`): each node
    that it visited is settled by nodes it visited. If one of them could be proved
    there would be a shortest proof, and it would rest on a shorter one
    (`ClosedProvesNothing`); this is where sharing a visited set between siblings is
    sound, and why the operands of an intersection or exclusion need one of their
    own. A grant is never refuted (`Unrefuted`), which needs that claims are
    consistent (`NeverBoth`) and monotonic in the hops (`MoreHops`).
  * The index. Each depth at which `flattenSet` finds the target is the length of a
    proof (`CollectionsAreSound`), so a fresh index is sound (`FreshIndexIsSound`),
    and a walk with any sound index is exact. It loses no grant: while
    neither walk grants, both have visited the same nodes (`Ahead`). Where only the
    indexed one grants, it is for something that a node visited by the live walk
    proves (`Provable`); a live walk that denies without a cut has visited a closed
    set, which has no proof in it. Exclusions need this: a denial turns into a grant.
  * `expand`. Unless one of them was cut, the walk and the collection visit the same
    nodes until the walk grants, and it grants iff the collection grows (`Tells`).
    Operands of an intersection compare afresh.
  * The closure loader, without intersections, exclusions and nested unions. `loadClosure` follows
    the walk: while the walk does not grant it has visited what the loader walked
    (`Matches`), so where the loaded rows agree with the store the two walks are one.
    They agree because loads only grow (`LoadsOn`) and rows are loaded of walked
    objects only (`Rooted`). A second required relation is loaded with the walked set
    of the first, but evaluated afresh; what remains is that no walk on part of the
    store (`PartOfStore`) grants what the store refutes (`GrantsAreSound`).
* `RecordKeepingProofs`: `TrailIsWhole`, `TamperingIsLocated`, `NothingIsLostSilently`,
  `LossIsBounded`. `AuditInv` adds that the request inside the transaction holds the
  lock and has read the tail that is still the tail when its row is committed. That
  verify reports the right index is an argument about the first row that fails; where
  one would use induction over the rows, the proof takes the least or greatest
  element of a set of naturals. `BufferInv` puts each recorded entry in exactly one
  of the buffer, the batch in flight, the sink, a request's own write, the dropped
  and the lost; the counts follow from it.
* `AccountAccessProofs`: `ResetTakesHold`, `SessionsEndWithReset`,
  `PendingAccountsCanVerify`, `LoginGuessesAreBounded`. `AccountInv` relates the row,
  the tokens and the mailbox (`RowInv`), says what each request knows at its step
  (`RequestInv`: a row it loaded is active if it will change the password, its token
  is consumed once it is past `consume`), and that one registration at most is
  between its row and its mail (`RegistrationInv`). The password of the row is the
  last announced one unless `clobbered`, hence at least that of any reset about to
  be answered; `SessionsInv` is that such a reset has left no older session and no
  older login unmarked. The lockout bound counts sets: for each key, wrong passwords
  are at most those counted, those still to be counted (`Uncounted`) and the
  failures; whoever passes `isLocked` joins `Passed`, and the two sets of requests
  are disjoint. After a login that succeeds, the count starts again with the guesses
  that are still uncounted (`StartAgain`), as their failures are registered later.
* `CredentialProofs`, of the second factor: types, `CodesAreContained`, `MfaStaysOn`, and the action
  properties `TotpIsSingleUse` and `FactorIsProtected`. `RequestFits` says what a
  request carries over its awaits: a credential that it loaded as pending or active,
  and a code newer than that credential's last step. Every write of a row is then of
  one of five shapes (`RowStep`), from which the rest follows: a used code is on
  record in its row (`UsesAreRecorded`), unless a row was overwritten unseen. At most
  one replacement is between its delete and its insert, and the delete found every
  live code (`BatchesReplaced`); the bound on guesses counts who may still guess
  wrong and who did and is not counted (`GuessInv`), as in AccountAccess.
  Of the signing keys: types, `KeysOutliveTheirTokens`, `ActiveKeyIsLive`,
  `NewKeysAreFound`. `KeyInv` says that the version in charge was promoted, or that a
  rotation from an old version is still on its way to its pin (`Rooted`), or one died
  there; that a pin is as new as any promotion (`PinHolds`); that each document, stored
  or held by a command, drains every version for as long as the tokens of it and of
  older versions live (`DrainsHold`), among them those an issuance is about to sign;
  and that what a loaded or cached key set lacks was made since (`ReadingFits`,
  `CacheFits`).
* `HttpClientsProofs`: over `ClientsSpec`, an inductive invariant for each client over
  its own variables, on which a step of the others stutters.
  `FamilyNeverForks`, `RevokedFamilyStaysClosed`, `ReuseEndsSession`: the tokens form
  one chain in which only the newest may be active (`OneChain`), a request about to
  insert holds the row of the active one (`LockHeld`), and what it carries over its
  awaits names the successor of the token it was shown (`RequestFits`).
  `DemoIsReady`: a cached lookup that says "no such user" is no younger than the
  account; one organization at most since its name is unique.
  `AccessFollowsDecisions`: each reply on its way back has its cause (`ReplyHasCause`):
  `seen` contains what held when the decision was made, and a token only ever catches
  up with the store.
  `OlderTokensStayRevoked`, for SessionRevocation alone and again with the services
  behind the guard: a verified token had, at its verification, less than the skew left
  past its TTL, and a request after the revocation sees an entry that is not written
  again.
  `ShownCodesWork`: the tab has one operation in flight that can replace codes
  (`OneAtATime`), and an answer whose codes are shown is the latest that was served.

The assumptions are the named `ASSUME`s of the modules: bounds are naturals,
sentinels are outside the sets they extend, the seeded database is well typed
and its rows carry its revision (RevisionStore's `SeedAssumption`), a forged event
is none of the requests' (`AuditAssumption`), the requests of one account are
finitely many (`AccountAssumption`, `SecondFactorAssumption`; a server holds finitely
many at a time), the lockout keys of a login are distinct and their thresholds
positive, the visible rows are of the declared type. TLC evaluates each in the runs.

## 6. Only model-checked

Out of the provers' reach: liveness under fairness (`IndexConverges`,
`EveryChangeArrives`, `BufferedEntriesSettle`, `RedirectsSettle`), and what recursive
operators compute (`AcceptedConditionsAreSafe`, `FormsAreFaithful`,
`CycleCheckIsExact`, over `PolicyConditions`, `PolicyForm` and `NamespaceForm`).

The parts that `DecisionRules` and `HttpClients` put side by side are checked each
against its own environment: how a console session, a seed and a refresh interact
through the API is not explored, because these models share no state.

## 7. Not modelled

* `expand` and `simulate` as calls of the decision point: each is one read-only
  snapshot. What `expand` computes is in UsersetEvaluation. A simulated overlay
  replaces all applicable policies.
* `boundary.ts`: one intersection of two decisions, without state.
* A second revocation of one session, which would renew its blocklist entry.
* The directory's pages, the decision and session listings, the console's other pages:
  each renders one read.
* Metrics, environment parsing, health checks, translations, layout, wiring, deployment:
  no protocol state. Request validation beyond conditions and namespaces rejects a
  request and changes nothing.
* Cryptography (hashing, signatures, TOTP, Vault transit) is assumed to work.
