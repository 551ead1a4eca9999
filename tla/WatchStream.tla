---------------------------- MODULE WatchStream ----------------------------
(***************************************************************************)
(* The Watch API: TupleChangeStream.stream polls the changelog of one      *)
(* organization and WatchController sends what it yields as Server-Sent    *)
(* Events, each with a consistency token as its id.  A consumer            *)
(* (EventSource) remembers the id of the last event it received and sends  *)
(* it as Last-Event-ID when it connects again.                             *)
(*                                                                         *)
(* A connection delivers its events in order and may break at any time,    *)
(* losing the events that have not arrived.                                *)
(***************************************************************************)
EXTENDS RevisionStore, Sequences

CONSTANTS
  Consumers,    \* clients following the organization
  WatchedOrg,   \* the organization of their access tokens
  FirstIds,     \* tokens a consumer starts from (?since=), or NoId
  NoId,         \* the consumer has no token
  PageSize,     \* WATCH_PAGE_SIZE
  MaxWire,      \* bound: events in flight on a connection
  MaxBreaks     \* bound: connections that break

VARIABLES
  at,           \* at[k]: the step of k's stream, or "off" when not connected
  cursor,       \* the stream's cursor
  high,         \* the revision that the stream read before its page
  page,         \* changes of the page that are still to be sent
  full,         \* the page was full
  wire,         \* events sent and not yet received
  lastId,       \* the id of the last event that the consumer received
  got,          \* revisions of the changes that the consumer received
  joined,       \* history: where the consumer started to follow: each time
                \* it connects without a token it starts anew
  breaks        \* connections broken so far

watchVars == <<at, cursor, high, page, full, wire, lastId, got, joined, breaks>>

allVars == <<db, seq, pending, hist, at, cursor, high, page, full, wire, lastId,
             got, joined, breaks>>

ASSUME WatchAssumption ==
  /\ WatchedOrg \in Orgs
  /\ FirstIds \subseteq Nat \cup {NoId}
  /\ NoId \notin Nat
  /\ PageSize \in Nat \ {0}
  /\ MaxWire \in Nat \ {0}
  /\ MaxBreaks \in Nat

(* An event is its kind and its id. *)
Event == [kind : {"change", "heartbeat"}, id : Nat]

WatchInit ==
  /\ at = [k \in Consumers |-> "off"]
  /\ cursor = [k \in Consumers |-> 0]
  /\ high = [k \in Consumers |-> 0]
  /\ page = [k \in Consumers |-> {}]
  /\ full = [k \in Consumers |-> FALSE]
  /\ wire = [k \in Consumers |-> <<>>]
  /\ lastId \in [Consumers -> FirstIds]
  /\ got = [k \in Consumers |-> {}]
  /\ joined = [k \in Consumers |-> NoId]
  /\ breaks = 0

-----------------------------------------------------------------------------
(* changelog.since: the revisions of the first PageSize changes of the     *)
(* organization after revision `after'.                                    *)
Changes == {c.rev : c \in {d \in db.changelog : d.org = WatchedOrg}}

Since(after) ==
  LET later == {r \in Changes : r > after}
  IN {r \in later : Cardinality({s \in later : s < r}) < PageSize}

(* after: the token of the request or, without one, the newest revision. *)
ResumeAt(k) == IF lastId[k] = NoId THEN db.current ELSE lastId[k]

(* watch: the consumer connects, or reconnects with Last-Event-ID. *)
Connect(k) ==
  /\ at[k] = "off"
  /\ cursor' = [cursor EXCEPT ![k] = ResumeAt(k)]
  /\ joined' = [joined EXCEPT ![k] =
       IF @ = NoId \/ lastId[k] = NoId THEN cursor'[k] ELSE @]
  /\ at' = [at EXCEPT ![k] = "open"]
  /\ UNCHANGED <<high, page, full, wire, lastId, got, breaks>>

(* The head of the loop: revisions.current. *)
ReadHigh(k) ==
  /\ at[k] \in {"open", "high"}
  /\ high' = [high EXCEPT ![k] = db.current]
  /\ at' = [at EXCEPT ![k] = "page"]
  /\ UNCHANGED <<cursor, page, full, wire, lastId, got, joined, breaks>>

ReadPage(k) ==
  /\ at[k] = "page"
  /\ page' = [page EXCEPT ![k] = Since(cursor[k])]
  /\ full' = [full EXCEPT ![k] = Cardinality(page'[k]) = PageSize]
  /\ at' = [at EXCEPT ![k] = "emit"]
  /\ UNCHANGED <<cursor, high, wire, lastId, got, joined, breaks>>

(* The next change of the page is yielded. *)
Emit(k) ==
  /\ at[k] = "emit"
  /\ Len(wire[k]) < MaxWire
  /\ \E r \in page[k] :
       /\ \A s \in page[k] : r <= s
       /\ page' = [page EXCEPT ![k] = @ \ {r}]
       /\ cursor' = [cursor EXCEPT ![k] = r]
       /\ wire' = [wire EXCEPT ![k] = Append(@, [kind |-> "change", id |-> r])]
  /\ UNCHANGED <<at, high, full, lastId, got, joined, breaks>>

(* A full page is followed by the next one at once; after another the      *)
(* stream sleeps, with a heartbeat first when one is due.                  *)
EndPage(k) ==
  /\ at[k] = "emit"
  /\ page[k] = {}
  /\ at' = [at EXCEPT ![k] = "high"]
  /\ UNCHANGED <<cursor, high, page, full, wire, lastId, got, joined, breaks>>

MutStaleBeat(k) == db.current

(* The revision of a heartbeat: the cursor advances to the revision read   *)
(* before the page, and never goes back to it.                             *)
Beat(k) == IF high[k] >= cursor[k] THEN high[k] ELSE cursor[k]

Heartbeat(k) ==
  /\ at[k] = "emit"
  /\ page[k] = {}
  /\ ~full[k]
  /\ Len(wire[k]) < MaxWire
  /\ cursor' = [cursor EXCEPT ![k] = Beat(k)]
  /\ wire' = [wire EXCEPT ![k] = Append(@, [kind |-> "heartbeat", id |-> Beat(k)])]
  /\ at' = [at EXCEPT ![k] = "high"]
  /\ UNCHANGED <<high, page, full, lastId, got, joined, breaks>>

(* The consumer receives an event. *)
Receive(k) ==
  /\ wire[k] # <<>>
  /\ LET e == Head(wire[k]) IN
       /\ lastId' = [lastId EXCEPT ![k] = e.id]
       /\ got' = [got EXCEPT ![k] = IF e.kind = "change" THEN @ \cup {e.id} ELSE @]
  /\ wire' = [wire EXCEPT ![k] = Tail(@)]
  /\ UNCHANGED <<at, cursor, high, page, full, joined, breaks>>

Disconnected(k) ==
  /\ at' = [at EXCEPT ![k] = "off"]
  /\ cursor' = [cursor EXCEPT ![k] = 0]
  /\ high' = [high EXCEPT ![k] = 0]
  /\ page' = [page EXCEPT ![k] = {}]
  /\ full' = [full EXCEPT ![k] = FALSE]
  /\ UNCHANGED <<lastId, got, joined>>

(* The deadline of the stream has passed, after one turn of its loop or    *)
(* more: the loop ends and the consumer receives what was sent.            *)
StreamEnds(k) ==
  /\ at[k] = "high"
  /\ wire[k] = <<>>
  /\ Disconnected(k)
  /\ UNCHANGED <<wire, breaks>>

(* The connection breaks, a statement of the stream fails, or the server   *)
(* closes.                                                                 *)
Break(k) ==
  /\ at[k] # "off"
  /\ breaks < MaxBreaks
  /\ breaks' = breaks + 1
  /\ wire' = [wire EXCEPT ![k] = <<>>]
  /\ Disconnected(k)

StreamStep(k) ==
  \/ Connect(k)
  \/ ReadHigh(k)
  \/ ReadPage(k)
  \/ Emit(k)
  \/ EndPage(k)
  \/ Heartbeat(k)

Init == StoreInit /\ WatchInit

Next ==
  \/ StoreNext /\ UNCHANGED watchVars
  \/ \E k \in Consumers :
       (StreamStep(k) \/ Receive(k) \/ StreamEnds(k) \/ Break(k)) /\ UNCHANGED storeVars

(* Queries return, the poll timer fires, a consumer reconnects and reads   *)
(* what it is sent.                                                        *)
Fairness ==
  \A k \in Consumers :
    /\ WF_allVars(StreamStep(k) /\ UNCHANGED storeVars)
    /\ WF_allVars(Receive(k) /\ UNCHANGED storeVars)

Spec == Init /\ [][Next]_allVars /\ Fairness

-----------------------------------------------------------------------------
WatchTypeOK ==
  /\ at \in [Consumers -> {"off", "open", "high", "page", "emit"}]
  /\ cursor \in [Consumers -> Nat]
  /\ high \in [Consumers -> Nat]
  /\ page \in [Consumers -> SUBSET Nat]
  /\ full \in [Consumers -> BOOLEAN]
  /\ wire \in [Consumers -> Seq(Event)]
  /\ lastId \in [Consumers -> Nat \cup {NoId}]
  /\ got \in [Consumers -> SUBSET Nat]
  /\ joined \in [Consumers -> Nat \cup {NoId}]
  /\ breaks \in 0 .. MaxBreaks

(***************************************************************************)
(* An id covers everything before it: a consumer that holds the id of an   *)
(* event, heartbeats included, has received every change of the            *)
(* organization up to it, across broken connections, so what it sends as   *)
(* Last-Event-ID never skips a change that committed while the stream was  *)
(* between its two reads.                                                  *)
(***************************************************************************)
IdsCoverHistory ==
  \A k \in Consumers :
    (joined[k] # NoId /\ lastId[k] # NoId) =>
      \A r \in Changes : (joined[k] < r /\ r <= lastId[k]) => r \in got[k]

(***************************************************************************)
(* "Delivery is at-least-once": no stream is past a change, committed      *)
(* after the consumer last connected without a token, that neither arrived *)
(* nor is still on its way.                                                *)
(***************************************************************************)
AtLeastOnce ==
  \A k \in Consumers : joined[k] # NoId =>
    \A r \in Changes : (joined[k] < r /\ r <= cursor[k]) =>
      \/ r \in got[k]
      \/ \E i \in 1 .. Len(wire[k]) : wire[k][i] = [kind |-> "change", id |-> r]

(***************************************************************************)
(* Every change after the point from which a consumer follows reaches it,  *)
(* whatever connections break on the way, unless the consumer has to start *)
(* anew: it connects without a token again, because a connection broke     *)
(* before its first event arrived, and joins after the change.             *)
(***************************************************************************)
EveryChangeArrives ==
  \A k \in Consumers, r \in 1 .. MaxRevision :
    (joined[k] # NoId /\ r \in Changes /\ r > joined[k])
      ~> (r \in got[k] \/ (joined[k] # NoId /\ joined[k] >= r))

(***************************************************************************)
(* A consumer misses nothing up to the id it holds, and the stream passes  *)
(* nothing that it has not sent.                                           *)
(***************************************************************************)
StreamCoversHistory == IdsCoverHistory /\ AtLeastOnce
=============================================================================
