------------------------- MODULE DecisionLogBuffer -------------------------
(***************************************************************************)
(* BufferedDecisionLog: decisions are appended to an in-memory buffer and  *)
(* written to PostgreSQL in batches by a single-flight drain, started by   *)
(* the size of the buffer, by a timer, and by close at shutdown.           *)
(*                                                                         *)
(* JavaScript runs to completion between awaits: an action is the code     *)
(* from one await to the next.  Other code runs while recordBatch is       *)
(* awaited, and between the end of a drain and the microtasks in which its *)
(* `finally' clears `flushing' and a close that awaited it goes on.        *)
(***************************************************************************)
EXTENDS Naturals, Sequences, FiniteSets

CONSTANTS
  MaxBuffer,      \* DECISION_LOG_BUFFER_SIZE
  FlushBatch,     \* DECISION_LOG_FLUSH_BATCH_SIZE
  MaxEntries,     \* bound: decisions recorded
  MaxCrashes      \* bound: crashes of the process

VARIABLES
  recorded,       \* decisions recorded so far; the n-th is entry n
  buffer,         \* entries in the buffer
  flushing,       \* the drain: "none", "writing", or "settling" (finished,
                  \*   `flushing' not yet cleared)
  batch,          \* entries that the drain has taken out and is writing
  direct,         \* entries that record is writing itself, degraded
  sink,           \* decision_log: how many rows each entry has
  dropped,        \* entries of batches whose write failed
  refused,        \* entries whose record threw: the check answers 503
  lost,           \* entries that died with the process, per crash
  timer,          \* whether the interval timer is set
  closing         \* close: "no", "waiting" for a flush, "closed"

vars == <<recorded, buffer, flushing, batch, direct, sink, dropped, refused,
          lost, timer, closing>>

ASSUME DecisionLogAssumption ==
  /\ MaxBuffer \in Nat \ {0}
  /\ FlushBatch \in Nat \ {0}
  /\ MaxEntries \in Nat
  /\ MaxCrashes \in Nat

Entries == 1 .. MaxEntries

Init ==
  /\ recorded = 0
  /\ buffer = <<>>
  /\ flushing = "none"
  /\ batch = <<>>
  /\ direct = {}
  /\ sink = [e \in Entries |-> 0]
  /\ dropped = {}
  /\ refused = {}
  /\ lost = <<>>
  /\ timer = TRUE
  /\ closing = "no"

Least(m, n) == IF m < n THEN m ELSE n

Elements(s) == {s[i] : i \in DOMAIN s}

(* decision_log after an insert of the given entries. *)
Inserted(entries) == [e \in Entries |-> IF e \in entries THEN sink[e] + 1 ELSE sink[e]]

(***************************************************************************)
(* The head of drain's loop with the given buffer: splice the next batch   *)
(* and send it, or finish.                                                 *)
(***************************************************************************)
Drain(entries) ==
  LET n == Least(FlushBatch, Len(entries)) IN
  /\ batch' = SubSeq(entries, 1, n)
  /\ buffer' = SubSeq(entries, n + 1, Len(entries))
  /\ flushing' = IF n = 0 THEN "settling" ELSE "writing"

MutFlush(entries) == Drain(entries)

(* flush: start a drain unless one is in flight. *)
Flush(entries) ==
  \/ /\ flushing = "none"
     /\ Drain(entries)
  \/ /\ flushing # "none"
     /\ buffer' = entries
     /\ UNCHANGED <<batch, flushing>>

MutDegrades == FALSE

(* record at the high-watermark writes its entry itself. *)
Degrades == Len(buffer) >= MaxBuffer

(* record: buffer the decision and flush a full batch, or write it. *)
Record ==
  LET entry == recorded + 1
      entries == Append(buffer, entry) IN
  /\ recorded < MaxEntries
  /\ closing # "closed"
  /\ recorded' = entry
  /\ \/ /\ Degrades
        /\ direct' = direct \cup {entry}
        /\ UNCHANGED <<buffer, batch, flushing>>
     \/ /\ ~Degrades
        /\ Len(entries) >= FlushBatch
        /\ Flush(entries)
        /\ UNCHANGED direct
     \/ /\ ~Degrades
        /\ Len(entries) < FlushBatch
        /\ buffer' = entries
        /\ UNCHANGED <<batch, flushing, direct>>
  /\ UNCHANGED <<sink, dropped, refused, lost, timer, closing>>

(* The degraded write of an entry returns, or throws into the check. *)
DirectWritten(entry) ==
  /\ entry \in direct
  /\ direct' = direct \ {entry}
  /\ sink' = Inserted({entry})
  /\ UNCHANGED <<recorded, buffer, flushing, batch, dropped, refused, lost, timer, closing>>

DirectFailed(entry) ==
  /\ entry \in direct
  /\ direct' = direct \ {entry}
  /\ refused' = refused \cup {entry}
  /\ UNCHANGED <<recorded, buffer, flushing, batch, sink, dropped, lost, timer, closing>>

MutTimerFlush ==
  /\ timer
  /\ Len(buffer) >= FlushBatch
  /\ Flush(buffer)
  /\ UNCHANGED <<recorded, direct, sink, dropped, refused, lost, timer, closing>>

(* The interval timer flushes. *)
TimerFlush ==
  /\ timer
  /\ Flush(buffer)
  /\ UNCHANGED <<recorded, direct, sink, dropped, refused, lost, timer, closing>>

(* recordBatch returns: the drain goes on with what is in the buffer now. *)
BatchWritten ==
  /\ flushing = "writing"
  /\ sink' = Inserted(Elements(batch))
  /\ Drain(buffer)
  /\ UNCHANGED <<recorded, direct, dropped, refused, lost, timer, closing>>

(* recordBatch throws: the batch is dropped and the drain goes on. *)
BatchFailed ==
  /\ flushing = "writing"
  /\ dropped' = dropped \cup Elements(batch)
  /\ Drain(buffer)
  /\ UNCHANGED <<recorded, direct, sink, refused, lost, timer, closing>>

(* The `finally' of flush clears `flushing'. *)
Settle ==
  /\ flushing = "settling"
  /\ closing # "waiting"
  /\ flushing' = "none"
  /\ UNCHANGED <<recorded, buffer, batch, direct, sink, dropped, refused, lost, timer,
                 closing>>

(* close: stop the timer and await a flush. *)
Close ==
  /\ closing = "no"
  /\ timer' = FALSE
  /\ Flush(buffer)
  /\ closing' = "waiting"
  /\ UNCHANGED <<recorded, direct, sink, dropped, refused, lost>>

(* The flush that close awaited is over: another one, unless nothing was   *)
(* recorded in the meantime.                                               *)
CloseResumes ==
  /\ flushing = "settling"
  /\ closing = "waiting"
  /\ \/ /\ buffer # <<>>
        /\ Drain(buffer)
        /\ UNCHANGED closing
     \/ /\ buffer = <<>>
        /\ flushing' = "none"
        /\ closing' = "closed"
        /\ UNCHANGED <<buffer, batch>>
  /\ UNCHANGED <<recorded, direct, sink, dropped, refused, lost, timer>>

(***************************************************************************)
(* The process is killed and starts again.  What it was writing, one       *)
(* statement per batch and per degraded entry, was committed or was not.   *)
(***************************************************************************)
Crash ==
  /\ Len(lost) < MaxCrashes
  /\ \E sent \in {{}, Elements(batch)}, kept \in SUBSET direct :
       /\ sink' = Inserted(sent \cup kept)
       /\ lost' = Append(lost, Elements(buffer) \cup (Elements(batch) \ sent)
                                 \cup (direct \ kept))
  /\ buffer' = <<>>
  /\ flushing' = "none"
  /\ batch' = <<>>
  /\ direct' = {}
  /\ timer' = TRUE
  /\ closing' = "no"
  /\ UNCHANGED <<recorded, dropped, refused>>

Step ==
  \/ Record
  \/ \E entry \in direct : DirectWritten(entry)
  \/ \E entry \in direct : DirectFailed(entry)
  \/ TimerFlush
  \/ BatchWritten
  \/ BatchFailed
  \/ Settle
  \/ Close
  \/ CloseResumes

(* The timer fires, queries return or fail, microtasks run. *)
Fairness ==
  /\ WF_vars(TimerFlush)
  /\ WF_vars(BatchWritten \/ BatchFailed)
  /\ WF_vars(Settle)
  /\ WF_vars(CloseResumes)


-----------------------------------------------------------------------------
TypeOK ==
  /\ recorded \in 0 .. MaxEntries
  /\ buffer \in Seq(Entries) /\ Len(buffer) <= MaxBuffer
  /\ flushing \in {"none", "writing", "settling"}
  /\ batch \in Seq(Entries) /\ Len(batch) <= FlushBatch
  /\ direct \subseteq Entries
  /\ sink \in [Entries -> Nat]
  /\ dropped \subseteq Entries
  /\ refused \subseteq Entries
  /\ lost \in Seq(SUBSET Entries)
  /\ timer \in BOOLEAN
  /\ closing \in {"no", "waiting", "closed"}

(* The places in the program where an entry is. *)
Places(e) ==
  Cardinality({i \in DOMAIN buffer : buffer[i] = e})
    + Cardinality({i \in DOMAIN batch : batch[i] = e})
    + sink[e]
    + Cardinality({e} \cap direct)
    + Cardinality({e} \cap dropped)
    + Cardinality({e} \cap refused)
    + Cardinality({i \in DOMAIN lost : e \in lost[i]})

(***************************************************************************)
(* Every decision is accounted for once: concurrent triggers of the drain  *)
(* (size, timer, close) never write an entry twice and never lose one      *)
(* without counting it as dropped, unless the process dies with it.        *)
(***************************************************************************)
AccountedOnce == \A e \in 1 .. recorded : Places(e) = 1

(***************************************************************************)
(* When close returns, nothing is left in memory: no entry, recorded       *)
(* before or while close was draining, waits in the buffer or in a batch   *)
(* in flight when the connection pool goes down.                           *)
(***************************************************************************)
CloseDrains == closing = "closed" => buffer = <<>> /\ batch = <<>>

(***************************************************************************)
(* Every buffered decision leaves the process in bounded time: it is       *)
(* written, or dropped and counted, although fewer than a batch follow it  *)
(* and although it arrives while another drain is finishing.               *)
(***************************************************************************)
BufferedEntriesSettle ==
  \A e \in Entries :
    (e \in Elements(buffer)) ~> (sink[e] > 0 \/ e \in dropped \cup UNION Elements(lost))

(***************************************************************************)
(* The loss window of a crash is bounded by the configuration and not by   *)
(* how long the database stalls: beyond the entries that requests were     *)
(* writing themselves, a crash takes a full buffer and one batch at most.  *)
(***************************************************************************)
LossIsBounded ==
  Cardinality(Elements(buffer)) + Cardinality(Elements(batch)) <= MaxBuffer + FlushBatch

(***************************************************************************)
(* No decision is lost in silence: each is accounted for once, and none is *)
(* left in memory when close returns.                                      *)
(***************************************************************************)
NothingIsLostSilently == AccountedOnce /\ CloseDrains
=============================================================================
