---------------------------- MODULE DemoAccount ----------------------------
(***************************************************************************)
(* DemoAccountGuard: requests of the shared demo account must not change   *)
(* its credentials.  The API knows the account by its address; it looks    *)
(* the user up and keeps the answer, also that there is no such user, for  *)
(* RESOLUTION_TTL_MS.  The seed creates the account while the API runs.    *)
(* Lookups are asynchronous: requests may look it up side by side and end  *)
(* in any order.                                                           *)
(***************************************************************************)
EXTENDS Naturals

CONSTANTS
  Visitors,       \* requests signed in as the demo account
  ResolutionTtl,  \* RESOLUTION_TTL_MS
  MaxMinutes,     \* bound: the last instant
  NotYet          \* no instant, no resolution

VARIABLES
  minute,         \* the clock
  seeded,         \* when the demo account was created, or NotYet
  resolution,     \* the cached answer: [user, resolvedAt], or NotYet
  visit           \* each request: [step, start, found]

demoVars == <<minute, seeded, resolution, visit>>

ASSUME DemoAccountAssumption ==
  ResolutionTtl \in Nat \ {0} /\ MaxMinutes \in Nat /\ NotYet \notin Nat

Away == [step |-> "idle", start |-> 0, found |-> FALSE]

DemoInit ==
  /\ minute = 0
  /\ seeded \in {NotYet, 0}
  /\ resolution = NotYet
  /\ visit = [v \in Visitors |-> Away]

Pass(v, found, start) ==
  visit' = [visit EXCEPT ![v] = [step |-> IF found THEN "refused" ELSE "passed",
                                 start |-> start, found |-> found]]

Seed ==
  /\ seeded = NotYet
  /\ seeded' = minute
  /\ UNCHANGED <<minute, resolution, visit>>

Minute ==
  /\ minute < MaxMinutes
  /\ minute' = minute + 1
  /\ UNCHANGED <<seeded, resolution, visit>>

(* The cached answer is young enough. *)
Resolved == resolution # NotYet /\ minute - resolution.resolvedAt < ResolutionTtl

(* isDemoAccount answers from the resolution, or starts a lookup. *)
Ask(v) ==
  /\ visit[v].step = "idle"
  /\ IF Resolved
     THEN Pass(v, resolution.user, minute)
     ELSE visit' = [visit EXCEPT ![v] = [step |-> "asked", start |-> minute, found |-> FALSE]]
  /\ UNCHANGED <<minute, seeded, resolution>>

(* users.findByEmail reads the row. *)
FindByEmail(v) ==
  /\ visit[v].step = "asked"
  /\ visit' = [visit EXCEPT ![v].step = "found", ![v].found = seeded # NotYet]
  /\ UNCHANGED <<minute, seeded, resolution>>

MutResolve(v) ==
  /\ visit[v].step = "found"
  /\ resolution' = [user |-> visit[v].found, resolvedAt |-> minute]
  /\ Pass(v, visit[v].found, visit[v].start)
  /\ UNCHANGED <<minute, seeded>>

(* The answer arrives and is kept, dated by when the lookup began. *)
Resolve(v) ==
  /\ visit[v].step = "found"
  /\ resolution' = [user |-> visit[v].found, resolvedAt |-> visit[v].start]
  /\ Pass(v, visit[v].found, visit[v].start)
  /\ UNCHANGED <<minute, seeded>>

Leave(v) ==
  /\ visit[v].step \in {"refused", "passed"}
  /\ visit' = [visit EXCEPT ![v] = Away]
  /\ UNCHANGED <<minute, seeded, resolution>>

DemoNext ==
  \/ Seed
  \/ Minute
  \/ \E v \in Visitors : Ask(v)
  \/ \E v \in Visitors : FindByEmail(v)
  \/ \E v \in Visitors : Resolve(v)
  \/ \E v \in Visitors : Leave(v)

-----------------------------------------------------------------------------
(***************************************************************************)
(* The restriction takes hold: once the account has existed for the TTL of *)
(* a resolution, no request of the demo account that asks passes the       *)
(* guard, whatever lookups from before were still under way and in which   *)
(* order they overwrite the resolution.                                    *)
(***************************************************************************)
DemoLockTakesHold ==
  \A v \in Visitors :
    (visit[v].step = "passed" /\ seeded # NotYet) =>
      visit[v].start < seeded + ResolutionTtl
=============================================================================
