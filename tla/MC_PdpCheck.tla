---------------------------- MODULE MC_PdpCheck ----------------------------
(* TLC instances of PdpCheck: the calls that clients make. *)
EXTENDS PdpCheck, TLC

Ask(o, s, m, t, v) ==
  [org |-> o, subject |-> s, mode |-> m, token |-> t,
   ctx |-> [p \in PolicyIds |-> v]]

(* A deployed store: each organization has its namespace definition, and   *)
(* nothing is granted yet.                                                 *)
SeededDatabase ==
  [EmptyDatabase EXCEPT
     !.ns = [o \in Orgs |-> Relations],
     !.nsRev = [o \in Orgs |-> 1],
     !.current = 1]

(* check with full consistency, in two contexts that tell policies apart. *)
FullCalls ==
  {[i \in Slots |-> Ask(o, s, "full", 0, v)] :
     o \in Orgs, s \in Subjects, v \in {"true", "false"}}

(* check in two contexts (batches have the third), with a token of the     *)
(* past and of the future, and without an organization; batchCheck of two  *)
(* queries, full or with a token.                                          *)
AllCalls ==
  LET o == CHOOSE x \in Orgs : TRUE
      s == CHOOSE x \in Subjects : TRUE
      Full(v) == {Ask(o, x, "full", 0, v) : x \in Subjects}
      singles == {Ask(o, s, "full", 0, v) : v \in {"true", "error"}}
                 \cup {Ask(o, s, "at-least", t, "false") : t \in {2, MaxRevision}}
                 \cup {Ask(NoOrg, s, "full", 0, "false")}
      Call(a, b) == [i \in Slots |-> IF i = 1 THEN a ELSE b]
  IN {Call(a, NoRequest) : a \in singles}
     \cup {Call(a, b) : a \in Full("false"),
                        b \in Full("false") \cup {Ask(o, s, "at-least", 3, "false")}}

WriterSymmetry == Permutations(Writers)

CheckerSymmetry == Permutations(Checkers) \cup Permutations(Writers)
=============================================================================
