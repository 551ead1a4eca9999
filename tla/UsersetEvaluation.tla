------------------------- MODULE UsersetEvaluation -------------------------
(***************************************************************************)
(* ReBAC evaluation in one organization: the bounded walk of `evaluate',   *)
(* the flattening behind `expand' and the membership index, and the        *)
(* closure loader of PdpService, against what the tuples mean.             *)
(*                                                                         *)
(* A node is an object and a relation.  The subjects of a node are users   *)
(* and objects, or usersets (other nodes).  A rewrite says how the members *)
(* of a relation follow from its tuples and from other nodes.  The walk    *)
(* carries what the code keeps in mutable sets: visited nodes and whether  *)
(* a branch was cut at the depth bound.                                    *)
(*                                                                         *)
(* The code's functions call each other, and a walk is a function of the   *)
(* calls that may still nest.  A call is at a node, at a rewrite of it, or *)
(* at a loop over the node's subjects; the rest of a loop is a call too.   *)
(***************************************************************************)
EXTENDS Usersets, Integers, Sequences, FiniteSets, SequencesExt

CONSTANTS
  Objects,      \* objects and users
  Relations,
  Rewrites,     \* rewrites of the namespaces, with all their operands
  Configs,      \* namespace configurations an organization may have
  Resource,     \* the object of the query
  Target,       \* the user of the query
  MaxDepth,     \* MAX_USERSET_DEPTH
  MaxCalls      \* bound: calls that may nest

VARIABLES
  config,       \* the organization's namespaces, and the tuples it may hold
  tuples        \* the stored tuples

vars == <<config, tuples>>

(* A subject is an object or a user, or a node (a userset). *)
Direct(x) == [kind |-> "subject", ref |-> x, relation |-> ""]

Set(o, r) == [kind |-> "userset", ref |-> o, relation |-> r]

Nodes == Objects \X Relations

Subjects == {Direct(x) : x \in Objects} \cup {Set(n[1], n[2]) : n \in Nodes}

(* What NamespaceConfig accepts: an operator has operands.                 *)
AcceptedRewrites ==
  {x \in Rewrites : x.kind \in {"union", "intersection"} => x.children # <<>>}

(* One level of a rewrite; what follows the first operand is a rewrite too. *)
WellFormed(rewrite) ==
  \/ rewrite = This
  \/ rewrite \in {Computed(r) : r \in Relations}
  \/ rewrite \in {TupleTo(p, r) : p \in Relations, r \in Relations}
  \/ /\ rewrite.kind \in {"union", "intersection"}
     /\ rewrite = [kind |-> rewrite.kind, children |-> rewrite.children]
     /\ rewrite.children \in Seq(AcceptedRewrites)
     /\ rewrite.children # <<>> =>
          [rewrite EXCEPT !.children = Tail(@)] \in Rewrites
  \/ /\ rewrite.kind = "exclusion"
     /\ rewrite = Exclusion(rewrite.base, rewrite.subtract)
     /\ {rewrite.base, rewrite.subtract} \subseteq AcceptedRewrites

WellFormedConfig(c) ==
  /\ DOMAIN c.typeOf = Objects
  /\ \A type \in DOMAIN c.rewrites : \A r \in DOMAIN c.rewrites[type] :
       c.rewrites[type][r] \in AcceptedRewrites
  /\ c.universe \subseteq Objects \X Relations \X Subjects /\ IsFiniteSet(c.universe)
  /\ c.order \in Seq(Subjects)
  /\ \A t \in c.universe : t[3] \in ToSet(c.order)
  /\ c.required \in Seq(Relations)

ASSUME EvaluationAssumption ==
  /\ MaxDepth \in Nat /\ MaxCalls \in Nat
  /\ Resource \in Objects /\ Target \in Objects
  /\ This \in Rewrites
  /\ \A rewrite \in Rewrites : WellFormed(rewrite)
  /\ \A c \in Configs : WellFormedConfig(c)

(***************************************************************************)
(* An evaluation snapshot: tuples, which the database returns in the order *)
(* of config.order, the object types whose namespace is known, and the     *)
(* indexed depth of the target in each set.                                *)
(***************************************************************************)
NoIndex == [n \in {} |-> 0]

FullSnapshot(index) ==
  [rows |-> tuples, types |-> DOMAIN config.rewrites, index |-> index]

(* rewritesFor: an unknown namespace or relation has its tuples only. *)
RewriteOf(s, o, r) ==
  LET type == config.typeOf[o] IN
  IF type \in s.types /\ r \in DOMAIN config.rewrites[type]
  THEN config.rewrites[type][r] ELSE This

MutIndexGrants(s, o, r, depth) == <<o, r>> \in DOMAIN s.index

(* depthOf, and whether the rest of the depth budget allows the hit. *)
IndexGrants(s, o, r, depth) ==
  <<o, r>> \in DOMAIN s.index /\ depth + s.index[<<o, r>>] <= MaxDepth

-----------------------------------------------------------------------------
(* The calls of a walk that has come to w. *)
AtNode(o, r, depth, w) ==
  [at |-> "node", o |-> o, r |-> r, depth |-> depth, w |-> w]

AtRewrite(o, r, rewrite, depth, w) ==
  [at |-> "rewrite", o |-> o, r |-> r, rewrite |-> rewrite, depth |-> depth, w |-> w]

AtHops(o, r, rewrite, rest, depth, w) ==
  [at |-> "hops", o |-> o, r |-> r, rewrite |-> rewrite, rest |-> rest,
   depth |-> depth, w |-> w]

HoppingRewrites == {x \in Rewrites : x.kind \in {"this", "tupleToUserset"}}

Calls(W) ==
  [at : {"node"}, o : Objects, r : Relations, depth : Nat, w : W]
  \cup [at : {"rewrite"}, o : Objects, r : Relations, rewrite : Rewrites,
        depth : Nat, w : W]
  \cup [at : {"hops"}, o : Objects, r : Relations, rewrite : HoppingRewrites,
        rest : Seq(Subjects), depth : Nat, w : W]

(* c has an operand first, and then the others. *)
First(c, w) == AtRewrite(c.o, c.r, Head(c.rewrite.children), c.depth, w)

Others(c, w) ==
  AtRewrite(c.o, c.r, [c.rewrite EXCEPT !.children = Tail(@)], c.depth, w)

Loop(c, w) == AtHops(c.o, c.r, c.rewrite, config.order, c.depth, w)

NextHop(c, w) == AtHops(c.o, c.r, c.rewrite, Tail(c.rest), c.depth, w)

(* Whether subject x leads one hop on: `this' follows the usersets among   *)
(* the node's subjects, `tupleToUserset' the objects in its tupleset.      *)
Leads(s, c, x) ==
  IF c.rewrite.kind = "this"
  THEN x.kind = "userset" /\ <<c.o, c.r, x>> \in s.rows
  ELSE x.kind = "subject" /\ <<c.o, c.rewrite.tupleset, x>> \in s.rows

Hop(c, x, w) ==
  AtNode(x.ref, IF c.rewrite.kind = "this" THEN x.relation ELSE c.rewrite.relation,
         c.depth + 1, w)

-----------------------------------------------------------------------------
(* derive, deriveThis and deriveRewrite. *)
Walks == [grant : BOOLEAN, visited : SUBSET Nodes, truncated : BOOLEAN]

CallsOfWalks == Calls(Walks)

Fresh == [grant |-> FALSE, visited |-> {}, truncated |-> FALSE]

Grant(w) == [w EXCEPT !.grant = TRUE]

Truncate(w) == [w EXCEPT !.truncated = TRUE]

DeriveNode(s, c, run) ==
  IF c.depth > MaxDepth THEN Truncate(c.w)
  ELSE IF <<c.o, c.r>> \in c.w.visited THEN c.w
  ELSE run[AtRewrite(c.o, c.r, RewriteOf(s, c.o, c.r), c.depth,
                     [c.w EXCEPT !.visited = @ \cup {<<c.o, c.r>>}])]

(* The nodes one hop away, one after another until one grants; an indexed  *)
(* userset grants without a walk.                                          *)
DeriveHops(s, c, run) ==
  IF c.rest = <<>> THEN c.w
  ELSE LET x == Head(c.rest)
           indexed == c.rewrite.kind = "this" /\ IndexGrants(s, x.ref, x.relation, c.depth + 1)
           sub == IF ~Leads(s, c, x) THEN c.w
                  ELSE IF indexed THEN Grant(c.w) ELSE run[Hop(c, x, c.w)]
       IN IF sub.grant THEN sub ELSE run[NextHop(c, sub)]

DeriveUnion(c, run) ==
  IF c.rewrite.children = <<>> THEN c.w
  ELSE LET sub == run[First(c, c.w)] IN IF sub.grant THEN sub ELSE run[Others(c, sub)]

(* intersection: each operand walks afresh, and a cut operand denies. *)
DeriveIntersection(c, run) ==
  IF c.rewrite.children = <<>> THEN Grant(c.w)
  ELSE LET sub == run[First(c, Fresh)]
       IN IF sub.truncated THEN Truncate(c.w)
          ELSE IF sub.grant THEN run[Others(c, c.w)] ELSE c.w

MutDeriveExclusion(base, subtract, w) ==
  IF base.truncated THEN Truncate(w)
  ELSE IF base.grant /\ ~subtract.grant THEN Grant(w) ELSE w

(* exclusion, given the walks of its operands: a cut operand denies. *)
DeriveExclusion(base, subtract, w) ==
  IF base.truncated THEN Truncate(w)
  ELSE IF ~base.grant THEN w
  ELSE IF subtract.truncated THEN Truncate(w)
  ELSE IF subtract.grant THEN w ELSE Grant(w)

DeriveRewrite(s, c, run) ==
  CASE c.rewrite.kind = "this" ->
         IF <<c.o, c.r, Direct(Target)>> \in s.rows THEN Grant(c.w) ELSE run[Loop(c, c.w)]
    [] c.rewrite.kind = "computedUserset" ->
         run[AtNode(c.o, c.rewrite.relation, c.depth, c.w)]
    [] c.rewrite.kind = "tupleToUserset" -> run[Loop(c, c.w)]
    [] c.rewrite.kind = "union" -> DeriveUnion(c, run)
    [] c.rewrite.kind = "intersection" -> DeriveIntersection(c, run)
    [] c.rewrite.kind = "exclusion" ->
         DeriveExclusion(run[AtRewrite(c.o, c.r, c.rewrite.base, c.depth, Fresh)],
                         run[AtRewrite(c.o, c.r, c.rewrite.subtract, c.depth, Fresh)], c.w)

DeriveStep(s, c, run) ==
  CASE c.at = "node" -> DeriveNode(s, c, run)
    [] c.at = "rewrite" -> DeriveRewrite(s, c, run)
    [] c.at = "hops" -> DeriveHops(s, c, run)

(* With no call left, a walk is cut. *)
Deriving(s) ==
  LET run[calls \in Nat] ==
        [c \in CallsOfWalks |->
           IF calls = 0 THEN Truncate(c.w) ELSE DeriveStep(s, c, run[calls - 1])]
  IN run

Derive(s, o, r, w) == Deriving(s)[MaxCalls][AtNode(o, r, 0, w)]

(* evaluate: the required relations one after another, each with its own   *)
(* visited set, until one grants.                                          *)
Evaluating(s) ==
  LET walked[i \in 0 .. Len(config.required)] ==
        IF i = 0 THEN Fresh
        ELSE IF walked[i - 1].grant THEN walked[i - 1]
        ELSE Derive(s, Resource, config.required[i], [walked[i - 1] EXCEPT !.visited = {}])
  IN walked

Evaluate(s) == Evaluating(s)[Len(config.required)]

-----------------------------------------------------------------------------
(***************************************************************************)
(* collectMembers and collectRewrite.  They gather every member, and what  *)
(* they gather of one user does not depend on the others: `found' has the  *)
(* depths at which they come across the target, in the order of the code,  *)
(* and `cut' says that the bound on the calls that may nest was met.       *)
(***************************************************************************)
Collections ==
  [found : Seq(Nat), visited : SUBSET Nodes, excluded : BOOLEAN, cut : BOOLEAN]

CallsOfCollections == Calls(Collections)

Empty == [found |-> <<>>, visited |-> {}, excluded |-> FALSE, cut |-> FALSE]

CollectNode(s, c, run) ==
  IF c.depth > MaxDepth \/ <<c.o, c.r>> \in c.w.visited THEN c.w
  ELSE run[AtRewrite(c.o, c.r, RewriteOf(s, c.o, c.r), c.depth,
                     [c.w EXCEPT !.visited = @ \cup {<<c.o, c.r>>}])]

(* Subjects in order: users are members at this depth, nodes are collected *)
(* one hop deeper.                                                         *)
CollectHops(s, c, run) ==
  IF c.rest = <<>> THEN c.w
  ELSE LET x == Head(c.rest)
           member == /\ c.rewrite.kind = "this"
                     /\ x = Direct(Target) /\ <<c.o, c.r, x>> \in s.rows
       IN run[NextHop(c, IF member THEN [c.w EXCEPT !.found = Append(@, c.depth)]
                         ELSE IF Leads(s, c, x) THEN run[Hop(c, x, c.w)] ELSE c.w)]

CollectUnion(c, run) ==
  IF c.rewrite.children = <<>> THEN c.w ELSE run[Others(c, run[First(c, c.w)])]

MutOperand(w) == [w EXCEPT !.found = <<>>]

(* An operand of an intersection or of an exclusion is collected with a    *)
(* visited set of its own.                                                 *)
Operand(w) == [w EXCEPT !.found = <<>>, !.visited = {}]

Deeper(a, b) == IF a >= b THEN a ELSE b

(* The members of both, at the depth of the deeper proof. *)
Both(found, other) ==
  IF other = <<>> THEN <<>>
  ELSE [i \in DOMAIN found |-> Deeper(found[i], Head(other))]

(* The operands of an intersection, the last of which may be the first. *)
CollectIntersection(c, run) ==
  IF c.rewrite.children = <<>> THEN c.w
  ELSE LET first == run[First(c, Operand(c.w))]
           others == run[Others(c, Operand(first))]
           members == IF Len(c.rewrite.children) = 1 THEN first.found
                      ELSE Both(first.found, others.found)
       IN [others EXCEPT !.found = c.w.found \o members, !.visited = c.w.visited]

Without(found, other) == IF other = <<>> THEN found ELSE <<>>

CollectExclusion(c, run) ==
  LET base == run[AtRewrite(c.o, c.r, c.rewrite.base, c.depth, Operand(c.w))]
      subtract == run[AtRewrite(c.o, c.r, c.rewrite.subtract, c.depth, Operand(base))]
  IN [subtract EXCEPT !.found = c.w.found \o Without(base.found, subtract.found),
                      !.visited = c.w.visited, !.excluded = TRUE]

CollectRewrite(s, c, run) ==
  CASE c.rewrite.kind \in {"this", "tupleToUserset"} -> run[Loop(c, c.w)]
    [] c.rewrite.kind = "computedUserset" ->
         run[AtNode(c.o, c.rewrite.relation, c.depth, c.w)]
    [] c.rewrite.kind = "union" -> CollectUnion(c, run)
    [] c.rewrite.kind = "intersection" -> CollectIntersection(c, run)
    [] c.rewrite.kind = "exclusion" -> CollectExclusion(c, run)

CollectStep(s, c, run) ==
  CASE c.at = "node" -> CollectNode(s, c, run)
    [] c.at = "rewrite" -> CollectRewrite(s, c, run)
    [] c.at = "hops" -> CollectHops(s, c, run)

Collecting(s) ==
  LET run[calls \in Nat] ==
        [c \in CallsOfCollections |->
           IF calls = 0 THEN [c.w EXCEPT !.cut = TRUE]
           ELSE CollectStep(s, c, run[calls - 1])]
  IN run

FlattenedSet(s, o, r) == Collecting(s)[MaxCalls][AtNode(o, r, 0, Empty)]

(* A set whose closure crosses an exclusion is not indexed. *)
Indexable(flat) == ~flat.excluded

(* reindexOrg: the referenced usersets, flattened; the target's depth in   *)
(* those that it is a member of, the smallest that flattenSet found.       *)
FreshIndex ==
  LET s == FullSnapshot(NoIndex)
      referenced == {<<t[3].ref, t[3].relation>> :
                       t \in {x \in tuples : x[3].kind = "userset"}}
      flat == [n \in referenced |-> FlattenedSet(s, n[1], n[2])]
      hits == {n \in referenced : Indexable(flat[n]) /\ flat[n].found # <<>>}
  IN [n \in hits |->
        LET depths == ToSet(flat[n].found)
        IN CHOOSE d \in depths : \A e \in depths : d <= e]

-----------------------------------------------------------------------------
(* loadClosure: the nodes whose rows the walk may need.  One set of walked *)
(* nodes serves the query.                                                 *)
Loads == [walked : SUBSET Nodes, loaded : SUBSET Nodes]

CallsOfLoads == Calls(Loads)

Load(l, o, r) == [l EXCEPT !.loaded = @ \cup {<<o, r>>}]

MutSkips(c) == <<c.o, c.r>> \in c.w.walked \/ c.depth >= MaxDepth

(* A node that was walked before, at any depth, or is beyond the bound. *)
Skips(c) == <<c.o, c.r>> \in c.w.walked \/ c.depth > MaxDepth

WalkNode(s, c, run) ==
  IF Skips(c) THEN c.w
  ELSE run[AtRewrite(c.o, c.r, RewriteOf(s, c.o, c.r), c.depth,
                     [Load(c.w, c.o, c.r) EXCEPT !.walked = @ \cup {<<c.o, c.r>>}])]

(* A set that the index grants within the budget is not loaded. *)
WalkHops(s, c, run) ==
  IF c.rest = <<>> THEN c.w
  ELSE LET x == Head(c.rest)
           indexed == c.rewrite.kind = "this" /\ IndexGrants(s, x.ref, x.relation, c.depth + 1)
       IN run[NextHop(c, IF Leads(s, c, x) /\ ~indexed THEN run[Hop(c, x, c.w)] ELSE c.w)]

WalkRewrite(s, c, run) ==
  CASE c.rewrite.kind = "this" -> run[Loop(c, c.w)]
    [] c.rewrite.kind = "computedUserset" ->
         run[AtNode(c.o, c.rewrite.relation, c.depth, c.w)]
    [] c.rewrite.kind = "tupleToUserset" ->
         run[Loop(c, Load(c.w, c.o, c.rewrite.tupleset))]
    [] c.rewrite.kind \in {"union", "intersection"} ->
         IF c.rewrite.children = <<>> THEN c.w ELSE run[Others(c, run[First(c, c.w)])]
    [] c.rewrite.kind = "exclusion" ->
         run[AtRewrite(c.o, c.r, c.rewrite.subtract, c.depth,
                       run[AtRewrite(c.o, c.r, c.rewrite.base, c.depth, c.w)])]

WalkStep(s, c, run) ==
  CASE c.at = "node" -> WalkNode(s, c, run)
    [] c.at = "rewrite" -> WalkRewrite(s, c, run)
    [] c.at = "hops" -> WalkHops(s, c, run)

Walking(s) ==
  LET run[calls \in Nat] ==
        [c \in CallsOfLoads |-> IF calls = 0 THEN c.w ELSE WalkStep(s, c, run[calls - 1])]
  IN run

Loading(s) ==
  LET loaded[i \in 0 .. Len(config.required)] ==
        IF i = 0 THEN [walked |-> {}, loaded |-> {}]
        ELSE Walking(s)[MaxCalls][AtNode(Resource, config.required[i], 0, loaded[i - 1])]
  IN loaded

(* The snapshot that evaluate gets from the loader: the rows, and the      *)
(* namespaces of the objects that were walked.                             *)
LoadedSnapshot(index) ==
  LET s == FullSnapshot(index)
      l == Loading(s)[Len(config.required)]
  IN [rows |-> {t \in s.rows : <<t[1], t[2]>> \in l.loaded},
      types |-> {config.typeOf[o] : o \in {Resource} \cup {n[1] : n \in l.walked}} \cap s.types,
      index |-> index]

-----------------------------------------------------------------------------
(* RelationTupleWriter.write and revoke. *)
Write(t) == t \notin tuples /\ tuples' = tuples \cup {t} /\ UNCHANGED config

Revoke(t) == t \in tuples /\ tuples' = tuples \ {t} /\ UNCHANGED config

Init == config \in Configs /\ tuples = {}

Next == \E t \in config.universe : Write(t) \/ Revoke(t)

Spec == Init /\ [][Next]_vars

-----------------------------------------------------------------------------
(***************************************************************************)
(* What the tuples mean.  A claim says that the target holds a rewrite of  *)
(* relation r on o by a proof of at most `hops' hops, or that it does not. *)
(* For what is subtracted, proofs of any length count.  Known[n] are the   *)
(* claims that n steps of reasoning establish: a claim and its opposite    *)
(* are never both known, and neither is where a rewrite subtracts what it  *)
(* grants.                                                                 *)
(***************************************************************************)
AnyLength ==
  MaxDepth + Cardinality({<<t[1], t[2]>> : t \in config.universe})

Claims == [o : Objects, r : Relations, rewrite : Rewrites, hops : Nat, holds : BOOLEAN]

ByRewrite(o, r, rewrite, hops, holds) ==
  [o |-> o, r |-> r, rewrite |-> rewrite, hops |-> hops, holds |-> holds]

Claim(o, r, hops, holds) ==
  ByRewrite(o, r, RewriteOf(FullSnapshot(NoIndex), o, r), hops, holds)

(* The same of an operand. *)
Part(q, rewrite) == [q EXCEPT !.rewrite = rewrite]

(* The target holds relation r on one of the objects or nodes one hop on. *)
Follows(q, known) ==
  LET s == FullSnapshot(NoIndex)
      next == {x \in {t[3] : t \in tuples} : Leads(s, q, x)}
      claim(x) == Claim(x.ref, IF q.rewrite.kind = "this" THEN x.relation
                               ELSE q.rewrite.relation, q.hops - 1, q.holds)
  IN IF q.holds THEN q.hops > 0 /\ \E x \in next : known[claim(x)]
     ELSE q.hops = 0 \/ \A x \in next : known[claim(x)]

Establishes(q, known) ==
  LET direct == <<q.o, q.r, Direct(Target)>> \in tuples
      operands == IF q.rewrite.kind \in {"union", "intersection"} THEN ToSet(q.rewrite.children)
                  ELSE {}
  IN CASE q.rewrite.kind = "this" ->
            IF q.holds THEN direct \/ Follows(q, known) ELSE ~direct /\ Follows(q, known)
       [] q.rewrite.kind = "computedUserset" ->
            known[Claim(q.o, q.rewrite.relation, q.hops, q.holds)]
       [] q.rewrite.kind = "tupleToUserset" -> Follows(q, known)
       [] q.rewrite.kind = "union" ->
            IF q.holds THEN \E x \in operands : known[Part(q, x)]
            ELSE \A x \in operands : known[Part(q, x)]
       [] q.rewrite.kind = "intersection" ->
            IF q.holds THEN \A x \in operands : known[Part(q, x)]
            ELSE \E x \in operands : known[Part(q, x)]
       [] q.rewrite.kind = "exclusion" ->
            LET base == known[Part(q, q.rewrite.base)]
                subtract == known[ByRewrite(q.o, q.r, q.rewrite.subtract, AnyLength, ~q.holds)]
            IN IF q.holds THEN base /\ subtract ELSE base \/ subtract

Known[n \in Nat] ==
  [q \in Claims |-> n > 0 /\ Establishes(q, Known[n - 1])]

Proved(hops) ==
  \E i \in DOMAIN config.required :
    Known[MaxCalls][Claim(Resource, config.required[i], hops, TRUE)]

Refuted(hops) ==
  \A i \in DOMAIN config.required :
    Known[MaxCalls][Claim(Resource, config.required[i], hops, FALSE)]

(* A walk is exact: it grants nothing that is refuted within the bound,    *)
(* and what it does not grant without having been cut cannot be proved.    *)
Exact(w) ==
  /\ w.grant => ~Refuted(MaxDepth)
  /\ ~w.grant /\ ~w.truncated => ~Proved(AnyLength)

(***************************************************************************)
(* The bounded walk with its shared visited sets is exact, whatever cycles *)
(* and diamonds the tuples form: a walk that is cut at the depth bound     *)
(* inside an intersection or an exclusion never opens access, and a denial *)
(* without walk_truncated is the truth.                                    *)
(***************************************************************************)
WalkIsExact == Exact(Evaluate(FullSnapshot(NoIndex)))

(***************************************************************************)
(* A fresh membership index keeps the walk exact and never loses a grant:  *)
(* it can only turn a denial that was cut at the bound into a permit that  *)
(* holds within the bound.                                                 *)
(***************************************************************************)
IndexedWalkIsExact ==
  LET indexed == Evaluate(FullSnapshot(FreshIndex))
      live == Evaluate(FullSnapshot(NoIndex))
  IN /\ Exact(indexed)
     /\ live.grant => indexed.grant

(***************************************************************************)
(* expand and check agree: when the walk of a required relation was not    *)
(* cut, expand lists the target for that relation iff the walk grants it.  *)
(***************************************************************************)
ExpandAgreesWithCheck ==
  LET s == FullSnapshot(NoIndex) IN
  \A i \in DOMAIN config.required :
    LET w == Derive(s, Resource, config.required[i], Fresh)
        expanded == FlattenedSet(s, Resource, config.required[i])
    IN ~w.truncated /\ ~expanded.cut => (w.grant <=> expanded.found # <<>>)

(***************************************************************************)
(* The two other ways to ask, through the membership index and by          *)
(* expanding a relation, give the answer that the walk gives.              *)
(***************************************************************************)
QueriesAgree == IndexedWalkIsExact /\ ExpandAgreesWithCheck

(* A rewrite that neither intersects nor excludes, nor nests a union. *)
Positive(rewrite) ==
  \/ rewrite.kind \in {"this", "computedUserset", "tupleToUserset"}
  \/ /\ rewrite.kind = "union"
     /\ \A i \in DOMAIN rewrite.children :
          rewrite.children[i].kind \in {"this", "computedUserset", "tupleToUserset"}

AllPositive ==
  \A type \in DOMAIN config.rewrites : \A r \in DOMAIN config.rewrites[type] :
    Positive(config.rewrites[type][r])

(***************************************************************************)
(* The closure loader fetches what the walk needs, with and without the    *)
(* index: without intersections, exclusions and unions within unions, an   *)
(* action that requires one relation is decided on the loaded rows as on   *)
(* the whole store, truncation included, and one that requires several is  *)
(* never permitted beyond what holds.                                      *)
(***************************************************************************)
ClosureIsComplete ==
  AllPositive =>
    \A index \in {NoIndex, FreshIndex} :
      LET loaded == Evaluate(LoadedSnapshot(index))
          full == Evaluate(FullSnapshot(index))
      IN /\ loaded.grant => ~Refuted(MaxDepth)
         /\ Len(config.required) = 1 =>
              loaded.grant = full.grant /\ loaded.truncated = full.truncated

(***************************************************************************)
(* "A truncated negative operand never opens access": what is permitted on *)
(* the rows that the closure loader fetched holds in the store.            *)
(***************************************************************************)
LoadedClosureNeverOpens ==
  Evaluate(LoadedSnapshot(NoIndex)).grant => ~Refuted(AnyLength)
=============================================================================
