---------------------- MODULE UsersetEvaluationProofs ----------------------
(***************************************************************************)
(* Proofs about UsersetEvaluation, for every set of objects, relations and *)
(* rewrites, every namespace configuration, every graph of tuples and      *)
(* every bound.                                                            *)
(*                                                                         *)
(* A walk with a shared visited set is hard to reason about because what a *)
(* call finds depends on where the walk has been.  The invariant of the    *)
(* calls says this: a walk that neither granted nor was cut has left no    *)
(* node open, which is to say that every node it visited is settled by     *)
(* nodes it visited.  A proof of a grant, if there was one, would have a   *)
(* first step among nodes that a shorter proof settles, so there is none.  *)
(* The other direction, that a grant is not refuted, needs no invariant    *)
(* about visited nodes: a grant carries its own proof.                     *)
(***************************************************************************)
EXTENDS UsersetEvaluation, FiniteSetTheorems, SequenceTheorems, WellFoundedInduction,
  TLAPS

-----------------------------------------------------------------------------
(***************************************************************************)
(* Induction: the well-ordering of the naturals, and iteration.            *)
(***************************************************************************)
Less == {p \in Nat \X Nat : p[1] < p[2]}

(* The naturals are well ordered. *)
LEMMA LessWellFounded == IsWellFoundedOn(Less, Nat)
BY NatLessThanWellFounded DEF OpToRel, Less

(* A set of naturals that is not empty has a least element. *)
LEMMA LeastElement ==
  ASSUME NEW S \in SUBSET Nat, S # {}
  PROVE  \E m \in S : \A n \in S : m <= n
<1>1. PICK m \in S : \A n \in S : <<n, m>> \notin Less
  BY LessWellFounded, WFMin, Zenon
<1>2. ASSUME NEW n \in S, n < m PROVE FALSE
  <2>1. <<n, m>> \in Nat \X Nat  OBVIOUS
  <2>2. <<n, m>> \in Less  BY <2>1, <1>2 DEF Less
  <2> QED  BY <2>2, <1>1
<1> QED  BY <1>2

(* A set of naturals with 0 and the successor of each of its elements has  *)
(* every natural.                                                          *)
LEMMA EveryNatural ==
  ASSUME NEW S, 0 \in S, \A n \in Nat : n \in S => n + 1 \in S
  PROVE  \A n \in Nat : n \in S
<1> DEFINE Rest == {n \in Nat : n \notin S}
<1>1. SUFFICES ASSUME Rest # {} PROVE FALSE  OBVIOUS
<1>2. PICK m \in Rest : \A n \in Rest : m <= n  BY <1>1, LeastElement
<1>3. m # 0  BY <1>2
<1>4. m - 1 \in Nat /\ m - 1 \notin Rest  BY <1>2, <1>3
<1>5. m - 1 + 1 \in S  BY <1>4
<1> QED  BY <1>2, <1>5

(* A step on a set V, from a first element of V, can be iterated for ever. *)
LEMMA Iteration ==
  ASSUME NEW V, NEW first \in V, NEW step \in [Nat -> [V -> V]]
  PROVE  \E f \in [Nat -> V] :
           f[0] = first /\ \A n \in Nat : f[n + 1] = step[n][f[n]]
<1> DEFINE Begins(n, g) == /\ g \in [0 .. n -> V]
                           /\ g[0] = first
                           /\ \A k \in 0 .. n - 1 : g[k + 1] = step[k][g[k]]
           Some == {n \in Nat : \E g : Begins(n, g)}
<1>1. 0 \in Some
  <2>1. Begins(0, [k \in 0 .. 0 |-> first])  OBVIOUS
  <2> QED  BY <2>1
<1>2. ASSUME NEW n \in Nat, n \in Some PROVE n + 1 \in Some
  <2>1. PICK g : Begins(n, g)  BY <1>2
  <2> DEFINE h == [k \in 0 .. n + 1 |-> IF k = n + 1 THEN step[n][g[n]] ELSE g[k]]
  <2>2. g[n] \in V  BY <2>1
  <2>3. h \in [0 .. n + 1 -> V]  BY <2>1, <2>2
  <2>4. h[0] = first  BY <2>1
  <2>5. ASSUME NEW k \in 0 .. n + 1 - 1 PROVE h[k + 1] = step[k][h[k]]
    <3>1. CASE k = n
      <4>1. h[k + 1] = step[n][g[n]] /\ h[k] = g[n]  BY <3>1
      <4> QED  BY <4>1, <3>1
    <3>2. CASE k # n
      <4>1. k \in 0 .. n - 1 /\ k + 1 \in 0 .. n + 1 /\ k + 1 # n + 1  BY <3>2
      <4>2. h[k + 1] = g[k + 1] /\ h[k] = g[k]  BY <4>1
      <4> QED  BY <4>1, <4>2, <2>1
    <3> QED  BY <3>1, <3>2
  <2> HIDE DEF h
  <2>6. Begins(n + 1, h)
    <3>1. \A k \in 0 .. n + 1 - 1 : h[k + 1] = step[k][h[k]]  BY <2>5
    <3> QED  BY <2>3, <2>4, <3>1
  <2> HIDE DEF Begins
  <2> QED  BY <2>6
<1> HIDE DEF Some
<1>3. \A n \in Nat : n \in Some  BY <1>1, <1>2, EveryNatural
<1>4. ASSUME NEW n \in Nat, NEW m \in Nat, NEW g, NEW h, Begins(n, g), Begins(m, h)
      PROVE  \A k \in Nat : k <= n /\ k <= m => g[k] = h[k]
  <2> DEFINE Same == {k \in Nat : k <= n /\ k <= m => g[k] = h[k]}
  <2>1. 0 \in Same  BY <1>4
  <2>2. ASSUME NEW k \in Nat, k \in Same PROVE k + 1 \in Same
    <3> SUFFICES ASSUME k + 1 <= n, k + 1 <= m PROVE g[k + 1] = h[k + 1]  OBVIOUS
    <3>1. k \in 0 .. n - 1 /\ k \in 0 .. m - 1 /\ g[k] = h[k]  BY <2>2
    <3> QED  BY <3>1, <1>4
  <2> HIDE DEF Begins
  <2>3. \A k \in Nat : k \in Same  BY <2>1, <2>2, EveryNatural
  <2> QED  BY <2>3
<1> DEFINE part == [n \in Nat |-> CHOOSE g : Begins(n, g)]
           f == [n \in Nat |-> part[n][n]]
<1>5. ASSUME NEW n \in Nat PROVE Begins(n, part[n])
  <2> HIDE DEF Begins
  <2>1. \E g : Begins(n, g)  BY <1>3 DEF Some
  <2> QED  BY <2>1
<1>6. f \in [Nat -> V]
  <2>1. ASSUME NEW n \in Nat PROVE part[n][n] \in V
    <3>1. part[n] \in [0 .. n -> V]  BY <1>5
    <3> HIDE DEF part
    <3> QED  BY <3>1
  <2> HIDE DEF part
  <2> QED  BY <2>1
<1>7. f[0] = first  BY <1>5
<1>8. ASSUME NEW n \in Nat PROVE f[n + 1] = step[n][f[n]]
  <2>1. part[n + 1][n] = part[n][n]
    <3> HIDE DEF Begins, part
    <3>1. n + 1 \in Nat /\ n <= n + 1 /\ n <= n  OBVIOUS
    <3> QED  BY <3>1, <1>4, <1>5
  <2>2. part[n + 1][n + 1] = step[n][part[n + 1][n]]
    <3>1. n \in 0 .. n + 1 - 1  OBVIOUS
    <3> HIDE DEF part
    <3> QED  BY <3>1, <1>5
  <2>3. n + 1 \in Nat /\ f[n + 1] = part[n + 1][n + 1] /\ f[n] = part[n][n]  OBVIOUS
  <2> HIDE DEF part, Begins, f
  <2> QED  BY <2>1, <2>2, <2>3
<1> HIDE DEF f, part, Begins
<1> QED  BY <1>6, <1>7, <1>8

-----------------------------------------------------------------------------
(***************************************************************************)
(* Types of calls and rewrites.                                            *)
(***************************************************************************)
(* A state of the organization: its namespaces, and tuples that it may hold. *)
Stored == config \in Configs /\ tuples \subseteq config.universe

(* The organization and its tuples stay what a configuration allows. *)
LEMMA StoredAlways == Spec => []Stored
<1>1. Init => Stored  BY DEF Init, Stored
<1>2. Stored /\ [Next]_vars => Stored'
  BY DEF Stored, Next, vars, Write, Revoke
<1> QED  BY <1>1, <1>2, PTL DEF Spec

(* What the calls of a walk on W are. *)
LEMMA NodeCall ==
  ASSUME NEW W, NEW o \in Objects, NEW r \in Relations, NEW d \in Nat, NEW w \in W
  PROVE  /\ AtNode(o, r, d, w) \in Calls(W)
         /\ AtNode(o, r, d, w).at = "node"
         /\ AtNode(o, r, d, w).o = o /\ AtNode(o, r, d, w).r = r
         /\ AtNode(o, r, d, w).depth = d /\ AtNode(o, r, d, w).w = w
BY DEF AtNode, Calls

(* A call at a rewrite. *)
LEMMA RewriteCall ==
  ASSUME NEW W, NEW o \in Objects, NEW r \in Relations, NEW rw \in Rewrites,
         NEW d \in Nat, NEW w \in W
  PROVE  /\ AtRewrite(o, r, rw, d, w) \in Calls(W)
         /\ AtRewrite(o, r, rw, d, w).at = "rewrite"
         /\ AtRewrite(o, r, rw, d, w).o = o /\ AtRewrite(o, r, rw, d, w).r = r
         /\ AtRewrite(o, r, rw, d, w).rewrite = rw
         /\ AtRewrite(o, r, rw, d, w).depth = d /\ AtRewrite(o, r, rw, d, w).w = w
BY DEF AtRewrite, Calls

(* A call at the rest of a loop. *)
LEMMA HopsCall ==
  ASSUME NEW W, NEW o \in Objects, NEW r \in Relations, NEW rw \in HoppingRewrites,
         NEW rest \in Seq(Subjects), NEW d \in Nat, NEW w \in W
  PROVE  /\ AtHops(o, r, rw, rest, d, w) \in Calls(W)
         /\ AtHops(o, r, rw, rest, d, w).at = "hops"
         /\ AtHops(o, r, rw, rest, d, w).o = o /\ AtHops(o, r, rw, rest, d, w).r = r
         /\ AtHops(o, r, rw, rest, d, w).rewrite = rw
         /\ AtHops(o, r, rw, rest, d, w).rest = rest
         /\ AtHops(o, r, rw, rest, d, w).depth = d /\ AtHops(o, r, rw, rest, d, w).w = w
BY DEF AtHops, Calls

(* The three kinds of calls. *)
LEMMA CallCases ==
  ASSUME NEW W, NEW c \in Calls(W)
  PROVE  \E o \in Objects, r \in Relations, d \in Nat, w \in W :
           \/ c = AtNode(o, r, d, w)
           \/ \E rw \in Rewrites : c = AtRewrite(o, r, rw, d, w)
           \/ \E rw \in HoppingRewrites, rest \in Seq(Subjects) :
                c = AtHops(o, r, rw, rest, d, w)
<1>1. CASE c \in [at : {"node"}, o : Objects, r : Relations, depth : Nat, w : W]
  <2>1. c = AtNode(c.o, c.r, c.depth, c.w)  BY <1>1 DEF AtNode
  <2> QED  BY <1>1, <2>1
<1>2. CASE c \in [at : {"rewrite"}, o : Objects, r : Relations, rewrite : Rewrites,
                  depth : Nat, w : W]
  <2>1. c = AtRewrite(c.o, c.r, c.rewrite, c.depth, c.w)  BY <1>2 DEF AtRewrite
  <2> QED  BY <1>2, <2>1
<1>3. CASE c \in [at : {"hops"}, o : Objects, r : Relations, rewrite : HoppingRewrites,
                  rest : Seq(Subjects), depth : Nat, w : W]
  <2>1. c = AtHops(c.o, c.r, c.rewrite, c.rest, c.depth, c.w)  BY <1>3 DEF AtHops
  <2> QED  BY <1>3, <2>1
<1> QED  BY <1>1, <1>2, <1>3 DEF Calls

(* Sequences of accepted rewrites: head, tail and membership. *)
LEMMA AcceptedSequences ==
  ASSUME NEW s \in Seq(AcceptedRewrites)
  PROVE  s \in Seq(Rewrites)
<1>1. AcceptedRewrites \subseteq Rewrites  BY DEF AcceptedRewrites
<1>2. Len(s) \in Nat /\ s \in [1 .. Len(s) -> AcceptedRewrites]  OBVIOUS
<1>3. s \in [1 .. Len(s) -> Rewrites]  BY <1>1, <1>2
<1> QED  BY <1>2, <1>3

(* The rewrites. *)
LEMMA RewriteCases ==
  ASSUME NEW rw \in Rewrites
  PROVE  \/ rw = This /\ rw.kind = "this" /\ rw \in HoppingRewrites
         \/ rw.kind = "computedUserset" /\ rw.relation \in Relations
         \/ /\ rw.kind = "tupleToUserset" /\ rw \in HoppingRewrites
            /\ rw.relation \in Relations /\ rw.tupleset \in Relations
         \/ /\ rw.kind \in {"union", "intersection"}
            /\ rw = [kind |-> rw.kind, children |-> rw.children]
            /\ rw.children \in Seq(Rewrites)
            /\ rw.children # <<>> =>
                 /\ [rw EXCEPT !.children = Tail(@)] \in Rewrites
                 /\ Head(rw.children) \in Rewrites /\ Head(rw.children) \in AcceptedRewrites
         \/ /\ rw.kind = "exclusion" /\ rw.base \in Rewrites /\ rw.subtract \in Rewrites
            /\ rw.base \in AcceptedRewrites /\ rw.subtract \in AcceptedRewrites
<1>1. WellFormed(rw)  BY EvaluationAssumption
<1>0. AcceptedRewrites \subseteq Rewrites  BY DEF AcceptedRewrites
<1>2. CASE rw = This  BY <1>2 DEF This, HoppingRewrites
<1>3. CASE rw \in {Computed(r) : r \in Relations}  BY <1>3 DEF Computed
<1>4. CASE rw \in {TupleTo(p, r) : p \in Relations, r \in Relations}
  BY <1>4 DEF TupleTo, HoppingRewrites
<1>5. CASE /\ rw.kind \in {"union", "intersection"}
           /\ rw = [kind |-> rw.kind, children |-> rw.children]
           /\ rw.children \in Seq(AcceptedRewrites)
           /\ rw.children # <<>> => [rw EXCEPT !.children = Tail(@)] \in Rewrites
  <2>1. rw.children # <<>> => Head(rw.children) \in AcceptedRewrites
    BY <1>5, HeadTailProperties
  <2>2. rw.children \in Seq(Rewrites)  BY <1>5, AcceptedSequences
  <2> QED  BY <1>0, <1>5, <2>1, <2>2
<1>6. CASE /\ rw.kind = "exclusion" /\ rw = Exclusion(rw.base, rw.subtract)
           /\ {rw.base, rw.subtract} \subseteq AcceptedRewrites
  BY <1>0, <1>6
<1> QED  BY <1>1, <1>2, <1>3, <1>4, <1>5, <1>6 DEF WellFormed

(* The rewrite of a relation is one of the rewrites, and does not depend on *)
(* the index.                                                              *)
LEMMA RewriteOfType ==
  ASSUME Stored, NEW s, NEW o, NEW r, s.types \subseteq DOMAIN config.rewrites
  PROVE  RewriteOf(s, o, r) \in Rewrites /\ RewriteOf(s, o, r) \in AcceptedRewrites
<1>1. This \in AcceptedRewrites  BY EvaluationAssumption DEF AcceptedRewrites, This
<1>2. RewriteOf(s, o, r) \in AcceptedRewrites
  BY <1>1, EvaluationAssumption DEF Stored, RewriteOf, WellFormedConfig
<1> QED  BY <1>2 DEF AcceptedRewrites

(* A subject that leads on is a node's. *)
LEMMA LeadsType ==
  ASSUME NEW s, NEW c, NEW x \in Subjects, Leads(s, c, x), c.rewrite \in HoppingRewrites
  PROVE  /\ x.ref \in Objects
         /\ (IF c.rewrite.kind = "this" THEN x.relation ELSE c.rewrite.relation) \in Relations
<1>1. x.ref \in Objects /\ (x.kind = "userset" => x.relation \in Relations)
  <2>1. \/ \E y \in Objects : x = Direct(y)
        \/ \E n \in Nodes : x = Set(n[1], n[2])
    BY DEF Subjects
  <2>2. CASE \E y \in Objects : x = Direct(y)
    <3>1. PICK y \in Objects : x = Direct(y)  BY <2>2
    <3> QED  BY <3>1 DEF Direct
  <2>3. CASE \E n \in Nodes : x = Set(n[1], n[2])
    <3>1. PICK n \in Nodes : x = Set(n[1], n[2])  BY <2>3
    <3>2. n[1] \in Objects /\ n[2] \in Relations  BY DEF Nodes
    <3> QED  BY <3>1, <3>2 DEF Set
  <2> QED  BY <2>1, <2>2, <2>3
<1>2. c.rewrite.kind = "this" => x.kind = "userset"  BY DEF Leads
<1>3. c.rewrite.kind # "this" => c.rewrite.relation \in Relations
  BY RewriteCases DEF HoppingRewrites
<1> QED  BY <1>1, <1>2, <1>3

(* The order of the database lists subjects. *)
LEMMA OrderType ==
  ASSUME Stored
  PROVE  /\ config.order \in Seq(Subjects)
         /\ \A t \in tuples : t[3] \in Subjects /\ t[3] \in ToSet(config.order)
                              /\ t[1] \in Objects /\ t[2] \in Relations
BY EvaluationAssumption DEF Stored, WellFormedConfig

-----------------------------------------------------------------------------
(***************************************************************************)
(* derive, unfolded by one call.                                           *)
(***************************************************************************)
(* A snapshot that the walks are given. *)
Snapshot(s) == s.types \subseteq DOMAIN config.rewrites

(* The updates of a walk give a walk. *)
LEMMA WalksType ==
  /\ Fresh \in Walks /\ ~Fresh.grant /\ ~Fresh.truncated /\ Fresh.visited = {}
  /\ \A w \in Walks :
       /\ w.grant \in BOOLEAN /\ w.truncated \in BOOLEAN /\ w.visited \subseteq Nodes
       /\ Grant(w) \in Walks /\ Grant(w).grant
       /\ Grant(w).visited = w.visited /\ Grant(w).truncated = w.truncated
       /\ Truncate(w) \in Walks /\ Truncate(w).truncated
       /\ Truncate(w).visited = w.visited /\ Truncate(w).grant = w.grant
       /\ \A o \in Objects, r \in Relations :
            LET v == [w EXCEPT !.visited = @ \cup {<<o, r>>}]
            IN /\ v \in Walks /\ v.grant = w.grant /\ v.truncated = w.truncated
               /\ v.visited = w.visited \cup {<<o, r>>}
<1>1. Fresh \in Walks /\ ~Fresh.grant /\ ~Fresh.truncated /\ Fresh.visited = {}
  BY DEF Fresh, Walks
<1>2. ASSUME NEW w \in Walks
      PROVE  /\ w.grant \in BOOLEAN /\ w.truncated \in BOOLEAN /\ w.visited \subseteq Nodes
             /\ Grant(w) \in Walks /\ Grant(w).grant
             /\ Grant(w).visited = w.visited /\ Grant(w).truncated = w.truncated
  BY DEF Walks, Grant
<1>3. ASSUME NEW w \in Walks
      PROVE  /\ Truncate(w) \in Walks /\ Truncate(w).truncated
             /\ Truncate(w).visited = w.visited /\ Truncate(w).grant = w.grant
  BY DEF Walks, Truncate
<1>4. ASSUME NEW w \in Walks, NEW o \in Objects, NEW r \in Relations
      PROVE  LET v == [w EXCEPT !.visited = @ \cup {<<o, r>>}]
             IN /\ v \in Walks /\ v.grant = w.grant /\ v.truncated = w.truncated
                /\ v.visited = w.visited \cup {<<o, r>>}
  BY DEF Walks, Nodes
<1> QED  BY <1>1, <1>2, <1>3, <1>4

Runs == [CallsOfWalks -> Walks]

(* A step of derive with walks for its nested calls gives a walk. *)
LEMMA DeriveStepType ==
  ASSUME Stored, NEW s, Snapshot(s), NEW c \in CallsOfWalks, NEW run \in Runs
  PROVE  DeriveStep(s, c, run) \in Walks
<1>0. Fresh \in Walks /\ \A w \in Walks : Grant(w) \in Walks /\ Truncate(w) \in Walks
  BY WalksType
<1>1. PICK o \in Objects, r \in Relations, d \in Nat, w \in Walks :
         \/ c = AtNode(o, r, d, w)
         \/ \E rw \in Rewrites : c = AtRewrite(o, r, rw, d, w)
         \/ \E rw \in HoppingRewrites, rest \in Seq(Subjects) :
              c = AtHops(o, r, rw, rest, d, w)
  BY CallCases DEF CallsOfWalks
<1>2. CASE c = AtNode(o, r, d, w)
  <2>1. c.at = "node" /\ c.o = o /\ c.r = r /\ c.depth = d /\ c.w = w
    BY <1>2 DEF AtNode
  <2>2. [w EXCEPT !.visited = @ \cup {<<o, r>>}] \in Walks  BY WalksType
  <2>3. RewriteOf(s, o, r) \in Rewrites  BY RewriteOfType DEF Snapshot
  <2>4. AtRewrite(o, r, RewriteOf(s, o, r), d, [w EXCEPT !.visited = @ \cup {<<o, r>>}])
          \in CallsOfWalks
    BY <2>2, <2>3, RewriteCall DEF CallsOfWalks
  <2>5. DeriveNode(s, c, run) \in Walks
    BY <2>1, <2>4, <1>0 DEF DeriveNode, Runs
  <2> QED  BY <2>1, <2>5 DEF DeriveStep
<1>3. CASE \E rw \in Rewrites : c = AtRewrite(o, r, rw, d, w)
  <2>1. PICK rw \in Rewrites : c = AtRewrite(o, r, rw, d, w)  BY <1>3
  <2>2. /\ c.at = "rewrite" /\ c.o = o /\ c.r = r /\ c.depth = d /\ c.w = w
        /\ c.rewrite = rw
    BY <2>1 DEF AtRewrite
  <2>3. \A x \in Rewrites, v \in Walks : AtRewrite(o, r, x, d, v) \in CallsOfWalks
    BY RewriteCall DEF CallsOfWalks
  <2>4. \A v \in Walks : rw \in HoppingRewrites => Loop(c, v) \in CallsOfWalks
    BY <2>2, HopsCall, OrderType DEF CallsOfWalks, Loop
  <2>5. \A x \in Relations : AtNode(o, x, d, w) \in CallsOfWalks
    BY NodeCall DEF CallsOfWalks
  <2>6. ASSUME rw.kind \in {"union", "intersection"}, rw.children # <<>>
        PROVE  \A v \in Walks : First(c, v) \in CallsOfWalks /\ Others(c, v) \in CallsOfWalks
    <3>1. Head(rw.children) \in Rewrites /\ [rw EXCEPT !.children = Tail(@)] \in Rewrites
      BY <2>6, RewriteCases
    <3> QED  BY <2>2, <2>3, <3>1 DEF First, Others
  <2>7. DeriveRewrite(s, c, run) \in Walks
    <3>1. CASE rw.kind = "this"
      BY <3>1, <1>0, <2>2, <2>4, RewriteCases DEF DeriveRewrite, Runs
    <3>2. CASE rw.kind = "computedUserset"
      BY <3>2, <1>0, <2>2, <2>5, RewriteCases DEF DeriveRewrite, Runs
    <3>3. CASE rw.kind = "tupleToUserset"
      BY <3>3, <1>0, <2>2, <2>4, RewriteCases DEF DeriveRewrite, Runs
    <3>4. CASE rw.kind = "union"
      <4>1. DeriveUnion(c, run) \in Walks
        BY <3>4, <2>2, <2>6 DEF DeriveUnion, Runs
      <4> QED  BY <4>1, <3>4, <2>2 DEF DeriveRewrite
    <3>5. CASE rw.kind = "intersection"
      <4>1. DeriveIntersection(c, run) \in Walks
        BY <3>5, <1>0, <2>2, <2>6 DEF DeriveIntersection, Runs
      <4> QED  BY <4>1, <3>5, <2>2 DEF DeriveRewrite
    <3>6. CASE rw.kind = "exclusion"
      BY <3>6, <1>0, <2>2 DEF DeriveRewrite, DeriveExclusion
    <3> QED  BY <3>1, <3>2, <3>3, <3>4, <3>5, <3>6, RewriteCases
  <2> QED  BY <2>2, <2>7 DEF DeriveStep
<1>4. CASE \E rw \in HoppingRewrites, rest \in Seq(Subjects) : c = AtHops(o, r, rw, rest, d, w)
  <2>1. PICK rw \in HoppingRewrites, rest \in Seq(Subjects) : c = AtHops(o, r, rw, rest, d, w)
    BY <1>4
  <2>2. /\ c.at = "hops" /\ c.o = o /\ c.r = r /\ c.depth = d /\ c.w = w
        /\ c.rewrite = rw /\ c.rest = rest
    BY <2>1 DEF AtHops
  <2>3. CASE rest = <<>>  BY <2>2, <2>3 DEF DeriveStep, DeriveHops
  <2>4. CASE rest # <<>>
    <3>1. Head(rest) \in Subjects /\ Tail(rest) \in Seq(Subjects)
      BY <2>4, HeadTailProperties
    <3>2. \A v \in Walks : NextHop(c, v) \in CallsOfWalks
      BY <2>2, <3>1, HopsCall DEF CallsOfWalks, NextHop
    <3>3. Leads(s, c, Head(rest)) => Hop(c, Head(rest), w) \in CallsOfWalks
      <4> HAVE Leads(s, c, Head(rest))
      <4>1. /\ Head(rest).ref \in Objects
            /\ (IF c.rewrite.kind = "this" THEN Head(rest).relation
                ELSE c.rewrite.relation) \in Relations
        BY <2>2, <3>1, LeadsType
      <4> QED  BY <4>1, <2>2, NodeCall DEF Hop, CallsOfWalks
    <3>4. DeriveHops(s, c, run) \in Walks
      BY <1>0, <2>2, <2>4, <3>2, <3>3 DEF DeriveHops, Runs
    <3> QED  BY <3>4, <2>2 DEF DeriveStep
  <2> QED  BY <2>3, <2>4
<1> QED  BY <1>1, <1>2, <1>3, <1>4

(* The walker's equations. *)
LEMMA DerivingEquations ==
  ASSUME Stored, NEW s, Snapshot(s)
  PROVE  /\ \A n \in Nat : Deriving(s)[n] \in Runs
         /\ \A c \in CallsOfWalks : Deriving(s)[0][c] = Truncate(c.w)
         /\ \A n \in Nat : \A c \in CallsOfWalks :
              Deriving(s)[n + 1][c] = DeriveStep(s, c, Deriving(s)[n])
<1> DEFINE first == [c \in CallsOfWalks |-> Truncate(c.w)]
           step == [n \in Nat |-> [run \in Runs |->
                    [c \in CallsOfWalks |-> DeriveStep(s, c, run)]]]
           Solves(f) == f = [calls \in Nat |->
                               [c \in CallsOfWalks |->
                                  IF calls = 0 THEN Truncate(c.w)
                                  ELSE DeriveStep(s, c, f[calls - 1])]]
<1>1. first \in Runs
  <2>1. \A c \in CallsOfWalks : c.w \in Walks  BY DEF CallsOfWalks, Calls
  <2> QED  BY <2>1, WalksType DEF Runs
<1>2. step \in [Nat -> [Runs -> Runs]]  BY DeriveStepType DEF Runs
<1> HIDE DEF first, step
<1>3. PICK f \in [Nat -> Runs] :
        f[0] = first /\ \A n \in Nat : f[n + 1] = step[n][f[n]]
  <2>1. \A a \in Runs, g \in [Nat -> [Runs -> Runs]] :
          \E f \in [Nat -> Runs] :
             f[0] = a /\ \A n \in Nat : f[n + 1] = g[n][f[n]]
    BY Iteration
  <2> QED  BY <1>1, <1>2, <2>1
<1>4. \A n \in Nat : f[n + 1] = [c \in CallsOfWalks |-> DeriveStep(s, c, f[n])]
  BY <1>3 DEF step
<1>5. Solves(f)
  <2>1. ASSUME NEW n \in Nat
        PROVE  f[n] = [c \in CallsOfWalks |-> IF n = 0 THEN Truncate(c.w)
                                              ELSE DeriveStep(s, c, f[n - 1])]
    <3>1. CASE n = 0  BY <3>1, <1>3 DEF first
    <3>2. CASE n # 0
      <4>1. n - 1 \in Nat /\ n - 1 + 1 = n  BY <3>2
      <4> QED  BY <4>1, <1>4, <3>2
    <3> QED  BY <3>1, <3>2
  <2> QED  BY <2>1, <1>3
<1>6. Solves(Deriving(s))
  <2>1. \E g : Solves(g)  BY <1>5
  <2> QED  BY <2>1 DEF Deriving
<1> DEFINE E == Deriving(s)
<1> HIDE DEF E
<1>7. Solves(E)  BY <1>6 DEF E
<1>8. \A n \in Nat : \A c \in CallsOfWalks :
        E[n][c] = IF n = 0 THEN Truncate(c.w) ELSE DeriveStep(s, c, E[n - 1])
  BY <1>7
<1>9. \A n \in Nat : n + 1 - 1 = n /\ n + 1 \in Nat /\ n + 1 # 0  OBVIOUS
<1>10. \A n \in Nat : \A c \in CallsOfWalks : E[n + 1][c] = DeriveStep(s, c, E[n])
  BY <1>8, <1>9
<1>11. \A n \in Nat : E[n] \in Runs
  <2> DEFINE Good == {n \in Nat : E[n] \in Runs}
  <2>0. \A n \in Nat : E[n] = [c \in CallsOfWalks |-> IF n = 0 THEN Truncate(c.w)
                                              ELSE DeriveStep(s, c, E[n - 1])]
    BY <1>7
  <2>1. 0 \in Good  BY <2>0, <1>1 DEF first
  <2>2. \A n \in Nat : n \in Good => n + 1 \in Good
    <3> TAKE n \in Nat
    <3> HAVE n \in Good
    <3>1. E[n + 1] = [c \in CallsOfWalks |-> DeriveStep(s, c, E[n])]  BY <2>0, <1>9
    <3> QED  BY <3>1, DeriveStepType DEF Runs
  <2> HIDE DEF Good
  <2>3. \A n \in Nat : n \in Good  BY <2>1, <2>2, EveryNatural
  <2> QED  BY <2>3 DEF Good
<1> QED  BY <1>8, <1>10, <1>11 DEF E

-----------------------------------------------------------------------------
(***************************************************************************)
(* Claims, unfolded by one step.                                           *)
(***************************************************************************)
Live == FullSnapshot(NoIndex)

(* The snapshot of the whole store. *)
LEMMA LiveType ==
  /\ Live.rows = tuples /\ Live.types = DOMAIN config.rewrites /\ Snapshot(Live)
  /\ \A index : /\ FullSnapshot(index).rows = tuples
                /\ FullSnapshot(index).types = DOMAIN config.rewrites
                /\ FullSnapshot(index).index = index
                /\ Snapshot(FullSnapshot(index))
  /\ \A index, o, r : RewriteOf(FullSnapshot(index), o, r) = RewriteOf(Live, o, r)
BY DEF Live, FullSnapshot, Snapshot, RewriteOf

(* Known at zero and at a successor. *)
LEMMA KnownEquations ==
  /\ Known \in [Nat -> [Claims -> BOOLEAN]]
  /\ \A q \in Claims : ~Known[0][q]
  /\ \A n \in Nat : \A q \in Claims : Known[n + 1][q] <=> Establishes(q, Known[n])
<1> DEFINE Views == [Claims -> BOOLEAN]
           first == [q \in Claims |-> FALSE]
           step == [n \in Nat |-> [v \in Views |-> [q \in Claims |-> TRUE /\ Establishes(q, v)]]]
           Solves(f) == f = [n \in Nat |-> [q \in Claims |-> n > 0 /\ Establishes(q, f[n - 1])]]
<1>1. first \in Views  OBVIOUS
<1>2. step \in [Nat -> [Views -> Views]]  OBVIOUS
<1> HIDE DEF first, step, Views
<1>3. PICK f \in [Nat -> Views] :
        f[0] = first /\ \A n \in Nat : f[n + 1] = step[n][f[n]]
  <2>1. \A a \in Views, g \in [Nat -> [Views -> Views]] :
          \E f \in [Nat -> Views] :
             f[0] = a /\ \A n \in Nat : f[n + 1] = g[n][f[n]]
    BY Iteration
  <2> QED  BY <1>1, <1>2, <2>1
<1>4. \A n \in Nat : f[n + 1] = [q \in Claims |-> TRUE /\ Establishes(q, f[n])]
  BY <1>3 DEF step
<1>5. Solves(f)
  <2>1. ASSUME NEW n \in Nat
        PROVE  f[n] = [q \in Claims |-> n > 0 /\ Establishes(q, f[n - 1])]
    <3>1. CASE n = 0
      <4>1. f[n] = [q \in Claims |-> FALSE]  BY <3>1, <1>3 DEF first
      <4>2. ~(n > 0)  BY <3>1
      <4>3. \A q \in Claims : FALSE = (n > 0 /\ Establishes(q, f[n - 1]))  BY <4>2
      <4> QED  BY <4>1, <4>3
    <3>2. CASE n # 0
      <4>1. n - 1 \in Nat /\ n - 1 + 1 = n /\ n > 0  BY <3>2
      <4>2. f[n] = [q \in Claims |-> TRUE /\ Establishes(q, f[n - 1])]  BY <4>1, <1>4
      <4> QED  BY <4>1, <4>2
    <3> QED  BY <3>1, <3>2
  <2> QED  BY <2>1, <1>3
<1>6. Solves(Known)
  <2>1. \E g : Solves(g)  BY <1>5
  <2> QED  BY <2>1 DEF Known
<1>7. \A n \in Nat : Known[n] = [q \in Claims |-> n > 0 /\ Establishes(q, Known[n - 1])]
  BY <1>6
<1>8. ASSUME NEW n \in Nat PROVE Known[n] \in Views
  <2>1. Known[n] = [q \in Claims |-> n > 0 /\ Establishes(q, Known[n - 1])]  BY <1>7
  <2>2. \A q \in Claims : (n > 0 /\ Establishes(q, Known[n - 1])) \in BOOLEAN  OBVIOUS
  <2> QED  BY <2>1, <2>2 DEF Views
<1>9. Known = [n \in Nat |-> [q \in Claims |-> n > 0 /\ Establishes(q, Known[n - 1])]]
  BY <1>6
<1>10. Known = [n \in Nat |-> Known[n]]  BY <1>9, <1>7
<1>11. Known \in [Nat -> Views]  BY <1>8, <1>10
<1>12. ASSUME NEW q \in Claims PROVE ~Known[0][q]
  <2>1. Known[0] = [p \in Claims |-> 0 > 0 /\ Establishes(p, Known[0 - 1])]  BY <1>7
  <2>2. Known[0][q] = (0 > 0 /\ Establishes(q, Known[0 - 1]))  BY <2>1
  <2>3. ~(0 > 0)  OBVIOUS
  <2> QED  BY <2>2, <2>3
<1>13. ASSUME NEW n \in Nat, NEW q \in Claims
       PROVE  Known[n + 1][q] <=> Establishes(q, Known[n])
  <2>1. n + 1 \in Nat /\ n + 1 - 1 = n /\ n + 1 > 0  OBVIOUS
  <2>2. Known[n + 1] = [p \in Claims |-> n + 1 > 0 /\ Establishes(p, Known[n + 1 - 1])]
    BY <2>1, <1>7
  <2>3. Known[n + 1][q] = (n + 1 > 0 /\ Establishes(q, Known[n + 1 - 1]))  BY <2>2
  <2> QED  BY <2>1, <2>3
<1> QED  BY <1>11, <1>12, <1>13 DEF Views

(* The subjects that lead on from a node under a rewrite, and where to. *)
Leading(o, r, rw) ==
  {x \in Subjects : IF rw.kind = "this" THEN x.kind = "userset" /\ <<o, r, x>> \in tuples
                    ELSE x.kind = "subject" /\ <<o, rw.tupleset, x>> \in tuples}

NextRelation(rw, x) == IF rw.kind = "this" THEN x.relation ELSE rw.relation

(* What leads on from a node is a node. *)
LEMMA LeadingType ==
  ASSUME Stored, NEW o \in Objects, NEW r \in Relations, NEW rw \in HoppingRewrites,
         NEW x \in Leading(o, r, rw)
  PROVE  x.ref \in Objects /\ NextRelation(rw, x) \in Relations
<1> DEFINE c == AtRewrite(o, r, rw, 0, 0)
<1>1. c.rewrite = rw /\ Leads(Live, c, x) /\ x \in Subjects
  BY LiveType DEF AtRewrite, Leads, Leading
<1> QED  BY <1>1, LeadsType DEF NextRelation

(* A claim at a node is a claim. *)
LEMMA ClaimType ==
  ASSUME Stored
  PROVE  /\ \A o \in Objects, r \in Relations, rw \in Rewrites, h \in Nat, b \in BOOLEAN :
              /\ ByRewrite(o, r, rw, h, b) \in Claims
              /\ ByRewrite(o, r, rw, h, b).o = o /\ ByRewrite(o, r, rw, h, b).r = r
              /\ ByRewrite(o, r, rw, h, b).rewrite = rw
              /\ ByRewrite(o, r, rw, h, b).hops = h /\ ByRewrite(o, r, rw, h, b).holds = b
              /\ \A x : Part(ByRewrite(o, r, rw, h, b), x) = ByRewrite(o, r, x, h, b)
         /\ \A o \in Objects, r \in Relations, h \in Nat, b \in BOOLEAN :
              /\ Claim(o, r, h, b) \in Claims
              /\ RewriteOf(Live, o, r) \in Rewrites
              /\ Claim(o, r, h, b) = ByRewrite(o, r, RewriteOf(Live, o, r), h, b)
         /\ \A q \in Claims :
              q = ByRewrite(q.o, q.r, q.rewrite, q.hops, q.holds)
         /\ AnyLength \in Nat /\ MaxDepth <= AnyLength
<1>1. \A o \in Objects, r \in Relations, rw \in Rewrites, h \in Nat, b \in BOOLEAN :
              /\ ByRewrite(o, r, rw, h, b) \in Claims
              /\ ByRewrite(o, r, rw, h, b).o = o /\ ByRewrite(o, r, rw, h, b).r = r
              /\ ByRewrite(o, r, rw, h, b).rewrite = rw
              /\ ByRewrite(o, r, rw, h, b).hops = h /\ ByRewrite(o, r, rw, h, b).holds = b
              /\ \A x : Part(ByRewrite(o, r, rw, h, b), x) = ByRewrite(o, r, x, h, b)
  BY DEF ByRewrite, Claims, Part
<1>2. \A o \in Objects, r \in Relations : RewriteOf(Live, o, r) \in Rewrites
  BY RewriteOfType, LiveType DEF Snapshot
<1>3. \A q \in Claims : q = ByRewrite(q.o, q.r, q.rewrite, q.hops, q.holds)
  BY DEF Claims, ByRewrite
<1>4. Cardinality({<<t[1], t[2]>> : t \in config.universe}) \in Nat
  <2>1. IsFiniteSet(config.universe)  BY EvaluationAssumption DEF Stored, WellFormedConfig
  <2>2. IsFiniteSet({<<t[1], t[2]>> : t \in config.universe})
    <3> DEFINE g == [t \in config.universe |-> <<t[1], t[2]>>]
    <3>1. {<<t[1], t[2]>> : t \in config.universe} = {g[t] : t \in config.universe}
      OBVIOUS
    <3>2. g \in Surjection(config.universe, {<<t[1], t[2]>> : t \in config.universe})
      BY DEF Surjection
    <3> QED  BY <2>1, <3>2, FS_Surjection
  <2> QED  BY <2>2, FS_CardinalityType
<1>5. MaxDepth \in Nat  BY EvaluationAssumption
<1>6. AnyLength \in Nat /\ MaxDepth <= AnyLength  BY <1>4, <1>5 DEF AnyLength
<1>7. \A o \in Objects, r \in Relations, h \in Nat, b \in BOOLEAN :
        Claim(o, r, h, b) = ByRewrite(o, r, RewriteOf(Live, o, r), h, b)
  BY DEF Claim, Live
<1> QED  BY <1>1, <1>2, <1>3, <1>6, <1>7

-----------------------------------------------------------------------------
(***************************************************************************)
(* What each rewrite makes known.                                          *)
(***************************************************************************)
Holds(n, o, r, rw, h) == Known[n][ByRewrite(o, r, rw, h, TRUE)]
Fails(n, o, r, rw, h) == Known[n][ByRewrite(o, r, rw, h, FALSE)]

(* The same of a node. *)
NodeHolds(n, o, r, h) == Holds(n, o, r, RewriteOf(Live, o, r), h)
NodeFails(n, o, r, h) == Fails(n, o, r, RewriteOf(Live, o, r), h)

NextHolds(n, rw, x, h) == NodeHolds(n, x.ref, NextRelation(rw, x), h)
NextFails(n, rw, x, h) == NodeFails(n, x.ref, NextRelation(rw, x), h)

(* Follows, in terms of the nodes one hop on. *)
LEMMA FollowsMeans ==
  ASSUME Stored, NEW o \in Objects, NEW r \in Relations, NEW rw \in HoppingRewrites,
         NEW h \in Nat, NEW b \in BOOLEAN, NEW known
  PROVE  LET q == ByRewrite(o, r, rw, h, b)
             claim(x) == Claim(x.ref, NextRelation(rw, x), h - 1, b)
         IN Follows(q, known) <=>
              IF b THEN h > 0 /\ \E x \in Leading(o, r, rw) : known[claim(x)]
              ELSE h = 0 \/ \A x \in Leading(o, r, rw) : known[claim(x)]
<1> DEFINE q == ByRewrite(o, r, rw, h, b)
           next == {x \in {t[3] : t \in tuples} : Leads(Live, q, x)}
<1>1. rw \in Rewrites  BY DEF HoppingRewrites
<1>2. q.o = o /\ q.r = r /\ q.rewrite = rw /\ q.hops = h /\ q.holds = b
  BY <1>1, ClaimType
<1>3. next = Leading(o, r, rw)
  <2>1. ASSUME NEW x \in next PROVE x \in Leading(o, r, rw)
    <3>1. x \in Subjects  BY OrderType
    <3> QED  BY <3>1, <1>2, LiveType DEF Leads, Leading
  <2>2. ASSUME NEW x \in Leading(o, r, rw) PROVE x \in next
    <3>1. Leads(Live, q, x)  BY <1>2, LiveType DEF Leads, Leading
    <3>2. \E t \in tuples : x = t[3]
      <4>1. CASE rw.kind = "this"
        <5>1. <<o, r, x>> \in tuples  BY <4>1 DEF Leading
        <5> QED  BY <5>1
      <4>2. CASE rw.kind # "this"
        <5>1. <<o, rw.tupleset, x>> \in tuples  BY <4>2 DEF Leading
        <5> QED  BY <5>1
      <4> QED  BY <4>1, <4>2
    <3> QED  BY <3>1, <3>2
  <2> QED  BY <2>1, <2>2
<1> HIDE DEF next
<1>4. Follows(q, known) <=>
        IF q.holds THEN q.hops > 0 /\ \E x \in next :
             known[Claim(x.ref, NextRelation(q.rewrite, x), q.hops - 1, q.holds)]
        ELSE q.hops = 0 \/ \A x \in next :
             known[Claim(x.ref, NextRelation(q.rewrite, x), q.hops - 1, q.holds)]
  BY DEF Follows, next, Live, NextRelation
<1> HIDE DEF q
<1> QED  BY <1>2, <1>3, <1>4 DEF q

(* What is known of a relation by its tuples. *)
LEMMA ThisRules ==
  ASSUME Stored, NEW n \in Nat, NEW o \in Objects, NEW r \in Relations, NEW h \in Nat
  PROVE  /\ Holds(n + 1, o, r, This, h) <=>
              \/ <<o, r, Direct(Target)>> \in tuples
              \/ h > 0 /\ \E x \in Leading(o, r, This) : NextHolds(n, This, x, h - 1)
         /\ Fails(n + 1, o, r, This, h) <=>
              /\ <<o, r, Direct(Target)>> \notin tuples
              /\ h = 0 \/ \A x \in Leading(o, r, This) : NextFails(n, This, x, h - 1)
<1>1. This \in Rewrites /\ This \in HoppingRewrites /\ This.kind = "this"
  BY EvaluationAssumption DEF This, HoppingRewrites
<1>2. ASSUME NEW b \in BOOLEAN
      PROVE  Known[n + 1][ByRewrite(o, r, This, h, b)] <=>
               LET direct == <<o, r, Direct(Target)>> \in tuples
                   q == ByRewrite(o, r, This, h, b)
               IN IF b THEN direct \/ Follows(q, Known[n]) ELSE ~direct /\ Follows(q, Known[n])
  <2> DEFINE q == ByRewrite(o, r, This, h, b)
  <2>1. q \in Claims /\ q.o = o /\ q.r = r /\ q.rewrite = This /\ q.holds = b
    BY <1>1, ClaimType
  <2>2. Known[n + 1][q] <=> Establishes(q, Known[n])  BY <2>1, KnownEquations
  <2> HIDE DEF q
  <2>3. Establishes(q, Known[n]) <=>
          LET direct == <<q.o, q.r, Direct(Target)>> \in tuples
          IN IF q.holds THEN direct \/ Follows(q, Known[n]) ELSE ~direct /\ Follows(q, Known[n])
    BY <2>1, <1>1 DEF Establishes
  <2> QED  BY <2>1, <2>2, <2>3 DEF q
<1>3. ASSUME NEW x \in Leading(o, r, This), NEW b \in BOOLEAN, h > 0
      PROVE  Claim(x.ref, NextRelation(This, x), h - 1, b)
               = ByRewrite(x.ref, NextRelation(This, x),
                           RewriteOf(Live, x.ref, NextRelation(This, x)), h - 1, b)
  BY <1>1, <1>3, LeadingType, ClaimType
<1>4. Holds(n + 1, o, r, This, h) <=>
         \/ <<o, r, Direct(Target)>> \in tuples
         \/ h > 0 /\ \E x \in Leading(o, r, This) : NextHolds(n, This, x, h - 1)
  <2>1. Follows(ByRewrite(o, r, This, h, TRUE), Known[n]) <=>
          h > 0 /\ \E x \in Leading(o, r, This) :
                      Known[n][Claim(x.ref, NextRelation(This, x), h - 1, TRUE)]
    BY <1>1, FollowsMeans
  <2>2. Known[n + 1][ByRewrite(o, r, This, h, TRUE)] <=>
          \/ <<o, r, Direct(Target)>> \in tuples
          \/ Follows(ByRewrite(o, r, This, h, TRUE), Known[n])
    BY <1>2
  <2> QED  BY <2>1, <2>2, <1>3 DEF Holds, NextHolds, NodeHolds
<1>5. Fails(n + 1, o, r, This, h) <=>
         /\ <<o, r, Direct(Target)>> \notin tuples
         /\ h = 0 \/ \A x \in Leading(o, r, This) : NextFails(n, This, x, h - 1)
  <2>1. h # 0 <=> h > 0  OBVIOUS
  <2> QED  BY <2>1, <1>1, <1>2, <1>3, FollowsMeans DEF Fails, NextFails, NodeFails
<1> QED  BY <1>4, <1>5

(* What is known of a relation by the objects in a tupleset. *)
LEMMA TupleToRules ==
  ASSUME Stored, NEW n \in Nat, NEW o \in Objects, NEW r \in Relations, NEW h \in Nat,
         NEW rw \in Rewrites, rw.kind = "tupleToUserset"
  PROVE  /\ Holds(n + 1, o, r, rw, h) <=>
              h > 0 /\ \E x \in Leading(o, r, rw) : NextHolds(n, rw, x, h - 1)
         /\ Fails(n + 1, o, r, rw, h) <=>
              h = 0 \/ \A x \in Leading(o, r, rw) : NextFails(n, rw, x, h - 1)
<1>1. rw \in HoppingRewrites  BY DEF HoppingRewrites
<1>2. ASSUME NEW b \in BOOLEAN
      PROVE  Known[n + 1][ByRewrite(o, r, rw, h, b)] <=>
               Follows(ByRewrite(o, r, rw, h, b), Known[n])
  <2> DEFINE q == ByRewrite(o, r, rw, h, b)
  <2>1. q \in Claims /\ q.rewrite = rw  BY ClaimType
  <2>2. Known[n + 1][q] <=> Establishes(q, Known[n])  BY <2>1, KnownEquations
  <2> HIDE DEF q
  <2>3. Establishes(q, Known[n]) <=> Follows(q, Known[n])  BY <2>1 DEF Establishes
  <2> QED  BY <2>2, <2>3 DEF q
<1>3. ASSUME NEW x \in Leading(o, r, rw), NEW b \in BOOLEAN, h > 0
      PROVE  Claim(x.ref, NextRelation(rw, x), h - 1, b)
               = ByRewrite(x.ref, NextRelation(rw, x),
                           RewriteOf(Live, x.ref, NextRelation(rw, x)), h - 1, b)
  BY <1>1, <1>3, LeadingType, ClaimType
<1>4. Holds(n + 1, o, r, rw, h) <=>
         h > 0 /\ \E x \in Leading(o, r, rw) : NextHolds(n, rw, x, h - 1)
  <2>1. Follows(ByRewrite(o, r, rw, h, TRUE), Known[n]) <=>
          h > 0 /\ \E x \in Leading(o, r, rw) :
                      Known[n][Claim(x.ref, NextRelation(rw, x), h - 1, TRUE)]
    BY <1>1, FollowsMeans
  <2>2. Known[n + 1][ByRewrite(o, r, rw, h, TRUE)] <=>
          Follows(ByRewrite(o, r, rw, h, TRUE), Known[n])
    BY <1>2
  <2> QED  BY <2>1, <2>2, <1>3 DEF Holds, NextHolds, NodeHolds
<1>5. Fails(n + 1, o, r, rw, h) <=>
         h = 0 \/ \A x \in Leading(o, r, rw) : NextFails(n, rw, x, h - 1)
  <2>1. h # 0 <=> h > 0  OBVIOUS
  <2> QED  BY <2>1, <1>1, <1>2, <1>3, FollowsMeans DEF Fails, NextFails, NodeFails
<1> QED  BY <1>4, <1>5

(* What is known of an alias. *)
LEMMA ComputedRules ==
  ASSUME Stored, NEW n \in Nat, NEW o \in Objects, NEW r \in Relations, NEW h \in Nat,
         NEW rw \in Rewrites, rw.kind = "computedUserset"
  PROVE  /\ Holds(n + 1, o, r, rw, h) <=> NodeHolds(n, o, rw.relation, h)
         /\ Fails(n + 1, o, r, rw, h) <=> NodeFails(n, o, rw.relation, h)
<1>1. rw.relation \in Relations  BY RewriteCases
<1>2. ASSUME NEW b \in BOOLEAN
      PROVE  Known[n + 1][ByRewrite(o, r, rw, h, b)] <=>
               Known[n][ByRewrite(o, rw.relation, RewriteOf(Live, o, rw.relation), h, b)]
  <2> DEFINE q == ByRewrite(o, r, rw, h, b)
  <2>1. q \in Claims /\ q.o = o /\ q.rewrite = rw /\ q.hops = h /\ q.holds = b  BY ClaimType
  <2>2. Known[n + 1][q] <=> Establishes(q, Known[n])  BY <2>1, KnownEquations
  <2> HIDE DEF q
  <2>3. Establishes(q, Known[n]) <=> Known[n][Claim(q.o, q.rewrite.relation, q.hops, q.holds)]
    BY <2>1 DEF Establishes
  <2> QED  BY <1>1, <2>1, <2>2, <2>3, ClaimType DEF q
<1> QED  BY <1>2 DEF Holds, Fails, NodeHolds, NodeFails

Operands(rw) == ToSet(rw.children)

(* The members of a sequence. *)
LEMMA SetOfTail ==
  ASSUME NEW S, NEW s \in Seq(S), s # <<>>
  PROVE  ToSet(s) = {Head(s)} \cup ToSet(Tail(s)) /\ ToSet(s) \subseteq S
<1>1. /\ DOMAIN s = 1 .. Len(s) /\ Len(s) \in Nat /\ Len(s) > 0 /\ Head(s) = s[1]
      /\ Tail(s) \in Seq(S) /\ Len(Tail(s)) = Len(s) - 1
      /\ DOMAIN Tail(s) = 1 .. Len(Tail(s))
      /\ \A i \in 1 .. Len(Tail(s)) : Tail(s)[i] = s[i + 1]
  BY HeadTailProperties, LenProperties, EmptySeq
<1>2. ASSUME NEW x \in ToSet(s) PROVE x \in {Head(s)} \cup ToSet(Tail(s))
  <2>1. PICK i \in 1 .. Len(s) : x = s[i]  BY <1>1 DEF ToSet
  <2>2. CASE i = 1  BY <2>1, <2>2, <1>1
  <2>3. CASE i # 1
    <3>1. i - 1 \in 1 .. Len(Tail(s)) /\ Tail(s)[i - 1] = x  BY <2>1, <2>3, <1>1
    <3> QED  BY <3>1, <1>1 DEF ToSet
  <2> QED  BY <2>2, <2>3
<1>3. ASSUME NEW x \in {Head(s)} \cup ToSet(Tail(s)) PROVE x \in ToSet(s)
  <2>1. CASE x = Head(s)  BY <2>1, <1>1 DEF ToSet
  <2>2. CASE x \in ToSet(Tail(s))
    <3>1. PICK i \in 1 .. Len(Tail(s)) : x = Tail(s)[i]  BY <2>2, <1>1 DEF ToSet
    <3>2. i + 1 \in 1 .. Len(s) /\ s[i + 1] = x  BY <3>1, <1>1
    <3> QED  BY <3>2, <1>1 DEF ToSet
  <2> QED  BY <2>1, <2>2
<1> QED  BY <1>1, <1>2, <1>3 DEF ToSet

(* The operands of a rewrite are rewrites. *)
LEMMA OperandsType ==
  ASSUME NEW rw \in Rewrites, rw.kind \in {"union", "intersection"}
  PROVE  /\ Operands(rw) \subseteq Rewrites
         /\ rw.children = <<>> => Operands(rw) = {}
         /\ rw.children # <<>> =>
              LET rest == [rw EXCEPT !.children = Tail(@)]
              IN /\ rest \in Rewrites /\ rest.kind = rw.kind
                 /\ rest.children = Tail(rw.children)
                 /\ Head(rw.children) \in Rewrites
                 /\ Operands(rw) = {Head(rw.children)} \cup Operands(rest)
<1>1. /\ rw = [kind |-> rw.kind, children |-> rw.children]
      /\ rw.children \in Seq(Rewrites)
      /\ rw.children # <<>> => /\ [rw EXCEPT !.children = Tail(@)] \in Rewrites
                               /\ Head(rw.children) \in Rewrites
  BY RewriteCases
<1>2. Operands(rw) \subseteq Rewrites  BY <1>1 DEF Operands, ToSet
<1>3. rw.children = <<>> => Operands(rw) = {}  BY DEF Operands, ToSet
<1>4. ASSUME rw.children # <<>>
      PROVE  LET rest == [rw EXCEPT !.children = Tail(@)]
             IN /\ rest \in Rewrites /\ rest.kind = rw.kind
                /\ rest.children = Tail(rw.children)
                /\ Head(rw.children) \in Rewrites
                /\ Operands(rw) = {Head(rw.children)} \cup Operands(rest)
  <2> DEFINE rest == [rw EXCEPT !.children = Tail(@)]
             s == rw.children
  <2>1. rest.kind = rw.kind /\ rest.children = Tail(s)  BY <1>1
  <2>2. ToSet(s) = {Head(s)} \cup ToSet(Tail(s))
    <3> HIDE DEF s
    <3>1. s \in Seq(Rewrites) /\ s # <<>>  BY <1>1, <1>4 DEF s
    <3> QED  BY <3>1, SetOfTail
  <2> QED  BY <1>1, <1>4, <2>1, <2>2 DEF Operands
<1> QED  BY <1>2, <1>3, <1>4

(* What is known of a union. *)
LEMMA UnionRules ==
  ASSUME Stored, NEW n \in Nat, NEW o \in Objects, NEW r \in Relations, NEW h \in Nat,
         NEW rw \in Rewrites, rw.kind = "union"
  PROVE  /\ Holds(n + 1, o, r, rw, h) <=> \E x \in Operands(rw) : Holds(n, o, r, x, h)
         /\ Fails(n + 1, o, r, rw, h) <=> \A x \in Operands(rw) : Fails(n, o, r, x, h)
<1>1. ASSUME NEW b \in BOOLEAN
      PROVE  Known[n + 1][ByRewrite(o, r, rw, h, b)] <=>
               IF b THEN \E x \in Operands(rw) : Known[n][ByRewrite(o, r, x, h, b)]
               ELSE \A x \in Operands(rw) : Known[n][ByRewrite(o, r, x, h, b)]
  <2> DEFINE q == ByRewrite(o, r, rw, h, b)
  <2>1. /\ q \in Claims /\ q.rewrite = rw /\ q.holds = b
        /\ \A x : Part(q, x) = ByRewrite(o, r, x, h, b)
    BY DEF ByRewrite, Claims, Part
  <2>2. Known[n + 1][q] <=> Establishes(q, Known[n])  BY <2>1, KnownEquations
  <2> HIDE DEF q
  <2>3. Establishes(q, Known[n]) <=>
          IF q.holds THEN \E x \in Operands(q.rewrite) : Known[n][Part(q, x)]
          ELSE \A x \in Operands(q.rewrite) : Known[n][Part(q, x)]
    BY <2>1 DEF Establishes, Operands
  <2> QED  BY <2>1, <2>2, <2>3 DEF q
<1> QED  BY <1>1 DEF Holds, Fails

(* What is known of an intersection. *)
LEMMA IntersectionRules ==
  ASSUME Stored, NEW n \in Nat, NEW o \in Objects, NEW r \in Relations, NEW h \in Nat,
         NEW rw \in Rewrites, rw.kind = "intersection"
  PROVE  /\ Holds(n + 1, o, r, rw, h) <=> \A x \in Operands(rw) : Holds(n, o, r, x, h)
         /\ Fails(n + 1, o, r, rw, h) <=> \E x \in Operands(rw) : Fails(n, o, r, x, h)
<1>1. ASSUME NEW b \in BOOLEAN
      PROVE  Known[n + 1][ByRewrite(o, r, rw, h, b)] <=>
               IF b THEN \A x \in Operands(rw) : Known[n][ByRewrite(o, r, x, h, b)]
               ELSE \E x \in Operands(rw) : Known[n][ByRewrite(o, r, x, h, b)]
  <2> DEFINE q == ByRewrite(o, r, rw, h, b)
  <2>1. /\ q \in Claims /\ q.rewrite = rw /\ q.holds = b
        /\ \A x : Part(q, x) = ByRewrite(o, r, x, h, b)
    BY DEF ByRewrite, Claims, Part
  <2>2. Known[n + 1][q] <=> Establishes(q, Known[n])  BY <2>1, KnownEquations
  <2> HIDE DEF q
  <2>3. Establishes(q, Known[n]) <=>
          IF q.holds THEN \A x \in Operands(q.rewrite) : Known[n][Part(q, x)]
          ELSE \E x \in Operands(q.rewrite) : Known[n][Part(q, x)]
    BY <2>1 DEF Establishes, Operands
  <2> QED  BY <2>1, <2>2, <2>3 DEF q
<1> QED  BY <1>1 DEF Holds, Fails

(* What is known of an exclusion. *)
LEMMA ExclusionRules ==
  ASSUME Stored, NEW n \in Nat, NEW o \in Objects, NEW r \in Relations, NEW h \in Nat,
         NEW rw \in Rewrites, rw.kind = "exclusion"
  PROVE  /\ Holds(n + 1, o, r, rw, h) <=>
              Holds(n, o, r, rw.base, h) /\ Fails(n, o, r, rw.subtract, AnyLength)
         /\ Fails(n + 1, o, r, rw, h) <=>
              Fails(n, o, r, rw.base, h) \/ Holds(n, o, r, rw.subtract, AnyLength)
<1>1. ASSUME NEW b \in BOOLEAN
      PROVE  Known[n + 1][ByRewrite(o, r, rw, h, b)] <=>
               LET base == Known[n][ByRewrite(o, r, rw.base, h, b)]
                   subtract == Known[n][ByRewrite(o, r, rw.subtract, AnyLength, ~b)]
               IN IF b THEN base /\ subtract ELSE base \/ subtract
  <2> DEFINE q == ByRewrite(o, r, rw, h, b)
  <2>1. /\ q \in Claims /\ q.rewrite = rw /\ q.holds = b /\ q.o = o /\ q.r = r
        /\ \A x : Part(q, x) = ByRewrite(o, r, x, h, b)
    BY ClaimType
  <2>2. Known[n + 1][q] <=> Establishes(q, Known[n])  BY <2>1, KnownEquations
  <2> HIDE DEF q
  <2>3. Establishes(q, Known[n]) <=>
          LET base == Known[n][Part(q, q.rewrite.base)]
              subtract == Known[n][ByRewrite(q.o, q.r, q.rewrite.subtract, AnyLength, ~q.holds)]
          IN IF q.holds THEN base /\ subtract ELSE base \/ subtract
    BY <2>1 DEF Establishes
  <2> QED  BY <2>1, <2>2, <2>3 DEF q
<1>2. (~TRUE) = FALSE /\ (~FALSE) = TRUE  OBVIOUS
<1> QED  BY <1>1, <1>2 DEF Holds, Fails

-----------------------------------------------------------------------------
(***************************************************************************)
(* Claims are monotonic and consistent.                                    *)
(***************************************************************************)
(* Nothing is known without a step of reasoning. *)
LEMMA NothingAtFirst ==
  ASSUME Stored, NEW o \in Objects, NEW r \in Relations, NEW rw \in Rewrites, NEW h \in Nat
  PROVE  ~Holds(0, o, r, rw, h) /\ ~Fails(0, o, r, rw, h)
<1>1. ByRewrite(o, r, rw, h, TRUE) \in Claims /\ ByRewrite(o, r, rw, h, FALSE) \in Claims
  BY DEF ByRewrite, Claims
<1> QED  BY <1>1, KnownEquations DEF Holds, Fails

(* The six kinds of rewrites. *)
LEMMA KindsOfRewrites ==
  ASSUME NEW rw \in Rewrites
  PROVE  \/ rw = This
         \/ rw.kind = "computedUserset" \/ rw.kind = "tupleToUserset"
         \/ rw.kind = "union" \/ rw.kind = "intersection" \/ rw.kind = "exclusion"
BY RewriteCases

(* What is known stays known. *)
LEMMA KnownGrowsByOne ==
  ASSUME Stored
  PROVE  \A n \in Nat : \A o \in Objects, r \in Relations, rw \in Rewrites, h \in Nat :
           /\ Holds(n, o, r, rw, h) => Holds(n + 1, o, r, rw, h)
           /\ Fails(n, o, r, rw, h) => Fails(n + 1, o, r, rw, h)
<1> DEFINE Grows == {n \in Nat : \A o \in Objects, r \in Relations, rw \in Rewrites, h \in Nat :
                       /\ Holds(n, o, r, rw, h) => Holds(n + 1, o, r, rw, h)
                       /\ Fails(n, o, r, rw, h) => Fails(n + 1, o, r, rw, h)}
<1>1. 0 \in Grows  BY NothingAtFirst
<1>2. ASSUME NEW n \in Nat, n \in Grows PROVE n + 1 \in Grows
  <2>1. SUFFICES ASSUME NEW o \in Objects, NEW r \in Relations, NEW rw \in Rewrites, NEW h \in Nat
        PROVE  /\ Holds(n + 1, o, r, rw, h) => Holds(n + 1 + 1, o, r, rw, h)
               /\ Fails(n + 1, o, r, rw, h) => Fails(n + 1 + 1, o, r, rw, h)
    OBVIOUS
  <2>2. \A a \in Objects, b \in Relations, x \in Rewrites, k \in Nat :
          /\ Holds(n, a, b, x, k) => Holds(n + 1, a, b, x, k)
          /\ Fails(n, a, b, x, k) => Fails(n + 1, a, b, x, k)
    BY <1>2
  <2>3. \A a \in Objects, b \in Relations, k \in Nat :
          /\ NodeHolds(n, a, b, k) => NodeHolds(n + 1, a, b, k)
          /\ NodeFails(n, a, b, k) => NodeFails(n + 1, a, b, k)
    BY <2>2, ClaimType DEF NodeHolds, NodeFails
  <2>4. ASSUME rw \in HoppingRewrites, NEW x \in Leading(o, r, rw), NEW k \in Nat
        PROVE  /\ NextHolds(n, rw, x, k) => NextHolds(n + 1, rw, x, k)
               /\ NextFails(n, rw, x, k) => NextFails(n + 1, rw, x, k)
    BY <2>3, <2>4, LeadingType DEF NextHolds, NextFails
  <2>5. n + 1 \in Nat /\ h # 0 => h - 1 \in Nat  OBVIOUS
  <2>6. CASE rw = This
    <3>1. This \in HoppingRewrites  BY <2>6 DEF HoppingRewrites, This
    <3>2. n + 1 \in Nat  OBVIOUS
    <3>3. Holds(n + 1, o, r, This, h) => Holds(n + 1 + 1, o, r, This, h)
      <4> SUFFICES ASSUME Holds(n + 1, o, r, This, h) PROVE Holds(n + 1 + 1, o, r, This, h)
        OBVIOUS
      <4>1. \/ <<o, r, Direct(Target)>> \in tuples
            \/ h > 0 /\ \E x \in Leading(o, r, This) : NextHolds(n, This, x, h - 1)
        BY ThisRules
      <4>2. \A x \in Leading(o, r, This) :
              h > 0 /\ NextHolds(n, This, x, h - 1) => NextHolds(n + 1, This, x, h - 1)
        BY <3>1, <2>4, <2>5, <2>6
      <4> QED  BY <3>2, <4>1, <4>2, ThisRules
    <3>4. Fails(n + 1, o, r, This, h) => Fails(n + 1 + 1, o, r, This, h)
      BY <3>1, <3>2, <2>4, <2>5, <2>6, ThisRules
    <3> QED  BY <3>3, <3>4, <2>6
  <2>7. CASE rw.kind = "tupleToUserset"
    <3>1. rw \in HoppingRewrites  BY <2>7 DEF HoppingRewrites
    <3> QED  BY <3>1, <2>4, <2>5, <2>7, TupleToRules
  <2>8. CASE rw.kind = "computedUserset"
    <3>1. rw.relation \in Relations  BY <2>8, RewriteCases
    <3> QED  BY <3>1, <2>3, <2>8, ComputedRules
  <2>9. CASE rw.kind = "union"
    <3>1. Operands(rw) \subseteq Rewrites  BY <2>9, OperandsType
    <3>2. n + 1 \in Nat  OBVIOUS
    <3>3. Holds(n + 1, o, r, rw, h) => Holds(n + 1 + 1, o, r, rw, h)
      BY <3>1, <3>2, <2>2, <2>9, UnionRules
    <3>4. Fails(n + 1, o, r, rw, h) => Fails(n + 1 + 1, o, r, rw, h)
      BY <3>1, <3>2, <2>2, <2>9, UnionRules
    <3> QED  BY <3>3, <3>4
  <2>10. CASE rw.kind = "intersection"
    <3>1. Operands(rw) \subseteq Rewrites  BY <2>10, OperandsType
    <3>2. n + 1 \in Nat  OBVIOUS
    <3>3. Holds(n + 1, o, r, rw, h) => Holds(n + 1 + 1, o, r, rw, h)
      BY <3>1, <3>2, <2>2, <2>10, IntersectionRules
    <3>4. Fails(n + 1, o, r, rw, h) => Fails(n + 1 + 1, o, r, rw, h)
      BY <3>1, <3>2, <2>2, <2>10, IntersectionRules
    <3> QED  BY <3>3, <3>4
  <2>11. CASE rw.kind = "exclusion"
    <3>1. rw.base \in Rewrites /\ rw.subtract \in Rewrites  BY <2>11, RewriteCases
    <3> QED  BY <3>1, <2>2, <2>11, ExclusionRules, ClaimType
  <2> QED  BY <2>6, <2>7, <2>8, <2>9, <2>10, <2>11, KindsOfRewrites
<1> HIDE DEF Grows
<1>3. \A n \in Nat : n \in Grows  BY <1>1, <1>2, EveryNatural
<1> QED  BY <1>3 DEF Grows

(* What is known stays known, however many steps follow. *)
LEMMA KnownGrows ==
  ASSUME Stored, NEW n \in Nat, NEW m \in Nat, n <= m,
         NEW o \in Objects, NEW r \in Relations, NEW rw \in Rewrites, NEW h \in Nat
  PROVE  /\ Holds(n, o, r, rw, h) => Holds(m, o, r, rw, h)
         /\ Fails(n, o, r, rw, h) => Fails(m, o, r, rw, h)
<1> DEFINE Later == {k \in Nat : /\ Holds(n, o, r, rw, h) => Holds(n + k, o, r, rw, h)
                                 /\ Fails(n, o, r, rw, h) => Fails(n + k, o, r, rw, h)}
<1>1. 0 \in Later  BY n + 0 = n
<1>2. ASSUME NEW k \in Nat, k \in Later PROVE k + 1 \in Later
  <2>1. n + k \in Nat /\ n + (k + 1) = n + k + 1  OBVIOUS
  <2> QED  BY <2>1, <1>2, KnownGrowsByOne
<1> HIDE DEF Later
<1>3. \A k \in Nat : k \in Later  BY <1>1, <1>2, EveryNatural
<1>4. m - n \in Nat /\ n + (m - n) = m  OBVIOUS
<1> QED  BY <1>3, <1>4 DEF Later

(* More hops prove no less, and refute no more. *)
LEMMA MoreHops ==
  ASSUME Stored
  PROVE  \A n \in Nat : \A o \in Objects, r \in Relations, rw \in Rewrites, h \in Nat, k \in Nat :
           h <= k => /\ Holds(n, o, r, rw, h) => Holds(n, o, r, rw, k)
                     /\ Fails(n, o, r, rw, k) => Fails(n, o, r, rw, h)
<1> DEFINE Good == {n \in Nat :
          \A o \in Objects, r \in Relations, rw \in Rewrites, h \in Nat, k \in Nat :
           h <= k => /\ Holds(n, o, r, rw, h) => Holds(n, o, r, rw, k)
                     /\ Fails(n, o, r, rw, k) => Fails(n, o, r, rw, h)}
<1>1. 0 \in Good  BY NothingAtFirst
<1>2. ASSUME NEW n \in Nat, n \in Good PROVE n + 1 \in Good
  <2>1. SUFFICES ASSUME NEW o \in Objects, NEW r \in Relations, NEW rw \in Rewrites,
                        NEW h \in Nat, NEW k \in Nat, h <= k
        PROVE  /\ Holds(n + 1, o, r, rw, h) => Holds(n + 1, o, r, rw, k)
               /\ Fails(n + 1, o, r, rw, k) => Fails(n + 1, o, r, rw, h)
    OBVIOUS
  <2>2. \A x \in Rewrites : /\ Holds(n, o, r, x, h) => Holds(n, o, r, x, k)
                            /\ Fails(n, o, r, x, k) => Fails(n, o, r, x, h)
    BY <1>2, <2>1
  <2>3. \A a \in Objects, b \in Relations, i \in Nat, j \in Nat :
          i <= j => /\ NodeHolds(n, a, b, i) => NodeHolds(n, a, b, j)
                    /\ NodeFails(n, a, b, j) => NodeFails(n, a, b, i)
    BY <1>2, ClaimType DEF NodeHolds, NodeFails
  <2>4. ASSUME rw \in HoppingRewrites, NEW x \in Leading(o, r, rw), h > 0
        PROVE  /\ NextHolds(n, rw, x, h - 1) => NextHolds(n, rw, x, k - 1)
               /\ NextFails(n, rw, x, k - 1) => NextFails(n, rw, x, h - 1)
    <3>1. h - 1 \in Nat /\ k - 1 \in Nat /\ h - 1 <= k - 1  BY <2>1, <2>4
    <3> QED  BY <3>1, <2>3, <2>4, LeadingType DEF NextHolds, NextFails
  <2>5. (h # 0 <=> h > 0) /\ (h > 0 => k > 0)  BY <2>1
  <2>6. CASE rw = This
    <3>1. This \in HoppingRewrites  BY <2>6 DEF HoppingRewrites, This
    <3>2. Holds(n + 1, o, r, This, h) => Holds(n + 1, o, r, This, k)
      BY <3>1, <2>4, <2>5, <2>6, ThisRules
    <3>3. Fails(n + 1, o, r, This, k) => Fails(n + 1, o, r, This, h)
      <4> SUFFICES ASSUME Fails(n + 1, o, r, This, k) PROVE Fails(n + 1, o, r, This, h)
        OBVIOUS
      <4>1. /\ <<o, r, Direct(Target)>> \notin tuples
            /\ k = 0 \/ \A x \in Leading(o, r, This) : NextFails(n, This, x, k - 1)
        BY ThisRules
      <4>2. \A x \in Leading(o, r, This) :
              h > 0 /\ NextFails(n, This, x, k - 1) => NextFails(n, This, x, h - 1)
        BY <3>1, <2>4, <2>6
      <4> QED  BY <4>1, <4>2, <2>5, ThisRules
    <3> QED  BY <3>2, <3>3, <2>6
  <2>7. CASE rw.kind = "tupleToUserset"
    <3>1. rw \in HoppingRewrites  BY <2>7 DEF HoppingRewrites
    <3> QED  BY <3>1, <2>4, <2>5, <2>7, TupleToRules
  <2>8. CASE rw.kind = "computedUserset"
    <3>1. rw.relation \in Relations  BY <2>8, RewriteCases
    <3> QED  BY <3>1, <2>1, <2>3, <2>8, ComputedRules
  <2>9. CASE rw.kind = "union"
    <3>1. Operands(rw) \subseteq Rewrites  BY <2>9, OperandsType
    <3> QED  BY <3>1, <2>2, <2>9, UnionRules
  <2>10. CASE rw.kind = "intersection"
    <3>1. Operands(rw) \subseteq Rewrites  BY <2>10, OperandsType
    <3> QED  BY <3>1, <2>2, <2>10, IntersectionRules
  <2>11. CASE rw.kind = "exclusion"
    <3>1. rw.base \in Rewrites /\ rw.subtract \in Rewrites  BY <2>11, RewriteCases
    <3> QED  BY <3>1, <2>2, <2>11, ExclusionRules
  <2> QED  BY <2>6, <2>7, <2>8, <2>9, <2>10, <2>11, KindsOfRewrites
<1> HIDE DEF Good
<1>3. \A n \in Nat : n \in Good  BY <1>1, <1>2, EveryNatural
<1> QED  BY <1>3 DEF Good

(* A claim and its opposite are never both known. *)
LEMMA Consistent ==
  ASSUME Stored
  PROVE  \A n \in Nat : \A o \in Objects, r \in Relations, rw \in Rewrites, h \in Nat, k \in Nat :
           h <= k => ~(Holds(n, o, r, rw, h) /\ Fails(n, o, r, rw, k))
<1> DEFINE Good == {n \in Nat :
          \A o \in Objects, r \in Relations, rw \in Rewrites, h \in Nat, k \in Nat :
           h <= k => ~(Holds(n, o, r, rw, h) /\ Fails(n, o, r, rw, k))}
<1>1. 0 \in Good  BY NothingAtFirst
<1>2. ASSUME NEW n \in Nat, n \in Good PROVE n + 1 \in Good
  <2>1. SUFFICES ASSUME NEW o \in Objects, NEW r \in Relations, NEW rw \in Rewrites,
                        NEW h \in Nat, NEW k \in Nat, h <= k,
                        Holds(n + 1, o, r, rw, h), Fails(n + 1, o, r, rw, k)
        PROVE  FALSE
    OBVIOUS
  <2>2. \A x \in Rewrites, i \in Nat, j \in Nat :
          i <= j => ~(Holds(n, o, r, x, i) /\ Fails(n, o, r, x, j))
    BY <1>2, <2>1
  <2>3. \A a \in Objects, b \in Relations, i \in Nat, j \in Nat :
          i <= j => ~(NodeHolds(n, a, b, i) /\ NodeFails(n, a, b, j))
    BY <1>2, ClaimType DEF NodeHolds, NodeFails
  <2>4. ASSUME rw \in HoppingRewrites, NEW x \in Leading(o, r, rw), h > 0
        PROVE  ~(NextHolds(n, rw, x, h - 1) /\ NextFails(n, rw, x, k - 1))
    <3>1. h - 1 \in Nat /\ k - 1 \in Nat /\ h - 1 <= k - 1  BY <2>1, <2>4
    <3> QED  BY <3>1, <2>3, <2>4, LeadingType DEF NextHolds, NextFails
  <2>5. (h # 0 <=> h > 0) /\ (h > 0 => k > 0) /\ (k > 0 => k # 0)  BY <2>1
  <2>6. CASE rw = This
    <3>1. This \in HoppingRewrites  BY <2>6 DEF HoppingRewrites, This
    <3> QED  BY <3>1, <2>1, <2>4, <2>5, <2>6, ThisRules
  <2>7. CASE rw.kind = "tupleToUserset"
    <3>1. rw \in HoppingRewrites  BY <2>7 DEF HoppingRewrites
    <3> QED  BY <3>1, <2>1, <2>4, <2>5, <2>7, TupleToRules
  <2>8. CASE rw.kind = "computedUserset"
    <3>1. rw.relation \in Relations  BY <2>8, RewriteCases
    <3> QED  BY <3>1, <2>1, <2>3, <2>8, ComputedRules
  <2>9. CASE rw.kind = "union"
    <3>1. Operands(rw) \subseteq Rewrites  BY <2>9, OperandsType
    <3> QED  BY <3>1, <2>1, <2>2, <2>9, UnionRules
  <2>10. CASE rw.kind = "intersection"
    <3>1. Operands(rw) \subseteq Rewrites  BY <2>10, OperandsType
    <3> QED  BY <3>1, <2>1, <2>2, <2>10, IntersectionRules
  <2>11. CASE rw.kind = "exclusion"
    <3>1. rw.base \in Rewrites /\ rw.subtract \in Rewrites  BY <2>11, RewriteCases
    <3>2. AnyLength \in Nat /\ AnyLength <= AnyLength  BY ClaimType
    <3> QED  BY <3>1, <3>2, <2>1, <2>2, <2>11, ExclusionRules
  <2> QED  BY <2>6, <2>7, <2>8, <2>9, <2>10, <2>11, KindsOfRewrites
<1> HIDE DEF Good
<1>3. \A n \in Nat : n \in Good  BY <1>1, <1>2, EveryNatural
<1> QED  BY <1>3 DEF Good

(* The same, known after different numbers of steps. *)
LEMMA NeverBoth ==
  ASSUME Stored, NEW n \in Nat, NEW m \in Nat, NEW o \in Objects, NEW r \in Relations,
         NEW rw \in Rewrites, NEW h \in Nat, NEW k \in Nat, h <= k,
         Holds(n, o, r, rw, h), Fails(m, o, r, rw, k)
  PROVE  FALSE
<1>1. n <= n + m /\ m <= n + m /\ n + m \in Nat  OBVIOUS
<1>2. Holds(n + m, o, r, rw, h) /\ Fails(n + m, o, r, rw, k)  BY <1>1, KnownGrows
<1> QED  BY <1>1, <1>2, Consistent

-----------------------------------------------------------------------------
(***************************************************************************)
(* derive at each kind of call.                                            *)
(***************************************************************************)
(* The rest of a rewrite's operands. *)
Rest(rw) == [rw EXCEPT !.children = Tail(@)]

LeadsFrom(s, o, r, rw, x) ==
  IF rw.kind = "this" THEN x.kind = "userset" /\ <<o, r, x>> \in s.rows
  ELSE x.kind = "subject" /\ <<o, rw.tupleset, x>> \in s.rows

Visit(w, o, r) == [w EXCEPT !.visited = @ \cup {<<o, r>>}]

(* derive at a node, in terms of the nested call. *)
LEMMA DeriveAtNode ==
  ASSUME Stored, NEW s, Snapshot(s), NEW n \in Nat,
         NEW o \in Objects, NEW r \in Relations, NEW d \in Nat, NEW w \in Walks
  PROVE  Deriving(s)[n + 1][AtNode(o, r, d, w)] =
           IF d > MaxDepth THEN Truncate(w)
           ELSE IF <<o, r>> \in w.visited THEN w
           ELSE Deriving(s)[n][AtRewrite(o, r, RewriteOf(s, o, r), d, Visit(w, o, r))]
<1> DEFINE c == AtNode(o, r, d, w)
<1>1. c \in CallsOfWalks /\ c.at = "node" /\ c.o = o /\ c.r = r /\ c.depth = d /\ c.w = w
  BY NodeCall DEF CallsOfWalks, AtNode
<1>2. Deriving(s)[n + 1][c] = DeriveStep(s, c, Deriving(s)[n])  BY <1>1, DerivingEquations
<1> HIDE DEF c
<1>3. DeriveStep(s, c, Deriving(s)[n]) = DeriveNode(s, c, Deriving(s)[n])
  BY <1>1 DEF DeriveStep
<1> QED  BY <1>1, <1>2, <1>3 DEF DeriveNode, Visit, c

(* The loop over subjects, in terms of the nested calls. *)
LEMMA DeriveAtHops ==
  ASSUME Stored, NEW s, Snapshot(s), NEW n \in Nat,
         NEW o \in Objects, NEW r \in Relations, NEW rw \in HoppingRewrites,
         NEW rest \in Seq(Subjects), NEW d \in Nat, NEW w \in Walks
  PROVE  Deriving(s)[n + 1][AtHops(o, r, rw, rest, d, w)] =
           IF rest = <<>> THEN w
           ELSE LET x == Head(rest)
                    indexed == rw.kind = "this" /\ IndexGrants(s, x.ref, x.relation, d + 1)
                    sub == IF ~LeadsFrom(s, o, r, rw, x) THEN w
                           ELSE IF indexed THEN Grant(w)
                           ELSE Deriving(s)[n][AtNode(x.ref, NextRelation(rw, x), d + 1, w)]
                IN IF sub.grant THEN sub
                   ELSE Deriving(s)[n][AtHops(o, r, rw, Tail(rest), d, sub)]
<1> DEFINE c == AtHops(o, r, rw, rest, d, w)
<1>1. /\ c \in CallsOfWalks /\ c.at = "hops" /\ c.o = o /\ c.r = r /\ c.rewrite = rw
      /\ c.rest = rest /\ c.depth = d /\ c.w = w
  BY HopsCall DEF CallsOfWalks, AtHops
<1>2. Deriving(s)[n + 1][c] = DeriveStep(s, c, Deriving(s)[n])  BY <1>1, DerivingEquations
<1> HIDE DEF c
<1>3. DeriveStep(s, c, Deriving(s)[n]) = DeriveHops(s, c, Deriving(s)[n])
  BY <1>1 DEF DeriveStep
<1>4. \A x : Leads(s, c, x) = LeadsFrom(s, o, r, rw, x)  BY <1>1 DEF Leads, LeadsFrom
<1>5. \A x, v : Hop(c, x, v) = AtNode(x.ref, NextRelation(rw, x), d + 1, v)
  BY <1>1 DEF Hop, NextRelation
<1>6. \A v : NextHop(c, v) = AtHops(o, r, rw, Tail(rest), d, v)  BY <1>1 DEF NextHop
<1> QED  BY <1>1, <1>2, <1>3, <1>4, <1>5, <1>6 DEF DeriveHops, c

(* A call at a rewrite is a call of derive. *)
LEMMA DeriveAtRewrite ==
  ASSUME Stored, NEW s, Snapshot(s), NEW n \in Nat,
         NEW o \in Objects, NEW r \in Relations, NEW rw \in Rewrites, NEW d \in Nat, NEW w \in Walks,
         NEW c, c = AtRewrite(o, r, rw, d, w)
  PROVE  /\ Deriving(s)[n + 1][c] = DeriveRewrite(s, c, Deriving(s)[n])
         /\ c.o = o /\ c.r = r /\ c.rewrite = rw /\ c.depth = d /\ c.w = w
         /\ \A v : /\ Loop(c, v) = AtHops(o, r, rw, config.order, d, v)
                   /\ First(c, v) = AtRewrite(o, r, Head(rw.children), d, v)
                   /\ Others(c, v) = AtRewrite(o, r, Rest(rw), d, v)
<1>1. /\ c \in CallsOfWalks /\ c.at = "rewrite" /\ c.o = o /\ c.r = r /\ c.rewrite = rw
      /\ c.depth = d /\ c.w = w
  BY RewriteCall DEF CallsOfWalks, AtRewrite
<1>2. Deriving(s)[n + 1][c] = DeriveStep(s, c, Deriving(s)[n])  BY <1>1, DerivingEquations
<1>3. DeriveStep(s, c, Deriving(s)[n]) = DeriveRewrite(s, c, Deriving(s)[n])
  BY <1>1 DEF DeriveStep
<1>4. \A v : /\ Loop(c, v) = AtHops(o, r, rw, config.order, d, v)
             /\ First(c, v) = AtRewrite(o, r, Head(rw.children), d, v)
             /\ Others(c, v) = AtRewrite(o, r, Rest(rw), d, v)
  BY <1>1 DEF Loop, First, Others, Rest
<1> QED  BY <1>1, <1>2, <1>3, <1>4

(* derive at `this'. *)
LEMMA DeriveAtThis ==
  ASSUME Stored, NEW s, Snapshot(s), NEW n \in Nat,
         NEW o \in Objects, NEW r \in Relations, NEW rw \in Rewrites, rw.kind = "this",
         NEW d \in Nat, NEW w \in Walks
  PROVE  Deriving(s)[n + 1][AtRewrite(o, r, rw, d, w)] =
           IF <<o, r, Direct(Target)>> \in s.rows THEN Grant(w)
           ELSE Deriving(s)[n][AtHops(o, r, rw, config.order, d, w)]
<1> DEFINE c == AtRewrite(o, r, rw, d, w)
<1>1. c = AtRewrite(o, r, rw, d, w)  OBVIOUS
<1> HIDE DEF c
<1>2. /\ Deriving(s)[n + 1][c] = DeriveRewrite(s, c, Deriving(s)[n])
      /\ c.o = o /\ c.r = r /\ c.rewrite = rw /\ c.depth = d /\ c.w = w
      /\ \A v : /\ Loop(c, v) = AtHops(o, r, rw, config.order, d, v)
                /\ First(c, v) = AtRewrite(o, r, Head(rw.children), d, v)
                /\ Others(c, v) = AtRewrite(o, r, Rest(rw), d, v)
  BY <1>1, DeriveAtRewrite
<1> QED  BY <1>1, <1>2 DEF DeriveRewrite

(* derive at an alias. *)
LEMMA DeriveAtComputed ==
  ASSUME Stored, NEW s, Snapshot(s), NEW n \in Nat,
         NEW o \in Objects, NEW r \in Relations, NEW rw \in Rewrites, rw.kind = "computedUserset",
         NEW d \in Nat, NEW w \in Walks
  PROVE  Deriving(s)[n + 1][AtRewrite(o, r, rw, d, w)] =
           Deriving(s)[n][AtNode(o, rw.relation, d, w)]
<1> DEFINE c == AtRewrite(o, r, rw, d, w)
<1>1. c = AtRewrite(o, r, rw, d, w)  OBVIOUS
<1> HIDE DEF c
<1>2. /\ Deriving(s)[n + 1][c] = DeriveRewrite(s, c, Deriving(s)[n])
      /\ c.o = o /\ c.r = r /\ c.rewrite = rw /\ c.depth = d /\ c.w = w
      /\ \A v : /\ Loop(c, v) = AtHops(o, r, rw, config.order, d, v)
                /\ First(c, v) = AtRewrite(o, r, Head(rw.children), d, v)
                /\ Others(c, v) = AtRewrite(o, r, Rest(rw), d, v)
  BY <1>1, DeriveAtRewrite
<1> QED  BY <1>1, <1>2 DEF DeriveRewrite

(* derive at `tupleToUserset'. *)
LEMMA DeriveAtTupleTo ==
  ASSUME Stored, NEW s, Snapshot(s), NEW n \in Nat,
         NEW o \in Objects, NEW r \in Relations, NEW rw \in Rewrites, rw.kind = "tupleToUserset",
         NEW d \in Nat, NEW w \in Walks
  PROVE  Deriving(s)[n + 1][AtRewrite(o, r, rw, d, w)] =
           Deriving(s)[n][AtHops(o, r, rw, config.order, d, w)]
<1> DEFINE c == AtRewrite(o, r, rw, d, w)
<1>1. c = AtRewrite(o, r, rw, d, w)  OBVIOUS
<1> HIDE DEF c
<1>2. /\ Deriving(s)[n + 1][c] = DeriveRewrite(s, c, Deriving(s)[n])
      /\ c.o = o /\ c.r = r /\ c.rewrite = rw /\ c.depth = d /\ c.w = w
      /\ \A v : /\ Loop(c, v) = AtHops(o, r, rw, config.order, d, v)
                /\ First(c, v) = AtRewrite(o, r, Head(rw.children), d, v)
                /\ Others(c, v) = AtRewrite(o, r, Rest(rw), d, v)
  BY <1>1, DeriveAtRewrite
<1> QED  BY <1>1, <1>2 DEF DeriveRewrite

(* derive at a union. *)
LEMMA DeriveAtUnion ==
  ASSUME Stored, NEW s, Snapshot(s), NEW n \in Nat,
         NEW o \in Objects, NEW r \in Relations, NEW rw \in Rewrites, rw.kind = "union",
         NEW d \in Nat, NEW w \in Walks
  PROVE  Deriving(s)[n + 1][AtRewrite(o, r, rw, d, w)] =
           IF rw.children = <<>> THEN w
           ELSE LET sub == Deriving(s)[n][AtRewrite(o, r, Head(rw.children), d, w)]
                IN IF sub.grant THEN sub ELSE Deriving(s)[n][AtRewrite(o, r, Rest(rw), d, sub)]
<1> DEFINE c == AtRewrite(o, r, rw, d, w)
<1>1. c = AtRewrite(o, r, rw, d, w)  OBVIOUS
<1> HIDE DEF c
<1>2. /\ Deriving(s)[n + 1][c] = DeriveRewrite(s, c, Deriving(s)[n])
      /\ c.o = o /\ c.r = r /\ c.rewrite = rw /\ c.depth = d /\ c.w = w
      /\ \A v : /\ Loop(c, v) = AtHops(o, r, rw, config.order, d, v)
                /\ First(c, v) = AtRewrite(o, r, Head(rw.children), d, v)
                /\ Others(c, v) = AtRewrite(o, r, Rest(rw), d, v)
  BY <1>1, DeriveAtRewrite
<1> QED  BY <1>1, <1>2 DEF DeriveRewrite, DeriveUnion

(* derive at an intersection. *)
LEMMA DeriveAtIntersection ==
  ASSUME Stored, NEW s, Snapshot(s), NEW n \in Nat,
         NEW o \in Objects, NEW r \in Relations, NEW rw \in Rewrites, rw.kind = "intersection",
         NEW d \in Nat, NEW w \in Walks
  PROVE  Deriving(s)[n + 1][AtRewrite(o, r, rw, d, w)] =
           IF rw.children = <<>> THEN Grant(w)
           ELSE LET sub == Deriving(s)[n][AtRewrite(o, r, Head(rw.children), d, Fresh)]
                IN IF sub.truncated THEN Truncate(w)
                   ELSE IF sub.grant THEN Deriving(s)[n][AtRewrite(o, r, Rest(rw), d, w)] ELSE w
<1> DEFINE c == AtRewrite(o, r, rw, d, w)
<1>1. c = AtRewrite(o, r, rw, d, w)  OBVIOUS
<1> HIDE DEF c
<1>2. /\ Deriving(s)[n + 1][c] = DeriveRewrite(s, c, Deriving(s)[n])
      /\ c.o = o /\ c.r = r /\ c.rewrite = rw /\ c.depth = d /\ c.w = w
      /\ \A v : /\ Loop(c, v) = AtHops(o, r, rw, config.order, d, v)
                /\ First(c, v) = AtRewrite(o, r, Head(rw.children), d, v)
                /\ Others(c, v) = AtRewrite(o, r, Rest(rw), d, v)
  BY <1>1, DeriveAtRewrite
<1> QED  BY <1>1, <1>2 DEF DeriveRewrite, DeriveIntersection

(* derive at an exclusion. *)
LEMMA DeriveAtExclusion ==
  ASSUME Stored, NEW s, Snapshot(s), NEW n \in Nat,
         NEW o \in Objects, NEW r \in Relations, NEW rw \in Rewrites, rw.kind = "exclusion",
         NEW d \in Nat, NEW w \in Walks
  PROVE  Deriving(s)[n + 1][AtRewrite(o, r, rw, d, w)] =
           DeriveExclusion(Deriving(s)[n][AtRewrite(o, r, rw.base, d, Fresh)],
                           Deriving(s)[n][AtRewrite(o, r, rw.subtract, d, Fresh)], w)
<1> DEFINE c == AtRewrite(o, r, rw, d, w)
<1>1. c = AtRewrite(o, r, rw, d, w)  OBVIOUS
<1> HIDE DEF c
<1>2. /\ Deriving(s)[n + 1][c] = DeriveRewrite(s, c, Deriving(s)[n])
      /\ c.o = o /\ c.r = r /\ c.rewrite = rw /\ c.depth = d /\ c.w = w
      /\ \A v : /\ Loop(c, v) = AtHops(o, r, rw, config.order, d, v)
                /\ First(c, v) = AtRewrite(o, r, Head(rw.children), d, v)
                /\ Others(c, v) = AtRewrite(o, r, Rest(rw), d, v)
  BY <1>1, DeriveAtRewrite
<1> QED  BY <1>1, <1>2 DEF DeriveRewrite

-----------------------------------------------------------------------------
(***************************************************************************)
(* Closed walks.                                                           *)
(***************************************************************************)
(* Every call of derive gives a walk. *)
LEMMA DeriveType ==
  ASSUME Stored, NEW s, Snapshot(s), NEW n \in Nat,
         NEW o \in Objects, NEW r \in Relations, NEW d \in Nat, NEW w \in Walks
  PROVE  /\ Deriving(s)[n][AtNode(o, r, d, w)] \in Walks
         /\ \A rw \in Rewrites : Deriving(s)[n][AtRewrite(o, r, rw, d, w)] \in Walks
         /\ \A rw \in HoppingRewrites, rest \in Seq(Subjects) :
              Deriving(s)[n][AtHops(o, r, rw, rest, d, w)] \in Walks
<1>1. Deriving(s)[n] \in [CallsOfWalks -> Walks]  BY DerivingEquations DEF Runs
<1> HIDE DEF Deriving
<1>2. AtNode(o, r, d, w) \in CallsOfWalks  BY NodeCall DEF CallsOfWalks
<1>3. \A rw \in Rewrites : AtRewrite(o, r, rw, d, w) \in CallsOfWalks
  BY RewriteCall DEF CallsOfWalks
<1>4. \A rw \in HoppingRewrites, rest \in Seq(Subjects) :
        AtHops(o, r, rw, rest, d, w) \in CallsOfWalks
  BY HopsCall DEF CallsOfWalks
<1> QED  BY <1>1, <1>2, <1>3, <1>4

(* Something in V is proved in fewer than k steps. *)
Earlier(k, V) ==
  \E j \in Nat, h \in Nat : \E m \in V : j < k /\ NodeHolds(j, m[1], m[2], h)

(* A proof of a rewrite leads through V; so do the proofs of what is newly *)
(* visited.                                                                *)
Shut(o, r, rw, V) == \A k \in Nat, h \in Nat : Holds(k, o, r, rw, h) => Earlier(k, V)

Closed(old, new) ==
  \A m \in new \ old : Shut(m[1], m[2], RewriteOf(Live, m[1], m[2]), new)

Unproved(o, r, rw) == \A k \in Nat, h \in Nat : ~Holds(k, o, r, rw, h)

Unrefuted(o, r, rw, h) == \A k \in Nat : ~Fails(k, o, r, rw, h)

(* What every walk leaves: it forgets nothing, and what it did not cut and *)
(* does not grant is closed.                                               *)
Extends(w, v) ==
  /\ v \in Walks /\ w.visited \subseteq v.visited /\ (w.truncated => v.truncated)
  /\ ~v.grant /\ ~v.truncated => Closed(w.visited, v.visited)

NodePost(o, r, d, w, v) ==
  /\ Extends(w, v)
  /\ v.grant => d <= MaxDepth /\ Unrefuted(o, r, RewriteOf(Live, o, r), MaxDepth - d)
  /\ ~v.grant /\ ~v.truncated => <<o, r>> \in v.visited

RewritePost(o, r, rw, d, w, v) ==
  /\ Extends(w, v)
  /\ v.grant => Unrefuted(o, r, rw, MaxDepth - d)
  /\ ~v.grant /\ ~v.truncated => Shut(o, r, rw, v.visited)

HopsPost(o, r, rw, rest, d, w, v) ==
  /\ Extends(w, v)
  /\ v.grant => d < MaxDepth /\ \E x \in Leading(o, r, rw) :
       Unrefuted(x.ref, NextRelation(rw, x),
                 RewriteOf(Live, x.ref, NextRelation(rw, x)), MaxDepth - d - 1)
  /\ ~v.grant /\ ~v.truncated =>
       \A x \in ToSet(rest) : x \in Leading(o, r, rw) =>
         <<x.ref, NextRelation(rw, x)>> \in v.visited

(* What was visited earlier is still so later. *)
LEMMA EarlierGrows ==
  ASSUME NEW k \in Nat, NEW l \in Nat, NEW V, NEW W, V \subseteq W, Earlier(k, V), k <= l
  PROVE  Earlier(l, W)
<1>1. PICK j \in Nat, h \in Nat : \E m \in V : j < k /\ NodeHolds(j, m[1], m[2], h)
  BY DEF Earlier
<1>2. j < l  BY <1>1
<1> QED  BY <1>1, <1>2 DEF Earlier

(* A node that is shut stays shut when more is visited. *)
LEMMA ShutGrows ==
  ASSUME NEW o, NEW r, NEW rw, NEW V, NEW W, V \subseteq W, Shut(o, r, rw, V)
  PROVE  Shut(o, r, rw, W)
<1> SUFFICES ASSUME NEW k \in Nat, NEW h \in Nat, Holds(k, o, r, rw, h) PROVE Earlier(k, W)
  BY DEF Shut
<1>1. Earlier(k, V) /\ k <= k  BY DEF Shut
<1> QED  BY <1>1, EarlierGrows

(* Two walks in a row that leave nothing open, together do so. *)
LEMMA ClosedComposes ==
  ASSUME NEW U, NEW V, NEW W, U \subseteq V, V \subseteq W, Closed(U, V), Closed(V, W)
  PROVE  Closed(U, W)
<1> SUFFICES ASSUME NEW m \in W \ U PROVE Shut(m[1], m[2], RewriteOf(Live, m[1], m[2]), W)
  BY DEF Closed
<1>1. CASE m \in V  BY <1>1, ShutGrows DEF Closed
<1>2. CASE m \notin V  BY <1>2 DEF Closed
<1> QED  BY <1>1, <1>2

(* A walk extends itself. *)
LEMMA ExtendsItself ==
  ASSUME NEW w \in Walks
  PROVE  Extends(w, w) /\ Extends(w, Grant(w)) /\ Extends(w, Truncate(w))
BY WalksType DEF Extends, Closed

(* Extending a walk twice extends it. *)
LEMMA ExtendsComposes ==
  ASSUME NEW u \in Walks, NEW v, NEW w, Extends(u, v), Extends(v, w), ~v.grant
  PROVE  Extends(u, w)
<1>1. CASE ~w.grant /\ ~w.truncated
  <2>1. Closed(u.visited, v.visited) /\ Closed(v.visited, w.visited)  BY <1>1 DEF Extends
  <2>2. Closed(u.visited, w.visited)  BY <2>1, ClosedComposes DEF Extends
  <2> QED  BY <2>2 DEF Extends
<1>2. CASE w.grant \/ w.truncated  BY <1>2 DEF Extends
<1> QED  BY <1>1, <1>2

(* Nothing is provable in a closed set: a shortest proof has a shorter one. *)
LEMMA ClosedProvesNothing ==
  ASSUME NEW V, Closed({}, V), NEW o, NEW r, NEW rw, Shut(o, r, rw, V)
  PROVE  Unproved(o, r, rw)
<1> DEFINE Steps == {k \in Nat : \E m \in V, h \in Nat : NodeHolds(k, m[1], m[2], h)}
<1>1. Steps = {}
  <2> SUFFICES ASSUME Steps # {} PROVE FALSE  OBVIOUS
  <2>1. PICK k \in Steps : \A j \in Steps : k <= j  BY LeastElement
  <2>2. PICK m \in V, h \in Nat : NodeHolds(k, m[1], m[2], h)  BY <2>1
  <2>3. Shut(m[1], m[2], RewriteOf(Live, m[1], m[2]), V)  BY DEF Closed
  <2>4. Earlier(k, V)  BY <2>2, <2>3 DEF Shut, NodeHolds
  <2>5. PICK j \in Nat, i \in Nat : \E p \in V : j < k /\ NodeHolds(j, p[1], p[2], i)
    BY <2>4 DEF Earlier
  <2>6. j \in Steps /\ ~(k <= j)  BY <2>5
  <2> QED  BY <2>1, <2>6
<1>2. ASSUME NEW k \in Nat, NEW h \in Nat, Holds(k, o, r, rw, h) PROVE FALSE
  <2>1. Earlier(k, V)  BY <1>2 DEF Shut
  <2> QED  BY <2>1, <1>1 DEF Earlier
<1> QED  BY <1>2 DEF Unproved

(* A walk of its own that grants nothing and was not cut. *)
LEMMA FreshProvesNothing ==
  ASSUME NEW o, NEW r, NEW rw, NEW d, NEW v, RewritePost(o, r, rw, d, Fresh, v),
         ~v.grant, ~v.truncated
  PROVE  Unproved(o, r, rw)
<1>1. Closed({}, v.visited)  BY WalksType DEF RewritePost, Extends
<1> QED  BY <1>1, ClosedProvesNothing DEF RewritePost

-----------------------------------------------------------------------------
(***************************************************************************)
(* The walk is sound and complete: nodes and loops.                        *)
(***************************************************************************)
(* An index has the depth of a proof. *)
SoundIndex(index) ==
  \A o \in Objects, r \in Relations : <<o, r>> \in DOMAIN index =>
    /\ index[<<o, r>>] \in Nat
    /\ \E k \in Nat : NodeHolds(k, o, r, index[<<o, r>>])

(* What a walk with n calls left leaves. *)
NodesPost(s, n) ==
  \A o \in Objects, r \in Relations, d \in Nat, w \in Walks :
    ~w.grant => NodePost(o, r, d, w, Deriving(s)[n][AtNode(o, r, d, w)])

RewritesPost(s, n) ==
  \A o \in Objects, r \in Relations, d \in 0 .. MaxDepth, w \in Walks, rw \in Rewrites :
    ~w.grant => RewritePost(o, r, rw, d, w, Deriving(s)[n][AtRewrite(o, r, rw, d, w)])

AllHopsPost(s, n) ==
  \A o \in Objects, r \in Relations, d \in 0 .. MaxDepth, w \in Walks,
     rw \in HoppingRewrites, rest \in Seq(Subjects) :
    ~w.grant => HopsPost(o, r, rw, rest, d, w, Deriving(s)[n][AtHops(o, r, rw, rest, d, w)])

(* What nested calls establish, a call at a node establishes. *)
LEMMA NodeStep ==
  ASSUME Stored, NEW index, NEW n \in Nat, RewritesPost(FullSnapshot(index), n)
  PROVE  NodesPost(FullSnapshot(index), n + 1)
<1> DEFINE s == FullSnapshot(index)
<1> SUFFICES ASSUME NEW o \in Objects, NEW r \in Relations, NEW d \in Nat, NEW w \in Walks, ~w.grant
             PROVE  NodePost(o, r, d, w, Deriving(s)[n + 1][AtNode(o, r, d, w)])
  BY DEF NodesPost
<1> DEFINE v == Deriving(s)[n + 1][AtNode(o, r, d, w)]
           w2 == Visit(w, o, r)
           rw == RewriteOf(Live, o, r)
           u == Deriving(s)[n][AtRewrite(o, r, rw, d, w2)]
<1>1. Snapshot(s) /\ RewriteOf(s, o, r) = rw  BY LiveType
<1>2. v = IF d > MaxDepth THEN Truncate(w) ELSE IF <<o, r>> \in w.visited THEN w ELSE u
  BY <1>1, DeriveAtNode
<1> HIDE DEF v
<1> SUFFICES NodePost(o, r, d, w, v)  BY DEF v
<1>3. w2 \in Walks /\ ~w2.grant /\ w2.truncated = w.truncated /\ w2.visited = w.visited \cup {<<o, r>>}
  BY WalksType DEF Visit
<1>4. rw \in Rewrites  BY ClaimType
<1>5. ~Truncate(w).grant /\ Truncate(w).truncated  BY WalksType
<1>6. CASE d > MaxDepth  BY <1>2, <1>5, <1>6, ExtendsItself DEF NodePost
<1>7. CASE d \in 0 .. MaxDepth /\ <<o, r>> \in w.visited
  <2>0. ~(d > MaxDepth)  BY <1>7, EvaluationAssumption
  <2>1. v = w  BY <2>0, <1>2, <1>7
  <2> QED  BY <2>1, <1>7, ExtendsItself DEF NodePost
<1>8. CASE d \in 0 .. MaxDepth /\ <<o, r>> \notin w.visited
  <2>1. v = u  BY <1>2, <1>8, EvaluationAssumption
  <2>2. RewritePost(o, r, rw, d, w2, u)  BY <1>3, <1>4, <1>8 DEF RewritesPost
  <2> HIDE DEF u, w2, rw
  <2>3. Extends(w, v)
    <3>1. Extends(w2, v)  BY <2>1, <2>2 DEF RewritePost
    <3>2. v \in Walks /\ w.visited \subseteq v.visited /\ (w.truncated => v.truncated)
      BY <3>1, <1>3 DEF Extends
    <3>3. ASSUME ~v.grant, ~v.truncated PROVE Closed(w.visited, v.visited)
      <4>1. Closed(w2.visited, v.visited)  BY <3>1, <3>3 DEF Extends
      <4>2. Shut(o, r, rw, v.visited)  BY <2>1, <2>2, <3>3 DEF RewritePost
      <4>3. <<o, r>>[1] = o /\ <<o, r>>[2] = r  OBVIOUS
      <4> QED  BY <4>1, <4>2, <4>3, <1>3 DEF Closed, rw
    <3> QED  BY <3>2, <3>3 DEF Extends
  <2>4. v.grant => Unrefuted(o, r, rw, MaxDepth - d)  BY <2>1, <2>2 DEF RewritePost
  <2>5. <<o, r>> \in v.visited  BY <1>3, <2>1, <2>2 DEF RewritePost, Extends
  <2>6. d <= MaxDepth  BY <1>8, EvaluationAssumption
  <2> QED  BY <2>3, <2>4, <2>5, <2>6 DEF NodePost, rw
<1>9. d > MaxDepth \/ d \in 0 .. MaxDepth  BY EvaluationAssumption
<1> QED  BY <1>6, <1>7, <1>8, <1>9

(* A set that a sound index grants is not refuted within what is left of   *)
(* the bound.                                                              *)
LEMMA IndexUnrefuted ==
  ASSUME Stored, NEW s, SoundIndex(s.index), NEW o \in Objects, NEW r \in Relations,
         NEW d \in 0 .. MaxDepth, IndexGrants(s, o, r, d + 1)
  PROVE  d < MaxDepth /\ Unrefuted(o, r, RewriteOf(Live, o, r), MaxDepth - d - 1)
<1> DEFINE i == s.index[<<o, r>>]
<1>1. MaxDepth \in Nat /\ d \in Nat  BY EvaluationAssumption
<1>2. <<o, r>> \in DOMAIN s.index /\ d + 1 + i <= MaxDepth  BY DEF IndexGrants
<1> HIDE DEF i
<1>3. PICK k \in Nat : i \in Nat /\ NodeHolds(k, o, r, i)  BY <1>2 DEF SoundIndex, i
<1>4. d < MaxDepth /\ MaxDepth - d - 1 \in Nat /\ i <= MaxDepth - d - 1
  BY <1>1, <1>2, <1>3
<1>5. RewriteOf(Live, o, r) \in Rewrites  BY ClaimType
<1>6. ASSUME NEW m \in Nat, Fails(m, o, r, RewriteOf(Live, o, r), MaxDepth - d - 1)
      PROVE  FALSE
  BY <1>3, <1>4, <1>5, <1>6, NeverBoth DEF NodeHolds
<1> QED  BY <1>4, <1>6 DEF Unrefuted

(* What nested calls establish, the loop over subjects establishes. *)
LEMMA HopsStep ==
  ASSUME Stored, NEW index, SoundIndex(index), NEW n \in Nat,
         NodesPost(FullSnapshot(index), n), AllHopsPost(FullSnapshot(index), n)
  PROVE  AllHopsPost(FullSnapshot(index), n + 1)
<1> DEFINE s == FullSnapshot(index)
<1> SUFFICES ASSUME NEW o \in Objects, NEW r \in Relations, NEW d \in 0 .. MaxDepth, NEW w \in Walks,
                    NEW rw \in HoppingRewrites, NEW rest \in Seq(Subjects), ~w.grant
             PROVE  HopsPost(o, r, rw, rest, d, w, Deriving(s)[n + 1][AtHops(o, r, rw, rest, d, w)])
  BY DEF AllHopsPost
<1> DEFINE v == Deriving(s)[n + 1][AtHops(o, r, rw, rest, d, w)]
           x == Head(rest)
           y == NextRelation(rw, x)
           leads == LeadsFrom(s, o, r, rw, x)
           indexed == rw.kind = "this" /\ IndexGrants(s, x.ref, x.relation, d + 1)
           node == Deriving(s)[n][AtNode(x.ref, y, d + 1, w)]
           sub == IF ~leads THEN w ELSE IF indexed THEN Grant(w) ELSE node
           more == Deriving(s)[n][AtHops(o, r, rw, Tail(rest), d, sub)]
<1>1. Snapshot(s) /\ MaxDepth \in Nat /\ d \in Nat /\ d <= MaxDepth
  BY LiveType, EvaluationAssumption
<1>2. v = IF rest = <<>> THEN w ELSE IF sub.grant THEN sub ELSE more
  BY <1>1, DeriveAtHops
<1> HIDE DEF v
<1> SUFFICES HopsPost(o, r, rw, rest, d, w, v)  BY DEF v
<1>3. CASE rest = <<>>
  <2>1. v = w  BY <1>2, <1>3
  <2>2. ToSet(rest) = {}  BY <1>3 DEF ToSet
  <2> QED  BY <2>1, <2>2, ExtendsItself DEF HopsPost
<1>4. CASE rest # <<>>
  <2>1. x \in Subjects /\ Tail(rest) \in Seq(Subjects) /\ ToSet(rest) = {x} \cup ToSet(Tail(rest))
    BY <1>4, HeadTailProperties, SetOfTail
  <2>2. leads <=> x \in Leading(o, r, rw)
    BY <2>1, LiveType DEF LeadsFrom, Leading
  <2>3. leads => x.ref \in Objects /\ y \in Relations  BY <2>2, LeadingType
  <2> HIDE DEF leads, x, y
  <2>4. leads /\ ~indexed => NodePost(x.ref, y, d + 1, w, node)
    BY <1>1, <2>3 DEF NodesPost
  <2>5. leads /\ indexed =>
          d < MaxDepth /\ Unrefuted(x.ref, y, RewriteOf(Live, x.ref, y), MaxDepth - d - 1)
    <3>1. leads /\ indexed => y = x.relation  BY DEF y, NextRelation
    <3>2. s.index = index  BY LiveType
    <3> QED  BY <2>3, <3>1, <3>2, IndexUnrefuted DEF s
  <2>6. /\ Extends(w, sub)
        /\ sub.grant => leads /\ d < MaxDepth
                        /\ Unrefuted(x.ref, y, RewriteOf(Live, x.ref, y), MaxDepth - d - 1)
        /\ ~sub.grant /\ ~sub.truncated => (leads => <<x.ref, y>> \in sub.visited)
    <3>1. CASE ~leads  BY <3>1, ExtendsItself
    <3>2. CASE leads /\ indexed  BY <3>2, <2>5, ExtendsItself, WalksType
    <3>3. CASE leads /\ ~indexed
      <4>1. sub = node /\ NodePost(x.ref, y, d + 1, w, sub)  BY <3>3, <2>4
      <4> HIDE DEF sub
      <4>2. d + 1 <= MaxDepth => d < MaxDepth /\ MaxDepth - (d + 1) = MaxDepth - d - 1  BY <1>1
      <4> QED  BY <4>1, <4>2, <3>3 DEF NodePost
    <3> QED  BY <3>1, <3>2, <3>3
  <2> HIDE DEF sub
  <2>7. CASE sub.grant
    <3>1. v = sub  BY <1>2, <1>4, <2>7
    <3> QED  BY <3>1, <2>2, <2>6, <2>7 DEF HopsPost, y
  <2>8. CASE ~sub.grant
    <3>1. v = more /\ sub \in Walks  BY <1>2, <1>4, <2>6, <2>8 DEF Extends
    <3>2. HopsPost(o, r, rw, Tail(rest), d, sub, more)
      BY <2>1, <2>8, <3>1 DEF AllHopsPost
    <3> HIDE DEF more
    <3>3. Extends(w, v)
      BY <2>6, <2>8, <3>1, <3>2, ExtendsComposes DEF HopsPost
    <3>4. ASSUME ~v.grant, ~v.truncated, NEW z \in ToSet(rest), z \in Leading(o, r, rw)
          PROVE  <<z.ref, NextRelation(rw, z)>> \in v.visited
      <4>1. ~sub.truncated /\ sub.visited \subseteq v.visited
        BY <3>1, <3>2, <3>4 DEF HopsPost, Extends
      <4>2. CASE z = x  BY <4>1, <4>2, <2>2, <2>6, <2>8, <3>4 DEF y
      <4>3. CASE z \in ToSet(Tail(rest))  BY <4>3, <3>1, <3>2, <3>4 DEF HopsPost
      <4> QED  BY <4>2, <4>3, <2>1
    <3> QED  BY <3>1, <3>2, <3>3, <3>4 DEF HopsPost
  <2> QED  BY <2>7, <2>8
<1> QED  BY <1>3, <1>4

-----------------------------------------------------------------------------
(***************************************************************************)
(* The walk is sound and complete: rewrites.                               *)
(***************************************************************************)
(* What follows the first operand of a rewrite is a call again. *)
LEMMA RestType ==
  ASSUME NEW rw \in Rewrites, rw.kind \in {"union", "intersection"}, rw.children # <<>>
  PROVE  /\ Rest(rw) \in Rewrites /\ Rest(rw).kind = rw.kind
         /\ Rest(rw).children = Tail(rw.children)
         /\ Head(rw.children) \in Rewrites
         /\ Operands(rw) = {Head(rw.children)} \cup Operands(Rest(rw))
BY OperandsType DEF Rest

(* What is provable was proved by a step. *)
LEMMA HoldsByAStep ==
  ASSUME Stored, NEW o \in Objects, NEW r \in Relations, NEW rw \in Rewrites, NEW h \in Nat,
         NEW k \in Nat, Holds(k, o, r, rw, h)
  PROVE  k - 1 \in Nat /\ Holds(k - 1 + 1, o, r, rw, h) /\ k - 1 < k
<1>1. k # 0  BY NothingAtFirst
<1> QED  BY <1>1

(* A rewrite fails at the step after those that settle its parts. *)
LEMMA FailsByAStep ==
  ASSUME Stored, NEW o \in Objects, NEW r \in Relations, NEW rw \in Rewrites, NEW h \in Nat,
         NEW k \in Nat, Fails(k, o, r, rw, h)
  PROVE  k - 1 \in Nat /\ Fails(k - 1 + 1, o, r, rw, h)
<1>1. k # 0  BY NothingAtFirst
<1> QED  BY <1>1

(* What is not refuted one hop on is not refuted here. *)
LEMMA HopUnrefuted ==
  ASSUME Stored, NEW o \in Objects, NEW r \in Relations, NEW rw \in Rewrites,
         NEW d \in 0 .. MaxDepth, rw = This \/ rw.kind = "tupleToUserset",
         d < MaxDepth, NEW x \in Leading(o, r, rw),
         Unrefuted(x.ref, NextRelation(rw, x),
                   RewriteOf(Live, x.ref, NextRelation(rw, x)), MaxDepth - d - 1)
  PROVE  Unrefuted(o, r, rw, MaxDepth - d)
<1>1. MaxDepth \in Nat /\ d \in Nat /\ MaxDepth - d \in Nat  BY EvaluationAssumption
<1>2. ASSUME NEW k \in Nat, Fails(k, o, r, rw, MaxDepth - d) PROVE FALSE
  <2>1. k - 1 \in Nat /\ Fails(k - 1 + 1, o, r, rw, MaxDepth - d)
    BY <1>1, <1>2, FailsByAStep
  <2>2. MaxDepth - d # 0  BY <1>1
  <2>3. NextFails(k - 1, rw, x, MaxDepth - d - 1)
    <3>1. CASE rw = This  BY <1>1, <2>1, <2>2, <3>1, ThisRules
    <3>2. CASE rw.kind = "tupleToUserset"  BY <1>1, <2>1, <2>2, <3>2, TupleToRules
    <3> QED  BY <3>1, <3>2
  <2> QED  BY <2>1, <2>3 DEF Unrefuted, NextFails, NodeFails
<1> QED  BY <1>2 DEF Unrefuted

(* A node under a hopping rewrite. *)
LEMMA HopsDecide ==
  ASSUME Stored, NEW o \in Objects, NEW r \in Relations, NEW rw \in Rewrites,
         NEW d \in 0 .. MaxDepth, NEW w \in Walks, NEW v,
         rw = This \/ rw.kind = "tupleToUserset",
         rw = This => <<o, r, Direct(Target)>> \notin tuples,
         HopsPost(o, r, rw, config.order, d, w, v)
  PROVE  RewritePost(o, r, rw, d, w, v)
<1>1. rw \in HoppingRewrites  BY DEF HoppingRewrites, This
<1>2. MaxDepth \in Nat /\ d \in Nat /\ MaxDepth - d \in Nat  BY EvaluationAssumption
<1>3. v.grant => Unrefuted(o, r, rw, MaxDepth - d)  BY HopUnrefuted DEF HopsPost
<1>4. ASSUME ~v.grant, ~v.truncated PROVE Shut(o, r, rw, v.visited)
  <2> SUFFICES ASSUME NEW k \in Nat, NEW h \in Nat, Holds(k, o, r, rw, h)
               PROVE  Earlier(k, v.visited)
    BY DEF Shut
  <2>1. k - 1 \in Nat /\ Holds(k - 1 + 1, o, r, rw, h) /\ k - 1 < k  BY HoldsByAStep
  <2>2. h > 0 /\ \E x \in Leading(o, r, rw) : NextHolds(k - 1, rw, x, h - 1)
    <3>1. CASE rw = This  BY <2>1, <3>1, ThisRules
    <3>2. CASE rw.kind = "tupleToUserset"  BY <2>1, <3>2, TupleToRules
    <3> QED  BY <3>1, <3>2
  <2>3. PICK x \in Leading(o, r, rw) : NextHolds(k - 1, rw, x, h - 1)  BY <2>2
  <2>4. x \in ToSet(config.order)
    <3>1. \E t \in tuples : t[3] = x
      <4>1. CASE rw.kind = "this"
        <5>1. <<o, r, x>> \in tuples  BY <4>1 DEF Leading
        <5> QED  BY <5>1
      <4>2. CASE rw.kind # "this"
        <5>1. <<o, rw.tupleset, x>> \in tuples  BY <4>2 DEF Leading
        <5> QED  BY <5>1
      <4> QED  BY <4>1, <4>2
    <3> QED  BY <3>1, OrderType
  <2>5. <<x.ref, NextRelation(rw, x)>> \in v.visited  BY <1>4, <2>4 DEF HopsPost
  <2>6. h - 1 \in Nat  BY <2>2
  <2> DEFINE m == <<x.ref, NextRelation(rw, x)>>
  <2>7. m[1] = x.ref /\ m[2] = NextRelation(rw, x)  OBVIOUS
  <2>8. NodeHolds(k - 1, m[1], m[2], h - 1)  BY <2>3, <2>7 DEF NextHolds
  <2> HIDE DEF m
  <2> QED  BY <2>1, <2>5, <2>6, <2>8 DEF Earlier, m
<1> QED  BY <1>3, <1>4 DEF HopsPost, RewritePost

(* What nested calls establish, a call at a rewrite establishes. *)
LEMMA RewriteStep ==
  ASSUME Stored, NEW index, NEW n \in Nat,
         NodesPost(FullSnapshot(index), n), RewritesPost(FullSnapshot(index), n),
         AllHopsPost(FullSnapshot(index), n)
  PROVE  RewritesPost(FullSnapshot(index), n + 1)
<1> DEFINE s == FullSnapshot(index)
           D == Deriving(s)[n]
<1> SUFFICES ASSUME NEW o \in Objects, NEW r \in Relations, NEW d \in 0 .. MaxDepth, NEW w \in Walks,
                    NEW rw \in Rewrites, ~w.grant
             PROVE  RewritePost(o, r, rw, d, w, Deriving(s)[n + 1][AtRewrite(o, r, rw, d, w)])
  BY DEF RewritesPost
<1> DEFINE v == Deriving(s)[n + 1][AtRewrite(o, r, rw, d, w)]
           h == MaxDepth - d
<1>1. /\ Snapshot(s) /\ s.rows = tuples /\ MaxDepth \in Nat /\ d \in Nat /\ d <= MaxDepth
      /\ h \in Nat /\ config.order \in Seq(Subjects)
  BY LiveType, EvaluationAssumption, OrderType
<1> DEFINE H == D[AtHops(o, r, rw, config.order, d, w)]
<1>2. ASSUME NEW x \in Rewrites, NEW u \in Walks, ~u.grant
      PROVE  RewritePost(o, r, x, d, u, D[AtRewrite(o, r, x, d, u)])
  BY <1>2 DEF RewritesPost
<1>3. rw \in HoppingRewrites => HopsPost(o, r, rw, config.order, d, w, H)
  BY <1>1 DEF AllHopsPost
<1>4. Fresh \in Walks /\ ~Fresh.grant  BY WalksType
<1>5. CASE rw = This
  <2>1. rw \in HoppingRewrites /\ rw.kind = "this"  BY <1>5 DEF This, HoppingRewrites
  <2>2. v = IF <<o, r, Direct(Target)>> \in tuples THEN Grant(w) ELSE H
    BY <1>1, <2>1, DeriveAtThis
  <2> HIDE DEF v
  <2> SUFFICES RewritePost(o, r, rw, d, w, v)  BY DEF v
  <2>3. CASE <<o, r, Direct(Target)>> \in tuples
    <3>1. ASSUME NEW k \in Nat, Fails(k, o, r, rw, h) PROVE FALSE
      <4>1. k - 1 \in Nat /\ Fails(k - 1 + 1, o, r, rw, h)  BY <1>1, <3>1, FailsByAStep
      <4> QED  BY <1>1, <1>5, <2>3, <4>1, ThisRules
    <3>2. v = Grant(w) /\ v.grant  BY <2>2, <2>3, WalksType
    <3>3. Extends(w, v)  BY <3>2, ExtendsItself
    <3> QED  BY <3>1, <3>2, <3>3 DEF RewritePost, Unrefuted
  <2>4. CASE <<o, r, Direct(Target)>> \notin tuples
    <3>1. v = H  BY <2>2, <2>4
    <3> HIDE DEF H
    <3> QED  BY <3>1, <1>3, <1>5, <2>1, <2>4, HopsDecide
  <2> QED  BY <2>3, <2>4
<1>6. CASE rw.kind = "tupleToUserset"
  <2>1. rw \in HoppingRewrites /\ rw # This  BY <1>6 DEF This, HoppingRewrites
  <2>2. v = H  BY <1>1, <1>6, DeriveAtTupleTo
  <2> HIDE DEF v, H
  <2> SUFFICES RewritePost(o, r, rw, d, w, v)  BY DEF v
  <2> QED  BY <1>3, <1>6, <2>1, <2>2, HopsDecide
<1>7. CASE rw.kind = "computedUserset"
  <2> DEFINE y == rw.relation
  <2>1. y \in Relations  BY <1>7, RewriteCases
  <2>2. v = D[AtNode(o, y, d, w)]  BY <1>1, <1>7, DeriveAtComputed
  <2>3. NodePost(o, y, d, w, v)  BY <1>1, <2>1, <2>2 DEF NodesPost
  <2> HIDE DEF v, y
  <2> SUFFICES RewritePost(o, r, rw, d, w, v)  BY DEF v
  <2>4. ASSUME v.grant, NEW k \in Nat, Fails(k, o, r, rw, h) PROVE FALSE
    <3>1. k - 1 \in Nat /\ Fails(k - 1 + 1, o, r, rw, h)  BY <1>1, <2>4, FailsByAStep
    <3>2. NodeFails(k - 1, o, y, h)  BY <1>1, <1>7, <3>1, ComputedRules DEF y
    <3> QED  BY <2>3, <2>4, <3>1, <3>2 DEF NodePost, Unrefuted, NodeFails
  <2>5. ASSUME ~v.grant, ~v.truncated, NEW k \in Nat, NEW i \in Nat, Holds(k, o, r, rw, i)
        PROVE  Earlier(k, v.visited)
    <3>1. k - 1 \in Nat /\ Holds(k - 1 + 1, o, r, rw, i) /\ k - 1 < k  BY <2>5, HoldsByAStep
    <3>2. NodeHolds(k - 1, o, y, i)  BY <1>7, <3>1, ComputedRules DEF y
    <3>3. <<o, y>> \in v.visited  BY <2>3, <2>5 DEF NodePost
    <3>4. <<o, y>>[1] = o /\ <<o, y>>[2] = y  OBVIOUS
    <3>5. NodeHolds(k - 1, <<o, y>>[1], <<o, y>>[2], i)  BY <3>2, <3>4
    <3> QED  BY <3>1, <3>3, <3>5 DEF Earlier
  <2> QED  BY <2>3, <2>4, <2>5 DEF NodePost, RewritePost, Unrefuted, Shut
<1>8. CASE rw.kind = "union"
  <2>1. CASE rw.children = <<>>
    <3>1. v = w  BY <1>1, <1>8, <2>1, DeriveAtUnion
    <3> HIDE DEF v
    <3> SUFFICES RewritePost(o, r, rw, d, w, v)  BY DEF v
    <3>2. Operands(rw) = {}  BY <1>8, <2>1, OperandsType
    <3>3. ASSUME NEW k \in Nat, NEW i \in Nat, Holds(k, o, r, rw, i) PROVE FALSE
      <4>1. k - 1 \in Nat /\ Holds(k - 1 + 1, o, r, rw, i)  BY <3>3, HoldsByAStep
      <4> QED  BY <1>8, <3>2, <4>1, UnionRules
    <3> QED  BY <3>1, <3>3, ExtendsItself DEF RewritePost, Shut
  <2>2. CASE rw.children # <<>>
    <3> DEFINE x == Head(rw.children)
               y == Rest(rw)
               sub == D[AtRewrite(o, r, x, d, w)]
               more == D[AtRewrite(o, r, y, d, sub)]
    <3>1. /\ x \in Rewrites /\ y \in Rewrites /\ y.kind = "union"
          /\ Operands(rw) = {x} \cup Operands(y) /\ Operands(rw) \subseteq Rewrites
      BY <1>8, <2>2, RestType, OperandsType
    <3>2. v = IF sub.grant THEN sub ELSE more
      BY <1>1, <1>8, <2>2, DeriveAtUnion
    <3> HIDE DEF v, x, y
    <3> SUFFICES RewritePost(o, r, rw, d, w, v)  BY DEF v
    <3>3. RewritePost(o, r, x, d, w, sub)  BY <1>2, <3>1
    <3>4. ~sub.grant => RewritePost(o, r, y, d, sub, more)
      BY <1>2, <3>1, <3>3 DEF RewritePost, Extends
    <3> HIDE DEF sub, more
    <3>5. Extends(w, v)
      BY <3>2, <3>3, <3>4, ExtendsComposes DEF RewritePost
    <3>6. ASSUME v.grant, NEW k \in Nat, Fails(k, o, r, rw, h) PROVE FALSE
      <4>1. k - 1 \in Nat /\ Fails(k - 1 + 1, o, r, rw, h)  BY <1>1, <3>6, FailsByAStep
      <4>2. \A z \in Operands(rw) : Fails(k - 1, o, r, z, h)  BY <1>1, <1>8, <4>1, UnionRules
      <4>3. Fails(k - 1, o, r, x, h)  BY <3>1, <4>2
      <4>4. Fails(k - 1 + 1, o, r, y, h)  BY <1>1, <3>1, <4>1, <4>2, UnionRules
      <4>5. k - 1 + 1 \in Nat  BY <4>1
      <4> QED  BY <3>2, <3>3, <3>4, <3>6, <4>1, <4>3, <4>4, <4>5 DEF RewritePost, Unrefuted
    <3>7. ASSUME ~v.grant, ~v.truncated, NEW k \in Nat, NEW i \in Nat, Holds(k, o, r, rw, i)
          PROVE  Earlier(k, v.visited)
      <4>0. v = more /\ ~sub.grant  BY <3>2, <3>7
      <4>1. k - 1 \in Nat /\ Holds(k - 1 + 1, o, r, rw, i) /\ k - 1 < k  BY <3>7, HoldsByAStep
      <4>2. PICK z \in Operands(rw) : Holds(k - 1, o, r, z, i)  BY <1>8, <4>1, UnionRules
      <4>3. /\ ~sub.truncated /\ sub.visited \subseteq v.visited
        BY <3>4, <3>7, <4>0 DEF RewritePost, Extends
      <4>4. CASE z = x
        <5>1. Earlier(k - 1, sub.visited)
          BY <3>3, <4>0, <4>1, <4>2, <4>3, <4>4 DEF RewritePost, Shut
        <5> QED  BY <5>1, <4>1, <4>3, EarlierGrows
      <4>5. CASE z \in Operands(y)
        <5>1. Holds(k - 1 + 1, o, r, y, i)  BY <3>1, <4>1, <4>2, <4>5, UnionRules
        <5>2. k - 1 + 1 = k  BY <4>1
        <5> QED  BY <3>4, <3>7, <4>0, <5>1, <5>2 DEF RewritePost, Shut
      <4> QED  BY <3>1, <4>4, <4>5
    <3> QED  BY <3>5, <3>6, <3>7 DEF RewritePost, Unrefuted, Shut
  <2> QED  BY <2>1, <2>2
<1>9. CASE rw.kind = "intersection"
  <2>1. CASE rw.children = <<>>
    <3>1. v = Grant(w) /\ v.grant  BY <1>1, <1>9, <2>1, DeriveAtIntersection, WalksType
    <3> HIDE DEF v
    <3> SUFFICES RewritePost(o, r, rw, d, w, v)  BY DEF v
    <3>2. Operands(rw) = {}  BY <1>9, <2>1, OperandsType
    <3>3. ASSUME NEW k \in Nat, Fails(k, o, r, rw, h) PROVE FALSE
      <4>1. k - 1 \in Nat /\ Fails(k - 1 + 1, o, r, rw, h)  BY <1>1, <3>3, FailsByAStep
      <4> QED  BY <1>1, <1>9, <3>2, <4>1, IntersectionRules
    <3>4. Extends(w, v)  BY <3>1, ExtendsItself
    <3> QED  BY <3>1, <3>3, <3>4 DEF RewritePost, Unrefuted
  <2>2. CASE rw.children # <<>>
    <3> DEFINE x == Head(rw.children)
               y == Rest(rw)
               sub == D[AtRewrite(o, r, x, d, Fresh)]
               more == D[AtRewrite(o, r, y, d, w)]
    <3>1. /\ x \in Rewrites /\ y \in Rewrites /\ y.kind = "intersection"
          /\ Operands(rw) = {x} \cup Operands(y) /\ Operands(rw) \subseteq Rewrites
      BY <1>9, <2>2, RestType, OperandsType
    <3>2. v = IF sub.truncated THEN Truncate(w) ELSE IF sub.grant THEN more ELSE w
      BY <1>1, <1>9, <2>2, DeriveAtIntersection
    <3> HIDE DEF v, x, y
    <3> SUFFICES RewritePost(o, r, rw, d, w, v)  BY DEF v
    <3>3. RewritePost(o, r, x, d, Fresh, sub)  BY <1>2, <1>4, <3>1
    <3>4. RewritePost(o, r, y, d, w, more)  BY <1>2, <3>1
    <3> HIDE DEF sub, more
    <3>5. Extends(w, v)
      BY <3>2, <3>4, ExtendsItself DEF RewritePost
    <3>6. ASSUME v.grant, NEW k \in Nat, Fails(k, o, r, rw, h) PROVE FALSE
      <4>0. sub.grant /\ v = more  BY <3>2, <3>6, WalksType
      <4>1. k - 1 \in Nat /\ Fails(k - 1 + 1, o, r, rw, h)  BY <1>1, <3>6, FailsByAStep
      <4>2. PICK z \in Operands(rw) : Fails(k - 1, o, r, z, h)  BY <1>1, <1>9, <4>1, IntersectionRules
      <4>3. CASE z = x  BY <3>3, <4>0, <4>1, <4>2, <4>3 DEF RewritePost, Unrefuted
      <4>4. CASE z \in Operands(y)
        <5>1. Fails(k - 1 + 1, o, r, y, h)  BY <1>1, <3>1, <4>1, <4>2, <4>4, IntersectionRules
        <5>2. k - 1 + 1 \in Nat  BY <4>1
        <5> QED  BY <3>4, <3>6, <4>0, <5>1, <5>2 DEF RewritePost, Unrefuted
      <4> QED  BY <3>1, <4>3, <4>4
    <3>7. ASSUME ~v.grant, ~v.truncated, NEW k \in Nat, NEW i \in Nat, Holds(k, o, r, rw, i)
          PROVE  Earlier(k, v.visited)
      <4>0. ~sub.truncated  BY <3>2, <3>7, WalksType
      <4>1. k - 1 \in Nat /\ Holds(k - 1 + 1, o, r, rw, i) /\ k - 1 < k  BY <3>7, HoldsByAStep
      <4>2. \A z \in Operands(rw) : Holds(k - 1, o, r, z, i)  BY <1>9, <4>1, IntersectionRules
      <4>3. CASE ~sub.grant
        <5>1. Unproved(o, r, x)  BY <3>3, <4>0, <4>3, FreshProvesNothing
        <5> QED  BY <3>1, <4>1, <4>2, <5>1 DEF Unproved
      <4>4. CASE sub.grant
        <5>0. v = more  BY <3>2, <4>0, <4>4
        <5>1. Holds(k - 1 + 1, o, r, y, i)  BY <3>1, <4>1, <4>2, IntersectionRules
        <5>2. k - 1 + 1 = k  BY <4>1
        <5> QED  BY <3>4, <3>7, <5>0, <5>1, <5>2 DEF RewritePost, Shut
      <4> QED  BY <4>3, <4>4
    <3> QED  BY <3>5, <3>6, <3>7 DEF RewritePost, Unrefuted, Shut
  <2> QED  BY <2>1, <2>2
<1>10. CASE rw.kind = "exclusion"
  <2> DEFINE x == rw.base
             y == rw.subtract
             base == D[AtRewrite(o, r, x, d, Fresh)]
             subtract == D[AtRewrite(o, r, y, d, Fresh)]
  <2>1. x \in Rewrites /\ y \in Rewrites  BY <1>10, RewriteCases
  <2>2. v = DeriveExclusion(base, subtract, w)  BY <1>1, <1>10, DeriveAtExclusion
  <2>3. RewritePost(o, r, x, d, Fresh, base) /\ RewritePost(o, r, y, d, Fresh, subtract)
    BY <1>2, <1>4, <2>1
  <2> HIDE DEF v, base, subtract
  <2> SUFFICES RewritePost(o, r, rw, d, w, v)  BY DEF v
  <2>4. /\ v.grant => base.grant /\ ~subtract.grant /\ ~subtract.truncated
        /\ ~v.grant /\ ~v.truncated => /\ ~base.truncated
                                       /\ base.grant => subtract.grant
        /\ v \in {w, Grant(w), Truncate(w)}
    BY <2>2, WalksType DEF DeriveExclusion
  <2>5. Extends(w, v)  BY <2>4, ExtendsItself
  <2>6. ASSUME v.grant, NEW k \in Nat, Fails(k, o, r, rw, h) PROVE FALSE
    <3>1. k - 1 \in Nat /\ Fails(k - 1 + 1, o, r, rw, h)  BY <1>1, <2>6, FailsByAStep
    <3>2. Fails(k - 1, o, r, x, h) \/ Holds(k - 1, o, r, y, AnyLength)
      BY <1>1, <1>10, <3>1, ExclusionRules
    <3>3. Unproved(o, r, y)  BY <2>3, <2>4, <2>6, FreshProvesNothing
    <3>4. AnyLength \in Nat  BY ClaimType
    <3> QED  BY <2>3, <2>4, <2>6, <3>1, <3>2, <3>3, <3>4 DEF RewritePost, Unrefuted, Unproved
  <2>7. ASSUME ~v.grant, ~v.truncated, NEW k \in Nat, NEW i \in Nat, Holds(k, o, r, rw, i)
        PROVE  FALSE
    <3>1. k - 1 \in Nat /\ Holds(k - 1 + 1, o, r, rw, i)  BY <2>7, HoldsByAStep
    <3>2. Holds(k - 1, o, r, x, i) /\ Fails(k - 1, o, r, y, AnyLength)
      BY <1>10, <3>1, ExclusionRules
    <3>3. CASE ~base.grant
      <4>1. Unproved(o, r, x)  BY <2>3, <2>4, <2>7, <3>3, FreshProvesNothing
      <4> QED  BY <3>1, <3>2, <4>1 DEF Unproved
    <3>4. CASE base.grant
      <4>1. AnyLength \in Nat /\ h <= AnyLength  BY <1>1, ClaimType
      <4>2. Fails(k - 1, o, r, y, h)  BY <1>1, <2>1, <3>1, <3>2, <4>1, MoreHops
      <4> QED  BY <2>3, <2>4, <2>7, <3>1, <3>4, <4>2 DEF RewritePost, Unrefuted
    <3> QED  BY <3>3, <3>4
  <2> QED  BY <2>5, <2>6, <2>7 DEF RewritePost, Unrefuted, Shut
<1> QED  BY <1>5, <1>6, <1>7, <1>8, <1>9, <1>10, KindsOfRewrites

-----------------------------------------------------------------------------
(***************************************************************************)
(* evaluate.                                                               *)
(***************************************************************************)
WalksPost(s, n) == NodesPost(s, n) /\ RewritesPost(s, n) /\ AllHopsPost(s, n)

(* Whatever the number of calls that may nest. *)
LEMMA WalksAreSound ==
  ASSUME Stored, NEW index, SoundIndex(index)
  PROVE  \A n \in Nat : WalksPost(FullSnapshot(index), n)
<1> DEFINE s == FullSnapshot(index)
           Good == {n \in Nat : WalksPost(s, n)}
<1>1. 0 \in Good
  <2>0. Snapshot(s)  BY LiveType
  <2>1. \A c \in CallsOfWalks : Deriving(s)[0][c] = Truncate(c.w)  BY <2>0, DerivingEquations
  <2> HIDE DEF s
  <2>2. ASSUME NEW w \in Walks, ~w.grant
        PROVE  /\ Extends(w, Truncate(w)) /\ ~Truncate(w).grant /\ Truncate(w).truncated
    BY <2>2, ExtendsItself, WalksType
  <2>3. NodesPost(s, 0)
    <3> SUFFICES ASSUME NEW o \in Objects, NEW r \in Relations, NEW d \in Nat, NEW w \in Walks, ~w.grant
                 PROVE  NodePost(o, r, d, w, Deriving(s)[0][AtNode(o, r, d, w)])
      BY DEF NodesPost
    <3>1. AtNode(o, r, d, w) \in CallsOfWalks /\ AtNode(o, r, d, w).w = w
      BY NodeCall DEF CallsOfWalks, AtNode
    <3>2. Deriving(s)[0][AtNode(o, r, d, w)] = Truncate(w)  BY <2>1, <3>1
    <3> QED  BY <2>2, <3>2 DEF NodePost
  <2>4. RewritesPost(s, 0)
    <3> SUFFICES ASSUME NEW o \in Objects, NEW r \in Relations, NEW d \in 0 .. MaxDepth,
                        NEW w \in Walks, NEW rw \in Rewrites, ~w.grant
                 PROVE  RewritePost(o, r, rw, d, w, Deriving(s)[0][AtRewrite(o, r, rw, d, w)])
      BY DEF RewritesPost
    <3>1. AtRewrite(o, r, rw, d, w) \in CallsOfWalks /\ AtRewrite(o, r, rw, d, w).w = w
      BY RewriteCall DEF CallsOfWalks, AtRewrite
    <3>2. Deriving(s)[0][AtRewrite(o, r, rw, d, w)] = Truncate(w)  BY <2>1, <3>1
    <3> QED  BY <2>2, <3>2 DEF RewritePost
  <2>5. AllHopsPost(s, 0)
    <3> SUFFICES ASSUME NEW o \in Objects, NEW r \in Relations, NEW d \in 0 .. MaxDepth, NEW w \in Walks,
                        NEW rw \in HoppingRewrites, NEW rest \in Seq(Subjects), ~w.grant
                 PROVE  HopsPost(o, r, rw, rest, d, w, Deriving(s)[0][AtHops(o, r, rw, rest, d, w)])
      BY DEF AllHopsPost
    <3>1. AtHops(o, r, rw, rest, d, w) \in CallsOfWalks /\ AtHops(o, r, rw, rest, d, w).w = w
      BY HopsCall DEF CallsOfWalks, AtHops
    <3>2. Deriving(s)[0][AtHops(o, r, rw, rest, d, w)] = Truncate(w)  BY <2>1, <3>1
    <3> QED  BY <2>2, <3>2 DEF HopsPost
  <2> QED  BY <2>3, <2>4, <2>5 DEF WalksPost
<1>2. ASSUME NEW n \in Nat, n \in Good PROVE n + 1 \in Good
  BY <1>2, NodeStep, HopsStep, RewriteStep DEF WalksPost
<1> HIDE DEF Good
<1>3. \A n \in Nat : n \in Good  BY <1>1, <1>2, EveryNatural
<1> QED  BY <1>3 DEF Good

(* The queries of a snapshot, in order. *)
Query(s, i, w) == Derive(s, Resource, config.required[i], [w EXCEPT !.visited = {}])

(* A required relation is a relation. *)
LEMMA RequiredType ==
  ASSUME Stored
  PROVE  /\ Len(config.required) \in Nat
         /\ DOMAIN config.required = 1 .. Len(config.required)
         /\ \A i \in 1 .. Len(config.required) : config.required[i] \in Relations
<1>1. config.required \in Seq(Relations)  BY EvaluationAssumption DEF Stored, WellFormedConfig
<1> QED  BY <1>1

(* The call of evaluate for a required relation. *)
LEMMA QueryType ==
  ASSUME Stored, NEW s, Snapshot(s), NEW i \in 1 .. Len(config.required), NEW w \in Walks
  PROVE  /\ [w EXCEPT !.visited = {}] \in Walks
         /\ Query(s, i, w) \in Walks
         /\ Query(s, i, w) = Deriving(s)[MaxCalls][AtNode(Resource, config.required[i], 0,
                                                          [w EXCEPT !.visited = {}])]
<1>1. [w EXCEPT !.visited = {}] \in Walks  BY DEF Walks
<1>2. config.required[i] \in Relations /\ Resource \in Objects /\ MaxCalls \in Nat /\ 0 \in Nat
  BY RequiredType, EvaluationAssumption
<1> QED  BY <1>1, <1>2, DeriveType DEF Query, Derive

(* The loop of evaluate over the required relations. *)
LEMMA EvaluatingEquations ==
  ASSUME Stored, NEW s, Snapshot(s)
  PROVE  /\ \A i \in 0 .. Len(config.required) : Evaluating(s)[i] \in Walks
         /\ Evaluating(s)[0] = Fresh
         /\ \A i \in 1 .. Len(config.required) :
              Evaluating(s)[i] = IF Evaluating(s)[i - 1].grant THEN Evaluating(s)[i - 1]
                                 ELSE Query(s, i, Evaluating(s)[i - 1])
<1> DEFINE N == Len(config.required)
           step == [n \in Nat |-> [w \in Walks |->
                      IF w.grant \/ n + 1 \notin 1 .. N THEN w ELSE Query(s, n + 1, w)]]
           Solves(f) == f = [i \in 0 .. N |->
                               IF i = 0 THEN Fresh
                               ELSE IF f[i - 1].grant THEN f[i - 1]
                               ELSE Query(s, i, f[i - 1])]
<1>0. N \in Nat  BY RequiredType
<1> HIDE DEF N
<1>1. step \in [Nat -> [Walks -> Walks]]
  <2>1. ASSUME NEW n \in Nat, NEW w \in Walks, n + 1 \in 1 .. N PROVE Query(s, n + 1, w) \in Walks
    BY <2>1, QueryType DEF N
  <2> QED  BY <2>1
<1> HIDE DEF step
<1>2. PICK g \in [Nat -> Walks] : g[0] = Fresh /\ \A n \in Nat : g[n + 1] = step[n][g[n]]
  <2>1. Fresh \in Walks  BY WalksType
  <2>2. \A a \in Walks, st \in [Nat -> [Walks -> Walks]] :
          \E f \in [Nat -> Walks] : f[0] = a /\ \A n \in Nat : f[n + 1] = st[n][f[n]]
    BY Iteration
  <2> QED  BY <1>1, <2>1, <2>2
<1> DEFINE f == [i \in 0 .. N |-> g[i]]
<1>3. Solves(f)
  <2>1. ASSUME NEW i \in 0 .. N
        PROVE  f[i] = IF i = 0 THEN Fresh ELSE IF f[i - 1].grant THEN f[i - 1]
                      ELSE Query(s, i, f[i - 1])
    <3>1. CASE i = 0  BY <3>1, <1>2, <1>0
    <3>2. CASE i # 0
      <4>1. i - 1 \in Nat /\ i - 1 \in 0 .. N /\ i - 1 + 1 = i /\ i \in 1 .. N  BY <3>2, <1>0
      <4>2. g[i] = step[i - 1][g[i - 1]]  BY <4>1, <1>2
      <4>3. g[i - 1] \in Walks  BY <4>1
      <4>4. step[i - 1][g[i - 1]] = IF g[i - 1].grant \/ i \notin 1 .. N THEN g[i - 1]
                                    ELSE Query(s, i, g[i - 1])
        BY <4>1, <4>3 DEF step
      <4>5. f[i] = g[i] /\ f[i - 1] = g[i - 1]  BY <4>1
      <4> QED  BY <3>2, <4>1, <4>2, <4>4, <4>5
    <3> QED  BY <3>1, <3>2
  <2> QED  BY <2>1
<1> HIDE DEF f
<1>4. Solves(Evaluating(s))
  <2>1. \E e : Solves(e)  BY <1>3
  <2> QED  BY <2>1 DEF Evaluating, Query, N
<1> DEFINE E == Evaluating(s)
<1> HIDE DEF E
<1>5. E = [i \in 0 .. N |-> IF i = 0 THEN Fresh ELSE IF E[i - 1].grant THEN E[i - 1]
                            ELSE Query(s, i, E[i - 1])]
  BY <1>4 DEF E
<1>6. \A i \in 0 .. N : E[i] = IF i = 0 THEN Fresh ELSE IF E[i - 1].grant THEN E[i - 1]
                               ELSE Query(s, i, E[i - 1])
  BY <1>5
<1>7. E[0] = Fresh  BY <1>0, <1>6
<1>8. \A i \in 1 .. N : E[i] = IF E[i - 1].grant THEN E[i - 1] ELSE Query(s, i, E[i - 1])
  <2> TAKE i \in 1 .. N
  <2>1. i \in 0 .. N /\ i # 0  BY <1>0
  <2> QED  BY <1>6, <2>1
<1>9. \A i \in Nat : i \in 0 .. N => E[i] \in Walks
  <2> DEFINE Typed == {i \in Nat : i \in 0 .. N => E[i] \in Walks}
  <2>1. 0 \in Typed  BY <1>7, WalksType
  <2>2. ASSUME NEW i \in Nat, i \in Typed PROVE i + 1 \in Typed
    <3> SUFFICES ASSUME i + 1 \in 0 .. N PROVE E[i + 1] \in Walks  OBVIOUS
    <3>1. i + 1 \in 1 .. N /\ i \in 0 .. N /\ i + 1 - 1 = i  BY <1>0
    <3>2. E[i] \in Walks  BY <2>2, <3>1
    <3>3. Query(s, i + 1, E[i]) \in Walks  BY <3>1, <3>2, QueryType DEF N
    <3> QED  BY <1>8, <3>1, <3>2, <3>3
  <2> HIDE DEF Typed
  <2>3. \A i \in Nat : i \in Typed  BY <2>1, <2>2, EveryNatural
  <2> QED  BY <2>3 DEF Typed
<1> QED  BY <1>0, <1>7, <1>8, <1>9 DEF E, N

(* What evaluate grants, and what it does not. *)
LEMMA EvaluateIsSound ==
  ASSUME Stored, NEW index, SoundIndex(index)
  PROVE  Exact(Evaluate(FullSnapshot(index)))
<1> DEFINE s == FullSnapshot(index)
           N == Len(config.required)
           E == Evaluating(s)
           Node(i) == RewriteOf(Live, Resource, config.required[i])
           Open(i) == Unrefuted(Resource, config.required[i], Node(i), MaxDepth)
           Shutting(i) == Unproved(Resource, config.required[i], Node(i))
           Right(i) == /\ E[i].grant => \E j \in 1 .. N : Open(j)
                       /\ ~E[i].grant /\ ~E[i].truncated => \A j \in 1 .. i : Shutting(j)
           Good == {i \in Nat : i <= N => Right(i)}
<1>0. Snapshot(s) /\ N \in Nat  BY LiveType, RequiredType
<1>1. /\ \A i \in 0 .. N : E[i] \in Walks
      /\ E[0] = Fresh
      /\ \A i \in 1 .. N : E[i] = IF E[i - 1].grant THEN E[i - 1] ELSE Query(s, i, E[i - 1])
  BY <1>0, EvaluatingEquations
<1> HIDE DEF E
<1>2. 0 \in Good  BY <1>1, WalksType
<1>3. ASSUME NEW i \in Nat, i \in Good PROVE i + 1 \in Good
  <2> SUFFICES ASSUME i + 1 <= N PROVE Right(i + 1)  OBVIOUS
  <2>1. i \in 0 .. N /\ i + 1 \in 1 .. N /\ i + 1 - 1 = i  BY <1>0
  <2>2. Right(i) /\ E[i] \in Walks  BY <1>0, <1>1, <1>3, <2>1
  <2>3. CASE E[i].grant
    <3>1. E[i + 1] = E[i]  BY <1>1, <2>1, <2>3
    <3> QED  BY <2>2, <2>3, <3>1
  <2>4. CASE ~E[i].grant
    <3> DEFINE w == [E[i] EXCEPT !.visited = {}]
               r == config.required[i + 1]
               v == E[i + 1]
    <3>1. v = Query(s, i + 1, E[i])  BY <1>1, <2>1, <2>4
    <3>2. w \in Walks /\ ~w.grant /\ w.truncated = E[i].truncated /\ w.visited = {}
      BY <2>2, <2>4 DEF Walks
    <3>3. v = Deriving(s)[MaxCalls][AtNode(Resource, r, 0, w)]
      BY <1>0, <2>1, <2>2, <3>1, QueryType
    <3>4. r \in Relations /\ Resource \in Objects /\ MaxCalls \in Nat /\ MaxDepth \in Nat
      BY <2>1, RequiredType, EvaluationAssumption
    <3>5. NodesPost(s, MaxCalls)  BY <3>4, WalksAreSound DEF WalksPost
    <3>6. NodePost(Resource, r, 0, w, v)  BY <3>2, <3>3, <3>4, <3>5 DEF NodesPost
    <3> HIDE DEF w, v, s
    <3>7. ASSUME v.grant PROVE \E j \in 1 .. N : Open(j)
      <4>1. MaxDepth - 0 = MaxDepth  BY <3>4
      <4>2. Open(i + 1)  BY <3>6, <3>7, <4>1 DEF NodePost
      <4> QED  BY <2>1, <4>2
    <3>8. ASSUME ~v.grant, ~v.truncated PROVE \A j \in 1 .. i + 1 : Shutting(j)
      <4>1. Closed({}, v.visited) /\ <<Resource, r>> \in v.visited /\ ~E[i].truncated
        BY <3>2, <3>6, <3>8 DEF NodePost, Extends
      <4>2. <<Resource, r>>[1] = Resource /\ <<Resource, r>>[2] = r  OBVIOUS
      <4>3. Shut(Resource, r, RewriteOf(Live, Resource, r), v.visited)
        BY <4>1, <4>2 DEF Closed
      <4>4. Shutting(i + 1)  BY <4>1, <4>3, ClosedProvesNothing
      <4>5. \A j \in 1 .. i : Shutting(j)  BY <2>2, <2>4, <4>1
      <4>6. \A j \in 1 .. i + 1 : j = i + 1 \/ j \in 1 .. i  OBVIOUS
      <4> QED  BY <4>4, <4>5, <4>6
    <3> QED  BY <3>7, <3>8 DEF v
  <2> QED  BY <2>3, <2>4
<1> HIDE DEF Good
<1>4. \A i \in Nat : i \in Good  BY <1>2, <1>3, EveryNatural
<1>5. Right(N)  BY <1>0, <1>4 DEF Good
<1>6. /\ DOMAIN config.required = 1 .. N
      /\ \A j \in 1 .. N : config.required[j] \in Relations
      /\ Resource \in Objects /\ MaxDepth \in Nat /\ MaxCalls \in Nat /\ AnyLength \in Nat
  BY RequiredType, EvaluationAssumption, ClaimType
<1>7. \A j \in 1 .. N, h \in Nat, b \in BOOLEAN :
        Claim(Resource, config.required[j], h, b)
          = ByRewrite(Resource, config.required[j], Node(j), h, b)
  BY <1>6, ClaimType
<1>8. E[N].grant => ~Refuted(MaxDepth)
  BY <1>5, <1>6, <1>7 DEF Refuted, Unrefuted, Fails
<1>9. ~E[N].grant /\ ~E[N].truncated => ~Proved(AnyLength)
  BY <1>5, <1>6, <1>7 DEF Proved, Unproved, Holds
<1> QED  BY <1>8, <1>9 DEF Exact, Evaluate, E

(* An evaluation without an index has nothing to trust. *)
LEMMA NoIndexIsSound == SoundIndex(NoIndex)
BY DEF SoundIndex, NoIndex

(* Without an index, evaluate grants nothing that the tuples refute within *)
(* the bound, and what it denies without having been cut cannot be proved. *)
THEOREM WalkExactness == Spec => []WalkIsExact
<1>1. Stored => WalkIsExact  BY NoIndexIsSound, EvaluateIsSound DEF WalkIsExact
<1> QED  BY <1>1, StoredAlways, PTL

-----------------------------------------------------------------------------
(***************************************************************************)
(* collect, unfolded by one call.                                          *)
(***************************************************************************)
(* Collections, and what is collected afresh for an operand. *)
LEMMA CollectionsType ==
  /\ Empty \in Collections
  /\ \A l \in Collections :
       /\ l.found \in Seq(Nat) /\ l.visited \subseteq Nodes
       /\ l.excluded \in BOOLEAN /\ l.cut \in BOOLEAN
       /\ Operand(l) \in Collections /\ Operand(l).found = <<>> /\ Operand(l).visited = {}
       /\ Operand(l).excluded = l.excluded /\ Operand(l).cut = l.cut
<1>1. Empty \in Collections  BY DEF Empty, Collections
<1>2. ASSUME NEW l \in Collections
      PROVE  /\ l.found \in Seq(Nat) /\ l.visited \subseteq Nodes
             /\ l.excluded \in BOOLEAN /\ l.cut \in BOOLEAN
             /\ Operand(l) \in Collections /\ Operand(l).found = <<>> /\ Operand(l).visited = {}
             /\ Operand(l).excluded = l.excluded /\ Operand(l).cut = l.cut
  <2>1. /\ l.found \in Seq(Nat) /\ l.visited \subseteq Nodes
        /\ l.excluded \in BOOLEAN /\ l.cut \in BOOLEAN
    BY DEF Collections
  <2>2. <<>> \in Seq(Nat) /\ {} \in SUBSET Nodes  OBVIOUS
  <2>3. ASSUME NEW p \in Seq(Nat), NEW q \in SUBSET Nodes
        PROVE  LET m == [l EXCEPT !.found = p, !.visited = q]
               IN m \in Collections /\ m.found = p /\ m.visited = q
                  /\ m.excluded = l.excluded /\ m.cut = l.cut
    BY DEF Collections
  <2>4. /\ Operand(l) \in Collections /\ Operand(l).found = <<>> /\ Operand(l).visited = {}
        /\ Operand(l).excluded = l.excluded /\ Operand(l).cut = l.cut
    <3> DEFINE m == [l EXCEPT !.found = <<>>, !.visited = {}]
    <3>1. Operand(l) = m  BY DEF Operand
    <3>2. m.found = <<>> /\ m.visited = {} /\ m.excluded = l.excluded /\ m.cut = l.cut
      BY DEF Collections
    <3>3. m \in Collections  BY <2>2 DEF Collections
    <3> HIDE DEF m
    <3> QED  BY <3>1, <3>2, <3>3
  <2> QED  BY <2>1, <2>4
<1> QED  BY <1>1, <1>2

(* The updates of a collection. *)
Cut(l) == [l EXCEPT !.cut = TRUE]

Find(l, d) == [l EXCEPT !.found = Append(@, d)]

(* What the updates of a collection change. *)
LEMMA CollectionUpdates ==
  ASSUME NEW l \in Collections
  PROVE  /\ Cut(l) \in Collections /\ Cut(l).cut /\ Cut(l).found = l.found
         /\ Cut(l).visited = l.visited /\ Cut(l).excluded = l.excluded
         /\ \A d \in Nat : /\ Find(l, d) \in Collections /\ Find(l, d).found = Append(l.found, d)
                           /\ Find(l, d).visited = l.visited /\ Find(l, d).cut = l.cut
                           /\ Find(l, d).excluded = l.excluded
         /\ \A o \in Objects, r \in Relations :
              LET v == Visit(l, o, r)
              IN /\ v \in Collections /\ v.found = l.found /\ v.cut = l.cut
                 /\ v.excluded = l.excluded /\ v.visited = l.visited \cup {<<o, r>>}
<1>1. /\ Cut(l) \in Collections /\ Cut(l).cut /\ Cut(l).found = l.found
      /\ Cut(l).visited = l.visited /\ Cut(l).excluded = l.excluded
  BY DEF Collections, Cut
<1>2. ASSUME NEW d \in Nat
      PROVE  /\ Find(l, d) \in Collections /\ Find(l, d).found = Append(l.found, d)
             /\ Find(l, d).visited = l.visited /\ Find(l, d).cut = l.cut
             /\ Find(l, d).excluded = l.excluded
  <2>1. l.found \in Seq(Nat)  BY DEF Collections
  <2>2. Append(l.found, d) \in Seq(Nat)  BY <2>1
  <2> DEFINE f == Append(l.found, d)
  <2> HIDE DEF f
  <2>3. f \in Seq(Nat)  BY <2>2 DEF f
  <2>4. Find(l, d) = [l EXCEPT !.found = f]  BY DEF Find, f
  <2>5. /\ [l EXCEPT !.found = f] \in Collections /\ [l EXCEPT !.found = f].found = f
        /\ [l EXCEPT !.found = f].visited = l.visited /\ [l EXCEPT !.found = f].cut = l.cut
        /\ [l EXCEPT !.found = f].excluded = l.excluded
    BY <2>3 DEF Collections
  <2> QED  BY <2>4, <2>5 DEF f
<1>3. ASSUME NEW o \in Objects, NEW r \in Relations
      PROVE  LET v == Visit(l, o, r)
             IN /\ v \in Collections /\ v.found = l.found /\ v.cut = l.cut
                /\ v.excluded = l.excluded /\ v.visited = l.visited \cup {<<o, r>>}
  BY DEF Collections, Visit, Nodes
<1> QED  BY <1>1, <1>2, <1>3

(* What an intersection and an exclusion make of their operands. *)
InBoth(rw, first, others) ==
  IF Len(rw.children) = 1 THEN first.found ELSE Both(first.found, others.found)

Intersected(rw, l, first, others) ==
  [others EXCEPT !.found = l.found \o InBoth(rw, first, others), !.visited = l.visited]

InBase(base, subtract) == Without(base.found, subtract.found)

Excluded(l, base, subtract) ==
  [subtract EXCEPT !.found = l.found \o InBase(base, subtract), !.visited = l.visited, !.excluded = TRUE]

(* The members of two operands, at the depth of the deeper one. *)
LEMMA BothType ==
  ASSUME NEW f \in Seq(Nat), NEW g \in Seq(Nat)
  PROVE  /\ Both(f, g) \in Seq(Nat)
         /\ g = <<>> => Both(f, g) = <<>>
         /\ f = <<>> => Both(f, g) = <<>>
         /\ g # <<>> => /\ Head(g) \in Nat /\ Len(Both(f, g)) = Len(f)
                        /\ \A i \in 1 .. Len(f) : Both(f, g)[i] = Deeper(f[i], Head(g))
<1>1. CASE g = <<>>  BY <1>1 DEF Both
<1>2. CASE g # <<>>
  <2>1. Both(f, g) = [i \in 1 .. Len(f) |-> Deeper(f[i], Head(g))]  BY <1>2 DEF Both
  <2>2. Head(g) \in Nat  BY <1>2
  <2>3. \A i \in 1 .. Len(f) : Deeper(f[i], Head(g)) \in Nat  BY <2>2 DEF Deeper
  <2>4. Both(f, g) \in Seq(Nat) /\ Len(Both(f, g)) = Len(f)  BY <2>1, <2>3
  <2>5. f = <<>> => Both(f, g) = <<>>  BY <2>4
  <2> QED  BY <1>2, <2>1, <2>2, <2>4, <2>5
<1> QED  BY <1>1, <1>2

(* What an intersection adds to a collection. *)
LEMMA IntersectedType ==
  ASSUME NEW l \in Collections, NEW a \in Collections, NEW b \in Collections, NEW rw
  PROVE  LET p == Intersected(rw, l, a, b)
             members == InBoth(rw, a, b) IN
         /\ members \in Seq(Nat)
         /\ p \in Collections /\ p.visited = l.visited
         /\ p.excluded = b.excluded /\ p.cut = b.cut
         /\ p.found = l.found \o members
         /\ Len(p.found) = Len(l.found) + Len(members)
<1>1. l.found \in Seq(Nat) /\ a.found \in Seq(Nat) /\ b.found \in Seq(Nat)
  BY CollectionsType
<1>2. Both(a.found, b.found) \in Seq(Nat)  BY <1>1, BothType
<1> DEFINE p == Intersected(rw, l, a, b)
           members == InBoth(rw, a, b)
<1>3. members \in Seq(Nat)  BY <1>1, <1>2 DEF InBoth
<1> HIDE DEF members
<1> DEFINE m == l.found \o members
<1>4. m \in Seq(Nat) /\ Len(m) = Len(l.found) + Len(members)  BY <1>1, <1>3
<1> HIDE DEF m
<1>5. p = [b EXCEPT !.found = m, !.visited = l.visited]  BY DEF Intersected, m, members
<1> HIDE DEF p
<1>6. /\ p \in Collections /\ p.visited = l.visited
      /\ p.excluded = b.excluded /\ p.cut = b.cut /\ p.found = m
  BY <1>4, <1>5 DEF Collections
<1> QED  BY <1>3, <1>4, <1>6 DEF m, p, members

(* What an exclusion adds to a collection. *)
LEMMA ExcludedType ==
  ASSUME NEW l \in Collections, NEW a \in Collections, NEW b \in Collections
  PROVE  LET p == Excluded(l, a, b)
             members == InBase(a, b) IN
         /\ members \in Seq(Nat)
         /\ p \in Collections /\ p.visited = l.visited
         /\ p.excluded /\ p.cut = b.cut
         /\ p.found = l.found \o members
         /\ Len(p.found) = Len(l.found) + Len(members)
<1>1. l.found \in Seq(Nat) /\ a.found \in Seq(Nat) /\ <<>> \in Seq(Nat)
  BY CollectionsType
<1> DEFINE p == Excluded(l, a, b)
           members == InBase(a, b)
<1>3. members \in Seq(Nat)  BY <1>1 DEF Without, InBase
<1> HIDE DEF members
<1> DEFINE m == l.found \o members
<1>4. m \in Seq(Nat) /\ Len(m) = Len(l.found) + Len(members)  BY <1>1, <1>3
<1> HIDE DEF m
<1>5. p = [b EXCEPT !.found = m, !.visited = l.visited, !.excluded = TRUE]
  BY DEF Excluded, m, members
<1> HIDE DEF p
<1>6. /\ p \in Collections /\ p.visited = l.visited
      /\ p.excluded /\ p.cut = b.cut /\ p.found = m
  BY <1>4, <1>5 DEF Collections
<1> QED  BY <1>3, <1>4, <1>6 DEF m, p, members

Gathers == [CallsOfCollections -> Collections]

(* A step of collect with collections for its nested calls gives one. *)
LEMMA CollectStepType ==
  ASSUME Stored, NEW s, Snapshot(s), NEW c \in CallsOfCollections, NEW run \in Gathers
  PROVE  CollectStep(s, c, run) \in Collections
<1>1. PICK o \in Objects, r \in Relations, d \in Nat, w \in Collections :
         \/ c = AtNode(o, r, d, w)
         \/ \E rw \in Rewrites : c = AtRewrite(o, r, rw, d, w)
         \/ \E rw \in HoppingRewrites, rest \in Seq(Subjects) :
              c = AtHops(o, r, rw, rest, d, w)
  BY CallCases DEF CallsOfCollections
<1>2. CASE c = AtNode(o, r, d, w)
  <2>1. c.at = "node" /\ c.o = o /\ c.r = r /\ c.depth = d /\ c.w = w
    BY <1>2 DEF AtNode
  <2>2. Visit(w, o, r) \in Collections  BY CollectionUpdates
  <2>3. RewriteOf(s, o, r) \in Rewrites  BY RewriteOfType DEF Snapshot
  <2>4. AtRewrite(o, r, RewriteOf(s, o, r), d, Visit(w, o, r)) \in CallsOfCollections
    BY <2>2, <2>3, RewriteCall DEF CallsOfCollections
  <2>5. CollectNode(s, c, run) \in Collections
    BY <2>1, <2>4 DEF CollectNode, Gathers, Visit
  <2> QED  BY <2>1, <2>5 DEF CollectStep
<1>3. CASE \E rw \in Rewrites : c = AtRewrite(o, r, rw, d, w)
  <2>1. PICK rw \in Rewrites : c = AtRewrite(o, r, rw, d, w)  BY <1>3
  <2>2. /\ c.at = "rewrite" /\ c.o = o /\ c.r = r /\ c.depth = d /\ c.w = w
        /\ c.rewrite = rw
    BY <2>1 DEF AtRewrite
  <2>3. \A x \in Rewrites, v \in Collections :
          AtRewrite(o, r, x, d, v) \in CallsOfCollections /\ run[AtRewrite(o, r, x, d, v)] \in Collections
    BY RewriteCall DEF CallsOfCollections, Gathers
  <2>4. rw \in HoppingRewrites => Loop(c, w) \in CallsOfCollections
    <3>1. config.order \in Seq(Subjects)  BY OrderType
    <3>2. rw \in HoppingRewrites => AtHops(o, r, rw, config.order, d, w) \in Calls(Collections)
      BY <3>1, HopsCall
    <3> QED  BY <2>2, <3>2 DEF CallsOfCollections, Loop
  <2>5. \A x \in Relations : AtNode(o, x, d, w) \in CallsOfCollections
    BY NodeCall DEF CallsOfCollections
  <2>6. ASSUME rw.kind \in {"union", "intersection"}, rw.children # <<>>
        PROVE  \A v \in Collections : run[First(c, v)] \in Collections /\ run[Others(c, v)] \in Collections
    <3>1. Head(rw.children) \in Rewrites /\ [rw EXCEPT !.children = Tail(@)] \in Rewrites
      BY <2>6, RewriteCases
    <3> QED  BY <2>2, <2>3, <3>1 DEF First, Others
  <2>7. CollectRewrite(s, c, run) \in Collections
    <3>1. CASE rw.kind \in {"this", "tupleToUserset"}
      <4>1. rw \in HoppingRewrites  BY <3>1 DEF HoppingRewrites
      <4> QED  BY <4>1, <3>1, <2>2, <2>4 DEF CollectRewrite, Gathers
    <3>2. CASE rw.kind = "computedUserset"
      BY <3>2, <2>2, <2>5, RewriteCases DEF CollectRewrite, Gathers
    <3>4. CASE rw.kind = "union"
      <4>1. CollectUnion(c, run) \in Collections
        BY <3>4, <2>2, <2>6 DEF CollectUnion
      <4> QED  BY <4>1, <3>4, <2>2 DEF CollectRewrite
    <3>5. CASE rw.kind = "intersection"
      <4>1. CollectIntersection(c, run) \in Collections
        <5>1. CASE rw.children = <<>>  BY <5>1, <2>2 DEF CollectIntersection
        <5>2. CASE rw.children # <<>>
          <6> DEFINE first == run[First(c, Operand(c.w))]
                     others == run[Others(c, Operand(first))]
          <6>1. first \in Collections  BY <3>5, <5>2, <2>2, <2>6, CollectionsType
          <6> HIDE DEF first
          <6>2. others \in Collections  BY <3>5, <5>2, <2>6, <6>1, CollectionsType
          <6>3. CollectIntersection(c, run) = Intersected(rw, w, first, others)
            BY <5>2, <2>2 DEF CollectIntersection, Intersected, InBoth, first
          <6> HIDE DEF others
          <6>4. Intersected(rw, w, first, others) \in Collections
            BY <6>1, <6>2, IntersectedType
          <6> QED  BY <6>3, <6>4
        <5> QED  BY <5>1, <5>2
      <4> QED  BY <4>1, <3>5, <2>2 DEF CollectRewrite
    <3>6. CASE rw.kind = "exclusion"
      <4> DEFINE base == run[AtRewrite(o, r, rw.base, d, Operand(w))]
                 subtract == run[AtRewrite(o, r, rw.subtract, d, Operand(base))]
      <4>1. rw.base \in Rewrites /\ rw.subtract \in Rewrites  BY <3>6, RewriteCases
      <4>2. base \in Collections  BY <4>1, <2>3, CollectionsType
      <4> HIDE DEF base
      <4>3. subtract \in Collections  BY <4>1, <4>2, <2>3, CollectionsType
      <4>4. CollectExclusion(c, run) = Excluded(w, base, subtract)
        BY <2>2 DEF CollectExclusion, Excluded, InBase, base
      <4> HIDE DEF subtract
      <4>5. Excluded(w, base, subtract) \in Collections  BY <4>2, <4>3, ExcludedType
      <4>6. CollectExclusion(c, run) \in Collections  BY <4>4, <4>5
      <4> QED  BY <4>6, <3>6, <2>2 DEF CollectRewrite
    <3> QED  BY <3>1, <3>2, <3>4, <3>5, <3>6, RewriteCases
  <2> QED  BY <2>2, <2>7 DEF CollectStep
<1>4. CASE \E rw \in HoppingRewrites, rest \in Seq(Subjects) : c = AtHops(o, r, rw, rest, d, w)
  <2>1. PICK rw \in HoppingRewrites, rest \in Seq(Subjects) : c = AtHops(o, r, rw, rest, d, w)
    BY <1>4
  <2>2. /\ c.at = "hops" /\ c.o = o /\ c.r = r /\ c.depth = d /\ c.w = w
        /\ c.rewrite = rw /\ c.rest = rest
    BY <2>1 DEF AtHops
  <2>3. CASE rest = <<>>  BY <2>2, <2>3 DEF CollectStep, CollectHops
  <2>4. CASE rest # <<>>
    <3>1. Head(rest) \in Subjects /\ Tail(rest) \in Seq(Subjects)
      BY <2>4, HeadTailProperties
    <3>2. \A v \in Collections : NextHop(c, v) \in CallsOfCollections
      BY <2>2, <3>1, HopsCall DEF CallsOfCollections, NextHop
    <3>3. Leads(s, c, Head(rest)) => Hop(c, Head(rest), w) \in CallsOfCollections
      <4> HAVE Leads(s, c, Head(rest))
      <4>1. /\ Head(rest).ref \in Objects
            /\ (IF c.rewrite.kind = "this" THEN Head(rest).relation
                ELSE c.rewrite.relation) \in Relations
        BY <2>2, <3>1, LeadsType
      <4> QED  BY <4>1, <2>2, NodeCall DEF Hop, CallsOfCollections
    <3>4. Find(w, d) \in Collections  BY CollectionUpdates
    <3>5. CollectHops(s, c, run) \in Collections
      BY <2>2, <2>4, <3>2, <3>3, <3>4 DEF CollectHops, Gathers, Find
    <3> QED  BY <3>5, <2>2 DEF CollectStep
  <2> QED  BY <2>3, <2>4
<1> QED  BY <1>1, <1>2, <1>3, <1>4

(* collect, unfolded: with no call left it is cut. *)
LEMMA CollectingEquations ==
  ASSUME Stored, NEW s, Snapshot(s)
  PROVE  /\ \A n \in Nat : Collecting(s)[n] \in Gathers
         /\ \A c \in CallsOfCollections : Collecting(s)[0][c] = Cut(c.w)
         /\ \A n \in Nat : \A c \in CallsOfCollections :
              Collecting(s)[n + 1][c] = CollectStep(s, c, Collecting(s)[n])
<1> DEFINE first == [c \in CallsOfCollections |-> Cut(c.w)]
           step == [n \in Nat |-> [run \in Gathers |->
                    [c \in CallsOfCollections |-> CollectStep(s, c, run)]]]
           Solves(f) == f = [calls \in Nat |->
                               [c \in CallsOfCollections |->
                                  IF calls = 0 THEN Cut(c.w)
                                  ELSE CollectStep(s, c, f[calls - 1])]]
<1>1. first \in Gathers
  <2>1. \A c \in CallsOfCollections : c.w \in Collections  BY DEF CallsOfCollections, Calls
  <2> QED  BY <2>1, CollectionUpdates DEF Gathers
<1>2. step \in [Nat -> [Gathers -> Gathers]]  BY CollectStepType DEF Gathers
<1> HIDE DEF first, step
<1>3. PICK f \in [Nat -> Gathers] :
        f[0] = first /\ \A n \in Nat : f[n + 1] = step[n][f[n]]
  <2>1. \A a \in Gathers, g \in [Nat -> [Gathers -> Gathers]] :
          \E f \in [Nat -> Gathers] :
             f[0] = a /\ \A n \in Nat : f[n + 1] = g[n][f[n]]
    BY Iteration
  <2> QED  BY <1>1, <1>2, <2>1
<1>4. \A n \in Nat : f[n + 1] = [c \in CallsOfCollections |-> CollectStep(s, c, f[n])]
  BY <1>3 DEF step
<1>5. Solves(f)
  <2>1. ASSUME NEW n \in Nat
        PROVE  f[n] = [c \in CallsOfCollections |-> IF n = 0 THEN Cut(c.w)
                                              ELSE CollectStep(s, c, f[n - 1])]
    <3>1. CASE n = 0  BY <3>1, <1>3 DEF first
    <3>2. CASE n # 0
      <4>1. n - 1 \in Nat /\ n - 1 + 1 = n  BY <3>2
      <4> QED  BY <4>1, <1>4, <3>2
    <3> QED  BY <3>1, <3>2
  <2> QED  BY <2>1, <1>3
<1>6. Solves(Collecting(s))
  <2>1. \E g : Solves(g)  BY <1>5
  <2> QED  BY <2>1 DEF Collecting, Cut
<1> DEFINE E == Collecting(s)
<1> HIDE DEF E
<1>7. Solves(E)  BY <1>6 DEF E
<1>8. \A n \in Nat : \A c \in CallsOfCollections :
        E[n][c] = IF n = 0 THEN Cut(c.w) ELSE CollectStep(s, c, E[n - 1])
  BY <1>7
<1>9. \A n \in Nat : n + 1 - 1 = n /\ n + 1 \in Nat /\ n + 1 # 0  OBVIOUS
<1>10. \A n \in Nat : \A c \in CallsOfCollections : E[n + 1][c] = CollectStep(s, c, E[n])
  BY <1>8, <1>9
<1>11. \A n \in Nat : E[n] \in Gathers
  <2> DEFINE Good == {n \in Nat : E[n] \in Gathers}
  <2>0. \A n \in Nat : E[n] = [c \in CallsOfCollections |-> IF n = 0 THEN Cut(c.w)
                                              ELSE CollectStep(s, c, E[n - 1])]
    BY <1>7
  <2>1. 0 \in Good  BY <2>0, <1>1 DEF first
  <2>2. \A n \in Nat : n \in Good => n + 1 \in Good
    <3> TAKE n \in Nat
    <3> HAVE n \in Good
    <3>1. E[n + 1] = [c \in CallsOfCollections |-> CollectStep(s, c, E[n])]  BY <2>0, <1>9
    <3> QED  BY <3>1, CollectStepType DEF Gathers
  <2> HIDE DEF Good
  <2>3. \A n \in Nat : n \in Good  BY <2>1, <2>2, EveryNatural
  <2> QED  BY <2>3 DEF Good
<1> QED  BY <1>8, <1>10, <1>11 DEF E

-----------------------------------------------------------------------------
(***************************************************************************)
(* collect at each kind of call.                                           *)
(***************************************************************************)
(* Every call of collect gives a collection. *)
LEMMA CollectType ==
  ASSUME Stored, NEW s, Snapshot(s), NEW n \in Nat,
         NEW o \in Objects, NEW r \in Relations, NEW d \in Nat, NEW l \in Collections
  PROVE  /\ Collecting(s)[n][AtNode(o, r, d, l)] \in Collections
         /\ \A rw \in Rewrites : Collecting(s)[n][AtRewrite(o, r, rw, d, l)] \in Collections
         /\ \A rw \in HoppingRewrites, rest \in Seq(Subjects) :
              Collecting(s)[n][AtHops(o, r, rw, rest, d, l)] \in Collections
<1>1. Collecting(s)[n] \in [CallsOfCollections -> Collections]  BY CollectingEquations DEF Gathers
<1> HIDE DEF Collecting
<1>2. AtNode(o, r, d, l) \in CallsOfCollections  BY NodeCall DEF CallsOfCollections
<1>3. \A rw \in Rewrites : AtRewrite(o, r, rw, d, l) \in CallsOfCollections
  BY RewriteCall DEF CallsOfCollections
<1>4. \A rw \in HoppingRewrites, rest \in Seq(Subjects) :
        AtHops(o, r, rw, rest, d, l) \in CallsOfCollections
  BY HopsCall DEF CallsOfCollections
<1> QED  BY <1>1, <1>2, <1>3, <1>4

(* collect at a node, in terms of the nested call. *)
LEMMA CollectAtNode ==
  ASSUME Stored, NEW s, Snapshot(s), NEW n \in Nat,
         NEW o \in Objects, NEW r \in Relations, NEW d \in Nat, NEW l \in Collections
  PROVE  Collecting(s)[n + 1][AtNode(o, r, d, l)] =
           IF d > MaxDepth \/ <<o, r>> \in l.visited THEN l
           ELSE Collecting(s)[n][AtRewrite(o, r, RewriteOf(s, o, r), d, Visit(l, o, r))]
<1> DEFINE c == AtNode(o, r, d, l)
<1>1. c \in CallsOfCollections /\ c.at = "node" /\ c.o = o /\ c.r = r /\ c.depth = d /\ c.w = l
  BY NodeCall DEF CallsOfCollections, AtNode
<1>2. Collecting(s)[n + 1][c] = CollectStep(s, c, Collecting(s)[n])
  BY <1>1, CollectingEquations
<1> HIDE DEF c
<1>3. CollectStep(s, c, Collecting(s)[n]) = CollectNode(s, c, Collecting(s)[n])
  BY <1>1 DEF CollectStep
<1> QED  BY <1>1, <1>2, <1>3 DEF CollectNode, Visit, c

(* A user among the subjects of a relation is a member of it. *)
IsMember(s, o, r, rw, x) == rw.kind = "this" /\ x = Direct(Target) /\ <<o, r, x>> \in s.rows

(* The loop over subjects, in terms of the nested calls. *)
LEMMA CollectAtHops ==
  ASSUME Stored, NEW s, Snapshot(s), NEW n \in Nat,
         NEW o \in Objects, NEW r \in Relations, NEW rw \in HoppingRewrites,
         NEW rest \in Seq(Subjects), NEW d \in Nat, NEW l \in Collections
  PROVE  Collecting(s)[n + 1][AtHops(o, r, rw, rest, d, l)] =
           IF rest = <<>> THEN l
           ELSE LET x == Head(rest)
                    next == IF IsMember(s, o, r, rw, x) THEN Find(l, d)
                            ELSE IF LeadsFrom(s, o, r, rw, x)
                                 THEN Collecting(s)[n][AtNode(x.ref, NextRelation(rw, x), d + 1, l)]
                                 ELSE l
                IN Collecting(s)[n][AtHops(o, r, rw, Tail(rest), d, next)]
<1> DEFINE c == AtHops(o, r, rw, rest, d, l)
<1>1. /\ c \in CallsOfCollections /\ c.at = "hops" /\ c.o = o /\ c.r = r /\ c.rewrite = rw
      /\ c.rest = rest /\ c.depth = d /\ c.w = l
  BY HopsCall DEF CallsOfCollections, AtHops
<1>2. Collecting(s)[n + 1][c] = CollectStep(s, c, Collecting(s)[n])
  BY <1>1, CollectingEquations
<1> HIDE DEF c
<1>3. CollectStep(s, c, Collecting(s)[n]) = CollectHops(s, c, Collecting(s)[n])
  BY <1>1 DEF CollectStep
<1>4. \A x : Leads(s, c, x) = LeadsFrom(s, o, r, rw, x)  BY <1>1 DEF Leads, LeadsFrom
<1>5. \A x, v : Hop(c, x, v) = AtNode(x.ref, NextRelation(rw, x), d + 1, v)
  BY <1>1 DEF Hop, NextRelation
<1>6. \A v : NextHop(c, v) = AtHops(o, r, rw, Tail(rest), d, v)  BY <1>1 DEF NextHop
<1> QED  BY <1>1, <1>2, <1>3, <1>4, <1>5, <1>6 DEF CollectHops, IsMember, Find, c

(* A call at a rewrite is a call of collect. *)
LEMMA CollectAtRewrite ==
  ASSUME Stored, NEW s, Snapshot(s), NEW n \in Nat, NEW o \in Objects, NEW r \in Relations,
         NEW rw \in Rewrites, NEW d \in Nat, NEW l \in Collections,
         NEW c, c = AtRewrite(o, r, rw, d, l)
  PROVE  /\ Collecting(s)[n + 1][c] = CollectRewrite(s, c, Collecting(s)[n])
         /\ c.o = o /\ c.r = r /\ c.rewrite = rw /\ c.depth = d /\ c.w = l
         /\ \A v : /\ Loop(c, v) = AtHops(o, r, rw, config.order, d, v)
                   /\ First(c, v) = AtRewrite(o, r, Head(rw.children), d, v)
                   /\ Others(c, v) = AtRewrite(o, r, Rest(rw), d, v)
<1>1. /\ c \in CallsOfCollections /\ c.at = "rewrite" /\ c.o = o /\ c.r = r /\ c.rewrite = rw
      /\ c.depth = d /\ c.w = l
  BY RewriteCall DEF CallsOfCollections, AtRewrite
<1>2. Collecting(s)[n + 1][c] = CollectStep(s, c, Collecting(s)[n])
  BY <1>1, CollectingEquations
<1>3. CollectStep(s, c, Collecting(s)[n]) = CollectRewrite(s, c, Collecting(s)[n])
  BY <1>1 DEF CollectStep
<1>4. \A v : /\ Loop(c, v) = AtHops(o, r, rw, config.order, d, v)
             /\ First(c, v) = AtRewrite(o, r, Head(rw.children), d, v)
             /\ Others(c, v) = AtRewrite(o, r, Rest(rw), d, v)
  BY <1>1 DEF Loop, First, Others, Rest
<1> QED  BY <1>1, <1>2, <1>3, <1>4

(* collect at `this' and at `tupleToUserset'. *)
LEMMA CollectAtLoop ==
  ASSUME Stored, NEW s, Snapshot(s), NEW n \in Nat, NEW o \in Objects, NEW r \in Relations,
         NEW rw \in Rewrites, rw.kind = "this" \/ rw.kind = "tupleToUserset",
         NEW d \in Nat, NEW l \in Collections
  PROVE  Collecting(s)[n + 1][AtRewrite(o, r, rw, d, l)] =
           Collecting(s)[n][AtHops(o, r, rw, config.order, d, l)]
<1> DEFINE c == AtRewrite(o, r, rw, d, l)
<1>1. c = AtRewrite(o, r, rw, d, l)  OBVIOUS
<1> HIDE DEF c
<1>2. /\ Collecting(s)[n + 1][c] = CollectRewrite(s, c, Collecting(s)[n])
      /\ c.o = o /\ c.r = r /\ c.rewrite = rw /\ c.depth = d /\ c.w = l
      /\ \A v : /\ Loop(c, v) = AtHops(o, r, rw, config.order, d, v)
                /\ First(c, v) = AtRewrite(o, r, Head(rw.children), d, v)
                /\ Others(c, v) = AtRewrite(o, r, Rest(rw), d, v)
  BY <1>1, CollectAtRewrite
<1> QED  BY <1>1, <1>2 DEF CollectRewrite

(* collect at an alias. *)
LEMMA CollectAtComputed ==
  ASSUME Stored, NEW s, Snapshot(s), NEW n \in Nat, NEW o \in Objects, NEW r \in Relations,
         NEW rw \in Rewrites, rw.kind = "computedUserset",
         NEW d \in Nat, NEW l \in Collections
  PROVE  Collecting(s)[n + 1][AtRewrite(o, r, rw, d, l)] =
           Collecting(s)[n][AtNode(o, rw.relation, d, l)]
<1> DEFINE c == AtRewrite(o, r, rw, d, l)
<1>1. c = AtRewrite(o, r, rw, d, l)  OBVIOUS
<1> HIDE DEF c
<1>2. /\ Collecting(s)[n + 1][c] = CollectRewrite(s, c, Collecting(s)[n])
      /\ c.o = o /\ c.r = r /\ c.rewrite = rw /\ c.depth = d /\ c.w = l
      /\ \A v : /\ Loop(c, v) = AtHops(o, r, rw, config.order, d, v)
                /\ First(c, v) = AtRewrite(o, r, Head(rw.children), d, v)
                /\ Others(c, v) = AtRewrite(o, r, Rest(rw), d, v)
  BY <1>1, CollectAtRewrite
<1> QED  BY <1>1, <1>2 DEF CollectRewrite

(* collect at a union. *)
LEMMA CollectAtUnion ==
  ASSUME Stored, NEW s, Snapshot(s), NEW n \in Nat, NEW o \in Objects, NEW r \in Relations,
         NEW rw \in Rewrites, rw.kind = "union",
         NEW d \in Nat, NEW l \in Collections
  PROVE  Collecting(s)[n + 1][AtRewrite(o, r, rw, d, l)] =
           IF rw.children = <<>> THEN l
           ELSE Collecting(s)[n][AtRewrite(o, r, Rest(rw), d,
                  Collecting(s)[n][AtRewrite(o, r, Head(rw.children), d, l)])]
<1> DEFINE c == AtRewrite(o, r, rw, d, l)
<1>1. c = AtRewrite(o, r, rw, d, l)  OBVIOUS
<1> HIDE DEF c
<1>2. /\ Collecting(s)[n + 1][c] = CollectRewrite(s, c, Collecting(s)[n])
      /\ c.o = o /\ c.r = r /\ c.rewrite = rw /\ c.depth = d /\ c.w = l
      /\ \A v : /\ Loop(c, v) = AtHops(o, r, rw, config.order, d, v)
                /\ First(c, v) = AtRewrite(o, r, Head(rw.children), d, v)
                /\ Others(c, v) = AtRewrite(o, r, Rest(rw), d, v)
  BY <1>1, CollectAtRewrite
<1> QED  BY <1>1, <1>2 DEF CollectRewrite, CollectUnion

(* collect at an intersection. *)
LEMMA CollectAtIntersection ==
  ASSUME Stored, NEW s, Snapshot(s), NEW n \in Nat, NEW o \in Objects, NEW r \in Relations,
         NEW rw \in Rewrites, rw.kind = "intersection",
         NEW d \in Nat, NEW l \in Collections
  PROVE  Collecting(s)[n + 1][AtRewrite(o, r, rw, d, l)] =
           IF rw.children = <<>> THEN l
           ELSE LET first == Collecting(s)[n][AtRewrite(o, r, Head(rw.children), d, Operand(l))]
                    others == Collecting(s)[n][AtRewrite(o, r, Rest(rw), d, Operand(first))]
                IN Intersected(rw, l, first, others)
<1> DEFINE c == AtRewrite(o, r, rw, d, l)
<1>1. c = AtRewrite(o, r, rw, d, l)  OBVIOUS
<1> HIDE DEF c
<1>2. /\ Collecting(s)[n + 1][c] = CollectRewrite(s, c, Collecting(s)[n])
      /\ c.o = o /\ c.r = r /\ c.rewrite = rw /\ c.depth = d /\ c.w = l
      /\ \A v : /\ Loop(c, v) = AtHops(o, r, rw, config.order, d, v)
                /\ First(c, v) = AtRewrite(o, r, Head(rw.children), d, v)
                /\ Others(c, v) = AtRewrite(o, r, Rest(rw), d, v)
  BY <1>1, CollectAtRewrite
<1>3. Collecting(s)[n + 1][c] = CollectIntersection(c, Collecting(s)[n])
  BY <1>2 DEF CollectRewrite
<1> DEFINE run == Collecting(s)[n]
           first == run[First(c, Operand(l))]
           others == run[Others(c, Operand(first))]
<1> HIDE DEF run
<1>4. CollectIntersection(c, run) = IF rw.children = <<>> THEN l ELSE Intersected(rw, l, first, others)
  <2>1. CASE rw.children = <<>>  BY <2>1, <1>2 DEF CollectIntersection
  <2>2. CASE rw.children # <<>>
    BY <2>2, <1>2 DEF CollectIntersection, Intersected, InBoth
  <2> QED  BY <2>1, <2>2
<1>5. /\ first = run[AtRewrite(o, r, Head(rw.children), d, Operand(l))]
      /\ others = run[AtRewrite(o, r, Rest(rw), d, Operand(first))]
  BY <1>2
<1> HIDE DEF first, others
<1> QED  BY <1>1, <1>3, <1>4, <1>5 DEF run

(* collect at an exclusion. *)
LEMMA CollectAtExclusion ==
  ASSUME Stored, NEW s, Snapshot(s), NEW n \in Nat, NEW o \in Objects, NEW r \in Relations,
         NEW rw \in Rewrites, rw.kind = "exclusion",
         NEW d \in Nat, NEW l \in Collections
  PROVE  Collecting(s)[n + 1][AtRewrite(o, r, rw, d, l)] =
           LET base == Collecting(s)[n][AtRewrite(o, r, rw.base, d, Operand(l))]
               subtract == Collecting(s)[n][AtRewrite(o, r, rw.subtract, d, Operand(base))]
           IN Excluded(l, base, subtract)
<1> DEFINE c == AtRewrite(o, r, rw, d, l)
<1>1. c = AtRewrite(o, r, rw, d, l)  OBVIOUS
<1> HIDE DEF c
<1>2. /\ Collecting(s)[n + 1][c] = CollectRewrite(s, c, Collecting(s)[n])
      /\ c.o = o /\ c.r = r /\ c.rewrite = rw /\ c.depth = d /\ c.w = l
      /\ \A v : /\ Loop(c, v) = AtHops(o, r, rw, config.order, d, v)
                /\ First(c, v) = AtRewrite(o, r, Head(rw.children), d, v)
                /\ Others(c, v) = AtRewrite(o, r, Rest(rw), d, v)
  BY <1>1, CollectAtRewrite
<1> QED  BY <1>1, <1>2 DEF CollectRewrite, CollectExclusion, Excluded, InBase

-----------------------------------------------------------------------------
(***************************************************************************)
(* What is found is proved: nodes and loops.                               *)
(***************************************************************************)
(* m continues the collection l. *)
Continues(l, m) ==
  /\ m \in Collections
  /\ l.excluded => m.excluded
  /\ l.cut => m.cut
  /\ Len(l.found) <= Len(m.found)

(* A depth at which the target is found is that of a proof. *)
Deep(o, r, rw, d, e) == \E k \in Nat, h \in Nat : e = d + h /\ Holds(k, o, r, rw, h)

DeepNode(o, r, d, e) == Deep(o, r, RewriteOf(Live, o, r), d, e)

DeepHop(o, r, rw, d, e) ==
  \/ rw.kind = "this" /\ <<o, r, Direct(Target)>> \in tuples /\ e = d
  \/ \E x \in Leading(o, r, rw) : DeepNode(x.ref, NextRelation(rw, x), d + 1, e)

NodeFound(o, r, d, l, m) ==
  /\ Continues(l, m)
  /\ ~m.excluded => \A e \in ToSet(m.found) : e \in ToSet(l.found) \/ DeepNode(o, r, d, e)

RewriteFound(o, r, rw, d, l, m) ==
  /\ Continues(l, m)
  /\ ~m.excluded => \A e \in ToSet(m.found) : e \in ToSet(l.found) \/ Deep(o, r, rw, d, e)

HopsFound(o, r, rw, d, l, m) ==
  /\ Continues(l, m)
  /\ ~m.excluded => \A e \in ToSet(m.found) : e \in ToSet(l.found) \/ DeepHop(o, r, rw, d, e)

NodesFound(n) ==
  \A o \in Objects, r \in Relations, d \in Nat, l \in Collections :
    NodeFound(o, r, d, l, Collecting(Live)[n][AtNode(o, r, d, l)])

RewritesFound(n) ==
  \A o \in Objects, r \in Relations, d \in Nat, l \in Collections, rw \in Rewrites :
    RewriteFound(o, r, rw, d, l, Collecting(Live)[n][AtRewrite(o, r, rw, d, l)])

AllHopsFound(n) ==
  \A o \in Objects, r \in Relations, d \in Nat, l \in Collections,
     rw \in HoppingRewrites, rest \in Seq(Subjects) :
    HopsFound(o, r, rw, d, l, Collecting(Live)[n][AtHops(o, r, rw, rest, d, l)])

(* Continuing a collection twice continues it. *)
LEMMA ContinuesComposes ==
  /\ \A l \in Collections : Continues(l, l) /\ Continues(l, Cut(l))
  /\ \A l \in Collections, o \in Objects, r \in Relations :
       Continues(l, Visit(l, o, r)) /\ Visit(l, o, r).found = l.found
  /\ \A l \in Collections, d \in Nat : Continues(l, Find(l, d))
  /\ \A l \in Collections, m \in Collections, p \in Collections :
       Continues(l, m) /\ Continues(m, p) => Continues(l, p)
<1>1. \A l \in Collections : l.found \in Seq(Nat) /\ Len(l.found) \in Nat
  <2> TAKE l \in Collections
  <2>1. l.found \in Seq(Nat)  BY CollectionsType
  <2> QED  BY <2>1
<1>2. \A l \in Collections : Continues(l, l) /\ Continues(l, Cut(l))
  BY <1>1, CollectionUpdates DEF Continues
<1>3. \A l \in Collections, o \in Objects, r \in Relations :
        Continues(l, Visit(l, o, r)) /\ Visit(l, o, r).found = l.found
  BY <1>1, CollectionUpdates DEF Continues
<1>4. \A l \in Collections, d \in Nat : Continues(l, Find(l, d))
  <2> TAKE l \in Collections, d \in Nat
  <2>1. Len(Append(l.found, d)) = Len(l.found) + 1  BY <1>1
  <2>2. /\ Find(l, d) \in Collections /\ Find(l, d).found = Append(l.found, d)
        /\ Find(l, d).cut = l.cut /\ Find(l, d).excluded = l.excluded
    BY CollectionUpdates
  <2> QED  BY <2>1, <2>2, <1>1 DEF Continues
<1>5. \A l \in Collections, m \in Collections, p \in Collections :
        Continues(l, m) /\ Continues(m, p) => Continues(l, p)
  BY <1>1 DEF Continues
<1> QED  BY <1>2, <1>3, <1>4, <1>5

(* The elements of sequences put together. *)
LEMMA SetOfAppend ==
  /\ \A f \in Seq(Nat), d \in Nat : ToSet(Append(f, d)) = ToSet(f) \cup {d}
  /\ \A f \in Seq(Nat), g \in Seq(Nat) : ToSet(f \o g) = ToSet(f) \cup ToSet(g)
  /\ \A f \in Seq(Nat) : ToSet(f) \subseteq Nat
  /\ \A f \in Seq(Nat) : f # <<>> => Head(f) \in ToSet(f)
  /\ ToSet(<<>>) = {}
<1>1. ASSUME NEW f \in Seq(Nat), NEW d \in Nat PROVE ToSet(Append(f, d)) = ToSet(f) \cup {d}
  <2>1. /\ Append(f, d) \in Seq(Nat) /\ Len(Append(f, d)) = Len(f) + 1
        /\ \A i \in 1 .. Len(f) : Append(f, d)[i] = f[i]
        /\ Append(f, d)[Len(f) + 1] = d
    OBVIOUS
  <2>2. /\ DOMAIN f = 1 .. Len(f) /\ DOMAIN Append(f, d) = 1 .. Len(f) + 1
        /\ Len(f) \in Nat
    BY <2>1
  <2>3. 1 .. Len(f) + 1 = (1 .. Len(f)) \cup {Len(f) + 1}  BY <2>2
  <2> QED  BY <2>1, <2>2, <2>3 DEF ToSet
<1>2. ASSUME NEW f \in Seq(Nat), NEW g \in Seq(Nat) PROVE ToSet(f \o g) = ToSet(f) \cup ToSet(g)
  <2>1. /\ f \o g \in Seq(Nat) /\ Len(f \o g) = Len(f) + Len(g)
        /\ \A i \in 1 .. Len(f) : (f \o g)[i] = f[i]
        /\ \A i \in 1 .. Len(g) : (f \o g)[Len(f) + i] = g[i]
    OBVIOUS
  <2>2. /\ DOMAIN f = 1 .. Len(f) /\ DOMAIN g = 1 .. Len(g) /\ Len(f) \in Nat /\ Len(g) \in Nat
        /\ DOMAIN (f \o g) = 1 .. Len(f) + Len(g)
    BY <2>1
  <2>3. ASSUME NEW e \in ToSet(f \o g) PROVE e \in ToSet(f) \cup ToSet(g)
    <3>1. PICK i \in 1 .. Len(f) + Len(g) : e = (f \o g)[i]  BY <2>2 DEF ToSet
    <3>2. CASE i <= Len(f)  BY <3>1, <3>2, <2>1, <2>2 DEF ToSet
    <3>3. CASE i > Len(f)
      <4>1. i - Len(f) \in 1 .. Len(g) /\ Len(f) + (i - Len(f)) = i  BY <3>3, <2>2
      <4>2. e = g[i - Len(f)]  BY <4>1, <3>1, <2>1
      <4> QED  BY <4>1, <4>2, <2>2 DEF ToSet
    <3> QED  BY <3>2, <3>3, <2>2
  <2>4. ASSUME NEW e \in ToSet(f) PROVE e \in ToSet(f \o g)
    <3>1. PICK i \in 1 .. Len(f) : e = f[i]  BY <2>2 DEF ToSet
    <3> QED  BY <3>1, <2>1, <2>2 DEF ToSet
  <2>5. ASSUME NEW e \in ToSet(g) PROVE e \in ToSet(f \o g)
    <3>1. PICK i \in 1 .. Len(g) : e = g[i]  BY <2>2 DEF ToSet
    <3>2. Len(f) + i \in 1 .. Len(f) + Len(g)  BY <2>2
    <3>3. (f \o g)[Len(f) + i] = e  BY <2>1, <3>1
    <3> QED  BY <3>2, <3>3, <2>2 DEF ToSet
  <2> QED  BY <2>3, <2>4, <2>5
<1>3. ASSUME NEW f \in Seq(Nat) PROVE ToSet(f) \subseteq Nat /\ (f # <<>> => Head(f) \in ToSet(f))
  BY DEF ToSet
<1>4. ToSet(<<>>) = {}  BY DEF ToSet
<1> QED  BY <1>1, <1>2, <1>3, <1>4

(* What nested calls find, a call at a node finds. *)
LEMMA NodesFoundStep ==
  ASSUME Stored, NEW n \in Nat, RewritesFound(n)
  PROVE  NodesFound(n + 1)
<1> SUFFICES ASSUME NEW o \in Objects, NEW r \in Relations, NEW d \in Nat, NEW l \in Collections
             PROVE  NodeFound(o, r, d, l, Collecting(Live)[n + 1][AtNode(o, r, d, l)])
  BY DEF NodesFound
<1> DEFINE m == Collecting(Live)[n + 1][AtNode(o, r, d, l)]
           v == Visit(l, o, r)
           rw == RewriteOf(Live, o, r)
           p == Collecting(Live)[n][AtRewrite(o, r, rw, d, v)]
<1>1. m = IF d > MaxDepth \/ <<o, r>> \in l.visited THEN l ELSE p
  BY LiveType, CollectAtNode
<1>2. rw \in Rewrites  BY ClaimType
<1>3. v \in Collections  BY CollectionUpdates
<1>4. RewriteFound(o, r, rw, d, v, p)  BY <1>2, <1>3 DEF RewritesFound
<1> HIDE DEF p, m
<1>5. NodeFound(o, r, d, l, l)  BY ContinuesComposes DEF NodeFound
<1> HIDE DEF v
<1>6. Continues(l, v) /\ v.found = l.found  BY ContinuesComposes DEF v
<1>7. NodeFound(o, r, d, l, p)
  BY <1>3, <1>4, <1>6, ContinuesComposes DEF NodeFound, RewriteFound, DeepNode, Continues
<1> QED  BY <1>1, <1>5, <1>7 DEF m

(* What nested calls find, the loop over subjects finds. *)
LEMMA HopsFoundStep ==
  ASSUME Stored, NEW n \in Nat, NodesFound(n), AllHopsFound(n)
  PROVE  AllHopsFound(n + 1)
<1> SUFFICES ASSUME NEW o \in Objects, NEW r \in Relations, NEW d \in Nat, NEW l \in Collections,
                    NEW rw \in HoppingRewrites, NEW rest \in Seq(Subjects)
             PROVE  HopsFound(o, r, rw, d, l, Collecting(Live)[n + 1][AtHops(o, r, rw, rest, d, l)])
  BY DEF AllHopsFound
<1> DEFINE m == Collecting(Live)[n + 1][AtHops(o, r, rw, rest, d, l)]
           x == Head(rest)
           y == NextRelation(rw, x)
           member == IsMember(Live, o, r, rw, x)
           leads == LeadsFrom(Live, o, r, rw, x)
           node == Collecting(Live)[n][AtNode(x.ref, y, d + 1, l)]
           next == IF member THEN Find(l, d) ELSE IF leads THEN node ELSE l
           more == Collecting(Live)[n][AtHops(o, r, rw, Tail(rest), d, next)]
<1>1. m = IF rest = <<>> THEN l ELSE more  BY LiveType, CollectAtHops
<1> HIDE DEF m
<1> SUFFICES HopsFound(o, r, rw, d, l, m)  BY DEF m
<1>2. CASE rest = <<>>  BY <1>1, <1>2, ContinuesComposes DEF HopsFound
<1>3. CASE rest # <<>>
  <2>1. x \in Subjects /\ Tail(rest) \in Seq(Subjects)  BY <1>3, HeadTailProperties
  <2>2. leads <=> x \in Leading(o, r, rw)  BY <2>1, LiveType DEF LeadsFrom, Leading
  <2>3. leads => x.ref \in Objects /\ y \in Relations  BY <2>2, LeadingType
  <2>4. member => rw.kind = "this" /\ <<o, r, Direct(Target)>> \in tuples
    BY LiveType DEF IsMember
  <2> HIDE DEF leads, member, x
  <2>5. leads => NodeFound(x.ref, y, d + 1, l, node)
    <3> d + 1 \in Nat  OBVIOUS
    <3> QED  BY <2>3 DEF NodesFound
  <2>6. l.found \in Seq(Nat)  BY CollectionsType
  <2>7. HopsFound(o, r, rw, d, l, next)
    <3>1. CASE member
      <4>1. next = Find(l, d) /\ Find(l, d).found = Append(l.found, d)
        BY <3>1, CollectionUpdates
      <4>2. ToSet(Append(l.found, d)) = ToSet(l.found) \cup {d}  BY <2>6, SetOfAppend
      <4> QED  BY <3>1, <4>1, <4>2, <2>4, ContinuesComposes DEF HopsFound, DeepHop
    <3>2. CASE ~member /\ leads
      <4>1. next = node  BY <3>2
      <4> HIDE DEF node, next
      <4> QED  BY <4>1, <3>2, <2>2, <2>5 DEF HopsFound, DeepHop, NodeFound
    <3>3. CASE ~member /\ ~leads
      <4>1. next = l  BY <3>3
      <4> QED  BY <4>1, ContinuesComposes DEF HopsFound
    <3> QED  BY <3>1, <3>2, <3>3
  <2> HIDE DEF next
  <2>8. next \in Collections  BY <2>7 DEF HopsFound, Continues
  <2>9. HopsFound(o, r, rw, d, next, more)  BY <2>1, <2>8 DEF AllHopsFound
  <2> HIDE DEF more
  <2>10. HopsFound(o, r, rw, d, l, more)
    <3>1. Continues(l, more)  BY <2>7, <2>8, <2>9, ContinuesComposes DEF HopsFound, Continues
    <3>2. ~more.excluded => ~next.excluded  BY <2>9 DEF HopsFound, Continues
    <3> QED  BY <3>1, <3>2, <2>7, <2>9 DEF HopsFound
  <2> QED  BY <1>1, <1>3, <2>10
<1> QED  BY <1>2, <1>3

-----------------------------------------------------------------------------
(***************************************************************************)
(* What is found is proved: rewrites.                                      *)
(***************************************************************************)
(* A proof of a part is a proof of the rewrite. *)
LEMMA DeepByAStep ==
  ASSUME Stored, NEW o \in Objects, NEW r \in Relations, NEW rw \in Rewrites, NEW d \in Nat, NEW e
  PROVE  /\ rw.kind \in {"this", "tupleToUserset"} => (DeepHop(o, r, rw, d, e) => Deep(o, r, rw, d, e))
         /\ rw.kind = "computedUserset" => (DeepNode(o, rw.relation, d, e) => Deep(o, r, rw, d, e))
         /\ rw.kind = "union" /\ rw.children # <<>> =>
              (Deep(o, r, Head(rw.children), d, e) \/ Deep(o, r, Rest(rw), d, e) => Deep(o, r, rw, d, e))
<1>1. ASSUME rw.kind = "this", DeepHop(o, r, rw, d, e) PROVE Deep(o, r, rw, d, e)
  <2>0. rw = This  BY <1>1, RewriteCases
  <2>1. CASE <<o, r, Direct(Target)>> \in tuples /\ e = d
    <3>1. Holds(0 + 1, o, r, This, 0)  BY <2>1, ThisRules
    <3>2. e = d + 0 /\ 0 + 1 \in Nat /\ 0 \in Nat  BY <2>1
    <3> QED  BY <3>1, <3>2, <2>0 DEF Deep
  <2>2. CASE \E x \in Leading(o, r, rw) : DeepNode(x.ref, NextRelation(rw, x), d + 1, e)
    <3>1. PICK x \in Leading(o, r, rw), k \in Nat, h \in Nat :
            e = d + 1 + h /\ NextHolds(k, rw, x, h)
      BY <2>2 DEF DeepNode, Deep, NextHolds, NodeHolds
    <3>2. h + 1 > 0 /\ h + 1 - 1 = h /\ h + 1 \in Nat /\ k + 1 \in Nat /\ e = d + (h + 1)  BY <3>1
    <3>3. x \in Leading(o, r, This) /\ NextHolds(k, This, x, h + 1 - 1)  BY <2>0, <3>1, <3>2
    <3>4. h + 1 > 0 /\ \E z \in Leading(o, r, This) : NextHolds(k, This, z, h + 1 - 1)
      BY <3>2, <3>3
    <3> DEFINE i == h + 1
    <3> HIDE DEF i
    <3>5. i \in Nat /\ i > 0 /\ \E z \in Leading(o, r, This) : NextHolds(k, This, z, i - 1)
      BY <3>2, <3>4 DEF i
    <3>6. Holds(k + 1, o, r, This, i)  BY <3>1, <3>5, ThisRules
    <3>7. Holds(k + 1, o, r, This, h + 1)  BY <3>6 DEF i
    <3> QED  BY <3>2, <3>7, <2>0 DEF Deep
  <2> QED  BY <1>1, <2>1, <2>2 DEF DeepHop
<1>2. ASSUME rw.kind = "tupleToUserset", DeepHop(o, r, rw, d, e) PROVE Deep(o, r, rw, d, e)
  <2>1. PICK x \in Leading(o, r, rw), k \in Nat, h \in Nat :
          e = d + 1 + h /\ NextHolds(k, rw, x, h)
    BY <1>2 DEF DeepHop, DeepNode, Deep, NextHolds, NodeHolds
  <2>2. h + 1 > 0 /\ h + 1 - 1 = h /\ h + 1 \in Nat /\ k + 1 \in Nat /\ e = d + (h + 1)  BY <2>1
  <2>3. Holds(k + 1, o, r, rw, h + 1)  BY <1>2, <2>1, <2>2, TupleToRules
  <2> QED  BY <2>2, <2>3 DEF Deep
<1>3. ASSUME rw.kind = "computedUserset", DeepNode(o, rw.relation, d, e) PROVE Deep(o, r, rw, d, e)
  <2>1. PICK k \in Nat, h \in Nat : e = d + h /\ NodeHolds(k, o, rw.relation, h)
    BY <1>3 DEF DeepNode, Deep, NodeHolds
  <2>2. k + 1 \in Nat /\ Holds(k + 1, o, r, rw, h)  BY <1>3, <2>1, ComputedRules
  <2> QED  BY <2>1, <2>2 DEF Deep
<1>4. ASSUME rw.kind = "union", rw.children # <<>>, Deep(o, r, Head(rw.children), d, e)
      PROVE  Deep(o, r, rw, d, e)
  <2>1. PICK k \in Nat, h \in Nat : e = d + h /\ Holds(k, o, r, Head(rw.children), h)
    BY <1>4 DEF Deep
  <2>2. Head(rw.children) \in Operands(rw)  BY <1>4, RestType
  <2>3. \E x \in Operands(rw) : Holds(k, o, r, x, h)  BY <2>1, <2>2
  <2>4. Holds(k + 1, o, r, rw, h)  BY <1>4, <2>3, UnionRules
  <2>5. k + 1 \in Nat  OBVIOUS
  <2> QED  BY <2>1, <2>4, <2>5 DEF Deep
<1>5. ASSUME rw.kind = "union", rw.children # <<>>, Deep(o, r, Rest(rw), d, e)
      PROVE  Deep(o, r, rw, d, e)
  <2>1. PICK k \in Nat, h \in Nat : e = d + h /\ Holds(k, o, r, Rest(rw), h)
    BY <1>5 DEF Deep
  <2>2. Rest(rw) \in Rewrites /\ Rest(rw).kind = "union" /\ Operands(Rest(rw)) \subseteq Operands(rw)
    BY <1>5, RestType
  <2>3. k - 1 \in Nat /\ Holds(k - 1 + 1, o, r, Rest(rw), h)  BY <2>1, <2>2, HoldsByAStep
  <2>4. \E x \in Operands(Rest(rw)) : Holds(k - 1, o, r, x, h)  BY <2>1, <2>2, <2>3, UnionRules
  <2>5. Holds(k - 1 + 1, o, r, rw, h)  BY <1>5, <2>1, <2>2, <2>3, <2>4, UnionRules
  <2>6. k - 1 + 1 \in Nat  BY <2>3
  <2> QED  BY <2>1, <2>5, <2>6 DEF Deep
<1> QED  BY <1>1, <1>2, <1>3, <1>4, <1>5

(* The deeper of two proofs of operands proves an intersection. *)
LEMMA DeepTogether ==
  ASSUME Stored, NEW o \in Objects, NEW r \in Relations, NEW rw \in Rewrites,
         rw.kind = "intersection", rw.children # <<>>, NEW d \in Nat
  PROVE  /\ \A a, b : Deep(o, r, Head(rw.children), d, a) /\ Deep(o, r, Rest(rw), d, b)
                        => Deep(o, r, rw, d, Deeper(a, b))
         /\ \A a : Len(rw.children) = 1 /\ Deep(o, r, Head(rw.children), d, a)
                        => Deep(o, r, rw, d, a)
<1> DEFINE x == Head(rw.children)
<1>0. /\ Rest(rw) \in Rewrites /\ Rest(rw).kind = "intersection" /\ x \in Rewrites
      /\ Operands(rw) = {x} \cup Operands(Rest(rw)) /\ Rest(rw).children = Tail(rw.children)
  BY RestType
<1> HIDE DEF x
<1>1. ASSUME NEW a, NEW b, Deep(o, r, x, d, a), Deep(o, r, Rest(rw), d, b)
      PROVE  Deep(o, r, rw, d, Deeper(a, b))
  <2>1. PICK k \in Nat, h \in Nat : a = d + h /\ Holds(k, o, r, x, h)  BY <1>1 DEF Deep
  <2>2. PICK l \in Nat, g \in Nat : b = d + g /\ Holds(l, o, r, Rest(rw), g)  BY <1>1 DEF Deep
  <2>3. l - 1 \in Nat /\ Holds(l - 1 + 1, o, r, Rest(rw), g)  BY <1>0, <2>2, HoldsByAStep
  <2>4. \A y \in Operands(Rest(rw)) : Holds(l - 1, o, r, y, g)
    BY <1>0, <2>2, <2>3, IntersectionRules
  <2> DEFINE m == IF k >= l - 1 THEN k ELSE l - 1
             i == IF h >= g THEN h ELSE g
  <2>5. m \in Nat /\ k <= m /\ l - 1 <= m /\ i \in Nat /\ h <= i /\ g <= i /\ Deeper(a, b) = d + i
    BY <2>1, <2>2, <2>3 DEF Deeper
  <2> HIDE DEF m, i
  <2>6. Holds(m, o, r, x, i)
    <3>1. Holds(m, o, r, x, h)  BY <1>0, <2>1, <2>5, KnownGrows
    <3> QED  BY <3>1, <1>0, <2>5, MoreHops
  <2>7. ASSUME NEW y \in Operands(Rest(rw)) PROVE Holds(m, o, r, y, i)
    <3>1. y \in Rewrites  BY <1>0, OperandsType
    <3>2. Holds(m, o, r, y, g)  BY <3>1, <2>2, <2>3, <2>4, <2>5, KnownGrows
    <3> QED  BY <3>1, <3>2, <2>2, <2>5, MoreHops
  <2>8. Holds(m + 1, o, r, rw, i)  BY <1>0, <2>5, <2>6, <2>7, IntersectionRules
  <2>9. m + 1 \in Nat  BY <2>5
  <2> QED  BY <2>5, <2>8, <2>9 DEF Deep
<1>2. ASSUME NEW a, Len(rw.children) = 1, Deep(o, r, x, d, a) PROVE Deep(o, r, rw, d, a)
  <2>1. PICK k \in Nat, h \in Nat : a = d + h /\ Holds(k, o, r, x, h)  BY <1>2 DEF Deep
  <2>2. rw.children \in Seq(Rewrites)  BY RewriteCases
  <2>3. Tail(rw.children) = <<>>
    <3>1. Tail(rw.children) \in Seq(Rewrites) /\ Len(Tail(rw.children)) = 0
      BY <1>2, <2>2
    <3> QED  BY <3>1, EmptySeq
  <2>4. Operands(Rest(rw)) = {}  BY <1>0, <2>3, OperandsType
  <2>5. Holds(k + 1, o, r, rw, h) /\ k + 1 \in Nat  BY <1>0, <2>1, <2>4, IntersectionRules
  <2> QED  BY <2>1, <2>5 DEF Deep
<1> QED  BY <1>1, <1>2 DEF x

(* An element of a sequence is at one of its positions. *)
LEMMA MemberOfSequence ==
  ASSUME NEW s, NEW e \in ToSet(s)
  PROVE  \E i \in DOMAIN s : e = s[i]
BY DEF ToSet

(* A depth of the members of both is the deeper of two depths. *)
LEMMA SetOfBoth ==
  ASSUME NEW f \in Seq(Nat), NEW g \in Seq(Nat), NEW e \in ToSet(Both(f, g))
  PROVE  \E a \in ToSet(f), b \in ToSet(g) : e = Deeper(a, b)
<1> DEFINE both == Both(f, g)
<1> HIDE DEF both
<1>1. /\ both \in Seq(Nat) /\ e \in ToSet(both)
      /\ g = <<>> => both = <<>>
      /\ g # <<>> => /\ Len(both) = Len(f)
                     /\ \A j \in 1 .. Len(f) : both[j] = Deeper(f[j], Head(g))
  BY BothType DEF both
<1>2. PICK i \in DOMAIN both : e = both[i]  BY <1>1, MemberOfSequence
<1>3. g # <<>>
  <2>1. both = <<>> => i \in {}  BY <1>2
  <2> QED  BY <1>1, <2>1
<1>4. i \in 1 .. Len(f) /\ i \in DOMAIN f  BY <1>1, <1>2, <1>3
<1>5. f[i] \in ToSet(f)  BY <1>4 DEF ToSet
<1>6. Head(g) \in ToSet(g)  BY <1>3, SetOfAppend
<1> QED  BY <1>1, <1>2, <1>3, <1>4, <1>5, <1>6

(* What nested calls find, a call at a rewrite finds. *)
LEMMA RewritesFoundStep ==
  ASSUME Stored, NEW n \in Nat, NodesFound(n), RewritesFound(n), AllHopsFound(n)
  PROVE  RewritesFound(n + 1)
<1> SUFFICES ASSUME NEW o \in Objects, NEW r \in Relations, NEW d \in Nat, NEW l \in Collections,
                    NEW rw \in Rewrites
             PROVE  RewriteFound(o, r, rw, d, l, Collecting(Live)[n + 1][AtRewrite(o, r, rw, d, l)])
  BY DEF RewritesFound
<1> DEFINE run == Collecting(Live)[n]
           m == Collecting(Live)[n + 1][AtRewrite(o, r, rw, d, l)]
<1>0. /\ Snapshot(Live) /\ l.found \in Seq(Nat)
      /\ Operand(l) \in Collections /\ Operand(l).found = <<>> /\ Operand(l).visited = {}
      /\ Operand(l).excluded = l.excluded /\ Operand(l).cut = l.cut
  BY LiveType, CollectionsType
<1>1. \A x \in Rewrites, p \in Collections : RewriteFound(o, r, x, d, p, run[AtRewrite(o, r, x, d, p)])
  BY DEF RewritesFound
<1>2. CASE rw.kind \in {"this", "tupleToUserset"}
  <2>1. rw \in HoppingRewrites  BY <1>2 DEF HoppingRewrites
  <2>2. config.order \in Seq(Subjects)  BY OrderType
  <2>3. m = run[AtHops(o, r, rw, config.order, d, l)]  BY <1>0, <1>2, CollectAtLoop
  <2>4. HopsFound(o, r, rw, d, l, m)  BY <2>1, <2>2, <2>3 DEF AllHopsFound
  <2> HIDE DEF m
  <2>5. RewriteFound(o, r, rw, d, l, m)  BY <1>2, <2>4, DeepByAStep DEF HopsFound, RewriteFound
  <2> QED  BY <2>5 DEF m
<1>3. CASE rw.kind = "computedUserset"
  <2>1. rw.relation \in Relations  BY <1>3, RewriteCases
  <2>2. Snapshot(Live)  BY LiveType
  <2>3. m = run[AtNode(o, rw.relation, d, l)]  BY <2>2, <1>3, CollectAtComputed
  <2>4. NodeFound(o, rw.relation, d, l, m)  BY <2>1, <2>3 DEF NodesFound
  <2> HIDE DEF m
  <2>5. RewriteFound(o, r, rw, d, l, m)  BY <1>3, <2>4, DeepByAStep DEF NodeFound, RewriteFound
  <2> QED  BY <2>5 DEF m
<1>4. CASE rw.kind = "union"
  <2> DEFINE first == run[AtRewrite(o, r, Head(rw.children), d, l)]
             others == run[AtRewrite(o, r, Rest(rw), d, first)]
  <2>1. m = IF rw.children = <<>> THEN l ELSE others  BY <1>0, <1>4, CollectAtUnion
  <2> HIDE DEF m
  <2>2. CASE rw.children = <<>>
    <3>1. RewriteFound(o, r, rw, d, l, m)  BY <2>1, <2>2, ContinuesComposes DEF RewriteFound
    <3> QED  BY <3>1 DEF m
  <2>3. CASE rw.children # <<>>
    <3>1. Head(rw.children) \in Rewrites /\ Rest(rw) \in Rewrites  BY <1>4, <2>3, RestType
    <3>2. RewriteFound(o, r, Head(rw.children), d, l, first)  BY <1>1, <3>1
    <3> HIDE DEF first
    <3>3. first \in Collections  BY <3>2 DEF RewriteFound, Continues
    <3>4. RewriteFound(o, r, Rest(rw), d, first, others)  BY <1>1, <3>1, <3>3
    <3> HIDE DEF others
    <3>5. Continues(l, others)
      BY <3>2, <3>3, <3>4, ContinuesComposes DEF RewriteFound, Continues
    <3>6. ~others.excluded => ~first.excluded  BY <3>4 DEF RewriteFound, Continues
    <3>7. RewriteFound(o, r, rw, d, l, others)
      BY <1>4, <2>3, <3>2, <3>4, <3>5, <3>6, DeepByAStep DEF RewriteFound
    <3> QED  BY <2>1, <2>3, <3>7 DEF m
  <2> QED  BY <2>2, <2>3
<1>5. CASE rw.kind = "intersection"
  <2> DEFINE first == run[AtRewrite(o, r, Head(rw.children), d, Operand(l))]
             others == run[AtRewrite(o, r, Rest(rw), d, Operand(first))]
  <2>1. m = IF rw.children = <<>> THEN l ELSE Intersected(rw, l, first, others)
    BY <1>0, <1>5, CollectAtIntersection
  <2> HIDE DEF m
  <2>2. CASE rw.children = <<>>
    <3>1. RewriteFound(o, r, rw, d, l, m)  BY <2>1, <2>2, ContinuesComposes DEF RewriteFound
    <3> QED  BY <3>1 DEF m
  <2>3. CASE rw.children # <<>>
    <3>1. Head(rw.children) \in Rewrites /\ Rest(rw) \in Rewrites  BY <1>5, <2>3, RestType
    <3>2. RewriteFound(o, r, Head(rw.children), d, Operand(l), first)  BY <1>0, <1>1, <3>1
    <3> HIDE DEF first
    <3>3. first \in Collections  BY <3>2 DEF RewriteFound, Continues
    <3>4. /\ Operand(first) \in Collections /\ Operand(first).found = <<>>
          /\ Operand(first).excluded = first.excluded /\ Operand(first).cut = first.cut
          /\ first.found \in Seq(Nat)
      BY <3>3, CollectionsType
    <3>5. RewriteFound(o, r, Rest(rw), d, Operand(first), others)  BY <1>1, <3>1, <3>4
    <3> HIDE DEF others
    <3>6. others \in Collections  BY <3>5 DEF RewriteFound, Continues
    <3>7. others.found \in Seq(Nat)  BY <3>6, CollectionsType
    <3> DEFINE members == InBoth(rw, first, others)
               p == Intersected(rw, l, first, others)
    <3>8. members = IF Len(rw.children) = 1 THEN first.found
                    ELSE Both(first.found, others.found)
      BY DEF InBoth
    <3>9. /\ p \in Collections /\ p.excluded = others.excluded /\ p.cut = others.cut
          /\ p.found = l.found \o members /\ members \in Seq(Nat)
          /\ Len(p.found) = Len(l.found) + Len(members)
      BY <3>3, <3>6, IntersectedType
    <3> HIDE DEF p, members
    <3>10. ~others.excluded => ~first.excluded  BY <3>4, <3>5 DEF RewriteFound, Continues
    <3>11. \A e : ~others.excluded /\ e \in ToSet(first.found) => Deep(o, r, Head(rw.children), d, e)
      <4>1. ToSet(Operand(l).found) = {}  BY <1>0, SetOfAppend
      <4> QED  BY <3>2, <3>10, <4>1 DEF RewriteFound
    <3>12. \A e : ~others.excluded /\ e \in ToSet(others.found) => Deep(o, r, Rest(rw), d, e)
      <4>1. ToSet(Operand(first).found) = {}  BY <3>4, SetOfAppend
      <4> QED  BY <3>5, <4>1 DEF RewriteFound
    <3>13. ASSUME ~others.excluded, NEW e \in ToSet(members) PROVE Deep(o, r, rw, d, e)
      <4>1. CASE Len(rw.children) = 1
        BY <4>1, <3>8, <3>13, <3>11, <1>5, <2>3, DeepTogether
      <4>2. CASE Len(rw.children) # 1
        <5>1. e \in ToSet(Both(first.found, others.found))  BY <3>8, <3>13, <4>2
        <5>2. PICK a \in ToSet(first.found), b \in ToSet(others.found) : e = Deeper(a, b)
          BY <5>1, <3>4, <3>7, SetOfBoth
        <5> QED  BY <5>2, <3>13, <3>11, <3>12, <1>5, <2>3, DeepTogether
      <4> QED  BY <4>1, <4>2
    <3>14. ToSet(p.found) = ToSet(l.found) \cup ToSet(members)
      BY <1>0, <3>9, SetOfAppend
    <3>15. Len(l.found) <= Len(p.found)  BY <1>0, <3>9
    <3>16. Continues(l, p)
      BY <1>0, <3>2, <3>4, <3>5, <3>9, <3>15 DEF RewriteFound, Continues
    <3>17. RewriteFound(o, r, rw, d, l, p)  BY <3>9, <3>13, <3>14, <3>16 DEF RewriteFound
    <3> QED  BY <2>1, <2>3, <3>17 DEF m, p
  <2> QED  BY <2>2, <2>3
<1>6. CASE rw.kind = "exclusion"
  <2> DEFINE base == run[AtRewrite(o, r, rw.base, d, Operand(l))]
             subtract == run[AtRewrite(o, r, rw.subtract, d, Operand(base))]
             p == Excluded(l, base, subtract)
  <2>1. Snapshot(Live)  BY LiveType
  <2>2. m = p  BY <2>1, <1>6, CollectAtExclusion
  <2> HIDE DEF m
  <2>3. rw.base \in Rewrites /\ rw.subtract \in Rewrites  BY <1>6, RewriteCases
  <2>4. RewriteFound(o, r, rw.base, d, Operand(l), base)  BY <1>0, <1>1, <2>3
  <2> HIDE DEF base
  <2>5. base \in Collections  BY <2>4 DEF RewriteFound, Continues
  <2>6. /\ Operand(base) \in Collections /\ Operand(base).cut = base.cut
        /\ base.found \in Seq(Nat)
    BY <2>5, CollectionsType
  <2>7. RewriteFound(o, r, rw.subtract, d, Operand(base), subtract)  BY <1>1, <2>3, <2>6
  <2> HIDE DEF subtract
  <2>8. subtract \in Collections  BY <2>7 DEF RewriteFound, Continues
  <2> DEFINE members == InBase(base, subtract)
  <2>9. /\ p \in Collections /\ p.excluded /\ p.cut = subtract.cut
        /\ members \in Seq(Nat) /\ Len(p.found) = Len(l.found) + Len(members)
    BY <2>5, <2>8, ExcludedType
  <2> HIDE DEF p, members
  <2>10. Len(l.found) <= Len(p.found)  BY <1>0, <2>9
  <2>11. Continues(l, p)
    BY <1>0, <2>4, <2>6, <2>7, <2>9, <2>10 DEF RewriteFound, Continues
  <2>12. RewriteFound(o, r, rw, d, l, p)  BY <2>9, <2>11 DEF RewriteFound
  <2> QED  BY <2>2, <2>12 DEF m
<1>7. rw.kind \in {"this", "tupleToUserset"} \/ rw.kind = "computedUserset" \/ rw.kind = "union"
      \/ rw.kind = "intersection" \/ rw.kind = "exclusion"
  BY RewriteCases
<1> QED  BY <1>2, <1>3, <1>4, <1>5, <1>6, <1>7

(* No call of collect loses what it had, and what it finds is proved at    *)
(* the depth that it says unless the closure crosses an exclusion.         *)
LEMMA CollectionsAreSound ==
  ASSUME Stored
  PROVE  \A n \in Nat : NodesFound(n) /\ RewritesFound(n) /\ AllHopsFound(n)
<1> DEFINE Good == {n \in Nat : NodesFound(n) /\ RewritesFound(n) /\ AllHopsFound(n)}
<1>1. 0 \in Good
  <2>1. \A c \in CallsOfCollections : Collecting(Live)[0][c] = Cut(c.w)
    BY LiveType, CollectingEquations
  <2>2. ASSUME NEW l \in Collections
        PROVE  Continues(l, Cut(l)) /\ Cut(l).found = l.found
    BY ContinuesComposes, CollectionUpdates
  <2>3. ASSUME NEW o \in Objects, NEW r \in Relations, NEW d \in Nat, NEW l \in Collections
        PROVE  NodeFound(o, r, d, l, Collecting(Live)[0][AtNode(o, r, d, l)])
    <3>1. Collecting(Live)[0][AtNode(o, r, d, l)] = Cut(l)
      BY <2>1, NodeCall DEF CallsOfCollections
    <3> QED  BY <3>1, <2>2 DEF NodeFound
  <2>4. ASSUME NEW o \in Objects, NEW r \in Relations, NEW d \in Nat, NEW l \in Collections,
               NEW rw \in Rewrites
        PROVE  RewriteFound(o, r, rw, d, l, Collecting(Live)[0][AtRewrite(o, r, rw, d, l)])
    <3>1. Collecting(Live)[0][AtRewrite(o, r, rw, d, l)] = Cut(l)
      BY <2>1, RewriteCall DEF CallsOfCollections
    <3> QED  BY <3>1, <2>2 DEF RewriteFound
  <2>5. ASSUME NEW o \in Objects, NEW r \in Relations, NEW d \in Nat, NEW l \in Collections,
               NEW rw \in HoppingRewrites, NEW rest \in Seq(Subjects)
        PROVE  HopsFound(o, r, rw, d, l, Collecting(Live)[0][AtHops(o, r, rw, rest, d, l)])
    <3>1. Collecting(Live)[0][AtHops(o, r, rw, rest, d, l)] = Cut(l)
      BY <2>1, HopsCall DEF CallsOfCollections
    <3> QED  BY <3>1, <2>2 DEF HopsFound
  <2> QED  BY <2>3, <2>4, <2>5 DEF NodesFound, RewritesFound, AllHopsFound
<1>2. ASSUME NEW n \in Nat, n \in Good PROVE n + 1 \in Good
  BY <1>2, NodesFoundStep, RewritesFoundStep, HopsFoundStep
<1> HIDE DEF Good
<1>3. \A n \in Nat : n \in Good  BY <1>1, <1>2, EveryNatural
<1> QED  BY <1>3 DEF Good

-----------------------------------------------------------------------------
(***************************************************************************)
(* The membership index.                                                   *)
(***************************************************************************)
(* flattenSet lists the target at the depth of a proof. *)
LEMMA FlattenedSetIsSound ==
  ASSUME Stored, NEW o \in Objects, NEW r \in Relations
  PROVE  LET m == FlattenedSet(Live, o, r)
         IN /\ m \in Collections /\ m.found \in Seq(Nat)
            /\ ~m.excluded => \A e \in ToSet(m.found) : \E k \in Nat : NodeHolds(k, o, r, e)
<1> DEFINE m == FlattenedSet(Live, o, r)
<1>1. Empty \in Collections /\ 0 \in Nat /\ MaxCalls \in Nat
  BY CollectionsType, EvaluationAssumption
<1>2. NodesFound(MaxCalls)  BY <1>1, CollectionsAreSound
<1>3. m = Collecting(Live)[MaxCalls][AtNode(o, r, 0, Empty)]  BY DEF FlattenedSet
<1>4. NodeFound(o, r, 0, Empty, m)  BY <1>1, <1>2, <1>3 DEF NodesFound
<1> HIDE DEF m
<1>5. m \in Collections  BY <1>4 DEF NodeFound, Continues
<1>6. m.found \in Seq(Nat)  BY <1>5, CollectionsType
<1>7. ASSUME ~m.excluded, NEW e \in ToSet(m.found) PROVE \E k \in Nat : NodeHolds(k, o, r, e)
  <2>1. Empty.found = <<>>  BY DEF Empty
  <2>2. e \notin ToSet(Empty.found)  BY <2>1, SetOfAppend
  <2>3. DeepNode(o, r, 0, e)  BY <1>4, <1>7, <2>2 DEF NodeFound
  <2>4. PICK k \in Nat, h \in Nat : e = 0 + h /\ NodeHolds(k, o, r, h)
    BY <2>3 DEF DeepNode, Deep, NodeHolds
  <2>5. e = h  BY <2>4
  <2> QED  BY <2>4, <2>5
<1> QED  BY <1>5, <1>6, <1>7 DEF m

(* The sets that reindexOrg flattens, and those that it keeps. *)
Referenced == {<<t[3].ref, t[3].relation>> : t \in {x \in tuples : x[3].kind = "userset"}}

Indexed ==
  {n \in Referenced : /\ ~FlattenedSet(Live, n[1], n[2]).excluded
                      /\ FlattenedSet(Live, n[1], n[2]).found # <<>>}

(* The index has the least depth that flattenSet found. *)
LEMMA FreshIndexMeans ==
  FreshIndex = [n \in Indexed |->
                  CHOOSE d \in ToSet(FlattenedSet(Live, n[1], n[2]).found) :
                    \A e \in ToSet(FlattenedSet(Live, n[1], n[2]).found) : d <= e]
<1> DEFINE flat == [n \in Referenced |-> FlattenedSet(Live, n[1], n[2])]
           hits == {n \in Referenced : Indexable(flat[n]) /\ flat[n].found # <<>>}
<1>1. hits = Indexed  BY DEF Indexed, Indexable
<1>2. FreshIndex = [n \in hits |-> LET depths == ToSet(flat[n].found)
                                   IN CHOOSE d \in depths : \A e \in depths : d <= e]
  BY DEF FreshIndex, Live, Referenced
<1>3. \A n \in Indexed : flat[n] = FlattenedSet(Live, n[1], n[2])  BY DEF Indexed
<1> HIDE DEF flat, hits
<1> QED  BY <1>1, <1>2, <1>3

(* reindexOrg indexes only what is proved, at the depth of a proof. *)
LEMMA FreshIndexIsSound ==
  ASSUME Stored
  PROVE  SoundIndex(FreshIndex)
<1> SUFFICES ASSUME NEW o \in Objects, NEW r \in Relations, <<o, r>> \in DOMAIN FreshIndex
             PROVE  /\ FreshIndex[<<o, r>>] \in Nat
                    /\ \E k \in Nat : NodeHolds(k, o, r, FreshIndex[<<o, r>>])
  BY DEF SoundIndex
<1> DEFINE f == FlattenedSet(Live, o, r).found
           depths == ToSet(f)
           i == FreshIndex[<<o, r>>]
<1>1. /\ <<o, r>> \in Indexed
      /\ i = CHOOSE d \in depths : \A e \in depths : d <= e
  BY FreshIndexMeans
<1>2. f # <<>> /\ ~FlattenedSet(Live, o, r).excluded  BY <1>1 DEF Indexed
<1>3. f \in Seq(Nat)  BY FlattenedSetIsSound
<1> HIDE DEF f, i
<1>4. depths \in SUBSET Nat /\ depths # {}  BY <1>2, <1>3, SetOfAppend
<1>5. \E d \in depths : \A e \in depths : d <= e  BY <1>4, LeastElement
<1> HIDE DEF depths
<1>6. i \in depths  BY <1>1, <1>5
<1>7. \E k \in Nat : NodeHolds(k, o, r, i)
  BY <1>2, <1>6, FlattenedSetIsSound DEF depths, f
<1> QED  BY <1>4, <1>6, <1>7 DEF i

(* evaluate with a fresh index is exact. *)
LEMMA IndexedIsExact ==
  ASSUME Stored
  PROVE  Exact(Evaluate(FullSnapshot(FreshIndex)))
BY FreshIndexIsSound, EvaluateIsSound

-----------------------------------------------------------------------------
(***************************************************************************)
(* The indexed walk is ahead of the live one: nodes and loops.             *)
(***************************************************************************)
(* A node in V has a proof. *)
Provable(V) == \E m \in V : \E k \in Nat, h \in Nat : NodeHolds(k, m[1], m[2], h)

(* Nodes that a walk left closed are not proved. *)
LEMMA ClosedHasNoProof ==
  ASSUME NEW V, Closed({}, V)
  PROVE  ~Provable(V)
<1> SUFFICES ASSUME NEW m \in V, NEW k \in Nat, NEW h \in Nat, NodeHolds(k, m[1], m[2], h)
             PROVE  FALSE
  BY DEF Provable
<1>1. Shut(m[1], m[2], RewriteOf(Live, m[1], m[2]), V)  BY DEF Closed
<1>2. Unproved(m[1], m[2], RewriteOf(Live, m[1], m[2]))  BY <1>1, ClosedProvesNothing
<1> QED  BY <1>2 DEF Unproved, NodeHolds

(* More nodes have more proofs. *)
LEMMA ProvableGrows ==
  ASSUME NEW V, NEW W, V \subseteq W, Provable(V)
  PROVE  Provable(W)
BY DEF Provable

(* An intersection leaves the nodes that were visited as they were. *)
LEMMA IntersectionVisitsNothing ==
  ASSUME Stored, NEW s, Snapshot(s), NEW o \in Objects, NEW r \in Relations, NEW d \in Nat
  PROVE  \A n \in Nat : \A rw \in Rewrites, w \in Walks :
           rw.kind = "intersection" =>
             Deriving(s)[n][AtRewrite(o, r, rw, d, w)].visited = w.visited
<1> DEFINE Good == {n \in Nat : \A rw \in Rewrites, w \in Walks :
                      rw.kind = "intersection" =>
                        Deriving(s)[n][AtRewrite(o, r, rw, d, w)].visited = w.visited}
<1>1. 0 \in Good
  <2> SUFFICES ASSUME NEW rw \in Rewrites, NEW w \in Walks
               PROVE  Deriving(s)[0][AtRewrite(o, r, rw, d, w)].visited = w.visited
    OBVIOUS
  <2>1. Deriving(s)[0][AtRewrite(o, r, rw, d, w)] = Truncate(w)
    <3>1. AtRewrite(o, r, rw, d, w) \in CallsOfWalks /\ AtRewrite(o, r, rw, d, w).w = w
      BY RewriteCall DEF CallsOfWalks
    <3> QED  BY <3>1, DerivingEquations
  <2> QED  BY <2>1, WalksType
<1>2. ASSUME NEW n \in Nat, n \in Good PROVE n + 1 \in Good
  <2> SUFFICES ASSUME NEW rw \in Rewrites, NEW w \in Walks, rw.kind = "intersection"
               PROVE  Deriving(s)[n + 1][AtRewrite(o, r, rw, d, w)].visited = w.visited
    OBVIOUS
  <2> DEFINE v == Deriving(s)[n + 1][AtRewrite(o, r, rw, d, w)]
             sub == Deriving(s)[n][AtRewrite(o, r, Head(rw.children), d, Fresh)]
             more == Deriving(s)[n][AtRewrite(o, r, Rest(rw), d, w)]
  <2>1. v = IF rw.children = <<>> THEN Grant(w)
            ELSE IF sub.truncated THEN Truncate(w) ELSE IF sub.grant THEN more ELSE w
    BY DeriveAtIntersection
  <2>2. rw.children # <<>> => more.visited = w.visited
    <3>1. rw.children # <<>> => Rest(rw) \in Rewrites /\ Rest(rw).kind = "intersection"
      BY RestType
    <3> QED  BY <1>2, <3>1
  <2>3. Grant(w).visited = w.visited /\ Truncate(w).visited = w.visited  BY WalksType
  <2> HIDE DEF v, sub, more
  <2>4. v.visited = w.visited  BY <2>1, <2>2, <2>3
  <2> QED  BY <2>4 DEF v
<1> HIDE DEF Good
<1>3. \A n \in Nat : n \in Good  BY <1>1, <1>2, EveryNatural
<1> QED  BY <1>3 DEF Good

(* The indexed walk z is ahead of the live walk w: it grants what w grants, *)
(* and what it grants alone has a proof that w has yet to come to.          *)
Ahead(w, z) ==
  /\ z.truncated => w.truncated
  /\ w.grant => z.grant
  /\ ~w.grant /\ ~z.grant => w.visited = z.visited
  /\ z.grant /\ ~w.grant /\ ~w.truncated => Provable(w.visited)

AheadAtNodes(s, n) ==
  \A o \in Objects, r \in Relations, d \in Nat, w \in Walks, z \in Walks :
    ~w.grant /\ ~z.grant /\ Ahead(w, z) =>
      Ahead(Deriving(Live)[n][AtNode(o, r, d, w)], Deriving(s)[n][AtNode(o, r, d, z)])

AheadAtRewrites(s, n) ==
  \A o \in Objects, r \in Relations, d \in 0 .. MaxDepth, w \in Walks, z \in Walks, rw \in Rewrites :
    ~w.grant /\ ~z.grant /\ Ahead(w, z) =>
      Ahead(Deriving(Live)[n][AtRewrite(o, r, rw, d, w)], Deriving(s)[n][AtRewrite(o, r, rw, d, z)])

AheadAtHops(s, n) ==
  \A o \in Objects, r \in Relations, d \in 0 .. MaxDepth, w \in Walks, z \in Walks,
     rw \in HoppingRewrites, rest \in Seq(Subjects) :
    ~w.grant /\ ~z.grant /\ Ahead(w, z) =>
      Ahead(Deriving(Live)[n][AtHops(o, r, rw, rest, d, w)],
            Deriving(s)[n][AtHops(o, r, rw, rest, d, z)])

(* Updating both walks leaves the second ahead. *)
LEMMA AheadUpdates ==
  ASSUME NEW w \in Walks, NEW z \in Walks, Ahead(w, z), ~w.grant, ~z.grant
  PROVE  /\ Ahead(Grant(w), Grant(z))
         /\ Ahead(Truncate(w), Truncate(z)) /\ Ahead(Truncate(w), z)
         /\ \A o \in Objects, r \in Relations : Ahead(Visit(w, o, r), Visit(z, o, r))
BY WalksType DEF Ahead, Visit

(* A call after which the walk goes on, or not. *)
LEMMA AheadComposes ==
  ASSUME NEW v \in Walks, NEW u \in Walks, Ahead(v, u), NEW v2 \in Walks, NEW u2 \in Walks,
         ~v.grant => Extends(v, v2),
         ~v.grant /\ ~u.grant => Ahead(v2, u2),
         NEW p, p = IF v.grant THEN v ELSE v2,
         NEW q, q = IF u.grant THEN u ELSE u2
  PROVE  Ahead(p, q)
<1>1. CASE v.grant  BY <1>1 DEF Ahead
<1>2. CASE ~v.grant /\ u.grant
  <2>1. p = v2 /\ q = u /\ v.visited \subseteq v2.visited /\ (v.truncated => v2.truncated)
    BY <1>2 DEF Extends
  <2>2. ~v2.truncated => Provable(v2.visited)
    BY <1>2, <2>1, ProvableGrows DEF Ahead
  <2> QED  BY <1>2, <2>1, <2>2 DEF Ahead
<1>3. CASE ~v.grant /\ ~u.grant  BY <1>3
<1> QED  BY <1>1, <1>2, <1>3

(* Visiting a node gives a walk. *)
LEMMA VisitType ==
  ASSUME NEW w \in Walks, NEW o \in Objects, NEW r \in Relations
  PROVE  /\ Visit(w, o, r) \in Walks /\ Visit(w, o, r).grant = w.grant
         /\ Visit(w, o, r).visited = w.visited \cup {<<o, r>>}
BY WalksType DEF Visit

(* What nested calls keep ahead, a call at a node keeps ahead. *)
LEMMA AheadNodeStep ==
  ASSUME Stored, NEW index, NEW n \in Nat, AheadAtRewrites(FullSnapshot(index), n)
  PROVE  AheadAtNodes(FullSnapshot(index), n + 1)
<1> DEFINE s == FullSnapshot(index)
<1> SUFFICES ASSUME NEW o \in Objects, NEW r \in Relations, NEW d \in Nat,
                    NEW w \in Walks, NEW z \in Walks, ~w.grant, ~z.grant, Ahead(w, z)
             PROVE  Ahead(Deriving(Live)[n + 1][AtNode(o, r, d, w)],
                          Deriving(s)[n + 1][AtNode(o, r, d, z)])
  BY DEF AheadAtNodes
<1> DEFINE v == Deriving(Live)[n + 1][AtNode(o, r, d, w)]
           u == Deriving(s)[n + 1][AtNode(o, r, d, z)]
           rw == RewriteOf(Live, o, r)
           v2 == Deriving(Live)[n][AtRewrite(o, r, rw, d, Visit(w, o, r))]
           u2 == Deriving(s)[n][AtRewrite(o, r, rw, d, Visit(z, o, r))]
<1>1. Snapshot(s) /\ Snapshot(Live) /\ RewriteOf(s, o, r) = rw  BY LiveType
<1>2. v = IF d > MaxDepth THEN Truncate(w) ELSE IF <<o, r>> \in w.visited THEN w ELSE v2
  BY <1>1, DeriveAtNode
<1>3. u = IF d > MaxDepth THEN Truncate(z) ELSE IF <<o, r>> \in z.visited THEN z ELSE u2
  BY <1>1, DeriveAtNode
<1>4. w.visited = z.visited  BY DEF Ahead
<1>5. /\ Visit(w, o, r) \in Walks /\ Visit(z, o, r) \in Walks
      /\ ~Visit(w, o, r).grant /\ ~Visit(z, o, r).grant
  BY VisitType
<1>6. Ahead(Visit(w, o, r), Visit(z, o, r)) /\ Ahead(Truncate(w), Truncate(z))  BY AheadUpdates
<1>7. rw \in Rewrites  BY ClaimType
<1>8. d \in 0 .. MaxDepth => Ahead(v2, u2)  BY <1>5, <1>6, <1>7 DEF AheadAtRewrites
<1> HIDE DEF v, u, v2, u2
<1>9. ~(d > MaxDepth) => d \in 0 .. MaxDepth  BY EvaluationAssumption
<1>10. Ahead(v, u)  BY <1>2, <1>3, <1>4, <1>6, <1>8, <1>9
<1> QED  BY <1>10 DEF v, u

(* What nested calls keep ahead, the loop over subjects keeps ahead; a     *)
(* userset that the index grants ends the second walk first.               *)
LEMMA AheadHopsStep ==
  ASSUME Stored, NEW index, SoundIndex(index), NEW n \in Nat,
         AheadAtNodes(FullSnapshot(index), n), AheadAtHops(FullSnapshot(index), n)
  PROVE  AheadAtHops(FullSnapshot(index), n + 1)
<1> DEFINE s == FullSnapshot(index)
<1> SUFFICES ASSUME NEW o \in Objects, NEW r \in Relations, NEW d \in 0 .. MaxDepth,
                    NEW w \in Walks, NEW z \in Walks, NEW rw \in HoppingRewrites,
                    NEW rest \in Seq(Subjects), ~w.grant, ~z.grant, Ahead(w, z)
             PROVE  Ahead(Deriving(Live)[n + 1][AtHops(o, r, rw, rest, d, w)],
                          Deriving(s)[n + 1][AtHops(o, r, rw, rest, d, z)])
  BY DEF AheadAtHops
<1> DEFINE v == Deriving(Live)[n + 1][AtHops(o, r, rw, rest, d, w)]
           u == Deriving(s)[n + 1][AtHops(o, r, rw, rest, d, z)]
           x == Head(rest)
           y == NextRelation(rw, x)
           leads == LeadsFrom(Live, o, r, rw, x)
           indexed == rw.kind = "this" /\ IndexGrants(s, x.ref, x.relation, d + 1)
           nodeL == Deriving(Live)[n][AtNode(x.ref, y, d + 1, w)]
           nodeI == Deriving(s)[n][AtNode(x.ref, y, d + 1, z)]
           subL == IF ~leads THEN w ELSE nodeL
           subI == IF ~leads THEN z ELSE IF indexed THEN Grant(z) ELSE nodeI
           moreL == Deriving(Live)[n][AtHops(o, r, rw, Tail(rest), d, subL)]
           moreI == Deriving(s)[n][AtHops(o, r, rw, Tail(rest), d, subI)]
<1>1. Snapshot(s) /\ Snapshot(Live) /\ MaxDepth \in Nat /\ d \in Nat /\ d + 1 \in Nat
  BY LiveType, EvaluationAssumption
<1>2. LeadsFrom(s, o, r, rw, x) = leads  BY LiveType DEF LeadsFrom
<1>3. ~IndexGrants(Live, x.ref, x.relation, d + 1)
  BY LiveType DEF Live, NoIndex, IndexGrants
<1>4. v = IF rest = <<>> THEN w ELSE IF subL.grant THEN subL ELSE moreL
  BY <1>1, <1>3, DeriveAtHops
<1>5. u = IF rest = <<>> THEN z ELSE IF subI.grant THEN subI ELSE moreI
  BY <1>1, <1>2, DeriveAtHops
<1>6. WalksPost(Live, n) /\ WalksPost(Live, n + 1) /\ WalksPost(s, n)
  <2>1. n + 1 \in Nat  OBVIOUS
  <2> QED  BY <2>1, WalksAreSound, NoIndexIsSound DEF Live
<1>7. HopsPost(o, r, rw, rest, d, w, v)  BY <1>6 DEF WalksPost, AllHopsPost
<1> HIDE DEF v, u
<1> SUFFICES Ahead(v, u)  BY DEF v, u
<1>8. CASE rest = <<>>  BY <1>4, <1>5, <1>8
<1>9. CASE rest # <<>>
  <2>1. x \in Subjects /\ Tail(rest) \in Seq(Subjects) /\ x \in ToSet(rest)
    BY <1>9, HeadTailProperties, SetOfTail
  <2>2. leads <=> x \in Leading(o, r, rw)  BY <2>1, LiveType DEF LeadsFrom, Leading
  <2>3. leads => x.ref \in Objects /\ y \in Relations  BY <2>2, LeadingType
  <2>4. CASE leads /\ indexed
    <3>1. u = Grant(z)  BY <1>5, <1>9, <2>4, WalksType
    <3>2. u.grant /\ u.truncated = z.truncated  BY <3>1, WalksType
    <3>3. w.truncated => v.truncated  BY <1>7 DEF HopsPost, Extends
    <3>4. z.truncated => w.truncated  BY DEF Ahead
    <3>5. ASSUME ~v.grant, ~v.truncated PROVE Provable(v.visited)
      <4>1. <<x.ref, y>> \in v.visited  BY <1>7, <2>1, <2>2, <2>4, <3>5 DEF HopsPost
      <4>2. y = x.relation  BY <2>4 DEF NextRelation
      <4>3. <<x.ref, y>> \in DOMAIN index  BY <2>4, <4>2, LiveType DEF IndexGrants
      <4> HIDE DEF x, y
      <4>4. PICK k \in Nat : NodeHolds(k, x.ref, y, index[<<x.ref, y>>])
                              /\ index[<<x.ref, y>>] \in Nat
        BY <2>3, <2>4, <4>3 DEF SoundIndex
      <4>5. <<x.ref, y>>[1] = x.ref /\ <<x.ref, y>>[2] = y  OBVIOUS
      <4> QED  BY <4>1, <4>4, <4>5 DEF Provable
    <3> QED  BY <3>2, <3>3, <3>4, <3>5 DEF Ahead
  <2>5. CASE ~(leads /\ indexed)
    <3>1. subI = IF ~leads THEN z ELSE nodeI  BY <2>5
    <3>2. leads => /\ Ahead(nodeL, nodeI) /\ nodeL \in Walks /\ nodeI \in Walks
      BY <1>1, <2>3, DeriveType DEF AheadAtNodes
    <3> HIDE DEF nodeL, nodeI, leads, indexed
    <3>3. Ahead(subL, subI) /\ subL \in Walks /\ subI \in Walks  BY <3>1, <3>2
    <3> HIDE DEF subL, subI
    <3>4. moreL \in Walks /\ moreI \in Walks  BY <1>1, <2>1, <3>3, DeriveType
    <3>5. ~subL.grant => Extends(subL, moreL)
      BY <1>6, <2>1, <3>3 DEF WalksPost, AllHopsPost, HopsPost
    <3>6. ~subL.grant /\ ~subI.grant => Ahead(moreL, moreI)
      BY <2>1, <3>3 DEF AheadAtHops
    <3> HIDE DEF moreL, moreI
    <3>7. v = (IF subL.grant THEN subL ELSE moreL) /\ u = (IF subI.grant THEN subI ELSE moreI)
      BY <1>4, <1>5, <1>9
    <3> QED  BY <3>3, <3>4, <3>5, <3>6, <3>7, AheadComposes
  <2> QED  BY <2>4, <2>5
<1> QED  BY <1>8, <1>9

-----------------------------------------------------------------------------
(***************************************************************************)
(* The indexed walk is ahead of the live one: rewrites.                    *)
(***************************************************************************)
(* A walk of its own, live and indexed. *)
LEMMA AheadAfresh ==
  ASSUME Stored, NEW index, NEW n \in Nat, SoundIndex(index),
         AheadAtRewrites(FullSnapshot(index), n),
         NEW o \in Objects, NEW r \in Relations, NEW rw \in Rewrites, NEW d \in 0 .. MaxDepth
  PROVE  LET v == Deriving(Live)[n][AtRewrite(o, r, rw, d, Fresh)]
             u == Deriving(FullSnapshot(index))[n][AtRewrite(o, r, rw, d, Fresh)]
         IN /\ v \in Walks /\ u \in Walks
            /\ u.truncated => v.truncated
            /\ v.grant => u.grant
            /\ u.grant => v.grant \/ v.truncated
<1> DEFINE s == FullSnapshot(index)
           v == Deriving(Live)[n][AtRewrite(o, r, rw, d, Fresh)]
           u == Deriving(s)[n][AtRewrite(o, r, rw, d, Fresh)]
<1>1. Fresh \in Walks /\ ~Fresh.grant /\ ~Fresh.truncated /\ Fresh.visited = {}  BY WalksType
<1>2. Ahead(Fresh, Fresh)  BY <1>1 DEF Ahead
<1>3. Ahead(v, u)  BY <1>1, <1>2 DEF AheadAtRewrites
<1>4. v \in Walks /\ u \in Walks
  <2>1. Snapshot(Live) /\ Snapshot(s) /\ d \in Nat  BY LiveType, EvaluationAssumption
  <2> QED  BY <1>1, <2>1, DeriveType
<1>5. Extends(Fresh, v)
  <2>1. WalksPost(Live, n)  BY WalksAreSound, NoIndexIsSound DEF Live
  <2> QED  BY <1>1, <2>1 DEF WalksPost, RewritesPost, RewritePost
<1> HIDE DEF v, u
<1>6. ~v.grant /\ ~v.truncated => Closed({}, v.visited)  BY <1>1, <1>5 DEF Extends
<1>7. u.grant => v.grant \/ v.truncated  BY <1>3, <1>6, ClosedHasNoProof DEF Ahead
<1> QED  BY <1>3, <1>4, <1>7 DEF Ahead, v, u

(* The decision of an exclusion keeps the second walk ahead. *)
LEMMA AheadExclusion ==
  ASSUME NEW w \in Walks, NEW z \in Walks, Ahead(w, z), ~w.grant, ~z.grant,
         NEW bL \in Walks, NEW bI \in Walks, NEW sL \in Walks, NEW sI \in Walks,
         bI.truncated => bL.truncated, bL.grant => bI.grant, bI.grant => bL.grant \/ bL.truncated,
         sI.truncated => sL.truncated, sL.grant => sI.grant, sI.grant => sL.grant \/ sL.truncated
  PROVE  Ahead(DeriveExclusion(bL, sL, w), DeriveExclusion(bI, sI, z))
<1>1. /\ Ahead(Grant(w), Grant(z)) /\ Ahead(Truncate(w), Truncate(z))
      /\ Ahead(Truncate(w), z) /\ Ahead(w, z) /\ Ahead(Truncate(w), Grant(z))
  <2>1. Ahead(Truncate(w), Grant(z))  BY WalksType DEF Ahead
  <2> QED  BY <2>1, AheadUpdates
<1> QED  BY <1>1 DEF DeriveExclusion

(* What nested calls keep ahead, a call at a rewrite keeps ahead. *)
LEMMA AheadRewriteStep ==
  ASSUME Stored, NEW index, SoundIndex(index), NEW n \in Nat,
         AheadAtNodes(FullSnapshot(index), n), AheadAtRewrites(FullSnapshot(index), n),
         AheadAtHops(FullSnapshot(index), n)
  PROVE  AheadAtRewrites(FullSnapshot(index), n + 1)
<1> DEFINE s == FullSnapshot(index)
<1> SUFFICES ASSUME NEW o \in Objects, NEW r \in Relations, NEW d \in 0 .. MaxDepth,
                    NEW w \in Walks, NEW z \in Walks, NEW rw \in Rewrites,
                    ~w.grant, ~z.grant, Ahead(w, z)
             PROVE  Ahead(Deriving(Live)[n + 1][AtRewrite(o, r, rw, d, w)],
                          Deriving(s)[n + 1][AtRewrite(o, r, rw, d, z)])
  BY DEF AheadAtRewrites
<1> DEFINE v == Deriving(Live)[n + 1][AtRewrite(o, r, rw, d, w)]
           u == Deriving(s)[n + 1][AtRewrite(o, r, rw, d, z)]
<1>1. Snapshot(s)  BY LiveType
<1>2. Snapshot(Live)  BY LiveType
<1>3. d \in Nat  BY EvaluationAssumption
<1>4. Live.rows = s.rows  BY LiveType
<1>5. /\ Ahead(Grant(w), Grant(z)) /\ Ahead(Truncate(w), Truncate(z)) /\ Ahead(Truncate(w), z)
  BY AheadUpdates
<1>6. WalksPost(Live, n)  BY WalksAreSound, NoIndexIsSound DEF Live
<1>7. rw \in HoppingRewrites =>
        Ahead(Deriving(Live)[n][AtHops(o, r, rw, config.order, d, w)],
              Deriving(s)[n][AtHops(o, r, rw, config.order, d, z)])
  <2>1. config.order \in Seq(Subjects)  BY OrderType
  <2> QED  BY <2>1 DEF AheadAtHops
<1>8. CASE rw.kind = "this"
  <2>1. rw \in HoppingRewrites  BY <1>8 DEF HoppingRewrites
  <2> DEFINE direct == <<o, r, Direct(Target)>> \in Live.rows
             v2 == Deriving(Live)[n][AtHops(o, r, rw, config.order, d, w)]
             u2 == Deriving(s)[n][AtHops(o, r, rw, config.order, d, z)]
  <2>2. v = IF direct THEN Grant(w) ELSE v2  BY <1>2, <1>3, <1>8, DeriveAtThis
  <2>3. u = IF direct THEN Grant(z) ELSE u2
    <3>1. u = IF <<o, r, Direct(Target)>> \in s.rows THEN Grant(z) ELSE u2
      BY <1>1, <1>3, <1>8, DeriveAtThis
    <3> QED  BY <3>1, <1>4
  <2> HIDE DEF v, u, direct
  <2>4. Ahead(v, u)  BY <1>5, <1>7, <2>1, <2>2, <2>3
  <2> QED  BY <2>4 DEF v, u
<1>9. CASE rw.kind = "tupleToUserset"
  <2>1. rw \in HoppingRewrites  BY <1>9 DEF HoppingRewrites
  <2>2. v = Deriving(Live)[n][AtHops(o, r, rw, config.order, d, w)]
    BY <1>2, <1>3, <1>9, DeriveAtTupleTo
  <2>3. u = Deriving(s)[n][AtHops(o, r, rw, config.order, d, z)]
    BY <1>1, <1>3, <1>9, DeriveAtTupleTo
  <2> QED  BY <1>7, <2>1, <2>2, <2>3
<1>10. CASE rw.kind = "computedUserset"
  <2>1. rw.relation \in Relations  BY <1>10, RewriteCases
  <2>2. v = Deriving(Live)[n][AtNode(o, rw.relation, d, w)]
    BY <1>2, <1>3, <1>10, DeriveAtComputed
  <2>3. u = Deriving(s)[n][AtNode(o, rw.relation, d, z)]
    BY <1>1, <1>3, <1>10, DeriveAtComputed
  <2> QED  BY <1>3, <2>1, <2>2, <2>3 DEF AheadAtNodes
<1>11. CASE rw.kind = "union"
  <2> DEFINE subL == Deriving(Live)[n][AtRewrite(o, r, Head(rw.children), d, w)]
             subI == Deriving(s)[n][AtRewrite(o, r, Head(rw.children), d, z)]
             moreL == Deriving(Live)[n][AtRewrite(o, r, Rest(rw), d, subL)]
             moreI == Deriving(s)[n][AtRewrite(o, r, Rest(rw), d, subI)]
  <2>1. v = IF rw.children = <<>> THEN w ELSE IF subL.grant THEN subL ELSE moreL
    BY <1>2, <1>3, <1>11, DeriveAtUnion
  <2>2. u = IF rw.children = <<>> THEN z ELSE IF subI.grant THEN subI ELSE moreI
    BY <1>1, <1>3, <1>11, DeriveAtUnion
  <2> HIDE DEF v, u
  <2> SUFFICES Ahead(v, u)  BY DEF v, u
  <2>3. CASE rw.children = <<>>  BY <2>1, <2>2, <2>3
  <2>4. CASE rw.children # <<>>
    <3>1. Head(rw.children) \in Rewrites /\ Rest(rw) \in Rewrites  BY <1>11, <2>4, RestType
    <3>2. subL \in Walks  BY <1>2, <1>3, <3>1, DeriveType
    <3>3. subI \in Walks  BY <1>1, <1>3, <3>1, DeriveType
    <3>4. Ahead(subL, subI)  BY <3>1 DEF AheadAtRewrites
    <3> HIDE DEF subL, subI
    <3>5. moreL \in Walks  BY <1>2, <1>3, <3>1, <3>2, DeriveType
    <3>6. moreI \in Walks  BY <1>1, <1>3, <3>1, <3>3, DeriveType
    <3>7. ~subL.grant => Extends(subL, moreL)
      BY <1>6, <3>1, <3>2 DEF WalksPost, RewritesPost, RewritePost
    <3>8. ~subL.grant /\ ~subI.grant => Ahead(moreL, moreI)
      BY <3>1, <3>2, <3>3, <3>4 DEF AheadAtRewrites
    <3> HIDE DEF moreL, moreI
    <3>9. v = (IF subL.grant THEN subL ELSE moreL) /\ u = (IF subI.grant THEN subI ELSE moreI)
      BY <2>1, <2>2, <2>4
    <3> QED  BY <3>2, <3>3, <3>4, <3>5, <3>6, <3>7, <3>8, <3>9, AheadComposes
  <2> QED  BY <2>3, <2>4
<1>12. CASE rw.kind = "intersection"
  <2> DEFINE subL == Deriving(Live)[n][AtRewrite(o, r, Head(rw.children), d, Fresh)]
             subI == Deriving(s)[n][AtRewrite(o, r, Head(rw.children), d, Fresh)]
             moreL == Deriving(Live)[n][AtRewrite(o, r, Rest(rw), d, w)]
             moreI == Deriving(s)[n][AtRewrite(o, r, Rest(rw), d, z)]
  <2>1. v = IF rw.children = <<>> THEN Grant(w)
            ELSE IF subL.truncated THEN Truncate(w) ELSE IF subL.grant THEN moreL ELSE w
    BY <1>2, <1>3, <1>12, DeriveAtIntersection
  <2>2. u = IF rw.children = <<>> THEN Grant(z)
            ELSE IF subI.truncated THEN Truncate(z) ELSE IF subI.grant THEN moreI ELSE z
    BY <1>1, <1>3, <1>12, DeriveAtIntersection
  <2> HIDE DEF v, u
  <2> SUFFICES Ahead(v, u)  BY DEF v, u
  <2>3. CASE rw.children = <<>>  BY <1>5, <2>1, <2>2, <2>3
  <2>4. CASE rw.children # <<>>
    <3>1. /\ Head(rw.children) \in Rewrites /\ Rest(rw) \in Rewrites
          /\ Rest(rw).kind = "intersection"
      BY <1>12, <2>4, RestType
    <3>2. /\ subL \in Walks /\ subI \in Walks
          /\ subI.truncated => subL.truncated
          /\ subL.grant => subI.grant
          /\ subI.grant => subL.grant \/ subL.truncated
      BY <3>1, AheadAfresh
    <3>3. Ahead(moreL, moreI)  BY <3>1 DEF AheadAtRewrites
    <3>4. moreI.visited = z.visited
      BY <1>1, <1>3, <3>1, IntersectionVisitsNothing
    <3> HIDE DEF subL, subI, moreL, moreI
    <3>5. CASE subL.truncated
      <4>1. v = Truncate(w)  BY <2>1, <2>4, <3>5
      <4>2. u.visited = z.visited
        <5>1. Truncate(z).visited = z.visited  BY WalksType
        <5> QED  BY <5>1, <2>2, <2>4, <3>4
      <4>3. ~v.grant /\ v.truncated /\ v.visited = w.visited  BY <4>1, WalksType
      <4>4. w.visited = z.visited  BY DEF Ahead
      <4> QED  BY <4>2, <4>3, <4>4 DEF Ahead
    <3>6. CASE ~subL.truncated
      BY <2>1, <2>2, <2>4, <3>2, <3>3, <3>6
    <3> QED  BY <3>5, <3>6
  <2> QED  BY <2>3, <2>4
<1>13. CASE rw.kind = "exclusion"
  <2> DEFINE bL == Deriving(Live)[n][AtRewrite(o, r, rw.base, d, Fresh)]
             bI == Deriving(s)[n][AtRewrite(o, r, rw.base, d, Fresh)]
             sL == Deriving(Live)[n][AtRewrite(o, r, rw.subtract, d, Fresh)]
             sI == Deriving(s)[n][AtRewrite(o, r, rw.subtract, d, Fresh)]
  <2>1. v = DeriveExclusion(bL, sL, w)  BY <1>2, <1>3, <1>13, DeriveAtExclusion
  <2>2. u = DeriveExclusion(bI, sI, z)  BY <1>1, <1>3, <1>13, DeriveAtExclusion
  <2>3. rw.base \in Rewrites /\ rw.subtract \in Rewrites  BY <1>13, RewriteCases
  <2>4. /\ bL \in Walks /\ bI \in Walks
        /\ bI.truncated => bL.truncated
        /\ bL.grant => bI.grant
        /\ bI.grant => bL.grant \/ bL.truncated
    BY <2>3, AheadAfresh
  <2>5. /\ sL \in Walks /\ sI \in Walks
        /\ sI.truncated => sL.truncated
        /\ sL.grant => sI.grant
        /\ sI.grant => sL.grant \/ sL.truncated
    BY <2>3, AheadAfresh
  <2> HIDE DEF bL, bI, sL, sI
  <2>6. Ahead(DeriveExclusion(bL, sL, w), DeriveExclusion(bI, sI, z))
    BY <2>4, <2>5, AheadExclusion
  <2> QED  BY <2>1, <2>2, <2>6
<1>14. rw.kind = "this" \/ rw.kind = "computedUserset" \/ rw.kind = "tupleToUserset"
       \/ rw.kind = "union" \/ rw.kind = "intersection" \/ rw.kind = "exclusion"
  BY RewriteCases
<1> QED  BY <1>8, <1>9, <1>10, <1>11, <1>12, <1>13, <1>14

-----------------------------------------------------------------------------
(***************************************************************************)
(* evaluate with a fresh index.                                            *)
(***************************************************************************)
(* In every call, the walk with a sound index is ahead. *)
LEMMA IndexedIsAhead ==
  ASSUME Stored, NEW index, SoundIndex(index)
  PROVE  \A n \in Nat : /\ AheadAtNodes(FullSnapshot(index), n)
                        /\ AheadAtRewrites(FullSnapshot(index), n)
                        /\ AheadAtHops(FullSnapshot(index), n)
<1> DEFINE s == FullSnapshot(index)
           Good == {n \in Nat : AheadAtNodes(s, n) /\ AheadAtRewrites(s, n) /\ AheadAtHops(s, n)}
<1>1. 0 \in Good
  <2>1. \A c \in CallsOfWalks : /\ Deriving(s)[0][c] = Truncate(c.w)
                                /\ Deriving(Live)[0][c] = Truncate(c.w)
    BY LiveType, DerivingEquations
  <2> HIDE DEF s
  <2>2. AheadAtNodes(s, 0)
    <3> SUFFICES ASSUME NEW o \in Objects, NEW r \in Relations, NEW d \in Nat,
                        NEW w \in Walks, NEW z \in Walks, ~w.grant, ~z.grant, Ahead(w, z)
                 PROVE  Ahead(Deriving(Live)[0][AtNode(o, r, d, w)],
                              Deriving(s)[0][AtNode(o, r, d, z)])
      BY DEF AheadAtNodes
    <3>1. Deriving(Live)[0][AtNode(o, r, d, w)] = Truncate(w)
      BY <2>1, NodeCall DEF CallsOfWalks
    <3>2. Deriving(s)[0][AtNode(o, r, d, z)] = Truncate(z)
      BY <2>1, NodeCall DEF CallsOfWalks
    <3> QED  BY <3>1, <3>2, AheadUpdates
  <2>3. AheadAtRewrites(s, 0)
    <3> SUFFICES ASSUME NEW o \in Objects, NEW r \in Relations, NEW d \in 0 .. MaxDepth,
                        NEW w \in Walks, NEW z \in Walks, NEW rw \in Rewrites,
                        ~w.grant, ~z.grant, Ahead(w, z)
                 PROVE  Ahead(Deriving(Live)[0][AtRewrite(o, r, rw, d, w)],
                              Deriving(s)[0][AtRewrite(o, r, rw, d, z)])
      BY DEF AheadAtRewrites
    <3>0. d \in Nat  BY EvaluationAssumption
    <3>1. Deriving(Live)[0][AtRewrite(o, r, rw, d, w)] = Truncate(w)
      BY <2>1, <3>0, RewriteCall DEF CallsOfWalks
    <3>2. Deriving(s)[0][AtRewrite(o, r, rw, d, z)] = Truncate(z)
      BY <2>1, <3>0, RewriteCall DEF CallsOfWalks
    <3> QED  BY <3>1, <3>2, AheadUpdates
  <2>4. AheadAtHops(s, 0)
    <3> SUFFICES ASSUME NEW o \in Objects, NEW r \in Relations, NEW d \in 0 .. MaxDepth,
                        NEW w \in Walks, NEW z \in Walks, NEW rw \in HoppingRewrites,
                        NEW rest \in Seq(Subjects), ~w.grant, ~z.grant, Ahead(w, z)
                 PROVE  Ahead(Deriving(Live)[0][AtHops(o, r, rw, rest, d, w)],
                              Deriving(s)[0][AtHops(o, r, rw, rest, d, z)])
      BY DEF AheadAtHops
    <3>0. d \in Nat  BY EvaluationAssumption
    <3>1. Deriving(Live)[0][AtHops(o, r, rw, rest, d, w)] = Truncate(w)
      BY <2>1, <3>0, HopsCall DEF CallsOfWalks
    <3>2. Deriving(s)[0][AtHops(o, r, rw, rest, d, z)] = Truncate(z)
      BY <2>1, <3>0, HopsCall DEF CallsOfWalks
    <3> QED  BY <3>1, <3>2, AheadUpdates
  <2> QED  BY <2>2, <2>3, <2>4 DEF s
<1>2. ASSUME NEW n \in Nat, n \in Good PROVE n + 1 \in Good
  <2>1. AheadAtNodes(s, n) /\ AheadAtRewrites(s, n) /\ AheadAtHops(s, n)  BY <1>2
  <2>2. AheadAtNodes(s, n + 1)  BY <2>1, AheadNodeStep
  <2>3. AheadAtRewrites(s, n + 1)  BY <2>1, AheadRewriteStep
  <2>4. AheadAtHops(s, n + 1)  BY <2>1, AheadHopsStep
  <2> QED  BY <2>2, <2>3, <2>4
<1> HIDE DEF Good
<1>3. \A n \in Nat : n \in Good  BY <1>1, <1>2, EveryNatural
<1> QED  BY <1>3 DEF Good

(* evaluate with a sound index loses no grant. *)
LEMMA EvaluateIsAhead ==
  ASSUME Stored, NEW index, SoundIndex(index), Evaluate(Live).grant
  PROVE  Evaluate(FullSnapshot(index)).grant
<1> DEFINE s == FullSnapshot(index)
           N == Len(config.required)
           E == Evaluating(Live)
           F == Evaluating(s)
           Right(i) == /\ E[i].grant => F[i].grant
                       /\ ~F[i].grant => (F[i].truncated => E[i].truncated)
           Good == {i \in Nat : i <= N => Right(i)}
<1>0. Snapshot(s) /\ Snapshot(Live) /\ N \in Nat  BY LiveType, RequiredType
<1>1. /\ \A i \in 0 .. N : E[i] \in Walks
      /\ E[0] = Fresh
      /\ \A i \in 1 .. N : E[i] = IF E[i - 1].grant THEN E[i - 1] ELSE Query(Live, i, E[i - 1])
  BY <1>0, EvaluatingEquations
<1>2. /\ \A i \in 0 .. N : F[i] \in Walks
      /\ F[0] = Fresh
      /\ \A i \in 1 .. N : F[i] = IF F[i - 1].grant THEN F[i - 1] ELSE Query(s, i, F[i - 1])
  BY <1>0, EvaluatingEquations
<1> HIDE DEF E, F
<1>3. 0 \in Good  BY <1>1, <1>2, WalksType
<1>4. ASSUME NEW i \in Nat, i \in Good PROVE i + 1 \in Good
  <2> SUFFICES ASSUME i + 1 <= N PROVE Right(i + 1)  OBVIOUS
  <2>1. i \in 0 .. N /\ i + 1 \in 1 .. N /\ i + 1 - 1 = i  BY <1>0
  <2>2. Right(i) /\ E[i] \in Walks /\ F[i] \in Walks  BY <1>0, <1>1, <1>2, <1>4, <2>1
  <2>3. CASE F[i].grant
    <3>1. F[i + 1] = F[i]  BY <1>2, <2>1, <2>3
    <3> QED  BY <2>3, <3>1
  <2>4. CASE ~F[i].grant
    <3> DEFINE w == [E[i] EXCEPT !.visited = {}]
               z == [F[i] EXCEPT !.visited = {}]
               r == config.required[i + 1]
    <3>1. E[i + 1] = Query(Live, i + 1, E[i]) /\ F[i + 1] = Query(s, i + 1, F[i])
      BY <1>1, <1>2, <2>1, <2>2, <2>4
    <3>2. w \in Walks /\ ~w.grant /\ w.truncated = E[i].truncated /\ w.visited = {}
      BY <2>2, <2>4 DEF Walks
    <3>3. z \in Walks /\ ~z.grant /\ z.truncated = F[i].truncated /\ z.visited = {}
      BY <2>2, <2>4 DEF Walks
    <3>4. E[i + 1] = Deriving(Live)[MaxCalls][AtNode(Resource, r, 0, w)]
      BY <1>0, <2>1, <2>2, <3>1, QueryType
    <3>5. F[i + 1] = Deriving(s)[MaxCalls][AtNode(Resource, r, 0, z)]
      BY <1>0, <2>1, <2>2, <3>1, QueryType
    <3>6. r \in Relations /\ Resource \in Objects /\ MaxCalls \in Nat
      BY <2>1, RequiredType, EvaluationAssumption
    <3> HIDE DEF w, z
    <3>7. Ahead(w, z)  BY <2>2, <2>4, <3>2, <3>3 DEF Ahead
    <3>8. Ahead(E[i + 1], F[i + 1])
      <4>1. AheadAtNodes(s, MaxCalls)  BY <3>6, IndexedIsAhead
      <4> QED  BY <3>2, <3>3, <3>4, <3>5, <3>6, <3>7, <4>1 DEF AheadAtNodes
    <3> QED  BY <3>8 DEF Ahead
  <2> QED  BY <2>3, <2>4
<1> HIDE DEF Good
<1>5. \A i \in Nat : i \in Good  BY <1>3, <1>4, EveryNatural
<1>6. Right(N)  BY <1>0, <1>5 DEF Good
<1> QED  BY <1>6 DEF Evaluate, E, F

(* A walk with a freshly built membership index grants nothing that is     *)
(* refuted within the bound, denies nothing that is proved unless it was   *)
(* cut, and loses no grant of the walk without the index.                  *)
THEOREM IndexedWalkExactness == Spec => []IndexedWalkIsExact
<1>1. ASSUME Stored PROVE IndexedWalkIsExact
  <2>1. SoundIndex(FreshIndex)  BY <1>1, FreshIndexIsSound
  <2>2. Exact(Evaluate(FullSnapshot(FreshIndex)))  BY <1>1, <2>1, EvaluateIsSound
  <2>3. Evaluate(Live).grant => Evaluate(FullSnapshot(FreshIndex)).grant
    BY <1>1, <2>1, EvaluateIsAhead
  <2> QED  BY <2>2, <2>3 DEF IndexedWalkIsExact, Live
<1> QED  BY <1>1, StoredAlways, PTL

-----------------------------------------------------------------------------
(***************************************************************************)
(* Walk and collection tell the same: nodes and loops.                     *)
(***************************************************************************)
(* Unless one of them was cut, a walk from w to v and a collection from l   *)
(* to m tell the same of the target.                                        *)
Tells(w, l, v, m) ==
  ~v.truncated /\ ~m.cut =>
    /\ v.grant => Len(m.found) > Len(l.found)
    /\ ~v.grant => m.found = l.found /\ (w.visited = l.visited => v.visited = m.visited)

NodesTell(n) ==
  \A o \in Objects, r \in Relations, d \in Nat, w \in Walks, l \in Collections :
    ~w.grant /\ w.visited = l.visited =>
      Tells(w, l, Deriving(Live)[n][AtNode(o, r, d, w)], Collecting(Live)[n][AtNode(o, r, d, l)])

(* Where a rewrite has operands; an intersection ignores what was visited. *)
RewritesTell(n) ==
  \A o \in Objects, r \in Relations, d \in 0 .. MaxDepth, w \in Walks, l \in Collections,
     rw \in Rewrites :
    /\ ~w.grant /\ (w.visited = l.visited \/ rw.kind = "intersection")
    /\ rw.kind = "intersection" => rw.children # <<>>
    => Tells(w, l, Deriving(Live)[n][AtRewrite(o, r, rw, d, w)],
             Collecting(Live)[n][AtRewrite(o, r, rw, d, l)])

(* Where the target is not a member itself: the walk looks for that first. *)
HopsTell(n) ==
  \A o \in Objects, r \in Relations, d \in 0 .. MaxDepth, w \in Walks, l \in Collections,
     rw \in HoppingRewrites, rest \in Seq(Subjects) :
    /\ ~w.grant /\ w.visited = l.visited
    /\ ~(rw.kind = "this" /\ <<o, r, Direct(Target)>> \in tuples)
    => Tells(w, l, Deriving(Live)[n][AtHops(o, r, rw, rest, d, w)],
             Collecting(Live)[n][AtHops(o, r, rw, rest, d, l)])

(* The lengths of what is found, and what continues what. *)
LEMMA ContinuesType ==
  ASSUME NEW l \in Collections, NEW m, Continues(l, m)
  PROVE  /\ m \in Collections /\ l.found \in Seq(Nat) /\ m.found \in Seq(Nat)
         /\ Len(l.found) \in Nat /\ Len(m.found) \in Nat /\ Len(l.found) <= Len(m.found)
         /\ ~m.cut => ~l.cut
<1>1. m \in Collections /\ Len(l.found) <= Len(m.found) /\ (~m.cut => ~l.cut)  BY DEF Continues
<1>2. l.found \in Seq(Nat) /\ m.found \in Seq(Nat)  BY <1>1, CollectionsType
<1> QED  BY <1>1, <1>2

(* A walk that goes on unless it grants, with a collection that goes on. *)
LEMMA TellsComposes ==
  ASSUME NEW w \in Walks, NEW l \in Collections, w.visited = l.visited,
         NEW v \in Walks, NEW m \in Collections, Continues(l, m), Tells(w, l, v, m),
         NEW v2, NEW m2, Continues(m, m2),
         ~v.grant => Extends(v, v2),
         ~v.grant /\ v.visited = m.visited => Tells(v, m, v2, m2),
         NEW p, p = IF v.grant THEN v ELSE v2
  PROVE  Tells(w, l, p, m2)
<1> SUFFICES ASSUME ~p.truncated, ~m2.cut
             PROVE  /\ p.grant => Len(m2.found) > Len(l.found)
                    /\ ~p.grant => /\ m2.found = l.found
                                   /\ w.visited = l.visited => p.visited = m2.visited
  BY DEF Tells
<1>1. ~m.cut /\ Len(l.found) \in Nat /\ Len(m.found) \in Nat /\ Len(m2.found) \in Nat
      /\ Len(m.found) <= Len(m2.found)
  BY ContinuesType
<1>2. CASE v.grant
  <2>1. p = v /\ Len(m.found) > Len(l.found)  BY <1>1, <1>2 DEF Tells
  <2> QED  BY <1>1, <1>2, <2>1
<1>3. CASE ~v.grant
  <2>1. p = v2 /\ ~v.truncated  BY <1>3 DEF Extends
  <2>2. m.found = l.found /\ v.visited = m.visited  BY <1>1, <1>3, <2>1 DEF Tells
  <2>3. Tells(v, m, p, m2)  BY <1>3, <2>1, <2>2
  <2> QED  BY <2>2, <2>3 DEF Tells
<1> QED  BY <1>2, <1>3

(* Every call of collect continues its collection. *)
LEMMA ContinuesAlways ==
  ASSUME Stored, NEW n \in Nat, NEW o \in Objects, NEW r \in Relations, NEW d \in Nat,
         NEW l \in Collections
  PROVE  /\ Continues(l, Collecting(Live)[n][AtNode(o, r, d, l)])
         /\ \A rw \in Rewrites : Continues(l, Collecting(Live)[n][AtRewrite(o, r, rw, d, l)])
         /\ \A rw \in HoppingRewrites, rest \in Seq(Subjects) :
              Continues(l, Collecting(Live)[n][AtHops(o, r, rw, rest, d, l)])
<1>1. NodesFound(n) /\ RewritesFound(n) /\ AllHopsFound(n)  BY CollectionsAreSound
<1>2. Continues(l, Collecting(Live)[n][AtNode(o, r, d, l)])  BY <1>1 DEF NodesFound, NodeFound
<1>3. \A rw \in Rewrites : Continues(l, Collecting(Live)[n][AtRewrite(o, r, rw, d, l)])
  BY <1>1 DEF RewritesFound, RewriteFound
<1>4. \A rw \in HoppingRewrites, rest \in Seq(Subjects) :
        Continues(l, Collecting(Live)[n][AtHops(o, r, rw, rest, d, l)])
  BY <1>1 DEF AllHopsFound, HopsFound
<1> QED  BY <1>2, <1>3, <1>4

(* Visiting a node finds nothing. *)
LEMMA VisitCollection ==
  ASSUME NEW l \in Collections, NEW o \in Objects, NEW r \in Relations
  PROVE  /\ Visit(l, o, r) \in Collections /\ Visit(l, o, r).found = l.found
         /\ Visit(l, o, r).visited = l.visited \cup {<<o, r>>}
BY CollectionUpdates

(* Finding a member gives a collection. *)
LEMMA FindType ==
  ASSUME NEW l \in Collections, NEW d \in Nat
  PROVE  Find(l, d) \in Collections /\ Find(l, d).found = Append(l.found, d)
BY CollectionUpdates

(* The loop over subjects comes across a direct member. *)
LEMMA MembersAreFound ==
  ASSUME Stored, NEW o \in Objects, NEW r \in Relations, NEW d \in Nat,
         <<o, r, Direct(Target)>> \in tuples
  PROVE  \A n \in Nat : \A rest \in Seq(Subjects), l \in Collections :
           LET m == Collecting(Live)[n][AtHops(o, r, This, rest, d, l)]
           IN Direct(Target) \in ToSet(rest) /\ ~m.cut => Len(m.found) > Len(l.found)
<1> DEFINE At(n, rest, l) == Collecting(Live)[n][AtHops(o, r, This, rest, d, l)]
           Good == {n \in Nat : \A rest \in Seq(Subjects), l \in Collections :
                      Direct(Target) \in ToSet(rest) /\ ~At(n, rest, l).cut =>
                        Len(At(n, rest, l).found) > Len(l.found)}
<1>0. This \in HoppingRewrites /\ This.kind = "this"
  BY EvaluationAssumption DEF HoppingRewrites, This
<1>1. 0 \in Good
  <2> SUFFICES ASSUME NEW rest \in Seq(Subjects), NEW l \in Collections PROVE At(0, rest, l).cut
    OBVIOUS
  <2>0. \A rw \in HoppingRewrites :
          AtHops(o, r, rw, rest, d, l) \in CallsOfCollections /\ AtHops(o, r, rw, rest, d, l).w = l
    BY HopsCall DEF CallsOfCollections
  <2>1. AtHops(o, r, This, rest, d, l) \in CallsOfCollections /\ AtHops(o, r, This, rest, d, l).w = l
    BY <1>0, <2>0
  <2>2. At(0, rest, l) = Cut(l)  BY <2>1, LiveType, CollectingEquations
  <2> QED  BY <2>2, CollectionUpdates
<1>2. ASSUME NEW n \in Nat, n \in Good PROVE n + 1 \in Good
  <2> SUFFICES ASSUME NEW rest \in Seq(Subjects), NEW l \in Collections,
                      Direct(Target) \in ToSet(rest), ~At(n + 1, rest, l).cut
               PROVE  Len(At(n + 1, rest, l).found) > Len(l.found)
    OBVIOUS
  <2> DEFINE m == At(n + 1, rest, l)
             x == Head(rest)
             member == IsMember(Live, o, r, This, x)
             leads == LeadsFrom(Live, o, r, This, x)
             node == Collecting(Live)[n][AtNode(x.ref, NextRelation(This, x), d + 1, l)]
             next == IF member THEN Find(l, d) ELSE IF leads THEN node ELSE l
  <2>1. rest # <<>>
    <3>1. rest = <<>> => ToSet(rest) = {}  BY DEF ToSet
    <3> QED  BY <3>1
  <2>2. x \in Subjects /\ Tail(rest) \in Seq(Subjects) /\ ToSet(rest) = {x} \cup ToSet(Tail(rest))
    BY <2>1, HeadTailProperties, SetOfTail
  <2>3. m = At(n, Tail(rest), next)  BY <1>0, <2>1, LiveType, CollectAtHops
  <2>4. Continues(l, next)
    <3>1. leads => Continues(l, node)
      <4>1. leads => x \in Leading(o, r, This)  BY <2>2, LiveType DEF LeadsFrom, Leading
      <4>2. leads => x.ref \in Objects /\ NextRelation(This, x) \in Relations
        BY <1>0, <4>1, LeadingType
      <4>3. d + 1 \in Nat  OBVIOUS
      <4> QED  BY <4>2, <4>3, ContinuesAlways
    <3> QED  BY <3>1, ContinuesComposes
  <2>5. x = Direct(Target) => next = Find(l, d)
    BY <1>0, LiveType DEF IsMember
  <2> HIDE DEF x, next, m, member
  <2>6. next \in Collections /\ Len(l.found) \in Nat /\ Len(next.found) \in Nat
        /\ Len(l.found) <= Len(next.found)
    BY <2>4, ContinuesType
  <2>7. Continues(next, m)  BY <1>0, <2>2, <2>3, <2>6, ContinuesAlways
  <2>8. Len(m.found) \in Nat /\ Len(next.found) <= Len(m.found)  BY <2>6, <2>7, ContinuesType
  <2>9. CASE x = Direct(Target)
    <3>1. next.found = Append(l.found, d) /\ l.found \in Seq(Nat)
      BY <2>5, <2>9, FindType, CollectionsType
    <3>2. Len(next.found) = Len(l.found) + 1  BY <3>1
    <3>3. Len(m.found) > Len(l.found)  BY <2>6, <2>8, <3>2
    <3> QED  BY <3>3 DEF m
  <2>10. CASE Direct(Target) \in ToSet(Tail(rest))
    <3>1. ~m.cut  BY DEF m
    <3>2. Len(m.found) > Len(next.found)  BY <1>2, <2>2, <2>3, <2>6, <2>10, <3>1
    <3>3. Len(m.found) > Len(l.found)  BY <2>6, <2>8, <3>2
    <3> QED  BY <3>3 DEF m
  <2> QED  BY <2>2, <2>9, <2>10
<1> HIDE DEF Good
<1>3. \A n \in Nat : n \in Good  BY <1>1, <1>2, EveryNatural
<1> QED  BY <1>3 DEF Good

(* What nested calls tell, a call at a node tells. *)
LEMMA NodesTellStep ==
  ASSUME Stored, NEW n \in Nat, RewritesTell(n)
  PROVE  NodesTell(n + 1)
<1> SUFFICES ASSUME NEW o \in Objects, NEW r \in Relations, NEW d \in Nat,
                    NEW w \in Walks, NEW l \in Collections, ~w.grant, w.visited = l.visited
             PROVE  Tells(w, l, Deriving(Live)[n + 1][AtNode(o, r, d, w)],
                                Collecting(Live)[n + 1][AtNode(o, r, d, l)])
  BY DEF NodesTell
<1> DEFINE v == Deriving(Live)[n + 1][AtNode(o, r, d, w)]
           m == Collecting(Live)[n + 1][AtNode(o, r, d, l)]
           rw == RewriteOf(Live, o, r)
           w2 == Visit(w, o, r)
           l2 == Visit(l, o, r)
           v2 == Deriving(Live)[n][AtRewrite(o, r, rw, d, w2)]
           m2 == Collecting(Live)[n][AtRewrite(o, r, rw, d, l2)]
<1>1. Snapshot(Live) /\ Live.types \subseteq DOMAIN config.rewrites  BY LiveType DEF Snapshot
<1>2. v = IF d > MaxDepth THEN Truncate(w) ELSE IF <<o, r>> \in w.visited THEN w ELSE v2
  BY <1>1, DeriveAtNode
<1>3. m = IF d > MaxDepth \/ <<o, r>> \in l.visited THEN l ELSE m2
  BY <1>1, CollectAtNode
<1>4. rw \in Rewrites /\ rw \in AcceptedRewrites  BY <1>1, RewriteOfType
<1>5. rw.kind = "intersection" => rw.children # <<>>  BY <1>4 DEF AcceptedRewrites
<1>6. w2 \in Walks /\ ~w2.grant /\ w2.visited = w.visited \cup {<<o, r>>}
  <2>1. w2 \in Walks /\ ~w2.grant  BY VisitType
  <2>2. w2.visited = w.visited \cup {<<o, r>>}  BY WalksType DEF Visit
  <2> QED  BY <2>1, <2>2
<1>7. l2 \in Collections /\ l2.found = l.found /\ l2.visited = l.visited \cup {<<o, r>>}
  BY VisitCollection
<1> HIDE DEF v, m, w2, l2, rw
<1>8. d \in 0 .. MaxDepth => Tells(w2, l2, v2, m2)
  BY <1>4, <1>5, <1>6, <1>7 DEF RewritesTell
<1> HIDE DEF v2, m2
<1>9. d > MaxDepth \/ d \in 0 .. MaxDepth  BY EvaluationAssumption
<1>10. CASE d > MaxDepth
  <2>1. v.truncated  BY <1>2, <1>10, WalksType
  <2> QED  BY <2>1 DEF Tells, v, m
<1>11. CASE d \in 0 .. MaxDepth /\ <<o, r>> \in w.visited
  <2>1. ~(d > MaxDepth)  BY <1>11, EvaluationAssumption
  <2>2. v = w /\ m = l  BY <1>2, <1>3, <1>11, <2>1
  <2>3. Tells(w, l, v, m)  BY <2>2 DEF Tells
  <2> QED  BY <2>3 DEF v, m
<1>12. CASE d \in 0 .. MaxDepth /\ <<o, r>> \notin w.visited
  <2>1. ~(d > MaxDepth)  BY <1>12, EvaluationAssumption
  <2>2. v = v2 /\ m = m2  BY <1>2, <1>3, <1>12, <2>1
  <2>3. Tells(w, l, v, m)  BY <1>6, <1>7, <1>8, <1>12, <2>2 DEF Tells
  <2> QED  BY <2>3 DEF v, m
<1> QED  BY <1>9, <1>10, <1>11, <1>12

(* What nested calls tell, the loop over subjects tells. *)
LEMMA HopsTellStep ==
  ASSUME Stored, NEW n \in Nat, NodesTell(n), HopsTell(n)
  PROVE  HopsTell(n + 1)
<1> SUFFICES ASSUME NEW o \in Objects, NEW r \in Relations, NEW d \in 0 .. MaxDepth,
                    NEW w \in Walks, NEW l \in Collections, NEW rw \in HoppingRewrites,
                    NEW rest \in Seq(Subjects), ~w.grant, w.visited = l.visited,
                    ~(rw.kind = "this" /\ <<o, r, Direct(Target)>> \in tuples)
             PROVE  Tells(w, l, Deriving(Live)[n + 1][AtHops(o, r, rw, rest, d, w)],
                                Collecting(Live)[n + 1][AtHops(o, r, rw, rest, d, l)])
  BY DEF HopsTell
<1> DEFINE v == Deriving(Live)[n + 1][AtHops(o, r, rw, rest, d, w)]
           m == Collecting(Live)[n + 1][AtHops(o, r, rw, rest, d, l)]
           x == Head(rest)
           y == NextRelation(rw, x)
           leads == LeadsFrom(Live, o, r, rw, x)
           nodeD == Deriving(Live)[n][AtNode(x.ref, y, d + 1, w)]
           nodeC == Collecting(Live)[n][AtNode(x.ref, y, d + 1, l)]
           sub == IF ~leads THEN w ELSE nodeD
           next == IF leads THEN nodeC ELSE l
           moreD == Deriving(Live)[n][AtHops(o, r, rw, Tail(rest), d, sub)]
           moreC == Collecting(Live)[n][AtHops(o, r, rw, Tail(rest), d, next)]
<1>1. Snapshot(Live) /\ MaxDepth \in Nat /\ d \in Nat /\ d + 1 \in Nat
  BY LiveType, EvaluationAssumption
<1>2. ~IndexGrants(Live, x.ref, x.relation, d + 1)
  BY LiveType DEF Live, NoIndex, IndexGrants
<1>3. v = IF rest = <<>> THEN w ELSE IF sub.grant THEN sub ELSE moreD
  BY <1>1, <1>2, DeriveAtHops
<1>4. ~IsMember(Live, o, r, rw, x)  BY LiveType DEF IsMember
<1>5. m = IF rest = <<>> THEN l ELSE moreC
  BY <1>1, <1>4, CollectAtHops
<1>6. WalksPost(Live, n)  BY WalksAreSound, NoIndexIsSound DEF Live
<1> HIDE DEF v, m
<1> SUFFICES Tells(w, l, v, m)  BY DEF v, m
<1>7. CASE rest = <<>>  BY <1>3, <1>5, <1>7 DEF Tells
<1>8. CASE rest # <<>>
  <2>1. x \in Subjects /\ Tail(rest) \in Seq(Subjects)  BY <1>8, HeadTailProperties
  <2>2. leads => x \in Leading(o, r, rw)  BY <2>1, LiveType DEF LeadsFrom, Leading
  <2>3. leads => x.ref \in Objects /\ y \in Relations  BY <2>2, LeadingType
  <2>4. leads => Tells(w, l, nodeD, nodeC) /\ nodeD \in Walks
    BY <1>1, <2>3, DeriveType DEF NodesTell
  <2>5. leads => Continues(l, nodeC)  BY <1>1, <2>3, ContinuesAlways
  <2> HIDE DEF nodeD, nodeC, leads, x
  <2>6. Tells(w, l, sub, next) /\ sub \in Walks /\ Continues(l, next)
    <3>1. Tells(w, l, w, l) /\ Continues(l, l)  BY ContinuesComposes DEF Tells
    <3> QED  BY <2>4, <2>5, <3>1
  <2> HIDE DEF sub, next
  <2>7. next \in Collections  BY <2>6 DEF Continues
  <2>8. Continues(next, moreC)  BY <1>1, <2>1, <2>7, ContinuesAlways
  <2>9. ~sub.grant => Extends(sub, moreD)
    BY <1>6, <2>1, <2>6 DEF WalksPost, AllHopsPost, HopsPost
  <2>10. ~sub.grant /\ sub.visited = next.visited => Tells(sub, next, moreD, moreC)
    BY <2>1, <2>6, <2>7 DEF HopsTell
  <2> HIDE DEF moreD, moreC
  <2>11. v = (IF sub.grant THEN sub ELSE moreD) /\ m = moreC  BY <1>3, <1>5, <1>8
  <2> QED  BY <2>6, <2>7, <2>8, <2>9, <2>10, <2>11, TellsComposes
<1> QED  BY <1>7, <1>8

-----------------------------------------------------------------------------
(***************************************************************************)
(* Walk and collection tell the same: operands.                            *)
(***************************************************************************)
(* NamespaceConfig has accepted the operands of a rewrite. *)
LEMMA OperandsAccepted ==
  ASSUME NEW rw \in Rewrites
  PROVE  /\ rw.kind \in {"union", "intersection"} /\ rw.children # <<>> =>
              Head(rw.children) \in AcceptedRewrites
         /\ rw.kind = "exclusion" =>
              rw.base \in AcceptedRewrites /\ rw.subtract \in AcceptedRewrites
<1>1. ASSUME rw.kind \in {"union", "intersection"}, rw.children # <<>>
      PROVE  Head(rw.children) \in AcceptedRewrites
  <2>1. WellFormed(rw)  BY EvaluationAssumption
  <2>2. rw.children \in Seq(AcceptedRewrites)
    BY <1>1, <2>1 DEF WellFormed, This, Computed, TupleTo, Exclusion
  <2> HIDE DEF AcceptedRewrites
  <2> QED  BY <1>1, <2>2
<1>2. ASSUME rw.kind = "exclusion"
      PROVE  rw.base \in AcceptedRewrites /\ rw.subtract \in AcceptedRewrites
  <2>1. WellFormed(rw)  BY EvaluationAssumption
  <2> QED  BY <1>2, <2>1 DEF WellFormed, This, Computed, TupleTo
<1> QED  BY <1>1, <1>2

(* An operand that is walked and collected afresh. *)
LEMMA OperandTells ==
  ASSUME Stored, NEW n \in Nat, RewritesTell(n),
         NEW o \in Objects, NEW r \in Relations, NEW rw \in Rewrites, NEW d \in 0 .. MaxDepth,
         NEW l \in Collections, rw.kind = "intersection" => rw.children # <<>>
  PROVE  LET f == Deriving(Live)[n][AtRewrite(o, r, rw, d, Fresh)]
             g == Collecting(Live)[n][AtRewrite(o, r, rw, d, Operand(l))]
         IN /\ f \in Walks /\ g \in Collections
            /\ ~g.cut => ~l.cut
            /\ ~f.truncated /\ ~g.cut => (f.grant <=> g.found # <<>>)
<1> DEFINE f == Deriving(Live)[n][AtRewrite(o, r, rw, d, Fresh)]
           g == Collecting(Live)[n][AtRewrite(o, r, rw, d, Operand(l))]
<1>1. Snapshot(Live)  BY LiveType
<1>2. Fresh \in Walks /\ ~Fresh.grant /\ Fresh.visited = {}  BY WalksType
<1>3. /\ Operand(l) \in Collections /\ Operand(l).found = <<>> /\ Operand(l).visited = {}
      /\ Operand(l).cut = l.cut
  BY CollectionsType
<1>4. d \in Nat  BY EvaluationAssumption
<1>5. f \in Walks  BY <1>1, <1>2, <1>4, DeriveType
<1>6. Continues(Operand(l), g)  BY <1>3, <1>4, ContinuesAlways
<1>7. Tells(Fresh, Operand(l), f, g)  BY <1>2, <1>3 DEF RewritesTell
<1> HIDE DEF f, g
<1>8. g \in Collections /\ g.found \in Seq(Nat) /\ (~g.cut => ~l.cut)
  BY <1>3, <1>6, ContinuesType
<1>9. ~f.truncated /\ ~g.cut => (f.grant <=> g.found # <<>>)
  <2>1. ~f.truncated /\ ~g.cut => /\ f.grant => Len(g.found) > Len(<<>>)
                                  /\ ~f.grant => g.found = <<>>
    BY <1>3, <1>7 DEF Tells
  <2>2. Len(g.found) > Len(<<>>) => g.found # <<>>  BY <1>8
  <2>3. f.grant \in BOOLEAN  BY <1>5, WalksType
  <2> QED  BY <2>1, <2>2, <2>3
<1> SUFFICES /\ f \in Walks /\ g \in Collections
             /\ ~g.cut => ~l.cut
             /\ ~f.truncated /\ ~g.cut => (f.grant <=> g.found # <<>>)
  BY DEF f, g
<1> QED  BY <1>5, <1>8, <1>9

(* Past its last operand an intersection grants, if it is not cut. *)
LEMMA NoOperandsLeft ==
  ASSUME Stored, NEW n \in Nat, NEW o \in Objects, NEW r \in Relations, NEW rw \in Rewrites,
         rw.kind = "intersection", rw.children = <<>>, NEW d \in Nat, NEW w \in Walks
  PROVE  Deriving(Live)[n][AtRewrite(o, r, rw, d, w)] \in {Grant(w), Truncate(w)}
<1>1. Snapshot(Live)  BY LiveType
<1>2. CASE n = 0
  <2>1. AtRewrite(o, r, rw, d, w) \in CallsOfWalks /\ AtRewrite(o, r, rw, d, w).w = w
    BY RewriteCall DEF CallsOfWalks
  <2>2. Deriving(Live)[0][AtRewrite(o, r, rw, d, w)] = Truncate(w)
    BY <1>1, <2>1, DerivingEquations
  <2> QED  BY <1>2, <2>2
<1>3. CASE n # 0
  <2>1. PICK k \in Nat : n = k + 1  BY <1>3, n - 1 \in Nat, n = n - 1 + 1
  <2>2. Deriving(Live)[k + 1][AtRewrite(o, r, rw, d, w)] = Grant(w)
    <3> DEFINE c == AtRewrite(o, r, rw, d, w)
    <3>1. c = AtRewrite(o, r, rw, d, w)  OBVIOUS
    <3> HIDE DEF c
    <3>2. /\ Deriving(Live)[k + 1][c] = DeriveRewrite(Live, c, Deriving(Live)[k])
          /\ c.rewrite = rw /\ c.w = w
      BY <1>1, <3>1, DeriveAtRewrite
    <3> QED  BY <3>1, <3>2 DEF DeriveRewrite, DeriveIntersection
  <2> QED  BY <2>1, <2>2
<1> QED  BY <1>2, <1>3

-----------------------------------------------------------------------------
(***************************************************************************)
(* Walk and collection tell the same: loops, unions and intersections.     *)
(***************************************************************************)
(* Relations by their tuples: derive looks for the direct tuple first,     *)
(* collect comes across it in the loop.                                    *)
LEMMA DirectTells ==
  ASSUME Stored, NEW n \in Nat, HopsTell(n),
         NEW o \in Objects, NEW r \in Relations, NEW rw \in Rewrites,
         rw.kind = "this" \/ rw.kind = "tupleToUserset", NEW d \in 0 .. MaxDepth,
         NEW w \in Walks, NEW l \in Collections, ~w.grant, w.visited = l.visited
  PROVE  Tells(w, l, Deriving(Live)[n + 1][AtRewrite(o, r, rw, d, w)],
                     Collecting(Live)[n + 1][AtRewrite(o, r, rw, d, l)])
<1> DEFINE v == Deriving(Live)[n + 1][AtRewrite(o, r, rw, d, w)]
           m == Collecting(Live)[n + 1][AtRewrite(o, r, rw, d, l)]
           hopsD == Deriving(Live)[n][AtHops(o, r, rw, config.order, d, w)]
           hopsC == Collecting(Live)[n][AtHops(o, r, rw, config.order, d, l)]
           direct == <<o, r, Direct(Target)>> \in tuples
<1>1. Snapshot(Live) /\ Live.rows = tuples  BY LiveType
<1>2. d \in Nat  BY EvaluationAssumption
<1>3. rw \in HoppingRewrites /\ config.order \in Seq(Subjects)
  BY OrderType DEF HoppingRewrites
<1>4. m = hopsC  BY <1>1, <1>2, CollectAtLoop
<1>5. v = IF rw.kind = "this" /\ direct THEN Grant(w) ELSE hopsD
  <2>1. rw.kind = "this" => v = IF direct THEN Grant(w) ELSE hopsD
    BY <1>1, <1>2, DeriveAtThis
  <2>2. ASSUME rw.kind = "tupleToUserset" PROVE v = hopsD
    BY <1>1, <1>2, <2>2, DeriveAtTupleTo
  <2> QED  BY <2>1, <2>2
<1>6. ~(rw.kind = "this" /\ direct) => Tells(w, l, hopsD, hopsC)
  BY <1>3 DEF HopsTell
<1>7. rw.kind = "this" /\ direct /\ ~hopsC.cut => Len(hopsC.found) > Len(l.found)
  <2> SUFFICES ASSUME rw.kind = "this", direct, ~hopsC.cut
               PROVE  Len(hopsC.found) > Len(l.found)
    OBVIOUS
  <2>1. rw = This  BY RewriteCases
  <2>2. Direct(Target) \in ToSet(config.order)
    <3>1. <<o, r, Direct(Target)>>[3] \in ToSet(config.order)  BY OrderType
    <3> QED  BY <3>1
  <2> QED  BY <1>2, <1>3, <2>1, <2>2, MembersAreFound
<1> HIDE DEF v, m, hopsD, hopsC
<1>8. Tells(w, l, v, m)
  <2>1. Grant(w).grant  BY WalksType
  <2> QED  BY <1>4, <1>5, <1>6, <1>7, <2>1 DEF Tells
<1> QED  BY <1>8 DEF v, m

(* Unions: derive stops at a grant, collect goes on. *)
LEMMA UnionTells ==
  ASSUME Stored, NEW n \in Nat, RewritesTell(n),
         NEW o \in Objects, NEW r \in Relations, NEW rw \in Rewrites,
         rw.kind = "union", NEW d \in 0 .. MaxDepth,
         NEW w \in Walks, NEW l \in Collections, ~w.grant, w.visited = l.visited
  PROVE  Tells(w, l, Deriving(Live)[n + 1][AtRewrite(o, r, rw, d, w)],
                     Collecting(Live)[n + 1][AtRewrite(o, r, rw, d, l)])
<1> DEFINE v == Deriving(Live)[n + 1][AtRewrite(o, r, rw, d, w)]
           m == Collecting(Live)[n + 1][AtRewrite(o, r, rw, d, l)]
           first == Head(rw.children)
           subD == Deriving(Live)[n][AtRewrite(o, r, first, d, w)]
           subC == Collecting(Live)[n][AtRewrite(o, r, first, d, l)]
           moreD == Deriving(Live)[n][AtRewrite(o, r, Rest(rw), d, subD)]
           moreC == Collecting(Live)[n][AtRewrite(o, r, Rest(rw), d, subC)]
<1>1. Snapshot(Live) /\ d \in Nat  BY LiveType, EvaluationAssumption
<1>2. v = IF rw.children = <<>> THEN w ELSE IF subD.grant THEN subD ELSE moreD
  BY <1>1, DeriveAtUnion
<1>3. m = IF rw.children = <<>> THEN l ELSE moreC
  BY <1>1, CollectAtUnion
<1>4. WalksPost(Live, n)  BY WalksAreSound, NoIndexIsSound DEF Live
<1> HIDE DEF v, m
<1> SUFFICES Tells(w, l, v, m)  BY DEF v, m
<1>5. CASE rw.children = <<>>  BY <1>2, <1>3, <1>5 DEF Tells
<1>6. CASE rw.children # <<>>
  <2>1. first \in Rewrites /\ Rest(rw) \in Rewrites /\ Rest(rw).kind = "union"
    BY <1>6, RestType
  <2>2. first.kind = "intersection" => first.children # <<>>
    BY <1>6, OperandsAccepted DEF AcceptedRewrites
  <2> HIDE DEF first
  <2>3. subD \in Walks  BY <1>1, <2>1, DeriveType
  <2>4. Continues(l, subC)  BY <1>1, <2>1, ContinuesAlways
  <2>5. Tells(w, l, subD, subC)  BY <2>1, <2>2 DEF RewritesTell
  <2> HIDE DEF subD, subC
  <2>6. subC \in Collections  BY <2>4 DEF Continues
  <2>7. Continues(subC, moreC)  BY <1>1, <2>1, <2>6, ContinuesAlways
  <2>8. ~subD.grant => Extends(subD, moreD)
    BY <1>4, <2>1, <2>3 DEF WalksPost, RewritesPost, RewritePost
  <2>9. ~subD.grant /\ subD.visited = subC.visited => Tells(subD, subC, moreD, moreC)
    BY <2>1, <2>3, <2>6 DEF RewritesTell
  <2> HIDE DEF moreD, moreC
  <2>10. v = (IF subD.grant THEN subD ELSE moreD) /\ m = moreC  BY <1>2, <1>3, <1>6
  <2> QED  BY <2>3, <2>4, <2>5, <2>6, <2>7, <2>8, <2>9, <2>10, TellsComposes
<1> QED  BY <1>5, <1>6

(* Intersections: the operands grant iff each collects the target. *)
LEMMA IntersectionTells ==
  ASSUME Stored, NEW n \in Nat, RewritesTell(n),
         NEW o \in Objects, NEW r \in Relations, NEW rw \in Rewrites,
         rw.kind = "intersection", rw.children # <<>>, NEW d \in 0 .. MaxDepth,
         NEW w \in Walks, NEW l \in Collections, ~w.grant
  PROVE  Tells(w, l, Deriving(Live)[n + 1][AtRewrite(o, r, rw, d, w)],
                     Collecting(Live)[n + 1][AtRewrite(o, r, rw, d, l)])
<1> DEFINE v == Deriving(Live)[n + 1][AtRewrite(o, r, rw, d, w)]
           m == Collecting(Live)[n + 1][AtRewrite(o, r, rw, d, l)]
           first == Head(rw.children)
           f == Deriving(Live)[n][AtRewrite(o, r, first, d, Fresh)]
           g == Collecting(Live)[n][AtRewrite(o, r, first, d, Operand(l))]
           restD == Deriving(Live)[n][AtRewrite(o, r, Rest(rw), d, w)]
           restC == Collecting(Live)[n][AtRewrite(o, r, Rest(rw), d, Operand(g))]
           members == InBoth(rw, g, restC)
<1>1. Snapshot(Live) /\ d \in Nat  BY LiveType, EvaluationAssumption
<1>2. v = IF f.truncated THEN Truncate(w) ELSE IF f.grant THEN restD ELSE w
  BY <1>1, DeriveAtIntersection
<1>3. m = Intersected(rw, l, g, restC)
  BY <1>1, CollectAtIntersection
<1>4. /\ first \in Rewrites /\ Rest(rw) \in Rewrites /\ Rest(rw).kind = "intersection"
      /\ Rest(rw).children = Tail(rw.children)
  BY RestType
<1>5. first.kind = "intersection" => first.children # <<>>
  BY OperandsAccepted DEF AcceptedRewrites
<1>6. rw.children \in Seq(Rewrites)  BY RewriteCases
<1> HIDE DEF first, v, m
<1>7. /\ f \in Walks /\ g \in Collections
      /\ ~f.truncated /\ ~g.cut => (f.grant <=> g.found # <<>>)
  BY <1>4, <1>5, OperandTells
<1>8. v.visited = w.visited
  <2>1. Deriving(Live)[n + 1][AtRewrite(o, r, rw, d, w)].visited = w.visited
    <3>1. n + 1 \in Nat  OBVIOUS
    <3> QED  BY <1>1, <3>1, IntersectionVisitsNothing
  <2> QED  BY <2>1 DEF v
<1> HIDE DEF f, g
<1>9. /\ Operand(g) \in Collections /\ Operand(g).found = <<>> /\ Operand(g).cut = g.cut
      /\ g.found \in Seq(Nat) /\ l.found \in Seq(Nat)
  BY <1>7, CollectionsType
<1>10. Continues(Operand(g), restC)  BY <1>1, <1>4, <1>9, ContinuesAlways
<1>11. restC \in Collections /\ restC.found \in Seq(Nat) /\ (~restC.cut => ~g.cut)
  BY <1>9, <1>10, ContinuesType
<1>12. restD \in Walks  BY <1>1, <1>4, DeriveType
<1>13. Rest(rw).children # <<>> => Tells(w, Operand(g), restD, restC)
  BY <1>4, <1>9 DEF RewritesTell
<1>14. Rest(rw).children = <<>> => restD \in {Grant(w), Truncate(w)}
  BY <1>1, <1>4, NoOperandsLeft
<1> HIDE DEF restC, restD
<1>15. /\ members \in Seq(Nat) /\ m.visited = l.visited /\ m.cut = restC.cut
       /\ m.found = l.found \o members
  <2> DEFINE p == Intersected(rw, l, g, restC)
  <2>1. /\ InBoth(rw, g, restC) \in Seq(Nat) /\ p.visited = l.visited
        /\ p.cut = restC.cut /\ p.found = l.found \o InBoth(rw, g, restC)
    BY <1>7, <1>11, IntersectedType
  <2> QED  BY <1>3, <2>1
<1>16. /\ Len(rw.children) = 1 => members = g.found
       /\ Len(rw.children) # 1 => members = Both(g.found, restC.found)
  BY DEF InBoth
<1>17. Len(rw.children) = 1 <=> Rest(rw).children = <<>>
  <2>1. Len(Tail(rw.children)) = Len(rw.children) - 1 /\ Tail(rw.children) \in Seq(Rewrites)
    BY <1>6
  <2>2. Tail(rw.children) = <<>> <=> Len(Tail(rw.children)) = 0
    BY <2>1, EmptySeq
  <2>3. Len(rw.children) \in Nat  BY <1>6
  <2> QED  BY <1>4, <2>1, <2>2, <2>3
<1>18. /\ restC.found = <<>> => Both(g.found, restC.found) = <<>>
       /\ g.found = <<>> => Both(g.found, restC.found) = <<>>
       /\ restC.found # <<>> => Len(Both(g.found, restC.found)) = Len(g.found)
  BY <1>9, <1>11, BothType
<1> HIDE DEF members
<1>19. /\ Len(m.found) = Len(l.found) + Len(members)
       /\ members = <<>> => m.found = l.found
       /\ Len(l.found) \in Nat /\ Len(members) \in Nat
  <2>1. Len(l.found \o members) = Len(l.found) + Len(members)  BY <1>9, <1>15
  <2>2. l.found \o <<>> = l.found  BY <1>9
  <2> QED  BY <1>9, <1>15, <2>1, <2>2
<1>20. g.found # <<>> => Len(g.found) > 0
  BY <1>9, EmptySeq
<1>21. ASSUME ~v.truncated, ~m.cut
       PROVE  /\ v.grant => Len(m.found) > Len(l.found)
              /\ ~v.grant => m.found = l.found /\ (w.visited = l.visited => v.visited = m.visited)
  <2>1. ~restC.cut /\ ~g.cut  BY <1>11, <1>15, <1>21
  <2>2. ~f.truncated
    <3>1. Truncate(w).truncated  BY WalksType
    <3> QED  BY <1>2, <1>21, <3>1
  <2>3. CASE ~f.grant
    <3>1. v = w /\ g.found = <<>>  BY <1>2, <1>7, <2>1, <2>2, <2>3
    <3>2. members = <<>>  BY <1>16, <1>18, <3>1
    <3> QED  BY <1>8, <1>15, <1>19, <3>1, <3>2
  <2>4. CASE f.grant /\ Len(rw.children) = 1
    <3>1. v = restD /\ Len(g.found) > 0  BY <1>2, <1>7, <1>20, <2>1, <2>2, <2>4
    <3>2. v = Grant(w) /\ v.grant
      <4>1. Truncate(w).truncated /\ Grant(w).grant  BY WalksType
      <4> QED  BY <1>14, <1>17, <1>21, <2>4, <3>1, <4>1
    <3>3. Len(members) > 0  BY <1>16, <2>4, <3>1
    <3> QED  BY <1>19, <3>2, <3>3
  <2>5. CASE f.grant /\ Len(rw.children) # 1
    <3>1. v = restD /\ Len(g.found) > 0  BY <1>2, <1>7, <1>20, <2>1, <2>2, <2>5
    <3>2. Tells(w, Operand(g), v, restC)  BY <1>13, <1>17, <2>5, <3>1
    <3>3. v.grant => Len(restC.found) > Len(<<>>)  BY <1>9, <1>21, <2>1, <3>2 DEF Tells
    <3>4. v.grant => restC.found # <<>>  BY <1>11, <3>3
    <3>5. ~v.grant => restC.found = <<>>  BY <1>9, <1>21, <2>1, <3>2 DEF Tells
    <3>6. v.grant => Len(members) > 0  BY <1>16, <1>18, <2>5, <3>1, <3>4
    <3>7. ~v.grant => members = <<>>  BY <1>16, <1>18, <2>5, <3>5
    <3> QED  BY <1>8, <1>15, <1>19, <3>6, <3>7
  <2> QED  BY <2>3, <2>4, <2>5
<1>22. Tells(w, l, v, m)  BY <1>21 DEF Tells
<1> QED  BY <1>22 DEF v, m

-----------------------------------------------------------------------------
(***************************************************************************)
(* Walk and collection tell the same: exclusions, and every call.          *)
(***************************************************************************)
(* Exclusions: what is collected of the base and not subtracted. *)
LEMMA ExclusionTells ==
  ASSUME Stored, NEW n \in Nat, RewritesTell(n),
         NEW o \in Objects, NEW r \in Relations, NEW rw \in Rewrites,
         rw.kind = "exclusion", NEW d \in 0 .. MaxDepth,
         NEW w \in Walks, NEW l \in Collections, ~w.grant
  PROVE  Tells(w, l, Deriving(Live)[n + 1][AtRewrite(o, r, rw, d, w)],
                     Collecting(Live)[n + 1][AtRewrite(o, r, rw, d, l)])
<1> DEFINE v == Deriving(Live)[n + 1][AtRewrite(o, r, rw, d, w)]
           m == Collecting(Live)[n + 1][AtRewrite(o, r, rw, d, l)]
           f == Deriving(Live)[n][AtRewrite(o, r, rw.base, d, Fresh)]
           f2 == Deriving(Live)[n][AtRewrite(o, r, rw.subtract, d, Fresh)]
           g == Collecting(Live)[n][AtRewrite(o, r, rw.base, d, Operand(l))]
           g2 == Collecting(Live)[n][AtRewrite(o, r, rw.subtract, d, Operand(g))]
           members == InBase(g, g2)
<1>1. Snapshot(Live) /\ d \in Nat  BY LiveType, EvaluationAssumption
<1>2. v = DeriveExclusion(f, f2, w)  BY <1>1, DeriveAtExclusion
<1>3. m = Excluded(l, g, g2)  BY <1>1, CollectAtExclusion
<1>4. rw.base \in AcceptedRewrites /\ rw.subtract \in AcceptedRewrites
  BY OperandsAccepted
<1>5. /\ rw.base \in Rewrites /\ (rw.base.kind = "intersection" => rw.base.children # <<>>)
      /\ rw.subtract \in Rewrites
      /\ rw.subtract.kind = "intersection" => rw.subtract.children # <<>>
  BY <1>4 DEF AcceptedRewrites
<1> HIDE DEF v, m
<1>6. /\ f \in Walks /\ g \in Collections
      /\ ~f.truncated /\ ~g.cut => (f.grant <=> g.found # <<>>)
  BY <1>5, OperandTells
<1>7. /\ f2 \in Walks /\ g2 \in Collections /\ (~g2.cut => ~g.cut)
      /\ ~f2.truncated /\ ~g2.cut => (f2.grant <=> g2.found # <<>>)
  BY <1>5, <1>6, OperandTells
<1> HIDE DEF f, g, f2, g2
<1>8. g.found \in Seq(Nat) /\ l.found \in Seq(Nat) /\ g2.found \in Seq(Nat)
  BY <1>6, <1>7, CollectionsType
<1>9. /\ members \in Seq(Nat) /\ m.visited = l.visited /\ m.cut = g2.cut
      /\ m.found = l.found \o members
  <2> DEFINE p == Excluded(l, g, g2)
  <2>1. /\ InBase(g, g2) \in Seq(Nat) /\ p.visited = l.visited
        /\ p.cut = g2.cut /\ p.found = l.found \o InBase(g, g2)
    BY <1>6, <1>7, ExcludedType
  <2> QED  BY <1>3, <2>1
<1>10. members = IF g2.found = <<>> THEN g.found ELSE <<>>
  BY DEF InBase, Without
<1> HIDE DEF members
<1>11. /\ Len(m.found) = Len(l.found) + Len(members)
       /\ members = <<>> => m.found = l.found
       /\ members # <<>> => Len(members) > 0
       /\ Len(l.found) \in Nat /\ Len(members) \in Nat
  <2>1. Len(l.found \o members) = Len(l.found) + Len(members)  BY <1>8, <1>9
  <2>2. l.found \o <<>> = l.found  BY <1>8
  <2>3. members # <<>> => Len(members) > 0  BY <1>9, EmptySeq
  <2> QED  BY <1>8, <1>9, <2>1, <2>2, <2>3
<1>12. v.visited = w.visited
  BY <1>2, WalksType DEF DeriveExclusion
<1>13. ASSUME ~v.truncated, ~m.cut
       PROVE  /\ v.grant <=> members # <<>>
  <2>1. ~g2.cut /\ ~g.cut  BY <1>7, <1>9, <1>13
  <2>2. Truncate(w).truncated /\ Grant(w).grant  BY WalksType
  <2>3. ~f.truncated /\ (f.grant => ~f2.truncated)
    BY <1>2, <1>13, <2>2 DEF DeriveExclusion
  <2>4. v = IF f.grant /\ ~f2.grant THEN Grant(w) ELSE w
    BY <1>2, <2>3 DEF DeriveExclusion
  <2>5. f.grant <=> g.found # <<>>  BY <1>6, <2>1, <2>3
  <2>6. f.grant => (f2.grant <=> g2.found # <<>>)  BY <1>7, <2>1, <2>3
  <2> QED  BY <1>10, <2>2, <2>4, <2>5, <2>6
<1>14. Tells(w, l, v, m)
  BY <1>9, <1>11, <1>12, <1>13 DEF Tells
<1> QED  BY <1>14 DEF v, m

(* What nested calls tell, a call at a rewrite tells. *)
LEMMA RewritesTellStep ==
  ASSUME Stored, NEW n \in Nat, NodesTell(n), RewritesTell(n), HopsTell(n)
  PROVE  RewritesTell(n + 1)
<1> SUFFICES ASSUME NEW o \in Objects, NEW r \in Relations, NEW d \in 0 .. MaxDepth,
                    NEW w \in Walks, NEW l \in Collections, NEW rw \in Rewrites, ~w.grant,
                    w.visited = l.visited \/ rw.kind = "intersection",
                    rw.kind = "intersection" => rw.children # <<>>
             PROVE  Tells(w, l, Deriving(Live)[n + 1][AtRewrite(o, r, rw, d, w)],
                                Collecting(Live)[n + 1][AtRewrite(o, r, rw, d, l)])
  BY DEF RewritesTell
<1>1. CASE rw.kind = "this" \/ rw.kind = "tupleToUserset"
  <2>1. w.visited = l.visited  BY <1>1
  <2> QED  BY <1>1, <2>1, DirectTells
<1>2. CASE rw.kind = "computedUserset"
  <2>1. rw.relation \in Relations  BY <1>2, RewriteCases
  <2>2. Snapshot(Live) /\ d \in Nat  BY LiveType, EvaluationAssumption
  <2>3. Deriving(Live)[n + 1][AtRewrite(o, r, rw, d, w)] =
          Deriving(Live)[n][AtNode(o, rw.relation, d, w)]
    BY <1>2, <2>2, DeriveAtComputed
  <2>4. Collecting(Live)[n + 1][AtRewrite(o, r, rw, d, l)] =
          Collecting(Live)[n][AtNode(o, rw.relation, d, l)]
    BY <1>2, <2>2, CollectAtComputed
  <2>5. w.visited = l.visited  BY <1>2
  <2>6. Tells(w, l, Deriving(Live)[n][AtNode(o, rw.relation, d, w)],
                    Collecting(Live)[n][AtNode(o, rw.relation, d, l)])
    BY <2>1, <2>2, <2>5 DEF NodesTell
  <2> QED  BY <2>3, <2>4, <2>6
<1>3. CASE rw.kind = "union"
  <2>1. w.visited = l.visited  BY <1>3
  <2> QED  BY <1>3, <2>1, UnionTells
<1>4. CASE rw.kind = "intersection"
  <2>1. rw.children # <<>>  BY <1>4
  <2> QED  BY <1>4, <2>1, IntersectionTells
<1>5. CASE rw.kind = "exclusion"  BY <1>5, ExclusionTells
<1>6. rw = This => rw.kind = "this"  BY DEF This
<1> QED  BY <1>1, <1>2, <1>3, <1>4, <1>5, <1>6, KindsOfRewrites

(* derive and collect tell the same at every call. *)
LEMMA EveryCallTells ==
  ASSUME Stored
  PROVE  \A n \in Nat : NodesTell(n) /\ RewritesTell(n) /\ HopsTell(n)
<1> DEFINE Good == {n \in Nat : NodesTell(n) /\ RewritesTell(n) /\ HopsTell(n)}
<1>1. 0 \in Good
  <2>1. \A c \in CallsOfWalks : Deriving(Live)[0][c] = Truncate(c.w)
    BY LiveType, DerivingEquations
  <2>2. \A w \in Walks : \A l, m : Tells(w, l, Truncate(w), m)
    BY WalksType DEF Tells
  <2>3. NodesTell(0)
    <3> SUFFICES ASSUME NEW o \in Objects, NEW r \in Relations, NEW d \in Nat,
                        NEW w \in Walks, NEW l \in Collections
                 PROVE  Deriving(Live)[0][AtNode(o, r, d, w)] = Truncate(w)
      BY <2>2 DEF NodesTell
    <3>1. AtNode(o, r, d, w) \in CallsOfWalks /\ AtNode(o, r, d, w).w = w
      BY NodeCall DEF CallsOfWalks
    <3> QED  BY <2>1, <3>1
  <2>4. RewritesTell(0)
    <3> SUFFICES ASSUME NEW o \in Objects, NEW r \in Relations, NEW d \in 0 .. MaxDepth,
                        NEW w \in Walks, NEW l \in Collections, NEW rw \in Rewrites
                 PROVE  Deriving(Live)[0][AtRewrite(o, r, rw, d, w)] = Truncate(w)
      BY <2>2 DEF RewritesTell
    <3>1. d \in Nat  BY EvaluationAssumption
    <3>2. AtRewrite(o, r, rw, d, w) \in CallsOfWalks /\ AtRewrite(o, r, rw, d, w).w = w
      BY <3>1, RewriteCall DEF CallsOfWalks
    <3> QED  BY <2>1, <3>2
  <2>5. HopsTell(0)
    <3> SUFFICES ASSUME NEW o \in Objects, NEW r \in Relations, NEW d \in 0 .. MaxDepth,
                        NEW w \in Walks, NEW l \in Collections, NEW rw \in HoppingRewrites,
                        NEW rest \in Seq(Subjects)
                 PROVE  Deriving(Live)[0][AtHops(o, r, rw, rest, d, w)] = Truncate(w)
      BY <2>2 DEF HopsTell
    <3>1. d \in Nat  BY EvaluationAssumption
    <3>2. AtHops(o, r, rw, rest, d, w) \in CallsOfWalks /\ AtHops(o, r, rw, rest, d, w).w = w
      BY <3>1, HopsCall DEF CallsOfWalks
    <3> QED  BY <2>1, <3>2
  <2> QED  BY <2>3, <2>4, <2>5
<1>2. ASSUME NEW n \in Nat, n \in Good PROVE n + 1 \in Good
  <2>1. NodesTell(n + 1)  BY <1>2, NodesTellStep
  <2>2. RewritesTell(n + 1)  BY <1>2, RewritesTellStep
  <2>3. HopsTell(n + 1)  BY <1>2, HopsTellStep
  <2> QED  BY <2>1, <2>2, <2>3
<1> HIDE DEF Good
<1>3. \A n \in Nat : n \in Good  BY <1>1, <1>2, EveryNatural
<1> QED  BY <1>3 DEF Good

-----------------------------------------------------------------------------
(***************************************************************************)
(* expand and check.                                                       *)
(***************************************************************************)
(* expand lists the target for a required relation iff the walk of check   *)
(* grants it, whenever the walk was not cut at the depth bound.            *)
THEOREM ExpandAgreement == Spec => []ExpandAgreesWithCheck
<1>1. ASSUME Stored PROVE ExpandAgreesWithCheck
  <2> SUFFICES ASSUME NEW i \in DOMAIN config.required,
                      ~Derive(Live, Resource, config.required[i], Fresh).truncated,
                      ~FlattenedSet(Live, Resource, config.required[i]).cut
               PROVE  Derive(Live, Resource, config.required[i], Fresh).grant <=>
                        FlattenedSet(Live, Resource, config.required[i]).found # <<>>
    BY DEF ExpandAgreesWithCheck, Live
  <2> DEFINE r == config.required[i]
             w == Derive(Live, Resource, r, Fresh)
             m == FlattenedSet(Live, Resource, r)
  <2>1. r \in Relations /\ Resource \in Objects /\ MaxCalls \in Nat /\ 0 \in Nat
    BY <1>1, RequiredType, EvaluationAssumption
  <2> HIDE DEF r
  <2>2. w = Deriving(Live)[MaxCalls][AtNode(Resource, r, 0, Fresh)]  BY DEF Derive
  <2>3. m = Collecting(Live)[MaxCalls][AtNode(Resource, r, 0, Empty)]  BY DEF FlattenedSet
  <2>4. Fresh \in Walks /\ ~Fresh.grant /\ Fresh.visited = {}  BY WalksType
  <2>5. Empty \in Collections /\ Empty.found = <<>> /\ Empty.visited = {}
    BY CollectionsType DEF Empty
  <2>6. NodesTell(MaxCalls)  BY <1>1, <2>1, EveryCallTells
  <2>7. Tells(Fresh, Empty, w, m)  BY <2>1, <2>2, <2>3, <2>4, <2>5, <2>6 DEF NodesTell
  <2>8. w \in Walks
    <3>1. Snapshot(Live)  BY LiveType
    <3>2. Deriving(Live)[MaxCalls][AtNode(Resource, r, 0, Fresh)] \in Walks
      BY <1>1, <2>1, <2>4, <3>1, DeriveType
    <3> QED  BY <2>2, <3>2
  <2>9. m.found \in Seq(Nat)  BY <1>1, <2>1, FlattenedSetIsSound
  <2> HIDE DEF w, m
  <2>10. ~w.truncated /\ ~m.cut  BY DEF w, m, r
  <2>11. w.grant => m.found # <<>>
    <3>1. w.grant => Len(m.found) > Len(<<>>)  BY <2>5, <2>7, <2>10 DEF Tells
    <3> QED  BY <2>9, <3>1
  <2>12. ~w.grant => m.found = <<>>  BY <2>5, <2>7, <2>10 DEF Tells
  <2>13. w.grant <=> m.found # <<>>
    <3>1. w.grant \in BOOLEAN  BY <2>8, WalksType
    <3> QED  BY <2>11, <2>12, <3>1
  <2> QED  BY <2>13 DEF w, m, r
<1> QED  BY <1>1, StoredAlways, PTL

(* The membership index and expand give the answer that the walk gives. *)
THEOREM QueriesAgreement == Spec => []QueriesAgree
<1>1. IndexedWalkIsExact /\ ExpandAgreesWithCheck => QueriesAgree  BY DEF QueriesAgree
<1> QED  BY <1>1, IndexedWalkExactness, ExpandAgreement, PTL

-----------------------------------------------------------------------------
(***************************************************************************)
(* The closure loader, unfolded by one call.                               *)
(***************************************************************************)
(* A node that the loader walks. *)
Enter(l, o, r) == [Load(l, o, r) EXCEPT !.walked = @ \cup {<<o, r>>}]

(* Loading and walking a node give a load. *)
LEMMA LoadsType ==
  ASSUME NEW l \in Loads, NEW o \in Objects, NEW r \in Relations
  PROVE  /\ l.walked \subseteq Nodes /\ l.loaded \subseteq Nodes
         /\ Load(l, o, r) \in Loads /\ Load(l, o, r).walked = l.walked
         /\ Load(l, o, r).loaded = l.loaded \cup {<<o, r>>}
         /\ Enter(l, o, r) \in Loads /\ Enter(l, o, r).walked = l.walked \cup {<<o, r>>}
         /\ Enter(l, o, r).loaded = l.loaded \cup {<<o, r>>}
<1>1. /\ l.walked \subseteq Nodes /\ l.loaded \subseteq Nodes /\ <<o, r>> \in Nodes
  BY DEF Loads, Nodes
<1>2. /\ Load(l, o, r) \in Loads /\ Load(l, o, r).walked = l.walked
      /\ Load(l, o, r).loaded = l.loaded \cup {<<o, r>>}
  BY <1>1 DEF Loads, Load
<1>3. /\ Enter(l, o, r) \in Loads /\ Enter(l, o, r).walked = l.walked \cup {<<o, r>>}
      /\ Enter(l, o, r).loaded = l.loaded \cup {<<o, r>>}
  <2> DEFINE p == Load(l, o, r)
  <2>1. p \in Loads /\ p.walked = l.walked /\ p.loaded = l.loaded \cup {<<o, r>>}  BY <1>2
  <2> HIDE DEF p
  <2>2. LET q == [p EXCEPT !.walked = @ \cup {<<o, r>>}]
        IN q \in Loads /\ q.walked = l.walked \cup {<<o, r>>} /\ q.loaded = p.loaded
    BY <1>1, <2>1 DEF Loads
  <2> QED  BY <2>1, <2>2 DEF Enter, p
<1> QED  BY <1>1, <1>2, <1>3

Loaders == [CallsOfLoads -> Loads]

(* A step of the loader with loads for its nested calls gives a load. *)
LEMMA WalkStepType ==
  ASSUME Stored, NEW s, Snapshot(s), NEW c \in CallsOfLoads, NEW run \in Loaders
  PROVE  WalkStep(s, c, run) \in Loads
<1>1. PICK o \in Objects, r \in Relations, d \in Nat, w \in Loads :
         \/ c = AtNode(o, r, d, w)
         \/ \E rw \in Rewrites : c = AtRewrite(o, r, rw, d, w)
         \/ \E rw \in HoppingRewrites, rest \in Seq(Subjects) :
              c = AtHops(o, r, rw, rest, d, w)
  BY CallCases DEF CallsOfLoads
<1>2. CASE c = AtNode(o, r, d, w)
  <2>1. c.at = "node" /\ c.o = o /\ c.r = r /\ c.depth = d /\ c.w = w
    BY <1>2 DEF AtNode
  <2>2. Enter(w, o, r) \in Loads  BY LoadsType
  <2>3. RewriteOf(s, o, r) \in Rewrites  BY RewriteOfType DEF Snapshot
  <2>4. AtRewrite(o, r, RewriteOf(s, o, r), d, Enter(w, o, r)) \in CallsOfLoads
    BY <2>2, <2>3, RewriteCall DEF CallsOfLoads
  <2>5. WalkNode(s, c, run) \in Loads
    BY <2>1, <2>4 DEF WalkNode, Loaders, Enter
  <2> QED  BY <2>1, <2>5 DEF WalkStep
<1>3. CASE \E rw \in Rewrites : c = AtRewrite(o, r, rw, d, w)
  <2>1. PICK rw \in Rewrites : c = AtRewrite(o, r, rw, d, w)  BY <1>3
  <2>2. /\ c.at = "rewrite" /\ c.o = o /\ c.r = r /\ c.depth = d /\ c.w = w
        /\ c.rewrite = rw
    BY <2>1 DEF AtRewrite
  <2>3. \A x \in Rewrites, v \in Loads :
          AtRewrite(o, r, x, d, v) \in CallsOfLoads /\ run[AtRewrite(o, r, x, d, v)] \in Loads
    BY RewriteCall DEF CallsOfLoads, Loaders
  <2>4. rw \in HoppingRewrites => \A v \in Loads : Loop(c, v) \in CallsOfLoads
    <3>1. config.order \in Seq(Subjects)  BY OrderType
    <3>2. rw \in HoppingRewrites =>
            \A v \in Loads : AtHops(o, r, rw, config.order, d, v) \in Calls(Loads)
      BY <3>1, HopsCall
    <3> QED  BY <2>2, <3>2 DEF CallsOfLoads, Loop
  <2>5. \A x \in Relations : AtNode(o, x, d, w) \in CallsOfLoads
    BY NodeCall DEF CallsOfLoads
  <2>6. ASSUME rw.kind \in {"union", "intersection"}, rw.children # <<>>
        PROVE  \A v \in Loads : run[First(c, v)] \in Loads /\ run[Others(c, v)] \in Loads
    <3>1. Head(rw.children) \in Rewrites /\ [rw EXCEPT !.children = Tail(@)] \in Rewrites
      BY <2>6, RewriteCases
    <3> QED  BY <2>2, <2>3, <3>1 DEF First, Others
  <2>7. WalkRewrite(s, c, run) \in Loads
    <3>1. CASE rw.kind = "this"
      <4>1. rw \in HoppingRewrites  BY <3>1 DEF HoppingRewrites
      <4> QED  BY <4>1, <3>1, <2>2, <2>4 DEF WalkRewrite, Loaders
    <3>2. CASE rw.kind = "computedUserset"
      BY <3>2, <2>2, <2>5, RewriteCases DEF WalkRewrite, Loaders
    <3>3. CASE rw.kind = "tupleToUserset"
      <4>1. rw \in HoppingRewrites /\ rw.tupleset \in Relations  BY <3>3, RewriteCases
      <4>2. Load(w, o, rw.tupleset) \in Loads  BY <4>1, LoadsType
      <4>3. run[Loop(c, Load(w, o, rw.tupleset))] \in Loads  BY <4>1, <4>2, <2>4 DEF Loaders
      <4> QED  BY <4>3, <3>3, <2>2 DEF WalkRewrite
    <3>4. CASE rw.kind \in {"union", "intersection"}
      BY <3>4, <2>2, <2>6 DEF WalkRewrite
    <3>5. CASE rw.kind = "exclusion"
      <4>1. rw.base \in Rewrites /\ rw.subtract \in Rewrites  BY <3>5, RewriteCases
      <4> QED  BY <4>1, <3>5, <2>2, <2>3 DEF WalkRewrite
    <3> QED  BY <3>1, <3>2, <3>3, <3>4, <3>5, RewriteCases
  <2> QED  BY <2>2, <2>7 DEF WalkStep
<1>4. CASE \E rw \in HoppingRewrites, rest \in Seq(Subjects) : c = AtHops(o, r, rw, rest, d, w)
  <2>1. PICK rw \in HoppingRewrites, rest \in Seq(Subjects) : c = AtHops(o, r, rw, rest, d, w)
    BY <1>4
  <2>2. /\ c.at = "hops" /\ c.o = o /\ c.r = r /\ c.depth = d /\ c.w = w
        /\ c.rewrite = rw /\ c.rest = rest
    BY <2>1 DEF AtHops
  <2>3. CASE rest = <<>>  BY <2>2, <2>3 DEF WalkStep, WalkHops
  <2>4. CASE rest # <<>>
    <3>1. Head(rest) \in Subjects /\ Tail(rest) \in Seq(Subjects)
      BY <2>4, HeadTailProperties
    <3>2. \A v \in Loads : NextHop(c, v) \in CallsOfLoads
      BY <2>2, <3>1, HopsCall DEF CallsOfLoads, NextHop
    <3>3. Leads(s, c, Head(rest)) => Hop(c, Head(rest), w) \in CallsOfLoads
      <4> HAVE Leads(s, c, Head(rest))
      <4>1. /\ Head(rest).ref \in Objects
            /\ (IF c.rewrite.kind = "this" THEN Head(rest).relation
                ELSE c.rewrite.relation) \in Relations
        BY <2>2, <3>1, LeadsType
      <4> QED  BY <4>1, <2>2, NodeCall DEF Hop, CallsOfLoads
    <3>4. WalkHops(s, c, run) \in Loads
      BY <2>2, <2>4, <3>2, <3>3 DEF WalkHops, Loaders
    <3> QED  BY <3>4, <2>2 DEF WalkStep
  <2> QED  BY <2>3, <2>4
<1> QED  BY <1>1, <1>2, <1>3, <1>4

(* The loader, unfolded: with no call left it loads nothing more. *)
LEMMA WalkingEquations ==
  ASSUME Stored, NEW s, Snapshot(s)
  PROVE  /\ \A n \in Nat : Walking(s)[n] \in Loaders
         /\ \A c \in CallsOfLoads : Walking(s)[0][c] = c.w
         /\ \A n \in Nat : \A c \in CallsOfLoads :
              Walking(s)[n + 1][c] = WalkStep(s, c, Walking(s)[n])
<1> DEFINE first == [c \in CallsOfLoads |-> c.w]
           step == [n \in Nat |-> [run \in Loaders |->
                    [c \in CallsOfLoads |-> WalkStep(s, c, run)]]]
           Solves(f) == f = [calls \in Nat |->
                               [c \in CallsOfLoads |->
                                  IF calls = 0 THEN c.w
                                  ELSE WalkStep(s, c, f[calls - 1])]]
<1>1. first \in Loaders
  <2>1. \A c \in CallsOfLoads : c.w \in Loads  BY DEF CallsOfLoads, Calls
  <2> QED  BY <2>1 DEF Loaders
<1>2. step \in [Nat -> [Loaders -> Loaders]]  BY WalkStepType DEF Loaders
<1> HIDE DEF first, step
<1>3. PICK f \in [Nat -> Loaders] :
        f[0] = first /\ \A n \in Nat : f[n + 1] = step[n][f[n]]
  <2>1. \A a \in Loaders, g \in [Nat -> [Loaders -> Loaders]] :
          \E f \in [Nat -> Loaders] :
             f[0] = a /\ \A n \in Nat : f[n + 1] = g[n][f[n]]
    BY Iteration
  <2> QED  BY <1>1, <1>2, <2>1
<1>4. \A n \in Nat : f[n + 1] = [c \in CallsOfLoads |-> WalkStep(s, c, f[n])]
  BY <1>3 DEF step
<1>5. Solves(f)
  <2>1. ASSUME NEW n \in Nat
        PROVE  f[n] = [c \in CallsOfLoads |-> IF n = 0 THEN c.w
                                              ELSE WalkStep(s, c, f[n - 1])]
    <3>1. CASE n = 0  BY <3>1, <1>3 DEF first
    <3>2. CASE n # 0
      <4>1. n - 1 \in Nat /\ n - 1 + 1 = n  BY <3>2
      <4> QED  BY <4>1, <1>4, <3>2
    <3> QED  BY <3>1, <3>2
  <2> QED  BY <2>1, <1>3
<1>6. Solves(Walking(s))
  <2>1. \E g : Solves(g)  BY <1>5
  <2> QED  BY <2>1 DEF Walking
<1> DEFINE E == Walking(s)
<1> HIDE DEF E
<1>7. Solves(E)  BY <1>6 DEF E
<1>8. \A n \in Nat : \A c \in CallsOfLoads :
        E[n][c] = IF n = 0 THEN c.w ELSE WalkStep(s, c, E[n - 1])
  <2> TAKE n \in Nat
  <2>1. E[n] = [c \in CallsOfLoads |-> IF n = 0 THEN c.w ELSE WalkStep(s, c, E[n - 1])]
    BY <1>7
  <2> QED  BY <2>1
<1>9. \A n \in Nat : n + 1 - 1 = n /\ n + 1 \in Nat /\ n + 1 # 0  OBVIOUS
<1>10. \A n \in Nat : \A c \in CallsOfLoads : E[n + 1][c] = WalkStep(s, c, E[n])
  BY <1>8, <1>9
<1>11. \A n \in Nat : E[n] \in Loaders
  <2> DEFINE Good == {n \in Nat : E[n] \in Loaders}
  <2>0. \A n \in Nat : E[n] = [c \in CallsOfLoads |-> IF n = 0 THEN c.w
                                              ELSE WalkStep(s, c, E[n - 1])]
    BY <1>7
  <2>1. 0 \in Good  BY <2>0, <1>1 DEF first
  <2>2. \A n \in Nat : n \in Good => n + 1 \in Good
    <3> TAKE n \in Nat
    <3> HAVE n \in Good
    <3>1. E[n + 1] = [c \in CallsOfLoads |-> WalkStep(s, c, E[n])]  BY <2>0, <1>9
    <3> QED  BY <3>1, WalkStepType DEF Loaders
  <2> HIDE DEF Good
  <2>3. \A n \in Nat : n \in Good  BY <2>1, <2>2, EveryNatural
  <2> QED  BY <2>3 DEF Good
<1> QED  BY <1>8, <1>10, <1>11 DEF E

-----------------------------------------------------------------------------
(***************************************************************************)
(* The closure loader at each kind of call.                                *)
(***************************************************************************)
(* Every call of the loader gives a load. *)
LEMMA WalkingType ==
  ASSUME Stored, NEW s, Snapshot(s), NEW n \in Nat,
         NEW o \in Objects, NEW r \in Relations, NEW d \in Nat, NEW l \in Loads
  PROVE  /\ Walking(s)[n][AtNode(o, r, d, l)] \in Loads
         /\ \A rw \in Rewrites : Walking(s)[n][AtRewrite(o, r, rw, d, l)] \in Loads
         /\ \A rw \in HoppingRewrites, rest \in Seq(Subjects) :
              Walking(s)[n][AtHops(o, r, rw, rest, d, l)] \in Loads
<1>1. Walking(s)[n] \in [CallsOfLoads -> Loads]  BY WalkingEquations DEF Loaders
<1> HIDE DEF Walking
<1>2. AtNode(o, r, d, l) \in CallsOfLoads  BY NodeCall DEF CallsOfLoads
<1>3. \A rw \in Rewrites : AtRewrite(o, r, rw, d, l) \in CallsOfLoads
  BY RewriteCall DEF CallsOfLoads
<1>4. \A rw \in HoppingRewrites, rest \in Seq(Subjects) :
        AtHops(o, r, rw, rest, d, l) \in CallsOfLoads
  BY HopsCall DEF CallsOfLoads
<1> QED  BY <1>1, <1>2, <1>3, <1>4

(* The loader at a node, in terms of the nested call. *)
LEMMA WalkAtNode ==
  ASSUME Stored, NEW s, Snapshot(s), NEW n \in Nat,
         NEW o \in Objects, NEW r \in Relations, NEW d \in Nat, NEW l \in Loads
  PROVE  Walking(s)[n + 1][AtNode(o, r, d, l)] =
           IF d > MaxDepth \/ <<o, r>> \in l.walked THEN l
           ELSE Walking(s)[n][AtRewrite(o, r, RewriteOf(s, o, r), d, Enter(l, o, r))]
<1> DEFINE c == AtNode(o, r, d, l)
<1>1. c \in CallsOfLoads /\ c.at = "node" /\ c.o = o /\ c.r = r /\ c.depth = d /\ c.w = l
  BY NodeCall DEF CallsOfLoads, AtNode
<1>2. Walking(s)[n + 1][c] = WalkStep(s, c, Walking(s)[n])
  BY <1>1, WalkingEquations
<1> HIDE DEF c
<1>3. WalkStep(s, c, Walking(s)[n]) = WalkNode(s, c, Walking(s)[n])
  BY <1>1 DEF WalkStep
<1> QED  BY <1>1, <1>2, <1>3 DEF WalkNode, Skips, Enter, c

(* The loop over subjects, in terms of the nested calls. *)
LEMMA WalkAtHops ==
  ASSUME Stored, NEW s, Snapshot(s), NEW n \in Nat,
         NEW o \in Objects, NEW r \in Relations, NEW rw \in HoppingRewrites,
         NEW rest \in Seq(Subjects), NEW d \in Nat, NEW l \in Loads
  PROVE  Walking(s)[n + 1][AtHops(o, r, rw, rest, d, l)] =
           IF rest = <<>> THEN l
           ELSE LET x == Head(rest)
                    indexed == rw.kind = "this" /\ IndexGrants(s, x.ref, x.relation, d + 1)
                    next == IF LeadsFrom(s, o, r, rw, x) /\ ~indexed
                            THEN Walking(s)[n][AtNode(x.ref, NextRelation(rw, x), d + 1, l)]
                            ELSE l
                IN Walking(s)[n][AtHops(o, r, rw, Tail(rest), d, next)]
<1> DEFINE c == AtHops(o, r, rw, rest, d, l)
<1>1. /\ c \in CallsOfLoads /\ c.at = "hops" /\ c.o = o /\ c.r = r /\ c.rewrite = rw
      /\ c.rest = rest /\ c.depth = d /\ c.w = l
  BY HopsCall DEF CallsOfLoads, AtHops
<1>2. Walking(s)[n + 1][c] = WalkStep(s, c, Walking(s)[n])
  BY <1>1, WalkingEquations
<1> HIDE DEF c
<1>3. WalkStep(s, c, Walking(s)[n]) = WalkHops(s, c, Walking(s)[n])
  BY <1>1 DEF WalkStep
<1>4. \A x : Leads(s, c, x) = LeadsFrom(s, o, r, rw, x)  BY <1>1 DEF Leads, LeadsFrom
<1>5. \A x, v : Hop(c, x, v) = AtNode(x.ref, NextRelation(rw, x), d + 1, v)
  BY <1>1 DEF Hop, NextRelation
<1>6. \A v : NextHop(c, v) = AtHops(o, r, rw, Tail(rest), d, v)  BY <1>1 DEF NextHop
<1> QED  BY <1>1, <1>2, <1>3, <1>4, <1>5, <1>6 DEF WalkHops, c

(* A call at a rewrite is a call of the loader. *)
LEMMA WalkAtRewrite ==
  ASSUME Stored, NEW s, Snapshot(s), NEW n \in Nat, NEW o \in Objects, NEW r \in Relations,
         NEW rw \in Rewrites, NEW d \in Nat, NEW l \in Loads,
         NEW c, c = AtRewrite(o, r, rw, d, l)
  PROVE  /\ Walking(s)[n + 1][c] = WalkRewrite(s, c, Walking(s)[n])
         /\ c.o = o /\ c.r = r /\ c.rewrite = rw /\ c.depth = d /\ c.w = l
         /\ \A v : /\ Loop(c, v) = AtHops(o, r, rw, config.order, d, v)
                   /\ First(c, v) = AtRewrite(o, r, Head(rw.children), d, v)
                   /\ Others(c, v) = AtRewrite(o, r, Rest(rw), d, v)
<1>1. /\ c \in CallsOfLoads /\ c.at = "rewrite" /\ c.o = o /\ c.r = r /\ c.rewrite = rw
      /\ c.depth = d /\ c.w = l
  BY RewriteCall DEF CallsOfLoads, AtRewrite
<1>2. Walking(s)[n + 1][c] = WalkStep(s, c, Walking(s)[n])
  BY <1>1, WalkingEquations
<1>3. WalkStep(s, c, Walking(s)[n]) = WalkRewrite(s, c, Walking(s)[n])
  BY <1>1 DEF WalkStep
<1>4. \A v : /\ Loop(c, v) = AtHops(o, r, rw, config.order, d, v)
             /\ First(c, v) = AtRewrite(o, r, Head(rw.children), d, v)
             /\ Others(c, v) = AtRewrite(o, r, Rest(rw), d, v)
  BY <1>1 DEF Loop, First, Others, Rest
<1> QED  BY <1>1, <1>2, <1>3, <1>4

(* The loader at `this'. *)
LEMMA WalkAtThis ==
  ASSUME Stored, NEW s, Snapshot(s), NEW n \in Nat, NEW o \in Objects, NEW r \in Relations,
         NEW rw \in Rewrites, rw.kind = "this", NEW d \in Nat, NEW l \in Loads
  PROVE  Walking(s)[n + 1][AtRewrite(o, r, rw, d, l)] =
           Walking(s)[n][AtHops(o, r, rw, config.order, d, l)]
<1> DEFINE c == AtRewrite(o, r, rw, d, l)
<1>1. c = AtRewrite(o, r, rw, d, l)  OBVIOUS
<1> HIDE DEF c
<1>2. /\ Walking(s)[n + 1][c] = WalkRewrite(s, c, Walking(s)[n])
      /\ c.o = o /\ c.r = r /\ c.rewrite = rw /\ c.depth = d /\ c.w = l
      /\ \A v : /\ Loop(c, v) = AtHops(o, r, rw, config.order, d, v)
                /\ First(c, v) = AtRewrite(o, r, Head(rw.children), d, v)
                /\ Others(c, v) = AtRewrite(o, r, Rest(rw), d, v)
  BY <1>1, WalkAtRewrite
<1> QED  BY <1>1, <1>2 DEF WalkRewrite

(* The loader at `tupleToUserset'. *)
LEMMA WalkAtTupleTo ==
  ASSUME Stored, NEW s, Snapshot(s), NEW n \in Nat, NEW o \in Objects, NEW r \in Relations,
         NEW rw \in Rewrites, rw.kind = "tupleToUserset", NEW d \in Nat, NEW l \in Loads
  PROVE  Walking(s)[n + 1][AtRewrite(o, r, rw, d, l)] =
           Walking(s)[n][AtHops(o, r, rw, config.order, d, Load(l, o, rw.tupleset))]
<1> DEFINE c == AtRewrite(o, r, rw, d, l)
<1>1. c = AtRewrite(o, r, rw, d, l)  OBVIOUS
<1> HIDE DEF c
<1>2. /\ Walking(s)[n + 1][c] = WalkRewrite(s, c, Walking(s)[n])
      /\ c.o = o /\ c.r = r /\ c.rewrite = rw /\ c.depth = d /\ c.w = l
      /\ \A v : /\ Loop(c, v) = AtHops(o, r, rw, config.order, d, v)
                /\ First(c, v) = AtRewrite(o, r, Head(rw.children), d, v)
                /\ Others(c, v) = AtRewrite(o, r, Rest(rw), d, v)
  BY <1>1, WalkAtRewrite
<1> QED  BY <1>1, <1>2 DEF WalkRewrite

(* The loader at an alias. *)
LEMMA WalkAtComputed ==
  ASSUME Stored, NEW s, Snapshot(s), NEW n \in Nat, NEW o \in Objects, NEW r \in Relations,
         NEW rw \in Rewrites, rw.kind = "computedUserset",
         NEW d \in Nat, NEW l \in Loads
  PROVE  Walking(s)[n + 1][AtRewrite(o, r, rw, d, l)] =
           Walking(s)[n][AtNode(o, rw.relation, d, l)]
<1> DEFINE c == AtRewrite(o, r, rw, d, l)
<1>1. c = AtRewrite(o, r, rw, d, l)  OBVIOUS
<1> HIDE DEF c
<1>2. /\ Walking(s)[n + 1][c] = WalkRewrite(s, c, Walking(s)[n])
      /\ c.o = o /\ c.r = r /\ c.rewrite = rw /\ c.depth = d /\ c.w = l
      /\ \A v : /\ Loop(c, v) = AtHops(o, r, rw, config.order, d, v)
                /\ First(c, v) = AtRewrite(o, r, Head(rw.children), d, v)
                /\ Others(c, v) = AtRewrite(o, r, Rest(rw), d, v)
  BY <1>1, WalkAtRewrite
<1> QED  BY <1>1, <1>2 DEF WalkRewrite

(* The loader at a union. *)
LEMMA WalkAtUnion ==
  ASSUME Stored, NEW s, Snapshot(s), NEW n \in Nat, NEW o \in Objects, NEW r \in Relations,
         NEW rw \in Rewrites, rw.kind = "union",
         NEW d \in Nat, NEW l \in Loads
  PROVE  Walking(s)[n + 1][AtRewrite(o, r, rw, d, l)] =
           IF rw.children = <<>> THEN l
           ELSE Walking(s)[n][AtRewrite(o, r, Rest(rw), d,
                  Walking(s)[n][AtRewrite(o, r, Head(rw.children), d, l)])]
<1> DEFINE c == AtRewrite(o, r, rw, d, l)
<1>1. c = AtRewrite(o, r, rw, d, l)  OBVIOUS
<1> HIDE DEF c
<1>2. /\ Walking(s)[n + 1][c] = WalkRewrite(s, c, Walking(s)[n])
      /\ c.o = o /\ c.r = r /\ c.rewrite = rw /\ c.depth = d /\ c.w = l
      /\ \A v : /\ Loop(c, v) = AtHops(o, r, rw, config.order, d, v)
                /\ First(c, v) = AtRewrite(o, r, Head(rw.children), d, v)
                /\ Others(c, v) = AtRewrite(o, r, Rest(rw), d, v)
  BY <1>1, WalkAtRewrite
<1> QED  BY <1>1, <1>2 DEF WalkRewrite

-----------------------------------------------------------------------------
(***************************************************************************)
(* What the loader has, it keeps.                                          *)
(***************************************************************************)
(* The operands of a positive union are positive. *)
LEMMA PositiveParts ==
  ASSUME NEW rw \in Rewrites, Positive(rw)
  PROVE  /\ rw.kind \in {"this", "computedUserset", "tupleToUserset", "union"}
         /\ rw.kind = "union" /\ rw.children # <<>> =>
              Positive(Head(rw.children)) /\ Positive(Rest(rw))
<1>1. rw.kind \in {"this", "computedUserset", "tupleToUserset", "union"}  BY DEF Positive
<1>2. ASSUME rw.kind = "union", rw.children # <<>>
      PROVE  Positive(Head(rw.children)) /\ Positive(Rest(rw))
  <2>1. rw.children \in Seq(Rewrites)  BY <1>2, RewriteCases
  <2>2. \A i \in DOMAIN rw.children :
          rw.children[i].kind \in {"this", "computedUserset", "tupleToUserset"}
    BY <1>2 DEF Positive
  <2>3. 1 \in DOMAIN rw.children /\ Head(rw.children) = rw.children[1]  BY <1>2, <2>1
  <2>4. Positive(Head(rw.children))  BY <2>2, <2>3 DEF Positive
  <2>5. Rest(rw).kind = "union" /\ Rest(rw).children = Tail(rw.children)  BY <1>2, RestType
  <2>6. ASSUME NEW i \in DOMAIN Tail(rw.children)
        PROVE  Tail(rw.children)[i].kind \in {"this", "computedUserset", "tupleToUserset"}
    <3>1. i + 1 \in DOMAIN rw.children /\ Tail(rw.children)[i] = rw.children[i + 1]
      BY <1>2, <2>1
    <3> QED  BY <2>2, <3>1
  <2>7. Positive(Rest(rw))  BY <2>5, <2>6 DEF Positive
  <2> QED  BY <2>4, <2>7
<1> QED  BY <1>1, <1>2

(* The rewrites of a snapshot of a positive organization are positive.     *)
LEMMA PositiveRewrites ==
  ASSUME Stored, AllPositive, NEW s, Snapshot(s), NEW o \in Objects, NEW r \in Relations
  PROVE  Positive(RewriteOf(s, o, r))
<1>1. Positive(This)  BY DEF Positive, This
<1>2. \A type \in s.types : \A x \in DOMAIN config.rewrites[type] :
        Positive(config.rewrites[type][x])
  BY DEF AllPositive, Snapshot
<1> QED  BY <1>1, <1>2 DEF RewriteOf

(* What leads on from a node is a node. *)
LEMMA LeadsFromType ==
  ASSUME NEW s, NEW o \in Objects, NEW r \in Relations, NEW rw \in HoppingRewrites,
         NEW x \in Subjects, LeadsFrom(s, o, r, rw, x)
  PROVE  x.ref \in Objects /\ NextRelation(rw, x) \in Relations
<1> DEFINE c == AtRewrite(o, r, rw, 0, 0)
<1>1. c.rewrite = rw /\ Leads(s, c, x)  BY DEF AtRewrite, Leads, LeadsFrom
<1> QED  BY <1>1, LeadsType DEF NextRelation

(* The loader has walked a node of the object. *)
WalkedAt(o, l) == \E y \in Relations : <<o, y>> \in l.walked

(* The rows that are loaded are those of objects that were walked. *)
Rooted(l) == \A n \in l.loaded : WalkedAt(n[1], l)

(* m loads what l does and more. *)
LoadsOn(l, m) ==
  /\ m \in Loads /\ l.walked \subseteq m.walked /\ l.loaded \subseteq m.loaded
  /\ Rooted(l) => Rooted(m)

NodesLoadOn(s, n) ==
  \A o \in Objects, r \in Relations, d \in Nat, l \in Loads :
    LoadsOn(l, Walking(s)[n][AtNode(o, r, d, l)])

RewritesLoadOn(s, n) ==
  \A o \in Objects, r \in Relations, d \in Nat, l \in Loads, rw \in Rewrites :
    Positive(rw) /\ WalkedAt(o, l) => LoadsOn(l, Walking(s)[n][AtRewrite(o, r, rw, d, l)])

HopsLoadOn(s, n) ==
  \A o \in Objects, r \in Relations, d \in Nat, l \in Loads,
     rw \in HoppingRewrites, rest \in Seq(Subjects) :
    LoadsOn(l, Walking(s)[n][AtHops(o, r, rw, rest, d, l)])

(* Loading on twice is loading on. *)
LEMMA LoadsOnComposes ==
  /\ \A l \in Loads : LoadsOn(l, l)
  /\ \A l \in Loads, m \in Loads : \A p : LoadsOn(l, m) /\ LoadsOn(m, p) => LoadsOn(l, p)
  /\ \A l \in Loads : \A m, o : LoadsOn(l, m) /\ WalkedAt(o, l) => WalkedAt(o, m)
  /\ \A l \in Loads, o \in Objects, r \in Relations :
       /\ LoadsOn(l, Enter(l, o, r)) /\ WalkedAt(o, Enter(l, o, r))
       /\ WalkedAt(o, l) => LoadsOn(l, Load(l, o, r))
<1>1. \A l \in Loads : LoadsOn(l, l)  BY DEF LoadsOn
<1>2. \A l \in Loads, m \in Loads : \A p : LoadsOn(l, m) /\ LoadsOn(m, p) => LoadsOn(l, p)
  BY DEF LoadsOn
<1>3. \A l \in Loads : \A m, o : LoadsOn(l, m) /\ WalkedAt(o, l) => WalkedAt(o, m)
  BY DEF LoadsOn, WalkedAt
<1>4. ASSUME NEW l \in Loads, NEW o \in Objects, NEW r \in Relations
      PROVE  /\ LoadsOn(l, Enter(l, o, r)) /\ WalkedAt(o, Enter(l, o, r))
             /\ WalkedAt(o, l) => LoadsOn(l, Load(l, o, r))
  <2> DEFINE e == Enter(l, o, r)
             f == Load(l, o, r)
  <2>1. /\ e \in Loads /\ e.walked = l.walked \cup {<<o, r>>}
        /\ e.loaded = l.loaded \cup {<<o, r>>}
        /\ f \in Loads /\ f.walked = l.walked /\ f.loaded = l.loaded \cup {<<o, r>>}
    BY LoadsType
  <2> HIDE DEF e, f
  <2>2. WalkedAt(o, e)  BY <2>1 DEF WalkedAt
  <2>3. <<o, r>>[1] = o  OBVIOUS
  <2>4. Rooted(l) => Rooted(e)  BY <2>1, <2>2, <2>3 DEF Rooted, WalkedAt
  <2>5. WalkedAt(o, l) /\ Rooted(l) => Rooted(f)  BY <2>1, <2>3 DEF Rooted, WalkedAt
  <2>6. LoadsOn(l, e)  BY <2>1, <2>4 DEF LoadsOn
  <2>7. WalkedAt(o, l) => LoadsOn(l, f)  BY <2>1, <2>5 DEF LoadsOn
  <2> QED  BY <2>2, <2>6, <2>7 DEF e, f
<1> QED  BY <1>1, <1>2, <1>3, <1>4

(* What nested calls keep, a call keeps. *)
LEMMA LoadsOnStep ==
  ASSUME Stored, AllPositive, NEW s, Snapshot(s), NEW n \in Nat,
         NodesLoadOn(s, n), RewritesLoadOn(s, n), HopsLoadOn(s, n)
  PROVE  NodesLoadOn(s, n + 1) /\ RewritesLoadOn(s, n + 1) /\ HopsLoadOn(s, n + 1)
<1>1. NodesLoadOn(s, n + 1)
  <2> SUFFICES ASSUME NEW o \in Objects, NEW r \in Relations, NEW d \in Nat, NEW l \in Loads
               PROVE  LoadsOn(l, Walking(s)[n + 1][AtNode(o, r, d, l)])
    BY DEF NodesLoadOn
  <2> DEFINE rw == RewriteOf(s, o, r)
             e == Enter(l, o, r)
             m == Walking(s)[n][AtRewrite(o, r, rw, d, e)]
  <2>1. Walking(s)[n + 1][AtNode(o, r, d, l)] =
          IF <<o, r>> \in l.walked \/ d > MaxDepth THEN l ELSE m
    BY WalkAtNode
  <2>2. rw \in Rewrites /\ Positive(rw)  BY PositiveRewrites, RewriteOfType DEF Snapshot
  <2>3. e \in Loads /\ LoadsOn(l, e) /\ WalkedAt(o, e)  BY LoadsType, LoadsOnComposes
  <2> HIDE DEF rw, e
  <2>4. LoadsOn(e, m)  BY <2>2, <2>3 DEF RewritesLoadOn
  <2> QED  BY <2>1, <2>3, <2>4, LoadsOnComposes
<1>2. RewritesLoadOn(s, n + 1)
  <2> SUFFICES ASSUME NEW o \in Objects, NEW r \in Relations, NEW d \in Nat, NEW l \in Loads,
                      NEW rw \in Rewrites, Positive(rw), WalkedAt(o, l)
               PROVE  LoadsOn(l, Walking(s)[n + 1][AtRewrite(o, r, rw, d, l)])
    BY DEF RewritesLoadOn
  <2>1. config.order \in Seq(Subjects)  BY OrderType
  <2>2. CASE rw.kind = "this"
    <3>1. rw \in HoppingRewrites  BY <2>2 DEF HoppingRewrites
    <3>2. Walking(s)[n + 1][AtRewrite(o, r, rw, d, l)] =
            Walking(s)[n][AtHops(o, r, rw, config.order, d, l)]
      BY <2>2, WalkAtThis
    <3> QED  BY <2>1, <3>1, <3>2 DEF HopsLoadOn
  <2>3. CASE rw.kind = "computedUserset"
    <3>1. rw.relation \in Relations  BY <2>3, RewriteCases
    <3>2. Walking(s)[n + 1][AtRewrite(o, r, rw, d, l)] =
            Walking(s)[n][AtNode(o, rw.relation, d, l)]
      BY <2>3, WalkAtComputed
    <3> QED  BY <3>1, <3>2 DEF NodesLoadOn
  <2>4. CASE rw.kind = "tupleToUserset"
    <3> DEFINE f == Load(l, o, rw.tupleset)
               m == Walking(s)[n][AtHops(o, r, rw, config.order, d, f)]
    <3>1. rw \in HoppingRewrites /\ rw.tupleset \in Relations  BY <2>4, RewriteCases
    <3>2. Walking(s)[n + 1][AtRewrite(o, r, rw, d, l)] = m  BY <2>4, WalkAtTupleTo
    <3>3. f \in Loads /\ LoadsOn(l, f)  BY <3>1, LoadsType, LoadsOnComposes
    <3> HIDE DEF f
    <3>4. LoadsOn(f, m)  BY <2>1, <3>1, <3>3 DEF HopsLoadOn
    <3> QED  BY <3>2, <3>3, <3>4, LoadsOnComposes
  <2>5. CASE rw.kind = "union"
    <3> DEFINE m == Walking(s)[n][AtRewrite(o, r, Head(rw.children), d, l)]
               p == Walking(s)[n][AtRewrite(o, r, Rest(rw), d, m)]
    <3>1. Walking(s)[n + 1][AtRewrite(o, r, rw, d, l)] = IF rw.children = <<>> THEN l ELSE p
      BY <2>5, WalkAtUnion
    <3>2. CASE rw.children = <<>>  BY <3>1, <3>2, LoadsOnComposes
    <3>3. CASE rw.children # <<>>
      <4>1. Head(rw.children) \in Rewrites /\ Rest(rw) \in Rewrites  BY <2>5, <3>3, RestType
      <4>2. Positive(Head(rw.children)) /\ Positive(Rest(rw))  BY <2>5, <3>3, PositiveParts
      <4>3. LoadsOn(l, m)  BY <4>1, <4>2 DEF RewritesLoadOn
      <4> HIDE DEF m
      <4>4. m \in Loads  BY <4>3 DEF LoadsOn
      <4>5. WalkedAt(o, m)  BY <4>3, LoadsOnComposes
      <4>6. LoadsOn(m, p)  BY <4>1, <4>2, <4>4, <4>5 DEF RewritesLoadOn
      <4>7. LoadsOn(l, p)  BY <4>3, <4>4, <4>6, LoadsOnComposes
      <4> QED  BY <3>1, <3>3, <4>7
    <3> QED  BY <3>2, <3>3
  <2> QED  BY <2>2, <2>3, <2>4, <2>5, PositiveParts
<1>3. HopsLoadOn(s, n + 1)
  <2> SUFFICES ASSUME NEW o \in Objects, NEW r \in Relations, NEW d \in Nat, NEW l \in Loads,
                      NEW rw \in HoppingRewrites, NEW rest \in Seq(Subjects)
               PROVE  LoadsOn(l, Walking(s)[n + 1][AtHops(o, r, rw, rest, d, l)])
    BY DEF HopsLoadOn
  <2> DEFINE x == Head(rest)
             y == NextRelation(rw, x)
             leads == LeadsFrom(s, o, r, rw, x)
             indexed == rw.kind = "this" /\ IndexGrants(s, x.ref, x.relation, d + 1)
             node == Walking(s)[n][AtNode(x.ref, y, d + 1, l)]
             next == IF leads /\ ~indexed THEN node ELSE l
             more == Walking(s)[n][AtHops(o, r, rw, Tail(rest), d, next)]
  <2>1. Walking(s)[n + 1][AtHops(o, r, rw, rest, d, l)] = IF rest = <<>> THEN l ELSE more
    BY WalkAtHops
  <2>2. CASE rest = <<>>  BY <2>1, <2>2, LoadsOnComposes
  <2>3. CASE rest # <<>>
    <3>1. x \in Subjects /\ Tail(rest) \in Seq(Subjects)  BY <2>3, HeadTailProperties
    <3>2. leads => x.ref \in Objects /\ y \in Relations  BY <3>1, LeadsFromType
    <3>3. d + 1 \in Nat  OBVIOUS
    <3> HIDE DEF leads, indexed, x, y
    <3>4. leads => LoadsOn(l, node)  BY <3>2, <3>3 DEF NodesLoadOn
    <3> HIDE DEF node
    <3>5. LoadsOn(l, next)  BY <3>4, LoadsOnComposes
    <3> HIDE DEF next
    <3>6. next \in Loads  BY <3>5 DEF LoadsOn
    <3>7. LoadsOn(next, more)  BY <3>1, <3>6 DEF HopsLoadOn
    <3>8. LoadsOn(l, more)  BY <3>5, <3>6, <3>7, LoadsOnComposes
    <3> QED  BY <2>1, <2>3, <3>8
  <2> QED  BY <2>2, <2>3
<1> QED  BY <1>1, <1>2, <1>3

-----------------------------------------------------------------------------
(***************************************************************************)
(* Walks on what was loaded: nodes and loops.                              *)
(***************************************************************************)
(* Every call of the loader keeps what was loaded, and loads only rows of  *)
(* objects that it walks.                                                  *)
LEMMA LoadsAlwaysOn ==
  ASSUME Stored, AllPositive, NEW s, Snapshot(s)
  PROVE  \A n \in Nat : NodesLoadOn(s, n) /\ RewritesLoadOn(s, n) /\ HopsLoadOn(s, n)
<1> DEFINE Good == {n \in Nat : NodesLoadOn(s, n) /\ RewritesLoadOn(s, n) /\ HopsLoadOn(s, n)}
<1>1. 0 \in Good
  <2>1. \A c \in CallsOfLoads : Walking(s)[0][c] = c.w  BY WalkingEquations
  <2>2. \A l \in Loads : LoadsOn(l, l)  BY LoadsOnComposes
  <2>3. NodesLoadOn(s, 0)
    <3> SUFFICES ASSUME NEW o \in Objects, NEW r \in Relations, NEW d \in Nat, NEW l \in Loads
                 PROVE  Walking(s)[0][AtNode(o, r, d, l)] = l
      BY <2>2 DEF NodesLoadOn
    <3>1. AtNode(o, r, d, l) \in CallsOfLoads /\ AtNode(o, r, d, l).w = l
      BY NodeCall DEF CallsOfLoads
    <3> QED  BY <2>1, <3>1
  <2>4. RewritesLoadOn(s, 0)
    <3> SUFFICES ASSUME NEW o \in Objects, NEW r \in Relations, NEW d \in Nat, NEW l \in Loads,
                        NEW rw \in Rewrites
                 PROVE  Walking(s)[0][AtRewrite(o, r, rw, d, l)] = l
      BY <2>2 DEF RewritesLoadOn
    <3>1. AtRewrite(o, r, rw, d, l) \in CallsOfLoads /\ AtRewrite(o, r, rw, d, l).w = l
      BY RewriteCall DEF CallsOfLoads
    <3> QED  BY <2>1, <3>1
  <2>5. HopsLoadOn(s, 0)
    <3> SUFFICES ASSUME NEW o \in Objects, NEW r \in Relations, NEW d \in Nat, NEW l \in Loads,
                        NEW rw \in HoppingRewrites, NEW rest \in Seq(Subjects)
                 PROVE  Walking(s)[0][AtHops(o, r, rw, rest, d, l)] = l
      BY <2>2 DEF HopsLoadOn
    <3>1. AtHops(o, r, rw, rest, d, l) \in CallsOfLoads /\ AtHops(o, r, rw, rest, d, l).w = l
      BY HopsCall DEF CallsOfLoads
    <3> QED  BY <2>1, <3>1
  <2> QED  BY <2>3, <2>4, <2>5
<1>2. ASSUME NEW n \in Nat, n \in Good PROVE n + 1 \in Good
  BY <1>2, LoadsOnStep
<1> HIDE DEF Good
<1>3. \A n \in Nat : n \in Good  BY <1>1, <1>2, EveryNatural
<1> QED  BY <1>3 DEF Good

(* z has the rows and the rewrites of s at the nodes of m. *)
Agrees(s, z, m) ==
  /\ \A n \in m.loaded : \A x : <<n[1], n[2], x>> \in z.rows <=> <<n[1], n[2], x>> \in s.rows
  /\ \A n \in m.walked : RewriteOf(z, n[1], n[2]) = RewriteOf(s, n[1], n[2])

(* The walks v of s and u of z are the same where z has what m loads, and  *)
(* a walk that does not grant visits what the loader walks.                *)
Matches(s, z, v, u, m) ==
  Agrees(s, z, m) => u = v /\ (~v.grant => v.visited = m.walked)

NodesMatch(s, z, n) ==
  \A o \in Objects, r \in Relations, d \in Nat, w \in Walks, l \in Loads :
    ~w.grant /\ w.visited = l.walked =>
      Matches(s, z, Deriving(s)[n][AtNode(o, r, d, w)], Deriving(z)[n][AtNode(o, r, d, w)],
              Walking(s)[n][AtNode(o, r, d, l)])

RewritesMatch(s, z, n) ==
  \A o \in Objects, r \in Relations, d \in Nat, w \in Walks, l \in Loads, rw \in Rewrites :
    ~w.grant /\ w.visited = l.walked /\ Positive(rw) /\ WalkedAt(o, l) /\ <<o, r>> \in l.loaded =>
      Matches(s, z, Deriving(s)[n][AtRewrite(o, r, rw, d, w)],
              Deriving(z)[n][AtRewrite(o, r, rw, d, w)],
              Walking(s)[n][AtRewrite(o, r, rw, d, l)])

(* The node whose subjects a loop goes through. *)
LoopNode(o, r, rw) == IF rw.kind = "this" THEN <<o, r>> ELSE <<o, rw.tupleset>>

HopsMatch(s, z, n) ==
  \A o \in Objects, r \in Relations, d \in Nat, w \in Walks, l \in Loads,
     rw \in HoppingRewrites, rest \in Seq(Subjects) :
    ~w.grant /\ w.visited = l.walked /\ LoopNode(o, r, rw) \in l.loaded =>
      Matches(s, z, Deriving(s)[n][AtHops(o, r, rw, rest, d, w)],
              Deriving(z)[n][AtHops(o, r, rw, rest, d, w)],
              Walking(s)[n][AtHops(o, r, rw, rest, d, l)])

(* What agrees with a load agrees with an earlier one. *)
LEMMA AgreesEarlier ==
  ASSUME NEW s, NEW z, NEW l, NEW m, LoadsOn(l, m), Agrees(s, z, m)
  PROVE  Agrees(s, z, l)
BY DEF LoadsOn, Agrees

(* What nested calls match, a call at a node matches. *)
LEMMA NodesMatchStep ==
  ASSUME Stored, AllPositive, NEW s, Snapshot(s), NEW z, Snapshot(z), NEW n \in Nat,
         RewritesMatch(s, z, n)
  PROVE  NodesMatch(s, z, n + 1)
<1> SUFFICES ASSUME NEW o \in Objects, NEW r \in Relations, NEW d \in Nat, NEW w \in Walks,
                    NEW l \in Loads, ~w.grant, w.visited = l.walked
             PROVE  Matches(s, z, Deriving(s)[n + 1][AtNode(o, r, d, w)],
                            Deriving(z)[n + 1][AtNode(o, r, d, w)],
                            Walking(s)[n + 1][AtNode(o, r, d, l)])
  BY DEF NodesMatch
<1> DEFINE v == Deriving(s)[n + 1][AtNode(o, r, d, w)]
           u == Deriving(z)[n + 1][AtNode(o, r, d, w)]
           m == Walking(s)[n + 1][AtNode(o, r, d, l)]
           rw == RewriteOf(s, o, r)
           e == Enter(l, o, r)
           x == Visit(w, o, r)
<1>1. v = IF d > MaxDepth THEN Truncate(w) ELSE IF <<o, r>> \in w.visited THEN w
          ELSE Deriving(s)[n][AtRewrite(o, r, rw, d, x)]
  BY DeriveAtNode
<1>2. u = IF d > MaxDepth THEN Truncate(w) ELSE IF <<o, r>> \in w.visited THEN w
          ELSE Deriving(z)[n][AtRewrite(o, r, RewriteOf(z, o, r), d, x)]
  BY DeriveAtNode
<1>3. m = IF d > MaxDepth \/ <<o, r>> \in l.walked THEN l
          ELSE Walking(s)[n][AtRewrite(o, r, rw, d, e)]
  BY WalkAtNode
<1>4. rw \in Rewrites /\ Positive(rw)  BY PositiveRewrites, RewriteOfType DEF Snapshot
<1>5. /\ e \in Loads /\ WalkedAt(o, e) /\ <<o, r>> \in e.loaded
      /\ e.walked = l.walked \cup {<<o, r>>}
  BY LoadsType, LoadsOnComposes
<1>6. x \in Walks /\ ~x.grant /\ x.visited = w.visited \cup {<<o, r>>}
  <2>1. /\ Visit(w, o, r) \in Walks /\ Visit(w, o, r).grant = w.grant
        /\ Visit(w, o, r).visited = w.visited \cup {<<o, r>>}
    BY VisitType
  <2> QED  BY <2>1
<1>7. RewritesLoadOn(s, n)  BY LoadsAlwaysOn
<1> HIDE DEF v, u, m, rw, e, x
<1> SUFFICES ASSUME Agrees(s, z, m) PROVE u = v /\ (~v.grant => v.visited = m.walked)
  BY DEF Matches, v, u, m
<1>8. CASE d > MaxDepth  BY <1>1, <1>2, <1>3, <1>8, WalksType
<1>9. CASE ~(d > MaxDepth) /\ <<o, r>> \in w.visited  BY <1>1, <1>2, <1>3, <1>9
<1>10. CASE ~(d > MaxDepth) /\ <<o, r>> \notin w.visited
  <2>1. m = Walking(s)[n][AtRewrite(o, r, rw, d, e)]  BY <1>3, <1>10
  <2>2. LoadsOn(e, m)  BY <1>4, <1>5, <1>7, <2>1 DEF RewritesLoadOn
  <2>3. <<o, r>> \in m.walked  BY <1>5, <2>2 DEF LoadsOn
  <2>4. RewriteOf(z, o, r) = rw
    <3>1. <<o, r>>[1] = o /\ <<o, r>>[2] = r  OBVIOUS
    <3> QED  BY <2>3, <3>1 DEF Agrees, rw
  <2>5. Matches(s, z, Deriving(s)[n][AtRewrite(o, r, rw, d, x)],
                Deriving(z)[n][AtRewrite(o, r, rw, d, x)],
                Walking(s)[n][AtRewrite(o, r, rw, d, e)])
    BY <1>4, <1>5, <1>6 DEF RewritesMatch
  <2> QED  BY <1>1, <1>2, <1>10, <2>1, <2>4, <2>5 DEF Matches
<1> QED  BY <1>8, <1>9, <1>10

(* What nested calls match, the loop over subjects matches; what the index *)
(* grants is not loaded, and not walked either.                            *)
LEMMA HopsMatchStep ==
  ASSUME Stored, AllPositive, NEW s, Snapshot(s), NEW z, Snapshot(z), z.index = s.index,
         NEW n \in Nat, NodesMatch(s, z, n), HopsMatch(s, z, n)
  PROVE  HopsMatch(s, z, n + 1)
<1> SUFFICES ASSUME NEW o \in Objects, NEW r \in Relations, NEW d \in Nat, NEW w \in Walks,
                    NEW l \in Loads, NEW rw \in HoppingRewrites, NEW rest \in Seq(Subjects),
                    ~w.grant, w.visited = l.walked, LoopNode(o, r, rw) \in l.loaded
             PROVE  Matches(s, z, Deriving(s)[n + 1][AtHops(o, r, rw, rest, d, w)],
                            Deriving(z)[n + 1][AtHops(o, r, rw, rest, d, w)],
                            Walking(s)[n + 1][AtHops(o, r, rw, rest, d, l)])
  BY DEF HopsMatch
<1> DEFINE v == Deriving(s)[n + 1][AtHops(o, r, rw, rest, d, w)]
           u == Deriving(z)[n + 1][AtHops(o, r, rw, rest, d, w)]
           m == Walking(s)[n + 1][AtHops(o, r, rw, rest, d, l)]
           x == Head(rest)
           y == NextRelation(rw, x)
           indexed == rw.kind = "this" /\ IndexGrants(s, x.ref, x.relation, d + 1)
           leads == LeadsFrom(s, o, r, rw, x)
           f == Deriving(s)[n][AtNode(x.ref, y, d + 1, w)]
           g == Deriving(z)[n][AtNode(x.ref, y, d + 1, w)]
           a == IF ~leads THEN w ELSE IF indexed THEN Grant(w) ELSE f
           b == IF ~LeadsFrom(z, o, r, rw, x) THEN w ELSE IF indexed THEN Grant(w) ELSE g
           k == Walking(s)[n][AtNode(x.ref, y, d + 1, l)]
           c == IF leads /\ ~indexed THEN k ELSE l
<1>0. \A p, q : IndexGrants(z, p, q, d + 1) = IndexGrants(s, p, q, d + 1)
  BY DEF IndexGrants
<1>1. v = IF rest = <<>> THEN w
          ELSE IF a.grant THEN a ELSE Deriving(s)[n][AtHops(o, r, rw, Tail(rest), d, a)]
  BY DeriveAtHops
<1>2. u = IF rest = <<>> THEN w
          ELSE IF b.grant THEN b ELSE Deriving(z)[n][AtHops(o, r, rw, Tail(rest), d, b)]
  BY <1>0, DeriveAtHops
<1>3. m = IF rest = <<>> THEN l ELSE Walking(s)[n][AtHops(o, r, rw, Tail(rest), d, c)]
  BY WalkAtHops
<1>4. NodesLoadOn(s, n) /\ HopsLoadOn(s, n)  BY LoadsAlwaysOn
<1> HIDE DEF v, u, m
<1> SUFFICES ASSUME Agrees(s, z, m) PROVE u = v /\ (~v.grant => v.visited = m.walked)
  BY DEF Matches, v, u, m
<1>5. CASE rest = <<>>  BY <1>1, <1>2, <1>3, <1>5
<1>6. CASE rest # <<>>
  <2>1. x \in Subjects /\ Tail(rest) \in Seq(Subjects)  BY <1>6, HeadTailProperties
  <2>2. leads => x.ref \in Objects /\ y \in Relations  BY <2>1, LeadsFromType
  <2>3. leads => f \in Walks
    <3>1. leads => Deriving(s)[n][AtNode(x.ref, y, d + 1, w)] \in Walks  BY <2>2, DeriveType
    <3> QED  BY <3>1
  <2>4. leads => LoadsOn(l, k)
    <3>1. d + 1 \in Nat  OBVIOUS
    <3>2. leads => LoadsOn(l, Walking(s)[n][AtNode(x.ref, y, d + 1, l)])
      BY <1>4, <2>2, <3>1 DEF NodesLoadOn
    <3> QED  BY <3>2
  <2>5. leads => Matches(s, z, f, g, k)  BY <2>2 DEF NodesMatch
  <2> DEFINE zleads == LeadsFrom(z, o, r, rw, x)
  <2>6. LoopNode(o, r, rw) \in l.loaded /\ Agrees(s, z, l) => (zleads <=> leads)
    <3>1. CASE rw.kind = "this"
      <4>1. <<o, r>>[1] = o /\ <<o, r>>[2] = r  OBVIOUS
      <4>2. <<o, r>> \in l.loaded  BY <3>1 DEF LoopNode
      <4>3. Agrees(s, z, l) => (<<o, r, x>> \in z.rows <=> <<o, r, x>> \in s.rows)
        BY <4>1, <4>2 DEF Agrees
      <4> QED  BY <3>1, <4>3 DEF LeadsFrom
    <3>2. CASE rw.kind # "this"
      <4> DEFINE p == rw.tupleset
      <4>1. <<o, p>>[1] = o /\ <<o, p>>[2] = p  OBVIOUS
      <4>2. <<o, p>> \in l.loaded  BY <3>2 DEF LoopNode
      <4>3. Agrees(s, z, l) => (<<o, p, x>> \in z.rows <=> <<o, p, x>> \in s.rows)
        BY <4>1, <4>2 DEF Agrees
      <4> QED  BY <3>2, <4>3 DEF LeadsFrom
    <3> QED  BY <3>1, <3>2
  <2> HIDE DEF x, y, indexed, leads, f, g, k, zleads
  <2>7. LoadsOn(l, c)  BY <2>4, LoadsOnComposes
  <2>8. c \in Loads /\ LoopNode(o, r, rw) \in c.loaded  BY <2>7 DEF LoadsOn
  <2>9. a \in Walks  BY <2>3, WalksType
  <2>10. m = Walking(s)[n][AtHops(o, r, rw, Tail(rest), d, c)]  BY <1>3, <1>6
  <2> HIDE DEF c
  <2>11. LoadsOn(c, m)  BY <1>4, <2>1, <2>8, <2>10 DEF HopsLoadOn
  <2>12. Agrees(s, z, c)  BY <2>11, AgreesEarlier
  <2>13. Agrees(s, z, l)  BY <2>7, <2>12, AgreesEarlier
  <2>14. zleads <=> leads  BY <2>6, <2>13
  <2>15. b = a /\ (~a.grant => a.visited = c.walked)
    <3>1. CASE ~leads  BY <2>14, <3>1 DEF c, zleads
    <3>2. CASE leads /\ indexed  BY <2>14, <3>2, WalksType DEF zleads
    <3>3. CASE leads /\ ~indexed
      <4>1. c = k /\ a = f /\ b = g  BY <2>14, <3>3 DEF c, zleads
      <4> QED  BY <4>1, <2>5, <2>12, <3>3 DEF Matches
    <3> QED  BY <3>1, <3>2, <3>3
  <2> HIDE DEF a, b
  <2>16. CASE a.grant  BY <1>1, <1>2, <1>6, <2>15, <2>16
  <2>17. CASE ~a.grant
    <3>1. Matches(s, z, Deriving(s)[n][AtHops(o, r, rw, Tail(rest), d, a)],
                  Deriving(z)[n][AtHops(o, r, rw, Tail(rest), d, a)],
                  Walking(s)[n][AtHops(o, r, rw, Tail(rest), d, c)])
      BY <2>1, <2>8, <2>9, <2>15, <2>17 DEF HopsMatch
    <3> QED  BY <1>1, <1>2, <1>6, <2>10, <2>15, <2>17, <3>1 DEF Matches
  <2> QED  BY <2>16, <2>17
<1> QED  BY <1>5, <1>6

-----------------------------------------------------------------------------
(***************************************************************************)
(* Walks on what was loaded: rewrites, and every call.                     *)
(***************************************************************************)
(* An alias matches where the node that it names does. *)
LEMMA ComputedMatches ==
  ASSUME Stored, NEW s, Snapshot(s), NEW z, Snapshot(z), NEW n \in Nat,
         NEW o \in Objects, NEW r \in Relations, NEW rw \in Rewrites, rw.kind = "computedUserset",
         NEW d \in Nat, NEW w \in Walks, NEW l \in Loads,
         Matches(s, z, Deriving(s)[n][AtNode(o, rw.relation, d, w)],
                 Deriving(z)[n][AtNode(o, rw.relation, d, w)],
                 Walking(s)[n][AtNode(o, rw.relation, d, l)])
  PROVE  Matches(s, z, Deriving(s)[n + 1][AtRewrite(o, r, rw, d, w)],
                 Deriving(z)[n + 1][AtRewrite(o, r, rw, d, w)],
                 Walking(s)[n + 1][AtRewrite(o, r, rw, d, l)])
<1>1. Deriving(s)[n + 1][AtRewrite(o, r, rw, d, w)] =
        Deriving(s)[n][AtNode(o, rw.relation, d, w)]
  BY DeriveAtComputed
<1>2. Deriving(z)[n + 1][AtRewrite(o, r, rw, d, w)] =
        Deriving(z)[n][AtNode(o, rw.relation, d, w)]
  BY DeriveAtComputed
<1>3. Walking(s)[n + 1][AtRewrite(o, r, rw, d, l)] = Walking(s)[n][AtNode(o, rw.relation, d, l)]
  BY WalkAtComputed
<1> QED  BY <1>1, <1>2, <1>3

(* The tuples of a relation match where the loop over its usersets does,   *)
(* once its rows are loaded.                                               *)
LEMMA ThisMatches ==
  ASSUME Stored, NEW s, Snapshot(s), NEW z, Snapshot(z), NEW n \in Nat,
         NEW o \in Objects, NEW r \in Relations, NEW rw \in Rewrites, rw.kind = "this",
         NEW d \in Nat, NEW w \in Walks, NEW l \in Loads,
         <<o, r>> \in Walking(s)[n][AtHops(o, r, rw, config.order, d, l)].loaded,
         Matches(s, z, Deriving(s)[n][AtHops(o, r, rw, config.order, d, w)],
                 Deriving(z)[n][AtHops(o, r, rw, config.order, d, w)],
                 Walking(s)[n][AtHops(o, r, rw, config.order, d, l)])
  PROVE  Matches(s, z, Deriving(s)[n + 1][AtRewrite(o, r, rw, d, w)],
                 Deriving(z)[n + 1][AtRewrite(o, r, rw, d, w)],
                 Walking(s)[n + 1][AtRewrite(o, r, rw, d, l)])
<1> DEFINE v == Deriving(s)[n + 1][AtRewrite(o, r, rw, d, w)]
           u == Deriving(z)[n + 1][AtRewrite(o, r, rw, d, w)]
           f == Deriving(s)[n][AtHops(o, r, rw, config.order, d, w)]
           g == Deriving(z)[n][AtHops(o, r, rw, config.order, d, w)]
           m == Walking(s)[n][AtHops(o, r, rw, config.order, d, l)]
<1>1. v = IF <<o, r, Direct(Target)>> \in s.rows THEN Grant(w) ELSE f  BY DeriveAtThis
<1>2. u = IF <<o, r, Direct(Target)>> \in z.rows THEN Grant(w) ELSE g  BY DeriveAtThis
<1>3. Walking(s)[n + 1][AtRewrite(o, r, rw, d, l)] =
        Walking(s)[n][AtHops(o, r, rw, config.order, d, l)]
  <2> DEFINE c == AtRewrite(o, r, rw, d, l)
  <2>1. c = AtRewrite(o, r, rw, d, l)  OBVIOUS
  <2> HIDE DEF c
  <2>2. /\ Walking(s)[n + 1][c] = WalkRewrite(s, c, Walking(s)[n])
        /\ c.rewrite = rw /\ c.w = l
        /\ Loop(c, l) = AtHops(o, r, rw, config.order, d, l)
    BY <2>1, WalkAtRewrite
  <2> QED  BY <2>1, <2>2 DEF WalkRewrite
<1>4. Matches(s, z, f, g, m) /\ <<o, r>> \in m.loaded  OBVIOUS
<1> HIDE DEF v, u, f, g, m
<1>5. ASSUME Agrees(s, z, m) PROVE u = v /\ (~v.grant => v.visited = m.walked)
  <2>1. <<o, r, Direct(Target)>> \in z.rows <=> <<o, r, Direct(Target)>> \in s.rows
    <3>1. <<o, r>>[1] = o /\ <<o, r>>[2] = r  OBVIOUS
    <3> QED  BY <1>4, <1>5, <3>1 DEF Agrees
  <2>2. Grant(w).grant  BY WalksType
  <2> QED  BY <1>1, <1>2, <1>4, <1>5, <2>1, <2>2 DEF Matches
<1>6. Matches(s, z, v, u, m)  BY <1>5 DEF Matches
<1> QED  BY <1>3, <1>6 DEF v, u, m

(* What nested calls match, a call at a rewrite matches. *)
LEMMA RewritesMatchStep ==
  ASSUME Stored, AllPositive, NEW s, Snapshot(s), NEW z, Snapshot(z), NEW n \in Nat,
         NodesMatch(s, z, n), RewritesMatch(s, z, n), HopsMatch(s, z, n)
  PROVE  RewritesMatch(s, z, n + 1)
<1> SUFFICES ASSUME NEW o \in Objects, NEW r \in Relations, NEW d \in Nat, NEW w \in Walks,
                    NEW l \in Loads, NEW rw \in Rewrites,
                    ~w.grant, w.visited = l.walked, Positive(rw), WalkedAt(o, l),
                    <<o, r>> \in l.loaded
             PROVE  Matches(s, z, Deriving(s)[n + 1][AtRewrite(o, r, rw, d, w)],
                            Deriving(z)[n + 1][AtRewrite(o, r, rw, d, w)],
                            Walking(s)[n + 1][AtRewrite(o, r, rw, d, l)])
  BY DEF RewritesMatch
<1>1. CASE rw.kind = "computedUserset"
  <2>1. rw.relation \in Relations  BY <1>1, RewriteCases
  <2>2. Matches(s, z, Deriving(s)[n][AtNode(o, rw.relation, d, w)],
                Deriving(z)[n][AtNode(o, rw.relation, d, w)],
                Walking(s)[n][AtNode(o, rw.relation, d, l)])
    BY <2>1 DEF NodesMatch
  <2> QED  BY <1>1, <2>2, ComputedMatches
<1> DEFINE v == Deriving(s)[n + 1][AtRewrite(o, r, rw, d, w)]
           u == Deriving(z)[n + 1][AtRewrite(o, r, rw, d, w)]
           m == Walking(s)[n + 1][AtRewrite(o, r, rw, d, l)]
<1>2. /\ config.order \in Seq(Subjects)
      /\ NodesLoadOn(s, n) /\ RewritesLoadOn(s, n) /\ HopsLoadOn(s, n)
  BY OrderType, LoadsAlwaysOn
<1>3. CASE rw.kind = "this"
  <2> DEFINE f == Deriving(s)[n][AtHops(o, r, rw, config.order, d, w)]
             g == Deriving(z)[n][AtHops(o, r, rw, config.order, d, w)]
  <2>1. rw \in HoppingRewrites /\ LoopNode(o, r, rw) = <<o, r>>
    BY <1>3 DEF HoppingRewrites, LoopNode
  <2>2. Matches(s, z, f, g, Walking(s)[n][AtHops(o, r, rw, config.order, d, l)])
    BY <1>2, <2>1 DEF HopsMatch
  <2>3. LoadsOn(l, Walking(s)[n][AtHops(o, r, rw, config.order, d, l)])
    BY <1>2, <2>1 DEF HopsLoadOn
  <2>4. <<o, r>> \in Walking(s)[n][AtHops(o, r, rw, config.order, d, l)].loaded
    BY <2>3 DEF LoadsOn
  <2> QED  BY <1>3, <2>2, <2>4, ThisMatches
<1>4. CASE rw.kind = "tupleToUserset"
  <2> DEFINE p == Load(l, o, rw.tupleset)
  <2>1. rw \in HoppingRewrites /\ LoopNode(o, r, rw) = <<o, rw.tupleset>> /\ rw.tupleset \in Relations
    BY <1>4, RewriteCases DEF LoopNode
  <2>2. v = Deriving(s)[n][AtHops(o, r, rw, config.order, d, w)]  BY <1>4, DeriveAtTupleTo
  <2>3. u = Deriving(z)[n][AtHops(o, r, rw, config.order, d, w)]  BY <1>4, DeriveAtTupleTo
  <2>4. m = Walking(s)[n][AtHops(o, r, rw, config.order, d, p)]  BY <1>4, WalkAtTupleTo
  <2>5. p \in Loads /\ p.walked = l.walked /\ LoopNode(o, r, rw) \in p.loaded
    BY <2>1, LoadsType
  <2> HIDE DEF p
  <2>6. Matches(s, z, Deriving(s)[n][AtHops(o, r, rw, config.order, d, w)],
                Deriving(z)[n][AtHops(o, r, rw, config.order, d, w)],
                Walking(s)[n][AtHops(o, r, rw, config.order, d, p)])
    BY <1>2, <2>1, <2>5 DEF HopsMatch
  <2> QED  BY <2>2, <2>3, <2>4, <2>6
<1>5. CASE rw.kind = "union"
  <2> DEFINE x == Head(rw.children)
             y == Rest(rw)
             a == Deriving(s)[n][AtRewrite(o, r, x, d, w)]
             b == Deriving(z)[n][AtRewrite(o, r, x, d, w)]
             c == Walking(s)[n][AtRewrite(o, r, x, d, l)]
  <2>1. v = IF rw.children = <<>> THEN w
            ELSE IF a.grant THEN a ELSE Deriving(s)[n][AtRewrite(o, r, y, d, a)]
    BY <1>5, DeriveAtUnion
  <2>2. u = IF rw.children = <<>> THEN w
            ELSE IF b.grant THEN b ELSE Deriving(z)[n][AtRewrite(o, r, y, d, b)]
    BY <1>5, DeriveAtUnion
  <2>3. m = IF rw.children = <<>> THEN l ELSE Walking(s)[n][AtRewrite(o, r, y, d, c)]
    BY <1>5, WalkAtUnion
  <2> HIDE DEF v, u, m
  <2> SUFFICES ASSUME Agrees(s, z, m) PROVE u = v /\ (~v.grant => v.visited = m.walked)
    BY DEF Matches, v, u, m
  <2>4. CASE rw.children = <<>>  BY <2>1, <2>2, <2>3, <2>4
  <2>5. CASE rw.children # <<>>
    <3>1. x \in Rewrites /\ y \in Rewrites  BY <1>5, <2>5, RestType
    <3>2. Positive(x) /\ Positive(y)  BY <1>5, <2>5, PositiveParts
    <3>3. a \in Walks  BY <3>1, DeriveType
    <3>4. LoadsOn(l, c)  BY <1>2, <3>1, <3>2 DEF RewritesLoadOn
    <3>5. Matches(s, z, a, b, c)  BY <3>1, <3>2 DEF RewritesMatch
    <3> HIDE DEF x, y, a, b, c
    <3>6. c \in Loads /\ <<o, r>> \in c.loaded  BY <3>4 DEF LoadsOn
    <3>7. WalkedAt(o, c)  BY <3>4, LoadsOnComposes
    <3>8. m = Walking(s)[n][AtRewrite(o, r, y, d, c)]  BY <2>3, <2>5
    <3>9. LoadsOn(c, m)  BY <1>2, <3>1, <3>2, <3>6, <3>7, <3>8 DEF RewritesLoadOn
    <3>10. Agrees(s, z, c)  BY <3>9, AgreesEarlier
    <3>11. b = a /\ (~a.grant => a.visited = c.walked)  BY <3>5, <3>10 DEF Matches
    <3>12. CASE a.grant  BY <2>1, <2>2, <2>5, <3>11, <3>12
    <3>13. CASE ~a.grant
      <4>1. Matches(s, z, Deriving(s)[n][AtRewrite(o, r, y, d, a)],
                    Deriving(z)[n][AtRewrite(o, r, y, d, a)],
                    Walking(s)[n][AtRewrite(o, r, y, d, c)])
        BY <3>1, <3>2, <3>3, <3>6, <3>7, <3>11, <3>13 DEF RewritesMatch
      <4> QED  BY <2>1, <2>2, <2>5, <3>8, <3>11, <3>13, <4>1 DEF Matches
    <3> QED  BY <3>12, <3>13
  <2> QED  BY <2>4, <2>5
<1> QED  BY <1>1, <1>3, <1>4, <1>5, PositiveParts

(* In every call, the walk of the store and the walk of what was loaded    *)
(* are one.                                                                *)
LEMMA WalksMatch ==
  ASSUME Stored, AllPositive, NEW s, Snapshot(s), NEW z, Snapshot(z), z.index = s.index
  PROVE  \A n \in Nat : NodesMatch(s, z, n) /\ RewritesMatch(s, z, n) /\ HopsMatch(s, z, n)
<1> DEFINE Good == {n \in Nat : NodesMatch(s, z, n) /\ RewritesMatch(s, z, n) /\ HopsMatch(s, z, n)}
<1>1. 0 \in Good
  <2>1. \A c \in CallsOfWalks :
          Deriving(s)[0][c] = Truncate(c.w) /\ Deriving(z)[0][c] = Truncate(c.w)
    BY DerivingEquations
  <2>2. \A c \in CallsOfLoads : Walking(s)[0][c] = c.w  BY WalkingEquations
  <2>3. \A w \in Walks : Truncate(w).visited = w.visited  BY WalksType
  <2>4. \A w \in Walks : \A l : w.visited = l.walked => Matches(s, z, Truncate(w), Truncate(w), l)
    BY <2>3 DEF Matches
  <2>5. NodesMatch(s, z, 0)
    <3> SUFFICES ASSUME NEW o \in Objects, NEW r \in Relations, NEW d \in Nat, NEW w \in Walks,
                        NEW l \in Loads
                 PROVE  /\ Deriving(s)[0][AtNode(o, r, d, w)] = Truncate(w)
                        /\ Deriving(z)[0][AtNode(o, r, d, w)] = Truncate(w)
                        /\ Walking(s)[0][AtNode(o, r, d, l)] = l
      BY <2>4 DEF NodesMatch
    <3>1. AtNode(o, r, d, l) \in CallsOfLoads /\ AtNode(o, r, d, l).w = l
      BY NodeCall DEF CallsOfLoads
    <3>2. AtNode(o, r, d, w) \in CallsOfWalks /\ AtNode(o, r, d, w).w = w
      BY NodeCall DEF CallsOfWalks
    <3> QED  BY <2>1, <2>2, <3>1, <3>2
  <2>6. RewritesMatch(s, z, 0)
    <3> SUFFICES ASSUME NEW o \in Objects, NEW r \in Relations, NEW d \in Nat, NEW w \in Walks,
                        NEW l \in Loads, NEW rw \in Rewrites
                 PROVE  /\ Deriving(s)[0][AtRewrite(o, r, rw, d, w)] = Truncate(w)
                        /\ Deriving(z)[0][AtRewrite(o, r, rw, d, w)] = Truncate(w)
                        /\ Walking(s)[0][AtRewrite(o, r, rw, d, l)] = l
      BY <2>4 DEF RewritesMatch
    <3>1. AtRewrite(o, r, rw, d, l) \in CallsOfLoads /\ AtRewrite(o, r, rw, d, l).w = l
      BY RewriteCall DEF CallsOfLoads
    <3>2. AtRewrite(o, r, rw, d, w) \in CallsOfWalks /\ AtRewrite(o, r, rw, d, w).w = w
      BY RewriteCall DEF CallsOfWalks
    <3> QED  BY <2>1, <2>2, <3>1, <3>2
  <2>7. HopsMatch(s, z, 0)
    <3> SUFFICES ASSUME NEW o \in Objects, NEW r \in Relations, NEW d \in Nat, NEW w \in Walks,
                        NEW l \in Loads, NEW rw \in HoppingRewrites, NEW rest \in Seq(Subjects)
                 PROVE  /\ Deriving(s)[0][AtHops(o, r, rw, rest, d, w)] = Truncate(w)
                        /\ Deriving(z)[0][AtHops(o, r, rw, rest, d, w)] = Truncate(w)
                        /\ Walking(s)[0][AtHops(o, r, rw, rest, d, l)] = l
      BY <2>4 DEF HopsMatch
    <3>1. AtHops(o, r, rw, rest, d, l) \in CallsOfLoads /\ AtHops(o, r, rw, rest, d, l).w = l
      BY HopsCall DEF CallsOfLoads
    <3>2. AtHops(o, r, rw, rest, d, w) \in CallsOfWalks /\ AtHops(o, r, rw, rest, d, w).w = w
      BY HopsCall DEF CallsOfWalks
    <3> QED  BY <2>1, <2>2, <3>1, <3>2
  <2> QED  BY <2>5, <2>6, <2>7
<1>2. ASSUME NEW n \in Nat, n \in Good PROVE n + 1 \in Good
  <2>1. NodesMatch(s, z, n + 1)  BY <1>2, NodesMatchStep
  <2>2. RewritesMatch(s, z, n + 1)  BY <1>2, RewritesMatchStep
  <2>3. HopsMatch(s, z, n + 1)  BY <1>2, HopsMatchStep
  <2> QED  BY <2>1, <2>2, <2>3
<1> HIDE DEF Good
<1>3. \A n \in Nat : n \in Good  BY <1>1, <1>2, EveryNatural
<1> QED  BY <1>3 DEF Good

-----------------------------------------------------------------------------
(***************************************************************************)
(* Walks on part of the store.                                             *)
(***************************************************************************)
(* z knows the rewrites of the object's relations. *)
Faithful(z, o) == \A r \in Relations : RewriteOf(z, o, r) = RewriteOf(Live, o, r)

(* Part of the store, with the namespaces of the objects that have rows.   *)
PartOfStore(z) ==
  /\ Snapshot(z) /\ z.rows \subseteq tuples /\ SoundIndex(z.index)
  /\ \A t \in z.rows : Faithful(z, t[1])

NodesGrant(z, n) ==
  \A o \in Objects, r \in Relations, d \in Nat, w \in Walks :
    ~w.grant /\ Deriving(z)[n][AtNode(o, r, d, w)].grant =>
      Faithful(z, o) /\ d <= MaxDepth /\ Unrefuted(o, r, RewriteOf(Live, o, r), MaxDepth - d)

RewritesGrant(z, n) ==
  \A o \in Objects, r \in Relations, d \in 0 .. MaxDepth, w \in Walks, rw \in Rewrites :
    ~w.grant /\ Positive(rw) /\ Deriving(z)[n][AtRewrite(o, r, rw, d, w)].grant =>
      Faithful(z, o) /\ Unrefuted(o, r, rw, MaxDepth - d)

HopsGrant(z, n) ==
  \A o \in Objects, r \in Relations, d \in 0 .. MaxDepth, w \in Walks,
     rw \in HoppingRewrites, rest \in Seq(Subjects) :
    ~w.grant /\ Deriving(z)[n][AtHops(o, r, rw, rest, d, w)].grant =>
      /\ Faithful(z, o) /\ d < MaxDepth
      /\ \E x \in Leading(o, r, rw) :
           Unrefuted(x.ref, NextRelation(rw, x),
                     RewriteOf(Live, x.ref, NextRelation(rw, x)), MaxDepth - d - 1)

(* What nested calls may grant, a call at a node may grant. *)
LEMMA NodesGrantStep ==
  ASSUME Stored, AllPositive, NEW z, PartOfStore(z), NEW n \in Nat, RewritesGrant(z, n)
  PROVE  NodesGrant(z, n + 1)
<1> SUFFICES ASSUME NEW o \in Objects, NEW r \in Relations, NEW d \in Nat, NEW w \in Walks,
                    ~w.grant, Deriving(z)[n + 1][AtNode(o, r, d, w)].grant
             PROVE  /\ Faithful(z, o) /\ d <= MaxDepth
                    /\ Unrefuted(o, r, RewriteOf(Live, o, r), MaxDepth - d)
  BY DEF NodesGrant
<1> DEFINE rw == RewriteOf(z, o, r)
           x == Visit(w, o, r)
           u == Deriving(z)[n][AtRewrite(o, r, rw, d, x)]
<1>1. Snapshot(z) /\ MaxDepth \in Nat  BY EvaluationAssumption DEF PartOfStore
<1>2. Deriving(z)[n + 1][AtNode(o, r, d, w)] =
        IF d > MaxDepth THEN Truncate(w) ELSE IF <<o, r>> \in w.visited THEN w ELSE u
  BY <1>1, DeriveAtNode
<1>3. ~Truncate(w).grant  BY WalksType
<1>4. d \in 0 .. MaxDepth /\ d <= MaxDepth /\ u.grant  BY <1>1, <1>2, <1>3
<1>5. rw \in Rewrites /\ Positive(rw)  BY <1>1, PositiveRewrites, RewriteOfType DEF Snapshot
<1>6. x \in Walks /\ ~x.grant
  <2>1. Visit(w, o, r) \in Walks /\ Visit(w, o, r).grant = w.grant  BY VisitType
  <2> QED  BY <2>1
<1> HIDE DEF rw, x
<1>7. Faithful(z, o) /\ Unrefuted(o, r, rw, MaxDepth - d)
  BY <1>4, <1>5, <1>6 DEF RewritesGrant
<1>8. rw = RewriteOf(Live, o, r)  BY <1>7 DEF Faithful, rw
<1> QED  BY <1>4, <1>7, <1>8

(* What nested calls may grant, the loop over subjects may grant. *)
LEMMA HopsGrantStep ==
  ASSUME Stored, NEW z, PartOfStore(z), NEW n \in Nat, NodesGrant(z, n), HopsGrant(z, n)
  PROVE  HopsGrant(z, n + 1)
<1> SUFFICES ASSUME NEW o \in Objects, NEW r \in Relations, NEW d \in 0 .. MaxDepth, NEW w \in Walks,
                    NEW rw \in HoppingRewrites, NEW rest \in Seq(Subjects),
                    ~w.grant, Deriving(z)[n + 1][AtHops(o, r, rw, rest, d, w)].grant
             PROVE  /\ Faithful(z, o) /\ d < MaxDepth
                    /\ \E x \in Leading(o, r, rw) :
                         Unrefuted(x.ref, NextRelation(rw, x),
                                   RewriteOf(Live, x.ref, NextRelation(rw, x)), MaxDepth - d - 1)
  BY DEF HopsGrant
<1> DEFINE x == Head(rest)
           y == NextRelation(rw, x)
           indexed == rw.kind = "this" /\ IndexGrants(z, x.ref, x.relation, d + 1)
           leads == LeadsFrom(z, o, r, rw, x)
           f == Deriving(z)[n][AtNode(x.ref, y, d + 1, w)]
           a == IF ~leads THEN w ELSE IF indexed THEN Grant(w) ELSE f
           more == Deriving(z)[n][AtHops(o, r, rw, Tail(rest), d, a)]
<1>1. /\ Snapshot(z) /\ z.rows \subseteq tuples /\ SoundIndex(z.index)
      /\ MaxDepth \in Nat /\ d \in Nat /\ d <= MaxDepth
  BY EvaluationAssumption DEF PartOfStore
<1>2. Deriving(z)[n + 1][AtHops(o, r, rw, rest, d, w)] =
        IF rest = <<>> THEN w ELSE IF a.grant THEN a ELSE more
  BY <1>1, DeriveAtHops
<1>3. rest # <<>> /\ (a.grant \/ more.grant)  BY <1>2
<1>4. x \in Subjects /\ Tail(rest) \in Seq(Subjects)  BY <1>3, HeadTailProperties
<1>5. leads => x \in Leading(o, r, rw) /\ Faithful(z, o)
  <2>1. CASE rw.kind = "this"
    <3>1. <<o, r, x>>[1] = o  OBVIOUS
    <3> QED  BY <2>1, <3>1, <1>1, <1>4 DEF LeadsFrom, Leading, PartOfStore
  <2>2. CASE rw.kind # "this"
    <3>1. <<o, rw.tupleset, x>>[1] = o  OBVIOUS
    <3> QED  BY <2>2, <3>1, <1>1, <1>4 DEF LeadsFrom, Leading, PartOfStore
  <2> QED  BY <2>1, <2>2
<1>6. leads => x.ref \in Objects /\ y \in Relations  BY <1>4, LeadsFromType
<1>7. leads => f \in Walks
  <2>1. leads => Deriving(z)[n][AtNode(x.ref, y, d + 1, w)] \in Walks
    BY <1>1, <1>6, DeriveType
  <2> QED  BY <2>1
<1>8. leads /\ indexed =>
        d < MaxDepth /\ Unrefuted(x.ref, y, RewriteOf(Live, x.ref, y), MaxDepth - d - 1)
  <2>1. leads /\ indexed => y = x.relation  BY DEF NextRelation
  <2> HIDE DEF leads, x, y
  <2> QED  BY <2>1, <1>1, <1>6, IndexUnrefuted
<1>9. leads /\ f.grant =>
        d < MaxDepth /\ Unrefuted(x.ref, y, RewriteOf(Live, x.ref, y), MaxDepth - d - 1)
  <2>1. d + 1 \in Nat /\ (d + 1 <= MaxDepth => d < MaxDepth) /\ MaxDepth - (d + 1) = MaxDepth - d - 1
    BY <1>1
  <2> HIDE DEF leads, x, y
  <2> QED  BY <2>1, <1>6 DEF NodesGrant
<1> HIDE DEF leads, indexed, f
<1>10. CASE a.grant
  <2>1. leads /\ (indexed \/ f.grant)  BY <1>10
  <2>2. Unrefuted(x.ref, NextRelation(rw, x), RewriteOf(Live, x.ref, NextRelation(rw, x)),
                  MaxDepth - d - 1)
    BY <2>1, <1>8, <1>9
  <2> HIDE DEF x
  <2> QED  BY <2>1, <2>2, <1>5, <1>8, <1>9
<1>11. CASE ~a.grant
  <2>1. a \in Walks  BY <1>7, WalksType
  <2> HIDE DEF a, x
  <2> QED  BY <2>1, <1>3, <1>4, <1>11 DEF HopsGrant
<1> QED  BY <1>10, <1>11

(* What nested calls may grant, a call at a rewrite may grant. *)
LEMMA RewritesGrantStep ==
  ASSUME Stored, NEW z, PartOfStore(z), NEW n \in Nat,
         NodesGrant(z, n), RewritesGrant(z, n), HopsGrant(z, n)
  PROVE  RewritesGrant(z, n + 1)
<1> SUFFICES ASSUME NEW o \in Objects, NEW r \in Relations, NEW d \in 0 .. MaxDepth, NEW w \in Walks,
                    NEW rw \in Rewrites, ~w.grant, Positive(rw),
                    Deriving(z)[n + 1][AtRewrite(o, r, rw, d, w)].grant
             PROVE  Faithful(z, o) /\ Unrefuted(o, r, rw, MaxDepth - d)
  BY DEF RewritesGrant
<1> DEFINE v == Deriving(z)[n + 1][AtRewrite(o, r, rw, d, w)]
           h == MaxDepth - d
<1>1. /\ Snapshot(z) /\ z.rows \subseteq tuples /\ config.order \in Seq(Subjects)
      /\ MaxDepth \in Nat /\ d \in Nat /\ d <= MaxDepth /\ h \in Nat
  BY EvaluationAssumption, OrderType DEF PartOfStore
<1> DEFINE c == AtRewrite(o, r, rw, d, w)
<1>2. /\ v = DeriveRewrite(z, c, Deriving(z)[n])
      /\ c.o = o /\ c.r = r /\ c.rewrite = rw /\ c.depth = d /\ c.w = w
      /\ \A q : /\ Loop(c, q) = AtHops(o, r, rw, config.order, d, q)
                /\ First(c, q) = AtRewrite(o, r, Head(rw.children), d, q)
                /\ Others(c, q) = AtRewrite(o, r, Rest(rw), d, q)
  <2>1. c = AtRewrite(o, r, rw, d, w) /\ v = Deriving(z)[n + 1][c]  OBVIOUS
  <2> HIDE DEF c, v
  <2> QED  BY <1>1, <2>1, DeriveAtRewrite
<1> HIDE DEF c
<1>3. ASSUME rw = This \/ rw.kind = "tupleToUserset", rw \in HoppingRewrites,
             Deriving(z)[n][AtHops(o, r, rw, config.order, d, w)].grant
      PROVE  Faithful(z, o) /\ Unrefuted(o, r, rw, h)
  <2>1. Faithful(z, o) /\ d < MaxDepth  BY <1>1, <1>3 DEF HopsGrant
  <2>2. PICK x \in Leading(o, r, rw) :
          Unrefuted(x.ref, NextRelation(rw, x),
                    RewriteOf(Live, x.ref, NextRelation(rw, x)), MaxDepth - d - 1)
    BY <1>1, <1>3 DEF HopsGrant
  <2> QED  BY <2>1, <2>2, <1>3, HopUnrefuted
<1>4. CASE rw = This
  <2>1. rw \in HoppingRewrites /\ rw.kind = "this"  BY <1>4 DEF This, HoppingRewrites
  <2>2. v = IF <<o, r, Direct(Target)>> \in z.rows THEN Grant(w)
            ELSE Deriving(z)[n][AtHops(o, r, rw, config.order, d, w)]
    <3> HIDE DEF v
    <3> QED  BY <1>2, <2>1 DEF DeriveRewrite
  <2>3. CASE <<o, r, Direct(Target)>> \in z.rows
    <3>1. Faithful(z, o)
      <4>1. <<o, r, Direct(Target)>>[1] = o  OBVIOUS
      <4> QED  BY <2>3, <4>1 DEF PartOfStore
    <3>2. ASSUME NEW k \in Nat, Fails(k, o, r, rw, h) PROVE FALSE
      <4>1. k - 1 \in Nat /\ Fails(k - 1 + 1, o, r, rw, h)  BY <1>1, <3>2, FailsByAStep
      <4> QED  BY <1>1, <1>4, <2>3, <4>1, ThisRules
    <3> QED  BY <3>1, <3>2 DEF Unrefuted
  <2>4. CASE <<o, r, Direct(Target)>> \notin z.rows
    <3>1. Deriving(z)[n][AtHops(o, r, rw, config.order, d, w)].grant  BY <2>2, <2>4
    <3> QED  BY <3>1, <2>1, <1>3, <1>4
  <2> QED  BY <2>3, <2>4
<1>5. CASE rw.kind = "tupleToUserset"
  <2>1. rw \in HoppingRewrites  BY <1>5 DEF HoppingRewrites
  <2>2. v = Deriving(z)[n][AtHops(o, r, rw, config.order, d, w)]
    <3> HIDE DEF v
    <3> QED  BY <1>2, <1>5 DEF DeriveRewrite
  <2>3. Deriving(z)[n][AtHops(o, r, rw, config.order, d, w)].grant  BY <2>2
  <2> QED  BY <2>1, <2>3, <1>3, <1>5
<1>6. CASE rw.kind = "computedUserset"
  <2> DEFINE y == rw.relation
  <2>1. y \in Relations  BY <1>6, RewriteCases
  <2>2. v = Deriving(z)[n][AtNode(o, y, d, w)]
    <3> HIDE DEF v
    <3> QED  BY <1>2, <1>6 DEF DeriveRewrite
  <2>3. Faithful(z, o) /\ Unrefuted(o, y, RewriteOf(Live, o, y), h)
    BY <1>1, <2>1, <2>2 DEF NodesGrant
  <2>4. ASSUME NEW k \in Nat, Fails(k, o, r, rw, h) PROVE FALSE
    <3>1. k - 1 \in Nat /\ Fails(k - 1 + 1, o, r, rw, h)  BY <1>1, <2>4, FailsByAStep
    <3>2. NodeFails(k - 1, o, y, h)  BY <1>1, <1>6, <3>1, ComputedRules
    <3> QED  BY <2>3, <3>1, <3>2 DEF Unrefuted, NodeFails
  <2> QED  BY <2>3, <2>4 DEF Unrefuted
<1>7. CASE rw.kind = "union"
  <2> DEFINE x == Head(rw.children)
             y == Rest(rw)
             a == Deriving(z)[n][AtRewrite(o, r, x, d, w)]
             b == Deriving(z)[n][AtRewrite(o, r, y, d, a)]
  <2>1. v = IF rw.children = <<>> THEN w ELSE IF a.grant THEN a ELSE b
    <3> HIDE DEF v
    <3> QED  BY <1>2, <1>7 DEF DeriveRewrite, DeriveUnion
  <2>2. rw.children # <<>>  BY <2>1
  <2>3. /\ x \in Rewrites /\ y \in Rewrites /\ y.kind = "union"
        /\ Operands(rw) = {x} \cup Operands(y) /\ Operands(rw) \subseteq Rewrites
    BY <1>7, <2>2, RestType, OperandsType
  <2>4. Positive(x) /\ Positive(y)  BY <1>7, <2>2, PositiveParts
  <2>5. a \in Walks  BY <1>1, <2>3, DeriveType
  <2> HIDE DEF x, y
  <2>6. \A q \in Operands(rw) : \A k \in Nat : Fails(k + 1, o, r, rw, h) => Fails(k, o, r, q, h)
    BY <1>1, <1>7, UnionRules
  <2>7. CASE a.grant
    <3>1. Faithful(z, o) /\ Unrefuted(o, r, x, h)  BY <2>3, <2>4, <2>7 DEF RewritesGrant
    <3>2. ASSUME NEW k \in Nat, Fails(k, o, r, rw, h) PROVE FALSE
      <4>1. k - 1 \in Nat /\ Fails(k - 1 + 1, o, r, rw, h)  BY <1>1, <3>2, FailsByAStep
      <4> QED  BY <2>3, <2>6, <3>1, <4>1 DEF Unrefuted
    <3> QED  BY <3>1, <3>2 DEF Unrefuted
  <2>8. CASE ~a.grant
    <3>0. b.grant  BY <2>1, <2>2, <2>8
    <3> HIDE DEF a
    <3>1. Faithful(z, o) /\ Unrefuted(o, r, y, h)
      BY <2>3, <2>4, <2>5, <2>8, <3>0 DEF RewritesGrant
    <3>2. ASSUME NEW k \in Nat, Fails(k, o, r, rw, h) PROVE FALSE
      <4>1. k - 1 \in Nat /\ Fails(k - 1 + 1, o, r, rw, h)  BY <1>1, <3>2, FailsByAStep
      <4>2. \A q \in Operands(y) : Fails(k - 1, o, r, q, h)  BY <2>3, <2>6, <4>1
      <4>3. Fails(k - 1 + 1, o, r, y, h)  BY <1>1, <2>3, <4>1, <4>2, UnionRules
      <4>4. k - 1 + 1 \in Nat  BY <4>1
      <4> QED  BY <3>1, <4>3, <4>4 DEF Unrefuted
    <3> QED  BY <3>1, <3>2 DEF Unrefuted
  <2> QED  BY <2>7, <2>8
<1>8. rw = This \/ rw.kind \in {"computedUserset", "tupleToUserset", "union"}
  BY KindsOfRewrites, PositiveParts
<1> QED  BY <1>4, <1>5, <1>6, <1>7, <1>8

(* No call on part of the store grants what the store refutes within the   *)
(* bound.                                                                  *)
LEMMA GrantsAreSound ==
  ASSUME Stored, AllPositive, NEW z, PartOfStore(z)
  PROVE  \A n \in Nat : NodesGrant(z, n) /\ RewritesGrant(z, n) /\ HopsGrant(z, n)
<1> DEFINE Good == {n \in Nat : NodesGrant(z, n) /\ RewritesGrant(z, n) /\ HopsGrant(z, n)}
<1>1. 0 \in Good
  <2>0. Snapshot(z)  BY DEF PartOfStore
  <2>1. \A c \in CallsOfWalks : Deriving(z)[0][c] = Truncate(c.w)  BY <2>0, DerivingEquations
  <2>2. \A w \in Walks : Truncate(w).grant = w.grant  BY WalksType
  <2>3. NodesGrant(z, 0)
    <3> SUFFICES ASSUME NEW o \in Objects, NEW r \in Relations, NEW d \in Nat, NEW w \in Walks
                 PROVE  Deriving(z)[0][AtNode(o, r, d, w)] = Truncate(w)
      BY <2>2 DEF NodesGrant
    <3>1. AtNode(o, r, d, w) \in CallsOfWalks /\ AtNode(o, r, d, w).w = w
      BY NodeCall DEF CallsOfWalks
    <3> QED  BY <2>1, <3>1
  <2>4. RewritesGrant(z, 0)
    <3> SUFFICES ASSUME NEW o \in Objects, NEW r \in Relations, NEW d \in 0 .. MaxDepth,
                        NEW w \in Walks, NEW rw \in Rewrites
                 PROVE  Deriving(z)[0][AtRewrite(o, r, rw, d, w)] = Truncate(w)
      BY <2>2 DEF RewritesGrant
    <3>1. d \in Nat  BY EvaluationAssumption
    <3>2. AtRewrite(o, r, rw, d, w) \in CallsOfWalks /\ AtRewrite(o, r, rw, d, w).w = w
      BY <3>1, RewriteCall DEF CallsOfWalks
    <3> QED  BY <2>1, <3>2
  <2>5. HopsGrant(z, 0)
    <3> SUFFICES ASSUME NEW o \in Objects, NEW r \in Relations, NEW d \in 0 .. MaxDepth,
                        NEW w \in Walks, NEW rw \in HoppingRewrites, NEW rest \in Seq(Subjects)
                 PROVE  Deriving(z)[0][AtHops(o, r, rw, rest, d, w)] = Truncate(w)
      BY <2>2 DEF HopsGrant
    <3>1. d \in Nat  BY EvaluationAssumption
    <3>2. AtHops(o, r, rw, rest, d, w) \in CallsOfWalks /\ AtHops(o, r, rw, rest, d, w).w = w
      BY <3>1, HopsCall DEF CallsOfWalks
    <3> QED  BY <2>1, <3>2
  <2> QED  BY <2>3, <2>4, <2>5
<1>2. ASSUME NEW n \in Nat, n \in Good PROVE n + 1 \in Good
  <2>1. NodesGrant(z, n + 1)  BY <1>2, NodesGrantStep
  <2>2. RewritesGrant(z, n + 1)  BY <1>2, RewritesGrantStep
  <2>3. HopsGrant(z, n + 1)  BY <1>2, HopsGrantStep
  <2> QED  BY <2>1, <2>2, <2>3
<1> HIDE DEF Good
<1>3. \A n \in Nat : n \in Good  BY <1>1, <1>2, EveryNatural
<1> QED  BY <1>3 DEF Good

-----------------------------------------------------------------------------
(***************************************************************************)
(* The loaded snapshot.                                                    *)
(***************************************************************************)
NothingLoaded == [walked |-> {}, loaded |-> {}]

(* The loads of a query, in order. *)
LoadOf(s, i, l) == Walking(s)[MaxCalls][AtNode(Resource, config.required[i], 0, l)]

(* The load for a required relation keeps the loads before it. *)
LEMMA LoadOfType ==
  ASSUME Stored, AllPositive, NEW s, Snapshot(s), NEW i \in 1 .. Len(config.required),
         NEW l \in Loads
  PROVE  LoadsOn(l, LoadOf(s, i, l)) /\ LoadOf(s, i, l) \in Loads
<1>1. config.required[i] \in Relations /\ Resource \in Objects /\ MaxCalls \in Nat /\ 0 \in Nat
  BY RequiredType, EvaluationAssumption
<1>2. NodesLoadOn(s, MaxCalls)  BY <1>1, LoadsAlwaysOn
<1>3. LoadsOn(l, Walking(s)[MaxCalls][AtNode(Resource, config.required[i], 0, l)])
  BY <1>1, <1>2 DEF NodesLoadOn
<1> QED  BY <1>3 DEF LoadOf, LoadsOn

(* The loop of loadClosure over the required relations. *)
LEMMA LoadingEquations ==
  ASSUME Stored, AllPositive, NEW s, Snapshot(s)
  PROVE  /\ \A i \in 0 .. Len(config.required) : Loading(s)[i] \in Loads /\ Rooted(Loading(s)[i])
         /\ Loading(s)[0] = NothingLoaded
         /\ \A i \in 1 .. Len(config.required) :
              Loading(s)[i] = LoadOf(s, i, Loading(s)[i - 1])
<1> DEFINE N == Len(config.required)
           step == [n \in Nat |-> [l \in Loads |->
                      IF n + 1 \notin 1 .. N THEN l ELSE LoadOf(s, n + 1, l)]]
           Solves(f) == f = [i \in 0 .. N |->
                               IF i = 0 THEN NothingLoaded ELSE LoadOf(s, i, f[i - 1])]
<1>0. N \in Nat /\ NothingLoaded \in Loads /\ Rooted(NothingLoaded)
  BY RequiredType DEF NothingLoaded, Loads, Rooted
<1> HIDE DEF N
<1>1. step \in [Nat -> [Loads -> Loads]]
  <2>1. ASSUME NEW n \in Nat, NEW l \in Loads, n + 1 \in 1 .. N PROVE LoadOf(s, n + 1, l) \in Loads
    BY <2>1, LoadOfType DEF N
  <2> QED  BY <2>1
<1> HIDE DEF step
<1>2. PICK g \in [Nat -> Loads] : g[0] = NothingLoaded /\ \A n \in Nat : g[n + 1] = step[n][g[n]]
  <2>1. \A a \in Loads, st \in [Nat -> [Loads -> Loads]] :
          \E f \in [Nat -> Loads] : f[0] = a /\ \A n \in Nat : f[n + 1] = st[n][f[n]]
    BY Iteration
  <2> QED  BY <1>0, <1>1, <2>1
<1> DEFINE f == [i \in 0 .. N |-> g[i]]
<1>3. Solves(f)
  <2>1. ASSUME NEW i \in 0 .. N
        PROVE  f[i] = IF i = 0 THEN NothingLoaded ELSE LoadOf(s, i, f[i - 1])
    <3>1. CASE i = 0  BY <3>1, <1>2, <1>0
    <3>2. CASE i # 0
      <4>1. i - 1 \in Nat /\ i - 1 \in 0 .. N /\ i - 1 + 1 = i /\ i \in 1 .. N  BY <3>2, <1>0
      <4>2. g[i] = step[i - 1][g[i - 1]]  BY <4>1, <1>2
      <4>3. g[i - 1] \in Loads  BY <4>1
      <4>4. step[i - 1][g[i - 1]] = LoadOf(s, i, g[i - 1])  BY <4>1, <4>3 DEF step
      <4>5. f[i] = g[i] /\ f[i - 1] = g[i - 1]  BY <4>1
      <4> QED  BY <3>2, <4>2, <4>4, <4>5
    <3> QED  BY <3>1, <3>2
  <2> QED  BY <2>1
<1> HIDE DEF f
<1>4. Solves(Loading(s))
  <2>1. \E e : Solves(e)  BY <1>3
  <2> QED  BY <2>1 DEF Loading, LoadOf, NothingLoaded, N
<1> DEFINE E == Loading(s)
<1> HIDE DEF E
<1>5. E = [i \in 0 .. N |-> IF i = 0 THEN NothingLoaded ELSE LoadOf(s, i, E[i - 1])]
  BY <1>4 DEF E
<1>6. \A i \in 0 .. N : E[i] = IF i = 0 THEN NothingLoaded ELSE LoadOf(s, i, E[i - 1])
  BY <1>5
<1>7. E[0] = NothingLoaded  BY <1>0, <1>6
<1>8. \A i \in 1 .. N : E[i] = LoadOf(s, i, E[i - 1])
  <2> TAKE i \in 1 .. N
  <2>1. i \in 0 .. N /\ i # 0  BY <1>0
  <2> QED  BY <1>6, <2>1
<1>9. \A i \in Nat : i \in 0 .. N => E[i] \in Loads /\ Rooted(E[i])
  <2> DEFINE Typed == {i \in Nat : i \in 0 .. N => E[i] \in Loads /\ Rooted(E[i])}
  <2>1. 0 \in Typed  BY <1>0, <1>7
  <2>2. ASSUME NEW i \in Nat, i \in Typed PROVE i + 1 \in Typed
    <3> SUFFICES ASSUME i + 1 \in 0 .. N PROVE E[i + 1] \in Loads /\ Rooted(E[i + 1])  OBVIOUS
    <3>1. i + 1 \in 1 .. N /\ i \in 0 .. N /\ i + 1 - 1 = i  BY <1>0
    <3>2. E[i] \in Loads /\ Rooted(E[i])  BY <2>2, <3>1
    <3>3. LoadsOn(E[i], LoadOf(s, i + 1, E[i]))  BY <3>1, <3>2, LoadOfType DEF N
    <3>4. E[i + 1] = LoadOf(s, i + 1, E[i])  BY <1>8, <3>1
    <3> QED  BY <3>2, <3>3, <3>4 DEF LoadsOn
  <2> HIDE DEF Typed
  <2>3. \A i \in Nat : i \in Typed  BY <2>1, <2>2, EveryNatural
  <2> QED  BY <2>3 DEF Typed
<1> QED  BY <1>0, <1>7, <1>8, <1>9 DEF E, N

(* The loaded snapshot is part of the store, and has all that was loaded. *)
LEMMA LoadedIsPart ==
  ASSUME Stored, AllPositive, NEW index, SoundIndex(index)
  PROVE  /\ PartOfStore(LoadedSnapshot(index))
         /\ LoadedSnapshot(index).index = index
         /\ Agrees(FullSnapshot(index), LoadedSnapshot(index),
                   Loading(FullSnapshot(index))[Len(config.required)])
<1> DEFINE s == FullSnapshot(index)
           z == LoadedSnapshot(index)
           l == Loading(s)[Len(config.required)]
<1>1. /\ s.rows = tuples /\ s.types = DOMAIN config.rewrites /\ Snapshot(s)
      /\ \A o, r : RewriteOf(s, o, r) = RewriteOf(Live, o, r)
  BY LiveType
<1>2. l \in Loads /\ Rooted(l)
  <2>1. Len(config.required) \in 0 .. Len(config.required)  BY RequiredType
  <2> QED  BY <1>1, <2>1, LoadingEquations
<1>3. /\ z.rows = {t \in s.rows : <<t[1], t[2]>> \in l.loaded}
      /\ z.types = {config.typeOf[o] : o \in {Resource} \cup {n[1] : n \in l.walked}} \cap s.types
      /\ z.index = index
  BY DEF LoadedSnapshot
<1> HIDE DEF s, z, l
<1>4. ASSUME NEW n \in l.walked PROVE Faithful(z, n[1])
  <2>1. config.typeOf[n[1]] \in z.types <=> config.typeOf[n[1]] \in s.types  BY <1>3
  <2>2. \A r : RewriteOf(z, n[1], r) = RewriteOf(s, n[1], r)  BY <2>1 DEF RewriteOf
  <2> QED  BY <1>1, <2>2 DEF Faithful
<1>5. ASSUME NEW t \in z.rows PROVE Faithful(z, t[1])
  <2>1. <<t[1], t[2]>> \in l.loaded /\ <<t[1], t[2]>>[1] = t[1]  BY <1>3
  <2>2. PICK y \in Relations : <<t[1], y>> \in l.walked  BY <1>2, <2>1 DEF Rooted, WalkedAt
  <2>3. <<t[1], y>>[1] = t[1]  OBVIOUS
  <2> QED  BY <1>4, <2>2, <2>3
<1>6. Snapshot(z) /\ z.rows \subseteq tuples  BY <1>1, <1>3 DEF Snapshot
<1>7. PartOfStore(z)  BY <1>3, <1>5, <1>6 DEF PartOfStore
<1>8. l.walked \subseteq Nodes /\ l.loaded \subseteq Nodes  BY <1>2 DEF Loads
<1>9. ASSUME NEW n \in l.loaded, NEW x
      PROVE  <<n[1], n[2], x>> \in z.rows <=> <<n[1], n[2], x>> \in s.rows
  <2>1. n = <<n[1], n[2]>>  BY <1>8 DEF Nodes
  <2>2. <<n[1], n[2], x>>[1] = n[1] /\ <<n[1], n[2], x>>[2] = n[2]  OBVIOUS
  <2> DEFINE t == <<n[1], n[2], x>>
  <2>3. <<t[1], t[2]>> \in l.loaded  BY <2>1, <2>2
  <2> HIDE DEF t
  <2>4. t \in z.rows <=> t \in s.rows  BY <1>3, <2>3
  <2> QED  BY <2>4 DEF t
<1>10. ASSUME NEW n \in l.walked PROVE RewriteOf(z, n[1], n[2]) = RewriteOf(s, n[1], n[2])
  <2>1. n[2] \in Relations  BY <1>8 DEF Nodes
  <2> QED  BY <1>1, <1>4, <2>1 DEF Faithful
<1>11. Agrees(s, z, l)  BY <1>9, <1>10 DEF Agrees
<1> QED  BY <1>3, <1>7, <1>11 DEF s, z, l

(* evaluate on part of the store grants nothing that the store refutes. *)
LEMMA LoadedNeverOpens ==
  ASSUME Stored, AllPositive, NEW z, PartOfStore(z), Evaluate(z).grant
  PROVE  ~Refuted(MaxDepth)
<1> DEFINE N == Len(config.required)
           E == Evaluating(z)
           Node(i) == RewriteOf(Live, Resource, config.required[i])
           Open(i) == Unrefuted(Resource, config.required[i], Node(i), MaxDepth)
           Good == {i \in Nat : i <= N /\ E[i].grant => \E j \in 1 .. N : Open(j)}
<1>0. Snapshot(z) /\ N \in Nat  BY RequiredType DEF PartOfStore
<1>1. /\ \A i \in 0 .. N : E[i] \in Walks
      /\ E[0] = Fresh
      /\ \A i \in 1 .. N : E[i] = IF E[i - 1].grant THEN E[i - 1] ELSE Query(z, i, E[i - 1])
  BY <1>0, EvaluatingEquations
<1>2. E[N].grant  BY DEF Evaluate
<1> HIDE DEF E
<1>3. 0 \in Good  BY <1>1, WalksType
<1>4. ASSUME NEW i \in Nat, i \in Good PROVE i + 1 \in Good
  <2> SUFFICES ASSUME i + 1 <= N, E[i + 1].grant PROVE \E j \in 1 .. N : Open(j)  OBVIOUS
  <2>1. i \in 0 .. N /\ i + 1 \in 1 .. N /\ i + 1 - 1 = i /\ i <= N  BY <1>0
  <2>2. CASE E[i].grant  BY <1>4, <2>1, <2>2
  <2>3. CASE ~E[i].grant
    <3> DEFINE w == [E[i] EXCEPT !.visited = {}]
               r == config.required[i + 1]
    <3>1. E[i] \in Walks /\ E[i + 1] = Query(z, i + 1, E[i])  BY <1>1, <2>1, <2>3
    <3>2. w \in Walks /\ ~w.grant  BY <2>3, <3>1 DEF Walks
    <3>3. E[i + 1] = Deriving(z)[MaxCalls][AtNode(Resource, r, 0, w)]
      BY <1>0, <2>1, <3>1, QueryType
    <3>4. r \in Relations /\ Resource \in Objects /\ MaxCalls \in Nat /\ MaxDepth \in Nat
          /\ 0 \in Nat /\ MaxDepth - 0 = MaxDepth
      BY <2>1, RequiredType, EvaluationAssumption
    <3>5. NodesGrant(z, MaxCalls)  BY <3>4, GrantsAreSound
    <3> HIDE DEF w, r
    <3>6. Unrefuted(Resource, r, RewriteOf(Live, Resource, r), MaxDepth)
      BY <3>2, <3>3, <3>4, <3>5 DEF NodesGrant
    <3>7. Open(i + 1)  BY <3>6 DEF r
    <3> QED  BY <2>1, <3>7
  <2> QED  BY <2>2, <2>3
<1> HIDE DEF Good
<1>5. \A i \in Nat : i \in Good  BY <1>3, <1>4, EveryNatural
<1>6. N \in Nat /\ N <= N  BY <1>0
<1>7. PICK j \in 1 .. N : Open(j)  BY <1>2, <1>5, <1>6 DEF Good
<1>8. /\ DOMAIN config.required = 1 .. N /\ config.required[j] \in Relations
      /\ Resource \in Objects /\ MaxDepth \in Nat /\ MaxCalls \in Nat
  BY RequiredType, EvaluationAssumption
<1>9. Claim(Resource, config.required[j], MaxDepth, FALSE)
        = ByRewrite(Resource, config.required[j], Node(j), MaxDepth, FALSE)
  <2>1. \A r \in Relations, h \in Nat, b \in BOOLEAN :
          Claim(Resource, r, h, b) = ByRewrite(Resource, r, RewriteOf(Live, Resource, r), h, b)
    BY <1>8, ClaimType
  <2> QED  BY <1>8, <2>1
<1> QED  BY <1>7, <1>8, <1>9 DEF Refuted, Unrefuted, Fails

(* For one required relation, evaluate decides on the loaded rows as on    *)
(* the store.                                                              *)
LEMMA LoadedDecidesAsFull ==
  ASSUME Stored, AllPositive, NEW index, SoundIndex(index), Len(config.required) = 1
  PROVE  Evaluate(LoadedSnapshot(index)) = Evaluate(FullSnapshot(index))
<1> DEFINE s == FullSnapshot(index)
           z == LoadedSnapshot(index)
           r == config.required[1]
           w == [Fresh EXCEPT !.visited = {}]
           l == LoadOf(s, 1, NothingLoaded)
<1>1. Snapshot(s)  BY LiveType
<1>2. Snapshot(z) /\ z.index = s.index /\ Agrees(s, z, Loading(s)[1])
  BY LoadedIsPart, LiveType DEF PartOfStore
<1>3. /\ 1 \in 1 .. Len(config.required) /\ 1 - 1 = 0 /\ r \in Relations
      /\ Resource \in Objects /\ MaxCalls \in Nat /\ 0 \in Nat
  BY RequiredType, EvaluationAssumption
<1>4. Loading(s)[1] = l
  <2>1. Loading(s)[1] = LoadOf(s, 1, Loading(s)[1 - 1]) /\ Loading(s)[0] = NothingLoaded
    BY <1>1, <1>3, LoadingEquations
  <2> QED  BY <2>1, <1>3
<1>5. w \in Walks /\ ~w.grant /\ w.visited = {} /\ ~Fresh.grant  BY DEF Fresh, Walks
<1>6. ASSUME NEW q, Snapshot(q)
      PROVE  Evaluate(q) = Deriving(q)[MaxCalls][AtNode(Resource, r, 0, w)]
  <2>1. /\ Evaluating(q)[0] = Fresh
        /\ Evaluating(q)[1] = IF Evaluating(q)[1 - 1].grant THEN Evaluating(q)[1 - 1]
                              ELSE Query(q, 1, Evaluating(q)[1 - 1])
    BY <1>3, <1>6, EvaluatingEquations
  <2>2. Evaluating(q)[1] = Query(q, 1, Fresh)  BY <1>3, <1>5, <2>1
  <2> QED  BY <2>2 DEF Evaluate, Query, Derive
<1> HIDE DEF s, z
<1>7. NodesMatch(s, z, MaxCalls)  BY <1>1, <1>2, <1>3, WalksMatch
<1>8. NothingLoaded \in Loads /\ NothingLoaded.walked = {}  BY DEF NothingLoaded, Loads
<1> HIDE DEF w, r
<1>9. Matches(s, z, Deriving(s)[MaxCalls][AtNode(Resource, r, 0, w)],
              Deriving(z)[MaxCalls][AtNode(Resource, r, 0, w)],
              Walking(s)[MaxCalls][AtNode(Resource, r, 0, NothingLoaded)])
  BY <1>3, <1>5, <1>7, <1>8 DEF NodesMatch
<1>10. l = Walking(s)[MaxCalls][AtNode(Resource, r, 0, NothingLoaded)]  BY DEF LoadOf, r
<1>11. Agrees(s, z, l)  BY <1>2, <1>4
<1> HIDE DEF l
<1>12. Evaluate(z) = Evaluate(s)  BY <1>1, <1>2, <1>6, <1>9, <1>10, <1>11 DEF Matches
<1> QED  BY <1>12 DEF s, z

(* Without intersections, exclusions and unions within unions, with and    *)
(* without the index, an action that requires one relation is decided on   *)
(* the rows that loadClosure fetched as on the whole store, truncation     *)
(* included, and one that requires several is never permitted beyond what  *)
(* holds.                                                                  *)
THEOREM ClosureCompleteness == Spec => []ClosureIsComplete
<1>1. ASSUME Stored PROVE ClosureIsComplete
  <2> SUFFICES ASSUME AllPositive, NEW index \in {NoIndex, FreshIndex}
               PROVE  LET loaded == Evaluate(LoadedSnapshot(index))
                          full == Evaluate(FullSnapshot(index))
                      IN /\ loaded.grant => ~Refuted(MaxDepth)
                         /\ Len(config.required) = 1 =>
                              loaded.grant = full.grant /\ loaded.truncated = full.truncated
    BY DEF ClosureIsComplete
  <2>1. SoundIndex(index)  BY <1>1, NoIndexIsSound, FreshIndexIsSound
  <2>2. Evaluate(LoadedSnapshot(index)).grant => ~Refuted(MaxDepth)
    BY <1>1, <2>1, LoadedIsPart, LoadedNeverOpens
  <2>3. Len(config.required) = 1 =>
          Evaluate(LoadedSnapshot(index)) = Evaluate(FullSnapshot(index))
    BY <1>1, <2>1, LoadedDecidesAsFull
  <2> QED  BY <2>2, <2>3
<1> QED  BY <1>1, StoredAlways, PTL
=============================================================================
