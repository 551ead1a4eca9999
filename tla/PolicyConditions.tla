-------------------------- MODULE PolicyConditions --------------------------
(***************************************************************************)
(* The condition language of policies: the check that a condition passes   *)
(* before it is stored, its three-valued evaluation, and the decision that *)
(* a policy leads to.                                                      *)
(*                                                                         *)
(* A value has a type, a form and a number.  The form of a string says     *)
(* what the text is: an address of either family, hexadecimal digits and   *)
(* colons that are no address, a timestamp, or none of these.  Addresses   *)
(* have V4Bits and V6Bits bits instead of 32 and 128.                      *)
(*                                                                         *)
(* The operators are recursive, so this module is for TLC only.            *)
(***************************************************************************)
EXTENDS Integers, Sequences, FiniteSets, SequencesExt

CONSTANTS
  MaxConditionDepth,     \* MAX_CONDITION_DEPTH
  MaxConditionNodes,     \* MAX_CONDITION_NODES
  V4Bits, V6Bits         \* bound: bits of an address

ASSUME ConditionAssumption ==
  {MaxConditionDepth, MaxConditionNodes, V4Bits, V6Bits} \subseteq Nat

Number(n) == [type |-> "number", form |-> "", n |-> n]
Text(form, n) == [type |-> "string", form |-> form, n |-> n]
Date(n) == [type |-> "timestamp", form |-> "", n |-> n]
EmptyText == Text("none", 0)

Attr(path) == [kind |-> "attr", path |-> path, value |-> EmptyText]
Lit(value) == [kind |-> "lit", path |-> "", value |-> value]

Cmp(op, left, right) == [kind |-> "cmp", op |-> op, left |-> left, right |-> right]
In(needle, set) == [kind |-> "in", needle |-> needle, set |-> set]
IpInCidr(ip, cidrs) == [kind |-> "ipInCidr", ip |-> ip, cidrs |-> cidrs]
Not(child) == [kind |-> "not", child |-> child]
AllOf(children) == [kind |-> "and", children |-> children]
AnyOf(children) == [kind |-> "or", children |-> children]

None == "none"

-----------------------------------------------------------------------------
(* parseCondition *)

TermType(term) ==
  IF term.kind = "lit" THEN term.value.type
  ELSE CASE term.path = "principal.aal" -> "number"
         [] term.path = "env.ip" -> "string"
         [] term.path = "env.now" -> "timestamp"

TemporalPair(a, b) ==
  "timestamp" \in {a, b} /\ {a, b} \subseteq {"timestamp", "string"}

Comparable(a, b) == a = b \/ TemporalPair(a, b)

(* A text in the address family, with a prefix that the family has. *)
IsValidCidr(cidr) ==
  \/ cidr.addr.form \in {"v6", "hex"} /\ cidr.prefix <= V6Bits
  \/ cidr.addr.form = "v4" /\ cidr.prefix <= V4Bits

MutCheckCmp(c) ==
  IF ~Comparable(TermType(c.left), TermType(c.right)) THEN "type_mismatch" ELSE None

CheckCmp(c) ==
  LET left == TermType(c.left)
      right == TermType(c.right)
      order == c.op \in {"lt", "le", "gt", "ge"}
      unparsable == {t \in {c.left, c.right} :
                       t.kind = "lit" /\ t.value.type = "string" /\ t.value.form # "time"}
  IN CASE ~Comparable(left, right) -> "type_mismatch"
       [] /\ Comparable(left, right)
          /\ order /\ {left, right} # {"number"} /\ ~TemporalPair(left, right)
            -> "type_mismatch"
       [] "timestamp" \in {left, right} /\ unparsable # {} /\ Comparable(left, right)
            -> "invalid_timestamp"
       [] OTHER -> None

CheckIn(c) ==
  LET types == {c.set[i].type : i \in DOMAIN c.set} IN
  CASE c.set = <<>> -> "empty_set"
    [] Cardinality(types) > 1 -> "mixed_set_types"
    [] Cardinality(types) = 1 /\ ~Comparable(TermType(c.needle), c.set[1].type)
         -> "type_mismatch"
    [] OTHER -> None

CheckCidrs(c) ==
  IF TermType(c.ip) # "string" THEN "type_mismatch"
  ELSE IF c.cidrs = <<>> THEN "empty_cidrs"
  ELSE IF \E i \in DOMAIN c.cidrs : ~IsValidCidr(c.cidrs[i]) THEN "invalid_cidr"
  ELSE None

(* walk: the nodes counted so far and the first error. *)
RECURSIVE CheckNode(_, _, _)
CheckNode(c, depth, nodes) ==
  LET counted(error) == [nodes |-> nodes + 1, error |-> error] IN
  IF depth > MaxConditionDepth THEN [nodes |-> nodes, error |-> "condition_too_deep"]
  ELSE IF nodes + 1 > MaxConditionNodes THEN counted("too_many_condition_nodes")
  ELSE CASE c.kind \in {"and", "or"} ->
              IF c.children = <<>> THEN counted("empty_children")
              ELSE FoldLeft(LAMBDA w, child :
                              IF w.error = None THEN CheckNode(child, depth + 1, w.nodes) ELSE w,
                            counted(None), c.children)
         [] c.kind = "not" -> CheckNode(c.child, depth + 1, nodes + 1)
         [] c.kind = "cmp" -> counted(CheckCmp(c))
         [] c.kind = "in" -> counted(CheckIn(c))
         [] c.kind = "ipInCidr" -> counted(CheckCidrs(c))

Accepted(c) == CheckNode(c, 0, 0).error = None

-----------------------------------------------------------------------------
(* evalCondition in a context with the fields aal, ip and now *)

Bool(b) == IF b THEN "true" ELSE "false"

ResolveTerm(term, ctx) ==
  IF term.kind = "lit" THEN term.value
  ELSE CASE term.path = "principal.aal" -> ctx.aal
         [] term.path = "env.ip" -> ctx.ip
         [] term.path = "env.now" -> ctx.now

Ordered(op, l, r) ==
  CASE op = "eq" -> l = r [] op = "ne" -> l # r
    [] op = "lt" -> l < r [] op = "le" -> l <= r
    [] op = "gt" -> l > r [] op = "ge" -> l >= r

HasEpoch(v) == v.type = "timestamp" \/ v.form = "time"

Compare(op, left, right) ==
  LET types == {left.type, right.type} IN
  IF "timestamp" \in types
  THEN IF HasEpoch(left) /\ HasEpoch(right)
       THEN Bool(Ordered(op, left.n, right.n)) ELSE "indeterminate"
  ELSE IF types = {"number"} THEN Bool(Ordered(op, left.n, right.n))
  ELSE IF Cardinality(types) = 1 /\ op \in {"eq", "ne"}
       THEN Bool((op = "eq") = (left = right))
  ELSE "indeterminate"

IsAddress(v) == v.form \in {"v4", "v6"}

ContainedIn(ip, cidr) ==
  LET bits == IF ip.form = "v4" THEN V4Bits ELSE V6Bits
      block == 2 ^ (bits - cidr.prefix) IN
  /\ cidr.addr.form = ip.form
  /\ cidr.prefix <= bits
  /\ ip.n \div block = cidr.addr.n \div block

EvalIpInCidr(v, cidrs) ==
  IF ~IsAddress(v) THEN "indeterminate"
  ELSE Bool(\E i \in DOMAIN cidrs : ContainedIn(v, cidrs[i]))

EvalIn(v, set) ==
  IF v.type \notin {"string", "number"} THEN "indeterminate"
  ELSE Bool(\E i \in DOMAIN set : set[i] = v)

EvalAnd(verdicts) ==
  IF "false" \in verdicts THEN "false"
  ELSE IF "indeterminate" \in verdicts THEN "indeterminate" ELSE "true"

EvalOr(verdicts) ==
  IF "true" \in verdicts THEN "true"
  ELSE IF "indeterminate" \in verdicts THEN "indeterminate" ELSE "false"

EvalNot(verdict) ==
  IF verdict = "indeterminate" THEN verdict ELSE Bool(verdict = "false")

RECURSIVE EvalCondition(_, _)
EvalCondition(c, ctx) ==
  CASE c.kind = "and" -> EvalAnd({EvalCondition(c.children[i], ctx) : i \in DOMAIN c.children})
    [] c.kind = "or" -> EvalOr({EvalCondition(c.children[i], ctx) : i \in DOMAIN c.children})
    [] c.kind = "not" -> EvalNot(EvalCondition(c.child, ctx))
    [] c.kind = "cmp" -> Compare(c.op, ResolveTerm(c.left, ctx), ResolveTerm(c.right, ctx))
    [] c.kind = "in" -> EvalIn(ResolveTerm(c.needle, ctx), c.set)
    [] c.kind = "ipInCidr" -> EvalIpInCidr(ResolveTerm(c.ip, ctx), c.cidrs)

-----------------------------------------------------------------------------
(* decide with one policy that applies to the request. *)
DecideWith(rebac, effect, verdict) ==
  IF effect = "forbid" /\ verdict # "false" THEN "deny"
  ELSE IF rebac = "permit" \/ (effect = "permit" /\ verdict = "true") THEN "permit"
  ELSE "deny"

(* The conditions inside a condition, itself included. *)
RECURSIVE Parts(_)
Parts(c) ==
  {c} \cup CASE c.kind \in {"and", "or"} -> UNION {Parts(c.children[i]) : i \in DOMAIN c.children}
             [] c.kind = "not" -> Parts(c.child)
             [] OTHER -> {}
=============================================================================
