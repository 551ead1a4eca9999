----------------------------- MODULE PolicyForm -----------------------------
(***************************************************************************)
(* The console's policy form with its condition builder, against the       *)
(* policy that the API stores.  The builder shows a condition as clauses   *)
(* under one combinator; a condition it cannot show is kept as it is (raw  *)
(* mode) until the user replaces it.  The builder reports its compiled     *)
(* condition to the form whenever it is rendered with new clauses, on its  *)
(* first rendering included, so `condition' follows `clauses' in the same  *)
(* step.  The value of a clause is a sequence: empty for an empty input.   *)
(*                                                                         *)
(* Times are in half minutes UTC.  The builder's input is in local time    *)
(* and has no seconds.                                                     *)
(***************************************************************************)
EXTENDS PolicyConditions

CONSTANTS
  InitialPolicies,   \* policies that an API client may have written
  OpenedConditions,  \* bound: conditions of the policies that are opened
  Ops,               \* comparison operators that the user picks from
  AalInputs, IpInputs, CidrInputs, NowInputs,   \* what the user may enter
  Presets,           \* PRESETS: combinator and clauses
  MaxClauses,        \* bound: clauses in the builder
  MaxEdits,          \* bound: changes to a form
  ZoneOffset         \* local time minus UTC

VARIABLES
  policy,            \* the stored policy: effect and condition
  form               \* the page: closed, or the form's state

policyVars == <<policy, form>>

ASSUME PolicyFormAssumption ==
  /\ MaxClauses \in Nat \ {0}
  /\ MaxEdits \in Nat
  /\ ZoneOffset \in Int
  /\ \A p \in InitialPolicies : Accepted(p.condition)

Clause(attr, op, value) == [attr |-> attr, op |-> op, value |-> value]

DefaultClause == Clause("principal.aal", "ge", <<2>>)

OpsFor(attr) ==
  CASE attr \in {"principal.aal", "env.now"} -> Ops
    [] attr = "env.ip" -> Ops \cap {"eq", "ne"}
    [] attr = "ip.cidr" -> {}

InputsFor(attr) ==
  CASE attr = "principal.aal" -> AalInputs
    [] attr = "env.ip" -> IpInputs
    [] attr = "ip.cidr" -> CidrInputs
    [] attr = "env.now" -> NowInputs

(* The literal of a clause: Number of the input, local time to UTC, text. *)
LiteralOf(clause) ==
  CASE clause.attr = "principal.aal" ->
         Number(IF clause.value = <<>> THEN 0 ELSE clause.value[1])
    [] clause.attr = "env.now" /\ clause.value # <<>> ->
         Text("time", clause.value[1] - ZoneOffset)
    [] clause.attr = "env.ip" /\ clause.value # <<>> -> clause.value[1]
    [] OTHER -> EmptyText

CompileClause(clause) ==
  IF clause.attr = "ip.cidr" THEN IpInCidr(Attr("env.ip"), clause.value)
  ELSE Cmp(clause.op, Attr(clause.attr), Lit(LiteralOf(clause)))

MutCompile(combinator, clauses) ==
  LET nodes == [i \in DOMAIN clauses |-> CompileClause(clauses[i])] IN
  IF Len(nodes) = 1 THEN nodes[1] ELSE [kind |-> "and", children |-> nodes]

Compile(combinator, clauses) ==
  LET nodes == [i \in DOMAIN clauses |-> CompileClause(clauses[i])] IN
  IF Len(nodes) = 1 THEN nodes[1] ELSE [kind |-> combinator, children |-> nodes]

(* The first sixteen characters of a UTC timestamp: its minute. *)
SliceToMinute(n) == 2 * (n \div 2)

(* parseNode returns a clause, or null. *)
RepresentableNode(node) ==
  \/ node.kind = "cmp" /\ node.left.kind = "attr" /\ node.right.kind = "lit"
  \/ node.kind = "ipInCidr" /\ node.ip = Attr("env.ip")

ParseNode(node) ==
  IF node.kind = "ipInCidr" THEN Clause("ip.cidr", "eq", node.cidrs)
  ELSE LET literal == node.right.value IN
       Clause(node.left.path, node.op,
              IF literal.type = "number" THEN <<literal.n>>
              ELSE IF node.left.path = "env.now" THEN <<SliceToMinute(literal.n)>>
              ELSE IF literal = EmptyText THEN <<>>
              ELSE <<literal>>)

TopNodes(c) == IF c.kind \in {"and", "or"} THEN c.children ELSE <<c>>

Representable(c) == \A i \in DOMAIN TopNodes(c) : RepresentableNode(TopNodes(c)[i])

Closed ==
  [open |-> FALSE, raw |-> FALSE, combinator |-> "and", clauses |-> <<>>,
   effect |-> "forbid", condition |-> <<>>, loaded |-> <<>>, sent |-> <<>>,
   edits |-> 0]

(* The builder is rendered with the given clauses. *)
Shown(f, combinator, clauses) ==
  [f EXCEPT !.combinator = combinator, !.clauses = clauses,
            !.condition = <<Compile(combinator, clauses)>>]

(* After the user's change, what was loaded no longer says what to expect. *)
Edited(combinator, clauses) ==
  /\ form.edits < MaxEdits
  /\ form' = [Shown(form, combinator, clauses) EXCEPT !.loaded = <<>>, !.edits = @ + 1]

PolicyInit == policy \in InitialPolicies /\ form = Closed

OpenNew ==
  /\ ~form.open
  /\ policy.condition \in OpenedConditions
  /\ form' = Shown([Closed EXCEPT !.open = TRUE], "and", <<DefaultClause>>)
  /\ UNCHANGED policy

OpenEdit ==
  LET c == policy.condition
      opened == [Closed EXCEPT !.open = TRUE, !.effect = policy.effect, !.loaded = <<c>>] IN
  /\ ~form.open
  /\ c \in OpenedConditions
  /\ \/ /\ Representable(c)
        /\ form' = Shown(opened, IF c.kind = "or" THEN "or" ELSE "and",
                         [i \in DOMAIN TopNodes(c) |-> ParseNode(TopNodes(c)[i])])
     \/ /\ ~Representable(c)
        /\ form' = [opened EXCEPT !.raw = TRUE, !.condition = <<c>>]
  /\ UNCHANGED policy

Building == form.open /\ ~form.raw

(* A new attribute empties the value and resets an operator it lacks. *)
ChangeAttr(clause, attr) ==
  LET kept == clause.op \in OpsFor(attr) \/ OpsFor(attr) = {} IN
  Clause(attr, IF kept THEN clause.op ELSE "eq", <<>>)

UpdateClause(i) ==
  /\ Building
  /\ \E clause \in {ChangeAttr(form.clauses[i], attr) :
                      attr \in {"principal.aal", "env.ip", "ip.cidr", "env.now"}}
                   \cup {[form.clauses[i] EXCEPT !.op = op] :
                      op \in OpsFor(form.clauses[i].attr)}
                   \cup {[form.clauses[i] EXCEPT !.value = value] :
                      value \in InputsFor(form.clauses[i].attr)} :
       Edited(form.combinator, ReplaceAt(form.clauses, i, clause))
  /\ UNCHANGED policy

AddClause ==
  /\ Building
  /\ Len(form.clauses) < MaxClauses
  /\ Edited(form.combinator, Append(form.clauses, Clause("principal.aal", "ge", <<>>)))
  /\ UNCHANGED policy

(* The last clause stays. *)
RemoveClause(i) ==
  /\ Building
  /\ Len(form.clauses) > 1
  /\ Edited(form.combinator, RemoveAt(form.clauses, i))
  /\ UNCHANGED policy

ApplyPreset(preset) ==
  /\ Building
  /\ Edited(preset.combinator, preset.clauses)
  /\ UNCHANGED policy

SetCombinator(combinator) ==
  /\ Building
  /\ Len(form.clauses) > 1
  /\ Edited(combinator, form.clauses)
  /\ UNCHANGED policy

(* The builder starts over, without the stored condition. *)
ReplaceWithBuilder ==
  /\ form.open /\ form.raw
  /\ form' = [Shown(form, "and", <<DefaultClause>>) EXCEPT !.raw = FALSE, !.loaded = <<>>]
  /\ UNCHANGED policy

SetEffect(effect) ==
  /\ form.open
  /\ form.edits < MaxEdits
  /\ form' = [form EXCEPT !.effect = effect, !.edits = @ + 1]
  /\ UNCHANGED policy

(* The inputs stay enabled while a save is under way: it sends what it took. *)
Submit ==
  /\ form.open
  /\ form.condition # <<>> /\ form.sent = <<>>
  /\ form' = [form EXCEPT !.sent =
                <<[effect |-> form.effect, condition |-> form.condition[1]]>>]
  /\ UNCHANGED policy

(* PolicyWriter.write accepts the request: the page goes back to the list. *)
SaveAccepted ==
  /\ form.sent # <<>> /\ Accepted(form.sent[1].condition)
  /\ policy' = form.sent[1]
  /\ form' = Closed

(* It rejects the condition, or the API is unavailable: the form stays. *)
SaveFails ==
  /\ form.sent # <<>>
  /\ form' = [form EXCEPT !.sent = <<>>]
  /\ UNCHANGED policy

(* The write commits and its answer is lost: the form stays, saved. *)
AnswerLost ==
  /\ form.sent # <<>> /\ Accepted(form.sent[1].condition)
  /\ policy' = form.sent[1]
  /\ form' = [form EXCEPT !.sent = <<>>]

(* Cancel, or the session is over and the page goes to /login. *)
Leave ==
  /\ form.open
  /\ form' = Closed
  /\ UNCHANGED policy

PolicyNext ==
  \/ OpenNew \/ OpenEdit \/ AddClause \/ ReplaceWithBuilder
  \/ \E i \in DOMAIN form.clauses : UpdateClause(i) \/ RemoveClause(i)
  \/ \E preset \in Presets : ApplyPreset(preset)
  \/ \E combinator \in {"and", "or"} : SetCombinator(combinator)
  \/ \E effect \in {"permit", "forbid"} : SetEffect(effect)
  \/ Submit \/ SaveAccepted \/ SaveFails \/ AnswerLost \/ Leave

-----------------------------------------------------------------------------
(* Contexts of a request: addresses 0 and 1 of each family. *)
Unknown == Text("unknown", 0)
Addresses == {Text(f, n) : f \in {"v4", "v6"}, n \in {0, 3}}

ContextWith(ip) ==
  {[aal |-> Number(a), ip |-> ip, now |-> Date(t)] : a \in {1, 2}, t \in {-1, 0, 1, 2}}

UsesAddressAsText(c) ==
  \E p \in Parts(c) :
    \/ p.kind = "cmp" /\ Attr("env.ip") \in {p.left, p.right}
    \/ p.kind = "in" /\ p.needle = Attr("env.ip")

(***************************************************************************)
(* What parseCondition accepts, evalCondition decides: with an address to  *)
(* look at, the verdict of a stored condition is true or false.  Two kinds *)
(* of condition pass the check and may decide nothing: membership of       *)
(* env.now in a set (a Date is never in one) and CIDR tests of a literal   *)
(* that is no address.                                                     *)
(***************************************************************************)
AcceptedConditionsDecide ==
  LET c == policy.condition
      hollow == \E p \in Parts(c) :
        \/ p.kind = "in" /\ p.needle = Attr("env.now")
        \/ p.kind = "ipInCidr" /\ p.ip.kind = "lit" /\ ~IsAddress(p.ip.value) IN
  hollow \/ \A ip \in Addresses : \A ctx \in ContextWith(ip) :
              EvalCondition(c, ctx) \in {"true", "false"}

(***************************************************************************)
(* A verdict reached without the caller's address does not depend on it:   *)
(* for a policy that tests the address by CIDR, a permit that an unknown   *)
(* address gets is a permit from every address.  Comparing env.ip as text  *)
(* is different: the text `unknown' is unequal to every address.           *)
(***************************************************************************)
UnknownAddressFailsClosed ==
  LET c == policy.condition
      decision(ctx, rebac) == DecideWith(rebac, policy.effect, EvalCondition(c, ctx)) IN
  UsesAddressAsText(c) \/
    \A ctx \in ContextWith(Unknown), rebac \in {"permit", "deny"} :
      decision(ctx, rebac) = "permit" =>
        \A ip \in Addresses : decision([ctx EXCEPT !.ip = ip], rebac) = "permit"

DeadlinesOf(c) ==
  {p.right.value.n : p \in {x \in Parts(c) : x.kind = "cmp" /\ x.right.value.form = "time"}}

WholeMinutes(c) == \A d \in DeadlinesOf(c) : d = SliceToMinute(d)

(***************************************************************************)
(* Opening a policy and saving it without an edit keeps what it means,     *)
(* except for its deadlines: the builder reads a UTC deadline as local     *)
(* time, so each save moves it by the zone's offset (and cuts its          *)
(* seconds).  The saved condition behaves as the stored one would with the *)
(* clock set forward by the offset.  A condition that the builder cannot   *)
(* show is saved as it was.                                                *)
(***************************************************************************)
UneditedSaveKeepsMeaning ==
  form.open /\ form.loaded # <<>> =>
    LET c == form.loaded[1]
        saved == form.condition[1] IN
    IF form.raw THEN saved = c
    ELSE WholeMinutes(c) =>
           \A ip \in Addresses \cup {Unknown} : \A ctx \in ContextWith(ip) :
             EvalCondition(saved, ctx)
               = EvalCondition(c, [ctx EXCEPT !.now = Date(ctx.now.n + ZoneOffset)])

Complete(clause) == clause.value # <<>> \/ clause.attr \in {"principal.aal", "env.ip"}

(***************************************************************************)
(* Whatever the user does to the builder, once every clause has a value    *)
(* the API accepts what it compiles: no sequence of attribute and operator *)
(* changes leaves an operator that the attribute does not have.            *)
(***************************************************************************)
BuilderIsAccepted ==
  Building /\ (\A i \in DOMAIN form.clauses : Complete(form.clauses[i])) =>
    Accepted(form.condition[1])

(***************************************************************************)
(* The check that stores a condition and the evaluation that reads it      *)
(* agree: an accepted condition decides, and where the address of the      *)
(* request is unknown it fails closed.                                     *)
(***************************************************************************)
AcceptedConditionsAreSafe == AcceptedConditionsDecide /\ UnknownAddressFailsClosed
=============================================================================
