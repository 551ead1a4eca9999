--------------------------- MODULE MC_ConsoleForms ---------------------------
(* One policy, edited in a zone one minute ahead of UTC, and one namespace. *)
EXTENDS ConsoleForms

V4(n) == Text("v4", n)
Cidr(addr, prefix) == [addr |-> addr, prefix |-> prefix]

MCOps == {"eq", "ge", "lt"}
MCAalInputs == {<<>>, <<2>>}
MCIpInputs == {<<>>, <<V4(0)>>}
MCCidrInputs == {<<>>, <<Cidr(V4(0), 1)>>}
MCNowInputs == {<<>>, <<2>>}
MCPresets ==
  {[combinator |-> "and", clauses |-> <<Clause("principal.aal", "ge", <<2>>)>>],
   [combinator |-> "and", clauses |-> <<Clause("env.now", "lt", <<2>>)>>]}

Leaves ==
  {Cmp("ge", Attr("principal.aal"), Lit(Number(2))),
   Cmp("lt", Attr("env.now"), Lit(Text("time", 2))),
   Cmp("ge", Attr("env.now"), Lit(Text("time", 1))),
   Cmp("eq", Attr("env.ip"), Lit(V4(0))),
   Cmp("eq", Attr("env.ip"), Attr("env.ip")),
   Cmp("lt", Lit(Number(1)), Attr("principal.aal")),
   Cmp("lt", Attr("env.ip"), Lit(V4(3))),
   Cmp("eq", Attr("principal.aal"), Lit(V4(0))),
   In(Attr("principal.aal"), <<Number(1), Number(2)>>),
   In(Attr("env.now"), <<Text("time", 2)>>),
   IpInCidr(Attr("env.ip"), <<Cidr(V4(0), 1), Cidr(Text("hex", 0), 3)>>),
   IpInCidr(Attr("env.ip"), <<Cidr(Text("v6", 0), 0)>>),
   IpInCidr(Lit(EmptyText), <<Cidr(V4(0), 0)>>)}

(* The operands of and and or are interchangeable. *)
Pairs == {[kind |-> k, children |-> SetToSeq(S)] : k \in {"and", "or"}, S \in kSubset(2, Leaves)}

Candidates ==
  Leaves \cup {Not(c) : c \in Leaves} \cup Pairs
  \cup {AnyOf(<<c>>) : c \in Leaves}
  \cup {Not(AnyOf(<<a, Not(b)>>)) : a, b \in Leaves}
  \cup {AllOf(<<Not(Not(c)), c>>) : c \in Leaves}

MCInitialPolicies ==
  {[effect |-> e, condition |-> c] :
     e \in {"permit", "forbid"}, c \in {x \in Candidates : Accepted(x)}}

(* One of each that the builder shows, and two that it does not. *)
MCOpenedConditions ==
  LET deadline == Cmp("lt", Attr("env.now"), Lit(Text("time", 2)))
      level == Cmp("ge", Attr("principal.aal"), Lit(Number(2)))
      range == IpInCidr(Attr("env.ip"), <<Cidr(V4(0), 1), Cidr(Text("hex", 0), 3)>>) IN
  {level, Cmp("ge", Attr("env.now"), Lit(Text("time", 1))), Cmp("eq", Attr("env.ip"), Lit(V4(0))),
   range, In(Attr("principal.aal"), <<Number(1), Number(2)>>)}
  \cup {AnyOf(<<deadline, c>>) : c \in {level, range, Cmp("eq", Attr("env.ip"), Attr("env.ip"))}}

-----------------------------------------------------------------------------
Schema(relations, actions, rewrites) ==
  [relations |-> relations, actions |-> actions, rewrites |-> rewrites]

MCIdentifiers == {"owner", "editor", "viewer", "read", "write"}
MCRelationDrafts == {"owner", "viewer", "a b"}
MCVerbDrafts == {"read", "9"}

Reads(r) == [v \in {"read"} |-> <<r>>]
NoRewrites == [r \in {} |-> This]

MCInitialSchemas ==
  {Schema(<<"owner">>, Reads("owner"), NoRewrites),
   Schema(<<"owner", "viewer">>, [v \in {"read", "write"} |-> <<"owner", "viewer">>],
          [r \in {"viewer"} |-> Union(<<This>>)]),
   Schema(<<"owner", "viewer">>, Reads("viewer"),
          [r \in {"viewer"} |-> Union(<<This, Computed("owner")>>)]),
   Schema(<<"owner", "editor", "viewer">>, Reads("viewer"),
          [r \in {"viewer"} |-> Union(<<Computed("owner"), Computed("editor")>>)]),
   Schema(<<"owner", "viewer">>, Reads("viewer"),
          [r \in {"viewer"} |-> Intersection(<<This, Computed("owner")>>)]),
   Schema(<<"owner", "viewer">>, Reads("viewer"),
          [r \in {"viewer"} |-> Exclusion(Union(<<This, TupleTo("owner", "viewer")>>),
                                          Computed("owner"))])}
=============================================================================
