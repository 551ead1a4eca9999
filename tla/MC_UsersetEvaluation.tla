------------------------ MODULE MC_UsersetEvaluation ------------------------
(* TLC instances of UsersetEvaluation. *)
EXTENDS UsersetEvaluation

Groups == {"g1", "g2", "g3"}

Member(g) == Set(g, "member")

MCObjects == {"d", "f1", "f2", "u"} \cup Groups

Types == [o \in MCObjects |->
            IF o = "d" THEN "doc" ELSE IF o \in Groups THEN "group"
            ELSE IF o = "u" THEN "user" ELSE "folder"]

Order == <<Direct("f1"), Direct("f2"), Member("g1"), Member("g2"), Member("g3"),
           Direct("u")>>

Config(rewrites, required, universe) ==
  [rewrites |-> rewrites, required |-> required, universe |-> universe,
   typeOf |-> Types, order |-> Order]

(* Groups nested in any way, cycles included. *)
Nesting == {<<g, "member", Member(h)>> : g \in Groups, h \in Groups}
           \ {<<g, "member", Member(g)>> : g \in Groups}

Doc(rewrites) == [doc |-> rewrites]

(* view = editors and viewers by alias, both required; groups nest. *)
Aliases ==
  Config(Doc([view |-> Union(<<This, Computed("editor")>>)]), <<"view", "owner">>,
    Nesting \cup {<<"d", r, Member(g)>> : r \in {"view", "editor"}, g \in {"g1", "g2"}}
            \cup {<<"d", "owner", Member("g3")>>}
            \cup {<<g, "member", Direct("u")>> : g \in {"g1", "g3"}})

(* view = viewers who are also employees. *)
Conjunction ==
  Config(Doc([view |-> Intersection(<<This, Computed("staff")>>)]), <<"view">>,
    Nesting \cup {<<"d", r, Member(g)>> : r \in {"view", "staff"}, g \in {"g1", "g2"}}
            \cup {<<"d", "view", Direct("u")>>, <<"g3", "member", Direct("u")>>})

(* view = viewers who are not blocked. *)
Difference ==
  Config(Doc([view |-> Exclusion(This, Computed("blocked"))]), <<"view">>,
    Nesting \cup {<<"d", r, Member(g)>> : r \in {"view", "blocked"}, g \in {"g1", "g2"}}
            \cup {<<"d", "view", Direct("u")>>, <<"g3", "member", Direct("u")>>})

(* view comes from the folder, of which folders may form cycles too; a     *)
(* group has members who are not banned from it.                           *)
Hierarchy ==
  Config([doc |-> [view |-> Union(<<This, TupleTo("parent", "view")>>)],
          folder |-> [view |-> Union(<<This, TupleTo("parent", "view")>>)],
          group |-> [member |-> Exclusion(This, Computed("banned"))]], <<"view">>,
    {<<"d", "parent", Direct("f1")>>, <<"d", "parent", Direct("f2")>>,
     <<"f1", "parent", Direct("f2")>>, <<"f2", "parent", Direct("f1")>>,
     <<"f1", "view", Member("g1")>>, <<"f2", "view", Member("g1")>>,
     <<"d", "view", Member("g2")>>, <<"g2", "member", Member("g1")>>,
     <<"g1", "member", Direct("u")>>, <<"g1", "banned", Direct("u")>>,
     <<"g2", "banned", Member("g3")>>, <<"g3", "member", Direct("u")>>,
     <<"g1", "banned", Member("g3")>>})

(* view comes from the folder, without exclusions below it. *)
Folders ==
  Config([doc |-> [view |-> Union(<<This, TupleTo("parent", "view")>>)],
          folder |-> [view |-> Union(<<This, TupleTo("parent", "view")>>)]], <<"view">>,
    ({<<"d", "parent", Direct("f1")>>, <<"d", "parent", Direct("f2")>>,
     <<"f1", "parent", Direct("f2")>>, <<"f2", "parent", Direct("f1")>>,
     <<"f1", "view", Member("g1")>>, <<"f2", "view", Member("g2")>>,
     <<"d", "view", Member("g2")>>, <<"g1", "member", Direct("u")>>,
     <<"f2", "view", Direct("u")>>, <<"g3", "member", Direct("u")>>}
    \cup {<<g, "member", Member(h)>> : g \in {"g1", "g2"}, h \in {"g1", "g3"}})
    \ {<<"g1", "member", Member("g1")>>})

MCRelations ==
  {"view", "editor", "owner", "staff", "blocked", "member", "banned", "parent"}

RECURSIVE OperandsOf(_)
OperandsOf(rewrite) ==
  {rewrite} \cup
  CASE rewrite.kind \in {"union", "intersection"} ->
         IF rewrite.children = <<>> THEN {}
         ELSE OperandsOf(Head(rewrite.children))
              \cup OperandsOf([rewrite EXCEPT !.children = Tail(@)])
    [] rewrite.kind = "exclusion" -> OperandsOf(rewrite.base) \cup OperandsOf(rewrite.subtract)
    [] OTHER -> {}

AllConfigs == {Aliases, Conjunction, Difference, Hierarchy, Folders}

MCRewrites ==
  OperandsOf(This) \cup
  UNION {UNION {UNION {OperandsOf(c.rewrites[type][r]) : r \in DOMAIN c.rewrites[type]} :
                  type \in DOMAIN c.rewrites} : c \in AllConfigs}

OnlyDifference == {Difference}
=============================================================================
