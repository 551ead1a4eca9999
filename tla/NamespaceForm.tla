--------------------------- MODULE NamespaceForm ----------------------------
(***************************************************************************)
(* The console's schema form and the check that a namespace configuration  *)
(* passes before it is stored (NamespaceConfig.create).                    *)
(*                                                                         *)
(* A configuration has relations, actions (the relations that grant each   *)
(* verb) and rewrites.  The form shows a rewrite as a list of terms, their *)
(* union, or keeps one it cannot show as it is.                            *)
(*                                                                         *)
(* The operators are recursive, so this module is for TLC only.            *)
(***************************************************************************)
EXTENDS Usersets, Naturals, Sequences, FiniteSets, SequencesExt, Relation

CONSTANTS
  Identifiers,       \* names that isIdentifier accepts
  RelationDrafts,    \* names that the user may enter for a relation
  VerbDrafts,        \* and for a verb
  InitialSchemas,    \* configurations that an API client may have defined
  MaxRewriteDepth,   \* MAX_REWRITE_DEPTH
  MaxRows,           \* bound: rows of actions, terms of a rewrite
  MaxSchemaEdits     \* bound: changes to a form

VARIABLES
  schema,            \* the stored configuration of the namespace
  draft              \* the page: closed, or the form's state

schemaVars == <<schema, draft>>

Operands(node) ==
  CASE node.kind \in {"union", "intersection"} -> node.children
    [] node.kind = "exclusion" -> <<node.base, node.subtract>>
    [] OTHER -> <<>>

-----------------------------------------------------------------------------
(* validateUserset: the errors of a rewrite, one of which is reported. *)
RECURSIVE RewriteErrors(_, _, _)
RewriteErrors(node, relations, depth) ==
  LET named == CASE node.kind = "computedUserset" -> {node.relation}
                 [] node.kind = "tupleToUserset" -> {node.tupleset, node.relation}
                 [] OTHER -> {}
      local == CASE node.kind = "computedUserset" -> {node.relation}
                 [] node.kind = "tupleToUserset" -> {node.tupleset}
                 [] OTHER -> {}
  IN IF depth > MaxRewriteDepth THEN {"rewrite_too_deep"}
     ELSE IF \/ ~(named \subseteq Identifiers)
             \/ node.kind \in {"union", "intersection"} /\ node.children = <<>>
          THEN {"invalid_rewrite"}
     ELSE IF ~(local \subseteq relations) THEN {"unknown_rewrite_relation"}
     ELSE UNION {RewriteErrors(Operands(node)[i], relations, depth + 1) :
                   i \in DOMAIN Operands(node)}

RECURSIVE ComputedUsersetTargets(_)
ComputedUsersetTargets(node) ==
  IF node.kind = "computedUserset" THEN <<node.relation>>
  ELSE FlattenSeq([i \in DOMAIN Operands(node) |-> ComputedUsersetTargets(Operands(node)[i])])

MutLeaveRelation(w, r) == [w EXCEPT !.done = @ \cup {r}]

(* A relation whose targets are all walked: visiting.delete, done.add. *)
LeaveRelation(w, r) == [w EXCEPT !.visiting = @ \ {r}, !.done = @ \cup {r}]

(* hasComputedUsersetCycle: the walk from one relation. *)
RECURSIVE WalkRelation(_, _, _)
WalkRelation(edges, r, w) ==
  IF w.cycle \/ r \in w.visiting THEN [w EXCEPT !.cycle = TRUE]
  ELSE IF r \in w.done THEN w
  ELSE LET entered == [w EXCEPT !.visiting = @ \cup {r}]
           targets == IF r \in DOMAIN edges THEN edges[r] ELSE <<>>
           walked == FoldLeft(LAMBDA v, t : IF v.cycle THEN v ELSE WalkRelation(edges, t, v),
                              entered, targets)
       IN IF walked.cycle THEN walked ELSE LeaveRelation(walked, r)

HasComputedUsersetCycle(edges) ==
  FoldLeft(LAMBDA w, r : IF w.cycle THEN w ELSE WalkRelation(edges, r, w),
           [visiting |-> {}, done |-> {}, cycle |-> FALSE],
           SetToSeq(DOMAIN edges)).cycle

EdgesOf(config) ==
  [r \in DOMAIN config.rewrites |-> ComputedUsersetTargets(config.rewrites[r])]

(* NamespaceConfig.create: the errors of the first stage that has any. *)
RelationErrors(config) ==
  LET names == ToSet(config.relations) IN
  (IF names = {} THEN {"empty_relations"} ELSE {})
  \cup (IF names \subseteq Identifiers THEN {} ELSE {"invalid_relation"})
  \cup (IF Cardinality(names) = Len(config.relations) THEN {} ELSE {"duplicate_relation"})

ActionErrors(config) ==
  UNION {(IF verb \in Identifiers THEN {} ELSE {"invalid_verb"})
         \cup (IF config.actions[verb] = <<>> THEN {"empty_binding"} ELSE {})
         \cup (IF ToSet(config.actions[verb]) \subseteq ToSet(config.relations) THEN {}
               ELSE {"unknown_relation"}) : verb \in DOMAIN config.actions}

RewriteStageErrors(config) ==
  LET names == ToSet(config.relations) IN
  (IF DOMAIN config.rewrites \subseteq names THEN {} ELSE {"unknown_rewrite_relation"})
  \cup UNION {RewriteErrors(config.rewrites[r], names, 0) : r \in DOMAIN config.rewrites}

CreateErrors(config) ==
  IF RelationErrors(config) # {} THEN RelationErrors(config)
  ELSE IF ActionErrors(config) # {} THEN ActionErrors(config)
  ELSE IF RewriteStageErrors(config) # {} THEN RewriteStageErrors(config)
  ELSE IF HasComputedUsersetCycle(EdgesOf(config)) THEN {"cyclic_computed_userset"}
  ELSE {}

-----------------------------------------------------------------------------
SimpleKinds == {"this", "computedUserset", "tupleToUserset"}

(* usersetToTerms returns a list. *)
ShowsAsTerms(tree) ==
  \/ tree.kind \in SimpleKinds
  \/ /\ tree.kind = "union"
     /\ \A i \in DOMAIN tree.children : tree.children[i].kind \in SimpleKinds

(* initialRewrites: terms where a rewrite has that shape, else the tree. *)
EntryOf(tree) ==
  IF ShowsAsTerms(tree)
  THEN [terms |-> IF tree.kind \in SimpleKinds THEN <<tree>> ELSE tree.children, raw |-> <<>>]
  ELSE [terms |-> <<>>, raw |-> <<tree>>]

Gone(entry) == entry.terms = <<>> /\ entry.raw = <<>>

(* termsToUserset, or the tree that was kept. *)
TreeOf(entry) ==
  IF entry.raw # <<>> THEN entry.raw[1]
  ELSE IF Len(entry.terms) = 1 THEN entry.terms[1] ELSE Union(entry.terms)

NoDraft ==
  [open |-> FALSE, relations |-> <<>>, actions |-> <<>>, rewrites |-> [r \in {} |-> <<>>],
   loaded |-> <<>>, sent |-> <<>>, edits |-> 0]

(* The configuration that submit builds: a later row of a verb replaces an *)
(* earlier one, and a rewrite without terms is left out.                   *)
ConfigOf(d) ==
  LET verbs == {d.actions[i].verb : i \in DOMAIN d.actions}
      rowOf(verb) == SelectLastInSeq(d.actions, LAMBDA row : row.verb = verb)
      kept == {r \in DOMAIN d.rewrites : ~Gone(d.rewrites[r])} IN
  [relations |-> d.relations,
   actions |-> [verb \in verbs |-> d.actions[rowOf(verb)].relations],
   rewrites |-> [r \in kept |-> TreeOf(d.rewrites[r])]]

SchemaInit == schema \in InitialSchemas /\ draft = NoDraft

(* Bound: what a form has saved is not opened again. *)
MayOpen == schema \in InitialSchemas

OpenNewSchema ==
  /\ ~draft.open
  /\ MayOpen
  /\ draft' = [NoDraft EXCEPT !.open = TRUE]
  /\ UNCHANGED schema

(* getNamespace and the form's initial state. *)
OpenSchema ==
  LET verbs == SetToSeq(DOMAIN schema.actions) IN
  /\ ~draft.open
  /\ MayOpen
  /\ draft' = [NoDraft EXCEPT
       !.open = TRUE,
       !.relations = schema.relations,
       !.actions = [i \in DOMAIN verbs |->
                      [verb |-> verbs[i], relations |-> schema.actions[verbs[i]]]],
       !.rewrites = [r \in DOMAIN schema.rewrites |-> EntryOf(schema.rewrites[r])],
       !.loaded = <<schema>>]
  /\ UNCHANGED schema

(* A change by the user leaves the form with the given parts. *)
Change(relations, actions, rewrites) ==
  /\ draft.open
  /\ draft.edits < MaxSchemaEdits
  /\ draft' = [draft EXCEPT !.relations = relations, !.actions = actions,
                            !.rewrites = rewrites, !.loaded = <<>>, !.edits = @ + 1]
  /\ UNCHANGED schema

AddRelation(name) ==
  /\ name \notin ToSet(draft.relations)
  /\ Change(Append(draft.relations, name), draft.actions, draft.rewrites)

Unbound(row, name) ==
  [row EXCEPT !.relations = SelectSeq(@, LAMBDA r : r # name)]

(* The relation goes, with its bindings and its rewrite, and not with what *)
(* other rewrites say of it.                                               *)
RemoveRelation(name) ==
  /\ name \in ToSet(draft.relations)
  /\ Change(SelectSeq(draft.relations, LAMBDA r : r # name),
            [i \in DOMAIN draft.actions |-> Unbound(draft.actions[i], name)],
            [r \in DOMAIN draft.rewrites \ {name} |-> draft.rewrites[r]])

SetRows(rows) == Change(draft.relations, rows, draft.rewrites)

AddAction ==
  /\ Len(draft.actions) < MaxRows
  /\ SetRows(Append(draft.actions, [verb |-> "", relations |-> <<>>]))

EditAction(i) ==
  LET row == draft.actions[i] IN
  \/ SetRows(RemoveAt(draft.actions, i))
  \/ \E verb \in VerbDrafts : SetRows(ReplaceAt(draft.actions, i, [row EXCEPT !.verb = verb]))
  \/ \E r \in ToSet(draft.relations) :
       SetRows(ReplaceAt(draft.actions, i,
         IF r \in ToSet(row.relations) THEN Unbound(row, r)
         ELSE [row EXCEPT !.relations = Append(@, r)]))

TermsOf(r) == IF r \in DOMAIN draft.rewrites THEN draft.rewrites[r].terms ELSE <<>>

SetEntryTerms(r, terms) ==
  Change(draft.relations, draft.actions,
         [x \in DOMAIN draft.rewrites \cup {r} |->
            IF x = r THEN [terms |-> terms, raw |-> <<>>] ELSE draft.rewrites[x]])

(* What TermRow turns a term into: another kind, or another field. *)
TermChanges(term) ==
  LET first == draft.relations[1]
      names == ToSet(draft.relations) IN
  {This, Computed(first), TupleTo(first, "")}
  \cup IF term.kind = "computedUserset" THEN {Computed(r) : r \in names}
       ELSE IF term.kind = "tupleToUserset"
       THEN {[term EXCEPT !.tupleset = r] : r \in names}
            \cup {[term EXCEPT !.relation = r] : r \in RelationDrafts}
       ELSE {}

(* A rewrite that is shown as terms is edited term by term. *)
EditRewrite(r) ==
  LET terms == TermsOf(r) IN
  /\ r \in DOMAIN draft.rewrites => draft.rewrites[r].raw = <<>>
  /\ \/ Len(terms) < MaxRows /\ SetEntryTerms(r, Append(terms, This))
     \/ \E i \in DOMAIN terms :
          \/ SetEntryTerms(r, RemoveAt(terms, i))
          \/ \E term \in TermChanges(terms[i]) : SetEntryTerms(r, ReplaceAt(terms, i, term))

CanSubmit ==
  /\ draft.open
  /\ draft.relations # <<>>
  /\ \A i \in DOMAIN draft.actions :
       draft.actions[i].verb # "" /\ draft.actions[i].relations # <<>>
  /\ draft.sent = <<>>

SubmitSchema ==
  /\ CanSubmit
  /\ draft' = [draft EXCEPT !.sent = <<ConfigOf(draft)>>]
  /\ UNCHANGED schema

SchemaAccepted ==
  /\ draft.sent # <<>> /\ CreateErrors(draft.sent[1]) = {}
  /\ schema' = draft.sent[1]
  /\ draft' = NoDraft

(* Rejected, or unavailable: the form stays as it is. *)
SchemaFails ==
  /\ draft.sent # <<>>
  /\ draft' = [draft EXCEPT !.sent = <<>>]
  /\ UNCHANGED schema

LeaveSchema ==
  /\ draft.open
  /\ draft' = NoDraft
  /\ UNCHANGED schema

SchemaNext ==
  \/ OpenNewSchema \/ OpenSchema \/ AddAction
  \/ \E name \in RelationDrafts : AddRelation(name) \/ RemoveRelation(name)
  \/ \E i \in DOMAIN draft.actions : EditAction(i)
  \/ \E r \in ToSet(draft.relations) : EditRewrite(r)
  \/ SubmitSchema \/ SchemaAccepted \/ SchemaFails \/ LeaveSchema

-----------------------------------------------------------------------------
(***************************************************************************)
(* The cycle check is exact: whatever rewrites a form holds, the walk with *)
(* its two sets finds a cycle of computed usersets if and only if some     *)
(* relation reaches itself.  Relations shared by several rewrites are no   *)
(* cycle.                                                                  *)
(***************************************************************************)
CycleCheckIsExact ==
  draft.open =>
    LET edges == EdgesOf(ConfigOf(draft))
        names == DOMAIN edges \cup UNION {ToSet(edges[r]) : r \in DOMAIN edges}
        reaches == TransitiveClosure(
          [p \in names \X names |-> p[1] \in DOMAIN edges /\ p[2] \in ToSet(edges[p[1]])], names)
    IN HasComputedUsersetCycle(edges) <=> \E r \in names : reaches[r, r]

(* A union of one operand is that operand. *)
Normal(tree) ==
  IF tree.kind = "union" /\ Len(tree.children) = 1 THEN tree.children[1] ELSE tree

(***************************************************************************)
(* Opening a namespace and saving it without an edit keeps it: relations,  *)
(* bindings and what every rewrite means, intersections and exclusions     *)
(* that the form cannot show included.                                     *)
(***************************************************************************)
UneditedSchemaIsKept ==
  draft.open /\ draft.loaded # <<>> =>
    LET saved == ConfigOf(draft)
        was == draft.loaded[1] IN
    /\ saved.relations = was.relations
    /\ saved.actions = was.actions
    /\ DOMAIN saved.rewrites = DOMAIN was.rewrites
    /\ \A r \in DOMAIN was.rewrites : Normal(saved.rewrites[r]) = Normal(was.rewrites[r])

(***************************************************************************)
(* What the form lets the user submit is wrong only in its names and its   *)
(* rewrites: removing relations in any order never leaves an action bound  *)
(* to a relation that is gone, an empty binding or a duplicate.            *)
(***************************************************************************)
FormGuardsStructure ==
  CanSubmit => CreateErrors(ConfigOf(draft)) \subseteq
    {"invalid_relation", "invalid_verb", "unknown_rewrite_relation", "invalid_rewrite",
     "cyclic_computed_userset"}
=============================================================================
