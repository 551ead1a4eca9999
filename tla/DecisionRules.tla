---------------------------- MODULE DecisionRules ----------------------------
(***************************************************************************)
(* The rules that decisions follow, from both ends: the relation tuples    *)
(* and namespaces that evaluate interprets (UsersetEvaluation), and the    *)
(* policies and namespaces that the console's forms author (ConsoleForms). *)
(* The evaluation and the forms share the language of rewrites and no      *)
(* state: a behaviour changes tuples, or edits on one of the pages.        *)
(***************************************************************************)
EXTENDS ConsoleForms, UsersetEvaluation

VARIABLE side      \* "forms" or "tuples"

ruleVars == <<side, formVars, config, tuples>>

RulesInit ==
  \/ /\ side = "forms" /\ FormsInit
     /\ config = (CHOOSE c \in Configs : TRUE) /\ tuples = {}
  \/ /\ side = "tuples" /\ Init
     /\ page = "policies" /\ form = Closed /\ draft = NoDraft
     /\ policy = (CHOOSE p \in InitialPolicies : TRUE)
     /\ schema = (CHOOSE s \in InitialSchemas : TRUE)

RulesNext ==
  /\ \/ side = "forms" /\ FormsNext /\ UNCHANGED vars
     \/ side = "tuples" /\ Next /\ UNCHANGED formVars
  /\ UNCHANGED side

RulesSpec == RulesInit /\ [][RulesNext]_ruleVars
=============================================================================
