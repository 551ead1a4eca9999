---------------------------- MODULE ConsoleForms ----------------------------
(***************************************************************************)
(* The console's two authoring forms.  A browser tab shows one of them,    *)
(* and they share no state: a behaviour is a session on one of the pages.  *)
(***************************************************************************)
EXTENDS PolicyForm, NamespaceForm

VARIABLE page      \* "policies" or "schema"

formVars == <<page, policyVars, schemaVars>>

FormsInit ==
  \/ /\ page = "policies" /\ PolicyInit
     /\ schema = (CHOOSE s \in InitialSchemas : TRUE) /\ draft = NoDraft
  \/ /\ page = "schema" /\ SchemaInit
     /\ policy = (CHOOSE p \in InitialPolicies : TRUE) /\ form = Closed

FormsNext ==
  /\ \/ page = "policies" /\ PolicyNext /\ UNCHANGED schemaVars
     \/ page = "schema" /\ SchemaNext /\ UNCHANGED policyVars
  /\ UNCHANGED page

(***************************************************************************)
(* The forms are faithful: what is opened and saved unedited keeps its     *)
(* meaning, and no sequence of edits leaves a form that the API is bound   *)
(* to reject for its structure.                                            *)
(***************************************************************************)
FormsAreFaithful ==
  /\ UneditedSaveKeepsMeaning
  /\ UneditedSchemaIsKept
  /\ BuilderIsAccepted
  /\ FormGuardsStructure
=============================================================================
