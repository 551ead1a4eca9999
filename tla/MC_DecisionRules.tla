-------------------------- MODULE MC_DecisionRules --------------------------
(* TLC instance of DecisionRules: the instances of its two parts. *)
EXTENDS DecisionRules, MC_ConsoleForms, MC_UsersetEvaluation
=============================================================================
