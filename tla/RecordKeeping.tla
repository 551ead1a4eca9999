--------------------------- MODULE RecordKeeping ----------------------------
(***************************************************************************)
(* The two records of the API process side by side: the decision log,      *)
(* buffered in memory, and the security audit, appended before a handler   *)
(* answers.  They share the process: a crash takes the buffer of the one   *)
(* and the open transactions of the other.                                 *)
(***************************************************************************)
EXTENDS DecisionLogBuffer, AuditChain

RecordInit == Init /\ AuditInit

RecordNext ==
  \/ Step /\ UNCHANGED auditVars
  \/ AuditStep /\ UNCHANGED vars
  \/ Crash /\ AuditCrash

RecordSpec == RecordInit /\ [][RecordNext]_<<vars, auditVars>> /\ Fairness
=============================================================================
