---------------------------- MODULE PdpContract ----------------------------
(***************************************************************************)
(* What the decision point promises its callers, with no cache, no         *)
(* snapshot and no steps: every answer of a call is the decision that one  *)
(* committed state gives, and that state is no older than the newest       *)
(* commit at the moment the call began.  A revoked grant whose revocation  *)
(* committed before the call is therefore never honoured.                  *)
(*                                                                         *)
(* The slots of one call may be answered from different states.            *)
(***************************************************************************)
EXTENDS PolicyDecision

CONSTANTS Checkers, NumSlots, NoRequest, NoOrg, Calls, NoAnswer

VARIABLES
  phase,        \* phase[c]: "idle", "working" or "answered"
  asked,        \* the slots of each call
  answer,       \* the answers of each call, NoAnswer until it is answered
  began         \* newest committed revision when the call began

contractVars == <<db, seq, pending, hist, phase, asked, answer, began>>

Silent == [i \in 1 .. NumSlots |-> NoAnswer]

(* The answers that request q may get from a call that began at revision   *)
(* `from': a denial for want of an organization, a denial because the      *)
(* store is behind the token, or the decision of a fresh enough state.     *)
Admissible(q, from, a) ==
  \/ q = NoRequest /\ a = NoAnswer
  \/ /\ q # NoRequest
     /\ q.org = NoOrg
     /\ a = [outcome |-> "no_org_context", rev |-> 0]
  \/ /\ q # NoRequest
     /\ q.org # NoOrg
     /\ \E r \in DOMAIN hist :
          /\ from <= r
          /\ IF q.mode = "at-least" /\ r < q.token
             THEN a = [outcome |-> "consistency_unavailable", rev |-> r]
             ELSE a = [outcome |-> Decide(hist[r], q.org, q.subject, q.ctx),
                       rev |-> r]

ContractInit ==
  /\ StoreInit
  /\ phase = [c \in Checkers |-> "idle"]
  /\ asked = [c \in Checkers |-> [i \in 1 .. NumSlots |-> NoRequest]]
  /\ answer = [c \in Checkers |-> Silent]
  /\ began = [c \in Checkers |-> 0]

Begin(c, slots) ==
  /\ phase[c] = "idle"
  /\ phase' = [phase EXCEPT ![c] = "working"]
  /\ asked' = [asked EXCEPT ![c] = slots]
  /\ began' = [began EXCEPT ![c] = db.current]
  /\ UNCHANGED <<db, seq, pending, hist, answer>>

PossibleAnswer ==
  [outcome : {"permit", "deny", "no_org_context", "consistency_unavailable"},
   rev : 0 .. MaxRevision]

Answer(c) ==
  /\ phase[c] = "working"
  /\ phase' = [phase EXCEPT ![c] = "answered"]
  /\ UNCHANGED <<db, seq, pending, hist, asked, began>>
  /\ \E a \in [1 .. NumSlots -> PossibleAnswer \cup {NoAnswer}] :
       /\ answer' = [answer EXCEPT ![c] = a]
       /\ \A i \in 1 .. NumSlots : Admissible(asked[c][i], began[c], a[i])

(* The caller takes its answers, or the call fails without any. *)
End(c) ==
  /\ phase[c] # "idle"
  /\ phase' = [phase EXCEPT ![c] = "idle"]
  /\ asked' = [asked EXCEPT ![c] = [i \in 1 .. NumSlots |-> NoRequest]]
  /\ answer' = [answer EXCEPT ![c] = Silent]
  /\ began' = [began EXCEPT ![c] = 0]
  /\ UNCHANGED <<db, seq, pending, hist>>

ContractNext ==
  \/ StoreNext /\ UNCHANGED <<phase, asked, answer, began>>
  \/ \E c \in Checkers :
       \/ \E slots \in Calls : Begin(c, slots)
       \/ Answer(c)
       \/ End(c)

ContractSpec == ContractInit /\ [][ContractNext]_contractVars
=============================================================================
