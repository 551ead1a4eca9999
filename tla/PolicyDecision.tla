-------------------------- MODULE PolicyDecision --------------------------
(***************************************************************************)
(* What a decision is on one state of the store: the ReBAC grant and the   *)
(* deny-override combination with the policies.  A state s has the fields  *)
(* of Database in RevisionStore; ctx gives the verdict of each policy's    *)
(* condition in the context of the request.                                *)
(***************************************************************************)
EXTENDS RevisionStore

Verdict == {"true", "false", "error"}

(* evaluate: the relations the namespace requires, any of which grants. *)
Rebac(s, org, subject) ==
  IF \E r \in s.ns[org] : <<org, r, subject>> \in s.tuples
  THEN "permit" ELSE "deny"

(* PoliciesRepository.listByTarget for the organization. *)
Applicable(s, org) ==
  {p \in PolicyIds : s.policies[p] # NoPolicy /\ s.policies[p].org = org}

(* decide: a forbid whose condition is not false wins, then the ReBAC      *)
(* grant, then a permit policy whose condition is true.                    *)
Decide(s, org, subject, ctx) ==
  LET forbidden == \E p \in Applicable(s, org) :
                     s.policies[p].effect = "forbid" /\ ctx[p] # "false"
      permitted == \E p \in Applicable(s, org) :
                     s.policies[p].effect = "permit" /\ ctx[p] = "true"
  IN IF forbidden THEN "deny"
     ELSE IF Rebac(s, org, subject) = "permit" \/ permitted THEN "permit"
     ELSE "deny"
=============================================================================
