---------------------------- MODULE Enforcement ----------------------------
(***************************************************************************)
(* Requests that are let through, or not, by a policy enforcement point.   *)
(* A resource service asks POST /authz/check through the SDK client and    *)
(* its Nest guard; a route of the API asks the decision point in process   *)
(* (PermissionGuard); owners change the graph behind PapAdminGuard.  All   *)
(* of them first pass AccessTokenGuard (SessionRevocation).  The decision  *)
(* point answers from one state within the call, as PdpContract says.      *)
(***************************************************************************)
EXTENDS SessionRevocation

CONSTANT NoRoute      \* a slot without a request

Writes == {"grant", "revoke"}
Reads == {"browse", "explore"}
Routes == {"sdk", "local"} \cup Writes \cup Reads

(* The caller's role in the organization that its bearer names, or "none"  *)
(* if it names none.                                                       *)
Roles == {"none", "member", "owner"}

(* The revision of a token is one that the store has reached ("met", also  *)
(* without a token), or it is ahead of the store, as a token of another    *)
(* deployment or from before a restore is; the store may catch up.         *)
Zookies == {"met", "ahead", "caught up"}

VARIABLES
  allows,       \* whether the policies and the graph permit the caller
  route,        \* what each request is for, or NoRoute
  role,         \* who asks: see Roles
  zookie,       \* the consistency token it carries: see Zookies
  stage,        \* where it is: "idle", "sent", "answered", "decided", "done"
  reply,        \* the API's reply, then the SDK's decision, then the outcome
  seen,         \* history: the values of allows since the request was sent
  fault         \* history: a failure or a malformed query met the request

asked == <<route, role, zookie, seen>>
callVars == <<asked, stage, reply, fault>>
enforcementVars == <<vars, allows, callVars>>

EnforcementInit ==
  /\ Init
  /\ allows \in BOOLEAN
  /\ route = [g \in Guards |-> NoRoute]
  /\ role = [g \in Guards |-> "none"]
  /\ zookie = [g \in Guards |-> "met"]
  /\ stage = [g \in Guards |-> "idle"]
  /\ reply = [g \in Guards |-> "none"]
  /\ seen = [g \in Guards |-> {}]
  /\ fault = [g \in Guards |-> FALSE]

-----------------------------------------------------------------------------
Answer(g, r, s) ==
  /\ reply' = [reply EXCEPT ![g] = r]
  /\ stage' = [stage EXCEPT ![g] = s]

(* The guard of the resource service has a bearer and a resource, perhaps  *)
(* a consistency token from the request, and calls client.check; or a      *)
(* request reaches a route of the API.  Only the owners' routes read the   *)
(* role, and only a bearer with an organization gets its token read.       *)
Send(g, r) ==
  /\ stage[g] = "idle"
  /\ route' = [route EXCEPT ![g] = r]
  /\ \E p \in Roles, z \in {"met", "ahead"} :
       /\ p = "owner" => r \in Writes \cup Reads
       /\ z = "ahead" => r = "sdk" /\ p # "none"
       /\ role' = [role EXCEPT ![g] = p]
       /\ zookie' = [zookie EXCEPT ![g] = z]
  /\ stage' = [stage EXCEPT ![g] = "sent"]
  /\ seen' = [seen EXCEPT ![g] = {allows}]
  /\ UNCHANGED <<vars, allows, reply, fault>>

(* Where the reply of the API goes: back to the SDK client, or to the      *)
(* caller.                                                                 *)
Destination(g) == IF route[g] = "sdk" THEN "answered" ELSE "done"

(* AccessTokenGuard refuses: no bearer, or it does not verify, or a claim  *)
(* is missing, or the blocklist said so.                                   *)
Unauthorized(g) ==
  /\ stage[g] = "sent"
  /\ guard[g] \in {"idle", "rejected"}
  /\ Answer(g, "401", Destination(g))
  /\ UNCHANGED <<vars, allows, asked, fault>>

Authenticate(g, t) == stage[g] = "sent" /\ Verify(g, t) /\ UNCHANGED <<allows, callVars>>

Handling(g, routes) == stage[g] = "sent" /\ guard[g] = "accepted" /\ route[g] \in routes

(* toRequest refuses an action or a token; the decision point fails. *)
CheckFailures == {"400", "503"}

(* PdpService.prepare: the denials that come before any evaluation. *)
CheckDecision(g) ==
  CASE role[g] = "none" -> "no_org_context"
    [] role[g] # "none" /\ zookie[g] = "ahead" -> "consistency_unavailable"
    [] OTHER -> IF allows THEN "permit" ELSE "deny"

(* AuthzController.check: what the decision point decides is a 200. *)
Check(g) ==
  /\ Handling(g, {"sdk"})
  /\ \/ \E r \in CheckFailures :
          /\ Answer(g, r, "answered")
          /\ fault' = [fault EXCEPT ![g] = TRUE]
     \/ /\ Answer(g, CheckDecision(g), "answered")
        /\ UNCHANGED fault
  /\ UNCHANGED <<vars, allows, asked>>

(* PermissionGuard asks without a token; a failed check counts as a refusal. *)
LocalCheck(g) ==
  /\ Handling(g, {"local"})
  /\ \/ Answer(g, IF CheckDecision(g) = "permit" THEN "ran" ELSE "403", "done") /\ UNCHANGED fault
     \/ Answer(g, "403", "done") /\ fault' = [fault EXCEPT ![g] = TRUE]
  /\ UNCHANGED <<vars, allows, asked>>

(* PapAdminGuard: an organization in the token, and an owner there. *)
Administrator(g) == role[g] = "owner"

PapAdmin(g) ==
  /\ Handling(g, Writes \cup Reads)
  /\ ~Administrator(g)
  /\ Answer(g, "403", "done")
  /\ UNCHANGED <<vars, allows, asked, fault>>

(* PapController.writeTuple and revokeTuple: the graph changes for every   *)
(* request under way, and the revision may now reach some of the tokens.   *)
Rewrite(permits) ==
  /\ allows' = permits
  /\ seen' = [g \in Guards |-> IF stage[g] \in {"idle", "done"} THEN seen[g]
                               ELSE seen[g] \cup {permits}]
  /\ \E reached \in SUBSET {g \in Guards : zookie[g] = "ahead"} :
       zookie' = [g \in Guards |-> IF g \in reached THEN "caught up" ELSE zookie[g]]

Administer(g) ==
  /\ Handling(g, Writes)
  /\ Administrator(g)
  /\ Rewrite(route[g] = "grant")
  /\ Answer(g, "ok", "done")
  /\ UNCHANGED <<vars, route, role, fault>>

(* A write of another owner, of this organization or another. *)
OthersWrite ==
  /\ \E permits \in BOOLEAN : Rewrite(permits)
  /\ UNCHANGED <<vars, route, role, stage, reply, fault>>

(* A body that toCommand refuses, or a store error, which nothing catches. *)
AdminFails(g) ==
  /\ Handling(g, Writes)
  /\ Administrator(g)
  /\ \E r \in {"400", "500"} : Answer(g, r, "done")
  /\ fault' = [fault EXCEPT ![g] = TRUE]
  /\ UNCHANGED <<vars, allows, asked>>

(* DirectoryController: the lists and the namespace that an owner sees. *)
Browse(g) ==
  /\ Handling(g, {"browse"})
  /\ Administrator(g)
  /\ \E r \in {"ok", "400", "404", "503"} : Answer(g, r, "done")
  /\ UNCHANGED <<vars, allows, asked, fault>>

(* expand, simulate and check-as: decisions that nobody enforces. *)
Explore(g) ==
  /\ Handling(g, {"explore"})
  /\ Administrator(g)
  /\ \E r \in {"ok", "400", "503"} : Answer(g, r, "done")
  /\ UNCHANGED <<vars, allows, asked, fault>>

-----------------------------------------------------------------------------
(* deny(PDP_UNAVAILABLE), also for a failed or aborted fetch. *)
Unavailable == "pdp_unavailable"

(* The fetch fails, or the timer aborts it; the API may go on. *)
Abort(g) ==
  /\ route[g] = "sdk"
  /\ stage[g] \in {"sent", "answered"}
  /\ Answer(g, Unavailable, "decided")
  /\ fault' = [fault EXCEPT ![g] = TRUE]
  /\ UNCHANGED <<vars, allows, asked>>

Denials == {"deny", "no_org_context", "consistency_unavailable"}

MutDecision(status, body) ==
  CASE status = "401" -> "unauthenticated"
    [] status \in CheckFailures -> Unavailable
    [] body \in Denials -> body
    [] OTHER -> "permit"

(* What client.check makes of a response.  The body may be no decision.    *)
Decision(status, body) ==
  CASE status = "401" -> "unauthenticated"
    [] status \in CheckFailures -> Unavailable
    [] body \in {"permit"} \cup Denials -> body
    [] OTHER -> Unavailable

ReadResponse(g) ==
  /\ route[g] = "sdk"
  /\ stage[g] = "answered"
  /\ \/ Answer(g, Decision(reply[g], reply[g]), "decided") /\ UNCHANGED fault
     \/ /\ Answer(g, Decision(reply[g], "garbled"), "decided")
        /\ fault' = [fault EXCEPT ![g] = TRUE]
  /\ UNCHANGED <<vars, allows, asked>>

(* AccessCorePermissionGuard: the handler of the service runs on a permit. *)
Enforce(g) ==
  /\ stage[g] = "decided"
  /\ Answer(g, CASE reply[g] = "permit" -> "ran"
                 [] reply[g] = "unauthenticated" -> "401"
                 [] reply[g] = "pdp_unavailable" -> "503"
                 [] OTHER -> "403", "done")
  /\ UNCHANGED <<vars, allows, asked, fault>>

(* The caller has its answer; the API is done with the request, too. *)
Finish(g) ==
  /\ stage[g] = "done"
  /\ \/ EndRequest(g)
     \/ guard[g] = "idle" /\ UNCHANGED vars
  /\ route' = [route EXCEPT ![g] = NoRoute]
  /\ role' = [role EXCEPT ![g] = "none"]
  /\ zookie' = [zookie EXCEPT ![g] = "met"]
  /\ Answer(g, "none", "idle")
  /\ seen' = [seen EXCEPT ![g] = {}]
  /\ fault' = [fault EXCEPT ![g] = FALSE]
  /\ UNCHANGED allows

(* The rest of SessionRevocation: time, issuers and the revocation. *)
SessionStep ==
  /\ \/ Tick
     \/ \E i \in Issuers : FindSession(i) \/ Sign(i) \/ HandOut(i)
     \/ RevokeSession
     \/ Blocklist
     \/ \E g \in Guards : CheckBlocklist(g)
  /\ UNCHANGED <<allows, callVars>>

EnforcementNext ==
  \/ SessionStep
  \/ \E g \in Guards, r \in Routes : Send(g, r)
  \/ \E g \in Guards, t \in issued : Authenticate(g, t)
  \/ \E g \in Guards : Unauthorized(g)
  \/ \E g \in Guards : Check(g)
  \/ \E g \in Guards : LocalCheck(g)
  \/ \E g \in Guards : PapAdmin(g)
  \/ \E g \in Guards : Administer(g)
  \/ \E g \in Guards : AdminFails(g)
  \/ OthersWrite
  \/ \E g \in Guards : Browse(g)
  \/ \E g \in Guards : Explore(g)
  \/ \E g \in Guards : Abort(g)
  \/ \E g \in Guards : ReadResponse(g)
  \/ \E g \in Guards : Enforce(g)
  \/ \E g \in Guards : Finish(g)

-----------------------------------------------------------------------------
(***************************************************************************)
(* Enforcement fails closed from end to end.  A protected handler runs     *)
(* only for a request that AccessTokenGuard accepted, with a token that    *)
(* names an organization and that no revocation before the request covers, *)
(* and only if the decision was a permit at some instant of the request,   *)
(* in a store that has reached its consistency token: never on a lost,     *)
(* late, refused or unreadable answer, and never on a decision from before *)
(* the request.                                                            *)
(***************************************************************************)
HandlersRunAuthorised ==
  \A g \in Guards :
    reply[g] = "ran" =>
      /\ TRUE \in seen[g]
      /\ role[g] # "none" /\ zookie[g] # "ahead"
      /\ guard[g] = "accepted"
      /\ after[g] => bearer[g] + ClockSkew + waited[g] > listedAt

(***************************************************************************)
(* What client.check tells the service is true of the request: "deny" only *)
(* if the policies denied the caller at some instant of it,                *)
(* "consistency_unavailable" only for a token that was ahead of the store, *)
(* "no_org_context" only for a bearer without an organization,             *)
(* "pdp_unavailable" only after a failure or for a malformed query.  The   *)
(* SDK's guard keeps the last apart, as a 503, but not the others: its 403 *)
(* may be any of the three, so a caller whom the policies permit all along *)
(* is refused like a stranger when its token is ahead of the store.        *)
(***************************************************************************)
RefusalsHaveCause ==
  \A g \in Guards :
    /\ reply[g] = "deny" => FALSE \in seen[g] /\ role[g] # "none" /\ zookie[g] # "ahead"
    /\ reply[g] = "consistency_unavailable" => role[g] # "none" /\ zookie[g] # "met"
    /\ reply[g] = "no_org_context" => role[g] = "none"
    /\ reply[g] = Unavailable => fault[g]
    /\ (route[g] = "sdk" /\ stage[g] = "done") =>
         /\ reply[g] = "403" => FALSE \in seen[g] \/ role[g] = "none" \/ zookie[g] # "met"
         /\ reply[g] = "503" => fault[g]

(***************************************************************************)
(* What a caller gets follows the decision: a handler runs only with a     *)
(* permit of its own request, and every refusal has its cause.             *)
(***************************************************************************)
AccessFollowsDecisions == HandlersRunAuthorised /\ RefusalsHaveCause
=============================================================================
