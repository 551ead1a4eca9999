------------------------- MODULE SessionRevocation -------------------------
(***************************************************************************)
(* Access tokens of one session, against its revocation.  Refresh and      *)
(* step-up check the session and, some awaits later, hand out a token that *)
(* lives for AccessTtl; logout, lifecycle events (SessionTerminator) and   *)
(* reuse detection (RefreshHandler) revoke the session and then put its    *)
(* sid in a Redis blocklist for AccessTtl; AccessTokenGuard accepts a      *)
(* token that verifies, with ClockSkew, and whose sid is not listed.       *)
(***************************************************************************)
EXTENDS Naturals

CONSTANTS
  Issuers,      \* concurrent refresh and step-up requests
  Guards,       \* concurrent requests with an access token
  AccessTtl,    \* ACCESS_TOKEN_TTL
  ClockSkew,    \* JWT_CLOCK_SKEW
  GuardDelay,   \* bound: clock ticks between the two checks of the guard
  MaxTime,      \* bound: the last instant
  NoToken,      \* no access token
  Never         \* the blocklist was not written

VARIABLES
  now,          \* the clock, in seconds
  session,      \* status of the session row
  issued,       \* access tokens handed out, by the second they were signed
  issuer,       \* step of each issuer
  draft,        \* the access token that an issuer has signed
  ending,       \* the revocation: "no", "revoked" or "done"
  listedAt,     \* when the sid was put in the blocklist, or Never
  guard,        \* step of each guarded request
  bearer,       \* the access token of a guarded request
  waited,       \* clock ticks since it was verified
  after         \* history: the request began after the revocation was done

vars == <<now, session, issued, issuer, draft, ending, listedAt, guard,
          bearer, waited, after>>

ASSUME SessionRevocationAssumption ==
  /\ AccessTtl \in Nat \ {0}
  /\ ClockSkew \in Nat
  /\ GuardDelay \in Nat
  /\ MaxTime \in Nat
  /\ NoToken \notin Nat
  /\ Never \notin Nat

(* Login has created the session and handed out its first token. *)
Init ==
  /\ now = 0
  /\ session = "active"
  /\ issued = {0}
  /\ issuer = [i \in Issuers |-> "idle"]
  /\ draft = [i \in Issuers |-> NoToken]
  /\ ending = "no"
  /\ listedAt = Never
  /\ guard = [g \in Guards |-> "idle"]
  /\ bearer = [g \in Guards |-> NoToken]
  /\ waited = [g \in Guards |-> 0]
  /\ after = [g \in Guards |-> FALSE]

Tick ==
  /\ now < MaxTime
  /\ \A g \in Guards : guard[g] = "verified" => waited[g] < GuardDelay
  /\ now' = now + 1
  /\ waited' = [g \in Guards |-> IF guard[g] = "verified" THEN waited[g] + 1
                                ELSE waited[g]]
  /\ UNCHANGED <<session, issued, issuer, draft, ending, listedAt, guard,
                 bearer, after>>

-----------------------------------------------------------------------------
(* RefreshHandler and StepUpHandler read the session. *)
FindSession(i) ==
  /\ issuer[i] = "idle"
  /\ session = "active"
  /\ issuer' = [issuer EXCEPT ![i] = "checked"]
  /\ UNCHANGED <<now, session, issued, draft, ending, listedAt, guard, bearer,
                 waited, after>>

(* accessTokens.issue, at the end of the second factor's verification or   *)
(* of the work before a rotation.  Step-up's elevate, just before it, says *)
(* whether the session was still active and nobody looks at the answer.    *)
Sign(i) ==
  /\ issuer[i] = "checked"
  /\ issuer' = [issuer EXCEPT ![i] = "signed"]
  /\ draft' = [draft EXCEPT ![i] = now]
  /\ UNCHANGED <<now, session, issued, ending, listedAt, guard, bearer, waited, after>>

(* The token goes to the client; or it is dropped, when a refresh loses    *)
(* the rotation or a later step fails.                                     *)
HandOut(i) ==
  /\ issuer[i] = "signed"
  /\ issued' \in {issued, issued \cup {draft[i]}}
  /\ issuer' = [issuer EXCEPT ![i] = "idle"]
  /\ draft' = [draft EXCEPT ![i] = NoToken]
  /\ UNCHANGED <<now, session, ending, listedAt, guard, bearer, waited, after>>

-----------------------------------------------------------------------------
(* The session row is revoked: terminateSession's transaction, or          *)
(* sessions.revoke after revokeForReuse.                                   *)
RevokeSession ==
  /\ ending = "no"
  /\ session' = "revoked"
  /\ ending' = "revoked"
  /\ UNCHANGED <<now, issued, issuer, draft, listedAt, guard, bearer, waited, after>>

(* revocation.revoke for AccessTtl; an error is swallowed. *)
Blocklist ==
  /\ ending = "revoked"
  /\ ending' = "done"
  /\ listedAt' \in {now, Never}
  /\ UNCHANGED <<now, session, issued, issuer, draft, guard, bearer, waited, after>>

-----------------------------------------------------------------------------
(* JwtVerifier.verify: the token is not expired, give or take the skew. *)
Verifies(t) == t + AccessTtl + ClockSkew > now

MutListed == listedAt # Never /\ now < listedAt + AccessTtl - 1

(* isRevoked: the entry lives for AccessTtl. *)
Listed == listedAt # Never /\ now < listedAt + AccessTtl

(* AccessTokenGuard: verify first. *)
Verify(g, t) ==
  /\ guard[g] = "idle"
  /\ Verifies(t)
  /\ guard' = [guard EXCEPT ![g] = "verified"]
  /\ bearer' = [bearer EXCEPT ![g] = t]
  /\ after' = [after EXCEPT ![g] = ending = "done" /\ listedAt # Never]
  /\ UNCHANGED <<now, session, issued, issuer, draft, ending, listedAt, waited>>

(* Then the blocklist; a Redis error counts as listed. *)
CheckBlocklist(g) ==
  /\ guard[g] = "verified"
  /\ \/ guard' = [guard EXCEPT ![g] = "rejected"]
     \/ /\ ~Listed
        /\ guard' = [guard EXCEPT ![g] = "accepted"]
  /\ UNCHANGED <<now, session, issued, issuer, draft, ending, listedAt, bearer,
                 waited, after>>

EndRequest(g) ==
  /\ guard[g] \in {"accepted", "rejected"}
  /\ guard' = [guard EXCEPT ![g] = "idle"]
  /\ bearer' = [bearer EXCEPT ![g] = NoToken]
  /\ waited' = [waited EXCEPT ![g] = 0]
  /\ after' = [after EXCEPT ![g] = FALSE]
  /\ UNCHANGED <<now, session, issued, issuer, draft, ending, listedAt>>

Next ==
  \/ Tick
  \/ \E i \in Issuers : FindSession(i)
  \/ \E i \in Issuers : Sign(i)
  \/ \E i \in Issuers : HandOut(i)
  \/ RevokeSession
  \/ Blocklist
  \/ \E g \in Guards, t \in issued : Verify(g, t)
  \/ \E g \in Guards : CheckBlocklist(g)
  \/ \E g \in Guards : EndRequest(g)

Spec == Init /\ [][Next]_vars

-----------------------------------------------------------------------------
TypeOK ==
  /\ now \in 0 .. MaxTime
  /\ session \in {"active", "revoked"}
  /\ issued \subseteq 0 .. now
  /\ issuer \in [Issuers -> {"idle", "checked", "signed"}]
  /\ draft \in [Issuers -> 0 .. MaxTime \cup {NoToken}]
  /\ ending \in {"no", "revoked", "done"}
  /\ listedAt \in 0 .. MaxTime \cup {Never}
  /\ guard \in [Guards -> {"idle", "verified", "accepted", "rejected"}]
  /\ bearer \in [Guards -> 0 .. MaxTime \cup {NoToken}]
  /\ waited \in [Guards -> 0 .. GuardDelay]
  /\ after \in [Guards -> BOOLEAN]

(***************************************************************************)
(* What the blocklist guarantees: a request that begins after the          *)
(* revocation was done is accepted only with a token that was signed after *)
(* the sid was listed, or before it by less than the clock skew and the    *)
(* time between the guard's two checks.  Every older token stays rejected. *)
(***************************************************************************)
OlderTokensStayRevoked ==
  \A g \in Guards :
    (guard[g] = "accepted" /\ after[g]) =>
      bearer[g] + ClockSkew + waited[g] > listedAt
=============================================================================
