---------------------------- MODULE SigningKeys ----------------------------
(***************************************************************************)
(* The keys that sign access tokens: SigningKeyService rotates, promotes   *)
(* and retires versions of a Vault transit key, keeping which version is   *)
(* pinned and which are draining in one document of app_meta; the issuer   *)
(* resolves the active version and signs with it; JwksProvider caches the  *)
(* public keys for JwtVerifier and for /.well-known/jwks.json.             *)
(*                                                                         *)
(* Operators' commands, issuers and verifiers are split at their awaits.   *)
(* The document is read and written back whole, without a lock.            *)
(***************************************************************************)
EXTENDS Integers, FiniteSets, FiniteSetsExt

CONSTANTS
  Admins,       \* operators' commands that may run at once
  Issuers,      \* token issuances that may run at once
  Verifiers,    \* readers of the key set that may run at once
  AccessTtl,    \* ACCESS_TOKEN_TTL
  CacheTtl,     \* lifetime of the cached key set
  MinRefresh,   \* MIN_REFRESH_MS: least age at which an unknown kid reloads it
  Delay,        \* bound: ticks that a timed await may take
  MaxVersion,   \* bound: versions of the key
  MaxTokens,    \* bound: access tokens
  MaxTime,      \* bound: the last instant
  MaxDeaths     \* bound: commands that die

ASSUME SigningKeysAssumption ==
  /\ AccessTtl \in Nat \ {0} /\ CacheTtl \in Nat /\ MinRefresh \in Nat \ {0}
  /\ Delay \in Nat /\ MaxVersion \in Nat \ {0}
  /\ MaxTokens \in Nat /\ MaxTime \in Nat /\ MaxDeaths \in Nat

VARIABLES
  now,          \* the clock
  latest,       \* Vault: latest_version
  min,          \* Vault: min_decryption_version
  doc,          \* app_meta: pinned version and versions that drain
  tokens,       \* access tokens issued: version and iat
  cache,        \* the key set cached by the process, and when
  adm,          \* commands in progress
  iss,          \* issuances in progress
  ver,          \* readings of the key set in progress
  deaths,       \* commands that died
  born,         \* history: when a version was made
  promoted,     \* history: versions that a command has put in charge
  unpinned,     \* history: a rotation died before it pinned the old version
  lost          \* history: a write undid what another command had written

keyVars == <<now, latest, min, doc, tokens, cache, adm, iss, ver, deaths, born,
          promoted, unpinned, lost>>

vault == <<latest, min, born>>
keyHistory == <<promoted, unpinned, lost>>

NoPin == 0
Versions == 1 .. MaxVersion
Docs == [pinned : Versions \cup {NoPin},
         retiring : SUBSET [version : Versions, until : 0 .. MaxTime + AccessTtl]]
NoDoc == [pinned |-> NoPin, retiring |-> {}]
Tokens == [version : Versions, iat : 0 .. MaxTime]

Rest == [op |-> "none", step |-> "idle", version |-> NoPin, doc |-> NoDoc,
         at |-> 0, waited |-> 0]
Unissued == [step |-> "idle", version |-> NoPin, iat |-> 0, caught |-> FALSE]
Unread == [step |-> "idle", version |-> NoPin, keys |-> {}, at |-> 0,
           waited |-> 0]

KeyInit ==
  /\ now = 0
  /\ latest = 1 /\ min = 1
  /\ doc = NoDoc
  /\ tokens = {}
  /\ cache = [keys |-> {}, at |-> 0]
  /\ adm = [a \in Admins |-> Rest]
  /\ iss = [i \in Issuers |-> Unissued]
  /\ ver = [v \in Verifiers |-> Unread]
  /\ deaths = 0
  /\ born = [n \in {1} |-> 0]
  /\ promoted = {1}
  /\ unpinned = FALSE
  /\ lost = FALSE

(* Awaits that begin by reading the clock, or end by it. *)
Timed(p) == p.step \in {"promote", "stamp"}

KeyTick ==
  /\ now < MaxTime
  /\ \A a \in Admins : Timed(adm[a]) => adm[a].waited < Delay
  /\ \A v \in Verifiers : Timed(ver[v]) => ver[v].waited < Delay
  /\ now' = now + 1
  /\ adm' = [a \in Admins |-> IF Timed(adm[a]) THEN [adm[a] EXCEPT !.waited = @ + 1]
                             ELSE adm[a]]
  /\ ver' = [v \in Verifiers |-> IF Timed(ver[v]) THEN [ver[v] EXCEPT !.waited = @ + 1]
                                ELSE ver[v]]
  /\ UNCHANGED <<vault, doc, tokens, cache, iss, deaths, keyHistory>>

-----------------------------------------------------------------------------
Begin(a, op) ==
  /\ adm[a] = Rest
  /\ adm' = [adm EXCEPT ![a].op = op, ![a].step = "read"]
  /\ UNCHANGED <<now, vault, doc, tokens, cache, iss, ver, deaths, keyHistory>>

At(a, op, s) == adm[a].op = op /\ adm[a].step = s

EndCommand(a) == adm' = [adm EXCEPT ![a] = Rest]

Die(a) ==
  /\ adm[a] # Rest /\ deaths < MaxDeaths
  /\ deaths' = deaths + 1
  /\ unpinned' = (unpinned \/ adm[a].step \in {"reread", "pin"})
  /\ EndCommand(a)
  /\ UNCHANGED <<now, vault, doc, tokens, cache, iss, ver, promoted, lost>>

(* resolveActive, and previous in promote: the pinned version, or, in a    *)
(* request of its own, the latest version of the key in Vault.             *)
ReadState(a) ==
  /\ adm[a].op \in {"rotate", "promote"} /\ adm[a].step = "read"
  /\ adm' = [adm EXCEPT ![a].doc = doc, ![a].version = doc.pinned,
                        ![a].step = IF doc.pinned = NoPin THEN "latest" ELSE "go"]
  /\ UNCHANGED <<now, vault, doc, tokens, cache, iss, ver, deaths, keyHistory>>

ReadLatest(a) ==
  /\ adm[a].step = "latest"
  /\ adm' = [adm EXCEPT ![a].version = latest, ![a].step = "go"]
  /\ UNCHANGED <<now, vault, doc, tokens, cache, iss, ver, deaths, keyHistory>>

(* The version that tokens are signed with. *)
Active == IF doc.pinned # NoPin THEN doc.pinned ELSE latest

(* The command's last step: the document is written whole, whether or not  *)
(* it is still the one that was read.  A pin of a version that a promotion *)
(* or another pin has replaced undoes what that command had written.       *)
Write(a, d) ==
  /\ doc' = d
  /\ EndCommand(a)
  /\ lost' = (lost \/ doc # adm[a].doc
                  \/ /\ d.pinned # NoPin
                     /\ d.pinned < Max(promoted) \/ doc.pinned \notin {NoPin, d.pinned})

-----------------------------------------------------------------------------
(* rotate: Vault makes a version, which signs as long as none is pinned ... *)
RotateKey(a) ==
  /\ At(a, "rotate", "go") /\ latest < MaxVersion
  /\ latest' = latest + 1
  /\ born' = [n \in 1 .. latest' |-> IF n = latest' THEN now ELSE born[n]]
  /\ adm' = [adm EXCEPT ![a].step = "reread"]
  /\ iss' = [i \in Issuers |-> [iss[i] EXCEPT !.caught = @ \/ iss[i].step = "latest"]]
  /\ UNCHANGED <<now, min, doc, tokens, cache, ver, deaths, keyHistory>>

RotateReread(a) ==
  /\ At(a, "rotate", "reread")
  /\ adm' = [adm EXCEPT ![a].doc = doc, ![a].step = "pin"]
  /\ UNCHANGED <<now, vault, doc, tokens, cache, iss, ver, deaths, keyHistory>>

(* ... and the version that was active before is pinned. *)
Pinned(a) == [adm[a].doc EXCEPT !.pinned = adm[a].version]

RotatePin(a) ==
  /\ At(a, "rotate", "pin")
  /\ Write(a, Pinned(a))
  /\ UNCHANGED <<now, vault, tokens, cache, iss, ver, deaths, promoted, unpinned>>

-----------------------------------------------------------------------------
(* promote: nothing newer than the active version, or the clock is read.   *)
PromoteLatest(a) ==
  /\ At(a, "promote", "go")
  /\ adm' = [adm EXCEPT ![a].step = IF latest <= adm[a].version THEN "unpin" ELSE "promote",
                        ![a].at = now]
  /\ UNCHANGED <<now, vault, doc, tokens, cache, iss, ver, deaths, keyHistory>>

PromoteUnpin(a) ==
  /\ At(a, "promote", "unpin")
  /\ Write(a, [adm[a].doc EXCEPT !.pinned = NoPin])
  /\ UNCHANGED <<now, vault, tokens, cache, iss, ver, deaths, promoted, unpinned>>

MutDrainUntil(a) == adm[a].at

(* The lifetime of an access token from now on. *)
DrainUntil(a) == adm[a].at + AccessTtl

MutPromotedDoc(a) ==
  [pinned |-> adm[a].doc.pinned,
   retiring |-> {e \in adm[a].doc.retiring : e.version # adm[a].version}
                  \cup {[version |-> adm[a].version, until |-> DrainUntil(a)]}]

(* The latest version signs from now on, the previous one drains. *)
PromotedDoc(a) ==
  [pinned |-> NoPin,
   retiring |-> {e \in adm[a].doc.retiring : e.version # adm[a].version}
                  \cup {[version |-> adm[a].version, until |-> DrainUntil(a)]}]

PromoteWrite(a) ==
  /\ At(a, "promote", "promote")
  /\ Write(a, PromotedDoc(a))
  /\ promoted' = promoted \cup {latest}
  /\ UNCHANGED <<now, vault, tokens, cache, iss, ver, deaths, unpinned>>

-----------------------------------------------------------------------------
Drained(a) == {e \in adm[a].doc.retiring : e.until <= adm[a].at}

(* retire: the document, then the clock. *)
RetireRead(a) ==
  /\ At(a, "retire", "read")
  /\ LET read == [adm[a] EXCEPT !.doc = doc, !.at = now, !.step = "go"]
         any == \E e \in doc.retiring : e.until <= now
     IN adm' = [adm EXCEPT ![a] = IF any THEN read ELSE Rest]
  /\ UNCHANGED <<now, vault, doc, tokens, cache, iss, ver, deaths, keyHistory>>

(* Versions up to the newest drained one leave Vault; those that another   *)
(* command had removed come back ...                                       *)
RetireKeys(a) ==
  /\ At(a, "retire", "go")
  /\ min' = Max({e.version : e \in Drained(a)}) + 1
  /\ adm' = [adm EXCEPT ![a].step = "drop"]
  /\ lost' = (lost \/ min' < min)
  /\ UNCHANGED <<now, latest, born, doc, tokens, cache, iss, ver, deaths, promoted,
                 unpinned>>

(* ... and then the document. *)
RetireDrop(a) ==
  /\ At(a, "retire", "drop")
  /\ Write(a, [adm[a].doc EXCEPT !.retiring = @ \ Drained(a)])
  /\ UNCHANGED <<now, vault, tokens, cache, iss, ver, deaths, promoted, unpinned>>

-----------------------------------------------------------------------------
(* JwtAccessTokenIssuer.issue takes iat first ... *)
Issue(i) ==
  /\ iss[i] = Unissued /\ Cardinality(tokens) < MaxTokens
  /\ iss' = [iss EXCEPT ![i].step = "resolve", ![i].iat = now]
  /\ UNCHANGED <<now, vault, doc, tokens, cache, adm, ver, deaths, keyHistory>>

(* History: a version was made and the one before it is not pinned yet. *)
Unpinned == \E a \in Admins : adm[a].step \in {"reread", "pin"}

(* ... resolves the active version ... *)
Resolve(i) ==
  /\ \/ /\ iss[i].step = "resolve"
        /\ iss' = [iss EXCEPT ![i].version = doc.pinned,
                              ![i].step = IF doc.pinned = NoPin THEN "latest" ELSE "sign",
                              ![i].caught = Unpinned]
     \/ /\ iss[i].step = "latest"
        /\ iss' = [iss EXCEPT ![i].version = latest, ![i].step = "sign",
                              ![i].caught = @ \/ Unpinned]
  /\ UNCHANGED <<now, vault, doc, tokens, cache, adm, ver, deaths, keyHistory>>

(* ... and signs, which Vault refuses with a version that has left it. *)
Sign(i) ==
  /\ iss[i].step = "sign"
  /\ tokens' = IF iss[i].version < min THEN tokens
               ELSE tokens \cup {[version |-> iss[i].version, iat |-> iss[i].iat]}
  /\ iss' = [iss EXCEPT ![i] = Unissued]
  /\ UNCHANGED <<now, vault, doc, cache, adm, ver, deaths, keyHistory>>

-----------------------------------------------------------------------------
(* The cached key set is younger than the age; none is cached at first. *)
Younger(age) == cache.keys # {} /\ now - cache.at < age

MutRefreshAge == CacheTtl

RefreshAge == MinRefresh

(* JwksController.keys, when the cached key set is too old to be answered. *)
Keys(v) ==
  /\ ver[v] = Unread /\ ~Younger(CacheTtl)
  /\ ver' = [ver EXCEPT ![v].step = "load"]
  /\ UNCHANGED <<now, vault, doc, tokens, cache, adm, iss, deaths, keyHistory>>

(* JwtVerifier.verify looks for the kid in the cached key set.  A set that *)
(* is too old is loaded first; one that lacks the kid is loaded again if   *)
(* it is old enough for that, and else the kid is unknown.                 *)
VerifyToken(v, n) ==
  /\ ver[v] = Unread
  /\ \/ /\ ~Younger(CacheTtl)
        /\ ver' = [ver EXCEPT ![v].step = "load", ![v].version = n]
     \/ /\ Younger(CacheTtl) /\ n \notin cache.keys /\ ~Younger(RefreshAge)
        /\ ver' = [ver EXCEPT ![v].step = "load", ![v].version = n]
     \/ /\ Younger(CacheTtl) /\ n \notin cache.keys /\ Younger(RefreshAge)
        /\ ver' = [ver EXCEPT ![v].step = "rejected", ![v].version = n, ![v].at = now]
  /\ UNCHANGED <<now, vault, doc, tokens, cache, adm, iss, deaths, keyHistory>>

(* JwksProvider.load: Vault's versions ... *)
Load(v) ==
  /\ ver[v].step = "load"
  /\ ver' = [ver EXCEPT ![v].step = "stamp", ![v].keys = min .. latest]
  /\ UNCHANGED <<now, vault, doc, tokens, cache, adm, iss, deaths, keyHistory>>

(* ... cached under the time at which the answer arrived.  A kid that is   *)
(* missing in a set just loaded is not loaded again.                       *)
Stamp(v) ==
  /\ ver[v].step = "stamp"
  /\ cache' = [keys |-> ver[v].keys, at |-> now]
  /\ ver' = [ver EXCEPT ![v] = IF @.version \in @.keys \cup {NoPin} THEN Unread
                               ELSE [@ EXCEPT !.step = "rejected", !.keys = {},
                                              !.at = now, !.waited = 0]]
  /\ UNCHANGED <<now, vault, doc, tokens, adm, iss, deaths, keyHistory>>

Rejected(v) ==
  /\ ver[v].step = "rejected"
  /\ ver' = [ver EXCEPT ![v] = Unread]
  /\ UNCHANGED <<now, vault, doc, tokens, cache, adm, iss, deaths, keyHistory>>

-----------------------------------------------------------------------------
Rotate(a) ==
  \/ latest < MaxVersion /\ Begin(a, "rotate")
  \/ RotateKey(a) \/ RotateReread(a) \/ RotatePin(a)

Promote(a) ==
  \/ Begin(a, "promote")
  \/ PromoteLatest(a) \/ PromoteUnpin(a) \/ PromoteWrite(a)

Retire(a) ==
  \/ Begin(a, "retire")
  \/ RetireRead(a) \/ RetireKeys(a) \/ RetireDrop(a)

KeyNext ==
  \/ \E a \in Admins : ReadState(a) \/ ReadLatest(a) \/ Die(a)
  \/ \E a \in Admins : Rotate(a) \/ Promote(a) \/ Retire(a)
  \/ \E i \in Issuers : Issue(i) \/ Resolve(i) \/ Sign(i)
  \/ \E v \in Verifiers, t \in tokens : VerifyToken(v, t.version)
  \/ \E v \in Verifiers : Keys(v) \/ Load(v) \/ Stamp(v) \/ Rejected(v)
  \/ KeyTick

KeySpec == KeyInit /\ [][KeyNext]_keyVars

-----------------------------------------------------------------------------
KeyTypeOK ==
  /\ now \in 0 .. MaxTime
  /\ latest \in Versions /\ min \in 1 .. MaxVersion + 1
  /\ doc \in Docs
  /\ tokens \subseteq Tokens
  /\ cache.keys \subseteq Versions /\ cache.at \in 0 .. MaxTime
  /\ \A a \in Admins : adm[a].doc \in Docs /\ adm[a].waited \in 0 .. Delay
  /\ \A i \in Issuers : iss[i].version \in Versions \cup {NoPin}
  /\ \A v \in Verifiers : ver[v].keys \subseteq Versions /\ ver[v].waited \in 0 .. Delay
  /\ born \in [1 .. latest -> 0 .. MaxTime]
  /\ promoted \subseteq Versions

(***************************************************************************)
(* retire-after-drain: a version leaves Vault's key set only once its      *)
(* tokens have expired.  A token that takes its iat while promote writes   *)
(* the document outlives the drain by that delay.  Commands may overlap;   *)
(* one that writes back a document it read before another wrote, or pins a *)
(* version that a promotion or another pin has replaced, voids the promise.*)
(***************************************************************************)
RetireAfterDrain ==
  ~lost =>
    \A t \in tokens : t.version < min => t.iat + AccessTtl <= now + Delay

(***************************************************************************)
(* Commands that die anywhere never leave the service without a key to     *)
(* sign with: the version that resolveActive gives is in Vault.            *)
(***************************************************************************)
ActiveKeyIsLive ==
  ~lost => Active >= min

(***************************************************************************)
(* publish-before-sign: a version signs tokens only after a promotion.     *)
(* The exception is an issuance that meets a rotation between the creation *)
(* of the version and the write of the pin, or comes after a rotation that *)
(* died there.                                                             *)
(***************************************************************************)
PublishBeforeSign ==
  \A i \in Issuers :
    iss[i].step = "sign" =>
      iss[i].version \in promoted \/ iss[i].caught \/ unpinned \/ lost

(***************************************************************************)
(* A token whose key is in Vault is rejected as unknown_kid only while the *)
(* key is younger than the refresh interval and the time a load may take,  *)
(* which the cache's time stamp leaves out.                                *)
(***************************************************************************)
NewKeysAreFound ==
  \A v \in Verifiers :
    (ver[v].step = "rejected" /\ ver[v].version >= min /\ ~lost) =>
      ver[v].at < born[ver[v].version] + MinRefresh + Delay

(***************************************************************************)
(* A key is published for as long as tokens name it: from before the first *)
(* one is signed until the last one has expired.                           *)
(***************************************************************************)
KeysOutliveTheirTokens == PublishBeforeSign /\ RetireAfterDrain
=============================================================================
