------------------------- MODULE WatchStreamProofs -------------------------
(***************************************************************************)
(* Proofs about WatchStream: whatever connections break, and whatever is   *)
(* committed between the reads of a stream, the id that a consumer holds   *)
(* covers every change before it.                                          *)
(*                                                                         *)
(* The strengthening follows a change from the changelog to the consumer:  *)
(* the page of a stream covers what is after its cursor, the events in     *)
(* flight cover what is up to their ids, and a change that is committed    *)
(* later is newer than every id that was handed out.                       *)
(***************************************************************************)
EXTENDS WatchStream, RevisionStoreProofs

(* A revision that was handed out is committed, or the consumer brought it. *)
Known(k, r) == r <= db.current \/ r <= joined[k]

IdsKnown(k) ==
  /\ high[k] <= db.current
  /\ joined[k] # NoId =>
       /\ Known(k, cursor[k])
       /\ lastId[k] # NoId => Known(k, lastId[k])
       /\ \A i \in 1 .. Len(wire[k]) : Known(k, wire[k][i].id)

(* A stream belongs to a connection. *)
Connected(k) ==
  /\ at[k] # "off" => joined[k] # NoId
  /\ at[k] = "off" => wire[k] = <<>> /\ cursor[k] = 0

(* The page of a stream is what follows its cursor, and nothing between    *)
(* them; a page that is not full goes up to the revision read before it.   *)
PageCovers(k) ==
  at[k] = "emit" =>
    /\ \A r \in page[k] : r \in Changes /\ r > cursor[k]
    /\ \A r \in Changes : r > cursor[k] =>
         \/ r \in page[k]
         \/ /\ \A s \in page[k] : s < r
            /\ full[k] \/ r > high[k]

Sent(k, r, n) == \E j \in 1 .. n : wire[k][j] = [kind |-> "change", id |-> r]

(* An event in flight covers the changes up to its id with those before it. *)
WireCovers(k) ==
  joined[k] # NoId =>
    \A i \in 1 .. Len(wire[k]) : \A r \in Changes :
      joined[k] < r /\ r <= wire[k][i].id => r \in got[k] \/ Sent(k, r, i)

(* What the consumer holds, and what the stream is past. *)
ConsumerCovers(k) ==
  joined[k] # NoId =>
    /\ lastId[k] # NoId =>
         \A r \in Changes : joined[k] < r /\ r <= lastId[k] => r \in got[k]
    /\ \A r \in Changes : joined[k] < r /\ r <= cursor[k] =>
         r \in got[k] \/ Sent(k, r, Len(wire[k]))

ConsumerInv(k) ==
  /\ IdsKnown(k)
  /\ Connected(k)
  /\ PageCovers(k)
  /\ WireCovers(k)
  /\ ConsumerCovers(k)

WatchInv ==
  /\ StoreInv
  /\ RowsStamped
  /\ WatchTypeOK
  /\ \A k \in Consumers : ConsumerInv(k)

-----------------------------------------------------------------------------
(* The changes of the organization carry committed revisions. *)
LEMMA ChangesCommitted ==
  ASSUME StoreInv, RowsStamped
  PROVE  db.current \in Nat /\ Changes \in SUBSET (0 .. db.current)
<1>1. db \in Database /\ db.current \in Nat
  BY DEF StoreInv, StoreTypeOK, Database
<1>2. \A c \in db.changelog : c.rev \in 0 .. db.current
  BY <1>1 DEF Database, Change, RowsStamped
<1> QED  BY <1>1, <1>2 DEF Changes

(* A change that is committed later is newer than every revision before. *)
LEMMA ChangesGrow ==
  ASSUME StoreInv, RowsStamped, [StoreNext]_storeVars
  PROVE  /\ db'.current >= db.current /\ db'.current \in Nat
         /\ Changes \subseteq Changes' /\ Changes' \subseteq Nat
         /\ \A r \in Changes' \ Changes : r > db.current
<1>1. /\ db'.current >= db.current
      /\ db.changelog \subseteq db'.changelog
      /\ \A c \in db'.changelog \ db.changelog : c.rev > db.current
  BY RowsMove
<1>2. db' \in Database /\ db'.current \in Nat
  BY StoreInvNext DEF StoreInv, StoreTypeOK, Database
<1>3. \A c \in db'.changelog : c.rev \in Nat  BY <1>2 DEF Database, Change
<1> QED  BY <1>1, <1>2, <1>3 DEF Changes

(***************************************************************************)
(* A page is a beginning of what follows the cursor, and all of it when it *)
(* is not full.                                                            *)
(***************************************************************************)
LEMMA SincePage ==
  ASSUME StoreInv, RowsStamped, NEW after \in Nat
  PROVE  /\ Since(after) \subseteq {r \in Changes : r > after}
         /\ \A r \in Changes : r > after =>
              r \in Since(after) \/ \A s \in Since(after) : s < r
         /\ Cardinality(Since(after)) # PageSize =>
              Since(after) = {r \in Changes : r > after}
<1> DEFINE later == {r \in Changes : r > after}
           Below(r) == {s \in later : s < r}
           first == {r \in later : Cardinality(Below(r)) < PageSize}
<1>1. Since(after) = first  BY DEF Since
<1>2. db.current \in Nat /\ later \in SUBSET (0 .. db.current)
  BY ChangesCommitted
<1>3. IsFiniteSet(0 .. db.current)  BY <1>2, FS_Interval
<1> HIDE DEF later
<1>4. IsFiniteSet(later)  BY <1>2, <1>3, FS_Subset
<1>5. \A r : IsFiniteSet(Below(r)) /\ Cardinality(Below(r)) \in Nat
  <2> SUFFICES ASSUME NEW r PROVE IsFiniteSet(Below(r)) /\ Cardinality(Below(r)) \in Nat
    OBVIOUS
  <2>1. Below(r) \subseteq later  OBVIOUS
  <2> HIDE DEF Below
  <2> QED  BY <1>4, <2>1, FS_Subset, FS_CardinalityType
<1>6. PageSize \in Nat /\ PageSize # 0  BY WatchAssumption
<1>7. ASSUME NEW r \in later, r \notin first, NEW s \in first PROVE s < r
  <2>1. CASE r <= s
    <3>0. r \in Nat /\ s \in Nat /\ later \subseteq Nat  BY <1>2
    <3>1. \A x \in Nat : x < r => x < s  BY <2>1, <3>0
    <3>4. Below(r) \subseteq Below(s)  BY <3>0, <3>1, Zenon
    <3>2. Cardinality(Below(r)) >= PageSize /\ Cardinality(Below(s)) < PageSize
      BY <1>5, <1>6, <1>7
    <3> HIDE DEF Below
    <3>3. Cardinality(Below(r)) <= Cardinality(Below(s))
      BY <1>5, <3>4, FS_Subset
    <3> QED  BY <1>5, <1>6, <3>2, <3>3
  <2> QED  BY <1>2, <1>7, <2>1
<1>8. ASSUME Cardinality(first) # PageSize, first # later PROVE FALSE
  <2>1. later \ first \in SUBSET Nat /\ later \ first # {}
    <3>1. first \subseteq later /\ later \subseteq Nat  BY <1>2
    <3> HIDE DEF first
    <3> QED  BY <1>8, <3>1
  <2>2. PICK r \in later \ first : \A s \in later \ first : r <= s
    <3> HIDE DEF first
    <3> QED  BY <2>1, LeastElement
  <2>3. first = Below(r)
    <3>1. \A s \in first : s \in Below(r)  BY <1>7, <2>2
    <3>2. \A s \in Below(r) : s \in first  BY <1>2, <2>2
    <3> QED  BY <3>1, <3>2
  <2>4. Cardinality(first) >= PageSize
    <3>1. ~(Cardinality(Below(r)) < PageSize)  BY <2>2
    <3> HIDE DEF first, Below
    <3> QED  BY <1>5, <1>6, <2>3, <3>1
  <2>5. first \in SUBSET (0 .. db.current) /\ first # {}
    <3>1. first # {}
      <4>1. Cardinality({}) = 0  BY FS_EmptySet
      <4> HIDE DEF first
      <4> QED  BY <1>6, <2>4, <4>1
    <3> QED  BY <1>2, <3>1
  <2>6. PICK m \in first : \A s \in first : s <= m
    <3> HIDE DEF first
    <3> QED  BY <1>2, <2>5, GreatestElement
  <2>7. first = Below(m) \cup {m}
    <3>1. \A s \in first : s \in Below(m) \/ s = m  BY <1>2, <2>6
    <3>2. \A s \in Below(m) : s \in first
      <4> SUFFICES ASSUME NEW s \in Below(m) PROVE s \in Below(r)  BY <2>3
      <4>1. m < r /\ s < m /\ s \in later  BY <2>3, <2>6
      <4> QED  BY <1>2, <2>2, <4>1
    <3> QED  BY <2>6, <3>1, <3>2
  <2>8. m \notin Below(m)  BY <1>2
  <2>9. Cardinality(Below(m) \cup {m}) = Cardinality(Below(m)) + 1
    <3> HIDE DEF Below
    <3> QED  BY <1>5, <2>8, FS_AddElement
  <2>10. Cardinality(Below(m)) < PageSize  BY <2>6
  <2>11. Cardinality(first) <= PageSize
    <3> HIDE DEF first, Below
    <3> QED  BY <1>5, <1>6, <2>7, <2>9, <2>10
  <2>12. Cardinality(first) \in Nat
    <3> HIDE DEF first, Below
    <3> QED  BY <1>5, <2>3
  <2> HIDE DEF first
  <2> QED  BY <1>6, <1>8, <2>4, <2>11, <2>12
<1> HIDE DEF first
<1>9. Since(after) \subseteq later  BY <1>1 DEF first
<1>10. \A r \in Changes : r > after => r \in first \/ \A s \in first : s < r
  BY <1>7 DEF later
<1> QED  BY <1>1, <1>8, <1>9, <1>10 DEF later

-----------------------------------------------------------------------------
(* Initially nobody is connected. *)
LEMMA WatchInvInit == ASSUME Init PROVE WatchInv
<1>1. StoreInv /\ RowsStamped  BY StoreInvInit, RowsStampedInit DEF Init
<1>2. db.current \in Nat  BY <1>1, ChangesCommitted
<1>3. WatchTypeOK
  <2>1. lastId \in [Consumers -> Nat \cup {NoId}]
    BY WatchAssumption DEF Init, WatchInit
  <2>2. wire \in [Consumers -> Seq(Event)]
    <3>1. <<>> \in Seq(Event)  OBVIOUS
    <3> QED  BY <3>1 DEF Init, WatchInit
  <2>3. breaks \in 0 .. MaxBreaks  BY WatchAssumption DEF Init, WatchInit
  <2> QED  BY <2>1, <2>2, <2>3 DEF Init, WatchInit, WatchTypeOK
<1>4. ASSUME NEW k \in Consumers PROVE ConsumerInv(k)
  BY <1>2 DEF Init, WatchInit, ConsumerInv, IdsKnown, Connected, PageCovers, WireCovers,
              ConsumerCovers
<1> QED  BY <1>1, <1>3, <1>4 DEF WatchInv

(* Types of one consumer. *)
LEMMA ConsumerTypes ==
  ASSUME WatchTypeOK, NEW k \in Consumers
  PROVE  /\ cursor[k] \in Nat /\ high[k] \in Nat /\ page[k] \in SUBSET Nat
         /\ wire[k] \in Seq(Event) /\ Len(wire[k]) \in Nat
         /\ \A i \in 1 .. Len(wire[k]) : wire[k][i] \in Event /\ wire[k][i].id \in Nat
         /\ lastId[k] # NoId => lastId[k] \in Nat
         /\ joined[k] # NoId => joined[k] \in Nat
         /\ NoId \notin Nat
<1>1. /\ cursor[k] \in Nat /\ high[k] \in Nat /\ page[k] \in SUBSET Nat
      /\ wire[k] \in Seq(Event)
      /\ lastId[k] # NoId => lastId[k] \in Nat
      /\ joined[k] # NoId => joined[k] \in Nat
  BY DEF WatchTypeOK
<1>2. \A i \in 1 .. Len(wire[k]) : wire[k][i] \in Event  BY <1>1
<1>3. \A e \in Event : e.id \in Nat  BY DEF Event
<1> QED  BY <1>1, <1>2, <1>3, WatchAssumption

(* A write of the store keeps what holds of a consumer: its change is newer *)
(* than whatever the consumer was handed.                                  *)
LEMMA WritesKeep ==
  ASSUME WatchInv, [StoreNext]_storeVars, UNCHANGED watchVars, NEW k \in Consumers
  PROVE  ConsumerInv(k)'
<1>1. /\ db.current \in Nat /\ db'.current \in Nat /\ db'.current >= db.current
      /\ Changes \subseteq Changes' /\ Changes' \subseteq Nat
      /\ \A r \in Changes' \ Changes : r > db.current
      /\ Changes \in SUBSET (0 .. db.current)
  BY ChangesCommitted, ChangesGrow DEF WatchInv
<1>2. /\ cursor[k] \in Nat /\ high[k] \in Nat /\ page[k] \in SUBSET Nat
      /\ \A i \in 1 .. Len(wire[k]) : wire[k][i].id \in Nat
      /\ lastId[k] # NoId => lastId[k] \in Nat
      /\ joined[k] # NoId => joined[k] \in Nat
  BY ConsumerTypes DEF WatchInv
<1>3. ConsumerInv(k)  BY DEF WatchInv
<1>4. IdsKnown(k)'
  BY <1>1, <1>2, <1>3 DEF ConsumerInv, IdsKnown, Known, watchVars
<1>5. Connected(k)'  BY <1>3 DEF ConsumerInv, Connected, watchVars
<1>6. PageCovers(k)'
  <2>1. CASE at[k] = "emit"
    <3>1. /\ \A r \in page[k] : r \in Changes /\ r > cursor[k]
          /\ \A r \in Changes : r > cursor[k] =>
               \/ r \in page[k]
               \/ /\ \A s \in page[k] : s < r
                  /\ full[k] \/ r > high[k]
          /\ high[k] <= db.current
      BY <1>3, <2>1 DEF ConsumerInv, PageCovers, IdsKnown
    <3>2. \A s \in page[k] : s \in Nat /\ s <= db.current
      <4>1. \A s \in Changes : s \in Nat /\ s <= db.current  BY <1>1
      <4> QED  BY <3>1, <4>1
    <3>3. ASSUME NEW r \in Changes' \ Changes
          PROVE  (\A s \in page[k] : s < r) /\ r > high[k]
      <4>1. r \in Nat /\ r > db.current  BY <1>1
      <4> QED  BY <1>1, <1>2, <3>1, <3>2, <4>1
    <3> QED  BY <1>1, <3>1, <3>3 DEF PageCovers, watchVars
  <2> QED  BY <2>1 DEF PageCovers, watchVars
<1>7. WireCovers(k)'
  <2> SUFFICES ASSUME joined[k] # NoId, NEW i \in 1 .. Len(wire[k]), NEW r \in Changes',
                      joined[k] < r, r <= wire[k][i].id
               PROVE  r \in got[k] \/ Sent(k, r, i)
    BY DEF WireCovers, Sent, watchVars
  <2>1. Known(k, wire[k][i].id)  BY <1>3 DEF ConsumerInv, IdsKnown
  <2>2. r \in Changes
    <3>1. r \in Nat /\ wire[k][i].id \in Nat /\ joined[k] \in Nat  BY <1>1, <1>2
    <3>2. ~(r > db.current)  BY <1>1, <2>1, <3>1 DEF Known
    <3> QED  BY <1>1, <3>2
  <2> QED  BY <1>3, <2>2 DEF ConsumerInv, WireCovers
<1>8. ConsumerCovers(k)'
  BY <1>1, <1>2, <1>3
     DEF ConsumerInv, ConsumerCovers, IdsKnown, Known, Sent, watchVars
<1> QED  BY <1>4, <1>5, <1>6, <1>7, <1>8 DEF ConsumerInv

(* A consumer that does not move, while nothing is written, keeps it too. *)
LEMMA OthersKeep ==
  ASSUME NEW k \in Consumers, ConsumerInv(k), db' = db,
         at'[k] = at[k], cursor'[k] = cursor[k], high'[k] = high[k], page'[k] = page[k],
         full'[k] = full[k], wire'[k] = wire[k], lastId'[k] = lastId[k],
         got'[k] = got[k], joined'[k] = joined[k]
  PROVE  ConsumerInv(k)'
<1>1. Changes' = Changes  BY DEF Changes
<1>2. IdsKnown(k)'  BY DEF ConsumerInv, IdsKnown, Known
<1>3. Connected(k)'  BY DEF ConsumerInv, Connected
<1>4. PageCovers(k)'  BY <1>1 DEF ConsumerInv, PageCovers
<1>5. WireCovers(k)'  BY <1>1 DEF ConsumerInv, WireCovers, Sent
<1>6. ConsumerCovers(k)'  BY <1>1 DEF ConsumerInv, ConsumerCovers, Sent
<1> QED  BY <1>2, <1>3, <1>4, <1>5, <1>6 DEF ConsumerInv

(* The consumer connects where its last id, or the store, is. *)
LEMMA ConnectKeeps ==
  ASSUME WatchInv, UNCHANGED storeVars, NEW k \in Consumers, Connect(k)
  PROVE  WatchTypeOK' /\ ConsumerInv(k)'
<1>1. db.current \in Nat /\ Changes' = Changes /\ db' = db
      /\ Changes \in SUBSET (0 .. db.current)
  BY ChangesCommitted DEF WatchInv, Changes, storeVars
<1>2. ConsumerInv(k) /\ WatchTypeOK  BY DEF WatchInv
<1>3. /\ lastId[k] # NoId => lastId[k] \in Nat
      /\ joined[k] # NoId => joined[k] \in Nat
      /\ high[k] \in Nat /\ NoId \notin Nat
  BY <1>2, ConsumerTypes
<1>4. ResumeAt(k) \in Nat  BY <1>1, <1>3 DEF ResumeAt
<1>5. /\ at[k] = "off" /\ at'[k] = "open"
      /\ cursor'[k] = ResumeAt(k)
      /\ joined'[k] = IF joined[k] = NoId \/ lastId[k] = NoId THEN ResumeAt(k) ELSE joined[k]
      /\ UNCHANGED <<high, page, full, wire, lastId, got, breaks>>
  BY <1>2 DEF Connect, WatchTypeOK
<1>6. WatchTypeOK'
  <2>1. /\ cursor' \in [Consumers -> Nat]
        /\ at' \in [Consumers -> {"off", "open", "high", "page", "emit"}]
    BY <1>2, <1>4 DEF Connect, WatchTypeOK
  <2>2. joined' \in [Consumers -> Nat \cup {NoId}]
    BY <1>2, <1>4, <1>5 DEF Connect, WatchTypeOK
  <2> QED  BY <1>2, <1>5, <2>1, <2>2 DEF WatchTypeOK
<1>7. wire[k] = <<>> /\ Len(wire[k]) = 0  BY <1>2, <1>5 DEF ConsumerInv, Connected
<1>8. IdsKnown(k)'
  BY <1>1, <1>2, <1>3, <1>4, <1>5, <1>7 DEF ConsumerInv, IdsKnown, Known, ResumeAt
<1>9. Connected(k)'  BY <1>3, <1>4, <1>5 DEF Connected
<1>10. PageCovers(k)' /\ WireCovers(k)'
  BY <1>5, <1>7 DEF PageCovers, WireCovers
<1>11. ConsumerCovers(k)'
  <2>1. CASE lastId[k] = NoId
    <3>1. lastId'[k] = NoId /\ joined'[k] = cursor'[k] /\ cursor'[k] \in Nat
      BY <1>4, <1>5, <2>1
    <3>2. \A r \in Changes' : r \in Nat  BY <1>1
    <3>3. \A r \in Changes' : ~(joined'[k] < r /\ r <= cursor'[k])
      BY <3>1, <3>2
    <3> QED  BY <3>1, <3>3 DEF ConsumerCovers
  <2>2. CASE lastId[k] # NoId /\ joined[k] = NoId
    BY <1>1, <1>3, <1>4, <1>5, <2>2 DEF ConsumerCovers, ResumeAt
  <2>3. CASE lastId[k] # NoId /\ joined[k] # NoId
    <3>1. /\ cursor'[k] = lastId[k] /\ joined'[k] = joined[k] /\ lastId' = lastId
          /\ got' = got
      BY <1>5, <2>3 DEF ResumeAt
    <3>2. \A r \in Changes : joined[k] < r /\ r <= lastId[k] => r \in got[k]
      BY <1>2, <2>3 DEF ConsumerInv, ConsumerCovers
    <3> QED  BY <1>1, <3>1, <3>2 DEF ConsumerCovers
  <2> QED  BY <2>1, <2>2, <2>3
<1> QED  BY <1>6, <1>8, <1>9, <1>10, <1>11 DEF ConsumerInv

(* The stream reads the revision, and then its page. *)
LEMMA ReadsKeep ==
  ASSUME WatchInv, UNCHANGED storeVars, NEW k \in Consumers,
         ReadHigh(k) \/ ReadPage(k) \/ EndPage(k)
  PROVE  WatchTypeOK' /\ ConsumerInv(k)'
<1>1. db.current \in Nat /\ Changes' = Changes /\ db' = db
      /\ Changes \in SUBSET (0 .. db.current)
  BY ChangesCommitted DEF WatchInv, Changes, storeVars
<1>2. ConsumerInv(k) /\ WatchTypeOK  BY DEF WatchInv
<1>3. cursor[k] \in Nat /\ high[k] \in Nat  BY <1>2, ConsumerTypes
<1>4. CASE ReadHigh(k)
  <2>1. /\ at[k] # "off" /\ at'[k] = "page" /\ high'[k] = db.current
        /\ UNCHANGED <<cursor, page, full, wire, lastId, got, joined, breaks>>
    BY <1>2, <1>4 DEF ReadHigh, WatchTypeOK
  <2>2. WatchTypeOK'  BY <1>1, <1>2, <1>4 DEF ReadHigh, WatchTypeOK
  <2>3. ConsumerInv(k)'
    BY <1>1, <1>2, <2>1
       DEF ConsumerInv, IdsKnown, Known, Connected, PageCovers, WireCovers,
           ConsumerCovers, Sent
  <2> QED  BY <2>2, <2>3
<1>5. CASE ReadPage(k)
  <2>1. /\ at[k] # "off" /\ at'[k] = "emit" /\ page'[k] = Since(cursor[k])
        /\ full'[k] = (Cardinality(Since(cursor[k])) = PageSize)
        /\ UNCHANGED <<cursor, high, wire, lastId, got, joined, breaks>>
    BY <1>2, <1>5 DEF ReadPage, WatchTypeOK
  <2>2. /\ Since(cursor[k]) \subseteq {r \in Changes : r > cursor[k]}
        /\ \A r \in Changes : r > cursor[k] =>
              r \in Since(cursor[k]) \/ \A s \in Since(cursor[k]) : s < r
        /\ Cardinality(Since(cursor[k])) # PageSize =>
              Since(cursor[k]) = {r \in Changes : r > cursor[k]}
    BY <1>3, SincePage DEF WatchInv
  <2>3. WatchTypeOK'
    <3>1. Since(cursor[k]) \in SUBSET Nat
      <4>1. Changes \subseteq Nat  BY <1>1
      <4> QED  BY <2>2, <4>1
    <3>2. page' \in [Consumers -> SUBSET Nat]
      BY <1>2, <1>5, <3>1 DEF ReadPage, WatchTypeOK
    <3>3. full' \in [Consumers -> BOOLEAN]
      BY <1>2, <1>5 DEF ReadPage, WatchTypeOK
    <3>4. at' \in [Consumers -> {"off", "open", "high", "page", "emit"}]
      BY <1>2, <1>5 DEF ReadPage, WatchTypeOK
    <3> QED  BY <1>2, <2>1, <3>2, <3>3, <3>4 DEF WatchTypeOK
  <2>4. PageCovers(k)'
    <3> DEFINE S == Since(cursor[k])
    <3>1. /\ page'[k] = S /\ cursor'[k] = cursor[k]
          /\ full'[k] \/ S = {r \in Changes : r > cursor[k]}
      BY <2>1, <2>2
    <3> HIDE DEF S
    <3>2. \A r \in S : r \in Changes /\ r > cursor[k]  BY <2>2 DEF S
    <3>3. \A r \in Changes : r > cursor[k] => r \in S \/ \A s \in S : s < r
      BY <2>2 DEF S
    <3> QED  BY <1>1, <3>1, <3>2, <3>3 DEF PageCovers
  <2>5. IdsKnown(k)' /\ Connected(k)' /\ WireCovers(k)' /\ ConsumerCovers(k)'
    BY <1>1, <1>2, <2>1
       DEF ConsumerInv, IdsKnown, Known, Connected, WireCovers, ConsumerCovers, Sent
  <2> QED  BY <2>3, <2>4, <2>5 DEF ConsumerInv
<1>6. CASE EndPage(k)
  <2>1. /\ at[k] # "off" /\ at'[k] = "high"
        /\ UNCHANGED <<cursor, high, page, full, wire, lastId, got, joined, breaks>>
    BY <1>2, <1>6 DEF EndPage, WatchTypeOK
  <2>2. WatchTypeOK'  BY <1>2, <1>6 DEF EndPage, WatchTypeOK
  <2>3. ConsumerInv(k)'
    BY <1>1, <1>2, <2>1
       DEF ConsumerInv, IdsKnown, Known, Connected, PageCovers, WireCovers,
           ConsumerCovers, Sent
  <2> QED  BY <2>2, <2>3
<1> QED  BY <1>4, <1>5, <1>6

(* An event goes to the wire: a change, or a heartbeat after the page. *)
LEMMA SendKeeps ==
  ASSUME WatchInv, UNCHANGED storeVars, NEW k \in Consumers, NEW id \in Nat,
         NEW kind \in {"change", "heartbeat"},
         at[k] = "emit",
         cursor' = [cursor EXCEPT ![k] = id],
         wire' = [wire EXCEPT ![k] = Append(wire[k], [kind |-> kind, id |-> id])],
         UNCHANGED <<high, full, lastId, got, joined, breaks>>,
         id <= db.current \/ id = cursor[k], id >= cursor[k],
         \A r \in Changes : cursor[k] < r /\ r <= id => r = id /\ kind = "change",
         at' \in [Consumers -> {"off", "open", "high", "page", "emit"}],
         page' \in [Consumers -> SUBSET Nat], at'[k] # "off",
         PageCovers(k)'
  PROVE  WatchTypeOK' /\ ConsumerInv(k)'
<1> DEFINE e == [kind |-> kind, id |-> id]
           n == Len(wire[k])
<1>1. db.current \in Nat /\ Changes' = Changes /\ db' = db
      /\ Changes \in SUBSET (0 .. db.current)
  BY ChangesCommitted DEF WatchInv, Changes, storeVars
<1>2. ConsumerInv(k) /\ WatchTypeOK  BY DEF WatchInv
<1>3. /\ cursor[k] \in Nat /\ wire[k] \in Seq(Event) /\ n \in Nat
      /\ \A i \in 1 .. n : wire[k][i].id \in Nat
      /\ joined[k] # NoId => joined[k] \in Nat
  BY <1>2, ConsumerTypes
<1>3a. n \in Nat /\ cursor[k] \in Nat  BY <1>3
<1>4. e \in Event /\ e.id = id /\ e.kind = kind  BY DEF Event
<1>5. cursor'[k] = id /\ cursor' \in [Consumers -> Nat]
      /\ wire'[k] = Append(wire[k], e) /\ wire' \in [Consumers -> Seq(Event)]
  BY <1>2, <1>3, <1>4 DEF WatchTypeOK
<1> HIDE DEF e
<1>6. /\ Len(wire'[k]) = n + 1
      /\ \A i \in 1 .. n : wire'[k][i] = wire[k][i]
      /\ wire'[k][n + 1] = e
  BY <1>3, <1>4, <1>5
<1>7. joined[k] # NoId /\ joined'[k] = joined[k] /\ joined[k] \in Nat
      /\ got'[k] = got[k] /\ lastId'[k] = lastId[k] /\ high'[k] = high[k]
  BY <1>2, <1>3 DEF ConsumerInv, Connected
<1>8. WatchTypeOK'  BY <1>2, <1>5 DEF WatchTypeOK
<1> HIDE DEF n
<1>9. IdsKnown(k)'
  <2>1. /\ Known(k, cursor[k])
        /\ lastId[k] # NoId => Known(k, lastId[k])
        /\ \A i \in 1 .. n : Known(k, wire[k][i].id)
        /\ high[k] <= db.current
    BY <1>2, <1>7 DEF ConsumerInv, IdsKnown, n
  <2>2. Known(k, id)  BY <1>1, <2>1 DEF Known
  <2>3. \A i \in 1 .. n + 1 : Known(k, wire'[k][i].id)
    BY <1>3, <1>4, <1>6, <2>1, <2>2
  <2> QED  BY <1>1, <1>5, <1>6, <1>7, <2>1, <2>2, <2>3 DEF IdsKnown, Known
<1>10. Connected(k)'  BY <1>7 DEF Connected
<1>11. ASSUME NEW r \in Changes, joined[k] < r, r <= id
       PROVE  r \in got[k] \/ \E j \in 1 .. n + 1 :
                                  wire'[k][j] = [kind |-> "change", id |-> r]
  <2>1. CASE r <= cursor[k]
    <3>1. r \in got[k] \/ Sent(k, r, n)
      BY <1>2, <1>7, <1>11, <2>1 DEF ConsumerInv, ConsumerCovers, n
    <3> QED  BY <1>3, <1>6, <3>1 DEF Sent
  <2>2. CASE cursor[k] < r
    <3>1. r = id /\ kind = "change"  BY <1>11, <2>2
    <3> QED  BY <1>3, <1>6, <3>1 DEF e
  <2>3. r \in Nat  BY <1>1
  <2>4. r <= cursor[k] \/ cursor[k] < r  BY <1>3a, <2>3
  <2> QED  BY <2>1, <2>2, <2>4
<1>12. ASSUME NEW i \in 1 .. n + 1, NEW r \in Changes,
              joined[k] < r, r <= wire'[k][i].id
       PROVE  r \in got[k] \/ \E j \in 1 .. i :
                                  wire'[k][j] = [kind |-> "change", id |-> r]
  <2>0. i = n + 1 \/ i \in 1 .. n  BY <1>3a
  <2>1. CASE i = n + 1  BY <1>4, <1>6, <1>11, <1>12, <2>1
  <2>2. CASE i \in 1 .. n
    <3>1. r \in got[k] \/ Sent(k, r, i)
      BY <1>2, <1>6, <1>7, <1>12, <2>2 DEF ConsumerInv, WireCovers, n
    <3> QED  BY <1>3a, <1>6, <2>2, <3>1 DEF Sent
  <2> QED  BY <2>0, <2>1, <2>2
<1>13. ConsumerCovers(k)'
  <2>1. lastId[k] # NoId =>
          \A r \in Changes : joined[k] < r /\ r <= lastId[k] => r \in got[k]
    BY <1>2, <1>7 DEF ConsumerInv, ConsumerCovers
  <2> QED  BY <1>1, <1>5, <1>6, <1>7, <1>11, <2>1 DEF ConsumerCovers, Sent
<1>14. WireCovers(k)'
  BY <1>1, <1>6, <1>7, <1>12 DEF WireCovers, Sent
<1> QED  BY <1>8, <1>9, <1>10, <1>13, <1>14 DEF ConsumerInv

(* The least change of the page is sent. *)
LEMMA EmitKeeps ==
  ASSUME WatchInv, UNCHANGED storeVars, NEW k \in Consumers, Emit(k)
  PROVE  WatchTypeOK' /\ ConsumerInv(k)'
<1>1. PICK r \in page[k] :
        /\ \A s \in page[k] : r <= s
        /\ page' = [page EXCEPT ![k] = @ \ {r}]
        /\ cursor' = [cursor EXCEPT ![k] = r]
        /\ wire' = [wire EXCEPT ![k] = Append(@, [kind |-> "change", id |-> r])]
  BY DEF Emit
<1>2. at[k] = "emit" /\ UNCHANGED <<at, high, full, lastId, got, joined, breaks>>
  BY DEF Emit
<1>3. ConsumerInv(k) /\ WatchTypeOK  BY DEF WatchInv
<1>4. /\ db.current \in Nat /\ Changes' = Changes
      /\ Changes \in SUBSET (0 .. db.current)
  BY ChangesCommitted DEF WatchInv, Changes, storeVars
<1>5. page[k] \in SUBSET Nat /\ cursor[k] \in Nat  BY <1>3, ConsumerTypes
<1>6. /\ \A s \in page[k] : s \in Changes /\ s > cursor[k]
      /\ \A s \in Changes : s > cursor[k] =>
           \/ s \in page[k]
           \/ /\ \A u \in page[k] : u < s
              /\ full[k] \/ s > high[k]
  BY <1>2, <1>3 DEF ConsumerInv, PageCovers
<1>7. r \in Nat /\ r > cursor[k] /\ r <= db.current  BY <1>4, <1>5, <1>6
<1>8. \A s \in Changes : cursor[k] < s /\ s <= r => s = r
  <2> SUFFICES ASSUME NEW s \in Changes, cursor[k] < s, s <= r PROVE s = r
    OBVIOUS
  <2>1. s \in Nat  BY <1>4
  <2>2. s \in page[k]  BY <1>5, <1>6, <1>7, <2>1
  <2> QED  BY <1>1, <1>7, <2>1, <2>2
<1>9. page' \in [Consumers -> SUBSET Nat] /\ page'[k] = page[k] \ {r} /\ cursor'[k] = r
  BY <1>1, <1>3 DEF WatchTypeOK
<1>10. PageCovers(k)'
  <2>1. \A s \in page[k] \ {r} : s \in Changes /\ s > r
    BY <1>1, <1>5, <1>6, <1>7
  <2>2. \A s \in Changes : s > r =>
           \/ s \in page[k] \ {r}
           \/ /\ \A u \in page[k] \ {r} : u < s
              /\ full[k] \/ s > high[k]
    <3> SUFFICES ASSUME NEW s \in Changes, s > r
                 PROVE  \/ s \in page[k] \ {r}
                        \/ /\ \A u \in page[k] \ {r} : u < s
                           /\ full[k] \/ s > high[k]
      OBVIOUS
    <3>1. s \in Nat  BY <1>4
    <3>2. s > cursor[k] /\ s # r  BY <1>5, <1>7, <3>1
    <3> QED  BY <1>6, <3>2
  <2> QED  BY <1>2, <1>4, <1>9, <2>1, <2>2 DEF PageCovers
<1> QED
  <2>1. /\ at' \in [Consumers -> {"off", "open", "high", "page", "emit"}]
        /\ at'[k] # "off" /\ r >= cursor[k]
    BY <1>2, <1>3, <1>5, <1>7 DEF WatchTypeOK
  <2>2. wire' = [wire EXCEPT ![k] = Append(wire[k], [kind |-> "change", id |-> r])]
    BY <1>1
  <2> QED  BY <1>1, <1>2, <1>7, <1>8, <1>9, <1>10, <2>1, <2>2, SendKeeps

(* A heartbeat is sent after a page that was not full. *)
LEMMA HeartbeatKeeps ==
  ASSUME WatchInv, UNCHANGED storeVars, NEW k \in Consumers, Heartbeat(k)
  PROVE  WatchTypeOK' /\ ConsumerInv(k)'
<1> DEFINE id == Beat(k)
<1>1. /\ at[k] = "emit" /\ page[k] = {} /\ ~full[k]
      /\ cursor' = [cursor EXCEPT ![k] = id]
      /\ wire' = [wire EXCEPT ![k] = Append(wire[k], [kind |-> "heartbeat", id |-> id])]
      /\ at' = [at EXCEPT ![k] = "high"]
      /\ UNCHANGED <<high, page, full, lastId, got, joined, breaks>>
  BY DEF Heartbeat
<1>2. ConsumerInv(k) /\ WatchTypeOK  BY DEF WatchInv
<1>3. /\ db.current \in Nat /\ Changes \in SUBSET (0 .. db.current)
      /\ cursor[k] \in Nat /\ high[k] \in Nat /\ high[k] <= db.current
  BY <1>2, ChangesCommitted, ConsumerTypes DEF WatchInv, ConsumerInv, IdsKnown
<1>4. /\ id \in Nat /\ id >= cursor[k]
      /\ id <= db.current \/ id = cursor[k]
      /\ id = cursor[k] \/ id = high[k]
  BY <1>3 DEF Beat
<1> HIDE DEF id
<1>5. \A r \in Changes : r > cursor[k] => r > high[k]
  BY <1>1, <1>2 DEF ConsumerInv, PageCovers
<1>6. \A r \in Changes : ~(cursor[k] < r /\ r <= id)
  <2> SUFFICES ASSUME NEW r \in Changes, cursor[k] < r, r <= id PROVE FALSE
    OBVIOUS
  <2>1. r \in Nat  BY <1>3
  <2>2. r > high[k]  BY <1>3, <1>5, <2>1
  <2> QED  BY <1>3, <1>4, <2>1, <2>2
<1>7. /\ at' \in [Consumers -> {"off", "open", "high", "page", "emit"}]
      /\ at'[k] = "high" /\ page' \in [Consumers -> SUBSET Nat]
  BY <1>1, <1>2 DEF WatchTypeOK
<1>8. PageCovers(k)'  BY <1>7 DEF PageCovers
<1> QED  BY <1>1, <1>4, <1>6, <1>7, <1>8, SendKeeps

(* The consumer receives what was sent first. *)
LEMMA ReceiveKeeps ==
  ASSUME WatchInv, UNCHANGED storeVars, NEW k \in Consumers, Receive(k)
  PROVE  WatchTypeOK' /\ ConsumerInv(k)'
<1> DEFINE e == wire[k][1]
           n == Len(wire[k])
<1>1. db.current \in Nat /\ Changes' = Changes /\ db' = db
      /\ Changes \in SUBSET (0 .. db.current)
  BY ChangesCommitted DEF WatchInv, Changes, storeVars
<1>2. ConsumerInv(k) /\ WatchTypeOK  BY DEF WatchInv
<1>3. /\ cursor[k] \in Nat /\ wire[k] \in Seq(Event) /\ n \in Nat
      /\ \A i \in 1 .. n : wire[k][i] \in Event /\ wire[k][i].id \in Nat
      /\ joined[k] # NoId => joined[k] \in Nat
      /\ NoId \notin Nat
  BY <1>2, ConsumerTypes
<1>4. /\ wire[k] # <<>> /\ Head(wire[k]) = e /\ n >= 1 /\ e \in Event /\ e.id \in Nat
  BY <1>3 DEF Receive
<1>5. /\ lastId' = [lastId EXCEPT ![k] = e.id]
      /\ got' = [got EXCEPT ![k] = IF e.kind = "change" THEN @ \cup {e.id} ELSE @]
      /\ wire' = [wire EXCEPT ![k] = Tail(@)]
      /\ UNCHANGED <<at, cursor, high, page, full, joined, breaks>>
  BY <1>4 DEF Receive
<1>6. /\ Len(Tail(wire[k])) = n - 1 /\ Tail(wire[k]) \in Seq(Event)
      /\ \A i \in 1 .. n - 1 : Tail(wire[k])[i] = wire[k][i + 1]
  BY <1>3, <1>4
<1> DEFINE rest == Tail(wire[k])
<1>7. lastId'[k] = e.id /\ wire'[k] = rest
      /\ got'[k] = IF e.kind = "change" THEN got[k] \cup {e.id} ELSE got[k]
  BY <1>2, <1>5 DEF WatchTypeOK
<1>8. WatchTypeOK'
  <2>1. lastId' \in [Consumers -> Nat \cup {NoId}] /\ got' \in [Consumers -> SUBSET Nat]
    BY <1>2, <1>4, <1>5 DEF WatchTypeOK
  <2>2. wire' \in [Consumers -> Seq(Event)]
    BY <1>2, <1>5, <1>6 DEF WatchTypeOK
  <2> QED  BY <1>2, <1>5, <2>1, <2>2 DEF WatchTypeOK
<1>9. at[k] # "off" /\ joined[k] # NoId /\ joined[k] \in Nat
  BY <1>2, <1>3, <1>4 DEF ConsumerInv, Connected
<1> HIDE DEF rest, e
<1>10. \A i \in 1 .. n - 1 : i + 1 \in 1 .. n /\ rest[i] = wire[k][i + 1]
  BY <1>3, <1>4, <1>6 DEF rest
<1>11. Len(rest) = n - 1  BY <1>6 DEF rest
<1>12. ASSUME NEW r \in Nat, NEW m \in 1 .. n, r \in got[k] \/ Sent(k, r, m)
       PROVE  r \in got'[k] \/ \E j \in 1 .. m - 1 :
                                   wire'[k][j] = [kind |-> "change", id |-> r]
  <2>1. CASE r \in got[k]  BY <1>7, <2>1
  <2>2. CASE Sent(k, r, m)
    <3>1. PICK j \in 1 .. m : wire[k][j] = [kind |-> "change", id |-> r]
      BY <2>2 DEF Sent
    <3>2. CASE j = 1
      <4>1. e = [kind |-> "change", id |-> r]  BY <3>1, <3>2 DEF e
      <4>2. e.kind = "change" /\ e.id = r  BY <4>1
      <4> QED  BY <1>7, <4>2
    <3>3. CASE j # 1
      <4>1. j - 1 \in 1 .. n - 1 /\ j - 1 \in 1 .. m - 1 /\ (j - 1) + 1 = j
        BY <1>3, <3>1, <3>3
      <4>2. wire'[k][j - 1] = wire[k][j]  BY <1>7, <1>10, <4>1
      <4> QED  BY <3>1, <4>1, <4>2
    <3> QED  BY <3>2, <3>3
  <2> QED  BY <1>12, <2>1, <2>2
<1>13. /\ \A i \in 1 .. n : Known(k, wire[k][i].id)
       /\ Known(k, cursor[k]) /\ high[k] <= db.current
  BY <1>2, <1>9 DEF ConsumerInv, IdsKnown
<1>14. IdsKnown(k)'
  <2>1. Known(k, e.id)  BY <1>3, <1>4, <1>13 DEF e
  <2>2. \A i \in 1 .. n - 1 : Known(k, rest[i].id)  BY <1>10, <1>13
  <2> QED
    BY <1>1, <1>5, <1>7, <1>11, <1>13, <2>1, <2>2 DEF IdsKnown, Known
<1>15. Connected(k)'  BY <1>2, <1>5, <1>9 DEF ConsumerInv, Connected
<1>16. PageCovers(k)'  BY <1>1, <1>2, <1>5 DEF ConsumerInv, PageCovers
<1>17. ASSUME NEW i \in 1 .. n, NEW r \in Changes, joined[k] < r, r <= wire[k][i].id
       PROVE  r \in got'[k] \/ \E j \in 1 .. i - 1 :
                                   wire'[k][j] = [kind |-> "change", id |-> r]
  <2>1. r \in got[k] \/ Sent(k, r, i)
    BY <1>2, <1>9, <1>17 DEF ConsumerInv, WireCovers
  <2>2. r \in Nat  BY <1>1
  <2> QED  BY <1>12, <2>1, <2>2
<1>18. WireCovers(k)'
  <2> SUFFICES ASSUME NEW i \in 1 .. n - 1, NEW r \in Changes,
                      joined[k] < r, r <= rest[i].id
               PROVE  r \in got'[k] \/ \E j \in 1 .. i :
                                          wire'[k][j] = [kind |-> "change", id |-> r]
    BY <1>1, <1>5, <1>7, <1>11 DEF WireCovers, Sent
  <2>1. i + 1 \in 1 .. n /\ (i + 1) - 1 = i /\ rest[i] = wire[k][i + 1]  BY <1>3, <1>10
  <2>2. r <= wire[k][i + 1].id  BY <2>1
  <2>3. r \in got'[k] \/ \E j \in 1 .. (i + 1) - 1 :
                             wire'[k][j] = [kind |-> "change", id |-> r]
    BY <1>17, <2>1, <2>2
  <2> QED  BY <2>1, <2>3
<1>19. ConsumerCovers(k)'
  <2>1. ASSUME NEW r \in Changes, joined[k] < r, r <= e.id PROVE r \in got'[k]
    <3>1. r <= wire[k][1].id /\ 1 \in 1 .. n  BY <1>3, <1>4, <2>1 DEF e
    <3>2. r \in got'[k] \/ \E j \in 1 .. 1 - 1 :
                               wire'[k][j] = [kind |-> "change", id |-> r]
      BY <1>17, <2>1, <3>1
    <3> QED  BY <3>2
  <2>2. ASSUME NEW r \in Changes, joined[k] < r, r <= cursor[k]
        PROVE  r \in got'[k] \/ \E j \in 1 .. n - 1 :
                                    wire'[k][j] = [kind |-> "change", id |-> r]
    <3>1. r \in got[k] \/ Sent(k, r, n)
      BY <1>2, <1>9, <2>2 DEF ConsumerInv, ConsumerCovers
    <3>2. r \in Nat /\ n \in 1 .. n  BY <1>1, <1>3, <1>4
    <3> QED  BY <1>12, <3>1, <3>2
  <2> QED  BY <1>1, <1>5, <1>7, <1>11, <2>1, <2>2 DEF ConsumerCovers, Sent
<1> QED  BY <1>8, <1>14, <1>15, <1>16, <1>18, <1>19 DEF ConsumerInv

(* The stream ends, or its connection breaks with what was in flight. *)
LEMMA DisconnectKeeps ==
  ASSUME WatchInv, UNCHANGED storeVars, NEW k \in Consumers, StreamEnds(k) \/ Break(k)
  PROVE  WatchTypeOK' /\ ConsumerInv(k)'
<1>1. db.current \in Nat /\ Changes' = Changes /\ db' = db
      /\ Changes \in SUBSET (0 .. db.current)
  BY ChangesCommitted DEF WatchInv, Changes, storeVars
<1>2. ConsumerInv(k) /\ WatchTypeOK  BY DEF WatchInv
<1>3. Disconnected(k)  BY DEF StreamEnds, Break
<1>4. wire' \in [Consumers -> Seq(Event)] /\ wire'[k] = <<>> /\ Len(wire'[k]) = 0
  <2>1. CASE StreamEnds(k)  BY <1>2, <2>1 DEF StreamEnds, WatchTypeOK
  <2>2. CASE Break(k)
    <3>1. <<>> \in Seq(Event)  OBVIOUS
    <3> QED  BY <1>2, <2>2, <3>1 DEF Break, WatchTypeOK
  <2> QED  BY <2>1, <2>2
<1>5. breaks' \in 0 .. MaxBreaks
  BY <1>2, WatchAssumption DEF StreamEnds, Break, WatchTypeOK
<1>6. WatchTypeOK'
  BY <1>2, <1>3, <1>4, <1>5 DEF Disconnected, WatchTypeOK
<1>7. /\ at'[k] = "off" /\ cursor'[k] = 0 /\ high'[k] = 0 /\ joined'[k] = joined[k]
      /\ lastId'[k] = lastId[k] /\ got'[k] = got[k]
      /\ joined[k] # NoId => joined[k] \in Nat
  BY <1>2, <1>3, ConsumerTypes DEF Disconnected, WatchTypeOK
<1>8. IdsKnown(k)'
  BY <1>1, <1>2, <1>4, <1>7 DEF ConsumerInv, IdsKnown, Known
<1>9. Connected(k)' /\ PageCovers(k)' /\ WireCovers(k)'
  BY <1>4, <1>7 DEF Connected, PageCovers, WireCovers
<1>10. ConsumerCovers(k)'
  <2>1. joined[k] # NoId =>
          \A r \in Changes : ~(joined[k] < r /\ r <= 0)
    <3>1. \A r \in Changes : r \in Nat  BY <1>1
    <3> QED  BY <1>7, <3>1
  <2>2. joined[k] # NoId /\ lastId[k] # NoId =>
          \A r \in Changes : joined[k] < r /\ r <= lastId[k] => r \in got[k]
    BY <1>2 DEF ConsumerInv, ConsumerCovers
  <2> QED  BY <1>1, <1>7, <2>1, <2>2 DEF ConsumerCovers
<1> QED  BY <1>6, <1>8, <1>9, <1>10 DEF ConsumerInv

(* Every step of the streams and of the writers keeps the invariant. *)
LEMMA WatchInvNext ==
  ASSUME WatchInv, [Next]_allVars PROVE WatchInv'
<1>1. StoreInv /\ RowsStamped /\ WatchTypeOK  BY DEF WatchInv
<1>2. CASE [StoreNext]_storeVars /\ UNCHANGED watchVars
  <2>1. StoreInv' /\ RowsStamped'  BY <1>1, <1>2, StoreInvNext, RowsStampedNext
  <2>2. WatchTypeOK'  BY <1>1, <1>2 DEF WatchTypeOK, watchVars
  <2> QED  BY <1>2, <2>1, <2>2, WritesKeep DEF WatchInv
<1>3. ASSUME NEW k \in Consumers,
             StreamStep(k) \/ Receive(k) \/ StreamEnds(k) \/ Break(k), UNCHANGED storeVars
      PROVE  WatchInv'
  <2>1. StoreInv' /\ RowsStamped'
    BY <1>1, <1>3, StoreInvNext, RowsStampedNext
  <2>2. WatchTypeOK' /\ ConsumerInv(k)'
    BY <1>3, ConnectKeeps, ReadsKeep, EmitKeeps, HeartbeatKeeps, ReceiveKeeps,
       DisconnectKeeps DEF StreamStep
  <2>3. ASSUME NEW j \in Consumers, j # k PROVE ConsumerInv(j)'
    <3>1. /\ at'[j] = at[j] /\ cursor'[j] = cursor[j] /\ high'[j] = high[j]
          /\ page'[j] = page[j] /\ full'[j] = full[j] /\ wire'[j] = wire[j]
          /\ lastId'[j] = lastId[j] /\ got'[j] = got[j] /\ joined'[j] = joined[j]
      <4>1. CASE Connect(k)  BY <1>1, <2>3, <4>1 DEF WatchTypeOK, Connect
      <4>2. CASE ReadHigh(k)  BY <1>1, <2>3, <4>2 DEF WatchTypeOK, ReadHigh
      <4>3. CASE ReadPage(k)  BY <1>1, <2>3, <4>3 DEF WatchTypeOK, ReadPage
      <4>4. CASE Emit(k)  BY <1>1, <2>3, <4>4 DEF WatchTypeOK, Emit
      <4>5. CASE EndPage(k)  BY <1>1, <2>3, <4>5 DEF WatchTypeOK, EndPage
      <4>6. CASE Heartbeat(k)  BY <1>1, <2>3, <4>6 DEF WatchTypeOK, Heartbeat
      <4>7. CASE Receive(k)  BY <1>1, <2>3, <4>7 DEF WatchTypeOK, Receive
      <4>8. CASE StreamEnds(k)
        BY <1>1, <2>3, <4>8 DEF WatchTypeOK, StreamEnds, Disconnected
      <4>9. CASE Break(k)  BY <1>1, <2>3, <4>9 DEF WatchTypeOK, Break, Disconnected
      <4> QED
        BY <1>3, <4>1, <4>2, <4>3, <4>4, <4>5, <4>6, <4>7, <4>8, <4>9 DEF StreamStep
    <3>2. db' = db /\ ConsumerInv(j)  BY <1>3 DEF storeVars, WatchInv
    <3> QED  BY <3>1, <3>2, OthersKeep
  <2> QED  BY <2>1, <2>2, <2>3 DEF WatchInv
<1>4. CASE UNCHANGED allVars
  BY <1>2, <1>4 DEF allVars, storeVars, watchVars
<1> QED  BY <1>2, <1>3, <1>4 DEF Next

(***************************************************************************)
(* For any number of consumers, writers and broken connections, and pages  *)
(* and wires of any size: the id that a consumer holds covers every change *)
(* before it, and no stream is past a change that it has not sent.         *)
(***************************************************************************)
THEOREM StreamCoversHistoryAlways == Spec => []StreamCoversHistory
<1>1. Init => WatchInv  BY WatchInvInit
<1>2. WatchInv /\ [Next]_allVars => WatchInv'  BY WatchInvNext
<1>3. WatchInv => StreamCoversHistory
  <2> SUFFICES ASSUME WatchInv, NEW k \in Consumers, joined[k] # NoId
               PROVE  /\ lastId[k] # NoId =>
                           \A r \in Changes :
                             joined[k] < r /\ r <= lastId[k] => r \in got[k]
                      /\ \A r \in Changes : joined[k] < r /\ r <= cursor[k] =>
                           r \in got[k] \/ Sent(k, r, Len(wire[k]))
    BY DEF StreamCoversHistory, IdsCoverHistory, AtLeastOnce, Sent
  <2> QED  BY DEF WatchInv, ConsumerInv, ConsumerCovers
<1> QED  BY <1>1, <1>2, <1>3, PTL DEF Spec
=============================================================================
