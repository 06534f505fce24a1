------------------------- MODULE ReplicationProofs -------------------------
(***************************************************************************)
(* Proofs about Replication, for every set of entities, every number of    *)
(* retries and any losses.                                                 *)
(***************************************************************************)
EXTENDS Replication, FiniteSetTheorems, TLAPS

USE DEF Entities

-----------------------------------------------------------------------------
(***************************************************************************)
(* Tables.                                                                 *)
(***************************************************************************)

\* A function on entities is a table.
LEMMA TableIntro ==
  ASSUME NEW S, NEW ids \in SUBSET Entities, NEW f \in [ids -> S]
  PROVE  f \in Tables(S)
  BY DEF Tables

\* A table is a function from the entities it knows.
LEMMA TableElim ==
  ASSUME NEW S, NEW f \in Tables(S)
  PROVE  /\ DOMAIN f \subseteq Entities
         /\ f \in [DOMAIN f -> S]
  BY DEF Tables

LEMMA EmptyTable ==
  ASSUME NEW S
  PROVE  NoEntries \in Tables(S) /\ DOMAIN NoEntries = {}
  <1>1. NoEntries \in [{} -> S]
    BY DEF NoEntries
  <1> QED
    BY <1>1, TableIntro

-----------------------------------------------------------------------------
(***************************************************************************)
(* What the senders leave in a session's state.                            *)
(***************************************************************************)

LEMMA WorldType ==
  ASSUME NEW w \in Worlds
  PROVE  /\ w.alive \in SUBSET Snakes
         /\ w.visible \in SUBSET Entities
         /\ w.content \in [Entities -> Contents]
         /\ Own \in w.alive => Own \in w.visible
         /\ Own \notin w.alive => Own \notin w.visible
  BY EncoderAssumption DEF Worlds

\* The retry loop keeps the type of each pending Remove and leaves at least
\* one retry to those it keeps.
LEMMA AgedRemovesType ==
  ASSUME NEW ns \in NetStateType
  PROVE  /\ AgedRemoves(ns) \in Tables(PendingRemove)
         /\ DOMAIN AgedRemoves(ns) \subseteq DOMAIN ns.pendingRemoves
         /\ \A e \in DOMAIN AgedRemoves(ns) :
              AgedRemoves(ns)[e].type = ns.pendingRemoves[e].type
  <1> DEFINE pr == ns.pendingRemoves
             kept == {r \in DOMAIN pr : pr[r].retries > 1}
  <1>1. pr \in Tables(PendingRemove)
    BY DEF NetStateType
  <1>2. DOMAIN pr \subseteq Entities /\ pr \in [DOMAIN pr -> PendingRemove]
    BY <1>1, TableElim
  <1>3. ASSUME NEW e \in kept
        PROVE  /\ [pr[e] EXCEPT !.retries = @ - 1] \in PendingRemove
               /\ [pr[e] EXCEPT !.retries = @ - 1].type = pr[e].type
    <2>1. pr[e] \in PendingRemove /\ pr[e].retries > 1
      BY <1>2
    <2> QED
      BY <2>1, NetStateAssumption DEF PendingRemove
  <1>4. AgedRemoves(ns) = [e \in kept |-> [pr[e] EXCEPT !.retries = @ - 1]]
    BY DEF AgedRemoves
  <1>5. AgedRemoves(ns) \in [kept -> PendingRemove]
    BY <1>3, <1>4
  <1>6. kept \in SUBSET Entities
    BY <1>2
  <1>7. AgedRemoves(ns) \in Tables(PendingRemove)
    BY <1>5, <1>6, TableIntro
  <1> QED
    BY <1>3, <1>4, <1>7

\* Given sound books, QueueRemove refuses nothing: what left the view is what
\* was visible and no longer is.
LEMMA LeftViewOfSoundBooks ==
  ASSUME NEW ns \in NetStateType, SoundBooks(ns), NEW w \in Worlds
  PROVE  LeftView(ns, w) = ns.lastVisible \ w.visible
  BY DEF LeftView, SoundBooks

LEMMA QueueRemovesType ==
  ASSUME NEW ns \in NetStateType, SoundBooks(ns), NEW w \in Worlds
  PROVE  /\ QueueRemoves(ns, w) \in Tables(PendingRemove)
         /\ DOMAIN QueueRemoves(ns, w) = DOMAIN AgedRemoves(ns) \cup LeftView(ns, w)
         /\ \A e \in DOMAIN QueueRemoves(ns, w) : QueueRemoves(ns, w)[e].type = EntityType(e)
  <1> DEFINE aged == AgedRemoves(ns)
             left == LeftView(ns, w)
             queued == QueueRemoves(ns, w)
  <1>1. /\ DOMAIN aged \subseteq Entities
        /\ aged \in [DOMAIN aged -> PendingRemove]
        /\ \A e \in DOMAIN aged : aged[e].type = EntityType(e)
    BY AgedRemovesType, TableElim DEF SoundBooks
  <1>2. left \subseteq ns.lastVisible /\ left \subseteq Entities
    BY DEF LeftView, NetStateType
  <1>3. ASSUME NEW e \in left
        PROVE  FreshRemove(ns, e) \in PendingRemove /\ FreshRemove(ns, e).type = EntityType(e)
    BY <1>2, NetStateAssumption DEF FreshRemove, PendingRemove, SoundBooks, EntityType
  <1>4. queued = [e \in DOMAIN aged \cup left |->
                    IF e \in DOMAIN aged THEN aged[e] ELSE FreshRemove(ns, e)]
    BY DEF QueueRemoves
  <1> HIDE DEF aged, left, queued
  <1>5. DOMAIN queued = DOMAIN aged \cup left
    BY <1>4
  <1>6. \A e \in DOMAIN aged \cup left :
          queued[e] \in PendingRemove /\ queued[e].type = EntityType(e)
    BY <1>1, <1>3, <1>4
  <1>7. queued \in [DOMAIN aged \cup left -> PendingRemove]
    BY <1>4, <1>5, <1>6
  <1>8. queued \in Tables(PendingRemove)
    BY <1>7, <1>1, <1>2, TableIntro
  <1> QED
    BY <1>5, <1>6, <1>8 DEF aged, left, queued

\* SendPartialUpdate keeps the books sound.
LEMMA PartialUpdateBooks ==
  ASSUME NEW ns \in NetStateType, SoundBooks(ns), NEW w \in Worlds
  PROVE  /\ AfterPartialUpdate(ns, w) \in NetStateType
         /\ SoundBooks(AfterPartialUpdate(ns, w))
         /\ AfterPartialUpdate(ns, w).lastVisible = w.visible
         /\ \A e \in w.visible : AfterPartialUpdate(ns, w).lastHash[e] = w.content[e]
         /\ AfterPartialUpdate(ns, w).pendingRemoves = QueueRemoves(ns, w)
  <1> DEFINE after == AfterPartialUpdate(ns, w)
             hash == [e \in Known(ns.lastHash, ns, w) |->
                        IF e \in Recorded(ns, w) THEN w.content[e] ELSE ns.lastHash[e]]
             type == [e \in Known(ns.lastType, ns, w) |->
                        IF e \in Recorded(ns, w) THEN EntityType(e) ELSE ns.lastType[e]]
  <1>1. /\ w.visible \in SUBSET Entities
        /\ w.content \in [Entities -> Contents]
    BY WorldType
  <1>2. /\ Known(ns.lastHash, ns, w) = w.visible /\ Known(ns.lastType, ns, w) = w.visible
        /\ \A e \in w.visible \ Recorded(ns, w) :
             ns.lastHash[e] = w.content[e] /\ ns.lastType[e] = EntityType(e)
    BY LeftViewOfSoundBooks DEF Known, Recorded, SoundBooks
  <1>3. \A e \in w.visible : hash[e] = w.content[e] /\ type[e] = EntityType(e)
    BY <1>2
  <1>4. hash \in [w.visible -> Contents] /\ DOMAIN hash = w.visible
    BY <1>1, <1>2, <1>3
  <1>5. type \in [w.visible -> {"Snake", "Food"}] /\ DOMAIN type = w.visible
    BY <1>1, <1>2, <1>3 DEF EntityType
  <1>6. hash \in Tables(Contents) /\ type \in Tables({"Snake", "Food"})
    BY <1>1, <1>4, <1>5, TableIntro
  <1>7. /\ QueueRemoves(ns, w) \in Tables(PendingRemove)
        /\ \A e \in DOMAIN QueueRemoves(ns, w) : QueueRemoves(ns, w)[e].type = EntityType(e)
    BY QueueRemovesType
  <1>8. after = [ns EXCEPT !.lastVisible = w.visible, !.lastHash = hash,
                           !.lastType = type, !.pendingRemoves = QueueRemoves(ns, w)]
    BY DEF AfterPartialUpdate
  <1> HIDE DEF after, hash, type
  <1>9. after \in NetStateType
    BY <1>1, <1>6, <1>7, <1>8 DEF NetStateType
  <1>10. /\ after.lastVisible = w.visible /\ after.lastHash = hash
         /\ after.lastType = type /\ after.pendingRemoves = QueueRemoves(ns, w)
    BY <1>8 DEF NetStateType
  <1> QED
    BY <1>3, <1>4, <1>5, <1>7, <1>9, <1>10 DEF SoundBooks, after

\* SendFullUpdate leaves sound books and no pending Remove.
LEMMA FullUpdateBooks ==
  ASSUME NEW ns \in NetStateType, NEW w \in Worlds
  PROVE  /\ AfterFullUpdate(ns, w) \in NetStateType
         /\ SoundBooks(AfterFullUpdate(ns, w))
         /\ AfterFullUpdate(ns, w).lastVisible = w.visible
         /\ \A e \in w.visible : AfterFullUpdate(ns, w).lastHash[e] = w.content[e]
         /\ DOMAIN AfterFullUpdate(ns, w).pendingRemoves = {}
  <1> DEFINE after == AfterFullUpdate(ns, w)
             hash == [e \in w.visible |-> w.content[e]]
             type == [e \in w.visible |-> EntityType(e)]
  <1>1. /\ w.visible \in SUBSET Entities
        /\ w.content \in [Entities -> Contents]
    BY WorldType
  <1>2. /\ hash \in [w.visible -> Contents] /\ DOMAIN hash = w.visible
        /\ type \in [w.visible -> {"Snake", "Food"}] /\ DOMAIN type = w.visible
        /\ \A e \in w.visible : hash[e] = w.content[e] /\ type[e] = EntityType(e)
    BY <1>1 DEF EntityType
  <1>3. hash \in Tables(Contents) /\ type \in Tables({"Snake", "Food"})
    BY <1>1, <1>2, TableIntro
  <1>4. after = [ns EXCEPT !.lastVisible = w.visible, !.lastHash = hash,
                           !.lastType = type, !.pendingRemoves = NoEntries]
    BY DEF AfterFullUpdate
  <1> HIDE DEF after, hash, type
  <1>5. NoEntries \in Tables(PendingRemove) /\ DOMAIN NoEntries = {}
    BY EmptyTable
  <1>6. after \in NetStateType
    BY <1>1, <1>3, <1>4, <1>5 DEF NetStateType
  <1>7. /\ after.lastVisible = w.visible /\ after.lastHash = hash
        /\ after.lastType = type /\ after.pendingRemoves = NoEntries
    BY <1>4 DEF NetStateType
  <1> QED
    BY <1>2, <1>5, <1>6, <1>7 DEF SoundBooks, after

\* The snapshots touch nothing else.
LEMMA SnapshotsBooks ==
  ASSUME NEW ns \in NetStateType, SoundBooks(ns), NEW ids
  PROVE  /\ AfterSnapshots(ns, ids) \in NetStateType
         /\ SoundBooks(AfterSnapshots(ns, ids))
         /\ AfterSnapshots(ns, ids).lastVisible = ns.lastVisible
         /\ AfterSnapshots(ns, ids).lastHash = ns.lastHash
         /\ AfterSnapshots(ns, ids).lastType = ns.lastType
         /\ AfterSnapshots(ns, ids).pendingRemoves = ns.pendingRemoves
  BY DEF AfterSnapshots, NetStateType, SoundBooks

-----------------------------------------------------------------------------
(***************************************************************************)
(* What a message does to a copy.                                          *)
(***************************************************************************)

\* What Applied needs of a message, and what the three messages have.
WellFormed(packet) ==
  /\ DOMAIN packet.entries \subseteq Entities
  /\ \A e \in DOMAIN packet.entries : packet.entries[e].content \in Contents

Base(copy, packet) ==
  IF packet.kind = "FullUpdate" THEN {} ELSE DOMAIN copy \ packet.retried

\* The message turns copy into v, with the entries got accepted.
Receives(copy, packet, got, v) ==
  /\ got \subseteq DOMAIN packet.entries
  /\ \A e \in DOMAIN packet.entries \ got :
       packet.entries[e].flags = "Update" /\ e \notin Base(copy, packet)
  /\ \A e : e \in DOMAIN v <=>
              (e \in Base(copy, packet) \/ e \in got) /\ e \notin packet.removed
  /\ \A e \in DOMAIN v : v[e] = IF e \in got THEN packet.entries[e].content ELSE copy[e]

LEMMA AppliedCopy ==
  ASSUME NEW copy \in Tables(Contents), NEW packet, WellFormed(packet),
         NEW v \in Applied(copy, packet)
  PROVE  /\ v \in Tables(Contents)
         /\ \E got : Receives(copy, packet, got, v)
  <1> DEFINE base == Base(copy, packet)
  <1>1. PICK got \in Accepted(packet, base) :
          v = [e \in (base \cup got) \ packet.removed |->
                 IF e \in got THEN packet.entries[e].content ELSE copy[e]]
    BY DEF Applied, Base
  <1>2. /\ got \in SUBSET DOMAIN packet.entries
        /\ \A e \in DOMAIN packet.entries \ got :
             packet.entries[e].flags = "Update" /\ e \notin base
    BY DEF Accepted
  <1>3. DOMAIN copy \subseteq Entities /\ copy \in [DOMAIN copy -> Contents]
    BY TableElim
  <1>4. base \subseteq DOMAIN copy
    BY DEF Base
  <1> HIDE DEF base
  <1>5. /\ DOMAIN v = (base \cup got) \ packet.removed
        /\ \A e \in DOMAIN v : v[e] = IF e \in got THEN packet.entries[e].content ELSE copy[e]
    BY <1>1
  <1>6. \A e \in DOMAIN v : e \in Entities /\ v[e] \in Contents
    BY <1>2, <1>3, <1>4, <1>5 DEF WellFormed
  <1>7. v \in [DOMAIN v -> Contents]
    BY <1>1, <1>6
  <1>8. v \in Tables(Contents)
    BY <1>6, <1>7, TableIntro
  <1> QED
    BY <1>2, <1>5, <1>8 DEF base, Receives

\* v is copy with the entities ids added or replaced.
Repaired(copy, ids, v) ==
  /\ DOMAIN v = DOMAIN copy \cup ids
  /\ \A e \in DOMAIN v \ ids : v[e] = copy[e]

\* Snapshots add the snakes that live, and change nothing else.
LEMMA SnapshotsApplied ==
  ASSUME NEW copy \in Tables(Contents), NEW w \in Worlds, NEW ids,
         NEW v \in Applied(copy, SnakeSnapshots(w, ids))
  PROVE  /\ v \in Tables(Contents)
         /\ Repaired(copy, ids \cap w.alive, v)
  <1> DEFINE p == SnakeSnapshots(w, ids)
  <1>1. /\ p.kind = "SnakeSnapshot" /\ p.retried = {} /\ p.removed = {}
        /\ DOMAIN p.entries = ids \cap w.alive
        /\ \A e \in ids \cap w.alive :
             p.entries[e].flags = "New" /\ p.entries[e].content = w.content[e]
    BY DEF SnakeSnapshots, AllNew
  <1>2. w.alive \subseteq Entities /\ w.content \in [Entities -> Contents]
    BY WorldType
  <1> HIDE DEF p
  <1>3. WellFormed(p)
    BY <1>1, <1>2 DEF WellFormed
  <1>4. Base(copy, p) = DOMAIN copy
    BY <1>1 DEF Base
  <1>5. v \in Applied(copy, p)
    BY DEF p
  <1>6. v \in Tables(Contents)
    BY <1>3, <1>5, AppliedCopy
  <1>7. PICK got : Receives(copy, p, got, v)
    BY <1>3, <1>5, AppliedCopy
  <1>8. got = DOMAIN p.entries
    BY <1>1, <1>7 DEF Receives
  <1> QED
    BY <1>1, <1>4, <1>6, <1>7, <1>8 DEF Receives, Repaired

\* A FullUpdate replaces the copy by what is visible.
LEMMA FullUpdateApplied ==
  ASSUME NEW copy \in Tables(Contents), NEW w \in Worlds,
         NEW v \in Applied(copy, FullUpdate(w))
  PROVE  /\ v \in Tables(Contents)
         /\ DOMAIN v = w.visible
         /\ \A e \in w.visible : v[e] = w.content[e]
  <1> DEFINE p == FullUpdate(w)
  <1>1. /\ p.kind = "FullUpdate" /\ p.removed = {}
        /\ DOMAIN p.entries = w.visible
        /\ \A e \in w.visible :
             p.entries[e].flags = "New" /\ p.entries[e].content = w.content[e]
    BY DEF FullUpdate, AllNew
  <1>2. w.visible \subseteq Entities /\ w.content \in [Entities -> Contents]
    BY WorldType
  <1> HIDE DEF p
  <1>3. WellFormed(p)
    BY <1>1, <1>2 DEF WellFormed
  <1>4. Base(copy, p) = {}
    BY <1>1 DEF Base
  <1>5. v \in Applied(copy, p)
    BY DEF p
  <1>6. v \in Tables(Contents)
    BY <1>3, <1>5, AppliedCopy
  <1>7. PICK got : Receives(copy, p, got, v)
    BY <1>3, <1>5, AppliedCopy
  <1>8. got = DOMAIN p.entries
    BY <1>1, <1>7 DEF Receives
  <1> QED
    BY <1>1, <1>4, <1>6, <1>7, <1>8 DEF Receives

\* A PartialUpdate, computed from sound books: what is not removed stays or is
\* added, a visible entity is missing only if it was known and the client did
\* not hold it, and what is visible and held is up to date if it was before.
LEMMA PartialUpdateApplied ==
  ASSUME NEW ns \in NetStateType, SoundBooks(ns), NEW w \in Worlds,
         NEW copy \in Tables(Contents),
         NEW v \in Applied(copy, PartialUpdate(ns, w))
  PROVE  LET kept == DOMAIN copy \ DOMAIN ns.pendingRemoves
         IN  /\ v \in Tables(Contents)
             /\ DOMAIN v \ w.visible = kept \ (w.visible \cup LeftView(ns, w))
             /\ \A e \in w.visible \ DOMAIN v : e \in ns.lastVisible /\ e \notin kept
             /\ \A e \in w.visible \cap DOMAIN v :
                  \/ v[e] = w.content[e]
                  \/ /\ e \in kept \cap ns.lastVisible
                     /\ e \notin Snakes
                     /\ v[e] = copy[e]
                     /\ w.content[e] = ns.lastHash[e]
  <1> DEFINE p == PartialUpdate(ns, w)
             kept == DOMAIN copy \ DOMAIN ns.pendingRemoves
             left == LeftView(ns, w)
  <1>1. /\ p.kind = "PartialUpdate" /\ p.removed = left
        /\ p.retried = DOMAIN ns.pendingRemoves
        /\ DOMAIN p.entries = Written(ns, w)
        /\ \A e \in Written(ns, w) :
             /\ p.entries[e].flags = (IF e \in DOMAIN ns.lastHash THEN "Update" ELSE "New")
             /\ p.entries[e].content = w.content[e]
    BY DEF PartialUpdate
  <1>2. w.visible \subseteq Entities /\ w.content \in [Entities -> Contents]
    BY WorldType
  <1>3. /\ Written(ns, w) \subseteq w.visible
        /\ \A e \in w.visible \ Written(ns, w) :
             /\ e \notin Snakes
             /\ e \in ns.lastVisible
             /\ ns.lastHash[e] = w.content[e]
    BY DEF Written, Recorded, SoundBooks
  <1>4. left \cap w.visible = {}
    BY DEF LeftView
  <1> HIDE DEF p, left
  <1>5. WellFormed(p)
    BY <1>1, <1>2, <1>3 DEF WellFormed
  <1>6. Base(copy, p) = kept
    BY <1>1 DEF Base
  <1>7. v \in Applied(copy, p)
    BY DEF p
  <1> HIDE DEF kept
  <1>8. v \in Tables(Contents)
    BY <1>5, <1>7, AppliedCopy
  <1>9. PICK got : Receives(copy, p, got, v)
    BY <1>5, <1>7, AppliedCopy
  <1>10. /\ got \subseteq Written(ns, w)
         /\ \A e \in Written(ns, w) \ got :
              p.entries[e].flags = "Update" /\ e \notin kept
         /\ \A e : e \in DOMAIN v <=> (e \in kept \/ e \in got) /\ e \notin left
    BY <1>1, <1>6, <1>9 DEF Receives
  <1>11. DOMAIN v \ w.visible = kept \ (w.visible \cup left)
    BY <1>3, <1>10
  <1>12. ASSUME NEW e \in w.visible \ DOMAIN v
         PROVE  e \in ns.lastVisible /\ e \notin kept
    <2>1. e \notin got /\ e \notin kept
      BY <1>4, <1>10
    <2>2. CASE e \in Written(ns, w)
      <3>1. p.entries[e].flags = "Update"
        BY <1>10, <2>1, <2>2
      <3>2. e \in DOMAIN ns.lastHash
        BY <1>1, <2>2, <3>1
      <3> QED
        BY <2>1, <3>2 DEF SoundBooks
    <2>3. CASE e \notin Written(ns, w)
      BY <1>3, <2>1, <2>3
    <2> QED
      BY <2>2, <2>3
  <1>13. ASSUME NEW e \in w.visible \cap DOMAIN v
         PROVE  \/ v[e] = w.content[e]
                \/ /\ e \in kept \cap ns.lastVisible
                   /\ e \notin Snakes
                   /\ v[e] = copy[e]
                   /\ w.content[e] = ns.lastHash[e]
    <2>1. CASE e \in got
      BY <1>1, <1>9, <1>10, <2>1 DEF Receives
    <2>2. CASE e \notin got
      <3>1. e \in kept /\ v[e] = copy[e]
        BY <1>9, <1>10, <2>2 DEF Receives
      <3>2. e \notin Written(ns, w)
        BY <1>10, <2>2, <3>1
      <3> QED
        BY <1>3, <3>1, <3>2
    <2> QED
      BY <2>1, <2>2
  <1> QED
    BY <1>8, <1>11, <1>12, <1>13 DEF kept, left

-----------------------------------------------------------------------------
(***************************************************************************)
(* The inductive invariant.                                                *)
(***************************************************************************)

\* The session's snake lives only in view, or a full update is about to show
\* it.
OwnTracked == killed \/ fullUpdates \/ Own \in net.lastVisible

\* No Remove of the session's snake is pending while it is in view.
OwnSettled == Own \in net.lastVisible => Own \notin DOMAIN net.pendingRemoves

\* Whatever is in view with a Remove still counting down is shadowed.
PendingShadowed == DOMAIN net.pendingRemoves \cap net.lastVisible \subseteq shadowed

IInv ==
  /\ TypeOK
  /\ Bookkeeping
  /\ OwnTracked
  /\ OwnSettled
  /\ PendingShadowed
  /\ OwnSnakeShown
  /\ MirrorExact

LEMMA InitIInv == Init => IInv
  <1> SUFFICES ASSUME Init PROVE IInv
    OBVIOUS
  <1>1. /\ NoEntries \in Tables(Contents)
        /\ NoEntries \in Tables({"Snake", "Food"})
        /\ NoEntries \in Tables(PendingRemove)
        /\ DOMAIN NoEntries = {}
    BY EmptyTable
  <1>2. /\ net \in NetStateType
        /\ net.lastVisible = {}
        /\ net.lastHash = NoEntries
        /\ net.lastType = NoEntries
        /\ net.pendingRemoves = NoEntries
    BY <1>1 DEF Init, EncoderInit, InitNetState, NetStateType
  <1>3. TypeOK
    <2>1. lost \in 0 .. MaxLost
      BY ReplicationAssumption DEF Init
    <2>2. requests \subseteq Requests /\ untracked \subseteq Entities /\ shadowed \subseteq Entities
      BY DEF Init
    <2>3. killed \in BOOLEAN /\ fullUpdates \in BOOLEAN /\ clean \in BOOLEAN
      BY Zenon DEF Init, EncoderInit
    <2> QED
      BY <1>1, <1>2, <2>1, <2>2, <2>3 DEF TypeOK, Init
  <1>4. Bookkeeping
    BY <1>1, <1>2 DEF Bookkeeping, SoundBooks
  <1>5. MirrorExact
    BY <1>1, <1>2 DEF MirrorExact, Init
  <1> QED
    BY <1>1, <1>2, <1>3, <1>4, <1>5
       DEF IInv, Init, EncoderInit, OwnTracked, OwnSettled, PendingShadowed, OwnSnakeShown

\* What a tick does before it sends the update: the snapshots leave.
LEMMA TickLost ==
  ASSUME NEW a \in 0 .. MaxLost, NEW ids \in SUBSET Snakes, NEW d \in BOOLEAN,
         a + Cardinality(ids) + (IF d THEN 1 ELSE 0) <= MaxLost
  PROVE  a + Cardinality(ids) + (IF d THEN 1 ELSE 0) \in 0 .. MaxLost
  <1>1. IsFiniteSet(ids)
    BY NetStateAssumption, FS_Subset
  <1>2. Cardinality(ids) \in Nat
    BY <1>1, FS_CardinalityType
  <1> QED
    BY <1>2, ReplicationAssumption

LEMMA TickFullIInv ==
  ASSUME IInv, NEW w \in Worlds, NEW snapshots, NEW dropped \in BOOLEAN,
         NEW copy \in Tables(Contents),
         SendFullUpdate(w, copy, dropped),
         net' = AfterFullUpdate(AfterSnapshots(net, snapshots), w),
         killed' = (Own \notin w.alive), fullUpdates' = FALSE, UNCHANGED requests,
         lost' \in 0 .. MaxLost
  PROVE  IInv'
  <1>1. AfterSnapshots(net, snapshots) \in NetStateType
    BY SnapshotsBooks DEF IInv, TypeOK, Bookkeeping
  <1>2. /\ net' \in NetStateType
        /\ SoundBooks(net')
        /\ net'.lastVisible = w.visible
        /\ \A e \in w.visible : net'.lastHash[e] = w.content[e]
        /\ DOMAIN net'.pendingRemoves = {}
    BY <1>1, FullUpdateBooks
  <1>3. w.visible \subseteq Entities /\ (Own \in w.alive => Own \in w.visible)
    BY WorldType
  <1>4. CASE dropped
    <2>1. view' = copy /\ clean' = FALSE /\ untracked' = DOMAIN view' \ w.visible
      BY <1>4 DEF SendFullUpdate, Send
    <2>2. DOMAIN copy \subseteq Entities
      BY TableElim
    <2>3. TypeOK'
      BY <1>2, <2>1, <2>2 DEF IInv, TypeOK, SendFullUpdate
    <2> QED
      BY <1>2, <1>3, <2>1, <2>3
         DEF IInv, Bookkeeping, OwnTracked, OwnSettled, PendingShadowed, OwnSnakeShown,
             MirrorExact
  <1>5. CASE ~dropped
    <2>1. /\ view' \in Applied(copy, FullUpdate(w))
          /\ clean' = TRUE
          /\ untracked' = {}
      BY <1>5 DEF SendFullUpdate, Send
    <2>2. /\ view' \in Tables(Contents)
          /\ DOMAIN view' = w.visible
          /\ \A e \in w.visible : view'[e] = w.content[e]
      BY <2>1, FullUpdateApplied
    <2>3. TypeOK'
      BY <1>2, <2>1, <2>2 DEF IInv, TypeOK, SendFullUpdate
    <2> QED
      BY <1>2, <1>3, <2>1, <2>2, <2>3
         DEF IInv, Bookkeeping, OwnTracked, OwnSettled, PendingShadowed, OwnSnakeShown,
             MirrorExact
  <1> QED
    BY <1>4, <1>5

LEMMA TickPartialIInv ==
  ASSUME IInv, NEW w \in Worlds, NEW snapshots, NEW sent \in SUBSET snapshots,
         NEW dropped \in BOOLEAN,
         NEW copy \in Tables(Contents),
         Repaired(view, sent \cap w.alive, copy),
         SendPartialUpdate(w, snapshots, copy, dropped),
         net' = AfterPartialUpdate(AfterSnapshots(net, snapshots), w),
         killed' = (Own \notin w.alive), fullUpdates' = FALSE, UNCHANGED requests,
         lost' \in 0 .. MaxLost
  PROVE  IInv'
  <1> DEFINE served == AfterSnapshots(net, snapshots)
             left == LeftView(net, w)
             pending == DOMAIN net.pendingRemoves
             aged == DOMAIN AgedRemoves(net)
             kept == DOMAIN copy \ pending
  <1>1. net \in NetStateType /\ SoundBooks(net)
    BY DEF IInv, TypeOK, Bookkeeping
  <1>2. /\ served \in NetStateType /\ SoundBooks(served)
        /\ served.lastVisible = net.lastVisible
        /\ served.lastType = net.lastType
        /\ served.pendingRemoves = net.pendingRemoves
    BY <1>1, SnapshotsBooks
  <1>3. LeftView(served, w) = left /\ AgedRemoves(served) = AgedRemoves(net)
    BY <1>2 DEF LeftView, AgedRemoves
  <1>4. left = net.lastVisible \ w.visible
    BY <1>1, LeftViewOfSoundBooks
  <1>5. /\ net' \in NetStateType
        /\ SoundBooks(net')
        /\ net'.lastVisible = w.visible
        /\ \A e \in w.visible : net'.lastHash[e] = w.content[e]
        /\ DOMAIN net'.pendingRemoves = aged \cup left
    <2>1. /\ net' \in NetStateType
          /\ SoundBooks(net')
          /\ net'.lastVisible = w.visible
          /\ \A e \in w.visible : net'.lastHash[e] = w.content[e]
          /\ net'.pendingRemoves = QueueRemoves(served, w)
      BY <1>2, PartialUpdateBooks
    <2>2. DOMAIN QueueRemoves(served, w) = aged \cup left
      BY <1>2, <1>3, QueueRemovesType
    <2> QED
      BY <2>1, <2>2
  <1>6. aged \subseteq pending
    BY <1>1, AgedRemovesType
  <1>7. /\ w.visible \subseteq Entities
        /\ w.alive \subseteq Snakes
        /\ Own \in w.alive => Own \in w.visible
        /\ Own \notin w.alive => Own \notin w.visible
    BY WorldType
  <1>8. /\ ~fullUpdates
        /\ killed => Own \notin w.alive
        /\ clean' = (clean /\ ~dropped)
        /\ untracked' = UntrackedAfterPartial(w, snapshots, dropped)
        /\ shadowed' = (shadowed \cup (aged \ net.lastVisible)) \cap w.visible
        /\ view' \in IF dropped THEN {copy} ELSE Applied(copy, PartialUpdate(net, w))
    BY DEF SendPartialUpdate, FullUpdateDue, Send, ShadowedAfterPartial
  <1>9. view' \in Tables(Contents)
    BY <1>1, <1>8, PartialUpdateApplied
  <1> HIDE DEF left, pending, aged, served
  <1>10. TypeOK'
    <2>1. untracked' \subseteq Entities
      BY <1>7, <1>8 DEF UntrackedAfterPartial, IInv, TypeOK
    <2>2. shadowed' \subseteq Entities
      BY <1>7, <1>8
    <2>3. killed' \in BOOLEAN /\ fullUpdates' \in BOOLEAN
      BY Zenon
    <2>4. clean' \in BOOLEAN
      BY <1>8, Zenon
    <2> QED
      BY <1>5, <1>9, <2>1, <2>2, <2>3, <2>4 DEF IInv, TypeOK
  <1>11. Bookkeeping'
    BY <1>5 DEF Bookkeeping
  <1>12. OwnTracked'
    BY <1>5, <1>7 DEF OwnTracked
  <1>13. OwnSettled'
    BY <1>4, <1>5, <1>6, <1>7, <1>8 DEF IInv, OwnTracked, OwnSettled, pending
  <1>14. PendingShadowed'
    BY <1>4, <1>5, <1>6, <1>8 DEF IInv, PendingShadowed, pending
  <1>15. ASSUME clean'
         PROVE  /\ clean
                /\ DOMAIN view' \ w.visible = kept \ (w.visible \cup left)
                /\ \A e \in w.visible \ DOMAIN view' : e \in net.lastVisible /\ e \notin kept
                /\ \A e \in w.visible \cap DOMAIN view' :
                     \/ view'[e] = w.content[e]
                     \/ /\ e \in kept \cap net.lastVisible
                        /\ e \notin Snakes
                        /\ view'[e] = copy[e]
                        /\ w.content[e] = net.lastHash[e]
    <2>1. clean /\ view' \in Applied(copy, PartialUpdate(net, w))
      BY <1>8, <1>15
    <2> QED
      BY <1>1, <2>1, PartialUpdateApplied DEF left, pending
  <1>16. OwnSnakeShown'
    BY <1>5, <1>7, <1>8, <1>15 DEF IInv, OwnTracked, OwnSettled, OwnSnakeShown, pending, Repaired
  <1>17. MirrorExact'
    <2> SUFFICES ASSUME clean'
                 PROVE  /\ DOMAIN view' \ w.visible \subseteq untracked'
                        /\ w.visible \ DOMAIN view' \subseteq shadowed'
                        /\ \A e \in DOMAIN view' \cap w.visible : view'[e] = w.content[e]
      BY <1>5 DEF MirrorExact
    <2>1. /\ DOMAIN view \ net.lastVisible \subseteq untracked
          /\ net.lastVisible \ DOMAIN view \subseteq shadowed
          /\ \A e \in DOMAIN view \cap net.lastVisible : view[e] = net.lastHash[e]
          /\ pending \cap net.lastVisible \subseteq shadowed
      BY <1>15 DEF IInv, MirrorExact, PendingShadowed, pending
    <2>2. untracked' =
            (untracked \cup (snapshots \cap w.alive)) \ (w.visible \cup pending \cup left)
      BY <1>8 DEF UntrackedAfterPartial, pending, left
    <2>3. DOMAIN view' \ w.visible \subseteq untracked'
      BY <1>4, <1>15, <2>1, <2>2 DEF Repaired
    <2>4. w.visible \ DOMAIN view' \subseteq shadowed'
      BY <1>8, <1>15, <2>1 DEF Repaired
    <2>5. ASSUME NEW e \in DOMAIN view' \cap w.visible
          PROVE  view'[e] = w.content[e]
      <3>1. CASE /\ e \in kept \cap net.lastVisible
                 /\ e \notin Snakes
                 /\ view'[e] = copy[e]
                 /\ w.content[e] = net.lastHash[e]
        <4>1. e \notin w.alive
          BY <1>7, <3>1
        <4>2. e \in DOMAIN view /\ copy[e] = view[e]
          BY <3>1, <4>1 DEF Repaired
        <4> QED
          BY <2>1, <3>1, <4>2
      <3> QED
        BY <1>15, <3>1
    <2> QED
      BY <2>3, <2>4, <2>5
  <1> QED
    BY <1>10, <1>11, <1>12, <1>13, <1>14, <1>16, <1>17 DEF IInv

LEMMA TickIInv == IInv /\ Tick => IInv'
  <1> SUFFICES ASSUME IInv, Tick PROVE IInv'
    OBVIOUS
  <1>1. PICK w \in Worlds, snapshots \in ServedSnapshots(net), dropped \in BOOLEAN :
          \E missed \in SUBSET (snapshots \cap w.alive) :
            \E copy \in Applied(view, SnakeSnapshots(w, snapshots \ missed)) :
              SendUpdates(w, snapshots, missed, copy, dropped)
    BY Zenon DEF Tick
  <1>2. PICK missed \in SUBSET (snapshots \cap w.alive) :
          \E copy \in Applied(view, SnakeSnapshots(w, snapshots \ missed)) :
            SendUpdates(w, snapshots, missed, copy, dropped)
    BY <1>1, Zenon
  <1>3. PICK copy \in Applied(view, SnakeSnapshots(w, snapshots \ missed)) :
          SendUpdates(w, snapshots, missed, copy, dropped)
    BY <1>2, Zenon
  <1> DEFINE sent == snapshots \ missed
  <1>4. copy \in Applied(view, SnakeSnapshots(w, sent)) /\ sent \in SUBSET snapshots
    OBVIOUS
  <1> HIDE DEF sent
  <1>5. view \in Tables(Contents) /\ lost \in 0 .. MaxLost
    BY DEF IInv, TypeOK
  <1>6. copy \in Tables(Contents) /\ Repaired(view, sent \cap w.alive, copy)
    BY <1>4, <1>5, SnapshotsApplied
  <1>7. lost' \in 0 .. MaxLost
    <2>1. missed \in SUBSET Snakes
      BY WorldType
    <2> QED
      BY <1>3, <1>5, <2>1, TickLost DEF SendUpdates
  <1>8. killed' = (Own \notin w.alive) /\ fullUpdates' = FALSE /\ UNCHANGED requests
    BY <1>3 DEF SendUpdates, Update
  <1>9. CASE SendFullUpdate(w, copy, dropped)
    <2>1. net' = AfterFullUpdate(AfterSnapshots(net, snapshots), w)
      BY <1>3, <1>9 DEF SendUpdates, Update, SendFullUpdate
    <2> QED
      BY <1>6, <1>7, <1>8, <1>9, <2>1, TickFullIInv
  <1>10. CASE SendPartialUpdate(w, snapshots, copy, dropped)
    <2>1. net' = AfterPartialUpdate(AfterSnapshots(net, snapshots), w)
      BY <1>3, <1>10 DEF SendUpdates, Update, SendPartialUpdate
    <2> QED
      BY <1>4, <1>6, <1>7, <1>8, <1>10, <2>1, TickPartialIInv
  <1> QED
    BY <1>3, <1>9, <1>10 DEF SendUpdates

\* A request changes nothing but what the session is owed.
LEMMA RequestIInv ==
  ASSUME IInv, NEW r \in Requests,
         ClientRequest(r) \/ DeliverRequest(r) \/ LoseRequest(r)
  PROVE  IInv'
  <1>1. /\ UNCHANGED <<killed, view, clean, untracked, shadowed>>
        /\ requests' \subseteq Requests
    BY DEF ClientRequest, DeliverRequest, LoseRequest, OnMessage, encoder, histories, IInv, TypeOK
  <1>2. lost' \in 0 .. MaxLost
    BY ReplicationAssumption DEF ClientRequest, DeliverRequest, LoseRequest, IInv, TypeOK
  <1>3. (fullUpdates' = fullUpdates \/ fullUpdates' = TRUE) /\ fullUpdates' \in BOOLEAN
    <2>1. fullUpdates' = fullUpdates \/ fullUpdates' = TRUE
      BY Zenon DEF ClientRequest, DeliverRequest, LoseRequest, OnMessage, encoder
    <2> QED
      BY <2>1, Zenon DEF IInv, TypeOK
  <1>4. /\ net' \in NetStateType
        /\ net'.lastVisible = net.lastVisible
        /\ net'.lastHash = net.lastHash
        /\ net'.lastType = net.lastType
        /\ net'.pendingRemoves = net.pendingRemoves
    <2>1. net \in NetStateType
      BY DEF IInv, TypeOK
    <2>2. CASE net' = net
      BY <2>1, <2>2
    <2>3. CASE DeliverRequest(r) /\ r.type # "RequestFullUpdate"
      <3>1. r.entityID \in Snakes
        BY <2>3 DEF Requests
      <3>2. net' = [net EXCEPT !.pendingSnakeSnapshots = @ \cup {r.entityID}]
        BY <2>3 DEF DeliverRequest, OnMessage
      <3> QED
        BY <2>1, <3>1, <3>2 DEF NetStateType
    <2> QED
      BY <2>2, <2>3 DEF ClientRequest, DeliverRequest, LoseRequest, OnMessage, encoder
  <1>5. TypeOK'
    BY <1>1, <1>2, <1>3, <1>4 DEF IInv, TypeOK
  <1> QED
    BY <1>1, <1>3, <1>4, <1>5
       DEF IInv, Bookkeeping, SoundBooks, OwnTracked, OwnSettled, PendingShadowed,
           OwnSnakeShown, MirrorExact

LEMMA StepIInv == IInv /\ [Next]_vars => IInv'
  <1> SUFFICES ASSUME IInv, [Next]_vars PROVE IInv'
    OBVIOUS
  <1>1. CASE Tick
    BY <1>1, TickIInv
  <1>2. CASE \E r \in Requests : ClientRequest(r) \/ DeliverRequest(r) \/ LoseRequest(r)
    BY <1>2, RequestIInv
  <1>3. CASE UNCHANGED vars
    BY <1>3 DEF vars, encoder, IInv, TypeOK, Bookkeeping, SoundBooks, OwnTracked, OwnSettled,
                PendingShadowed, OwnSnakeShown, MirrorExact
  <1> QED
    BY <1>1, <1>2, <1>3 DEF Next

LEMMA Invariance == Spec => []IInv
  BY InitIInv, StepIInv, PTL DEF Spec

-----------------------------------------------------------------------------
(***************************************************************************)
(* Removes and a single loss: until something is lost the copy is clean,   *)
(* so that the one update that can be lost leaves behind only what is      *)
(* queued for a Remove in that very update, or was untracked before.       *)
(***************************************************************************)

RInv == RemovesReachClient /\ (lost = 0 => clean)

LEMMA TickFullRInv ==
  ASSUME IInv, RInv, NEW w \in Worlds, NEW snapshots, NEW dropped \in BOOLEAN,
         NEW copy \in Tables(Contents),
         SendFullUpdate(w, copy, dropped),
         net' = AfterFullUpdate(AfterSnapshots(net, snapshots), w),
         dropped => lost' # 0
  PROVE  RInv'
  <1>1. AfterSnapshots(net, snapshots) \in NetStateType
    BY SnapshotsBooks DEF IInv, TypeOK, Bookkeeping
  <1>2. net'.lastVisible = w.visible
    BY <1>1, FullUpdateBooks
  <1>3. CASE dropped
    BY <1>2, <1>3 DEF SendFullUpdate, RInv, RemovesReachClient
  <1>4. CASE ~dropped
    <2>1. view' \in Applied(copy, FullUpdate(w)) /\ clean' = TRUE
      BY <1>4 DEF SendFullUpdate, Send
    <2>2. DOMAIN view' = w.visible
      BY <2>1, FullUpdateApplied
    <2> QED
      BY <1>2, <2>1, <2>2 DEF RInv, RemovesReachClient
  <1> QED
    BY <1>3, <1>4

LEMMA TickPartialRInv ==
  ASSUME IInv, RInv, NEW w \in Worlds, NEW snapshots, NEW sent \in SUBSET snapshots,
         NEW dropped \in BOOLEAN,
         NEW copy \in Tables(Contents),
         Repaired(view, sent \cap w.alive, copy),
         SendPartialUpdate(w, snapshots, copy, dropped),
         net' = AfterPartialUpdate(AfterSnapshots(net, snapshots), w),
         lost' = 0 => lost = 0 /\ ~dropped,
         lost' <= 1 => lost <= 1,
         lost' <= 1 /\ dropped => lost = 0
  PROVE  RInv'
  <1> DEFINE served == AfterSnapshots(net, snapshots)
             left == LeftView(net, w)
             pending == DOMAIN net.pendingRemoves
             queued == DOMAIN QueueRemoves(net, w)
  <1>1. net \in NetStateType /\ SoundBooks(net)
    BY DEF IInv, TypeOK, Bookkeeping
  <1>2. /\ served \in NetStateType /\ SoundBooks(served)
        /\ served.lastVisible = net.lastVisible
        /\ served.lastType = net.lastType
        /\ served.pendingRemoves = net.pendingRemoves
    BY <1>1, SnapshotsBooks
  <1>3. left = net.lastVisible \ w.visible
    BY <1>1, LeftViewOfSoundBooks
  <1>4. QueueRemoves(served, w) = QueueRemoves(net, w)
    BY <1>2 DEF QueueRemoves, LeftView, AgedRemoves, FreshRemove
  <1>5. net'.lastVisible = w.visible /\ DOMAIN net'.pendingRemoves = queued
    BY <1>2, <1>4, PartialUpdateBooks
  <1>6. left \subseteq queued
    BY <1>1, QueueRemovesType
  <1>7. DOMAIN copy = DOMAIN view \cup (sent \cap w.alive)
    BY DEF Repaired
  <1>8. /\ clean' = (clean /\ ~dropped)
        /\ untracked' = UntrackedAfterPartial(w, snapshots, dropped)
        /\ view' \in IF dropped THEN {copy} ELSE Applied(copy, PartialUpdate(net, w))
    BY DEF SendPartialUpdate, Send
  <1> HIDE DEF left, pending, queued, served
  <1>9. CASE dropped
    <2>1. view' = copy
          /\ untracked' = (untracked \cup (snapshots \cap w.alive)) \ (w.visible \cup queued)
      BY <1>8, <1>9 DEF UntrackedAfterPartial, queued
    <2>2. lost' <= 1 => DOMAIN view \ net.lastVisible \subseteq untracked
      BY <1>9 DEF RInv, IInv, MirrorExact
    <2>3. RemovesReachClient'
      BY <1>3, <1>5, <1>6, <1>7, <2>1, <2>2 DEF RemovesReachClient
    <2> QED
      BY <1>9, <2>3 DEF RInv
  <1>10. CASE ~dropped
    <2>1. /\ view' \in Applied(copy, PartialUpdate(net, w))
          /\ untracked' = (untracked \cup (snapshots \cap w.alive))
                            \ (w.visible \cup pending \cup left)
      BY <1>8, <1>10 DEF UntrackedAfterPartial, pending, left
    <2>2. DOMAIN view' \ w.visible = (DOMAIN copy \ pending) \ (w.visible \cup left)
      BY <1>1, <2>1, PartialUpdateApplied DEF pending, left
    <2>3. lost' <= 1 => DOMAIN view \ (net.lastVisible \cup pending) \subseteq untracked
      BY DEF RInv, RemovesReachClient, pending
    <2>4. RemovesReachClient'
      BY <1>3, <1>5, <1>7, <2>1, <2>2, <2>3 DEF RemovesReachClient
    <2> QED
      BY <1>8, <1>10, <2>4, Zenon DEF RInv
  <1> QED
    BY <1>9, <1>10

LEMMA TickRInv == IInv /\ RInv /\ Tick => RInv'
  <1> SUFFICES ASSUME IInv, RInv, Tick PROVE RInv'
    OBVIOUS
  <1>1. PICK w \in Worlds, snapshots \in ServedSnapshots(net), dropped \in BOOLEAN :
          \E missed \in SUBSET (snapshots \cap w.alive) :
            \E copy \in Applied(view, SnakeSnapshots(w, snapshots \ missed)) :
              SendUpdates(w, snapshots, missed, copy, dropped)
    BY Zenon DEF Tick
  <1>2. PICK missed \in SUBSET (snapshots \cap w.alive) :
          \E copy \in Applied(view, SnakeSnapshots(w, snapshots \ missed)) :
            SendUpdates(w, snapshots, missed, copy, dropped)
    BY <1>1, Zenon
  <1>3. PICK copy \in Applied(view, SnakeSnapshots(w, snapshots \ missed)) :
          SendUpdates(w, snapshots, missed, copy, dropped)
    BY <1>2, Zenon
  <1> DEFINE sent == snapshots \ missed
  <1>4. copy \in Applied(view, SnakeSnapshots(w, sent)) /\ sent \in SUBSET snapshots
    OBVIOUS
  <1> HIDE DEF sent
  <1>5. view \in Tables(Contents) /\ lost \in Nat
    BY DEF IInv, TypeOK
  <1>6. copy \in Tables(Contents) /\ Repaired(view, sent \cap w.alive, copy)
    BY <1>4, <1>5, SnapshotsApplied
  <1>7. /\ lost' = 0 => lost = 0 /\ ~dropped
        /\ lost' <= 1 => lost <= 1
        /\ lost' <= 1 /\ dropped => lost = 0
        /\ dropped => lost' # 0
    <2>1. missed \in SUBSET Snakes
      BY WorldType
    <2>2. Cardinality(missed) \in Nat
      BY <2>1, NetStateAssumption, FS_Subset, FS_CardinalityType
    <2>3. lost' = lost + Cardinality(missed) + (IF dropped THEN 1 ELSE 0)
      BY <1>3 DEF SendUpdates
    <2> QED
      BY <1>5, <2>2, <2>3
  <1>8. CASE SendFullUpdate(w, copy, dropped)
    <2>1. net' = AfterFullUpdate(AfterSnapshots(net, snapshots), w)
      BY <1>3, <1>8 DEF SendUpdates, Update, SendFullUpdate
    <2> QED
      BY <1>6, <1>7, <1>8, <2>1, TickFullRInv
  <1>9. CASE SendPartialUpdate(w, snapshots, copy, dropped)
    <2>1. net' = AfterPartialUpdate(AfterSnapshots(net, snapshots), w)
      BY <1>3, <1>9 DEF SendUpdates, Update, SendPartialUpdate
    <2> QED
      BY <1>4, <1>6, <1>7, <1>9, <2>1, TickPartialRInv
  <1> QED
    BY <1>3, <1>8, <1>9 DEF SendUpdates

LEMMA StepRInv == IInv /\ RInv /\ [Next]_vars => RInv'
  <1> SUFFICES ASSUME IInv, RInv, [Next]_vars PROVE RInv'
    OBVIOUS
  <1>1. CASE Tick
    BY <1>1, TickRInv
  <1>2. ASSUME NEW r \in Requests, ClientRequest(r) \/ DeliverRequest(r) \/ LoseRequest(r)
        PROVE  RInv'
    <2>1. UNCHANGED <<view, clean, untracked>> /\ (lost' = lost \/ lost' = lost + 1)
      BY <1>2 DEF ClientRequest, DeliverRequest, LoseRequest, histories, encoder
    <2>2. net'.lastVisible = net.lastVisible /\ net'.pendingRemoves = net.pendingRemoves
      BY <1>2 DEF ClientRequest, DeliverRequest, LoseRequest, OnMessage, encoder,
                  IInv, TypeOK, NetStateType
    <2>3. lost \in Nat
      BY DEF IInv, TypeOK
    <2> QED
      BY <2>1, <2>2, <2>3 DEF RInv, RemovesReachClient
  <1>3. CASE UNCHANGED vars
    BY <1>3 DEF vars, encoder, RInv, RemovesReachClient
  <1> QED
    BY <1>1, <1>2, <1>3 DEF Next

-----------------------------------------------------------------------------
(***************************************************************************)
(* The theorems.                                                           *)
(***************************************************************************)

\* Every variable keeps its type, whatever is sent, lost and asked for.
THEOREM TypeCorrect == Spec => []TypeOK
  <1>1. IInv => TypeOK
    BY DEF IInv
  <1> QED
    BY <1>1, Invariance, PTL

\* SendPartialUpdate and SendFullUpdate keep lastVisible, lastHash, lastType
\* and pendingRemoves consistent with each other.
THEOREM BookkeepingHolds == Spec => []Bookkeeping
  <1>1. IInv => Bookkeeping
    BY DEF IInv
  <1> QED
    BY <1>1, Invariance, PTL

\* The delta encoding keeps the copy of a client that lost no update since the
\* last full one equal to what the server believes, up to untracked and
\* shadowed entities.
THEOREM MirrorExactHolds == Spec => []MirrorExact
  <1>1. IInv => MirrorExact
    BY DEF IInv
  <1> QED
    BY <1>1, Invariance, PTL

\* The player's own snake never disappears from a copy while it lives, through
\* any number of deaths and respawns.
THEOREM OwnSnakeShownHolds == Spec => []OwnSnakeShown
  <1>1. IInv => OwnSnakeShown
    BY DEF IInv
  <1> QED
    BY <1>1, Invariance, PTL

\* With at most one datagram lost, whatever the client holds that is out of
\* view is still being removed, or untracked: the retries of SendPartialUpdate
\* are enough for one loss.
THEOREM RemovesReachClientHolds == Spec => []RemovesReachClient
  <1>1. Init => RInv
    BY EmptyTable DEF Init, RInv, RemovesReachClient
  <1>2. RInv => RemovesReachClient
    BY DEF RInv
  <1> QED
    BY <1>1, <1>2, StepRInv, Invariance, PTL DEF Spec

\* The tick that answers a RequestFullUpdate leaves client and server in
\* agreement, whatever was lost before, if the FullUpdate itself arrives.
THEOREM FullUpdateSyncsHolds == Spec => FullUpdateSyncs
  <1>1. ASSUME IInv, Tick, fullUpdates, clean'
        PROVE  InSync'
    <2>1. PICK w \in Worlds, snapshots \in ServedSnapshots(net), dropped \in BOOLEAN :
            \E missed \in SUBSET (snapshots \cap w.alive) :
              \E copy \in Applied(view, SnakeSnapshots(w, snapshots \ missed)) :
                SendUpdates(w, snapshots, missed, copy, dropped)
      BY <1>1, Zenon DEF Tick
    <2>2. PICK missed \in SUBSET (snapshots \cap w.alive) :
            \E copy \in Applied(view, SnakeSnapshots(w, snapshots \ missed)) :
              SendUpdates(w, snapshots, missed, copy, dropped)
      BY <2>1, Zenon
    <2>3. PICK copy \in Applied(view, SnakeSnapshots(w, snapshots \ missed)) :
            SendUpdates(w, snapshots, missed, copy, dropped)
      BY <2>2, Zenon
    <2>4. copy \in Tables(Contents)
      <3>1. view \in Tables(Contents)
        BY <1>1 DEF IInv, TypeOK
      <3> QED
        BY <2>3, <3>1, SnapshotsApplied
    <2>5. /\ SendFullUpdate(w, copy, dropped)
          /\ net' = AfterFullUpdate(AfterSnapshots(net, snapshots), w)
      BY <1>1, <2>3 DEF SendUpdates, SendPartialUpdate, FullUpdateDue, Update
    <2>6. view' \in Applied(copy, FullUpdate(w))
      BY <1>1, <2>5 DEF SendFullUpdate, Send
    <2>7. AfterSnapshots(net, snapshots) \in NetStateType
      BY <1>1, SnapshotsBooks DEF IInv, TypeOK, Bookkeeping
    <2>8. /\ net'.lastVisible = w.visible
          /\ \A e \in w.visible : net'.lastHash[e] = w.content[e]
          /\ DOMAIN net'.pendingRemoves = {}
      BY <2>5, <2>7, FullUpdateBooks
    <2>9. DOMAIN view' = w.visible /\ \A e \in w.visible : view'[e] = w.content[e]
      BY <2>4, <2>6, FullUpdateApplied
    <2> QED
      BY <2>8, <2>9 DEF InSync
  <1>2. ASSUME IInv, [Next]_vars, fullUpdates, ~fullUpdates', clean'
        PROVE  InSync'
    <2>1. CASE Tick
      BY <1>1, <1>2, <2>1
    <2>2. CASE \E r \in Requests : ClientRequest(r) \/ DeliverRequest(r) \/ LoseRequest(r)
      BY <1>2, <2>2, Zenon DEF ClientRequest, DeliverRequest, LoseRequest, OnMessage, encoder
    <2>3. CASE UNCHANGED vars
      BY <1>2, <2>3 DEF vars, encoder
    <2> QED
      BY <1>2, <2>1, <2>2, <2>3 DEF Next
  <1>3. IInv /\ [Next]_vars => [fullUpdates /\ ~fullUpdates' /\ clean' => InSync']_vars
    BY <1>2
  <1> QED
    BY <1>3, Invariance, PTL DEF Spec, FullUpdateSyncs
=============================================================================
