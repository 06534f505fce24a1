------------------------------ MODULE NetState ------------------------------
(***************************************************************************)
(* The delta encoder of a game server: what one session has been told      *)
(* (GameServer::SessionNetState) and the three messages that are computed  *)
(* from it, PartialUpdate, FullUpdate and SnakeSnapshot.                   *)
(*                                                                         *)
(* Everything here is an operator on a session's state ns and on the world *)
(* as that session's snake sees it:                                        *)
(*   world.alive    the snakes of snakes_ that are not killed              *)
(*   world.visible  what the visibility tests of the senders let through   *)
(*   world.content  what HashBytes tells apart of an entity's state        *)
(*                                                                         *)
(* Left out: updateSeq, which only numbers the messages (Replication says  *)
(* what its receiver can rely on), and fullUpdateAllSegmentsNext, which    *)
(* nothing reads.  HashBytes is taken to be injective.                     *)
(***************************************************************************)
EXTENDS Integers, FiniteSets

CONSTANTS
  Snakes,            \* entity IDs given to snakes
  Foods,             \* entity IDs given to foods
  Contents,          \* the states of an entity that the hash tells apart
  Retries,           \* pr.retries of a fresh PendingRemove, 20 in the code
  SnapshotsPerTick   \* perTickLimit, 8 in the code

ASSUME NetStateAssumption ==
  /\ Snakes \cap Foods = {}      \* nextEntityID_++ serves both
  /\ IsFiniteSet(Snakes)         \* IDs are std::uint32_t
  /\ IsFiniteSet(Foods)
  /\ Contents # {}
  /\ Retries \in 1 .. 255        \* std::uint8_t
  /\ SnapshotsPerTick \in Nat \ {0}

Entities == Snakes \cup Foods

EntityType(e) == IF e \in Snakes THEN "Snake" ELSE "Food"

PendingRemove == [type : {"Snake", "Food"}, retries : 1 .. Retries]

\* Tables from the entities a session knows to what it knows of them.
Tables(S) == UNION {[ids -> S] : ids \in SUBSET Entities}

NoEntries == [e \in {} |-> FALSE]

InitNetState ==
  [lastVisible           |-> {},
   lastHash              |-> NoEntries,
   lastType              |-> NoEntries,
   pendingRemoves        |-> NoEntries,
   pendingSnakeSnapshots |-> {}]

-----------------------------------------------------------------------------
(***************************************************************************)
(* Removes.  A Remove is written when the entity leaves the view and again *)
(* in each of the next Retries partial updates.                            *)
(***************************************************************************)

\* Mutant: an entry is not erased when its count reaches zero.
AgedRemovesNotErased(ns) ==
  [e \in DOMAIN ns.pendingRemoves |-> [ns.pendingRemoves[e] EXCEPT !.retries = @ - 1]]

\* The retry loop: every pending Remove is written, counted down, and erased
\* when the count reaches zero.
AgedRemoves(ns) ==
  [e \in {r \in DOMAIN ns.pendingRemoves : ns.pendingRemoves[r].retries > 1} |->
     [ns.pendingRemoves[e] EXCEPT !.retries = @ - 1]]

\* What QueueRemove is called for and does not refuse.
LeftView(ns, world) == (ns.lastVisible \ world.visible) \cap DOMAIN ns.lastType

\* Mutant: lastType is read after the entry was erased.
FreshRemoveErased(ns, e) == [type |-> "Food", retries |-> Retries]

FreshRemove(ns, e) == [type |-> ns.lastType[e], retries |-> Retries]

\* Mutant: a Remove is written once and not retried.
QueueRemovesOnce(ns, world) == AgedRemoves(ns)

\* pendingRemoves after QueueRemove: an entry that is still counting down is
\* kept as it is.
QueueRemoves(ns, world) ==
  LET aged == AgedRemoves(ns)
  IN  [e \in DOMAIN aged \cup LeftView(ns, world) |->
         IF e \in DOMAIN aged THEN aged[e] ELSE FreshRemove(ns, e)]

-----------------------------------------------------------------------------
(***************************************************************************)
(* Messages.  retried and removed are the Remove entries written before    *)
(* and after the other ones; entries gives the flags and the state of each *)
(* entity that is written.                                                 *)
(***************************************************************************)

\* Mutant: the hash of a known food is not compared.
WrittenWhenNew(ns, world) ==
  {e \in world.visible : e \in Snakes \/ e \notin DOMAIN ns.lastHash}

\* The visible entities that have no hash yet or another one: what is recorded
\* of them is written anew.
Recorded(ns, world) ==
  {e \in world.visible : e \notin DOMAIN ns.lastHash \/ ns.lastHash[e] # world.content[e]}

\* A visible snake is always written, a visible food when it is new to the
\* session or has changed.
Written(ns, world) == (world.visible \cap Snakes) \cup Recorded(ns, world)

PartialUpdate(ns, world) ==
  [kind    |-> "PartialUpdate",
   retried |-> DOMAIN ns.pendingRemoves,
   entries |-> [e \in Written(ns, world) |->
                  [flags   |-> IF e \in DOMAIN ns.lastHash THEN "Update" ELSE "New",
                   content |-> world.content[e]]],
   removed |-> LeftView(ns, world)]

AllNew(world, ids) == [e \in ids |-> [flags |-> "New", content |-> world.content[e]]]

FullUpdate(world) ==
  [kind    |-> "FullUpdate",
   retried |-> {},
   entries |-> AllNew(world, world.visible),
   removed |-> {}]

\* One SnakeSnapshot message for each requested snake that still lives.
SnakeSnapshots(world, ids) ==
  [kind    |-> "SnakeSnapshot",
   retried |-> {},
   entries |-> AllNew(world, ids \cap world.alive),
   removed |-> {}]

\* A partial update with nothing in it is not sent.
IsEmpty(packet) ==
  /\ packet.kind # "FullUpdate"
  /\ packet.retried \cup DOMAIN packet.entries \cup packet.removed = {}

-----------------------------------------------------------------------------
(***************************************************************************)
(* The session's state after each message.                                 *)
(***************************************************************************)

\* Mutant: QueueRemove does not erase from lastHash and lastType.
KnownForEver(table, ns, world) == DOMAIN table \cup Recorded(ns, world)

\* Mutant: QueueRemove erases from lastHash only.
TypeKnownForEver(table, ns, world) ==
  (DOMAIN table \ IF table = ns.lastHash THEN LeftView(ns, world) ELSE {})
    \cup Recorded(ns, world)

\* The entities that lastHash, or lastType, knows afterwards: QueueRemove erases
\* from each of them what has left.
Known(table, ns, world) == (DOMAIN table \ LeftView(ns, world)) \cup Recorded(ns, world)

AfterPartialUpdate(ns, world) ==
  LET recorded == Recorded(ns, world)
  IN  [ns EXCEPT
         !.lastVisible    = world.visible,
         !.lastHash       = [e \in Known(ns.lastHash, ns, world) |->
                               IF e \in recorded THEN world.content[e] ELSE ns.lastHash[e]],
         !.lastType       = [e \in Known(ns.lastType, ns, world) |->
                               IF e \in recorded THEN EntityType(e) ELSE ns.lastType[e]],
         !.pendingRemoves = QueueRemoves(ns, world)]

\* Mutant: SendFullUpdate does not clear pendingRemoves.
AfterFullUpdateUncleared(ns, world) ==
  [ns EXCEPT
     !.lastVisible    = world.visible,
     !.lastHash       = [e \in world.visible |-> world.content[e]],
     !.lastType       = [e \in world.visible |-> EntityType(e)]]

AfterFullUpdate(ns, world) ==
  [ns EXCEPT
     !.lastVisible    = world.visible,
     !.lastHash       = [e \in world.visible |-> world.content[e]],
     !.lastType       = [e \in world.visible |-> EntityType(e)],
     !.pendingRemoves = NoEntries]

\* A tick serves all pending snapshots, or the first perTickLimit the
\* unordered_set yields, whichever those are.
ServedSnapshots(ns) ==
  {ids \in SUBSET ns.pendingSnakeSnapshots :
     /\ Cardinality(ids) <= SnapshotsPerTick
     /\ ids # ns.pendingSnakeSnapshots => Cardinality(ids) = SnapshotsPerTick}

\* Mutant: a served snapshot stays pending.
AfterSnapshotsKept(ns, ids) == ns

AfterSnapshots(ns, ids) ==
  [ns EXCEPT !.pendingSnakeSnapshots = @ \ ids]
=============================================================================
