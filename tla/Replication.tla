---------------------------- MODULE Replication ----------------------------
(***************************************************************************)
(* One UDP session of a game server and the client behind it.  On every    *)
(* frame that sends, GameServer::ProcessTick moves the game and tells the  *)
(* session what has changed in its view; the client keeps a copy of what   *)
(* it was told.  Datagrams are lost in both directions; requests are also  *)
(* delayed, reordered and duplicated.                                      *)
(*                                                                         *)
(* The client and the network are not in the repository.  The client is    *)
(* modelled from the messages it is sent: it applies the entries of a      *)
(* message in order, a FullUpdate replaces its copy, and it drops a        *)
(* message older than the last one it applied (what updateSeq is for), so  *)
(* a late server message is a lost one and updateSeq is not modelled.      *)
(***************************************************************************)
EXTENDS Encoder

CONSTANT MaxLost   \* bound on the datagrams lost, in both directions together

ASSUME ReplicationAssumption == MaxLost \in Nat

VARIABLES
  view,          \* the client's copy: entity ID -> the state it was told
  requests,      \* client datagrams in flight
  lost,          \* datagrams lost so far
  clean,         \* history variables: see below
  untracked,
  shadowed

vars == <<encoder, view, requests, lost, clean, untracked, shadowed>>

histories == <<clean, untracked, shadowed>>

-----------------------------------------------------------------------------
(***************************************************************************)
(* The client.                                                             *)
(***************************************************************************)

\* The entries of a message that the client applies to a copy of the
\* entities ids: a New always, an Update of an entity it does not hold or not.
Accepted(packet, ids) ==
  {got \in SUBSET DOMAIN packet.entries :
     \A e \in DOMAIN packet.entries \ got :
        packet.entries[e].flags = "Update" /\ e \notin ids}

\* The copies a client that holds copy may hold after the message: Removes
\* that are retried come first, then the entities, then the new Removes.
Applied(copy, packet) ==
  LET base == IF packet.kind = "FullUpdate" THEN {} ELSE DOMAIN copy \ packet.retried
  IN  {[e \in (base \cup got) \ packet.removed |->
          IF e \in got THEN packet.entries[e].content ELSE copy[e]] :
         got \in Accepted(packet, base)}

-----------------------------------------------------------------------------
(***************************************************************************)
(* Histories, for stating what the copy may differ in.                     *)
(*                                                                         *)
(* clean: no update was lost since the last FullUpdate that arrived.       *)
(*                                                                         *)
(* untracked: entities the client may hold although they are out of view   *)
(* and no Remove is left to be sent: those it was sent in a SnakeSnapshot, *)
(* and those it held when a FullUpdate was lost.                           *)
(*                                                                         *)
(* shadowed: visible entities for which a Remove was still counting down   *)
(* when they came back into view, so that they are removed again.          *)
(***************************************************************************)

UntrackedAfterPartial(world, snapshots, dropped) ==
  LET removed == IF dropped THEN DOMAIN QueueRemoves(net, world)
                            ELSE DOMAIN net.pendingRemoves \cup LeftView(net, world)
  IN  (untracked \cup (snapshots \cap world.alive)) \ (world.visible \cup removed)

ShadowedAfterPartial(world) ==
  (shadowed \cup (DOMAIN AgedRemoves(net) \ net.lastVisible)) \cap world.visible

-----------------------------------------------------------------------------
(***************************************************************************)
(* Actions.                                                                *)
(***************************************************************************)

Init ==
  /\ EncoderInit
  /\ view = NoEntries
  /\ requests = {}
  /\ lost = 0
  /\ clean = TRUE
  /\ untracked = {}
  /\ shadowed = {}

\* A message leaves for a client that holds copy, and arrives or not.
Send(packet, copy, dropped) ==
  /\ dropped => ~IsEmpty(packet)
  /\ view' \in IF dropped THEN {copy} ELSE Applied(copy, packet)

SendFullUpdate(world, copy, dropped) ==
  /\ FullUpdateDue(world)
  /\ Send(FullUpdate(world), copy, dropped)
  /\ clean' = ~dropped
  /\ untracked' = IF dropped THEN DOMAIN view' \ world.visible ELSE {}
  /\ shadowed' = {}

SendPartialUpdate(world, snapshots, copy, dropped) ==
  /\ ~FullUpdateDue(world)
  /\ Send(PartialUpdate(net, world), copy, dropped)
  /\ clean' = (clean /\ ~dropped)
  /\ untracked' = UntrackedAfterPartial(world, snapshots, dropped)
  /\ shadowed' = ShadowedAfterPartial(world)

\* The snapshots, of which some are missed, leave the client with copy; then
\* comes the full or the partial update.
SendUpdates(world, snapshots, missed, copy, dropped) ==
  /\ lost' = lost + Cardinality(missed) + (IF dropped THEN 1 ELSE 0)
  /\ lost' <= MaxLost
  /\ \/ SendFullUpdate(world, copy, dropped)
     \/ SendPartialUpdate(world, snapshots, copy, dropped)
  /\ Update(world, snapshots)
  /\ UNCHANGED requests

Tick ==
  \E world \in Worlds, snapshots \in ServedSnapshots(net), dropped \in BOOLEAN :
    \E missed \in SUBSET (snapshots \cap world.alive) :
      \E copy \in Applied(view, SnakeSnapshots(world, snapshots \ missed)) :
        SendUpdates(world, snapshots, missed, copy, dropped)

\* The client asks for a repair of its copy.
ClientRequest(r) ==
  /\ requests' = requests \cup {r}
  /\ r \notin requests
  /\ UNCHANGED <<encoder, view, lost, histories>>

\* A request arrives; the network may keep a duplicate of it.
DeliverRequest(r) ==
  /\ r \in requests
  /\ OnMessage(r)
  /\ requests' \in {requests, requests \ {r}}
  /\ UNCHANGED <<view, lost, histories>>

LoseRequest(r) ==
  /\ r \in requests
  /\ lost < MaxLost
  /\ lost' = lost + 1
  /\ requests' = requests \ {r}
  /\ UNCHANGED <<encoder, view, histories>>

Next ==
  \/ Tick
  \/ \E r \in Requests : ClientRequest(r) \/ DeliverRequest(r) \/ LoseRequest(r)

Spec == Init /\ [][Next]_vars

-----------------------------------------------------------------------------
(***************************************************************************)
(* Properties.                                                             *)
(***************************************************************************)

NetStateType ==
  [lastVisible           : SUBSET Entities,
   lastHash              : Tables(Contents),
   lastType              : Tables({"Snake", "Food"}),
   pendingRemoves        : Tables(PendingRemove),
   pendingSnakeSnapshots : SUBSET Snakes]

TypeOK ==
  /\ killed \in BOOLEAN
  /\ fullUpdates \in BOOLEAN
  /\ net \in NetStateType
  /\ view \in Tables(Contents)
  /\ requests \subseteq Requests
  /\ lost \in 0 .. MaxLost
  /\ clean \in BOOLEAN
  /\ untracked \subseteq Entities
  /\ shadowed \subseteq Entities

\* The three containers that record what was sent agree: lastHash and
\* lastType know exactly the entities of lastVisible, each with its own type,
\* and a pending Remove carries the type of the entity it removes.
\* (SendPartialUpdate writes them at different places, and takes New or Update
\* from the one and the Removes from another.)
SoundBooks(ns) ==
  /\ DOMAIN ns.lastHash = ns.lastVisible
  /\ DOMAIN ns.lastType = ns.lastVisible
  /\ \A e \in ns.lastVisible : ns.lastType[e] = EntityType(e)
  /\ \A e \in DOMAIN ns.pendingRemoves : ns.pendingRemoves[e].type = EntityType(e)

Bookkeeping == SoundBooks(net)

\* The delta encoding is sound: as long as no update was lost since the last
\* full one, the client's copy is what the server believes it to be, entity by
\* entity and state by state, but for untracked entities it holds and shadowed
\* ones it lacks.
MirrorExact ==
  clean =>
    /\ DOMAIN view \ net.lastVisible \subseteq untracked
    /\ net.lastVisible \ DOMAIN view \subseteq shadowed
    /\ \A e \in DOMAIN view \cap net.lastVisible : view[e] = net.lastHash[e]

\* A player whose snake lives and was shown since the last loss keeps seeing
\* it, through deaths and respawns: the Removes that its death left pending
\* never reach the client after the respawn.
OwnSnakeShown ==
  clean /\ Own \in net.lastVisible => Own \in DOMAIN view

\* The retries of a Remove do their work: with one datagram lost, the client
\* holds nothing that is out of view and no longer being removed, except what
\* is untracked.
RemovesReachClient ==
  lost <= 1 =>
    DOMAIN view \ (net.lastVisible \cup DOMAIN net.pendingRemoves) \subseteq untracked

\* A full update repairs the copy: the tick that answers a request for one
\* leaves client and server in agreement, with no Remove left to be sent,
\* whatever the losses before, unless the full update itself is lost.
InSync ==
  /\ DOMAIN view = net.lastVisible
  /\ \A e \in DOMAIN view : view[e] = net.lastHash[e]
  /\ DOMAIN net.pendingRemoves = {}

FullUpdateSyncs ==
  [][fullUpdates /\ ~fullUpdates' /\ clean' => InSync']_vars

\* A Remove is for what was visible, but now is not (the comment above the
\* Removes of SendPartialUpdate): no message makes the client drop an entity
\* that the server shows it.
RemovesOnlyTheGone ==
  [][\A e \in DOMAIN view \ DOMAIN view' : e \notin net'.lastVisible]_vars
=============================================================================
