------------------------------ MODULE Encoder ------------------------------
(***************************************************************************)
(* What a game server does for one UDP session from its connection on: in  *)
(* each tick it takes from net what the session is told of the world, a    *)
(* full update if one was asked for or if the session's snake respawned in *)
(* this tick, and else a partial one.                                      *)
(*                                                                         *)
(* Replication puts a network and a client behind it.  GameSession shows   *)
(* that a game server, whose tick moves all snakes and then serves all     *)
(* sessions, does this for each of them.                                   *)
(***************************************************************************)
EXTENDS NetState

CONSTANT Own   \* the snake of this session

ASSUME EncoderAssumption == Own \in Snakes

VARIABLES
  killed,        \* snake->IsKilled() for the session's snake, when last told
  fullUpdates,   \* a full update was asked for since
  net            \* netState_[session]

encoder == <<killed, fullUpdates, net>>

Requests ==
  [type : {"RequestFullUpdate"}]
    \cup [type : {"RequestSnakeSnapshot"}, entityID : Snakes]

\* The worlds the session's snake can find itself in.  The senders skip killed
\* snakes; the visibility test lets the own snake through, and of the others
\* any, as if it chose freely.
Worlds ==
  {w \in [alive : SUBSET Snakes, visible : SUBSET Entities, content : [Entities -> Contents]] :
     /\ w.visible \cap Snakes \subseteq w.alive
     /\ Own \in w.alive => Own \in w.visible}

\* OnSessionConnected: RespawnSnake asks for a full update of a session that
\* has been told nothing.
EncoderInit ==
  /\ killed = FALSE
  /\ fullUpdates = TRUE
  /\ net = InitNetState

\* Mutant: RespawnSnake does not ask for a full update.
FullUpdateDueOnRequest(world) == fullUpdates

\* The session's snake respawns in this tick: RespawnSnake inserts into
\* fullUpdates_ before ProcessTick looks at it.
FullUpdateDue(world) == fullUpdates \/ (killed /\ Own \in world.alive)

\* The part of ProcessTick that is about this session: the snapshots, the
\* full or the partial update, and fullUpdates_.clear().
Update(world, snapshots) ==
  /\ net' = IF FullUpdateDue(world)
            THEN AfterFullUpdate(AfterSnapshots(net, snapshots), world)
            ELSE AfterPartialUpdate(AfterSnapshots(net, snapshots), world)
  /\ killed' = (Own \notin world.alive)
  /\ fullUpdates' = FALSE

\* OnMessage, for the two kinds of request.
OnMessage(r) ==
  /\ IF r.type = "RequestFullUpdate"
     THEN /\ fullUpdates' = TRUE
          /\ UNCHANGED net
     ELSE /\ net' = [net EXCEPT !.pendingSnakeSnapshots = @ \cup {r.entityID}]
          /\ UNCHANGED fullUpdates
  /\ UNCHANGED killed

EncoderNext ==
  \/ \E world \in Worlds, snapshots \in ServedSnapshots(net) : Update(world, snapshots)
  \/ \E r \in Requests : OnMessage(r)

EncoderSpec == EncoderInit /\ [][EncoderNext]_encoder
=============================================================================
