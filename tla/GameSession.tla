---------------------------- MODULE GameSession ----------------------------
(***************************************************************************)
(* A game server together with what it tells one of its sessions, Viewer:  *)
(* the tick of GameServer decides who lives and which sessions are due a   *)
(* full update, and its SendUpdates serves Viewer with the messages of     *)
(* NetState.  The claim is that, seen from Viewer, all this is Encoder:    *)
(* what Replication takes for the behaviour of one server.                 *)
(***************************************************************************)
EXTENDS GameServer

CONSTANTS
  Viewer,            \* the session that is looked at
  FoodIDs,           \* entity IDs given to foods
  Contents,          \* as in NetState
  Retries,
  SnapshotsPerTick

ASSUME GameSessionAssumption ==
  /\ Viewer \in Sessions
  /\ Sessions \cap FoodIDs = {}
  /\ IsFiniteSet(FoodIDs)
  /\ Contents # {}
  /\ Retries \in 1 .. 255
  /\ SnapshotsPerTick \in Nat \ {0}

VARIABLES
  net,         \* netState_[Viewer], or as it was when Viewer disconnected
  wasKilled,   \* history: whether Viewer's snake was dead when last told
  asked        \* history: Viewer connected, or asked for a full update, since

viewer == <<net, wasKilled, asked>>

Slice == INSTANCE Encoder WITH
  Snakes <- Sessions, Foods <- FoodIDs, Own <- Viewer,
  killed <- wasKilled, fullUpdates <- asked

-----------------------------------------------------------------------------
(***************************************************************************)
(* Actions: those of GameServer, with what they do to Viewer's records.    *)
(***************************************************************************)

SessionInit ==
  /\ Init
  /\ net = Slice!InitNetState
  /\ wasKilled = FALSE
  /\ asked = TRUE

\* The worlds that the game of this moment is for Viewer.
ViewersWorlds == {world \in Slice!Worlds : world.alive = Living}

\* Viewer's turn in the loop over sessions_ finds it in fullUpdates_ or not.
Told(world, served) ==
  IF Viewer \in fullUpdates
  THEN Slice!AfterFullUpdate(served, world)
  ELSE Slice!AfterPartialUpdate(served, world)

SendViewersUpdates ==
  /\ SendUpdates
  /\ IF Viewer \in sessions
     THEN /\ \E world \in ViewersWorlds, snapshots \in Slice!ServedSnapshots(net) :
               net' = Told(world, Slice!AfterSnapshots(net, snapshots))
          /\ wasKilled' = (Viewer \in killed)
          /\ asked' = FALSE
     ELSE UNCHANGED viewer

\* Requests of Viewer and of others.
ViewersRequest ==
  \/ /\ RequestFullUpdate(Viewer)
     /\ asked' = TRUE
     /\ UNCHANGED <<net, wasKilled>>
  \/ /\ RequestSnakeSnapshot(Viewer)
     /\ \E id \in Sessions : net' = [net EXCEPT !.pendingSnakeSnapshots = @ \cup {id}]
     /\ UNCHANGED <<wasKilled, asked>>

OthersRequest ==
  /\ \E s \in Sessions \ {Viewer} : RequestFullUpdate(s) \/ RequestSnakeSnapshot(s)
  /\ UNCHANGED viewer

\* Nothing is told, also not by connecting: the entry of a session that is
\* new is made by the first SendUpdates or by a request.
Unseen ==
  /\ \/ BeginTick
     \/ \E s \in Sessions : ProcessSnake(s)
     \/ ProcessKills
     \/ GenerateFoods
     \/ EndTick
     \/ \E s \in Sessions : OnSessionConnected(s) \/ OnSessionDisconnected(s)
     \/ \E s \in Sessions, player \in Players : SetSSIDPlayer(s, player)
     \/ GetLeaderboard
  /\ UNCHANGED viewer

SessionNext == SendViewersUpdates \/ ViewersRequest \/ OthersRequest \/ Unseen

SessionSpec == SessionInit /\ [][SessionNext]_<<vars, viewer>>

\* The fairness of GameServer's tick.
FairSessionSpec ==
  SessionSpec /\ WF_<<vars, viewer>>(SendViewersUpdates \/ (TickStep /\ Unseen))

-----------------------------------------------------------------------------
\* However the tick's loops are ordered, and whoever else connects, dies or
\* leaves meanwhile, Viewer is served as Encoder promises: one update for each
\* tick that sends, full in the very tick of its respawn and after it asked,
\* partial otherwise, over records that no other session's events disturb.
ServedAsEncoder == Slice!EncoderSpec

\* A requested snapshot is not starved by the limit per tick: once Viewer
\* stays connected and requests no more of them, all those pending are served
\* in the end, whatever the game and the other sessions do meanwhile.
PendingServed ==
  (/\ <>[](Viewer \in sessions)
   /\ <>[][net'.pendingSnakeSnapshots \subseteq net.pendingSnakeSnapshots]_net)
    => <>[](net.pendingSnakeSnapshots = {})
=============================================================================
