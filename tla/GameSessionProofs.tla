------------------------- MODULE GameSessionProofs -------------------------
(***************************************************************************)
(* Proof that a game server serves each of its sessions as Encoder does,   *)
(* for any sessions, foods and states of entities.  It rests on the        *)
(* inductive invariant of GameServer, since a session sees of the game     *)
(* only what the containers of GameServer agree on.                        *)
(***************************************************************************)
EXTENDS GameSession, GameServerProofs

\* What fullUpdates_ stands for: the session asked, or its snake has
\* respawned since it was last told.
DueIsDue ==
  Viewer \in sessions =>
    (Viewer \in fullUpdates <=> asked \/ (wasKilled /\ Viewer \notin killed))

\* Until the snake has had its turn, it is as it was when last told.
AsLastTold ==
  Viewer \in sessions /\ (pc \in {"udp", "idle"} \/ Viewer \in todo) =>
    (wasKilled <=> Viewer \in killed)

\* A session is new until it connects.
NewIsAsked == Viewer \in unused => asked /\ ~wasKilled

SessionIInv ==
  /\ IInv
  /\ pc \in {"idle", "snakes", "foods", "send", "udp"}
  /\ DueIsDue
  /\ AsLastTold
  /\ NewIsAsked

-----------------------------------------------------------------------------
LEMMA SessionInitIInv == SessionInit => SessionIInv
BY InitIInv DEF SessionInit, Init, SessionIInv, DueIsDue, AsLastTold, NewIsAsked

\* A step of the session is one of the game server.
LEMMA SessionStep == SessionNext => Next
<1>. SUFFICES ASSUME SessionNext PROVE Next
  OBVIOUS
<1>1. CASE SendViewersUpdates
  BY <1>1 DEF SendViewersUpdates, Next, TickStep
<1>2. CASE ViewersRequest \/ OthersRequest
  BY <1>2, GameSessionAssumption DEF ViewersRequest, OthersRequest, Next, Callback
<1>3. CASE Unseen
  BY <1>3 DEF Unseen, Next, TickStep, Callback
<1>. QED  BY <1>1, <1>2, <1>3 DEF SessionNext

LEMMA ProcessSnakeSession ==
  ASSUME SessionIInv, NEW s \in Sessions, ProcessSnake(s), UNCHANGED viewer
  PROVE  DueIsDue' /\ AsLastTold' /\ NewIsAsked'
<1>1. /\ pc = "snakes" /\ pc' = "snakes" /\ s \in todo /\ todo' = todo \ {s}
      /\ UNCHANGED <<sessions, unused, asked, wasKilled>>
  BY DEF ProcessSnake, ProcessKilledSnake, LeaveArea, Move, maps, viewer
<1>2. /\ \A t \in Sessions \ {s} : t \in killed' <=> t \in killed
      /\ \A t \in Sessions \ {s} : t \in fullUpdates' <=> t \in fullUpdates
      /\ \/ s \in killed /\ s \notin killed' /\ s \in fullUpdates'
         \/ s \in killed /\ s \in killed' /\ UNCHANGED fullUpdates
         \/ s \notin killed /\ UNCHANGED fullUpdates
  <2>1. CASE ProcessKilledSnake(s)
    BY <2>1 DEF ProcessKilledSnake, RespawnSnake, AskForFullUpdate, updates
  <2>2. CASE LeaveArea(s)
    BY <2>2 DEF LeaveArea, KillSnake, updates
  <2>3. CASE Move(s)
    BY <2>3 DEF Move, KillSnake, updates
  <2>. QED  BY <2>1, <2>2, <2>3 DEF ProcessSnake
<1>. QED
  BY <1>1, <1>2, GameSessionAssumption DEF SessionIInv, DueIsDue, AsLastTold, NewIsAsked

LEMMA UnseenSession ==
  ASSUME SessionIInv, Unseen
  PROVE  SessionIInv'
<1>. USE GameSessionAssumption
<1>1. IInv' /\ UNCHANGED viewer
  <2>1. Next
    BY SessionStep DEF SessionNext
  <2>. QED  BY <2>1, StepIInv DEF SessionIInv, Unseen
<1>2. SetTypes /\ MapsAgree /\ MapsAgree'
  BY <1>1 DEF SessionIInv, IInv
<1>3. CASE BeginTick
  BY <1>1, <1>2, <1>3
     DEF BeginTick, SessionIInv, DueIsDue, AsLastTold, NewIsAsked, MapsAgree, SetTypes,
         maps, game, updates, viewer
<1>4. CASE \E s \in Sessions : ProcessSnake(s)
  BY <1>1, <1>4, ProcessSnakeSession DEF SessionIInv, ProcessSnake
<1>5. CASE ProcessKills \/ GenerateFoods \/ EndTick
  BY <1>1, <1>2, <1>5
     DEF ProcessKills, GenerateFoods, EndTick, SessionIInv, DueIsDue, AsLastTold, NewIsAsked,
         SetTypes, maps, game, updates, viewer
<1>6. CASE \E s \in Sessions : OnSessionConnected(s)
  BY <1>1, <1>2, <1>6
     DEF OnSessionConnected, RespawnSnake, AskForFullUpdate, SessionIInv, DueIsDue, AsLastTold,
         NewIsAsked, SetTypes, tick, viewer
<1>7. CASE \E s \in Sessions : OnSessionDisconnected(s)
  BY <1>1, <1>2, <1>7
     DEF OnSessionDisconnected, SessionIInv, DueIsDue, AsLastTold, NewIsAsked, SetTypes,
         tick, viewer
<1>8. CASE (\E s \in Sessions, player \in Players : SetSSIDPlayer(s, player)) \/ GetLeaderboard
  <2>1. UNCHANGED <<sessions, unused, fullUpdates, killed, todo, pc>>
    BY <1>2, <1>8 DEF SetSSIDPlayer, GetLeaderboard, MapsAgree, tick, game, updates
  <2>. QED  BY <1>1, <2>1 DEF SessionIInv, DueIsDue, AsLastTold, NewIsAsked, viewer
<1>. QED  BY <1>3, <1>4, <1>5, <1>6, <1>7, <1>8 DEF Unseen

LEMMA RequestSession ==
  ASSUME SessionIInv, ViewersRequest \/ OthersRequest
  PROVE  SessionIInv'
<1>. USE GameSessionAssumption
<1>1. IInv'
  BY SessionStep, StepIInv DEF SessionNext, SessionIInv
<1>2. UNCHANGED <<sessions, unused, killed, todo, pc, wasKilled>>
  BY DEF ViewersRequest, OthersRequest, RequestFullUpdate, RequestSnakeSnapshot, tick, game, viewer
<1>3. \/ Viewer \in fullUpdates' /\ asked'
      \/ (Viewer \in fullUpdates' <=> Viewer \in fullUpdates) /\ asked' = asked
  BY DEF ViewersRequest, OthersRequest, RequestFullUpdate, RequestSnakeSnapshot, AskForFullUpdate,
         updates, viewer
<1>. QED  BY <1>1, <1>2, <1>3 DEF SessionIInv, DueIsDue, AsLastTold, NewIsAsked

LEMMA SendSession ==
  ASSUME SessionIInv, SendViewersUpdates
  PROVE  SessionIInv'
<1>1. IInv'
  BY SessionStep, StepIInv DEF SessionNext, SessionIInv
<1>2. SetTypes
  BY DEF SessionIInv, IInv
<1>. QED
  BY <1>1, <1>2
     DEF SendViewersUpdates, SendUpdates, SessionIInv, DueIsDue, AsLastTold, NewIsAsked,
         SetTypes, game, viewer

LEMMA SessionStepIInv == SessionIInv /\ [SessionNext]_<<vars, viewer>> => SessionIInv'
<1>. SUFFICES ASSUME SessionIInv, [SessionNext]_<<vars, viewer>> PROVE SessionIInv'
  OBVIOUS
<1>1. CASE SessionNext
  BY <1>1, UnseenSession, RequestSession, SendSession DEF SessionNext
<1>2. CASE UNCHANGED <<vars, viewer>>
  <2>1. IInv'
    BY <1>2, StepIInv DEF SessionIInv
  <2>. QED
    BY <1>2, <2>1 DEF vars, tick, maps, game, updates, viewer, SessionIInv, DueIsDue, AsLastTold,
                      NewIsAsked
<1>. QED  BY <1>1, <1>2

LEMMA SessionInvariance == SessionSpec => []SessionIInv
BY SessionInitIInv, SessionStepIInv, PTL DEF SessionSpec

-----------------------------------------------------------------------------
\* Viewer's turn is an Update of Encoder: it is found in fullUpdates_ exactly
\* when Encoder finds a full update due.
LEMMA SendImplements ==
  ASSUME SessionIInv, SendViewersUpdates
  PROVE  Slice!EncoderNext \/ UNCHANGED viewer
<1>1. CASE Viewer \notin sessions
  BY <1>1 DEF SendViewersUpdates
<1>2. CASE Viewer \in sessions
  <2>1. PICK world \in ViewersWorlds, snapshots \in Slice!ServedSnapshots(net) :
          net' = Told(world, Slice!AfterSnapshots(net, snapshots))
    BY <1>2 DEF SendViewersUpdates
  <2>2. wasKilled' = (Viewer \in killed) /\ asked' = FALSE
    BY <1>2 DEF SendViewersUpdates
  <2>3. world \in Slice!Worlds /\ (Viewer \in world.alive <=> Viewer \notin killed)
    BY <1>2, <2>1 DEF ViewersWorlds, Living, SessionIInv, IInv, MapsAgree
  <2>4. Viewer \in fullUpdates <=> Slice!FullUpdateDue(world)
    BY <1>2, <2>3 DEF Slice!FullUpdateDue, SessionIInv, DueIsDue
  <2>5. wasKilled' = (Viewer \notin world.alive)
    BY <2>2, <2>3
  <2>6. Slice!Update(world, snapshots)
    BY <2>1, <2>2, <2>4, <2>5 DEF Slice!Update, Told
  <2>. QED  BY <2>1, <2>3, <2>6 DEF Slice!EncoderNext
<1>. QED  BY <1>1, <1>2

LEMMA RequestImplements ==
  ASSUME ViewersRequest
  PROVE  Slice!EncoderNext
<1>1. CASE RequestFullUpdate(Viewer) /\ asked' = TRUE /\ UNCHANGED <<net, wasKilled>>
  <2>. DEFINE r == [type |-> "RequestFullUpdate"]
  <2>1. r \in Slice!Requests /\ Slice!OnMessage(r)
    BY <1>1 DEF Slice!Requests, Slice!OnMessage
  <2>. QED  BY <2>1 DEF Slice!EncoderNext
<1>2. ASSUME NEW id \in Sessions,
             net' = [net EXCEPT !.pendingSnakeSnapshots = @ \cup {id}],
             UNCHANGED <<wasKilled, asked>>
      PROVE  Slice!EncoderNext
  <2>. DEFINE r == [type |-> "RequestSnakeSnapshot", entityID |-> id]
  <2>1. r \in Slice!Requests /\ r.entityID = id /\ r.type # "RequestFullUpdate"
    BY DEF Slice!Requests
  <2>2. Slice!OnMessage(r)
    BY <1>2, <2>1 DEF Slice!OnMessage
  <2>. QED  BY <2>1, <2>2 DEF Slice!EncoderNext
<1>. QED  BY <1>1, <1>2 DEF ViewersRequest

\* What a game server tells a session, in ticks that process all snakes in any
\* order and then serve all sessions, while others come, go, die and ask, is
\* what Encoder tells a session of its own; so what Replication shows of one
\* session holds of each session of a game server.
THEOREM ServedAsEncoderHolds == SessionSpec => ServedAsEncoder
<1>1. SessionInit => Slice!EncoderInit
  BY DEF SessionInit, Slice!EncoderInit
<1>2. SessionIInv /\ [SessionNext]_<<vars, viewer>> => [Slice!EncoderNext]_(Slice!encoder)
  <2>. SUFFICES ASSUME SessionIInv, [SessionNext]_<<vars, viewer>>
                PROVE  Slice!EncoderNext \/ UNCHANGED Slice!encoder
    OBVIOUS
  <2>1. UNCHANGED viewer => UNCHANGED Slice!encoder
    BY DEF viewer, Slice!encoder
  <2>2. CASE SendViewersUpdates
    BY <2>1, <2>2, SendImplements
  <2>3. CASE ViewersRequest
    BY <2>3, RequestImplements
  <2>4. CASE OthersRequest \/ Unseen \/ UNCHANGED <<vars, viewer>>
    BY <2>1, <2>4 DEF OthersRequest, Unseen
  <2>. QED  BY <2>2, <2>3, <2>4 DEF SessionNext
<1>. QED
  BY <1>1, <1>2, SessionInvariance, PTL DEF SessionSpec, ServedAsEncoder, Slice!EncoderSpec
=============================================================================
