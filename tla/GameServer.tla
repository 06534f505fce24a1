----------------------------- MODULE GameServer -----------------------------
(***************************************************************************)
(* A game server (services/game/game_server.cpp): its sessions, their      *)
(* snakes, the foods, and the tick that moves them and sends the updates.  *)
(*                                                                         *)
(* The server runs on the thread of the service loop, so a tick is never   *)
(* interrupted; it is modelled step by step because the order of its loops *)
(* over unordered containers is open and matters.  Positions are left out: *)
(* which snakes and foods a snake touches when it moves is any choice.     *)
(* Who sees what, and the contents of the updates, are in Replication.     *)
(*                                                                         *)
(* External, and modelled from their use: Logic (frame_), the Snake and    *)
(* Food entities, and the UDP server, which calls the session handlers     *)
(* from its ProcessTick, for one session in the order connected, messages, *)
(* disconnected.                                                           *)
(***************************************************************************)
EXTENDS Integers, FiniteSets, Functions

CONSTANTS
  Sessions,     \* UDP sessions; each is used for one connection and owns one
                \* snake, which goes by the session's name
  Players,      \* websocket players
  FoodCount,    \* Utils::Legacy::Game::FoodCount
  StartExp,     \* experience of a snake that has just respawned
  FoodPower,    \* power of a generated food
  MaxExp,       \* bound: experience a snake can eat its way to
  MaxDropped    \* bound: dropped foods lying about when a snake respawns

DropPower == 10   \* power of a food dropped by a killed snake
DropPer   == 15   \* experience per dropped food

ASSUME GameServerAssumption ==
  /\ IsFiniteSet(Sessions)
  /\ FoodCount \in Nat /\ StartExp \in Nat /\ FoodPower \in Nat
  /\ MaxExp \in Nat /\ MaxDropped \in Nat

VARIABLES
  frame,          \* frame_ % 2
  pc,             \* where ProcessTick is
  todo,           \* snakes its first loop has not come to
  unused,         \* sessions that have not connected yet
  sessions,       \* DOMAIN sessions_
  byID,           \* DOMAIN sessionsByID_
  players,        \* players_, a function from session IDs
  snakes,         \* snakes_
  killed,         \* snakes with IsKilled()
  exp,            \* GetExperience()
  killedSnakes,   \* killedSnakes_
  foods,          \* foods_, counted by where they come from
  fullUpdates,    \* fullUpdates_
  netState,       \* DOMAIN netState_
  owed,           \* history: sessions whose snake respawned, or that asked for
                  \* a full update, since they were last sent one
  killedBy        \* history: <<victim, killer>> of this tick's collisions

tick == <<frame, pc, todo>>
maps == <<unused, sessions, byID, players, netState>>
game == <<snakes, killed, exp, killedSnakes, foods>>
updates == <<fullUpdates, owed>>
vars == <<tick, maps, game, updates, killedBy>>

Init ==
  /\ frame = 0
  /\ pc = "idle"
  /\ todo = {}
  /\ unused = Sessions
  /\ sessions = {}
  /\ byID = {}
  /\ players = [s \in {} |-> FALSE]
  /\ snakes = {}
  /\ killed = {}
  /\ exp = [s \in Sessions |-> 0]
  /\ killedSnakes = {}
  /\ foods = [generated |-> 0, dropped |-> 0]
  /\ fullUpdates = {}
  /\ netState = {}
  /\ owed = {}
  /\ killedBy = {}

-----------------------------------------------------------------------------
(***************************************************************************)
(* The tick.                                                               *)
(***************************************************************************)

\* Mutant: ProcessTick returns early while there is no session.
BeginTickIfAny ==
  /\ pc = "idle"
  /\ frame' = 1 - frame
  /\ IF frame' = 0 /\ sessions # {}
     THEN pc' = "snakes" /\ todo' = snakes
     ELSE UNCHANGED <<pc, todo>>
  /\ killedBy' = {}
  /\ UNCHANGED <<maps, game, updates>>

\* Logic::ProcessTick advances the frame; ProcessTick returns on odd ones.
BeginTick ==
  /\ pc = "idle"
  /\ frame' = 1 - frame
  /\ IF frame' = 0
     THEN pc' = "snakes" /\ todo' = snakes
     ELSE UNCHANGED <<pc, todo>>
  /\ killedBy' = {}
  /\ UNCHANGED <<maps, game, updates>>

\* A full update is asked for, and due from now on.
AskForFullUpdate(s) ==
  /\ fullUpdates' = fullUpdates \cup {s}
  /\ owed' = owed \cup {s}

\* Mutant: the respawned snake's session is not put into fullUpdates_.
RespawnSnakeUnseen(s) ==
  /\ killed' = killed \ {s}
  /\ exp' = [exp EXCEPT ![s] = StartExp]
  /\ UNCHANGED fullUpdates
  /\ owed' = owed \cup {s}

RespawnSnake(s) ==
  /\ killed' = killed \ {s}
  /\ exp' = [exp EXCEPT ![s] = StartExp]
  /\ AskForFullUpdate(s)

\* A killed snake waits until CanRespawn.
ProcessKilledSnake(s) ==
  /\ s \in killed
  /\ \/ foods.dropped <= MaxDropped /\ RespawnSnake(s)
     \/ UNCHANGED <<killed, exp, updates>>
  /\ UNCHANGED <<maps, snakes, killedSnakes, foods, killedBy>>

\* KillSnake, for a snake that lives.
KillSnake(s) ==
  /\ killed' = killed \cup {s}
  /\ killedSnakes' = killedSnakes \cup {s}

\* The move would take the head out of the area.
LeaveArea(s) ==
  /\ s \notin killed
  /\ KillSnake(s)
  /\ UNCHANGED <<maps, snakes, exp, foods, updates, killedBy>>

\* Foods that a head can touch.
Meals == [generated : 0 .. foods.generated, dropped : 0 .. foods.dropped]

\* Mutant: the foods that were eaten stay in foods_.
EatKept(s, meal) ==
  /\ exp' = [exp EXCEPT ![s] = @ + FoodPower * meal.generated + DropPower * meal.dropped]
  /\ exp'[s] <= MaxExp
  /\ UNCHANGED foods

Eat(s, meal) ==
  /\ exp' = [exp EXCEPT ![s] = @ + FoodPower * meal.generated + DropPower * meal.dropped]
  /\ exp'[s] <= MaxExp
  /\ foods' = [generated |-> foods.generated - meal.generated,
               dropped   |-> foods.dropped - meal.dropped]

\* Mutant: snakes that were killed earlier in the tick are not skipped.
TargetsDeadOrAlive(s) == snakes \ {s}

\* The snakes whose collision with s the loop over snakes_ looks for.
Targets(s) == snakes \ (killed \cup {s})

\* With its head at the heads and the bodies of these snakes, s dies of any
\* of the bodies, and of a head whose snake is not its inferior.
Deadly(s, heads, bodies) == bodies \cup {t \in heads : exp'[t] >= exp'[s]}

\* The loop stops at the first deadly target, whichever the set yields first.
Move(s) ==
  /\ s \notin killed
  /\ \E meal \in Meals, heads, bodies \in SUBSET Targets(s) :
       /\ Eat(s, meal)
       /\ \/ /\ Deadly(s, heads, bodies) = {}
             /\ UNCHANGED <<killed, killedSnakes, killedBy>>
          \/ \E t \in Deadly(s, heads, bodies) :
               /\ KillSnake(s)
               /\ killedBy' = killedBy \cup {<<s, t>>}
  /\ UNCHANGED <<maps, snakes, updates>>

ProcessSnake(s) ==
  /\ pc = "snakes"
  /\ s \in todo
  /\ todo' = todo \ {s}
  /\ ProcessKilledSnake(s) \/ LeaveArea(s) \/ Move(s)
  /\ UNCHANGED <<frame, pc>>

\* What killed snakes leave behind, as a number of foods.
Drops(dead) == SumFunctionOnSet([s \in Sessions |-> exp[s] \div DropPer], dead)

\* Mutant: killedSnakes_ is not cleared.
ProcessKillsUncleared ==
  /\ pc = "snakes"
  /\ todo = {}
  /\ foods' = [foods EXCEPT !.dropped = @ + Drops(killedSnakes)]
  /\ pc' = "foods"
  /\ UNCHANGED <<frame, todo, maps, snakes, killed, exp, killedSnakes, updates, killedBy>>

\* The first loop is done: ProcessKills.
ProcessKills ==
  /\ pc = "snakes"
  /\ todo = {}
  /\ foods' = [foods EXCEPT !.dropped = @ + Drops(killedSnakes)]
  /\ killedSnakes' = {}
  /\ pc' = "foods"
  /\ UNCHANGED <<frame, todo, maps, snakes, killed, exp, updates, killedBy>>

FoodsSize == foods.generated + foods.dropped

GenerateFoods ==
  /\ pc = "foods"
  /\ foods' = [foods EXCEPT !.generated =
                 IF FoodsSize < FoodCount THEN @ + FoodCount - FoodsSize ELSE @]
  /\ pc' = "send"
  /\ UNCHANGED <<frame, todo, maps, snakes, killed, exp, killedSnakes, updates, killedBy>>

\* The loop over sessions_, which makes the netState_ entries, and
\* fullUpdates_.clear().
SendUpdates ==
  /\ pc = "send"
  /\ netState' = netState \cup sessions
  /\ owed' = owed \ (sessions \cap fullUpdates)
  /\ fullUpdates' = {}
  /\ pc' = "udp"
  /\ UNCHANGED <<frame, todo, unused, sessions, byID, players, game, killedBy>>

\* Mutant: fullUpdates_ is cleared at the end of the tick.
EndTickClears ==
  /\ pc = "udp"
  /\ pc' = "idle"
  /\ fullUpdates' = {}
  /\ UNCHANGED <<frame, todo, maps, game, owed, killedBy>>

\* UdpServer::ProcessTick has no more events.
EndTick ==
  /\ pc = "udp"
  /\ pc' = "idle"
  /\ UNCHANGED <<frame, todo, maps, game, updates, killedBy>>

-----------------------------------------------------------------------------
(***************************************************************************)
(* What UdpServer::ProcessTick calls.                                      *)
(***************************************************************************)

OnSessionConnected(s) ==
  /\ pc = "udp"
  /\ s \in unused
  /\ unused' = unused \ {s}
  /\ snakes' = snakes \cup {s}
  /\ sessions' = sessions \cup {s}
  /\ byID' = byID \cup {s}
  /\ RespawnSnake(s)
  /\ UNCHANGED <<tick, players, netState, killedSnakes, foods, killedBy>>

\* Mutant: netState_ is not erased from.
DisconnectedKeepsNetState(s) ==
  /\ pc = "udp"
  /\ s \in sessions
  /\ snakes' = snakes \ {s}
  /\ byID' = byID \ {s}
  /\ players' = [t \in DOMAIN players \ {s} |-> players[t]]
  /\ sessions' = sessions \ {s}
  /\ killed' = killed \ {s}
  /\ owed' = owed \ {s}
  /\ UNCHANGED <<tick, unused, exp, netState, killedSnakes, foods, fullUpdates, killedBy>>

\* Mutant: the UDP server calls back from a thread of its own.
DisconnectedAtAnyTime(s) ==
  /\ s \in sessions
  /\ snakes' = snakes \ {s}
  /\ byID' = byID \ {s}
  /\ players' = [t \in DOMAIN players \ {s} |-> players[t]]
  /\ sessions' = sessions \ {s}
  /\ netState' = netState \ {s}
  /\ killed' = killed \ {s}
  /\ owed' = owed \ {s}
  /\ UNCHANGED <<tick, unused, exp, killedSnakes, foods, fullUpdates, killedBy>>

\* fullUpdates_ keeps the session until it is cleared.
OnSessionDisconnected(s) ==
  /\ pc = "udp"
  /\ s \in sessions
  /\ snakes' = snakes \ {s}
  /\ byID' = byID \ {s}
  /\ players' = [t \in DOMAIN players \ {s} |-> players[t]]
  /\ sessions' = sessions \ {s}
  /\ netState' = netState \ {s}
  /\ killed' = killed \ {s}
  /\ owed' = owed \ {s}
  /\ UNCHANGED <<tick, unused, exp, killedSnakes, foods, fullUpdates, killedBy>>

\* OnMessage: both requests make a netState_ entry; ClientInput, which only
\* steers the snake, and anything malformed leave this state alone.
RequestFullUpdate(s) ==
  /\ pc = "udp"
  /\ s \in sessions
  /\ netState' = netState \cup {s}
  /\ AskForFullUpdate(s)
  /\ UNCHANGED <<tick, unused, sessions, byID, players, game, killedBy>>

RequestSnakeSnapshot(s) ==
  /\ pc = "udp"
  /\ s \in sessions
  /\ netState' = netState \cup {s}
  /\ UNCHANGED <<tick, unused, sessions, byID, players, game, updates, killedBy>>

-----------------------------------------------------------------------------
(***************************************************************************)
(* What the websocket handlers call, between two ticks.                    *)
(***************************************************************************)

\* Any session ID is accepted, also one that is not connected, or no more.
SetSSIDPlayer(s, player) ==
  /\ pc = "idle"
  /\ players' = [t \in DOMAIN players \cup {s} |-> IF t = s THEN player ELSE players[t]]
  /\ UNCHANGED <<tick, unused, sessions, byID, netState, game, updates, killedBy>>

\* GetLeaderboard only reads, unless it looks up in sessions_, by operator[],
\* a session that is not there.
GetLeaderboard ==
  /\ pc = "idle"
  /\ sessions' = sessions \cup (DOMAIN players \cap byID)
  /\ UNCHANGED <<tick, unused, byID, players, netState, game, updates, killedBy>>

-----------------------------------------------------------------------------
TickStep ==
  \/ BeginTick
  \/ \E s \in Sessions : ProcessSnake(s)
  \/ ProcessKills
  \/ GenerateFoods
  \/ SendUpdates
  \/ EndTick

Callback ==
  \/ \E s \in Sessions :
       \/ OnSessionConnected(s)
       \/ OnSessionDisconnected(s)
       \/ RequestFullUpdate(s)
       \/ RequestSnakeSnapshot(s)
  \/ \E s \in Sessions, player \in Players : SetSSIDPlayer(s, player)
  \/ GetLeaderboard

Next == TickStep \/ Callback

Spec == Init /\ [][Next]_vars

\* The service loop calls ProcessTick for ever, and its loops are finite.
FairSpec == Spec /\ WF_vars(TickStep)

-----------------------------------------------------------------------------
(***************************************************************************)
(* Properties.                                                             *)
(***************************************************************************)

TypeOK ==
  /\ frame \in {0, 1}
  /\ pc \in {"idle", "snakes", "foods", "send", "udp"}
  /\ todo \subseteq snakes
  /\ unused \subseteq Sessions
  /\ sessions \subseteq Sessions \ unused
  /\ byID \subseteq Sessions
  /\ players \in UNION {[S -> Players] : S \in SUBSET Sessions}
  /\ netState \subseteq Sessions
  /\ snakes \subseteq Sessions
  /\ killed \subseteq snakes
  /\ exp \in [Sessions -> Nat]
  /\ killedSnakes \subseteq snakes
  /\ foods \in [generated : Nat, dropped : Nat]
  /\ fullUpdates \subseteq Sessions
  /\ owed \subseteq Sessions
  /\ killedBy \subseteq Sessions \X Sessions

\* The containers that are keyed by session agree: every session has its
\* snake in the game and is found by its ID, nothing is left of one that is
\* gone, and a session that has no netState_ yet is due a full update, which
\* is what makes its first partial update well-founded.
\* (GetLeaderboard looks up one container with what it found in another.)
MapsAgree ==
  /\ snakes = sessions
  /\ byID = sessions
  /\ netState \subseteq sessions
  /\ sessions \ netState \subseteq fullUpdates

\* A snake's experience is turned into foods once: what is to be turned into
\* foods is dead, and stays so until ProcessKills has come to it, although
\* killed snakes respawn in the loop before.
KillsPending ==
  /\ killedSnakes \subseteq killed
  /\ pc # "snakes" => killedSnakes = {}

\* Nobody is killed by a snake that died before in the same tick, so the
\* collisions of a tick never kill everyone who took part in them.
Victims == {pair[1] : pair \in killedBy}
KillerSurvives == killedBy # {} => \E pair \in killedBy : pair[2] \notin Victims

\* Respawn and requests are not forgotten: whoever is owed a full update will
\* be found in fullUpdates_ by the next SendUpdates.  (RespawnSnake runs
\* before it in the tick, the requests arrive after its clear().)
OwedIsDue == owed \subseteq fullUpdates \cap sessions

\* Experience is not created: what the snakes that live, or whose foods are
\* yet to be dropped, and the foods have among them grows by what respawns and
\* GenerateFoods put in, and by nothing else.
Living == snakes \ killed

Substance ==
  FoodPower * foods.generated + DropPower * foods.dropped
    + SumFunctionOnSet(exp, Living \cup killedSnakes)

Generated == IF pc = "foods" THEN foods'.generated - foods.generated ELSE 0

NothingFromNothing ==
  [][Substance' <= Substance + StartExp * Cardinality(Living' \ Living)
                     + FoodPower * Generated]_vars

\* No tick gets stuck in its loops, and none that sends is the last, also when
\* nobody is there.
TicksGoOn == []<><<SendUpdates>>_vars

\* Every session that is owed a full update is sent one, or disconnects.
OwedIsSent == \A s \in Sessions : s \in owed ~> s \notin owed

\* The game moves on every frame (the comment in ProcessTick: updates are sent
\* on half of the frames, "logic is 64").
LogicOnEveryFrame == [][frame' # frame => pc' = "snakes"]_vars
=============================================================================
