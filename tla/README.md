# A verification of snake-server

TLA+ models of the snake game's server (`src/` of this repository), the TLC
configurations that check them on small instances, and TLAPS proofs of what
matters most for instances of every size. Paths below are relative to the
repository's `src/` directory.

## 1. The system

One thread runs everything that is modelled: `main` (`snake_server.cpp`) loads
the services, then calls their `ProcessTick` every 10 ms for ever. Network and
database threads exist (in the submodule `snake-shared`, which is not in the
repository), but hand their results over inside those `ProcessTick` calls.
Therefore no two handlers run at once. What does interleave is:

- datagrams on their way to and from a UDP client, which may be lost, delayed,
  reordered or doubled;
- coroutines that await the database, between two of their steps;
- callbacks, with the loop that calls them;
- the order of a loop over `unordered_set` or `unordered_map`, which is open.

Nothing is written to disk but the account rows, by the database; there is no
recovery to model.

| Component | State | Operations | Talks to |
|---|---|---|---|
| Game server (`services/game/game_server.*`; three of them) | `sessions_`, `sessionsByID_`, `players_`, snakes, foods, `killedSnakes_`, `fullUpdates_`, `netState_` | the tick; UDP connect, disconnect, message; `SetSSIDPlayer`, `GetLeaderboard` | UDP server (calls back from the tick), game requests |
| Delta encoder (in the same file) | `SessionNetState` of each session | `SendPartialUpdate`, `SendFullUpdate`, `SendSnakeSnapshot` | UDP clients |
| Accounts (`services/player_session`) | `Model::Player`: type, id, login, password, token; `players_` | connect, disconnect, `Register`, `Login` by password or token | database (await), websocket client (answers) |
| Game requests (`connect_udp`, `leaderboard`, `stats`) | none | checks of the request, a call to a game server | game server |
| Websocket client (`servers/websocket/client.hpp`) | `connected_`, `sourceJobID_`, `jobsHandlers_` | `Send`, `Request`, response, timeout, close | callers of `Request` (coroutines) |
| Websocket service (`servers/websocket/server.*`) | `clients_`, handlers by message type | connect, disconnect, dispatch | websocket clients, requests, accounts |
| MySQL connector (`components/mysql`) | none of its own | `Query`, which formats SQL | MySQL client (external) |
| Service loop and start-up (`snake_server.cpp`, `[core_loader].hpp`) | none of its own | phases of loading; the loop | every service |

What makes each correct, and hard:

- **Delta encoder.** The client's copy must follow the server's view although
  messages are deltas over records of what was *sent*. Removes are retried;
  full updates repair. Hard: three records that must agree; a retry that
  outlives its reason; losses.
- **Game server.** Nobody is dead and playing, experience is neither lost twice
  nor invented, every session has one snake, a full update that is due is sent.
  Hard: deaths, respawns and collisions in one loop in an open order; six
  containers that hold a session.
- **Accounts.** A player is only logged in as whom its client proved to be, its
  token is of one account, and each request is answered once. Hard: requests of
  one client overlap at the awaits and share the model's fields.
- **Websocket client.** A request is resolved once, and in the end. Hard:
  response, timeout and close race; callbacks change the map that is iterated.

- **Websocket service and requests.** Every client has its player and every
  request its handler, in whatever order services are loaded and however early
  a client connects; a game server is only asked for if it exists. Hard: clients
  arrive while the program starts; two maps of clients kept in step by
  callbacks; IDs that are cut to another width before they are checked.
- **Sampling** (`SampleSnakeValidationPoints`) and **`BuildSqlFromFormat`**: pure
  functions. The points validate all of a snake, with no more of them than
  needed; a query has its literals in their places, whatever braces they hold.

`PROJECT.json` lists the hazards at their lines, with the properties that
would catch each.

## 2. Modules

| Module | Models | |
|---|---|---|
| `NetState` | the records of one session and the three messages, as operators | no state |
| `Encoder` | what a game server does for one session from its connection on | EXTENDS `NetState` |
| `Replication` | the encoder of one session, the lossy network, the client's copy | EXTENDS `Encoder` |
| `ReplicationProofs` | theorems about `Replication` | |
| `GameServer` | a game server's tick, step by step, and its callbacks | |
| `GameServerProofs` | theorems about `GameServer` | |
| `GameSession` | a game server and what it tells one of its sessions | EXTENDS `GameServer`, implements `Encoder` |
| `GameSessionProofs` | the refinement, as a theorem | |
| `Sampling` | the points of a snake that an Update carries | |
| `SamplingProofs` | theorems about `Sampling` | |
| `PlayerSession` | registering and logging in, with the database | |
| `PlayerSessionProofs` | theorems about `PlayerSession` | |
| `Services` | start-up, the loop, connect and dispatch, the game requests | |
| `ServicesProofs` | theorems about `Services` | |
| `SqlFormat` | the text of a query | |
| `SqlFormatProofs` | theorems about `SqlFormat` | |
| `OneShot` | abstract: what `Client::Request` promises | |
| `WebsocketClient` | the handlers of a websocket client's requests | implements `OneShot` |
| `WebsocketClientProofs` | theorems about `WebsocketClient`, the refinement among them | |
| `MC...` | symmetry sets, and values of constants, for TLC | |

How they fit together: `Services` is the whole program seen from the loop, with
logging in reduced to who is logged in, and a game server to who is assigned to
which session. `PlayerSession`, `WebsocketClient` and `GameServer` take one of
its parts each and model it in full. `GameSession` joins `GameServer` and the
encoder, and shows that each session of a game server is served as `Encoder`
says, which is what `Replication` builds on.

Definitions marked "Mutant" are variants of the definition that follows them,
with a plausible bug; each property is known to fail under one of them
(`PROJECT.json`, "mutants"). No specification uses them.

### NetState, Encoder and Replication

`ns` is a `SessionNetState`. `AgedRemoves` is the retry loop,
`QueueRemoves` the lambda `QueueRemove` applied to what left the view
(`LeftView`), `Written` what `ProcessFoodVisible` and `ProcessSnakeVisible`
write, `Recorded` what they put into `lastHash` and `lastType`, `Known` what each
of these two tables holds after `QueueRemove` has erased from it, and `AfterPartialUpdate`, `AfterFullUpdate` and
`AfterSnapshots` the state each sender leaves behind. `world` is what the tick
found: which snakes live, what the visibility tests let through (a free choice
for all but the viewer itself), and what each
entity's hash tells apart. Geometry is abstracted to "any world in which a
living viewer sees itself". The hash is taken to be injective (it is a CRC-32,
xor-ed over coordinates, so this is an idealisation). Snakes are always
written, as the comment at line 303 says they are, so for them it does not matter.

`Encoder` adds what a tick does for one session: it serves snapshots, then
sends a full update if one is due (asked for, or the snake respawns in this
very tick) and a partial one otherwise. `Replication` puts a network and a
client behind it. The **client is
external**, and modelled by what the messages ask of it: Removes, News and
Updates in the order they are written; of an Update for an entity it does not
hold it may or may not make an entry; a message older than the last is
dropped, so late is lost. Its requests can be lost, delayed, reordered, and
doubled.

Three history variables say how far the copy may differ:
`clean` (no update lost since the last full one that arrived), `untracked`
(entities the client may hold that no Remove will be sent for: from snapshots
of what is out of view, or from before a full update that was lost) and
`shadowed` (entities that came back into view while a Remove for them was
still being retried, and so are removed again).

### GameServer

`pc` follows `ProcessTick`: `"snakes"` is its first loop (`todo`: the snakes to
come, taken in any order), then `ProcessKills`, `GenerateFoods`, the sends,
and `"udp"`, in which the UDP server calls back. `"idle"` is the time between
two ticks, when the websocket handlers run. A snake's move picks what it
touches: the foods it eats and the heads and bodies it runs into; the order of
checks and the comparison of experience are those of the code. Each UDP
session is used for one connection and names its snake as well. `operator[]`
on a container is modelled as the insertion it may be (`GetLeaderboard`,
`RequestFullUpdate`, ...). What the updates contain is in `GameSession`.

### GameSession

`GameSession` runs `GameServer`, and in its `SendUpdates` gives one session,
`Viewer`, the messages of `NetState` for a world in which those snakes live
that live in the game. `net` is `netState_[Viewer]`. Two histories map it to
`Encoder`: `wasKilled` (was the snake dead when the session was last told?) and
`asked` (did it connect, or ask, since?), where the code has one set,
`fullUpdates_`, filled from five places and cleared after the sends. That these
say the same is `ServedAsEncoder`, the refinement
`Slice!EncoderSpec`. It is what a session's records depend on: not on who else
connects, dies or asks, nor on the order of any loop.

### Sampling

`SampleSnakeValidationPoints`, one pass of its loop per step. Distances are
abstracted to the relation `Far`, "at least `minDist`", of which only
irreflexivity is assumed; `IsValidated` is the reference that the result is
compared with.

### PlayerSession

`calls` are suspended coroutines, each with its query as formatted when it was
sent. `Execute` is the database (any order; any query may fail; an insert
violates the unique index if there is one), `Resume` the service loop. `Start`
and `LogIn` write the model's fields just where the code does, before and
after the await; the insert of `Register` reads them again. `answer` is what
became of each request. `claims` and `mixed` are histories. The table's schema is
not in the repository, so `UniqueLogin` is a parameter, and so is
`ExperienceParses`: `std::stoul` of an experience that is no number throws in the
middle of `Login`, after the await and after `userID_` was set
(`ThrowsAtExperience`; that the coroutine then just ends is assumed of the external
`Utils::Task`). Expiry of a token, a
malformed login and "already_logged" are `Refused`; a field of the wrong JSON
type is `Throws`, which answers without the job ID.

### WebsocketClient

`jobsHandlers` maps a job to the passes of the service loop left until its
deadline. `ClearJobHandlers` is taken handler by handler, since each callback
may resume a coroutine that sends the next request (`Chained`). Such an
insertion may rehash the table under the loop's iterator: the loop may then
skip handlers or see some again (`StillTodo`). `OnMessage` calls back before it
erases the handler, `ClearJobHandlers` after; `Call` is one step for both, which is
the same as long as no callback enters one of the two itself. The callback of
`Request` (`client.hpp:85-102`) only resumes the coroutine that awaits it, and
nothing a coroutine can call on a client does. `CloseClient` clears
everything while `connected_` is still true, as the code does.

### Services

`phase` is the phase of `main`; `todo` is what the loader (or the websocket
service, over its clients) has yet to call in it, in any order, since services
and requests are registered by static initialisation of translation units.
`Offers` and `Needs` say which service registers and which looks up what. The
websocket server accepts clients from `Initialise` on, from its own threads, and
reports what happened when it is ticked (`inbox`); so the first passes of the
loop may find clients that connected before anyone wanted to know.
`ReportEvent` is a tick's part for one client; the services' ticks of one pass
may be taken in any order, a superset of the one order that a build has.
`Incoming` has the checks of `ConnectUDP` and `LeaderBoard` in the order of the
code, with `serverId` cut to the width it is cast to (`% Modulus`), and the
index `serverID - 1` taken of whatever passes them.

### SqlFormat

`BuildSqlFromFormat`, one pass of its loop per step, over texts of three kinds of
characters. The reference is the format cut into pieces without scanning it
(`Places`, `Piece`). `Literals` is any set of texts: the function does not rely
on what `NormalizeLogin` and the hash leave over.

## 3. Runs

| Run | Instance | Shows |
|---|---|---|
| `lossy` | viewer, one snake, one food, 3 retries, 1 lost datagram | types; records agree; copy exact while clean; own snake shown; Removes get through; full updates repair |
| `delta` | the same with two states per entity, no loss | no change of a visible entity is missed |
| `resent` | viewer and one food | **violation**: a Remove is sent again for a food back in view |
| `game` | 3 sessions; experience up to 40 | nobody killed by the dead; kills dropped once; no experience from nothing |
| `sessions` | 2 sessions, one of them with its records; 2 players; snakes that drop nothing | containers agree; ticks go on; owed full updates are due, and sent; the session is served as `Encoder` says; with one snapshot per tick, none that waits is starved |
| `half` | 1 session | **violation**: the logic is skipped on odd frames |
| `accounts` | 2 clients, 2 requests each, 1 login, 2 passwords, no unique index, experiences that may not parse | types; token of one account; logged in only as proven; identity stays; one answer each |
| `answered` | 1 client, 3 requests under way, unique index, experiences that parse | no coroutine is left alone, and each answers |
| `once` | 4 requests, callbacks that chain | resolved once; waiting = handled; no coroutine waits for ever, but those that asked while the client was being closed |
| `service` | 2 clients, 1 UDP session, 2 game servers, every order of loading | look-ups succeed; clients and players in step; no request ignored; only ID 0 crashes; events are reported, whoever connects gets its player, and whoever leaves is forgotten |
| `sampling` | every snake of up to 5 segments on a 3 by 3 grid | whole snake validated; no superfluous points |
| `query` | every format of up to 5 characters, up to 2 parameters | the literals are in their places; refused exactly if miscounted |

**Bounds, and why they are enough.** The hazards of the encoder are about one
entity and its Remove, or the viewer itself; two other entities and three
retries let an entity leave, come back while its Remove counts down, leave
again and be forgotten. The code has 20 retries and a limit of 8 snapshots; `Retries` and
`SnapshotsPerTick` are parameters, and the proofs hold for all. A second loss
refutes `RemovesReachClient`, which is why it says "at most one lost": a Remove
that is queued again while an older one counts down keeps the older count, so
that its first message may be its only one besides the last retry. Three
snakes make the shortest chain (one is killed by a second that is killed by a
third). `MaxDropped` holds up respawns while more foods lie about, and `MaxExp`
bounds meals, so that foods and experience stay finite. In `game`, dropped foods can be
eaten up to an experience of 40, but once the living have had their fill a dead
snake may stay dead: what comes after is left to the proofs, which hold for any bounds. In
`sessions` nothing is dropped (`StartExp` is below the 15 that make a food), so that
sessions die and respawn without end. Two requests per client make every overlap of
two coroutines of one player. `MaxJobs` and `MaxTimeout` bound the requests of
a websocket client. In `service`, IDs are taken modulo 4 instead of 2^32, with two
servers: 5 is then the ID of a server after the cut, 3 of none, and 0 the edge;
one event per client waits at a time, which keeps the order of one client's
events, the only one that the code relies on. A fifth segment lets a snake
leave the radius, come back into it and leave it again. Five characters hold two
places with a stray brace, and every sequence of three braces. TLC checks deadlock except where clients, which connect
once, have used up their requests (`PlayerSession`), the client is closed
(`WebsocketClient`), the function has returned (`Sampling`, `SqlFormat`) or the program has
crashed (`Services`).

**Fairness.** Only the service loop is fair: `WF` of the tick
(`GameServer`, `GameSession`), of its pass over a client
(`WebsocketClient`), of `main` (`Services`: loading, and every tick), and of "the database answers or fails what it was asked, and the loop resumes
it" (`PlayerSession`). `main` loops for ever and its loops are finite, which
justifies it; that MySQL answers is assumed of the external client. Nothing is
assumed of clients or networks. `PendingServed` needs that requests stop:
the set is unordered, so a client that asks for ever could starve one of its own.

## 4. Findings

1. **A Remove outlives its reason** (`resent`, `game_server.cpp:182-231`). An
   entity that leaves the view and returns within 20 partial updates is still
   removed by each remaining retry. A snake reappears with the next message,
   since snakes are always written. A food does not, as its hash has not
   changed: the client stops showing a food that the server believes it shows,
   until that changes or a full update comes.
2. **The logic runs at the rate of the updates** (`half`,
   `game_server.cpp:33-35`). The comment puts updates at half of the logic's
   rate; the early return skips the logic of the frame, and the reception of
   datagrams, as well. (`Logic::ProcessTick` still advances the frame number.)

Also met, but contradicting no statement of the repository, so without a run:

- overlapping log-ins can leave a player with the ID of one account and the
  login of another (`mixed` in `PlayerSession`);
- without a unique index two registrations can take one login;
- a request that throws is answered without its job ID;
- one that throws after its await, at an experience that is no number, is not
  answered at all, and leaves the ID in the model of an anonymous player
  (`player.cpp:55`, `:97`); `Register` inserts no experience, so this hangs on the
  default of the column;
- `serverId` is compared with the number of servers after the cut to 32 bits, so
  a huge ID is served by the server whose ID it becomes;
- a request sent from a callback of `Close` can wait for ever: `AllResolved`
  says exactly which are not among those (nothing in the repository calls
  `Request` yet);
- `serverId` 0, or any that is cut to 0, passes the check in `connect_udp.cpp:52`
  and indexes far outside of a vector (`phase = "crashed"` in `Services`);
  `OnlyZeroCrashes` says that no other ID does.

## 5. Proofs

All hold for every value of the constants that the named assumptions allow.
Every safety property of a passing run is stated by one of the theorems. Four
liveness properties are proved from what the fairness of the loop amounts to
(below); the others are model-checked only.

**Sums, and induction over sets.** The library's induction rules take an
operator as their argument, which the prover cannot instantiate. The
lemmas at the head of `GameServerProofs` do with sets instead: a family of
subsets of a finite set has a minimal member (`MinimalSubset`, from the
well-foundedness of the subset ordering), so that a set of subsets which holds
the empty one, and each that is one larger than a member, holds all
(`SetInduction`). With it, a function on the subsets of a finite set exists that
sums (`SummingExists`), `SumFunctionOnSet` is such a function (`SumIsSumming`),
and there is one only (`SummingUnique`): the order in which the fold takes the
elements does not matter, nor therefore that of the code's loops. What the
proofs use are its consequences: `SumAdd`, `SumRemove`, `SumMinus`, `SumUnion`, ...

**Replication** (assumptions: snakes and foods are disjoint and finite,
`Retries` in 1..255, ...). `IInv` is inductive: `TypeOK`, `Bookkeeping`,
`MirrorExact` and `OwnSnakeShown`, strengthened by

- `OwnTracked`: the viewer's own snake, alive and with no full update due, is
  among what the session was last sent;
- `OwnSettled`: no Remove of it is pending then. That is why a full update must
  be sent in the very tick of the respawn, and must clear `pendingRemoves`;
- `PendingShadowed`: a pending Remove of a visible entity is in `shadowed`;
  without it `MirrorExact` cannot be carried over the retry loop.

The lemmas go from the tables (`TableIntro`, `TableElim`) over what each
message does to the records (`PartialUpdateBooks`, `FullUpdateBooks`) and to
the copy (`PartialUpdateApplied`, ...) to one lemma per step. `FullUpdateSyncs`,
an action property, follows from `FullUpdateApplied`. `RemovesReachClient` is
inductive relative to `IInv` once it is joined with "nothing lost, hence clean"
(`RInv`): the one update that may be lost found an exact copy, so what it leaves
behind is what it queued itself.

**GameServer.** `IInv` adds `DeadHadTheirTurn` to the properties: whoever died
in this tick is no longer in `todo`, and is still killed while the loop runs.
`KillerSurvives` follows since a snake that dies of another is new among the
victims while its killer is not one of them, and so remains a killer who survives so far.

`NothingFromNothing` follows step by step (`NextConserves`), once `Holders`, the
snakes that live or whose foods are yet to be dropped, is seen to change by the
one snake whose turn it is. A meal moves what the foods lose to one snake
(`EatConserves`). A respawn adds `StartExp` and replaces
nothing, since the snake was no holder (`RespawnConserves`): it is new, or its
foods were dropped in an earlier tick, for whoever is killed in this one has had its turn. `ProcessKills` turns every 15 of a dead snake's
experience into a food of 10, summed over the dead (`ProcessKillsConserves`).
This needs `KillsPending`, and the types: `TypeCorrect` includes that the foods dropped, a sum of
quotients, are a natural number.

**GameSession.** `SessionIInv` is the invariant of `GameServer` with three parts
that make the refinement go through: `DueIsDue` (membership in `fullUpdates_`
is "asked, or respawned since"), `AsLastTold` (a snake that has not had its turn
is as it was last told) and `NewIsAsked`. Each step of the game server is then
an update, a request, or a stutter of `Encoder`: `ServedAsEncoderHolds`. The
theorem needs the snake of a session to have its turn before the sends, that
`RespawnSnake` inserts into `fullUpdates_`, and that this is cleared after the
sends; without any of them it fails.

**Sampling.** The loop's invariant is that everything before `i` is validated
(`ValidatedTo`) and that the picks are in order, begin at the head and end
before `i` (`PicksInOrder`). That pick number k is segment k or a later one
bounds their number by that of the segments. For any snake and any distance.

**PlayerSession.** `IInv` joins four facts to the properties. `OneCallPerJob`:
each coroutine has a request of its own, which is pending; `AnsweredOnce`
follows. `CallsProven`: whatever a suspended coroutine may learn and write was
presented by its client, even if the model was overwritten meanwhile; this
carries `UserProven` over the awaits. `Unmixed`: a player that is not in `mixed`
has one coroutine at most, about just what its model holds; this carries
`IdentityIntact`. Both hold as well if a coroutine throws half-way (`ThrowStep`): the ID it
leaves behind is one that its client proved, and the player is anonymous still. `IsFiniteSet(db)` gives the insert a new ID that is not 0.

**Services.** `LoadedSoFar` says what each phase has registered when it is
over, so that every look-up comes in a later phase than the registration.
`ReportedInOrder` says what `clients_` holds, from what the network has seen and
what is still to be reported; with it no event can find a client without its
player. `OnlyZeroCrashes` needs no invariant but the types.

**SqlFormat.** `Counted`: while the loop runs, the parameters used are as many as
the places it came by. `LiteralsInPlace` compares the text with a concatenation of pieces,
`FlattenSeq`, a recursion inside the library: `JoinsExist` gives a function that joins the
first pieces of any sequence, and `FlattenIsJoined` that `FlattenSeq` ends with it. The
invariant is `Placed`: what is written so far is the join of the pieces of the
characters before `i`. A pass that copies a character adds one piece
(`CopyPlaces`), one that closes a place adds two, a literal and nothing
(`SubstitutePlaces`). No brace of a literal is looked at, since the scanner reads
the format only.

**WebsocketClient.** `IInv` is `TypeOK`, `WaitingIsHandled` and `UsedInOrder`
(jobs below `sourceJobID_` are used, the others are not). Every step is then
one of `OneShot` or a stutter, also when callbacks chain and the iterator is
invalid: `ResolvedOnceHolds` is the refinement.

**Liveness.** The prover knows neither `ENABLED`, so it can make nothing of
`WF`, nor induction under a temporal operator. What fairness amounts to is
therefore a property of its own, which a run checks from the `WF` of that
specification, and the theorem goes on from there:

| From (model-checked) | follows (proved) | because |
|---|---|---|
| `TicksGoOn`: `SendUpdates` is taken again and again | `OwedIsSent` | by `OwedIsDue`, one pass finds everyone who is owed an update in both containers |
| `WorkGoesOn`: a suspended coroutine has its query answered or failed, and is resumed | `AllAnswered` | each step of its work leaves it fewer to go, four at first (`StepLeft`), and it ends with an answer (`PendingIsCalled`), if every experience can be read |
| `EventsReported`: a client's event does not wait for ever | `ClientsAreMet` | by `ReportedInOrder`, a client that is connected and has nothing left to be reported is in both maps |
| the same | `GoneAreForgotten` | likewise a client that is gone is in neither, and nothing of it can still come (`GoneStays`) |

`WorkGoesOn` and `EventsReported` are weak fairness written out for one
coroutine and one client, whose work is possible as long as there is any. Each
hypothesis has a mutant of the code that breaks it. `PendingServed` and
`AllResolved` count down numbers without a bound (snapshots, passes until a deadline);
that takes induction under a temporal operator, and they are model-checked only.

## 6. Not modelled

- **`snake-shared`**, a submodule that is not in the repository: the network
  servers, the game's entities and geometry, the MySQL client, coroutines,
  cryptography and the service loader are modelled from their use.
- **`ToSqlLiteral`** (MySQL connector) quotes what the MySQL client escapes, which
  is external: its result is any text.
- **`IsSnakeVisibleByAnySegment`**, a comparison of floating-point distances:
  which entities are visible is a free choice of each tick. So are a snake's
  collisions.
- **`NormalizeLogin` and `NormalizePassword`**: what they accept is a member of
  `Logins` or `Passwords`, what they do not is `Refused`. They are functions of
  their input alone, character by character.
- **`stats`** reads the numbers of players and changes nothing (its request is
  dispatched in `Services`, with no effect). `updateSeq` only numbers messages, and
  `fullUpdateAllSegmentsNext` is written and never read.
- Byte layouts, logging, build and deployment.

## 7. Plan

Done, in the order in which they were built: `NetState` and `Replication`;
`GameServer`; `WebsocketClient` with `OneShot`; `PlayerSession`; `Encoder` and
`GameSession`, their composition; `Services`; `Sampling`; `SqlFormat`; theorems about all of
them. What could follow:

1. `Replication` over several sessions of one `GameSession`, with clients that
   reconnect. Since each session is an `Encoder` of its own, this adds breadth
   and no new interaction.
2. `PlayerSession` in place of `logins` and `loggedIn` in `Services`. The two
   meet in one place (a login's coroutine outlives its client), which both model.
3. The contents of `snake-shared`, should it be added to the repository: its
   UDP server, which decides when a session is gone, above all.
