------------------------------ MODULE Services ------------------------------
(***************************************************************************)
(* The services from start-up to their requests: main takes all of them    *)
(* through the phases of loading and then ticks them for ever; the         *)
(* websocket service reports clients and messages, the player sessions     *)
(* keep a player for each client, and the game requests reach the game     *)
(* servers.                                                                *)
(*                                                                         *)
(* External, and modelled from their use: the loader, which calls the      *)
(* services (and the requests, which the player sessions load) in the      *)
(* order of static initialisation, which is open; the websocket server,    *)
(* which accepts clients from its creation on, from threads of its own,    *)
(* and reports what happened from its ProcessTick, for one client in       *)
(* order; the UDP servers.  Logging in is PlayerSession, and a game server *)
(* is GameServer; what is left of them here is who is logged in, and       *)
(* players_.                                                               *)
(***************************************************************************)
EXTENDS Integers, Sequences

CONSTANTS
  Clients,      \* websocket sessions; each connects once
  Sessions,     \* IDs of UDP sessions; each connects once
  ServerCount,  \* game servers, 3 in the code
  Modulus,      \* 2^32: serverId is cast to std::uint32_t
  ServerIds,    \* the serverIds that are asked for, std::int64_t
  Malformed     \* a field that is missing or of another type

RequestTypes == {"Register", "Login", "ConnectUDP", "LeaderBoard", "Stats"}

\* What is loaded: services, and the requests that the player sessions load.
Loaded == {"Connector", "WebsocketService", "Game", "PlayerSession"} \cup RequestTypes

ASSUME ServicesAssumption ==
  /\ Clients \cap Loaded = {}
  /\ ServerCount \in Nat \ {0}
  /\ Modulus \in Nat /\ Modulus > ServerCount
  /\ ServerIds \subseteq Int
  /\ Malformed \notin ServerIds \cup Sessions

VARIABLES
  phase,           \* what main has the loader call, or "crashed"
  todo,            \* services, and in the loop clients, whose turn is to come
  registered,      \* interfaces in the interface controller
  missing,         \* history: interfaces that were looked up in vain
  clientHandler,   \* the player sessions have called RegisterClientsCallback
  messageHandlers, \* types for which RegisterMessage was called
  inbox,           \* what the websocket server has yet to report of each client
  status,          \* of a client, as the network sees it
  clients,         \* clients_
  players,         \* players_ of the player sessions
  logins,          \* players whose login waits for the database
  loggedIn,        \* players that are PlayerBase
  unused,          \* UDP sessions that have not connected yet
  sessions,        \* sessions_ of each game server, by their IDs
  assigned,        \* players_ of each game server
  ignored          \* history: requests for which no handler or player was found

startup == <<registered, missing, clientHandler, messageHandlers>>
network == <<inbox, status>>
accounts == <<clients, players, logins, loggedIn>>
games == <<unused, sessions, assigned>>
vars == <<phase, todo, startup, network, accounts, games, ignored>>

Servers == 1 .. ServerCount

Messages ==
  [type : {"Register", "Login", "Stats"}]
    \cup [type : {"ConnectUDP"}, ssid : Sessions \cup {Malformed}, serverId : ServerIds \cup {Malformed}]
    \cup [type : {"LeaderBoard"}, serverId : ServerIds \cup {Malformed}]
    \cup [type : {"other"}]     \* no type of a request, or not well-formed

Events == Messages \cup [type : {"connected", "disconnected"}]

Init ==
  /\ phase = "Initialise"
  /\ todo = Loaded
  /\ registered = {}
  /\ missing = {}
  /\ clientHandler = FALSE
  /\ messageHandlers = {}
  /\ inbox = [c \in Clients |-> <<>>]
  /\ status = [c \in Clients |-> "new"]
  /\ clients = {}
  /\ players = {}
  /\ logins = {}
  /\ loggedIn = {}
  /\ unused = Sessions
  /\ sessions = [n \in Servers |-> {}]
  /\ assigned = [n \in Servers |-> [s \in {} |-> FALSE]]
  /\ ignored = {}

-----------------------------------------------------------------------------
(***************************************************************************)
(* Start-up.                                                               *)
(***************************************************************************)

\* The interface a service registers in OnAllServicesLoaded.
Offers(s) ==
  CASE s = "Connector"        -> {"Connector"}
    [] s = "WebsocketService" -> {"Server"}
    [] s = "Game"             -> {"GameController"}
    [] OTHER                  -> {}

\* The interfaces a service looks up in OnAllInterfacesLoaded.
Needs(s) ==
  CASE s \in {"Game", "PlayerSession", "Register", "Login"} -> {"Server"}
    [] s \in {"ConnectUDP", "LeaderBoard", "Stats"}     -> {"Server", "GameController"}
    [] OTHER                                            -> {}

Initialise(s) ==
  /\ phase = "Initialise"
  /\ UNCHANGED startup

\* Mutant: no service registers its interface.
RegistersNothing(s) ==
  /\ phase = "OnAllServicesLoaded"
  /\ UNCHANGED startup

OnAllServicesLoaded(s) ==
  /\ phase = "OnAllServicesLoaded"
  /\ registered' = registered \cup Offers(s)
  /\ UNCHANGED <<missing, clientHandler, messageHandlers>>

\* Mutant: the player sessions do not call RegisterClientsCallback.
NoClientsCallback(s) ==
  /\ phase = "OnAllInterfacesLoaded"
  /\ missing' = missing \cup (Needs(s) \ registered)
  /\ messageHandlers' = messageHandlers \cup ({s} \cap RequestTypes)
  /\ UNCHANGED <<registered, clientHandler>>

OnAllInterfacesLoaded(s) ==
  /\ phase = "OnAllInterfacesLoaded"
  /\ missing' = missing \cup (Needs(s) \ registered)
  /\ clientHandler' = (clientHandler \/ s = "PlayerSession")
  /\ messageHandlers' = messageHandlers \cup ({s} \cap RequestTypes)
  /\ UNCHANGED registered

Load(s) ==
  /\ s \in todo
  /\ todo' = todo \ {s}
  /\ Initialise(s) \/ OnAllServicesLoaded(s) \/ OnAllInterfacesLoaded(s)
  /\ UNCHANGED <<phase, network, accounts, games, ignored>>

\* Mutant: the loop leaves the websocket service out.
PassWithoutClients == {"Connector", "Game"}

\* A pass of the loop ticks the services that have something to do, in any
\* order; of the websocket service, it reports an event of each client that
\* has one.
Pass == {"Connector", "Game"} \cup {c \in Clients : inbox[c] # <<>>}

NextPhase ==
  /\ phase # "crashed"
  /\ todo = {}
  /\ phase' = CASE phase = "Initialise"          -> "OnAllServicesLoaded"
                [] phase = "OnAllServicesLoaded" -> "OnAllInterfacesLoaded"
                [] OTHER                         -> "ProcessTick"
  /\ todo' = IF phase' = "ProcessTick" THEN Pass ELSE Loaded
  /\ UNCHANGED <<startup, network, accounts, games, ignored>>

-----------------------------------------------------------------------------
(***************************************************************************)
(* The network's side of the websocket server, once that was created.      *)
(***************************************************************************)

Listening ==
  \/ phase = "Initialise" /\ "WebsocketService" \notin todo
  \/ phase \notin {"Initialise", "crashed"}

\* One event of a client waits at a time.
Arrives(c, event, to) ==
  /\ Listening
  /\ inbox[c] = <<>>
  /\ inbox' = [inbox EXCEPT ![c] = <<event>>]
  /\ status' = [status EXCEPT ![c] = to]
  /\ UNCHANGED <<phase, todo, startup, accounts, games, ignored>>

ClientConnects(c) ==
  status[c] = "new" /\ Arrives(c, [type |-> "connected"], "connected")

ClientSends(c) ==
  status[c] = "connected" /\ \E message \in Messages : Arrives(c, message, "connected")

ClientLeaves(c) ==
  status[c] = "connected" /\ Arrives(c, [type |-> "disconnected"], "gone")

-----------------------------------------------------------------------------
(***************************************************************************)
(* The requests.                                                           *)
(***************************************************************************)

ServerID(message) == message.serverId % Modulus

\* Mutant: the ID is not compared with the number of servers.
IsAnyInteger(message) == message.serverId # Malformed

\* The checks of serverId.
IsServer(message) == message.serverId # Malformed /\ ServerID(message) <= ServerCount

SetSSIDPlayer(n, ssid, player) ==
  assigned' = [assigned EXCEPT ![n] =
                 [s \in DOMAIN @ \cup {ssid} |-> IF s = ssid THEN player ELSE @[s]]]

\* Mutant: the type of ssid is not checked.
AssignsMalformed(c, message) ==
  /\ message.type = "ConnectUDP"
  /\ c \in loggedIn
  /\ IsServer(message)

\* What passes the checks of ConnectUDP.
Assigns(c, message) ==
  /\ message.type = "ConnectUDP"
  /\ c \in loggedIn
  /\ message.ssid # Malformed
  /\ IsServer(message)

\* What passes the checks of LeaderBoard, and only reads.
Reads(c, message) ==
  /\ message.type = "LeaderBoard"
  /\ c \in loggedIn
  /\ IsServer(message)

\* For an ID of 0, which the checks let pass, servers[serverID - 1] is
\* servers[2^32 - 1]: far outside of the vector, and the end of the program.
Incoming(c, message) ==
  /\ \/ /\ Assigns(c, message) \/ Reads(c, message)
        /\ ServerID(message) \notin Servers
        /\ phase' = "crashed"
        /\ UNCHANGED assigned
     \/ /\ Assigns(c, message)
        /\ ServerID(message) \in Servers
        /\ SetSSIDPlayer(ServerID(message), message.ssid, c)
        /\ UNCHANGED phase
     \/ /\ ~Assigns(c, message)
        /\ Reads(c, message) => ServerID(message) \in Servers
        /\ UNCHANGED <<phase, assigned>>
  /\ logins' = IF message.type \in {"Register", "Login"} THEN logins \cup ({c} \ loggedIn)
                                                         ELSE logins

-----------------------------------------------------------------------------
(***************************************************************************)
(* The loop.                                                               *)
(***************************************************************************)

\* CreateClient, and the callback that makes the player, the model of which
\* looks the database up.
OnSessionConnected(c) ==
  /\ clients' = clients \cup {c}
  /\ players' = IF clientHandler THEN players \cup {c} ELSE players
  /\ missing' = IF clientHandler THEN missing \cup ({"Connector"} \ registered) ELSE missing
  /\ UNCHANGED <<phase, logins, loggedIn, assigned, ignored>>

\* Mutant: CloseClient, and no callback.
DisconnectedUntold(c) ==
  /\ clients' = clients \ {c}
  /\ UNCHANGED <<phase, missing, players, logins, loggedIn, assigned, ignored>>

\* CloseClient, and the callback that forgets the player.
OnSessionDisconnected(c) ==
  /\ clients' = clients \ {c}
  /\ players' = IF clientHandler THEN players \ {c} ELSE players
  /\ UNCHANGED <<phase, missing, logins, loggedIn, assigned, ignored>>

\* Dispatch by type, to a request that asks for the client's player.
OnMessage(c, message) ==
  /\ IF message.type \in messageHandlers /\ c \in players
     THEN Incoming(c, message) /\ UNCHANGED ignored
     ELSE /\ ignored' = ignored \cup ({message.type} \cap RequestTypes)
          /\ UNCHANGED <<phase, logins, assigned>>
  /\ UNCHANGED <<missing, clients, players, loggedIn>>

ReportEvent(c) ==
  LET event == Head(inbox[c])
  IN  /\ phase = "ProcessTick"
      /\ c \in todo
      /\ todo' = todo \ {c}
      /\ inbox' = [inbox EXCEPT ![c] = Tail(@)]
      /\ \/ event.type = "connected" /\ OnSessionConnected(c)
         \/ event.type = "disconnected" /\ OnSessionDisconnected(c)
         \/ event \in Messages /\ OnMessage(c, event)
      /\ UNCHANGED <<registered, clientHandler, messageHandlers, status, unused, sessions>>

\* Coroutines of Login are resumed, also those of clients that are gone.
ConnectorTick ==
  /\ phase = "ProcessTick"
  /\ "Connector" \in todo
  /\ todo' = todo \ {"Connector"}
  /\ \E done \in SUBSET logins : \E found \in SUBSET done :
       /\ logins' = logins \ done
       /\ loggedIn' = loggedIn \cup found
  /\ UNCHANGED <<phase, startup, network, clients, players, games, ignored>>

UdpConnects(s, n) ==
  /\ s \in unused
  /\ unused' = unused \ {s}
  /\ sessions' = [sessions EXCEPT ![n] = @ \cup {s}]
  /\ UNCHANGED assigned

UdpDisconnects(s, n) ==
  /\ s \in sessions[n]
  /\ sessions' = [sessions EXCEPT ![n] = @ \ {s}]
  /\ assigned' = [assigned EXCEPT ![n] = [t \in DOMAIN @ \ {s} |-> @[t]]]
  /\ UNCHANGED unused

\* The game servers tick, and their UDP servers report.
GameTick ==
  /\ phase = "ProcessTick"
  /\ "Game" \in todo
  /\ todo' = todo \ {"Game"}
  /\ \/ \E s \in Sessions, n \in Servers : UdpConnects(s, n) \/ UdpDisconnects(s, n)
     \/ UNCHANGED games
  /\ UNCHANGED <<phase, startup, network, accounts, ignored>>

-----------------------------------------------------------------------------
Main ==
  \/ NextPhase
  \/ \E s \in Loaded : Load(s)
  \/ \E c \in Clients : ReportEvent(c)
  \/ ConnectorTick
  \/ GameTick

Network == \E c \in Clients : ClientConnects(c) \/ ClientSends(c) \/ ClientLeaves(c)

Next == Main \/ Network

Spec == Init /\ [][Next]_vars

\* main goes on; nothing is assumed of the network.
FairSpec == Spec /\ WF_vars(Main)

-----------------------------------------------------------------------------
(***************************************************************************)
(* Properties.                                                             *)
(***************************************************************************)

TypeOK ==
  /\ phase \in {"Initialise", "OnAllServicesLoaded", "OnAllInterfacesLoaded", "ProcessTick",
                "crashed"}
  /\ todo \subseteq Loaded \cup Clients
  /\ registered \subseteq {"Connector", "Server", "GameController"}
  /\ clientHandler \in BOOLEAN
  /\ messageHandlers \subseteq RequestTypes
  /\ inbox \in [Clients -> {<<>>} \cup {<<event>> : event \in Events}]
  /\ status \in [Clients -> {"new", "connected", "gone"}]
  /\ clients \subseteq Clients /\ players \subseteq Clients
  /\ logins \subseteq Clients /\ loggedIn \subseteq Clients
  /\ unused \subseteq Sessions
  /\ sessions \in [Servers -> SUBSET (Sessions \ unused)]
  /\ assigned \in [Servers -> UNION {[S -> Clients] : S \in SUBSET Sessions}]

\* In whatever order the services are loaded, an interface is registered
\* before anyone looks it up: what Get returns is called at once.
LookupsSucceed == missing = {}

\* Every client has its player, and no player is left of a client that is
\* gone, also when clients connect while the services are still being loaded.
ClientsHavePlayers == clients = players

\* No request of a client is dropped for want of a handler or a player,
\* however early it was sent.
NothingIgnored == ignored = {}

\* A serverId that no server has, but for 0 (modulo the width it is cast to),
\* is answered with an error.
OnlyZeroCrashes ==
  [][phase' = "crashed" =>
       \E c \in Clients : inbox[c] # inbox'[c] /\ ServerID(Head(inbox[c])) = 0]_vars

\* No event of a client waits for ever while the program runs, whichever
\* service the loop comes to first.
EventsReported ==
  \A c \in Clients :
    []<>(inbox[c] = <<>> \/ phase = "crashed") \/ []<><<ReportEvent(c)>>_vars

\* A client that connects, at whatever moment of start-up, gets its player,
\* unless it leaves.
ClientsAreMet ==
  \A c \in Clients :
    status[c] = "connected" ~> c \in players \/ status[c] = "gone" \/ phase = "crashed"

\* A client that is gone is forgotten in the end, for good, by the websocket
\* service and by the player sessions: no message or event of it that was still
\* waiting brings it back into clients_ or players_.
GoneAreForgotten ==
  \A c \in Clients :
    <>[](status[c] = "gone" => c \notin clients \cup players \/ phase = "crashed")
=============================================================================
