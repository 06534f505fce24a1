--------------------------- MODULE ServicesProofs ---------------------------
(***************************************************************************)
(* Proofs about Services, for any number of clients, sessions and game     *)
(* servers, and every order of loading.                                    *)
(***************************************************************************)
EXTENDS Services, TLAPS

Interfaces == {"Connector", "Server", "GameController"}

\* What the phases of loading have done so far.
LoadedSoFar ==
  /\ phase \in {"Initialise", "OnAllServicesLoaded", "OnAllInterfacesLoaded"} => todo \subseteq Loaded
  /\ phase = "OnAllServicesLoaded" => \A s \in Loaded \ todo : Offers(s) \subseteq registered
  /\ phase \in {"OnAllInterfacesLoaded", "ProcessTick"} => Interfaces \subseteq registered
  /\ phase = "OnAllInterfacesLoaded" =>
       /\ "PlayerSession" \in todo \/ clientHandler
       /\ RequestTypes \ todo \subseteq messageHandlers
  /\ phase = "ProcessTick" => clientHandler /\ messageHandlers = RequestTypes

\* Whether a client is in clients_ follows from what the network has seen of it
\* and what is left to be reported.
ReportedInOrder ==
  \A c \in Clients :
    /\ inbox[c] = <<>> => (c \in clients <=> status[c] = "connected")
    /\ \A event \in Events :
         inbox[c] = <<event>> =>
           CASE event.type = "connected"    -> status[c] = "connected" /\ c \notin clients
             [] event.type = "disconnected" -> status[c] = "gone" /\ c \in clients
             [] OTHER                       -> status[c] = "connected" /\ c \in clients
    /\ phase = "ProcessTick" /\ c \in todo => inbox[c] # <<>>

IInv ==
  /\ TypeOK
  /\ LoadedSoFar
  /\ ReportedInOrder
  /\ LookupsSucceed
  /\ ClientsHavePlayers
  /\ NothingIgnored

\* The tables of players of a game server.
Tables == UNION {[S -> Clients] : S \in SUBSET Sessions}

-----------------------------------------------------------------------------
LEMMA TableWith ==
  ASSUME NEW f \in Tables, NEW ssid \in Sessions, NEW c \in Clients
  PROVE  [s \in DOMAIN f \cup {ssid} |-> IF s = ssid THEN c ELSE f[s]] \in Tables
<1>1. PICK S \in SUBSET Sessions : f \in [S -> Clients]
  BY DEF Tables
<1>2. /\ S \cup {ssid} \in SUBSET Sessions /\ DOMAIN f = S
      /\ [s \in S \cup {ssid} |-> IF s = ssid THEN c ELSE f[s]] \in [S \cup {ssid} -> Clients]
  BY <1>1
<1>3. QED
  BY <1>2 DEF Tables

LEMMA TableWithout ==
  ASSUME NEW f \in Tables, NEW s
  PROVE  [t \in DOMAIN f \ {s} |-> f[t]] \in Tables
<1>1. PICK S \in SUBSET Sessions : f \in [S -> Clients]
  BY DEF Tables
<1>2. /\ S \ {s} \in SUBSET Sessions /\ DOMAIN f = S
      /\ [t \in S \ {s} |-> f[t]] \in [S \ {s} -> Clients]
  BY <1>1
<1>3. QED
  BY <1>2 DEF Tables

\* What the checks of ConnectUDP and LeaderBoard make sure of.
LEMMA ConnectUDPFields ==
  ASSUME NEW message \in Messages, message.type = "ConnectUDP"
  PROVE  /\ message.ssid # Malformed => message.ssid \in Sessions
         /\ message.serverId # Malformed => message.serverId \in ServerIds
BY DEF Messages

LEMMA LeaderBoardFields ==
  ASSUME NEW message \in Messages, message.type = "LeaderBoard"
  PROVE  message.serverId # Malformed => message.serverId \in ServerIds
BY DEF Messages

LEMMA MessageTypes ==
  ASSUME NEW message \in Messages
  PROVE  message.type \in RequestTypes \cup {"other"}
BY DEF Messages, RequestTypes

\* The waiting event of a client, and the empty inbox.
LEMMA Waiting ==
  ASSUME TypeOK, NEW c \in Clients, inbox[c] # <<>>
  PROVE  \E event \in Events :
           inbox[c] = <<event>> /\ Head(inbox[c]) = event /\ Tail(inbox[c]) = <<>>
<1>1. PICK event \in Events : inbox[c] = <<event>>
  BY DEF TypeOK
<1>2. Head(<<event>>) = event /\ Tail(<<event>>) = <<>>
  OBVIOUS
<1>3. QED
  BY <1>1, <1>2

-----------------------------------------------------------------------------
LEMMA InitIInv == Init => IInv
<1> SUFFICES ASSUME Init PROVE IInv
  OBVIOUS
<1>1. [s \in {} |-> FALSE] \in Tables
  <2>1. [s \in {} |-> FALSE] \in [{} -> Clients]
    OBVIOUS
  <2>2. QED
    BY <2>1 DEF Tables
<1>2. TypeOK
  BY <1>1 DEF Init, TypeOK, Tables
<1>3. LoadedSoFar
  BY DEF Init, LoadedSoFar
<1>4. ReportedInOrder
  BY DEF Init, ReportedInOrder
<1>5. LookupsSucceed /\ ClientsHavePlayers /\ NothingIgnored
  BY DEF Init, LookupsSucceed, ClientsHavePlayers, NothingIgnored
<1>6. QED
  BY <1>2, <1>3, <1>4, <1>5 DEF IInv

\* A service is taken through a phase: an interface that it needs is there.
LEMMA LoadIInv == ASSUME IInv, NEW s \in Loaded, Load(s) PROVE IInv'
<1>1. /\ s \in todo /\ todo' = todo \ {s}
      /\ UNCHANGED <<phase, inbox, status, clients, players, logins, loggedIn>>
      /\ UNCHANGED <<unused, sessions, assigned, ignored>>
  BY DEF Load, network, accounts, games
<1>2. phase \in {"Initialise", "OnAllServicesLoaded", "OnAllInterfacesLoaded"}
  BY DEF Load, Initialise, OnAllServicesLoaded, OnAllInterfacesLoaded
<1>3. Offers(s) \subseteq Interfaces /\ Needs(s) \subseteq Interfaces
  BY DEF Offers, Needs, Interfaces, Loaded, RequestTypes
<1>4. /\ registered' \subseteq Interfaces
      /\ clientHandler' \in BOOLEAN /\ messageHandlers' \subseteq RequestTypes
  BY <1>3 DEF Load, Initialise, OnAllServicesLoaded, OnAllInterfacesLoaded, startup,
              IInv, TypeOK, Interfaces
<1>5. TypeOK'
  BY <1>1, <1>4 DEF IInv, TypeOK, Interfaces
<1>6. LoadedSoFar'
  <2>1. CASE phase = "Initialise"
    BY <1>1, <2>1 DEF IInv, LoadedSoFar
  <2>2. CASE phase = "OnAllServicesLoaded"
    BY <1>1, <2>2 DEF Load, Initialise, OnAllServicesLoaded, OnAllInterfacesLoaded, IInv, LoadedSoFar
  <2>3. CASE phase = "OnAllInterfacesLoaded"
    <3>1. /\ clientHandler' = (clientHandler \/ s = "PlayerSession")
          /\ messageHandlers' = messageHandlers \cup ({s} \cap RequestTypes)
          /\ registered' = registered
      BY <2>3 DEF Load, Initialise, OnAllServicesLoaded, OnAllInterfacesLoaded
    <3>2. QED
      BY <1>1, <2>3, <3>1 DEF IInv, LoadedSoFar
  <2>4. QED
    BY <1>2, <2>1, <2>2, <2>3
<1>7. LookupsSucceed'
  <2>1. CASE phase = "OnAllInterfacesLoaded"
    BY <1>3, <2>1 DEF Load, Initialise, OnAllServicesLoaded, OnAllInterfacesLoaded,
                      IInv, LoadedSoFar, LookupsSucceed
  <2>2. CASE phase # "OnAllInterfacesLoaded"
    BY <1>3, <2>2 DEF Load, Initialise, OnAllServicesLoaded, OnAllInterfacesLoaded, startup,
                      IInv, LookupsSucceed
  <2>3. QED
    BY <2>1, <2>2
<1>8. ReportedInOrder'
  BY <1>1, <1>2 DEF IInv, ReportedInOrder
<1>9. ClientsHavePlayers' /\ NothingIgnored'
  BY <1>1 DEF IInv, ClientsHavePlayers, NothingIgnored
<1>10. QED
  BY <1>5, <1>6, <1>7, <1>8, <1>9 DEF IInv

\* A phase ends only when every service has been through it.
LEMMA NextPhaseIInv == ASSUME IInv, NextPhase, ServicesAssumption PROVE IInv'
<1>1. /\ phase # "crashed" /\ todo = {}
      /\ UNCHANGED <<registered, missing, clientHandler, messageHandlers, inbox, status>>
      /\ UNCHANGED <<clients, players, logins, loggedIn, unused, sessions, assigned, ignored>>
  BY DEF NextPhase, startup, network, accounts, games
<1>2. /\ phase = "Initialise" => phase' = "OnAllServicesLoaded" /\ todo' = Loaded
      /\ phase = "OnAllServicesLoaded" => phase' = "OnAllInterfacesLoaded" /\ todo' = Loaded
      /\ phase \in {"OnAllInterfacesLoaded", "ProcessTick"} => phase' = "ProcessTick" /\ todo' = Pass
      /\ phase \in {"Initialise", "OnAllServicesLoaded", "OnAllInterfacesLoaded", "ProcessTick"}
  <2>1. phase \in {"Initialise", "OnAllServicesLoaded", "OnAllInterfacesLoaded", "ProcessTick"}
    BY <1>1 DEF IInv, TypeOK
  <2>2. CASE phase = "Initialise"
    BY <2>2 DEF NextPhase
  <2>3. CASE phase = "OnAllServicesLoaded"
    BY <2>3 DEF NextPhase
  <2>4. CASE phase \in {"OnAllInterfacesLoaded", "ProcessTick"}
    BY <2>4 DEF NextPhase
  <2>5. QED
    BY <2>1, <2>2, <2>3, <2>4
<1>3. TypeOK'
  <2>1. todo' \subseteq Loaded \cup Clients
    BY <1>2 DEF Pass, Loaded
  <2>2. QED
    BY <1>1, <1>2, <2>1 DEF IInv, TypeOK
<1>4. LoadedSoFar'
  <2>1. CASE phase = "Initialise"
    BY <1>1, <1>2, <2>1 DEF LoadedSoFar
  <2>2. CASE phase = "OnAllServicesLoaded"
    <3>1. /\ Offers("Connector") \subseteq registered
          /\ Offers("WebsocketService") \subseteq registered
          /\ Offers("Game") \subseteq registered
      BY <1>1, <2>2 DEF IInv, LoadedSoFar, Loaded
    <3>2. Interfaces \subseteq registered
      BY <3>1 DEF Offers, Interfaces
    <3>3. QED
      BY <1>1, <1>2, <2>2, <3>2 DEF LoadedSoFar, Loaded, RequestTypes
  <2>3. CASE phase = "OnAllInterfacesLoaded"
    BY <1>1, <1>2, <2>3 DEF IInv, TypeOK, LoadedSoFar
  <2>4. CASE phase = "ProcessTick"
    BY <1>1, <1>2, <2>4 DEF IInv, LoadedSoFar
  <2>5. QED
    BY <1>2, <2>1, <2>2, <2>3, <2>4
<1>5. ReportedInOrder'
  <2>1. ASSUME NEW c \in Clients, phase' = "ProcessTick", c \in todo'
        PROVE  inbox[c] # <<>>
    <3>1. todo' = Pass
      BY <1>2, <2>1
    <3>2. c \notin {"Connector", "Game"}
      BY DEF ServicesAssumption, Loaded
    <3>3. QED
      BY <2>1, <3>1, <3>2 DEF Pass
  <2>2. QED
    BY <1>1, <2>1 DEF IInv, ReportedInOrder
<1>6. LookupsSucceed' /\ ClientsHavePlayers' /\ NothingIgnored'
  BY <1>1 DEF IInv, LookupsSucceed, ClientsHavePlayers, NothingIgnored
<1>7. QED
  BY <1>3, <1>4, <1>5, <1>6 DEF IInv

\* Something happens to a client on the network.
LEMMA ArrivesIInv ==
  ASSUME IInv, NEW c \in Clients, NEW event \in Events, NEW to \in {"new", "connected", "gone"},
         Arrives(c, event, to),
         \/ event.type = "connected" /\ status[c] = "new" /\ to = "connected"
         \/ event.type = "disconnected" /\ status[c] = "connected" /\ to = "gone"
         \/ /\ event.type \notin {"connected", "disconnected"}
            /\ status[c] = "connected" /\ to = "connected"
  PROVE  IInv'
<1>1. /\ inbox[c] = <<>>
      /\ inbox' = [inbox EXCEPT ![c] = <<event>>]
      /\ status' = [status EXCEPT ![c] = to]
      /\ UNCHANGED <<phase, todo, registered, missing, clientHandler, messageHandlers>>
      /\ UNCHANGED <<clients, players, logins, loggedIn, unused, sessions, assigned, ignored>>
  BY DEF Arrives, startup, accounts, games
<1>2. /\ status \in [Clients -> {"new", "connected", "gone"}]
      /\ inbox \in [Clients -> {<<>>} \cup {<<e>> : e \in Events}]
  BY DEF IInv, TypeOK
<1>3. TypeOK'
  <2>1. status' \in [Clients -> {"new", "connected", "gone"}]
    BY <1>1, <1>2
  <2>2. inbox' \in [Clients -> {<<>>} \cup {<<e>> : e \in Events}]
    BY <1>1, <1>2
  <2>3. QED
    BY <1>1, <2>1, <2>2 DEF IInv, TypeOK
<1>4. ReportedInOrder'
  <2> SUFFICES ASSUME NEW d \in Clients
               PROVE  /\ inbox'[d] = <<>> => (d \in clients <=> status'[d] = "connected")
                      /\ \A e \in Events :
                           inbox'[d] = <<e>> =>
                             CASE e.type = "connected" ->
                                    status'[d] = "connected" /\ d \notin clients
                               [] e.type = "disconnected" ->
                                    status'[d] = "gone" /\ d \in clients
                               [] OTHER -> status'[d] = "connected" /\ d \in clients
                      /\ phase = "ProcessTick" /\ d \in todo => inbox'[d] # <<>>
    BY <1>1 DEF ReportedInOrder
  <2>1. CASE d = c
    <3>1. inbox'[d] = <<event>> /\ status'[d] = to /\ <<event>> # <<>>
      BY <1>1, <1>2, <2>1
    <3>2. d \in clients <=> status[d] = "connected"
      BY <1>1, <2>1 DEF IInv, ReportedInOrder
    <3>3. ASSUME NEW e \in Events, inbox'[d] = <<e>>
          PROVE  e = event
      <4>1. <<event>> = <<e>>
        BY <3>1, <3>3
      <4>2. <<event>>[1] = event /\ <<e>>[1] = e
        OBVIOUS
      <4>3. QED
        BY <4>1, <4>2
    <3>4. CASE event.type = "connected"
      BY <2>1, <3>1, <3>2, <3>3, <3>4
    <3>5. CASE event.type = "disconnected"
      BY <2>1, <3>1, <3>2, <3>3, <3>5
    <3>6. CASE event.type \notin {"connected", "disconnected"}
      BY <2>1, <3>1, <3>2, <3>3, <3>6
    <3>7. QED
      BY <3>4, <3>5, <3>6
  <2>2. CASE d # c
    <3>1. inbox'[d] = inbox[d] /\ status'[d] = status[d]
      BY <1>1, <1>2, <2>2
    <3>2. QED
      BY <3>1 DEF IInv, ReportedInOrder
  <2>3. QED
    BY <2>1, <2>2
<1>5. LoadedSoFar' /\ LookupsSucceed' /\ ClientsHavePlayers' /\ NothingIgnored'
  BY <1>1 DEF IInv, LoadedSoFar, LookupsSucceed, ClientsHavePlayers, NothingIgnored
<1>6. QED
  BY <1>3, <1>4, <1>5 DEF IInv

LEMMA NetworkIInv == ASSUME IInv, Network PROVE IInv'
<1>1. PICK c \in Clients : ClientConnects(c) \/ ClientSends(c) \/ ClientLeaves(c)
  BY DEF Network
<1>2. CASE ClientConnects(c)
  <2>1. [type |-> "connected"] \in Events /\ [type |-> "connected"].type = "connected"
    BY DEF Events
  <2>2. QED
    BY <1>2, <2>1, ArrivesIInv DEF ClientConnects
<1>3. CASE ClientSends(c)
  <2>1. PICK message \in Messages : Arrives(c, message, "connected")
    BY <1>3 DEF ClientSends
  <2>2. message \in Events /\ message.type \notin {"connected", "disconnected"}
    BY MessageTypes DEF Events, RequestTypes
  <2>3. status[c] = "connected"
    BY <1>3 DEF ClientSends
  <2>4. QED
    BY <2>1, <2>2, <2>3, ArrivesIInv
<1>4. CASE ClientLeaves(c)
  <2>1. [type |-> "disconnected"] \in Events /\ [type |-> "disconnected"].type = "disconnected"
    BY DEF Events
  <2>2. QED
    BY <1>4, <2>1, ArrivesIInv DEF ClientLeaves
<1>5. QED
  BY <1>1, <1>2, <1>3, <1>4

-----------------------------------------------------------------------------
\* The event that is reported, and what it says of the client.
LEMMA ReportFacts ==
  ASSUME IInv, NEW c \in Clients, ReportEvent(c)
  PROVE  \E event \in Events :
           /\ inbox[c] = <<event>> /\ Head(inbox[c]) = event
           /\ inbox' = [inbox EXCEPT ![c] = <<>>]
           /\ phase = "ProcessTick" /\ todo' = todo \ {c}
           /\ UNCHANGED <<registered, clientHandler, messageHandlers, status, unused, sessions>>
           /\ CASE event.type = "connected"    -> status[c] = "connected" /\ c \notin clients
                [] event.type = "disconnected" -> status[c] = "gone" /\ c \in clients
                [] OTHER                       -> status[c] = "connected" /\ c \in clients
           /\ \/ event.type = "connected" /\ OnSessionConnected(c)
              \/ event.type = "disconnected" /\ OnSessionDisconnected(c)
              \/ event \in Messages /\ OnMessage(c, event)
<1>1. /\ phase = "ProcessTick" /\ c \in todo /\ todo' = todo \ {c}
      /\ inbox' = [inbox EXCEPT ![c] = Tail(inbox[c])]
      /\ UNCHANGED <<registered, clientHandler, messageHandlers, status, unused, sessions>>
      /\ \/ Head(inbox[c]).type = "connected" /\ OnSessionConnected(c)
         \/ Head(inbox[c]).type = "disconnected" /\ OnSessionDisconnected(c)
         \/ Head(inbox[c]) \in Messages /\ OnMessage(c, Head(inbox[c]))
  BY DEF ReportEvent
<1>2. inbox[c] # <<>>
  BY <1>1 DEF IInv, ReportedInOrder
<1>3. PICK event \in Events : inbox[c] = <<event>> /\ Head(inbox[c]) = event /\ Tail(inbox[c]) = <<>>
  BY <1>2, Waiting DEF IInv
<1>4. CASE event.type = "connected"
  BY <1>1, <1>3, <1>4 DEF IInv, ReportedInOrder
<1>5. CASE event.type = "disconnected"
  BY <1>1, <1>3, <1>5 DEF IInv, ReportedInOrder
<1>6. CASE event.type \notin {"connected", "disconnected"}
  BY <1>1, <1>3, <1>6 DEF IInv, ReportedInOrder
<1>7. QED
  BY <1>4, <1>5, <1>6

\* Once c's event is reported, the order of c's events is kept if clients_ now
\* says of c what the network does, and nothing else of the others.
LEMMA ReportedKept ==
  ASSUME IInv, NEW c \in Clients,
         inbox' = [inbox EXCEPT ![c] = <<>>], UNCHANGED status,
         todo' = todo \ {c}, phase = "ProcessTick",
         c \in clients' <=> status[c] = "connected",
         \A d \in Clients \ {c} : d \in clients' <=> d \in clients
  PROVE  ReportedInOrder'
<1> SUFFICES ASSUME NEW d \in Clients
             PROVE  /\ inbox'[d] = <<>> => (d \in clients' <=> status[d] = "connected")
                    /\ \A e \in Events :
                         inbox'[d] = <<e>> =>
                           CASE e.type = "connected" ->
                                  status[d] = "connected" /\ d \notin clients'
                             [] e.type = "disconnected" ->
                                  status[d] = "gone" /\ d \in clients'
                             [] OTHER -> status[d] = "connected" /\ d \in clients'
                    /\ phase' = "ProcessTick" /\ d \in todo' => inbox'[d] # <<>>
  BY DEF ReportedInOrder
<1>1. \A e \in Events : <<e>> # <<>>
  OBVIOUS
<1>2. CASE d = c
  <2>1. inbox'[d] = <<>> /\ d \notin todo'
    BY <1>2 DEF IInv, TypeOK
  <2>2. QED
    BY <2>1, <1>1, <1>2
<1>3. CASE d # c
  <2>1. inbox'[d] = inbox[d]
    BY <1>3 DEF IInv, TypeOK
  <2>2. (d \in clients' <=> d \in clients) /\ (d \in todo' => d \in todo)
    BY <1>3
  <2>3. QED
    BY <2>1, <2>2 DEF IInv, ReportedInOrder
<1>4. QED
  BY <1>2, <1>3

\* What Incoming does to the tables of players, and to the program.
LEMMA IncomingFacts ==
  ASSUME IInv, ServicesAssumption, NEW c \in Clients, NEW message \in Messages,
         Incoming(c, message)
  PROVE  /\ assigned' \in [Servers -> Tables]
         /\ phase' \in {phase, "crashed"}
         /\ logins' \subseteq Clients
<1>1. assigned \in [Servers -> Tables] /\ logins \subseteq Clients
  BY DEF IInv, TypeOK, Tables
<1>2. logins' \subseteq Clients
  BY <1>1 DEF Incoming
<1>3. CASE /\ Assigns(c, message)
           /\ ServerID(message) \in Servers
           /\ SetSSIDPlayer(ServerID(message), message.ssid, c)
           /\ UNCHANGED phase
  <2>1. PICK k \in Servers : k = ServerID(message)
    BY <1>3
  <2>2. message.ssid \in Sessions
    BY <1>3, ConnectUDPFields DEF Assigns
  <2>3. PICK u \in Sessions : u = message.ssid
    BY <2>2
  <2>4. assigned' = [assigned EXCEPT ![k] =
                       [s \in DOMAIN assigned[k] \cup {u} |->
                          IF s = u THEN c ELSE assigned[k][s]]]
    BY <1>3, <2>1, <2>3 DEF SetSSIDPlayer
  <2>5. assigned[k] \in Tables
    BY <1>1
  <2>6. [s \in DOMAIN assigned[k] \cup {u} |-> IF s = u THEN c ELSE assigned[k][s]] \in Tables
    BY <2>5, TableWith
  <2>7. assigned' \in [Servers -> Tables]
    BY <1>1, <2>4, <2>6
  <2>8. QED
    BY <1>2, <1>3, <2>7
<1>4. CASE UNCHANGED assigned /\ phase' \in {phase, "crashed"}
  BY <1>1, <1>2, <1>4
<1>5. QED
  BY <1>3, <1>4 DEF Incoming

LEMMA ReportIInv ==
  ASSUME IInv, ServicesAssumption, NEW c \in Clients, ReportEvent(c)
  PROVE  IInv'
<1>1. PICK event \in Events :
           /\ inbox[c] = <<event>> /\ Head(inbox[c]) = event
           /\ inbox' = [inbox EXCEPT ![c] = <<>>]
           /\ phase = "ProcessTick" /\ todo' = todo \ {c}
           /\ UNCHANGED <<registered, clientHandler, messageHandlers, status, unused, sessions>>
           /\ CASE event.type = "connected"    -> status[c] = "connected" /\ c \notin clients
                [] event.type = "disconnected" -> status[c] = "gone" /\ c \in clients
                [] OTHER                       -> status[c] = "connected" /\ c \in clients
           /\ \/ event.type = "connected" /\ OnSessionConnected(c)
              \/ event.type = "disconnected" /\ OnSessionDisconnected(c)
              \/ event \in Messages /\ OnMessage(c, event)
  BY ReportFacts
<1>2. clientHandler = TRUE /\ messageHandlers = RequestTypes /\ Interfaces \subseteq registered
  BY <1>1 DEF IInv, TypeOK, LoadedSoFar
<1>3. inbox' \in [Clients -> {<<>>} \cup {<<e>> : e \in Events}]
  BY <1>1 DEF IInv, TypeOK
<1>4. CASE event.type = "connected" /\ OnSessionConnected(c)
  <2>1. /\ clients' = clients \cup {c} /\ players' = players \cup {c} /\ missing' = missing
        /\ UNCHANGED <<phase, logins, loggedIn, assigned, ignored>>
    BY <1>2, <1>4 DEF OnSessionConnected, Interfaces
  <2>2. TypeOK'
    BY <1>1, <1>3, <2>1 DEF IInv, TypeOK
  <2>3. LoadedSoFar'
    BY <1>1, <2>1 DEF IInv, LoadedSoFar
  <2>4. ReportedInOrder'
    BY <1>1, <1>4, <2>1, ReportedKept
  <2>5. LookupsSucceed' /\ ClientsHavePlayers' /\ NothingIgnored'
    BY <1>1, <2>1 DEF IInv, LookupsSucceed, ClientsHavePlayers, NothingIgnored
  <2>6. QED
    BY <2>2, <2>3, <2>4, <2>5 DEF IInv
<1>5. CASE event.type = "disconnected" /\ OnSessionDisconnected(c)
  <2>1. /\ clients' = clients \ {c} /\ players' = players \ {c}
        /\ UNCHANGED <<phase, missing, logins, loggedIn, assigned, ignored>>
    BY <1>2, <1>5 DEF OnSessionDisconnected
  <2>2. TypeOK'
    BY <1>1, <1>3, <2>1 DEF IInv, TypeOK
  <2>3. LoadedSoFar'
    BY <1>1, <2>1 DEF IInv, LoadedSoFar
  <2>4. ReportedInOrder'
    <3>1. status[c] = "gone"
      BY <1>1, <1>5
    <3>2. QED
      BY <1>1, <2>1, <3>1, ReportedKept
  <2>5. LookupsSucceed' /\ ClientsHavePlayers' /\ NothingIgnored'
    BY <1>1, <2>1 DEF IInv, LookupsSucceed, ClientsHavePlayers, NothingIgnored
  <2>6. QED
    BY <2>2, <2>3, <2>4, <2>5 DEF IInv
<1>6. CASE event \in Messages /\ OnMessage(c, event)
  <2>1. event.type \in RequestTypes \cup {"other"}
    BY <1>6, MessageTypes
  <2>2. status[c] = "connected" /\ c \in clients /\ c \in players
    BY <1>1, <2>1 DEF RequestTypes, IInv, ClientsHavePlayers
  <2>3. UNCHANGED <<missing, clients, players, loggedIn>>
    BY <1>6 DEF OnMessage
  <2>4. \/ Incoming(c, event) /\ UNCHANGED ignored
        \/ ignored' = ignored /\ UNCHANGED <<phase, logins, assigned>>
    <3>1. CASE event.type \in RequestTypes
      BY <1>2, <1>6, <2>2, <3>1 DEF OnMessage
    <3>2. CASE event.type \notin RequestTypes
      BY <1>2, <1>6, <2>2, <3>2 DEF OnMessage
    <3>3. QED
      BY <3>1, <3>2
  <2>5. /\ assigned' \in [Servers -> Tables]
        /\ phase' \in {phase, "crashed"}
        /\ logins' \subseteq Clients
    <3>1. CASE Incoming(c, event)
      BY <1>6, <3>1, IncomingFacts
    <3>2. CASE UNCHANGED <<phase, logins, assigned>>
      BY <3>2 DEF IInv, TypeOK, Tables
    <3>3. QED
      BY <2>4, <3>1, <3>2
  <2>6. ignored' = ignored
    BY <2>4
  <2>7. TypeOK'
    <3>1. /\ clients' \subseteq Clients /\ players' \subseteq Clients /\ loggedIn' \subseteq Clients
          /\ todo' \subseteq Loaded \cup Clients
      BY <1>1, <2>3 DEF IInv, TypeOK
    <3>2. phase' \in {"Initialise", "OnAllServicesLoaded", "OnAllInterfacesLoaded", "ProcessTick",
                      "crashed"}
      BY <1>1, <2>5
    <3>3. QED
      BY <1>1, <1>3, <2>5, <3>1, <3>2 DEF IInv, TypeOK, Tables
  <2>8. LoadedSoFar'
    BY <1>1, <2>5 DEF IInv, LoadedSoFar
  <2>9. ReportedInOrder'
    BY <1>1, <2>2, <2>3, ReportedKept
  <2>10. LookupsSucceed' /\ ClientsHavePlayers' /\ NothingIgnored'
    BY <2>3, <2>5, <2>6 DEF IInv, LookupsSucceed, ClientsHavePlayers, NothingIgnored
  <2>11. QED
    BY <2>7, <2>8, <2>9, <2>10 DEF IInv
<1>7. QED
  BY <1>1, <1>4, <1>5, <1>6

LEMMA ConnectorIInv == ASSUME IInv, ConnectorTick PROVE IInv'
<1>1. /\ todo' = todo \ {"Connector"} /\ loggedIn \subseteq loggedIn'
      /\ UNCHANGED <<phase, registered, missing, clientHandler, messageHandlers, inbox, status>>
      /\ UNCHANGED <<clients, players, unused, sessions, assigned, ignored>>
  BY DEF ConnectorTick, startup, network, games
<1>2. logins' \subseteq Clients /\ loggedIn' \subseteq Clients
  BY DEF ConnectorTick, IInv, TypeOK
<1>3. TypeOK'
  BY <1>1, <1>2 DEF IInv, TypeOK
<1>4. LoadedSoFar' /\ ReportedInOrder'
  <2>1. phase = "ProcessTick"
    BY DEF ConnectorTick
  <2>2. LoadedSoFar'
    BY <1>1, <2>1 DEF IInv, LoadedSoFar
  <2>3. ReportedInOrder'
    BY <1>1 DEF IInv, ReportedInOrder
  <2>4. QED
    BY <2>2, <2>3
<1>5. LookupsSucceed' /\ ClientsHavePlayers' /\ NothingIgnored'
  BY <1>1 DEF IInv, LookupsSucceed, ClientsHavePlayers, NothingIgnored
<1>6. QED
  BY <1>3, <1>4, <1>5 DEF IInv

\* What the UDP servers report.
LEMMA GameFacts ==
  ASSUME IInv,
         \/ \E s \in Sessions, k \in Servers : UdpConnects(s, k) \/ UdpDisconnects(s, k)
         \/ UNCHANGED games
  PROVE  /\ unused' \subseteq Sessions
         /\ sessions' \in [Servers -> SUBSET (Sessions \ unused')]
         /\ assigned' \in [Servers -> Tables]
<1>1. /\ unused \subseteq Sessions /\ sessions \in [Servers -> SUBSET (Sessions \ unused)]
      /\ assigned \in [Servers -> Tables]
  BY DEF IInv, TypeOK, Tables
<1>2. ASSUME NEW s \in Sessions, NEW k \in Servers, UdpConnects(s, k)
      PROVE  /\ unused' \subseteq Sessions
             /\ sessions' \in [Servers -> SUBSET (Sessions \ unused')]
             /\ assigned' = assigned
  <2>1. /\ s \in unused /\ unused' = unused \ {s} /\ assigned' = assigned
        /\ sessions' = [sessions EXCEPT ![k] = sessions[k] \cup {s}]
    BY <1>2 DEF UdpConnects
  <2>2. sessions[k] \cup {s} \in SUBSET (Sessions \ unused')
    BY <1>1, <2>1
  <2>3. sessions \in [Servers -> SUBSET (Sessions \ unused')]
    <3>1. SUBSET (Sessions \ unused) \subseteq SUBSET (Sessions \ unused')
      BY <2>1
    <3>2. QED
      BY <1>1, <3>1
  <2>4. QED
    BY <1>1, <2>1, <2>2, <2>3
<1>3. ASSUME NEW s \in Sessions, NEW k \in Servers, UdpDisconnects(s, k)
      PROVE  /\ unused' = unused
             /\ sessions' \in [Servers -> SUBSET (Sessions \ unused)]
             /\ assigned' \in [Servers -> Tables]
  <2>1. /\ sessions' = [sessions EXCEPT ![k] = sessions[k] \ {s}] /\ unused' = unused
        /\ assigned' = [assigned EXCEPT ![k] =
                          [t \in DOMAIN assigned[k] \ {s} |-> assigned[k][t]]]
    BY <1>3 DEF UdpDisconnects
  <2>2. sessions' \in [Servers -> SUBSET (Sessions \ unused)]
    <3>1. sessions[k] \ {s} \in SUBSET (Sessions \ unused)
      BY <1>1
    <3>2. QED
      BY <1>1, <2>1, <3>1
  <2>3. assigned' \in [Servers -> Tables]
    <3>1. assigned[k] \in Tables
      BY <1>1
    <3>2. [t \in DOMAIN assigned[k] \ {s} |-> assigned[k][t]] \in Tables
      BY <3>1, TableWithout
    <3>3. QED
      BY <1>1, <2>1, <3>2
  <2>4. QED
    BY <2>1, <2>2, <2>3
<1>4. CASE UNCHANGED games
  BY <1>1, <1>4 DEF games
<1>5. QED
  BY <1>1, <1>2, <1>3, <1>4

LEMMA GameIInv == ASSUME IInv, GameTick PROVE IInv'
<1>1. /\ todo' = todo \ {"Game"}
      /\ UNCHANGED <<phase, registered, missing, clientHandler, messageHandlers, inbox, status>>
      /\ UNCHANGED <<clients, players, logins, loggedIn, ignored>>
      /\ \/ \E s \in Sessions, k \in Servers : UdpConnects(s, k) \/ UdpDisconnects(s, k)
         \/ UNCHANGED games
  BY DEF GameTick, startup, network, accounts
<1>2. /\ unused' \subseteq Sessions
      /\ sessions' \in [Servers -> SUBSET (Sessions \ unused')]
      /\ assigned' \in [Servers -> Tables]
  BY <1>1, GameFacts
<1>3. TypeOK'
  BY <1>1, <1>2 DEF IInv, TypeOK, Tables
<1>4. LoadedSoFar' /\ ReportedInOrder'
  <2>1. phase = "ProcessTick"
    BY DEF GameTick
  <2>2. LoadedSoFar'
    BY <1>1, <2>1 DEF IInv, LoadedSoFar
  <2>3. ReportedInOrder'
    BY <1>1 DEF IInv, ReportedInOrder
  <2>4. QED
    BY <2>2, <2>3
<1>5. LookupsSucceed' /\ ClientsHavePlayers' /\ NothingIgnored'
  BY <1>1, <1>2 DEF IInv, LookupsSucceed, ClientsHavePlayers, NothingIgnored
<1>6. QED
  BY <1>3, <1>4, <1>5 DEF IInv

LEMMA StepIInv == ASSUME IInv, ServicesAssumption, [Next]_vars PROVE IInv'
<1>1. CASE NextPhase
  BY <1>1, NextPhaseIInv
<1>2. CASE \E s \in Loaded : Load(s)
  BY <1>2, LoadIInv
<1>3. CASE \E c \in Clients : ReportEvent(c)
  BY <1>3, ReportIInv
<1>4. CASE ConnectorTick
  BY <1>4, ConnectorIInv
<1>5. CASE GameTick
  BY <1>5, GameIInv
<1>6. CASE Network
  BY <1>6, NetworkIInv
<1>7. CASE UNCHANGED vars
  BY <1>7 DEF vars, startup, network, accounts, games, IInv, TypeOK, LoadedSoFar, ReportedInOrder,
              LookupsSucceed, ClientsHavePlayers, NothingIgnored
<1>8. QED
  BY <1>1, <1>2, <1>3, <1>4, <1>5, <1>6, <1>7 DEF Next, Main

LEMMA InvHolds == Spec => []IInv
<1>1. Init => IInv
  BY InitIInv
<1>2. IInv /\ [Next]_vars => IInv'
  BY StepIInv, ServicesAssumption
<1>3. QED
  BY <1>1, <1>2, PTL DEF Spec

-----------------------------------------------------------------------------
\* Types of all services, among them that a game server's players_ only ever
\* has keys that can be sessions.
THEOREM TypeCorrect == Spec => []TypeOK
<1>1. IInv => TypeOK
  BY DEF IInv
<1>2. QED
  BY <1>1, InvHolds, PTL

\* No order of loading makes a look-up fail.
THEOREM LookupsSucceedHolds == Spec => []LookupsSucceed
<1>1. IInv => LookupsSucceed
  BY DEF IInv
<1>2. QED
  BY <1>1, InvHolds, PTL

\* clients_ and players_ have the same clients, whenever these come and go.
THEOREM ClientsHavePlayersHolds == Spec => []ClientsHavePlayers
<1>1. IInv => ClientsHavePlayers
  BY DEF IInv
<1>2. QED
  BY <1>1, InvHolds, PTL

\* No request is dropped for want of a handler or of a player.
THEOREM NothingIgnoredHolds == Spec => []NothingIgnored
<1>1. IInv => NothingIgnored
  BY DEF IInv
<1>2. QED
  BY <1>1, InvHolds, PTL

-----------------------------------------------------------------------------
\* What is left of serverId is a number of Modulus values.
LEMMA ServerIDRange ==
  ASSUME ServicesAssumption, NEW id \in Int
  PROVE  id % Modulus \in Nat
BY DEF ServicesAssumption

LEMMA OnlyZeroIsMissed ==
  ASSUME ServicesAssumption, NEW c \in Clients, NEW message \in Messages,
         Assigns(c, message) \/ Reads(c, message),
         ServerID(message) \notin Servers
  PROVE  ServerID(message) = 0
<1>1. message.serverId # Malformed /\ ServerID(message) <= ServerCount
  BY DEF Assigns, Reads, IsServer
<1>2. message.serverId \in Int
  BY <1>1, ConnectUDPFields, LeaderBoardFields DEF Assigns, Reads, ServicesAssumption
<1>3. ServerID(message) \in Nat
  BY <1>2, ServerIDRange DEF ServerID
<1>4. QED
  BY <1>1, <1>3 DEF Servers, ServicesAssumption

\* Of all IDs that no game server has, only 0 gets past the checks.
THEOREM OnlyZeroCrashesHolds == Spec => OnlyZeroCrashes
<1>1. ASSUME IInv, ServicesAssumption, [Next]_vars
      PROVE  [phase' = "crashed" =>
                \E c \in Clients : inbox[c] # inbox'[c] /\ ServerID(Head(inbox[c])) = 0]_vars
  <2> SUFFICES ASSUME Next, phase' = "crashed"
               PROVE  \E c \in Clients : inbox[c] # inbox'[c] /\ ServerID(Head(inbox[c])) = 0
    BY <1>1
  <2>1. ~NextPhase
    BY DEF NextPhase
  <2>2. ASSUME NEW s \in Loaded, Load(s) PROVE FALSE
    BY <2>2 DEF Load, Initialise, OnAllServicesLoaded, OnAllInterfacesLoaded
  <2>3. ~ConnectorTick /\ ~GameTick
    BY DEF ConnectorTick, GameTick
  <2>4. ~Network
    BY DEF Network, ClientConnects, ClientSends, ClientLeaves, Arrives, Listening
  <2>5. PICK c \in Clients : ReportEvent(c)
    BY <2>1, <2>2, <2>3, <2>4 DEF Next, Main
  <2>6. PICK event \in Events :
           /\ inbox[c] = <<event>> /\ Head(inbox[c]) = event
           /\ inbox' = [inbox EXCEPT ![c] = <<>>]
           /\ phase = "ProcessTick"
           /\ \/ event.type = "connected" /\ OnSessionConnected(c)
              \/ event.type = "disconnected" /\ OnSessionDisconnected(c)
              \/ event \in Messages /\ OnMessage(c, event)
    BY <1>1, <2>5, ReportFacts
  <2>7. event \in Messages /\ Incoming(c, event)
    BY <2>6 DEF OnSessionConnected, OnSessionDisconnected, OnMessage
  <2>8. ServerID(event) = 0
    BY <1>1, <2>6, <2>7, OnlyZeroIsMissed DEF Incoming
  <2>9. inbox'[c] = <<>> /\ <<event>> # <<>>
    BY <1>1, <2>6 DEF IInv, TypeOK
  <2>10. QED
    BY <2>6, <2>8, <2>9
<1>2. QED
  BY <1>1, InvHolds, ServicesAssumption, PTL DEF Spec, OnlyZeroCrashes

-----------------------------------------------------------------------------
\* Two states of a client: nothing of it is left to be reported, and it has
\* not connected yet.
NothingToReport(c) == inbox[c] = <<>>

IsNew(c) == status[c] = "new"

\* The client has gone, and whether the services have forgotten it.
IsGone(c) == status[c] = "gone"

Forgotten(c) == c \notin clients \cup players

\* If the events of the clients are reported, however late, whoever connects
\* gets its player, at whatever moment of start-up: once nothing of a client
\* that is connected is left to be reported, it is in clients_ and players_.
THEOREM ClientsAreMetHolds == Spec /\ EventsReported => ClientsAreMet
<1>. SUFFICES ASSUME NEW c \in Clients
              PROVE  Spec /\ (\/ []<>(inbox[c] = <<>> \/ phase = "crashed")
                              \/ []<><<ReportEvent(c)>>_vars)
                       => (status[c] = "connected" ~>
                             c \in players \/ status[c] = "gone" \/ phase = "crashed")
  BY DEF ClientsAreMet, EventsReported
<1>1. IInv /\ <<ReportEvent(c)>>_vars => NothingToReport(c)'
  BY ReportFacts DEF IInv, TypeOK, NothingToReport
<1>2. /\ inbox[c] = <<>> => NothingToReport(c)
      /\ IInv /\ NothingToReport(c) /\ status[c] = "connected" => c \in players
  BY DEF IInv, ReportedInOrder, ClientsHavePlayers, NothingToReport
<1>3. /\ IInv => IsNew(c) \/ status[c] = "connected" \/ status[c] = "gone"
      /\ status[c] = "connected" => ~IsNew(c)
  BY DEF IInv, TypeOK, IsNew
<1>4. IInv /\ [Next]_vars /\ ~IsNew(c) => ~IsNew(c)'
  <2>. SUFFICES ASSUME IInv, Next, status[c] # "new" PROVE status'[c] # "new"
    BY DEF vars, network, IsNew
  <2>1. CASE Main
    BY <2>1 DEF Main, NextPhase, Load, ReportEvent, ConnectorTick, GameTick, network
  <2>2. CASE Network
    BY <2>2 DEF Network, ClientConnects, ClientSends, ClientLeaves, Arrives, IInv, TypeOK
  <2>. QED  BY <2>1, <2>2 DEF Next
<1>. QED  BY <1>1, <1>2, <1>3, <1>4, InvHolds, PTL DEF Spec

\* Nothing happens to a client that is gone but that its last event is reported,
\* and nothing at all once the program has ended.
LEMMA GoneStays ==
  ASSUME IInv, [Next]_vars, NEW c \in Clients
  PROVE  /\ IsGone(c) => IsGone(c)'
         /\ IsGone(c) /\ NothingToReport(c) => NothingToReport(c)'
         /\ phase = "crashed" => (phase = "crashed")'
<1>1. /\ status \in [Clients -> {"new", "connected", "gone"}]
      /\ inbox \in [Clients -> {<<>>} \cup {<<event>> : event \in Events}]
  BY DEF IInv, TypeOK
<1>2. CASE Network
  <2>1. ASSUME NEW d \in Clients, NEW event, NEW to,
               Arrives(d, event, to), status[d] \in {"new", "connected"}
        PROVE  /\ IsGone(c) => IsGone(c)'
               /\ IsGone(c) /\ NothingToReport(c) => NothingToReport(c)'
               /\ phase = "crashed" => (phase = "crashed")'
    BY <1>1, <2>1 DEF Arrives, IsGone, NothingToReport
  <2>. QED  BY <1>2, <2>1 DEF Network, ClientConnects, ClientSends, ClientLeaves
<1>3. CASE NextPhase \/ (\E s \in Loaded : Load(s)) \/ ConnectorTick \/ GameTick
  BY <1>3 DEF NextPhase, Load, Initialise, OnAllServicesLoaded, OnAllInterfacesLoaded,
              ConnectorTick, GameTick, network, IsGone, NothingToReport
<1>4. CASE \E d \in Clients : ReportEvent(d)
  <2>1. PICK d \in Clients :
          /\ inbox' = [inbox EXCEPT ![d] = <<>>] /\ status' = status
          /\ phase = "ProcessTick"
    BY <1>4, ReportFacts
  <2>. QED  BY <1>1, <2>1 DEF IsGone, NothingToReport
<1>5. CASE UNCHANGED vars
  BY <1>5 DEF vars, network, IsGone, NothingToReport
<1>. QED  BY <1>2, <1>3, <1>4, <1>5 DEF Next, Main

\* If the events of the clients are reported, however late, whoever leaves is
\* forgotten in the end: once its last event is reported it is neither in
\* clients_ nor in players_, and no other event of it can come.
THEOREM GoneAreForgottenHolds == Spec /\ EventsReported => GoneAreForgotten
<1>. SUFFICES ASSUME NEW c \in Clients
              PROVE  Spec /\ (\/ []<>(inbox[c] = <<>> \/ phase = "crashed")
                              \/ []<><<ReportEvent(c)>>_vars)
                       => <>[](status[c] = "gone" =>
                                 c \notin clients \cup players \/ phase = "crashed")
  BY DEF GoneAreForgotten, EventsReported
<1>1. IInv /\ <<ReportEvent(c)>>_vars => NothingToReport(c)'
  BY ReportFacts DEF IInv, TypeOK, NothingToReport
<1>2. /\ inbox[c] = <<>> => NothingToReport(c)
      /\ status[c] = "gone" => IsGone(c)
      /\ Forgotten(c) => c \notin clients \cup players
  BY DEF NothingToReport, IsGone, Forgotten
<1>3. IInv /\ IsGone(c) /\ NothingToReport(c) => Forgotten(c)
  BY DEF IInv, ReportedInOrder, ClientsHavePlayers, NothingToReport, IsGone, Forgotten
<1>4. IInv /\ [Next]_vars =>
        /\ IsGone(c) => IsGone(c)'
        /\ IsGone(c) /\ NothingToReport(c) => NothingToReport(c)'
        /\ phase = "crashed" => (phase = "crashed")'
  BY GoneStays
<1>. QED  BY <1>1, <1>2, <1>3, <1>4, InvHolds, PTL DEF Spec
=============================================================================
