----------------------- MODULE WebsocketClientProofs -----------------------
(***************************************************************************)
(* Proofs about WebsocketClient, for any number of requests, any timeouts, *)
(* and callbacks that send requests or do not.                             *)
(***************************************************************************)
EXTENDS WebsocketClient, TLAPS

\* The jobs that are used are the ones below sourceJobID_.
UsedInOrder == \A j \in Jobs : outcome[j] = "unused" <=> j >= sourceJobID

IInv == TypeOK /\ WaitingIsHandled /\ UsedInOrder

\* Tables of handlers.
Handlers == UNION {[S -> 0 .. MaxTimeout] : S \in SUBSET Jobs}

LEMMA HandlersIntro ==
  ASSUME NEW S \in SUBSET Jobs, NEW f, f = [j \in S |-> f[j]], \A j \in S : f[j] \in 0 .. MaxTimeout
  PROVE  f \in Handlers /\ DOMAIN f = S
BY DEF Handlers

LEMMA HandlersElim ==
  ASSUME NEW f \in Handlers
  PROVE  /\ DOMAIN f \subseteq Jobs
         /\ \A j \in DOMAIN f : f[j] \in 0 .. MaxTimeout
BY DEF Handlers

-----------------------------------------------------------------------------
LEMMA InitIInv == Init => IInv
<1>. SUFFICES ASSUME Init PROVE IInv
  OBVIOUS
<1>. USE WebsocketClientAssumption
<1>1. jobsHandlers \in Handlers /\ DOMAIN jobsHandlers = {}
  <2>1. jobsHandlers = [j \in {} |-> jobsHandlers[j]]
    BY DEF Init
  <2>. QED  BY <2>1, HandlersIntro
<1>2. TypeOK
  BY <1>1 DEF Init, TypeOK, Handlers, Jobs
<1>3. WaitingIsHandled /\ UsedInOrder
  BY <1>1 DEF Init, WaitingIsHandled, UsedInOrder, Jobs
<1>. QED  BY <1>2, <1>3 DEF IInv

\* What registering a handler does to handlers hs.
LEMMA RegisteredHandlers ==
  ASSUME NEW hs \in Handlers, NEW timeout \in Timeouts, TypeOK, Registered(hs, timeout)
  PROVE  /\ sourceJobID \in Jobs /\ sourceJobID' = sourceJobID + 1
         /\ sourceJobID' \in 1 .. MaxJobs + 1
         /\ jobsHandlers' \in Handlers
         /\ DOMAIN jobsHandlers' = DOMAIN hs \cup {sourceJobID}
<1>. USE WebsocketClientAssumption
<1>1. sourceJobID \in Jobs /\ sourceJobID' = sourceJobID + 1 /\ sourceJobID' \in 1 .. MaxJobs + 1
  BY DEF Registered, Jobs
<1>2. DOMAIN hs \cup {sourceJobID} \in SUBSET Jobs
  BY <1>1, HandlersElim
<1>3. \A j \in DOMAIN hs \cup {sourceJobID} : jobsHandlers'[j] \in 0 .. MaxTimeout
  BY <1>1, HandlersElim DEF Registered, Timeouts
<1>4. jobsHandlers' = [j \in DOMAIN hs \cup {sourceJobID} |-> jobsHandlers'[j]]
  BY DEF Registered
<1>. QED  BY <1>1, <1>2, <1>3, <1>4, HandlersIntro

\* What a call does to the requests: the abstract step it is, and the
\* invariant's part about handlers and outcomes.
LEMMA CallStep ==
  ASSUME IInv, NEW j \in DOMAIN jobsHandlers, NEW result \in {"response", "nothing"}, Call(j, result)
  PROVE  /\ outcome \in [Jobs -> {"unused", "waiting", "response", "nothing"}]
         /\ outcome' \in [Jobs -> {"unused", "waiting", "response", "nothing"}]
         /\ jobsHandlers' \in Handlers
         /\ DOMAIN jobsHandlers \ {j} \subseteq DOMAIN jobsHandlers'
         /\ j \notin DOMAIN jobsHandlers'
         /\ sourceJobID' \in 1 .. MaxJobs + 1
         /\ WaitingIsHandled' /\ UsedInOrder'
         /\ Promise!Next
<1>. USE WebsocketClientAssumption
<1>1. /\ j \in Jobs /\ outcome[j] = "waiting"
      /\ outcome \in [Jobs -> {"unused", "waiting", "response", "nothing"}]
      /\ jobsHandlers \in Handlers /\ sourceJobID \in 1 .. MaxJobs + 1
  BY DEF IInv, TypeOK, WaitingIsHandled, Handlers
<1>2. HandlersWithout(j) \in Handlers /\ DOMAIN HandlersWithout(j) = DOMAIN jobsHandlers \ {j}
  BY <1>1, HandlersElim, HandlersIntro DEF HandlersWithout
<1>3. CASE /\ outcome' = [outcome EXCEPT ![j] = result]
           /\ jobsHandlers' = HandlersWithout(j)
           /\ UNCHANGED sourceJobID
  <2>1. outcome' \in [Jobs -> {"unused", "waiting", "response", "nothing"}]
    BY <1>1, <1>3
  <2>2. WaitingIsHandled'
    BY <1>1, <1>2, <1>3 DEF IInv, WaitingIsHandled
  <2>3. UsedInOrder'
    BY <1>1, <1>3 DEF IInv, UsedInOrder
  <2>4. Promise!Next
    BY <1>1, <1>3 DEF Promise!Next, Promise!Resolve
  <2>. QED  BY <1>1, <1>2, <1>3, <2>1, <2>2, <2>3, <2>4
<1>4. CASE /\ \E timeout \in Timeouts : Registered(HandlersWithout(j), timeout)
           /\ outcome' = [outcome EXCEPT ![j] = result, ![sourceJobID] = "waiting"]
  <2>1. PICK timeout \in Timeouts : Registered(HandlersWithout(j), timeout)
    BY <1>4
  <2>2. /\ sourceJobID \in Jobs /\ sourceJobID' = sourceJobID + 1
        /\ sourceJobID' \in 1 .. MaxJobs + 1
        /\ jobsHandlers' \in Handlers
        /\ DOMAIN jobsHandlers' = (DOMAIN jobsHandlers \ {j}) \cup {sourceJobID}
    BY <1>2, <2>1, RegisteredHandlers DEF IInv
  <2>3. outcome[sourceJobID] = "unused" /\ sourceJobID # j
    BY <1>1, <2>2 DEF IInv, UsedInOrder, Jobs
  <2>4. outcome' \in [Jobs -> {"unused", "waiting", "response", "nothing"}]
    BY <1>1, <1>4
  <2>5. WaitingIsHandled'
    BY <1>1, <1>4, <2>2, <2>3 DEF IInv, WaitingIsHandled
  <2>6. UsedInOrder'
    BY <1>1, <1>4, <2>2, <2>3 DEF IInv, UsedInOrder, Jobs
  <2>7. Promise!ResolveAndStart(j, sourceJobID)
    BY <1>1, <1>4, <2>2, <2>3 DEF Promise!ResolveAndStart
  <2>8. Promise!Next
    BY <1>1, <2>2, <2>7 DEF Promise!Next
  <2>9. j \notin DOMAIN jobsHandlers' /\ DOMAIN jobsHandlers \ {j} \subseteq DOMAIN jobsHandlers'
    BY <2>2, <2>3
  <2>. QED  BY <1>1, <2>2, <2>4, <2>5, <2>6, <2>8, <2>9
<1>. QED  BY <1>3, <1>4 DEF Call

\* The steps that call nothing and register nothing.
LEMMA QuietStep ==
  ASSUME IInv, UNCHANGED <<sourceJobID, outcome>>, DOMAIN jobsHandlers' = DOMAIN jobsHandlers
  PROVE  WaitingIsHandled' /\ UsedInOrder'
BY DEF IInv, WaitingIsHandled, UsedInOrder

LEMMA Step ==
  ASSUME IInv, Next
  PROVE  IInv' /\ (Promise!Next \/ UNCHANGED outcome)
<1>. USE WebsocketClientAssumption
<1>0. /\ jobsHandlers \in Handlers
      /\ outcome \in [Jobs -> {"unused", "waiting", "response", "nothing"}]
      /\ todo \subseteq DOMAIN jobsHandlers
  BY DEF IInv, TypeOK, Handlers
<1>1. ASSUME NEW timeout \in Timeouts, Request(timeout)
      PROVE  IInv' /\ Promise!Next
  <2>1. /\ sourceJobID \in Jobs /\ sourceJobID' = sourceJobID + 1
        /\ sourceJobID' \in 1 .. MaxJobs + 1
        /\ jobsHandlers' \in Handlers
        /\ DOMAIN jobsHandlers' = DOMAIN jobsHandlers \cup {sourceJobID}
    BY <1>0, <1>1, RegisteredHandlers DEF IInv, Request
  <2>2. outcome[sourceJobID] = "unused"
    BY <1>0, <2>1 DEF IInv, UsedInOrder, Jobs
  <2>3. TypeOK'
    BY <1>0, <1>1, <2>1 DEF IInv, TypeOK, Request, Handlers
  <2>4. WaitingIsHandled'
    BY <1>0, <1>1, <2>1, <2>2 DEF IInv, WaitingIsHandled, Request
  <2>5. UsedInOrder'
    BY <1>0, <1>1, <2>1, <2>2 DEF IInv, UsedInOrder, Request, Jobs
  <2>6. Promise!Next
    BY <1>1, <2>1, <2>2 DEF Promise!Next, Promise!Start, Request
  <2>. QED  BY <2>3, <2>4, <2>5, <2>6 DEF IInv
<1>2. ASSUME NEW j \in Jobs, OnMessage(j)
      PROVE  IInv' /\ Promise!Next
  <2>1. j \in DOMAIN jobsHandlers /\ Call(j, "response") /\ UNCHANGED <<connected, loop, todo>>
        /\ loop = "none"
    BY <1>2 DEF OnMessage
  <2>2. /\ jobsHandlers' \in Handlers
        /\ outcome' \in [Jobs -> {"unused", "waiting", "response", "nothing"}]
        /\ sourceJobID' \in 1 .. MaxJobs + 1
        /\ WaitingIsHandled' /\ UsedInOrder' /\ Promise!Next
    BY <2>1, CallStep
  <2>3. todo = {}  \* no ClearJobHandlers is running
    BY <2>1 DEF IInv, TypeOK
  <2>4. TypeOK'
    BY <2>1, <2>2, <2>3 DEF IInv, TypeOK, Handlers
  <2>. QED  BY <2>2, <2>4 DEF IInv
<1>3. ASSUME NEW j \in Jobs, ClearJobHandler(j)
      PROVE  IInv' /\ (Promise!Next \/ UNCHANGED outcome)
  <2>1. CASE Expired(j)
    <3>1. j \in DOMAIN jobsHandlers /\ Call(j, "nothing") /\ UNCHANGED <<connected, loop>>
          /\ todo' \in StillTodo(j)
      BY <1>0, <1>3, <2>1 DEF ClearJobHandler
    <3>2. /\ jobsHandlers' \in Handlers
          /\ DOMAIN jobsHandlers \ {j} \subseteq DOMAIN jobsHandlers'
          /\ outcome' \in [Jobs -> {"unused", "waiting", "response", "nothing"}]
          /\ sourceJobID' \in 1 .. MaxJobs + 1
          /\ WaitingIsHandled' /\ UsedInOrder' /\ Promise!Next
      BY <3>1, CallStep
    <3>3. todo' \subseteq DOMAIN jobsHandlers'
      BY <1>0, <3>1, <3>2 DEF StillTodo
    <3>4. loop \notin {"none", "closed"}
      BY <1>3 DEF IInv, TypeOK, ClearJobHandler
    <3>5. TypeOK'
      BY <3>1, <3>2, <3>3, <3>4 DEF IInv, TypeOK, Handlers
    <3>. QED  BY <3>2, <3>5 DEF IInv
  <2>2. CASE ~Expired(j)
    <3>1. /\ todo' \subseteq todo
          /\ UNCHANGED <<connected, loop, sourceJobID, jobsHandlers, outcome>>
      BY <1>3, <2>2 DEF ClearJobHandler
    <3>2. TypeOK'
      BY <3>1 DEF IInv, TypeOK
    <3>. QED  BY <3>1, <3>2, QuietStep DEF IInv
  <2>. QED  BY <2>1, <2>2
<1>4. CASE ProcessTick
  <2>1. DOMAIN jobsHandlers' = DOMAIN jobsHandlers
    BY <1>4 DEF ProcessTick
  <2>2. \A j \in DOMAIN jobsHandlers' : jobsHandlers'[j] \in 0 .. MaxTimeout
    BY <1>0, <1>4, HandlersElim DEF ProcessTick
  <2>3. jobsHandlers' = [j \in DOMAIN jobsHandlers |-> jobsHandlers'[j]]
    BY <1>4 DEF ProcessTick
  <2>4. jobsHandlers' \in Handlers
    BY <1>0, <2>1, <2>2, <2>3, HandlersElim, HandlersIntro
  <2>5. TypeOK'
    BY <1>4, <2>1, <2>4 DEF IInv, TypeOK, ProcessTick, Handlers
  <2>. QED  BY <1>4, <2>1, <2>5, QuietStep DEF IInv, ProcessTick
<1>5. CASE CloseClient \/ EndTick \/ EndClose \/ Disconnect
  <2>1. UNCHANGED <<sourceJobID, jobsHandlers, outcome>>
    BY <1>5 DEF CloseClient, EndTick, EndClose, Disconnect
  <2>2. TypeOK'
    BY <1>0, <1>5, <2>1 DEF IInv, TypeOK, CloseClient, EndTick, EndClose, Disconnect
  <2>. QED  BY <2>1, <2>2, QuietStep DEF IInv
<1>. QED  BY <1>1, <1>2, <1>3, <1>4, <1>5 DEF Next, Loop

LEMMA StutterStep ==
  ASSUME IInv, UNCHANGED vars
  PROVE  IInv' /\ UNCHANGED outcome
BY DEF IInv, TypeOK, WaitingIsHandled, UsedInOrder, vars

LEMMA Invariance == Spec => []IInv
<1>1. IInv /\ [Next]_vars => IInv'
  BY Step, StutterStep
<1>. QED  BY <1>1, InitIInv, PTL DEF Spec

-----------------------------------------------------------------------------
\* The variables of a client keep their types, and ClearJobHandlers is only
\* ever about to come to handlers that exist.
THEOREM TypeCorrect == Spec => []TypeOK
<1>1. IInv => TypeOK
  BY DEF IInv
<1>. QED  BY <1>1, Invariance, PTL

\* With any number of requests: a request waits exactly as long as it has a
\* handler.
THEOREM WaitingIsHandledHolds == Spec => []WaitingIsHandled
<1>1. IInv => WaitingIsHandled
  BY DEF IInv
<1>. QED  BY <1>1, Invariance, PTL

\* The client implements the promise of OneShot: with any number of requests,
\* each is resolved once, by its response, its timeout or the close.
THEOREM ResolvedOnceHolds == Spec => ResolvedOnce
<1>1. Init => Promise!Init
  BY DEF Init, Promise!Init
<1>2. IInv /\ [Next]_vars => [Promise!Next]_outcome
  BY Step, StutterStep
<1>. QED  BY <1>1, <1>2, Invariance, PTL DEF Spec, ResolvedOnce, Promise!Spec
=============================================================================
