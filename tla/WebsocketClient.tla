-------------------------- MODULE WebsocketClient --------------------------
(***************************************************************************)
(* The requests that the server sends to one websocket client              *)
(* (servers/websocket/client.hpp), from its connection until the service   *)
(* has closed it: the handlers of the responses it waits for, their        *)
(* timeouts, and their clearing.                                           *)
(*                                                                         *)
(* The websocket server (external) reports connections and messages from   *)
(* its ProcessTick, on the thread of the service loop; only callbacks      *)
(* interleave, a handler's with the loop that called it.  A request in the *)
(* disconnected state is resolved at once and leaves no trace here.        *)
(***************************************************************************)
EXTENDS Integers

CONSTANTS
  MaxJobs,      \* bound: requests sent
  MaxTimeout,   \* bound: timeout of a request, in passes of the service loop
  Chained       \* whether a coroutine may, when resumed, send a request at
                \* once: the callback's Resolve() runs it up to its next await

ASSUME WebsocketClientAssumption ==
  /\ MaxJobs \in Nat
  /\ MaxTimeout \in Nat \ {0}
  /\ Chained \in BOOLEAN

VARIABLES
  connected,     \* connected_
  loop,          \* the ClearJobHandlers that is running, if any, and at last
                 \* "closed": the service has forgotten the client
  todo,          \* handlers its loop has not come to
  sourceJobID,   \* sourceJobID_
  jobsHandlers,  \* jobsHandlers_: job -> passes left until expireAt
  outcome        \* what the coroutines of the requests have seen

vars == <<connected, loop, todo, sourceJobID, jobsHandlers, outcome>>

Jobs == 1 .. MaxJobs

Timeouts == 1 .. MaxTimeout

Init ==
  /\ connected = TRUE
  /\ loop = "none"
  /\ todo = {}
  /\ sourceJobID = 1
  /\ jobsHandlers = [j \in {} |-> 0]
  /\ outcome = [j \in Jobs |-> "unused"]

-----------------------------------------------------------------------------
\* Send and RegisterJobCallback, where hs are the handlers there are.
Registered(hs, timeout) ==
  /\ connected
  /\ sourceJobID \in Jobs
  /\ sourceJobID' = sourceJobID + 1
  /\ jobsHandlers' = [j \in DOMAIN hs \cup {sourceJobID} |->
                        IF j = sourceJobID THEN timeout ELSE hs[j]]

Request(timeout) ==
  /\ loop = "none"
  /\ Registered(jobsHandlers, timeout)
  /\ outcome' = [outcome EXCEPT ![sourceJobID] = "waiting"]
  /\ UNCHANGED <<connected, loop, todo>>

\* Mutant: the handler is not erased.
HandlersKept(j) == jobsHandlers

HandlersWithout(j) == [k \in DOMAIN jobsHandlers \ {j} |-> jobsHandlers[k]]

\* The handler of j is called and erased: the coroutine of the request goes on
\* with the result, and sends another request or not.  ClearJobHandlers erases
\* first and OnMessage last, which is the same here: no callback calls either
\* of them, and what it inserts has another ID.
Call(j, result) ==
  \/ /\ outcome' = [outcome EXCEPT ![j] = result]
     /\ jobsHandlers' = HandlersWithout(j)
     /\ UNCHANGED sourceJobID
  \/ /\ Chained
     /\ \E timeout \in Timeouts : Registered(HandlersWithout(j), timeout)
     /\ outcome' = [outcome EXCEPT ![j] = result, ![sourceJobID] = "waiting"]

\* Mutant: messages are dispatched while ClearJobHandlers runs.
OnMessageAnyTime(targetJobID) ==
  /\ targetJobID \in DOMAIN jobsHandlers
  /\ Call(targetJobID, "response")
  /\ UNCHANGED <<connected, loop, todo>>

\* A message whose targetJobId is no handler's, a late response, say, goes to
\* the handlers of its type only.
OnMessage(targetJobID) ==
  /\ loop = "none"
  /\ targetJobID \in DOMAIN jobsHandlers
  /\ Call(targetJobID, "response")
  /\ UNCHANGED <<connected, loop, todo>>

-----------------------------------------------------------------------------
(***************************************************************************)
(* ClearJobHandlers, of ProcessTick and of Close.                          *)
(***************************************************************************)

\* main sleeps between two passes, so that every deadline comes nearer.
ProcessTick ==
  /\ loop = "none"
  /\ loop' = "tick"
  /\ todo' = DOMAIN jobsHandlers
  /\ jobsHandlers' = [j \in DOMAIN jobsHandlers |->
                        IF jobsHandlers[j] > 0 THEN jobsHandlers[j] - 1 ELSE 0]
  /\ UNCHANGED <<connected, sourceJobID, outcome>>

\* OnSessionDisconnected: CloseClient closes the client while it still counts
\* as connected.
CloseClient ==
  /\ loop = "none"
  /\ loop' = "close"
  /\ todo' = DOMAIN jobsHandlers
  /\ UNCHANGED <<connected, sourceJobID, jobsHandlers, outcome>>

\* Mutant: Close clears what has expired, like ProcessTick.
ExpiredOnly(j) == jobsHandlers[j] = 0

\* expireAt <= time; Close passes time_point::max().
Expired(j) == loop = "close" \/ jobsHandlers[j] = 0

\* What the loop has yet to come to after it called the handler of j.  A
\* callback that inserts a handler may rehash the table under its iterator:
\* then the loop may skip handlers, and come to others again.
StillTodo(j) ==
  IF DOMAIN jobsHandlers' \subseteq DOMAIN jobsHandlers
  THEN {todo \ {j}}
  ELSE SUBSET DOMAIN jobsHandlers'

ClearJobHandler(j) ==
  /\ j \in todo
  /\ IF Expired(j)
     THEN /\ Call(j, "nothing")
          /\ todo' \in StillTodo(j)
     ELSE /\ todo' = todo \ {j}
          /\ UNCHANGED <<sourceJobID, jobsHandlers, outcome>>
  /\ UNCHANGED <<connected, loop>>

EndTick ==
  /\ loop = "tick"
  /\ todo = {}
  /\ loop' = "none"
  /\ UNCHANGED <<connected, todo, sourceJobID, jobsHandlers, outcome>>

\* clients_.erase and Disconnected().
EndClose ==
  /\ loop = "close"
  /\ todo = {}
  /\ loop' = "closed"
  /\ connected' = FALSE
  /\ UNCHANGED <<todo, sourceJobID, jobsHandlers, outcome>>

\* The server hangs up; OnSessionDisconnected follows.
Disconnect ==
  /\ loop = "none"
  /\ connected' = FALSE
  /\ UNCHANGED <<loop, todo, sourceJobID, jobsHandlers, outcome>>

-----------------------------------------------------------------------------
Loop == ProcessTick \/ (\E j \in Jobs : ClearJobHandler(j)) \/ EndTick \/ EndClose

Next ==
  \/ \E timeout \in Timeouts : Request(timeout)
  \/ \E targetJobID \in Jobs : OnMessage(targetJobID)
  \/ CloseClient
  \/ Disconnect
  \/ Loop

Spec == Init /\ [][Next]_vars

\* The service loop goes on for ever; no response need ever come.
FairSpec == Spec /\ WF_vars(Loop)

-----------------------------------------------------------------------------
TypeOK ==
  /\ connected \in BOOLEAN
  /\ loop \in {"none", "tick", "close", "closed"}
  /\ todo \subseteq DOMAIN jobsHandlers
  /\ loop \in {"none", "closed"} => todo = {}
  /\ sourceJobID \in 1 .. MaxJobs + 1
  /\ jobsHandlers \in UNION {[S -> 0 .. MaxTimeout] : S \in SUBSET Jobs}
  /\ outcome \in [Jobs -> {"unused", "waiting", "response", "nothing"}]

\* A request is waiting exactly as long as its handler is in jobsHandlers_:
\* no response, timeout or close erases a handler it does not call, whatever
\* the callback does to jobsHandlers_ meanwhile.
WaitingIsHandled == {j \in Jobs : outcome[j] = "waiting"} = DOMAIN jobsHandlers

Promise == INSTANCE OneShot WITH Jobs <- Jobs, outcome <- outcome

\* A response, a duplicate of it, the timeout and the close of the client may
\* race: a request is resolved by one of them only.
ResolvedOnce == Promise!Spec

\* With a client that never responds, hangs up or stays, no coroutine waits
\* for ever: if the last request is sent before the client is closed, all of
\* them are resolved.  (One that is sent from a callback of Close may wait for
\* ever: Close clears the handlers while the client still counts as connected,
\* and its loop may not come to a handler that is inserted meanwhile.)
AllResolved ==
  \A k \in 1 .. MaxJobs + 1 :
    loop \in {"none", "tick"} /\ [](sourceJobID = k)
      ~> \A j \in Jobs : outcome[j] # "waiting"
=============================================================================
