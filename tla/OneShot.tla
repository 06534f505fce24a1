------------------------------ MODULE OneShot ------------------------------
(***************************************************************************)
(* What Client::Request promises its callers: a request that is waiting is *)
(* resolved, with the response or with nothing, and it is resolved once.   *)
(* (The handler writes to a variable of the coroutine that waits, so that  *)
(* a second call would write to a frame that is gone.)                     *)
(***************************************************************************)
CONSTANT Jobs

VARIABLE outcome

Init == outcome = [j \in Jobs |-> "unused"]

Start(j) == outcome[j] = "unused" /\ outcome' = [outcome EXCEPT ![j] = "waiting"]

Resolve(j) ==
  /\ outcome[j] = "waiting"
  /\ \E result \in {"response", "nothing"} : outcome' = [outcome EXCEPT ![j] = result]

\* The coroutine that is resumed sends the request k at once.
ResolveAndStart(j, k) ==
  /\ outcome[j] = "waiting"
  /\ outcome[k] = "unused"
  /\ \E result \in {"response", "nothing"} :
       outcome' = [outcome EXCEPT ![j] = result, ![k] = "waiting"]

Next == \E j \in Jobs : Start(j) \/ Resolve(j) \/ (\E k \in Jobs : ResolveAndStart(j, k))

Spec == Init /\ [][Next]_outcome
=============================================================================
