------------------------------ MODULE Sampling ------------------------------
(***************************************************************************)
(* The points of a snake that an Update carries for the client to validate *)
(* its own simulation with: SampleSnakeValidationPoints, one pass of its   *)
(* loop per step.  A point is what operator!= on coordinates tells apart;  *)
(* of the distance, only whether it reaches minDist matters.               *)
(***************************************************************************)
EXTENDS Naturals, Sequences

CONSTANTS
  Points,       \* positions
  Far,          \* pairs of points at a distance of minDist or more
  MaxSegments   \* bound on the length of a snake

\* minDist is the radius of the snake, which is not 0.
ASSUME SamplingAssumption ==
  /\ Far \subseteq Points \X Points
  /\ \A p \in Points : <<p, p>> \notin Far
  /\ MaxSegments \in Nat

VARIABLES
  segVec,   \* positions of the segments, from head to tail
  i,        \* the segment whose turn it is
  picks,    \* indices of the segments whose positions are in out
  pc        \* "head", "loop", "tail" or "done"

vars == <<segVec, i, picks, pc>>

n == Len(segVec)

last == segVec[picks[Len(picks)]]

Init ==
  /\ segVec \in UNION {[1 .. m -> Points] : m \in 0 .. MaxSegments}
  /\ i = 1
  /\ picks = <<>>
  /\ pc = "head"

FirstSegment ==
  /\ pc = "head"
  /\ IF n = 0 THEN pc' = "done" /\ UNCHANGED <<i, picks>>
              ELSE pc' = "loop" /\ i' = 2 /\ picks' = <<1>>
  /\ UNCHANGED segVec

\* Mutant: last is the segment before, and not the last one that was picked.
IsFarFromPrevious == <<segVec[i - 1], segVec[i]>> \in Far

IsPicked == <<last, segVec[i]>> \in Far

Segment ==
  /\ pc = "loop" /\ i <= n
  /\ picks' = IF IsPicked THEN Append(picks, i) ELSE picks
  /\ i' = i + 1
  /\ UNCHANGED <<segVec, pc>>

EndLoop ==
  /\ pc = "loop" /\ i > n
  /\ pc' = "tail"
  /\ UNCHANGED <<segVec, i, picks>>

\* Mutant: the tail is not compared with the last point.
HasTail == n >= 2

TailIsMissing == n >= 2 /\ last # segVec[n]

EnsureTail ==
  /\ pc = "tail"
  /\ picks' = IF TailIsMissing THEN Append(picks, n) ELSE picks
  /\ pc' = "done"
  /\ UNCHANGED <<segVec, i>>

Next == FirstSegment \/ Segment \/ EndLoop \/ EnsureTail

Spec == Init /\ [][Next]_vars

-----------------------------------------------------------------------------
(***************************************************************************)
(* Properties.                                                             *)
(***************************************************************************)

\* The last pick that is not behind segment j is near to it.
IsValidated(j) ==
  \E k \in DOMAIN picks :
    /\ picks[k] <= j
    /\ k = Len(picks) \/ j < picks[k + 1]
    /\ <<segVec[picks[k]], segVec[j]>> \notin Far

\* However the snake lies, the points that are sent go from its head to its
\* tail, and each of its segments is within the radius of the last point before
\* it: no part of the snake can be elsewhere unnoticed.
WholeSnakeValidated ==
  pc = "done" /\ n > 0 =>
    /\ picks[1] = 1
    /\ last = segVec[n]
    /\ \A j \in 1 .. n : IsValidated(j)

\* No more points are sent than are needed: they follow the snake, no segment
\* is sent twice, and a point is at least the radius away from the one before
\* it, unless it is the tail.  Hence pointsCount is at most totalSegments.
PointsAreSparse ==
  /\ Len(picks) <= n
  /\ \A k \in 1 .. Len(picks) - 1 :
       /\ picks[k] < picks[k + 1]
       /\ <<segVec[picks[k]], segVec[picks[k + 1]]>> \in Far \/ picks[k + 1] = n
=============================================================================
