--------------------------- MODULE SamplingProofs ---------------------------
(***************************************************************************)
(* The points of any snake, however long and for any distance, validate    *)
(* the whole of it, and are no more than needed.                           *)
(***************************************************************************)
EXTENDS Sampling, TLAPS

TypeInv ==
  /\ segVec \in Seq(Points)
  /\ i \in Nat
  /\ picks \in Seq(Nat)
  /\ pc \in {"head", "loop", "tail", "done"}

\* The picks follow the snake from its head.  That each comes at or behind its
\* own place in the order is what bounds their number.
PicksInOrder ==
  /\ Len(picks) >= 1 /\ picks[1] = 1
  /\ \A k \in 1 .. Len(picks) : picks[k] \in 1 .. n
  /\ Len(picks) <= picks[Len(picks)]
  /\ \A k \in 1 .. Len(picks) - 1 :
       /\ picks[k] < picks[k + 1]
       /\ <<segVec[picks[k]], segVec[picks[k + 1]]>> \in Far \/ picks[k + 1] = n

ValidatedTo(m) == \A j \in 1 .. m : IsValidated(j)

\* The invariant of the loop, and what holds before and after it.
LoopInv ==
  /\ pc = "head" \/ n = 0 => picks = <<>>
  /\ n = 0 => pc \in {"head", "done"}
  /\ pc = "loop" => i \in 2 .. n + 1 /\ picks[Len(picks)] < i /\ ValidatedTo(i - 1)
  /\ pc \in {"tail", "done"} => ValidatedTo(n)
  /\ pc # "head" /\ n > 0 => PicksInOrder
  /\ pc = "done" /\ n > 0 => last = segVec[n]

IInv == TypeInv /\ LoopInv

-----------------------------------------------------------------------------
LEMMA AppendFacts ==
  ASSUME NEW s \in Seq(Nat), NEW x \in Nat
  PROVE  /\ Append(s, x) \in Seq(Nat)
         /\ Len(Append(s, x)) = Len(s) + 1
         /\ \A k \in 1 .. Len(s) : Append(s, x)[k] = s[k]
         /\ Append(s, x)[Len(s) + 1] = x
  OBVIOUS

\* A further pick, with the segments before it validated.
LEMMA PickKeeps ==
  ASSUME SamplingAssumption, TypeInv, PicksInOrder,
         NEW x \in 1 .. n, picks[Len(picks)] < x, ValidatedTo(x - 1),
         <<last, segVec[x]>> \in Far \/ x = n,
         picks' = Append(picks, x), UNCHANGED segVec
  PROVE  PicksInOrder' /\ ValidatedTo(x)' /\ last' = segVec'[x] /\ picks'[Len(picks')] = x
         /\ picks' \in Seq(Nat)
<1> DEFINE L == Len(picks)
<1>1. /\ L \in Nat /\ L >= 1 /\ DOMAIN picks = 1 .. L
      /\ n \in Nat /\ x \in Nat /\ n' = n /\ segVec' = segVec
      /\ \A k \in 1 .. L : picks[k] \in 1 .. n
  BY DEF TypeInv, PicksInOrder, n
<1>2. /\ picks' \in Seq(Nat) /\ Len(picks') = L + 1 /\ DOMAIN picks' = 1 .. L + 1
      /\ \A k \in 1 .. L : picks'[k] = picks[k]
      /\ picks'[L + 1] = x
  BY <1>1, AppendFacts DEF TypeInv
<1>3. PicksInOrder'
  <2>1. Len(picks') >= 1 /\ picks'[1] = 1
    BY <1>1, <1>2 DEF PicksInOrder
  <2>2. \A k \in 1 .. Len(picks') : picks'[k] \in 1 .. n'
    BY <1>1, <1>2
  <2>3. Len(picks') <= picks'[Len(picks')]
    BY <1>1, <1>2 DEF PicksInOrder
  <2>4. ASSUME NEW k \in 1 .. L
        PROVE  /\ picks'[k] < picks'[k + 1]
               /\ \/ <<segVec'[picks'[k]], segVec'[picks'[k + 1]]>> \in Far
                  \/ picks'[k + 1] = n'
    <3>1. CASE k = L
      BY <3>1, <1>1, <1>2 DEF last
    <3>2. CASE k # L
      <4>1. k \in 1 .. L - 1 /\ k \in 1 .. L /\ k + 1 \in 1 .. L
        <5>1. L \in Nat /\ k \in 1 .. L /\ k # L
          BY <3>2, <1>1
        <5>. HIDE DEF L
        <5>2. QED
          BY <5>1
      <4>2. picks'[k] = picks[k] /\ picks'[k + 1] = picks[k + 1]
        BY <4>1, <1>2
      <4>3. QED
        BY <4>1, <4>2, <1>1 DEF PicksInOrder
    <3>3. QED
      BY <3>1, <3>2
  <2>5. Len(picks') - 1 = L
    BY <1>1, <1>2
  <2>6. QED
    BY <2>1, <2>2, <2>3, <2>4, <2>5 DEF PicksInOrder
<1>4. ASSUME NEW j \in 1 .. x
      PROVE  IsValidated(j)'
  <2>1. CASE j = x
    <3>1. segVec'[x] \in Points
      BY <1>1 DEF TypeInv, n
    <3>2. <<segVec'[x], segVec'[x]>> \notin Far
      BY <3>1 DEF SamplingAssumption
    <3>3. L + 1 \in DOMAIN picks'
      BY <1>1, <1>2
    <3>4. /\ picks'[L + 1] <= j /\ L + 1 = Len(picks')
          /\ <<segVec'[picks'[L + 1]], segVec'[j]>> \notin Far
      BY <2>1, <1>1, <1>2, <3>2
    <3>5. QED
      BY <3>3, <3>4 DEF IsValidated
  <2>2. CASE j # x
    <3>1. j \in 1 .. x - 1
      BY <2>2, <1>1
    <3>2. PICK k \in DOMAIN picks : /\ picks[k] <= j
                                    /\ k = L \/ j < picks[k + 1]
                                    /\ <<segVec[picks[k]], segVec[j]>> \notin Far
      BY <3>1 DEF ValidatedTo, IsValidated
    <3>3. k \in 1 .. L /\ k \in DOMAIN picks' /\ picks'[k] = picks[k] /\ k # Len(picks')
      BY <3>2, <1>1, <1>2
    <3>4. j < picks'[k + 1]
      BY <3>1, <3>2, <3>3, <1>1, <1>2
    <3>5. QED
      BY <3>2, <3>3, <3>4, <1>1 DEF IsValidated
  <2>3. QED
    BY <2>1, <2>2
<1>5. last' = segVec'[x] /\ picks'[Len(picks')] = x
  BY <1>1, <1>2 DEF last
<1>6. QED
  BY <1>2, <1>3, <1>4, <1>5 DEF ValidatedTo

-----------------------------------------------------------------------------
LEMMA InitIInv == Init /\ SamplingAssumption => IInv
<1> SUFFICES ASSUME Init, SamplingAssumption PROVE IInv
  OBVIOUS
<1>1. segVec \in Seq(Points)
  <2>1. PICK m \in 0 .. MaxSegments : segVec \in [1 .. m -> Points]
    BY DEF Init
  <2>2. m \in Nat
    BY DEF SamplingAssumption
  <2>3. QED
    BY <2>1, <2>2
<1>2. QED
  BY <1>1 DEF Init, IInv, TypeInv, LoopInv, n

LEMMA StepIInv == IInv /\ [Next]_vars /\ SamplingAssumption => IInv'
<1> SUFFICES ASSUME IInv, [Next]_vars, SamplingAssumption PROVE IInv'
  OBVIOUS
<1>0. n \in Nat /\ Len(picks) \in Nat /\ DOMAIN picks = 1 .. Len(picks)
  BY DEF IInv, TypeInv, n
<1>1. CASE FirstSegment
  <2>1. n' = n /\ segVec' = segVec
    BY <1>1 DEF FirstSegment, n
  <2>2. CASE n = 0
    BY <2>1, <2>2, <1>1 DEF FirstSegment, IInv, TypeInv, LoopInv, ValidatedTo
  <2>3. CASE n # 0
    <3>1. picks' = <<1>> /\ i' = 2 /\ pc' = "loop"
      BY <2>3, <1>1 DEF FirstSegment
    <3>2. picks' \in Seq(Nat) /\ Len(picks') = 1 /\ picks'[1] = 1 /\ 1 \in DOMAIN picks'
      BY <3>1
    <3>3. segVec[1] \in Points
      BY <2>3, <1>0 DEF IInv, TypeInv, n
    <3>4. IsValidated(1)'
      BY <2>1, <3>2, <3>3 DEF IsValidated, SamplingAssumption
    <3>5. PicksInOrder'
      BY <2>1, <2>3, <3>2, <1>0 DEF PicksInOrder
    <3>6. ValidatedTo(i - 1)'
      BY <3>1, <3>4 DEF ValidatedTo
    <3>7. QED
      BY <2>1, <2>3, <3>1, <3>2, <3>5, <3>6, <1>0 DEF IInv, TypeInv, LoopInv
  <2>4. QED
    BY <2>2, <2>3
<1>2. CASE Segment
  <2>1. /\ pc = "loop" /\ pc' = "loop" /\ n' = n /\ segVec' = segVec
        /\ i \in 2 .. n /\ i' = i + 1 /\ n > 0
    BY <1>0, <1>2 DEF Segment, n, IInv, LoopInv
  <2>2. PicksInOrder /\ TypeInv /\ picks[Len(picks)] < i /\ ValidatedTo(i - 1)
    BY <2>1 DEF IInv, LoopInv
  <2>3. PICK x \in 1 .. n : x = i
    BY <2>1, <1>0
  <2>4. PicksInOrder' /\ ValidatedTo(x)' /\ picks'[Len(picks')] <= x /\ picks' \in Seq(Nat)
    <3>1. CASE IsPicked
      <4>1. <<last, segVec[x]>> \in Far /\ picks' = Append(picks, x)
        BY <2>3, <3>1, <1>2 DEF Segment, IsPicked
      <4>2. picks[Len(picks)] < x /\ ValidatedTo(x - 1)
        BY <2>2, <2>3
      <4>3. /\ PicksInOrder' /\ ValidatedTo(x)' /\ picks'[Len(picks')] = x
            /\ picks' \in Seq(Nat)
        BY <4>1, <4>2, <2>1, <2>2, PickKeeps
      <4>4. QED
        BY <4>3, <2>1, <2>3
    <3>2. CASE ~IsPicked
      <4>1. UNCHANGED <<picks, segVec>>
        BY <3>2, <1>2 DEF Segment
      <4>2. IsValidated(x)
        <5>1. Len(picks) \in DOMAIN picks /\ picks[Len(picks)] <= x
          BY <2>1, <2>2, <2>3, <1>0 DEF PicksInOrder
        <5>2. QED
          BY <5>1, <2>3, <3>2 DEF IsValidated, IsPicked, last
      <4>3. ValidatedTo(x)
        BY <2>1, <2>2, <2>3, <4>2 DEF ValidatedTo
      <4>4. PicksInOrder' /\ ValidatedTo(x)'
        BY <2>1, <2>2, <4>1, <4>3 DEF PicksInOrder, ValidatedTo, IsValidated
      <4>5. picks'[Len(picks')] <= x /\ picks' \in Seq(Nat)
        BY <2>1, <2>2, <2>3, <4>1, <1>0 DEF TypeInv, PicksInOrder
      <4>6. QED
        BY <4>4, <4>5
    <3>3. QED
      BY <3>1, <3>2
  <2>5. i' - 1 = x /\ i' \in 2 .. n' + 1
    BY <2>1, <2>3, <1>0
  <2>6. picks'[Len(picks')] < i'
    BY <2>1, <2>3, <2>4, <1>0 DEF PicksInOrder
  <2>7. ValidatedTo(i - 1)'
    BY <2>4, <2>5 DEF ValidatedTo
  <2>8. QED
    BY <2>1, <2>2, <2>4, <2>5, <2>6, <2>7, <1>0 DEF IInv, TypeInv, LoopInv
<1>3. CASE EndLoop
  <2>1. /\ pc = "loop" /\ pc' = "tail" /\ UNCHANGED <<segVec, i, picks>> /\ i - 1 = n /\ n > 0
    BY <1>0, <1>3 DEF EndLoop, IInv, LoopInv
  <2>2. ValidatedTo(n) /\ PicksInOrder
    BY <2>1 DEF IInv, LoopInv
  <2>3. QED
    BY <2>1, <2>2 DEF IInv, TypeInv, LoopInv, ValidatedTo, IsValidated, PicksInOrder, n, last
<1>4. CASE EnsureTail
  <2>1. /\ pc = "tail" /\ pc' = "done" /\ UNCHANGED <<segVec, i>> /\ n' = n
        /\ n > 0 /\ ValidatedTo(n) /\ PicksInOrder
    BY <1>0, <1>4 DEF EnsureTail, IInv, LoopInv, n
  <2>2. CASE TailIsMissing
    <3>1. picks[Len(picks)] \in 1 .. n /\ picks[Len(picks)] # n
      BY <2>1, <2>2, <1>0 DEF TailIsMissing, PicksInOrder, last
    <3>2. PICK x \in 1 .. n : x = n
      BY <2>1, <1>0
    <3>3. picks[Len(picks)] < x /\ ValidatedTo(x - 1)
      BY <3>1, <3>2, <2>1, <1>0 DEF ValidatedTo
    <3>4. picks' = Append(picks, x)
      BY <2>2, <3>2, <1>4 DEF EnsureTail
    <3>5. PicksInOrder' /\ ValidatedTo(x)' /\ last' = segVec'[x] /\ picks' \in Seq(Nat)
      BY <3>2, <3>3, <3>4, <2>1, PickKeeps DEF IInv
    <3>6. n' = x
      BY <3>2, <2>1
    <3>7. ValidatedTo(n)' /\ last' = segVec'[n']
      BY <3>5, <3>6 DEF ValidatedTo
    <3>8. QED
      BY <3>5, <3>7, <2>1 DEF IInv, TypeInv, LoopInv
  <2>3. CASE ~TailIsMissing
    <3>1. UNCHANGED <<segVec, i, picks>>
      BY <2>3, <1>4 DEF EnsureTail
    <3>2. last = segVec[n]
      <4>1. CASE n >= 2
        BY <4>1, <2>3 DEF TailIsMissing
      <4>2. CASE n = 1
        BY <4>2, <2>1, <1>0 DEF PicksInOrder, last
      <4>3. QED
        BY <4>1, <4>2, <2>1, <1>0
    <3>3. QED
      BY <3>1, <3>2, <2>1
        DEF IInv, TypeInv, LoopInv, ValidatedTo, IsValidated, PicksInOrder, n, last
  <2>4. QED
    BY <2>2, <2>3
<1>5. CASE UNCHANGED vars
  BY <1>5 DEF vars, IInv, TypeInv, LoopInv, ValidatedTo, IsValidated, PicksInOrder, n, last
<1>6. QED
  BY <1>1, <1>2, <1>3, <1>4, <1>5 DEF Next

LEMMA InvHolds == Spec => []IInv
<1>1. Init => IInv
  BY InitIInv, SamplingAssumption
<1>2. IInv /\ [Next]_vars => IInv'
  BY StepIInv, SamplingAssumption
<1>3. QED
  BY <1>1, <1>2, PTL DEF Spec

-----------------------------------------------------------------------------
\* The points of an Update leave no part of a snake of any length unvalidated:
\* every segment is near to the last point before it, from head to tail.
THEOREM WholeSnakeValidatedHolds == Spec => []WholeSnakeValidated
<1>1. IInv => WholeSnakeValidated
  BY DEF IInv, TypeInv, LoopInv, PicksInOrder, ValidatedTo, WholeSnakeValidated, n
<1>2. QED
  BY <1>1, InvHolds, PTL

\* The points are in the order of the segments, far from each other, and never
\* more than there are segments.
THEOREM PointsAreSparseHolds == Spec => []PointsAreSparse
<1>1. IInv => PointsAreSparse
  <2> SUFFICES ASSUME IInv PROVE PointsAreSparse
    OBVIOUS
  <2>1. n \in Nat /\ Len(<<>>) = 0
    BY DEF IInv, TypeInv, n
  <2>2. CASE pc = "head" \/ n = 0
    BY <2>1, <2>2 DEF IInv, LoopInv, PointsAreSparse
  <2>3. CASE pc # "head" /\ n > 0
    <3>1. PicksInOrder
      BY <2>3 DEF IInv, LoopInv
    <3>2. Len(picks) \in Nat /\ picks[Len(picks)] \in 1 .. n
      BY <3>1 DEF IInv, TypeInv, PicksInOrder
    <3>3. QED
      BY <2>1, <3>1, <3>2 DEF PicksInOrder, PointsAreSparse
  <2>4. QED
    BY <2>1, <2>2, <2>3
<1>2. QED
  BY <1>1, InvHolds, PTL
=============================================================================
