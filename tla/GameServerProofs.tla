-------------------------- MODULE GameServerProofs --------------------------
(***************************************************************************)
(* Proofs about GameServer, for any set of sessions and any number of      *)
(* foods.  That ticks go on follows from fairness, which is left to TLC;   *)
(* what they achieve (OwedIsSent) is proved here.                          *)
(***************************************************************************)
EXTENDS GameServer, FiniteSetTheorems, TLAPS

\* The part of TypeOK that speaks of sessions, not of numbers.
SetTypes ==
  /\ todo \subseteq snakes
  /\ pc # "snakes" => todo = {}
  /\ unused \cap sessions = {}

\* Whoever died in this tick is not processed again in it: a snake is only
\* ever killed in its own turn.
DeadHadTheirTurn ==
  /\ killedSnakes \cap todo = {}
  /\ Victims \cap todo = {}
  /\ pc = "snakes" => Victims \subseteq killed

IInv ==
  /\ SetTypes
  /\ DeadHadTheirTurn
  /\ MapsAgree
  /\ KillsPending
  /\ KillerSurvives
  /\ OwedIsDue

-----------------------------------------------------------------------------
(***************************************************************************)
(* Sums over sets, as SumFunctionOnSet folds them.                         *)
(***************************************************************************)

\* Induction over subsets, without an operator for what is proved: a family of
\* subsets of a finite set that is not empty has a minimal member.
LEMMA MinimalSubset ==
  ASSUME NEW S, IsFiniteSet(S), NEW Bad \in SUBSET SUBSET S, Bad # {}
  PROVE  \E T \in Bad : \A U \in Bad : U \subseteq T => U = T
<1>1. IsWellFoundedOn(StrictSubsetOrdering(S), FiniteSubsetsOf(S))
  BY FS_StrictSubsetOrderingWellFounded
<1>2. Bad \subseteq FiniteSubsetsOf(S)
  BY FS_FiniteSubsetsOfFinite
<1>3. PICK T \in Bad : \A U \in Bad : <<U, T>> \notin StrictSubsetOrdering(S)
  BY <1>1, <1>2, WFMin
<1>4. ASSUME NEW U \in Bad, U \subseteq T PROVE U = T
  BY <1>3, <1>4 DEF StrictSubsetOrdering
<1>. QED  BY <1>4

\* The same for natural numbers.
LEMMA LeastNat ==
  ASSUME NEW T \in SUBSET Nat, T # {}
  PROVE  \E m \in T : \A k \in T : m <= k
<1> DEFINE R == OpToRel(<, Nat)
<1>1. IsWellFoundedOn(R, Nat)
  BY NatLessThanWellFounded
<1>2. \A m, k \in Nat : k < m => <<k, m>> \in R
  BY DEF OpToRel
<1>. HIDE DEF R
<1>3. PICK m \in T : \A k \in T : <<k, m>> \notin R
  BY <1>1, WFMin
<1>4. ASSUME NEW k \in T PROVE m <= k
  <2>1. m \in Nat /\ k \in Nat
    OBVIOUS
  <2>2. ~(k < m)
    BY <1>2, <1>3, <2>1
  <2>. QED  BY <2>1, <2>2
<1>. QED  BY <1>4

LEMMA SetInduction ==
  ASSUME NEW A \in SUBSET Nat, 0 \in A, \A n \in A : n + 1 \in A
  PROVE  A = Nat
<1>. SUFFICES ASSUME Nat \ A # {} PROVE FALSE
  OBVIOUS
<1>1. PICK m \in Nat \ A : \A k \in Nat \ A : m <= k
  BY LeastNat
<1>2. m # 0 /\ m - 1 \in Nat /\ m = (m - 1) + 1
  OBVIOUS
<1>3. m - 1 \in A
  BY <1>1, <1>2
<1>. QED  BY <1>2, <1>3

Choice(T) == CHOOSE x \in T : TRUE

SumOver(f, g, T) == IF T = {} THEN 0 ELSE f[Choice(T)] + g[T \ {Choice(T)}]

Summing(f, S, g) == g = [T \in SUBSET S |-> SumOver(f, g, T)]

\* The recursion of the fold has a solution, by induction on how large the sets
\* are for which it is solved.
LEMMA SummingExists ==
  ASSUME NEW f, NEW S, IsFiniteSet(S)
  PROVE  \E g : Summing(f, S, g)
<1> DEFINE Solves(n, g) == \A T \in SUBSET S : Cardinality(T) <= n => g[T] = SumOver(f, g, T)
           A == {n \in Nat : \E g : Solves(n, g)}
<1>0. ASSUME NEW T \in SUBSET S, T # {}
      PROVE  /\ Choice(T) \in T
             /\ T \ {Choice(T)} \in SUBSET S
             /\ Cardinality(T) \in Nat /\ Cardinality(T \ {Choice(T)}) = Cardinality(T) - 1
  <2>1. Choice(T) \in T
    BY <1>0 DEF Choice
  <2>2. IsFiniteSet(T)
    BY FS_Subset
  <2>. QED  BY <2>1, <2>2, FS_CardinalityType, FS_RemoveElement
<1>1. 0 \in A
  <2>1. Solves(0, [T \in SUBSET S |-> 0])
    <3>1. ASSUME NEW T \in SUBSET S, Cardinality(T) <= 0 PROVE T = {}
      BY <3>1, FS_Subset, FS_EmptySet, FS_CardinalityType
    <3>. QED  BY <3>1 DEF SumOver
  <2>. QED  BY <2>1
<1>2. ASSUME NEW n \in A PROVE n + 1 \in A
  <2>1. PICK g : Solves(n, g)
    OBVIOUS
  <2> DEFINE h == [T \in SUBSET S |-> SumOver(f, g, T)]
  <2>2. ASSUME NEW T \in SUBSET S, Cardinality(T) <= n PROVE g[T] = h[T]
    BY <2>1, <2>2
  <2>3. ASSUME NEW T \in SUBSET S, Cardinality(T) <= n + 1 PROVE h[T] = SumOver(f, h, T)
    <3>1. CASE T = {}
      BY <3>1 DEF SumOver
    <3>2. CASE T # {}
      <4>1. Cardinality(T \ {Choice(T)}) <= n /\ T \ {Choice(T)} \in SUBSET S
        BY <1>0, <2>3, <3>2
      <4>2. g[T \ {Choice(T)}] = h[T \ {Choice(T)}]
        BY <2>2, <4>1
      <4>. QED  BY <4>2, <3>2 DEF SumOver
    <3>. QED  BY <3>1, <3>2
  <2>4. Solves(n + 1, h)
    BY <2>3
  <2>. HIDE DEF h, Solves
  <2>. QED  BY <2>4
<1>3. A = Nat
  <2>. HIDE DEF A
  <2>1. A \subseteq Nat
    BY DEF A
  <2>. QED  BY <1>1, <1>2, <2>1, SetInduction
<1>4. Cardinality(S) \in Nat /\ \A T \in SUBSET S : Cardinality(T) <= Cardinality(S)
  BY FS_CardinalityType, FS_Subset
<1>5. PICK g : Solves(Cardinality(S), g)
  BY <1>3, <1>4
<1>6. \A T \in SUBSET S : g[T] = SumOver(f, g, T)
  BY <1>4, <1>5
<1> DEFINE h == [T \in SUBSET S |-> g[T]]
<1>7. \A T \in SUBSET S : SumOver(f, h, T) = SumOver(f, g, T)
  BY <1>0 DEF SumOver
<1>8. Summing(f, S, h)
  BY <1>6, <1>7 DEF Summing
<1>. QED  BY <1>8

LEMMA SumIsSumming ==
  ASSUME NEW f, NEW S, IsFiniteSet(S)
  PROVE  \E g : Summing(f, S, g) /\ SumFunctionOnSet(f, S) = g[S]
<1> DEFINE h == CHOOSE g : Summing(f, S, g)
<1>1. Summing(f, S, h)
  BY SummingExists
<1>2. SumFunctionOnSet(f, S) = h[S]
  BY DEF SumFunctionOnSet, FoldFunctionOnSet, MapThenFoldSet, Summing, SumOver, Choice
<1>. QED  BY <1>1, <1>2

\* Its solutions for a set and for a subset agree.
LEMMA SummingUnique ==
  ASSUME NEW f, NEW S, IsFiniteSet(S), NEW R \in SUBSET S,
         NEW g, Summing(f, S, g), NEW h, Summing(f, R, h)
  PROVE  g[R] = h[R]
<1> DEFINE Bad == {T \in SUBSET R : g[T] # h[T]}
<1>. SUFFICES ASSUME Bad # {} PROVE FALSE
  OBVIOUS
<1>1. IsFiniteSet(R)
  BY FS_Subset
<1>2. PICK T \in Bad : \A U \in Bad : U \subseteq T => U = T
  <2>1. Bad \in SUBSET SUBSET R
    OBVIOUS
  <2>. HIDE DEF Bad
  <2>. QED  BY <1>1, <2>1, MinimalSubset
<1>3. g[T] = SumOver(f, g, T) /\ h[T] = SumOver(f, h, T)
  BY DEF Summing
<1>4. T # {} => Choice(T) \in T
  BY DEF Choice
<1>5. T # {} => g[T \ {Choice(T)}] = h[T \ {Choice(T)}]
  BY <1>2, <1>4
<1>. QED  BY <1>3, <1>5 DEF SumOver

LEMMA SumOfNone == ASSUME NEW f PROVE SumFunctionOnSet(f, {}) = 0
<1>1. PICK g : Summing(f, {}, g) /\ SumFunctionOnSet(f, {}) = g[{}]
  BY SumIsSumming, FS_EmptySet
<1>. QED  BY <1>1 DEF Summing, SumOver

LEMMA SumByChoice ==
  ASSUME NEW f, NEW S, IsFiniteSet(S), S # {}
  PROVE  /\ Choice(S) \in S
         /\ SumFunctionOnSet(f, S) = f[Choice(S)] + SumFunctionOnSet(f, S \ {Choice(S)})
<1> DEFINE R == S \ {Choice(S)}
<1>1. IsFiniteSet(R)
  BY FS_Subset
<1>2. PICK g : Summing(f, S, g) /\ SumFunctionOnSet(f, S) = g[S]
  BY SumIsSumming
<1>3. PICK h : Summing(f, R, h) /\ SumFunctionOnSet(f, R) = h[R]
  BY <1>1, SumIsSumming
<1>4. g[R] = h[R]
  BY <1>2, <1>3, SummingUnique
<1>5. g[S] = f[Choice(S)] + g[R]
  BY <1>2 DEF Summing, SumOver
<1>. QED  BY <1>2, <1>3, <1>4, <1>5 DEF Choice

\* A sum of natural numbers is one.
LEMMA SumIsNat ==
  ASSUME NEW S, IsFiniteSet(S), NEW f, \A s \in S : f[s] \in Nat
  PROVE  SumFunctionOnSet(f, S) \in Nat
<1> DEFINE Bad == {T \in SUBSET S : SumFunctionOnSet(f, T) \notin Nat}
<1>. SUFFICES ASSUME Bad # {} PROVE FALSE
  OBVIOUS
<1>1. PICK T \in Bad : \A U \in Bad : U \subseteq T => U = T
  <2>1. Bad \in SUBSET SUBSET S
    OBVIOUS
  <2>. HIDE DEF Bad
  <2>. QED  BY <2>1, MinimalSubset
<1>2. IsFiniteSet(T) /\ T # {}
  <2>1. T # {}
    BY SumOfNone
  <2>2. IsFiniteSet(T)
    BY FS_Subset
  <2>. QED  BY <2>1, <2>2
<1>3. Choice(T) \in T /\ SumFunctionOnSet(f, T) = f[Choice(T)] + SumFunctionOnSet(f, T \ {Choice(T)})
  BY <1>2, SumByChoice
<1>4. SumFunctionOnSet(f, T \ {Choice(T)}) \in Nat
  BY <1>1, <1>3
<1>. QED  BY <1>3, <1>4

\* Any element can be taken out of a sum: the order of the fold is no matter.
LEMMA SumRemove ==
  ASSUME NEW S, IsFiniteSet(S), NEW f, \A s \in S : f[s] \in Nat, NEW x \in S
  PROVE  SumFunctionOnSet(f, S) = f[x] + SumFunctionOnSet(f, S \ {x})
<1> DEFINE Bad == {T \in SUBSET S :
                     \E y \in T : SumFunctionOnSet(f, T) # f[y] + SumFunctionOnSet(f, T \ {y})}
<1>. SUFFICES ASSUME Bad # {} PROVE FALSE
  OBVIOUS
<1>1. PICK T \in Bad : \A U \in Bad : U \subseteq T => U = T
  <2>1. Bad \in SUBSET SUBSET S
    OBVIOUS
  <2>. HIDE DEF Bad
  <2>. QED  BY <2>1, MinimalSubset
<1>2. PICK y \in T : SumFunctionOnSet(f, T) # f[y] + SumFunctionOnSet(f, T \ {y})
  OBVIOUS
<1> DEFINE c == Choice(T)
<1>3. \A U \in SUBSET T : IsFiniteSet(U) /\ SumFunctionOnSet(f, U) \in Nat
  BY FS_Subset, SumIsNat
<1>4. c \in T /\ SumFunctionOnSet(f, T) = f[c] + SumFunctionOnSet(f, T \ {c})
  BY <1>2, <1>3, SumByChoice
<1>5. c # y
  BY <1>2, <1>4
<1>6. SumFunctionOnSet(f, T \ {c}) = f[y] + SumFunctionOnSet(f, (T \ {c}) \ {y})
  BY <1>1, <1>4, <1>5
<1>7. SumFunctionOnSet(f, T \ {y}) = f[c] + SumFunctionOnSet(f, (T \ {y}) \ {c})
  BY <1>1, <1>4, <1>5
<1>8. (T \ {y}) \ {c} = (T \ {c}) \ {y}
  OBVIOUS
<1>9. f[y] \in Nat /\ f[c] \in Nat /\ SumFunctionOnSet(f, (T \ {c}) \ {y}) \in Nat
  BY <1>3, <1>4
<1>. QED  BY <1>2, <1>4, <1>6, <1>7, <1>8, <1>9

LEMMA SumAdd ==
  ASSUME NEW S, IsFiniteSet(S), NEW x, x \notin S, NEW f, \A s \in S \cup {x} : f[s] \in Nat
  PROVE  SumFunctionOnSet(f, S \cup {x}) = f[x] + SumFunctionOnSet(f, S)
<1>1. IsFiniteSet(S \cup {x}) /\ (S \cup {x}) \ {x} = S
  BY FS_AddElement
<1>. QED  BY <1>1, SumRemove

\* One element contributes its value at most.
LEMMA SumMinus ==
  ASSUME NEW S, IsFiniteSet(S), NEW f, \A s \in S : f[s] \in Nat, NEW x
  PROVE  SumFunctionOnSet(f, S \ {x}) <= SumFunctionOnSet(f, S)
<1>1. IsFiniteSet(S \ {x})
  BY FS_Subset
<1>2. SumFunctionOnSet(f, S) \in Nat /\ SumFunctionOnSet(f, S \ {x}) \in Nat
  BY <1>1, SumIsNat
<1>3. CASE x \in S
  <2>1. SumFunctionOnSet(f, S) = f[x] + SumFunctionOnSet(f, S \ {x})
    BY <1>3, SumRemove
  <2>. QED  BY <1>2, <1>3, <2>1
<1>4. CASE x \notin S
  <2>1. S \ {x} = S
    BY <1>4
  <2>. QED  BY <1>2, <2>1
<1>. QED  BY <1>3, <1>4

\* Sums compare as their terms do.
LEMMA SumMonotonic ==
  ASSUME NEW S, IsFiniteSet(S), NEW f, NEW g,
         NEW k \in Nat, \A s \in S : f[s] \in Nat /\ g[s] \in Nat /\ k * f[s] <= g[s]
  PROVE  k * SumFunctionOnSet(f, S) <= SumFunctionOnSet(g, S)
<1> DEFINE Bad == {T \in SUBSET S : ~(k * SumFunctionOnSet(f, T) <= SumFunctionOnSet(g, T))}
<1>. SUFFICES ASSUME Bad # {} PROVE FALSE
  OBVIOUS
<1>1. PICK T \in Bad : \A U \in Bad : U \subseteq T => U = T
  <2>1. Bad \in SUBSET SUBSET S
    OBVIOUS
  <2>. HIDE DEF Bad
  <2>. QED  BY <2>1, MinimalSubset
<1> DEFINE c == Choice(T)
           F == SumFunctionOnSet(f, T \ {c})
           G == SumFunctionOnSet(g, T \ {c})
<1>2. T # {}
  <2>1. k * SumFunctionOnSet(f, {}) <= SumFunctionOnSet(g, {})
    BY SumOfNone
  <2>. QED  BY <2>1
<1>3. IsFiniteSet(T) /\ IsFiniteSet(T \ {c})
  BY FS_Subset
<1>4. /\ c \in T
      /\ SumFunctionOnSet(f, T) = f[c] + F
      /\ SumFunctionOnSet(g, T) = g[c] + G
  BY <1>2, <1>3, SumByChoice
<1>5. F \in Nat /\ G \in Nat
  BY <1>3, SumIsNat
<1>6. k * F <= G
  BY <1>1, <1>4
<1>7. f[c] \in Nat /\ g[c] \in Nat /\ k * f[c] <= g[c]
  BY <1>4
<1>8. k * (f[c] + F) = k * f[c] + k * F
  BY <1>5, <1>7
<1>9. k * f[c] \in Nat /\ k * F \in Nat
  BY <1>5, <1>7
<1>10. k * (f[c] + F) <= g[c] + G
  BY <1>5, <1>6, <1>7, <1>8, <1>9
<1>. QED  BY <1>4, <1>10

\* Only the terms matter.
LEMMA SumSame ==
  ASSUME NEW S, IsFiniteSet(S), NEW f, NEW g,
         \A s \in S : f[s] \in Nat /\ f[s] = g[s]
  PROVE  SumFunctionOnSet(f, S) = SumFunctionOnSet(g, S)
<1>1. SumFunctionOnSet(f, S) \in Nat /\ SumFunctionOnSet(g, S) \in Nat
  BY SumIsNat
<1>2. \A s \in S : 1 * f[s] <= g[s] /\ 1 * g[s] <= f[s]
  OBVIOUS
<1>3. 1 * SumFunctionOnSet(f, S) <= SumFunctionOnSet(g, S)
  BY <1>2, SumMonotonic
<1>4. 1 * SumFunctionOnSet(g, S) <= SumFunctionOnSet(f, S)
  BY <1>2, SumMonotonic
<1>. QED  BY <1>1, <1>3, <1>4

\* Sums over two sets that have nothing in common.
LEMMA SumUnion ==
  ASSUME NEW S, IsFiniteSet(S), NEW R, S \cap R = {}, IsFiniteSet(R),
         NEW f, \A s \in S \cup R : f[s] \in Nat
  PROVE  SumFunctionOnSet(f, S \cup R) = SumFunctionOnSet(f, S) + SumFunctionOnSet(f, R)
<1> DEFINE Bad == {T \in SUBSET S :
              SumFunctionOnSet(f, T \cup R) # SumFunctionOnSet(f, T) + SumFunctionOnSet(f, R)}
<1>. SUFFICES ASSUME Bad # {} PROVE FALSE
  OBVIOUS
<1>1. PICK T \in Bad : \A U \in Bad : U \subseteq T => U = T
  <2>1. Bad \in SUBSET SUBSET S
    OBVIOUS
  <2>. HIDE DEF Bad
  <2>. QED  BY <2>1, MinimalSubset
<1>2. SumFunctionOnSet(f, R) \in Nat
  BY SumIsNat
<1>3. T # {}
  <2>1. {} \cup R = R
    OBVIOUS
  <2>. QED  BY <1>2, <2>1, SumOfNone
<1>4. PICK c \in T : TRUE
  BY <1>3
<1> DEFINE U == T \ {c}
<1>5. IsFiniteSet(U) /\ IsFiniteSet(U \cup R)
  BY FS_Subset, FS_Union
<1>6. SumFunctionOnSet(f, U \cup R) = SumFunctionOnSet(f, U) + SumFunctionOnSet(f, R)
  BY <1>1, <1>4
<1>7. T = U \cup {c} /\ T \cup R = (U \cup R) \cup {c} /\ c \notin U \cup R
  OBVIOUS
<1>8. SumFunctionOnSet(f, T) = f[c] + SumFunctionOnSet(f, U)
  BY <1>5, <1>7, SumAdd
<1>9. SumFunctionOnSet(f, T \cup R) = f[c] + SumFunctionOnSet(f, U \cup R)
  BY <1>5, <1>7, SumAdd
<1>10. SumFunctionOnSet(f, U) \in Nat /\ f[c] \in Nat
  BY <1>5, SumIsNat
<1>. QED  BY <1>2, <1>6, <1>8, <1>9, <1>10

-----------------------------------------------------------------------------
LEMMA InitIInv == Init => IInv
BY DEF Init, IInv, SetTypes, DeadHadTheirTurn, MapsAgree, KillsPending,
       KillerSurvives, OwedIsDue, Victims

\* Victims after a collision.
LEMMA OneMoreVictim ==
  ASSUME NEW s, NEW t, killedBy' = killedBy \cup {<<s, t>>}
  PROVE  Victims' = Victims \cup {s}
<1>1. <<s, t>>[1] = s
  OBVIOUS
<1>2. Victims' = {pair[1] : pair \in killedBy \cup {<<s, t>>}}
  BY DEF Victims
<1>3. {pair[1] : pair \in killedBy \cup {<<s, t>>}} = {pair[1] : pair \in killedBy} \cup {<<s, t>>[1]}
  BY Zenon
<1>. QED  BY <1>1, <1>2, <1>3 DEF Victims

LEMMA ProcessSnakeIInv ==
  ASSUME IInv, NEW s \in Sessions, ProcessSnake(s)
  PROVE  IInv'
<1>1. /\ pc = "snakes" /\ pc' = "snakes"
      /\ s \in todo /\ todo' = todo \ {s}
      /\ s \notin killedSnakes /\ s \notin Victims /\ s \in sessions
  BY DEF IInv, ProcessSnake, SetTypes, DeadHadTheirTurn, MapsAgree
<1>2. CASE ProcessKilledSnake(s)
  <2>1. /\ killed' \in {killed, killed \ {s}}
        /\ \/ UNCHANGED updates
           \/ AskForFullUpdate(s)
        /\ UNCHANGED <<maps, snakes, killedSnakes, killedBy>>
    BY <1>2 DEF ProcessKilledSnake, RespawnSnake
  <2>2. SetTypes' /\ MapsAgree' /\ OwedIsDue'
    BY <1>1, <2>1 DEF IInv, SetTypes, MapsAgree, OwedIsDue, AskForFullUpdate, maps, updates
  <2>3. Victims' = Victims /\ KillerSurvives'
    BY <2>1 DEF IInv, KillerSurvives, Victims
  <2>4. DeadHadTheirTurn' /\ KillsPending'
    BY <1>1, <2>1, <2>3 DEF IInv, DeadHadTheirTurn, KillsPending
  <2>. QED  BY <2>2, <2>3, <2>4 DEF IInv
<1>3. CASE LeaveArea(s) \/ Move(s)
  <2>1. UNCHANGED <<maps, snakes, updates>>
    BY <1>3 DEF LeaveArea, Move
  <2>2. SetTypes' /\ MapsAgree' /\ OwedIsDue'
    BY <1>1, <2>1 DEF IInv, SetTypes, MapsAgree, OwedIsDue, maps, updates
  <2>3. CASE UNCHANGED <<killed, killedSnakes, killedBy>>
    <3>1. Victims' = Victims /\ KillerSurvives'
      BY <2>3 DEF IInv, KillerSurvives, Victims
    <3>2. DeadHadTheirTurn' /\ KillsPending'
      BY <1>1, <2>3, <3>1 DEF IInv, DeadHadTheirTurn, KillsPending
    <3>. QED  BY <2>2, <3>1, <3>2 DEF IInv
  <2>4. CASE KillSnake(s) /\ UNCHANGED killedBy
    <3>1. Victims' = Victims /\ KillerSurvives'
      BY <2>4 DEF IInv, KillerSurvives, Victims
    <3>2. DeadHadTheirTurn' /\ KillsPending'
      BY <1>1, <2>4, <3>1 DEF IInv, DeadHadTheirTurn, KillsPending, KillSnake
    <3>. QED  BY <2>2, <3>1, <3>2 DEF IInv
  <2>5. CASE \E t \in Targets(s) : KillSnake(s) /\ killedBy' = killedBy \cup {<<s, t>>}
    <3>1. PICK t \in Targets(s) : KillSnake(s) /\ killedBy' = killedBy \cup {<<s, t>>}
      BY <2>5
    <3>2. Victims' = Victims \cup {s}
      BY <3>1, OneMoreVictim
    <3>3. DeadHadTheirTurn' /\ KillsPending'
      BY <1>1, <3>1, <3>2 DEF IInv, DeadHadTheirTurn, KillsPending, KillSnake
    <3>4. t \notin Victims'  \* it lives, and is another snake
      BY <1>1, <3>1, <3>2 DEF IInv, DeadHadTheirTurn, Targets
    <3>5. KillerSurvives'
      <4>1. <<s, t>> \in killedBy' /\ <<s, t>>[2] = t
        BY <3>1
      <4>. QED  BY <3>4, <4>1 DEF KillerSurvives
    <3>. QED  BY <2>2, <3>3, <3>5 DEF IInv
  <2>. QED
    <3>1. CASE LeaveArea(s)
      BY <3>1, <2>4 DEF LeaveArea
    <3>2. CASE Move(s)
      BY <3>2, <2>3, <2>5 DEF Move, Deadly
    <3>. QED  BY <1>3, <3>1, <3>2
<1>. QED  BY <1>2, <1>3 DEF ProcessSnake

\* The steps that leave the collisions of the tick and the dead alone.
LEMMA QuietIInv ==
  ASSUME IInv, UNCHANGED <<killedBy, todo>>, pc # "snakes", pc' # "snakes", killedSnakes' = {}
  PROVE  DeadHadTheirTurn' /\ KillsPending' /\ KillerSurvives'
<1>1. Victims' = Victims
  BY DEF Victims
<1>. QED
  BY <1>1 DEF IInv, SetTypes, DeadHadTheirTurn, KillsPending, KillerSurvives

LEMMA TickStepIInv ==
  ASSUME IInv, TickStep
  PROVE  IInv'
<1>. USE DEF IInv
<1>1. CASE BeginTick
  <2>1. Victims' = {} /\ KillerSurvives'
    BY <1>1 DEF BeginTick, Victims, KillerSurvives
  <2>2. SetTypes' /\ MapsAgree' /\ OwedIsDue' /\ KillsPending'
    BY <1>1 DEF BeginTick, SetTypes, MapsAgree, OwedIsDue, KillsPending, maps, game, updates
  <2>3. DeadHadTheirTurn'
    BY <1>1, <2>1 DEF BeginTick, DeadHadTheirTurn, KillsPending, game
  <2>. QED  BY <2>1, <2>2, <2>3
<1>2. CASE \E s \in Sessions : ProcessSnake(s)
  BY <1>2, ProcessSnakeIInv
<1>3. CASE ProcessKills
  <2>1. Victims' = Victims /\ KillerSurvives'
    BY <1>3 DEF ProcessKills, Victims, KillerSurvives
  <2>2. DeadHadTheirTurn' /\ KillsPending'
    BY <1>3, <2>1 DEF ProcessKills, DeadHadTheirTurn, KillsPending
  <2>3. SetTypes' /\ MapsAgree' /\ OwedIsDue'
    BY <1>3 DEF ProcessKills, SetTypes, MapsAgree, OwedIsDue, maps, updates
  <2>. QED  BY <2>1, <2>2, <2>3
<1>4. CASE GenerateFoods
  <2>1. DeadHadTheirTurn' /\ KillsPending' /\ KillerSurvives'
    BY <1>4, QuietIInv DEF GenerateFoods, KillsPending
  <2>. QED
    BY <1>4, <2>1 DEF GenerateFoods, SetTypes, MapsAgree, OwedIsDue, maps, updates
<1>5. CASE SendUpdates
  <2>1. DeadHadTheirTurn' /\ KillsPending' /\ KillerSurvives'
    BY <1>5, QuietIInv DEF SendUpdates, KillsPending, game
  <2>. QED
    BY <1>5, <2>1 DEF SendUpdates, SetTypes, MapsAgree, OwedIsDue, game
<1>6. CASE EndTick
  <2>1. DeadHadTheirTurn' /\ KillsPending' /\ KillerSurvives'
    BY <1>6, QuietIInv DEF EndTick, KillsPending, game
  <2>. QED
    BY <1>6, <2>1 DEF EndTick, SetTypes, MapsAgree, OwedIsDue, maps, game, updates
<1>. QED  BY <1>1, <1>2, <1>3, <1>4, <1>5, <1>6 DEF TickStep

LEMMA CallbackIInv ==
  ASSUME IInv, Callback
  PROVE  IInv'
<1>. USE DEF IInv
<1>0. /\ pc \in {"udp", "idle"} /\ pc' = pc
      /\ UNCHANGED <<killedBy, todo>>
      /\ killedSnakes' = killedSnakes
  BY DEF Callback, OnSessionConnected, OnSessionDisconnected, RequestFullUpdate,
         RequestSnakeSnapshot, SetSSIDPlayer, GetLeaderboard, tick, game
<1>1. DeadHadTheirTurn' /\ KillsPending' /\ KillerSurvives'
  BY <1>0, QuietIInv DEF KillsPending
<1>2. ASSUME NEW s \in Sessions, OnSessionConnected(s)
      PROVE  SetTypes' /\ MapsAgree' /\ OwedIsDue'
  BY <1>2 DEF OnSessionConnected, RespawnSnake, AskForFullUpdate, SetTypes, MapsAgree,
              OwedIsDue, tick
<1>3. ASSUME NEW s \in Sessions, OnSessionDisconnected(s)
      PROVE  SetTypes' /\ MapsAgree' /\ OwedIsDue'
  BY <1>3 DEF OnSessionDisconnected, SetTypes, MapsAgree, OwedIsDue, tick
<1>4. ASSUME NEW s \in Sessions, RequestFullUpdate(s) \/ RequestSnakeSnapshot(s)
      PROVE  SetTypes' /\ MapsAgree' /\ OwedIsDue'
  BY <1>4 DEF RequestFullUpdate, RequestSnakeSnapshot, AskForFullUpdate, SetTypes,
              MapsAgree, OwedIsDue, tick, game, updates
<1>5. ASSUME NEW s \in Sessions, NEW player \in Players, SetSSIDPlayer(s, player)
      PROVE  SetTypes' /\ MapsAgree' /\ OwedIsDue'
  BY <1>5 DEF SetSSIDPlayer, SetTypes, MapsAgree, OwedIsDue, tick, game, updates
<1>6. CASE GetLeaderboard
  BY <1>1, <1>6 DEF GetLeaderboard, SetTypes, MapsAgree, OwedIsDue, tick, game, updates
<1>. QED  BY <1>1, <1>2, <1>3, <1>4, <1>5, <1>6 DEF Callback

LEMMA StepIInv == IInv /\ [Next]_vars => IInv'
<1>. SUFFICES ASSUME IInv, [Next]_vars PROVE IInv'
  OBVIOUS
<1>1. CASE UNCHANGED vars
  BY <1>1 DEF IInv, SetTypes, DeadHadTheirTurn, MapsAgree, KillsPending, KillerSurvives,
              OwedIsDue, Victims, vars, tick, maps, game, updates
<1>. QED  BY <1>1, TickStepIInv, CallbackIInv DEF Next

LEMMA Invariance == Spec => []IInv
BY InitIInv, StepIInv, PTL DEF Spec

-----------------------------------------------------------------------------
(***************************************************************************)
(* Types, which need IInv where one container is filled from another.      *)
(***************************************************************************)

\* What killed snakes drop is a number, and worth no more than they had.
LEMMA DropsAreCovered ==
  ASSUME GameServerAssumption, TypeOK, NEW dead \in SUBSET Sessions
  PROVE  /\ IsFiniteSet(dead)
         /\ Drops(dead) \in Nat /\ SumFunctionOnSet(exp, dead) \in Nat
         /\ DropPower * Drops(dead) <= SumFunctionOnSet(exp, dead)
<1> DEFINE dropped == [s \in Sessions |-> exp[s] \div DropPer]
<1>1. IsFiniteSet(dead)
  BY FS_Subset DEF GameServerAssumption
<1>2. \A e \in Nat : e \div DropPer \in Nat /\ DropPower * (e \div DropPer) <= e
  BY DEF DropPer, DropPower
<1>3. \A s \in dead : dropped[s] \in Nat /\ exp[s] \in Nat /\ DropPower * dropped[s] <= exp[s]
  BY <1>2 DEF TypeOK
<1>4. DropPower \in Nat
  BY DEF DropPower
<1>. HIDE DEF dropped
<1>5. DropPower * SumFunctionOnSet(dropped, dead) <= SumFunctionOnSet(exp, dead)
  BY <1>1, <1>3, <1>4, SumMonotonic
<1>6. SumFunctionOnSet(dropped, dead) \in Nat /\ SumFunctionOnSet(exp, dead) \in Nat
  BY <1>1, <1>3, SumIsNat
<1>. QED  BY <1>1, <1>5, <1>6 DEF Drops, dropped

\* The parts of TypeOK.
TickTypes ==
  /\ frame \in {0, 1}
  /\ pc \in {"idle", "snakes", "foods", "send", "udp"}
  /\ todo \subseteq snakes
  /\ killedBy \subseteq Sessions \X Sessions

MapTypes ==
  /\ unused \subseteq Sessions
  /\ sessions \subseteq Sessions \ unused
  /\ byID \subseteq Sessions
  /\ players \in UNION {[S -> Players] : S \in SUBSET Sessions}
  /\ netState \subseteq Sessions
  /\ fullUpdates \subseteq Sessions
  /\ owed \subseteq Sessions

GameTypes ==
  /\ snakes \subseteq Sessions
  /\ killed \subseteq snakes
  /\ killedSnakes \subseteq snakes
  /\ exp \in [Sessions -> Nat]
  /\ foods \in [generated : Nat, dropped : Nat]

Types == TickTypes /\ MapTypes /\ GameTypes

LEMMA TypeParts == TypeOK <=> Types
BY DEF TypeOK, Types, TickTypes, MapTypes, GameTypes

LEMMA InitTypes == GameServerAssumption /\ Init => Types
<1>. SUFFICES ASSUME GameServerAssumption, Init PROVE Types
  OBVIOUS
<1>1. players \in [{} -> Players]
  BY DEF Init
<1>2. MapTypes
  BY <1>1 DEF Init, MapTypes
<1>. QED  BY <1>2 DEF Init, Types, TickTypes, GameTypes

\* What a meal adds to a snake and takes from the foods.
LEMMA EatTypes ==
  ASSUME GameServerAssumption, GameTypes, NEW s \in Sessions, NEW meal \in Meals, Eat(s, meal)
  PROVE  /\ meal.generated \in Nat /\ meal.dropped \in Nat
         /\ FoodPower * meal.generated + DropPower * meal.dropped \in Nat
         /\ foods'.generated = foods.generated - meal.generated
         /\ foods'.dropped = foods.dropped - meal.dropped
         /\ exp'[s] = exp[s] + FoodPower * meal.generated + DropPower * meal.dropped
         /\ \A t \in Sessions \ {s} : exp'[t] = exp[t]
         /\ exp' \in [Sessions -> Nat] /\ foods' \in [generated : Nat, dropped : Nat]
<1>1. /\ foods.generated \in Nat /\ foods.dropped \in Nat
      /\ meal.generated \in 0 .. foods.generated /\ meal.dropped \in 0 .. foods.dropped
  BY DEF GameTypes, Meals
<1>2. FoodPower * meal.generated \in Nat /\ DropPower * meal.dropped \in Nat
  BY <1>1 DEF GameServerAssumption, DropPower
<1>3. exp[s] \in Nat
  BY DEF GameTypes
<1> DEFINE ate == exp[s] + FoodPower * meal.generated + DropPower * meal.dropped
<1>4. ate \in Nat /\ exp' = [exp EXCEPT ![s] = ate]
  BY <1>2, <1>3 DEF Eat
<1>5. exp' \in [Sessions -> Nat] /\ exp'[s] = ate /\ \A t \in Sessions \ {s} : exp'[t] = exp[t]
  <2>. HIDE DEF ate
  <2>. QED  BY <1>4 DEF GameTypes
<1>6. /\ foods' \in [generated : Nat, dropped : Nat]
      /\ foods'.generated = foods.generated - meal.generated
      /\ foods'.dropped = foods.dropped - meal.dropped
  BY <1>1 DEF Eat
<1>. QED  BY <1>1, <1>2, <1>5, <1>6

LEMMA ProcessSnakeTypes ==
  ASSUME GameServerAssumption, Types, NEW s \in Sessions, ProcessSnake(s)
  PROVE  Types'
<1>. USE DEF Types
<1>1. s \in todo /\ s \in snakes /\ todo' = todo \ {s} /\ UNCHANGED <<frame, pc>>
  BY DEF ProcessSnake, TickTypes
<1>2. CASE ProcessKilledSnake(s)
  <2>1. MapTypes'
    BY <1>2 DEF ProcessKilledSnake, RespawnSnake, AskForFullUpdate, MapTypes, maps, updates
  <2>2. GameTypes'
    BY <1>2 DEF ProcessKilledSnake, RespawnSnake, GameTypes, GameServerAssumption
  <2>3. TickTypes'
    BY <1>1, <1>2 DEF ProcessKilledSnake, TickTypes
  <2>. QED  BY <2>1, <2>2, <2>3
<1>3. CASE LeaveArea(s)
  BY <1>1, <1>3 DEF LeaveArea, KillSnake, MapTypes, GameTypes, TickTypes, maps, updates
<1>4. CASE Move(s)
  <2>1. PICK meal \in Meals, heads \in SUBSET Targets(s), bodies \in SUBSET Targets(s) :
          /\ Eat(s, meal)
          /\ \/ UNCHANGED <<killed, killedSnakes, killedBy>>
             \/ \E t \in Deadly(s, heads, bodies) :
                  KillSnake(s) /\ killedBy' = killedBy \cup {<<s, t>>}
    BY <1>4 DEF Move
  <2>2. exp' \in [Sessions -> Nat] /\ foods' \in [generated : Nat, dropped : Nat]
    BY <2>1, EatTypes
  <2>3. UNCHANGED <<maps, snakes, updates>>
    BY <1>4 DEF Move
  <2>4. Deadly(s, heads, bodies) \subseteq Sessions
    BY DEF Deadly, Targets, GameTypes
  <2>5. GameTypes'
    BY <1>1, <2>1, <2>2, <2>3 DEF GameTypes, KillSnake
  <2>6. TickTypes'
    BY <1>1, <2>1, <2>3, <2>4 DEF TickTypes
  <2>. QED  BY <2>3, <2>5, <2>6 DEF MapTypes, maps, updates
<1>. QED  BY <1>2, <1>3, <1>4 DEF ProcessSnake

LEMMA NextTypes == GameServerAssumption /\ IInv /\ Types /\ [Next]_vars => Types'
<1>. SUFFICES ASSUME GameServerAssumption, IInv, Types, [Next]_vars PROVE Types'
  OBVIOUS
<1>. USE DEF Types
<1>1. CASE BeginTick
  BY <1>1 DEF BeginTick, TickTypes, MapTypes, GameTypes, maps, game, updates
<1>2. CASE \E s \in Sessions : ProcessSnake(s)
  BY <1>2, ProcessSnakeTypes
<1>3. CASE ProcessKills
  <2>1. Drops(killedSnakes) \in Nat
    BY DropsAreCovered, TypeParts DEF GameTypes
  <2>2. GameTypes'
    BY <1>3, <2>1 DEF ProcessKills, GameTypes
  <2>. QED  BY <1>3, <2>2 DEF ProcessKills, TickTypes, MapTypes, maps, updates
<1>4. CASE GenerateFoods
  <2>1. GameTypes'
    BY <1>4 DEF GenerateFoods, GameTypes, FoodsSize, GameServerAssumption
  <2>. QED  BY <1>4, <2>1 DEF GenerateFoods, TickTypes, MapTypes, maps, updates
<1>5. CASE SendUpdates
  BY <1>5 DEF SendUpdates, TickTypes, MapTypes, GameTypes, game
<1>6. CASE EndTick
  BY <1>6 DEF EndTick, TickTypes, MapTypes, GameTypes, maps, game, updates
<1>7. ASSUME NEW s \in Sessions, OnSessionConnected(s) PROVE Types'
  <2>1. GameTypes' /\ TickTypes'
    BY <1>7 DEF OnSessionConnected, RespawnSnake, TickTypes, GameTypes, GameServerAssumption, tick
  <2>. QED  BY <1>7, <2>1 DEF OnSessionConnected, RespawnSnake, AskForFullUpdate, MapTypes
<1>8. ASSUME NEW s \in Sessions, OnSessionDisconnected(s) PROVE Types'
  <2>1. players' \in [DOMAIN players \ {s} -> Players] /\ DOMAIN players \ {s} \in SUBSET Sessions
    BY <1>8 DEF OnSessionDisconnected, MapTypes
  <2>2. MapTypes'
    BY <1>8, <2>1 DEF OnSessionDisconnected, MapTypes
  <2>3. todo = {} /\ killedSnakes = {}
    BY <1>8 DEF OnSessionDisconnected, IInv, SetTypes, KillsPending
  <2>4. TickTypes' /\ GameTypes'
    BY <1>8, <2>3 DEF OnSessionDisconnected, TickTypes, GameTypes, tick
  <2>. QED  BY <2>2, <2>4
<1>9. ASSUME NEW s \in Sessions, RequestFullUpdate(s) \/ RequestSnakeSnapshot(s) PROVE Types'
  BY <1>9 DEF RequestFullUpdate, RequestSnakeSnapshot, AskForFullUpdate, TickTypes, MapTypes,
              GameTypes, tick, game, updates
<1>10. ASSUME NEW s \in Sessions, NEW player \in Players, SetSSIDPlayer(s, player) PROVE Types'
  <2>1. /\ players' \in [DOMAIN players \cup {s} -> Players]
        /\ DOMAIN players \cup {s} \in SUBSET Sessions
    BY <1>10 DEF SetSSIDPlayer, MapTypes
  <2>2. MapTypes'
    BY <1>10, <2>1 DEF SetSSIDPlayer, MapTypes, updates
  <2>. QED  BY <1>10, <2>2 DEF SetSSIDPlayer, TickTypes, GameTypes, tick, game
<1>11. CASE GetLeaderboard
  <2>1. sessions' = sessions
    BY <1>11 DEF GetLeaderboard, IInv, MapsAgree
  <2>. QED  BY <1>11, <2>1 DEF GetLeaderboard, TickTypes, MapTypes, GameTypes, tick, game, updates
<1>12. CASE UNCHANGED vars
  BY <1>12 DEF vars, tick, maps, game, updates, TickTypes, MapTypes, GameTypes
<1>. QED  BY <1>1, <1>2, <1>3, <1>4, <1>5, <1>6, <1>7, <1>8, <1>9, <1>10, <1>11, <1>12
             DEF Next, TickStep, Callback

LEMMA TypesHold == Spec => []Types
<1>1. Init => Types
  BY InitTypes, GameServerAssumption
<1>2. IInv /\ Types /\ [Next]_vars => Types'
  BY NextTypes, GameServerAssumption
<1>. QED  BY <1>1, <1>2, Invariance, PTL DEF Spec

-----------------------------------------------------------------------------
(***************************************************************************)
(* Where experience comes from.                                            *)
(***************************************************************************)

\* The snakes whose experience counts.
Holders == Living \cup killedSnakes

Held(e, S) == SumFunctionOnSet(e, S)

InFoods == FoodPower * foods.generated + DropPower * foods.dropped

\* What NothingFromNothing says of a step.
Conserved ==
  Substance' <= Substance + StartExp * Cardinality(Living' \ Living) + FoodPower * Generated

LEMMA HeldIsNat ==
  ASSUME GameServerAssumption, NEW S \in SUBSET Sessions, NEW e \in [Sessions -> Nat]
  PROVE  IsFiniteSet(S) /\ Held(e, S) \in Nat
<1>1. IsFiniteSet(S)
  BY FS_Subset DEF GameServerAssumption
<1>. QED  BY <1>1, SumIsNat DEF Held

LEMMA SubstanceIs ==
  ASSUME GameServerAssumption, Types
  PROVE  /\ Holders \in SUBSET Sessions
         /\ Held(exp, Holders) \in Nat
         /\ FoodPower * foods.generated \in Nat /\ DropPower * foods.dropped \in Nat
         /\ Substance = InFoods + Held(exp, Holders)
<1>1. Holders \in SUBSET Sessions /\ exp \in [Sessions -> Nat]
  BY DEF Holders, Living, Types, GameTypes
<1>2. Held(exp, Holders) \in Nat
  BY <1>1, HeldIsNat
<1>3. FoodPower * foods.generated \in Nat /\ DropPower * foods.dropped \in Nat
  BY DEF GameServerAssumption, DropPower, Types, GameTypes
<1>. QED  BY <1>1, <1>2, <1>3 DEF Substance, InFoods, Held, Holders

LEMMA SubstanceIsAfter ==
  ASSUME GameServerAssumption, Types'
  PROVE  /\ Holders' \in SUBSET Sessions
         /\ Held(exp', Holders') \in Nat
         /\ FoodPower * foods'.generated \in Nat /\ DropPower * foods'.dropped \in Nat
         /\ Substance' = InFoods' + Held(exp', Holders')
<1>1. Holders' \in SUBSET Sessions /\ exp' \in [Sessions -> Nat]
  BY DEF Holders, Living, Types, GameTypes
<1>2. Held(exp', Holders') \in Nat
  BY <1>1, HeldIsNat
<1>3. FoodPower * foods'.generated \in Nat /\ DropPower * foods'.dropped \in Nat
  BY DEF GameServerAssumption, DropPower, Types, GameTypes
<1>. QED  BY <1>1, <1>2, <1>3 DEF Substance, InFoods, Held, Holders

\* The allowance of a step is a number, and zero in most.
LEMMA AllowanceIsNat ==
  ASSUME GameServerAssumption, Types, Types'
  PROVE  /\ StartExp * Cardinality(Living' \ Living) \in Nat
         /\ pc # "foods" \/ foods' = foods => FoodPower * Generated = 0
<1>1. Cardinality(Living' \ Living) \in Nat
  <2>1. Living' \ Living \in SUBSET Sessions
    BY DEF Living, Types, GameTypes
  <2>. QED  BY <2>1, FS_Subset, FS_CardinalityType DEF GameServerAssumption
<1>2. pc # "foods" \/ foods' = foods => Generated = 0
  BY DEF Generated, Types, GameTypes
<1>3. StartExp \in Nat /\ FoodPower * 0 = 0
  BY DEF GameServerAssumption
<1>. QED  BY <1>1, <1>2, <1>3

\* Nothing is eaten, dropped or generated, and at most somebody leaves.
LEMMA NothingGained ==
  ASSUME GameServerAssumption, Types, Types', UNCHANGED <<exp, foods>>,
         NEW s, Holders' \in {Holders, Holders \ {s}}
  PROVE  Conserved
<1>1. Held(exp, Holders \ {s}) <= Held(exp, Holders)
  BY SubstanceIs, HeldIsNat, SumMinus DEF Held, Types, GameTypes
<1>2. Held(exp', Holders') = Held(exp, Holders) \/ Held(exp', Holders') = Held(exp, Holders \ {s})
  OBVIOUS
<1>3. InFoods' = InFoods
  BY DEF InFoods
<1>. QED
  BY <1>1, <1>2, <1>3, SubstanceIs, SubstanceIsAfter, AllowanceIsNat DEF Conserved, InFoods

\* A snake (re)enters the game with StartExp.
LEMMA RespawnConserves ==
  ASSUME GameServerAssumption, Types, Types', NEW s \in Sessions, s \notin Holders,
         exp' = [exp EXCEPT ![s] = StartExp], UNCHANGED <<foods, killedSnakes>>,
         Living' = Living \cup {s}
  PROVE  Conserved
<1>1. Holders' = Holders \cup {s} /\ Living' \ Living = {s}
  BY DEF Holders
<1>2. StartExp * Cardinality(Living' \ Living) = StartExp
  BY <1>1, FS_Singleton DEF GameServerAssumption
<1>3. /\ exp' \in [Sessions -> Nat] /\ exp \in [Sessions -> Nat] /\ exp'[s] = StartExp
      /\ \A t \in Holders : exp'[t] = exp[t]
  BY SubstanceIs DEF Types, GameTypes
<1>4. Holders \in SUBSET Sessions /\ IsFiniteSet(Holders) /\ Held(exp, Holders) \in Nat
  BY <1>3, SubstanceIs, HeldIsNat
<1>5. Held(exp', Holders) = Held(exp, Holders)
  BY <1>3, <1>4, SumSame DEF Held
<1>6. Held(exp', Holders') = StartExp + Held(exp', Holders)
  BY <1>1, <1>3, <1>4, SumAdd DEF Held
<1>7. InFoods' = InFoods
  BY DEF InFoods
<1>. QED
  BY <1>2, <1>4, <1>5, <1>6, <1>7, SubstanceIs, SubstanceIsAfter, AllowanceIsNat
  DEF Conserved, InFoods, GameServerAssumption

\* What a snake eats, the foods lose.
LEMMA EatConserves ==
  ASSUME GameServerAssumption, Types, Types', NEW s \in Holders, NEW meal \in Meals, Eat(s, meal),
         Holders' = Holders
  PROVE  Substance' = Substance
<1> DEFINE gain == FoodPower * meal.generated + DropPower * meal.dropped
           rest == Holders \ {s}
<1>0. s \in Sessions /\ GameTypes
  BY SubstanceIs DEF Types
<1>1. /\ meal.generated \in Nat /\ meal.dropped \in Nat /\ gain \in Nat
      /\ foods'.generated = foods.generated - meal.generated
      /\ foods'.dropped = foods.dropped - meal.dropped
      /\ exp'[s] = exp[s] + gain
      /\ \A t \in Sessions \ {s} : exp'[t] = exp[t]
  <2>1. /\ FoodPower * meal.generated \in Nat /\ DropPower * meal.dropped \in Nat /\ exp[s] \in Nat
    BY <1>0, EatTypes DEF GameServerAssumption, DropPower, GameTypes
  <2>. QED  BY <1>0, <2>1, EatTypes
<1>2. /\ exp \in [Sessions -> Nat] /\ exp' \in [Sessions -> Nat]
      /\ Holders \in SUBSET Sessions /\ rest \in SUBSET Sessions
      /\ foods.generated \in Nat /\ foods.dropped \in Nat
  BY SubstanceIs DEF Types, GameTypes
<1>3. IsFiniteSet(Holders) /\ IsFiniteSet(rest) /\ Held(exp, rest) \in Nat
  BY <1>2, HeldIsNat
<1>4. Held(exp', rest) = Held(exp, rest)
  BY <1>1, <1>2, <1>3, SumSame DEF Held
<1>5. Held(exp, Holders) = exp[s] + Held(exp, rest)
  BY <1>2, <1>3, SumRemove DEF Held
<1>6. Held(exp', Holders) = exp'[s] + Held(exp', rest)
  BY <1>2, <1>3, SumRemove DEF Held
<1>7. InFoods' = InFoods - gain
  <2>1. FoodPower * (foods.generated - meal.generated)
          = FoodPower * foods.generated - FoodPower * meal.generated
    BY <1>1, <1>2 DEF GameServerAssumption
  <2>2. DropPower * (foods.dropped - meal.dropped)
          = DropPower * foods.dropped - DropPower * meal.dropped
    BY <1>1, <1>2 DEF DropPower
  <2>3. FoodPower * meal.generated \in Nat /\ DropPower * meal.dropped \in Nat
    BY <1>1 DEF GameServerAssumption, DropPower
  <2>. QED  BY <1>1, <2>1, <2>2, <2>3, SubstanceIs DEF InFoods
<1>8. exp[s] \in Nat /\ InFoods \in Nat
  BY <1>0, <1>2, SubstanceIs DEF InFoods
<1>9. Held(exp', Holders') = Held(exp, Holders) + gain
  BY <1>1, <1>3, <1>4, <1>5, <1>6, <1>8
<1>. HIDE DEF gain
<1>. QED  BY <1>1, <1>7, <1>8, <1>9, SubstanceIs, SubstanceIsAfter

LEMMA ProcessSnakeConserves ==
  ASSUME GameServerAssumption, IInv, Types, Types', NEW s \in Sessions, ProcessSnake(s)
  PROVE  Conserved
<1>1. s \in todo /\ s \in snakes /\ s \notin killedSnakes /\ pc = "snakes"
  BY DEF ProcessSnake, IInv, SetTypes, DeadHadTheirTurn
<1>2. CASE ProcessKilledSnake(s)
  <2>1. s \in killed /\ s \notin Holders /\ UNCHANGED <<snakes, killedSnakes, foods>>
    BY <1>1, <1>2 DEF ProcessKilledSnake, Holders, Living
  <2>2. CASE RespawnSnake(s)
    <3>1. Living' = Living \cup {s} /\ exp' = [exp EXCEPT ![s] = StartExp]
      BY <1>1, <2>1, <2>2 DEF RespawnSnake, Living
    <3>. QED  BY <2>1, <3>1, RespawnConserves
  <2>3. CASE UNCHANGED <<killed, exp, updates>>
    <3>1. Holders' = Holders
      BY <2>1, <2>3 DEF Holders, Living
    <3>. QED  BY <2>1, <2>3, <3>1, NothingGained
  <2>. QED  BY <1>2, <2>2, <2>3 DEF ProcessKilledSnake
<1>3. CASE LeaveArea(s)
  <2>1. Holders' = Holders
    BY <1>1, <1>3 DEF LeaveArea, KillSnake, Holders, Living
  <2>. QED  BY <1>3, <2>1, NothingGained DEF LeaveArea
<1>4. CASE Move(s)
  <2>1. PICK meal \in Meals : Eat(s, meal)
    BY <1>4 DEF Move
  <2>2. s \in Holders /\ Holders' = Holders
    BY <1>1, <1>4 DEF Move, KillSnake, Holders, Living
  <2>3. Substance' = Substance
    BY <2>1, <2>2, EatConserves
  <2>4. Substance \in Nat
    BY SubstanceIs DEF InFoods
  <2>. QED  BY <1>1, <2>3, <2>4, AllowanceIsNat DEF Conserved
<1>. QED  BY <1>2, <1>3, <1>4 DEF ProcessSnake

\* The foods that the dead drop are worth no more than the dead were.
LEMMA ProcessKillsConserves ==
  ASSUME GameServerAssumption, IInv, Types, Types', ProcessKills
  PROVE  Conserved
<1> DEFINE drops == Drops(killedSnakes)
<1>1. /\ killedSnakes \in SUBSET Sessions /\ Living \in SUBSET Sessions
      /\ Living \cap killedSnakes = {} /\ exp \in [Sessions -> Nat]
  BY DEF Types, GameTypes, Living, IInv, KillsPending
<1>2. drops \in Nat /\ DropPower * drops <= Held(exp, killedSnakes)
  BY <1>1, TypeParts, DropsAreCovered DEF Held
<1>3. /\ IsFiniteSet(Living) /\ IsFiniteSet(killedSnakes)
      /\ Held(exp, Living) \in Nat /\ Held(exp, killedSnakes) \in Nat
  BY <1>1, HeldIsNat
<1>4. Held(exp, Holders) = Held(exp, Living) + Held(exp, killedSnakes)
  <2>1. \A t \in Living \cup killedSnakes : exp[t] \in Nat
    BY <1>1
  <2>. QED  BY <1>1, <1>3, <2>1, SumUnion DEF Held, Holders
<1>5. Holders' = Living /\ exp' = exp
  BY DEF ProcessKills, Holders, Living
<1>6. foods'.generated = foods.generated /\ foods'.dropped = foods.dropped + drops
  BY DEF ProcessKills, Types, GameTypes
<1>7. DropPower * (foods.dropped + drops) = DropPower * foods.dropped + DropPower * drops
  BY <1>2 DEF DropPower, Types, GameTypes
<1>8. InFoods' = InFoods + DropPower * drops /\ DropPower * drops \in Nat /\ InFoods \in Nat
  BY <1>2, <1>6, <1>7, SubstanceIs DEF InFoods, DropPower
<1>9. Held(exp', Holders') = Held(exp, Living)
  BY <1>5
<1>10. pc = "snakes"
  BY DEF ProcessKills
<1>. HIDE DEF drops
<1>. QED
  BY <1>2, <1>3, <1>4, <1>8, <1>9, <1>10, SubstanceIs, SubstanceIsAfter, AllowanceIsNat
  DEF Conserved

LEMMA GenerateFoodsConserves ==
  ASSUME GameServerAssumption, Types, Types', GenerateFoods
  PROVE  Conserved
<1>1. Holders' = Holders /\ exp' = exp
  BY DEF GenerateFoods, Holders, Living
<1>2. Generated = foods'.generated - foods.generated /\ foods'.dropped = foods.dropped
  BY DEF GenerateFoods, Generated, Types, GameTypes
<1>3. /\ foods.generated \in Nat /\ foods'.generated \in Nat
  BY DEF Types, GameTypes
<1>4. FoodPower * Generated = FoodPower * foods'.generated - FoodPower * foods.generated
  BY <1>2, <1>3 DEF GameServerAssumption
<1>5. InFoods' = InFoods + FoodPower * Generated
  BY <1>2, <1>4, SubstanceIs, SubstanceIsAfter DEF InFoods
<1>6. Held(exp', Holders') = Held(exp, Holders)
  BY <1>1
<1>7. FoodPower * Generated \in Int
  BY <1>4, SubstanceIs, SubstanceIsAfter
<1>. QED
  BY <1>5, <1>6, <1>7, SubstanceIs, SubstanceIsAfter, AllowanceIsNat DEF Conserved, InFoods

LEMMA NextConserves ==
  GameServerAssumption /\ IInv /\ Types /\ Types' /\ [Next]_vars => Conserved \/ UNCHANGED vars
<1>. SUFFICES ASSUME GameServerAssumption, IInv, Types, Types', Next PROVE Conserved
  OBVIOUS
<1>1. CASE UNCHANGED game
  <2>1. Holders' = Holders /\ UNCHANGED <<exp, foods>>
    BY <1>1 DEF game, Holders, Living
  <2>. QED  BY <2>1, NothingGained
<1>2. ASSUME NEW s \in Sessions, ProcessSnake(s) PROVE Conserved
  BY <1>2, ProcessSnakeConserves
<1>3. ASSUME NEW s \in Sessions, OnSessionConnected(s) PROVE Conserved
  <2>1. s \notin snakes /\ killedSnakes = {} /\ s \notin killed
    BY <1>3 DEF OnSessionConnected, IInv, KillsPending, MapsAgree, Types, MapTypes, GameTypes
  <2>2. s \notin Holders /\ Living' = Living \cup {s}
    BY <1>3, <2>1 DEF OnSessionConnected, RespawnSnake, Holders, Living
  <2>. QED  BY <1>3, <2>2, RespawnConserves DEF OnSessionConnected, RespawnSnake
<1>4. ASSUME NEW s \in Sessions, OnSessionDisconnected(s) PROVE Conserved
  <2>1. killedSnakes = {}
    BY <1>4 DEF OnSessionDisconnected, IInv, KillsPending
  <2>2. Holders' = Holders \ {s}
    BY <1>4, <2>1 DEF OnSessionDisconnected, Holders, Living
  <2>. QED  BY <1>4, <2>2, NothingGained DEF OnSessionDisconnected
<1>. QED
  BY <1>1, <1>2, <1>3, <1>4, ProcessKillsConserves, GenerateFoodsConserves
  DEF Next, TickStep, Callback, BeginTick, SendUpdates, EndTick, RequestFullUpdate,
      RequestSnakeSnapshot, SetSSIDPlayer, GetLeaderboard

-----------------------------------------------------------------------------
\* However sessions connect and disconnect, the containers of game_server.hpp
\* that are keyed by session agree.
THEOREM MapsAgreeHolds == Spec => []MapsAgree
<1>1. IInv => MapsAgree
  BY DEF IInv
<1>. QED  BY <1>1, Invariance, PTL

\* In whatever order the first loop of ProcessTick comes to the snakes, one
\* that was killed stays dead until ProcessKills has dropped its foods.
THEOREM KillsPendingHolds == Spec => []KillsPending
<1>1. IInv => KillsPending
  BY DEF IInv
<1>. QED  BY <1>1, Invariance, PTL

\* With any number of snakes that collide in one tick, in any order, one of
\* the killers is not killed in a collision itself.
THEOREM KillerSurvivesHolds == Spec => []KillerSurvives
<1>1. IInv => KillerSurvives
  BY DEF IInv
<1>. QED  BY <1>1, Invariance, PTL

\* A session that respawned or asked for a full update is in fullUpdates_
\* until SendUpdates has served it.
THEOREM OwedIsDueHolds == Spec => []OwedIsDue
<1>1. IInv => OwedIsDue
  BY DEF IInv
<1>. QED  BY <1>1, Invariance, PTL

\* If ticks go on, whoever is owed a full update is sent one or disconnects,
\* however many sessions ask: one pass of SendUpdates serves all of them,
\* since no one who is owed an update is missing in fullUpdates_ or sessions_.
THEOREM OwedIsSentHolds == Spec /\ TicksGoOn => OwedIsSent
<1>. SUFFICES ASSUME NEW s \in Sessions
              PROVE  Spec /\ TicksGoOn => (s \in owed ~> s \notin owed)
  BY DEF OwedIsSent
<1>1. IInv /\ <<SendUpdates>>_vars => (s \notin owed)'
  BY DEF IInv, OwedIsDue, SendUpdates
<1>. QED  BY <1>1, Invariance, PTL DEF TicksGoOn

\* All containers of a game server hold what they are meant to, and what the
\* dead leave behind is always a number of foods.
THEOREM TypeCorrect == Spec => []TypeOK
<1>1. Types => TypeOK
  BY TypeParts
<1>. QED  BY <1>1, TypesHold, PTL

\* In no order of moves, meals, deaths, drops and respawns is there ever more
\* experience than was put in.
THEOREM NothingFromNothingHolds == Spec => NothingFromNothing
<1>1. IInv /\ Types /\ Types' /\ [Next]_vars => [Conserved]_vars
  BY NextConserves, GameServerAssumption
<1>2. Spec => [][Conserved]_vars
  BY <1>1, Invariance, TypesHold, PTL DEF Spec
<1>. QED  BY <1>2 DEF NothingFromNothing, Conserved
=============================================================================
