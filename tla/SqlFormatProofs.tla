-------------------------- MODULE SqlFormatProofs --------------------------
(***************************************************************************)
(* Queries are refused exactly if the parameters are not as many as the    *)
(* places, and have their literals in them otherwise, for formats and      *)
(* parameters of any length.                                               *)
(***************************************************************************)
EXTENDS SqlFormat, FiniteSetTheorems, SequenceTheorems, TLAPS

-----------------------------------------------------------------------------
(***************************************************************************)
(* The concatenation of a sequence of texts, which FlattenSeq defines by   *)
(* recursion: the recursion has a solution, and FlattenSeq takes one.      *)
(***************************************************************************)

\* Induction over numbers, without an operator for what is proved: a set of
\* numbers that is not empty has a least one.
LEMMA LeastNat ==
  ASSUME NEW T \in SUBSET Nat, T # {}
  PROVE  \E m \in T : \A k \in T : m <= k
<1> DEFINE R == OpToRel(<, Nat)
<1>1. IsWellFoundedOn(R, Nat)
  BY NatLessThanWellFounded
<1>2. \A m, k \in Nat : k < m => <<k, m>> \in R
  BY DEF OpToRel
<1>. HIDE DEF R
<1>3. PICK m \in T : \A k \in T : <<k, m>> \notin R
  BY <1>1, WFMin
<1>4. ASSUME NEW k \in T PROVE m <= k
  <2>1. m \in Nat /\ k \in Nat
    OBVIOUS
  <2>2. ~(k < m)
    BY <1>2, <1>3, <2>1
  <2>. QED  BY <2>1, <2>2
<1>. QED  BY <1>4

LEMMA SetInduction ==
  ASSUME NEW A \in SUBSET Nat, 0 \in A, \A n \in A : n + 1 \in A
  PROVE  A = Nat
<1>. SUFFICES ASSUME Nat \ A # {} PROVE FALSE
  OBVIOUS
<1>1. PICK m \in Nat \ A : \A k \in Nat \ A : m <= k
  BY LeastNat
<1>2. m # 0 /\ m - 1 \in Nat /\ m = (m - 1) + 1
  OBVIOUS
<1>3. m - 1 \in A
  BY <1>1, <1>2
<1>. QED  BY <1>2, <1>3

\* The texts up to number k joined, given the joins g of fewer.
OneMore(t, g, k) == IF k = 1 THEN t[k] ELSE g[k - 1] \o t[k]

Joins(t, g) == g = [k \in 1 .. Len(t) |-> OneMore(t, g, k)]

LEMMA JoinsExist == ASSUME NEW t, Len(t) \in Nat PROVE \E g : Joins(t, g)
<1> DEFINE JoinsUpTo(n, g) == \A k \in 1 .. n : g[k] = OneMore(t, g, k)
           A == {n \in Nat : \E g : JoinsUpTo(n, g)}
<1>1. 0 \in A
  OBVIOUS
<1>2. ASSUME NEW n \in A PROVE n + 1 \in A
  <2>1. PICK g : JoinsUpTo(n, g)
    OBVIOUS
  <2> DEFINE h == [k \in 1 .. n + 1 |-> IF k = n + 1 THEN OneMore(t, g, k) ELSE g[k]]
  <2>2. ASSUME NEW k \in 1 .. n + 1 PROVE h[k] = OneMore(t, h, k)
    <3>1. k # 1 => h[k - 1] = g[k - 1]
      OBVIOUS
    <3>2. OneMore(t, h, k) = OneMore(t, g, k)
      BY <3>1 DEF OneMore
    <3>3. k # n + 1 => g[k] = OneMore(t, g, k)
      BY <2>1
    <3>. QED  BY <3>2, <3>3
  <2>. HIDE DEF h
  <2>. QED  BY <2>2
<1>3. A = Nat
  <2>1. A \subseteq Nat
    OBVIOUS
  <2>. HIDE DEF A
  <2>. QED  BY <1>1, <1>2, <2>1, SetInduction
<1>4. PICK g : JoinsUpTo(Len(t), g)
  BY <1>3
<1> DEFINE h == [k \in 1 .. Len(t) |-> g[k]]
<1>5. ASSUME NEW k \in 1 .. Len(t) PROVE OneMore(t, h, k) = OneMore(t, g, k)
  <2>1. k # 1 => h[k - 1] = g[k - 1]
    OBVIOUS
  <2>. QED  BY <2>1 DEF OneMore
<1>6. Joins(t, h)
  BY <1>4, <1>5 DEF Joins
<1>. QED  BY <1>6

\* The joins that FlattenSeq takes.
Joined(t) == CHOOSE g : Joins(t, g)

LEMMA FlattenIsJoined ==
  ASSUME NEW t, Len(t) \in Nat
  PROVE  /\ Len(t) # 0 => FlattenSeq(t) = Joined(t)[Len(t)]
         /\ Len(t) = 0 => FlattenSeq(t) = t
         /\ \A k \in 1 .. Len(t) : Joined(t)[k] = OneMore(t, Joined(t), k)
<1>1. Joins(t, Joined(t))
  BY JoinsExist DEF Joined
<1>2. \A k \in 1 .. Len(t) : Joined(t)[k] = OneMore(t, Joined(t), k)
  BY <1>1 DEF Joins
<1>3. Len(t) # 0 => FlattenSeq(t) = Joined(t)[Len(t)]
  BY DEF FlattenSeq, Joined, Joins, OneMore
<1>4. Len(t) = 0 => FlattenSeq(t) = t
  BY DEF FlattenSeq
<1>. QED  BY <1>2, <1>3, <1>4

-----------------------------------------------------------------------------
(***************************************************************************)
(* The loop of BuildSqlFromFormat.                                         *)
(***************************************************************************)

\* The places that the loop has come by.
Passed(m) == {k \in Places : k < m}

\* The loop has used a parameter for each place it came by, and is not in the
\* middle of a place.
Counted ==
  /\ argIndex = Cardinality(Passed(i)) /\ argIndex <= Len(params)
  /\ i - 1 \notin Places

\* The texts that are to be joined, and what the loop has made of them.
Pieces == [k \in 1 .. Len(fmt) |-> Piece(k)]

Placed == result = IF i = 1 THEN <<>> ELSE Joined(Pieces)[i - 1]

TypeInv ==
  /\ fmt \in Seq(Chars)
  /\ params \in Seq(Literals)
  /\ i \in 1 .. Len(fmt) + 1
  /\ argIndex \in Nat
  /\ result \in Seq(Chars)
  /\ pc \in {"scan", "returned", "thrown"}

IInv ==
  /\ TypeInv
  /\ pc = "scan" => Counted /\ Placed
  /\ RefusedIfMiscounted
  /\ LiteralsInPlace

LEMMA BracesDiffer == Open # Close
BY Zenon DEF Open, Close

LEMMA PlacesFinite ==
  ASSUME TypeInv
  PROVE  /\ IsFiniteSet(Places) /\ Places \subseteq 1 .. Len(fmt)
         /\ \A m : IsFiniteSet(Passed(m)) /\ Passed(m) \subseteq Places
<1>1. Places \subseteq 1 .. Len(fmt)
  BY DEF TypeInv, Places
<1>2. IsFiniteSet(Places)
  <2>1. IsFiniteSet(1 .. Len(fmt))
    BY FS_Interval DEF TypeInv
  <2>2. QED
    BY <1>1, <2>1, FS_Subset
<1>3. \A m : Passed(m) \subseteq Places
  BY DEF Passed
<1>4. QED
  BY <1>1, <1>2, <1>3, FS_Subset

LEMMA InitIInv == ASSUME SqlFormatAssumption, Init PROVE IInv
<1>1. PICK m \in 0 .. MaxLength : fmt \in [1 .. m -> Chars]
  BY DEF Init
<1>2. PICK l \in 0 .. MaxParams : params \in [1 .. l -> Literals]
  BY DEF Init
<1>3. m \in Nat /\ l \in Nat
  BY DEF SqlFormatAssumption
<1>4. fmt \in Seq(Chars) /\ params \in Seq(Literals)
  BY <1>1, <1>2, <1>3
<1>5. TypeInv
  BY <1>4 DEF Init, TypeInv
<1>6. Counted
  <2>1. Passed(1) = {} /\ 0 \notin Places
    BY <1>5, PlacesFinite DEF Passed
  <2>2. i = 1 /\ argIndex = 0 /\ i - 1 = 0 /\ Len(params) \in Nat
    BY <1>5 DEF Init, TypeInv
  <2>3. Cardinality(Passed(i)) = 0
    BY <2>1, <2>2, FS_EmptySet
  <2>4. QED
    BY <2>1, <2>2, <2>3 DEF Counted
<1>7. QED
  BY <1>5, <1>6 DEF Init, IInv, Placed, RefusedIfMiscounted, LiteralsInPlace

\* A step of the loop that neither ends it nor passes a place.
LEMMA CopyStep ==
  ASSUME TypeInv, Counted, i <= Len(fmt), ~IsPlaceholder, CopyCharacter, UNCHANGED <<fmt, params>>
  PROVE  Counted'
<1>1. i \notin Places
  BY DEF IsPlaceholder, Places, TypeInv
<1>2. Passed(i + 1) = Passed(i)
  BY <1>1, PlacesFinite DEF Passed, TypeInv
<1>3. /\ Places' = Places /\ i' = i + 1 /\ params' = params /\ argIndex' = argIndex
  BY DEF CopyCharacter, Places
<1>4. Passed(i)' = Passed(i + 1)
  BY <1>3 DEF Passed
<1>5. i' - 1 = i
  BY <1>3 DEF TypeInv
<1>6. QED
  BY <1>1, <1>2, <1>3, <1>4, <1>5 DEF Counted

LEMMA AtPlace ==
  ASSUME TypeInv, i <= Len(fmt), IsPlaceholder
  PROVE  /\ i \in Places /\ i + 1 \notin Places /\ i \notin Passed(i)
         /\ Passed(i + 2) = Passed(i) \cup {i}
         /\ Cardinality(Passed(i + 2)) = Cardinality(Passed(i)) + 1
<1>1. i \in Places /\ i + 1 \notin Places
  BY BracesDiffer DEF IsPlaceholder, Places, TypeInv
<1>2. i \notin Passed(i)
  BY DEF Passed, TypeInv
<1>3. Passed(i + 2) = Passed(i) \cup {i}
  <2>1. i \in Nat /\ \A k \in Places : k \in Nat
    BY PlacesFinite DEF TypeInv
  <2>2. ASSUME NEW k \in Places
        PROVE  k < i + 2 <=> k < i \/ k = i
    BY <1>1, <2>1
  <2>3. QED
    BY <1>1, <2>2 DEF Passed
<1>4. Cardinality(Passed(i) \cup {i}) = Cardinality(Passed(i)) + 1
  BY <1>2, PlacesFinite, FS_AddElement
<1>5. QED
  BY <1>1, <1>2, <1>3, <1>4

LEMMA SubstituteStep ==
  ASSUME TypeInv, Counted, i <= Len(fmt), IsPlaceholder, argIndex < Len(params),
         Substitute, UNCHANGED <<fmt, params>>
  PROVE  Counted'
<1>1. /\ Places' = Places /\ i' = i + 2 /\ params' = params /\ argIndex' = argIndex + 1
  BY DEF Substitute, Places
<1>2. Passed(i)' = Passed(i + 2)
  BY <1>1 DEF Passed
<1>3. i' - 1 = i + 1
  BY <1>1 DEF TypeInv
<1>4. argIndex + 1 <= Len(params)
  BY DEF TypeInv
<1>5. QED
  BY <1>1, <1>2, <1>3, <1>4, AtPlace DEF Counted

\* A character that is no place stands for itself, or for nothing if it ends a
\* place; a place stands for the parameter of its number.
LEMMA PieceOf ==
  ASSUME TypeInv, NEW k \in 1 .. Len(fmt)
  PROVE  /\ k \notin Places /\ k - 1 \notin Places => Piece(k) = <<fmt[k]>>
         /\ k \notin Places /\ k - 1 \in Places => Piece(k) = <<>>
         /\ k \in Places => Piece(k) = params[Cardinality(Passed(k)) + 1]
         /\ fmt[k] \in Chars
<1>1. k \in Places => Cardinality({m \in Places : m <= k}) = Cardinality(Passed(k)) + 1
  <2>1. SUFFICES ASSUME k \in Places
                 PROVE  Cardinality({m \in Places : m <= k}) = Cardinality(Passed(k)) + 1
    OBVIOUS
  <2>2. {m \in Places : m <= k} = Passed(k) \cup {k} /\ k \notin Passed(k)
    <3>1. k \in Nat /\ \A m \in Places : m \in Nat
      BY PlacesFinite DEF TypeInv
    <3>2. \A m \in Places : m <= k <=> m < k \/ m = k
      BY <3>1
    <3>3. k \notin Passed(k)
      BY <3>1 DEF Passed
    <3>. QED  BY <2>1, <3>2, <3>3 DEF Passed
  <2>. QED  BY <2>2, PlacesFinite, FS_AddElement
<1>. QED  BY <1>1 DEF Piece, TypeInv

LEMMA JoinedPieces ==
  ASSUME TypeInv
  PROVE  /\ Len(Pieces) = Len(fmt) /\ Len(fmt) \in Nat
         /\ \A k \in 1 .. Len(fmt) :
              Joined(Pieces)[k] = IF k = 1 THEN Piece(k) ELSE Joined(Pieces)[k - 1] \o Piece(k)
<1>1. Len(Pieces) = Len(fmt) /\ Len(fmt) \in Nat
  BY DEF Pieces, TypeInv
<1>2. \A k \in 1 .. Len(fmt) : Pieces[k] = Piece(k)
  BY DEF Pieces
<1>. QED  BY <1>1, <1>2, FlattenIsJoined DEF OneMore

\* What the loop has written so far, and one piece more.
LEMMA OnePieceMore ==
  ASSUME TypeInv, Placed, i <= Len(fmt), Piece(i) \in Seq(Chars)
  PROVE  Joined(Pieces)[i] = result \o Piece(i)
<1>1. i \in 1 .. Len(fmt)
  BY DEF TypeInv
<1>2. CASE i = 1
  <2>1. result = <<>>
    BY <1>2 DEF Placed
  <2>2. <<>> \o Piece(i) = Piece(i)
    BY ConcatEmptySeq
  <2>. QED  BY <1>1, <1>2, <2>1, <2>2, JoinedPieces
<1>3. CASE i # 1
  BY <1>1, <1>3, JoinedPieces DEF Placed
<1>. QED  BY <1>2, <1>3

LEMMA ParametersStay ==
  ASSUME UNCHANGED <<fmt, params>>
  PROVE  Places' = Places /\ Pieces' = Pieces
<1>1. Places' = Places
  BY DEF Places
<1>. QED  BY <1>1 DEF Pieces, Piece

LEMMA CopyPlaces ==
  ASSUME TypeInv, Counted, Placed, i <= Len(fmt), ~IsPlaceholder, CopyCharacter,
         UNCHANGED <<fmt, params>>
  PROVE  Placed' /\ TypeInv'
<1>1. i \notin Places /\ i - 1 \notin Places /\ i \in 1 .. Len(fmt)
  BY DEF IsPlaceholder, Places, TypeInv, Counted
<1>2. Piece(i) = <<fmt[i]>> /\ fmt[i] \in Chars
  BY <1>1, PieceOf
<1>3. Joined(Pieces)[i] = result \o <<fmt[i]>>
  BY <1>1, <1>2, OnePieceMore
<1>4. result' = result \o <<fmt[i]>> /\ result' \in Seq(Chars)
  BY <1>2 DEF CopyCharacter, TypeInv
<1>5. i' = i + 1 /\ i' # 1 /\ i' - 1 = i
  BY <1>1 DEF CopyCharacter
<1>6. TypeInv'
  BY <1>1, <1>4, <1>5 DEF CopyCharacter, TypeInv
<1>. QED  BY <1>3, <1>4, <1>5, <1>6, ParametersStay DEF Placed

LEMMA SubstitutePlaces ==
  ASSUME SqlFormatAssumption, TypeInv, Counted, Placed, i <= Len(fmt), IsPlaceholder,
         argIndex < Len(params), Substitute, UNCHANGED <<fmt, params>>
  PROVE  Placed' /\ TypeInv'
<1>1. /\ i \in 1 .. Len(fmt) /\ i + 1 \in 1 .. Len(fmt)
      /\ i \in Places /\ i + 1 \notin Places
  BY AtPlace DEF IsPlaceholder, TypeInv
<1> DEFINE literal == params[argIndex + 1]
<1>2. literal \in Seq(Chars)
  <2>1. argIndex + 1 \in 1 .. Len(params)
    BY DEF TypeInv
  <2>2. literal \in Literals
    BY <2>1 DEF TypeInv
  <2>. QED  BY <2>2 DEF SqlFormatAssumption
<1>3. Piece(i) = literal
  BY <1>1, PieceOf DEF Counted
<1>4. Piece(i + 1) = <<>>
  <2>1. (i + 1) - 1 = i
    BY <1>1
  <2>. QED  BY <1>1, <2>1, PieceOf
<1>. HIDE DEF literal
<1>5. Joined(Pieces)[i] = result \o literal
  BY <1>1, <1>2, <1>3, OnePieceMore
<1>6. result \o literal \in Seq(Chars)
  BY <1>2, ConcatProperties DEF TypeInv
<1>7. Joined(Pieces)[i + 1] = (result \o literal) \o <<>>
  <2>1. i + 1 # 1 /\ (i + 1) - 1 = i
    BY <1>1
  <2>. QED  BY <1>1, <1>4, <1>5, <2>1, JoinedPieces
<1>8. Joined(Pieces)[i + 1] = result \o literal
  BY <1>6, <1>7, ConcatEmptySeq
<1>9. result' = result \o literal /\ i' = i + 2 /\ i' # 1 /\ i' - 1 = i + 1
  BY <1>1 DEF Substitute, literal
<1>10. TypeInv'
  BY <1>1, <1>6, <1>9 DEF Substitute, TypeInv
<1>. QED  BY <1>8, <1>9, <1>10, ParametersStay DEF Placed

LEMMA NextKeepsIInv == SqlFormatAssumption /\ IInv /\ [Next]_vars => IInv'
<1> SUFFICES ASSUME SqlFormatAssumption, IInv, [Next]_vars PROVE IInv'
  OBVIOUS
<1>1. TypeInv
  BY DEF IInv
<1>2. CASE Scan
  <2>1. pc = "scan" /\ Counted /\ Placed /\ i <= Len(fmt) /\ UNCHANGED <<fmt, params>>
    BY <1>2 DEF Scan, IInv
  <2>2. CASE IsPlaceholder /\ argIndex < Len(params) /\ Substitute
    <3>1. Counted'
      BY <1>1, <2>1, <2>2, SubstituteStep
    <3>2. Placed' /\ TypeInv' /\ pc' = "scan"
      BY <1>1, <2>1, <2>2, SubstitutePlaces DEF Substitute
    <3>3. QED
      BY <3>1, <3>2 DEF IInv, RefusedIfMiscounted, LiteralsInPlace
  <2>3. CASE IsPlaceholder /\ argIndex >= Len(params) /\ TooFewArguments
    <3>1. Len(params) < Cardinality(Places)
      <4>1. argIndex = Len(params) /\ argIndex = Cardinality(Passed(i))
        BY <1>1, <2>1, <2>3 DEF Counted, TypeInv
      <4>2. Cardinality(Passed(i + 2)) <= Cardinality(Places)
        BY <1>1, PlacesFinite, FS_Subset
      <4>3. Cardinality(Passed(i + 2)) = Cardinality(Passed(i)) + 1
        BY <1>1, <2>1, <2>3, AtPlace
      <4>4. Cardinality(Places) \in Nat
        BY <1>1, PlacesFinite, FS_CardinalityType
      <4>5. QED
        BY <1>1, <4>1, <4>2, <4>3, <4>4 DEF TypeInv
    <3>2. TypeInv' /\ pc' = "thrown" /\ Places' = Places /\ params' = params
      BY <1>1, <2>1, <2>3 DEF TypeInv, TooFewArguments, Places
    <3>3. Len(params) \in Nat /\ Cardinality(Places) \in Nat
      BY <1>1, PlacesFinite, FS_CardinalityType DEF TypeInv
    <3>4. Len(params) # Cardinality(Places)
      BY <3>1, <3>3
    <3>5. QED
      BY <3>2, <3>4 DEF IInv, RefusedIfMiscounted, LiteralsInPlace
  <2>4. CASE ~IsPlaceholder /\ CopyCharacter
    <3>1. Counted'
      BY <1>1, <2>1, <2>4, CopyStep
    <3>2. Placed' /\ TypeInv' /\ pc' = "scan"
      BY <1>1, <2>1, <2>4, CopyPlaces DEF CopyCharacter
    <3>3. QED
      BY <3>1, <3>2 DEF IInv, RefusedIfMiscounted, LiteralsInPlace
  <2>5. QED
    BY <1>2, <2>2, <2>3, <2>4 DEF Scan
<1>3. CASE EndScan
  <2>1. Counted /\ Placed /\ i > Len(fmt) /\ UNCHANGED <<fmt, params, i, argIndex, result>>
    BY <1>3 DEF EndScan, IInv
  <2>2. Passed(i) = Places
    BY <1>1, <2>1, PlacesFinite DEF Passed, TypeInv
  <2>3. argIndex = Cardinality(Places)
    BY <2>1, <2>2 DEF Counted
  <2>4. Places' = Places /\ params' = params
    BY <2>1 DEF Places
  <2>5. pc' = IF argIndex # Len(params) THEN "thrown" ELSE "returned"
    BY <1>3 DEF EndScan
  <2>6. TypeInv'
    BY <1>1, <2>1, <2>5 DEF TypeInv
  <2>7. result = FlattenSeq(Pieces)
    <3>1. i = Len(fmt) + 1
      BY <1>1, <2>1 DEF TypeInv
    <3>2. CASE Len(fmt) = 0
      <4>1. result = <<>> /\ Pieces = <<>>
        BY <2>1, <3>1, <3>2 DEF Placed, Pieces
      <4>2. QED
        BY <1>1, <3>2, <4>1, JoinedPieces, FlattenIsJoined
    <3>3. CASE Len(fmt) # 0
      <4>1. i # 1 /\ i - 1 = Len(fmt)
        BY <1>1, <3>1, <3>3 DEF TypeInv
      <4>2. QED
        BY <1>1, <2>1, <3>3, <4>1, JoinedPieces, FlattenIsJoined DEF Placed
    <3>4. QED
      BY <3>2, <3>3
  <2>8. LiteralsInPlace'
    BY <2>1, <2>7, ParametersStay DEF LiteralsInPlace, Pieces
  <2>9. QED
    BY <2>3, <2>4, <2>5, <2>6, <2>8 DEF IInv, RefusedIfMiscounted
<1>4. CASE UNCHANGED vars
  <2>1. UNCHANGED <<fmt, params, i, argIndex, result, pc>>
    BY <1>4 DEF vars
  <2>2. Places' = Places /\ Pieces' = Pieces
    BY <2>1, ParametersStay
  <2>3. TypeInv' /\ (pc' = "scan" => Counted' /\ Placed')
    BY <1>1, <2>1, <2>2 DEF IInv, TypeInv, Counted, Passed, Placed
  <2>4. RefusedIfMiscounted' /\ LiteralsInPlace'
    BY <2>1, <2>2 DEF IInv, RefusedIfMiscounted, LiteralsInPlace, Pieces
  <2>5. QED
    BY <2>3, <2>4 DEF IInv
<1>5. QED
  BY <1>2, <1>3, <1>4 DEF Next

LEMMA Invariance == Spec => []IInv
<1>1. Init => IInv
  BY InitIInv, SqlFormatAssumption
<1>2. IInv /\ [Next]_vars => IInv'
  BY NextKeepsIInv, SqlFormatAssumption
<1>3. QED
  BY <1>1, <1>2, PTL DEF Spec

\* Whatever the format and the parameters, a query is sent exactly if they fit.
THEOREM RefusedIfMiscountedHolds == Spec => []RefusedIfMiscounted
<1>1. IInv => RefusedIfMiscounted
  BY DEF IInv
<1>2. QED
  BY <1>1, Invariance, PTL

\* A query that is sent is its format with the literals in their places,
\* whatever braces stand in the format, next to the places or in the literals.
THEOREM LiteralsInPlaceHolds == Spec => []LiteralsInPlace
<1>1. IInv => LiteralsInPlace
  BY DEF IInv
<1>2. QED
  BY <1>1, Invariance, PTL
=============================================================================
