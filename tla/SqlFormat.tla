------------------------------ MODULE SqlFormat ------------------------------
(***************************************************************************)
(* The text of a query: BuildSqlFromFormat of the MySQL connector, which   *)
(* puts the SQL literals of the parameters in the places that a format     *)
(* marks with {}, one pass of its loop per step.                           *)
(*                                                                         *)
(* A literal is any text, and may itself hold braces: ToSqlLiteral quotes  *)
(* and escapes a string for SQL, not for the format.                       *)
(***************************************************************************)
EXTENDS Naturals, SequencesExt

CONSTANTS
  Chars,       \* characters; Open and Close are the ones told apart
  Literals,    \* what ToSqlLiteral returns
  MaxLength,   \* bound on the length of a format
  MaxParams    \* bound on the number of parameters

ASSUME SqlFormatAssumption ==
  /\ Literals \subseteq Seq(Chars)
  /\ MaxLength \in Nat
  /\ MaxParams \in Nat

\* The two characters of a placeholder.
Open == "{"
Close == "}"

VARIABLES
  fmt,
  params,
  i,          \* of the next character, from 1
  argIndex,   \* number of parameters used
  result,
  pc          \* "scan", "returned" or "thrown"

vars == <<fmt, params, i, argIndex, result, pc>>

Init ==
  /\ fmt \in UNION {[1 .. m -> Chars] : m \in 0 .. MaxLength}
  /\ params \in UNION {[1 .. m -> Literals] : m \in 0 .. MaxParams}
  /\ i = 1
  /\ argIndex = 0
  /\ result = <<>>
  /\ pc = "scan"

IsPlaceholder == fmt[i] = Open /\ i + 1 <= Len(fmt) /\ fmt[i + 1] = Close

\* Mutant: the closing brace is not skipped.
SubstituteUnskipped ==
  /\ result' = result \o params[argIndex + 1]
  /\ argIndex' = argIndex + 1
  /\ i' = i + 1
  /\ UNCHANGED pc

Substitute ==
  /\ result' = result \o params[argIndex + 1]
  /\ argIndex' = argIndex + 1
  /\ i' = i + 2
  /\ UNCHANGED pc

TooFewArguments ==
  /\ pc' = "thrown"
  /\ UNCHANGED <<i, argIndex, result>>

CopyCharacter ==
  /\ result' = Append(result, fmt[i])
  /\ i' = i + 1
  /\ UNCHANGED <<argIndex, pc>>

Scan ==
  /\ pc = "scan" /\ i <= Len(fmt)
  /\ \/ IsPlaceholder /\ argIndex < Len(params) /\ Substitute
     \/ IsPlaceholder /\ argIndex >= Len(params) /\ TooFewArguments
     \/ ~IsPlaceholder /\ CopyCharacter
  /\ UNCHANGED <<fmt, params>>

\* Mutant: parameters may be left over.
EndScanUnchecked ==
  /\ pc = "scan" /\ i > Len(fmt)
  /\ pc' = "returned"
  /\ UNCHANGED <<fmt, params, i, argIndex, result>>

EndScan ==
  /\ pc = "scan" /\ i > Len(fmt)
  /\ pc' = IF argIndex # Len(params) THEN "thrown" ELSE "returned"
  /\ UNCHANGED <<fmt, params, i, argIndex, result>>

Next == Scan \/ EndScan

Spec == Init /\ [][Next]_vars

-----------------------------------------------------------------------------
(***************************************************************************)
(* Properties.                                                             *)
(***************************************************************************)

\* The places of a format, found without scanning it.
Places == {k \in 1 .. Len(fmt) - 1 : fmt[k] = Open /\ fmt[k + 1] = Close}

\* What stands for character k of the format.
Piece(k) ==
  IF k \in Places
  THEN params[Cardinality({m \in Places : m <= k})]
  ELSE IF k - 1 \in Places THEN <<>> ELSE <<fmt[k]>>

\* The query is the format with its places taken by the literals in their
\* order: no brace of a literal is taken for a place, and no character of the
\* format is lost or left over, wherever its braces stand.
LiteralsInPlace == pc = "returned" => result = FlattenSeq([k \in 1 .. Len(fmt) |-> Piece(k)])

\* Queries are refused exactly if the parameters are not as many as the places:
\* none is sent with a parameter missing or left out.
RefusedIfMiscounted ==
  pc # "scan" => (pc = "returned" <=> Len(params) = Cardinality(Places))
=============================================================================
