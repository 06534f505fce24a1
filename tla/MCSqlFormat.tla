---------------------------- MODULE MCSqlFormat ----------------------------
(***************************************************************************)
(* SqlFormat with literals that are a place, or half of one.               *)
(***************************************************************************)
EXTENDS SqlFormat

MCLiterals == {<<Open, Close>>, <<Open>>, <<"x">>}
=============================================================================
