\* Every format of up to five characters, with up to two parameters.
SPECIFICATION Spec
CONSTANTS
  Chars = {"{", "}", "x"}
  Literals <- MCLiterals
  MaxLength = 5
  MaxParams = 2
INVARIANTS LiteralsInPlace RefusedIfMiscounted
\* The function returns.
CHECK_DEADLOCK FALSE
