\* Runs of three calls over two bytes of two bits; Z3 may give up.
SPECIFICATION FairSpec
CONSTANTS
  first = first
  second = second
  sum = sum
  Byte <- MCByte
  W = 4
  Expr <- MCExpr
  Programs <- MCPrograms
  MayTimeout = TRUE
  NameLimit = 10
INVARIANT SolverInv
INVARIANT FeasibleSaved
PROPERTY Returns
