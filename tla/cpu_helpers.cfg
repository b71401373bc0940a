SPECIFICATION Spec
CONSTANTS
  W = 4
  Digit = 2
  Ten = 3
  Program <- MCProgram
  Hi <- MCHi
  Flags <- MCFlags
  Images <- MCImages
INVARIANT CarryAgrees
PROPERTY ImplementsCpu
\* The program ends.
CHECK_DEADLOCK FALSE
