SPECIFICATION Spec
CONSTANTS
  xmm0 = xmm0
  xmm1 = xmm1
  xmm2 = xmm2
  Xmm <- MCXmm
  Mask = xmm0
  ByteBits = 3
  Programs <- MCPrograms
PROPERTY ImplementsSimd
\* The program ends.
CHECK_DEADLOCK FALSE
