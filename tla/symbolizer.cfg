SPECIFICATION Spec
CONSTANTS
  r1 = r1
  r2 = r2
  r3 = r3
  r4 = r4
  NoValue = NoValue
  Assign <- MCAssign
  Programs <- MCPrograms
  Regs <- MCRegs
  Addrs <- MCAddrs
  PtrBits = 3
INVARIANT ShadowsHold
INVARIANT PathExact
