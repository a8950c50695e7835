CONSTANTS
  c1 = c1
  c2 = c2
  Cores = {c1, c2}
  HostTx <- MCHostTx
  HostRx <- MCHostRx
  MonoTx <- MCMonoTx
  MonoRx <- MCMonoRx
  NoSize = NoSize
  NULL = NULL
  MaxCalls = 4
SPECIFICATION Spec
SYMMETRY CoreSymmetry
INVARIANTS
  TypeOK
  Conserved
  KindsSeparate
  SizesMatch
  DrainIsComplete
CHECK_DEADLOCK FALSE
