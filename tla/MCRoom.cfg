CONSTANTS
  a1 = a1
  a2 = a2
  b = b
  c = c
  Free = Free
  Senders <- MCSenders
  Receivers <- MCReceivers
  Name <- MCName
  MaxBcast = 1
SPECIFICATION Spec
INVARIANT IInv
PROPERTIES WalkStable AtomicSpec LockReleased
