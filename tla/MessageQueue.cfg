CONSTANTS
  Producers = {p1, p2}
  Consumers = {c1}
  MaxSend = 3
  Null = Null
  Free = Free
SPECIFICATION Spec
INVARIANT IInv
PROPERTIES FifoSpec EventuallyPopped
