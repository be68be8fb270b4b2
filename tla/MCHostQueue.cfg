CONSTANTS
  Cap = 3
  Payloads = {p1, p2, p3, p4, p5}
  NoPayload = NoPayload
SPECIFICATION Spec
INVARIANTS
  OneOwner
PROPERTY
  FifoSpec
CHECK_DEADLOCK FALSE
