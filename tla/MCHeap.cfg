SPECIFICATION Spec
CONSTANTS
  o1 = o1
  o2 = o2
  o3 = o3
  Objects <- MCObjects
  Sizes <- MCSizes
  Nil = Nil
SYMMETRY MCSymmetry
INVARIANTS  CountsExact GarbageCollected
