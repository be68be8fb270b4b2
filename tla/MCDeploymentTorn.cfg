CONSTANTS
  Functions = {f, g}
  Digests = {d1, d2}
  None = None
SYMMETRY Symmetry
SPECIFICATION DeploymentSpec
INVARIANT BundleWritten
CHECK_DEADLOCK FALSE
