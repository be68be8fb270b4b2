SPECIFICATION Spec
CONSTANTS
  Modules <- MCModules
  Bundles <- MCBundles
  MaxImports = 2
INVARIANTS AssertionsHold DependenciesFirst PromiseHonest
PROPERTY ImportSettles
CHECK_DEADLOCK FALSE
