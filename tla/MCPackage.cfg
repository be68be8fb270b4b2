SPECIFICATION Spec
CONSTANTS
  PathBytes <- MCPathBytes
  PathSegs <- MCPathSegs
  MaxModules = 3
  MaxModuleBytes = 3
  MaxTotalBytes = 4
  HeaderBytes = 2
  ManifestBytes = 3
  Inputs <- MCInputs
  Foreign <- MCForeign
  Words <- MCWords
  PathWords <- MCPathWords
  Docs <- MCDocs
  Document <- MCDocument
  Imports <- MCImports
  Declarations <- MCDeclarations
  EngineModules = 2
  EnginePath = 512
INVARIANTS
  ReadsInBounds
  AcceptedTiles
  OneModulePerPath
  
  ReadersAgree
  
  
  ImportsStayInside
CHECK_DEADLOCK FALSE
