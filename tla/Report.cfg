CONSTANTS
  Inputs <- MCInputs
  Pieces <- MCPieces
  Dirs = {"/", "/admin/"}
  Flaps = 2
SPECIFICATION Spec
INVARIANTS
  ToldApart
  RankKept
  RefusedNeverScanned
  CorsExact
  SqlmapExact
  RealFileKept
  PhantomsDropped
CHECK_DEADLOCK FALSE
