SPECIFICATION RewriteSpec
CONSTANTS
  Homes <- MCHomes
  Cwd <- MCCwd
  Names = {"a", "b"}
  MaxLength = 4
  GrantPaths <- MCGrantPaths
INVARIANTS NormalizeIsTheNormalForm CoverageSurvivesRewriting
CHECK_DEADLOCK FALSE
