SPECIFICATION Spec
CONSTANTS
  f1 = f1
  f2 = f2
  p1 = p1
  p2 = p2
  p3 = p3
  p4 = p4
  p5 = p5
  p6 = p6
  Files <- MCFiles
  Missing = Missing
  Original <- MCOriginal
  Patches <- MCFewPatches
  Patch <- MCPatch
  TornWrites = TRUE
  IOErrors = TRUE
  MaxCrashes = 1
INVARIANTS MarkedIsInFile 
