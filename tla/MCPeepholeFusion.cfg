SPECIFICATION FusionSpec
CONSTANTS
  Blocks <- MCBlocks
  MaxDepth = 5
  Locals <- MCLocals
  Stored <- MCStored
INVARIANTS SameWrites SameStack SameChecks
CHECK_DEADLOCK FALSE
