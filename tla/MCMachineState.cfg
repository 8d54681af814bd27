SPECIFICATION Spec
CONSTANTS
  leaf = leaf
  work = work
  NoFlow = NoFlow
  StackSize = 5
  FrameCap = 3
  FlowCap = 8
  Methods <- MCMethods
  maxStackSize <- MCMaxStackSize
  argSize <- MCArgSize
  MaxGroups = 2
  MaxLocalloc = 2
INVARIANTS
  LocallocIsPrivate
  FramesAreScanned
  FlowRegionsAreDisjoint
  ExecuteOwnsTopFrame
  IdleThreadHoldsNothing
