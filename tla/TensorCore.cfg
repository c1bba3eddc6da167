SPECIFICATION PartsSpec
CONSTANTS
  Rows = 1
  AddrRange = 8
  Descriptors <- OneDescriptor
  NoDesc = none
  Accumulators <- TwoAccumulators
  Values <- ThreeValues
  Zero = 0
  Mac <- Mod3
  Commands <- AllCommands
  HostCommands <- SomeCommands
  NoCommand = none
  Empty = none
INVARIANTS
  WordsAreSafe
  TileIsSummed
  FullSizeIsFed
PROPERTIES
  ImplementsMemory
  DescriptorsFinish
