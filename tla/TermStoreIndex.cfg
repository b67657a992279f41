\* The index under tombstones, compaction, failed allocations and toggling.
SPECIFICATION IndexSpec
CONSTANTS
  Hash <- MCHash
  Kinds = {"VAR", "DEFREF", "APP"}
  MaxHandle = 3
  MaxDepth = 2
  MaxSymbol = 3
  MinCapacity = 2
  Symbols = {1}
  Variables = {1}
  Allocates = {TRUE, FALSE}
  MaxDefinitions = 1
  MaxSignatures = 0
  MaxConstructors = 0
  MaxFacts = 2
INVARIANTS IndexComplete
PROPERTIES RelocationFaithful
CHECK_DEADLOCK FALSE
