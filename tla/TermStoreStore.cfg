\* Definitions, signatures, judgements and caches across checkpoints.
SPECIFICATION StoreSpec
CONSTANTS
  Hash <- MCHash
  Kinds = {"VAR", "DEFREF"}
  MaxHandle = 3
  MaxDepth = 2
  MaxSymbol = 4
  MinCapacity = 16
  Symbols = {1, 2}
  Variables = {1}
  Allocates = {TRUE}
  MaxDefinitions = 1
  MaxSignatures = 1
  MaxConstructors = 1
  MaxFacts = 3
INVARIANTS NoDangling CacheTruth FreshUnused
PROPERTIES DefinitionsPermanent
CHECK_DEADLOCK FALSE
