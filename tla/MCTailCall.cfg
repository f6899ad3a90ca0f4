CONSTANT CellCount = 64
CONSTANT MaxCollections = 1
CONSTANT Defs <- MCDefs
CONSTANT Programs <- TailCall
SPECIFICATION Spec
INVARIANT NothingInUseFreed
