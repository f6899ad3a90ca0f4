CONSTANT CellCount = 96
CONSTANT MaxCollections = 3
CONSTANT Defs <- MCDefs
CONSTANT Programs <- MCPrograms
SPECIFICATION Spec
INVARIANT NothingInUseFreed
INVARIANT StackBalanced
INVARIANT PrintsRight
