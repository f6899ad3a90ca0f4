CONSTANT WORKSPACESIZE = 3
CONSTANT Uses = {"pair", "array", "symbol", "atom", "text", "rplac", "protect", "define", "gc"}
SPECIFICATION Spec
INVARIANT NoDanglingPointer
INVARIANT SymbolUnique
INVARIANT FreeListExact
PROPERTY CollectsExactly
