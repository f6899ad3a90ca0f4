CONSTANT WORKSPACESIZE = 3
CONSTANT Uses = {"pair", "text", "array", "symbol", "rplac", "protect"}
SPECIFICATION FairSpec
PROPERTY CollectionEnds
PROPERTY RefinesMemory
