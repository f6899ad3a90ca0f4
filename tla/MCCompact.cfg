CONSTANT WORKSPACESIZE = 7
CONSTANT Text = {7, 100}
CONSTANT Heaps <- MCHeaps
SPECIFICATION FairSpec
INVARIANT Faithful
INVARIANT Dense
PROPERTY CompactionEnds
