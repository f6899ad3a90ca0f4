CONSTANT Rows = 3
CONSTANT Columns = 3
CONSTANT TranscriptRows = 2
CONSTANT InputBufferSize = 3
CONSTANT Keys = {"enter", "backspace", "delete", "left", "right", "up", "down", "esc", "unknown", ";", "("}
CONSTANT MaxKeys = 4
CONSTANT MaxPrints = 1
SPECIFICATION FairSpec
INVARIANT TranscriptRight
INVARIANT DeliversUndisturbed
INVARIANT ScreenCurrent
PROPERTY EscapeStops
