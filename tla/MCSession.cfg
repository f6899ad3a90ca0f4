CONSTANT Levels = 8
CONSTANT MaxCalls = 4
CONSTANT MaxBreak = 3
CONSTANT MaxTyped = 1
CONSTANT Name = {f, g, h}
CONSTANT NoCode = none
CONSTANT Spare = spare
CONSTANT CODESIZE = 6
CONSTANT Lengths = {1, 3}
CONSTANT Target = {t1, t2}
CONSTANT MaxForms = 3
CONSTANT MaxStrings = 3
CONSTANT MaxKinds = 2
CONSTANT Function = {f, h}
CONSTANT Closures = {h}
CONSTANT NoName = noname
CONSTANT TRACEMAX = 2
CONSTANT BACKTRACESIZE = 3
CONSTANT Modulus = 4
CONSTANT Nested = 3
CONSTANT MaxDepth = 2
CONSTANT MaxChanges = 3
SPECIFICATION PartSpec
CHECK_DEADLOCK FALSE
INVARIANT HandlersNest
INVARIANT BreakCanLeave
INVARIANT FlagsReturn
INVARIANT CodeIntact
INVARIANT StreamsDeliver
PROPERTY CompactionEnds
INVARIANT TracesTell
