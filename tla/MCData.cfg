CONSTANT Bits = 4
CONSTANT Mantissa = 2
CONSTANT MaxArgs = 3
CONSTANT Float = float
CONSTANT Other = other
CONSTANT Tee = tee
CONSTANT Error = error
CONSTANT Char = {1, 2}
CONSTANT Quote = 1
CONSTANT Backslash = 2
CONSTANT MaxLength = 5
CONSTANT Value = {0, 1}
CONSTANT IntBits = 2
CONSTANT MaxSize = 6
CONSTANT MaxRank = 3
CONSTANT MaxRead = 3
CONSTANT Nil = nil
CONSTANT MaxCells = 5
CONSTANT Key = {1, 2}
CONSTANT Letters = {"a"}
CONSTANT MaxText = 3
CONSTANT MaxReads = 2
CONSTANT Atom = {a, b}
CONSTANT MaxOps = 1
CONSTANT MaxTurns = 3
CONSTANT WordBits = 5
CONSTANT Radix = 5
CONSTANT FirstLetter = 3
CONSTANT PackLength = 2
CONSTANT ChunkLength = 2
CONSTANT Base = 3
CONSTANT MaxName = 3
CONSTANT MaxDigits = 5
CONSTANT MaxTokens = 2
CONSTANT ppwidth = 13
CONSTANT MaxEdits = 2
CONSTANT Literals = {"y"}
CONSTANT MaxItems = 2
CONSTANT MaxOutput = 12
CONSTANT SigDigits = 3
SPECIFICATION Spec
CHECK_DEADLOCK FALSE
INVARIANT NumbersAreExact
INVARIANT StringsAreText
INVARIANT ListsHold
INVARIANT ReadsWhatWasPrinted
PROPERTY ReadingEnds
