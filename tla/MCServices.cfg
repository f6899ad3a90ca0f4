CONSTANT kRequestBufferSize = 6
CONSTANT kMaxHeaderLine = 1
CONSTANT kClientTimeout = 1
CONSTANT MaxSent = 7
CONSTANT Window = 2
CONSTANT MAX_DNS_MSG_SIZE = 8
CONSTANT Header = 1
CONSTANT MaxLabel = 2
CONSTANT MaxName = 4
CONSTANT Trailer = 1
CONSTANT Answer = 2
CONSTANT Byte = {0, 1, 2, 3}
CONSTANT Network = {n1, n2}
CONSTANT NoNetwork = none
CONSTANT kWifiMaxScanResults = 2
CONSTANT MaxMapping = 2
CONSTANT Address = {a1, a2}
CONSTANT Unset = unset
CONSTANT nil = nil
CONSTANT Char = {37, 50, 66, 38, 58, 32}
CONSTANT Quote = 34
CONSTANT Backslash = 92
CONSTANT MaxLength = 3
CONSTANT kWriteChunkSize = 2
CONSTANT Written = {1, 2}
CONSTANT MaxWritten = 3
CONSTANT Pin = {25, 26}
CONSTANT Analog = {26}
CONSTANT Pwm = {25, 26}
CONSTANT Low = 0
CONSTANT High = 1
CONSTANT INPUT = 0
CONSTANT OUTPUT = 1
CONSTANT INPUT_PULLUP = 2
CONSTANT INPUT_PULLDOWN = 3
CONSTANT Modulus = 16
CONSTANT Longest = 9
CONSTANT MaxPoll = 3
CONSTANT Thousand = 5
CONSTANT Bits = {10, 12}
CONSTANT Register = {1, 2}
CONSTANT Bit = {0, 1}
CONSTANT Width = 2
CONSTANT Height = 2
CONSTANT Colour = {0, 65535, 34881}
CONSTANT COLOR_BLACK = 0
CONSTANT COLOR_WHITE = 65535
CONSTANT Key = {65, 161}
CONSTANT Modifier = {161}
CONSTANT MaxDrawn = 2
CONSTANT MaxKeys = 4
CONSTANT Word = {1, 2}
CONSTANT MaxObjects = 4
CONSTANT MaxArgs = 8
CONSTANT PartLength = 2
CONSTANT NameLength = 3
CONSTANT MaxDepth = 4
CONSTANT MaxGlobals = 3
SPECIFICATION Spec
INVARIANT HandsOutWholeRequests
INVARIANT NetworkAnswers
INVARIANT DevicesServe
INVARIANT NamesTell
PROPERTY ConnectionsEnd
CHECK_DEADLOCK FALSE
