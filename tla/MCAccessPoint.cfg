CONSTANT Station = {c1, c2}
CONSTANT Free = Free
CONSTANT MAX_IP = 2
CONSTANT Clock = 8
CONSTANT Unit = 2
CONSTANT LeaseTime = 2
CONSTANT MaxInFlight = 2
CONSTANT Faults = {"repeat", "reboot", "release", "restart"}
SPECIFICATION Spec
INVARIANT LeasesHold
CHECK_DEADLOCK FALSE
SYMMETRY StationSymmetry
