\* A careful user, who may be refused at first: two breakdowns, one long freeze.
CONSTANTS
    MaxSocket = 3
    MaxFaults = 2
    MaxFreezes = 1
    SilenceLimit = 2
    Refused = {"LOGIN"}
    Careful = TRUE
SPECIFICATION Spec
INVARIANTS TypeOK OneVoice LeftIsLeft SpeaksInRoom
PROPERTIES NoFalseDeath BackInRoom
CHECK_DEADLOCK FALSE
