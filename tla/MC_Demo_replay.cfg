SPECIFICATION LiveSpec
CONSTANTS
    r1 = r1  r2 = r2  r3 = r3
    NoRun = NoRun
    Builtin = {"attack", "normal"}
    Script <- MC_Script
    Recordings = {"attack"}
    Runs <- MC_TwoRuns
    MaxRecorded = 1
CHECK_DEADLOCK FALSE
INVARIANTS ListedIsOpen StopLeavesOne ReplayFaithful
PROPERTY ReplayEnds
