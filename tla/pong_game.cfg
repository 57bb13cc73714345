\* The speeds, steps and reach of the code in a smaller court.
CONSTANTS
    Linux = FALSE
    FrameModulus = 1
    Speed = 6
    Top = 45
    Side = 56
    BatStep = 12
    Reach = 18
    SurelyMissed = 28
SPECIFICATION FairSpec
INVARIANTS TypeOK BallStaysInCourt BatStaysInCourt ComputerIsUnbeatable
PROPERTIES BallComesBack
\* Nothing happens after the application has ended.
CHECK_DEADLOCK FALSE
