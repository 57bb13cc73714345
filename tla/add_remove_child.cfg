\* The showcase with the numbers of the code, on Linux.
CONSTANTS
    Linux = TRUE
    FrameModulus = 220
    Most = 10
    Every = 10
SPECIFICATION FairSpec
INVARIANTS TypeOK ShowsTheCubes NoUpdateIsLostOrRepeated
PROPERTIES CubesComeAndGo FramesGoOn
\* Nothing happens after the application has ended.
CHECK_DEADLOCK FALSE
