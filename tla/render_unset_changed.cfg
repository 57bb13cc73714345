\* Light(string) leaves Changed as it finds it.
CONSTANTS
    Size = 2
    StackDepth = 2
    Scenes <- LightTrees
    InitialChanged = {TRUE, FALSE}
    MaxLights = 1
    LightBudget = 1
    MaxFrames = 1
SPECIFICATION Spec
INVARIANT LightsAreUploaded
\* The run ends after MaxFrames frames.
CHECK_DEADLOCK FALSE
