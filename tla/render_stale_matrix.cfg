\* Any graph: what VisitTransform leaves in OpenGL.
CONSTANTS
    Size = 4
    StackDepth = 4
    Scenes <- AllTrees
    InitialChanged = {TRUE}
    MaxLights = 3
    LightBudget = 3
    MaxFrames = 1
SPECIFICATION Spec
INVARIANT DrawnWhereItBelongs
\* The run ends after MaxFrames frames.
CHECK_DEADLOCK FALSE
