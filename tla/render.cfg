\* Every graph of four nodes, and those of five that look like an
\* application's: stacks, projection, lights, draw list, frames end.
CONSTANTS
    Size = 5
    StackDepth = 4
    Scenes <- CheckedTrees
    InitialChanged = {TRUE}
    MaxLights = 3
    LightBudget = 3
    MaxFrames = 2
SPECIFICATION FairSpec
INVARIANTS TypeOK MatricesFollowThePath StacksInsideArrays DrawnThroughItsCamera ApplicationsAreDrawnRight LightsHaveTheirOwnUnit LightsAreUploaded LightsStandStill
PROPERTIES FrameShowsTheScene FrameEnds
\* The run ends after MaxFrames frames.
CHECK_DEADLOCK FALSE
