\* Files of MaxLines lines after their vertices, with a library among them,
\* shown beside each primitive frame after frame.  After undefined behaviour
\* nothing is said of the program any more: it may stop.
CONSTANTS
    Points <- MCPoints
    Faces <- MCFaces
    MaterialNames = {"a", "b"}
    Libraries <- MCLibraries
    Prelude = 4
    MaxLines = 4
    Shapes <- MCShapes
    Heap <- MCHeap
    MixedLines = 2
    FrameModulus = 2
SPECIFICATION FairSpec
INVARIANTS TypeOK BreaksExactlyAtFaults FacesAreAsWritten MeshOwnsItsMaterials MaterialsAreAsWritten PrimitivesAreClosed
PROPERTIES ConvexFacesAreShown PrimitivesInTheirMaterial CountersAreOfTheFrame

CHECK_DEADLOCK FALSE
