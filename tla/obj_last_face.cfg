\* A file whose last line is a face and does not end in a newline.
CONSTANTS
    Points <- MCPoints
    Faces <- MCSmallFaces
    MaterialNames = {"a"}
    Libraries = {}
    Prelude = 4
    MaxLines = 2
    Shapes <- MCShapes
    Heap <- MCHeap
    MixedLines = 0
    FrameModulus = 2
SPECIFICATION FairSpec
PROPERTIES LoadReturns
