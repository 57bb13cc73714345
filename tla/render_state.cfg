\* Two states, any sequence of calls; merging as the code supports it.
CONSTANTS
    States = {s1, s2}
    Capabilities = {lighting, light0, light1}
    Materials = {m}
    Null = Null
    EnablesOnly = TRUE
SPECIFICATION Spec
SYMMETRY Interchangeable
INVARIANTS TypeOK NeverBoth
PROPERTIES AppliesAsDocumented
\* After undefined behaviour nothing is claimed and nothing is enabled.
CHECK_DEADLOCK FALSE
