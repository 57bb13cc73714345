\* Merging states that disable something.
CONSTANTS
    States = {s1, s2}
    Capabilities = {lighting, light0}
    Materials = {m}
    Null = Null
    EnablesOnly = FALSE
SPECIFICATION Spec
PROPERTY MergeTakesDisables
CHECK_DEADLOCK FALSE
