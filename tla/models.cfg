SPECIFICATION Spec
CONSTANTS
    Models = {m1, m2}
    Groups = {g1}
    None = None
    MaxMpuGroups = 2
    MayFail = TRUE
    MaxRef = 3
SYMMETRY TableSymmetry
INVARIANTS TypeOK OpenModelsBacked AttachedExclusively
