SPECIFICATION Spec
CONSTANTS
    Models = {m1}
    Groups = {g1}
    None = None
    MaxMpuGroups = 1
    MayFail = FALSE
    MaxRef = 1
INVARIANT DownloadDelivers
