CONSTANTS
    Persistent = TRUE
    c1 = c1
    c2 = c2
    x = x
    Null = Null
    Absent = Absent
    Malformed = Malformed
    NoOne = NoOne
    Clients <- MCClients
    Keys <- MCOneKey
    Raws <- MCRaws
    MaxRevision = 2
    MaxTemps = 1
SPECIFICATION Spec
INVARIANT RejectedNotOnDisk
