CONSTANTS
    t1 = t1  t2 = t2
    s1 = s1  s2 = s2  s3 = s3
    Unknown = Unknown  Absent = Absent  Corrupt = Corrupt
    Tabs = {t1}
    Seeds = {s1}
    Backup = s1
    Installed = s1
    MaxIndex = 1
    MaxSent = 2
    ProbeLimit = 0
    KeepsTasks = FALSE
    Deeds = {"create", "publish", "destroy"}
    Faults = {"slow", "reload", "cut"}
CHECK_DEADLOCK FALSE
SPECIFICATION FairSpec
INVARIANTS ShownIsKept
PROPERTIES BusyEnds
