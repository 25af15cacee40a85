CONSTANTS
    t1 = t1  t2 = t2
    s1 = s1  s2 = s2  s3 = s3
    Unknown = Unknown  Absent = Absent  Corrupt = Corrupt
    Tabs = {t1}
    Seeds = {s1, s2, s3}
    Backup = s3
    Installed = Absent
    MaxIndex = 0
    MaxSent = 3
    ProbeLimit = 1
    KeepsTasks = TRUE
    Deeds = {"start", "restore"}
    Faults = {"fail", "corrupt", "cut", "reload"}
CHECK_DEADLOCK FALSE
SPECIFICATION FairSpec
INVARIANTS TypeOK LoadedSeedIsStored
PROPERTIES SeedKept NoEternalSpinner
