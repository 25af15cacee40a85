CONSTANTS
    t1 = t1  t2 = t2
    s1 = s1  s2 = s2  s3 = s3
    Unknown = Unknown  Absent = Absent  Corrupt = Corrupt
    Tabs = {t1}
    Seeds = {s3}
    Backup = s3
    Installed = Absent
    MaxIndex = 0
    MaxSent = 2
    ProbeLimit = 1
    KeepsTasks = TRUE
    Deeds = {"restore", "create"}
    Faults = {}
CHECK_DEADLOCK FALSE
SPECIFICATION Spec
PROPERTIES FreshIndex
