CONSTANTS
    blank = blank  old = old  new = new  newSpaced = newSpaced
    tooLong = tooLong  pic = pic
    Keys = {me}
    Owner = me
    Names = {"profile", "avatar"}
    Contents <- MCContents
    Size <- MCSize
    Hash <- MCHash
    EntryBytes = 1
    MaxSlotBytes = 1
    MaxStateBytes = 10
    MaxFuture = 1
    None = None
    Texts <- MCTexts
    Blank = blank
    Trim <- MCTrim
    Chars <- MCChars
    MaxNameChars = 2
    MaxBioChars = 2
    Typed <- MCTyped
    Tombstone = Tombstone
    Pictures = {pic}
    Before <- MCBefore
    Elsewhere <- MCElsewhere
    Faults = {"slow", "refuse"}
    MaxSent = 2
    MaxStates = 2
    MaxTime = 2
SPECIFICATION Spec
INVARIANTS TypeOK LastWordWins 
PROPERTIES UntouchedWasPublished
CHECK_DEADLOCK FALSE
