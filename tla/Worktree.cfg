CONSTANTS
    w = w  x = x  u = u  d = d
    text = text  other = other  bin = bin
    Absent = Absent  NoDelta = NoDelta  NoDir = NoDir
    Dirs <- OneDir
    Words <- Names
    Paths <- AllPaths
    Unusual <- QuotedName
    Contents <- Texts
    BinaryContents <- Binary
    FirstTree <- Committed
    MaxSteps = 4
SPECIFICATION Spec
INVARIANTS WorktreeType RebuildIsExact PollLagsBehindEdits
