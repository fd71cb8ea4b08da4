CONSTANTS
    r1 = r1  r2 = r2  w1 = w1  w2 = w2  c1 = c1  c2 = c2
    main_branch = main_branch
    Absent = Absent  NotTracked = NotTracked  NoDelta = NoDelta
    NoBranch = NoBranch  NoRepo = NoRepo
    Repos <- TwoRepos
    Branches <- OneBranch
    Files = {}
    Contents = {}
    BinaryContents = {}
    Heads <- OneHead
    Callers <- OneCaller
    Workers <- TwoWorkers
    MaxConcurrentReindex = 1
SPECIFICATION TrackedSpec
PROPERTY ServesQueue
