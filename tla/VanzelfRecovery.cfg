CONSTANTS
    r1 = r1  w1 = w1  a = a  b = b
    f1 = f1  main_branch = main_branch  topic = topic
    ticker = ticker  flusher = flusher  rescan = rescan
    scheduler = scheduler  handler = handler  refresher = refresher
    Absent = Absent  NotTracked = NotTracked  NoDelta = NoDelta
    NoBranch = NoBranch  NoRepo = NoRepo  NoPoller = NoPoller
    NoListing = NoListing
    MainBranch = main_branch  Heads <- Commits  Callers <- AllCallers
    Repos <- OneRepo
    Files <- OneFile
    Contents <- OneText
    BinaryContents = {}
    Branches <- OneBranch
    Workers <- OneWorker
    MaxConcurrentReindex = 1
    Ticker = ticker
    Flushers = {}
    Rescans = {}
    Schedulers <- Scheduler
    Handlers = {}
    Refreshers = {}
    Unborn = {}
    FirstTrees <- OneTree
    FirstCommits <- EmptyTree
    Latecomers = {}
    GapMode = "stale"
    MaxDirtyFiles = 1
    MaxDeltaBytes = 1
    MaxEdits = 0
    MaxCommits = 2
    MaxMoves = 0
    GitMayFail = FALSE
    IndexMayFail = FALSE
    ZoektMayFail = FALSE
    MaxCrashes = 1
SPECIFICATION FairRestartSpec
PROPERTIES StatusSettles IndexCatchesUp
