CONSTANTS
    Roots <- NestedRoots
    AllDirs <- Tree
    ScanDepth = 1
    ExcludedNames <- Vendor
    SkipDirs <- Vendor
    Debounce = 1
    NoDeadline = NoDeadline
    MaxChanges = 2
SPECIFICATION FairWatchSpec
INVARIANTS WatchType DiscoveryFindsOutermost WatchesAreManaged
 
