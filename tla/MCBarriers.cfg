SPECIFICATION FairSpec
CHECK_DEADLOCK FALSE
CONSTANTS
    Launches <- MCLaunches
    Episodes = 2
INVARIANTS
    TypeOK
    NothingLeftOver
    CountRestored
    FirstEpisodeWaits
PROPERTIES
    ImplementsBarrier
    AllFinish
