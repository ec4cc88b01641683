SPECIFICATION FairSpec
CONSTANTS
    r1 = r1
    r2 = r2
    r3 = r3
    Requests = {r1, r2, r3}
    Boot = Boot
    Settings <- Scenarios
INVARIANTS
    TypeOK
    OneWorker
    TaskHasWorker
    QuietAgrees
    NoOrphanServer
    HostedServer
    OffloadedIsGone
PROPERTIES
    DeletingEnds
    RestartEnds
