\* Three connectors: winners, losers and a stop of the network.
CONSTANT BatchSize = 3
SPECIFICATION FairSpec
INVARIANTS
    AnsweredOnce
    DecidedOnce
    EndedIsStopped
PROPERTY BatchCompletes
CHECK_DEADLOCK FALSE
