SPECIFICATION FairSpec
CONSTANTS
    Replicas = {r1, r2}
    Commands = {c1}
    MaxOpen = 2
INVARIANTS
    NoConnectionLeaks
    ServingHasStreams
PROPERTIES
    ComesToConsume
    ShutdownEnds
