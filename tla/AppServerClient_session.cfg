CHECK_DEADLOCK FALSE
SPECIFICATION FairClientSpec
CONSTANTS
    MaxPipe = 2
    ClientFaults = {"burst", "refuse", "garbage", "exit", "close"}
INVARIANTS
    AuthenticatedIsReady
PROPERTIES
    EveryWaitEnds
