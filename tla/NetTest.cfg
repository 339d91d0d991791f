\* run_test from its first ping to _test_getnodeaddresses: the connections
\* of three nodes, and _test_getnettotals with one message of another kind
\* passing at any time.
SPECIFICATION RunSpec
CONSTANTS
    Setup <- MCSetup
    MaxAutoPings = 1
    LocalServices = {0, 2, 10}
    MockTime = 1417713337
    NumAddrs = 3
    RequestCount = 2
    LargeRequestCount = 4
    MaxCollisions = 2
    PingsAwaited = 2
    ChatterSize = 64
    MaxChatter = 1
INVARIANT TypeOK
INVARIANT SnapshotsBracketPeers
INVARIANT TotalsWaitsReturn
INVARIANT ConnectionWaitsReturn
PROPERTY AssertionsFailOnlyOverRaces
PROPERTY AddressAssertionsNeedRoom
PROPERTY SwitchedOffNodeCloses
