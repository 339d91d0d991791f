\* disablewallet.py against every build of the node: 4 judgements of the two
\* addresses, validateaddress with or without the wallet, 5 orders of checks.
SPECIFICATION Spec
CONSTANTS
    MainAddr = MainAddr
    TestAddr = TestAddr
    None = None
INVARIANT FailsOnlyWhenMiningFails
INVARIANT NoBlockToInvalidAddress
INVARIANT PassingBuildChecksAddressFirst
