\* feature_nulldummy.py against nodes that activate at block 432 and up to two blocks off.
SPECIFICATION Spec
CONSTANTS
    NullDummyHeights = {430, 431, 432, 433, 434}
    Dip4Heights = {430, 431, 432, 433, 434}
    Coinbase = Coinbase
    None = None
INVARIANT PassesOnCorrectNode
INVARIANT DetectsWrongActivation
INVARIANT TestTracksChain
