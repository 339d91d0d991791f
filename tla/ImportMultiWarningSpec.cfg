\* spec.md 4.2 step 6 on the all-keys warning, against wallet_importmulti.py.
SPECIFICATION Spec
CONSTANTS
    None = None
    IndexBits = 21
    MaxSpan = 1000000
    CoinbaseMaturity = 100
INVARIANT WarnsOfKeysWithoutFlag
