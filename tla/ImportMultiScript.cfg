\* wallet_importmulti.py, run against the wallet of Wallet.tla.
SPECIFICATION Spec
CONSTANTS
    None = None
    IndexBits = 21
    MaxSpan = 1000000
    CoinbaseMaturity = 100
INVARIANT TypeOK
INVARIANT ScriptPasses
