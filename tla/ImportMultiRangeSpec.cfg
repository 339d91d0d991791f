\* spec.md 4.1 on the messages of a refused range, against wallet_importmulti.py.
SPECIFICATION Spec
CONSTANTS
    None = None
    IndexBits = 21
    MaxSpan = 1000000
    CoinbaseMaturity = 100
INVARIANT RangeMessageTellsCause
