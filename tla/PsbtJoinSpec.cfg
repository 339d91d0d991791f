\* What spec.md says joinpsbts does with the input records, against what it does.
SPECIFICATION Spec
CONSTANTS
    n0 = n0  n1 = n1  n2 = n2
    k0 = k0  k1 = k1  k2 = k2
    kw0 = kw0  kw1 = kw1  kw2 = kw2
    cMulti = cMulti  c0 = c0  c1 = c1  c2 = c2
    cX = cX  kx = kx
    d1 = d1  a = a  b = b
    None = None
    Nodes <- MCNodes
    Keys <- MCKeys
    Coins <- MCCoins
    Dests = {d1}
    Script <- MCScript
    Wallet <- MCWallet
    Slots <- MCSlots
    Offered <- OfferedSingles
    MaxInputs = 1
    MaxJoined = 2
    Literals <- NoLiterals
PROPERTY JoinKeepsRecords
