\* rpc_psbt.py runs against three nodes that relay in every possible order.
SPECIFICATION Spec
CONSTANTS
    n0 = n0  n1 = n1  n2 = n2
    k0 = k0  k1 = k1  k2 = k2
    kw0 = kw0  kw1 = kw1  kw2 = kw2
    g1 = g1  g2 = g2  p2sh = p2sh  p2pkh = p2pkh  r1 = r1  r2 = r2
    o1 = o1  o2 = o2  u1 = u1  u2 = u2  u3 = u3  o4 = o4
    d = d
    None = None
    Keys <- MCKeys
    Coins <- MCCoins
    Dests = {d, r1, r2}
    Script <- MCScript
    Hold <- MCHold
INVARIANT TypeOK
INVARIANT ScriptPasses
PROPERTY ScriptCompletes
