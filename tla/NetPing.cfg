\* The per-peer assertions after the ping, on a network with no other
\* traffic at all.
SPECIFICATION Spec
CONSTANTS
    Peers = {p1, p2, p3}
    PingsAwaited = 2
    ChatterSize = 64
    MaxChatter = 0
INVARIANT EveryPeerAnswered
