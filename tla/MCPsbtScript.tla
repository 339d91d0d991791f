---------------------------- MODULE MCPsbtScript ----------------------------
(***************************************************************************)
(* The keys and scripts of rpc_psbt.py for TLC.  Every address of a node   *)
(* stands for one key of its wallet; the 2-of-3 multisig is over a key of  *)
(* each node, and node 1 alone was given its script (addmultisigaddress).  *)
(***************************************************************************)
EXTENDS PsbtScript, TLC

CONSTANTS
    k0, k1, k2,         \* pubkey0..2 of the multisig
    kw0, kw1, kw2       \* the key behind the other addresses of each node

MCKeys  == {k0, k1, k2, kw0, kw1, kw2}
MCCoins == {g1, g2, p2sh, p2pkh, r1, r2, o1, o2, u1, u2, u3, o4}

Pkh(k) == [template |-> "pkh", keys |-> <<k>>, m |-> 1]

MCScript ==
    p2sh :> [template |-> "sh_multi", keys |-> <<k0, k1, k2>>, m |-> 2]
    @@ g1 :> Pkh(kw0) @@ g2 :> Pkh(kw0)
    @@ p2pkh :> Pkh(kw1) @@ r1 :> Pkh(kw1) @@ r2 :> Pkh(kw1)
    @@ o1 :> Pkh(kw1) @@ o2 :> Pkh(kw2)
    @@ u1 :> Pkh(kw1) @@ u2 :> Pkh(kw1) @@ u3 :> Pkh(kw1) @@ o4 :> Pkh(kw1)

MCHold ==
    n0 :> [keys |-> {k0, kw0}, scripts |-> {}]
    @@ n1 :> [keys |-> {k1, kw1}, scripts |-> {p2sh}]
    @@ n2 :> [keys |-> {k2, kw2}, scripts |-> {}]

=============================================================================
