----------------------------- MODULE MCPsbtRpc -----------------------------
(***************************************************************************)
(* The world of rpc_psbt.py for TLC: three nodes, the coins the test funds *)
(* before it builds PSBTs on them, and the keys that unlock them.          *)
(***************************************************************************)
EXTENDS PsbtRpc, TLC

CONSTANTS
    n0, n1, n2,         \* self.nodes[0..2]
    k0, k1, k2,         \* pubkey0..2, one per node, of the 2-of-3 multisig
    kw0, kw1, kw2,      \* a wallet key of each node, behind its own addresses
    cMulti,             \* txid:p2sh_pos, the multisig output
    c0, c1, c2,         \* an output paying node 0, node 1 (txid1:vout1), node 2 (txid2:vout2)
    cX, kx,             \* the outpoint unknown_psbt spends: of no transaction, no wallet's key
    d1,                 \* the output of every transaction built
    a, b                \* two variables of the test

MCNodes == {n0, n1, n2}
MCKeys  == {k0, k1, k2, kw0, kw1, kw2, kx}
MCCoins == {cMulti, c0, c1, c2, cX}
MCSlots == {a, b}

Pkh(k) == [template |-> "pkh", keys |-> <<k>>, m |-> 1]

MCScript ==
    cMulti :> [template |-> "sh_multi", keys |-> <<k0, k1, k2>>, m |-> 2]
    @@ c0 :> Pkh(kw0) @@ c1 :> Pkh(kw1) @@ c2 :> Pkh(kw2) @@ cX :> Pkh(kx)

\* Node 0 paid for every coin, so its wallet has all the transactions; the
\* multisig address was added to node 1 alone (addmultisigaddress).
MCWallet ==
    n0 :> [keys |-> {k0, kw0}, scripts |-> {},       txs |-> {cMulti, c0, c1, c2}]
    @@ n1 :> [keys |-> {k1, kw1}, scripts |-> {cMulti}, txs |-> {cMulti, c1}]
    @@ n2 :> [keys |-> {k2, kw2}, scripts |-> {},       txs |-> {c2}]

\* The two universes the runs build transactions from.
OfferedMultisig == {cMulti}
OfferedSingles  == {c1, c2}

\* The texts the test writes out: unknown_psbt in one run; in another the
\* same with its input map cut off, which no reader accepts, and what is no
\* base64; and none at all.
ValidLiterals   == {UnknownPsbt(cX, d1)}
InvalidLiterals == {[base64 |-> [UnknownPsbt(cX, d1).base64 EXCEPT !.inputs = << >>]], NotBase64}
NoLiterals      == {}

\* The test's variables are interchangeable.
SlotSymmetry == Permutations(MCSlots)

=============================================================================
