----------------------------- MODULE Cosigning -----------------------------
(***************************************************************************)
(* What the PSBT workflow promises the parties that sign one transaction   *)
(* together (spec.md 1, 3, 4.5, 4.6), without the container: a document is *)
(* a transaction and, for each input, the keys that have signed it and     *)
(* whether it is final.  A signature appears only when a party that holds  *)
(* the key takes the document in hand; a signature is for one transaction  *)
(* and goes nowhere else; an input is final only with enough signatures,   *)
(* and once final it stays as it is; only a transaction all of whose       *)
(* inputs can be final is sent.                                            *)
(***************************************************************************)
EXTENDS Integers, Sequences, FiniteSets

CONSTANTS
    Nodes,      \* the parties
    Holder,     \* Holder[n]: the private keys of party n
    Script,     \* Script[c]: the keys that lock coin c, and how many must sign
    Slots,      \* where documents are kept
    None

VARIABLES
    tx,         \* tx[v]: the transaction of the document in slot v, None without one
    signers,    \* signers[v][i]: the keys that have signed input i
    final,      \* final[v][i]: input i has its final script
    sent        \* the transaction last extracted, None before

vars == <<tx, signers, final, sent>>

Required(c) == {Script[c].keys[j] : j \in DOMAIN Script[c].keys}

Enough(c, keys) == Cardinality(keys \cap Required(c)) >= Script[c].m

Init ==
    /\ tx = [v \in Slots |-> None]
    /\ signers = [v \in Slots |-> << >>]
    /\ final = [v \in Slots |-> << >>]
    /\ sent = None

\* The step writes slot w and no other.
Only(w) ==
    \A u \in Slots \ {w} :
        tx'[u] = tx[u] /\ signers'[u] = signers[u] /\ final'[u] = final[u]

\* A transaction nobody has signed: created, converted, or joined from
\* others, whose signatures were for those.
New(w) ==
    /\ Only(w)
    /\ tx'[w] # None
    /\ signers'[w] = [i \in DOMAIN tx'[w].ins |-> {}]
    /\ final'[w] = [i \in DOMAIN tx'[w].ins |-> FALSE]
    /\ UNCHANGED sent

\* Party n takes the document of slot v in hand and leaves the result in
\* w: what was signed stays signed, n adds signatures of its own keys at
\* most, and an input becomes final only with enough of them.  Copying a
\* document and finalizing it are the cases in which n adds nothing.
Cosign(v, w, n) ==
    /\ tx[v] # None
    /\ Only(w)
    /\ tx'[w] = tx[v]
    /\ DOMAIN signers'[w] = DOMAIN tx[v].ins /\ DOMAIN final'[w] = DOMAIN tx[v].ins
    /\ \A i \in DOMAIN tx[v].ins :
          LET c == tx[v].ins[i]
          IN  /\ signers[v][i] \subseteq signers'[w][i]
              /\ signers'[w][i] \subseteq signers[v][i] \cup (Holder[n] \cap Required(c))
              /\ final[v][i] => final'[w][i] /\ signers'[w][i] = signers[v][i]
              /\ final'[w][i] => final[v][i] \/ Enough(c, signers'[w][i])
    /\ UNCHANGED sent

\* Two documents of one transaction become one that has what either had.
Merge(v1, v2, w) ==
    /\ tx[v1] # None /\ tx[v2] = tx[v1]
    /\ Only(w)
    /\ tx'[w] = tx[v1]
    /\ signers'[w] = [i \in DOMAIN tx[v1].ins |-> signers[v1][i] \cup signers[v2][i]]
    /\ final'[w] = [i \in DOMAIN tx[v1].ins |-> final[v1][i] \/ final[v2][i]]
    /\ UNCHANGED sent

\* The transaction is sent when every input is final or can be made so.
Extract(v) ==
    /\ tx[v] # None
    /\ \A i \in DOMAIN tx[v].ins : final[v][i] \/ Enough(tx[v].ins[i], signers[v][i])
    /\ sent' = tx[v]
    /\ UNCHANGED <<tx, signers, final>>

Next ==
    \/ \E w \in Slots : New(w)
    \/ \E v, w \in Slots, n \in Nodes : Cosign(v, w, n)
    \/ \E v1, v2, w \in Slots : Merge(v1, v2, w)
    \/ \E v \in Slots : Extract(v)

Spec == Init /\ [][Next]_vars

=============================================================================
