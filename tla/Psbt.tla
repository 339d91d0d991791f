-------------------------------- MODULE Psbt --------------------------------
(***************************************************************************)
(* The partially-signed-transaction engine as values and operators on      *)
(* them: the container, the Signer, the Combiner, the Joiner, the          *)
(* Finalizer and the Extractor.  The engine's code is not part of the      *)
(* repository's sources (they are the functional tests that drive it), so  *)
(* every operator here is written from spec.md sections 3 and 4 and from   *)
(* what the assertions of test/functional/rpc_psbt.py show of it.          *)
(*                                                                         *)
(* Data is abstracted to what the properties tell apart:                   *)
(*  - an outpoint is a member of Coins, an output a member of Dests;       *)
(*  - previous-output data and redeem scripts are determined by the coin   *)
(*    they belong to, so a record only says whether they are present;      *)
(*  - a signature by key k is the message it commits to (the skeleton of   *)
(*    the transaction, sighash ALL), stored under k: signatures are        *)
(*    deterministic, and only the holder of k creates one.                 *)
(***************************************************************************)
EXTENDS Integers, Sequences, FiniteSets, SequencesExt

CONSTANTS
    Keys,       \* key pairs, named by their public key
    Coins,      \* outpoints that exist on the chain
    Dests,      \* (script, amount) pairs a transaction may pay to
    Script,     \* Script[c]: the template locking coin c
    None        \* an absent optional field

(***************************************************************************)
(* The closed set of script templates (spec.md 9): pay-to-pubkey-hash with *)
(* one key, and m-of-n multisig wrapped in a script hash, whose redeem     *)
(* script a signer must be given.  keys is in the script's declared order. *)
(***************************************************************************)
Templates == {"pkh", "sh_multi"}

ASSUME ScriptsWellFormed ==
    \A c \in Coins :
        /\ Script[c].template \in Templates
        /\ Script[c].keys \in Seq(Keys) /\ IsInjective(Script[c].keys)
        /\ Script[c].m \in 1..Len(Script[c].keys)
        /\ Script[c].template = "pkh" => Len(Script[c].keys) = 1

ScriptKeys(c) == ToSet(Script[c].keys)
Wrapped(c)    == Script[c].template = "sh_multi"

-----------------------------------------------------------------------------
(* Container (spec.md 3) *)

\* What identifies "the same transaction", and what a signature commits to.
Skeleton(p) == [ins |-> p.ins, outs |-> p.outs]

\* An input record with no metadata at all.  unknown holds the entries
\* whose type tag the engine does not know, by tag and key (spec.md 4.3).
Blank == [utxo |-> FALSE, redeem |-> FALSE, sigs |-> << >>, final |-> None,
          unknown |-> << >>]

\* No field of an output record is told apart here but the unknown ones.
BlankOut == [unknown |-> << >>]

\* A PSBT is created complete: the skeleton, one blank record per input
\* and per output, and no unknown entry in its global map.
NewPsbt(ins, outs) ==
    [ins |-> ins, outs |-> outs, unknown |-> << >>,
     inputs  |-> [i \in DOMAIN ins |-> Blank],
     outputs |-> [j \in DOMAIN outs |-> BlankOut]]

\* Results of operations that can fail carry the error kind (spec.md 7).
Ok(p)    == [ok |-> TRUE, psbt |-> p]
Err(why) == [ok |-> FALSE, err |-> why]

-----------------------------------------------------------------------------
(* Signer (spec.md 4.5) *)

\* The script of the coin can be worked out from the record alone.
Solvable(c, r) == r.utxo /\ (Wrapped(c) => r.redeem)

\* The signatures present meet the template's threshold.
Satisfied(c, r) ==
    Solvable(c, r) /\ Cardinality(DOMAIN r.sigs \cap ScriptKeys(c)) >= Script[c].m

\* (mutant) the signatures of this wallet replace the ones already there.
SignInputAfresh(p, i, privkeys) ==
    LET c   == p.ins[i]
        r   == p.inputs[i]
        new == ScriptKeys(c) \cap privkeys
    IN  IF r.final # None \/ ~Solvable(c, r) THEN r
        ELSE [r EXCEPT !.sigs = [k \in new |-> Skeleton(p)]]

\* One signature per required key that is available, keyed by the key:
\* inputs without previous-output data, and finalized ones, are left alone.
SignInput(p, i, privkeys) ==
    LET c   == p.ins[i]
        r   == p.inputs[i]
        new == (ScriptKeys(c) \cap privkeys) \ DOMAIN r.sigs
    IN  IF r.final # None \/ ~Solvable(c, r) THEN r
        ELSE [r EXCEPT !.sigs = [k \in DOMAIN r.sigs \cup new |->
                                    IF k \in new THEN Skeleton(p) ELSE r.sigs[k]]]

Sign(p, privkeys) ==
    [p EXCEPT !.inputs = [i \in DOMAIN p.ins |-> SignInput(p, i, privkeys)]]

-----------------------------------------------------------------------------
(* Finalizer and Extractor (spec.md 4.6) *)

InputState(c, r) ==
    CASE r.final # None      -> "Finalized"
      [] Satisfied(c, r)     -> "Satisfiable"
      [] DOMAIN r.sigs # {}  -> "PartiallySigned"
      [] OTHER               -> "Unsigned"

\* (mutant) the signatures are written last key first.
FinalScriptReversed(c, r) ==
    LET have == Reverse(SelectSeq(Script[c].keys, LAMBDA k : k \in DOMAIN r.sigs))
    IN  [j \in 1..Script[c].m |-> [key |-> have[j], msg |-> r.sigs[have[j]]]]

\* The unlock data: the first m signatures in the key order of the script.
FinalScript(c, r) ==
    LET have == SelectSeq(Script[c].keys, LAMBDA k : k \in DOMAIN r.sigs)
    IN  [j \in 1..Script[c].m |-> [key |-> have[j], msg |-> r.sigs[have[j]]]]

FinalizeInput(c, r) ==
    IF InputState(c, r) = "Satisfiable" THEN [r EXCEPT !.final = FinalScript(c, r)]
    ELSE r

Finalize(p) ==
    [p EXCEPT !.inputs = [i \in DOMAIN p.ins |-> FinalizeInput(p.ins[i], p.inputs[i])]]

IsComplete(p) == \A i \in DOMAIN p.inputs : p.inputs[i].final # None

\* The plain transaction: the skeleton and the unlock data, nothing else.
RawTx(p) ==
    [ins |-> p.ins, outs |-> p.outs,
     scriptSig |-> [i \in DOMAIN p.ins |->
                       IF p.inputs[i].final = None THEN << >> ELSE p.inputs[i].final]]

Extract(p) == IF IsComplete(p) THEN Ok(RawTx(p)) ELSE Err("incomplete")

-----------------------------------------------------------------------------
(* Combiner (spec.md 4.4) *)

FieldConflict(x, y) == x # None /\ y # None /\ x # y

\* Two maps hold different values under one key; their union otherwise.
Clash(f, g) == \E k \in DOMAIN f \cap DOMAIN g : f[k] # g[k]
Both(f, g)  == [k \in DOMAIN f \cup DOMAIN g |-> IF k \in DOMAIN f THEN f[k] ELSE g[k]]

\* (mutant) two different final scripts are no conflict: the first is kept.
SignatureConflict(r, s) == Clash(r.sigs, s.sigs) \/ Clash(r.unknown, s.unknown)

InputConflict(r, s) ==
    \/ FieldConflict(r.final, s.final)
    \/ Clash(r.sigs, s.sigs)
    \/ Clash(r.unknown, s.unknown)

\* Field-by-field union of two records of the same input.
MergeInput(r, s) ==
    [utxo    |-> r.utxo \/ s.utxo,
     redeem  |-> r.redeem \/ s.redeem,
     sigs    |-> Both(r.sigs, s.sigs),
     final   |-> IF r.final # None THEN r.final ELSE s.final,
     unknown |-> Both(r.unknown, s.unknown)]

MergeOutput(r, s) == [unknown |-> Both(r.unknown, s.unknown)]

Conflicting(a, b) ==
    \/ \E i \in DOMAIN a.inputs : InputConflict(a.inputs[i], b.inputs[i])
    \/ \E j \in DOMAIN a.outputs : Clash(a.outputs[j].unknown, b.outputs[j].unknown)
    \/ Clash(a.unknown, b.unknown)

CombinePair(a, b) ==
    CASE Skeleton(a) # Skeleton(b) -> Err("mismatch")
      [] Conflicting(a, b)         -> Err("conflict")
      [] OTHER -> Ok([a EXCEPT
            !.unknown = Both(a.unknown, b.unknown),
            !.inputs  = [i \in DOMAIN a.inputs |-> MergeInput(a.inputs[i], b.inputs[i])],
            !.outputs = [j \in DOMAIN a.outputs |-> MergeOutput(a.outputs[j], b.outputs[j])]])

\* An error, once met, is the result.
Combine(psbts) ==
    IF psbts = << >> THEN Err("empty")
    ELSE FoldLeft(LAMBDA acc, p : IF acc.ok THEN CombinePair(acc.psbt, p) ELSE acc,
                  Ok(Head(psbts)), Tail(psbts))

-----------------------------------------------------------------------------
(* Joiner (spec.md 4.4; rpc_psbt.py asserts that a joined input has lost   *)
(* its final script: a signature commits to the old, smaller transaction)  *)

\* (mutant) the record is taken over as it is, signatures included.
KeepSigned(r) == r

Unsign(r) == [r EXCEPT !.sigs = << >>, !.final = None]

SharedInput(psbts) ==
    \E i, j \in DOMAIN psbts : i # j /\ ToSet(psbts[i].ins) \cap ToSet(psbts[j].ins) # {}

\* The skeletons, the output records and the global unknown entries of the
\* PSBTs, one after the other.
Joined(psbts, inputs) ==
    [ins     |-> FlattenSeq([i \in DOMAIN psbts |-> psbts[i].ins]),
     outs    |-> FlattenSeq([i \in DOMAIN psbts |-> psbts[i].outs]),
     unknown |-> FoldLeft(Both, << >>, [i \in DOMAIN psbts |-> psbts[i].unknown]),
     inputs  |-> inputs,
     outputs |-> FlattenSeq([i \in DOMAIN psbts |-> psbts[i].outputs])]

\* (mutant) only the records of the first PSBT are taken over.
JoinFirstRecords(psbts) ==
    IF SharedInput(psbts) THEN Err("shared_input")
    ELSE Ok(Joined(psbts, [j \in DOMAIN psbts[1].inputs |-> Unsign(psbts[1].inputs[j])]))

Join(psbts) ==
    IF SharedInput(psbts) THEN Err("shared_input")
    ELSE Ok(Joined(psbts, FlattenSeq([i \in DOMAIN psbts |->
                [j \in DOMAIN psbts[i].inputs |-> Unsign(psbts[i].inputs[j])]])))

-----------------------------------------------------------------------------
(* The wallet as Updater and Signer: what walletprocesspsbt and            *)
(* walletcreatefundedpsbt do to a PSBT.  A wallet w is a record of the     *)
(* keys it holds, the redeem scripts it knows (by coin) and the coins      *)
(* whose transaction it has (spec.md 4.5, 5: the store is only read here). *)

\* Previous-output data comes from a transaction the wallet has, the redeem
\* script from the wallet's scripts once the output is known.
UpdateInput(w, c, r) ==
    LET known == r.utxo \/ c \in w.txs
    IN  IF r.final # None THEN r
        ELSE [r EXCEPT !.utxo = known,
                       !.redeem = @ \/ (known /\ Wrapped(c) /\ c \in w.scripts)]

\* Update, then sign with the wallet's keys where asked to; an input that the
\* signatures now satisfy gets its final script at once.
FillPsbt(w, p, sign) ==
    LET updated == [p EXCEPT !.inputs =
                       [i \in DOMAIN p.ins |-> UpdateInput(w, p.ins[i], p.inputs[i])]]
    IN  IF sign THEN Finalize(Sign(updated, w.keys)) ELSE updated

-----------------------------------------------------------------------------
(* The node: the script check a broadcast transaction must pass *)

KeyIndex(c, k) == CHOOSE n \in DOMAIN Script[c].keys : Script[c].keys[n] = k

\* The unlock data of input i verifies: m signatures over this very
\* transaction, by keys of the script, in the order of the script.
ScriptSigValid(tx, i) ==
    LET c == tx.ins[i]
        s == tx.scriptSig[i]
    IN  /\ Len(s) = Script[c].m
        /\ \A j \in DOMAIN s : /\ s[j].key \in ScriptKeys(c)
                               /\ s[j].msg = [ins |-> tx.ins, outs |-> tx.outs]
        /\ \A j, k \in DOMAIN s : j < k => KeyIndex(c, s[j].key) < KeyIndex(c, s[k].key)

=============================================================================
