----------------------------- MODULE PsbtCodec -----------------------------
(***************************************************************************)
(* The serialized PSBT (spec.md 4.3, 6): what the RPCs of rpc_psbt.py take *)
(* and return in place of the container of module Psbt.  The bytes are a   *)
(* magic prefix, one global map, one map per input and one per output; a   *)
(* map is a set of entries, each a type tag, a key and a value, so that    *)
(* the order in which a writer emits them makes no difference: the layout  *)
(* is canonical.  The text form wraps the bytes in base64.                 *)
(*                                                                         *)
(* Reading is not the inverse of writing by construction: the reader picks *)
(* the fields it knows out of each map, must keep the entries whose type   *)
(* it does not know for the writer to emit again, and rejects the bytes it *)
(* cannot make a container of.                                             *)
(***************************************************************************)
EXTENDS Psbt

\* The type tags of the fields module Psbt tells apart.
KnownTypes ==
    {"unsigned_tx", "non_witness_utxo", "redeem_script", "partial_sig", "final_scriptsig"}

Entry(type, key, value) == [type |-> type, key |-> key, value |-> value]

-----------------------------------------------------------------------------
(* Writing *)

When(present, e) == IF present THEN {e} ELSE {}

\* The entries of unknown type, as they were read.
Others(unknown) == {Entry(k[1], k[2], unknown[k]) : k \in DOMAIN unknown}

InputMap(r) ==
    When(r.utxo, Entry("non_witness_utxo", None, TRUE))
    \cup When(r.redeem, Entry("redeem_script", None, TRUE))
    \cup {Entry("partial_sig", k, r.sigs[k]) : k \in DOMAIN r.sigs}
    \cup When(r.final # None, Entry("final_scriptsig", None, r.final))
    \cup Others(r.unknown)

Encode(p) ==
    [magic   |-> TRUE,
     global  |-> {Entry("unsigned_tx", None, Skeleton(p))} \cup Others(p.unknown),
     inputs  |-> [i \in DOMAIN p.inputs |-> InputMap(p.inputs[i])],
     outputs |-> [j \in DOMAIN p.outputs |-> Others(p.outputs[j].unknown)]]

EncodeText(p) == [base64 |-> Encode(p)]

-----------------------------------------------------------------------------
(* Reading *)

Of(m, type) == {e \in m : e.type = type}

\* The entries as a map from their keys to their values.
Keyed(entries) ==
    [k \in {e.key : e \in entries} |-> (CHOOSE e \in entries : e.key = k).value]

\* (mutant) the reader skips the entries whose type it does not know.
SkipUnknown(m) == << >>

\* What the engine has no field for is kept under its type tag and key.
UnknownOf(m) ==
    Keyed({[key |-> <<e.type, e.key>>, value |-> e.value] :
              e \in {x \in m : x.type \notin KnownTypes}})

DecodeInput(m) ==
    [utxo    |-> Of(m, "non_witness_utxo") # {},
     redeem  |-> Of(m, "redeem_script") # {},
     sigs    |-> Keyed(Of(m, "partial_sig")),
     final   |-> IF Of(m, "final_scriptsig") = {} THEN None
                 ELSE (CHOOSE e \in Of(m, "final_scriptsig") : TRUE).value,
     unknown |-> UnknownOf(m)]

\* No two entries of a map have the same type and key.
KeysUnique(m) == \A e, f \in m : e.type = f.type /\ e.key = f.key => e = f

\* The bytes begin with the magic, hold exactly one unsigned transaction,
\* and one map per input and per output of it.
WellFormed(b) ==
    /\ b.magic
    /\ Cardinality(Of(b.global, "unsigned_tx")) = 1
    /\ LET tx == (CHOOSE e \in Of(b.global, "unsigned_tx") : TRUE).value
       IN  Len(b.inputs) = Len(tx.ins) /\ Len(b.outputs) = Len(tx.outs)
    /\ \A m \in {b.global} \cup ToSet(b.inputs) \cup ToSet(b.outputs) : KeysUnique(m)

Decode(b) ==
    IF ~WellFormed(b) THEN Err("decode_failed")
    ELSE LET tx == (CHOOSE e \in Of(b.global, "unsigned_tx") : TRUE).value
         IN  Ok([ins     |-> tx.ins,
                 outs    |-> tx.outs,
                 unknown |-> UnknownOf(b.global),
                 inputs  |-> [i \in DOMAIN b.inputs |-> DecodeInput(b.inputs[i])],
                 outputs |-> [j \in DOMAIN b.outputs |-> [unknown |-> UnknownOf(b.outputs[j])]]])

\* A text is base64 of some bytes, the hex of a plain transaction, or
\* neither.  The hex digits are base64 digits too: what they decode to, if
\* anything, is no PSBT, and the error is the one whose message is the
\* beginning of every decoding error.
DecodeText(t) ==
    CASE "base64" \in DOMAIN t    -> Decode(t.base64)
      [] "scriptSig" \in DOMAIN t -> Err("decode_failed")
      [] OTHER                    -> Err("invalid_base64")

-----------------------------------------------------------------------------
(* The texts rpc_psbt.py writes out itself *)

\* One entry of type 0x0f, the same in all three maps of unknown_psbt.
Mystery == Entry("0f", "010203040506070809", "0102030405060708090a0b0c0d0e0f")

\* unknown_psbt: a transaction of one input and one output, with the entry
\* in its global map, its input map and its output map.
UnknownPsbt(outpoint, out) ==
    [base64 |->
        [magic   |-> TRUE,
         global  |-> {Entry("unsigned_tx", None, [ins |-> <<outpoint>>, outs |-> <<out>>]),
                      Mystery},
         inputs  |-> << {Mystery} >>,
         outputs |-> << {Mystery} >>]]

NotBase64 == [text |-> ";definitely not base64;"]

=============================================================================
