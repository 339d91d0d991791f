------------------------------ MODULE PsbtRpc ------------------------------
(***************************************************************************)
(* The PSBT workflow as test/functional/rpc_psbt.py drives it: PSBTs are   *)
(* strings the test holds in variables and hands to the RPCs of three      *)
(* nodes, each with its own wallet; a finished transaction is extracted as *)
(* hex and broadcast.  One action per RPC the test calls, with the node,   *)
(* the variables and the inputs taken from small sets, so that TLC runs    *)
(* the calls in every order and not only in the order of the script.       *)
(*                                                                         *)
(* What an RPC computes is the engine of module Psbt and the wallet and    *)
(* node operators below (written from spec.md); what the test does with    *)
(* it, which variable it reads and which it overwrites, is the action.     *)
(* Every RPC reads the PSBT out of the text it is handed and writes the    *)
(* one it answers back to text (module PsbtCodec).                         *)
(***************************************************************************)
EXTENDS PsbtCodec

CONSTANTS
    Nodes,      \* the nodes of the test, one wallet each
    Wallet,     \* Wallet[n]: keys held, redeem scripts known, transactions known
    Slots,      \* the test's variables that hold a PSBT
    Offered,    \* the coins this run builds transactions from
    MaxInputs,  \* the longest input list handed to createpsbt
    MaxJoined,  \* the most inputs the PSBTs handed to joinpsbts have between them
    Literals    \* the texts the test writes out itself

ASSUME WalletsWellFormed ==
    /\ Offered \subseteq Coins
    /\ MaxInputs \in 1..Cardinality(Coins)
    /\ MaxJoined \in Nat
    /\ \A n \in Nodes : /\ Wallet[n].keys \subseteq Keys
                        /\ Wallet[n].scripts \subseteq Coins
                        /\ Wallet[n].txs \subseteq Coins

VARIABLES
    held,       \* held[v]: what an RPC reads out of the string variable v holds,
                \* a PSBT or an error; None before v is assigned
    hex,        \* the transaction finalizepsbt last extracted, None before
    rc          \* what the last RPC answered

vars == <<held, hex, rc>>

\* doc[v]: the PSBT of variable v, None when it has none.
doc == [v \in Slots |-> IF held[v] # None /\ held[v].ok THEN held[v].psbt ELSE None]

\* What an RPC can be handed: a variable, or a text the test wrote out.
Given == ({held[v] : v \in Slots} \ {None}) \cup {DecodeText(t) : t \in Literals}

-----------------------------------------------------------------------------
(* The inputs of the run *)

InputLists == {ins \in SeqOf(Offered, MaxInputs) : ins # << >> /\ IsInjective(ins)}
OutputLists == {<<d>> : d \in Dests}

\* The coins wallet n can pay with: its own key alone unlocks them.
Funds(n) ==
    {c \in Offered : Script[c].template = "pkh" /\ ScriptKeys(c) \subseteq Wallet[n].keys}

\* What createrawtransaction returns, and what signrawtransactionwithwallet
\* of some node makes of it: a transaction outside any PSBT.
RawTxs ==
    {RawTx(FillPsbt(Wallet[n], NewPsbt(ins, outs), signed)) :
        n \in Nodes, ins \in InputLists, outs \in OutputLists, signed \in BOOLEAN}

\* The RPC answers the text of p, and the next one reads it from there.
Assign(v, p, answer) ==
    /\ held' = [held EXCEPT ![v] = DecodeText(EncodeText(p))]
    /\ rc' = answer

Refuse(why) == rc' = why /\ UNCHANGED held

-----------------------------------------------------------------------------
(* The RPCs *)

Init ==
    /\ held = [v \in Slots |-> None]
    /\ hex = None
    /\ rc = "ok"

\* createpsbt: a skeleton and nothing else; no wallet is consulted.
CreatePsbt(v, ins, outs) ==
    /\ Assign(v, NewPsbt(ins, outs), "ok")
    /\ UNCHANGED hex

\* walletcreatefundedpsbt: the inputs given, then coins of the wallet's own
\* choice, and the wallet's data for the inputs it knows; nothing is signed.
WalletCreateFundedPsbt(v, n, given, outs) ==
    /\ \/ \E ins \in InputLists :
            /\ IsPrefix(given, ins)
            /\ ToSet(ins) \ ToSet(given) \subseteq Funds(n)
            /\ Assign(v, FillPsbt(Wallet[n], NewPsbt(ins, outs), FALSE), "ok")
       \/ /\ given = << >> /\ Funds(n) = {}
          /\ Refuse("insufficient_funds")
    /\ UNCHANGED hex

\* walletprocesspsbt: the PSBT handed in, updated and signed by wallet n,
\* and whether every input is now signed; the error when the text is none.
WalletProcessPsbt(given, w, n) ==
    /\ LET p == FillPsbt(Wallet[n], given.psbt, TRUE)
       IN  IF given.ok THEN Assign(w, p, IF IsComplete(p) THEN "complete" ELSE "incomplete")
           ELSE Refuse(given.err)
    /\ UNCHANGED hex

\* decodepsbt: the test looks at the PSBT of the text, or gets the error.
DecodePsbt(given) ==
    /\ rc' = IF given.ok THEN "ok" ELSE given.err
    /\ UNCHANGED <<held, hex>>

\* combinepsbt: the list may be empty, which is an error of its own.
CombinePsbt(vs, w) ==
    /\ \A i \in DOMAIN vs : doc[vs[i]] # None
    /\ LET res == Combine([i \in DOMAIN vs |-> doc[vs[i]]])
       IN  IF res.ok THEN Assign(w, res.psbt, "ok") ELSE Refuse(res.err)
    /\ UNCHANGED hex

\* joinpsbts, of the two PSBTs the test hands it.
JoinPsbts(vs, w) ==
    /\ \A i \in DOMAIN vs : doc[vs[i]] # None
    /\ Len(doc[vs[1]].ins) + Len(doc[vs[2]].ins) <= MaxJoined
    /\ LET res == Join([i \in DOMAIN vs |-> doc[vs[i]]])
       IN  IF res.ok THEN Assign(w, res.psbt, "ok") ELSE Refuse(res.err)
    /\ UNCHANGED hex

\* finalizepsbt: the hex of the transaction when it is complete and was
\* asked for, the finalized PSBT otherwise.
FinalizePsbt(v, extract) ==
    /\ doc[v] # None
    /\ LET p == Finalize(doc[v])
       IN  IF IsComplete(p) /\ extract
           THEN hex' = RawTx(p) /\ rc' = "complete" /\ UNCHANGED held
           ELSE /\ Assign(v, p, IF IsComplete(p) THEN "complete" ELSE "incomplete")
                /\ UNCHANGED hex

\* utxoupdatepsbt: only witness outputs are filled in, and this chain has
\* none, so the PSBT comes back as it went in.
UtxoUpdatePsbt(v, w) ==
    /\ doc[v] # None
    /\ Assign(w, doc[v], "ok")
    /\ UNCHANGED hex

\* converttopsbt of a transaction made outside any PSBT: refused when an
\* input carries a scriptSig, unless the caller permits stripping them.
ConvertToPsbt(w, raw, permitsigdata) ==
    /\ IF (\E i \in DOMAIN raw.ins : raw.scriptSig[i] # << >>) /\ ~permitsigdata
       THEN Refuse("has_scriptsigs")
       ELSE Assign(w, NewPsbt(raw.ins, raw.outs), "ok")
    /\ UNCHANGED hex

Next ==
    \/ \E v \in Slots, ins \in InputLists, outs \in OutputLists : CreatePsbt(v, ins, outs)
    \/ \E v \in Slots, n \in Nodes, outs \in OutputLists :
          \E given \in InputLists \cup {<< >>} : WalletCreateFundedPsbt(v, n, given, outs)
    \/ \E given \in Given, w \in Slots, n \in Nodes : WalletProcessPsbt(given, w, n)
    \/ \E given \in Given : DecodePsbt(given)
    \/ \E vs \in SeqOf(Slots, 2), w \in Slots : CombinePsbt(vs, w)
    \/ \E vs \in Slots \X Slots, w \in Slots : JoinPsbts(vs, w)
    \/ \E v \in Slots, extract \in BOOLEAN : FinalizePsbt(v, extract)
    \/ \E v, w \in Slots : UtxoUpdatePsbt(v, w)
    \/ \E w \in Slots, raw \in RawTxs, permit \in BOOLEAN : ConvertToPsbt(w, raw, permit)

Spec == Init /\ [][Next]_vars

-----------------------------------------------------------------------------
(* The PSBTs as Cosigning sees them *)

\* The keys input record r witnesses a signature of, partial or final.
SignersOf(r) ==
    DOMAIN r.sigs \cup (IF r.final = None THEN {} ELSE {r.final[j].key : j \in DOMAIN r.final})

\* For each input of the PSBT in v, who has signed it, and whether it is final.
Signers(v) ==
    IF doc[v] = None THEN << >>
    ELSE [i \in DOMAIN doc[v].inputs |-> SignersOf(doc[v].inputs[i])]

Finals(v) ==
    IF doc[v] = None THEN << >>
    ELSE [i \in DOMAIN doc[v].inputs |-> doc[v].inputs[i].final # None]

Parties == INSTANCE Cosigning WITH
    Holder  <- [n \in Nodes |-> Wallet[n].keys],
    tx      <- [v \in Slots |-> IF doc[v] = None THEN None ELSE Skeleton(doc[v])],
    signers <- [v \in Slots |-> Signers(v)],
    final   <- [v \in Slots |-> Finals(v)],
    sent    <- IF hex = None THEN None ELSE [ins |-> hex.ins, outs |-> hex.outs]

-----------------------------------------------------------------------------
(* Properties *)

Answers ==
    {"ok", "complete", "incomplete", "empty", "mismatch", "conflict", "shared_input",
     "has_scriptsigs", "insufficient_funds", "decode_failed", "invalid_base64"}

IsInputRecord(r) ==
    /\ r.utxo \in BOOLEAN /\ r.redeem \in BOOLEAN
    /\ DOMAIN r.sigs \subseteq Keys
    /\ r.final # None => r.final \in Seq([key : Keys, msg : Range(r.sigs)])

IsPsbt(p) ==
    /\ p.ins \in Seq(Coins) /\ p.outs \in Seq(Dests)
    /\ DOMAIN p.inputs = DOMAIN p.ins /\ DOMAIN p.outputs = DOMAIN p.outs
    /\ \A i \in DOMAIN p.inputs : IsInputRecord(p.inputs[i])

\* The variables have their types; in particular every text an RPC answers
\* is one the next RPC can read, the text of a PSBT with exactly one input
\* record per input and one output record per output of its skeleton,
\* whatever createpsbt, combinepsbt and joinpsbts made of it.
TypeOK ==
    /\ \A v \in Slots : held[v] # None => held[v].ok /\ IsPsbt(doc[v])
    /\ hex # None => DOMAIN hex.scriptSig = DOMAIN hex.ins
    /\ rc \in Answers

\* Every signature a PSBT carries, partial or in a final script, commits to
\* the transaction of that very PSBT and is by a key of the script it
\* unlocks.  joinpsbts makes a new, larger transaction out of signed ones:
\* rpc_psbt.py asserts that the joined input has no final_scriptSig left.
SignaturesCommitToSkeleton ==
    \A v \in Slots : doc[v] # None =>
        \A i \in DOMAIN doc[v].inputs :
            LET r == doc[v].inputs[i]
            IN  /\ DOMAIN r.sigs \subseteq ScriptKeys(doc[v].ins[i])
                /\ \A k \in DOMAIN r.sigs : r.sigs[k] = Skeleton(doc[v])
                /\ r.final # None =>
                      \A j \in DOMAIN r.final : r.final[j].msg = Skeleton(doc[v])

\* A PSBT that reports itself complete, however the wallets, the combiner
\* and the joiner were called to get there, extracts to a transaction whose
\* unlock data the node's script check accepts, and so does the hex that
\* finalizepsbt returned: rpc_psbt.py hands it to sendrawtransaction at once.
CompleteMeansValid ==
    /\ \A v \in Slots : doc[v] # None /\ IsComplete(doc[v]) =>
            \A i \in DOMAIN doc[v].ins : ScriptSigValid(RawTx(doc[v]), i)
    /\ hex # None => \A i \in DOMAIN hex.ins : ScriptSigValid(hex, i)

SameResult(x, y) == x.ok = y.ok /\ (x.ok => x.psbt = y.psbt)

\* combinepsbt does not depend on the order of its list, nor on how a longer
\* list is split: for the PSBTs the test holds and any copy of them another
\* wallet has processed meanwhile, the combiner either refuses both ways or
\* gives the same PSBT (spec.md 8; rpc_psbt.py combines [psbt1, psbt2] only).
CombineOrderIndependent ==
    \A v, w \in Slots : doc[v] # None /\ doc[w] # None =>
        /\ SameResult(Combine(<<doc[v], doc[w]>>), Combine(<<doc[w], doc[v]>>))
        /\ \A n \in Nodes :
              LET c == FillPsbt(Wallet[n], doc[v], TRUE)
                  ab == Combine(<<doc[v], doc[w]>>)
                  bc == Combine(<<doc[w], c>>)
              IN  ab.ok /\ bc.ok =>
                    SameResult(Combine(<<ab.psbt, c>>), Combine(<<doc[v], bc.psbt>>))

Processed(p, n) == FillPsbt(Wallet[n], p, TRUE)

\* Handing one PSBT from wallet to wallet collects at least what handing
\* each wallet a copy and combining the copies collects: when the combined
\* copies finalize to a complete transaction, so does the PSBT that went
\* through walletprocesspsbt of the two nodes in turn, in either order
\* (rpc_psbt.py does the first with the multisig coin, the second with the
\* coins of nodes 1 and 2).
SerialSigningNoWorse ==
    \A v \in Slots, n, m \in Nodes : doc[v] # None =>
        LET copies == Combine(<<Processed(doc[v], n), Processed(doc[v], m)>>)
        IN  copies.ok /\ IsComplete(Finalize(copies.psbt)) =>
                IsComplete(Processed(Processed(doc[v], n), m))

\* The RPCs, called in any order by any of the wallets, implement
\* Cosigning: walletprocesspsbt adds signatures of the wallet's own keys and
\* takes none away, combinepsbt gives what one of its PSBTs had or what
\* both had, createpsbt, walletcreatefundedpsbt, converttopsbt and
\* joinpsbts give a transaction nobody has signed, an input becomes final
\* only with enough signatures and then keeps them, and a transaction is
\* extracted only when every input has enough.
ImplementsCosigning == Parties!Spec

Foreign(m) == {e \in m : e.type \notin KnownTypes}

\* The entries of a text that are of no type the engine knows, map by map.
Unknowns(t) ==
    [global  |-> Foreign(t.base64.global),
     inputs  |-> [i \in DOMAIN t.base64.inputs |-> Foreign(t.base64.inputs[i])],
     outputs |-> [j \in DOMAIN t.base64.outputs |-> Foreign(t.base64.outputs[j])]]

\* The texts an RPC can be handed and can read.
Readable ==
    {EncodeText(doc[v]) : v \in {x \in Slots : doc[x] # None}}
    \cup {t \in Literals : DecodeText(t).ok}

\* No RPC drops an entry it does not know (spec.md 4.3; rpc_psbt.py hands
\* unknown_psbt to walletprocesspsbt and asserts that the very text comes
\* back): of every text the test holds or writes out, and of every text an
\* RPC made of one, walletprocesspsbt of any wallet and finalizepsbt answer
\* a text with the same unknown entries in the same maps, combinepsbt one
\* with those of both its texts, and joinpsbts one with the maps of its
\* texts one after the other.
UnknownFieldsSurvive ==
    \A t \in Readable :
        LET p == DecodeText(t).psbt
        IN  /\ Unknowns(EncodeText(Finalize(p))) = Unknowns(t)
            /\ \A n \in Nodes :
                  Unknowns(EncodeText(FillPsbt(Wallet[n], p, TRUE))) = Unknowns(t)
            /\ \A u \in Readable :
                  LET q    == DecodeText(u).psbt
                      both == Combine(<<p, q>>)
                      all  == Join(<<p, q>>)
                      T    == Unknowns(t)
                      U    == Unknowns(u)
                  IN  /\ both.ok => Unknowns(EncodeText(both.psbt)) =
                            [global  |-> T.global \cup U.global,
                             inputs  |-> [i \in DOMAIN T.inputs |-> T.inputs[i] \cup U.inputs[i]],
                             outputs |-> [j \in DOMAIN T.outputs |-> T.outputs[j] \cup U.outputs[j]]]
                      /\ all.ok => Unknowns(EncodeText(all.psbt)) =
                            [global  |-> T.global \cup U.global,
                             inputs  |-> T.inputs \o U.inputs,
                             outputs |-> T.outputs \o U.outputs]

\* spec.md 4.4 says of join that it concatenates the input records of the
\* PSBTs it is given: every record of the joined PSBT is the record the
\* input had before.  (joinpsbts, as rpc_psbt.py observes it, does not.)
JoinKeepsRecords ==
    [][\A vs \in Slots \X Slots, w \in Slots :
          JoinPsbts(vs, w) /\ rc' = "ok" =>
              doc'[w].inputs = doc[vs[1]].inputs \o doc[vs[2]].inputs]_vars

=============================================================================
