----------------------------- MODULE PsbtScript -----------------------------
(***************************************************************************)
(* test/functional/rpc_psbt.py as the program it is: a script that calls   *)
(* the RPCs of three nodes one after the other, keeps what they return in  *)
(* its variables and asserts what it expects of them, while the nodes      *)
(* relay transactions and blocks to each other on their own.  What a       *)
(* wallet can add to a PSBT depends on the transactions its node has seen  *)
(* by then, so whether an assertion holds depends on how far the relay has *)
(* got when the script reaches it: the script waits for it with sync_all,  *)
(* and only there.                                                         *)
(*                                                                         *)
(* The script is data: the blocks below list its calls and assertions in   *)
(* the order of the file, and one action per kind of call executes the     *)
(* instruction the program counter points at.  What the script holds in a  *)
(* variable is the text an RPC answered (module PsbtCodec): every RPC      *)
(* reads the PSBT out of the text it is handed and writes its answer back. *)
(***************************************************************************)
EXTENDS PsbtCodec

CONSTANTS
    n0, n1, n2,             \* self.nodes[0..2]
    g1, g2,                 \* two coins of node 0's wallet when the test starts
    p2sh, p2pkh,            \* txid:p2sh_pos and txid:p2pkh_pos
    r1, r2,                 \* what node 1 pays itself when it spends p2pkh, and p2sh
    o1, o2,                 \* txid1:vout1 (pays node 1) and txid2:vout2 (pays node 2)
    u1, u2, u3,             \* the three outputs to node 1 that createpsbt is given
    o4,                     \* txid4:vout4
    d,                      \* an output the script never spends again
    Hold                    \* Hold[n]: the keys node n's wallet holds, the redeem scripts it knows

Nodes == {n0, n1, n2}

ASSUME ScriptWorld ==
    /\ Coins = {g1, g2, p2sh, p2pkh, r1, r2, o1, o2, u1, u2, u3, o4}
    /\ {d, r1, r2} \subseteq Dests
    /\ \A n \in Nodes : Hold[n].keys \subseteq Keys /\ Hold[n].scripts \subseteq Coins

\* Fees in units of 0.00001 coin, rates in units per 1000 bytes.  The size is
\* the one the script's comment implies: 0.0665 coin at 0.1 coin per KB.
TxBytes  == 665
MaxTxFee == 10000

-----------------------------------------------------------------------------
(* The script, block by block *)

FundedRoundTrip == <<
    [op |-> "walletcreatefundedpsbt", node |-> n0, given |-> << >>, out |-> "psbtx1"],
    [op |-> "walletprocesspsbt", node |-> n1, in |-> "psbtx1", out |-> "psbtx"],
    [op |-> "assert", that |-> "same", in |-> "psbtx1", as |-> "psbtx"],
    [op |-> "walletprocesspsbt", node |-> n0, in |-> "psbtx", out |-> "signed_tx"],
    [op |-> "finalizepsbt", node |-> n0, in |-> "signed_tx", out |-> "final_tx"],
    [op |-> "sendrawtransaction", node |-> n0, in |-> "final_tx"] >>

FundAddresses == <<
    [op |-> "pay", node |-> n0, makes |-> {p2sh, p2pkh}],
    [op |-> "generate", node |-> n0],
    [op |-> "sync_all"] >>

SpendSingleKey == <<
    [op |-> "walletcreatefundedpsbt", node |-> n1, given |-> <<p2pkh>>, to |-> r1,
     out |-> "rawtx"],
    [op |-> "walletprocesspsbt", node |-> n1, in |-> "rawtx", out |-> "walletprocesspsbt_out"],
    [op |-> "assert", that |-> "complete", in |-> "walletprocesspsbt_out", is |-> TRUE],
    [op |-> "finalizepsbt", node |-> n1, in |-> "walletprocesspsbt_out", out |-> "hex"],
    [op |-> "sendrawtransaction", node |-> n1, in |-> "hex"] >>

FeeRates == <<
    [op |-> "fee", node |-> n1, feeRate |-> 10000, out |-> "res"],
    [op |-> "assert", that |-> "between", in |-> "res", lo |-> 6000, hi |-> 7000],
    [op |-> "fee", node |-> n1, feeRate |-> 1000000, out |-> "res", expect |-> "fee_exceeds"] >>

MultisigTwoSigners == <<
    [op |-> "walletcreatefundedpsbt", node |-> n1, given |-> <<p2sh>>, to |-> r2,
     out |-> "psbtx"],
    [op |-> "walletprocesspsbt", node |-> n1, in |-> "psbtx", out |-> "psbtx"],
    [op |-> "assert", that |-> "complete", in |-> "psbtx", is |-> FALSE],
    [op |-> "walletprocesspsbt", node |-> n2, in |-> "psbtx", out |-> "walletprocesspsbt_out"],
    [op |-> "assert", that |-> "complete", in |-> "walletprocesspsbt_out", is |-> TRUE],
    [op |-> "finalizepsbt", node |-> n2, in |-> "walletprocesspsbt_out", out |-> "hex"],
    [op |-> "sendrawtransaction", node |-> n2, in |-> "hex"] >>

DecodeNonPsbt == <<
    [op |-> "createrawtransaction", node |-> n1, ins |-> <<p2pkh>>, out |-> "rawtx"],
    [op |-> "walletprocesspsbt", node |-> n1, in |-> "rawtx", out |-> "psbtx",
     expect |-> "decode_failed"] >>

ConvertNonPsbt == <<
    [op |-> "fundrawtransaction", node |-> n0, out |-> "rawtx"],
    [op |-> "converttopsbt", node |-> n0, in |-> "rawtx", permit |-> FALSE, out |-> "new_psbt"],
    [op |-> "decodepsbt", node |-> n0, in |-> "new_psbt"],
    [op |-> "signrawtransactionwithwallet", node |-> n0, in |-> "rawtx", out |-> "signedtx"],
    [op |-> "converttopsbt", node |-> n0, in |-> "signedtx", permit |-> FALSE,
     out |-> "new_psbt", expect |-> "has_scriptsigs"],
    [op |-> "converttopsbt", node |-> n0, in |-> "signedtx", permit |-> FALSE,
     out |-> "new_psbt", expect |-> "has_scriptsigs"],
    [op |-> "converttopsbt", node |-> n0, in |-> "signedtx", permit |-> TRUE, out |-> "new_psbt"],
    [op |-> "converttopsbt", node |-> n0, in |-> "rawtx", permit |-> FALSE, out |-> "new_psbt"],
    [op |-> "decodepsbt", node |-> n0, in |-> "new_psbt"] >>

TwoWallets == <<
    [op |-> "pay", node |-> n0, makes |-> {o1}],
    [op |-> "pay", node |-> n0, makes |-> {o2}],
    [op |-> "generate", node |-> n0],
    [op |-> "sync_all"],
    [op |-> "find_output", node |-> n1, coin |-> o1, inBlock |-> TRUE],
    [op |-> "find_output", node |-> n2, coin |-> o2, inBlock |-> TRUE],
    [op |-> "createpsbt", node |-> n0, ins |-> <<o1, o2>>, out |-> "psbt_orig"],
    [op |-> "walletprocesspsbt", node |-> n1, in |-> "psbt_orig", out |-> "psbt1"],
    [op |-> "assert", that |-> "blank", in |-> "psbt1", is |-> <<FALSE, TRUE>>],
    [op |-> "walletprocesspsbt", node |-> n2, in |-> "psbt_orig", out |-> "psbt2"],
    [op |-> "assert", that |-> "blank", in |-> "psbt2", is |-> <<TRUE, FALSE>>],
    [op |-> "combinepsbt", node |-> n0, of |-> <<"psbt1", "psbt2">>, out |-> "combined"],
    [op |-> "finalizepsbt", node |-> n0, in |-> "combined", out |-> "finalized"],
    [op |-> "sendrawtransaction", node |-> n0, in |-> "finalized"],
    [op |-> "generate", node |-> n0],
    [op |-> "sync_all"] >>

\* The outpoint unknown_psbt spends is of no transaction, and what it pays
\* is nobody's.
unknown_psbt == UnknownPsbt("ff:0", "op_return")

UnknownPassThrough == <<
    [op |-> "walletprocesspsbt", node |-> n0, text |-> unknown_psbt, out |-> "unknown_out"],
    [op |-> "assert", that |-> "same", text |-> unknown_psbt, as |-> "unknown_out"] >>

EmptyCombine == <<
    [op |-> "combinepsbt", node |-> n0, of |-> << >>, out |-> "combined", expect |-> "empty"] >>

P2pkhOutputs == <<
    [op |-> "walletcreatefundedpsbt", node |-> n1, given |-> << >>, out |-> "psbt"],
    [op |-> "decodepsbt", node |-> n0, in |-> "psbt"] >>

InvalidBase64 == <<
    [op |-> "decodepsbt", node |-> n0, text |-> NotBase64, expect |-> "invalid_base64"] >>

UtxoUpdate == <<
    [op |-> "pay", node |-> n0, makes |-> {u1}],
    [op |-> "find_output", node |-> n0, coin |-> u1, inBlock |-> FALSE],
    [op |-> "pay", node |-> n0, makes |-> {u2}],
    [op |-> "find_output", node |-> n0, coin |-> u2, inBlock |-> FALSE],
    [op |-> "pay", node |-> n0, makes |-> {u3}],
    [op |-> "find_output", node |-> n0, coin |-> u3, inBlock |-> FALSE],
    [op |-> "sync_all"],
    [op |-> "createpsbt", node |-> n1, ins |-> <<u1, u2, u3>>, out |-> "psbt"],
    [op |-> "assert", that |-> "no_utxo", in |-> "psbt"],
    [op |-> "utxoupdatepsbt", node |-> n1, in |-> "psbt", out |-> "updated"],
    [op |-> "assert", that |-> "no_utxo", in |-> "updated"] >>

JoinCommonInput == <<
    [op |-> "createpsbt", node |-> n1, ins |-> <<u1>>, out |-> "psbt1"],
    [op |-> "joinpsbts", node |-> n1, of |-> <<"psbt1", "updated">>, out |-> "joined",
     expect |-> "shared_input"] >>

JoinDistinct == <<
    [op |-> "pay", node |-> n0, makes |-> {o4}],
    [op |-> "find_output", node |-> n0, coin |-> o4, inBlock |-> FALSE],
    [op |-> "generate", node |-> n0],
    [op |-> "sync_all"],
    [op |-> "createpsbt", node |-> n1, ins |-> <<o4>>, out |-> "psbt2"],
    [op |-> "walletprocesspsbt", node |-> n1, in |-> "psbt2", out |-> "psbt2"],
    [op |-> "assert", that |-> "final", in |-> "psbt2", at |-> 1, is |-> TRUE],
    [op |-> "joinpsbts", node |-> n0, of |-> <<"psbt", "psbt2">>, out |-> "joined"],
    [op |-> "assert", that |-> "shape", in |-> "joined", ins |-> 4, outs |-> 2],
    [op |-> "assert", that |-> "final", in |-> "joined", at |-> 4, is |-> FALSE] >>

Program ==
    FundedRoundTrip \o FundAddresses \o SpendSingleKey \o FeeRates \o MultisigTwoSigners
    \o DecodeNonPsbt \o ConvertNonPsbt \o TwoWallets \o UnknownPassThrough \o EmptyCombine
    \o P2pkhOutputs \o InvalidBase64 \o UtxoUpdate \o JoinCommonInput \o JoinDistinct

End == Len(Program) + 1

\* The script's variables.
Names == {Program[i].out : i \in {j \in DOMAIN Program : "out" \in DOMAIN Program[j]}}

-----------------------------------------------------------------------------
(* The state: the script, and what each node has seen *)

VARIABLES
    pc,         \* the instruction the script executes next
    env,        \* env[x]: the value of the script's variable x, None before
    failed,     \* the instruction at which the script failed, 0 while it has not
    pool,       \* pool[n]: the transactions in node n's memory pool
    height,     \* height[n]: how many of the blocks node n has
    blocks      \* the blocks mined so far, each the set of its transactions

net  == <<pool, height, blocks>>
vars == <<pc, env, failed, pool, height, blocks>>

\* A payment of node n's wallet creates coins; a spend is the raw
\* transaction a PSBT was finalized to, and creates the coins it pays.
Payment(n, coins) == [by |-> n, makes |-> coins]
Makes(t)  == IF "makes" \in DOMAIN t THEN t.makes ELSE ToSet(t.outs) \cap Coins
Spends(t) == IF "ins" \in DOMAIN t THEN ToSet(t.ins) ELSE {}

Confirmed(n) == UNION {blocks[i] : i \in 1..height[n]}
Seen(n)      == pool[n] \cup Confirmed(n)

\* Node n knows coin c, and no transaction it has seen spends it.
Known(n, c)   == \E t \in Seen(n) : c \in Makes(t)
Unspent(n, c) == Known(n, c) /\ \A t \in Seen(n) : c \notin Spends(t)

\* A wallet keeps the transactions its node has seen that it made itself or
\* that pay it: to a key of its own, or to a script it was given.
Mine(n, c) == c \in Hold[n].scripts \/ (~Wrapped(c) /\ ScriptKeys(c) \subseteq Hold[n].keys)

WalletOf(n) ==
    [keys    |-> Hold[n].keys,
     scripts |-> Hold[n].scripts,
     txs     |-> {c \in Coins : \E t \in Seen(n) :
                     /\ c \in Makes(t)
                     /\ ("by" \in DOMAIN t /\ t.by = n) \/ \E x \in Makes(t) : Mine(n, x)}]

Spendable(n) == {c \in Coins : Mine(n, c) /\ ~Wrapped(c) /\ Unspent(n, c)}

\* What node n's memory pool takes: inputs it knows and has not seen spent,
\* each with unlock data that verifies.
AcceptableAt(n, tx) ==
    /\ IsInjective(tx.ins)
    /\ \A i \in DOMAIN tx.ins : Unspent(n, tx.ins[i]) /\ ScriptSigValid(tx, i)

Fee(rate) == (rate * TxBytes) \div 1000

-----------------------------------------------------------------------------
(* Executing an instruction *)

I == Program[pc]

At(op) == failed = 0 /\ pc \in DOMAIN Program /\ I.op = op

Expected == IF "expect" \in DOMAIN I THEN I.expect ELSE "ok"

\* assert_raises_rpc_error looks for its message in the error's: the
\* message of a text that is no base64 begins with "TX decode failed" too.
Met(err) == err = Expected \/ (Expected = "decode_failed" /\ err = "invalid_base64")

\* The call answered err ("ok" when it succeeded, with val): the script goes
\* on when that is what it expects, and stops at this instruction otherwise.
Settle(err, val) ==
    /\ IF Met(err) THEN pc' = pc + 1 /\ failed' = failed
                   ELSE pc' = pc /\ failed' = pc
    /\ env' = IF err = "ok" /\ Met(err) /\ "out" \in DOMAIN I
              THEN [env EXCEPT ![I.out] = val] ELSE env

\* What the call is handed: a text the script writes out, or a variable.
Arg == IF "text" \in DOMAIN I THEN I.text ELSE env[I.in]

\* What a new transaction pays.
Out == IF "to" \in DOMAIN I THEN I.to ELSE d

\* What an RPC reads out of the text it is handed: a PSBT, or an error.
Read == DecodeText(Arg)

\* The same of the variables listed: the PSBTs, or the first error.
ReadAll ==
    LET res == [i \in DOMAIN I.of |-> DecodeText(env[I.of[i]])]
        bad == {i \in DOMAIN res : ~res[i].ok}
    IN  IF bad = {} THEN Ok([i \in DOMAIN res |-> res[i].psbt]) ELSE res[Min(bad)]

\* The call answers val when res is no error, and the error otherwise.
Reply(res, val) == IF res.ok THEN Settle("ok", val) ELSE Settle(res.err, None)

Init ==
    /\ pc = 1
    /\ env = [x \in Names |-> None]
    /\ failed = 0
    /\ pool = [n \in Nodes |-> {}]
    /\ height = [n \in Nodes |-> 1]
    /\ blocks = << {Payment(n0, {g1, g2})} >>

-----------------------------------------------------------------------------
(* The calls that only compute: the nodes' state is read, never changed *)

\* createpsbt
CreatePsbt ==
    /\ At("createpsbt")
    /\ Settle("ok", EncodeText(NewPsbt(I.ins, <<Out>>)))
    /\ UNCHANGED net

\* walletcreatefundedpsbt: the inputs given, or a coin the wallet chooses.
WalletCreateFundedPsbt ==
    /\ At("walletcreatefundedpsbt")
    /\ \/ \E ins \in {I.given} \cup {<<c>> : c \in Spendable(I.node)} :
            /\ ins # << >>
            /\ I.given \in {<< >>, ins}
            /\ Settle("ok", EncodeText(FillPsbt(WalletOf(I.node), NewPsbt(ins, <<Out>>), FALSE)))
       \/ /\ I.given = << >> /\ Spendable(I.node) = {}
          /\ Settle("insufficient_funds", None)
    /\ UNCHANGED net

\* walletcreatefundedpsbt with a feeRate: the fee, unless it is above -maxtxfee.
FundWithFeeRate ==
    /\ At("fee")
    /\ IF Fee(I.feeRate) > MaxTxFee THEN Settle("fee_exceeds", None)
                                    ELSE Settle("ok", Fee(I.feeRate))
    /\ UNCHANGED net

\* walletprocesspsbt: the PSBT updated and signed by the node's wallet.
WalletProcessPsbt ==
    /\ At("walletprocesspsbt")
    /\ Reply(Read, EncodeText(FillPsbt(WalletOf(I.node), Read.psbt, TRUE)))
    /\ UNCHANGED net

\* decodepsbt: the script looks at the PSBT, or at nothing.
DecodePsbt ==
    /\ At("decodepsbt")
    /\ Reply(Read, None)
    /\ UNCHANGED net

\* finalizepsbt(...)['hex']: there is no hex of an incomplete PSBT.
FinalizePsbt ==
    /\ At("finalizepsbt")
    /\ LET res == IF Read.ok THEN Extract(Finalize(Read.psbt)) ELSE Read
       IN  Reply(res, res.psbt)
    /\ UNCHANGED net

\* combinepsbt and joinpsbts of the variables listed.
CombinePsbt ==
    /\ At("combinepsbt")
    /\ LET res == IF ReadAll.ok THEN Combine(ReadAll.psbt) ELSE ReadAll
       IN  Reply(res, EncodeText(res.psbt))
    /\ UNCHANGED net

JoinPsbts ==
    /\ At("joinpsbts")
    /\ LET res == IF ReadAll.ok THEN Join(ReadAll.psbt) ELSE ReadAll
       IN  Reply(res, EncodeText(res.psbt))
    /\ UNCHANGED net

\* utxoupdatepsbt fills in witness outputs only, and there are none.
UtxoUpdatePsbt ==
    /\ At("utxoupdatepsbt")
    /\ Reply(Read, EncodeText(Read.psbt))
    /\ UNCHANGED net

\* createrawtransaction with the inputs given; with none, and then
\* fundrawtransaction, a coin of the wallet's choice.
CreateRawTransaction ==
    /\ At("createrawtransaction")
    /\ Settle("ok", RawTx(NewPsbt(I.ins, <<d>>)))
    /\ UNCHANGED net

FundRawTransaction ==
    /\ At("fundrawtransaction")
    /\ \/ \E c \in Spendable(I.node) : Settle("ok", RawTx(NewPsbt(<<c>>, <<d>>)))
       \/ Spendable(I.node) = {} /\ Settle("insufficient_funds", None)
    /\ UNCHANGED net

SignRawTransactionWithWallet ==
    /\ At("signrawtransactionwithwallet")
    /\ LET raw == env[I.in]
       IN  Settle("ok", RawTx(FillPsbt(WalletOf(I.node), NewPsbt(raw.ins, raw.outs), TRUE)))
    /\ UNCHANGED net

\* converttopsbt
ConvertToPsbt ==
    /\ At("converttopsbt")
    /\ LET raw == env[I.in]
       IN  IF (\E i \in DOMAIN raw.ins : raw.scriptSig[i] # << >>) /\ ~I.permit
           THEN Settle("has_scriptsigs", None)
           ELSE Settle("ok", EncodeText(NewPsbt(raw.ins, raw.outs)))
    /\ UNCHANGED net

\* find_output: the node looks the transaction up, in the block named or
\* wherever it has it.
FindOutput ==
    /\ At("find_output")
    /\ LET have == IF I.inBlock THEN Confirmed(I.node) ELSE Seen(I.node)
       IN  IF \E t \in have : I.coin \in Makes(t) THEN Settle("ok", None)
                                                  ELSE Settle("not_found", None)
    /\ UNCHANGED net

\* What an assertion of the script compares: two texts, a number, or what
\* decodepsbt shows of a text.
Holds ==
    LET x == Arg
        p == DecodeText(x).psbt
    IN  CASE I.that = "same"     -> x = env[I.as]
          [] I.that = "complete" -> IsComplete(p) = I.is
          [] I.that = "blank"    -> \A i \in DOMAIN I.is : (p.inputs[i] = Blank) = I.is[i]
          [] I.that = "no_utxo"  -> \A i \in DOMAIN p.inputs : ~p.inputs[i].utxo
          [] I.that = "final"    -> (p.inputs[I.at].final # None) = I.is
          [] I.that = "shape"    -> Len(p.inputs) = I.ins /\ Len(p.outputs) = I.outs
          [] I.that = "between"  -> I.lo < x /\ x < I.hi

AssertThat ==
    /\ At("assert")
    /\ Settle(IF Holds THEN "ok" ELSE "assertion", None)
    /\ UNCHANGED net

-----------------------------------------------------------------------------
(* The calls that change a node *)

\* sendtoaddress, or a funded and signed raw transaction sent: a payment of
\* the node's wallet in its own memory pool.
Pay ==
    /\ At("pay")
    /\ pool' = [pool EXCEPT ![I.node] = @ \cup {Payment(I.node, I.makes)}]
    /\ Settle("ok", None)
    /\ UNCHANGED <<height, blocks>>

\* sendrawtransaction
SendRawTransaction ==
    /\ At("sendrawtransaction")
    /\ IF AcceptableAt(I.node, env[I.in])
       THEN pool' = [pool EXCEPT ![I.node] = @ \cup {env[I.in]}] /\ Settle("ok", None)
       ELSE pool' = pool /\ Settle("rejected", None)
    /\ UNCHANGED <<height, blocks>>

\* (mutant) what was mined stays in the miner's memory pool.
GenerateKeepingPool ==
    /\ At("generate")
    /\ height[I.node] = Len(blocks)
    /\ blocks' = Append(blocks, pool[I.node])
    /\ height' = [height EXCEPT ![I.node] = @ + 1]
    /\ pool' = pool
    /\ Settle("ok", None)

\* generate: the node mines what its memory pool holds on top of its chain.
Generate ==
    /\ At("generate")
    /\ height[I.node] = Len(blocks)
    /\ blocks' = Append(blocks, pool[I.node])
    /\ height' = [height EXCEPT ![I.node] = @ + 1]
    /\ pool' = [pool EXCEPT ![I.node] = {}]
    /\ Settle("ok", None)

Synced == \A n \in Nodes : height[n] = Len(blocks) /\ pool[n] = pool[n0]

\* (mutant) the script goes on without waiting for the nodes.
SyncAllNoWait ==
    /\ At("sync_all")
    /\ Settle("ok", None)
    /\ UNCHANGED net

\* sync_all returns when every node has the same chain and memory pool.
SyncAll ==
    /\ At("sync_all")
    /\ Synced
    /\ Settle("ok", None)
    /\ UNCHANGED net

-----------------------------------------------------------------------------
(* The nodes on their own *)

\* Node b takes a transaction of node a's pool that it can accept.
RelayTx(a, b) ==
    /\ \E t \in pool[a] \ Seen(b) :
          /\ \A c \in Spends(t) : Unspent(b, c)
          /\ pool' = [pool EXCEPT ![b] = @ \cup {t}]
    /\ UNCHANGED <<pc, env, failed, height, blocks>>

\* (mutant) what the block confirms stays in b's pool.
RelayBlockKeepingPool(b) ==
    /\ height[b] < Len(blocks)
    /\ height' = [height EXCEPT ![b] = @ + 1]
    /\ UNCHANGED <<pc, env, failed, pool, blocks>>

\* Node b connects the next block; what it confirms leaves b's pool.
RelayBlock(b) ==
    /\ height[b] < Len(blocks)
    /\ height' = [height EXCEPT ![b] = @ + 1]
    /\ pool' = [pool EXCEPT ![b] = @ \ blocks[height[b] + 1]]
    /\ UNCHANGED <<pc, env, failed, blocks>>

\* The script has run to its end, or has failed: nothing is left to do.
Stopped ==
    /\ failed # 0 \/ pc = End
    /\ \A b \in Nodes : height[b] = Len(blocks) /\ \A a \in Nodes : pool[a] \subseteq Seen(b)
    /\ UNCHANGED vars

Call ==
    \/ CreatePsbt \/ WalletCreateFundedPsbt \/ FundWithFeeRate \/ WalletProcessPsbt
    \/ DecodePsbt \/ FinalizePsbt \/ CombinePsbt \/ JoinPsbts \/ UtxoUpdatePsbt
    \/ CreateRawTransaction \/ FundRawTransaction \/ SignRawTransactionWithWallet
    \/ ConvertToPsbt \/ FindOutput \/ AssertThat
    \/ Pay \/ SendRawTransaction \/ Generate \/ SyncAll

Relay == \E b \in Nodes : RelayBlock(b) \/ \E a \in Nodes : RelayTx(a, b)

Next == Call \/ Relay \/ Stopped

\* The script runs on when it can; the nodes keep relaying.
Spec == Init /\ [][Next]_vars /\ WF_vars(Call) /\ WF_vars(Relay)

-----------------------------------------------------------------------------
(* Properties *)

\* The variables have their types: the script is at an instruction or at
\* its end, a node has no more blocks than were mined, and a transaction is
\* in a node's pool or in its chain, never in both.
TypeOK ==
    /\ pc \in 1..End /\ failed \in 0..Len(Program)
    /\ DOMAIN env = Names
    /\ \A n \in Nodes : /\ height[n] \in 1..Len(blocks)
                        /\ pool[n] \cap Confirmed(n) = {}

\* No call of the script answers anything but what the script expects, and
\* no assertion of it fails, however the relay between the nodes is
\* interleaved with it: at every call that needs a node to know a
\* transaction another node made, the script has waited in sync_all.
ScriptPasses == failed = 0

\* The script runs to its end: every sync_all returns, because the relay
\* brings every node to the same chain and memory pool.
ScriptCompletes == <>(pc = End)

=============================================================================
