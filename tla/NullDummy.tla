----------------------------- MODULE NullDummy ------------------------------
(***************************************************************************)
(* test/functional/feature_nulldummy.py: a script that builds transactions *)
(* and blocks around the height at which a node starts to enforce the      *)
(* NULLDUMMY rule in blocks, and the node it talks to.  The node is the    *)
(* unknown: the heights from which it enforces the rule and from which it  *)
(* wants the new coinbase are chosen from sets of candidates, so that TLC  *)
(* runs the script against the node the test describes and against the     *)
(* nodes that are off by a block or two.                                   *)
(*                                                                         *)
(* A transaction is what it spends and the dummy argument of its           *)
(* scriptSig; its id is its content, and the object the script holds       *)
(* caches it in .hash, as CTransaction does.                               *)
(***************************************************************************)
EXTENDS Integers, Sequences, FiniteSets, SequencesExt

CONSTANTS
    NullDummyHeights,   \* candidate heights from which blocks must be NULLDUMMY compliant
    Dip4Heights,        \* candidate heights from which the coinbase must be of the new form
    Coinbase,           \* coinbase_txid[0], mature when the test starts
    None

Start      == 429       \* the height after generate(2) and generate(427)
Activation == 432       \* the height the script builds its blocks for

ASSUME Candidates ==
    /\ NullDummyHeights \subseteq Nat /\ Activation \in NullDummyHeights
    /\ Dip4Heights \subseteq Nat /\ Activation \in Dip4Heights

-----------------------------------------------------------------------------
(* The script, test by test.  A transaction object is named by the         *)
(* variable that holds it; a list holds objects, not copies of them.       *)

Test1 == <<
    [op |-> "create_transaction", out |-> "test1txs0", parent |-> "coinbase_txid0", hash |-> FALSE],
    [op |-> "sendrawtransaction", tx |-> "test1txs0", out |-> "txid1", accept |-> TRUE],
    [op |-> "create_transaction", out |-> "test1txs1", parent |-> "txid1", hash |-> FALSE],
    [op |-> "sendrawtransaction", tx |-> "test1txs1", out |-> "txid2", accept |-> TRUE],
    [op |-> "block_submit", txs |-> <<"test1txs0", "test1txs1">>, accept |-> TRUE] >>

Test2 == <<
    [op |-> "create_transaction", out |-> "test2tx", parent |-> "txid2", hash |-> FALSE],
    [op |-> "trueDummy", tx |-> "test2tx"],
    [op |-> "sendrawtransaction", tx |-> "test2tx", out |-> "unused", accept |-> FALSE] >>

Test3 == <<
    [op |-> "block_submit", txs |-> <<"test2tx">>, accept |-> TRUE] >>

\* (mutant) the transaction is offered to the memory pool only.
Test4MempoolOnly == <<
    [op |-> "create_transaction", out |-> "test4tx", parent |-> "test2tx", hash |-> TRUE],
    [op |-> "CTransaction", out |-> "test6txs0", tx |-> "test4tx"],
    [op |-> "trueDummy", tx |-> "test4tx"],
    [op |-> "sendrawtransaction", tx |-> "test4tx", out |-> "unused", accept |-> FALSE] >>

Test4 == <<
    [op |-> "create_transaction", out |-> "test4tx", parent |-> "test2tx", hash |-> TRUE],
    [op |-> "CTransaction", out |-> "test6txs0", tx |-> "test4tx"],
    [op |-> "trueDummy", tx |-> "test4tx"],
    [op |-> "sendrawtransaction", tx |-> "test4tx", out |-> "unused", accept |-> FALSE],
    [op |-> "block_submit", txs |-> <<"test4tx">>, accept |-> FALSE] >>

Test6 == <<
    [op |-> "sendrawtransaction", tx |-> "test6txs0", out |-> "unused", accept |-> TRUE],
    [op |-> "block_submit", txs |-> <<"test6txs0">>, accept |-> TRUE] >>

Program == Test1 \o Test2 \o Test3 \o Test4 \o Test6

End == Len(Program) + 1

Names ==
    {"coinbase_txid0", "txid1", "txid2", "unused",
     "test1txs0", "test1txs1", "test2tx", "test4tx", "test6txs0"}

-----------------------------------------------------------------------------
VARIABLES
    pc,                 \* the instruction the script executes next
    failed,             \* the instruction at which the script failed, 0 while it has not
    env,                \* the script's variables: transaction ids and transaction objects
    lastblockhash,      \* self.lastblockhash (and self.tip, the same block as a number)
    lastblockheight,    \* self.lastblockheight
    lastblocktime,      \* self.lastblocktime, counted from self.mocktime
    chain,              \* the node's active chain above block 429
    mempool,            \* the node's memory pool
    enforceFrom,        \* the height from which this node enforces NULLDUMMY in blocks
    dip4From            \* the height from which this node wants the new coinbase

test == <<pc, failed, env, lastblockhash, lastblockheight, lastblocktime>>
node == <<chain, mempool, enforceFrom, dip4From>>
vars == <<test, node>>

-----------------------------------------------------------------------------
(* Transactions and the node's rules *)

\* The id of a transaction is a hash of all of it, the scriptSig included.
TxId(t) == [spends |-> t.spends, dummy |-> t.dummy]

\* Block 429, which the script builds on.
Base == [prev |-> None, height |-> Start, dip4 |-> FALSE, time |-> Start, txs |-> << >>]

BestBlock  == IF chain = << >> THEN Base ELSE Last(chain)
NodeHeight == Start + Len(chain)

InChain == {Coinbase} \cup UNION {ToSet(chain[i].txs) : i \in DOMAIN chain}

\* The output of transaction x exists among the transactions txs and none
\* of them spends it.
Spendable(x, txs) == x \in txs /\ \A y \in txs \ {Coinbase} : y.spends # x

\* The wallet signs a transaction whose parent it can see, with a null dummy.
Signed(parent) ==
    [spends |-> parent,
     dummy  |-> IF parent # None /\ Spendable(parent, InChain \cup mempool) THEN "null" ELSE "unsigned",
     hash   |-> None]

\* Policy: the memory pool never takes a transaction with a dummy that is
\* not null, before the activation or after it.  Inputs are looked up
\* before scripts are run.
MempoolVerdict(t) ==
    CASE ~Spendable(t.spends, InChain \cup mempool) -> "missing_inputs"
      [] t.dummy = "unsigned"                       -> "not_signed"
      [] t.dummy = "true"                           -> "nulldummy"
      [] OTHER                                      -> "ok"

\* Consensus: a block builds on the best block with a coinbase of the form
\* its height asks for; its transactions spend what exists, in order, and
\* from the activation height on none of them has a dummy that is not null.
BlockAccepts(b) ==
    /\ b.prev = BestBlock
    /\ b.height = NodeHeight + 1
    /\ b.dip4 <=> b.height >= dip4From
    /\ IsInjective(b.txs)
    /\ \A i \in DOMAIN b.txs :
          /\ Spendable(b.txs[i].spends, InChain \cup {b.txs[j] : j \in 1..(i - 1)})
          /\ b.txs[i].dummy # "unsigned"
          /\ b.height >= enforceFrom => b.txs[i].dummy = "null"

-----------------------------------------------------------------------------
(* Executing an instruction *)

I == Program[pc]

At(op) == failed = 0 /\ pc \in DOMAIN Program /\ I.op = op

Advance == pc' = pc + 1 /\ failed' = failed
Fail    == pc' = pc /\ failed' = pc

Init ==
    /\ pc = 1 /\ failed = 0
    /\ env = [x \in Names |-> IF x = "coinbase_txid0" THEN Coinbase ELSE None]
    /\ lastblockhash = Base
    /\ lastblockheight = Start
    /\ lastblocktime = Start
    /\ chain = << >> /\ mempool = {}
    /\ enforceFrom \in NullDummyHeights
    /\ dip4From \in Dip4Heights

\* create_transaction: the node's wallet signs a spend of the parent, named
\* by an id the script holds or by the .hash of an object it holds.
CreateTransaction ==
    /\ At("create_transaction")
    /\ LET parent == IF I.hash THEN env[I.parent].hash ELSE env[I.parent]
       IN  env' = [env EXCEPT ![I.out] = Signed(parent)]
    /\ Advance
    /\ UNCHANGED <<lastblockhash, lastblockheight, lastblocktime, node>>

\* trueDummy: the first element of the scriptSig, asserted to be empty, is
\* replaced by OP_1 in the object itself, and the cached id is recomputed.
TrueDummy ==
    /\ At("trueDummy")
    /\ LET tx   == env[I.tx]
           new  == IF tx.dummy = "null" THEN [tx EXCEPT !.dummy = "true"] ELSE tx
       IN  IF tx.dummy = "true" THEN Fail /\ UNCHANGED env
           ELSE Advance /\ env' = [env EXCEPT ![I.tx] = [new EXCEPT !.hash = TxId(new)]]
    /\ UNCHANGED <<lastblockhash, lastblockheight, lastblocktime, node>>

\* CTransaction(tx): a copy of the object as it is now.
CopyTransaction ==
    /\ At("CTransaction")
    /\ env' = [env EXCEPT ![I.out] = env[I.tx]]
    /\ Advance
    /\ UNCHANGED <<lastblockhash, lastblockheight, lastblocktime, node>>

\* sendrawtransaction, expected to return the id or to be refused with
\* NULLDUMMY_ERROR and nothing else.
SendRawTransaction ==
    /\ At("sendrawtransaction")
    /\ LET verdict == MempoolVerdict(env[I.tx])
       IN  /\ mempool' = IF verdict = "ok" THEN mempool \cup {TxId(env[I.tx])} ELSE mempool
           /\ env' = IF verdict = "ok" THEN [env EXCEPT ![I.out] = TxId(env[I.tx])] ELSE env
           /\ IF verdict = (IF I.accept THEN "ok" ELSE "nulldummy") THEN Advance ELSE Fail
    /\ UNCHANGED <<lastblockhash, lastblockheight, lastblocktime, chain, enforceFrom, dip4From>>

\* (mutant) the new coinbase is asked for one block late.
Dip4ActivatedLate == lastblockheight >= Activation

\* block_submit: whether the block to build is to have the new coinbase.
Dip4Activated == lastblockheight + 1 >= Activation

\* (mutant) the hash is taken over, the height is not.
AdoptHashOnly(block) ==
    /\ lastblockhash' = block
    /\ lastblocktime' = lastblocktime + 1
    /\ lastblockheight' = lastblockheight

\* block_submit, accept: the block is the script's new tip.
Adopt(block) ==
    /\ lastblockhash' = block
    /\ lastblocktime' = lastblocktime + 1
    /\ lastblockheight' = lastblockheight + 1

\* block_submit: a block on the script's tip with the transactions given,
\* each rehashed; the node takes it or not, and the script compares the
\* node's best block with what it expects before it moves its tip.
BlockSubmit ==
    /\ At("block_submit")
    /\ LET block == [prev   |-> lastblockhash,
                     height |-> lastblockheight + 1,
                     dip4   |-> Dip4Activated,
                     time   |-> lastblocktime + 1,
                     txs    |-> [i \in DOMAIN I.txs |-> TxId(env[I.txs[i]])]]
           taken == BlockAccepts(block)
           best  == IF taken THEN block ELSE BestBlock
       IN  /\ env' = [x \in Names |->
                        IF x \in ToSet(I.txs) THEN [env[x] EXCEPT !.hash = TxId(env[x])]
                        ELSE env[x]]
           /\ chain' = IF taken THEN Append(chain, block) ELSE chain
           /\ mempool' = IF taken
                         THEN {t \in mempool : \A i \in DOMAIN block.txs :
                                                  t.spends # block.txs[i].spends}
                         ELSE mempool
           /\ IF I.accept
              THEN IF best = block
                   THEN Advance /\ Adopt(block)
                   ELSE Fail /\ UNCHANGED <<lastblockhash, lastblockheight, lastblocktime>>
              ELSE /\ IF best = lastblockhash THEN Advance ELSE Fail
                   /\ UNCHANGED <<lastblockhash, lastblockheight, lastblocktime>>
    /\ UNCHANGED <<enforceFrom, dip4From>>

\* The script has run to its end or has failed.
Stopped == (failed # 0 \/ pc = End) /\ UNCHANGED vars

Next ==
    \/ CreateTransaction \/ TrueDummy \/ CopyTransaction
    \/ SendRawTransaction \/ BlockSubmit \/ Stopped

Spec == Init /\ [][Next]_vars

-----------------------------------------------------------------------------
(* Properties *)

Correct == enforceFrom = Activation /\ dip4From = Activation

\* Against the node the docstring describes (new rules from block 432), no
\* call is answered otherwise than the script expects: its blocks 430 and
\* 431 are taken with what they hold, the block it builds with a
\* non-compliant transaction at 432 is refused, and block_submit asks for
\* the new coinbase from exactly that height on.
PassesOnCorrectNode == Correct => failed = 0

\* The script tells a node that activates a block early or late from the
\* right one: it runs to its end only against a node that enforces the
\* rule, and wants the new coinbase, from block 432 on.
DetectsWrongActivation == pc = End => Correct

\* While the script has not failed, what it believes the tip to be is the
\* node's best block, hash and height: block_submit moves self.lastblockhash
\* and self.lastblockheight together, and only for a block the node took.
TestTracksChain ==
    failed = 0 => lastblockhash = BestBlock /\ lastblockheight = NodeHeight

=============================================================================
