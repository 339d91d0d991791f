# TLA+ models of the PSBT, NULLDUMMY, net, importmulti and disablewallet tests

This directory holds TLA+ specifications, checked with TLC, of the behaviour
that the repository's functional tests drive and assert. `PROJECT.json` is the
machine-readable index: components, runs, the source lines every definition
stands for, the mutants that show each property can fail, findings, hazards.

## 1. The system

The sources in `src/` are five Python scripts of the functional test suite.
Each starts a handful of regtest nodes, calls their RPCs and asserts on the
answers. The node and wallet they talk to (the "Descriptor & PSBT engine" of
`spec.md`) are not in `src/`; what the models need from them is written from
`spec.md` and from the assertions of the scripts, and marked `spec_modelled`
in the map.

| part | where | state | operations |
|---|---|---|---|
| PSBT container | spec.md 3, 4.3 | skeleton (inputs, outputs), one record per input (previous-output data, redeem script, partial signatures by key, final script, entries of unknown type) and per output, the global unknown entries | create, write to bytes and base64 text, read back |
| Signer | spec.md 4.5 | reads a wallet's keys | sign every input it can |
| Finalizer / Extractor | spec.md 4.6 | per-input state Unsigned, PartiallySigned, Satisfiable, Finalized | finalize, extract |
| Combiner / Joiner | spec.md 4.4 | none | combine (same transaction), join (different transactions) |
| wallets of three nodes | rpc_psbt.py | keys, known scripts, known transactions | walletcreatefundedpsbt, walletprocesspsbt |
| `rpc_psbt.py` | src/test/functional | local variables holding PSBTs, hex, txids | 250 lines of RPC calls and assertions on three nodes |
| the nodes' relay | test framework, node | per node: chain, memory pool | transaction relay, block relay, `sync_all` |
| `feature_nulldummy.py` | src/test/functional | tip, lastblockhash, lastblockheight, the transactions made | five tests around the activation at block 432, `trueDummy`, `block_submit` |
| node rules for NULLDUMMY | docstring of feature_nulldummy.py | chain height | accept to memory pool, accept block |
| `rpc_net.py` | src/test/functional | snapshots of getnettotals and getpeerinfo | `run_test`: two pings with their waits, five `connect_nodes`, `setnetworkactive` off and on, `_test_connection_count`, `_test_getnettotals`, `_test_getnetworkinfo`, `_test_getaddednodeinfo`, `_test_getpeerinfo`, `test_service_flags`, `_test_getnodeaddresses`; `assert_net_servicesnames` |
| node 0's network thread | rpc_net.py comments | per-peer and total byte counters, pings under way | send ping, receive pong, other messages |
| the connections of the three nodes | rpc_net.py comments and assertions | per node: the list of its sockets, `networkactive`, the added nodes, pings under way, peers with a ping time | connect, close a socket, dial an added node, answer a ping, ping unasked |
| node 0's address manager | rpc_net.py lines 187, 188, 195 | the addresses kept, each with its time, services and port | take the addresses of an `addr` message, hand some out |
| `wallet_importmulti.py` | src/test/functional | local variables (keys, addresses, timestamps, answers) | 620 lines of calls and assertions on two unconnected nodes, two restarts |
| wallets of nodes 0 and 1, and `noprivkeys` | spec.md 4.2, 5, 6; the script's assertions | private keys, public keys, key times and origins, redeem scripts, watched scripts with timestamps, address book, two key pools; the file a restart reads | importmulti, getaddressinfo, getwalletinfo, getnewaddress, getrawchangeaddress, dumpprivkey |
| Descriptor engine, Script classifier | spec.md 4.1, 4.2, 6 | none | parse a descriptor string, derive a key's origin, validate a range, expand over a range, classify |
| `disablewallet.py` | src/qa/rpc-tests | `x`, the exception caught | validateaddress twice, generatetoaddress twice inside try/except |
| the node without a wallet | disablewallet.py comments and assertions | its chain | judge an address, refuse a call, mine a block to an address |

How they interact. A PSBT is a value: it travels between wallets as a string
in a variable of the test, every RPC reads it out of that string and writes
its answer back to one, and every wallet that processes it adds what it
knows. Whether a wallet knows anything depends on what has reached its node:
node 0 mines the blocks, nodes 1 and 2 learn of them through relay, and the
script waits for that in `sync_all`. `feature_nulldummy.py` keeps a copy of the
chain tip of its own and builds blocks on it; the node decides on its own
whether to take them. `rpc_net.py` reads counters the node's network thread
changes while the test is between two RPCs, and counts connections that
the nodes at their two ends close each on its own, one after the other.
`disablewallet.py` learns what its node does from two answers and two
exceptions.

What is hard here, and what the properties are about:

- the order in which wallets see a PSBT, and the order of a list handed to the
  combiner, must not matter; the order of signatures in a final script must be
  the script's, never the signing order;
- a signature commits to one transaction: joining signed PSBTs makes another;
- a PSBT may carry entries this engine has no field for: reading, merging,
  joining and writing must hand them on, and what one RPC writes the next
  must be able to read;
- the test runs against nodes that relay asynchronously: every call must find
  the node in a state in which it succeeds, in every order of relay, and every
  `sync_all` must return;
- activation at a height: the test's `>= 432` and the node's rule must meet at
  the same block, and the test's copy of the tip must stay the node's tip
  after a block was refused;
- three RPCs are not a snapshot, and a `wait_until` on a sum of bytes says
  little about any one peer;
- a connection is two sockets: `setnetworkactive(false)` returns before any
  is closed, the script waits for one node's to be gone, and the other node's
  list is asserted later;
- a `try` whose `except` lets most errors pass: what has a script shown when
  it ran to its end?
- what an import does depends on the imports before it (a private key already
  held, a watched address imported again), on the chain's time when it runs,
  and on what the wallet file holds when the node comes back;
- range bounds are checked in an order, and each check has an edge.

## 2. Modules

| module | models | lines |
|---|---|---|
| `Psbt` | container, Signer, Finalizer, Extractor, Combiner, Joiner, the wallet as updater, the node's script check, as operators on values | 249 |
| `PsbtCodec` | the serialized PSBT: maps of type-tagged entries, the base64 text, writing and reading with its errors | 119 |
| `PsbtRpc` | the PSBT RPCs as actions on the variables of the test, called in every order | 322 |
| `Cosigning` | what the workflow promises its parties: who may add a signature, when an input may be final, what may be sent | 94 |
| `MCPsbtRpc` | three wallets, the multisig coin and three single-key coins, the texts the test writes out, for TLC | 50 |
| `PsbtScript` | `rpc_psbt.py` as a program; three nodes with chain and memory pool; relay | 508 |
| `MCPsbtScript` | the keys and scripts of that run | 30 |
| `NullDummy` | `feature_nulldummy.py` as a program; the node's rules with the activation heights as unknowns | 272 |
| `NetTotals` | `_test_getnettotals` statement by statement; the network thread of node 0 | 241 |
| `NetInfo` | `run_test` and its tests but `_test_getnettotals` as a program; the sockets of three nodes, the address manager of node 0 | 505 |
| `NetTest` | `NetInfo` with `_test_getnettotals` run as `NetTotals` has it, at its place in `run_test` | 81 |
| `Descriptor` | scripts, descriptors, the range argument and its validation, expansion over a range, the origin of a derived key | 121 |
| `DescriptorText` | descriptor strings as the script writes them, their checksum, and parse | 102 |
| `Wallet` | the wallet store as a value; classifier, importmulti, getaddressinfo, key pools as operators | 270 |
| `WalletImports` | one wallet and a caller that makes the script's calls on it in any order, every range argument and the descriptor strings among them | 318 |
| `ImportMultiScript` | `wallet_importmulti.py` as a program; two nodes, their chains, wallets and wallet files | 730 |
| `DisableWallet` | `disablewallet.py` as a program; the node as an unknown among 160 builds | 163 |

### Psbt

A PSBT is a record `[ins, outs, unknown, inputs, outputs]`: the skeleton, the
global entries of unknown type, an input record per input,
`[utxo, redeem, sigs, final, unknown]`, and an output record per output, of
which only the unknown entries are told apart. `unknown` is a map from the
type tag and key of an entry to its value; `Combine` merges it like the
signatures (a key with two values is a conflict) and `Join` carries it over. Data is abstracted to what the
properties tell apart. An outpoint is a member of `Coins`, whose locking
script `Script[c]` is a template (`pkh` with one key, `sh_multi` m-of-n with
its keys in declared order). A signature by key `k` is the skeleton it commits
to, stored under `k`. `SignInput`, `FinalScript`, `Combine`, `Join` and `Unsign`
follow spec.md 4.4 to 4.6; where `rpc_psbt.py` shows more than the
specification says (a joined input has no `final_scriptSig`, line 250) the
operator follows the code. `ScriptSigValid` is what a node checks of a
broadcast transaction: m signatures over this very transaction by keys of the
script, in the script's order.

### PsbtCodec

The serialization contract of spec.md 4.3. The bytes are a record of the magic,
the global map, the input maps and the output maps; a map is a set of entries
`[type, key, value]`, so two writers that emit the entries in different orders
write the same bytes. `Encode` writes a container (`InputMap`: one entry per
field present, one per signature, and the unknown entries as they were read);
`Decode` reads one back: `WellFormed` is what the reader insists on (the
magic, exactly one unsigned transaction, a map per input and per output of
it, no key twice in a map), `DecodeInput` picks the known fields out of a map
and `UnknownOf` keeps the rest. The text is `[base64 |-> bytes]`;
`DecodeText` tells the two errors apart: `invalid_base64` for a text that is
no base64, `decode_failed` for bytes that are no PSBT, the hex of a plain
transaction among them (its digits are base64 digits too, and the script at
line 96 checks only the beginning of the message, which both errors share:
`PsbtScript!Met`). Reading is not the inverse of writing by construction:
`UnknownFieldsSurvive` and the assertion of line 148 are what show that it
is, on the texts the models reach. `UnknownPsbt` is the text of line 146
spelled out: one input, one output, and the same entry of type `0x0f` in the
global, the input and the output map.

### PsbtRpc

The variables are the test's: `held[v]` is what an RPC reads out of the string
in variable `v` (a PSBT, or an error if the text were none; `doc[v]` is the
PSBT), `hex` the last extracted transaction, `rc` the last answer. An RPC
that answers a PSBT writes it with `EncodeText`, and `held` takes what
`DecodeText` makes of that text. `walletprocesspsbt` and `decodepsbt` are
handed a variable or one of the texts the test writes out (`Literals`). Each RPC is one action;
its arguments (node, variables, input list) are chosen with `\E` from small
sets, so TLC explores every sequence of calls and not only the one the script
makes. The script is one path of this model.

### Cosigning

The abstract specification `PsbtRpc` implements. A document is a transaction
(`tx[v]`), the keys that have signed each input (`signers[v][i]`) and whether
the input is final. Its steps: `New` (a transaction nobody has signed),
`Cosign(v, w, n)` (party `n` takes document `v` in hand: nothing signed is
lost, the keys added are keys `n` holds and the script requires, an input
becomes final only with enough signers and then keeps them), `Merge` (two
documents of one transaction give one with the signers of both), `Extract`
(only with enough signers on every input). `PsbtRpc` maps a PSBT to its
skeleton, the keys of its partial signatures and final scripts, and the
presence of a final script (`Parties == INSTANCE Cosigning WITH ...`). The
specification is about what may happen, not about what must: a combiner that
returned one of its PSBTs unchanged would implement it, and is caught by
`CombineOrderIndependent` and `SerialSigningNoWorse` instead.

### PsbtScript

The script itself. `Program` is the concatenation of fifteen blocks, one per
paragraph of `run_test`, each a sequence of instruction records (`op`, node,
arguments, the variable assigned, the error expected). `pc` is the instruction
to run, `env` the local variables (a PSBT is held as its text, a plain
transaction as the record its hex stands for), `failed` the instruction that
raised. There
is one action per kind of call, guarded by `At(op)`, and the whole call is one
step: the RPC, the assignment, and the comparison with the error expected.

Each node has a chain (`chain[n]`, a sequence of blocks) and a memory pool.
`SendRawTransaction` and `Pay` put a transaction in one node's pool, `Generate`
mines that node's pool into a block. `RelayTx` and `RelayBlock` are the
environment: they carry one transaction or one block to one other node at any
time. `SyncAll` is enabled only when all chains and pools agree, as the
framework's `sync_all` polls for. A wallet sees what its node has seen: `WalletOf(n)`
derives the wallet record that `Psbt!FillPsbt` takes from the chain and pool of
`n`.

Amounts are not modelled except where the script tests one: the fee of lines
74 to 81 is the rate times `TxBytes` (665, the size for which the test's
0.1 per kB gives its 0.0665), compared with `MaxTxFee`.

A transaction pays `d`, an output the script never spends again, except the
two with which node 1 spends `p2pkh` and `p2sh`: they pay node 1 itself (`r1`,
`r2`), and are what `walletcreatefundedpsbt` of line 203 finds in its wallet.

Not in the program: lines 58 to 66 (a search for an output position, folded
into `FindOutput`) and the loops of lines 150 to 186 and 191 to 199 over
vectors read from `data/rpc_psbt.json`, which is not in the repository (the
empty combine of 188 and 189 is kept).

### NullDummy

Same shape, with a twist: the node's activation heights are constants sets
(`NullDummyHeights`, `Dip4Heights`), and `Init` picks the node's pair from
them. The test's 432 is `Activation`. The node's rules come from the test's
docstring: a transaction with a non-null dummy is refused by the memory pool
always and by a block from the activation on. `BlockSubmit` is the whole of
`block_submit`: build the block on the test's tip with the coinbase form
`Dip4Activated` chooses, submit, compare the node's best block with the
expectation, and adopt the block as tip only when acceptance was expected.

### NetTotals

`_test_getnettotals`. The node's counters (`peer`, `totals`) change by
`SendPing`, `Pong` and `Chatter`, each updating the per-peer counter, the
per-message counter and the total in one step. The test's statements are
`TotalsBefore`, `GetPeerInfo`, `TotalsAfter`, `AssertBounded`, `Ping`, two
`WaitUntil`, `GetPeerInfoAfterPing`, `ComparePeers`. `failed` records the
source line of the assertion that failed. `wait_until(timeout=1)` is modelled
without a clock: it returns when its condition holds, and gives up only when
the condition is false and no ping is under way any more (a timeout while the
peers are merely slow is an artefact of the one-second budget and would make
every property about the test trivially false).

### NetInfo, NetTest

`NetInfo` is the rest of `rpc_net.py` that concerns connections. `Program` is
`run_test` with the bodies of its tests in place of their calls: `Ping`,
`WaitUntil`, `ConnectNodes`, `SetActive`, `AssertEqual`, `Add` and `AddedInfo`
records, each with the source line that raises when it fails, and records for
the other statements. The actions are `PingPeers`, `Wait`, `Connect`,
`SetNetworkActive`, `Check`, `GetNetTotals`, `CheckServicesNames`, `AddNode`,
`GetAddedNodeInfo`, `BothSides`, `AddP2PConnection`, `LastServicesNames`,
`DisconnectP2Ps`; `failed` is the line that raised.

The nodes: `peers[n]` is the list `getpeerinfo` of node `n` returns, oldest
socket first. A connection is a record (who dialled, whom, a number), and it
is up when it is in the lists of both its nodes. `Connect` appends it to both
at once, as `connect_nodes` returns only when both sides report it.
`Disconnect(n, c)` is the network thread of `n` closing one socket, which it
may do when the network of `n` is off or when the other end is gone; so
after `setnetworkactive(false)` at node 0 the sockets of node 0 go one by one
and those of nodes 1 and 2 follow, each in its own time. `Pong` answers a ping
of the `ping` RPC on a connection that is up; `AutoPing` is a node pinging
unasked. `AddedDial(n)` is the thread of `n` that opens connections to the
nodes added with `addnode`: it dials an added node `n` has no connection
with, at any time after the `addnode`. The connection of
`add_p2p_connection` has the script at its far end (`P2P`); `p2ps` are the
ones the script has not closed. `GetNetworkInfo(n)` counts the list of `n`: inbound are the
connections `n` did not dial, masternode connections those whose other end is
node 2.

Service bits are sets of bit numbers. `AssertNetServicesNames` is the
script's function of lines 31 to 45; `ServicesNames` is the node's decoding,
from the lowest bit up, `UNKNOWN[2^n]` for a bit without a name, as line 162
expects it.

`NetTest` is the composition: it instantiates `NetTotals` with the three
connections node 0 has at line 62 as `Peers`, runs its statements and events
while the script of `NetInfo` is at `_test_getnettotals`, and goes on with
`NetInfo` when `NetTotals` is done (`Return`, which also forgets the figures
of `_test_getnettotals`: nothing reads them again).

`_test_getnodeaddresses` is the last five statements. `SendAndPing` is
`send_and_ping` of the `addr` message: when it returns the node has gone
through the addresses, and `addrman` has them but for up to `MaxCollisions`
it had no room for, each with the time `Penalised` gives it (an address of
100000000 or before counts as five days old, and every address is kept two
hours older than told). `Answers(count)` is what `getnodeaddresses` may
return: an error for a count below 1, and otherwise any `count` of the
addresses kept, or all of them when there are fewer. `Verdicts` is the
script's reading of an answer: the length first, then the four assertions of
the loop on whichever address comes first. The figures are scaled: 3
addresses for 256, 2 for `REQUEST_COUNT`, 4 for `LARGE_REQUEST_COUNT`.

`_test_getnettotals` is one step that changes nothing in `NetInfo` alone.

### DisableWallet

The four calls of `run_test` as records: the address, the answer asserted, and
for `generatetoaddress` whether returning is acceptable and which error
messages the `except` clause lets pass. The node is a record chosen in `Init`
from `Builds`: which of the two addresses each call takes for valid, whether
`validateaddress` needs the wallet, and which checks (`address`, `wallet`)
`generatetoaddress` makes in which order before it mines. Mining to an
accepted address appends a block to `chain`, or fails with one of the two
messages the script names. `failed` is the number of the call that failed.

### Descriptor

A key is a record `[by, i]`: who derived it (a wallet's seed, or an extended
key named in a descriptor) and at which index. It stands for the private key,
the public key and the key id alike; which of them a wallet has is the
wallet's state. A script is `Pkh(k)`, `Multi(m, keys)`, `Sh(script)` or
`NonStandard(script)`; an address is the script it encodes. A descriptor is
the value its string parses to: the function (`pkh`, `multi`), whether it is
inside `sh()`, and its key expressions, each literal or extended (`xpub/*`)
and with or without a key origin. A path is a sequence of steps, each an
index and whether it is hardened. `OriginAt` is `derive_key_origin`: a
literal key has the origin written before it; the child of an extended key
at index `i` has the fingerprint written before the extended key (the
extended key itself stands for its fingerprint when none is written) and
the path made of the written origin, the steps after the key and `i`.

The range argument is a number `n` (`Upto(n)`, meaning `[0, n]`) or a pair
(`FromTo`). `RangeError` is the four tests in the order the answers of lines
506 to 519 show: begin after end, begin below 0, end too high, too many
entries. "Too high" is a right shift by `IndexBits` that leaves something,
which is also true of a negative end.

### DescriptorText

The `desc` of a request is a string the script concatenates (lines 490, 524,
556, 575, 593, 641, 695, 732) and hands to `descsum_create`. The model keeps
its structure and leaves out its characters: a string is the tree of its
tokens, `Fn(name, args)` with arguments that are `Number(n)`, key expressions
or functions again. A key expression is `Key(k)`, `Children(e, steps, mark)`
for `/steps/*` after an extended key (`mark` is what follows the star) and
`From(fpr, steps, e)` for `[fpr/steps]` before it. A step is an index and the
mark written after it: `'`, `h` or nothing. The path `getaddressinfo` answers
as `hdkeypath` begins with `Root`, the `m` that `keypath[1:]` cuts off
(`Tail`). `descsum_create` pairs the string with its checksum; the checksum
is the string itself, since all that is used of it is that it tells two
strings apart.

`ParseDescriptor` is `parse` of spec.md 4.1. It fails on a checksum that is
not the string's own (a string may come without one) and on a string that is
not well formed: a function other than `pkh`, `multi` and `sh`, a wrong
number of arguments, a threshold of `multi` outside 1 to the number of its
keys, `sh()` around `sh()`, steps after a key that is not extended, an `m`
among the steps. Otherwise it gives the descriptor, with `ReadPath` turning
the marks `'` and `h` alike into hardened steps. `WritePath` is the way back
the wallet takes when it answers: from `m`, hardened steps with an
apostrophe. The two are not inverse on strings, which is why the import of
line 732 (`0h/0h`) is answered `m/0'/0'/i` (lines 724 to 728).

### Wallet

A wallet is a record (`NewWallet`). `Classify` is spec.md 4.2: `UsedKeys` (step
2), `FlagWarnings` (steps 3 and 6), `MissingData` (step 5), and step 7 first.
`ProcessImport` is one request: the policy errors, the classification, the
refusal of a script the wallet can already spend, then `Store`. `ImportMulti`
folds the requests over the wallet, each on what the one before left, after
the timestamps of all of them were checked. Where spec.md says nothing (the
key pools, timestamps, what getaddressinfo leaves out) the operators give the
answers `wallet_importmulti.py` asserts; the map names the lines.
`ClassifyDescriptor` parses the string of a request, once, and
`ClassifyParsed` refuses one that has no descriptor (-5) before it looks at
the range. `Store` files the origin of every key of the
descriptor (`Origins`); a key keeps the origin it has when a later import
states none.

### WalletImports

One wallet, node 1's own or `noprivkeys` (chosen in `Init`), and a caller
that makes the script's calls on it in any order; the script makes each once,
in one order. `ImportMultiCall` sends one of `Calls(wallet)`: a ranged
descriptor with any of `Args` as its range (for the key pool in
`noprivkeys`), or one or two of the requests of `Plain`: an address alone,
with its public key, with its private key (node 1's wallet only), a key for
either pool, `sh(multi())` for the pool, the ranged descriptor without a
range, a request without a timestamp. A single request may also be one of
`Strings`: `pkh([fpr/path]key)` for a key of node 0, with the fingerprint
and path `getaddressinfo` of node 0 answers (`Exported`, `keypath[1:]`) and
its hardened steps spelt with `'` or with `h`; `pkh(key)` without a
checksum; a string with the checksum of its other spelling; and three
strings that are not well formed (the path with its `m`, `pkhash(key)`,
`multi(2, key)`). Two of them (`InBatches`) are sent in calls of two
requests as well. The script has node 1 export and node 0 import; here the
keys are node 0's and the wallet is on node 1, as in the key pool tests of
lines 631 to 715. `GetNewAddressCall` and
`GetRawChangeAddressCall` hand out an address or fail on an empty pool, and
`Restart` goes on with the wallet on file. Every call that changes the wallet
writes its file (`Save`). `asked` and `answer` are the last importmulti and
what it returned. `wanted` and `handed` are history variables: the keys the
imports were to add to each pool (`Pooled`, written from the request alone:
the indexes of the range, sorted), and the addresses handed out.

### ImportMultiScript

The script as a program of 198 instructions in 23 blocks, one per paragraph
of `run_test`; the loop of lines 738 to 740 is unrolled. The blocks are
written with the script's variables (`env.key`, `env.timestamp`) and read
when the script gets there. `get_key` and `get_multisig` are one instruction
each, as they are one call each of the script. One action per kind of call;
each is the whole call: the RPC on the wallet, the write of the wallet to its
file (`Commit`), the assignment, and the comparison (`Settle`). The
descriptors are the strings of `DescriptorText`, put together from the
script's variables as the script does (`WithOrigin`: fingerprint,
`keypath[1:]`, key), and parsed by the wallet that imports them.

The two nodes are not connected (`setup_network` only starts them): each has
a chain of its own, of which the model keeps the height. The median time of a
tip, which is the `now` of an import, is modelled by the height: later on a
longer chain, which is all the script compares (line 459). Node 1 can pay
(`CanPay`) once its first coinbase has `CoinbaseMaturity` blocks on top.
`Restart` makes every loaded wallet the wallet on file.

## 3. Runs

All runs finish in under two minutes on two workers.

| run | module / cfg | checks | result |
|---|---|---|---|
| `psbt_sign` | `MCPsbtRpc` / `PsbtSign.cfg` | `CompleteMeansValid`, `CombineOrderIndependent`, `SerialSigningNoWorse`, `ImplementsCosigning` | pass, 4,090 states |
| `psbt_join` | `MCPsbtRpc` / `PsbtJoin.cfg` | `TypeOK`, `SignaturesCommitToSkeleton`, `UnknownFieldsSurvive`, `ImplementsCosigning` | pass, 11,455 states |
| `psbt_join_spec` | `MCPsbtRpc` / `PsbtJoinSpec.cfg` | `JoinKeepsRecords` | violated (finding 1) |
| `psbt_script` | `MCPsbtScript` / `PsbtScript.cfg` | `TypeOK`, `ScriptPasses`, `ScriptCompletes` | pass, 6,105 states, depth 99 |
| `nulldummy` | `NullDummy` / `NullDummy.cfg` | `PassesOnCorrectNode`, `DetectsWrongActivation`, `TestTracksChain` | pass, 289 states |
| `net_test` | `NetTest` / `NetTest.cfg` | `TypeOK`, `SnapshotsBracketPeers`, `TotalsWaitsReturn`, `ConnectionWaitsReturn`, `AssertionsFailOnlyOverRaces`, `AddressAssertionsNeedRoom`, `SwitchedOffNodeCloses` | pass, 53,467 states |
| `net_ping` | `NetTotals` / `NetPing.cfg` | `EveryPeerAnswered` | violated (finding 2) |
| `importmulti_script` | `ImportMultiScript` / `ImportMultiScript.cfg` | `TypeOK`, `ScriptPasses` | pass, 199 states, depth 199 |
| `wallet_imports` | `WalletImports` / `WalletImports.cfg` | `TypeOK`, `TakesExactlyValidRanges`, `PoolInImportOrder`, `OriginsAsWritten`, `ImportsOnlyAdd` | pass, 42,090 states |
| `range_message_spec` | `ImportMultiScript` / `ImportMultiRangeSpec.cfg` | `RangeMessageTellsCause` | violated (finding 3) |
| `warning_spec` | `ImportMultiScript` / `ImportMultiWarningSpec.cfg` | `WarnsOfKeysWithoutFlag` | violated (finding 4) |
| `disablewallet` | `DisableWallet` / `DisableWallet.cfg` | `FailsOnlyWhenMiningFails`, `NoBlockToInvalidAddress`, `PassingBuildChecksAddressFirst` | pass, 418 states |

What each shows:

- **psbt_sign.** The 2-of-3 coin, two variables, three wallets of which only
  node 1 knows the redeem script. In every reachable state: a PSBT that
  reports complete extracts to a transaction that verifies
  (`CompleteMeansValid`: the final script is in key order although wallets sign
  in any order); combining is symmetric and associative on the PSBTs at hand
  and their processed copies (`CombineOrderIndependent`: two wallets that each
  finalized with a different pair of keys are a conflict, not "first wins");
  passing a PSBT along collects at least what combining copies collects
  (`SerialSigningNoWorse`). Every step is a step of `Cosigning`
  (`ImplementsCosigning`): across 301,279 transitions no RPC adds a
  signature of a key the calling wallet does not hold, drops one, or
  finalizes the 2-of-3 input with one signer. The two texts of this run that
  are no PSBT (`unknown_psbt` without its input map, and what is no base64)
  are refused by `walletprocesspsbt` and `decodepsbt`, each with its error.
- **psbt_join.** Two single-key coins of two wallets, and `unknown_psbt`.
  Every text an RPC answers is read by the next as a PSBT with one record per
  input and per output, after any sequence of create, process, combine and
  join (`TypeOK`), and every signature in it is over the PSBT's own
  transaction (`SignaturesCommitToSkeleton`), which is why join must drop
  signatures. No RPC drops an entry it does not know
  (`UnknownFieldsSurvive`): for every text at hand, `walletprocesspsbt` of
  each wallet and `finalizepsbt` answer a text with the same unknown entries
  in the same maps, `combinepsbt` one with those of both texts, `joinpsbts`
  one with the maps of both, one after the other. The entries are read off
  the texts themselves, not off what `Decode` makes of them.
  With join among the steps the RPCs still implement `Cosigning`
  (`ImplementsCosigning`): the joined PSBT is a `New` document.
- **psbt_join_spec.** The sentence of spec.md 4.4 as an action property; see
  findings.
- **psbt_script.** With relay in every order, and whichever of its two coins
  node 1 funds the PSBT of line 203 with, no instruction of the script
  raises and no assertion fails (`ScriptPasses`: `unknown_psbt` comes back
  from `walletprocesspsbt` as the very text, line 148), every PSBT and node state is
  well formed and no node keeps a confirmed transaction in its pool (`TypeOK`),
  and the script reaches its end (`ScriptCompletes`, liveness).
- **nulldummy.** Of the 25 nodes with activation heights in 430..434, the test
  passes on the one that activates both rules at 432
  (`PassesOnCorrectNode`) and fails on each of the other 24
  (`DetectsWrongActivation`); and whenever the test goes on, its tip, hash and
  height are the node's (`TestTracksChain`).
- **net_test.** `run_test` from line 55 to line 67 in one run. Inside
  `_test_getnettotals`, with pings, pongs and one other message interleaved
  anywhere, the assertions of lines 84 to 91 hold and the waits return
  (`SnapshotsBracketPeers`, `TotalsWaitsReturn`, `TypeOK`). Around it, with
  sockets closed in every order: no `wait_until` gives up
  (`ConnectionWaitsReturn`); a node whose network is off ends with no socket
  (`SwitchedOffNodeCloses`, liveness); and up to line 163 only two assertions
  can fail, each over a race (`AssertionsFailOnlyOverRaces`). One is the connection count
  of line 131, in a state in which node 1 still lists a socket node 0 has
  closed: the script waits at line 112 for node 0 and nowhere for node 1. The model has no clock: on one machine the close of a
  socket reaches the other end far sooner than the five calls between line
  112 and line 131 take, so the window is narrow, but nothing in the script
  closes it. The other is line 162: `getpeerinfo()[-1]` is the peer added at
  line 161 unless node 0 has dialled node 2 in between, which it may since
  line 142 added node 2 and the connection the two had was dropped at line
  109. The directions and
  masternode counts of lines 132 to 136 and the addresses of lines 154 and
  155 cannot fail: node 0's list begins with the connection of line 116
  because the masternode's connection was dropped at line 109. Of
  `_test_getnodeaddresses` only line 185 can fail, and only when the address
  manager has kept fewer addresses than the script asks for
  (`AddressAssertionsNeedRoom`): the time of line 188 is right because
  100000000, the time the script gives every address, is still within what
  the node takes for too old.
- **net_ping.** See findings.
- **importmulti_script.** The script is sequential and its nodes do nothing
  on their own, so the run is one behaviour of 199 states: it shows that the
  wallet of `Wallet` gives, call after call, every answer the script asserts
  (`ScriptPasses`): every import with its warnings and errors, the
  fields of getaddressinfo after each, the -4 of an import repeated, the
  timestamp replaced by a later import, both restarts, the key pools handed
  out in order. `TypeOK` adds that the wallets loaded are always the wallets
  on file. Since a call that cannot be made leaves no step, the absence of
  deadlock shows that the script reaches its last line.
- **wallet_imports.** The script tries its requests once, in one order. Here
  two calls of importmulti, each of one or two requests, are made in every
  order on each of the two kinds of wallet, with addresses handed out and
  restarts before, between and after. Over the 7 numbers and 49 pairs of
  -1..5 as the range, with indexes of 2 bits and at most 3 entries, a range
  is taken exactly when it is valid by spec.md 4.1, whatever the wallet
  already holds (`TakesExactlyValidRanges`). What the pools hand out,
  followed by what they still hold, is always what the imports were to add,
  in the order of import and a range from begin to end
  (`PoolInImportOrder`): two keys in one call and then a range, a range after
  addresses were handed out, a restart with a half-empty pool. A key
  imported with its origin is answered with the fingerprint and path of the
  wallet it comes from, and no key is ever answered with another origin
  (`OriginsAsWritten`): with `'` or `h` in the string, for every index of a
  range, after the same key was imported without origin, before it is, and
  through restarts. No call and
  no restart takes away what the wallet had: its own addresses, the watched
  ones, solvability, key origins (`ImportsOnlyAdd`). `TypeOK` adds that the wallet loaded is the
  wallet on file.
- **range_message_spec**, **warning_spec.** See findings.
- **disablewallet.** Over the 160 builds: against the build the script
  describes it fails only when mining itself fails, at the third call
  (`FailsOnlyWhenMiningFails`); a script that ran to its end has seen no block
  pay the address of the other network (`NoBlockToInvalidAddress`: line 44
  is what makes it so); and it runs to its end only against a build that
  judges the addresses as expected, answers `validateaddress` without a
  wallet, and checks the address first in `generatetoaddress`
  (`PassingBuildChecksAddressFirst`). What a pass does not show: that a
  block was mined. The comment of line 34 says "mining to an address without
  a wallet", but a build that refuses `generatetoaddress` for want of a
  wallet after checking the address passes all four calls, since line 37 to
  40 let every error but three pass.

### Bounds

| bound | value | why it is enough |
|---|---|---|
| `Slots` (PsbtRpc) | 2 variables | combine and join take two PSBTs; a third variable adds copies, not cases |
| `MaxInputs` | 1 | the script's PSBTs have one input each before join; join makes the two-input ones |
| `MaxJoined` | 2 | `joinpsbts` is asked for PSBTs of two inputs between them: a join of joined PSBTs repeats the step on longer lists |
| `Literals` | `unknown_psbt` (psbt_join); the same without its input map, and `;definitely not base64;` (psbt_sign) | the text of line 146, a text of either kind of error (lines 161, 162 and 207) |
| `Offered` | the multisig coin, or the two single-key coins | one run per question keeps each near 10^4 states |
| `Dests` | one output | outputs are carried, never inspected |
| candidate heights (NullDummy) | 430..434 | two blocks either side of 432: the test mines blocks 430 to 433 |
| `TxBytes`, `MaxTxFee` (PsbtScript) | 665, 10,000 (units of 10^-5) | the figures of lines 74 to 81 |
| `Peers` (NetTotals) | 3 | `getconnectioncount() == 3`, line 73; in `net_test` they are the connections `NetInfo` has made by line 62 |
| `Setup` (NetInfo) | the masternode's connection to node 0 | the comment of lines 70 to 72 |
| `LocalServices` | bits 0, 2, 10 | a known flag at either end of the list and one in the middle; the script's own bits 4 and 63 are the unknown ones |
| `MaxAutoPings` | 1 | one unasked ping is enough to give a socket its ping time before the script asks; more repeat it on other sockets |
| `NumAddrs`, `RequestCount`, `LargeRequestCount` | 3, 2, 4 | 256, 10 and 10000 in the script; what matters is their order (asked for <= sent < large request), and every subset of three addresses is tried as the ones kept |
| `MaxCollisions` | 2 | the address manager keeps 1, 2 or 3 of the 3 addresses: fewer than asked for, exactly as many, and more |
| `MockTime` | 1417713337 | any time later than 100000000 plus five days and two hours |
| `Builds` (DisableWallet) | 160 | 4 judgements of two addresses for each of two calls, wallet use or not, 5 orders of at most two checks |
| `PingsAwaited` | 2 | the `32 * 2` of lines 97 and 98 |
| `IndexBits`, `MaxSpan` (`importmulti_script`) | 21, 1,000,000 | the script's own figures need `MaxSpan` as it is; with 32-bit integers in TLC the index width is scaled from 31 to 21 bits and `(2 << 31 + 1)` to `4 * 2^IndexBits`, which keeps 1,000,001 below the limit and 2^33's counterpart above it |
| `IndexBits`, `MaxSpan`, `Negatives`, `Highest` (`wallet_imports`) | 2, 3, 1, 5 | values on both sides of every boundary: -1 and 0, 3 and 4 (the highest index and the first too high), 3 and 4 entries; two ranges that do not overlap fit below the limit |
| `NumKeys` | 2 | the script imports two keys into a pool at once (line 639); `sh(multi())` has two |
| `Strings`, `InBatches` (`wallet_imports`) | 8 strings, 2 of them in calls of two requests | an origin for each key in each spelling, one string for each way parse fails; the two in batches are one that is taken and one that is refused, so that a key with an origin and a refused string meet every other request within one call; every further pair multiplies the states |
| `MaxImports` | 2 | two calls of up to two requests: an import and the same again, a watched address and then its key, two keys and then a range |
| `MaxDerived` | 1 | node 1's wallet derives keys of its own without end; one is enough to have an own address beside the imported ones |
| `CoinbaseMaturity` | 100 | the script mines 1 + 100 blocks before it pays: exactly enough |
| `MaxChatter`, `ChatterSize` | 1 (0 in `net_ping`), 64 | one message larger than a ping in either direction is enough to move every comparison |

### Fairness

`PsbtScript` assumes weak fairness of `Call` (the script's next statement) and
of `Relay` (some transaction or block reaching some node): the Python process
runs until it blocks, and connected nodes do relay what they have. No fairness
on a particular relay step is needed or assumed. `NetTest` assumes weak fairness of `RunNext`, and `NetInfo` on its own of
`Statement` and of `Network`: a network thread that has a socket to close,
or a peer that has a ping to answer, does so in the end. With several such
steps enabled weak fairness of their disjunction promises only that one of
them happens; that is enough, since each of them can happen only a bounded
number of times. The other specifications
check safety only and assume none; `ImportMultiScript` has no environment
steps, so that its script ends follows from the absence of deadlock.

### Deadlock

Every script model has a `Stopped` step that stutters once the script has
ended or failed, so a state without successor is an error in every run: a
script stuck in a `sync_all` that cannot return is reported.

### Mutants

Every property of a passing run has a mutant in `PROJECT.json`: a definition
(`FinalScriptReversed`, `SignInputAfresh`, `KeepSigned`, `SyncAllNoWait`,
`Dip4ActivatedLate`, `AdoptHashOnly`, `TotalsAfterStale`, `DisconnectStaleOnly`, `PenalisedBelow`, `SaveInMemory`, `ApostropheOnly`, `SkipUnknown`,
`MineToInvalidReturns`, ...) that changes the
model the way a plausible change would, and under which TLC finds the
property violated. They are defined in the modules, just before the
definition they replace, and are used by no specification.

## 4. Findings

1. **join does not concatenate the input records** (`psbt_join_spec`,
   spec and code diverge). spec.md 4.4: join "concatenates the corresponding
   InputRecord lists". `rpc_psbt.py` lines 244 to 250 join a PSBT whose input
   has `final_scriptSig` and assert the joined input has none. The code is
   right (`SignaturesCommitToSkeleton` needs it); the specification should say
   that signatures and final scripts do not survive a join.
2. **`_test_getnettotals` waits for two pings and asserts three**
   (`net_ping`, bug in the test). Node 0 has three peers (lines 73, 84). After
   `ping()`, the waits of lines 97 and 98 return when the totals have grown by
   `32 * 2` bytes; lines 101 to 103 then assert that every peer's `ping` and
   `pong` counters grew by 32. TLC's trace: the pings of two of the three
   peers are written and answered, both waits return, `getpeerinfo`: the
   ping of the third peer is still queued and none of its counters has
   moved. The run is on a quiet network (`MaxChatter = 0`), so the failure
   does not rest on other traffic. With `PingsAwaited = 3` and no other traffic the
   property holds; with other traffic it needs a per-peer wait.

3. **"End of range is too high" for a negative range**
   (`range_message_spec`, spec and code diverge). spec.md 4.1 promises
   messages that tell the causes of a refused range apart.
   `wallet_importmulti.py` lines 506 and 507 expect "End of range is too high"
   for the range `-1`, the message of an end of 2^33 (lines 512, 513), while
   a negative begin has a message of its own (lines 509, 510). TLC stops at
   instruction 110, the import of line 506.
4. **The all-keys warning comes with the watchonly flag, not without it**
   (`warning_spec`, spec and code diverge). spec.md 4.2 step 6, and the open
   question of its section 9, have the warning emitted when all private keys
   are imported without the watch-only flag. The script expects no warning of
   that import (lines 248 to 251; TLC stops there, at instruction 35) and
   expects the warning of the import that sets `watchonly` (lines 269 to 275).
   The specification has the condition inverted.

## 5. Assumptions

- The node's NULLDUMMY rules are those of the test's docstring.
- In `wallet_imports` no block is mined between the calls (every import has
  the same `now`; the timestamps are the subject of `importmulti_script`), no
  key is put into a key pool twice (`Fresh`: the script never does, and
  nothing says what the pool would hold), and requests with private keys go
  to node 1's wallet only.
- `addmultisigaddress` and `importaddress` of `rpc_psbt.py` are folded into the
  constant `Hold` (which wallet holds which key and script).
- There is no clock. A `wait_until` returns when its condition holds and
  gives up only when the condition is false and nothing that could make it
  true is under way; a wait that fails because the node is slower than the
  timeout of lines 97, 98 and 112 is outside the model.
- The size of the transaction of lines 75 and 81 (`TxBytes`) and the fee
  ceiling (`MaxTxFee`) are the figures of the comment of line 74 and of the
  bounds asserted at lines 76 and 77; the node's own computation is not in
  the repository.
- A node updates a peer's counters and its totals in one step.
- The masternode dialled node 0 during network setup (the direction is not
  said in the script; lines 132 to 136 count node 1's connections only).
- `connect_nodes` is one step: it returns when both nodes list the
  connection. A node accepts a second connection to a node it is connected
  to, as lines 58, 59 and 73 need (three connections of node 0).
- A node closes a socket only when its network is off or the other end has
  closed; no connection is lost otherwise during the test.
- The connections do not change during `_test_getnettotals`.
- A node dials an added node it has no connection with, at a time of its
  own choosing, and `addnode` of an address already added is an error.
- `add_p2p_connection` returns when the node lists the connection;
  `disconnect_p2ps` closes the script's end and does not wait for the node.
- A node's service bits are the same for the three nodes (`LocalServices`).
- Node 0's address manager is empty before the `addr` message of line 180:
  the nodes of the test, all on one machine, tell each other no addresses.
  Of the addresses it has, `getnodeaddresses(count)` hands out `count`, or
  all when there are fewer, and it refuses a count below 1 (line 193; what a
  count of 0 gets is not shown by the script).
- `disablewallet.py`: an error for want of a wallet has the message of an
  RPC that does not exist; mining fails only with the two messages the
  script names.
- `generate(6)` is one block: the script needs confirmation, not depth.
- Relay loses nothing: the nodes are connected for the length of the test.
- The median time of a chain's tip grows with its height.
- A private key written inside a descriptor (lines 588 to 596) is read as its
  public key: private keys come from `keys` alone. The script asserts only
  the key origin of that import.
- A descriptor string may come without a checksum (spec.md 4.1: "if one was
  supplied"), and a string that does not parse is answered -5, "Descriptor
  is invalid"; the script sends only strings that parse.
- A key keeps the origin the wallet has for it when a later import of the
  same key states none; the script imports no key twice with and without.
- An extended key written without an origin is its own master: its children
  carry its fingerprint. Every extended key of the requests ends in `/*`.
- The path of a key a wallet derives from its own seed is one hardened step,
  the index of the key; the script compares such paths only for equality.
- A wallet writes what a call changed to its file before the call returns,
  and a restart is a clean stop: a crash in the middle of a call is not
  modelled, as nothing in the script or in spec.md says what it would leave.
- Requests with private keys are not sent to the wallet without private
  keys: the script sends none and spec.md does not say what is answered.

## 6. Not modelled, and plan

- **importmulti in every order, further**: `wallet_imports` has the
  requests about one key, the key pools and the ranges; the 2-of-3 multisig
  of lines 310 to 391, which needs the coin node 1 paid, and the imports with
  a wrong key are checked along the script's one path only
  (`importmulti_script`).
- **Descriptor text, further**: the characters of keys, fingerprints and
  numbers, and the arithmetic of the checksum (a checksum is what tells two
  strings apart). The templates the script never writes (`wpkh`, `wsh`,
  `combo`, `addr`, `raw`) are not in the grammar of `DescriptorText`.
- **The address manager's tables**: which addresses collide is the node's
  hashing, of which the script says only that it happens (line 195); the
  model lets any of the addresses sent be the ones lost, up to
  `MaxCollisions`. A limit on the share of its addresses a node hands out
  is not modelled either: the script does not show one.
- **The BIP 174 vectors** of `rpc_psbt.py` lines 150 to 199: the loops are
  there, the texts they run over are in `data/rpc_psbt.json`, which is not in
  the repository. `PsbtRpc` makes the same calls on texts of its own.
- **PSBT bytes**: lengths, compact sizes and the encoding of the transaction
  inside are not modelled; a map is the set of its entries. Fields of BIP 174
  that neither the script nor spec.md uses (sighash type, key derivation
  paths, witness data) are not told apart from each other.
- The test framework (`sync_all`, `wait_until`, `connect_nodes`) is not in
  `src/`; its operations are modelled where a script uses them.
