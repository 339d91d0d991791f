-------------------------- MODULE ImportMultiScript --------------------------
(***************************************************************************)
(* test/functional/wallet_importmulti.py as a program: run_test, paragraph *)
(* by paragraph, as a sequence of instructions, and one action for each    *)
(* kind of call it makes on its two nodes.  The nodes are not connected    *)
(* (setup_network only starts them): node 0 makes the keys, node 1 imports *)
(* them, and each has a chain of its own.                                  *)
(*                                                                         *)
(* An instruction is a record; what it passes to the call is written with  *)
(* the script's variables (env) and is read when the script gets there.    *)
(* A key namedtuple of get_key is the key: p2pkh_addr and p2pkh_script are *)
(* Pkh(key), as an address when inside [address |-> ...].                  *)
(***************************************************************************)
EXTENDS Wallet, TLC

CONSTANTS CoinbaseMaturity   \* blocks before a node can spend what it mined (100)

VARIABLES
    pc,       \* the instruction the script is at
    env,      \* the variables of run_test
    failed,   \* 0, or the instruction whose call or assertion failed
    wallet,   \* the wallets as loaded: "node0", "node1" and, once made, "noprivkeys"
    file,     \* the wallets as on disk
    height,   \* per node, the height of its chain
    paid      \* the addresses node 1's wallet has paid to

vars == <<pc, env, failed, wallet, file, height, paid>>

Nodes   == {"node0", "node1"}
Wallets == {"node0", "node1", "noprivkeys"}

\* The node a wallet is loaded in.
NodeOf(w) == IF w = "node0" THEN "node0" ELSE "node1"

\* mediantime of the tip, and so "now" of an import: later on a longer chain.
MedianTime(n) == height[n]

\* What a variable of the script holds before its assignment.
NoKey  == [by |-> "nobody", i |-> 0]
NoInfo == GetAddressInfo(NewWallet("nobody", TRUE), Pkh(NoKey)) @@ [address |-> Pkh(NoKey)]

Address(s)         == [address |-> s]
Error(code, message) == [code |-> code, message |-> message]

\* (2 << 31 + 1) of the script is 2 << 32: four times the first index that
\* is too high.
TooHigh == 4 * 2 ^ IndexBits

-----------------------------------------------------------------------------
(* The instructions *)

generate(node, n)       == [op |-> "generate", node |-> node, n |-> n]
mediantime              == [op |-> "mediantime"]
get_key(out)            == [op |-> "get_key", out |-> out]
get_multisig            == [op |-> "get_multisig"]
getnewaddress(w, out)   == [op |-> "getnewaddress", wallet |-> w, out |-> out]
getrawchangeaddress(w, out) == [op |-> "getrawchangeaddress", wallet |-> w, out |-> out]
getaddressinfo(w, address, out) ==
    [op |-> "getaddressinfo", wallet |-> w, address |-> address, out |-> out]
dumpprivkey(w, address, out) ==
    [op |-> "dumpprivkey", wallet |-> w, address |-> address, out |-> out]
sendtoaddress(address)  == [op |-> "sendtoaddress", address |-> address]
listunspent(address)    == [op |-> "listunspent", address |-> address]
importmulti(w, requests) == [op |-> "importmulti", wallet |-> w, requests |-> requests]
assert_raises_rpc_error(error, requests) ==
    [op |-> "assert_raises_rpc_error", error |-> error, requests |-> requests]
createwallet(name)      == [op |-> "createwallet", name |-> name]
getwalletinfo(w, expect) == [op |-> "getwalletinfo", wallet |-> w, expect |-> expect]
restart                 == [op |-> "restart"]
assign(out, value)      == [op |-> "assign", out |-> out, value |-> value]
assert_that(ok)         == [op |-> "assert", ok |-> ok]
test_importmulti(req, success, error, warnings) ==
    [op |-> "test_importmulti", req |-> req, success |-> success, error |-> error,
     warnings |-> warnings]
test_address(address, expect) ==
    [op |-> "test_address", address |-> address, expect |-> expect]

\* The requests the script makes again and again.
Now(req)  == req @@ [timestamp |-> "now"]
Keypool(k, internal) ==
    Now([desc |-> descsum_create(Fn("pkh", <<Key(k)>>)), keypool |-> TRUE])
    @@ IF internal THEN [internal |-> TRUE] ELSE << >>

InternalNeeded == Error(-8, "Internal must be set to true for nonstandard scriptPubKey imports.")

-----------------------------------------------------------------------------
(* run_test: the chain, and imports of one key *)

Mining == <<
    generate("node0", 1),
    generate("node1", 1),
    mediantime,
    getnewaddress("node0", "addr"),
    getaddressinfo("node0", env.addr, "node0_address1"),
    assert_that(env.node0_address1.ismine),
    assert_that(height["node1"] = 1),
    getaddressinfo("node1", env.node0_address1.address, "address_info"),
    assert_that(~env.address_info.iswatchonly /\ ~env.address_info.ismine) >>

ImportAddress == <<
    get_key("key"),
    test_importmulti(Now([scriptPubKey |-> Address(Pkh(env.key))]), TRUE, None, {}),
    test_address(Pkh(env.key), [iswatchonly |-> TRUE, ismine |-> FALSE,
                                timestamp |-> env.timestamp, ischange |-> FALSE]),
    assign("watchonly_address", Pkh(env.key)),
    assign("watchonly_timestamp", env.timestamp),
    test_importmulti(Now([scriptPubKey |-> Address([t |-> "invalid"])]), FALSE,
                     Error(-5, "Invalid address"), {}) >>

ImportInternal == <<
    get_key("key"),
    test_importmulti(Now([scriptPubKey |-> Pkh(env.key), internal |-> TRUE]), TRUE, None, {}),
    test_address(Pkh(env.key), [iswatchonly |-> TRUE, ismine |-> FALSE,
                                timestamp |-> env.timestamp, ischange |-> TRUE]),
    get_key("key"),
    test_importmulti(Now([scriptPubKey |-> Pkh(env.key), internal |-> TRUE,
                          label |-> "Example label"]), FALSE,
                     Error(-8, "Internal addresses should not have a label"), {}) >>

ImportNonStandard == <<
    assign("nonstandardScriptPubKey", NonStandard(Pkh(env.key))),
    get_key("key"),
    test_importmulti(Now([scriptPubKey |-> env.nonstandardScriptPubKey]), FALSE,
                     InternalNeeded, {}),
    test_address(Pkh(env.key), [iswatchonly |-> FALSE, ismine |-> FALSE, timestamp |-> None]) >>

ImportPubkey == <<
    get_key("key"),
    test_importmulti(Now([scriptPubKey |-> Address(Pkh(env.key)), pubkeys |-> {env.key},
                          internal |-> FALSE]), TRUE, None, {SomeKeysMissing}),
    test_address(Pkh(env.key), [iswatchonly |-> TRUE, ismine |-> FALSE,
                                timestamp |-> env.timestamp]),
    get_key("key"),
    test_importmulti(Now([scriptPubKey |-> Pkh(env.key), pubkeys |-> {env.key},
                          internal |-> TRUE]), TRUE, None, {SomeKeysMissing}),
    test_address(Pkh(env.key), [iswatchonly |-> TRUE, ismine |-> FALSE,
                                timestamp |-> env.timestamp]),
    get_key("key"),
    test_importmulti(Now([scriptPubKey |-> env.nonstandardScriptPubKey,
                          pubkeys |-> {env.key}]), FALSE, InternalNeeded, {}),
    test_address(Pkh(env.key), [iswatchonly |-> FALSE, ismine |-> FALSE, timestamp |-> None]) >>

ImportPrivkey == <<
    get_key("key"),
    test_importmulti(Now([scriptPubKey |-> Address(Pkh(env.key)), keys |-> {env.key}]),
                     TRUE, None, {}),
    test_address(Pkh(env.key), [iswatchonly |-> FALSE, ismine |-> TRUE,
                                timestamp |-> env.timestamp]),
    test_importmulti(Now([scriptPubKey |-> Address(Pkh(env.key)), keys |-> {env.key}]), FALSE,
                     Error(-4, "The wallet already contains the private key for this address or script"),
                     {}),
    get_key("key"),
    test_importmulti(Now([scriptPubKey |-> Address(Pkh(env.key)), keys |-> {env.key},
                          watchonly |-> TRUE]), TRUE, None, {AllKeysProvided}),
    test_address(Pkh(env.key), [iswatchonly |-> FALSE, ismine |-> TRUE,
                                timestamp |-> env.timestamp]),
    get_key("key"),
    test_importmulti(Now([scriptPubKey |-> Pkh(env.key), keys |-> {env.key},
                          internal |-> TRUE]), TRUE, None, {}),
    test_address(Pkh(env.key), [iswatchonly |-> FALSE, ismine |-> TRUE,
                                timestamp |-> env.timestamp]),
    get_key("key"),
    test_importmulti(Now([scriptPubKey |-> env.nonstandardScriptPubKey, keys |-> {env.key}]),
                     FALSE, InternalNeeded, {}),
    test_address(Pkh(env.key), [iswatchonly |-> FALSE, ismine |-> FALSE, timestamp |-> None]) >>

-----------------------------------------------------------------------------
(* run_test: a 2-of-3 multisig that node 1 has paid *)

P2sh      == Sh(Multi(2, env.multisig))
TwoOfThree == {env.multisig[1], env.multisig[2]}

\* Every P2SH paragraph starts alike: a fresh multisig, coins old enough to
\* pay it, the payment confirmed, the time of the new tip.
Funded == <<
    get_multisig,
    generate("node1", 100),
    sendtoaddress(P2sh),
    generate("node1", 1),
    mediantime >>

Unspent(solvable) == <<
    listunspent(P2sh),
    assert_that(~env.p2shunspent.spendable),
    assert_that(env.p2shunspent.solvable = solvable) >>

ImportP2sh ==
    Funded \o <<
    test_importmulti(Now([scriptPubKey |-> Address(P2sh)]), TRUE, None, {}),
    test_address(P2sh, [isscript |-> TRUE, iswatchonly |-> TRUE,
                        timestamp |-> env.timestamp]) >>
    \o Unspent(FALSE)

ImportP2shRedeem ==
    Funded \o <<
    test_importmulti(Now([scriptPubKey |-> Address(P2sh),
                          redeemscript |-> Multi(2, env.multisig)]),
                     TRUE, None, {SomeKeysMissing}),
    test_address(P2sh, [timestamp |-> env.timestamp, iswatchonly |-> TRUE,
                        ismine |-> FALSE, solvable |-> TRUE]) >>
    \o Unspent(TRUE)

ImportP2shKeys ==
    Funded \o <<
    test_importmulti(Now([scriptPubKey |-> Address(P2sh),
                          redeemscript |-> Multi(2, env.multisig), keys |-> TwoOfThree]),
                     TRUE, None, {SomeKeysMissing}),
    test_address(P2sh, [timestamp |-> env.timestamp, ismine |-> FALSE,
                        iswatchonly |-> TRUE, solvable |-> TRUE]) >>
    \o Unspent(TRUE)
    \o Funded \o <<
    test_importmulti(Now([scriptPubKey |-> Address(P2sh),
                          redeemscript |-> Multi(2, env.multisig), keys |-> TwoOfThree,
                          watchonly |-> TRUE]), TRUE, None, {}),
    test_address(P2sh, [iswatchonly |-> TRUE, ismine |-> FALSE, solvable |-> TRUE,
                        timestamp |-> env.timestamp]) >>

-----------------------------------------------------------------------------
(* run_test: keys that are not the address's *)

AsNonSolvable ==
    test_address(Pkh(env.key), [iswatchonly |-> TRUE, ismine |-> FALSE, solvable |-> FALSE,
                                timestamp |-> env.timestamp])

ImportWrongPubkey == <<
    get_key("key"),
    get_key("wrong_key"),
    test_importmulti(Now([scriptPubKey |-> Address(Pkh(env.key)), pubkeys |-> {env.wrong_key}]),
                     TRUE, None, {NonSolvable, SomeKeysMissing}),
    AsNonSolvable,
    get_key("key"),
    get_key("wrong_key"),
    test_importmulti(Now([scriptPubKey |-> Pkh(env.key), pubkeys |-> {env.wrong_key},
                          internal |-> TRUE]), TRUE, None, {NonSolvable, SomeKeysMissing}),
    AsNonSolvable >>

ImportWrongPrivkey == <<
    get_key("key"),
    get_key("wrong_privkey"),
    test_importmulti(Now([scriptPubKey |-> Address(Pkh(env.key)), keys |-> {env.wrong_privkey}]),
                     TRUE, None, {NonSolvable, SomeKeysMissing}),
    AsNonSolvable,
    get_key("key"),
    get_key("wrong_privkey"),
    test_importmulti(Now([scriptPubKey |-> Pkh(env.key), keys |-> {env.wrong_privkey},
                          internal |-> TRUE]), TRUE, None, {NonSolvable, SomeKeysMissing}),
    AsNonSolvable >>

-----------------------------------------------------------------------------
(* run_test: the timestamp of a watch-only address, and a restart *)

ReplaceTimestamp == <<
    assert_that(env.timestamp > env.watchonly_timestamp),
    test_importmulti(Now([scriptPubKey |-> Address(env.watchonly_address)]), TRUE, None, {}),
    test_address(env.watchonly_address, [iswatchonly |-> TRUE, ismine |-> FALSE,
                                         timestamp |-> env.timestamp]),
    assign("watchonly_timestamp", env.timestamp) >>

RestartWatchOnly == <<
    restart,
    test_address(env.watchonly_address, [iswatchonly |-> TRUE, ismine |-> FALSE,
                                         timestamp |-> env.watchonly_timestamp]) >>

BadTimestamps == <<
    assert_raises_rpc_error(Error(-3, "Missing required timestamp field for key"),
                            <<[scriptPubKey |-> Pkh(env.key)]>>),
    assert_raises_rpc_error(
        Error(-3, "Expected number or \"now\" timestamp value for key. got type string"),
        <<[scriptPubKey |-> Pkh(env.key), timestamp |-> ""]>>) >>

-----------------------------------------------------------------------------
(* run_test: descriptors *)

\* desc: "sh(pkh(" + xpriv + "/0'/0'/*'" + "))", with its checksum
XprivDesc ==
    descsum_create(Fn("sh", <<Fn("pkh",
        <<Children(Key(XKey("xpriv")), <<PathStep(0, "'"), PathStep(0, "'")>>, "'")>>)>>))

RangeRefused(range, message) ==
    test_importmulti(Now([desc |-> XprivDesc, range |-> range]), FALSE, Error(-8, message), {})

ImportRanged == <<
    test_importmulti(Now([desc |-> XprivDesc]), FALSE,
                     Error(-8, "Descriptor is ranged, please specify the range"), {}),
    test_importmulti(Now([desc |-> XprivDesc, range |-> Upto(1)]), TRUE, None,
                     {SomeKeysMissing}),
    RangeRefused(Upto(-1), "End of range is too high"),
    RangeRefused(FromTo(-1, 10), "Range should be greater or equal than 0"),
    RangeRefused(FromTo(TooHigh - 1000000, TooHigh), "End of range is too high"),
    RangeRefused(FromTo(2, 1), "Range specified as [begin,end] must not have begin after end"),
    RangeRefused(FromTo(0, 1000001), "Range is too large") >>

ImportDescriptor == <<
    get_key("key"),
    test_importmulti(Now([desc |-> descsum_create(Fn("pkh", <<Key(env.key)>>)),
                          label |-> "Descriptor import test"]), TRUE, None, {SomeKeysMissing}),
    test_address(Pkh(env.key), [solvable |-> TRUE, ismine |-> FALSE,
                                label |-> "Descriptor import test"]),
    get_key("key"),
    test_importmulti(Now([desc |-> descsum_create(Fn("pkh", <<Key(env.key)>>)),
                          scriptPubKey |-> Address(Pkh(env.key))]), FALSE,
                     Error(-8, "Both a descriptor and a scriptPubKey should not be provided."), {}),
    get_key("key"),
    test_importmulti(Now(<< >>), FALSE,
                     Error(-8, "Either a descriptor or scriptPubKey must be provided."), {}),
    get_key("key1"),
    get_key("key2"),
    test_importmulti(Now([desc |-> descsum_create(Fn("multi",
                              <<Number(1), Key(env.key1), Key(env.key2)>>))]),
                     TRUE, None, {SomeKeysMissing}),
    test_address(Pkh(env.key1), [ismine |-> FALSE, iswatchonly |-> FALSE]) >>

-----------------------------------------------------------------------------
(* run_test: key origins *)

\* "pkh([" + fpr + keypath[1:] + "]" + key + ")": the path without its "m"
WithOrigin(fpr, keypath, key) ==
    descsum_create(Fn("pkh", <<From(fpr, Tail(keypath), Key(key))>>))

\* result[n - 1]['success']
Succeeded(n) == Len(env.result) >= n /\ env.result[n].success

ImportOrigins == <<
    getnewaddress("node1", "pub_addr"),
    getnewaddress("node1", "pub_addr"),
    getaddressinfo("node1", env.pub_addr, "info"),
    assign("pub", env.info.pubkey),
    assign("pub_keypath", env.info.hdkeypath),
    assign("pub_fpr", env.info.hdmasterfingerprint),
    importmulti("node0", <<Now([desc |->
        WithOrigin(env.pub_fpr, env.pub_keypath, env.pub)])>>),
    assert_that(Succeeded(1)),
    getaddressinfo("node0", env.pub_addr, "pub_import_info"),
    assert_that(/\ env.pub_import_info.hdmasterfingerprint = env.pub_fpr
                /\ env.pub_import_info.pubkey = env.pub
                /\ env.pub_import_info.hdkeypath = env.pub_keypath),
    getnewaddress("node1", "priv_addr"),
    getaddressinfo("node1", env.priv_addr, "info"),
    dumpprivkey("node1", env.priv_addr, "priv"),
    assign("priv_keypath", env.info.hdkeypath),
    assign("priv_fpr", env.info.hdmasterfingerprint),
    importmulti("node0", <<Now([desc |->
        WithOrigin(env.priv_fpr, env.priv_keypath, env.priv)])>>),
    assert_that(Succeeded(1)),
    getaddressinfo("node0", env.priv_addr, "priv_import_info"),
    assert_that(/\ env.priv_import_info.hdmasterfingerprint = env.priv_fpr
                /\ env.priv_import_info.hdkeypath = env.priv_keypath) >>

RestartOrigins == <<
    restart,
    getaddressinfo("node0", env.pub_addr, "import_info"),
    assert_that(/\ env.import_info.hdmasterfingerprint = env.pub_fpr
                /\ env.import_info.hdkeypath = env.pub_keypath),
    getaddressinfo("node0", env.priv_addr, "import_info"),
    assert_that(/\ env.import_info.hdmasterfingerprint = env.priv_fpr
                /\ env.import_info.hdkeypath = env.priv_keypath) >>

ImportLegacyPubkey == <<
    getnewaddress("node1", "pub_addr"),
    getaddressinfo("node1", env.pub_addr, "info"),
    assign("pub", env.info.pubkey),
    importmulti("node0", <<Now([scriptPubKey |-> Address(env.pub_addr),
                                pubkeys |-> {env.pub}])>>),
    assert_that(Succeeded(1)),
    getaddressinfo("node0", env.pub_addr, "pub_import_info"),
    assert_that(/\ env.pub_import_info.pubkey = env.pub
                /\ env.pub_import_info.hdmasterfingerprint = None
                /\ env.pub_import_info.hdkeypath = None) >>

-----------------------------------------------------------------------------
(* run_test: the key pool of a wallet without private keys *)

\* addr1 and addr2 of node 0; pub1 and pub2 are their keys.
TwoAddresses == <<
    getnewaddress("node0", "addr1"),
    getnewaddress("node0", "addr2") >>

KeypoolExternal ==
    <<createwallet("noprivkeys")>> \o TwoAddresses \o <<
    importmulti("noprivkeys", <<Keypool(env.addr1.key, FALSE), Keypool(env.addr2.key, FALSE)>>),
    assert_that(Succeeded(1)),
    assert_that(Succeeded(2)),
    getwalletinfo("noprivkeys", [keypoolsize |-> 2]),
    getnewaddress("noprivkeys", "newaddr1"),
    assert_that(env.addr1 = env.newaddr1),
    getnewaddress("noprivkeys", "newaddr2"),
    assert_that(env.addr2 = env.newaddr2) >>

KeypoolInternal ==
    TwoAddresses \o <<
    importmulti("noprivkeys", <<Keypool(env.addr1.key, TRUE), Keypool(env.addr2.key, TRUE)>>),
    assert_that(Succeeded(1)),
    assert_that(Succeeded(2)),
    getwalletinfo("noprivkeys", [keypoolsize_hd_internal |-> 2]),
    getrawchangeaddress("noprivkeys", "newaddr1"),
    assert_that(env.addr1 = env.newaddr1),
    getrawchangeaddress("noprivkeys", "newaddr2"),
    assert_that(env.addr2 = env.newaddr2) >>

KeypoolRefusals ==
    TwoAddresses \o <<
    importmulti("noprivkeys", <<Now([keypool |-> TRUE, desc |->
        descsum_create(Fn("sh", <<Fn("multi",
            <<Number(2), Key(env.addr1.key), Key(env.addr2.key)>>)>>))])>>),
    assert_that(Succeeded(1)),
    getwalletinfo("noprivkeys", [keypoolsize |-> 0]),
    getwalletinfo("node1", [private_keys_enabled |-> TRUE]),
    importmulti("node1", <<Keypool(env.addr1.key, FALSE)>>),
    assert_that(/\ Len(env.result) >= 1
                /\ env.result[1].error = Error(-8,
                     "Keys can only be imported to the keypool when private keys are disabled")) >>

\* 'pkh([80002067/0h/0h]' + xpub + '/*)'; addresses[i] is the address of
\* m/0'/0'/i.
XpubDesc ==
    descsum_create(Fn("pkh", <<From("80002067", <<PathStep(0, "h"), PathStep(0, "h")>>,
                                    Children(Key(XKey("xpub")), << >>, ""))>>))

KeypoolRanged == <<
    getwalletinfo("noprivkeys", [keypoolsize |-> 0]),
    getwalletinfo("noprivkeys", [private_keys_enabled |-> FALSE]),
    importmulti("noprivkeys", <<Now([desc |-> XpubDesc, keypool |-> TRUE,
                                     range |-> FromTo(0, 4)])>>) >>
    \o FlattenSeq([i \in 1..5 |-> <<
           getnewaddress("noprivkeys", "addr"),
           assert_that(env.addr = Pkh([by |-> "xpub", i |-> i - 1])) >>])

Program ==
    Mining \o ImportAddress \o ImportInternal \o ImportNonStandard \o ImportPubkey
    \o ImportPrivkey \o ImportP2sh \o ImportP2shRedeem \o ImportP2shKeys
    \o ImportWrongPubkey \o ImportWrongPrivkey \o ReplaceTimestamp \o RestartWatchOnly
    \o BadTimestamps \o ImportRanged \o ImportDescriptor \o ImportOrigins \o RestartOrigins
    \o ImportLegacyPubkey \o KeypoolExternal \o KeypoolInternal \o KeypoolRefusals
    \o KeypoolRanged

End == Len(Program) + 1
I   == Program[pc]

-----------------------------------------------------------------------------
(* The state *)

Init ==
    /\ pc = 1
    /\ failed = 0
    /\ env = [timestamp |-> 0, watchonly_timestamp |-> 0,
              key |-> NoKey, wrong_key |-> NoKey, wrong_privkey |-> NoKey,
              key1 |-> NoKey, key2 |-> NoKey, pub |-> NoKey, priv |-> NoKey,
              multisig |-> <<NoKey, NoKey, NoKey>>,
              nonstandardScriptPubKey |-> Pkh(NoKey), watchonly_address |-> Pkh(NoKey),
              addr |-> Pkh(NoKey), addr1 |-> Pkh(NoKey), addr2 |-> Pkh(NoKey),
              newaddr1 |-> Pkh(NoKey), newaddr2 |-> Pkh(NoKey),
              pub_addr |-> Pkh(NoKey), priv_addr |-> Pkh(NoKey),
              node0_address1 |-> NoInfo, address_info |-> NoInfo, info |-> NoInfo,
              pub_import_info |-> NoInfo, priv_import_info |-> NoInfo, import_info |-> NoInfo,
              pub_keypath |-> <<Root>>, pub_fpr |-> None, priv_keypath |-> <<Root>>,
              priv_fpr |-> None,
              p2shunspent |-> [spendable |-> FALSE, solvable |-> FALSE],
              result |-> << >>]
    /\ wallet = [w \in Nodes |-> NewWallet(w, TRUE)]
    /\ file = wallet
    /\ height = [n \in Nodes |-> 0]
    /\ paid = {}

At(op) == failed = 0 /\ pc < End /\ I.op = op

Advance == pc' = pc + 1 /\ failed' = failed
Fail    == pc' = pc /\ failed' = pc

\* The call returned what the script goes on with, or it did not.
Settle(ok) == IF ok THEN Advance ELSE Fail

Let(x, value) == env' = [env EXCEPT ![x] = value]

\* A wallet writes what it changes to its file before the call returns.
Commit(w, value) ==
    /\ wallet' = [wallet EXCEPT ![w] = value]
    /\ file' = [file EXCEPT ![w] = value]

Loaded(w) == w \in DOMAIN wallet

-----------------------------------------------------------------------------
(* The calls on the chain *)

Generate ==
    /\ At("generate")
    /\ height' = [height EXCEPT ![I.node] = @ + I.n]
    /\ Advance
    /\ UNCHANGED <<env, wallet, file, paid>>

\* getblock(getbestblockhash())['mediantime'] of node 1
ReadMedianTime ==
    /\ At("mediantime")
    /\ Let("timestamp", MedianTime("node1"))
    /\ Advance
    /\ UNCHANGED <<wallet, file, height, paid>>

\* Node 1 has a coinbase of its own that is old enough to spend.
CanPay == height["node1"] > CoinbaseMaturity

SendToAddress ==
    /\ At("sendtoaddress")
    /\ paid' = IF CanPay THEN paid \cup {I.address} ELSE paid
    /\ Settle(CanPay)
    /\ UNCHANGED <<env, wallet, file, height>>

\* listunspent(0, 999999, [address])[0]: an output the wallet counts as its
\* own, or watches.
ListUnspent ==
    /\ At("listunspent")
    /\ LET w == wallet["node1"]
           found == I.address \in paid /\ IsMine(w, I.address)
       IN  /\ Let("p2shunspent", IF found THEN [spendable |-> Spendable(w, I.address),
                                               solvable |-> Solvable(w, I.address)]
                                 ELSE env.p2shunspent)
           /\ Settle(found)
    /\ UNCHANGED <<wallet, file, height, paid>>

-----------------------------------------------------------------------------
(* The calls that make keys *)

\* get_key: a fresh address of node 0, its public and its private key.
GetKey ==
    /\ At("get_key")
    /\ LET a == GetNewAddress(wallet["node0"], MedianTime("node0"))
       IN  Commit("node0", a.wallet) /\ Let(I.out, a.address.key)
    /\ Advance
    /\ UNCHANGED <<height, paid>>

\* get_multisig: three fresh keys of node 0, in the order of the script.
GetMultisig ==
    /\ At("get_multisig")
    /\ LET Fresh(acc, n) ==
               LET a == GetNewAddress(acc.wallet, MedianTime("node0"))
               IN  [wallet |-> a.wallet, keys |-> Append(acc.keys, a.address.key)]
           made == FoldLeft(Fresh, [wallet |-> wallet["node0"], keys |-> << >>], <<1, 2, 3>>)
       IN  Commit("node0", made.wallet) /\ Let("multisig", made.keys)
    /\ Advance
    /\ UNCHANGED <<height, paid>>

\* getnewaddress and getrawchangeaddress fail on an empty key pool.
HandOut(a) ==
    /\ Commit(I.wallet, a.wallet)
    /\ Let(I.out, IF a.address = None THEN env[I.out] ELSE a.address)
    /\ Settle(a.address # None)
    /\ UNCHANGED <<height, paid>>

GetNewAddressCall ==
    /\ At("getnewaddress")
    /\ Loaded(I.wallet)
    /\ HandOut(GetNewAddress(wallet[I.wallet], MedianTime(NodeOf(I.wallet))))

GetRawChangeAddressCall ==
    /\ At("getrawchangeaddress")
    /\ Loaded(I.wallet)
    /\ HandOut(GetRawChangeAddress(wallet[I.wallet]))

DumpPrivKey ==
    /\ At("dumpprivkey")
    /\ LET held == I.address.key \in wallet[I.wallet].priv
       IN  Let(I.out, IF held THEN I.address.key ELSE env[I.out]) /\ Settle(held)
    /\ UNCHANGED <<wallet, file, height, paid>>


-----------------------------------------------------------------------------
(* The calls that read a wallet *)

GetAddressInfoCall ==
    /\ At("getaddressinfo")
    /\ Loaded(I.wallet)
    /\ Let(I.out, GetAddressInfo(wallet[I.wallet], I.address) @@ [address |-> I.address])
    /\ Advance
    /\ UNCHANGED <<wallet, file, height, paid>>

\* What is expected of an answer: the value, or None for a key it must not have.
Matches(answer, expect) == \A f \in DOMAIN expect : answer[f] = expect[f]

\* assert_equal(wrpc.getwalletinfo()[...], ...)
GetWalletInfoCall ==
    /\ At("getwalletinfo")
    /\ Loaded(I.wallet)
    /\ Settle(Matches(GetWalletInfo(wallet[I.wallet]), I.expect))
    /\ UNCHANGED <<env, wallet, file, height, paid>>

\* test_address: getaddressinfo of node 1 against the keyword arguments.
TestAddress ==
    /\ At("test_address")
    /\ Settle(Matches(GetAddressInfo(wallet["node1"], I.address), I.expect))
    /\ UNCHANGED <<env, wallet, file, height, paid>>

Assign ==
    /\ At("assign")
    /\ Let(I.out, I.value)
    /\ Advance
    /\ UNCHANGED <<wallet, file, height, paid>>

AssertThat ==
    /\ At("assert")
    /\ Settle(I.ok)
    /\ UNCHANGED <<env, wallet, file, height, paid>>

-----------------------------------------------------------------------------
(* importmulti, and the wallets themselves *)

\* test_importmulti: one request to node 1; the warnings, the success and,
\* when the script names one, the error of the answer are compared.
TestImportMulti ==
    /\ At("test_importmulti")
    /\ LET r == ImportMulti(wallet["node1"], <<I.req>>, MedianTime("node1"))
       IN  /\ Commit("node1", r.wallet)
           /\ Settle(/\ r.raised = None
                     /\ r.result[1].warnings = I.warnings
                     /\ r.result[1].success = I.success
                     /\ I.error # None => r.result[1].error = I.error)
    /\ UNCHANGED <<env, height, paid>>

\* importmulti called directly: the answers go to result.
ImportMultiCall ==
    /\ At("importmulti")
    /\ Loaded(I.wallet)
    /\ LET r == ImportMulti(wallet[I.wallet], I.requests, MedianTime(NodeOf(I.wallet)))
       IN  /\ Commit(I.wallet, r.wallet)
           /\ Let("result", r.result)
           /\ Settle(r.raised = None)
    /\ UNCHANGED <<height, paid>>

\* assert_raises_rpc_error: the call must fail as a whole, with this error.
ImportMultiRaises ==
    /\ At("assert_raises_rpc_error")
    /\ LET r == ImportMulti(wallet["node1"], I.requests, MedianTime("node1"))
       IN  Commit("node1", r.wallet) /\ Settle(r.raised = I.error)
    /\ UNCHANGED <<env, height, paid>>

\* (mutant) the new wallet is not written to disk.
CreateWalletUnsaved ==
    /\ At("createwallet")
    /\ ~Loaded(I.name)
    /\ wallet' = (I.name :> NewWallet(I.name, FALSE)) @@ wallet
    /\ Advance
    /\ UNCHANGED <<env, file, height, paid>>

\* createwallet(wallet_name, disable_private_keys=True) on node 1
CreateWallet ==
    /\ At("createwallet")
    /\ ~Loaded(I.name)
    /\ wallet' = (I.name :> NewWallet(I.name, FALSE)) @@ wallet
    /\ file' = (I.name :> NewWallet(I.name, FALSE)) @@ file
    /\ Advance
    /\ UNCHANGED <<env, height, paid>>

\* (mutant) a node comes back with new wallets.
RestartEmpty ==
    /\ At("restart")
    /\ wallet' = [w \in DOMAIN file |-> NewWallet(w, TRUE)]
    /\ Advance
    /\ UNCHANGED <<env, file, height, paid>>

\* stop_nodes, start_nodes: what the nodes go on with is what is on disk.
Restart ==
    /\ At("restart")
    /\ wallet' = file
    /\ Advance
    /\ UNCHANGED <<env, file, height, paid>>

\* The script has run to its end, or has failed.
Stopped ==
    /\ failed # 0 \/ pc = End
    /\ UNCHANGED vars

Next ==
    \/ Generate \/ ReadMedianTime \/ SendToAddress \/ ListUnspent
    \/ GetKey \/ GetMultisig \/ GetNewAddressCall \/ GetRawChangeAddressCall \/ DumpPrivKey
    \/ GetAddressInfoCall \/ GetWalletInfoCall \/ TestAddress \/ Assign \/ AssertThat
    \/ TestImportMulti \/ ImportMultiCall \/ ImportMultiRaises \/ CreateWallet \/ Restart
    \/ Stopped

\* The script is one thread and every call of it returns: a call that could
\* not be made would leave the model with no step to take.
Spec == Init /\ [][Next]_vars

-----------------------------------------------------------------------------
(* Properties *)

IsKey(k) == DOMAIN k = {"by", "i"} /\ k.i \in Nat

IsWallet(w) ==
    /\ w.private_keys_enabled \in BOOLEAN /\ w.hd \in Nat
    /\ \A k \in w.priv \cup w.pub \cup DOMAIN w.meta : IsKey(k)
    /\ \A k \in ToSet(w.keypool) \cup ToSet(w.keypool_internal) : IsKey(k)
    /\ \A s \in DOMAIN w.watch : w.watch[s] \in Nat

\* The script is at one of its instructions or past the last, failed holds
\* the instruction that failed, and the wallets loaded are the wallets on
\* disk: createwallet and every call that changes a wallet write its file.
TypeOK ==
    /\ pc \in 1..End
    /\ failed \in {0, pc}
    /\ height \in [Nodes -> Nat]
    /\ Nodes \subseteq DOMAIN wallet /\ DOMAIN wallet \subseteq Wallets
    /\ file = wallet
    /\ \A w \in DOMAIN wallet : wallet[w].name = w /\ IsWallet(wallet[w])
    /\ \A s \in paid : HasAddress(s)

\* No call of wallet_importmulti.py answers anything but what the script
\* expects and no assertion of it fails: the answers test_importmulti and
\* test_address compare are those of a wallet that classifies and stores
\* as Wallet does, in the state the calls before left it in (the chain
\* as long as generate made it, the wallets as the restarts reloaded them).
ScriptPasses == failed = 0

\* spec.md 4.1: a range is refused with a message that tells its cause, so
\* "End of range is too high" is the answer only to a range whose end is
\* above the highest index.  (What the script expects of the range -1, at
\* line 506, is that message.)
RangeMessageTellsCause ==
    At("test_importmulti") /\ "range" \in DOMAIN I.req /\ I.error # None
        /\ I.error.message = "End of range is too high"
    => RangeOf(I.req.range).end >= 2 ^ IndexBits

\* spec.md 4.2, step 6 (and the open question of its section 9): an import
\* that supplies every private key its script needs without the watchonly
\* flag succeeds with the warning that all private keys are provided.  (The
\* script expects that warning of the import that sets the flag, line 273,
\* and none of the one that does not, line 248.)
WarnsOfKeysWithoutFlag ==
    At("test_importmulti") /\ I.success /\ "scriptPubKey" \in DOMAIN I.req
        /\ "keys" \in DOMAIN I.req /\ ~Field(I.req, "watchonly", FALSE)
        /\ UsedKeys(LegacyTarget(I.req), Field(I.req, "redeemscript", None)) \subseteq I.req.keys
    => AllKeysProvided \in I.warnings

=============================================================================
