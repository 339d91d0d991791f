--------------------------- MODULE WalletImports ---------------------------
(***************************************************************************)
(* One wallet of node 1 and a caller that makes the calls of               *)
(* test/functional/wallet_importmulti.py on it in any order: importmulti   *)
(* with one request or two, getnewaddress, getrawchangeaddress, the node   *)
(* stopped and started.  The script makes each call once, in one order, on *)
(* a wallet the calls before it prepared; here every request meets every   *)
(* wallet the others can leave behind.  No block is mined meanwhile: every *)
(* import has the same "now".                                              *)
(*                                                                         *)
(* The wallet is node 1's own (private keys enabled) or "noprivkeys"       *)
(* (line 632), chosen at the start.  The requests are the script's, over   *)
(* NumKeys keys of node 0 and one extended key, and the range of the       *)
(* ranged descriptor is every number and pair of numbers from -Negatives   *)
(* to Highest, so that every boundary the script's seven ranges (lines     *)
(* 499 to 519 and 730) are chosen around has a value on each side.  A      *)
(* descriptor comes as its string (module DescriptorText): with the origin *)
(* of its key as node 0 answers it, in either spelling of a hardened step, *)
(* without its checksum, with another string's, or not well formed.        *)
(***************************************************************************)
EXTENDS Wallet

CONSTANTS
    Negatives,    \* bound: a caller gives numbers from -Negatives
    Highest,      \* bound: up to Highest, as begin and end of a range
    NumKeys,      \* bound: keys of node 0 the requests are about
    MaxImports,   \* bound: calls of importmulti in a behaviour
    MaxDerived    \* bound: keys a wallet derives from its own seed

ASSUME Boundaries ==
    /\ Negatives > 0 /\ Highest > 2 ^ IndexBits /\ MaxSpan < 2 ^ IndexBits
    /\ NumKeys >= 2 /\ MaxImports > 0 /\ MaxDerived \in Nat

VARIABLES
    wallet,    \* the wallet as loaded
    file,      \* the wallet as on disk
    asked,     \* the requests of the last importmulti
    answer,    \* what it raised, and its answers, one for each request
    imports,   \* calls of importmulti so far
    wanted,    \* (history) per pool, the keys imports were to add, in order
    handed     \* (history) per pool, the addresses handed out, in order

vars == <<wallet, file, asked, answer, imports, wanted, handed>>

-----------------------------------------------------------------------------
(* The requests *)

Own     == {[by |-> "node0", i |-> i] : i \in 1..NumKeys}
Derived == {[by |-> "xpub", i |-> i] : i \in 0..(2 ^ IndexBits - 1)}

Numbers == (-Negatives)..Highest
Args    == {Upto(n) : n \in Numbers} \cup {FromTo(a, b) : a, b \in Numbers}

\* Median time of the tip, "now" of every import.
Tip == 0

Address(s) == [address |-> s]
Now(req)   == req @@ [timestamp |-> "now"]
With(flag, on) == IF on THEN flag :> TRUE ELSE << >>

\* pkh([80002067/0h/0h]xpub/*), and sh(multi(2, pub1, pub2))
Ranged ==
    descsum_create(Fn("pkh", <<From("80002067", <<PathStep(0, "h"), PathStep(0, "h")>>,
                                    Children(Key(XKey("xpub")), << >>, ""))>>))
TwoOfTwo ==
    descsum_create(Fn("sh", <<Fn("multi",
        <<Number(2)>> \o [j \in 1..2 |-> Key([by |-> "node0", i |-> j])])>>))

\* An address alone, with its public key, with its private key.
Watched(k)      == Now([scriptPubKey |-> Address(Pkh(k))])
WithPubkey(k)   == Now([scriptPubKey |-> Address(Pkh(k)), pubkeys |-> {k}])
WithKey(k)      == Now([scriptPubKey |-> Address(Pkh(k)), keys |-> {k}])

\* Public keys for a key pool: one key, a range of the extended key's.
Keypool(k, internal) ==
    Now([desc |-> descsum_create(Fn("pkh", <<Key(k)>>)), keypool |-> TRUE])
    @@ With("internal", internal)
KeypoolRanged(r, pool) == Now([desc |-> Ranged, range |-> r]) @@ With("keypool", pool)

\* What adds nothing to a pool, and a ranged descriptor without its range.
Scripted == Now([desc |-> TwoOfTwo, keypool |-> TRUE])
Unranged == Now([desc |-> Ranged])

\* Node 0's wallet once it has made its keys, and what its getaddressinfo
\* answers about one of them.
Node0 ==
    FoldLeft(LAMBDA w, n : GetNewAddress(w, Tip).wallet, NewWallet("node0", TRUE),
             [n \in 1..NumKeys |-> n])
Exported(k) == GetAddressInfo(Node0, Pkh(k))

\* The steps with mark for every mark of a hardened step.
Spelt(steps, mark) ==
    [n \in DOMAIN steps |-> IF steps[n].mark = "" THEN steps[n] ELSE PathStep(steps[n].i, mark)]

\* "pkh([" + fpr + keypath[1:] + "]" + pub + ")" (lines 575 and 593), the
\* path as node 0 writes it or with h, as line 732 does.
OriginString(k, mark) ==
    descsum_create(Fn("pkh", <<From(Exported(k).hdmasterfingerprint,
                                    Spelt(Tail(Exported(k).hdkeypath), mark), Key(k))>>))
WithOrigin(k, mark) == Now([desc |-> OriginString(k, mark)])

\* A string without its checksum.
Unsummed(k) == Now([desc |-> [text |-> Fn("pkh", <<Key(k)>>)]])

\* Strings that are none of a descriptor: one with the checksum of its
\* other spelling; the path with its "m", a name that is no function, and
\* more signatures than keys.
Mischecked(k) ==
    Now([desc |-> [OriginString(k, "h") EXCEPT !.sum = OriginString(k, "'").sum]])
Miswritten(k) ==
    {Now([desc |-> descsum_create(expr)]) : expr \in
        {Fn("pkh", <<From(Exported(k).hdmasterfingerprint, Exported(k).hdkeypath, Key(k))>>),
         Fn("pkhash", <<Key(k)>>),
         Fn("multi", <<Number(2), Key(k)>>)}}

\* Without its timestamp a request makes the whole call fail.
Undated == [scriptPubKey |-> Address(Pkh([by |-> "node0", i |-> 1]))]

\* What is asked of a wallet: private keys only of one that takes them, a
\* range for the key pool only of one that has a pool of imported keys.
Plain(w) ==
    {Watched(k) : k \in Own} \cup {WithPubkey(k) : k \in Own}
    \cup {Keypool(k, i) : k \in Own, i \in BOOLEAN}
    \cup {Scripted, Unranged, Undated}
    \cup {WithKey(k) : k \in {x \in Own : w.private_keys_enabled}}

\* Strings with an origin in either spelling, one without checksum, and
\* those that are none of a descriptor; two of them come in calls of two
\* requests as well.
First     == CHOOSE k \in Own : k.i = 1
InBatches == {WithOrigin(First, "h"), Mischecked(First)}
Strings   ==
    {WithOrigin(k, mark) : k \in Own, mark \in {"'", "h"}}
    \cup {Unsummed(First), Mischecked(First)} \cup Miswritten(First)

\* One request, or two in one call.
Calls(w) ==
    {<<KeypoolRanged(r, ~w.private_keys_enabled)>> : r \in Args}
    \cup {<<a>> : a \in Plain(w) \cup Strings}
    \cup {<<a, b>> : a, b \in Plain(w) \cup InBatches}

\* (reference) The keys a request is to add to a key pool, oldest first:
\* those of pkh() alone, a range from its begin to its end.
Pooled(req) ==
    LET r == RangeOf(req.range)
    IN  CASE ~Field(req, "keypool", FALSE) \/ req.desc.text.fn = "sh" -> << >>
          [] "range" \in DOMAIN req ->
                SetToSortSeq({k \in Derived : r.begin <= k.i /\ k.i <= r.end},
                             LAMBDA a, b : a.i < b.i)
          [] OTHER -> <<req.desc.text.args[1].key>>

\* (history) wanted, after a call with these answers.
Taken(requests, result) ==
    [internal \in BOOLEAN |->
        wanted[internal] \o FlattenSeq([i \in DOMAIN result |->
            IF result[i].success /\ Field(requests[i], "internal", FALSE) = internal
            THEN Pooled(requests[i]) ELSE << >>])]

\* No key is put into a pool twice: the script imports each key once.
Fresh(requests) ==
    LET keys == FlattenSeq([i \in DOMAIN requests |->
                    IF RangeError(Field(requests[i], "range", Upto(0))) = "none"
                    THEN Pooled(requests[i]) ELSE << >>])
    IN  /\ IsInjective(keys)
        /\ \A internal \in BOOLEAN : ToSet(keys) \cap ToSet(wanted[internal]) = {}

-----------------------------------------------------------------------------
(* The calls *)

Init ==
    /\ \E enabled \in BOOLEAN :
          wallet = NewWallet(IF enabled THEN "node1" ELSE "noprivkeys", enabled)
    /\ file = wallet
    /\ asked = << >>
    /\ answer = [raised |-> None, result |-> << >>]
    /\ imports = 0
    /\ wanted = [internal \in BOOLEAN |-> << >>]
    /\ handed = [internal \in BOOLEAN |-> << >>]

\* (mutant) a call changes the wallet in memory and leaves its file.
SaveInMemory(w) == wallet' = w /\ UNCHANGED file

\* Every call that changes the wallet writes its file.
Save(w) == wallet' = w /\ file' = w

ImportMultiCall ==
    /\ imports < MaxImports
    /\ \E requests \in Calls(wallet) :
          /\ Fresh(requests)
          /\ LET r == ImportMulti(wallet, requests, Tip)
             IN  /\ Save(r.wallet)
                 /\ answer' = [raised |-> r.raised, result |-> r.result]
                 /\ wanted' = Taken(requests, r.result)
          /\ asked' = requests
    /\ imports' = imports + 1
    /\ UNCHANGED handed

\* getnewaddress and getrawchangeaddress fail on an empty key pool.
HandOut(a, internal) ==
    /\ Save(a.wallet)
    /\ handed' = IF a.address = None THEN handed
                 ELSE [handed EXCEPT ![internal] = Append(@, a.address)]
    /\ UNCHANGED <<asked, answer, imports, wanted>>

GetNewAddressCall ==
    /\ wallet.hd < MaxDerived \/ ~wallet.private_keys_enabled
    /\ HandOut(GetNewAddress(wallet, Tip), FALSE)

GetRawChangeAddressCall ==
    /\ ~wallet.private_keys_enabled
    /\ HandOut(GetRawChangeAddress(wallet), TRUE)

\* (mutant) the node comes back with a new wallet.
RestartEmpty ==
    /\ wallet' = NewWallet(file.name, file.private_keys_enabled)
    /\ UNCHANGED <<file, asked, answer, imports, wanted, handed>>

\* stop_nodes, start_nodes: the node goes on with what is on disk.
Restart ==
    /\ wallet' = file
    /\ UNCHANGED <<file, asked, answer, imports, wanted, handed>>

Next ==
    \/ ImportMultiCall \/ GetNewAddressCall \/ GetRawChangeAddressCall
    \/ Restart

Spec == Init /\ [][Next]_vars

-----------------------------------------------------------------------------
(* Properties *)

\* The scripts the requests are about.
Scripts == {Pkh(k) : k \in Own \cup Derived} \cup {Sh(Multi(2, [j \in 1..2 |-> [by |-> "node0", i |-> j]]))}

\* spec.md 4.1: 0 <= start <= end, the end below the highest index a key
\* can be derived at, and no more than MaxSpan entries.
Valid(r) ==
    /\ 0 <= r.begin /\ r.begin <= r.end
    /\ r.end < 2 ^ IndexBits
    /\ r.end - r.begin + 1 <= MaxSpan

\* The wallet loaded is its file, an answer belongs to each request of a
\* call that was not refused as a whole, and the histories are of keys and
\* of addresses.
TypeOK ==
    /\ wallet = file /\ wallet.private_keys_enabled \in BOOLEAN
    /\ imports \in 0..MaxImports
    /\ DOMAIN answer.result = IF answer.raised = None THEN DOMAIN asked ELSE {}
    /\ \A internal \in BOOLEAN :
          /\ ToSet(wanted[internal]) \subseteq Own \cup Derived
          /\ \A n \in DOMAIN handed[internal] : handed[internal][n].t = "pkh"

\* importmulti takes a range exactly when it is one spec.md 4.1 allows,
\* whatever the wallet holds by then and whether or not the keys go to the
\* key pool: the four tests of the range, in the order the answers of
\* wallet_importmulti.py lines 506 to 519 show, refuse every range that is
\* not valid (a negative end, an end at the limit, MaxSpan + 1 entries) and
\* none that is (a range of MaxSpan entries, one ending at the highest index).
TakesExactlyValidRanges ==
    \A i \in DOMAIN answer.result :
        "range" \in DOMAIN asked[i] =>
            (answer.result[i].success <=> Valid(RangeOf(asked[i].range)))

\* Imported keys are handed out in the order of import, each once
\* (wallet_importmulti.py lines 654 to 657, 682 to 685 and 736 to 740): what
\* getnewaddress and getrawchangeaddress have handed out so far, followed by
\* what their pool still holds, is what the imports were to add to that
\* pool, request after request and a range from its begin to its end,
\* whatever calls and restarts came in between; sh(multi()) adds nothing.
PoolInImportOrder ==
    ~wallet.private_keys_enabled =>
        /\ [n \in DOMAIN handed[FALSE] |-> handed[FALSE][n].key] \o wallet.keypool = wanted[FALSE]
        /\ [n \in DOMAIN handed[TRUE] |-> handed[TRUE][n].key] \o wallet.keypool_internal
               = wanted[TRUE]

\* (reference) The keys a request states the origin of: the one of
\* WithOrigin, and those of the range.
Stated(req) ==
    {k \in Own : \E mark \in {"'", "h"} : req = WithOrigin(k, mark)}
    \cup {k \in Derived : /\ "range" \in DOMAIN req
                          /\ RangeOf(req.range).begin <= k.i /\ k.i <= RangeOf(req.range).end}

\* (reference) m/0'/0'/i of the extended key (the comments of lines 724 to
\* 728), and what node 0 answers about a key of its own.
OriginOf(k) ==
    IF k \in Own THEN <<Exported(k).hdmasterfingerprint, Exported(k).hdkeypath>>
    ELSE <<"80002067", <<Root, PathStep(0, "'"), PathStep(0, "'"), PathStep(k.i, "")>> >>

\* A key imported with its origin is known by it, the same path and master
\* fingerprint the wallet it comes from answers (wallet_importmulti.py lines
\* 575 to 600): the "m" cut off by keypath[1:], h or an apostrophe in the
\* string, the index of the range appended for a child of the extended key
\* (line 732), and whatever was imported before or is imported later of the
\* same key.  No key is ever answered with another origin.
OriginsAsWritten ==
    /\ \A i \in DOMAIN answer.result : \A k \in Stated(asked[i]) :
          answer.result[i].success => GetAddressInfo(wallet, Pkh(k)).hdkeypath # None
    /\ \A k \in Own \cup Derived :
          LET info == GetAddressInfo(wallet, Pkh(k))
          IN  info.hdkeypath # None =>
                 <<info.hdmasterfingerprint, info.hdkeypath>> = OriginOf(k)

\* Nothing a wallet has is lost to a later call or to a restart (lines 461
\* to 476 and 603 to 611): an address that is the wallet's own stays so, one
\* it watches is watched or its own afterwards, a solvable one stays
\* solvable and a key keeps its origin, whether the next step is an import
\* that is taken, one that is refused, an address handed out or the node
\* stopped and started.
ImportsOnlyAdd ==
    [][wallet' # wallet => \A s \in Scripts :
          LET a == GetAddressInfo(wallet, s)
              b == GetAddressInfo(wallet', s)
          IN  /\ a.ismine => b.ismine
              /\ a.ismine \/ a.iswatchonly => b.ismine \/ b.iswatchonly
              /\ a.solvable => b.solvable
              /\ a.hdkeypath # None => b.hdkeypath = a.hdkeypath]_vars

=============================================================================
