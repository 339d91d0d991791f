------------------------------- MODULE Wallet -------------------------------
(***************************************************************************)
(* A wallet's key and script store as a value, and the operations          *)
(* test/functional/wallet_importmulti.py calls on it: importmulti, which   *)
(* classifies what it is given (spec.md 4.2) and stores what it accepts;   *)
(* getaddressinfo, the solvability query (spec.md 6); the key pool.        *)
(*                                                                         *)
(* The wallet's code is not among the repository's sources.  Operators are *)
(* written from spec.md and, where it is silent, from the answers the test *)
(* expects at the lines the map names.  A request is the JSON object of    *)
(* the RPC as a record: a field the caller left out is not in its domain.  *)
(***************************************************************************)
EXTENDS DescriptorText

\* The advisory warnings of the classifier, by their leading words.
SomeKeysMissing == "Some private keys are missing, outputs will be considered watchonly"
AllKeysProvided == "All private keys are provided, outputs will be considered spendable"
NonSolvable     == "Importing as non-solvable: some required keys are missing"

-----------------------------------------------------------------------------
(* The store *)

NewWallet(name, private_keys_enabled) ==
    [name |-> name, private_keys_enabled |-> private_keys_enabled,
     priv     |-> {},       \* keys whose private key the wallet holds
     pub      |-> {},       \* keys whose public key was imported
     meta     |-> << >>,    \* per key: creation time and key origin
     scripts  |-> {},       \* redeem scripts
     watch    |-> << >>,    \* watch-only scripts and their timestamps
     book     |-> << >>,    \* address book: label per address
     keypool  |-> << >>,    \* imported keys getnewaddress hands out, oldest first
     keypool_internal |-> << >>,
     hd       |-> 0]        \* keys derived from the wallet's own seed so far

Field(req, f, default) == IF f \in DOMAIN req THEN req[f] ELSE default

RECURSIVE Spendable(_, _)
\* Every key needed is held: a multisig is the wallet's only with all keys.
Spendable(w, s) ==
    CASE s.t = "pkh"   -> s.key \in w.priv
      [] s.t = "multi" -> ToSet(s.keys) \subseteq w.priv
      [] s.t = "sh"    -> s.inner \in w.scripts /\ Spendable(w, s.inner)
      [] OTHER         -> FALSE

RECURSIVE Solvable(_, _)
\* The wallet knows how the output could be spent.
Solvable(w, s) ==
    CASE s.t = "pkh"   -> s.key \in w.priv \cup w.pub
      [] s.t = "multi" -> TRUE
      [] s.t = "sh"    -> s.inner \in w.scripts /\ Solvable(w, s.inner)
      [] OTHER         -> FALSE

IsMine(w, s) == Spendable(w, s) \/ s \in DOMAIN w.watch

\* getaddressinfo; None for a key the answer does not have.
GetAddressInfo(w, s) ==
    LET keyed == s.t = "pkh" /\ s.key \in DOMAIN w.meta
        origin == IF keyed THEN w.meta[s.key].origin ELSE None
    IN  [ismine      |-> Spendable(w, s),
         iswatchonly |-> ~Spendable(w, s) /\ s \in DOMAIN w.watch,
         solvable    |-> Solvable(w, s),
         isscript    |-> s.t = "sh",
         ischange    |-> IsMine(w, s) /\ s \notin DOMAIN w.book,
         timestamp   |-> CASE keyed               -> w.meta[s.key].time
                           [] s \in DOMAIN w.watch -> w.watch[s]
                           [] OTHER                -> None,
         label       |-> IF s \in DOMAIN w.book THEN w.book[s] ELSE None,
         pubkey      |-> IF s.t = "pkh" /\ s.key \in w.priv \cup w.pub THEN s.key ELSE None,
         hdmasterfingerprint |-> IF origin = None THEN None ELSE origin.fpr,
         hdkeypath   |-> IF origin = None THEN None ELSE WritePath(origin.path)]

\* getwalletinfo, as far as the script reads it.
GetWalletInfo(w) ==
    [keypoolsize |-> Len(w.keypool),
     keypoolsize_hd_internal |-> Len(w.keypool_internal),
     private_keys_enabled |-> w.private_keys_enabled]

-----------------------------------------------------------------------------
(* Script Classifier (spec.md 4.2) *)

\* What an import found out: the scripts to watch, in order; whether the
\* data given solves them; the redeem scripts, private keys, public keys (in
\* order) and key origins to store; the warnings.
Findings(targets, solving, scripts, priv, pub, origins, warnings) ==
    [targets |-> targets, solving |-> solving, scripts |-> scripts, priv |-> priv,
     pub |-> pub, origins |-> origins, warnings |-> warnings]

Refused(code, message) == [error |-> [code |-> code, message |-> message]]

\* Steps 3 and 6: the watchonly flag against the private keys at hand.
FlagWarnings(spendable, watchonly) ==
    {x \in {SomeKeysMissing} : ~watchonly /\ ~spendable}
    \cup {x \in {AllKeysProvided} : watchonly /\ spendable}

LegacyTarget(req) ==
    IF "address" \in DOMAIN req.scriptPubKey THEN req.scriptPubKey.address
    ELSE req.scriptPubKey

RECURSIVE MissingData(_, _, _)
\* Step 5: a key or script needed to satisfy s is not among what was given.
MissingData(s, redeem, given) ==
    CASE s.t = "pkh"   -> s.key \notin given
      [] s.t = "multi" -> FALSE
      [] s.t = "sh"    -> redeem = None \/ redeem # s.inner \/ MissingData(s.inner, redeem, given)
      [] OTHER         -> TRUE

\* Step 2: the keys of the template, as far as the data given shows them.
UsedKeys(s, redeem) ==
    CASE s.t = "pkh"                  -> {s.key}
      [] s.t = "sh" /\ redeem = s.inner -> ScriptKeys(redeem)
      [] OTHER                        -> {}

\* A scriptPubKey or an address, with whatever solving data came with it.
ClassifyLegacy(req) ==
    LET s      == LegacyTarget(req)
        redeem == Field(req, "redeemscript", None)
        keys   == Field(req, "keys", {})
        pubs   == Field(req, "pubkeys", {})
        used   == UsedKeys(s, redeem)
        flags  == FlagWarnings(used \subseteq keys, Field(req, "watchonly", FALSE))
    IN  CASE s.t = "invalid" -> Refused(-5, "Invalid address")
          [] ~HasAddress(s) /\ ~Field(req, "internal", FALSE) ->
                Refused(-8, "Internal must be set to true for nonstandard scriptPubKey imports.")
          [] redeem = None /\ keys \cup pubs = {} ->
                Findings(<<s>>, FALSE, {}, {}, << >>, << >>, {})
          [] MissingData(s, redeem, keys \cup pubs) ->
                Findings(<<s>>, FALSE, {}, {}, << >>, << >>, flags \cup {NonSolvable})
          [] OTHER ->
                Findings(<<s>>, TRUE, {redeem} \ {None}, keys \cap used,
                         SetToSeq((pubs \cap used) \ keys), << >>, flags)

\* The key origins a descriptor states, per key of its expansion.
Origins(d, r) ==
    LET at == {<<j, i>> \in (DOMAIN d.keys) \X ToSet(Indexes(r)) :
                  OriginAt(d.keys[j], i) # None}
    IN  [k \in {KeyAt(d.keys[p[1]], p[2]) : p \in at} |->
            LET p == CHOOSE q \in at : KeyAt(d.keys[q[1]], q[2]) = k
            IN  OriginAt(d.keys[p[1]], p[2])]

\* What parse made of the string: private keys come from "keys" alone,
\* whatever the descriptor's text holds.
ClassifyParsed(req, parsed) ==
    LET d    == parsed.desc
        r    == IF IsRanged(d) THEN RangeOf(req.range) ELSE FromTo(0, 0)
        keys == Field(req, "keys", {})
        pubs == ExpandKeys(d, r)
    IN  CASE ~parsed.ok -> Refused(-5, "Descriptor is invalid")
          [] IsRanged(d) /\ "range" \notin DOMAIN req ->
                Refused(-8, "Descriptor is ranged, please specify the range")
          [] IsRanged(d) /\ RangeError(req.range) # "none" ->
                Refused(-8, RangeError(req.range))
          [] OTHER ->
                Findings(Expand(d, r), TRUE,
                         {InnerAt(d, i) : i \in {j \in ToSet(Indexes(r)) : d.sh}},
                         keys \cap ToSet(pubs), pubs, Origins(d, r),
                         FlagWarnings(ToSet(pubs) \subseteq keys, Field(req, "watchonly", FALSE)))

\* A descriptor: its string is parsed, once.
ClassifyDescriptor(req) == ClassifyParsed(req, ParseDescriptor(req.desc))

\* Step 7 comes first: exactly one of a descriptor and a scriptPubKey.
Classify(req) ==
    CASE {"scriptPubKey", "desc"} \subseteq DOMAIN req ->
            Refused(-8, "Both a descriptor and a scriptPubKey should not be provided.")
      [] "scriptPubKey" \in DOMAIN req -> ClassifyLegacy(req)
      [] "desc" \in DOMAIN req -> ClassifyDescriptor(req)
      [] OTHER -> Refused(-8, "Either a descriptor or scriptPubKey must be provided.")

-----------------------------------------------------------------------------
(* importmulti *)

Answer(success, error, warnings, w) ==
    [success |-> success, error |-> error, warnings |-> warnings, wallet |-> w]

\* Only the keys of a descriptor that is one key go to the key pool.
PoolKeys(req, c) ==
    IF Field(req, "keypool", FALSE) /\ "desc" \in DOMAIN req
          /\ \A s \in ToSet(c.targets) : s.t = "pkh"
    THEN c.pub ELSE << >>

\* What is accepted is stored: scripts, keys with their time and origin,
\* then the scripts to watch.  A script the keys just stored make the
\* wallet's own is not watched; one imported without solving data always
\* is, which is how its timestamp is replaced.  A key keeps the origin it
\* has when the import states none.
Store(w, req, c, now) ==
    LET internal == Field(req, "internal", FALSE)
        keys     == c.priv \cup ToSet(c.pub)
        keyed    == [w EXCEPT
                       !.priv = @ \cup c.priv,
                       !.pub = @ \cup ToSet(c.pub),
                       !.scripts = @ \cup c.scripts,
                       !.meta = [k \in DOMAIN @ \cup keys |->
                                   IF k \in keys
                                   THEN [time |-> now,
                                         origin |-> CASE k \in DOMAIN c.origins -> c.origins[k]
                                                      [] k \in DOMAIN @ -> @[k].origin
                                                      [] OTHER -> None]
                                   ELSE @[k]]]
        watched  == {s \in ToSet(c.targets) : ~c.solving \/ ~IsMine(keyed, s)}
        named    == {s \in ToSet(c.targets) : ~internal /\ HasAddress(s)}
    IN  [keyed EXCEPT
           !.watch = [s \in DOMAIN @ \cup watched |-> IF s \in watched THEN now ELSE @[s]],
           !.book = [s \in DOMAIN @ \cup named |->
                        IF s \in named THEN Field(req, "label", "") ELSE @[s]],
           !.keypool = IF internal THEN @ ELSE @ \o PoolKeys(req, c),
           !.keypool_internal = IF internal THEN @ \o PoolKeys(req, c) ELSE @]

\* One request of importmulti: the policy errors, the classification, the
\* wallet's own veto, the import.  A request that fails changes nothing.
ProcessImport(w, req, now) ==
    LET c == Classify(req)
    IN  CASE Field(req, "internal", FALSE) /\ "label" \in DOMAIN req ->
                Answer(FALSE, [code |-> -8, message |-> "Internal addresses should not have a label"], {}, w)
          [] Field(req, "keypool", FALSE) /\ w.private_keys_enabled ->
                Answer(FALSE, [code |-> -8, message |->
                    "Keys can only be imported to the keypool when private keys are disabled"], {}, w)
          [] "error" \in DOMAIN c -> Answer(FALSE, c.error, {}, w)
          [] \E s \in ToSet(c.targets) : Spendable(w, s) ->
                Answer(FALSE, [code |-> -4, message |->
                    "The wallet already contains the private key for this address or script"],
                    c.warnings, w)
          [] OTHER -> Answer(TRUE, None, c.warnings, Store(w, req, c, now))

\* The timestamps are read before any request is processed.
TimestampError(requests) ==
    CASE \E i \in DOMAIN requests : "timestamp" \notin DOMAIN requests[i] ->
            [code |-> -3, message |-> "Missing required timestamp field for key"]
      [] \E i \in DOMAIN requests : requests[i].timestamp # "now" ->
            [code |-> -3, message |-> "Expected number or \"now\" timestamp value for key. got type string"]
      [] OTHER -> None

\* importmulti: the requests one after the other, each on the wallet the
\* one before it left; a failure is the answer to its request alone.
ImportMulti(w, requests, now) ==
    IF TimestampError(requests) # None
    THEN [raised |-> TimestampError(requests), result |-> << >>, wallet |-> w]
    ELSE LET Step(acc, req) ==
                 LET a == ProcessImport(acc.wallet, req, now)
                 IN  [acc EXCEPT !.result = Append(@, [x \in DOMAIN a \ {"wallet"} |-> a[x]]),
                                 !.wallet = a.wallet]
         IN  FoldLeft(Step, [raised |-> None, result |-> << >>, wallet |-> w], requests)

-----------------------------------------------------------------------------
(* Addresses of the wallet's own *)

\* getnewaddress: the next key of the wallet's seed, or, in a wallet
\* without private keys, the oldest key of the pool.
GetNewAddress(w, now) ==
    LET k == IF w.private_keys_enabled THEN [by |-> w.name, i |-> w.hd + 1]
             ELSE Head(w.keypool)
        s == Pkh(k)
    IN  CASE w.private_keys_enabled ->
                [address |-> s,
                 wallet |-> [w EXCEPT !.hd = @ + 1, !.priv = @ \cup {k},
                               !.meta = (k :> [time |-> now,
                                               origin |-> [fpr |-> w.name, path |-> <<[i |-> w.hd + 1, hardened |-> TRUE]>>]]) @@ @,
                               !.book = (s :> "") @@ @]]
          [] w.keypool # << >> ->
                [address |-> s,
                 wallet |-> [w EXCEPT !.keypool = Tail(@), !.book = (s :> "") @@ @]]
          [] OTHER -> [address |-> None, wallet |-> w]

\* getrawchangeaddress of a wallet without private keys.
GetRawChangeAddress(w) ==
    IF w.keypool_internal = << >> THEN [address |-> None, wallet |-> w]
    ELSE [address |-> Pkh(Head(w.keypool_internal)),
          wallet |-> [w EXCEPT !.keypool_internal = Tail(@)]]

=============================================================================
