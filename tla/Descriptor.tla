----------------------------- MODULE Descriptor -----------------------------
(***************************************************************************)
(* Output descriptors as importmulti takes them: a script shape over key   *)
(* expressions, the "range" argument of a ranged descriptor, and the       *)
(* expansion of a descriptor over a range into concrete scripts.           *)
(*                                                                         *)
(* A descriptor here is what its string parses to; the strings and parse   *)
(* are module DescriptorText.  A key is a record [by, i]: who derived it   *)
(* and at which index; "by" is a wallet, or an extended key that appears   *)
(* in a descriptor.  A key stands for its private key, its public key and  *)
(* its key id alike; which of them a wallet has is the wallet's state.     *)
(***************************************************************************)
EXTENDS Integers, Sequences, FiniteSets, SequencesExt

CONSTANTS
    None,       \* an absent optional value
    IndexBits,  \* bound: a derivation index has this many bits (31 in the wallet)
    MaxSpan     \* the most entries a range may have (1,000,000)

ASSUME Limits == IndexBits \in Nat /\ MaxSpan \in Nat \ {0}

-----------------------------------------------------------------------------
(* Scripts *)

Pkh(k)       == [t |-> "pkh", key |-> k]
Multi(m, ks) == [t |-> "multi", m |-> m, keys |-> ks]
Sh(s)        == [t |-> "sh", inner |-> s]

\* A script with an opcode appended that no template has.
NonStandard(s) == [t |-> "nonstandard", of |-> s]

\* The scripts that have an address.
HasAddress(s) == s.t \in {"pkh", "sh"}

RECURSIVE ScriptKeys(_)
ScriptKeys(s) ==
    CASE s.t = "pkh"   -> {s.key}
      [] s.t = "multi" -> ToSet(s.keys)
      [] s.t = "sh"    -> ScriptKeys(s.inner)
      [] OTHER         -> {}

-----------------------------------------------------------------------------
(* The range argument: a number n, which means [0, n], or [begin, end] *)

Upto(n)          == [end |-> n]
FromTo(low, high) == [begin |-> low, end |-> high]

IsPair(arg)  == "begin" \in DOMAIN arg
RangeOf(arg) == IF IsPair(arg) THEN arg ELSE FromTo(0, arg.end)

\* (mutant) a range of MaxSpan + 1 entries passes.
RangeErrorLax(arg) ==
    LET r == RangeOf(arg)
    IN  CASE IsPair(arg) /\ r.begin > r.end  -> "Range specified as [begin,end] must not have begin after end"
          [] r.begin < 0                     -> "Range should be greater or equal than 0"
          [] r.end \div (2 ^ IndexBits) # 0  -> "End of range is too high"
          [] r.end > r.begin + MaxSpan       -> "Range is too large"
          [] OTHER                           -> "none"

\* What importmulti answers to a range, "none" when it takes it.  The end is
\* tested by shifting it right by IndexBits, which leaves something of a
\* negative number too: a bare -1 is "too high".
RangeError(arg) ==
    LET r == RangeOf(arg)
    IN  CASE IsPair(arg) /\ r.begin > r.end  -> "Range specified as [begin,end] must not have begin after end"
          [] r.begin < 0                     -> "Range should be greater or equal than 0"
          [] r.end \div (2 ^ IndexBits) # 0  -> "End of range is too high"
          [] r.end >= r.begin + MaxSpan      -> "Range is too large"
          [] OTHER                           -> "none"

-----------------------------------------------------------------------------
(* Descriptors *)

\* Key expressions: a literal key, or an extended key, the path to the one
\* whose children are meant and, when it ends in /*, the mark of the star.
Literal(k, origin) ==
    [by |-> k.by, i |-> k.i, ranged |-> FALSE, origin |-> origin,
     path |-> << >>, hardened |-> FALSE]
Extended(x, path, star, origin) ==
    [by |-> x, i |-> 0, ranged |-> star # None, origin |-> origin,
     path |-> path, hardened |-> star \in {"'", "h"}]

\* pkh(KEY), multi(m, KEY, ...), and either inside sh().
DescPkh(e)       == [f |-> "pkh", m |-> 1, keys |-> <<e>>, sh |-> FALSE]
DescMulti(m, es) == [f |-> "multi", m |-> m, keys |-> es, sh |-> FALSE]
DescSh(d)        == [d EXCEPT !.sh = TRUE]

IsRanged(d) == \E j \in DOMAIN d.keys : d.keys[j].ranged

KeyAt(e, i) == [by |-> e.by, i |-> IF e.ranged THEN i ELSE e.i]

\* derive_key_origin: a literal key has the origin written before it; a
\* child of an extended key the path from the origin to it, the origin
\* being the extended key itself when none is written.
OriginAt(e, i) ==
    IF ~e.ranged THEN e.origin
    ELSE [fpr  |-> IF e.origin = None THEN e.by ELSE e.origin.fpr,
          path |-> (IF e.origin = None THEN << >> ELSE e.origin.path)
                   \o e.path \o <<[i |-> i, hardened |-> e.hardened]>>]

\* The keys of the descriptor at index i, in the order of the descriptor.
KeysAt(d, i) == [j \in DOMAIN d.keys |-> KeyAt(d.keys[j], i)]

\* The script inside sh(), or the script itself.
InnerAt(d, i) ==
    IF d.f = "pkh" THEN Pkh(KeysAt(d, i)[1]) ELSE Multi(d.m, KeysAt(d, i))

ScriptAt(d, i) == IF d.sh THEN Sh(InnerAt(d, i)) ELSE InnerAt(d, i)

\* (mutant) the end of the range is left out.
IndexesBeforeEnd(r) == [n \in 1..(r.end - r.begin) |-> r.begin + n - 1]

\* The indexes of a range, ascending.
Indexes(r) == [n \in 1..(r.end - r.begin + 1) |-> r.begin + n - 1]

\* expand: the scripts, and the keys, of every index of the range in turn.
Expand(d, r) == [n \in DOMAIN Indexes(r) |-> ScriptAt(d, Indexes(r)[n])]

ExpandKeys(d, r) == FlattenSeq([n \in DOMAIN Indexes(r) |-> KeysAt(d, Indexes(r)[n])])

=============================================================================
