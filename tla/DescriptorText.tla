--------------------------- MODULE DescriptorText ---------------------------
(***************************************************************************)
(* Descriptor strings (spec.md 4.1, 6): what wallet_importmulti.py puts    *)
(* together and hands to importmulti as "desc", and parse, which makes the *)
(* descriptor of module Descriptor of it or fails.                         *)
(*                                                                         *)
(* A string is the tree of its tokens: a function name with its arguments, *)
(* each a number, a key expression or a function again.  A key expression  *)
(* is a key, the origin written before it in brackets, the steps after it  *)
(* and the /* that ends them.  A path is the sequence of its steps, with   *)
(* "m" in front where getaddressinfo writes one.  The characters of names, *)
(* keys and numbers are left out; the two marks of a hardened step, ' and  *)
(* h, are kept, for the script writes both and the wallet answers one.     *)
(***************************************************************************)
EXTENDS Descriptor

-----------------------------------------------------------------------------
(* Paths *)

\* "m", and a step: an index and the mark after it, "" when it has none.
Root              == [root |-> "m"]
PathStep(i, mark) == [i |-> i, mark |-> mark]

\* No "m" among the steps.
IsIndexed(steps) == \A n \in DOMAIN steps : "i" \in DOMAIN steps[n]

\* (mutant) the reader knows the apostrophe only.
ApostropheOnly(steps) ==
    [n \in DOMAIN steps |-> [i |-> steps[n].i, hardened |-> steps[n].mark = "'"]]

\* What the steps mean: ' and h both harden.
ReadPath(steps) ==
    [n \in DOMAIN steps |-> [i |-> steps[n].i, hardened |-> steps[n].mark \in {"'", "h"}]]

\* hdkeypath of getaddressinfo: from m, a hardened step with an apostrophe.
WritePath(path) ==
    <<Root>> \o [n \in DOMAIN path |-> PathStep(path[n].i, IF path[n].hardened THEN "'" ELSE "")]

-----------------------------------------------------------------------------
(* Writing a string *)

Fn(name, args) == [fn |-> name, args |-> args]
Number(n)      == [n |-> n]
XKey(x)        == [xkey |-> x]

\* KEY, KEY/steps/* with the mark of the star ("" for none), and [fpr/steps]
\* in front of either.
Key(k)                   == [key |-> k, origin |-> None, steps |-> << >>, star |-> None]
Children(e, steps, mark) == [e EXCEPT !.steps = steps, !.star = mark]
From(fpr, steps, e)      == [e EXCEPT !.origin = [fpr |-> fpr, steps |-> steps]]

\* A checksum tells any two strings apart: the string stands for its own.
Checksum(expr) == expr

descsum_create(expr) == [text |-> expr, sum |-> Checksum(expr)]

-----------------------------------------------------------------------------
(* parse *)

\* A token is told by its fields: fn of a function, n of a number, key of
\* a key expression, xkey of an extended key.
Has(token, field) == field \in DOMAIN token

\* Only an extended key has children, and no origin or child is "m".
KeyFormed(e) ==
    /\ Has(e, "key") /\ IsIndexed(e.steps)
    /\ e.origin # None => IsIndexed(e.origin.steps)
    /\ e.steps # << >> \/ e.star # None => Has(e.key, "xkey")

\* pkh(KEY), and multi(k, KEY, ...) of no more than its keys.
Unwrapped(e) ==
    /\ Has(e, "fn")
    /\ \/ e.fn = "pkh" /\ Len(e.args) = 1 /\ KeyFormed(e.args[1])
       \/ /\ e.fn = "multi" /\ Len(e.args) >= 2 /\ Has(Head(e.args), "n")
          /\ \A j \in 2..Len(e.args) : KeyFormed(e.args[j])
          /\ Head(e.args).n \in 1..(Len(e.args) - 1)

\* sh() wraps either, and nothing wraps sh().
WellFormedText(e) ==
    \/ Unwrapped(e)
    \/ Has(e, "fn") /\ e.fn = "sh" /\ Len(e.args) = 1 /\ Unwrapped(e.args[1])

ReadKey(e) ==
    LET origin == IF e.origin = None THEN None
                  ELSE [fpr |-> e.origin.fpr, path |-> ReadPath(e.origin.steps)]
    IN  IF Has(e.key, "xkey")
        THEN Extended(e.key.xkey, ReadPath(e.steps), e.star, origin)
        ELSE Literal(e.key, origin)

ReadUnwrapped(e) ==
    IF e.fn = "pkh" THEN DescPkh(ReadKey(e.args[1]))
    ELSE DescMulti(Head(e.args).n, [j \in DOMAIN Tail(e.args) |-> ReadKey(Tail(e.args)[j])])

\* The descriptor of a string, or why it has none.  A string may come
\* without its checksum; one it comes with must be its own.
ParseDescriptor(t) ==
    CASE "sum" \in DOMAIN t /\ t.sum # Checksum(t.text) -> [ok |-> FALSE, error |-> "checksum"]
      [] ~WellFormedText(t.text) -> [ok |-> FALSE, error |-> "syntax"]
      [] t.text.fn = "sh" -> [ok |-> TRUE, desc |-> DescSh(ReadUnwrapped(t.text.args[1]))]
      [] OTHER -> [ok |-> TRUE, desc |-> ReadUnwrapped(t.text)]

=============================================================================
