--------------------------- MODULE DisableWallet ---------------------------
(***************************************************************************)
(* qa/rpc-tests/disablewallet.py: four calls to one node started with      *)
(* -disablewallet on a clean chain.  The node is the unknown: which        *)
(* addresses each of the two calls takes for valid, whether                *)
(* validateaddress goes through the wallet the node does not have, and     *)
(* what generatetoaddress checks, in which order, before it mines.  Mining *)
(* itself may fail at either of the two steps the script names.            *)
(***************************************************************************)
EXTENDS Integers, Sequences, SequencesExt

CONSTANTS
    MainAddr,       \* '7TSB...', an address of another network
    TestAddr,       \* 'ycwe...', an address of the network of the test
    None

Addresses == {MainAddr, TestAddr}

\* What the script looks for in e.error['message'], and an error that has
\* none of it.
Messages == {"Invalid address", "ProcessNewBlock, block not accepted",
             "Couldn't create new block", "Method not found"}

MiningFailures == {"ProcessNewBlock, block not accepted", "Couldn't create new block"}

-----------------------------------------------------------------------------
(* run_test: what is called, and what the script lets pass *)

CheckInvalid == [op |-> "validateaddress", addr |-> MainAddr, isvalid |-> FALSE]

\* (mutant) the valid address is expected to be invalid as well.
CheckValidSwapped == [op |-> "validateaddress", addr |-> TestAddr, isvalid |-> FALSE]

CheckValid == [op |-> "validateaddress", addr |-> TestAddr, isvalid |-> TRUE]

\* try: a block or an error, but none of three.
MineToValid ==
    [op |-> "generatetoaddress", addr |-> TestAddr, returns |-> TRUE,
     raises |-> Messages \ ({"Invalid address"} \cup MiningFailures)]

\* (mutant) without the raise that follows the call.
MineToInvalidReturns ==
    [op |-> "generatetoaddress", addr |-> MainAddr, returns |-> TRUE,
     raises |-> {"Invalid address"}]

\* (mutant) without the assertion of the except clause.
MineToInvalidAnyError ==
    [op |-> "generatetoaddress", addr |-> MainAddr, returns |-> FALSE,
     raises |-> Messages]

\* try: returning raises AssertionError, which the except clause does not
\* catch; the error caught must be the one of the address.
MineToInvalid ==
    [op |-> "generatetoaddress", addr |-> MainAddr, returns |-> FALSE,
     raises |-> {"Invalid address"}]

Program == <<CheckInvalid, CheckValid, MineToValid, MineToInvalid>>

End == Len(Program) + 1

-----------------------------------------------------------------------------
VARIABLES
    pc, failed,     \* the call the script is at; the call it failed at, 0 while it has not
    x,              \* the answer of validateaddress
    e,              \* the message of the JSONRPCException caught, None without one
    chain,          \* the address each block of the node's chain pays
    node            \* the build under test

vars == <<pc, failed, x, e, chain, node>>

\* What generatetoaddress may look at before it mines, in the order it does.
Checks == {s \in SeqOf({"address", "wallet"}, 2) : IsInjective(s)}

Calls == {"validateaddress", "generatetoaddress"}

Builds == [valid : [Calls -> SUBSET Addresses], validateUsesWallet : BOOLEAN,
           checks : Checks]

\* One node, no wallet, no block.
Init ==
    /\ pc = 1 /\ failed = 0
    /\ x = None /\ e = None
    /\ chain = << >>
    /\ node \in Builds

I == Program[pc]

At(op) == failed = 0 /\ pc \in DOMAIN Program /\ I.op = op

Advance == pc' = pc + 1 /\ UNCHANGED failed
Fail    == failed' = pc /\ UNCHANGED pc

\* validateaddress and the assertion on its answer; a call that reaches for
\* the wallet does not answer, and the script ends there.
ValidateAddress ==
    /\ At("validateaddress")
    /\ IF node.validateUsesWallet
       THEN Fail /\ UNCHANGED x
       ELSE /\ x' = [isvalid |-> I.addr \in node.valid[I.op]]
            /\ IF x'.isvalid = I.isvalid THEN Advance ELSE Fail
    /\ UNCHANGED <<e, chain, node>>

\* The error of the first check of the node that addr does not pass.
Refusal(addr) ==
    LET error(c) == IF c = "wallet" THEN "Method not found"
                    ELSE IF addr \in node.valid["generatetoaddress"] THEN None
                    ELSE "Invalid address"
        errors   == SelectSeq([i \in DOMAIN node.checks |-> error(node.checks[i])],
                              LAMBDA m : m # None)
    IN  IF errors = << >> THEN None ELSE Head(errors)

\* generatetoaddress(1, addr) inside try/except: refused, or a block is
\* made and taken, or making it or taking it fails.
GenerateToAddress ==
    /\ At("generatetoaddress")
    /\ \E out \in IF Refusal(I.addr) = None THEN {None} \cup MiningFailures
                  ELSE {Refusal(I.addr)} :
          /\ e' = out
          /\ chain' = IF out = None THEN Append(chain, I.addr) ELSE chain
          /\ IF (out = None /\ I.returns) \/ out \in I.raises THEN Advance ELSE Fail
    /\ UNCHANGED <<x, node>>

\* The script has run to its end or has failed.
Stopped == (failed # 0 \/ pc = End) /\ UNCHANGED vars

Next == ValidateAddress \/ GenerateToAddress \/ Stopped

Spec == Init /\ [][Next]_vars

-----------------------------------------------------------------------------
(* Properties *)

\* The build the script describes: to both calls the address of the test's
\* network is the valid one, validateaddress does without a wallet,
\* generatetoaddress checks the address and nothing else.
Correct ==
    node = [valid |-> [c \in Calls |-> {TestAddr}], validateUsesWallet |-> FALSE,
            checks |-> <<"address">>]

\* Against that build the script fails in one way only: the block for the
\* valid address could not be made or was not taken (lines 39 and 40).  No
\* assertion on validateaddress and none on the invalid address fails.
FailsOnlyWhenMiningFails ==
    Correct /\ failed # 0 => e \in MiningFailures /\ failed = 3

\* A script that runs to its end has seen no block pay the address it
\* takes for invalid: when generatetoaddress returns from line 43, line 44
\* ends the test, and an error leaves the chain as it was.
NoBlockToInvalidAddress ==
    pc = End => MainAddr \notin ToSet(chain)

\* What the four calls tell apart: the script runs to its end only against
\* a build that judges both addresses as expected in both calls, answers
\* validateaddress without a wallet, and has generatetoaddress look at the
\* address before anything else (the error of line 46 is the address's,
\* whatever other error line 37 lets pass).
PassingBuildChecksAddressFirst ==
    pc = End =>
        /\ \A c \in Calls : node.valid[c] = {TestAddr}
        /\ ~node.validateUsesWallet
        /\ node.checks # << >> /\ Head(node.checks) = "address"

=============================================================================
