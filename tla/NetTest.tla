------------------------------ MODULE NetTest ------------------------------
(***************************************************************************)
(* run_test of test/functional/rpc_net.py as it calls its tests one after  *)
(* the other: the statements of NetInfo, with _test_getnettotals run as    *)
(* NetTotals has it, on the connections node 0 has at that point.  The     *)
(* script fails where either of them fails.                                *)
(***************************************************************************)
EXTENDS NetInfo

CONSTANTS
    PingsAwaited,   \* how many pings' worth of bytes _test_getnettotals waits for
    ChatterSize,    \* bytes of a message that is neither ping nor pong
    MaxChatter      \* bound: how many such messages pass during _test_getnettotals

VARIABLES
    peer, totals, queued, awaiting, chatter,
    tpc, tfailed,   \* NetTotals' pc and failed
    net_totals_before, peer_info, net_totals_after, peer_info_after_ping

totalsVars == <<peer, totals, queued, awaiting, chatter, tpc, tfailed,
                net_totals_before, peer_info, net_totals_after, peer_info_after_ping>>
all == <<vars, totalsVars>>

\* The connections of node 0 once run_test has connected nodes 0 and 1.
Peers ==
    {c \in Setup : 0 \in {c.from, c.to}}
    \cup {[from |-> Program[k].from, to |-> Program[k].to, id |-> k] : k \in 3..4}

\* The masternode dialled node 0 when the framework set the network up.
MCSetup == {[from |-> 2, to |-> 0, id |-> 0]}

T == INSTANCE NetTotals WITH pc <- tpc, failed <- tfailed

RunInit == Init /\ T!Init

\* A statement or an event inside _test_getnettotals.
Totals ==
    /\ At("_test_getnettotals") /\ Sockets(0) = Peers
    /\ tpc # "done"
    /\ T!Next
    /\ UNCHANGED vars

\* _test_getnettotals returns: its figures are not looked at again.
Return ==
    /\ At("_test_getnettotals") /\ tpc = "done"
    /\ GetNetTotals
    /\ peer' = T!Start.peer /\ totals' = T!Start.totals
    /\ queued' = {} /\ awaiting' = {} /\ chatter' = 0
    /\ tpc' = "before" /\ tfailed' = 0
    /\ net_totals_before' = totals' /\ net_totals_after' = totals'
    /\ peer_info' = peer' /\ peer_info_after_ping' = peer'

\* A statement outside of it, or an event of the network while the script
\* is not in it.
Connections ==
    /\ ~At("_test_getnettotals")
    /\ Next
    /\ UNCHANGED totalsVars

RunNext == Totals \/ Return \/ Connections

\* The script runs on when it can, and the nodes' threads do their work.
RunSpec == RunInit /\ [][RunNext]_all /\ WF_all(RunNext)

-----------------------------------------------------------------------------
(* Properties of _test_getnettotals, as NetTotals states them *)

\* The figures of _test_getnettotals have their types, and no counter
\* grows past what the ping rounds and the chatter account for.
TypeOK == T!TypeOK

\* The assertions on the three snapshots (rpc_net.py lines 84 to 91) hold
\* whatever node 0 sends and receives between getnettotals, getpeerinfo and
\* getnettotals.
SnapshotsBracketPeers == T!SnapshotsBracketPeers

\* Neither wait_until of _test_getnettotals (lines 97 and 98) gives up
\* while the node writes the pings it queued and the peers answer.
TotalsWaitsReturn == T!WaitsReturn

=============================================================================
