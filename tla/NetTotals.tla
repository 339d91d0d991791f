----------------------------- MODULE NetTotals -----------------------------
(***************************************************************************)
(* _test_getnettotals of test/functional/rpc_net.py, run against a node    *)
(* whose network thread goes on working between the RPCs of the test.      *)
(*                                                                         *)
(* The test reads node 0's byte counters three times (node totals, per     *)
(* peer, node totals again), asks for a ping of every peer, waits for the  *)
(* totals to grow and compares the per-peer counters.  The node, meanwhile,*)
(* flushes the pings one peer at a time, receives the pongs as the peers   *)
(* answer, and may exchange messages of other kinds ("chatter", the        *)
(* comment of run_test).  One action per statement of the test, one per    *)
(* event of the network.                                                   *)
(***************************************************************************)
EXTENDS Integers, FiniteSets, Functions

CONSTANTS
    Peers,          \* the connections of node 0 (getconnectioncount() == 3)
    PingsAwaited,   \* how many pings' worth of bytes the test waits for ("32 * 2")
    ChatterSize,    \* bytes of a message that is neither ping nor pong
    MaxChatter      \* bound: how many such messages pass during the test

ASSUME Traffic ==
    /\ IsFiniteSet(Peers)
    /\ PingsAwaited \in Nat /\ ChatterSize \in Nat \ {0} /\ MaxChatter \in Nat

\* "note ping and pong are 32 bytes each"
PingSize == 32

VARIABLES
    peer,           \* peer[p]: bytessent, bytesrecv and the per-message counters
    totals,         \* the node's totalbytessent and totalbytesrecv
    queued,         \* peers a ping was asked for and not yet written to
    awaiting,       \* peers whose pong is still to come
    chatter,        \* other messages so far
    pc, failed,     \* the statement the test is at; the line of the assertion that failed
    net_totals_before, peer_info, net_totals_after, peer_info_after_ping

node == <<peer, totals, queued, awaiting, chatter>>
test == <<pc, failed, net_totals_before, peer_info, net_totals_after, peer_info_after_ping>>
vars == <<node, test>>

\* The most a counter of one peer reaches: the ping round of run_test, the
\* one of this test, and the chatter.
MaxBytes == 2 * PingSize + MaxChatter * ChatterSize

-----------------------------------------------------------------------------
(* The node *)

Count(dir, msg, p, n) ==
    /\ peer' = [peer EXCEPT ![p][dir] = @ + n, ![p][msg] = @ + n]
    /\ totals' = [totals EXCEPT ![dir] = @ + n]

\* The network thread writes the ping queued for p.
SendPing(p) ==
    /\ p \in queued
    /\ queued' = queued \ {p}
    /\ awaiting' = awaiting \cup {p}
    /\ Count("bytessent", "ping", p, PingSize)
    /\ UNCHANGED <<chatter, test>>

\* (mutant) the pong is counted and the ping stays outstanding.
PongKeepsWaiting(p) ==
    /\ p \in awaiting
    /\ Count("bytesrecv", "pong", p, PingSize)
    /\ UNCHANGED <<queued, awaiting, chatter, test>>

\* p has answered and the answer has arrived.
Pong(p) ==
    /\ p \in awaiting
    /\ awaiting' = awaiting \ {p}
    /\ Count("bytesrecv", "pong", p, PingSize)
    /\ UNCHANGED <<queued, chatter, test>>

\* A message of another kind (getheaders and friends) to or from p.
Chatter(p, dir) ==
    /\ chatter < MaxChatter
    /\ chatter' = chatter + 1
    /\ Count(dir, "other", p, ChatterSize)
    /\ UNCHANGED <<queued, awaiting, test>>

\* No ping of the test is under way any more.
Quiet == queued = {} /\ awaiting = {}

-----------------------------------------------------------------------------
(* The test *)

At(label) == failed = 0 /\ pc = label

Goto(label) == pc' = label /\ UNCHANGED failed

\* run_test has had one ping answered by every peer before this test starts.
Start ==
    [peer   |-> [p \in Peers |-> [bytessent |-> PingSize, bytesrecv |-> PingSize,
                                  ping |-> PingSize, pong |-> PingSize, other |-> 0]],
     totals |-> [bytessent |-> PingSize * Cardinality(Peers),
                 bytesrecv |-> PingSize * Cardinality(Peers)]]

Init ==
    /\ peer = Start.peer /\ totals = Start.totals
    /\ queued = {} /\ awaiting = {} /\ chatter = 0
    /\ pc = "before" /\ failed = 0
    /\ net_totals_before = totals /\ net_totals_after = totals
    /\ peer_info = peer /\ peer_info_after_ping = peer

TotalsBefore ==
    /\ At("before")
    /\ net_totals_before' = totals
    /\ Goto("peers")
    /\ UNCHANGED <<node, peer_info, net_totals_after, peer_info_after_ping>>

GetPeerInfo ==
    /\ At("peers")
    /\ peer_info' = peer
    /\ Goto("after")
    /\ UNCHANGED <<node, net_totals_before, net_totals_after, peer_info_after_ping>>

\* (mutant) the totals read before the per-peer figures are used again.
TotalsAfterStale ==
    /\ At("after")
    /\ net_totals_after' = net_totals_before
    /\ Goto("bounded")
    /\ UNCHANGED <<node, net_totals_before, peer_info, peer_info_after_ping>>

TotalsAfter ==
    /\ At("after")
    /\ net_totals_after' = totals
    /\ Goto("bounded")
    /\ UNCHANGED <<node, net_totals_before, peer_info, peer_info_after_ping>>

Sum(info, dir) == SumFunction([p \in DOMAIN info |-> info[p][dir]])

\* The line of the first assertion on the three snapshots that fails.
BoundedVerdict ==
    LET recv == Sum(peer_info, "bytesrecv")
        sent == Sum(peer_info, "bytessent")
    IN  CASE Cardinality(DOMAIN peer_info) # 3       -> 84
          [] recv < net_totals_before.bytesrecv      -> 88
          [] net_totals_after.bytesrecv < recv       -> 89
          [] sent < net_totals_before.bytessent      -> 90
          [] net_totals_after.bytessent < sent       -> 91
          [] OTHER                                   -> 0

AssertBounded ==
    /\ At("bounded")
    /\ failed' = BoundedVerdict
    /\ pc' = IF BoundedVerdict = 0 THEN "ping" ELSE pc
    /\ UNCHANGED <<node, net_totals_before, peer_info, net_totals_after,
                   peer_info_after_ping>>

\* (mutant) the ping is queued for one peer only.
PingFirstPeer ==
    /\ At("ping")
    /\ queued' = {CHOOSE p \in Peers : TRUE}
    /\ Goto("wait_sent")
    /\ UNCHANGED <<peer, totals, awaiting, chatter, net_totals_before, peer_info,
                   net_totals_after, peer_info_after_ping>>

\* ping: queued for every peer, written later by the network thread.
Ping ==
    /\ At("ping")
    /\ queued' = Peers
    /\ Goto("wait_sent")
    /\ UNCHANGED <<peer, totals, awaiting, chatter, net_totals_before, peer_info,
                   net_totals_after, peer_info_after_ping>>

Grown(dir) == totals[dir] >= net_totals_after[dir] + PingSize * PingsAwaited

\* wait_until returns once the total has grown by the bytes awaited; it
\* gives up (timeout=1) when it has not and no ping is under way any more.
WaitUntil(label, dir, line, next) ==
    /\ At(label)
    /\ \/ Grown(dir) /\ Goto(next)
       \/ ~Grown(dir) /\ Quiet /\ failed' = line /\ UNCHANGED pc
    /\ UNCHANGED <<node, net_totals_before, peer_info, net_totals_after,
                   peer_info_after_ping>>

GetPeerInfoAfterPing ==
    /\ At("peers_after")
    /\ peer_info_after_ping' = peer
    /\ Goto("compare")
    /\ UNCHANGED <<node, net_totals_before, peer_info, net_totals_after>>

Short(msg) == {p \in Peers : peer_info_after_ping[p][msg] < peer_info[p][msg] + PingSize}

\* The loop over zip(peer_info, peer_info_after_ping).
ComparePeers ==
    /\ At("compare")
    /\ failed' = CASE Short("pong") # {} -> 102
                   [] Short("ping") # {} -> 103
                   [] OTHER              -> 0
    /\ pc' = IF Short("pong") \cup Short("ping") = {} THEN "done" ELSE pc
    /\ UNCHANGED <<node, net_totals_before, peer_info, net_totals_after,
                   peer_info_after_ping>>

\* The test is over; the node may be too.
Stopped == (pc = "done" \/ failed # 0) /\ UNCHANGED vars

Next ==
    \/ TotalsBefore \/ GetPeerInfo \/ TotalsAfter \/ AssertBounded
    \/ Ping
    \/ WaitUntil("wait_sent", "bytessent", 97, "wait_recv")
    \/ WaitUntil("wait_recv", "bytesrecv", 98, "peers_after")
    \/ GetPeerInfoAfterPing \/ ComparePeers
    \/ \E p \in Peers : SendPing(p)
    \/ \E p \in Peers : Pong(p)
    \/ \E p \in Peers, dir \in {"bytessent", "bytesrecv"} : Chatter(p, dir)
    \/ Stopped

Spec == Init /\ [][Next]_vars

-----------------------------------------------------------------------------
(* Properties *)

Counters == [bytessent : 0..MaxBytes, bytesrecv : 0..MaxBytes,
             ping : 0..MaxBytes, pong : 0..MaxBytes, other : 0..MaxBytes]

\* The variables have their types, and no counter grows past what the two
\* ping rounds and the chatter account for: a ping is answered once.
TypeOK ==
    /\ {peer, peer_info, peer_info_after_ping} \subseteq [Peers -> Counters]
    /\ queued \subseteq Peers /\ awaiting \subseteq Peers /\ queued \cap awaiting = {}
    /\ chatter \in 0..MaxChatter
    /\ failed \in {0, 84, 88, 89, 90, 91, 97, 98, 102, 103}

\* The assertions on the three snapshots (rpc_net.py lines 84 to 91) hold
\* whatever the node sends and receives between the three RPCs: the
\* per-peer sums lie between the totals read before and the totals read
\* after.
SnapshotsBracketPeers == failed \notin 84..91

\* Neither wait_until of the test (lines 97 and 98) gives up while the node
\* writes the pings it queued and the peers answer them: the bytes awaited
\* are bytes the ping of line 96 does cause.
WaitsReturn == failed \notin {97, 98}

\* The loop of lines 101 to 103 asserts, of every peer, that a ping went
\* out and a pong came back since the first getpeerinfo: once both waits
\* have returned, that is what the second getpeerinfo shows.
EveryPeerAnswered == failed \notin {102, 103}

=============================================================================
