---------------------------- MODULE PlacementInv ----------------------------
(***************************************************************************)
(* The inductive invariant behind Placement's safety properties when none  *)
(* of the interactions of Admits is switched on: what each operation knows *)
(* about the row, the node and the hold it is working on.                  *)
(***************************************************************************)
EXTENDS Placement

\* The servers that weigh on n: those it hosts and those on their way to it.
Booked(n) == Located(n) \cup Holds(n)

Busy(m) == job[m].pc # "idle"

\* A purchase that has a row has an attempt left to fail.
AttemptLeft ==
    \A s \in Servers :
        buy[s].pc \in {"building", "recorded"} => buy[s].attempt < MaxAttempts

\* A running migration has a server.
JobServer == \A m \in Movers : Busy(m) => job[m].server \in Servers

\* A purchase owns its row until it ends.
BuyInv ==
    \A s \in Servers :
        /\ buy[s].pc # "dead"
        /\ buy[s].pc \in {"building", "recorded"} =>
            /\ Present(s)
            /\ row[s].node = buy[s].node
        /\ buy[s].pc \in {"new", "placing", "refused", "failed"} => ~Present(s)
        /\ Present(s) => row[s].node \in Nodes

\* deleteServer still knows the right node when it commits.
DelInv ==
    \A s \in Servers : del[s] # NoNode =>
        /\ Present(s) /\ row[s].node = del[s]
        /\ buy[s].pc = "done"
        /\ ~Moving(s)

\* A migration's snapshot of its server is still true, and its hold is on
\* another node than its source until the switch.
JobShape(m) ==
    LET j == job[m]
    IN  /\ j.from \in Nodes
        /\ j.target = NoNode
        /\ Live(m)
        /\ buy[j.server].pc = "done"
        /\ j.pc = "queued" => j.to = j.from /\ j.rsv = NoNode
        /\ j.pc \in {"copying", "building", "cleanup", "releasing"} =>
            j.rsv \in Nodes /\ j.to = j.rsv /\ j.rsv # j.from
        /\ j.pc = "unwinding" =>
            \/ j.to = j.from /\ j.rsv = NoNode
            \/ j.rsv \in Nodes /\ j.to = j.rsv /\ j.rsv # j.from
        /\ row[j.server].node = IF j.pc = "cleanup" THEN j.rsv ELSE j.from

JobInv == \A m \in Movers : Busy(m) => JobShape(m)

OneMover ==
    \A m, k \in Movers : Busy(m) /\ Busy(k) /\ job[m].server = job[k].server => m = k

NoSums == \A n \in Nodes : sums[n] = NoSum

\* A migration that builds its target has claimed a port there.
PortClaimed ==
    \A m \in Movers : job[m].pc = "building" =>
        \E a \in Allocations : owner[a] = job[m].server /\ NodeOf[a] = job[m].rsv

\* What the operations know, in one piece.
Structure == BuyInv /\ DelInv /\ JobInv /\ OneMover /\ NoSums

\* The three parts of the typing invariant.
TypeInv == TypeOK /\ AttemptLeft /\ JobServer

IInv ==
    /\ TypeInv /\ Structure
    /\ LedgerExact /\ TotalsCoverReserved
    /\ PortsExact /\ PortClaimed

\* What a purchase and the ports agree on whatever interactions are admitted:
\* a purchase between two attempts has no row, and no row means no port.
PurchaseInv ==
    \A s \in Servers :
        /\ buy[s].pc \in {"new", "placing", "refused", "failed"} => ~Present(s)
        /\ buy[s].pc \in {"placing", "refused", "failed"} => order[s] # "PROVISIONED"
        /\ ~Present(s) => \A a \in Allocations : owner[a] # s
=============================================================================
