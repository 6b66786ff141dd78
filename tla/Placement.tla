------------------------------ MODULE Placement ------------------------------
(***************************************************************************)
(* The capacity ledger of the panel and the four operations that write it: *)
(* purchase (lib/provisioning.ts, provisionServer), deletion               *)
(* (deleteServer), migration and drain (lib/migration.ts) and the          *)
(* reconciler's recalculation (lib/scheduler.ts, worker/reconciler.ts).    *)
(*                                                                         *)
(* One action is one database transaction, or one statement where the code *)
(* uses no transaction; everything the code awaits between two of them     *)
(* (an agent call, another statement) is a place where other actors run.   *)
(* Memory, disk and CPU are reserved, checked and released by the same     *)
(* statements, so the model keeps one dimension.  A server's id is the     *)
(* pair of its order and the attempt that wrote its row.                   *)
(***************************************************************************)
EXTENDS Integers, FiniteSets

CONSTANTS
    Nodes,        \* rows of table Node
    Servers,      \* orders, and the server each of them buys
    Movers,       \* admin requests that run migrateServer or drainNode
    Allocations,  \* rows of table Allocation (ip:port pairs)
    NodeOf,       \* the node an allocation belongs to
    Size,         \* the plan's memory, by server
    MaxSize,      \* an upper bound of Size
    Totals,       \* sellable totals (total - overhead) an admin may give a node
    MaxAttempts,  \* placements a purchase tries (3 in the code)
    Admits,       \* the interactions of the code this instance explores
    NoNode, NoServer

(***************************************************************************)
(* The interactions the code permits and that an instance may switch on:   *)
(*   recalculate   the reconciler or an admin recomputes a node's counter  *)
(*   named target  an admin names the node a server is to move to          *)
(*   overlap       two operations on one server run at the same time       *)
(*   late failure  a statement fails after a migration has switched        *)
(*   shrink        a PATCH lowers a total below what is reserved           *)
(*   crash         the panel process dies in the middle of an operation    *)
(***************************************************************************)
Interactions ==
    {"recalculate", "named target", "overlap", "late failure", "shrink", "crash"}

ASSUME SetsAssumption ==
    /\ IsFiniteSet(Servers) /\ NoServer \notin Servers
    /\ NoNode \notin Nodes
    /\ NodeOf \in [Allocations -> Nodes]

ASSUME SizeAssumption ==
    /\ MaxSize \in Nat
    /\ Size \in [Servers -> 1..MaxSize]

ASSUME BoundsAssumption ==
    /\ Totals \subseteq Nat
    /\ MaxAttempts \in Nat \ {0}
    /\ Admits \subseteq Interactions

VARIABLES
    total,     \* Node.total* - Node.overhead*
    reserved,  \* Node.reserved*
    offered,   \* nodes ONLINE, enabled and with a fresh heartbeat
    row,       \* the Server row of an order, if it has one
    owner,     \* Allocation.serverId
    order,     \* Order.status
    buy,       \* provisionServer running for an order
    del,       \* deleteServer running for a server: the nodeId it has read
    job,       \* migrateServer (or the drain loop around it) of a mover
    sums       \* recalculation: the SUM its statement has read, by node

vars == <<total, reserved, offered, row, owner, order, buy, del, job, sums>>

-----------------------------------------------------------------------------
(* The ledger's arithmetic.  Load(S) is the sum of Size over S, written as  *)
(* the cardinality of a set so that it can be reasoned about.               *)

Units(S) == {u \in Servers \X (1..MaxSize) : u[1] \in S /\ u[2] <= Size[u[1]]}
Load(S) == Cardinality(Units(S))

NoSum == -1
NoRow == [status |-> "none", node |-> NoNode, attempt |-> 0]

Present(s) == row[s].status # "none"
Located(n) == {s \in Servers : Present(s) /\ row[s].node = n}

\* Mutant of Summed: the recalculation counts only servers that are built.
SummedBuilt(n) == {s \in Located(n) : row[s].status = "OFFLINE"}

\* The rows recalculateNodeReservations sums.
Summed(n) == {s \in Located(n) : row[s].status # "DELETING"}

\* Mutant of Candidates: the query does not look at free capacity.
CandidatesFull(s, excluded) == offered \ excluded

\* The candidate query of reserveCapacity; which one of them is chosen
\* (location, balance score) is left open.
Candidates(s, excluded) ==
    {n \in offered \ excluded : total[n] - reserved[n] >= Size[s]}

FreePorts(n) == {a \in Allocations : NodeOf[a] = n /\ owner[a] = NoServer}

\* Mutant of Released: the release is forgotten.
ReleasedNot(n, s) == reserved

\* releaseCapacity, with its GREATEST(0, ...).
Released(n, s) ==
    [reserved EXCEPT ![n] = IF @ >= Size[s] THEN @ - Size[s] ELSE 0]

\* Mutant of Unclaimed: the filter on nodeId is missing.
UnclaimedAll(s, N) == [a \in Allocations |-> IF owner[a] = s THEN NoServer ELSE owner[a]]

\* allocation.updateMany({serverId, nodeId in N}, {serverId: null}).
Unclaimed(s, N) ==
    [a \in Allocations |->
        IF owner[a] = s /\ NodeOf[a] \in N THEN NoServer ELSE owner[a]]

-----------------------------------------------------------------------------
(* Which operations are running.                                            *)

BuyActive == {"placing", "building", "recorded"}
BuyPC == BuyActive \cup {"new", "done", "refused", "failed", "dead"}
JobPC == {"idle", "queued", "copying", "building", "cleanup", "unwinding", "releasing"}

HoldPC == {"copying", "building", "unwinding", "releasing"}

Moving(s) == \E m \in Movers : job[m].pc # "idle" /\ job[m].server = s
Idle(s) == buy[s].pc \notin BuyActive /\ del[s] = NoNode /\ ~Moving(s)
MayStart(s) == "overlap" \in Admits \/ Idle(s)

\* The row the migration was started for still exists; its MigrationJob row
\* is deleted with it (onDelete: Cascade).
Live(m) == Present(job[m].server) /\ row[job[m].server].attempt = job[m].attempt

Resting(todo) ==
    [pc |-> "idle", server |-> NoServer, attempt |-> 0, from |-> NoNode,
     to |-> NoNode, target |-> NoNode, rsv |-> NoNode, todo |-> todo]

-----------------------------------------------------------------------------
Init ==
    /\ total \in [Nodes -> Totals]
    /\ reserved = [n \in Nodes |-> 0]
    /\ offered = Nodes
    /\ row = [s \in Servers |-> NoRow]
    /\ owner = [a \in Allocations |-> NoServer]
    /\ order = [s \in Servers |-> "none"]
    /\ buy = [s \in Servers |-> [pc |-> "new", attempt |-> 0, tried |-> {}, node |-> NoNode]]
    /\ del = [s \in Servers |-> NoNode]
    /\ job = [m \in Movers |-> Resting({})]
    /\ sums = [n \in Nodes |-> NoSum]

-----------------------------------------------------------------------------
(* Purchase: provisionServer.                                               *)

\* orders/route.ts creates the order PAID and calls provisionServer.
Order(s) ==
    /\ buy[s].pc = "new"
    /\ order' = [order EXCEPT ![s] = "PAID"]
    /\ buy' = [buy EXCEPT ![s].pc = "placing"]
    /\ UNCHANGED <<total, reserved, offered, row, owner, del, job, sums>>

\* Mutant of Placing: the loop has no bound.
PlacingForever(s) == buy[s].pc = "placing"

Placing(s) == buy[s].pc = "placing" /\ buy[s].attempt < MaxAttempts

\* reserveCapacity with provisionServer's callback: reservation, Server row,
\* port and order in one transaction.
Reserve(s) ==
    /\ Placing(s)
    /\ \E n \in Candidates(s, buy[s].tried) : \E a \in FreePorts(n) :
        /\ reserved' = [reserved EXCEPT ![n] = @ + Size[s]]
        /\ row' = [row EXCEPT ![s] = [status |-> "PROVISIONING", node |-> n,
                                      attempt |-> buy[s].attempt + 1]]
        /\ owner' = [owner EXCEPT ![a] = s]
        /\ order' = [order EXCEPT ![s] = "PROVISIONED"]
        /\ buy' = [buy EXCEPT ![s].pc = "building", ![s].node = n,
                              ![s].tried = @ \cup {n}]
    /\ UNCHANGED <<total, offered, del, job, sums>>

\* NoCapacityError is rethrown at once: the order keeps its status.
NoCapacity(s) ==
    /\ Placing(s)
    /\ Candidates(s, buy[s].tried) = {}
    /\ buy' = [buy EXCEPT ![s].pc = "refused"]
    /\ UNCHANGED <<total, reserved, offered, row, owner, order, del, job, sums>>

\* Mutant of NoAllocation: only failed builds count as attempts.
NoAllocationFree(s) ==
    /\ Placing(s)
    /\ \E n \in Candidates(s, buy[s].tried) : FreePorts(n) = {}
    /\ UNCHANGED vars

\* The chosen node has no free port: the transaction is rolled back and the
\* attempt is spent, but the node is not added to attemptedNodes.
NoAllocation(s) ==
    /\ Placing(s)
    /\ \E n \in Candidates(s, buy[s].tried) : FreePorts(n) = {}
    /\ buy' = [buy EXCEPT ![s].attempt = @ + 1]
    /\ UNCHANGED <<total, reserved, offered, row, owner, order, del, job, sums>>

\* The agent has built the container.
BuildSucceeds(s) ==
    /\ buy[s].pc = "building"
    /\ row' = [row EXCEPT ![s].status = "OFFLINE"]
    /\ buy' = [buy EXCEPT ![s].pc = "recorded"]
    /\ UNCHANGED <<total, reserved, offered, owner, order, del, job, sums>>

\* First invoice (its failure is swallowed) and audit entry.
Recorded(s) ==
    /\ buy[s].pc = "recorded"
    /\ buy' = [buy EXCEPT ![s].pc = "done"]
    /\ UNCHANGED <<total, reserved, offered, row, owner, order, del, job, sums>>

\* Mutant of BuildFails: the order is not set back.
BuildFailsOrderKept(s) ==
    /\ buy[s].pc \in {"building", "recorded"}
    /\ Present(s)
    /\ owner' = Unclaimed(s, Nodes)
    /\ row' = [row EXCEPT ![s] = NoRow]
    /\ reserved' = Released(buy[s].node, s)
    /\ buy' = [buy EXCEPT ![s].pc = "placing", ![s].attempt = @ + 1, ![s].node = NoNode]
    /\ UNCHANGED <<total, offered, order, del, job, sums>>

\* The agent call, or a statement after it, has thrown: the catch block's
\* transaction undoes the attempt on the node it was made on.
BuildFails(s) ==
    /\ buy[s].pc \in {"building", "recorded"}
    /\ Present(s)
    /\ owner' = Unclaimed(s, Nodes)
    /\ row' = [row EXCEPT ![s] = NoRow]
    /\ reserved' = Released(buy[s].node, s)
    /\ order' = [order EXCEPT ![s] = "PENDING"]
    /\ buy' = [buy EXCEPT ![s].pc = "placing", ![s].attempt = @ + 1, ![s].node = NoNode]
    /\ UNCHANGED <<total, offered, del, job, sums>>

\* The loop is exhausted.
GiveUp(s) ==
    /\ buy[s].pc = "placing" /\ buy[s].attempt = MaxAttempts
    /\ order' = [order EXCEPT ![s] = "FAILED"]
    /\ buy' = [buy EXCEPT ![s].pc = "failed"]
    /\ UNCHANGED <<total, reserved, offered, row, owner, del, job, sums>>

BuyCrash(s) ==
    /\ "crash" \in Admits
    /\ buy[s].pc \in BuyActive
    /\ buy' = [buy EXCEPT ![s].pc = "dead"]
    /\ UNCHANGED <<total, reserved, offered, row, owner, order, del, job, sums>>

BuyStep(s) ==
    \/ Reserve(s) \/ NoCapacity(s) \/ NoAllocation(s) \/ GiveUp(s)
    \/ BuildSucceeds(s) \/ Recorded(s) \/ BuildFails(s)

-----------------------------------------------------------------------------
(* Deletion: deleteServer, called by billing for servers long since built.  *)

DeleteStart(s) ==
    /\ Present(s) /\ buy[s].pc \in {"done", "dead"}
    /\ del[s] = NoNode
    /\ MayStart(s)
    /\ row' = [row EXCEPT ![s].status = "DELETING"]
    /\ del' = [del EXCEPT ![s] = row[s].node]
    /\ UNCHANGED <<total, reserved, offered, owner, order, buy, job, sums>>

\* After the agent call, whatever it returned: the node released is the one
\* read at the start.
DeleteCommit(s) ==
    /\ del[s] # NoNode
    /\ owner' = Unclaimed(s, Nodes)
    /\ row' = [row EXCEPT ![s] = NoRow]
    /\ reserved' = Released(del[s], s)
    /\ del' = [del EXCEPT ![s] = NoNode]
    /\ UNCHANGED <<total, offered, order, buy, job, sums>>

DeleteCrash(s) ==
    /\ "crash" \in Admits
    /\ del[s] # NoNode
    /\ del' = [del EXCEPT ![s] = NoNode]
    /\ UNCHANGED <<total, reserved, offered, row, owner, order, buy, job, sums>>

-----------------------------------------------------------------------------
(* Migration and drain.                                                     *)

\* migrateServer reads the server and writes a QUEUED job whose toNodeId is
\* the named target, or the source while none is known.
Queued(m, s, target, todo) ==
    /\ MayStart(s)
    /\ job' = [job EXCEPT ![m] =
            [pc |-> "queued", server |-> s, attempt |-> row[s].attempt,
             from |-> row[s].node, to |-> IF target = NoNode THEN row[s].node ELSE target,
             target |-> target, rsv |-> NoNode, todo |-> todo]]

Migrate(m, s) ==
    /\ job[m].pc = "idle" /\ job[m].todo = {}
    /\ Present(s)
    /\ \E target \in {NoNode} \cup (IF "named target" \in Admits THEN Nodes ELSE {}) :
            Queued(m, s, target, {})
    /\ UNCHANGED <<total, reserved, offered, row, owner, order, buy, del, sums>>

\* drainNode disables the node, lists every server on it, whatever its
\* status, and migrates them one after the other.
Drain(m, n) ==
    /\ job[m].pc = "idle" /\ job[m].todo = {}
    /\ offered' = offered \ {n}
    /\ job' = [job EXCEPT ![m].todo = {<<s, row[s].attempt>> : s \in Located(n)}]
    /\ UNCHANGED <<total, reserved, row, owner, order, buy, del, sums>>

\* A listed server that is gone makes migrateServer throw; the loop goes on.
DrainNext(m) ==
    /\ job[m].pc = "idle"
    /\ \E x \in job[m].todo :
        IF Present(x[1]) /\ row[x[1]].attempt = x[2]
        THEN Queued(m, x[1], NoNode, job[m].todo \ {x})
        ELSE job' = [job EXCEPT ![m].todo = @ \ {x}]
    /\ UNCHANGED <<total, reserved, offered, row, owner, order, buy, del, sums>>

\* reserveCapacity with migrateServer's callback.
MoveReserve(m) ==
    /\ job[m].pc = "queued" /\ Live(m)
    /\ \E n \in Candidates(job[m].server, {job[m].from}) :
        /\ job[m].target \in {NoNode, n}
        /\ reserved' = [reserved EXCEPT ![n] = @ + Size[job[m].server]]
        /\ job' = [job EXCEPT ![m].pc = "copying", ![m].to = n, ![m].rsv = n]
    /\ UNCHANGED <<total, offered, row, owner, order, buy, del, sums>>

\* No candidate, another node than the named one chosen, or the job's row
\* gone: the transaction is rolled back and control passes to the catch block.
MoveRefused(m) ==
    /\ job[m].pc = "queued"
    /\ LET fit == Candidates(job[m].server, {job[m].from})
       IN  \/ fit = {} \/ ~Live(m)
           \/ job[m].target # NoNode /\ fit # {job[m].target}
    /\ job' = [job EXCEPT ![m].pc = "unwinding"]
    /\ UNCHANGED <<total, reserved, offered, row, owner, order, buy, del, sums>>

\* The source is stopped and archived; a port is claimed on the target.
Claim(m) ==
    /\ job[m].pc = "copying" /\ Live(m)
    /\ \E a \in FreePorts(job[m].rsv) : owner' = [owner EXCEPT ![a] = job[m].server]
    /\ job' = [job EXCEPT ![m].pc = "building"]
    /\ UNCHANGED <<total, reserved, offered, row, order, buy, del, sums>>

\* The target is built and restored; one transaction switches the record.
Switch(m) ==
    /\ job[m].pc = "building" /\ Live(m)
    /\ owner' = Unclaimed(job[m].server, {job[m].from})
    /\ row' = [row EXCEPT ![job[m].server].node = job[m].rsv,
                          ![job[m].server].status = "OFFLINE"]
    /\ reserved' = Released(job[m].from, job[m].server)
    /\ job' = [job EXCEPT ![m].pc = "cleanup"]
    /\ UNCHANGED <<total, offered, order, buy, del, sums>>

\* An agent call, the port claim or a status update has thrown.
MoveFails(m) ==
    /\ job[m].pc \in {"copying", "building"}
    /\ job' = [job EXCEPT ![m].pc = "unwinding"]
    /\ UNCHANGED <<total, reserved, offered, row, owner, order, buy, del, sums>>

\* The source container is deleted (best effort) and the job COMPLETED.
Completed(m) ==
    /\ job[m].pc = "cleanup"
    /\ job' = [job EXCEPT ![m] = Resting(job[m].todo)]
    /\ UNCHANGED <<total, reserved, offered, row, owner, order, buy, del, sums>>

\* The job's update or the audit entry after the switch throws, inside the
\* same try block.
LateFailure(m) ==
    /\ "late failure" \in Admits
    /\ job[m].pc = "cleanup"
    /\ job' = [job EXCEPT ![m].pc = "unwinding"]
    /\ UNCHANGED <<total, reserved, offered, row, owner, order, buy, del, sums>>

\* Catch block, first statement: throws if the job is gone, does nothing
\* unless the job names a node other than the source.
UnwindPorts(m) ==
    /\ job[m].pc = "unwinding"
    /\ IF Live(m) /\ job[m].to # job[m].from
       THEN /\ owner' = Unclaimed(job[m].server, {job[m].to})
            /\ job' = [job EXCEPT ![m].pc = "releasing"]
       ELSE /\ job' = [job EXCEPT ![m] = Resting(job[m].todo)]
            /\ UNCHANGED owner
    /\ UNCHANGED <<total, reserved, offered, row, order, buy, del, sums>>

\* Catch block, second statement, in no transaction with the first.
UnwindLedger(m) ==
    /\ job[m].pc = "releasing"
    /\ reserved' = Released(job[m].to, job[m].server)
    /\ job' = [job EXCEPT ![m] = Resting(job[m].todo)]
    /\ UNCHANGED <<total, offered, row, owner, order, buy, del, sums>>

MoveCrash(m) ==
    /\ "crash" \in Admits
    /\ job[m].pc # "idle" \/ job[m].todo # {}
    /\ job' = [job EXCEPT ![m] = Resting({})]
    /\ UNCHANGED <<total, reserved, offered, row, owner, order, buy, del, sums>>

MoveStep(m) ==
    \/ DrainNext(m) \/ MoveReserve(m) \/ MoveRefused(m) \/ Claim(m) \/ Switch(m)
    \/ MoveFails(m) \/ Completed(m) \/ UnwindPorts(m) \/ UnwindLedger(m)

-----------------------------------------------------------------------------
(* Nodes: what agents, admins and the reconciler do to them.                *)

\* A node comes online or goes stale, or an admin enables or disables it.
Toggle(n) ==
    /\ offered' = IF n \in offered THEN offered \ {n} ELSE offered \cup {n}
    /\ UNCHANGED <<total, reserved, row, owner, order, buy, del, job, sums>>

\* PATCH of a node's totals: the update is committed before the totals are
\* compared with what is reserved, so a refused shrink stays in force.
Resize(n, c) ==
    /\ c >= reserved[n] \/ "shrink" \in Admits
    /\ total' = [total EXCEPT ![n] = c]
    /\ UNCHANGED <<reserved, offered, row, owner, order, buy, del, job, sums>>

\* recalculateNodeReservations, a single UPDATE: its subquery reads with the
\* statement's snapshot ...
SumRows(n) ==
    /\ "recalculate" \in Admits
    /\ sums[n] = NoSum
    /\ sums' = [sums EXCEPT ![n] = Load(Summed(n))]
    /\ UNCHANGED <<total, reserved, offered, row, owner, order, buy, del, job>>

\* ... and its write waits for the node row's lock.
Recalculate(n) ==
    /\ sums[n] # NoSum
    /\ reserved' = [reserved EXCEPT ![n] = sums[n]]
    /\ sums' = [sums EXCEPT ![n] = NoSum]
    /\ UNCHANGED <<total, offered, row, owner, order, buy, del, job>>

-----------------------------------------------------------------------------
Next ==
    \/ \E s \in Servers :
        \/ Order(s) \/ BuyStep(s) \/ BuyCrash(s)
        \/ DeleteStart(s) \/ DeleteCommit(s) \/ DeleteCrash(s)
    \/ \E m \in Movers :
        \/ \E s \in Servers : Migrate(m, s)
        \/ \E n \in Nodes : Drain(m, n)
        \/ MoveStep(m) \/ LateFailure(m) \/ MoveCrash(m)
    \/ \E n \in Nodes :
        \/ Toggle(n) \/ SumRows(n) \/ Recalculate(n)
        \/ \E c \in Totals : Resize(n, c)

Spec == Init /\ [][Next]_vars

\* callAgent and every transaction carry a timeout, so a started purchase
\* always reaches its next step; the worker reconciles the fleet every five minutes.
Fairness ==
    /\ \A s \in Servers : WF_vars(BuyStep(s))
    /\ \A n \in Nodes : WF_vars(SumRows(n)) /\ WF_vars(Recalculate(n))

FairSpec == Spec /\ Fairness

-----------------------------------------------------------------------------
(* Properties.                                                              *)

Attempts == 0..MaxAttempts
SomeNode == Nodes \cup {NoNode}

RowRecord ==
    [status : {"none", "PROVISIONING", "OFFLINE", "DELETING"},
     node : SomeNode, attempt : Attempts]
BuyRecord ==
    [pc : BuyPC, attempt : Attempts, tried : SUBSET Nodes, node : SomeNode]
JobRecord ==
    [pc : JobPC, server : Servers \cup {NoServer}, attempt : Attempts,
     from : SomeNode, to : SomeNode, target : SomeNode, rsv : SomeNode,
     todo : SUBSET (Servers \X Attempts)]

TypeOK ==
    /\ total \in [Nodes -> Nat]
    /\ reserved \in [Nodes -> Nat]
    /\ offered \subseteq Nodes
    /\ row \in [Servers -> RowRecord]
    /\ owner \in [Allocations -> Servers \cup {NoServer}]
    /\ order \in [Servers -> {"none", "PAID", "PROVISIONED", "PENDING", "FAILED"}]
    /\ buy \in [Servers -> BuyRecord]
    /\ del \in [Servers -> SomeNode]
    /\ job \in [Movers -> JobRecord]
    /\ sums \in [Nodes -> Nat \cup {NoSum}]

\* The servers for which a migration under way holds capacity on n.
Holds(n) ==
    {s \in Servers : \E m \in Movers :
        job[m].server = s /\ job[m].rsv = n /\ job[m].pc \in HoldPC}

\* Node.reserved* is "sum of plan allocations placed on this node": of its
\* Server rows and of the migrations on their way to it (schema.prisma:95,
\* migration.ts:10-12).
LedgerExact == \A n \in Nodes : reserved[n] = Load(Located(n) \cup Holds(n))

\* The servers a node hosts fit into its sellable total (scheduler.ts:8-14).
NeverOversold == \A n \in Nodes : Load(Located(n)) <= total[n]

\* A server has exactly one port on its node, and one more only on the node
\* a migration is building it on; nothing else owns a port (claimAllocation
\* and the three places that free ports).
ServerPorts(s) ==
    /\ Present(s) => \E a \in Allocations : owner[a] = s /\ NodeOf[a] = row[s].node
    /\ \A a, b \in Allocations :
            owner[a] = s /\ owner[b] = s /\ NodeOf[a] = NodeOf[b] => a = b
    /\ \A a \in Allocations : owner[a] = s =>
            /\ Present(s)
            /\ \/ NodeOf[a] = row[s].node
               \/ \E m \in Movers : /\ job[m].pc \in {"building", "unwinding"}
                                    /\ job[m].server = s /\ job[m].rsv = NodeOf[a]

PortsExact == \A s \in Servers : ServerPorts(s)

\* A purchase that ended without a server left no row, no port and no order
\* claiming to be provisioned (provisionServer's two exits by exception).
FailedPurchaseHoldsNothing ==
    \A s \in Servers : buy[s].pc \in {"refused", "failed"} =>
        /\ ~Present(s)
        /\ order[s] # "PROVISIONED"
        /\ \A a \in Allocations : owner[a] # s

\* A purchase does not retry for ever: the loop of provisionServer ends even
\* when every attempt picks the same node and finds it without a port.
RetryTerminates ==
    \A s \in Servers : buy[s].pc = "placing" ~> buy[s].pc \notin BuyActive

\* Whatever overlapped, failed or crashed: once no operation is running, the
\* reconciler brings every counter back to the sum of the rows that are not
\* being deleted (recalculateNodeReservations).
Quiet ==
    /\ \A s \in Servers : buy[s].pc \notin BuyActive /\ del[s] = NoNode
    /\ \A m \in Movers : job[m].pc = "idle"

Placed(n) ==
    {s \in Servers : row[s].status \in {"PROVISIONING", "OFFLINE"} /\ row[s].node = n}

LedgerHeals ==
    <>[]Quiet => <>[](\A n \in Nodes : reserved[n] = Load(Placed(n)))

-----------------------------------------------------------------------------
(* What comments of the code say and the code does not do.                  *)

\* "At no point does the server exist on neither node's books"
\* (migration.ts:10-12): while it moves, the counter of its source or that of
\* its target covers it.
OnSomeBooks ==
    \A m \in Movers : job[m].pc \in {"copying", "building", "cleanup"} /\ Live(m) =>
        \E n \in {job[m].from, job[m].rsv} : reserved[n] >= Size[job[m].server]

\* "Reservation ... released" (provisioning.ts:150-163, 210-218): whatever
\* overlaps, a node's counter covers the rows on it.
OnTheBooks == \A n \in Nodes : reserved[n] >= Load(Placed(n))

\* "The source is still intact and still reserved; unwind only the target"
\* (migration.ts:154): a migration being unwound has not moved its server.
SourceIntact ==
    \A m \in Movers :
        job[m].pc = "unwinding" /\ Live(m) => row[job[m].server].node = job[m].from

\* "Shrinking totals below what is already reserved would oversell the node"
\* (admin/nodes/[nodeId]/route.ts:31): no total is below its reservations.
TotalsCoverReserved == \A n \in Nodes : reserved[n] <= total[n]

\* "If this fails the reservation from phase 1 is explicitly released and the
\* order is marked FAILED" (provisioning.ts:29-31): a purchase that ends after
\* a failed build ends with its order FAILED.
OrderMarkedFailed ==
    \A s \in Servers :
        buy[s].pc \in {"refused", "failed"} /\ buy[s].attempt > 0 => order[s] = "FAILED"
=============================================================================
