----------------------------- MODULE NodeAdmin -----------------------------
(***************************************************************************)
(* The nodes an administrator adds, drains and removes (panel,             *)
(* api/admin/nodes and below, drainNode in lib/migration.ts), beside       *)
(* purchases, deletions and migrations that refer to them.  What refers to *)
(* a node are the rows of servers and of migration jobs, and PostgreSQL    *)
(* refuses to delete a node such a row names (prisma/schema.prisma).       *)
(* Capacity and ports are Placement's matter; operations on one server do  *)
(* not overlap here.                                                       *)
(***************************************************************************)
EXTENDS FiniteSets, Naturals

CONSTANTS
    Nodes,    \* ids of nodes, each given out once
    Servers,  \* ids of servers, each given out once
    Admits    \* the interactions of the code this instance explores

(***************************************************************************)
(* The interactions the code permits and that an instance may switch on:   *)
(*   inbound   a node is drained while a server is on its way to it        *)
(*   enable    a node is enabled while it is drained                       *)
(***************************************************************************)
None == "none"

NodeAdminAssumption == Admits \subseteq {"inbound", "enable"} /\ Nodes \cap {None, "still"} = {}

VARIABLES
    node,   \* table Node: not made yet, enabled, disabled or deleted
    home,   \* Server.nodeId of each server there is
    made,   \* servers made so far
    jobs,   \* table MigrationJob: server, from, to
    move,   \* migrations under way: server, target, "none" before the reservation
    drain,  \* the drain under way: step, node, servers to come and not moved
    erase   \* the deletion under way: the node it has counted, or none

vars == <<node, home, made, jobs, move, drain, erase>>
fleet == <<home, made, jobs, move>>

NoDrain == [step |-> "idle", node |-> None, todo |-> {}, failed |-> {}]

Init ==
    /\ node = [n \in Nodes |-> "not made"] /\ home = [s \in Servers |-> None]
    /\ made = {} /\ jobs = {} /\ move = [s \in Servers |-> "still"]
    /\ drain = NoDrain /\ erase = None

-----------------------------------------------------------------------------
(* Purchases, deletions and migrations.                                     *)

At(n) == {s \in Servers : home[s] = n}
Still(s) == move[s] = "still"
Inbound(n) == \E s \in Servers : move[s] = n

\* reserveCapacity locks the node it writes the row for.
Buy(s, n) ==
    /\ s \notin made /\ node[n] = "enabled"
    /\ home' = [home EXCEPT ![s] = n] /\ made' = made \cup {s}
    /\ UNCHANGED <<node, jobs, move, drain, erase>>

\* The row takes its migration jobs along.
DeleteServer(s) ==
    /\ home[s] # None /\ Still(s)
    /\ home' = [home EXCEPT ![s] = None] /\ jobs' = {j \in jobs : j.server # s}
    /\ UNCHANGED <<node, made, move, drain, erase>>

\* The job is written before a target is known; one asked for by name, which
\* the job then names from the start, is left out.
Begin(s) ==
    /\ move' = [move EXCEPT ![s] = None]
    /\ jobs' = jobs \cup {[server |-> s, from |-> home[s], to |-> home[s]]}
    /\ UNCHANGED <<node, home, made, erase>>

Migrate(s) ==
    /\ home[s] # None /\ Still(s) /\ home[s] # drain.node
    /\ Begin(s)
    /\ UNCHANGED drain

\* The reservation and the job's target are written in one transaction.
Reserve(s, n) ==
    /\ move[s] = None /\ node[n] = "enabled" /\ n # home[s]
    /\ move' = [move EXCEPT ![s] = n]
    /\ jobs' = (jobs \ {[server |-> s, from |-> home[s], to |-> home[s]]})
                   \cup {[server |-> s, from |-> home[s], to |-> n]}
    /\ UNCHANGED <<node, home, made, drain, erase>>

\* A drain takes the next server when the migration of the last one has ended.
Drained(s, moved) ==
    IF drain.step = "moving" /\ s \in drain.todo
    THEN [drain EXCEPT !.step = "listed", !.todo = @ \ {s}, !.failed = IF moved THEN @ ELSE @ \cup {s}]
    ELSE drain

Switch(s) ==
    /\ move[s] \in Nodes
    /\ home' = [home EXCEPT ![s] = move[s]] /\ move' = [move EXCEPT ![s] = "still"]
    /\ drain' = Drained(s, TRUE)
    /\ UNCHANGED <<node, made, jobs, erase>>

\* No capacity, or a step that failed; the job stays and names both nodes.
RollBack(s) ==
    /\ ~Still(s)
    /\ move' = [move EXCEPT ![s] = "still"]
    /\ drain' = Drained(s, FALSE)
    /\ UNCHANGED <<node, home, made, jobs, erase>>

-----------------------------------------------------------------------------
(* The administrator.                                                       *)

Create(n) ==
    /\ node[n] = "not made"
    /\ node' = [node EXCEPT ![n] = "enabled"]
    /\ UNCHANGED <<fleet, drain, erase>>

Enable(n) ==
    /\ node[n] \in {"enabled", "disabled"} /\ ("enable" \in Admits \/ drain.node # n)
    /\ node' = [node EXCEPT ![n] = IF @ = "enabled" THEN "disabled" ELSE "enabled"]
    /\ UNCHANGED <<fleet, drain, erase>>

\* Mutant of Disables: the servers are listed while the node takes new ones.
DisablesNot(n) == UNCHANGED node

Disables(n) == node' = [node EXCEPT ![n] = "disabled"]

Drain(n) ==
    /\ drain.step = "idle" /\ node[n] \in {"enabled", "disabled"}
    /\ \A s \in At(n) : Still(s)
    /\ "inbound" \in Admits \/ ~Inbound(n)
    /\ Disables(n)
    /\ drain' = [NoDrain EXCEPT !.step = "disabled", !.node = n]
    /\ UNCHANGED <<fleet, erase>>

ListServers ==
    /\ drain.step = "disabled"
    /\ drain' = [drain EXCEPT !.step = "listed", !.todo = At(drain.node)]
    /\ UNCHANGED <<node, fleet, erase>>

\* One at a time; a server that was deleted meanwhile counts as failed.
MoveNext(s) ==
    /\ drain.step = "listed" /\ s \in drain.todo
    /\ \/ /\ home[s] = drain.node
          /\ Begin(s)
          /\ drain' = [drain EXCEPT !.step = "moving"]
       \/ /\ home[s] # drain.node
          /\ drain' = [drain EXCEPT !.todo = @ \ {s}, !.failed = @ \cup {s}]
          /\ UNCHANGED <<node, fleet, erase>>

Answered ==
    /\ drain.step = "listed" /\ drain.todo = {}
    /\ drain' = NoDrain
    /\ UNCHANGED <<node, fleet, erase>>

CountServers(n) ==
    /\ erase = None /\ node[n] \in {"enabled", "disabled"} /\ At(n) = {}
    /\ erase' = n
    /\ UNCHANGED <<node, fleet, drain>>

\* Mutant of Named: a job is kept from losing the node it started from only.
NamedFrom(n) == \E j \in jobs : n = j.from

Named(n) == \E j \in jobs : n \in {j.from, j.to}

DeleteNode(n) ==
    /\ erase = n /\ erase' = None
    /\ node' = IF At(n) = {} /\ ~Named(n) THEN [node EXCEPT ![n] = "deleted"] ELSE node
    /\ UNCHANGED <<fleet, drain>>

-----------------------------------------------------------------------------
Next ==
    \/ \E s \in Servers : \/ DeleteServer(s) \/ Migrate(s) \/ Switch(s) \/ RollBack(s) \/ MoveNext(s)
                          \/ \E n \in Nodes : Buy(s, n) \/ Reserve(s, n)
    \/ \E n \in Nodes : \/ Create(n) \/ Enable(n) \/ Drain(n)
                        \/ CountServers(n) \/ DeleteNode(n)
    \/ ListServers \/ Answered

Spec == Init /\ [][Next]_vars

-----------------------------------------------------------------------------
(* Properties.                                                              *)

\* Nodes, servers and jobs are of their kinds.
TypeOK ==
    /\ node \in [Nodes -> {"not made", "enabled", "disabled", "deleted"}]
    /\ home \in [Servers -> Nodes \cup {None}] /\ made \subseteq Servers
    /\ move \in [Servers -> Nodes \cup {None, "still"}]
    /\ \A j \in jobs : j.server \in Servers /\ {j.from, j.to} \subseteq Nodes
    /\ drain.step \in {"idle", "disabled", "listed", "moving"}
    /\ drain.node \in Nodes \cup {None} /\ drain.todo \cup drain.failed \subseteq Servers
    /\ erase \in Nodes \cup {None}

\* Although a node's servers are counted before it is deleted, and the target of
\* a migration holds no server until the switch: where servers live and where
\* they are on their way to, the node exists.
NothingDangles ==
    \A s \in Servers : \A n \in {home[s], move[s]} \cap Nodes : node[n] \in {"enabled", "disabled"}

\* "Every server was moved. The node is empty and disabled." (drain/route.ts:20):
\* when a drain that failed for no server answers, nothing has come to the node
\* since its servers were listed.  Violated by the interactions in Admits.
DrainedIsEmpty ==
    drain.step = "listed" /\ drain.todo = {} /\ drain.failed = {} =>
        At(drain.node) = {} /\ ~Inbound(drain.node) /\ node[drain.node] # "enabled"

NodesAccounted == NothingDangles /\ DrainedIsEmpty

-----------------------------------------------------------------------------
(* What comments of the code say and the code does not do.                  *)

\* "Move or delete them first." (admin/nodes/[nodeId]/route.ts:64): a node whose
\* servers have been moved cannot be deleted either, for the jobs of their
\* migrations name it as long as those servers exist.
EmptyNodeGoes ==
    [][(\A s \in Servers : Still(s)) =>
         \A n \in Nodes : erase = n /\ erase' = None /\ At(n) = {} => node'[n] = "deleted"]_vars
=============================================================================
