----------------------------- MODULE Containers -----------------------------
(***************************************************************************)
(* What is on the nodes: containers and data directories, against the rows *)
(* that say where a server lives.  The panel builds, moves and tears down  *)
(* by commands (lib/provisioning.ts, lib/migration.ts); the agents execute *)
(* them (agent/src/index.ts, providers/docker.ts), each taking its time;   *)
(* and after a reconnect an agent removes what the gateway's list does not *)
(* name (gateway/src/index.ts, reconcile).                                 *)
(*                                                                         *)
(* A panel action goes from one answer to the next command: the statements *)
(* in between and the PUBLISH.  Capacity and ports are Placement's matter. *)
(* Docker is taken to stop and remove what it is told to: the provider     *)
(* passes its refusals over.                                               *)
(* A world is the number of times it has been played on, 0 when the        *)
(* directory is new.  A purchase's next attempt has another server id.     *)
(***************************************************************************)
EXTENDS Integers, FiniteSets

CONSTANTS
    Nodes,      \* rows of table Node
    Servers,    \* ids of table Server, each bought once
    MaxPlays,   \* a bound on the versions of a world
    ObjectStore,  \* TRUE: archives can be read from every node
    Slow,       \* calls whose command may outlive its timeout
    MaxLate,    \* a bound on the commands that do at the same time
    Dies,       \* calls during which the panel may die
    Admits,     \* the interactions of the code this instance explores
    NoNode

(***************************************************************************)
(* The interactions the code permits and that an instance may switch on:   *)
(*   stale         a node reconnects while something is built on it        *)
(*   late          a statement fails after a migration has switched        *)
(*   power         a customer starts a server that is being moved          *)
(*   agent         an agent process dies and is restarted                  *)
(***************************************************************************)
Interactions == {"stale", "late", "power", "agent"}

\* Where an operation waits for an agent; one call each.
Waits == {"building", "tearing", "stopping", "archiving", "creating", "restoring",
          "cleaning", "unwinding"}

ASSUME ContainersAssumption ==
    /\ NoNode \notin Nodes
    /\ MaxPlays \in Nat /\ MaxLate \in Nat /\ ObjectStore \in BOOLEAN
    /\ Slow \subseteq Waits /\ Dies \subseteq Waits /\ Admits \subseteq Interactions

VARIABLES
    row,      \* Server.status and Server.nodeId
    job,      \* the operation on a server: where it waits, and for which answer
    cmds,     \* commands the agents are executing
    box,      \* the container of a server on a node
    disk,     \* its data directory there
    played,   \* how often a server's world has been played on
    online,   \* nodes whose agent is connected
    recon     \* reconcile, by node

vars == <<row, job, cmds, box, disk, played, online, recon>>
panelVars == <<row, job>>
nodeVars == <<box, disk, played>>

-----------------------------------------------------------------------------
NoDir == -1
NoArchive == [node |-> NoNode, world |-> NoDir]
Idle ==
    [pc |-> "idle", got |-> "none", from |-> NoNode, to |-> NoNode, archive |-> NoArchive]
NoRecon == [pc |-> "none", list |-> {}]

\* The servers the panel places on a node, and those it lists to its agent.
Home(s) == row[s].node
PlacedOn(n) == {s \in Servers : row[s].state \in {"building", "up"} /\ Home(s) = n}

\* The node each call goes to, and its command.
CallNode(s, pc) ==
    IF pc \in {"stopping", "archiving", "cleaning"} THEN job[s].from
    ELSE IF pc \in {"creating", "restoring", "unwinding"} THEN job[s].to ELSE Home(s)

\* Mutant of CallOp: the stage of the operation is sent as the command.
CallOpStage(pc) == pc

CallOp(pc) ==
    CASE pc \in {"building", "creating"} -> "create"
      [] pc \in {"tearing", "cleaning", "unwinding"} -> "delete"
      [] pc = "stopping" -> "stop"
      [] pc = "archiving" -> "archive"
      [] pc = "restoring" -> "restore"

Command(op, n, s, x, awaited) ==
    [op |-> op, node |-> n, server |-> s, archive |-> x, awaited |-> awaited]

\* Nobody waits any more for what is executed for s.
Abandoned(s) ==
    {IF c.server = s THEN [c EXCEPT !.awaited = FALSE] ELSE c : c \in cmds}

\* A command reaches its agent, if it is connected, or is lost on the way.
Sends(c) ==
    \/ c.node \in online /\ cmds' = Abandoned(c.server) \cup {c}
    \/ cmds' = Abandoned(c.server)

Awaited(s) == \E c \in cmds : c.server = s /\ c.awaited
Starting(s) == \E c \in cmds : c.server = s /\ c.op = "start"
Late == {c \in cmds : ~c.awaited /\ c.op # "start"}

\* Something is being built on the node for s.
Builds(s, n) ==
    \/ job[s].pc = "building" /\ Home(s) = n
    \/ job[s].pc \in {"stopping", "archiving", "creating", "restoring"} /\ job[s].to = n
MayBuild(n) == "stale" \in Admits \/ recon[n].pc = "none"

-----------------------------------------------------------------------------
Init ==
    /\ row = [s \in Servers |-> [state |-> "none", node |-> NoNode]]
    /\ job = [s \in Servers |-> Idle]
    /\ cmds = {}
    /\ box = [x \in Nodes \X Servers |-> "none"]
    /\ disk = [x \in Nodes \X Servers |-> NoDir]
    /\ played = [s \in Servers |-> 0]
    /\ online = Nodes
    /\ recon = [n \in Nodes |-> NoRecon]

-----------------------------------------------------------------------------
(* The panel.                                                               *)

\* The operation goes on to wait at pc for its next call.
Calls(s, pc, j) ==
    /\ job' = [job EXCEPT ![s] = [j EXCEPT !.pc = pc, !.got = "none"]]
    /\ Sends(Command(CallOp(pc), CallNode(s, pc), s,
                     IF pc = "restoring" THEN j.archive ELSE NoArchive, TRUE))
Ends(s) == job' = [job EXCEPT ![s] = Idle] /\ cmds' = Abandoned(s)

\* provisionServer, the reservation and the call that builds.
Buy(s, n) ==
    /\ row[s].state = "none" /\ MayBuild(n)
    /\ row' = [row EXCEPT ![s] = [state |-> "building", node |-> n]]
    /\ job' = [job EXCEPT ![s].pc = "building"]
    /\ Sends(Command("create", n, s, NoArchive, TRUE))
    /\ UNCHANGED <<nodeVars, online, recon>>

\* deleteServer.
Delete(s) ==
    /\ job[s].pc = "idle" /\ row[s].state \in {"building", "up", "deleting"}
    /\ row' = [row EXCEPT ![s].state = "deleting"]
    /\ Calls(s, "tearing", Idle)
    /\ UNCHANGED <<nodeVars, online, recon>>

\* migrateServer: the target is reserved and the source told to stop.
Migrate(s, n) ==
    /\ job[s].pc = "idle" /\ row[s].state = "up" /\ n # Home(s)
    /\ "power" \in Admits \/ ~Starting(s)
    /\ MayBuild(n)
    /\ job' = [job EXCEPT ![s] = [Idle EXCEPT !.pc = "stopping", !.from = Home(s), !.to = n]]
    /\ Sends(Command("stop", Home(s), s, NoArchive, TRUE))
    /\ UNCHANGED <<row, nodeVars, online, recon>>

Answered(s) == job[s].got = "ok"
Refused(s) ==
    \/ job[s].got = "error"
    \/ /\ job[s].got = "none"
       /\ \/ ~Awaited(s)
          \/ job[s].pc \in Slow /\ Cardinality(Late) < MaxLate

\* Mutant of MoveOn: the archive is made of a server that may be running.
MoveOnUnstopped(s) ==
    /\ \/ job[s].pc = "stopping" /\ (Answered(s) \/ Refused(s)) /\ Calls(s, "archiving", job[s])
       \/ job[s].pc = "archiving" /\ Answered(s) /\ Calls(s, "creating", job[s])
       \/ job[s].pc = "creating" /\ Answered(s) /\ Calls(s, "restoring", job[s])
    /\ UNCHANGED <<row, nodeVars, online, recon>>

\* The steps of a migration up to the switch.
MoveOn(s) ==
    /\ Answered(s)
    /\ \/ job[s].pc = "stopping" /\ Calls(s, "archiving", job[s])
       \/ job[s].pc = "archiving" /\ Calls(s, "creating", job[s])
       \/ job[s].pc = "creating" /\ Calls(s, "restoring", job[s])
    /\ UNCHANGED <<row, nodeVars, online, recon>>

\* The record is switched over, and the source torn down.
Switch(s) ==
    /\ job[s].pc = "restoring" /\ Answered(s)
    /\ row' = [row EXCEPT ![s].node = job[s].to]
    /\ Calls(s, "cleaning", job[s])
    /\ UNCHANGED <<nodeVars, online, recon>>

\* The catch block of migrateServer, also for what fails after the switch.
Unwind(s) ==
    /\ \/ job[s].pc \in {"stopping", "archiving", "creating", "restoring"} /\ Refused(s)
       \/ "late" \in Admits /\ job[s].pc = "cleaning" /\ (Answered(s) \/ Refused(s))
    /\ Calls(s, "unwinding", job[s])
    /\ UNCHANGED <<row, nodeVars, online, recon>>

\* Cleaning up and unwinding are over, whatever the agent says.
MoveEnds(s) ==
    /\ job[s].pc \in {"cleaning", "unwinding"} /\ (Answered(s) \/ Refused(s))
    /\ Ends(s)
    /\ UNCHANGED <<row, nodeVars, online, recon>>

BuildSucceeds(s) ==
    /\ job[s].pc = "building" /\ Answered(s)
    /\ row' = [row EXCEPT ![s].state = "up"]
    /\ Ends(s)
    /\ UNCHANGED <<nodeVars, online, recon>>

\* The rollback of a purchase deletes the row and tells the node nothing;
\* deleteServer deletes it whatever the agent has said.
RowDeleted(s) ==
    /\ \/ job[s].pc = "building" /\ Refused(s)
       \/ job[s].pc = "tearing" /\ (Answered(s) \/ Refused(s))
    /\ row' = [row EXCEPT ![s] = [state |-> "gone", node |-> NoNode]]
    /\ Ends(s)
    /\ UNCHANGED <<nodeVars, online, recon>>

PanelCrash(s) ==
    /\ job[s].pc \in Dies /\ Cardinality(Late) < MaxLate
    /\ Ends(s)
    /\ UNCHANGED <<row, nodeVars, online, recon>>

\* The power route, whose caller is not followed.
Power(s) ==
    /\ row[s].state = "up" /\ Home(s) \in online
    /\ "power" \in Admits \/ job[s].pc = "idle"
    /\ cmds' = cmds \cup {Command("start", Home(s), s, NoArchive, FALSE)}
    /\ UNCHANGED <<panelVars, nodeVars, online, recon>>

PanelStep(s) ==
    MoveOn(s) \/ Switch(s) \/ Unwind(s) \/ MoveEnds(s) \/ BuildSucceeds(s) \/ RowDeleted(s)

-----------------------------------------------------------------------------
(* The agent: commands are executed side by side.                           *)

At(c) == <<c.node, c.server>>

\* The result is sent; it is lost when the agent is not connected.
Replies(c, j) ==
    /\ cmds' = cmds \ {c}
    /\ job' = IF c.awaited /\ c.node \in online THEN [job EXCEPT ![c.server] = j] ELSE job
    /\ UNCHANGED <<row, online, recon>>
Finish(c, r) == Replies(c, [job[c.server] EXCEPT !.got = r])

\* createServer makes the directory, unless there is one, and pulls the image ...
MakeDir(c) ==
    /\ c.op = "create"
    /\ disk' = [disk EXCEPT ![At(c)] = IF @ = NoDir THEN 0 ELSE @]
    /\ cmds' = (cmds \ {c}) \cup {[c EXCEPT !.op = "pull"]}
    /\ UNCHANGED <<panelVars, box, played, online, recon>>

\* ... and makes the container, unless one has the name.
MakeBox(c) ==
    /\ c.op = "pull"
    /\ \/ /\ box[At(c)] = "none"
          /\ box' = [box EXCEPT ![At(c)] = "stopped"]
          /\ Finish(c, "ok")
       \/ Finish(c, "error") /\ UNCHANGED box
    /\ UNCHANGED <<disk, played>>

\* deleteServer removes the container ...
RemoveBox(c) ==
    /\ c.op = "delete"
    /\ box' = [box EXCEPT ![At(c)] = "none"]
    /\ cmds' = (cmds \ {c}) \cup {[c EXCEPT !.op = "wipe"]}
    /\ UNCHANGED <<panelVars, disk, played, online, recon>>

\* ... and then its directory.
WipeDir(c) ==
    /\ c.op = "wipe"
    /\ disk' = [disk EXCEPT ![At(c)] = NoDir]
    /\ Finish(c, "ok")
    /\ UNCHANGED <<box, played>>

\* Docker makes a directory that is missing.
StartBox(c) ==
    /\ c.op = "start"
    /\ IF box[At(c)] = "none"
       THEN Finish(c, "error") /\ UNCHANGED <<box, disk>>
       ELSE /\ box' = [box EXCEPT ![At(c)] = "running"]
            /\ disk' = [disk EXCEPT ![At(c)] = IF @ = NoDir THEN 0 ELSE @]
            /\ Finish(c, "ok")
    /\ UNCHANGED played

StopBox(c) ==
    /\ c.op = "stop"
    /\ box' = [box EXCEPT ![At(c)] = IF @ = "running" THEN "stopped" ELSE @]
    /\ Finish(c, "ok")
    /\ UNCHANGED <<disk, played>>

\* The archive is written under the id of the migration's own backup row.
Archive(c) ==
    /\ c.op = "archive"
    /\ \/ /\ disk[At(c)] # NoDir
          /\ Replies(c, [job[c.server] EXCEPT !.got = "ok",
                            !.archive = [node |-> c.node, world |-> disk[At(c)]]])
       \/ Finish(c, "error")
    /\ UNCHANGED nodeVars

\* Mutant of Restore: an archive that is not there is passed over.
RestoreNothing(c) ==
    /\ c.op = "restore"
    /\ \/ /\ ObjectStore \/ c.archive.node = c.node
          /\ disk' = [disk EXCEPT ![At(c)] = c.archive.world]
          /\ Finish(c, "ok")
       \/ Finish(c, "ok") /\ UNCHANGED disk
    /\ UNCHANGED <<box, played>>

\* The directory is replaced by the archive's content, if storage has it.
Restore(c) ==
    /\ c.op = "restore"
    /\ \/ /\ ObjectStore \/ c.archive.node = c.node
          /\ disk' = [disk EXCEPT ![At(c)] = c.archive.world]
          /\ Finish(c, "ok")
       \/ Finish(c, "error") /\ UNCHANGED disk
    /\ UNCHANGED <<box, played>>

Execute(c) ==
    \/ MakeDir(c) \/ MakeBox(c) \/ RemoveBox(c) \/ WipeDir(c)
    \/ StartBox(c) \/ StopBox(c) \/ Archive(c) \/ Restore(c)

\* A running server changes its world.
Play(n, s) ==
    /\ box[<<n, s>>] = "running" /\ disk[<<n, s>>] = played[s]
    /\ played[s] < MaxPlays
    /\ played' = [played EXCEPT ![s] = @ + 1]
    /\ disk' = [disk EXCEPT ![<<n, s>>] = @ + 1]
    /\ UNCHANGED <<panelVars, cmds, box, online, recon>>

-----------------------------------------------------------------------------
(* Connections and reconciliation.                                          *)

Disconnect(n) ==
    /\ n \in online /\ online' = online \ {n}
    /\ recon' = [recon EXCEPT ![n] = IF @.pc = "removing" THEN @ ELSE NoRecon]
    /\ UNCHANGED <<panelVars, cmds, nodeVars>>

\* The agent's commands die with it; containers and directories do not.
AgentCrash(n) ==
    /\ "agent" \in Admits
    /\ \E c \in cmds : c.node = n
    /\ online' = online \ {n}
    /\ cmds' = {c \in cmds : c.node # n}
    /\ recon' = [recon EXCEPT ![n] = NoRecon]
    /\ UNCHANGED <<panelVars, nodeVars>>

\* hello is accepted: from here on commands reach the agent.
Connect(n) ==
    /\ n \notin online /\ recon[n].pc = "none"
    /\ "stale" \in Admits \/ \A s \in Servers : ~Builds(s, n)
    /\ online' = online \cup {n}
    /\ recon' = [recon EXCEPT ![n].pc = "greeting"]
    /\ UNCHANGED <<panelVars, cmds, nodeVars>>

\* The gateway reads the list that hello.ack carries.
ReadList(n) ==
    /\ recon[n].pc = "greeting"
    /\ recon' = [recon EXCEPT ![n] = [pc |-> "listed", list |-> PlacedOn(n)]]
    /\ UNCHANGED <<panelVars, cmds, nodeVars, online>>

\* Mutants of Doomed: every container; none.
DoomedAll(n) == {s \in Servers : box[<<n, s>>] # "none"}
DoomedNone(n) == {}

\* The agent lists its containers: what is not expected is to go.
Doomed(n) == {s \in Servers : box[<<n, s>>] # "none"} \ recon[n].list

ListContainers(n) ==
    /\ recon[n].pc = "listed"
    /\ recon' = [recon EXCEPT ![n] = [pc |-> "removing", list |-> Doomed(n)]]
    /\ UNCHANGED <<panelVars, cmds, nodeVars, online>>

\* deleteServer(serverId, false): directories are kept.
Remove(n, s) ==
    /\ recon[n].pc = "removing" /\ s \in recon[n].list
    /\ box' = [box EXCEPT ![<<n, s>>] = "none"]
    /\ recon' = [recon EXCEPT ![n].list = @ \ {s}]
    /\ UNCHANGED <<panelVars, cmds, disk, played, online>>

Reconciled(n) ==
    /\ recon[n].pc = "removing" /\ recon[n].list = {}
    /\ recon' = [recon EXCEPT ![n] = NoRecon]
    /\ UNCHANGED <<panelVars, cmds, nodeVars, online>>

ReconStep(n) ==
    ReadList(n) \/ ListContainers(n) \/ Reconciled(n) \/ \E s \in Servers : Remove(n, s)

-----------------------------------------------------------------------------
Next ==
    \/ \E s \in Servers :
        \/ \E n \in Nodes : Buy(s, n) \/ Migrate(s, n) \/ Play(n, s)
        \/ Delete(s) \/ PanelStep(s) \/ PanelCrash(s) \/ Power(s)
    \/ \E c \in cmds : Execute(c)
    \/ \E n \in Nodes : Disconnect(n) \/ AgentCrash(n) \/ Connect(n) \/ ReconStep(n)

Spec == Init /\ [][Next]_vars

\* Calls end by an answer or their timer, commands end, and a connected agent
\* reconciles.
Fairness ==
    /\ \A s \in Servers :
        /\ WF_vars(PanelStep(s))
        /\ WF_vars(\E c \in cmds : c.server = s /\ Execute(c))
    /\ \A n \in Nodes : WF_vars(ReconStep(n))

FairSpec == Spec /\ Fairness

-----------------------------------------------------------------------------
(* Properties.                                                              *)

SomeNode == Nodes \cup {NoNode}
Worlds == {NoDir} \cup (0..MaxPlays)
Archives == [node : SomeNode, world : Worlds]
Ops == {"create", "pull", "delete", "wipe", "start", "stop", "archive", "restore"}

TypeOK ==
    /\ row \in [Servers -> [state : {"none", "building", "up", "deleting", "gone"},
                            node : SomeNode]]
    /\ job \in [Servers -> [pc : {"idle"} \cup Waits, got : {"none", "ok", "error"},
                            from : SomeNode, to : SomeNode, archive : Archives]]
    /\ cmds \subseteq [op : Ops, node : Nodes, server : Servers, archive : Archives,
                       awaited : BOOLEAN]
    /\ box \in [Nodes \X Servers -> {"none", "stopped", "running"}]
    /\ disk \in [Nodes \X Servers -> Worlds]
    /\ played \in [Servers -> 0..MaxPlays]
    /\ online \subseteq Nodes
    /\ recon \in [Nodes -> [pc : {"none", "greeting", "listed", "removing"},
                            list : SUBSET Servers]]

\* "a failed migration leaves the server exactly where it was"
\* (OPERATIONS.md:128), and one that succeeds brings all of it along: the node a
\* built server is on has its newest world.
WorldSafe ==
    \A s \in Servers : row[s].state = "up" => disk[<<Home(s), s>>] = played[s]

\* ... and its container: what the panel shows as OFFLINE can be started.
HasContainer ==
    \A s \in Servers : row[s].state = "up" => box[<<Home(s), s>>] # "none"

\* A server never runs on two nodes, neither during its migration nor when the
\* source could not be torn down after it.
RunsOnce ==
    \A s \in Servers : \A m, n \in Nodes :
        box[<<m, s>>] = "running" /\ box[<<n, s>>] = "running" => m = n

\* "the reconciler removes the orphaned container when the agent reconnects"
\* (provisioning.ts:200-201): builds that were given up, tear-downs that never
\* arrived and dead agents leave no container for good.
Quiet == \A s \in Servers : job[s].pc = "idle"
Orphans(n) == {s \in Servers : box[<<n, s>>] # "none"} \ PlacedOn(n)

OrphansGone ==
    \A n \in Nodes :
        <>[]Quiet /\ []<><<Reconciled(n)>>_vars => <>[](Orphans(n) = {})

-----------------------------------------------------------------------------
(* What comments of the code say and the code does not do.                  *)

\* "the source is only released once the target container exists"
\* (OPERATIONS.md:128).
TargetExists ==
    [][\A s \in Servers : Home(s) \in Nodes /\ Home(s)' \in Nodes /\ Home(s)' # Home(s)
        => box[<<Home(s)', s>>] # "none"]_vars

\* "remove containers the panel no longer knows about" (agent/src/index.ts:293):
\* reconciling removes no other.
KnownKept ==
    [][\A n \in Nodes : \A s \in recon[n].list :
        recon[n].pc = "removing" /\ s \notin recon'[n].list => s \notin PlacedOn(n)]_vars

\* "remove containers ... deleted while this node was offline" leaves nothing of
\* them: a directory on a quiet node belongs to a server placed there.
NoStrayData ==
    Quiet /\ cmds = {} => \A n \in Nodes, s \in Servers :
        disk[<<n, s>>] # NoDir => s \in PlacedOn(n)
=============================================================================
