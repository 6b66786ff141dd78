-------------------------- MODULE ContainersProofs --------------------------
(***************************************************************************)
(* Proofs about Containers for any number of nodes and servers: its types, *)
(* that a server runs once, whichever calls outlive their timeout and      *)
(* during whichever the panel dies, and that its world and its container   *)
(* are where the row says, if the calls that destroy end with their wait.  *)
(***************************************************************************)
EXTENDS Containers, TLAPS

Moving == {"stopping", "archiving", "creating", "restoring"}

\* A container that runs, or that a command is about to start.
Hot(n, s) ==
    \/ box[<<n, s>>] = "running"
    \/ \E c \in cmds : c.server = s /\ c.node = n /\ c.op = "start"

\* Up to its switch a migration knows where its server is, and nobody starts it.
Held ==
    \A s \in Servers :
        /\ job[s].pc = "building" => row[s].state = "building"
        /\ job[s].pc \in Moving =>
            /\ row[s].state = "up" /\ job[s].from = Home(s)
            /\ ~Starting(s)

\* The answer that ends the wait for the stop is the answer to the stop.
StopAwaited ==
    \A s \in Servers : job[s].pc = "stopping" =>
        \A c \in cmds : c.server = s /\ c.awaited => c.op = "stop" /\ c.node = job[s].from

StopAnswered(s) ==
    \/ job[s].pc \in Moving \ {"stopping"}
    \/ job[s].pc = "stopping" /\ job[s].got = "ok"

Stopped ==
    \A s \in Servers : StopAnswered(s) => \A n \in Nodes : box[<<n, s>>] # "running"

\* What runs, or is about to, is where the row says; when the row is gone, still
\* in one place.
HotAtHome ==
    \A s \in Servers : \A n \in Nodes : Hot(n, s) =>
        /\ row[s].state # "none"
        /\ row[s].state # "gone" => n = Home(s)
        /\ \A m \in Nodes : Hot(m, s) => m = n

RunInv == Held /\ StopAwaited /\ Stopped /\ HotAtHome

-----------------------------------------------------------------------------
(* Commands.                                                                *)

CommandType == [op : Ops, node : Nodes, server : Servers, archive : Archives, awaited : BOOLEAN]

LEMMA CommandTyped ==
    ASSUME NEW op \in Ops, NEW n \in Nodes, NEW s \in Servers, NEW x \in Archives,
           NEW w \in BOOLEAN
    PROVE  Command(op, n, s, x, w) \in CommandType
BY DEF Command, CommandType

\* Giving up on a server's commands changes nothing but who waits for them.
LEMMA AbandonedFacts ==
    ASSUME cmds \subseteq CommandType, NEW s \in Servers
    PROVE  /\ Abandoned(s) \subseteq CommandType
           /\ \A c \in Abandoned(s) :
                /\ c.server # s => c \in cmds
                /\ c.server = s => ~c.awaited
                /\ \E d \in cmds : d.op = c.op /\ d.node = c.node /\ d.server = c.server
<1> SUFFICES ASSUME NEW c \in Abandoned(s)
             PROVE  /\ c \in CommandType
                    /\ c.server # s => c \in cmds
                    /\ c.server = s => ~c.awaited
                    /\ \E d \in cmds : d.op = c.op /\ d.node = c.node /\ d.server = c.server
    OBVIOUS
<1>1. PICK d \in cmds : c = IF d.server = s THEN [d EXCEPT !.awaited = FALSE] ELSE d
    BY DEF Abandoned
<1>2. d \in CommandType
    OBVIOUS
<1>3. CASE d.server = s
    <2>1. c = [d EXCEPT !.awaited = FALSE]
        BY <1>1, <1>3
    <2>2. /\ c \in CommandType /\ ~c.awaited
          /\ c.op = d.op /\ c.node = d.node /\ c.server = d.server
        BY <1>2, <2>1 DEF CommandType
    <2> QED
        BY <1>3, <2>2
<1>4. CASE d.server # s
    BY <1>1, <1>2, <1>4
<1> QED
    BY <1>3, <1>4

\* After a call of the panel the only awaited command of its server is the new one ...
LEMMA SendsAwaited ==
    ASSUME cmds \subseteq CommandType, NEW new, new.server \in Servers, Sends(new)
    PROVE  \A c \in cmds' : c.server = new.server /\ c.awaited => c = new
BY AbandonedFacts DEF Sends

\* ... and no start has been added.
LEMMA SendsFacts ==
    ASSUME cmds \subseteq CommandType, online \subseteq Nodes,
           NEW s \in Servers, NEW op \in Ops \ {"start"}, NEW n, NEW x \in Archives,
           Sends(Command(op, n, s, x, TRUE))
    PROVE  /\ cmds' \subseteq CommandType
           /\ \A c \in cmds' :
                /\ c.server # s => c \in cmds
                /\ c.op = "start" =>
                     \E d \in cmds : d.op = "start" /\ d.node = c.node /\ d.server = c.server
<1> DEFINE new == Command(op, n, s, x, TRUE)
<1>1. new.server = s /\ new.op = op /\ new.node = n
    BY DEF Command
<1>2. \/ n \in online /\ cmds' = Abandoned(s) \cup {new}
      \/ cmds' = Abandoned(s)
    BY <1>1 DEF Sends
<1>3. n \in online => new \in CommandType
    BY CommandTyped
<1> HIDE DEF new
<1> QED
    BY <1>1, <1>2, <1>3, AbandonedFacts

-----------------------------------------------------------------------------
(* Typing.                                                                  *)

RowType == [state : {"none", "building", "up", "deleting", "gone"}, node : SomeNode]
JobType == [pc : {"idle"} \cup Waits, got : {"none", "ok", "error"},
            from : SomeNode, to : SomeNode, archive : Archives]
ReconType == [pc : {"none", "greeting", "listed", "removing"}, list : SUBSET Servers]

LEMMA Nothings == NoArchive \in Archives /\ Idle \in JobType /\ NoRecon \in ReconType
BY DEF NoArchive, Archives, Idle, JobType, NoRecon, ReconType, SomeNode, Worlds, NoDir

LEMMA CallsTyped ==
    ASSUME TypeOK, NEW s \in Servers, NEW pc \in Waits, NEW j \in JobType, Calls(s, pc, j)
    PROVE  job' \in [Servers -> JobType] /\ cmds' \subseteq CommandType
<1>1. job' \in [Servers -> JobType]
    BY DEF TypeOK, Calls, JobType
<1>2. (IF pc = "restoring" THEN j.archive ELSE NoArchive) \in Archives
    BY Nothings DEF JobType
<1>3. CallOp(pc) \in Ops \ {"start"}
    BY DEF CallOp, Waits, Ops
<1> QED
    BY <1>1, <1>2, <1>3, SendsFacts DEF TypeOK, Calls, CommandType

LEMMA EndsTyped ==
    ASSUME TypeOK, NEW s \in Servers, Ends(s)
    PROVE  job' \in [Servers -> JobType] /\ cmds' \subseteq CommandType
BY Nothings, AbandonedFacts DEF TypeOK, Ends, JobType, CommandType

LEMMA FinishTyped ==
    ASSUME TypeOK, NEW c \in cmds, NEW r \in {"none", "ok", "error"}, Finish(c, r)
    PROVE  job' \in [Servers -> JobType] /\ cmds' \subseteq CommandType
<1>1. c.server \in Servers
    BY DEF TypeOK
<1>2. job[c.server] \in JobType
    BY <1>1 DEF TypeOK, JobType
<1>3. [job[c.server] EXCEPT !.got = r] \in JobType
    BY <1>2 DEF JobType
<1> HIDE DEF JobType
<1>4. job \in [Servers -> JobType]
    BY DEF TypeOK, JobType
<1>5. cmds \subseteq CommandType
    BY DEF TypeOK, CommandType
<1> QED
    BY <1>1, <1>3, <1>4, <1>5 DEF Finish, Replies

\* The types, by name.
LEMMA TypeParts ==
    TypeOK <=> /\ row \in [Servers -> RowType]
               /\ job \in [Servers -> JobType]
               /\ cmds \subseteq CommandType
               /\ box \in [Nodes \X Servers -> {"none", "stopped", "running"}]
               /\ disk \in [Nodes \X Servers -> Worlds]
               /\ played \in [Servers -> 0..MaxPlays]
               /\ online \subseteq Nodes
               /\ recon \in [Nodes -> ReconType]
BY DEF TypeOK, RowType, JobType, CommandType, ReconType

LEMMA PanelType ==
    ASSUME TypeOK, NEW s \in Servers,
           \/ \E n \in Nodes : Buy(s, n) \/ Migrate(s, n)
           \/ Delete(s) \/ PanelStep(s) \/ PanelCrash(s) \/ Power(s)
    PROVE  TypeOK'
<1>0. /\ row \in [Servers -> RowType] /\ job \in [Servers -> JobType]
      /\ cmds \subseteq CommandType /\ online \subseteq Nodes
      /\ job[s] \in JobType /\ row[s] \in RowType
    BY TypeParts
<1>1. ASSUME NEW n \in Nodes, Buy(s, n) PROVE TypeOK'
    <2>1. row' \in [Servers -> RowType]
        BY <1>0, <1>1 DEF Buy, RowType, SomeNode
    <2>2. job' \in [Servers -> JobType]
        BY <1>0, <1>1 DEF Buy, JobType, Waits
    <2>3. cmds' \subseteq CommandType
        BY <1>0, <1>1, SendsFacts, Nothings DEF Buy, Ops
    <2> QED
        BY <1>1, <2>1, <2>2, <2>3 DEF Buy, TypeOK, RowType, JobType, CommandType, nodeVars
<1>2. ASSUME NEW n \in Nodes, Migrate(s, n) PROVE TypeOK'
    <2>1. Home(s) \in SomeNode /\ n \in SomeNode
        BY <1>0 DEF Home, RowType, SomeNode
    <2>2. [Idle EXCEPT !.pc = "stopping", !.from = Home(s), !.to = n] \in JobType
        BY <2>1, Nothings DEF JobType, Waits
    <2>4. job' \in [Servers -> JobType]
        BY <1>0, <1>2, <2>2 DEF Migrate
    <2>3. cmds' \subseteq CommandType
        BY <1>0, <1>2, SendsFacts, Nothings DEF Migrate, Ops
    <2> QED
        BY <1>2, <2>3, <2>4 DEF Migrate, TypeOK, JobType, CommandType, nodeVars
<1>3. ASSUME Delete(s) PROVE TypeOK'
    <2>1. row' \in [Servers -> RowType]
        BY <1>0, <1>3 DEF Delete, RowType
    <2>2. job' \in [Servers -> JobType] /\ cmds' \subseteq CommandType
        BY <1>3, CallsTyped, Nothings DEF Delete, Waits
    <2> QED
        BY <1>3, <2>1, <2>2 DEF Delete, TypeOK, RowType, JobType, CommandType, nodeVars
<1>4. ASSUME MoveOn(s) PROVE TypeOK'
    <2>1. job' \in [Servers -> JobType] /\ cmds' \subseteq CommandType
        BY <1>0, <1>4, CallsTyped DEF MoveOn, Waits
    <2> QED
        BY <1>4, <2>1 DEF MoveOn, TypeOK, JobType, CommandType, nodeVars
<1>5. ASSUME Switch(s) PROVE TypeOK'
    <2>1. row' \in [Servers -> RowType]
        BY <1>0, <1>5 DEF Switch, RowType, JobType
    <2>2. job' \in [Servers -> JobType] /\ cmds' \subseteq CommandType
        BY <1>0, <1>5, CallsTyped DEF Switch, Waits
    <2> QED
        BY <1>5, <2>1, <2>2 DEF Switch, TypeOK, RowType, JobType, CommandType, nodeVars
<1>6. ASSUME Unwind(s) PROVE TypeOK'
    <2>1. job' \in [Servers -> JobType] /\ cmds' \subseteq CommandType
        BY <1>0, <1>6, CallsTyped DEF Unwind, Waits
    <2> QED
        BY <1>6, <2>1 DEF Unwind, TypeOK, JobType, CommandType, nodeVars
<1>7. ASSUME MoveEnds(s) PROVE TypeOK'
    BY <1>7, EndsTyped DEF MoveEnds, TypeOK, JobType, CommandType, nodeVars
<1>8. ASSUME BuildSucceeds(s) PROVE TypeOK'
    <2>1. row' \in [Servers -> RowType]
        BY <1>0, <1>8 DEF BuildSucceeds, RowType
    <2> QED
        BY <1>8, <2>1, EndsTyped DEF BuildSucceeds, TypeOK, RowType, JobType, CommandType, nodeVars
<1>9. ASSUME RowDeleted(s) PROVE TypeOK'
    <2>1. row' \in [Servers -> RowType]
        BY <1>0, <1>9 DEF RowDeleted, RowType, SomeNode
    <2> QED
        BY <1>9, <2>1, EndsTyped DEF RowDeleted, TypeOK, RowType, JobType, CommandType, nodeVars
<1>10. ASSUME PanelCrash(s) PROVE TypeOK'
    BY <1>10, EndsTyped DEF PanelCrash, TypeOK, JobType, CommandType, nodeVars
<1>11. ASSUME Power(s) PROVE TypeOK'
    <2>1. Command("start", Home(s), s, NoArchive, FALSE) \in CommandType
        BY <1>0, <1>11, CommandTyped, Nothings DEF Power, Ops
    <2> QED
        BY <1>11, <2>1 DEF Power, TypeOK, CommandType, panelVars, nodeVars
<1> QED
    BY <1>1, <1>2, <1>3, <1>4, <1>5, <1>6, <1>7, <1>8, <1>9, <1>10, <1>11 DEF PanelStep

LEMMA AgentType ==
    ASSUME TypeOK, NEW c \in cmds, Execute(c)
    PROVE  TypeOK'
<1>0. /\ c \in CommandType /\ c.server \in Servers /\ At(c) \in Nodes \X Servers
      /\ job[c.server] \in JobType
      /\ job \in [Servers -> JobType] /\ cmds \subseteq CommandType
      /\ disk \in [Nodes \X Servers -> Worlds]
    BY TypeParts DEF CommandType, At
<1>1. ASSUME MakeDir(c) PROVE TypeOK'
    <2>1. [c EXCEPT !.op = "pull"] \in CommandType
        BY <1>0 DEF CommandType, Ops
    <2>2. disk' \in [Nodes \X Servers -> Worlds]
        BY <1>0, <1>1, ContainersAssumption DEF MakeDir, Worlds
    <2>3. cmds' \subseteq CommandType
        BY <1>0, <1>1, <2>1 DEF MakeDir
    <2> QED
        BY <1>1, <2>2, <2>3 DEF MakeDir, TypeOK, CommandType, panelVars
<1>2. ASSUME MakeBox(c) PROVE TypeOK'
    <2>1. box' \in [Nodes \X Servers -> {"none", "stopped", "running"}]
        BY <1>2 DEF MakeBox, TypeOK
    <2>2. job' \in [Servers -> JobType] /\ cmds' \subseteq CommandType
        BY <1>2, FinishTyped DEF MakeBox
    <2> QED
        BY <1>2, <2>1, <2>2 DEF MakeBox, Finish, Replies, TypeOK, JobType, CommandType
<1>3. ASSUME RemoveBox(c) PROVE TypeOK'
    <2>1. [c EXCEPT !.op = "wipe"] \in CommandType
        BY <1>0 DEF CommandType, Ops
    <2>2. box' \in [Nodes \X Servers -> {"none", "stopped", "running"}]
        BY <1>3 DEF RemoveBox, TypeOK
    <2>3. cmds' \subseteq CommandType
        BY <1>0, <1>3, <2>1 DEF RemoveBox
    <2> QED
        BY <1>3, <2>2, <2>3 DEF RemoveBox, TypeOK, CommandType, panelVars
<1>4. ASSUME WipeDir(c) PROVE TypeOK'
    <2>1. disk' \in [Nodes \X Servers -> Worlds]
        BY <1>0, <1>4 DEF WipeDir, Worlds
    <2>2. job' \in [Servers -> JobType] /\ cmds' \subseteq CommandType
        BY <1>4, FinishTyped DEF WipeDir
    <2> QED
        BY <1>4, <2>1, <2>2 DEF WipeDir, Finish, Replies, TypeOK, JobType, CommandType
<1>5. ASSUME StartBox(c) PROVE TypeOK'
    <2>1. disk' \in [Nodes \X Servers -> Worlds]
        BY <1>0, <1>5, ContainersAssumption DEF StartBox, Worlds
    <2>2. box' \in [Nodes \X Servers -> {"none", "stopped", "running"}]
        BY <1>5 DEF StartBox, TypeOK
    <2>3. job' \in [Servers -> JobType] /\ cmds' \subseteq CommandType
        BY <1>5, FinishTyped DEF StartBox
    <2> QED
        BY <1>5, <2>1, <2>2, <2>3 DEF StartBox, Finish, Replies, TypeOK, JobType, CommandType
<1>6. ASSUME StopBox(c) PROVE TypeOK'
    <2>1. box' \in [Nodes \X Servers -> {"none", "stopped", "running"}]
        BY <1>6 DEF StopBox, TypeOK
    <2>2. job' \in [Servers -> JobType] /\ cmds' \subseteq CommandType
        BY <1>6, FinishTyped DEF StopBox
    <2> QED
        BY <1>6, <2>1, <2>2 DEF StopBox, Finish, Replies, TypeOK, JobType, CommandType
<1>7. ASSUME Archive(c) PROVE TypeOK'
    <2>1. CASE Finish(c, "error")
        <3>1. job' \in [Servers -> JobType] /\ cmds' \subseteq CommandType
            BY <2>1, FinishTyped
        <3> QED
            BY <1>7, <2>1, <3>1
            DEF Archive, Finish, Replies, TypeOK, JobType, CommandType, nodeVars
    <2>2. CASE Replies(c, [job[c.server] EXCEPT !.got = "ok",
                            !.archive = [node |-> c.node, world |-> disk[At(c)]]])
        <3>1. [node |-> c.node, world |-> disk[At(c)]] \in Archives
            BY <1>0 DEF Archives, SomeNode, CommandType
        <3>2. [job[c.server] EXCEPT !.got = "ok",
                   !.archive = [node |-> c.node, world |-> disk[At(c)]]] \in JobType
            BY <1>0, <3>1 DEF JobType
        <3>3. job' \in [Servers -> JobType] /\ cmds' \subseteq CommandType
            BY <1>0, <2>2, <3>2 DEF Replies
        <3> QED
            BY <1>7, <2>2, <3>3 DEF Archive, Replies, TypeOK, JobType, CommandType, nodeVars
    <2> QED
        BY <1>7, <2>1, <2>2 DEF Archive
<1>8. ASSUME Restore(c) PROVE TypeOK'
    <2>1. c.archive.world \in Worlds
        BY <1>0 DEF CommandType, Archives
    <2>2. disk' \in [Nodes \X Servers -> Worlds]
        BY <1>0, <1>8, <2>1 DEF Restore
    <2>3. job' \in [Servers -> JobType] /\ cmds' \subseteq CommandType
        BY <1>8, FinishTyped DEF Restore
    <2> QED
        BY <1>8, <2>2, <2>3 DEF Restore, Finish, Replies, TypeOK, JobType, CommandType
<1> QED
    BY <1>1, <1>2, <1>3, <1>4, <1>5, <1>6, <1>7, <1>8 DEF Execute

LEMMA NodeType ==
    ASSUME TypeOK, NEW n \in Nodes,
           \/ Disconnect(n) \/ AgentCrash(n) \/ Connect(n) \/ ReconStep(n)
           \/ \E s \in Servers : Play(n, s)
    PROVE  TypeOK'
<1>0. /\ recon \in [Nodes -> ReconType] /\ recon[n] \in ReconType
      /\ box \in [Nodes \X Servers -> {"none", "stopped", "running"}]
      /\ NoRecon \in ReconType
    BY TypeParts, Nothings
<1>1. ASSUME Disconnect(n) PROVE TypeOK'
    <2>1. recon' \in [Nodes -> ReconType]
        BY <1>0, <1>1 DEF Disconnect
    <2> QED
        BY <1>1, <2>1 DEF Disconnect, TypeOK, ReconType, panelVars, nodeVars
<1>2. ASSUME AgentCrash(n) PROVE TypeOK'
    <2>1. recon' \in [Nodes -> ReconType]
        BY <1>0, <1>2 DEF AgentCrash
    <2> QED
        BY <1>2, <2>1 DEF AgentCrash, TypeOK, ReconType, panelVars, nodeVars
<1>3. ASSUME Connect(n) PROVE TypeOK'
    <2>1. recon' \in [Nodes -> ReconType]
        BY <1>0, <1>3 DEF Connect, ReconType
    <2> QED
        BY <1>3, <2>1 DEF Connect, TypeOK, ReconType, panelVars, nodeVars
<1>4. ASSUME ReadList(n) PROVE TypeOK'
    <2>1. PlacedOn(n) \in SUBSET Servers
        BY DEF PlacedOn
    <2>2. recon' \in [Nodes -> ReconType]
        BY <1>0, <1>4, <2>1 DEF ReadList, ReconType
    <2> QED
        BY <1>4, <2>2 DEF ReadList, TypeOK, ReconType, panelVars, nodeVars
<1>5. ASSUME ListContainers(n) PROVE TypeOK'
    <2>1. Doomed(n) \in SUBSET Servers
        BY DEF Doomed
    <2>2. recon' \in [Nodes -> ReconType]
        BY <1>0, <1>5, <2>1 DEF ListContainers, ReconType
    <2> QED
        BY <1>5, <2>2 DEF ListContainers, TypeOK, ReconType, panelVars, nodeVars
<1>6. ASSUME NEW s \in Servers, Remove(n, s) PROVE TypeOK'
    <2>1. recon' \in [Nodes -> ReconType]
        BY <1>0, <1>6 DEF Remove, ReconType
    <2>2. box' \in [Nodes \X Servers -> {"none", "stopped", "running"}]
        BY <1>0, <1>6 DEF Remove
    <2> QED
        BY <1>6, <2>1, <2>2 DEF Remove, TypeOK, ReconType, panelVars
<1>7. ASSUME Reconciled(n) PROVE TypeOK'
    <2>1. recon' \in [Nodes -> ReconType]
        BY <1>0, <1>7 DEF Reconciled
    <2> QED
        BY <1>7, <2>1 DEF Reconciled, TypeOK, ReconType, panelVars, nodeVars
<1>8. ASSUME NEW s \in Servers, Play(n, s) PROVE TypeOK'
    <2>1. played[s] \in 0..MaxPlays /\ played[s] + 1 \in 0..MaxPlays
        BY <1>8, ContainersAssumption DEF Play, TypeOK
    <2>2. played' \in [Servers -> 0..MaxPlays]
        BY <1>8, <2>1 DEF Play, TypeOK
    <2>3. disk' \in [Nodes \X Servers -> Worlds]
        BY <1>8, <2>1 DEF Play, TypeOK, Worlds
    <2> QED
        BY <1>8, <2>2, <2>3 DEF Play, TypeOK, panelVars
<1> QED
    BY <1>1, <1>2, <1>3, <1>4, <1>5, <1>6, <1>7, <1>8 DEF ReconStep

LEMMA TypeInit == Init => TypeOK
<1> SUFFICES ASSUME Init PROVE TypeOK
    OBVIOUS
<1>1. row \in [Servers -> RowType]
    BY DEF Init, RowType, SomeNode
<1>2. job \in [Servers -> JobType] /\ recon \in [Nodes -> ReconType]
    BY Nothings DEF Init
<1>3. disk \in [Nodes \X Servers -> Worlds] /\ played \in [Servers -> 0..MaxPlays]
    BY ContainersAssumption DEF Init, Worlds
<1> QED
    BY <1>1, <1>2, <1>3, TypeParts DEF Init

LEMMA TypeNext == TypeOK /\ [Next]_vars => TypeOK'
<1> SUFFICES ASSUME TypeOK, [Next]_vars PROVE TypeOK'
    OBVIOUS
<1>1. CASE Next
    BY <1>1, PanelType, AgentType, NodeType DEF Next
<1>2. CASE UNCHANGED vars
    BY <1>2 DEF vars, TypeOK
<1> QED
    BY <1>1, <1>2

\* Rows, operations, commands, containers, directories and reconciliations keep
\* their types, whatever the instance admits.
THEOREM TypeCorrect == Spec => []TypeOK
BY TypeInit, TypeNext, PTL DEF Spec

-----------------------------------------------------------------------------
(* A server runs once.                                                      *)

\* Whatever else a step does, it starts nothing.
NothingStarts == \A n \in Nodes, s \in Servers : Hot(n, s)' => Hot(n, s)

\* It touches the row and the operation of one server only.
OnlyOn(s) ==
    \A t \in Servers \ {s} : row'[t] = row[t] /\ job'[t] = job[t]

\* It adds no command for the others.
CommandsOf(s) ==
    /\ \A c \in cmds' : c.server # s => c \in cmds
    /\ \A c \in cmds' : c.op = "start" =>
        \E d \in cmds : d.op = "start" /\ d.node = c.node /\ d.server = c.server

\* What a step on s owes to the invariant, when it starts nothing.
LEMMA StepOn ==
    ASSUME TypeOK, TypeOK', RunInv, NEW s \in Servers, OnlyOn(s), CommandsOf(s),
           UNCHANGED box,
           job'[s].pc = "building" => row'[s].state = "building",
           job'[s].pc \in Moving =>
             row'[s].state = "up" /\ job'[s].from = row'[s].node /\ ~Starting(s),
           job'[s].pc = "stopping" =>
             \A c \in cmds' : c.server = s /\ c.awaited => c.op = "stop" /\ c.node = job'[s].from,
           StopAnswered(s)' => \A n \in Nodes : box[<<n, s>>] # "running",
           \A n \in Nodes : Hot(n, s) =>
             row'[s].state # "none" /\ (row'[s].state # "gone" => n = row'[s].node)
    PROVE  RunInv'
<1>1. NothingStarts
    BY DEF NothingStarts, Hot, CommandsOf
<1>2. \A t \in Servers : Starting(t)' => Starting(t)
    BY DEF Starting, CommandsOf
<1>3. Held'
    BY <1>2 DEF RunInv, Held, OnlyOn, Home
<1>4. StopAwaited'
    BY DEF RunInv, StopAwaited, OnlyOn, CommandsOf
<1>5. Stopped'
    BY DEF RunInv, Stopped, StopAnswered, OnlyOn
<1>6. HotAtHome'
    BY <1>1 DEF RunInv, HotAtHome, NothingStarts, OnlyOn, Home
<1> QED
    BY <1>3, <1>4, <1>5, <1>6 DEF RunInv

LEMMA CallsFacts ==
    ASSUME TypeOK, NEW s \in Servers, NEW pc \in Waits, NEW j \in JobType, Calls(s, pc, j)
    PROVE  /\ CommandsOf(s)
           /\ \A t \in Servers \ {s} : job'[t] = job[t]
           /\ job'[s].pc = pc /\ job'[s].got = "none" /\ job'[s].from = j.from
<1>1. job' = [job EXCEPT ![s] = [j EXCEPT !.pc = pc, !.got = "none"]]
    BY DEF Calls
<1>2. job \in [Servers -> JobType]
    BY TypeParts
<1>3. job'[s] = [j EXCEPT !.pc = pc, !.got = "none"]
    BY <1>1, <1>2
<1>4. job'[s].pc = pc /\ job'[s].got = "none" /\ job'[s].from = j.from
    BY <1>3 DEF JobType
<1>5. (IF pc = "restoring" THEN j.archive ELSE NoArchive) \in Archives
    BY Nothings DEF JobType
<1>6. CallOp(pc) \in Ops \ {"start"}
    BY DEF CallOp, Waits, Ops
<1>7. cmds \subseteq CommandType /\ online \subseteq Nodes
    BY TypeParts
<1>8. /\ \A c \in cmds' :
           /\ c.server # s => c \in cmds
           /\ c.op = "start" =>
                \E d \in cmds : d.op = "start" /\ d.node = c.node /\ d.server = c.server
    BY <1>5, <1>6, <1>7, SendsFacts DEF Calls
<1> QED
    BY <1>1, <1>2, <1>4, <1>8 DEF CommandsOf

LEMMA EndsFacts ==
    ASSUME TypeOK, NEW s \in Servers, Ends(s)
    PROVE  /\ CommandsOf(s)
           /\ \A t \in Servers \ {s} : job'[t] = job[t]
           /\ job'[s].pc = "idle"
<1>1. job \in [Servers -> JobType] /\ cmds \subseteq CommandType
    BY TypeParts
<1>2. CommandsOf(s)
    BY <1>1, AbandonedFacts DEF Ends, CommandsOf
<1> QED
    BY <1>1, <1>2 DEF Ends, Idle

LEMMA PanelRunInv ==
    ASSUME TypeOK, TypeOK', RunInv, "power" \notin Admits, NEW s \in Servers,
           \/ \E n \in Nodes : Buy(s, n) \/ Migrate(s, n)
           \/ Delete(s) \/ PanelStep(s) \/ PanelCrash(s)
    PROVE  RunInv'
<1>0. /\ row \in [Servers -> RowType] /\ job \in [Servers -> JobType]
      /\ cmds \subseteq CommandType /\ online \subseteq Nodes
      /\ job[s] \in JobType /\ row[s] \in RowType
    BY TypeParts
<1>a. /\ job[s].pc = "building" => row[s].state = "building"
      /\ job[s].pc \in Moving =>
            row[s].state = "up" /\ job[s].from = row[s].node /\ ~Starting(s)
      /\ StopAnswered(s) => \A n \in Nodes : box[<<n, s>>] # "running"
      /\ \A n \in Nodes : Hot(n, s) =>
             row[s].state # "none" /\ (row[s].state # "gone" => n = row[s].node)
    BY DEF RunInv, Held, Stopped, HotAtHome, Home
<1>1. ASSUME NEW n \in Nodes, Buy(s, n) PROVE RunInv'
    <2>1. CommandsOf(s)
        BY <1>0, <1>1, SendsFacts, Nothings DEF Buy, Ops, CommandsOf
    <2>2. OnlyOn(s) /\ job'[s].pc = "building" /\ row'[s].state = "building"
        BY <1>0, <1>1 DEF Buy, OnlyOn, RowType, JobType
    <2>3. \A m \in Nodes : ~Hot(m, s)
        BY <1>1, <1>a DEF Buy
    <2> QED
        BY <1>1, <2>1, <2>2, <2>3, StepOn DEF Buy, nodeVars, StopAnswered, Moving
<1>2. ASSUME NEW n \in Nodes, Migrate(s, n) PROVE RunInv'
    <2>0. PICK new : new = Command("stop", Home(s), s, NoArchive, TRUE) /\ Sends(new)
        BY <1>2 DEF Migrate
    <2>4. new.op = "stop" /\ new.node = Home(s) /\ new.server = s
        BY <2>0 DEF Command
    <2>5. \A c \in cmds' : c.server = s /\ c.awaited => c.op = "stop" /\ c.node = Home(s)
        BY <1>0, <2>0, <2>4, SendsAwaited
    <2>1. CommandsOf(s)
        BY <1>0, <1>2, SendsFacts, Nothings DEF Migrate, Ops, CommandsOf
    <2>2. /\ OnlyOn(s) /\ row' = row
          /\ job'[s].pc = "stopping" /\ job'[s].from = Home(s) /\ job'[s].got = "none"
        BY <1>0, <1>2 DEF Migrate, OnlyOn, Idle
    <2>3. job[s].pc = "idle" /\ row[s].state = "up" /\ ~Starting(s)
        BY <1>2 DEF Migrate
    <2> QED
        BY <1>2, <1>a, <2>1, <2>2, <2>3, <2>5, StepOn DEF Migrate, nodeVars, StopAnswered, Moving, Home
<1>3. ASSUME Delete(s) PROVE RunInv'
    <2>1. /\ CommandsOf(s) /\ job'[s].pc = "tearing"
          /\ \A t \in Servers \ {s} : job'[t] = job[t]
        BY <1>3, CallsFacts, Nothings DEF Delete, Waits
    <2>2. /\ \A t \in Servers \ {s} : row'[t] = row[t]
          /\ row'[s].state = "deleting" /\ row'[s].node = row[s].node
          /\ row[s].state \in {"building", "up", "deleting"}
        BY <1>0, <1>3 DEF Delete, RowType
    <2> QED
        BY <1>3, <1>a, <2>1, <2>2, StepOn DEF Delete, nodeVars, StopAnswered, Moving, OnlyOn
<1>4. ASSUME MoveOn(s) PROVE RunInv'
    <2>1. PICK pc \in Moving \ {"stopping"} : Calls(s, pc, job[s])
        BY <1>4 DEF MoveOn, Moving
    <2>2. /\ CommandsOf(s) /\ job'[s].pc = pc /\ job'[s].from = job[s].from
          /\ \A t \in Servers \ {s} : job'[t] = job[t]
        BY <1>0, <2>1, CallsFacts DEF Moving, Waits
    <2>3. job[s].pc \in Moving /\ job[s].got = "ok" /\ row' = row
        BY <1>4 DEF MoveOn, Answered, Moving
    <2>4. StopAnswered(s)
        BY <2>3 DEF StopAnswered
    <2> QED
        BY <1>4, <1>a, <2>2, <2>3, <2>4, StepOn DEF MoveOn, nodeVars, Moving, OnlyOn
<1>5. ASSUME Switch(s) PROVE RunInv'
    <2>1. /\ CommandsOf(s) /\ job'[s].pc = "cleaning"
          /\ \A t \in Servers \ {s} : job'[t] = job[t]
        BY <1>0, <1>5, CallsFacts DEF Switch, Waits
    <2>2. /\ \A t \in Servers \ {s} : row'[t] = row[t]
          /\ row'[s].state = row[s].state
        BY <1>0, <1>5 DEF Switch, RowType
    <2>3. job[s].pc = "restoring" /\ StopAnswered(s) /\ ~Starting(s)
        BY <1>5, <1>a DEF Switch, StopAnswered, Moving
    <2>4. \A m \in Nodes : ~Hot(m, s)
        BY <1>a, <2>3 DEF Hot, Starting
    <2> QED
        BY <1>5, <1>a, <2>1, <2>2, <2>4, StepOn DEF Switch, nodeVars, StopAnswered, Moving, OnlyOn
<1>6. ASSUME Unwind(s) PROVE RunInv'
    <2>1. /\ CommandsOf(s) /\ job'[s].pc = "unwinding"
          /\ \A t \in Servers \ {s} : job'[t] = job[t]
        BY <1>0, <1>6, CallsFacts DEF Unwind, Waits
    <2> QED
        BY <1>6, <1>a, <2>1, StepOn DEF Unwind, nodeVars, StopAnswered, Moving, OnlyOn
<1>7. ASSUME MoveEnds(s) PROVE RunInv'
    BY <1>7, <1>a, EndsFacts, StepOn DEF MoveEnds, nodeVars, StopAnswered, Moving, OnlyOn
<1>8. ASSUME BuildSucceeds(s) PROVE RunInv'
    <2>1. /\ \A t \in Servers \ {s} : row'[t] = row[t]
          /\ row'[s].state = "up" /\ row'[s].node = row[s].node
          /\ row[s].state = "building"
        BY <1>0, <1>8, <1>a DEF BuildSucceeds, RowType
    <2> QED
        BY <1>8, <1>a, <2>1, EndsFacts, StepOn
        DEF BuildSucceeds, nodeVars, StopAnswered, Moving, OnlyOn
<1>9. ASSUME RowDeleted(s) PROVE RunInv'
    <2>1. /\ \A t \in Servers \ {s} : row'[t] = row[t]
          /\ row'[s].state = "gone"
        BY <1>0, <1>9 DEF RowDeleted
    <2> QED
        BY <1>9, <1>a, <2>1, EndsFacts, StepOn
        DEF RowDeleted, nodeVars, StopAnswered, Moving, OnlyOn
<1>10. ASSUME PanelCrash(s) PROVE RunInv'
    BY <1>10, <1>a, EndsFacts, StepOn DEF PanelCrash, nodeVars, StopAnswered, Moving, OnlyOn
<1> QED
    BY <1>1, <1>2, <1>3, <1>4, <1>5, <1>6, <1>7, <1>8, <1>9, <1>10 DEF PanelStep

\* What a step that leaves the rows alone owes to the invariant.
LEMMA StepBelow ==
    ASSUME TypeOK, TypeOK', RunInv, UNCHANGED row, NothingStarts,
           \A t \in Servers : job'[t].pc = job[t].pc /\ job'[t].from = job[t].from,
           \A c \in cmds' : c \in cmds \/ \E d \in cmds :
             /\ d.op # "stop" /\ c.op \notin {"start", "stop"}
             /\ d.server = c.server /\ d.awaited = c.awaited,
           \A t \in Servers, n \in Nodes :
             box'[<<n, t>>] = "running" =>
                box[<<n, t>>] = "running" \/ Starting(t),
           \A t \in Servers :
             job[t].pc = "stopping" /\ job'[t].got = "ok" /\ job[t].got # "ok" =>
                \A n \in Nodes : box'[<<n, t>>] # "running"
    PROVE  RunInv'
<1>1. \A t \in Servers : Starting(t)' => Starting(t)
    BY DEF Starting
<1>2. Held'
    BY <1>1 DEF RunInv, Held, Home
<1>3. StopAwaited'
    BY DEF RunInv, StopAwaited
<1>4. Stopped'
    <2> SUFFICES ASSUME NEW t \in Servers, StopAnswered(t)', NEW n \in Nodes,
                        box'[<<n, t>>] = "running"
                 PROVE  FALSE
        BY DEF Stopped
    <2>1. job[t].pc \in Moving
        BY DEF StopAnswered, Moving
    <2>2. ~Starting(t)
        BY <2>1 DEF RunInv, Held
    <2>3. StopAnswered(t)
        BY DEF StopAnswered
    <2> QED
        BY <2>2, <2>3 DEF RunInv, Stopped
<1>5. HotAtHome'
    BY DEF RunInv, HotAtHome, NothingStarts, Home
<1> QED
    BY <1>2, <1>3, <1>4, <1>5 DEF RunInv

\* A result changes what its operation has got, and nothing else of it.
LEMMA FinishFacts ==
    ASSUME TypeOK, NEW c \in cmds, NEW r \in {"none", "ok", "error"}, Finish(c, r)
    PROVE  /\ UNCHANGED row /\ cmds' = cmds \ {c}
           /\ \A t \in Servers :
                /\ job'[t].pc = job[t].pc /\ job'[t].from = job[t].from
                /\ job'[t].got # job[t].got => t = c.server /\ c.awaited
<1>1. c.server \in Servers /\ job \in [Servers -> JobType]
    BY TypeParts DEF CommandType
<1>2. /\ UNCHANGED row /\ cmds' = cmds \ {c}
      /\ \/ job' = job
         \/ c.awaited /\ job' = [job EXCEPT ![c.server] = [@ EXCEPT !.got = r]]
    BY <1>1 DEF Finish, Replies
<1> QED
    BY <1>1, <1>2 DEF JobType

LEMMA AgentRunInv ==
    ASSUME TypeOK, TypeOK', RunInv, NEW c \in cmds, Execute(c)
    PROVE  RunInv'
<1>0. /\ c.server \in Servers /\ c.node \in Nodes /\ At(c) \in Nodes \X Servers
      /\ c \in CommandType
      /\ box \in [Nodes \X Servers -> {"none", "stopped", "running"}]
    BY TypeParts DEF CommandType, At
<1>1. job[c.server].pc = "stopping" /\ c.awaited => c.op = "stop" /\ c.node = job[c.server].from
    BY <1>0 DEF RunInv, StopAwaited
\* A command that is no stop, and makes nothing run, leaves RunInv alone.
<1>2. ASSUME NEW r \in {"none", "ok", "error"}, Finish(c, r), c.op # "stop",
             \A t \in Servers, n \in Nodes : box'[<<n, t>>] = "running" =>
                box[<<n, t>>] = "running" \/ (c.op = "start" /\ c.server = t /\ c.node = n)
      PROVE  RunInv'
    <2>1. NothingStarts
        BY <1>2, FinishFacts DEF NothingStarts, Hot
    <2>2. \A t \in Servers, n \in Nodes : box'[<<n, t>>] = "running" =>
             box[<<n, t>>] = "running" \/ Starting(t)
        BY <1>2 DEF Starting
    <2> QED
        BY <1>1, <1>2, <2>1, <2>2, FinishFacts, StepBelow
<1>3. ASSUME NEW op \in {"pull", "wipe"}, c.op \in {"create", "delete"}, UNCHANGED <<row, job>>,
             cmds' = (cmds \ {c}) \cup {[c EXCEPT !.op = op]},
             \A t \in Servers, n \in Nodes :
                box'[<<n, t>>] = "running" => box[<<n, t>>] = "running"
      PROVE  RunInv'
    <2>1. PICK e : e = [c EXCEPT !.op = op]
        OBVIOUS
    <2>2. e.op = op /\ e.server = c.server /\ e.awaited = c.awaited
        BY <1>0, <2>1 DEF CommandType
    <2>3. NothingStarts
        BY <1>3, <2>1, <2>2 DEF NothingStarts, Hot
    <2> QED
        BY <1>3, <2>1, <2>2, <2>3, StepBelow
<1>4. ASSUME MakeDir(c) PROVE RunInv'
    BY <1>3, <1>4 DEF MakeDir, panelVars
<1>5. ASSUME MakeBox(c) PROVE RunInv'
    <2>1. \A t \in Servers, n \in Nodes :
             box'[<<n, t>>] = "running" => box[<<n, t>>] = "running"
        BY <1>0, <1>5 DEF MakeBox
    <2> QED
        BY <1>2, <1>5, <2>1 DEF MakeBox
<1>6. ASSUME RemoveBox(c) PROVE RunInv'
    <2>1. \A t \in Servers, n \in Nodes :
             box'[<<n, t>>] = "running" => box[<<n, t>>] = "running"
        BY <1>0, <1>6 DEF RemoveBox
    <2> QED
        BY <1>3, <1>6, <2>1 DEF RemoveBox, panelVars
<1>7. ASSUME WipeDir(c) PROVE RunInv'
    BY <1>2, <1>7 DEF WipeDir
<1>8. ASSUME StartBox(c) PROVE RunInv'
    <2>1. \A t \in Servers, n \in Nodes : box'[<<n, t>>] = "running" =>
             box[<<n, t>>] = "running" \/ (c.server = t /\ c.node = n)
        BY <1>0, <1>8 DEF StartBox, At
    <2> QED
        BY <1>2, <1>8, <2>1 DEF StartBox
<1>9. ASSUME StopBox(c) PROVE RunInv'
    <2>1. \A t \in Servers, n \in Nodes : box'[<<n, t>>] = "running" =>
             box[<<n, t>>] = "running" /\ ~(t = c.server /\ n = c.node)
        BY <1>0, <1>9 DEF StopBox, At
    <2>2. Finish(c, "ok")
        BY <1>9 DEF StopBox
    <2>3. NothingStarts
        BY <2>1, <2>2, FinishFacts DEF NothingStarts, Hot
    <2>4. ASSUME NEW t \in Servers, job[t].pc = "stopping", job'[t].got # job[t].got,
                 NEW n \in Nodes, box'[<<n, t>>] = "running"
          PROVE  FALSE
        <3>1. t = c.server /\ c.awaited
            BY <2>2, <2>4, FinishFacts
        <3>2. c.node = Home(t) /\ row[t].state = "up"
            BY <1>1, <2>4, <3>1 DEF RunInv, Held, Moving
        <3>3. Hot(n, t)
            BY <2>1, <2>4 DEF Hot
        <3>4. n = Home(t)
            BY <3>2, <3>3 DEF RunInv, HotAtHome
        <3> QED
            BY <2>1, <2>4, <3>1, <3>2, <3>4
    <2> QED
        BY <2>1, <2>2, <2>3, <2>4, FinishFacts, StepBelow
<1>10. ASSUME Archive(c) PROVE RunInv'
    <2>1. UNCHANGED <<row, box>> /\ cmds' = cmds \ {c}
        BY <1>10 DEF Archive, Finish, Replies, nodeVars
    <2>2. \/ job' = job
          \/ /\ c.awaited
             /\ \E x \in JobType : job' = [job EXCEPT ![c.server] = x]
                  /\ x.pc = job[c.server].pc /\ x.from = job[c.server].from
        <3>1. job[c.server] \in JobType /\ disk[At(c)] \in Worlds
            BY <1>0, TypeParts
        <3>2. [node |-> c.node, world |-> disk[At(c)]] \in Archives
            BY <1>0, <3>1 DEF Archives, SomeNode
        <3> DEFINE error == [job[c.server] EXCEPT !.got = "error"]
                   done == [job[c.server] EXCEPT !.got = "ok",
                               !.archive = [node |-> c.node, world |-> disk[At(c)]]]
        <3>3. /\ error \in JobType
              /\ error.pc = job[c.server].pc /\ error.from = job[c.server].from
            BY <3>1 DEF JobType
        <3>4. /\ done \in JobType
              /\ done.pc = job[c.server].pc /\ done.from = job[c.server].from
            BY <3>1, <3>2 DEF JobType
        <3> QED
            BY <1>10, <3>3, <3>4 DEF Archive, Finish, Replies
    <2>3. \A t \in Servers :
             /\ job'[t].pc = job[t].pc /\ job'[t].from = job[t].from
             /\ job'[t].got # job[t].got => t = c.server /\ c.awaited
        BY <1>0, <2>2, TypeParts
    <2>4. NothingStarts
        BY <2>1 DEF NothingStarts, Hot
    <2>5. c.op = "archive"
        BY <1>10 DEF Archive
    <2> QED
        BY <1>1, <2>1, <2>3, <2>4, <2>5, StepBelow
<1>11. ASSUME Restore(c) PROVE RunInv'
    BY <1>2, <1>11 DEF Restore
<1> QED
    BY <1>4, <1>5, <1>6, <1>7, <1>8, <1>9, <1>10, <1>11 DEF Execute

LEMMA NodeRunInv ==
    ASSUME TypeOK, TypeOK', RunInv, NEW n \in Nodes,
           \/ Disconnect(n) \/ AgentCrash(n) \/ Connect(n) \/ ReconStep(n)
           \/ \E s \in Servers : Play(n, s)
    PROVE  RunInv'
<1>1. UNCHANGED <<row, job>>
    BY DEF Disconnect, AgentCrash, Connect, ReconStep, ReadList, ListContainers, Remove,
           Reconciled, Play, panelVars
<1>2. cmds' \subseteq cmds
    BY DEF Disconnect, AgentCrash, Connect, ReconStep, ReadList, ListContainers, Remove,
           Reconciled, Play
<1>3. box \in [Nodes \X Servers -> {"none", "stopped", "running"}]
    BY TypeParts
<1>4. \/ box' = box
      \/ \E s \in Servers : box' = [box EXCEPT ![<<n, s>>] = "none"]
    BY DEF Disconnect, AgentCrash, Connect, ReconStep, ReadList, ListContainers, Remove,
           Reconciled, Play, nodeVars
<1>5. \A t \in Servers, m \in Nodes :
        box'[<<m, t>>] = "running" => box[<<m, t>>] = "running"
    BY <1>3, <1>4
<1>6. NothingStarts
    BY <1>2, <1>5 DEF NothingStarts, Hot
<1> QED
    BY <1>1, <1>2, <1>5, <1>6, StepBelow

LEMMA RunInit == Init => RunInv
BY DEF Init, RunInv, Held, StopAwaited, Stopped, HotAtHome, StopAnswered, Hot, Idle, Moving

LEMMA PowerRunInv ==
    ASSUME TypeOK, TypeOK', RunInv, "power" \notin Admits, NEW s \in Servers, Power(s)
    PROVE  RunInv'
<1>1. PICK new : new = Command("start", Home(s), s, NoArchive, FALSE) /\ cmds' = cmds \cup {new}
    BY DEF Power
<1>2. new.op = "start" /\ new.node = Home(s) /\ new.server = s /\ ~new.awaited
    BY <1>1 DEF Command
<1>3. job[s].pc = "idle" /\ row[s].state = "up" /\ UNCHANGED <<row, job, box>>
    BY DEF Power, panelVars, nodeVars
<1>4. \A t \in Servers : Starting(t)' => Starting(t) \/ t = s
    BY <1>1, <1>2 DEF Starting
<1>5. \A m \in Nodes, t \in Servers : Hot(m, t)' => Hot(m, t) \/ (t = s /\ m = Home(s))
    BY <1>1, <1>2, <1>3 DEF Hot
<1>6. Held'
    BY <1>3, <1>4 DEF RunInv, Held, Moving, Home
<1>7. StopAwaited'
    BY <1>1, <1>2, <1>3 DEF RunInv, StopAwaited
<1>8. Stopped'
    BY <1>3 DEF RunInv, Stopped, StopAnswered
<1>9. HotAtHome'
    <2> SUFFICES ASSUME NEW t \in Servers, NEW m \in Nodes, Hot(m, t)'
                 PROVE  /\ row[t].state # "none"
                        /\ row[t].state # "gone" => m = Home(t)
                        /\ \A k \in Nodes : Hot(k, t)' => k = m
        BY <1>3 DEF HotAtHome, Home
    <2>1. CASE t = s
        BY <1>3, <1>5, <2>1 DEF RunInv, HotAtHome
    <2>2. CASE t # s
        BY <1>5, <2>2 DEF RunInv, HotAtHome
    <2> QED
        BY <2>1, <2>2
<1> QED
    BY <1>6, <1>7, <1>8, <1>9 DEF RunInv

LEMMA RunNext ==
    ASSUME "power" \notin Admits
    PROVE  TypeOK /\ RunInv /\ [Next]_vars => RunInv'
<1> SUFFICES ASSUME TypeOK, RunInv, [Next]_vars PROVE RunInv'
    OBVIOUS
<1>0. TypeOK'
    BY TypeNext
<1>1. CASE Next
    BY <1>0, <1>1, PanelRunInv, PowerRunInv, AgentRunInv, NodeRunInv DEF Next
<1>2. CASE UNCHANGED vars
    BY <1>2 DEF vars, RunInv, Held, StopAwaited, Stopped, HotAtHome, StopAnswered, Hot,
                Starting, Home
<1> QED
    BY <1>1, <1>2

LEMMA RunSafe == RunInv => RunsOnce
BY DEF RunInv, HotAtHome, Hot, RunsOnce

\* The migration stops a server before it is anywhere else, and what is started
\* is started where the row says: as long as nobody starts a server that is being
\* moved, it runs on one node at most - through lost commands, late answers, stale
\* lists, and deaths of the panel and the agents.
THEOREM RunsOnceCorrect ==
    ASSUME "power" \notin Admits
    PROVE  Spec => []RunsOnce
<1>1. TypeOK /\ RunInv /\ [Next]_vars => RunInv'
    BY RunNext
<1> QED
    BY <1>1, TypeInit, TypeNext, RunInit, RunSafe, PTL DEF Spec
-----------------------------------------------------------------------------
(* The newest world is where the row says.  Servers share nothing but the   *)
(* nodes, so the invariant is one about each.                               *)

\* At most one command is waited for, none once its answer is there, and it is
\* the one of the call the operation is at.
Awaits(s) ==
    /\ \A c, d \in cmds : c.server = s /\ d.server = s /\ c.awaited /\ d.awaited => c = d
    /\ job[s].got # "none" \/ job[s].pc = "idle" => ~Awaited(s)
    /\ \A c \in cmds : c.server = s /\ c.awaited =>
        /\ job[s].pc = "archiving" => c.op = "archive" /\ c.node = job[s].from
        /\ job[s].pc = "creating" => c.op \in {"create", "pull"} /\ c.node = job[s].to
        /\ job[s].pc = "restoring" =>
            c.op = "restore" /\ c.node = job[s].to /\ c.archive = job[s].archive

\* An operation and the row agree on where the server is.
Placed(s) ==
    /\ row[s].state \in {"building", "up"} => Home(s) \in Nodes
    /\ job[s].pc = "tearing" => row[s].state = "deleting"
    /\ job[s].pc \in Moving => job[s].to # Home(s) /\ job[s].to \in Nodes
    /\ job[s].pc = "cleaning" =>
        row[s].state = "up" /\ job[s].to = Home(s) /\ job[s].from # Home(s)
    /\ job[s].pc = "unwinding" => row[s].state = "up" /\ job[s].to # Home(s)

\* Nothing that destroys a built server's world is under way at its home, and
\* nothing of the kind outlives the wait for it.
Harmless(s) ==
    row[s].state = "up" => \A c \in cmds : c.server = s =>
        /\ c.op \in {"delete", "wipe"} =>
            c.awaited /\ job[s].pc \in {"cleaning", "unwinding"} /\ c.node # Home(s)
        /\ c.op = "restore" => c.awaited /\ job[s].pc = "restoring"

\* Before a purchase there is nothing of the server; during it, a directory that
\* nobody has played in.
Unbought(s) ==
    row[s].state = "none" =>
        /\ job[s] = Idle /\ played[s] = 0 /\ \A c \in cmds : c.server # s
        /\ \A n \in Nodes : disk[<<n, s>>] = NoDir /\ box[<<n, s>>] = "none"
Built(s) ==
    row[s].state = "building" =>
        /\ played[s] = 0
        /\ \A n \in Nodes : disk[<<n, s>>] \in {NoDir, 0} /\ box[<<n, s>>] # "running"
        /\ \A c \in cmds : c.server = s =>
            /\ c.op \in {"create", "pull"} /\ c.node = Home(s)
            /\ c.op = "pull" => disk[<<Home(s), s>>] = 0
        /\ job[s].pc = "building" /\ job[s].got = "ok" => disk[<<Home(s), s>>] = 0

\* The newest world is at home, then also in the archive, then also at the target.
Carried(s) ==
    /\ row[s].state = "up" => disk[<<Home(s), s>>] = played[s]
    /\ (job[s].pc = "archiving" /\ job[s].got = "ok") \/ job[s].pc \in {"creating", "restoring"} =>
        job[s].archive.world = played[s]
    /\ job[s].pc = "restoring" /\ job[s].got = "ok" => disk[<<job[s].to, s>>] = played[s]

WorldInv(s) ==
    Awaits(s) /\ Placed(s) /\ Harmless(s) /\ Unbought(s) /\ Built(s) /\ Carried(s)

\* The calls that destroy are waited for until they are over.
Settles ==
    /\ Admits \subseteq {"stale", "agent"}
    /\ {"restoring", "cleaning", "unwinding"} \cap (Slow \cup Dies) = {}

LEMMA WorldInit == Init => \A s \in Servers : WorldInv(s)
<1> SUFFICES ASSUME Init, NEW s \in Servers PROVE WorldInv(s)
    OBVIOUS
<1>1. /\ job[s] = Idle /\ row[s].state = "none" /\ cmds = {} /\ played[s] = 0
      /\ \A n \in Nodes : disk[<<n, s>>] = NoDir /\ box[<<n, s>>] = "none"
      /\ job[s].pc = "idle" /\ job[s].got = "none"
    BY DEF Init, Idle
<1> QED
    BY <1>1 DEF WorldInv, Awaits, Awaited, Placed, Harmless, Unbought, Built, Carried, Moving

\* A server of which a step only drops commands or containers.
LEMMA WorldFewer ==
    ASSUME NEW s \in Servers, WorldInv(s),
           row'[s] = row[s], job'[s] = job[s], played'[s] = played[s],
           \A c \in cmds' : c.server = s => c \in cmds,
           \A n \in Nodes : disk'[<<n, s>>] = disk[<<n, s>>],
           \A n \in Nodes : box'[<<n, s>>] \in {box[<<n, s>>], "none"}
    PROVE  WorldInv(s)'
<1> USE DEF WorldInv
<1>1. Home(s)' = Home(s) /\ (Awaited(s)' => Awaited(s))
    BY DEF Home, Awaited
<1>2. Awaits(s)'
    BY <1>1 DEF Awaits
<1>3. Placed(s)' /\ Harmless(s)'
    BY <1>1 DEF Placed, Harmless
<1>4. Unbought(s)'
    BY DEF Unbought
<1>5. Built(s)'
    BY <1>1 DEF Built, Placed
<1>6. Carried(s)'
    BY <1>1 DEF Carried, Placed, Moving
<1> QED
    BY <1>2, <1>3, <1>4, <1>5, <1>6

\* Where a built server lives, and where it is moved to, is a node.
LEMMA Homes ==
    ASSUME TypeOK, RunInv, NEW s \in Servers, WorldInv(s)
    PROVE  /\ job[s].pc = "restoring" => job[s].to \in Nodes
           /\ row[s].state \in {"building", "up"} => Home(s) \in Nodes
           /\ row[s].state = "up" => disk[<<Home(s), s>>] = played[s]
           /\ played[s] \in 0..MaxPlays /\ played[s] # NoDir
BY ContainersAssumption DEF WorldInv, Placed, Moving, Carried, TypeOK, NoDir


\* Of a server's commands a call leaves the new one, and old ones nobody waits for.
GivenUp(c, s) ==
    ~c.awaited /\ \E d \in cmds : d.op = c.op /\ d.node = c.node /\ d.server = s

LEMMA SendsNew ==
    ASSUME TypeOK, NEW new, new.server \in Servers, Sends(new)
    PROVE  /\ \A c \in cmds' : c.server = new.server => c = new \/ GivenUp(c, new.server)
           /\ \A c \in cmds' : c.server # new.server => c \in cmds
BY AbandonedFacts, TypeParts DEF Sends, GivenUp

LEMMA CallsNew ==
    ASSUME TypeOK, NEW s \in Servers, NEW pc \in Waits, NEW j \in JobType, Calls(s, pc, j)
    PROVE  /\ \A t \in Servers \ {s} : job'[t] = job[t]
           /\ job'[s].pc = pc /\ job'[s].got = "none" /\ job'[s].from = j.from
           /\ job'[s].to = j.to /\ job'[s].archive = j.archive
           /\ \A c \in cmds' : c.server # s => c \in cmds
           /\ \A c \in cmds' : c.server = s =>
                \/ GivenUp(c, s)
                \/ /\ c.awaited /\ c.op = CallOp(pc) /\ c.node = CallNode(s, pc)
                   /\ c.archive = IF pc = "restoring" THEN j.archive ELSE NoArchive
           /\ \A c, d \in cmds' : c.server = s /\ d.server = s /\ c.awaited /\ d.awaited => c = d
<1>1. job'[s] = [j EXCEPT !.pc = pc, !.got = "none"] /\ \A t \in Servers \ {s} : job'[t] = job[t]
    BY TypeParts DEF Calls
<1>2. /\ job'[s].pc = pc /\ job'[s].got = "none" /\ job'[s].from = j.from
      /\ job'[s].to = j.to /\ job'[s].archive = j.archive
    BY <1>1 DEF JobType
<1>3. PICK new : /\ new = Command(CallOp(pc), CallNode(s, pc), s,
                              IF pc = "restoring" THEN j.archive ELSE NoArchive, TRUE)
                 /\ Sends(new)
    BY DEF Calls
<1>4. /\ new.awaited /\ new.op = CallOp(pc) /\ new.node = CallNode(s, pc) /\ new.server = s
      /\ new.archive = IF pc = "restoring" THEN j.archive ELSE NoArchive
    BY <1>3 DEF Command
<1>5. /\ \A c \in cmds' : c.server = s => c = new \/ GivenUp(c, s)
      /\ \A c \in cmds' : c.server # s => c \in cmds
    BY <1>3, <1>4, SendsNew
<1>6. \A c \in cmds' : c.server = s /\ c.awaited => c = new
    BY <1>5 DEF GivenUp
<1> QED
    BY <1>1, <1>2, <1>4, <1>5, <1>6

\* What the calls are.
LEMMA CallTable ==
    ASSUME NEW s \in Servers
    PROVE  /\ CallOp("tearing") = "delete" /\ CallOp("cleaning") = "delete"
           /\ CallOp("unwinding") = "delete" /\ CallOp("archiving") = "archive"
           /\ CallOp("creating") = "create" /\ CallOp("restoring") = "restore"
           /\ CallNode(s, "archiving") = job[s].from /\ CallNode(s, "cleaning") = job[s].from
           /\ CallNode(s, "creating") = job[s].to /\ CallNode(s, "restoring") = job[s].to
           /\ CallNode(s, "unwinding") = job[s].to
BY DEF CallOp, CallNode

\* Nothing that destroys is under way.
Unharmed(s) == \A c \in cmds : c.server = s => c.op \notin {"delete", "wipe", "restore"}

\* ... except during the calls that destroy; when those are over so is the danger.
LEMMA WhenOver ==
    ASSUME Settles, NEW s \in Servers, WorldInv(s), row[s].state = "up",
           \/ job[s].pc \notin {"restoring", "cleaning", "unwinding"}
           \/ Answered(s) \/ Refused(s)
    PROVE  Unharmed(s)
<1>1. CASE job[s].pc \notin {"restoring", "cleaning", "unwinding"}
    BY <1>1 DEF WorldInv, Harmless, Unharmed
<1>2. CASE job[s].pc \in {"restoring", "cleaning", "unwinding"}
    <2>2. job[s].pc \notin Slow
        BY <1>2 DEF Settles
    <2>3. Refused(s) => job[s].got # "none" \/ ~Awaited(s)
        BY <2>2 DEF Refused
    <2>1. ~Awaited(s)
        BY <1>2, <2>3 DEF WorldInv, Awaits, Answered
    <2> QED
        BY <2>1 DEF WorldInv, Harmless, Unharmed, Awaited
<1> QED
    BY <1>1, <1>2

-----------------------------------------------------------------------------
(* The panel's steps.                                                       *)

\* What a call of s owes to the invariant.
LEMMA WorldCalled ==
    ASSUME TypeOK, NEW s \in Servers, WorldInv(s), NEW pc \in Waits \ {"building"},
           NEW j \in JobType, Calls(s, pc, j), UNCHANGED <<disk, played, box>>,
           row'[s].state \in {"up", "deleting"},
           row'[s].state = "up" => row'[s].node \in Nodes,
           row'[s].state = "up" =>
             /\ Unharmed(s) /\ disk[<<row'[s].node, s>>] = played[s]
             /\ pc # "tearing"
             /\ pc \in {"cleaning", "unwinding"} => CallNode(s, pc) # row'[s].node,
           pc = "tearing" => row'[s].state = "deleting",
           pc \in {"cleaning", "unwinding"} => row'[s].state = "up",
           pc \in Moving \cup {"unwinding"} => j.to # row'[s].node,
           pc \in Moving => j.to \in Nodes,
           pc = "cleaning" => j.to = row'[s].node /\ j.from # row'[s].node,
           pc \in {"archiving", "creating", "restoring"} => j = job[s],
           pc \in {"creating", "restoring"} => j.archive.world = played[s]
    PROVE  WorldInv(s)'
<1>1. /\ job'[s].pc = pc /\ job'[s].got = "none" /\ job'[s].from = j.from
      /\ job'[s].to = j.to /\ job'[s].archive = j.archive
      /\ \A c \in cmds' : c.server = s =>
                \/ GivenUp(c, s)
                \/ /\ c.awaited /\ c.op = CallOp(pc) /\ c.node = CallNode(s, pc)
                   /\ c.archive = IF pc = "restoring" THEN j.archive ELSE NoArchive
      /\ \A c, d \in cmds' : c.server = s /\ d.server = s /\ c.awaited /\ d.awaited => c = d
    BY CallsNew
<1>2. /\ \A c \in cmds' : c.server = s /\ c.awaited =>
           /\ c.op = CallOp(pc) /\ c.node = CallNode(s, pc)
           /\ c.archive = IF pc = "restoring" THEN j.archive ELSE NoArchive
      /\ \A c \in cmds' : c.server = s /\ ~c.awaited => GivenUp(c, s)
    BY <1>1 DEF GivenUp
<1>3. Awaits(s)'
    <2>1. ~(job'[s].got # "none" \/ job'[s].pc = "idle")
        BY <1>1 DEF Waits
    <2>2. ASSUME NEW c \in cmds', c.server = s, c.awaited
          PROVE  /\ job'[s].pc = "archiving" => c.op = "archive" /\ c.node = job'[s].from
                 /\ job'[s].pc = "creating" => c.op \in {"create", "pull"} /\ c.node = job'[s].to
                 /\ job'[s].pc = "restoring" =>
                        c.op = "restore" /\ c.node = job'[s].to /\ c.archive = job'[s].archive
        BY <1>1, <1>2, <2>2, CallTable
    <2> QED
        BY <1>1, <2>1, <2>2 DEF Awaits
<1>4. Placed(s)'
    BY <1>1 DEF Placed, Home, Moving
<1>5. Harmless(s)'
    <2> SUFFICES ASSUME row'[s].state = "up", NEW c \in cmds', c.server = s
                 PROVE  /\ c.op \in {"delete", "wipe"} =>
                            /\ c.awaited /\ job'[s].pc \in {"cleaning", "unwinding"}
                            /\ c.node # row'[s].node
                        /\ c.op = "restore" => c.awaited /\ job'[s].pc = "restoring"
        BY DEF Harmless, Home
    <2>1. CASE c.awaited
        <3>1. c.op = CallOp(pc) /\ c.node = CallNode(s, pc)
            BY <1>2, <2>1
        <3>2. pc \in Waits \ {"building", "tearing"}
            OBVIOUS
        <3>3. /\ CallOp(pc) \in {"delete", "wipe"} => pc \in {"cleaning", "unwinding"}
              /\ CallOp(pc) = "restore" => pc = "restoring"
            BY <3>2 DEF CallOp, Waits
        <3> QED
            BY <1>1, <2>1, <3>1, <3>3
    <2>2. CASE ~c.awaited
        BY <1>2, <2>2 DEF GivenUp, Unharmed
    <2> QED
        BY <2>1, <2>2
<1>6. Unbought(s)' /\ Built(s)'
    BY DEF Unbought, Built
<1>7. Carried(s)'
    BY <1>1 DEF Carried, Home
<1> QED
    BY <1>3, <1>4, <1>5, <1>6, <1>7 DEF WorldInv

\* ... and the end of its operation.
LEMMA WorldEnded ==
    ASSUME TypeOK, NEW s \in Servers, WorldInv(s), Ends(s), UNCHANGED <<disk, played, box>>,
           row'[s].state # "none",
           row'[s].state = "building" => row[s].state = "building",
           row'[s].state \in {"building", "up"} =>
             row'[s].node = row[s].node /\ row'[s].node \in Nodes,
           row'[s].state = "up" => Unharmed(s) /\ disk[<<row'[s].node, s>>] = played[s]
    PROVE  WorldInv(s)'
<1>1. job'[s].pc = "idle" /\ job'[s].got = "none"
    BY TypeParts DEF Ends, Idle
<1>2. \A c \in cmds' : c.server = s => GivenUp(c, s)
    BY TypeParts, AbandonedFacts DEF Ends, GivenUp
<1>3. Awaits(s)'
    BY <1>1, <1>2 DEF Awaits, Awaited, GivenUp
<1>4. Placed(s)' /\ Unbought(s)'
    BY <1>1 DEF Placed, Unbought, Moving, Home
<1>5. Harmless(s)'
    BY <1>2 DEF Harmless, GivenUp, Unharmed
<1>6. Built(s)'
    BY <1>1, <1>2 DEF Built, WorldInv, GivenUp, Home
<1>7. Carried(s)'
    BY <1>1 DEF Carried, Home
<1> QED
    BY <1>3, <1>4, <1>5, <1>6, <1>7 DEF WorldInv

LEMMA PanelWorld ==
    ASSUME TypeOK, RunInv, Settles, NEW s \in Servers, WorldInv(s),
           \/ \E n \in Nodes : Buy(s, n) \/ Migrate(s, n)
           \/ Delete(s) \/ PanelStep(s) \/ PanelCrash(s)
    PROVE  WorldInv(s)'
<1>0. /\ row \in [Servers -> RowType] /\ job \in [Servers -> JobType]
      /\ job[s] \in JobType /\ row[s] \in RowType
      /\ job[s].pc \in {"idle"} \cup Waits
    BY TypeParts DEF JobType
<1>a. /\ job[s].pc = "building" => row[s].state = "building"
      /\ job[s].pc \in Moving => row[s].state = "up" /\ job[s].from = row[s].node
      /\ row[s].state \in {"building", "up"} => row[s].node \in Nodes
      /\ row[s].state = "up" => disk[<<row[s].node, s>>] = played[s]
      /\ job[s].pc \in Moving => job[s].to # row[s].node /\ job[s].to \in Nodes
      /\ job[s].pc \in {"cleaning", "unwinding"} => row[s].state = "up"
      /\ job[s].pc = "tearing" => row[s].state = "deleting"
    BY DEF RunInv, Held, Home, WorldInv, Placed, Carried
<1>1. ASSUME NEW n \in Nodes, Buy(s, n) PROVE WorldInv(s)'
    <2>1. /\ row[s].state = "none" /\ job[s] = Idle /\ played[s] = 0 /\ \A c \in cmds : c.server # s
          /\ \A m \in Nodes : disk[<<m, s>>] = NoDir /\ box[<<m, s>>] = "none"
        BY <1>1 DEF Buy, WorldInv, Unbought
    <2>2. /\ row'[s].state = "building" /\ row'[s].node = n
          /\ job'[s].pc = "building" /\ job'[s].got = "none"
          /\ UNCHANGED <<disk, box, played>>
        BY <1>0, <1>1, <2>1 DEF Buy, Idle, nodeVars
    <2>3. PICK new : new = Command("create", n, s, NoArchive, TRUE) /\ Sends(new)
        BY <1>1 DEF Buy
    <2>4. new.server = s /\ new.op = "create" /\ new.node = n /\ new.awaited
        BY <2>3 DEF Command
    <2>9. \A c \in cmds' : c.server = s => c = new \/ GivenUp(c, s)
        BY <2>3, <2>4, SendsNew
    <2>5. \A c \in cmds' : c.server = s => c = new
        BY <2>1, <2>9 DEF GivenUp
    <2>6. Awaits(s)'
        BY <2>2, <2>5 DEF Awaits
    <2>7. Placed(s)' /\ Harmless(s)' /\ Unbought(s)' /\ Carried(s)'
        BY <2>2 DEF Placed, Harmless, Unbought, Carried, Moving, Home
    <2>8. Built(s)'
        BY <2>1, <2>2, <2>4, <2>5 DEF Built, Home
    <2> QED
        BY <2>6, <2>7, <2>8 DEF WorldInv
<1>2. ASSUME NEW n \in Nodes, Migrate(s, n) PROVE WorldInv(s)'
    <2>1. /\ job'[s].pc = "stopping" /\ job'[s].got = "none" /\ job'[s].to = n
          /\ row' = row /\ row[s].state = "up" /\ job[s].pc = "idle" /\ n # Home(s)
          /\ UNCHANGED <<disk, box, played>>
        <3>1. PICK idle \in JobType : idle = Idle
            BY Nothings
        <3>2. job'[s] = [idle EXCEPT !.pc = "stopping", !.from = Home(s), !.to = n]
            BY <1>0, <1>2, <3>1 DEF Migrate
        <3>3. idle.got = "none"
            BY <3>1 DEF Idle
        <3>4. job'[s].pc = "stopping" /\ job'[s].got = "none" /\ job'[s].to = n
            BY <3>1, <3>2, <3>3 DEF JobType
        <3> QED
            BY <1>2, <3>4 DEF Migrate, nodeVars
    <2>2. Unharmed(s)
        BY <2>1, WhenOver
    <2>3. PICK new : new = Command("stop", Home(s), s, NoArchive, TRUE) /\ Sends(new)
        BY <1>2 DEF Migrate
    <2>4. new.server = s /\ new.op = "stop"
        BY <2>3 DEF Command
    <2>5. \A c \in cmds' : c.server = s => c = new \/ GivenUp(c, s)
        BY <2>3, <2>4, SendsNew
    <2>6. Awaits(s)'
        BY <2>1, <2>5 DEF Awaits, GivenUp
    <2>7. Placed(s)' /\ Unbought(s)' /\ Built(s)'
        BY <1>a, <2>1 DEF Placed, Unbought, Built, Moving, Home
    <2>8. Harmless(s)'
        BY <2>2, <2>4, <2>5 DEF Harmless, GivenUp, Unharmed
    <2>9. Carried(s)'
        BY <1>a, <2>1 DEF Carried, Home
    <2> QED
        BY <2>6, <2>7, <2>8, <2>9 DEF WorldInv
<1>3. ASSUME Delete(s) PROVE WorldInv(s)'
    <2>1. row'[s].state = "deleting"
        BY <1>0, <1>3 DEF Delete, RowType
    <2>2. Calls(s, "tearing", Idle) /\ UNCHANGED <<disk, played, box>>
        BY <1>3 DEF Delete, nodeVars
    <2> QED
        BY <2>1, <2>2, WorldCalled, Nothings DEF Waits, Moving
<1>4. ASSUME MoveOn(s) PROVE WorldInv(s)'
    <2>1. /\ Answered(s) /\ row' = row /\ UNCHANGED <<disk, played, box>>
          /\ \/ job[s].pc = "stopping" /\ Calls(s, "archiving", job[s])
             \/ job[s].pc = "archiving" /\ Calls(s, "creating", job[s])
             \/ job[s].pc = "creating" /\ Calls(s, "restoring", job[s])
        BY <1>4 DEF MoveOn, nodeVars
    <2>2. row[s].state = "up" /\ job[s].to # row[s].node /\ job[s].to \in Nodes
        BY <1>a, <2>1 DEF Moving
    <2>3. Unharmed(s)
        BY <2>1, <2>2, WhenOver
    <2>4. job[s].pc \in {"archiving", "creating"} => job[s].archive.world = played[s]
        BY <2>1 DEF WorldInv, Carried, Answered
    <2>5. CASE job[s].pc = "stopping" /\ Calls(s, "archiving", job[s])
        BY <1>0, <1>a, <2>1, <2>2, <2>3, <2>5, WorldCalled DEF Waits, Moving
    <2>6. CASE job[s].pc = "archiving" /\ Calls(s, "creating", job[s])
        BY <1>0, <1>a, <2>1, <2>2, <2>3, <2>4, <2>6, WorldCalled DEF Waits, Moving
    <2>7. CASE job[s].pc = "creating" /\ Calls(s, "restoring", job[s])
        BY <1>0, <1>a, <2>1, <2>2, <2>3, <2>4, <2>7, WorldCalled DEF Waits, Moving
    <2> QED
        BY <2>1, <2>5, <2>6, <2>7
<1>5. ASSUME Switch(s) PROVE WorldInv(s)'
    <2>1. /\ job[s].pc = "restoring" /\ Answered(s) /\ Calls(s, "cleaning", job[s])
          /\ UNCHANGED <<disk, played, box>>
        BY <1>5 DEF Switch, nodeVars
    <2>2. /\ row[s].state = "up" /\ job[s].from = row[s].node
          /\ job[s].to # row[s].node /\ job[s].to \in Nodes
        BY <1>a, <2>1 DEF Moving
    <2>3. row'[s].state = "up" /\ row'[s].node = job[s].to
        BY <1>0, <1>5, <2>2 DEF Switch, RowType
    <2>4. Unharmed(s)
        BY <2>1, <2>2, WhenOver
    <2>5. disk[<<job[s].to, s>>] = played[s]
        BY <2>1 DEF WorldInv, Carried, Answered
    <2>6. CallNode(s, "cleaning") = job[s].from
        BY CallTable
    <2> QED
        BY <1>0, <2>1, <2>2, <2>3, <2>4, <2>5, <2>6, WorldCalled DEF Waits, Moving
<1>6. ASSUME Unwind(s) PROVE WorldInv(s)'
    <2>0. "late" \notin Admits
        BY DEF Settles
    <2>1. /\ job[s].pc \in Moving /\ Refused(s) /\ Calls(s, "unwinding", job[s])
          /\ row' = row /\ UNCHANGED <<disk, played, box>>
        BY <1>6, <2>0 DEF Unwind, nodeVars, Moving
    <2>2. row[s].state = "up" /\ job[s].to # row[s].node
        BY <1>a, <2>1
    <2>3. Unharmed(s)
        BY <2>1, <2>2, WhenOver
    <2>4. CallNode(s, "unwinding") = job[s].to
        BY CallTable
    <2> QED
        BY <1>0, <1>a, <2>1, <2>2, <2>3, <2>4, WorldCalled DEF Waits, Moving
<1>7. ASSUME MoveEnds(s) PROVE WorldInv(s)'
    <2>1. /\ job[s].pc \in {"cleaning", "unwinding"} /\ (Answered(s) \/ Refused(s))
          /\ Ends(s) /\ row' = row /\ UNCHANGED <<disk, played, box>>
        BY <1>7 DEF MoveEnds, nodeVars
    <2>2. row[s].state = "up" /\ Unharmed(s)
        BY <1>a, <2>1, WhenOver
    <2> QED
        BY <1>a, <2>1, <2>2, WorldEnded
<1>8. ASSUME BuildSucceeds(s) PROVE WorldInv(s)'
    <2>1. /\ job[s].pc = "building" /\ Answered(s) /\ Ends(s) /\ UNCHANGED <<disk, played, box>>
          /\ row[s].state = "building"
        BY <1>8, <1>a DEF BuildSucceeds, nodeVars
    <2>2. row'[s].state = "up" /\ row'[s].node = row[s].node
        BY <1>0, <1>8 DEF BuildSucceeds, RowType
    <2>3. Unharmed(s) /\ disk[<<row[s].node, s>>] = played[s]
        BY <2>1 DEF WorldInv, Built, Unharmed, Answered, Home
    <2> QED
        BY <1>a, <2>1, <2>2, <2>3, WorldEnded
<1>9. ASSUME RowDeleted(s) PROVE WorldInv(s)'
    <2>1. row'[s].state = "gone"
        BY <1>0, <1>9 DEF RowDeleted
    <2>2. Ends(s) /\ UNCHANGED <<disk, played, box>>
        BY <1>9 DEF RowDeleted, nodeVars
    <2> QED
        BY <2>1, <2>2, WorldEnded
<1>10. ASSUME PanelCrash(s) PROVE WorldInv(s)'
    <2>1. /\ job[s].pc \in Dies /\ Ends(s) /\ row' = row /\ UNCHANGED <<disk, played, box>>
        BY <1>10 DEF PanelCrash, nodeVars
    <2>2. job[s].pc \in Waits /\ job[s].pc \notin {"restoring", "cleaning", "unwinding"}
        BY <2>1, ContainersAssumption DEF Settles
    <2>3. row[s].state = "up" => Unharmed(s)
        BY <2>2, WhenOver
    <2>4. row[s].state # "none"
        BY <2>2 DEF WorldInv, Unbought, Idle, Waits
    <2> QED
        BY <1>a, <2>1, <2>3, <2>4, WorldEnded
<1> QED
    BY <1>1, <1>2, <1>3, <1>4, <1>5, <1>6, <1>7, <1>8, <1>9, <1>10 DEF PanelStep

-----------------------------------------------------------------------------
(* The agents' steps.                                                       *)

\* An answer tells one operation something, if it still waits.
LEMMA ReplyFacts ==
    ASSUME TypeOK, NEW c \in cmds, NEW j \in JobType, Replies(c, j),
           j.pc = job[c.server].pc, j.from = job[c.server].from, j.to = job[c.server].to
    PROVE  /\ UNCHANGED row /\ cmds' = cmds \ {c}
           /\ \A t \in Servers \ {c.server} : job'[t] = job[t]
           /\ job'[c.server].pc = job[c.server].pc /\ job'[c.server].from = job[c.server].from
           /\ job'[c.server].to = job[c.server].to
           /\ job'[c.server] = job[c.server] \/ (c.awaited /\ job'[c.server] = j)
<1>1. c.server \in Servers /\ job \in [Servers -> JobType]
    BY TypeParts DEF CommandType
<1> QED
    BY <1>1 DEF Replies

LEMMA FinishReplies ==
    ASSUME TypeOK, NEW c \in cmds, NEW r \in {"none", "ok", "error"}, Finish(c, r)
    PROVE  /\ UNCHANGED row /\ cmds' = cmds \ {c}
           /\ \A t \in Servers \ {c.server} : job'[t] = job[t]
           /\ job'[c.server].pc = job[c.server].pc /\ job'[c.server].from = job[c.server].from
           /\ job'[c.server].to = job[c.server].to
           /\ job'[c.server].archive = job[c.server].archive
           /\ \/ job'[c.server] = job[c.server]
              \/ c.awaited /\ job'[c.server].got = r
<1>1. c.server \in Servers /\ job[c.server] \in JobType
    BY TypeParts DEF CommandType
<1>2. PICK j : j = [job[c.server] EXCEPT !.got = r]
    OBVIOUS
<1>3. /\ j \in JobType /\ j.pc = job[c.server].pc /\ j.from = job[c.server].from
      /\ j.to = job[c.server].to /\ j.archive = job[c.server].archive /\ j.got = r
    BY <1>1, <1>2 DEF JobType
<1>4. Replies(c, j)
    BY <1>2 DEF Finish
<1> QED
    BY <1>3, <1>4, ReplyFacts

\* Whatever it says, it leaves the waiting and the places in order.
LEMMA WorldReplied ==
    ASSUME TypeOK, NEW c \in cmds, WorldInv(c.server),
           UNCHANGED row, cmds' = cmds \ {c},
           job'[c.server].pc = job[c.server].pc, job'[c.server].from = job[c.server].from,
           job'[c.server].to = job[c.server].to,
           job[c.server].pc = "restoring" => job'[c.server].archive = job[c.server].archive,
           job'[c.server] = job[c.server] \/ c.awaited
    PROVE  /\ Awaits(c.server)' /\ Placed(c.server)' /\ Harmless(c.server)' /\ Unbought(c.server)'
<1>0. PICK s \in Servers : s = c.server
    BY TypeParts DEF CommandType
<1>1. Awaits(s)
    BY <1>0 DEF WorldInv
<1>2. ~Awaited(s)' \/ (job'[s] = job[s] /\ (Awaited(s)' => Awaited(s)))
    BY <1>0, <1>1 DEF Awaits, Awaited
<1>3. Awaits(s)'
    BY <1>0, <1>1, <1>2 DEF Awaits
<1>4. Placed(s)' /\ Harmless(s)'
    BY <1>0 DEF WorldInv, Placed, Harmless, Home
<1>5. Unbought(s)'
    BY <1>0 DEF WorldInv, Unbought
<1> QED
    BY <1>0, <1>3, <1>4, <1>5

\* What an awaited command, and its operation, tell of each other.
LEMMA Expected ==
    ASSUME NEW c \in cmds, WorldInv(c.server), c.awaited
    PROVE  /\ job[c.server].got = "none"
           /\ job[c.server].pc = "archiving" => c.op = "archive" /\ c.node = job[c.server].from
           /\ job[c.server].pc = "creating" => c.op \in {"create", "pull"}
           /\ job[c.server].pc = "restoring" =>
                c.op = "restore" /\ c.node = job[c.server].to
                /\ c.archive = job[c.server].archive
<1>1. PICK s : s = c.server
    OBVIOUS
<1>2. Awaits(s)
    BY <1>1 DEF WorldInv
<1> QED
    BY <1>1, <1>2 DEF Awaits, Awaited

LEMMA AgentWorld ==
    ASSUME TypeOK, RunInv, NEW c \in cmds, Execute(c), WorldInv(c.server)
    PROVE  WorldInv(c.server)'
<1>0. PICK s \in Servers : s = c.server
    BY TypeParts DEF CommandType
<1>1. PICK n \in Nodes : n = c.node
    BY TypeParts DEF CommandType
<1>2. /\ At(c) = <<n, s>> /\ <<n, s>> \in Nodes \X Servers
      /\ c \in CommandType /\ job[s] \in JobType /\ s \in Servers
      /\ disk \in [Nodes \X Servers -> Worlds]
      /\ box \in [Nodes \X Servers -> {"none", "stopped", "running"}]
    BY <1>0, <1>1, TypeParts DEF At
<1>3. /\ Awaits(s) /\ Placed(s) /\ Harmless(s) /\ Unbought(s) /\ Built(s) /\ Carried(s)
      /\ row[s].state # "none"
    BY <1>0 DEF WorldInv, Unbought
<1>4. /\ job[s].pc \in Moving => row[s].state = "up" /\ job[s].from = Home(s) /\ ~Starting(s)
      /\ row[s].state = "building" => c.op \in {"create", "pull"} /\ n = Home(s)
      /\ row[s].state = "up" => disk[<<Home(s), s>>] = played[s]
      /\ played[s] # NoDir
    BY <1>0, <1>1, <1>3, Homes DEF RunInv, Held, Built
<1>5. c.awaited => /\ job[s].got = "none"
                   /\ job[s].pc = "archiving" => c.op = "archive" /\ n = job[s].from
                   /\ job[s].pc = "creating" => c.op \in {"create", "pull"}
                   /\ job[s].pc = "restoring" =>
                        c.op = "restore" /\ n = job[s].to /\ c.archive = job[s].archive
    BY <1>0, <1>1, Expected
\* An answer, when the home's directory keeps the newest world.
<1>6. ASSUME NEW r \in {"none", "ok", "error"}, Finish(c, r), UNCHANGED played,
             row[s].state = "up" => disk'[<<Home(s), s>>] = played[s],
             row[s].state = "building" =>
                /\ \A m \in Nodes : disk'[<<m, s>>] = disk[<<m, s>>] /\ box'[<<m, s>>] # "running"
                /\ c.op = "pull",
             job[s].pc = "restoring" =>
                \/ \A m \in Nodes : disk'[<<m, s>>] = disk[<<m, s>>]
                \/ c.awaited /\ disk'[<<job[s].to, s>>] = c.archive.world,
             c.op # "archive",
             job[s].pc = "restoring" /\ r = "ok" /\ c.awaited =>
                disk'[<<job[s].to, s>>] = c.archive.world
      PROVE  WorldInv(s)'
    <2>1. /\ UNCHANGED row /\ cmds' = cmds \ {c}
          /\ job'[s].pc = job[s].pc /\ job'[s].from = job[s].from
          /\ job'[s].to = job[s].to /\ job'[s].archive = job[s].archive
          /\ job'[s] = job[s] \/ (c.awaited /\ job'[s].got = r)
        BY <1>0, <1>6, FinishReplies
    <2>2. Awaits(s)' /\ Placed(s)' /\ Harmless(s)' /\ Unbought(s)'
        BY <1>0, <2>1, WorldReplied
    <2>3. Built(s)'
        BY <1>0, <1>1, <1>3, <1>6, <2>1 DEF Built, Home
    <2>4. Carried(s)'
        <3>1. row'[s].state = "up" => disk'[<<Home(s)', s>>] = played'[s]
            BY <1>6, <2>1 DEF Home
        <3>2. (job'[s].pc = "archiving" /\ job'[s].got = "ok") \/ job'[s].pc \in {"creating", "restoring"}
                 => job'[s].archive.world = played'[s]
            BY <1>3, <1>5, <1>6, <2>1 DEF Carried
        <3>3. ASSUME job'[s].pc = "restoring", job'[s].got = "ok"
              PROVE  disk'[<<job'[s].to, s>>] = played'[s]
            <4>1. job[s].archive.world = played[s] /\ job[s].to \in Nodes
                BY <2>1, <3>3, <1>3 DEF Carried, Placed, Moving
            <4>2. CASE job'[s] = job[s]
                <5>1. ~c.awaited /\ disk[<<job[s].to, s>>] = played[s]
                    BY <1>3, <1>5, <3>3, <4>2 DEF Carried
                <5> QED
                    BY <1>6, <2>1, <3>3, <4>1, <5>1
            <4>3. CASE c.awaited /\ job'[s].got = r
                BY <1>5, <1>6, <2>1, <3>3, <4>1, <4>3
            <4> QED
                BY <2>1, <4>2, <4>3
        <3> QED
            BY <3>1, <3>2, <3>3 DEF Carried
    <2> QED
        BY <2>2, <2>3, <2>4 DEF WorldInv
\* A command that goes on to its second part.
<1>7. ASSUME NEW op \in {"pull", "wipe"}, c.op = IF op = "pull" THEN "create" ELSE "delete",
             UNCHANGED <<row, job, played>>,
             cmds' = (cmds \ {c}) \cup {[c EXCEPT !.op = op]},
             \A m \in Nodes : disk'[<<m, s>>] =
                IF op = "pull" /\ m = n /\ disk[<<m, s>>] = NoDir THEN 0 ELSE disk[<<m, s>>],
             \A m \in Nodes : box'[<<m, s>>] \in {box[<<m, s>>], "none"}
      PROVE  WorldInv(s)'
    <2>1. PICK e : e = [c EXCEPT !.op = op]
        OBVIOUS
    <2>2. /\ e.op = op /\ e.node = n /\ e.server = s /\ e.awaited = c.awaited
          /\ e.archive = c.archive
        BY <1>0, <1>1, <1>2, <2>1 DEF CommandType
    <2>3. cmds' = (cmds \ {c}) \cup {e}
        BY <1>7, <2>1
    <2>4. Awaits(s)'
        <3>1. Awaited(s)' => Awaited(s)
            BY <1>0, <2>2, <2>3 DEF Awaited
        <3>2. \A d \in cmds : d.server = s /\ d.awaited /\ c.awaited => d = c
            BY <1>0, <1>3 DEF Awaits
        <3>3. \A d, f \in cmds' :
                 d.server = s /\ f.server = s /\ d.awaited /\ f.awaited => d = f
            BY <1>3, <2>2, <2>3, <3>2 DEF Awaits
        <3>4. \A d \in cmds' : d.server = s /\ d.awaited =>
                /\ job[s].pc = "archiving" => d.op = "archive" /\ d.node = job[s].from
                /\ job[s].pc = "creating" => d.op \in {"create", "pull"} /\ d.node = job[s].to
                /\ job[s].pc = "restoring" =>
                     d.op = "restore" /\ d.node = job[s].to /\ d.archive = job[s].archive
            BY <1>0, <1>1, <1>3, <1>7, <2>2, <2>3 DEF Awaits
        <3> QED
            BY <1>3, <1>7, <3>1, <3>3, <3>4 DEF Awaits
    <2>5. Placed(s)' /\ Unbought(s)'
        BY <1>3, <1>7 DEF Placed, Unbought, Home
    <2>6. Harmless(s)'
        BY <1>0, <1>1, <1>3, <1>7, <2>2, <2>3 DEF Harmless, Home
    <2>7. Built(s)'
        <3> SUFFICES ASSUME row[s].state = "building" PROVE Built(s)'
            BY <1>7 DEF Built
        <3>1. c.op = "create" /\ op = "pull" /\ n = Home(s)
            BY <1>4, <1>7
        <3>2. disk'[<<Home(s), s>>] = 0
            BY <1>3, <1>7, <3>1 DEF Built
        <3>3. \A m \in Nodes : disk'[<<m, s>>] \in {NoDir, 0} /\ box'[<<m, s>>] # "running"
            BY <1>3, <1>7 DEF Built
        <3> QED
            BY <1>3, <1>7, <2>2, <2>3, <3>1, <3>2, <3>3 DEF Built, Home
    <2>8. Carried(s)'
        <3>1. row'[s].state = "up" => disk'[<<Home(s)', s>>] = played'[s]
            BY <1>3, <1>4, <1>7 DEF Placed, Home
        <3>2. job[s].pc = "restoring" /\ job[s].got = "ok" => disk'[<<job[s].to, s>>] = played[s]
            BY <1>3, <1>4, <1>7 DEF Carried, Placed, Moving
        <3> QED
            BY <1>3, <1>7, <3>1, <3>2 DEF Carried
    <2> QED
        BY <2>4, <2>5, <2>6, <2>7, <2>8 DEF WorldInv
<1>8. ASSUME MakeDir(c) PROVE WorldInv(s)'
    <2>1. \A m \in Nodes : disk'[<<m, s>>] =
             IF m = n /\ disk[<<m, s>>] = NoDir THEN 0 ELSE disk[<<m, s>>]
        BY <1>2, <1>8 DEF MakeDir
    <2>2. /\ UNCHANGED <<row, job, played, box>> /\ c.op = "create"
          /\ cmds' = (cmds \ {c}) \cup {[c EXCEPT !.op = "pull"]}
        BY <1>8 DEF MakeDir, panelVars
    <2> QED
        BY <1>7, <2>1, <2>2
<1>9. ASSUME MakeBox(c) PROVE WorldInv(s)'
    <2>1. \A m \in Nodes : box'[<<m, s>>] = box[<<m, s>>] \/ box'[<<m, s>>] = "stopped"
        BY <1>2, <1>9 DEF MakeBox
    <2>2. row[s].state = "building" => \A m \in Nodes : box'[<<m, s>>] # "running"
        BY <1>3, <2>1 DEF Built
    <2>3. PICK r \in {"ok", "error"} : Finish(c, r) /\ UNCHANGED <<disk, played>>
        BY <1>9 DEF MakeBox
    <2>4. c.op = "pull"
        BY <1>9 DEF MakeBox
    <2> QED
        BY <1>4, <1>5, <1>6, <2>2, <2>3, <2>4
<1>10. ASSUME RemoveBox(c) PROVE WorldInv(s)'
    <2>1. \A m \in Nodes : box'[<<m, s>>] \in {box[<<m, s>>], "none"}
        BY <1>2, <1>10 DEF RemoveBox
    <2>2. /\ UNCHANGED <<row, job, played, disk>> /\ c.op = "delete"
          /\ cmds' = (cmds \ {c}) \cup {[c EXCEPT !.op = "wipe"]}
        BY <1>10 DEF RemoveBox, panelVars
    <2> QED
        BY <1>7, <2>1, <2>2
<1>11. ASSUME WipeDir(c) PROVE WorldInv(s)'
    <2>1. c.op = "wipe" /\ Finish(c, "ok") /\ UNCHANGED <<box, played>>
        BY <1>11 DEF WipeDir
    <2>2. row[s].state = "up" => job[s].pc \in {"cleaning", "unwinding"} /\ n # Home(s)
        BY <1>0, <1>1, <1>3, <2>1 DEF Harmless
    <2>3. \A m \in Nodes : m # n => disk'[<<m, s>>] = disk[<<m, s>>]
        BY <1>2, <1>11 DEF WipeDir
    <2>4. row[s].state = "up" => disk'[<<Home(s), s>>] = played[s]
        BY <1>3, <1>4, <2>2, <2>3 DEF Placed
    <2>5. row[s].state # "building" /\ job[s].pc # "restoring"
        BY <1>4, <2>1, <2>2 DEF Moving
    <2> QED
        BY <1>6, <2>1, <2>4, <2>5
<1>12. ASSUME StartBox(c) PROVE WorldInv(s)'
    <2>1. c.op = "start" /\ UNCHANGED played
        BY <1>12 DEF StartBox
    <2>2. PICK r \in {"ok", "error"} : Finish(c, r)
        BY <1>12 DEF StartBox
    <2>3. row[s].state # "building" /\ job[s].pc \notin Moving
        BY <1>0, <1>4, <2>1 DEF Starting
    <2>4. row[s].state = "up" => disk'[<<Home(s), s>>] = played[s]
        <3>1. \A m \in Nodes : disk[<<m, s>>] # NoDir => disk'[<<m, s>>] = disk[<<m, s>>]
            BY <1>2, <1>12 DEF StartBox
        <3> QED
            BY <1>3, <1>4, <3>1 DEF Placed
    <2> QED
        BY <1>6, <2>1, <2>2, <2>3, <2>4 DEF Moving
<1>13. ASSUME StopBox(c) PROVE WorldInv(s)'
    <2>1. c.op = "stop" /\ Finish(c, "ok") /\ UNCHANGED <<disk, played>>
        BY <1>13 DEF StopBox
    <2> QED
        BY <1>4, <1>5, <1>6, <2>1
<1>14. ASSUME Archive(c) PROVE WorldInv(s)'
    <2>0. c.op = "archive" /\ UNCHANGED <<box, disk, played>> /\ row[s].state # "building"
        BY <1>4, <1>14 DEF Archive, nodeVars
    <2>1. CASE Finish(c, "error")
        <3>1. /\ UNCHANGED row /\ cmds' = cmds \ {c}
              /\ job'[s].pc = job[s].pc /\ job'[s].from = job[s].from
              /\ job'[s].to = job[s].to /\ job'[s].archive = job[s].archive
              /\ job'[s] = job[s] \/ (c.awaited /\ job'[s].got = "error")
            BY <1>0, <2>1, FinishReplies
        <3>2. Awaits(s)' /\ Placed(s)' /\ Harmless(s)' /\ Unbought(s)'
            BY <1>0, <3>1, WorldReplied
        <3>3. Built(s)'
            BY <2>0, <3>1 DEF Built
        <3>4. Carried(s)'
            BY <1>3, <2>0, <3>1 DEF Carried, Home
        <3> QED
            BY <3>2, <3>3, <3>4 DEF WorldInv
    <2>2. CASE /\ disk[At(c)] # NoDir
               /\ Replies(c, [job[c.server] EXCEPT !.got = "ok",
                                !.archive = [node |-> c.node, world |-> disk[At(c)]]])
        <3>1. PICK x : x = [node |-> c.node, world |-> disk[At(c)]]
            OBVIOUS
        <3>2. x \in Archives /\ x.world = disk[<<n, s>>]
            BY <1>1, <1>2, <3>1 DEF Archives, SomeNode
        <3>3. PICK j : j = [job[s] EXCEPT !.got = "ok", !.archive = x]
            OBVIOUS
        <3>4. /\ j \in JobType /\ j.pc = job[s].pc /\ j.from = job[s].from /\ j.to = job[s].to
              /\ j.archive = x
            BY <1>2, <3>2, <3>3 DEF JobType
        <3>5. Replies(c, j)
            BY <1>0, <2>2, <3>1, <3>3
        <3>6. /\ UNCHANGED row /\ cmds' = cmds \ {c}
              /\ job'[s].pc = job[s].pc /\ job'[s].from = job[s].from
              /\ job'[s].to = job[s].to
              /\ job'[s] = job[s] \/ (c.awaited /\ job'[s] = j)
            BY <1>0, <3>4, <3>5, ReplyFacts
        <3>7. c.awaited => job[s].pc \notin {"creating", "restoring"}
            BY <1>5, <2>0
        <3>8. Awaits(s)' /\ Placed(s)' /\ Harmless(s)' /\ Unbought(s)'
            BY <1>0, <3>6, <3>7, WorldReplied
        <3>9. Built(s)'
            BY <2>0, <3>6 DEF Built
        <3>10. Carried(s)'
            <4>1. row'[s].state = "up" => disk'[<<Home(s)', s>>] = played'[s]
                BY <1>4, <2>0, <3>6 DEF Home
            <4>2. CASE job'[s] = job[s]
                BY <1>3, <2>0, <4>1, <4>2 DEF Carried
            <4>3. CASE c.awaited /\ job'[s] = j
                <5>1. job[s].pc = "archiving" => n = Home(s) /\ row[s].state = "up"
                    BY <1>4, <1>5, <4>3 DEF Moving
                <5>2. job[s].pc = "archiving" => x.world = played[s]
                    BY <1>4, <3>2, <5>1
                <5> QED
                    BY <2>0, <3>4, <3>7, <4>1, <4>3, <5>2 DEF Carried
            <4> QED
                BY <3>6, <4>2, <4>3
        <3> QED
            BY <3>8, <3>9, <3>10 DEF WorldInv
    <2> QED
        BY <1>14, <2>1, <2>2 DEF Archive
<1>15. ASSUME Restore(c) PROVE WorldInv(s)'
    <2>1. c.op = "restore" /\ UNCHANGED <<box, played>> /\ row[s].state # "building"
        BY <1>4, <1>15 DEF Restore
    <2>2. row[s].state = "up" => c.awaited /\ job[s].pc = "restoring"
        BY <1>0, <1>3, <2>1 DEF Harmless
    <2>3. job[s].pc = "restoring" => row[s].state = "up" /\ job[s].to # Home(s) /\ job[s].to \in Nodes
        BY <1>3, <1>4 DEF Placed, Moving
    <2>4. CASE Finish(c, "ok") /\ disk' = [disk EXCEPT ![At(c)] = c.archive.world]
        <3>1. /\ disk'[<<n, s>>] = c.archive.world
              /\ \A m \in Nodes : m # n => disk'[<<m, s>>] = disk[<<m, s>>]
            BY <1>2, <2>4
        <3>2. job[s].pc = "restoring" => c.awaited /\ n = job[s].to
            BY <1>5, <2>2, <2>3
        <3>3. row[s].state = "up" => disk'[<<Home(s), s>>] = played[s]
            BY <1>3, <1>4, <2>2, <2>3, <3>1, <3>2 DEF Placed
        <3>4. job[s].pc = "restoring" => disk'[<<job[s].to, s>>] = c.archive.world
            BY <3>1, <3>2
        <3> QED
            BY <1>6, <2>1, <2>4, <3>2, <3>3, <3>4
    <2>5. CASE Finish(c, "error") /\ UNCHANGED disk
        BY <1>4, <1>6, <2>1, <2>5
    <2> QED
        BY <1>15, <2>4, <2>5 DEF Restore
<1>16. WorldInv(s)'
    BY <1>8, <1>9, <1>10, <1>11, <1>12, <1>13, <1>14, <1>15 DEF Execute
<1> QED
    BY <1>0, <1>16

-----------------------------------------------------------------------------
(* The customer's, the nodes' and the players' steps.                       *)

LEMMA PowerWorld ==
    ASSUME TypeOK, Settles, NEW s \in Servers, WorldInv(s), Power(s)
    PROVE  WorldInv(s)'
<1>1. PICK new : new = Command("start", Home(s), s, NoArchive, FALSE) /\ cmds' = cmds \cup {new}
    BY DEF Power
<1>2. new.op = "start" /\ ~new.awaited
    BY <1>1 DEF Command
<1>3. row[s].state = "up" /\ UNCHANGED <<row, job, disk, box, played>>
    BY DEF Power, panelVars, nodeVars
<1>4. Awaits(s) /\ Placed(s) /\ Harmless(s) /\ Carried(s)
    BY DEF WorldInv
<1>5. Awaits(s)'
    BY <1>1, <1>2, <1>3, <1>4 DEF Awaits, Awaited
<1>6. Placed(s)' /\ Unbought(s)' /\ Built(s)'
    BY <1>3, <1>4 DEF Placed, Unbought, Built, Home
<1>7. Harmless(s)'
    BY <1>1, <1>2, <1>3, <1>4 DEF Harmless, Home
<1>8. Carried(s)'
    BY <1>3, <1>4 DEF Carried, Home
<1> QED
    BY <1>5, <1>6, <1>7, <1>8 DEF WorldInv

\* Only the world at home is played on.
LEMMA PlayWorld ==
    ASSUME TypeOK, RunInv, NEW n \in Nodes, NEW s \in Servers, WorldInv(s), Play(n, s)
    PROVE  WorldInv(s)'
<1>1. /\ box[<<n, s>>] = "running" /\ disk[<<n, s>>] = played[s]
      /\ UNCHANGED <<row, job, cmds, box>>
    BY DEF Play, panelVars
<1>2. /\ played'[s] = played[s] + 1 /\ disk'[<<n, s>>] = disk[<<n, s>>] + 1
      /\ \A m \in Nodes : m # n => disk'[<<m, s>>] = disk[<<m, s>>]
    BY TypeParts DEF Play
<1>3. Hot(n, s)
    BY <1>1 DEF Hot
<1>4. row[s].state \notin {"none", "building"}
    BY <1>1, <1>3 DEF RunInv, HotAtHome, WorldInv, Built
<1>5. row[s].state = "up" => n = Home(s)
    BY <1>3 DEF RunInv, HotAtHome
<1>6. job[s].pc \notin {"archiving", "creating", "restoring"}
    BY <1>1 DEF RunInv, Stopped, StopAnswered, Moving
<1>7. Awaits(s)' /\ Placed(s)' /\ Harmless(s)'
    BY <1>1 DEF WorldInv, Awaits, Awaited, Placed, Harmless, Home
<1>8. Unbought(s)' /\ Built(s)'
    BY <1>1, <1>4 DEF Unbought, Built
<1>9. Carried(s)'
    BY <1>1, <1>2, <1>5, <1>6 DEF Carried, Home
<1> QED
    BY <1>7, <1>8, <1>9 DEF WorldInv

LEMMA NodeWorld ==
    ASSUME TypeOK, NEW n \in Nodes, NEW s \in Servers, WorldInv(s),
           Disconnect(n) \/ AgentCrash(n) \/ Connect(n) \/ ReconStep(n)
    PROVE  WorldInv(s)'
<1>1. UNCHANGED <<row, job, disk, played>> /\ cmds' \subseteq cmds
    BY DEF Disconnect, AgentCrash, Connect, ReconStep, ReadList, ListContainers, Remove,
           Reconciled, panelVars, nodeVars
<1>2. \/ box' = box
      \/ \E t \in Servers : box' = [box EXCEPT ![<<n, t>>] = "none"]
    BY DEF Disconnect, AgentCrash, Connect, ReconStep, ReadList, ListContainers, Remove,
           Reconciled, nodeVars
<1>3. \A m \in Nodes : box'[<<m, s>>] \in {box[<<m, s>>], "none"}
    BY <1>2, TypeParts
<1> QED
    BY <1>1, <1>3, WorldFewer

-----------------------------------------------------------------------------
(* The other servers.                                                       *)

LEMMA PanelOthers ==
    ASSUME TypeOK, NEW s \in Servers, NEW t \in Servers \ {s}, WorldInv(t),
           \/ \E n \in Nodes : Buy(s, n) \/ Migrate(s, n)
           \/ Delete(s) \/ PanelStep(s) \/ PanelCrash(s) \/ Power(s)
    PROVE  WorldInv(t)'
<1>0. /\ row \in [Servers -> RowType] /\ job \in [Servers -> JobType] /\ job[s] \in JobType
      /\ cmds \subseteq CommandType
    BY TypeParts
<1>1. UNCHANGED <<disk, box, played>>
    BY DEF Buy, Migrate, Delete, PanelStep, MoveOn, Switch, Unwind, MoveEnds, BuildSucceeds,
           RowDeleted, PanelCrash, Power, nodeVars
<1>2. row'[t] = row[t]
    BY <1>0 DEF Buy, Migrate, Delete, PanelStep, MoveOn, Switch, Unwind, MoveEnds, BuildSucceeds,
                RowDeleted, PanelCrash, Power, panelVars
<1>3. \/ \E pc \in Waits, j \in JobType : Calls(s, pc, j)
      \/ Ends(s)
      \/ \E new : new.server = s /\ Sends(new) /\ job'[t] = job[t]
      \/ Power(s)
    <2>1. ASSUME NEW n \in Nodes, Buy(s, n)
          PROVE  \E new : new.server = s /\ Sends(new) /\ job'[t] = job[t]
        BY <1>0, <2>1 DEF Buy, Command
    <2>2. ASSUME NEW n \in Nodes, Migrate(s, n)
          PROVE  \E new : new.server = s /\ Sends(new) /\ job'[t] = job[t]
        <3>1. PICK new : new = Command("stop", Home(s), s, NoArchive, TRUE) /\ Sends(new)
            BY <2>2 DEF Migrate
        <3>2. new.server = s
            BY <3>1 DEF Command
        <3>3. job'[t] = job[t]
            BY <1>0, <2>2 DEF Migrate
        <3> QED
            BY <3>1, <3>2, <3>3
    <2>3. ASSUME Delete(s) PROVE \E pc \in Waits, j \in JobType : Calls(s, pc, j)
        BY <2>3, Nothings DEF Delete, Waits
    <2>4. ASSUME MoveOn(s) \/ Switch(s) \/ Unwind(s)
          PROVE  \E pc \in Waits, j \in JobType : Calls(s, pc, j)
        BY <1>0, <2>4 DEF MoveOn, Switch, Unwind, Waits
    <2>5. ASSUME MoveEnds(s) \/ BuildSucceeds(s) \/ RowDeleted(s) \/ PanelCrash(s)
          PROVE  Ends(s)
        BY <2>5 DEF MoveEnds, BuildSucceeds, RowDeleted, PanelCrash
    <2> QED
        BY <2>1, <2>2, <2>3, <2>4, <2>5 DEF PanelStep
<1>4. job'[t] = job[t] /\ \A c \in cmds' : c.server = t => c \in cmds
    <2>1. CASE \E pc \in Waits, j \in JobType : Calls(s, pc, j)
        BY <2>1, CallsNew
    <2>2. CASE Ends(s)
        BY <1>0, <2>2, AbandonedFacts DEF Ends
    <2>3. CASE \E new : new.server = s /\ Sends(new) /\ job'[t] = job[t]
        BY <2>3, SendsNew
    <2>4. CASE Power(s)
        BY <1>0, <2>4 DEF Power, Command, panelVars
    <2> QED
        BY <1>3, <2>1, <2>2, <2>3, <2>4
<1> QED
    BY <1>1, <1>2, <1>4, WorldFewer

LEMMA AgentOthers ==
    ASSUME TypeOK, NEW c \in cmds, Execute(c), NEW t \in Servers \ {c.server}, WorldInv(t)
    PROVE  WorldInv(t)'
<1>0. /\ job \in [Servers -> JobType] /\ c \in CommandType
      /\ disk \in [Nodes \X Servers -> Worlds]
      /\ box \in [Nodes \X Servers -> {"none", "stopped", "running"}]
    BY TypeParts
<1>1. UNCHANGED <<row, played>>
    BY DEF Execute, MakeDir, MakeBox, RemoveBox, WipeDir, StartBox, StopBox, Archive, Restore,
           Finish, Replies, panelVars, nodeVars
<1>2. \A n \in Nodes : <<n, t>> # At(c)
    BY DEF At
<1>3. \A n \in Nodes : disk'[<<n, t>>] = disk[<<n, t>>]
    BY <1>0, <1>2 DEF Execute, MakeDir, MakeBox, RemoveBox, WipeDir, StartBox, StopBox, Archive,
                      Restore, nodeVars
<1>4. \A n \in Nodes : box'[<<n, t>>] = box[<<n, t>>]
    BY <1>0, <1>2 DEF Execute, MakeDir, MakeBox, RemoveBox, WipeDir, StartBox, StopBox, Archive,
                      Restore, nodeVars
<1>5. job'[t] = job[t]
    BY <1>0 DEF Execute, MakeDir, MakeBox, RemoveBox, WipeDir, StartBox, StopBox, Archive,
                Restore, Finish, Replies, panelVars
<1>6. \A d \in cmds' : d.server = t => d \in cmds
    <2>1. CASE cmds' = cmds \ {c}
        BY <2>1
    <2>2. CASE \E op \in {"pull", "wipe"} : cmds' = (cmds \ {c}) \cup {[c EXCEPT !.op = op]}
        BY <1>0, <2>2 DEF CommandType
    <2> QED
        BY <2>1, <2>2 DEF Execute, MakeDir, MakeBox, RemoveBox, WipeDir, StartBox, StopBox,
                          Archive, Restore, Finish, Replies
<1> QED
    BY <1>1, <1>3, <1>4, <1>5, <1>6, WorldFewer

LEMMA PlayOthers ==
    ASSUME TypeOK, NEW n \in Nodes, NEW s \in Servers, NEW t \in Servers \ {s}, WorldInv(t),
           Play(n, s)
    PROVE  WorldInv(t)'
<1>1. UNCHANGED <<row, job, cmds, box>>
    BY DEF Play, panelVars
<1>2. played'[t] = played[t] /\ \A m \in Nodes : disk'[<<m, t>>] = disk[<<m, t>>]
    BY TypeParts DEF Play
<1> QED
    BY <1>1, <1>2, WorldFewer

LEMMA WorldNext ==
    ASSUME Settles
    PROVE  TypeOK /\ RunInv /\ (\A s \in Servers : WorldInv(s)) /\ [Next]_vars
             => \A s \in Servers : WorldInv(s)'
<1> SUFFICES ASSUME TypeOK, RunInv, \A s \in Servers : WorldInv(s), [Next]_vars,
                    NEW t \in Servers
             PROVE  WorldInv(t)'
    OBVIOUS
<1>1. ASSUME NEW s \in Servers,
             \/ \E n \in Nodes : Buy(s, n) \/ Migrate(s, n)
             \/ Delete(s) \/ PanelStep(s) \/ PanelCrash(s)
      PROVE  WorldInv(t)'
    <2>1. CASE t = s
        BY <1>1, <2>1, PanelWorld
    <2>2. CASE t # s
        BY <1>1, <2>2, PanelOthers
    <2> QED
        BY <2>1, <2>2
<1>2. ASSUME NEW s \in Servers, Power(s) PROVE WorldInv(t)'
    <2>1. CASE t = s
        BY <1>2, <2>1, PowerWorld
    <2>2. CASE t # s
        BY <1>2, <2>2, PanelOthers
    <2> QED
        BY <2>1, <2>2
<1>3. ASSUME NEW c \in cmds, Execute(c) PROVE WorldInv(t)'
    <2>1. CASE t = c.server
        BY <1>3, <2>1, AgentWorld
    <2>2. CASE t # c.server
        BY <1>3, <2>2, AgentOthers
    <2> QED
        BY <2>1, <2>2
<1>4. ASSUME NEW n \in Nodes, NEW s \in Servers, Play(n, s) PROVE WorldInv(t)'
    <2>1. CASE t = s
        BY <1>4, <2>1, PlayWorld
    <2>2. CASE t # s
        BY <1>4, <2>2, PlayOthers
    <2> QED
        BY <2>1, <2>2
<1>5. ASSUME NEW n \in Nodes, Disconnect(n) \/ AgentCrash(n) \/ Connect(n) \/ ReconStep(n)
      PROVE  WorldInv(t)'
    BY <1>5, NodeWorld
<1>6. CASE UNCHANGED vars
    <2>1. UNCHANGED <<row, job, cmds, box, disk, played>>
        BY <1>6 DEF vars
    <2> QED
        BY <2>1, WorldFewer
<1> QED
    BY <1>1, <1>2, <1>3, <1>4, <1>5, <1>6 DEF Next

\* Whatever is lost, late or repeated, and whoever dies while a server is built,
\* archived or torn down: the node a server is placed on has the newest version of
\* its world (OPERATIONS.md:128).  TLC refutes it without any one of the conditions:
\* with a power action during a migration, a failure after the switch, or a command
\* that destroys or replaces a directory after its operation gave up waiting.
THEOREM WorldSafeCorrect ==
    ASSUME Admits \subseteq {"stale", "agent"},
           {"restoring", "cleaning", "unwinding"} \cap (Slow \cup Dies) = {}
    PROVE  Spec => []WorldSafe
<1> DEFINE AllWorlds == \A s \in Servers : WorldInv(s)
<1>1. Settles /\ "power" \notin Admits
    BY DEF Settles
<1>2. TypeOK /\ RunInv /\ [Next]_vars => RunInv'
    BY <1>1, RunNext
<1>3. TypeOK /\ RunInv /\ AllWorlds /\ [Next]_vars => AllWorlds'
    BY <1>1, WorldNext
<1>4. Init => AllWorlds
    BY WorldInit
<1>5. AllWorlds => WorldSafe
    BY DEF WorldInv, Carried, WorldSafe
<1> HIDE DEF AllWorlds
<1> QED
    BY <1>2, <1>3, <1>4, <1>5, TypeInit, TypeNext, RunInit, PTL DEF Spec

-----------------------------------------------------------------------------
(* A server's container is where the row says: reconciling knows what is    *)
(* placed on a node that does not reconnect while something is built there. *)

\* What a node was told, and what it is about to remove, against the rows; and
\* it reconciles nothing while something is built on it.
Known(s) ==
    \A n \in Nodes :
        /\ Builds(s, n) => recon[n].pc = "none"
        /\ s \in PlacedOn(n) /\ recon[n].pc = "listed" => s \in recon[n].list
        /\ s \in PlacedOn(n) /\ recon[n].pc = "removing" => s \notin recon[n].list

\* A container is there from the answer that says so.
Boxed(s) ==
    /\ row[s].state = "up" => box[<<Home(s), s>>] # "none"
    /\ job[s].pc = "building" /\ job[s].got = "ok" => box[<<Home(s), s>>] # "none"
    /\ (job[s].pc = "creating" /\ job[s].got = "ok") \/ job[s].pc = "restoring" =>
        box[<<job[s].to, s>>] # "none"

BoxInv(s) == Known(s) /\ Boxed(s)

LEMMA BoxInit == Init => \A s \in Servers : BoxInv(s)
<1> SUFFICES ASSUME Init, NEW s \in Servers PROVE BoxInv(s)
    OBVIOUS
<1>1. /\ job[s].pc = "idle" /\ row[s].state = "none"
      /\ \A n \in Nodes : recon[n].pc = "none"
    BY DEF Init, Idle, NoRecon
<1> QED
    BY <1>1 DEF BoxInv, Known, Boxed, Builds

\* A step that does not touch a server.
LEMMA BoxRests ==
    ASSUME NEW s \in Servers, BoxInv(s), row'[s] = row[s], job'[s] = job[s],
           UNCHANGED <<box, recon>>
    PROVE  BoxInv(s)'
<1>1. Known(s)'
    BY DEF BoxInv, Known, Builds, PlacedOn, Home
<1>2. Boxed(s)'
    BY DEF BoxInv, Boxed, Home
<1> QED
    BY <1>1, <1>2 DEF BoxInv

\* What a step of the panel on s owes to the invariant: it builds only where nothing
\* is reconciled.
LEMMA BoxPanel ==
    ASSUME NEW s \in Servers, BoxInv(s), UNCHANGED <<box, recon>>, Boxed(s)',
           \A n \in Nodes : Builds(s, n)' => Builds(s, n) \/ recon[n].pc = "none",
           \A n \in Nodes : row'[s].state \in {"building", "up"} /\ row'[s].node = n =>
             \/ row[s].state \in {"building", "up"} /\ row[s].node = n
             \/ recon[n].pc = "none"
    PROVE  BoxInv(s)'
<1>1. Known(s)'
    <2> SUFFICES ASSUME NEW n \in Nodes
                 PROVE  /\ Builds(s, n)' => recon[n].pc = "none"
                        /\ (s \in PlacedOn(n))' =>
                             /\ recon[n].pc = "listed" => s \in recon[n].list
                             /\ recon[n].pc = "removing" => s \notin recon[n].list
        BY DEF Known
    <2>1. Builds(s, n)' => recon[n].pc = "none"
        BY DEF BoxInv, Known
    <2>2. (s \in PlacedOn(n))' => s \in PlacedOn(n) \/ recon[n].pc = "none"
        BY DEF PlacedOn, Home
    <2> QED
        BY <2>1, <2>2 DEF BoxInv, Known
<1> QED
    BY <1>1 DEF BoxInv

LEMMA PanelBox ==
    ASSUME TypeOK, RunInv, Settles, "stale" \notin Admits, NEW s \in Servers, WorldInv(s), BoxInv(s),
           \/ \E n \in Nodes : Buy(s, n) \/ Migrate(s, n)
           \/ Delete(s) \/ PanelStep(s) \/ PanelCrash(s)
    PROVE  BoxInv(s)'
<1>0. /\ row \in [Servers -> RowType] /\ job \in [Servers -> JobType]
      /\ job[s] \in JobType /\ row[s] \in RowType
    BY TypeParts
<1>a. /\ job[s].pc = "building" => row[s].state = "building"
      /\ job[s].pc \in Moving => row[s].state = "up" /\ job[s].to \in Nodes
      /\ row[s].state = "up" => box[<<row[s].node, s>>] # "none"
    BY DEF RunInv, Held, Home, WorldInv, Placed, BoxInv, Boxed
<1>b. UNCHANGED <<box, recon>>
    BY DEF Buy, Migrate, Delete, PanelStep, MoveOn, Switch, Unwind, MoveEnds, BuildSucceeds,
           RowDeleted, PanelCrash, nodeVars
<1>1. ASSUME NEW n \in Nodes, Buy(s, n) PROVE BoxInv(s)'
    <2>1. /\ row'[s].state = "building" /\ row'[s].node = n /\ job'[s].pc = "building"
          /\ job'[s].got = job[s].got /\ job[s] = Idle
        BY <1>0, <1>1 DEF Buy, WorldInv, Unbought, JobType
    <2>2. recon[n].pc = "none"
        BY <1>1 DEF Buy, MayBuild
    <2>3. Boxed(s)'
        BY <2>1 DEF Boxed, Idle
    <2>4. \A m \in Nodes : Builds(s, m)' => m = n
        BY <2>1 DEF Builds, Home
    <2> QED
        BY <1>b, <2>1, <2>2, <2>3, <2>4, BoxPanel
<1>2. ASSUME NEW n \in Nodes, Migrate(s, n) PROVE BoxInv(s)'
    <2>1. job'[s].pc = "stopping" /\ job'[s].to = n
        <3>1. PICK idle \in JobType : idle = Idle
            BY Nothings
        <3>2. job'[s] = [idle EXCEPT !.pc = "stopping", !.from = Home(s), !.to = n]
            BY <1>0, <1>2, <3>1 DEF Migrate
        <3> QED
            BY <3>1, <3>2 DEF JobType
    <2>2. row' = row /\ recon[n].pc = "none"
        BY <1>2 DEF Migrate, MayBuild
    <2>3. Boxed(s)'
        BY <1>a, <1>b, <2>1, <2>2 DEF Boxed, Home
    <2>4. \A m \in Nodes : Builds(s, m)' => m = n
        BY <2>1 DEF Builds
    <2> QED
        BY <1>b, <2>2, <2>3, <2>4, BoxPanel
<1>3. ASSUME Delete(s) PROVE BoxInv(s)'
    <2>1. row'[s].state = "deleting" /\ job'[s].pc = "tearing"
        BY <1>0, <1>3, CallsNew, Nothings DEF Delete, RowType, Waits
    <2>2. Boxed(s)' /\ \A m \in Nodes : ~Builds(s, m)'
        BY <2>1 DEF Boxed, Builds
    <2> QED
        BY <1>b, <2>1, <2>2, BoxPanel
<1>4. ASSUME MoveOn(s) PROVE BoxInv(s)'
    <2>1. PICK pc \in {"archiving", "creating", "restoring"} : Calls(s, pc, job[s])
        BY <1>4 DEF MoveOn
    <2>2. /\ job'[s].pc = pc /\ job'[s].got = "none" /\ job'[s].to = job[s].to /\ row' = row
        BY <1>0, <1>4, <2>1, CallsNew DEF MoveOn, Waits
    <2>3. /\ Answered(s) /\ job[s].pc \in Moving
          /\ pc = "restoring" => job[s].pc = "creating"
        <3>1. \/ job[s].pc = "stopping" /\ job'[s].pc = "archiving"
              \/ job[s].pc = "archiving" /\ job'[s].pc = "creating"
              \/ job[s].pc = "creating" /\ job'[s].pc = "restoring"
            BY <1>0, <1>4, CallsNew DEF MoveOn, Waits
        <3> QED
            BY <1>4, <2>2, <3>1 DEF MoveOn, Moving
    <2>4. Boxed(s)'
        BY <1>a, <1>b, <2>2, <2>3 DEF BoxInv, Boxed, Home, Answered
    <2>5. \A m \in Nodes : Builds(s, m)' => Builds(s, m)
        BY <2>2, <2>3 DEF Builds, Moving
    <2> QED
        BY <1>b, <2>2, <2>4, <2>5, BoxPanel
<1>5. ASSUME Switch(s) PROVE BoxInv(s)'
    <2>1. job'[s].pc = "cleaning" /\ job[s].pc = "restoring"
        BY <1>0, <1>5, CallsNew DEF Switch, Waits
    <2>2. row'[s].state = "up" /\ row'[s].node = job[s].to /\ job[s].to \in Nodes
        BY <1>0, <1>5, <1>a, <2>1 DEF Switch, RowType, Moving
    <2>3. recon[job[s].to].pc = "none" /\ box[<<job[s].to, s>>] # "none"
        BY <2>1, <2>2 DEF BoxInv, Known, Builds, Boxed
    <2>4. Boxed(s)' /\ \A m \in Nodes : ~Builds(s, m)'
        BY <1>b, <2>1, <2>2, <2>3 DEF Boxed, Builds, Home
    <2> QED
        BY <1>b, <2>2, <2>3, <2>4, BoxPanel
<1>6. ASSUME Unwind(s) PROVE BoxInv(s)'
    <2>1. job'[s].pc = "unwinding" /\ row' = row
        BY <1>0, <1>6, CallsNew DEF Unwind, Waits
    <2>2. Boxed(s)' /\ \A m \in Nodes : ~Builds(s, m)'
        BY <1>a, <1>b, <2>1 DEF Boxed, Builds, Home
    <2> QED
        BY <1>b, <2>1, <2>2, BoxPanel
<1>7. ASSUME Ends(s),
             \/ row'[s] = row[s]
             \/ row'[s].state = "up" /\ row'[s].node = row[s].node /\ job[s].pc = "building"
                  /\ Answered(s)
             \/ row'[s].state = "gone"
      PROVE  BoxInv(s)'
    <2>1. job'[s].pc = "idle"
        BY <1>7, EndsFacts
    <2>2. \A m \in Nodes : ~Builds(s, m)'
        BY <2>1 DEF Builds
    <2>3. Boxed(s)'
        BY <1>7, <1>a, <1>b, <2>1 DEF BoxInv, Boxed, Home, Answered
    <2> QED
        BY <1>7, <1>a, <1>b, <2>2, <2>3, BoxPanel
<1>8. ASSUME MoveEnds(s) \/ PanelCrash(s) PROVE BoxInv(s)'
    BY <1>7, <1>8 DEF MoveEnds, PanelCrash
<1>9. ASSUME BuildSucceeds(s) PROVE BoxInv(s)'
    <2>1. row'[s].state = "up" /\ row'[s].node = row[s].node
        BY <1>0, <1>9 DEF BuildSucceeds, RowType
    <2> QED
        BY <1>7, <1>9, <2>1 DEF BuildSucceeds
<1>10. ASSUME RowDeleted(s) PROVE BoxInv(s)'
    <2>1. row'[s].state = "gone"
        BY <1>0, <1>10 DEF RowDeleted
    <2> QED
        BY <1>7, <1>10, <2>1 DEF RowDeleted
<1> QED
    BY <1>1, <1>2, <1>3, <1>4, <1>5, <1>6, <1>8, <1>9, <1>10 DEF PanelStep

\* What an agent's step tells an operation, and does to containers.
LEMMA ExecuteFacts ==
    ASSUME TypeOK, NEW c \in cmds, Execute(c)
    PROVE  /\ UNCHANGED <<row, recon>>
           /\ job'[c.server].pc = job[c.server].pc /\ job'[c.server].to = job[c.server].to
           /\ job'[c.server].got # job[c.server].got =>
                c.awaited /\ c.op \notin {"create", "delete"}
           /\ job'[c.server].got # job[c.server].got /\ job'[c.server].got = "ok" /\ c.op = "pull" =>
                box'[<<c.node, c.server>>] # "none"
           /\ \A m \in Nodes : box'[<<m, c.server>>] = "none" =>
                box[<<m, c.server>>] = "none" \/ (c.op = "delete" /\ m = c.node)
           /\ \A t \in Servers \ {c.server} :
                job'[t] = job[t] /\ \A m \in Nodes : box'[<<m, t>>] = box[<<m, t>>]
<1>0. PICK s \in Servers : s = c.server
    BY TypeParts DEF CommandType
<1>1. PICK n \in Nodes : n = c.node
    BY TypeParts DEF CommandType
<1>2. /\ At(c) = <<n, s>> /\ job \in [Servers -> JobType] /\ job[s] \in JobType
      /\ box \in [Nodes \X Servers -> {"none", "stopped", "running"}]
      /\ disk \in [Nodes \X Servers -> Worlds]
    BY <1>0, <1>1, TypeParts DEF At
<1> DEFINE Facts ==
        /\ UNCHANGED <<row, recon>>
        /\ job'[s].pc = job[s].pc /\ job'[s].to = job[s].to
        /\ job'[s].got # job[s].got => c.awaited /\ c.op \notin {"create", "delete"}
        /\ \A t \in Servers \ {s} : job'[t] = job[t]
<1>3. ASSUME NEW r \in {"ok", "error"}, Finish(c, r), c.op \notin {"create", "delete"}
      PROVE  Facts /\ (job'[s].got # job[s].got => job'[s].got = r)
    BY <1>0, <1>3, FinishReplies DEF Finish, Replies
<1>4. ASSUME UNCHANGED <<row, job, recon>> PROVE Facts
    BY <1>4
<1> DEFINE Boxes ==
        /\ \A m \in Nodes : box'[<<m, s>>] = "none" =>
             box[<<m, s>>] = "none" \/ (c.op = "delete" /\ m = n)
        /\ \A t \in Servers \ {s} : \A m \in Nodes : box'[<<m, t>>] = box[<<m, t>>]
        /\ job'[s].got # job[s].got /\ job'[s].got = "ok" /\ c.op = "pull" =>
                box'[<<n, s>>] # "none"
<1>5. CASE MakeDir(c)
    BY <1>4, <1>5 DEF MakeDir, panelVars
<1>6. CASE MakeBox(c)
    <2>1. CASE Finish(c, "ok") /\ box' = [box EXCEPT ![At(c)] = "stopped"]
        <3>1. Facts
            BY <1>3, <1>6, <2>1 DEF MakeBox
        <3>2. Boxes
            BY <1>2, <2>1
        <3> QED
            BY <1>0, <1>1, <3>1, <3>2
    <2>2. CASE Finish(c, "error") /\ UNCHANGED box
        <3>1. Facts /\ (job'[s].got # job[s].got => job'[s].got = "error")
            BY <1>3, <1>6, <2>2 DEF MakeBox
        <3> QED
            BY <1>0, <1>1, <2>2, <3>1
    <2> QED
        BY <1>6, <2>1, <2>2 DEF MakeBox
<1>7. CASE RemoveBox(c)
    <2>1. Facts /\ c.op = "delete"
        BY <1>4, <1>7 DEF RemoveBox, panelVars
    <2>2. Boxes
        BY <1>2, <1>7, <2>1 DEF RemoveBox
    <2> QED
        BY <1>0, <1>1, <2>1, <2>2
<1>8. CASE WipeDir(c)
    <2>1. Facts /\ UNCHANGED box /\ c.op = "wipe"
        BY <1>3, <1>8 DEF WipeDir
    <2> QED
        BY <1>0, <1>1, <2>1
<1>9. CASE StartBox(c)
    <2>0. c.op = "start"
        BY <1>9 DEF StartBox
    <2>1. Facts
        BY <1>3, <1>9 DEF StartBox
    <2>2. Boxes
        BY <1>2, <1>9, <2>0 DEF StartBox
    <2> QED
        BY <1>0, <1>1, <2>0, <2>1, <2>2
<1>10. CASE StopBox(c)
    <2>0. c.op = "stop"
        BY <1>10 DEF StopBox
    <2>1. Facts
        BY <1>3, <1>10 DEF StopBox
    <2>2. Boxes
        BY <1>2, <1>10, <2>0 DEF StopBox
    <2> QED
        BY <1>0, <1>1, <2>0, <2>1, <2>2
<1>11. CASE Archive(c)
    <2>1. c.op = "archive" /\ UNCHANGED box
        BY <1>11 DEF Archive, nodeVars
    <2>2. CASE Finish(c, "error")
        BY <1>0, <1>1, <1>3, <2>1, <2>2
    <2>3. CASE Replies(c, [job[c.server] EXCEPT !.got = "ok",
                             !.archive = [node |-> c.node, world |-> disk[At(c)]]])
        <3>1. PICK x : x = [node |-> c.node, world |-> disk[At(c)]]
            OBVIOUS
        <3>2. x \in Archives
            BY <1>1, <1>2, <3>1 DEF Archives, SomeNode
        <3>3. PICK j : j = [job[s] EXCEPT !.got = "ok", !.archive = x]
            OBVIOUS
        <3>4. j \in JobType /\ j.pc = job[s].pc /\ j.from = job[s].from /\ j.to = job[s].to
            BY <1>2, <3>2, <3>3 DEF JobType
        <3>5. Replies(c, j)
            BY <1>0, <2>3, <3>1, <3>3
        <3>6. Facts
            BY <1>0, <2>1, <3>4, <3>5, ReplyFacts DEF Replies
        <3> QED
            BY <1>0, <1>1, <2>1, <3>6
    <2> QED
        BY <1>11, <2>2, <2>3 DEF Archive
<1>12. CASE Restore(c)
    <2>1. UNCHANGED box /\ c.op = "restore"
        BY <1>12 DEF Restore
    <2>2. Facts
        BY <1>3, <1>12 DEF Restore
    <2> QED
        BY <1>0, <1>1, <2>1, <2>2
<1> QED
    BY <1>5, <1>6, <1>7, <1>8, <1>9, <1>10, <1>11, <1>12 DEF Execute

LEMMA AgentBox ==
    ASSUME TypeOK, RunInv, NEW c \in cmds, Execute(c), WorldInv(c.server), BoxInv(c.server)
    PROVE  BoxInv(c.server)'
<1>0. PICK s \in Servers : s = c.server
    BY TypeParts DEF CommandType
<1>1. /\ UNCHANGED <<row, recon>> /\ job'[s].pc = job[s].pc /\ job'[s].to = job[s].to
      /\ job'[s].got # job[s].got => c.awaited /\ c.op \notin {"create", "delete"}
      /\ job'[s].got # job[s].got /\ job'[s].got = "ok" /\ c.op = "pull" =>
                box'[<<c.node, s>>] # "none"
      /\ \A m \in Nodes : box'[<<m, s>>] = "none" =>
                box[<<m, s>>] = "none" \/ (c.op = "delete" /\ m = c.node)
    BY <1>0, ExecuteFacts
<1>2. /\ row[s].state \in {"building", "up"} => Home(s) \in Nodes
      /\ job[s].pc \in Moving => row[s].state = "up" /\ job[s].to \in Nodes
      /\ job[s].pc = "building" => row[s].state = "building"
    BY <1>0 DEF WorldInv, Placed, RunInv, Held
<1>3. Known(s)'
    BY <1>0, <1>1 DEF BoxInv, Known, Builds, PlacedOn, Home
\* No container of a server that is up, or being built, is removed by a command.
<1>4. ASSUME NEW m \in Nodes, box[<<m, s>>] # "none",
             \/ row[s].state = "building"
             \/ row[s].state = "up" /\ (m = Home(s) \/ job[s].pc \in Moving)
      PROVE  box'[<<m, s>>] # "none"
    BY <1>0, <1>1, <1>4 DEF WorldInv, Harmless, Built, Moving
<1>5. row[s].state = "up" => box'[<<Home(s), s>>] # "none"
    BY <1>0, <1>2, <1>4 DEF BoxInv, Boxed
<1>6. job[s].pc = "building" /\ job'[s].got = "ok" => box'[<<Home(s), s>>] # "none"
    <2> SUFFICES ASSUME job[s].pc = "building", job'[s].got = "ok"
                 PROVE  box'[<<Home(s), s>>] # "none"
        OBVIOUS
    <2>1. CASE job[s].got = "ok"
        BY <1>0, <1>2, <1>4, <2>1 DEF BoxInv, Boxed
    <2>2. CASE job[s].got # "ok"
        BY <1>0, <1>1, <1>2, <2>2 DEF WorldInv, Built
    <2> QED
        BY <2>1, <2>2
<1>7. (job[s].pc = "creating" /\ job'[s].got = "ok") \/ job[s].pc = "restoring" =>
        box'[<<job[s].to, s>>] # "none"
    <2>1. CASE job[s].pc = "restoring" \/ (job[s].pc = "creating" /\ job[s].got = "ok")
        BY <1>0, <1>2, <1>4, <2>1 DEF BoxInv, Boxed, Moving
    <2>2. CASE job[s].pc = "creating" /\ job[s].got # "ok"
        <3>1. c.awaited => c.op \in {"create", "pull"} /\ c.node = job[s].to
            BY <1>0, <2>2 DEF WorldInv, Awaits
        <3> QED
            BY <1>1, <2>2, <3>1
    <2> QED
        BY <2>1, <2>2
<1>8. Boxed(s)'
    BY <1>1, <1>5, <1>6, <1>7 DEF Boxed, Home
<1> QED
    BY <1>0, <1>3, <1>8 DEF BoxInv

LEMMA NodeBox ==
    ASSUME TypeOK, RunInv, "stale" \notin Admits, NEW n \in Nodes, NEW s \in Servers,
           WorldInv(s), BoxInv(s),
           Disconnect(n) \/ AgentCrash(n) \/ Connect(n) \/ ReconStep(n)
    PROVE  BoxInv(s)'
<1>0. /\ recon \in [Nodes -> ReconType] /\ recon[n] \in ReconType
      /\ box \in [Nodes \X Servers -> {"none", "stopped", "running"}]
    BY TypeParts
<1>1. UNCHANGED <<row, job>>
    BY DEF Disconnect, AgentCrash, Connect, ReconStep, ReadList, ListContainers, Remove,
           Reconciled, panelVars
<1>2. \A m \in Nodes \ {n} : recon'[m] = recon[m]
    BY <1>0 DEF Disconnect, AgentCrash, Connect, ReconStep, ReadList, ListContainers, Remove,
                Reconciled
<1>3. /\ Builds(s, n) => recon[n].pc = "none"
      /\ s \in PlacedOn(n) /\ recon[n].pc = "listed" => s \in recon[n].list
      /\ s \in PlacedOn(n) /\ recon[n].pc = "removing" => s \notin recon[n].list
    BY DEF BoxInv, Known
<1>4. /\ Builds(s, n) => recon'[n].pc = "none"
      /\ s \in PlacedOn(n) /\ recon'[n].pc = "listed" => s \in recon'[n].list
      /\ s \in PlacedOn(n) /\ recon'[n].pc = "removing" => s \notin recon'[n].list
    <2>1. CASE Disconnect(n)
        <3>1. recon'[n] = recon[n] \/ recon'[n].pc = "none"
            BY <1>0, <2>1 DEF Disconnect, NoRecon
        <3> QED
            BY <1>3, <3>1
    <2>2. CASE AgentCrash(n) \/ Reconciled(n)
        <3>1. recon'[n].pc = "none"
            BY <1>0, <2>2 DEF AgentCrash, Reconciled, NoRecon
        <3> QED
            BY <3>1
    <2>3. CASE Connect(n)
        <3>1. recon'[n].pc = "greeting" /\ ~Builds(s, n)
            BY <1>0, <2>3 DEF Connect, ReconType
        <3> QED
            BY <3>1
    <2>4. CASE ReadList(n)
        <3>1. recon'[n].pc = "listed" /\ recon'[n].list = PlacedOn(n) /\ recon[n].pc = "greeting"
            BY <1>0, <2>4 DEF ReadList
        <3> QED
            BY <1>3, <3>1
    <2>5. CASE ListContainers(n)
        <3>1. /\ recon'[n].pc = "removing" /\ recon'[n].list = Doomed(n)
              /\ recon[n].pc = "listed"
            BY <1>0, <2>5 DEF ListContainers
        <3>2. s \in recon[n].list => s \notin Doomed(n)
            BY DEF Doomed
        <3> QED
            BY <1>3, <3>1, <3>2
    <2>6. CASE \E t \in Servers : Remove(n, t)
        <3>1. /\ recon'[n].pc = "removing" /\ recon'[n].list \subseteq recon[n].list
              /\ recon[n].pc = "removing"
            BY <1>0, <2>6 DEF Remove, ReconType
        <3> QED
            BY <1>3, <3>1
    <2> QED
        BY <2>1, <2>2, <2>3, <2>4, <2>5, <2>6 DEF ReconStep
<1>5. Known(s)'
    <2> SUFFICES ASSUME NEW m \in Nodes
                 PROVE  /\ Builds(s, m) => recon'[m].pc = "none"
                        /\ s \in PlacedOn(m) /\ recon'[m].pc = "listed" => s \in recon'[m].list
                        /\ s \in PlacedOn(m) /\ recon'[m].pc = "removing" => s \notin recon'[m].list
        BY <1>1 DEF Known, Builds, PlacedOn, Home
    <2>1. CASE m = n
        BY <1>4, <2>1
    <2>2. CASE m # n
        BY <1>2, <2>2 DEF BoxInv, Known
    <2> QED
        BY <2>1, <2>2
<1>6. \A m \in Nodes : box'[<<m, s>>] # box[<<m, s>>] =>
          m = n /\ s \notin PlacedOn(n) /\ ~Builds(s, n)
    <2>1. CASE UNCHANGED box
        BY <2>1
    <2>2. CASE \E t \in Servers : Remove(n, t)
        <3>1. PICK t \in Servers : Remove(n, t)
            BY <2>2
        <3>2. /\ recon[n].pc = "removing" /\ t \in recon[n].list
              /\ box' = [box EXCEPT ![<<n, t>>] = "none"]
            BY <3>1 DEF Remove
        <3>3. \A m \in Nodes : box'[<<m, s>>] # box[<<m, s>>] => m = n /\ s = t
            BY <1>0, <3>2
        <3> QED
            BY <1>3, <3>2, <3>3
    <2> QED
        BY <2>1, <2>2 DEF Disconnect, AgentCrash, Connect, ReconStep, ReadList, ListContainers,
                          Reconciled, nodeVars
<1>7. Boxed(s)'
    <2>1. /\ row[s].state \in {"building", "up"} => Home(s) \in Nodes /\ s \in PlacedOn(Home(s))
          /\ job[s].pc \in Moving => job[s].to \in Nodes /\ Builds(s, job[s].to)
          /\ job[s].pc = "building" => row[s].state = "building"
        BY DEF WorldInv, Placed, RunInv, Held, PlacedOn, Builds, Moving
    <2>2. row[s].state \in {"building", "up"} => box'[<<Home(s), s>>] = box[<<Home(s), s>>]
        BY <1>6, <2>1
    <2>3. job[s].pc \in Moving => box'[<<job[s].to, s>>] = box[<<job[s].to, s>>]
        BY <1>6, <2>1
    <2> QED
        BY <1>1, <2>1, <2>2, <2>3 DEF BoxInv, Boxed, Home, Moving
<1> QED
    BY <1>5, <1>7 DEF BoxInv

LEMMA BoxNext ==
    ASSUME Settles, "stale" \notin Admits
    PROVE  TypeOK /\ RunInv /\ (\A s \in Servers : WorldInv(s) /\ BoxInv(s)) /\ [Next]_vars
             => \A s \in Servers : BoxInv(s)'
<1> SUFFICES ASSUME TypeOK, RunInv, \A s \in Servers : WorldInv(s) /\ BoxInv(s), [Next]_vars,
                    NEW t \in Servers
             PROVE  BoxInv(t)'
    OBVIOUS
<1>0. row \in [Servers -> RowType] /\ job \in [Servers -> JobType]
    BY TypeParts
<1>1. ASSUME NEW s \in Servers,
             \/ \E n \in Nodes : Buy(s, n) \/ Migrate(s, n)
             \/ Delete(s) \/ PanelStep(s) \/ PanelCrash(s)
      PROVE  BoxInv(t)'
    <2>1. CASE t = s
        BY <1>1, <2>1, PanelBox
    <2>2. CASE t # s
        <3>1. row'[t] = row[t] /\ UNCHANGED <<box, recon>>
            BY <1>0, <1>1, <2>2
            DEF Buy, Migrate, Delete, PanelStep, MoveOn, Switch, Unwind, MoveEnds, BuildSucceeds,
                RowDeleted, PanelCrash, nodeVars
        <3>2. job'[t] = job[t]
            BY <1>0, <1>1, <2>2
            DEF Buy, Migrate, Delete, PanelStep, MoveOn, Switch, Unwind, MoveEnds, BuildSucceeds,
                RowDeleted, PanelCrash, Calls, Ends
        <3> QED
            BY <3>1, <3>2, BoxRests
    <2> QED
        BY <2>1, <2>2
<1>2. ASSUME NEW s \in Servers, Power(s) \/ \E n \in Nodes : Play(n, s)
      PROVE  BoxInv(t)'
    <2>1. UNCHANGED <<row, job, box, recon>>
        BY <1>2 DEF Power, Play, panelVars, nodeVars
    <2> QED
        BY <2>1, BoxRests
<1>3. ASSUME NEW c \in cmds, Execute(c) PROVE BoxInv(t)'
    <2>1. CASE t = c.server
        BY <1>3, <2>1, AgentBox
    <2>2. CASE t # c.server
        <3>1. /\ row' = row /\ recon' = recon /\ job'[t] = job[t]
              /\ \A m \in Nodes : box'[<<m, t>>] = box[<<m, t>>]
            BY <1>3, <2>2, ExecuteFacts
        <3>2. Known(t)'
            BY <3>1 DEF BoxInv, Known, Builds, PlacedOn, Home
        <3>3. /\ row[t].state \in {"building", "up"} => Home(t) \in Nodes
              /\ job[t].pc \in Moving => job[t].to \in Nodes
              /\ job[t].pc = "building" => row[t].state = "building"
            BY DEF WorldInv, Placed, RunInv, Held
        <3>4. Boxed(t)'
            BY <3>1, <3>3 DEF BoxInv, Boxed, Home, Moving
        <3> QED
            BY <3>2, <3>4 DEF BoxInv
    <2> QED
        BY <2>1, <2>2
<1>4. ASSUME NEW n \in Nodes, Disconnect(n) \/ AgentCrash(n) \/ Connect(n) \/ ReconStep(n)
      PROVE  BoxInv(t)'
    BY <1>4, NodeBox
<1>5. CASE UNCHANGED vars
    <2>1. UNCHANGED <<row, job, box, recon>>
        BY <1>5 DEF vars
    <2> QED
        BY <2>1, BoxRests
<1> QED
    BY <1>1, <1>2, <1>3, <1>4, <1>5 DEF Next

\* The container of a server that is up is on its node: no clean-up of a lost build,
\* tear-down of a source or a target and no reconciliation removes it, as long as no
\* node reconnects while something is built on it.
THEOREM ContainerKept ==
    ASSUME Admits \subseteq {"agent"},
           {"restoring", "cleaning", "unwinding"} \cap (Slow \cup Dies) = {}
    PROVE  Spec => []HasContainer
<1> DEFINE All == \A s \in Servers : WorldInv(s) /\ BoxInv(s)
<1>1. Settles /\ "power" \notin Admits /\ "stale" \notin Admits
    BY DEF Settles
<1>2. TypeOK /\ RunInv /\ [Next]_vars => RunInv'
    BY <1>1, RunNext
<1>3. TypeOK /\ RunInv /\ All /\ [Next]_vars => All'
    BY <1>1, WorldNext, BoxNext
<1>4. Init => All
    BY WorldInit, BoxInit
<1>5. All => HasContainer
    BY DEF BoxInv, Boxed, HasContainer
<1> HIDE DEF All
<1> QED
    BY <1>2, <1>3, <1>4, <1>5, TypeInit, TypeNext, RunInit, PTL DEF Spec
=============================================================================
