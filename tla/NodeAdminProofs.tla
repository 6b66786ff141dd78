-------------------------- MODULE NodeAdminProofs --------------------------
(***************************************************************************)
(* Proofs about NodeAdmin: for any number of nodes and servers, no node    *)
(* goes that a server lives on or is on its way to, and a drain that       *)
(* failed for nobody leaves an empty node.                                 *)
(***************************************************************************)
EXTENDS NodeAdmin, TLAPS

DrainType == [step : {"idle", "disabled", "listed", "moving"}, node : Nodes \cup {None},
              todo : SUBSET Servers, failed : SUBSET Servers]

Typed ==
    /\ node \in [Nodes -> {"not made", "enabled", "disabled", "deleted"}]
    /\ home \in [Servers -> Nodes \cup {None}]
    /\ move \in [Servers -> Nodes \cup {None, "still"}]
    /\ drain \in DrainType
    /\ drain.step # "idle" => drain.node \in Nodes

\* The target of a migration is named by its job.
MoveHasJob ==
    \A s \in Servers : move[s] \in Nodes => \E j \in jobs : j.server = s /\ j.to = move[s]

\* While a node is drained nothing comes to it, and who is still there is to
\* be moved or has failed to.
DrainHolds ==
    drain.step # "idle" =>
        /\ node[drain.node] \in {"disabled", "deleted"} /\ ~Inbound(drain.node)
        /\ drain.step # "disabled" => At(drain.node) \subseteq drain.todo \cup drain.failed

AdminInv == Typed /\ MoveHasJob /\ NothingDangles /\ DrainHolds

-----------------------------------------------------------------------------
LEMMA InitInv == ASSUME NodeAdminAssumption PROVE Init => AdminInv
<1> SUFFICES ASSUME Init PROVE AdminInv
    OBVIOUS
<1> USE DEF Init, NodeAdminAssumption
<1>1. Typed
    <2>1. drain \in DrainType
        BY DEF NoDrain, DrainType
    <2> QED
        BY <2>1 DEF Typed, NoDrain
<1>2. MoveHasJob /\ NothingDangles
    BY NodeAdminAssumption DEF MoveHasJob, NothingDangles, None
<1>3. DrainHolds
    BY DEF DrainHolds, NoDrain
<1> QED
    BY <1>1, <1>2, <1>3 DEF AdminInv

\* What becomes of the fields of a drain.
LEMMA DrainFields ==
    ASSUME NEW d \in DrainType, NEW st \in {"idle", "disabled", "listed", "moving"},
           NEW T \in SUBSET Servers, NEW F \in SUBSET Servers
    PROVE  /\ [d EXCEPT !.step = st] \in DrainType
           /\ [d EXCEPT !.step = st, !.todo = T] \in DrainType
           /\ [d EXCEPT !.todo = T, !.failed = F] \in DrainType
           /\ [d EXCEPT !.step = st, !.todo = T, !.failed = F] \in DrainType
    BY DEF DrainType

LEMMA DrainParts ==
    ASSUME NEW d \in DrainType
    PROVE  /\ d.step \in {"idle", "disabled", "listed", "moving"} /\ d.node \in Nodes \cup {None}
           /\ d.todo \in SUBSET Servers /\ d.failed \in SUBSET Servers
    BY DEF DrainType

\* A migration that ends moves a drain on, or leaves it as it is.
LEMMA DrainedType ==
    ASSUME drain \in DrainType, NEW s \in Servers, NEW b \in BOOLEAN
    PROVE  /\ Drained(s, b) \in DrainType /\ Drained(s, b).node = drain.node
           /\ Drained(s, b).step = "idle" <=> drain.step = "idle"
<1> DEFINE F == IF b THEN drain.failed ELSE drain.failed \cup {s}
           T == drain.todo \ {s}
<1>1. T \in SUBSET Servers /\ F \in SUBSET Servers
    BY DrainParts
<1>2. CASE drain.step = "moving" /\ s \in drain.todo
    <2>1. Drained(s, b) = [drain EXCEPT !.step = "listed", !.todo = T, !.failed = F]
        BY <1>2 DEF Drained
    <2>2. [drain EXCEPT !.step = "listed", !.todo = T, !.failed = F] \in DrainType
        BY <1>1, DrainFields
    <2>3. /\ [drain EXCEPT !.step = "listed", !.todo = T, !.failed = F].node = drain.node
          /\ [drain EXCEPT !.step = "listed", !.todo = T, !.failed = F].step = "listed"
        BY DEF DrainType
    <2> QED
        BY <2>1, <2>2, <2>3, <1>2
<1>3. CASE ~(drain.step = "moving" /\ s \in drain.todo)
    BY <1>3 DEF Drained
<1> QED
    BY <1>2, <1>3

LEMMA TypeStep == ASSUME NodeAdminAssumption PROVE Typed /\ [Next]_vars => Typed'
<1> SUFFICES ASSUME Typed, [Next]_vars PROVE Typed'
    OBVIOUS
<1>0. drain \in DrainType /\ (drain.step # "idle" => drain.node \in Nodes)
    BY DEF Typed
<1>1. ASSUME NEW s \in Servers, DeleteServer(s) \/ Migrate(s) \/ \E n \in Nodes : Buy(s, n) \/ Reserve(s, n)
      PROVE  Typed'
    BY <1>1 DEF Typed, DeleteServer, Migrate, Begin, Buy, Reserve
<1>2. ASSUME NEW s \in Servers, Switch(s) \/ RollBack(s)
      PROVE  Typed'
    <2>1. drain' \in DrainType /\ (drain'.step # "idle" => drain'.node \in Nodes)
        BY <1>2, <1>0, DrainedType DEF Switch, RollBack
    <2> QED
        BY <2>1, <1>2 DEF Typed, Switch, RollBack
<1>3. ASSUME NEW s \in Servers, MoveNext(s)
      PROVE  Typed'
    <2>1. drain.step = "listed" /\ drain.todo \ {s} \in SUBSET Servers /\ drain.failed \cup {s} \in SUBSET Servers
        BY <1>3, <1>0, DrainParts DEF MoveNext
    <2>2. drain' = [drain EXCEPT !.step = "moving"]
          \/ drain' = [drain EXCEPT !.todo = drain.todo \ {s}, !.failed = drain.failed \cup {s}]
        BY <1>3 DEF MoveNext
    <2>3. drain' \in DrainType
        <3>1. [drain EXCEPT !.step = "moving"] \in DrainType
            BY <1>0, <2>1, DrainFields
        <3>2. [drain EXCEPT !.todo = drain.todo \ {s}, !.failed = drain.failed \cup {s}] \in DrainType
            BY <1>0, <2>1, DrainFields
        <3> QED
            BY <2>2, <3>1, <3>2
    <2>4. drain'.node = drain.node
        BY <2>2, <1>0 DEF DrainType
    <2>5. node' = node /\ home' = home /\ move' \in [Servers -> Nodes \cup {None, "still"}]
        BY <1>3 DEF Typed, MoveNext, Begin, fleet
    <2> QED
        BY <2>1, <2>3, <2>4, <2>5, <1>0 DEF Typed
<1>4. ASSUME NEW n \in Nodes, Create(n) \/ Enable(n) \/ CountServers(n) \/ DeleteNode(n)
      PROVE  Typed'
    BY <1>4 DEF Typed, Create, Enable, CountServers, DeleteNode, fleet
<1>5. ASSUME NEW n \in Nodes, Drain(n)
      PROVE  Typed'
    <2>1. drain' = [step |-> "disabled", node |-> n, todo |-> {}, failed |-> {}]
        BY <1>5 DEF Drain, NoDrain
    <2>2. drain' \in DrainType /\ drain'.node \in Nodes
        BY <2>1 DEF DrainType
    <2> QED
        BY <2>2, <1>5 DEF Typed, Drain, Disables, fleet
<1>6. CASE ListServers
    <2>1. At(drain.node) \in SUBSET Servers
        BY DEF At
    <2>2. drain' \in DrainType
        <3>1. "listed" \in {"idle", "disabled", "listed", "moving"} /\ {} \in SUBSET Servers
            OBVIOUS
        <3>2. [drain EXCEPT !.step = "listed", !.todo = At(drain.node)] \in DrainType
            BY <3>1, <2>1, <1>0, DrainFields
        <3> QED
            BY <3>2, <1>6 DEF ListServers
    <2>3. drain'.node = drain.node
        BY <1>6, <1>0 DEF ListServers, DrainType
    <2> QED
        BY <2>2, <2>3, <1>0, <1>6 DEF Typed, ListServers, fleet
<1>7. CASE Answered
    <2>1. drain' \in DrainType /\ drain'.step = "idle"
        BY <1>7 DEF Answered, NoDrain, DrainType
    <2> QED
        BY <2>1, <1>7 DEF Typed, Answered, fleet
<1>8. CASE UNCHANGED vars
    BY <1>8 DEF Typed, vars
<1> QED
    BY <1>1, <1>2, <1>3, <1>4, <1>5, <1>6, <1>7, <1>8 DEF Next

-----------------------------------------------------------------------------
LEMMA JobStep == ASSUME NodeAdminAssumption PROVE AdminInv /\ [Next]_vars => MoveHasJob'
<1> SUFFICES ASSUME AdminInv, [Next]_vars PROVE MoveHasJob'
    OBVIOUS
<1> USE NodeAdminAssumption DEF NodeAdminAssumption
<1>1. ASSUME NEW s \in Servers, DeleteServer(s) PROVE MoveHasJob'
    BY <1>1 DEF AdminInv, Typed, MoveHasJob, DeleteServer, Still
<1>2. ASSUME NEW s \in Servers, Begin(s) PROVE MoveHasJob'
    BY <1>2 DEF AdminInv, Typed, MoveHasJob, Begin
<1>3. ASSUME NEW s \in Servers, NEW n \in Nodes, Reserve(s, n) PROVE MoveHasJob'
    <2>1. move' = [move EXCEPT ![s] = n] /\ move[s] = None /\ move \in [Servers -> Nodes \cup {None, "still"}]
        BY <1>3 DEF Reserve, AdminInv, Typed
    <2>2. \A j \in jobs : j.server # s => j \in jobs'
        BY <1>3 DEF Reserve
    <2>3. \E j \in jobs' : j.server = s /\ j.to = n
        <3>1. [server |-> s, from |-> home[s], to |-> n] \in jobs'
            BY <1>3 DEF Reserve
        <3> QED
            BY <3>1
    <2>4. \A t \in Servers \ {s} : move'[t] \in Nodes => \E j \in jobs' : j.server = t /\ j.to = move'[t]
        BY <2>1, <2>2 DEF AdminInv, MoveHasJob
    <2> QED
        BY <2>1, <2>3, <2>4 DEF MoveHasJob
<1>4. ASSUME NEW s \in Servers, Switch(s) \/ RollBack(s) PROVE MoveHasJob'
    <2>1. jobs' = jobs /\ move' = [move EXCEPT ![s] = "still"]
        BY <1>4 DEF Switch, RollBack
    <2>2. \A t \in Servers : move'[t] \in Nodes => move'[t] = move[t]
        BY <2>1 DEF AdminInv, Typed
    <2> QED
        BY <2>1, <2>2 DEF AdminInv, MoveHasJob
<1>5. CASE UNCHANGED <<jobs, move>>
    BY <1>5 DEF AdminInv, MoveHasJob
<1> QED
    BY <1>1, <1>2, <1>3, <1>4, <1>5 DEF Next, Migrate, MoveNext, Buy, Create, Enable, Drain, CountServers,
        DeleteNode, ListServers, Answered, vars, fleet

\* A node's row goes only when no server and no job names it.
LEMMA DangleStep == ASSUME NodeAdminAssumption PROVE AdminInv /\ [Next]_vars => NothingDangles'
<1> SUFFICES ASSUME AdminInv, [Next]_vars PROVE NothingDangles'
    OBVIOUS
<1> USE NodeAdminAssumption DEF NodeAdminAssumption
<1>0. /\ node \in [Nodes -> {"not made", "enabled", "disabled", "deleted"}]
      /\ home \in [Servers -> Nodes \cup {None}] /\ move \in [Servers -> Nodes \cup {None, "still"}]
    BY DEF AdminInv, Typed
<1>t. \A s \in Servers : \A n \in {home[s], move[s]} \cap Nodes : node[n] \in {"enabled", "disabled"}
    BY DEF AdminInv, NothingDangles
<1>1. ASSUME NEW n \in Nodes, DeleteNode(n) PROVE NothingDangles'
    <2>1. CASE At(n) = {} /\ ~Named(n)
        <3>1. \A s \in Servers : home[s] # n
            BY <2>1 DEF At
        <3>2. \A s \in Servers : move[s] # n
            BY <2>1 DEF Named, AdminInv, MoveHasJob
        <3> QED
            BY <3>1, <3>2, <1>0, <1>t, <1>1 DEF NothingDangles, DeleteNode, fleet
    <2>2. CASE ~(At(n) = {} /\ ~Named(n))
        BY <2>2, <1>t, <1>1 DEF NothingDangles, DeleteNode, fleet
    <2> QED
        BY <2>1, <2>2
<1>2. ASSUME NEW s \in Servers, NEW n \in Nodes, Buy(s, n) \/ Reserve(s, n) PROVE NothingDangles'
    <2>1. node' = node /\ node[n] = "enabled"
        BY <1>2 DEF Buy, Reserve
    <2>2. \A t \in Servers : home'[t] \in {home[t], n} /\ move'[t] \in {move[t], n}
        <3>1. CASE Buy(s, n)
            BY <3>1, <1>0 DEF Buy
        <3>2. CASE Reserve(s, n)
            BY <3>2, <1>0 DEF Reserve
        <3> QED
            BY <1>2, <3>1, <3>2
    <2> QED
        BY <2>1, <2>2, <1>t DEF NothingDangles
<1>3. ASSUME NEW s \in Servers, DeleteServer(s) \/ Begin(s) \/ Switch(s) \/ RollBack(s) PROVE NothingDangles'
    <2>1. None \notin Nodes /\ "still" \notin Nodes
        OBVIOUS
    <2>2. CASE DeleteServer(s)
        BY <2>1, <2>2, <1>0, <1>t DEF NothingDangles, DeleteServer
    <2>3. CASE Begin(s)
        BY <2>1, <2>3, <1>0, <1>t DEF NothingDangles, Begin
    <2>4. CASE Switch(s)
        BY <2>1, <2>4, <1>0, <1>t DEF NothingDangles, Switch
    <2>5. CASE RollBack(s)
        BY <2>1, <2>5, <1>0, <1>t DEF NothingDangles, RollBack
    <2> QED
        BY <1>3, <2>2, <2>3, <2>4, <2>5
<1>4. ASSUME NEW n \in Nodes, Create(n) \/ Enable(n) \/ Drain(n) PROVE NothingDangles'
    <2>1. home' = home /\ move' = move
        BY <1>4 DEF Create, Enable, Drain, fleet
    <2>2. \A m \in Nodes : node[m] \in {"enabled", "disabled"} => node'[m] \in {"enabled", "disabled"}
        BY <1>4, <1>0 DEF Create, Enable, Drain, Disables
    <2> QED
        BY <2>1, <2>2, <1>t DEF NothingDangles
<1>5. CASE UNCHANGED <<node, home, move>>
    BY <1>5 DEF AdminInv, NothingDangles
<1> QED
    BY <1>1, <1>2, <1>3, <1>4, <1>5 DEF Next, Migrate, MoveNext, CountServers, ListServers, Answered, vars, fleet

-----------------------------------------------------------------------------
\* The step of a migration that ends, in the midst of a drain.
LEMMA DrainedValue ==
    ASSUME drain \in DrainType, NEW s \in Servers, NEW b \in BOOLEAN
    PROVE  LET d == Drained(s, b) IN
           /\ drain.step = "disabled" => d = drain
           /\ d.todo \cup d.failed \cup {s} = drain.todo \cup drain.failed \cup {s}
           /\ ~b => drain.todo \cup drain.failed \subseteq d.todo \cup d.failed
    BY DrainParts DEF Drained, DrainType

LEMMA DrainStep ==
    ASSUME NodeAdminAssumption, Admits = {} PROVE AdminInv /\ [Next]_vars => DrainHolds'
<1> SUFFICES ASSUME AdminInv, [Next]_vars PROVE DrainHolds'
    OBVIOUS
<1> USE NodeAdminAssumption DEF NodeAdminAssumption
<1>0. /\ node \in [Nodes -> {"not made", "enabled", "disabled", "deleted"}]
      /\ home \in [Servers -> Nodes \cup {None}] /\ move \in [Servers -> Nodes \cup {None, "still"}]
      /\ drain \in DrainType /\ (drain.step # "idle" => drain.node \in Nodes)
      /\ drain.step \in {"idle", "disabled", "listed", "moving"}
    BY DrainParts DEF AdminInv, Typed
<1>h. drain.step # "idle" =>
        /\ node[drain.node] \in {"disabled", "deleted"} /\ \A s \in Servers : move[s] # drain.node
        /\ drain.step # "disabled" => \A s \in Servers : home[s] = drain.node => s \in drain.todo \cup drain.failed
    BY DEF AdminInv, DrainHolds, Inbound, At
<1>g. ASSUME drain'.step # "idle" =>
        /\ node'[drain'.node] \in {"disabled", "deleted"} /\ \A s \in Servers : move'[s] # drain'.node
        /\ drain'.step # "disabled" =>
             \A s \in Servers : home'[s] = drain'.node => s \in drain'.todo \cup drain'.failed
      PROVE DrainHolds'
    BY <1>g DEF DrainHolds, Inbound, At
<1>1. ASSUME NEW s \in Servers, NEW n \in Nodes, Buy(s, n) \/ Reserve(s, n) PROVE DrainHolds'
    <2>1. node' = node /\ drain' = drain /\ (drain.step # "idle" => n # drain.node)
        BY <1>h, <1>1 DEF Buy, Reserve
    <2>2. \A t \in Servers : home'[t] \in {home[t], n} /\ move'[t] \in {move[t], n}
        <3>1. CASE Buy(s, n)
            BY <3>1, <1>0 DEF Buy
        <3>2. CASE Reserve(s, n)
            BY <3>2, <1>0 DEF Reserve
        <3> QED
            BY <1>1, <3>1, <3>2
    <2> QED
        BY <2>1, <2>2, <1>h, <1>g
<1>2. ASSUME NEW s \in Servers, DeleteServer(s) \/ Migrate(s) PROVE DrainHolds'
    <2>1. node' = node /\ drain' = drain
        BY <1>2 DEF DeleteServer, Migrate, Begin
    <2>2. \A t \in Servers : home'[t] \in {home[t], None} /\ move'[t] \in {move[t], None}
        <3>1. CASE DeleteServer(s)
            BY <3>1, <1>0 DEF DeleteServer
        <3>2. CASE Migrate(s)
            BY <3>2, <1>0 DEF Migrate, Begin
        <3> QED
            BY <1>2, <3>1, <3>2
    <2>3. drain.step # "idle" => drain.node # None
        BY <1>0
    <2> QED
        BY <2>1, <2>2, <2>3, <1>h, <1>g
<1>3. ASSUME NEW s \in Servers, Switch(s) PROVE DrainHolds'
    <2>1. /\ drain'.node = drain.node /\ (drain'.step = "idle" <=> drain.step = "idle")
          /\ drain'.todo \cup drain'.failed \cup {s} = drain.todo \cup drain.failed \cup {s}
          /\ drain.step = "disabled" => drain' = drain
        BY <1>0, <1>3, DrainedType, DrainedValue DEF Switch
    <2>2. \A t \in Servers : move'[t] # drain.node \/ drain.step = "idle"
        BY <1>0, <1>h, <1>3 DEF Switch
    <2>3. drain.step # "idle" => home'[s] # drain.node
        BY <1>0, <1>h, <1>3 DEF Switch
    <2>4. \A t \in Servers \ {s} : home'[t] = home[t]
        BY <1>0, <1>3 DEF Switch
    <2> QED
        BY <2>1, <2>2, <2>3, <2>4, <1>h, <1>g, <1>3 DEF Switch
<1>4. ASSUME NEW s \in Servers, RollBack(s) PROVE DrainHolds'
    <2>1. /\ drain'.node = drain.node /\ (drain'.step = "idle" <=> drain.step = "idle")
          /\ drain.todo \cup drain.failed \subseteq drain'.todo \cup drain'.failed
          /\ drain.step = "disabled" => drain' = drain
        BY <1>0, <1>4, DrainedType, DrainedValue DEF RollBack
    <2>2. \A t \in Servers : move'[t] # drain.node \/ drain.step = "idle"
        BY <1>0, <1>h, <1>4 DEF RollBack
    <2> QED
        BY <2>1, <2>2, <1>h, <1>g, <1>4 DEF RollBack
<1>5. ASSUME NEW s \in Servers, MoveNext(s) PROVE DrainHolds'
    <2>1. drain.step = "listed" /\ drain'.node = drain.node /\ node' = node /\ home' = home
        BY <1>0, <1>5 DEF MoveNext, Begin, fleet, DrainType
    <2>2. drain.todo \cup drain.failed \subseteq drain'.todo \cup drain'.failed
        <3>1. CASE drain' = [drain EXCEPT !.step = "moving"]
            BY <3>1, <1>0 DEF DrainType
        <3>2. CASE drain' = [drain EXCEPT !.todo = @ \ {s}, !.failed = @ \cup {s}]
            <4>1. drain'.todo = drain.todo \ {s} /\ drain'.failed = drain.failed \cup {s}
                BY <3>2, <1>0 DEF DrainType
            <4> QED
                BY <4>1
        <3> QED
            BY <3>1, <3>2, <1>5 DEF MoveNext
    <2>3. \A t \in Servers : move'[t] # drain.node
        <3>1. \A t \in Servers : move'[t] \in {move[t], None}
            BY <1>0, <1>5 DEF MoveNext, Begin, fleet
        <3>2. drain.node # None
            BY <2>1, <1>0
        <3> QED
            BY <2>1, <3>1, <3>2, <1>h
    <2> QED
        BY <2>1, <2>2, <2>3, <1>h, <1>g
<1>6. ASSUME NEW n \in Nodes, Create(n) \/ Enable(n) \/ DeleteNode(n) PROVE DrainHolds'
    <2>1. home' = home /\ move' = move /\ drain' = drain
        BY <1>6 DEF Create, Enable, DeleteNode, fleet
    <2>2. ASSUME drain.step # "idle" PROVE node'[drain.node] \in {"disabled", "deleted"}
        <3>1. CASE Create(n)
            BY <3>1, <2>2, <1>0, <1>h DEF Create
        <3>2. CASE Enable(n)
            <4>1. drain.node # n
                BY <3>2 DEF Enable
            <4>2. node'[drain.node] = node[drain.node]
                BY <3>2, <4>1, <2>2, <1>0 DEF Enable
            <4> QED
                BY <4>2, <2>2, <1>h
        <3>3. CASE DeleteNode(n)
            BY <3>3, <2>2, <1>0, <1>h DEF DeleteNode
        <3> QED
            BY <1>6, <3>1, <3>2, <3>3
    <2> QED
        BY <2>1, <2>2, <1>h, <1>g
<1>7. ASSUME NEW n \in Nodes, Drain(n) PROVE DrainHolds'
    <2>1. drain'.step = "disabled" /\ drain'.node = n
        BY <1>7 DEF Drain, NoDrain
    <2>2. node'[n] = "disabled" /\ \A s \in Servers : move'[s] # n
        BY <1>0, <1>7 DEF Drain, Disables, Inbound, fleet
    <2> QED
        BY <2>1, <2>2, <1>g
<1>8. CASE ListServers
    <2>1. drain'.node = drain.node /\ drain'.todo = At(drain.node) /\ drain.step = "disabled"
        BY <1>0, <1>8 DEF ListServers, DrainType
    <2> QED
        BY <2>1, <1>h, <1>g, <1>8 DEF ListServers, At, fleet
<1>9. CASE Answered
    BY <1>9, <1>g DEF Answered, NoDrain
<1>10. CASE UNCHANGED <<node, home, move, drain>>
    BY <1>10, <1>h, <1>g
<1> QED
    BY <1>1, <1>2, <1>3, <1>4, <1>5, <1>6, <1>7, <1>8, <1>9, <1>10 DEF Next, CountServers, vars, fleet

-----------------------------------------------------------------------------
\* Who is moved lives somewhere, so that a job names two nodes.
Kinds ==
    /\ made \subseteq Servers /\ erase \in Nodes \cup {None}
    /\ \A s \in Servers : move[s] # "still" => home[s] \in Nodes
    /\ \A j \in jobs : j.server \in Servers /\ {j.from, j.to} \subseteq Nodes

LEMMA KindsStep == ASSUME NodeAdminAssumption PROVE Typed /\ Kinds /\ [Next]_vars => Kinds'
<1> SUFFICES ASSUME Typed, Kinds, [Next]_vars PROVE Kinds'
    OBVIOUS
<1> USE NodeAdminAssumption DEF NodeAdminAssumption
<1>0. /\ home \in [Servers -> Nodes \cup {None}] /\ move \in [Servers -> Nodes \cup {None, "still"}]
      /\ made \subseteq Servers /\ erase \in Nodes \cup {None}
    BY DEF Typed, Kinds
<1>k. /\ \A s \in Servers : move[s] # "still" => home[s] \in Nodes
      /\ \A j \in jobs : j.server \in Servers /\ {j.from, j.to} \subseteq Nodes
    BY DEF Kinds
<1>1. ASSUME NEW s \in Servers, NEW n \in Nodes, Buy(s, n) PROVE Kinds'
    BY <1>0, <1>k, <1>1 DEF Kinds, Buy
<1>2. ASSUME NEW s \in Servers, DeleteServer(s) PROVE Kinds'
    BY <1>0, <1>k, <1>2 DEF Kinds, DeleteServer, Still
<1>3. ASSUME NEW s \in Servers, Begin(s), home[s] \in Nodes, made' = made, erase' = erase PROVE Kinds'
    <2>1. home' = home /\ move' = [move EXCEPT ![s] = None]
          /\ jobs' = jobs \cup {[server |-> s, from |-> home[s], to |-> home[s]]}
        BY <1>3 DEF Begin
    <2> QED
        BY <1>0, <1>k, <1>3, <2>1 DEF Kinds
<1>4. ASSUME NEW s \in Servers, NEW n \in Nodes, Reserve(s, n) PROVE Kinds'
    <2>1. /\ home' = home /\ move' = [move EXCEPT ![s] = n] /\ move[s] = None
          /\ jobs' \subseteq jobs \cup {[server |-> s, from |-> home[s], to |-> n]}
          /\ made' = made /\ erase' = erase
        BY <1>4 DEF Reserve
    <2>2. home[s] \in Nodes
        BY <1>k, <2>1 DEF None
    <2>3. \A j \in jobs' : j.server \in Servers /\ {j.from, j.to} \subseteq Nodes
        <3>1. TAKE j \in jobs'
        <3>2. CASE j \in jobs
            BY <1>k, <3>2
        <3>3. CASE j = [server |-> s, from |-> home[s], to |-> n]
            BY <2>2, <3>3
        <3> QED
            BY <2>1, <3>2, <3>3
    <2>4. \A t \in Servers : move'[t] # "still" => home'[t] \in Nodes
        BY <1>0, <1>k, <2>1, <2>2
    <2> QED
        BY <1>0, <2>1, <2>3, <2>4 DEF Kinds
<1>5. ASSUME NEW s \in Servers, Switch(s) \/ RollBack(s) PROVE Kinds'
    <2>1. /\ move' = [move EXCEPT ![s] = "still"] /\ UNCHANGED <<made, jobs, erase>>
          /\ \A t \in Servers \ {s} : home'[t] = home[t]
        BY <1>0, <1>5 DEF Switch, RollBack
    <2> QED
        BY <1>0, <1>k, <2>1 DEF Kinds
<1>6. ASSUME NEW n \in Nodes, CountServers(n) \/ DeleteNode(n) PROVE Kinds'
    BY <1>0, <1>k, <1>6 DEF Kinds, CountServers, DeleteNode, fleet
<1>7. CASE UNCHANGED <<fleet, erase>>
    BY <1>0, <1>k, <1>7 DEF Kinds, fleet
<1>8. ASSUME NEW s \in Servers, Migrate(s) PROVE Kinds'
    BY <1>0, <1>3, <1>8 DEF Migrate, Begin
<1>9. ASSUME NEW s \in Servers, MoveNext(s) PROVE Kinds'
    <2>1. CASE Begin(s) /\ home[s] = drain.node
        <3>1. home[s] \in Nodes
            BY <1>9, <2>1 DEF MoveNext, Typed
        <3> QED
            BY <1>3, <2>1, <3>1 DEF Begin
    <2> QED
        BY <1>7, <1>9, <2>1 DEF MoveNext
<1> QED
    BY <1>1, <1>2, <1>4, <1>5, <1>6, <1>7, <1>8, <1>9
    DEF Next, Create, Enable, Drain, ListServers, Answered, vars, fleet

LEMMA KindsStart == ASSUME NodeAdminAssumption PROVE Init => Kinds
BY DEF Init, Kinds, None

LEMMA TypeHolds == Typed /\ Kinds => TypeOK
<1> SUFFICES ASSUME Typed, Kinds PROVE TypeOK
    OBVIOUS
<1>1. /\ drain.step \in {"idle", "disabled", "listed", "moving"} /\ drain.node \in Nodes \cup {None}
      /\ drain.todo \cup drain.failed \subseteq Servers
    BY DrainParts DEF Typed
<1> QED
    BY <1>1 DEF TypeOK, Typed, Kinds

\* The invariant whole, as an instance of this module cites it.
NodesInv == AdminInv /\ Kinds

LEMMA NodesStarts == ASSUME NodeAdminAssumption, Init PROVE NodesInv
BY InitInv, KindsStart DEF NodesInv

LEMMA NodesStep ==
    ASSUME NodeAdminAssumption, Admits = {}, NodesInv, [Next]_vars
    PROVE  NodesInv'
BY TypeStep, JobStep, DangleStep, DrainStep, KindsStep DEF NodesInv, AdminInv

LEMMA NodesHold == NodesInv => TypeOK /\ NodesAccounted
<1>1. AdminInv => NodesAccounted
    BY DrainParts DEF AdminInv, Typed, NodesAccounted, DrainHolds, DrainedIsEmpty
<1> QED
    BY <1>1, TypeHolds DEF NodesInv, AdminInv

-----------------------------------------------------------------------------
\* Whatever is admitted, nodes, servers, jobs and drains are of their kinds.
THEOREM TypeCorrect == ASSUME NodeAdminAssumption PROVE Spec => []TypeOK
<1>1. Init => Typed /\ Kinds
    BY InitInv, KindsStart DEF AdminInv
<1>2. Typed /\ Kinds /\ [Next]_vars => Typed' /\ Kinds'
    BY TypeStep, KindsStep
<1>3. Typed /\ Kinds => TypeOK
    BY TypeHolds
<1> QED
    BY <1>1, <1>2, <1>3, PTL DEF Spec

\* Unless a node is drained or enabled behind a drain's back: where servers live
\* and go to there are nodes, and a drain that answers that every server was
\* moved leaves none (admin/nodes/[nodeId]/route.ts:55-73, lib/migration.ts:178-200).
THEOREM NodesCorrect ==
    ASSUME NodeAdminAssumption, Admits = {} PROVE Spec => []NodesAccounted
<1>1. Init => NodesInv
    BY NodesStarts
<1>2. NodesInv /\ [Next]_vars => NodesInv'
    BY NodesStep
<1>3. NodesInv => NodesAccounted
    BY NodesHold
<1> QED
    BY <1>1, <1>2, <1>3, PTL DEF Spec
=============================================================================
