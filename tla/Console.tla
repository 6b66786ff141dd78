------------------------------ MODULE Console ------------------------------
(***************************************************************************)
(* The live console of one server.  A tab gets a ticket from the panel     *)
(* (console-ticket/route.ts) and opens a socket to the gateway with it     *)
(* (components/console.tsx); the gateway keeps a set of viewers by server  *)
(* and tells the agent to attach for the first and to detach after the     *)
(* last (gateway/src/index.ts); the agent follows the container's log      *)
(* (agent/src/index.ts, providers/docker.ts).  Every socket holds on to    *)
(* the set it was added to: sets are numbered, and the map names one.      *)
(* Commands reach the agent in order; an attach takes its time there.      *)
(***************************************************************************)
EXTENDS Integers, Sequences

CONSTANTS
    Tabs,
    MaxSets,    \* a bound on the sets of viewers made
    MaxOnWay,   \* a bound on the commands on their way
    MaxFaults,  \* a bound on restarts of the agent and of the container
    Admits      \* the interactions of the code this instance explores

(***************************************************************************)
(* The interactions the code permits and that an instance may switch on:   *)
(*   leaves   a viewer leaves while the first one is still being added     *)
(*   orphan   the container stops when a late attach has left a log that   *)
(*            is followed for nobody                                       *)
(***************************************************************************)
ConsoleAssumption ==
    {MaxSets, MaxOnWay, MaxFaults} \subseteq Nat /\ Admits \subseteq {"leaves", "orphan"}

VARIABLES
    tickets,   \* tabs with a valid ticket in Redis
    sock,      \* what the gateway knows of each tab's socket
    setOf,     \* the set it was added to, 0 for none
    current,   \* the set consoleViewers holds for the server, 0 for none
    made,      \* sets made so far
    toAgent,   \* commands on their way
    slow,      \* attaches the agent has begun
    attached,  \* consoleAttachments has the server
    streams,   \* logs being followed
    faults,    \* restarts so far
    faultAt    \* the number of the last set made before one

vars == <<tickets, sock, setOf, current, made, toAgent, slow, attached, streams, faults, faultAt>>
gateway == <<tickets, sock, setOf, current, made>>
agent == <<slow, attached, streams, faults, faultAt>>

Init ==
    /\ tickets = {} /\ sock = [v \in Tabs |-> "away"] /\ setOf = [v \in Tabs |-> 0]
    /\ current = 0 /\ made = 0 /\ toAgent = <<>>
    /\ slow = 0 /\ attached = FALSE /\ streams = 0 /\ faults = 0 /\ faultAt = 0

-----------------------------------------------------------------------------
(* The panel and the browser.                                               *)

Mint(v) ==
    /\ sock[v] = "away" /\ v \notin tickets
    /\ tickets' = tickets \cup {v}
    /\ UNCHANGED <<sock, setOf, current, made, toAgent, agent>>

\* Thirty seconds have passed.
Expire(v) ==
    /\ v \in tickets
    /\ tickets' = tickets \ {v}
    /\ UNCHANGED <<sock, setOf, current, made, toAgent, agent>>

-----------------------------------------------------------------------------
(* The gateway.                                                             *)

Publish(op) == Len(toAgent) < MaxOnWay /\ toAgent' = Append(toAgent, op)

\* The ticket is read and deleted; the first viewer makes the set and waits for
\* the publication before it is added, the others are added at once.
Connects(v) ==
    /\ sock[v] = "away" /\ v \in tickets
    /\ tickets' = tickets \ {v}
    /\ \/ /\ current = 0 /\ made < MaxSets
          /\ made' = made + 1 /\ current' = made' /\ setOf' = [setOf EXCEPT ![v] = made']
          /\ sock' = [sock EXCEPT ![v] = "attaching"]
          /\ Publish("attach")
       \/ /\ current # 0
          /\ setOf' = [setOf EXCEPT ![v] = current]
          /\ sock' = [sock EXCEPT ![v] = "added"]
          /\ UNCHANGED <<current, made, toAgent>>
    /\ UNCHANGED agent

Added(v) ==
    /\ sock[v] \in {"attaching", "closing"}
    /\ sock' = [sock EXCEPT ![v] = IF @ = "closing" THEN "dead" ELSE "added"]
    /\ UNCHANGED <<tickets, setOf, current, made, toAgent, agent>>

\* Only after the history has been read are the handlers set.
Listens(v) ==
    /\ sock[v] = "added"
    /\ sock' = [sock EXCEPT ![v] = "listening"]
    /\ UNCHANGED <<tickets, setOf, current, made, toAgent, agent>>

Members(g) == {v \in Tabs : setOf[v] = g /\ sock[v] \in {"added", "listening", "dead"}}

\* Mutant of LastOf: whoever leaves takes the console along.
LastOfAny(v) == v \in Members(setOf[v])

LastOf(v) == Members(setOf[v]) = {v}

\* The set goes by the server's id, whichever set the map holds by then.
Closes(v) ==
    /\ sock[v] = "listening"
    /\ "leaves" \in Admits \/ \A w \in Tabs : sock[w] \notin {"attaching", "closing"}
    /\ sock' = [sock EXCEPT ![v] = "away"]
    /\ setOf' = [setOf EXCEPT ![v] = 0]
    /\ IF LastOf(v) THEN current' = 0 /\ Publish("detach")
                    ELSE UNCHANGED <<current, toAgent>>
    /\ UNCHANGED <<tickets, made, agent>>

\* Nobody hears the socket close: it stays in its set for good.
ClosesEarly(v) ==
    /\ sock[v] \in {"attaching", "added"}
    /\ sock' = [sock EXCEPT ![v] = IF @ = "attaching" THEN "closing" ELSE "dead"]
    /\ UNCHANGED <<tickets, setOf, current, made, toAgent, agent>>

-----------------------------------------------------------------------------
(* The agent.                                                               *)

Receives(op) == toAgent # <<>> /\ Head(toAgent) = op /\ toAgent' = Tail(toAgent)

Attach ==
    /\ Receives("attach")
    /\ slow' = IF attached THEN slow ELSE slow + 1
    /\ UNCHANGED <<gateway, attached, streams, faults, faultAt>>

\* The log is followed; what was attached before is forgotten, and goes on.
AttachDone ==
    /\ slow > 0
    /\ slow' = slow - 1 /\ attached' = TRUE /\ streams' = streams + 1
    /\ UNCHANGED <<gateway, toAgent, faults, faultAt>>

\* Mutant of Left: the log the container ended is closed once more.
LeftTwice == IF attached THEN streams - 1 ELSE streams

Left == IF attached /\ streams > 0 THEN streams - 1 ELSE streams

Detach ==
    /\ Receives("detach")
    /\ attached' = FALSE /\ streams' = Left
    /\ UNCHANGED <<gateway, slow, faults, faultAt>>

Fault == faults < MaxFaults /\ faults' = faults + 1 /\ faultAt' = made

\* The agent restarts: what it followed and what was on the way to it is gone.
Restart ==
    /\ Fault
    /\ toAgent' = <<>> /\ slow' = 0 /\ attached' = FALSE /\ streams' = 0
    /\ UNCHANGED gateway

Orphan == (attached \/ slow > 0) /\ toAgent = <<>> /\ current = 0

\* The container stops and is started: Docker has ended the logs it streamed.
Exits ==
    /\ Fault
    /\ "orphan" \in Admits \/ ~Orphan
    /\ streams' = 0
    /\ UNCHANGED <<gateway, toAgent, slow, attached>>

-----------------------------------------------------------------------------
Next ==
    \/ \E v \in Tabs : \/ Mint(v) \/ Expire(v) \/ Connects(v) \/ Added(v) \/ Listens(v)
                       \/ Closes(v) \/ ClosesEarly(v)
    \/ Attach \/ AttachDone \/ Detach \/ Restart \/ Exits

Spec == Init /\ [][Next]_vars

-----------------------------------------------------------------------------
(* Properties.                                                              *)

\* Sockets, sets and commands are of their kinds.
TypeOK ==
    /\ tickets \subseteq Tabs
    /\ sock \in [Tabs -> {"away", "attaching", "closing", "added", "listening", "dead"}]
    /\ setOf \in [Tabs -> 0..MaxSets] /\ current \in 0..made /\ made \in 0..MaxSets
    /\ \A i \in 1..Len(toAgent) : toAgent[i] \in {"attach", "detach"}
    /\ slow \in Nat /\ streams \in Nat /\ attached \in BOOLEAN

\* A line of the log is sent to the set the map holds.
Gets(v) == setOf[v] = current /\ streams > 0

\* Who has the console open sees what the server prints, once all commands
\* have been executed: viewers that come, go and vanish before the gateway
\* listens to them, and attaches that are overtaken by the next detach and
\* attach, end with the log being followed for the set the viewer is in.  What
\* was lost with the agent or the container is back for the next first viewer.
\* Violated by the interactions in Admits.
Served ==
    toAgent = <<>> /\ slow = 0 =>
        \A v \in Tabs : sock[v] = "listening" /\ setOf[v] > faultAt => Gets(v)

-----------------------------------------------------------------------------
(* What comments of the code say and the code does not do.                  *)

\* One attachment per server (agent/src/index.ts:279): two attaches that
\* overlap each follow the log, and every line is shown twice.
OneStream == streams <= 1

\* "Start the server and output will appear here" (components/console.tsx:113):
\* not in a console that was open before the server stopped, or did not run.
ServedThroughout ==
    toAgent = <<>> /\ slow = 0 => \A v \in Tabs : sock[v] = "listening" => Gets(v)
=============================================================================
