------------------------------ MODULE NodeLink ------------------------------
(***************************************************************************)
(* The connection of one node: the agent that dials, greets and beats      *)
(* (agent/src/index.ts), the gateway's handlers for its sockets, its ping  *)
(* sweep and its sweep of stale nodes (gateway/src/index.ts).              *)
(*                                                                         *)
(* A handler of the gateway runs until its next await and is then a member *)
(* of work, with what it does when it resumes; handlers of all sockets,    *)
(* and two of the same socket, resume in any order.  Redis commands of one *)
(* gateway run in the order they are issued, so the online key changes     *)
(* when the command is issued; database updates run when they run.  What a *)
(* socket carries arrives at once or, if the line is broken, never: a      *)
(* slower message is one that is sent later.                               *)
(***************************************************************************)
EXTENDS Naturals, FiniteSets

CONSTANTS
    Sockets,    \* connections that can exist at the same time
    NoSocket,
    MaxHellos,  \* a bound on open handlers that still describe their system
    Admits      \* the failures this instance explores

(***************************************************************************)
(*   cut      a line breaks; an end may be told, and finds out by writing  *)
(*   mute     an agent waiting for hello.ack, which writes nothing, is not *)
(*            told of a line that broke                                    *)
(*   gateway  the gateway dies and is restarted                            *)
(*   agent    the agent dies, and may be restarted                         *)
(*   rotate   an admin rotates the token; later the agent gets the new one *)
(*   chatter  the agent has console lines or results to send at any time   *)
(***************************************************************************)
Interactions == {"cut", "mute", "gateway", "agent", "rotate", "chatter"}

ASSUME LinkAssumption ==
    /\ NoSocket \notin Sockets
    /\ MaxHellos \in Nat \ {0}
    /\ Admits \subseteq Interactions

VARIABLES
    registered,  \* agents.get(nodeId): the socket commands are sent to
    alive,       \* its alive flag
    conn,        \* sockets whose handler has set conn, until they close
    gw,          \* the gateway's end of each socket
    cut,         \* broken lines that an end still holds
    work,        \* handlers of the gateway suspended at an await
    status,      \* Node.status
    key,         \* agent:online of the node exists
    agent,       \* where the agent is, and its socket (ws)
    hellos,      \* open handlers awaiting describeSystem
    collecting,  \* a heartbeat is being collected
    valid        \* the agent's token is the one whose hash the row has

vars == <<registered, alive, conn, gw, cut, work, status, key,
          agent, hellos, collecting, valid>>
nodeVars == <<status, key>>
agentVars == <<agent, hellos, collecting>>
socketVars == <<registered, alive, conn, gw, cut>>

-----------------------------------------------------------------------------
Hello(s, n) == [type |-> "hello", socket |-> s, n |-> n, at |-> "read"]
Beat(s) == [type |-> "heartbeat", socket |-> s, n |-> 1, at |-> "row"]
Close(s) == [type |-> "close", socket |-> s, n |-> 1, at |-> "row"]
Greeting(s) == \E h \in work : h.type = "hello" /\ h.socket = s

Online == {"opened", "greeted", "acked"}
Current(s) == agent.pc \in Online /\ agent.at = s

\* What one end sends reaches the other.
Intact(s) == Current(s) /\ s \notin cut

\* Heartbeats keep arriving: at every 15 s, well within 45 and 60.
Beating == agent.pc = "acked" /\ Intact(agent.at) /\ agent.at \in conn

\* No end and no handler knows of the socket any more.
Free(s) ==
    /\ gw[s] = "closed" /\ ~Current(s)
    /\ registered # s
    /\ \A h \in work : h.socket # s

\* ws.close of an open socket starts the closing handshake.
Closing(G) == [s \in Sockets |-> IF s \in G /\ gw[s] = "open" THEN "closing" ELSE gw[s]]

-----------------------------------------------------------------------------
Init ==
    /\ registered = NoSocket /\ alive = FALSE /\ conn = {}
    /\ gw = [s \in Sockets |-> "closed"]
    /\ cut = {}
    /\ work = {}
    /\ status = "OFFLINE" /\ key = FALSE
    /\ agent = [pc |-> "waiting", at |-> NoSocket]
    /\ hellos = 0 /\ collecting = FALSE
    /\ valid = TRUE

-----------------------------------------------------------------------------
(* The agent.                                                               *)

\* Mutant of Idle: the agent goes on holding the closed socket.
IdleHolding(pc) == [pc |-> pc, at |-> agent.at]

Idle(pc) == [pc |-> pc, at |-> NoSocket]

\* connect, once the backoff has run out; the open handler starts to
\* describe the system.
Dial(s) ==
    /\ agent.pc = "waiting" /\ Free(s)
    /\ hellos < MaxHellos
    /\ agent' = [pc |-> "opened", at |-> s]
    /\ hellos' = hellos + 1
    /\ gw' = [gw EXCEPT ![s] = "open"]
    /\ conn' = conn \ {s}
    /\ UNCHANGED <<registered, alive, cut, work, nodeVars, collecting, valid>>

\* The first message of a socket must be a hello; one that arrives while
\* another is being verified is verified too, a later one is ignored.
Arrives(s) ==
    work' = IF s \notin cut /\ gw[s] # "closed" /\ s \notin conn
            THEN work \cup {Hello(s, IF Greeting(s) THEN 2 ELSE 1)}
            ELSE work

\* send writes to whatever socket is current when the description is ready.
SendHello ==
    /\ hellos > 0
    /\ hellos' = hellos - 1
    /\ IF agent.pc \in Online
       THEN /\ agent' = [agent EXCEPT !.pc = IF @ = "opened" THEN "greeted" ELSE @]
            /\ Arrives(agent.at)
       ELSE UNCHANGED <<agent, work>>
    /\ UNCHANGED <<socketVars, nodeVars, collecting, valid>>

BeatStart ==
    /\ agent.pc = "acked" /\ ~collecting
    /\ collecting' = TRUE
    /\ UNCHANGED <<socketVars, work, nodeVars, agent, hellos, valid>>

\* A message that is no hello on a socket without conn: "hello required".
Unexpected(s) == gw' = Closing({s}) /\ UNCHANGED <<alive, key, work>>

\* The statistics are ready: they too go to the current socket.
BeatSend ==
    /\ collecting /\ collecting' = FALSE
    /\ IF agent.pc \notin Online \/ ~Intact(agent.at) \/ gw[agent.at] = "closed"
       THEN UNCHANGED <<alive, key, work, gw>>
       ELSE IF agent.at \notin conn THEN Unexpected(agent.at)
       ELSE /\ alive' = IF registered = agent.at THEN TRUE ELSE alive
            /\ key' = TRUE
            /\ work' = work \cup {Beat(agent.at)}
            /\ UNCHANGED gw
    /\ UNCHANGED <<registered, conn, cut, status, agent, hellos, valid>>

\* A console line of an attached server, or a result, before hello.ack.
Chatter ==
    /\ "chatter" \in Admits
    /\ agent.pc \in {"opened", "greeted"} /\ Intact(agent.at)
    /\ agent.at \notin conn /\ gw[agent.at] = "open"
    /\ Unexpected(agent.at)
    /\ UNCHANGED <<registered, conn, cut, status, agentVars, valid>>

\* The close event.
AgentNotices ==
    /\ agent.pc \in Online
    /\ agent.at \in cut \/ gw[agent.at] # "open"
    /\ agent' = Idle("waiting")
    /\ cut' = cut \ {s \in {agent.at} : gw[s] = "closed"}
    /\ UNCHANGED <<registered, alive, conn, gw, work, nodeVars, hellos, collecting, valid>>

AgentDies ==
    /\ "agent" \in Admits /\ agent.pc # "down"
    /\ agent' = Idle("down")
    /\ hellos' = 0 /\ collecting' = FALSE
    /\ cut' = {s \in cut : gw[s] # "closed"}
    /\ UNCHANGED <<registered, alive, conn, gw, work, nodeVars, valid>>

\* A restart reads the token that agent.env has by then.
AgentStarts ==
    /\ agent.pc = "down"
    /\ agent' = Idle("waiting")
    /\ \E v \in {valid, TRUE} : valid' = v
    /\ UNCHANGED <<socketVars, work, nodeVars, hellos, collecting>>

Rotate ==
    /\ "rotate" \in Admits
    /\ valid /\ valid' = FALSE
    /\ UNCHANGED <<socketVars, work, nodeVars, agentVars>>

-----------------------------------------------------------------------------
(* The gateway: hello.                                                      *)

Goes(h, next) == work' = (work \ {h}) \cup {next}
Ends(h) == work' = work \ {h}

\* The row is read and the token compared with its hash: "bad token", or the
\* handler goes on later, whatever the row has become.
Verify(h) ==
    /\ h.type = "hello" /\ h.at = "read"
    /\ IF valid
       THEN Goes(h, [h EXCEPT !.at = "accept"]) /\ UNCHANGED gw
       ELSE Ends(h) /\ gw' = Closing({h.socket})
    /\ UNCHANGED <<registered, alive, conn, cut, nodeVars, agentVars, valid>>

\* Mutant of Accept: the socket that is replaced stays open.
AcceptBoth(h) ==
    /\ h.type = "hello" /\ h.at = "accept"
    /\ Goes(h, [h EXCEPT !.at = "row"])
    /\ registered' = h.socket /\ alive' = TRUE
    /\ conn' = conn \cup {h.socket}
    /\ UNCHANGED <<gw, cut, nodeVars, agentVars, valid>>

\* "A reconnect replaces any stale socket": the one registered is closed, be
\* it this one, and this one is registered, even if it has closed meanwhile.
Accept(h) ==
    /\ h.type = "hello" /\ h.at = "accept"
    /\ Goes(h, [h EXCEPT !.at = "row"])
    /\ gw' = Closing({registered})
    /\ registered' = h.socket /\ alive' = TRUE
    /\ conn' = conn \cup {h.socket}
    /\ UNCHANGED <<cut, nodeVars, agentVars, valid>>

HelloRow(h) ==
    /\ h.type = "hello" /\ h.at = "row"
    /\ Goes(h, [h EXCEPT !.at = "key"])
    /\ status' = "ONLINE"
    /\ UNCHANGED <<socketVars, key, agentVars, valid>>

HelloKey(h) ==
    /\ h.type = "hello" /\ h.at = "key"
    /\ Goes(h, [h EXCEPT !.at = "ack"])
    /\ key' = TRUE
    /\ UNCHANGED <<socketVars, status, agentVars, valid>>

\* Subscription and list of servers done: hello.ack, if the socket is open;
\* the agent starts to beat.
HelloAck(h) ==
    /\ h.type = "hello" /\ h.at = "ack"
    /\ Ends(h)
    /\ IF Intact(h.socket) /\ gw[h.socket] = "open"
       THEN agent' = [agent EXCEPT !.pc = "acked"] /\ collecting' = TRUE
       ELSE UNCHANGED <<agent, collecting>>
    /\ UNCHANGED <<socketVars, nodeVars, hellos, valid>>

\* Mutant of BeatRow: a heartbeat updates the statistics only.
BeatRowStats(h) == h.type = "heartbeat" /\ Ends(h) /\ UNCHANGED <<socketVars, nodeVars, agentVars, valid>>

BeatRow(h) ==
    /\ h.type = "heartbeat"
    /\ Ends(h)
    /\ status' = "ONLINE"
    /\ UNCHANGED <<socketVars, key, agentVars, valid>>

CloseRow(h) ==
    /\ h.type = "close"
    /\ Ends(h)
    /\ status' = "OFFLINE"
    /\ UNCHANGED <<socketVars, key, agentVars, valid>>

Resume(h) ==
    \/ Verify(h) \/ Accept(h) \/ HelloRow(h) \/ HelloKey(h) \/ HelloAck(h)
    \/ BeatRow(h) \/ CloseRow(h)

ResumeOf(type, s) == \E h \in work : h.type = type /\ h.socket = s /\ Resume(h)

-----------------------------------------------------------------------------
(* The gateway: sockets, sweeps and timers.                                 *)

\* The close event of a socket and its handler.
Closed(s) ==
    /\ gw' = [gw EXCEPT ![s] = "closed"] /\ conn' = conn \ {s}
    /\ cut' = {t \in cut : t # s \/ Current(s)}
    /\ IF s \in conn /\ registered = s
       THEN /\ registered' = NoSocket /\ alive' = FALSE /\ key' = FALSE
            /\ work' = work \cup {Close(s)}
       ELSE UNCHANGED <<registered, alive, key, work>>

GatewayNotices(s) ==
    /\ gw[s] = "closing" \/ (gw[s] = "open" /\ ~Intact(s))
    /\ Closed(s)
    /\ UNCHANGED <<status, agentVars, valid>>

\* Ten seconds without a hello that was accepted; an intact line takes less.
HelloTimeout(s) ==
    /\ gw[s] = "open" /\ s \notin conn /\ ~Intact(s)
    /\ gw' = Closing({s})
    /\ UNCHANGED <<registered, alive, conn, cut, work, nodeVars, agentVars, valid>>

\* The sweep pings; the pong, like a heartbeat, sets the flag again.
Ping ==
    /\ registered # NoSocket /\ alive
    /\ alive' = FALSE
    /\ UNCHANGED <<registered, conn, gw, cut, work, nodeVars, agentVars, valid>>

Pong ==
    /\ registered # NoSocket /\ ~alive
    /\ Intact(registered) /\ gw[registered] # "closed"
    /\ alive' = TRUE
    /\ UNCHANGED <<registered, conn, gw, cut, work, nodeVars, agentVars, valid>>

\* No pong for a whole interval, though an intact line would have brought one.
Terminate ==
    /\ registered # NoSocket /\ ~alive
    /\ gw[registered] # "closed" /\ ~Intact(registered)
    /\ Closed(registered)
    /\ UNCHANGED <<status, agentVars, valid>>

\* Mutant of KeyExpires: the key is set without an expiry.
KeyStays == FALSE /\ UNCHANGED vars

KeyExpires ==
    /\ key /\ ~Beating
    /\ key' = FALSE
    /\ UNCHANGED <<socketVars, work, status, agentVars, valid>>

\* No heartbeat for a minute: the sweep looks at rows that are ONLINE only.
MarkStale ==
    /\ status = "ONLINE" /\ ~Beating
    /\ status' = "UNREACHABLE"
    /\ UNCHANGED <<socketVars, work, key, agentVars, valid>>

\* Maps, handlers and sockets are gone; rows and keys are not.
GatewayDies ==
    /\ "gateway" \in Admits
    /\ \E s \in Sockets : gw[s] \in {"open", "closing"}
    /\ registered' = NoSocket /\ alive' = FALSE /\ conn' = {}
    /\ gw' = [s \in Sockets |-> "closed"]
    /\ cut' = {s \in cut : Current(s)}
    /\ work' = {}
    /\ UNCHANGED <<nodeVars, agentVars, valid>>

Cut(s) ==
    /\ "cut" \in Admits
    /\ s \notin cut /\ (gw[s] \in {"open", "closing"} \/ Current(s))
    /\ cut' = cut \cup {s}
    /\ UNCHANGED <<registered, alive, conn, gw, work, nodeVars, agentVars, valid>>

-----------------------------------------------------------------------------
\* What an earlier connection has left running.
Leftovers == collecting \/ hellos > 0 \/ \E h \in work : h.type = "hello"

Break ==
    \/ AgentDies \/ GatewayDies \/ Chatter
    \/ \E s \in Sockets : Cut(s)

\* A second of backoff was not enough for them.
Overtakes == Leftovers /\ \E s \in Sockets : Dial(s)

AgentStep == (\E s \in Sockets : Dial(s)) \/ SendHello \/ BeatStart \/ BeatSend \/ AgentNotices
Timers == Ping \/ Pong \/ Terminate \/ KeyExpires \/ MarkStale

Next ==
    \/ AgentStep \/ AgentStarts \/ Rotate
    \/ \E h \in work : Resume(h)
    \/ \E s \in Sockets : GatewayNotices(s) \/ HelloTimeout(s)
    \/ Timers
    \/ Break

Spec == Init /\ [][Next]_vars

Types == {"hello", "heartbeat", "close"}

\* Timers run out, events are delivered, awaited calls return.  A broken line
\* is noticed for certain by who writes to it: the gateway by its pings and
\* timers, the agent by its hello and heartbeats.
AgentSure == agent.pc = "greeted" /\ agent.at \in cut => "mute" \notin Admits
GatewaySure(s) == gw[s] = "closing" \/ s \notin cut

Fairness ==
    /\ WF_vars(\E s \in Sockets : Dial(s)) /\ WF_vars(SendHello)
    /\ WF_vars(BeatStart) /\ WF_vars(BeatSend) /\ WF_vars(AgentSure /\ AgentNotices)
    /\ \A s \in Sockets :
        /\ \A type \in Types : WF_vars(ResumeOf(type, s))
        /\ WF_vars(GatewaySure(s) /\ GatewayNotices(s)) /\ WF_vars(HelloTimeout(s))
    /\ WF_vars(Ping) /\ WF_vars(Pong) /\ WF_vars(Terminate)
    /\ WF_vars(KeyExpires) /\ WF_vars(MarkStale)

FairSpec == Spec /\ Fairness

-----------------------------------------------------------------------------
(* Properties.                                                              *)

Handlers ==
    [type : {"hello"}, socket : Sockets, n : {1, 2},
     at : {"read", "accept", "row", "key", "ack"}] \cup
    [type : {"heartbeat", "close"}, socket : Sockets, n : {1}, at : {"row"}]

TypeOK ==
    /\ registered \in Sockets \cup {NoSocket}
    /\ alive \in BOOLEAN
    /\ conn \subseteq Sockets
    /\ gw \in [Sockets -> {"open", "closing", "closed"}]
    /\ cut \subseteq Sockets
    /\ work \subseteq Handlers
    /\ status \in {"ONLINE", "OFFLINE", "UNREACHABLE"}
    /\ key \in BOOLEAN
    /\ agent \in [pc : {"down", "waiting"}, at : {NoSocket}] \cup [pc : Online, at : Sockets]
    /\ hellos \in 0..MaxHellos /\ collecting \in BOOLEAN
    /\ valid \in BOOLEAN

\* An accepted socket that is open is the one commands are sent to: no agent
\* stays connected, and beating, to a gateway that sends its commands
\* elsewhere (the registration at gateway/src/index.ts:94-98 and the identity
\* test at :192).
OneAccepted == \A s \in conn : gw[s] = "open" => registered = s

\* Once lines and processes stop failing, and nothing is overtaken any more, a
\* node with the right token comes back for good, whatever its old sockets'
\* handlers have left behind: accepted, ONLINE and reachable for callAgent.
Serving ==
    /\ agent.pc = "acked" /\ registered = agent.at
    /\ status = "ONLINE" /\ key

Recovers ==
    \/ []<><<Break \/ Overtakes>>_vars
    \/ <>[](agent.pc = "down")
    \/ []<>~valid
    \/ <>[]Serving

\* An agent that is gone for good is not shown ONLINE for ever, nor called
\* (gateway/src/index.ts:310-317 and the expiry of the key), though a late
\* handler may write ONLINE after the close handler wrote OFFLINE.
GoneIsNoticed ==
    <>[](agent.pc = "down") => <>[](status # "ONLINE" /\ ~key)

-----------------------------------------------------------------------------
(* What comments of the code say and the code does not do.                  *)

\* "A reconnect replaces any stale socket for the same node"
\* (gateway/src/index.ts:94): what is registered is not a dead socket while
\* the agent has a live one that was accepted.
NewestWins ==
    agent.pc \in Online /\ agent.at \in conn /\ gw[agent.at] # "closed"
        => registered \in {agent.at, NoSocket}

\* "The old one stops working immediately, so the node goes offline"
\* (rotate-token/route.ts:10-11).
RotationBites == ~valid ~> (status # "ONLINE" \/ valid)
=============================================================================
