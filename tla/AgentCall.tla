------------------------------ MODULE AgentCall ------------------------------
(***************************************************************************)
(* A command's way from the panel to an agent and back: callAgent          *)
(* (lib/agent-rpc.ts), the gateway's bridge between Redis channels and the *)
(* agent's socket (gateway/src/index.ts), and the agent's handleCommand.   *)
(*                                                                         *)
(* The calls go to one node.  Redis channels forget: a message published   *)
(* while nobody is subscribed is lost.                                     *)
(***************************************************************************)
EXTENDS FiniteSets

CONSTANTS
    Panels,     \* panel processes
    Calls,      \* calls of callAgent, each with its randomUUID
    PanelOf,    \* the process that makes a call
    Admits      \* the failures this instance explores

(***************************************************************************)
(*   link      the agent's socket breaks, or closes, and is opened again   *)
(*   gateway   the gateway dies and is restarted                           *)
(*   panel     a panel process dies and is restarted                       *)
(*   agent     the agent process dies and is restarted                     *)
(*   redis     a PUBLISH throws                                            *)
(***************************************************************************)
Interactions == {"link", "gateway", "panel", "agent", "redis"}

ASSUME CallAssumption ==
    /\ PanelOf \in [Calls -> Panels]
    /\ Admits \subseteq Interactions

VARIABLES
    joined,     \* ensureSubscribed, by panel: not called, flag set, listening
    pending,    \* the pending map of all panels
    at,         \* where callAgent is
    outcome,    \* what it returned or threw
    online,     \* the key agent:online of the node
    bridged,    \* the gateway is subscribed to agent:commands of the node
    link,       \* the agent's socket is registered at the gateway and open
    wire,       \* commands published, results published: on their way
    working,    \* commands the agent is executing
    answers,    \* results the agent is about to send
    effect      \* what executing a command has done

vars == <<joined, pending, at, outcome, online, bridged, link, wire, working, answers, effect>>

panelVars == <<joined, pending, at, outcome>>
linkVars == <<online, bridged, link>>
agentVars == <<working, answers, effect>>

Command(c) == [type |-> "command", id |-> c]
Result(c, r) == [type |-> "result", id |-> c, ok |-> r]
Reply(c, r) == [type |-> "reply", id |-> c, ok |-> r]

-----------------------------------------------------------------------------
Init ==
    /\ joined = [p \in Panels |-> "no"]
    /\ pending = {}
    /\ at = [c \in Calls |-> "new"]
    /\ outcome = [c \in Calls |-> "none"]
    /\ online = TRUE /\ bridged = TRUE /\ link = TRUE
    /\ wire = {}
    /\ working = {} /\ answers = {}
    /\ effect = [c \in Calls |-> "none"]

-----------------------------------------------------------------------------
(* The panel.                                                               *)

Settles(c, o) ==
    /\ at' = [at EXCEPT ![c] = "settled"]
    /\ outcome' = [outcome EXCEPT ![c] = o]

\* ensureSubscribed sets its flag before it awaits the subscription: only the
\* first call waits for it.
Begin(c) ==
    /\ at[c] = "new"
    /\ IF joined[PanelOf[c]] = "no"
       THEN /\ joined' = [joined EXCEPT ![PanelOf[c]] = "flagged"]
            /\ at' = [at EXCEPT ![c] = "joining"]
       ELSE /\ at' = [at EXCEPT ![c] = "checking"]
            /\ UNCHANGED joined
    /\ UNCHANGED <<pending, outcome, linkVars, wire, agentVars>>

Listening(c) ==
    /\ at[c] = "joining"
    /\ joined' = [joined EXCEPT ![PanelOf[c]] = "listening"]
    /\ at' = [at EXCEPT ![c] = "checking"]
    /\ UNCHANGED <<pending, outcome, linkVars, wire, agentVars>>

\* Mutant of CheckOnline: the entry is keyed by the command, not by its id.
CheckOnlineKey(c) ==
    /\ at[c] = "checking" /\ online
    /\ at' = [at EXCEPT ![c] = "publishing"]
    /\ pending' = pending \cup {Command(c)}
    /\ UNCHANGED <<outcome, joined, linkVars, wire, agentVars>>

\* isNodeConnected; the entry and its timer are made before the PUBLISH.
CheckOnline(c) ==
    /\ at[c] = "checking"
    /\ IF online
       THEN /\ at' = [at EXCEPT ![c] = "publishing"]
            /\ pending' = pending \cup {c}
            /\ UNCHANGED outcome
       ELSE Settles(c, "offline") /\ UNCHANGED pending
    /\ UNCHANGED <<joined, linkVars, wire, agentVars>>

\* PUBLISH tells how many were subscribed.  The timer may have run out first:
\* then the promise that is returned has already been rejected.
Publish(c) ==
    /\ at[c] = "publishing"
    /\ IF ~bridged
       THEN Settles(c, "offline") /\ pending' = pending \ {c} /\ UNCHANGED wire
       ELSE /\ wire' = wire \cup {Command(c)}
            /\ IF c \in pending
               THEN at' = [at EXCEPT ![c] = "waiting"] /\ UNCHANGED outcome
               ELSE Settles(c, "timeout")
            /\ UNCHANGED pending
    /\ UNCHANGED <<joined, linkVars, agentVars>>

\* Nothing removes the entry but its timer.
PublishFails(c) ==
    /\ "redis" \in Admits
    /\ at[c] = "publishing"
    /\ Settles(c, "error")
    /\ UNCHANGED <<joined, pending, linkVars, wire, agentVars>>

\* Mutants of Timeout: a node that is slow is called offline; the entry goes
\* but the caller is not told; only a call that waits is cleaned up.
TimeoutOffline(c) ==
    /\ c \in pending
    /\ pending' = pending \ {c}
    /\ IF at[c] = "waiting" THEN Settles(c, "offline") ELSE UNCHANGED <<at, outcome>>
    /\ UNCHANGED <<joined, linkVars, wire, agentVars>>
TimeoutSilent(c) ==
    /\ c \in pending
    /\ pending' = pending \ {c}
    /\ UNCHANGED <<at, outcome, joined, linkVars, wire, agentVars>>
TimeoutWaiting(c) ==
    /\ c \in pending /\ at[c] = "waiting"
    /\ pending' = pending \ {c}
    /\ Settles(c, "timeout")
    /\ UNCHANGED <<joined, linkVars, wire, agentVars>>

Timeout(c) ==
    /\ c \in pending
    /\ pending' = pending \ {c}
    /\ IF at[c] = "waiting" THEN Settles(c, "timeout") ELSE UNCHANGED <<at, outcome>>
    /\ UNCHANGED <<joined, linkVars, wire, agentVars>>

\* The message handler: a reply without an entry is someone else's, or late.
Receive(c, r) ==
    /\ Reply(c, r) \in wire
    /\ wire' = wire \ {Reply(c, r)}
    /\ IF c \in pending
       THEN /\ pending' = pending \ {c}
            /\ IF at[c] = "waiting" THEN Settles(c, r) ELSE UNCHANGED <<at, outcome>>
       ELSE UNCHANGED <<pending, at, outcome>>
    /\ UNCHANGED <<joined, linkVars, agentVars>>

PanelCrash(p) ==
    LET open == {c \in Calls : PanelOf[c] = p /\ at[c] \notin {"new", "settled"}}
    IN  /\ "panel" \in Admits
        /\ joined' = [joined EXCEPT ![p] = "no"]
        /\ pending' = {c \in pending : PanelOf[c] # p}
        /\ at' = [c \in Calls |-> IF c \in open THEN "settled" ELSE at[c]]
        /\ outcome' = [c \in Calls |-> IF c \in open THEN "lost" ELSE outcome[c]]
        /\ wire' = {m \in wire : m.type = "reply" => PanelOf[m.id] # p}
        /\ UNCHANGED <<linkVars, agentVars>>

-----------------------------------------------------------------------------
(* The gateway.                                                             *)

\* A command for a node without an open socket is dropped in silence.
Forward(c) ==
    /\ Command(c) \in wire
    /\ wire' = wire \ {Command(c)}
    /\ working' = IF link THEN working \cup {c} ELSE working
    /\ UNCHANGED <<panelVars, linkVars, answers, effect>>

\* A result is published to the panels that listen at that moment.
Relay(c, r) ==
    /\ Result(c, r) \in wire
    /\ wire' = (wire \ {Result(c, r)}) \cup
            (IF joined[PanelOf[c]] = "listening" THEN {Reply(c, r)} ELSE {})
    /\ UNCHANGED <<panelVars, linkVars, agentVars>>

GatewayCrash ==
    /\ "gateway" \in Admits
    /\ bridged /\ bridged' = FALSE /\ link' = FALSE
    /\ wire' = {m \in wire : m.type = "reply"}
    /\ UNCHANGED <<panelVars, online, agentVars>>

\* What NodeLink.tla describes in detail, step by step: hello registers the
\* socket and later subscribes, a close unregisters ...
Register ==
    /\ ~link /\ link' = TRUE
    /\ UNCHANGED <<panelVars, online, bridged, wire, agentVars>>

Subscribe ==
    /\ ~bridged /\ bridged' = TRUE
    /\ UNCHANGED <<panelVars, online, link, wire, agentVars>>

Unregister ==
    /\ "link" \in Admits
    /\ link /\ link' = FALSE
    /\ UNCHANGED <<panelVars, online, bridged, wire, agentVars>>

\* ... and the key is set by hello and by heartbeats, deleted by a close handler
\* that may be late, and expires: it says nothing certain about the socket.
KeyTurns ==
    /\ online' = ~online
    /\ UNCHANGED <<panelVars, bridged, link, wire, agentVars>>

-----------------------------------------------------------------------------
(* The agent.  Commands are handled concurrently.                           *)

Execute(c, r) ==
    /\ c \in working
    /\ working' = working \ {c}
    /\ effect' = [effect EXCEPT ![c] = IF r = "ok" THEN "done" ELSE "failed"]
    /\ answers' = answers \cup {Result(c, r)}
    /\ UNCHANGED <<panelVars, linkVars, wire>>

\* The result goes out on whatever socket is open by then, or nowhere.
Answer(c, r) ==
    /\ Result(c, r) \in answers
    /\ answers' = answers \ {Result(c, r)}
    /\ wire' = IF link THEN wire \cup {Result(c, r)} ELSE wire
    /\ UNCHANGED <<panelVars, linkVars, working, effect>>

AgentCrash ==
    /\ "agent" \in Admits
    /\ working \cup answers # {}
    /\ working' = {} /\ answers' = {}
    /\ link' = FALSE
    /\ UNCHANGED <<panelVars, online, bridged, wire, effect>>

-----------------------------------------------------------------------------
CallStep(c) ==
    \/ Begin(c) \/ Listening(c) \/ CheckOnline(c) \/ Publish(c) \/ PublishFails(c)

Next ==
    \/ \E c \in Calls :
        \/ CallStep(c) \/ Timeout(c) \/ Forward(c)
        \/ \E r \in {"ok", "failed"} :
            Receive(c, r) \/ Relay(c, r) \/ Execute(c, r) \/ Answer(c, r)
    \/ \E p \in Panels : PanelCrash(p)
    \/ GatewayCrash \/ Register \/ Subscribe \/ Unregister \/ KeyTurns \/ AgentCrash

Spec == Init /\ [][Next]_vars

\* Redis answers, and a timer runs out.
Fairness == \A c \in Calls : WF_vars(CallStep(c)) /\ WF_vars(Timeout(c))

FairSpec == Spec /\ Fairness

-----------------------------------------------------------------------------
(* Properties.                                                              *)

Messages ==
    [type : {"command"}, id : Calls] \cup
    [type : {"result", "reply"}, id : Calls, ok : {"ok", "failed"}]

TypeOK ==
    /\ joined \in [Panels -> {"no", "flagged", "listening"}]
    /\ pending \subseteq Calls
    /\ at \in [Calls -> {"new", "joining", "checking", "publishing", "waiting", "settled"}]
    /\ outcome \in [Calls -> {"none", "ok", "failed", "offline", "timeout", "error", "lost"}]
    /\ online \in BOOLEAN /\ bridged \in BOOLEAN /\ link \in BOOLEAN
    /\ wire \subseteq Messages
    /\ working \subseteq Calls
    /\ answers \subseteq Messages
    /\ effect \in [Calls -> {"none", "done", "failed"}]

\* callAgent keeps RemoteCall's promise through every failure: at most one
\* effect, results that are true, and no effect on a node said to be offline.
Contract == INSTANCE RemoteCall
KeepsContract == Contract!Spec

\* Every call ends, whatever is lost on the way (the timer of callAgent).
EveryCallSettles == \A c \in Calls : at[c] = "joining" \/ at[c] = "checking" ~> at[c] = "settled"

\* ... and leaves no entry behind in the pending map, not even when PUBLISH
\* has thrown.
NoEntryLeaks == \A c \in Calls : at[c] = "settled" ~> c \notin pending

\* "Commands travel panel -> Redis -> gateway -> agent, replies come back the
\* same way" (agent-rpc.ts:6-8): while nothing breaks, the result of a call
\* that still waits finds its panel listening.
RepliesComeBack ==
    \A c \in Calls : c \in pending /\ (\E r \in {"ok", "failed"} : Result(c, r) \in wire)
        => joined[PanelOf[c]] = "listening"
=============================================================================
