---------------------------- MODULE ServerStatus ----------------------------
(***************************************************************************)
(* The status column of one server and the container it speaks of.  It is  *)
(* written by the power route before the agent acts (power/route.ts), by   *)
(* the gateway when the agent reports a state, and by the reconciler of    *)
(* the worker from the last heartbeat (worker/src/reconciler.ts).          *)
(* What the agent reports is handled in any order: the gateway's handler   *)
(* awaits the database and the next message does not wait for it.          *)
(***************************************************************************)
EXTENDS FiniteSets, Naturals

CONSTANTS
    Suspended,  \* Server.suspended
    MaxOnWay,   \* a bound on commands and reports on their way
    Admits      \* the interactions of the code this instance explores

(***************************************************************************)
(* The interactions the code permits and that an instance may switch on:   *)
(*   again   a power button is pressed while a command is on its way, or   *)
(*           Start is pressed in a tab that does not know the server runs  *)
(*   kill    a server is killed                                            *)
(*   lost    a power command is lost or refused, a report is lost          *)
(***************************************************************************)
ServerStatusAssumption ==
    Suspended \in BOOLEAN /\ MaxOnWay \in Nat /\ Admits \subseteq {"again", "kill", "lost"}

VARIABLES
    up,       \* the agent is connected
    box,      \* the state of the container
    status,   \* Server.status
    seen,     \* node:telemetry, what the last heartbeat said of the container
    onWay,    \* power commands and reports of states, on their way
    recon     \* the reconciler: what it has read, and where it is

vars == <<up, box, status, seen, onWay, recon>>

Transitional == {"STARTING", "STOPPING"}
Idle == [pc |-> "idle", actual |-> "none", was |-> "none"]

\* reconciler.ts:50-57 and gateway/src/index.ts:162-169, without an exit code:
\* the agent sends none.
Shown(state) == IF state = "running" THEN "RUNNING" ELSE "OFFLINE"

Init ==
    /\ up = TRUE /\ box = "exited" /\ status = "OFFLINE"
    /\ seen = "none" /\ onWay = {} /\ recon = Idle

\* A call that can get lost, or one that arrives.
Sends(m) == onWay' = onWay \cup {m} \/ ("lost" \in Admits /\ UNCHANGED onWay)

-----------------------------------------------------------------------------
(* The power route, and the agent's answer to it.                           *)

Actions == {"start", "stop", "restart"} \cup (Admits \cap {"kill"})

Power(action) ==
    /\ ~Suspended /\ Cardinality(onWay) < MaxOnWay
    /\ up \/ "lost" \in Admits
    /\ \/ "again" \in Admits
       \/ (\A m \in onWay : m.kind # "command") /\ (action = "start" => box = "exited")
    /\ status' = IF action = "stop" THEN "STOPPING" ELSE "STARTING"
    /\ Sends([kind |-> "command", what |-> action])
    /\ UNCHANGED <<up, box, seen, recon>>

Refused(action) == action = "start" /\ box = "running"  \* by Docker

\* Mutant of Reported: a server that was stopped is not reported.
ReportedStart(action) == action \notin {"stop", "kill"}

\* A kill is not reported.
Reported(action) == action # "kill"

Execute(m) ==
    /\ up /\ m.kind = "command"
    /\ IF Refused(m.what)
       THEN UNCHANGED box /\ onWay' = onWay \ {m}
       ELSE /\ box' = IF m.what \in {"start", "restart"} THEN "running" ELSE "exited"
            /\ onWay' = (onWay \ {m}) \cup
                   (IF Reported(m.what) THEN {[kind |-> "report", what |-> box']} ELSE {})
    /\ UNCHANGED <<up, status, seen, recon>>

\* The gateway writes the state the agent reports.
Report(m) ==
    /\ up /\ m.kind = "report"
    /\ onWay' = onWay \ {m}
    /\ status' = Shown(m.what)
    /\ UNCHANGED <<up, box, seen, recon>>

Heartbeat ==
    /\ up
    /\ seen' = box
    /\ UNCHANGED <<up, box, status, onWay, recon>>

\* The key expires two minutes after the last heartbeat.
Expire ==
    /\ ~up /\ seen # "none"
    /\ seen' = "none"
    /\ UNCHANGED <<up, box, status, onWay, recon>>

\* The game server ends by itself.
Exits ==
    /\ box = "running"
    /\ box' = "exited"
    /\ UNCHANGED <<up, status, seen, onWay, recon>>

Disconnect ==
    /\ up /\ (onWay = {} \/ "lost" \in Admits)
    /\ up' = FALSE
    /\ onWay' = {}
    /\ UNCHANGED <<box, status, seen, recon>>

Connect ==
    /\ ~up
    /\ up' = TRUE
    /\ UNCHANGED <<box, status, seen, onWay, recon>>

-----------------------------------------------------------------------------
(* reconcileFleet, for one server: telemetry, then the rows, then the write. *)

ReadTelemetry ==
    /\ recon.pc = "idle" /\ seen # "none"
    /\ recon' = [Idle EXCEPT !.pc = "telemetry", !.actual = Shown(seen)]
    /\ UNCHANGED <<up, box, status, seen, onWay>>

ReadServer ==
    /\ recon.pc = "telemetry"
    /\ recon' = [recon EXCEPT !.pc = "server", !.was = status]
    /\ UNCHANGED <<up, box, status, seen, onWay>>

Corrects == recon.was \notin Transitional /\ ~Suspended /\ recon.was # recon.actual

Correct ==
    /\ recon.pc = "server"
    /\ status' = IF Corrects THEN recon.actual ELSE status
    /\ recon' = Idle
    /\ UNCHANGED <<up, box, seen, onWay>>

-----------------------------------------------------------------------------
Next ==
    \/ \E action \in Actions : Power(action)
    \/ \E m \in onWay : Execute(m) \/ Report(m)
    \/ Heartbeat \/ Expire \/ Exits \/ Disconnect \/ Connect
    \/ ReadTelemetry \/ ReadServer \/ Correct

\* Heartbeats and passes recur, and what a connected agent is told is done;
\* nobody has to press a button and no agent has to connect.
Fairness ==
    /\ WF_vars(Heartbeat)
    /\ WF_vars(\E m \in onWay : Execute(m) \/ Report(m))
    /\ WF_vars(ReadTelemetry) /\ WF_vars(ReadServer) /\ WF_vars(Correct)

Spec == Init /\ [][Next]_vars /\ Fairness

-----------------------------------------------------------------------------
(* Properties.                                                              *)

\* The column and the container are in states the code knows.
TypeOK ==
    /\ up \in BOOLEAN /\ box \in {"running", "exited"} /\ seen \in {"none", "running", "exited"}
    /\ status \in Transitional \cup {"RUNNING", "OFFLINE"}
    /\ recon.pc \in {"idle", "telemetry", "server"}

\* "Keeps the database honest about the fleet" (reconciler.ts:11): once a
\* container stays as it is on a connected node and no power command is on its
\* way, the panel comes to show what it is and goes on showing it, although
\* reports arrive out of order and the reconciler writes what it read earlier.
\* "Transitional states are left alone; they resolve on their own"
\* (reconciler.ts:59-60): not after Start was pressed twice, a kill, or a power
\* command that failed.
StatusSettles ==
    \A b \in {"running", "exited"} :
        <>[](up /\ box = b /\ \A m \in onWay : m.kind = "report")
            => <>[](status = Shown(b))
=============================================================================
