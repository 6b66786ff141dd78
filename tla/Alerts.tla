------------------------------- MODULE Alerts -------------------------------
(***************************************************************************)
(* The alerts about one node (lib/alerts.ts), raised and resolved by two   *)
(* passes of the worker that hold different locks and judge by different   *)
(* things: reconcileFleet by the last heartbeat (worker/src/reconciler.ts) *)
(* and evaluateAlerts by Node.status.  An administrator resolves any of    *)
(* them (admin/alerts/route.ts).  Node.status is written by the gateway    *)
(* and by the reconciler.  Severities, texts and the delivery of the       *)
(* notification are left out.                                              *)
(***************************************************************************)
EXTENDS Naturals

CONSTANTS
    EvaluatedKeys,  \* further keys of evaluateAlerts: node.capacity
    FleetKeys,      \* further keys of reconcileFleet: fleet.capacity.low
    DriftKeys       \* node.drift, or nothing

NodeDown == "node.down"
Keys == {NodeDown} \cup EvaluatedKeys \cup FleetKeys \cup DriftKeys

AlertsAssumption ==
    /\ NodeDown \notin EvaluatedKeys \cup FleetKeys \cup DriftKeys
    /\ EvaluatedKeys \cap FleetKeys = {} /\ DriftKeys \cap (EvaluatedKeys \cup FleetKeys) = {}

VARIABLES
    up,       \* the node's agent is connected and sends heartbeats
    status,   \* Node.status
    seen,     \* node:telemetry exists
    facts,    \* what the further keys are about and is the case
    open,     \* alerts whose resolvedAt is null
    pass      \* the two passes: where they are, what they have read

vars == <<up, status, seen, facts, open, pass>>
fleet == <<up, status, seen, facts>>

Passes == {"reconcile", "evaluate"}
Idle == [pc |-> "idle", was |-> "ONLINE", read |-> {}, todo |-> {}, key |-> NodeDown]

Init ==
    /\ up = TRUE /\ status = "ONLINE" /\ seen = TRUE /\ facts = {} /\ open = {}
    /\ pass = [p \in Passes |-> Idle]

-----------------------------------------------------------------------------
(* The node.                                                                *)

\* gateway/src/index.ts:130-150.
Heartbeat ==
    /\ up
    /\ seen' = TRUE /\ status' = "ONLINE"
    /\ UNCHANGED <<up, facts, open, pass>>

\* Two minutes without a heartbeat.
Expire ==
    /\ ~up /\ seen
    /\ seen' = FALSE
    /\ UNCHANGED <<up, status, facts, open, pass>>

\* The socket is closed and the gateway notices, or the node falls silent.
Disconnect ==
    /\ up
    /\ up' = FALSE
    /\ status' \in {status, "OFFLINE"}
    /\ UNCHANGED <<seen, facts, open, pass>>

Connect ==
    /\ ~up
    /\ up' = TRUE
    /\ UNCHANGED <<status, seen, facts, open, pass>>

\* The gateway's sweep: an ONLINE node has sent nothing for a minute.
MarkStale ==
    /\ ~up /\ status = "ONLINE"
    /\ status' = "UNREACHABLE"
    /\ UNCHANGED <<up, seen, facts, open, pass>>

\* Capacity is sold or freed, backups come and go, a counter drifts.
FactsChange ==
    /\ \E k \in Keys \ {NodeDown} :
         facts' = IF k \in facts \ DriftKeys THEN facts \ {k} ELSE facts \cup {k}
    /\ UNCHANGED <<up, status, seen, open, pass>>

-----------------------------------------------------------------------------
(* raiseAlert and resolveAlert.  An alert is looked up, and opened in a     *)
(* later statement; what is resolved is looked up and written at once, as   *)
(* nothing that happens in between makes a difference.                      *)

At(p, pc) == pass[p].pc = pc
Goes(p, pc) == pass' = [pass EXCEPT ![p].pc = pc]

\* The first half of raiseAlert for k, going on to pc.
LookUp(p, k) ==
    /\ pass' = [pass EXCEPT ![p].pc = IF k \in open THEN "checks" ELSE "opening", ![p].key = k]
    /\ UNCHANGED open

\* Mutant of Resolves: an alert is opened and never closed.
ResolvesNot(k) == open' = open

Resolves(k) == open' = open \ {k}

ResolveAlert(p, k) == Resolves(k) /\ Goes(p, "checks")

\* The upsert, and the notification.
Open(p) ==
    /\ At(p, "opening")
    /\ open' = open \cup {pass[p].key}
    /\ Goes(p, "checks")
    /\ UNCHANGED fleet

-----------------------------------------------------------------------------
(* reconcileFleet, its node part and checkFleetCapacity.                    *)

BeginReconcile ==
    /\ At("reconcile", "idle")
    /\ pass' = [pass EXCEPT !["reconcile"] =
                  [Idle EXCEPT !.pc = "telemetry", !.was = status, !.todo = FleetKeys \cup DriftKeys]]
    /\ UNCHANGED <<fleet, open>>

\* Without a heartbeat an ONLINE node is marked, by what was read at the start.
ReadTelemetry ==
    /\ At("reconcile", "telemetry")
    /\ IF seen THEN Goes("reconcile", "reporting") ELSE Goes("reconcile", "silent")
    /\ UNCHANGED <<fleet, open>>

Silent ==
    /\ At("reconcile", "silent")
    /\ status' = IF pass["reconcile"].was = "ONLINE" THEN "UNREACHABLE" ELSE status
    /\ LookUp("reconcile", NodeDown)
    /\ UNCHANGED <<up, seen, facts>>

Reporting ==
    /\ At("reconcile", "reporting")
    /\ ResolveAlert("reconcile", NodeDown)
    /\ UNCHANGED fleet

-----------------------------------------------------------------------------
(* evaluateAlerts: the nodes are read once, with their capacity.            *)

BeginEvaluate ==
    /\ At("evaluate", "idle")
    /\ pass' = [pass EXCEPT !["evaluate"] =
                  [Idle EXCEPT !.pc = "nodes", !.was = status, !.read = facts, !.todo = EvaluatedKeys]]
    /\ UNCHANGED <<fleet, open>>

\* Mutant of JudgesDown: only a node whose socket was closed counts as down.
JudgesOffline(s) == s = "OFFLINE"

JudgesDown(s) == s # "ONLINE"

JudgeNode ==
    /\ At("evaluate", "nodes")
    /\ IF JudgesDown(pass["evaluate"].was) THEN LookUp("evaluate", NodeDown)
                                           ELSE ResolveAlert("evaluate", NodeDown)
    /\ UNCHANGED fleet

\* The checks that follow, each raising or resolving: evaluateAlerts judges by
\* what it read with the nodes, reconcileFleet by what it reads now.  The drift
\* of a counter is raised and corrected, and its alert resolved by neither.
Judged(p) == IF p = "evaluate" THEN pass[p].read ELSE facts

Check(p) ==
    /\ At(p, "checks")
    /\ \E k \in pass[p].todo :
         \/ /\ k \in Judged(p)
            /\ pass' = [pass EXCEPT ![p].pc = IF k \in open THEN @ ELSE "opening",
                                    ![p].key = k, ![p].todo = @ \ {k}]
            /\ facts' = IF k \in DriftKeys THEN facts \ {k} ELSE facts
            /\ UNCHANGED open
         \/ /\ k \notin Judged(p)
            /\ pass' = [pass EXCEPT ![p].todo = @ \ {k}]
            /\ IF k \in DriftKeys THEN UNCHANGED open ELSE Resolves(k)
            /\ UNCHANGED facts
    /\ UNCHANGED <<up, status, seen>>

Ends(p) ==
    /\ At(p, "checks") /\ pass[p].todo = {}
    /\ pass' = [pass EXCEPT ![p] = Idle]
    /\ UNCHANGED <<fleet, open>>

\* "Manual acknowledgement."
Acknowledge ==
    /\ \E k \in open : Resolves(k)
    /\ UNCHANGED <<fleet, pass>>

-----------------------------------------------------------------------------
Step(p) == Open(p) \/ Check(p) \/ Ends(p)
Reconcile == BeginReconcile \/ ReadTelemetry \/ Silent \/ Reporting \/ Step("reconcile")
Evaluate == BeginEvaluate \/ JudgeNode \/ Step("evaluate")

Next ==
    \/ Heartbeat \/ Expire \/ Disconnect \/ Connect \/ MarkStale \/ FactsChange
    \/ Reconcile \/ Evaluate \/ Acknowledge

\* Heartbeats, expiries and the worker's passes recur.
Fairness ==
    /\ WF_vars(Heartbeat) /\ WF_vars(Expire)
    /\ WF_vars(Reconcile) /\ WF_vars(Evaluate)

Spec == Init /\ [][Next]_vars /\ Fairness

-----------------------------------------------------------------------------
(* Properties.                                                              *)

\* Statuses, facts, alerts and passes are of their kinds.
TypeOK ==
    /\ status \in {"ONLINE", "OFFLINE", "UNREACHABLE"}
    /\ facts \subseteq Keys /\ open \subseteq Keys
    /\ \A p \in Passes : pass[p].key \in Keys /\ pass[p].todo \subseteq Keys

Holds(k) == IF k = NodeDown THEN ~up ELSE k \in facts

\* "An alert that stops being true resolves itself on the next pass, which
\* keeps the open list a live picture of the fleet" (alerts.ts:7-9), and "The
\* next health pass re-raises it if still true" (admin/alerts/route.ts:23): two
\* passes that overlap, work on what they have read before and judge by
\* different columns still come to agree on every alert, which then stays as it
\* is until an administrator acknowledges it.
AlertsSettle ==
    \A k \in Keys : /\ <>[]Holds(k) /\ <>[][~Acknowledge]_vars => <>[](k \in open)
                    /\ k \notin DriftKeys => (<>[]~Holds(k) => <>[](k \notin open))

-----------------------------------------------------------------------------
(* What comments of the code say and the code does not do.                  *)

\* "a node down for an hour is one open alert rather than sixty notifications"
\* (alerts.ts:6-7): both passes may find none and notify.
OneNotice ==
    [][\A p \in Passes : pass[p].pc = "opening" /\ pass'[p].pc = "checks" =>
         pass[p].key \notin open]_vars
=============================================================================
