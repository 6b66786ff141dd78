----------------------------- MODULE MCSettling -----------------------------
(***************************************************************************)
(* One instance for the parts that promise to come to rest: the status of  *)
(* a server, alerts, and the builds agents run.  Each behaviour runs one   *)
(* of them, named by active, and leaves the variables of the others as     *)
(* they were.  No interaction is admitted.                                 *)
(***************************************************************************)
EXTENDS Integers

VARIABLES
    active,  \* the component whose steps are taken
    s_up, s_box, s_status, s_seen, s_onWay, s_recon,
    a_up, a_status, a_seen, a_facts, a_open, a_pass,
    u_installed, u_staged, u_running, u_taking, u_online, u_channel, u_push,
    u_releases, u_crashes

S == INSTANCE ServerStatus WITH Suspended <- FALSE, MaxOnWay <- 2, Admits <- {},
        up <- s_up, box <- s_box, status <- s_status, seen <- s_seen,
        onWay <- s_onWay, recon <- s_recon

A == INSTANCE Alerts WITH EvaluatedKeys <- {"node.capacity"}, FleetKeys <- {},
        DriftKeys <- {}, up <- a_up, status <- a_status, seen <- a_seen,
        facts <- a_facts, open <- a_open, pass <- a_pass

U == INSTANCE AgentUpdate WITH Nodes <- {"n1", "n2"}, Builds <- 1..2,
        BatchSize <- 1, MaxReleases <- 2, MaxCrashes <- 1, Admits <- {},
        installed <- u_installed, staged <- u_staged, running <- u_running,
        taking <- u_taking, online <- u_online, channel <- u_channel,
        push <- u_push, releases <- u_releases, crashes <- u_crashes

statusVars == <<s_up, s_box, s_status, s_seen, s_onWay, s_recon>>
alertsVars == <<a_up, a_status, a_seen, a_facts, a_open, a_pass>>
updateVars == <<u_installed, u_staged, u_running, u_taking, u_online, u_channel,
        u_push, u_releases, u_crashes>>

Init ==
    /\ active \in {"status", "alerts", "update"}
    /\ S!Init /\ A!Init /\ U!Init

Next ==
    /\ UNCHANGED active
    /\ \/ active = "status" /\ S!Next /\ UNCHANGED <<alertsVars, updateVars>>
       \/ active = "alerts" /\ A!Next /\ UNCHANGED <<statusVars, updateVars>>
       \/ active = "update" /\ U!Next /\ UNCHANGED <<statusVars, alertsVars>>

vars == <<active, statusVars, alertsVars, updateVars>>

Fairness ==
    /\ active = "status" => S!Fairness
    /\ active = "alerts" => A!Fairness
    /\ active = "update" => U!Fairness

Spec == Init /\ [][Next]_vars /\ Fairness

ASSUME ConstantsFit ==
    S!ServerStatusAssumption /\ A!AlertsAssumption /\ U!AgentUpdateAssumption

-----------------------------------------------------------------------------
(* The properties, one of each part.                                        *)

\* The status shown settles on what the container does: ServerStatus.
StatusSettles == active = "status" => S!StatusSettles

\* Alerts come to say what is the case: Alerts.
AlertsSettle == active = "alerts" => A!AlertsSettle

\* Every agent ends up running the build it has installed: AgentUpdate.
UpdatesSettle == active = "update" => U!UpdatesSettle
=============================================================================
