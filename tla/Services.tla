------------------------------ MODULE Services ------------------------------
(***************************************************************************)
(* The parts of the panel, the worker, the gateway and the agent that      *)
(* stand beside each other, in one specification: each behaviour runs one  *)
(* of them, named by active, and leaves the variables of the others as     *)
(* they were.  No interaction is admitted: what each admits, and which     *)
(* property it then breaks, is in the modules and in the README.           *)
(***************************************************************************)
EXTENDS Integers

CONSTANTS  \* of each part, by its letter
    B_MaxId, B_Tabs, B_Limit, B_Keep, B_MaxMinute, B_Due, B_LockMinutes, B_MaxPlays, B_MaxLate,
    S_Suspended, S_MaxOnWay,
    A_EvaluatedKeys, A_FleetKeys, A_DriftKeys,
    C_Tabs, C_MaxSets, C_MaxOnWay, C_MaxFaults,
    D_Names, D_Requests, D_Limit, D_MaxSecret,
    U_Nodes, U_Builds, U_BatchSize, U_MaxReleases, U_MaxCrashes,
    G_Tabs, G_MaxSaves,
    V_Tabs, V_MaxSaves,
    N_Nodes, N_Servers,
    L_Requests, L_Limit, L_MaxAttempts,
    M_Hour, M_Retain, M_Expire, M_MaxNow

VARIABLES
    active,  \* the component whose steps are taken
    b_row, b_file, b_dirs, b_job, b_cmds, b_runs, b_clock, b_lock, b_lastRun,
    b_fired, b_asked,
    s_up, s_box, s_status, s_seen, s_onWay, s_recon,
    a_up, a_status, a_seen, a_facts, a_open, a_pass,
    c_tickets, c_sock, c_setOf, c_current, c_made, c_toAgent, c_slow, c_attached,
    c_streams, c_faults, c_faultAt,
    d_schemas, d_users, d_rows, d_req, d_secrets, d_dropped, d_leaving,
    u_installed, u_staged, u_running, u_taking, u_online, u_channel, u_push,
    u_releases, u_crashes,
    g_file, g_told, g_form, g_req, g_saves,
    v_environment, v_env, v_told, v_form, v_req, v_up, v_mods, v_saves,
    n_node, n_home, n_made, n_jobs, n_move, n_drain, n_erase,
    l_attempts, l_expires, l_req, l_session,
    m_now, m_telemetry, m_sampled, m_minutes, m_hours, m_pass

B == INSTANCE Backups WITH MaxId <- B_MaxId, Tabs <- B_Tabs, Limit <- B_Limit,
        Keep <- B_Keep, MaxMinute <- B_MaxMinute, Due <- B_Due,
        LockMinutes <- B_LockMinutes, MaxPlays <- B_MaxPlays, MaxLate <- B_MaxLate,
        Admits <- {}, row <- b_row, file <- b_file, dirs <- b_dirs, job <- b_job,
        cmds <- b_cmds, runs <- b_runs, clock <- b_clock, lock <- b_lock,
        lastRun <- b_lastRun, fired <- b_fired, asked <- b_asked

S == INSTANCE ServerStatus WITH Suspended <- S_Suspended, MaxOnWay <- S_MaxOnWay,
        Admits <- {}, up <- s_up, box <- s_box, status <- s_status, seen <- s_seen,
        onWay <- s_onWay, recon <- s_recon

A == INSTANCE Alerts WITH EvaluatedKeys <- A_EvaluatedKeys,
        FleetKeys <- A_FleetKeys, DriftKeys <- A_DriftKeys, up <- a_up,
        status <- a_status, seen <- a_seen, facts <- a_facts, open <- a_open,
        pass <- a_pass

C == INSTANCE Console WITH Tabs <- C_Tabs, MaxSets <- C_MaxSets,
        MaxOnWay <- C_MaxOnWay, MaxFaults <- C_MaxFaults, Admits <- {},
        tickets <- c_tickets, sock <- c_sock, setOf <- c_setOf,
        current <- c_current, made <- c_made, toAgent <- c_toAgent, slow <- c_slow,
        attached <- c_attached, streams <- c_streams, faults <- c_faults,
        faultAt <- c_faultAt

D == INSTANCE Databases WITH Names <- D_Names, Requests <- D_Requests,
        Limit <- D_Limit, MaxSecret <- D_MaxSecret, Admits <- {},
        schemas <- d_schemas, users <- d_users, rows <- d_rows, req <- d_req,
        secrets <- d_secrets, dropped <- d_dropped, leaving <- d_leaving

U == INSTANCE AgentUpdate WITH Nodes <- U_Nodes, Builds <- U_Builds,
        BatchSize <- U_BatchSize, MaxReleases <- U_MaxReleases,
        MaxCrashes <- U_MaxCrashes, Admits <- {}, installed <- u_installed,
        staged <- u_staged, running <- u_running, taking <- u_taking,
        online <- u_online, channel <- u_channel, push <- u_push,
        releases <- u_releases, crashes <- u_crashes

G == INSTANCE GameSettings WITH Tabs <- G_Tabs, MaxSaves <- G_MaxSaves,
        Admits <- {}, file <- g_file, told <- g_told, form <- g_form, req <- g_req,
        saves <- g_saves

V == INSTANCE Startup WITH Tabs <- V_Tabs, MaxSaves <- V_MaxSaves, Admits <- {},
        environment <- v_environment, env <- v_env, told <- v_told, form <- v_form,
        req <- v_req, up <- v_up, mods <- v_mods, saves <- v_saves

N == INSTANCE NodeAdmin WITH Nodes <- N_Nodes, Servers <- N_Servers, Admits <- {},
        node <- n_node, home <- n_home, made <- n_made, jobs <- n_jobs,
        move <- n_move, drain <- n_drain, erase <- n_erase

L == INSTANCE Login WITH Requests <- L_Requests, Limit <- L_Limit,
        MaxAttempts <- L_MaxAttempts, Admits <- {}, attempts <- l_attempts,
        expires <- l_expires, req <- l_req, session <- l_session

M == INSTANCE Metrics WITH Hour <- M_Hour, Retain <- M_Retain, Expire <- M_Expire,
        MaxNow <- M_MaxNow, now <- m_now, telemetry <- m_telemetry,
        sampled <- m_sampled, minutes <- m_minutes, hours <- m_hours, pass <- m_pass

backupsVars == <<b_row, b_file, b_dirs, b_job, b_cmds, b_runs, b_clock, b_lock,
        b_lastRun, b_fired, b_asked>>
statusVars == <<s_up, s_box, s_status, s_seen, s_onWay, s_recon>>
alertsVars == <<a_up, a_status, a_seen, a_facts, a_open, a_pass>>
consoleVars == <<c_tickets, c_sock, c_setOf, c_current, c_made, c_toAgent, c_slow,
        c_attached, c_streams, c_faults, c_faultAt>>
databasesVars == <<d_schemas, d_users, d_rows, d_req, d_secrets, d_dropped,
        d_leaving>>
updateVars == <<u_installed, u_staged, u_running, u_taking, u_online, u_channel,
        u_push, u_releases, u_crashes>>
settingsVars == <<g_file, g_told, g_form, g_req, g_saves>>
startupVars == <<v_environment, v_env, v_told, v_form, v_req, v_up, v_mods,
        v_saves>>
nodesVars == <<n_node, n_home, n_made, n_jobs, n_move, n_drain, n_erase>>
loginVars == <<l_attempts, l_expires, l_req, l_session>>
metricsVars == <<m_now, m_telemetry, m_sampled, m_minutes, m_hours, m_pass>>

Init ==
    /\ active \in {"backups", "status", "alerts", "console", "databases", "update", "settings", "startup", "nodes", "login", "metrics"}
    /\ B!Init /\ S!Init /\ A!Init /\ C!Init /\ D!Init /\ U!Init /\ G!Init /\ V!Init /\ N!Init /\ L!Init /\ M!Init

Next ==
    /\ UNCHANGED active
    /\ \/ active = "backups" /\ B!Next /\ UNCHANGED <<statusVars, alertsVars,
          consoleVars, databasesVars, updateVars, settingsVars, startupVars,
          nodesVars, loginVars, metricsVars>>
       \/ active = "status" /\ S!Next /\ UNCHANGED <<backupsVars, alertsVars,
          consoleVars, databasesVars, updateVars, settingsVars, startupVars,
          nodesVars, loginVars, metricsVars>>
       \/ active = "alerts" /\ A!Next /\ UNCHANGED <<backupsVars, statusVars,
          consoleVars, databasesVars, updateVars, settingsVars, startupVars,
          nodesVars, loginVars, metricsVars>>
       \/ active = "console" /\ C!Next /\ UNCHANGED <<backupsVars, statusVars,
          alertsVars, databasesVars, updateVars, settingsVars, startupVars,
          nodesVars, loginVars, metricsVars>>
       \/ active = "databases" /\ D!Next /\ UNCHANGED <<backupsVars, statusVars,
          alertsVars, consoleVars, updateVars, settingsVars, startupVars, nodesVars,
          loginVars, metricsVars>>
       \/ active = "update" /\ U!Next /\ UNCHANGED <<backupsVars, statusVars,
          alertsVars, consoleVars, databasesVars, settingsVars, startupVars,
          nodesVars, loginVars, metricsVars>>
       \/ active = "settings" /\ G!Next /\ UNCHANGED <<backupsVars, statusVars,
          alertsVars, consoleVars, databasesVars, updateVars, startupVars,
          nodesVars, loginVars, metricsVars>>
       \/ active = "startup" /\ V!Next /\ UNCHANGED <<backupsVars, statusVars,
          alertsVars, consoleVars, databasesVars, updateVars, settingsVars,
          nodesVars, loginVars, metricsVars>>
       \/ active = "nodes" /\ N!Next /\ UNCHANGED <<backupsVars, statusVars,
          alertsVars, consoleVars, databasesVars, updateVars, settingsVars,
          startupVars, loginVars, metricsVars>>
       \/ active = "login" /\ L!Next /\ UNCHANGED <<backupsVars, statusVars,
          alertsVars, consoleVars, databasesVars, updateVars, settingsVars,
          startupVars, nodesVars, metricsVars>>
       \/ active = "metrics" /\ M!Next /\ UNCHANGED <<backupsVars, statusVars,
          alertsVars, consoleVars, databasesVars, updateVars, settingsVars,
          startupVars, nodesVars, loginVars>>

vars == <<active, backupsVars, statusVars, alertsVars, consoleVars, databasesVars, updateVars,
            settingsVars, startupVars, nodesVars, loginVars, metricsVars>>

Spec == Init /\ [][Next]_vars

ASSUME ServicesAssumption ==
    /\ B!BackupsAssumption /\ C!ConsoleAssumption /\ D!DatabasesAssumption
    /\ G!GameSettingsAssumption /\ V!StartupAssumption /\ M!MetricsAssumption
    /\ S!ServerStatusAssumption /\ A!AlertsAssumption /\ U!AgentUpdateAssumption
    /\ N!NodeAdminAssumption /\ L!LoginAssumption

-----------------------------------------------------------------------------
(* The properties, one or more of each part.                                *)

\* Every variable of every part is of its kind.
TypeOK ==
    /\ active = "backups" => B!TypeOK
    /\ active = "console" => C!TypeOK
    /\ active = "databases" => D!TypeOK
    /\ active = "settings" => G!TypeOK
    /\ active = "startup" => V!TypeOK
    /\ active = "metrics" => M!TypeOK
    /\ active = "status" => S!TypeOK
    /\ active = "alerts" => A!TypeOK
    /\ active = "update" => U!TypeOK
    /\ active = "nodes" => N!TypeOK
    /\ active = "login" => L!TypeOK

\* A restore never loses the world: Backups.
WorldKept == active = "backups" => B!WorldKept

\* Backups listed can be restored, and the schedule takes and keeps what it
\* says: Backups.
BackupsKept == active = "backups" => B!Restorable /\ B!ScheduleKept

\* Who has the console open sees the log: Console.
Served == active = "console" => C!Served

\* Rows and the database host agree: Databases.
RowsTellTheHost == active = "databases" => D!RowsTellTheHost

\* What was saved stays saved: GameSettings, Startup.
SavedStays ==
    /\ active = "settings" => G!SavedStays
    /\ active = "startup" => V!SavedStays

\* Servers live on nodes that exist, and a drained node is empty: NodeAdmin.
NodesAccounted == active = "nodes" => N!NodesAccounted

\* A counter of attempts to sign in runs out: Login.
KeyRunsOut == active = "login" => L!KeyRunsOut

\* No minute of telemetry is lost: Metrics.
MinutesKept == active = "metrics" => M!MinutesKept
=============================================================================
