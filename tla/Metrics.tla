------------------------------ MODULE Metrics ------------------------------
(***************************************************************************)
(* The telemetry of one server (panel, lib/metrics.ts).  Heartbeats leave  *)
(* the last figures in Redis for a while; every minute the worker copies   *)
(* them into a row of that minute; every hour it averages the minutes      *)
(* older than two days into a row of their hour and deletes them.  The     *)
(* table is known by the minutes it holds and by the minutes each hour's   *)
(* row was made of.                                                        *)
(***************************************************************************)
EXTENDS Integers

CONSTANTS
    Hour,     \* minutes in an hour
    Retain,   \* MINUTE_RETENTION_HOURS, in minutes
    Expire,   \* HOUR_RETENTION_DAYS, in minutes
    MaxNow    \* a bound on time

MetricsAssumption ==
    {Hour, Retain, Expire, MaxNow} \subseteq Nat /\ Hour > 0 /\ Retain + Hour <= Expire

VARIABLES
    now,       \* the minute
    telemetry, \* Redis has figures of the node
    sampled,   \* every minute ever sampled
    minutes,   \* rows of resolution minute
    hours,     \* for each hour the minutes its row was made of, {} without one
    pass       \* the compaction under way: step, cutoff

vars == <<now, telemetry, sampled, minutes, hours, pass>>

HourOf(m) == m \div Hour
Hours == {HourOf(m) : m \in 0..MaxNow}
Idle == [step |-> "idle", cutoff |-> 0]

Init ==
    /\ now = 0 /\ telemetry = FALSE /\ sampled = {} /\ minutes = {}
    /\ hours = [h \in Hours |-> {}] /\ pass = Idle

-----------------------------------------------------------------------------
Tick ==
    /\ now < MaxNow /\ now' = now + 1
    /\ UNCHANGED <<telemetry, sampled, minutes, hours, pass>>

\* A heartbeat is kept for two minutes.
Heartbeat ==
    /\ telemetry' = ~telemetry
    /\ UNCHANGED <<now, sampled, minutes, hours, pass>>

\* A minute that was sampled before is left as it is.
Sample ==
    /\ telemetry
    /\ sampled' = sampled \cup {now} /\ minutes' = minutes \cup {now}
    /\ UNCHANGED <<now, telemetry, hours, pass>>

Old(m) == m < pass.cutoff

Compact ==
    /\ pass = Idle /\ now >= Retain
    /\ pass' = [step |-> "insert", cutoff |-> now - Retain]
    /\ UNCHANGED <<now, telemetry, sampled, minutes, hours>>

OldOf(h) == {m \in minutes : Old(m) /\ HourOf(m) = h}

\* An hour that has its row keeps it: on conflict do nothing.
Insert ==
    /\ pass.step = "insert"
    /\ hours' = [h \in Hours |-> IF hours[h] = {} THEN OldOf(h) ELSE hours[h]]
    /\ pass' = [pass EXCEPT !.step = "delete"]
    /\ UNCHANGED <<now, telemetry, sampled, minutes>>

\* Mutant of Kept: the cutoff is taken anew for the deletion.
KeptNow == {m \in minutes : m >= now - Retain}

Kept == {m \in minutes : ~Old(m)}

DeleteMinutes ==
    /\ pass.step = "delete"
    /\ minutes' = Kept /\ pass' = [pass EXCEPT !.step = "expire"]
    /\ UNCHANGED <<now, telemetry, sampled, hours>>

ExpireHours ==
    /\ pass.step = "expire"
    /\ hours' = [h \in Hours |-> IF h * Hour < now - Expire THEN {} ELSE hours[h]]
    /\ pass' = Idle
    /\ UNCHANGED <<now, telemetry, sampled, minutes>>

\* The worker dies, or a statement fails: the next pass begins from the start.
Break ==
    /\ pass # Idle /\ pass' = Idle
    /\ UNCHANGED <<now, telemetry, sampled, minutes, hours>>

Next ==
    \/ Tick \/ Heartbeat \/ Sample
    \/ Compact \/ Insert \/ DeleteMinutes \/ ExpireHours \/ Break

Spec == Init /\ [][Next]_vars

-----------------------------------------------------------------------------
(* Properties.                                                              *)

\* Minutes, hours and the pass are of their kinds.
TypeOK ==
    /\ now \in 0..MaxNow /\ telemetry \in BOOLEAN /\ minutes \subseteq sampled /\ sampled \subseteq 0..now
    /\ hours \in [Hours -> SUBSET sampled]
    /\ pass.step \in {"idle", "insert", "delete", "expire"} /\ pass.cutoff \in 0..MaxNow

\* Nothing that was sampled drops out of what a customer is shown: every minute
\* is in the table, or its hour has a row, until that hour has expired; what is
\* younger than the retention is there as itself; and an hour's row is made of
\* minutes of that hour only.  Wherever a pass breaks off, at whatever moment
\* one begins, however long it takes and whatever is sampled meanwhile.
MinutesKept ==
    /\ \A m \in sampled : \/ m \in minutes \/ hours[HourOf(m)] # {}
                          \/ HourOf(m) * Hour < now - Expire
    /\ \A m \in sampled : m >= now - Retain => m \in minutes
    /\ \A h \in Hours : \A m \in hours[h] : HourOf(m) = h

-----------------------------------------------------------------------------
(* What comments of the code say and the code does not do.                  *)

\* "Average each hour's minutes into one row" (lib/metrics.ts:65): a cutoff is
\* hardly ever the start of an hour, so an hour's row is made of the minutes
\* before it, and those after it are deleted by the next pass without a trace.
WholeHours ==
    \A m \in sampled : \/ m \in minutes \/ m \in hours[HourOf(m)]
                       \/ HourOf(m) * Hour < now - Expire
=============================================================================
