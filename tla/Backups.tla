------------------------------ MODULE Backups ------------------------------
(***************************************************************************)
(* The backups of one server (lib/backups.ts): taken, restored and deleted *)
(* from browser tabs (components/backup-manager.tsx) and, once a minute,   *)
(* by the worker, each a row of table Backup and an archive on the node    *)
(* (agent/src/providers/docker.ts, storage/local.ts).  A call to the agent *)
(* may be lost, refused, or outlive its timeout and be executed all the    *)
(* same.  Every archive has size 1; ids are given out in the order of      *)
(* createdAt.  A world is the number of times it has been played on.       *)
(* The passes of the worker are WorkerLock's matter: here one pass runs at *)
(* a time, and a suspended server is one whose schedule does not fire.     *)
(***************************************************************************)
EXTENDS Integers, FiniteSets

CONSTANTS
    MaxId,      \* a bound on the backups taken
    Tabs,       \* browser tabs of the customer
    Limit,      \* Plan.backupMb, in archives
    Keep,       \* BackupSchedule.keepCount
    MaxMinute,  \* a bound on the clock
    Due,        \* the minutes at which the schedule fires
    LockMinutes, \* the lifetime of the lock backups.scheduled
    MaxPlays,   \* a bound on the versions of the world
    MaxLate,    \* a bound on the commands executed after their timeout
    Admits      \* the interactions of the code this instance explores

(***************************************************************************)
(* The interactions the code permits and that an instance may switch on:   *)
(*   two-restores   a second restore starts while one is executed          *)
(*   power          the server is started while its world is replaced      *)
(*   agent          the agent dies inside a restore                        *)
(***************************************************************************)
Ids == 1..MaxId
Worker == "worker"
Actors == Tabs \cup {Worker}
Absent == -1        \* no directory or file
Empty == -2         \* a directory just made
Torn == -3          \* parts of two archives in one directory
NoId == 0
NoMinute == -1

BackupsAssumption ==
    /\ {MaxId, Limit, Keep, MaxMinute, LockMinutes, MaxPlays, MaxLate} \subseteq Nat
    /\ Keep > 0 /\ Worker \notin Tabs /\ Due \subseteq Nat
    /\ Admits \subseteq {"two-restores", "power", "agent"}

VARIABLES
    row,      \* table Backup: none, incomplete, complete or deleted
    file,     \* the archives on the node
    dirs,     \* the world's directory, and the two a restore makes beside it
    job,      \* what each tab and the worker wait for
    cmds,     \* commands the agent executes
    runs,     \* the game server: stopped, on the world, or on a directory moved away
    clock,    \* minutes
    lock,     \* the minute until which worker:lock:backups.scheduled is held
    lastRun,  \* BackupSchedule.lastRunAt
    fired,    \* by minute, the scheduled backups begun in it
    asked     \* archives whose deletion was asked for

vars == <<row, file, dirs, job, cmds, runs, clock, lock, lastRun, fired, asked>>
panel == <<row, job, cmds, asked>>
sched == <<clock, lock, lastRun, fired>>
node == <<file, dirs, runs>>

Waiting == {"archiving", "stopping", "restoring", "deleting"}
Idle == [pc |-> "idle", id |-> NoId, got |-> "none", list |-> {}, at |-> NoMinute]

Init ==
    /\ row = [i \in Ids |-> "none"]
    /\ file = [i \in Ids |-> Absent]
    /\ dirs = [world |-> 0, staging |-> Absent, previous |-> Absent]
    /\ job = [a \in Actors |-> Idle]
    /\ cmds = {}
    /\ runs \in {"stopped", "live"}
    /\ clock = 0 /\ lock = NoMinute /\ lastRun = NoMinute
    /\ fired = [m \in 0..MaxMinute |-> 0]
    /\ asked = {}

-----------------------------------------------------------------------------
(* A call to the agent.                                                     *)

Restoring == {c \in cmds : c.op = "restore"}
Late == {c \in cmds : ~c.awaited}
Awaited(a) == {c \in cmds : c.by = a /\ c.awaited}
GivenUp(a) == (cmds \ Awaited(a)) \cup {[c EXCEPT !.awaited = FALSE] : c \in Awaited(a)}
MayOutlive(a) ==
    /\ Cardinality(Late \cup Awaited(a)) <= MaxLate
    /\ Awaited(a) \cap Restoring = {} \/ "two-restores" \in Admits

\* The caller waits at pc; the command reaches the agent or is lost.
Calls(a, op, i, pc, list) ==
    /\ job' = [job EXCEPT ![a] = [@ EXCEPT !.pc = pc, !.id = i, !.got = "none", !.list = list]]
    /\ \/ cmds' = cmds \cup {[op |-> op, id |-> i, by |-> a, step |-> "begin", awaited |-> TRUE]}
       \/ UNCHANGED cmds

\* The timer fires.
Timeout(a) ==
    /\ job[a].pc \in Waiting /\ job[a].got = "none" /\ MayOutlive(a)
    /\ job' = [job EXCEPT ![a].got = "error"]
    /\ cmds' = GivenUp(a)
    /\ UNCHANGED <<row, asked, node, sched>>

\* A command has been executed or refused.
Answers(c, answer) ==
    /\ cmds' = cmds \ {c}
    /\ job' = IF c.awaited THEN [job EXCEPT ![c.by].got = answer] ELSE job

-----------------------------------------------------------------------------
(* lib/backups.ts.                                                          *)

\* A tab's request ends; the worker goes on with its pass.
GoesTo(a, pc) == job' = [job EXCEPT ![a].pc = pc, ![a].got = "none"]
Ends(a) == IF a = Worker THEN GoesTo(a, "pruning") ELSE job' = [job EXCEPT ![a] = Idle]
Restorer(a) == job[a].pc \in {"stopping", "restoring"}

\* The quota is read here and used when the row is written.
Used == Cardinality({i \in Ids : row[i] = "complete"})
WithinQuota == Used < Limit

Create(a) ==
    /\ job[a].pc = "idle" /\ WithinQuota
    /\ GoesTo(a, "checked")
    /\ UNCHANGED <<row, asked, cmds, node, sched>>

WriteRow(a) ==
    /\ job[a].pc = "checked"
    /\ \E i \in Ids :
         /\ row[i] = "none" /\ \A j \in Ids : j < i => row[j] # "none"
         /\ row' = [row EXCEPT ![i] = "incomplete"]
         /\ Calls(a, "archive", i, "archiving", {})
    /\ UNCHANGED <<asked, node, sched>>

\* Mutant of Completes: the row is marked complete whatever the call returned.
CompletesRegardless(a) == row[job[a].id] = "incomplete"

Completes(a) == row[job[a].id] = "incomplete" /\ job[a].got = "ok"

\* The row is completed, or deleted again; a row deleted meanwhile is an error.
Archived(a) ==
    /\ job[a].pc = "archiving" /\ job[a].got # "none"
    /\ row' = [row EXCEPT ![job[a].id] = IF Completes(a) THEN "complete" ELSE "deleted"]
    /\ IF a = Worker /\ Completes(a) THEN GoesTo(a, "listing") ELSE Ends(a)
    /\ UNCHANGED <<asked, cmds, node, sched>>

\* The process dies during the call: the row stays incomplete, the lock held.
Dies(a) ==
    /\ job[a].pc = "archiving" /\ MayOutlive(a)
    /\ job' = [job EXCEPT ![a] = Idle]
    /\ cmds' = GivenUp(a)
    /\ UNCHANGED <<row, asked, node, sched>>

Restore(a, i) ==
    /\ job[a].pc = "idle" /\ row[i] = "complete"
    /\ "two-restores" \in Admits \/ \A b \in Actors : ~Restorer(b)
    /\ Calls(a, "stop", i, "stopping", {})
    /\ UNCHANGED <<row, asked, node, sched>>

\* Mutant of MayRestore: the answer of the stop is not looked at.
MayRestoreAnyway(a) == TRUE

MayRestore(a) == job[a].got = "ok"

Stopped(a) ==
    /\ job[a].pc = "stopping" /\ job[a].got # "none"
    /\ IF MayRestore(a) THEN Calls(a, "restore", job[a].id, "restoring", {})
                        ELSE Ends(a) /\ UNCHANGED cmds
    /\ UNCHANGED <<row, asked, node, sched>>

Restored(a) ==
    /\ job[a].pc = "restoring" /\ job[a].got # "none"
    /\ Ends(a)
    /\ UNCHANGED <<row, asked, cmds, node, sched>>

\* deleteBackup: the archive first, then the row.
Delete(a, i) ==
    /\ job[a].pc = "idle" /\ row[i] \in {"incomplete", "complete"}
    /\ asked' = asked \cup {i}
    /\ Calls(a, "delete", i, "deleting", {})
    /\ UNCHANGED <<row, node, sched>>

Deleted(a) ==
    /\ job[a].pc = "deleting" /\ job[a].got # "none"
    /\ row' = IF job[a].got = "ok" THEN [row EXCEPT ![job[a].id] = "deleted"] ELSE row
    /\ Ends(a)
    /\ UNCHANGED <<asked, cmds, node, sched>>

-----------------------------------------------------------------------------
(* runScheduledBackups and pruneBackups, in a pass of the worker.           *)

\* Mutant of Fires: the guard against the same minute is gone.
FiresAgain == clock \in Due

Fires == clock \in Due /\ lastRun # clock

\* The lock is taken for longer than the minute that fires.
Pass ==
    /\ job[Worker].pc = "idle" /\ lock = NoMinute /\ Fires
    /\ lock' = clock + LockMinutes
    /\ fired' = [fired EXCEPT ![clock] = @ + 1]
    /\ job' = [job EXCEPT ![Worker].pc = IF WithinQuota THEN "checked" ELSE "pruning",
                          ![Worker].at = clock]
    /\ UNCHANGED <<row, asked, cmds, node, clock, lastRun>>

Completed == {i \in Ids : row[i] = "complete"}

\* Mutant of Stale: the oldest are kept.
StaleNewest == {i \in Completed : Cardinality({j \in Completed : j < i}) >= Keep}

Stale == {i \in Completed : Cardinality({j \in Completed : j > i}) >= Keep}

\* The list is read once.
ListStale ==
    /\ job[Worker].pc = "listing"
    /\ job' = [job EXCEPT ![Worker].pc = "pruning", ![Worker].list = Stale]
    /\ UNCHANGED <<row, asked, cmds, node, sched>>

\* deleteBackup of each, a failure being logged; the newest of them first.
Prune ==
    /\ job[Worker].pc = "pruning" /\ job[Worker].list # {}
    /\ LET i == CHOOSE k \in job[Worker].list : \A j \in job[Worker].list : k >= j
       IN  /\ asked' = asked \cup {i}
           /\ Calls(Worker, "delete", i, "deleting", job[Worker].list \ {i})
    /\ UNCHANGED <<row, node, sched>>

PassEnds ==
    /\ job[Worker].pc = "pruning" /\ job[Worker].list = {}
    /\ lastRun' = job[Worker].at /\ lock' = NoMinute
    /\ job' = [job EXCEPT ![Worker] = Idle]
    /\ UNCHANGED <<row, asked, cmds, node, clock, fired>>

Minute ==
    /\ clock < MaxMinute
    /\ clock' = clock + 1
    /\ lock' = IF lock = clock + 1 THEN NoMinute ELSE lock
    /\ UNCHANGED <<panel, node, lastRun, fired>>

-----------------------------------------------------------------------------
(* The node: one step per change of its files.                              *)

Goes(c, step) ==
    /\ cmds' = (cmds \ {c}) \cup {[c EXCEPT !.step = step]}
    /\ UNCHANGED job

\* createBackup: the archive is what the directory held, or fails without one.
TakeArchive(c) ==
    /\ c.op = "archive"
    /\ \/ dirs.world # Absent /\ file' = [file EXCEPT ![c.id] = dirs.world] /\ Answers(c, "ok")
       \/ Answers(c, "error") /\ UNCHANGED file
    /\ UNCHANGED <<dirs, runs>>

DeleteArchive(c) ==
    /\ c.op = "delete"
    /\ file' = [file EXCEPT ![c.id] = Absent]
    /\ Answers(c, "ok")
    /\ UNCHANGED <<dirs, runs>>

StopServer(c) ==
    /\ c.op = "stop"
    /\ runs' = "stopped"
    /\ Answers(c, "ok")
    /\ UNCHANGED <<file, dirs>>

\* restoreBackup, lines 335-346: a fresh directory beside the world.
Stage(c) ==
    /\ c.op = "restore" /\ c.step = "begin"
    /\ \/ file[c.id] = Absent /\ Answers(c, "error") /\ UNCHANGED dirs
       \/ file[c.id] # Absent /\ Goes(c, "extracting") /\ dirs' = [dirs EXCEPT !.staging = Empty]
    /\ UNCHANGED <<file, runs>>

Extract(c) ==
    /\ c.step = "extracting"
    /\ \/ /\ file[c.id] # Absent
          /\ dirs' = [dirs EXCEPT !.staging = IF @ \in {Absent, Empty} THEN file[c.id] ELSE Torn]
          /\ Goes(c, "swapping")
       \/ dirs' = [dirs EXCEPT !.staging = Absent] /\ Answers(c, "error")
    /\ UNCHANGED <<file, runs>>

\* The last previous world goes, and the live one takes its place, if there is one.
SwapOut(c) ==
    /\ c.step = "swapping"
    /\ dirs' = [dirs EXCEPT !.previous = dirs.world, !.world = Absent]
    /\ runs' = IF runs = "live" THEN "moved-away" ELSE runs
    /\ Goes(c, "swapped")
    /\ UNCHANGED file

SwapIn(c) ==
    /\ c.step = "swapped"
    /\ IF dirs.staging # Absent
       THEN dirs' = [dirs EXCEPT !.world = dirs.staging, !.staging = Absent] /\ Goes(c, "cleaning")
       ELSE Answers(c, "error") /\ UNCHANGED dirs
    /\ UNCHANGED <<file, runs>>

DropPrevious(c) ==
    /\ c.step = "cleaning"
    /\ dirs' = [dirs EXCEPT !.previous = Absent]
    /\ Answers(c, "ok")
    /\ UNCHANGED <<file, runs>>

Execute(c) ==
    /\ \/ TakeArchive(c) \/ DeleteArchive(c) \/ StopServer(c)
       \/ Stage(c) \/ Extract(c) \/ SwapOut(c) \/ SwapIn(c) \/ DropPrevious(c)
    /\ UNCHANGED <<row, asked, sched>>

\* The agent dies, and whoever waits gets no answer.
AgentDies ==
    /\ cmds # {} /\ ("agent" \in Admits \/ Restoring = {})
    /\ cmds' = {}
    /\ UNCHANGED <<row, job, asked, node, sched>>

\* The customer starts the server, and plays.
Start ==
    /\ runs = "stopped" /\ dirs.world # Absent
    /\ "power" \in Admits \/ \A a \in Actors : ~Restorer(a)
    /\ runs' = "live"
    /\ UNCHANGED <<panel, file, dirs, sched>>

Play ==
    /\ runs = "live" /\ dirs.world \in 0..(MaxPlays - 1)
    /\ dirs' = [dirs EXCEPT !.world = @ + 1]
    /\ UNCHANGED <<panel, file, runs, sched>>

-----------------------------------------------------------------------------
Next ==
    \/ \E a \in Tabs : Create(a) \/ \E i \in Ids : Restore(a, i) \/ Delete(a, i)
    \/ \E a \in Actors : \/ WriteRow(a) \/ Archived(a) \/ Dies(a) \/ Stopped(a)
                         \/ Restored(a) \/ Deleted(a) \/ Timeout(a)
    \/ Pass \/ ListStale \/ Prune \/ PassEnds \/ Minute
    \/ \E c \in cmds : Execute(c)
    \/ AgentDies \/ Start \/ Play

Spec == Init /\ [][Next]_vars

-----------------------------------------------------------------------------
(* Properties.                                                              *)

Contents == (0..MaxPlays) \cup {Absent, Empty, Torn}

\* Rows, files, waiting requests and commands are of their kinds.
TypeOK ==
    /\ row \in [Ids -> {"none", "incomplete", "complete", "deleted"}]
    /\ file \in [Ids -> Contents]
    /\ dirs \in [world : Contents, staging : Contents, previous : Contents]
    /\ \A a \in Actors : /\ job[a].pc \in Waiting \cup {"idle", "checked", "listing", "pruning"}
                         /\ job[a].id \in 0..MaxId /\ job[a].list \subseteq Ids
    /\ runs \in {"stopped", "live", "moved-away"}
    /\ \A c \in cmds : c.op \in {"archive", "delete", "stop", "restore"} /\ c.by \in Actors

\* "A failed restore leaves the original world untouched rather than
\* half-overwritten" (docker.ts:341-342): the world's directory is never a
\* mixture or empty, it is missing only while a restore that has the whole
\* archive beside it is about to move that in, and no server runs on the
\* directory moved away ("the server is stopped first", backups.ts:68).
WorldKept ==
    /\ dirs.world \notin {Torn, Empty}
    /\ runs # "moved-away"
    /\ \A c \in cmds : c.step = "cleaning" => dirs.world = file[c.id] \/ c.id \in asked
    /\ dirs.world = Absent => \E c \in cmds : c.step = "swapped" /\ dirs.staging >= 0

\* A backup shown as completed can be restored: its archive is whole, and
\* missing only once its deletion was asked for (backups.ts:31-32, 95-98).
Restorable ==
    \A i \in Ids : row[i] = "complete" => file[i] >= 0 \/ i \in asked

\* "Keeps the newest keep backups" (backups.ts:145): what a pass is going to
\* delete has Keep newer ones, counting those a customer deletes meanwhile ...
KeepsNewest ==
    \A i \in job[Worker].list :
        Cardinality({j \in Completed \cup asked : j > i}) >= Keep

\* ... and a schedule fires once in its minute, however many passes start and
\* die in it (backups.ts:126).
OncePerMinute == \A m \in DOMAIN fired : fired[m] <= 1

ScheduleKept == KeepsNewest /\ OncePerMinute
=============================================================================
