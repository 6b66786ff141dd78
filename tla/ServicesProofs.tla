--------------------------- MODULE ServicesProofs ---------------------------
(***************************************************************************)
(* Proofs about the parts of Services: what each promises, for every value *)
(* of its constants.  Each part has a section, which ends in three lemmas: *)
(* its invariant holds at the start (Starts), after every step (Step), and *)
(* says what the part promises (Typed, Hold).  The last section puts them  *)
(* together: only one part takes steps, and the others do not disturb it.  *)
(***************************************************************************)
EXTENDS Services, Sequences, FiniteSetTheorems, WellFoundedInduction, TLAPS

-----------------------------------------------------------------------------
(* Backups: a call that is waited for is the one its caller made; an        *)
(* archive is written once, by the call that took its id; one restore at a  *)
(* time has the directories, of a server that is stopped.                   *)

Whole == 0..B_MaxPlays
Steps == {"begin", "extracting", "swapping", "swapped", "cleaning"}
JobType == [pc : B!Waiting \cup {"idle", "checked", "listing", "pruning"}, id : 0..B_MaxId,
            got : {"none", "ok", "error"}, list : SUBSET B!Ids, at : Int]
CmdType == [op : {"archive", "stop", "restore", "delete"}, id : B!Ids, by : B!Actors, step : Steps,
            awaited : BOOLEAN]
WaitsAt(op) ==
    IF op = "archive" THEN "archiving" ELSE IF op = "stop" THEN "stopping"
    ELSE IF op = "restore" THEN "restoring" ELSE "deleting"

DirsType ==
    [world : Whole \cup {B!Absent}, staging : Whole \cup {B!Absent, B!Empty}, previous : Whole \cup {B!Absent}]

BackupsKinds ==
    /\ b_row \in [B!Ids -> {"none", "incomplete", "complete", "deleted"}] /\ b_asked \subseteq B!Ids
    /\ b_file \in [B!Ids -> Whole \cup {B!Absent}]
    /\ b_dirs \in DirsType
    /\ b_job \in [B!Actors -> JobType] /\ b_cmds \subseteq CmdType
    /\ b_runs \in {"stopped", "live"}

Matched ==
    /\ \A c \in b_cmds :
          /\ c.awaited => b_job[c.by].pc = WaitsAt(c.op) /\ b_job[c.by].id = c.id /\ b_job[c.by].got = "none"
          /\ c.op = "restore" => c.awaited
          /\ c.step # "begin" => c.op = "restore"
    /\ \A c, d \in b_cmds : c.awaited /\ d.awaited /\ c.by = d.by => c = d

Restorers ==
    /\ \A a, b \in B!Actors : B!Restorer(a) /\ B!Restorer(b) => a = b
    /\ \A a \in B!Actors :
          /\ B!Restorer(a) => b_row[b_job[a].id] = "complete" \/ b_job[a].id \in b_asked
          /\ B!Restorer(a) => a # B!Worker /\ b_job[a].id \in B!Ids
          /\ b_job[a].pc = "restoring" \/ (b_job[a].pc = "stopping" /\ b_job[a].got = "ok") => b_runs = "stopped"

Deleters ==
    /\ \A a \in B!Actors : b_job[a].pc = "deleting" => b_job[a].id \in b_asked
    /\ \A c \in b_cmds : c.op = "delete" => c.id \in b_asked

Archives ==
    /\ \A a \in B!Actors : b_job[a].pc = "archiving" =>
          /\ b_job[a].id \in B!Ids /\ b_row[b_job[a].id] \in {"incomplete", "deleted"}
          /\ b_job[a].got = "ok" =>
                /\ b_file[b_job[a].id] >= 0 \/ b_job[a].id \in b_asked
                /\ \A c \in b_cmds : c.op = "archive" => c.id # b_job[a].id
    /\ \A a, b \in B!Actors :
          b_job[a].pc = "archiving" /\ b_job[b].pc = "archiving" /\ b_job[a].id = b_job[b].id => a = b
    /\ \A c \in b_cmds : c.op = "archive" => b_row[c.id] \in {"incomplete", "deleted"}
    /\ \A c, d \in b_cmds : c.op = "archive" /\ d.op = "archive" /\ c.id = d.id => c = d

World ==
    /\ \A c \in b_cmds :
          /\ c.step = "extracting" => b_dirs.staging = B!Empty
          /\ c.step \in {"swapping", "swapped"} =>
                b_dirs.staging >= 0 /\ (b_dirs.staging = b_file[c.id] \/ c.id \in b_asked)
          /\ c.step = "cleaning" => b_dirs.world = b_file[c.id] \/ c.id \in b_asked
    /\ b_dirs.world = B!Absent => \E c \in b_cmds : c.step = "swapped"

Scheduled ==
    /\ b_clock \in 0..B_MaxMinute /\ b_lock \in Int /\ b_lastRun \in Int
    /\ b_fired \in [0..B_MaxMinute -> {0, 1}]
    /\ \A m \in 0..B_MaxMinute : b_fired[m] = 1 => m <= b_clock
    /\ b_fired[b_clock] = 1 =>
          IF b_job[B!Worker].pc = "idle" THEN b_lastRun = b_clock \/ b_lock >= b_clock
          ELSE b_job[B!Worker].at = b_clock /\ b_lock >= b_clock

BackupsInv ==
    /\ BackupsKinds /\ Matched /\ Restorers /\ Deleters /\ Archives /\ World /\ Scheduled
    /\ B!Restorable /\ B!KeepsNewest

\* Of the archive with this id there is nothing left to be afraid of losing.
Kept(i) == b_row[i] = "complete" \/ i \in b_asked
Waits(a) == b_job[a].pc \in B!Waiting /\ b_job[a].got = "none"

LEMMA BackupsStarts == ASSUME B!BackupsAssumption, B!Init PROVE BackupsInv
<1>0. B_MaxId \in Nat /\ B_MaxPlays \in Nat /\ B_MaxMinute \in Nat
    BY DEF B!BackupsAssumption
<1>1. B!Idle \in JobType /\ B!Idle.pc = "idle" /\ B!Idle.list = {}
    BY <1>0 DEF B!Idle, JobType, B!NoId, B!NoMinute
<1>2. \A a \in B!Actors : b_job[a] = B!Idle
    BY DEF B!Init
<1>3. BackupsKinds
    <2>1. b_row \in [B!Ids -> {"none", "incomplete", "complete", "deleted"}] /\ b_asked = {} /\ b_cmds = {}
        BY DEF B!Init
    <2>2. b_file \in [B!Ids -> Whole \cup {B!Absent}] /\ b_job \in [B!Actors -> JobType]
        BY <1>1 DEF B!Init
    <2>3. b_dirs \in DirsType
        BY <1>0 DEF B!Init, Whole, DirsType
    <2>4. b_runs \in {"stopped", "live"}
        BY DEF B!Init
    <2> QED
        BY <2>1, <2>2, <2>3, <2>4 DEF BackupsKinds
<1>4. b_cmds = {} /\ b_dirs.world = 0 /\ B!Worker \in B!Actors /\ \A i \in B!Ids : b_row[i] = "none"
    BY DEF B!Init, B!Actors
<1>5. Matched /\ Restorers /\ Deleters /\ Archives
    BY <1>1, <1>2, <1>4 DEF Matched, Restorers, Deleters, Archives, B!Restorer
<1>6. World
    BY <1>4 DEF World, B!Absent
<1>7. Scheduled
    BY <1>0 DEF Scheduled, B!Init, B!NoMinute
<1>8. B!Restorable /\ B!KeepsNewest
    BY <1>1, <1>2, <1>4 DEF B!Restorable, B!KeepsNewest
<1> QED
    BY <1>3, <1>5, <1>6, <1>7, <1>8 DEF BackupsInv

-----------------------------------------------------------------------------
\* One request at a time restores, and it is the one that waits for the command.
LEMMA OneRestore ==
    ASSUME BackupsKinds, Matched, Restorers
    PROVE  /\ \A c, d \in b_cmds : c.op = "restore" /\ d.op = "restore" => c = d
           /\ \A c \in b_cmds : c.op = "restore" =>
                 b_runs = "stopped" /\ Kept(c.id) /\ B!Restorer(c.by) /\ c.by \in B!Actors
<1>1. ASSUME NEW c \in b_cmds, c.op = "restore"
      PROVE  c.awaited /\ c.by \in B!Actors /\ b_job[c.by].pc = "restoring" /\ b_job[c.by].id = c.id
    <2>1. c.by \in B!Actors
        BY DEF BackupsKinds, CmdType
    <2> QED
        BY <1>1, <2>1 DEF Matched, WaitsAt
<1>2. ASSUME NEW c \in b_cmds, c.op = "restore"
      PROVE  b_runs = "stopped" /\ Kept(c.id) /\ B!Restorer(c.by) /\ c.by \in B!Actors
    BY <1>1, <1>2 DEF Restorers, B!Restorer, Kept
<1>3. ASSUME NEW c \in b_cmds, NEW d \in b_cmds, c.op = "restore", d.op = "restore" PROVE c = d
    <2>1. c.by = d.by
        BY <1>2, <1>3 DEF Restorers
    <2> QED
        BY <1>1, <1>3, <2>1 DEF Matched
<1> QED
    BY <1>2, <1>3

-----------------------------------------------------------------------------
(* What a step that changes the request of one actor leaves as it was.      *)

Others(a) == \A b \in B!Actors : b # a => b_job'[b] = b_job[b]

LEMMA RestorersStay ==
    ASSUME Restorers, NEW a \in B!Actors, Others(a), \A i \in B!Ids : Kept(i) => Kept(i)',
           b_runs' = b_runs \/ b_runs' = "stopped",
           B!Restorer(a)' => B!Restorer(a) /\ b_job'[a].id = b_job[a].id,
           B!Restorer(a)' /\ (b_job'[a].pc = "restoring" \/ b_job'[a].got = "ok") => b_runs' = "stopped"
    PROVE  Restorers'
<1>1. \A b \in B!Actors : B!Restorer(b)' => B!Restorer(b) /\ b_job'[b].id = b_job[b].id
    BY DEF Others, B!Restorer
<1>2. \A b, c \in B!Actors : B!Restorer(b)' /\ B!Restorer(c)' => b = c
    BY <1>1 DEF Restorers
<1>3. ASSUME NEW b \in B!Actors, B!Restorer(b)'
      PROVE  (b_row'[b_job'[b].id] = "complete" \/ b_job'[b].id \in b_asked') /\ b # B!Worker /\ b_job'[b].id \in B!Ids
    BY <1>1, <1>3 DEF Restorers, Kept
<1>4. ASSUME NEW b \in B!Actors, b_job'[b].pc = "restoring" \/ (b_job'[b].pc = "stopping" /\ b_job'[b].got = "ok")
      PROVE  b_runs' = "stopped"
    <2>1. CASE b = a
        BY <1>4, <2>1 DEF B!Restorer
    <2>2. CASE b # a
        BY <1>4, <2>2 DEF Others, Restorers
    <2> QED
        BY <2>1, <2>2
<1> QED
    BY <1>2, <1>3, <1>4 DEF Restorers, Kept

\* Rows are completed by the request that made them, and lost only when asked for.
RowStep(a) ==
    \A i \in B!Ids :
        \/ b_row'[i] = b_row[i]
        \/ b_row'[i] = "deleted" /\ (i \in b_asked \/ b_row[i] # "complete")
        \/ /\ b_row'[i] = "complete" /\ b_row[i] = "incomplete"
           /\ b_job[a].pc = "archiving" /\ b_job[a].got = "ok" /\ b_job[a].id = i

LEMMA ArchivesStay ==
    ASSUME Archives, NEW a \in B!Actors, Others(a), RowStep(a), b_cmds \subseteq CmdType,
           \/ b_job'[a].pc # "archiving"
           \/ b_job'[a].pc = b_job[a].pc /\ b_job'[a].id = b_job[a].id /\ b_job'[a].got # "ok" /\ b_job[a].got # "ok",
           b_asked \subseteq b_asked', UNCHANGED b_file,
           \A d \in b_cmds' : d.op = "archive" => \E c \in b_cmds : c.op = "archive" /\ c.id = d.id,
           \A c, d \in b_cmds' : c.op = "archive" /\ d.op = "archive" /\ c.id = d.id => c = d
    PROVE  Archives'
<1>1. \A b \in B!Actors : b_job'[b].pc = "archiving" => b_job[b].pc = "archiving" /\ b_job'[b].id = b_job[b].id
    BY DEF Others
<1>2. ASSUME NEW b \in B!Actors, b_job'[b].pc = "archiving"
      PROVE  /\ b_job'[b].id \in B!Ids /\ b_row'[b_job'[b].id] \in {"incomplete", "deleted"}
             /\ b_job'[b].got = "ok" =>
                  /\ b_file'[b_job'[b].id] >= 0 \/ b_job'[b].id \in b_asked'
                  /\ \A c \in b_cmds' : c.op = "archive" => c.id # b_job'[b].id
    <2>1. b_job[b].pc = "archiving" /\ b_job'[b].id = b_job[b].id
        BY <1>1, <1>2
    <2>2. b_job[b].id \in B!Ids /\ b_row[b_job[b].id] \in {"incomplete", "deleted"}
        BY <2>1 DEF Archives
    <2>3. b_job[a].pc = "archiving" /\ b_job[a].got = "ok" => b_job[a].id # b_job[b].id
        BY <1>2, <2>1 DEF Archives
    <2>4. b_row'[b_job[b].id] \in {"incomplete", "deleted"}
        BY <2>2, <2>3 DEF RowStep
    <2>5. ASSUME b_job'[b].got = "ok"
          PROVE  /\ b_file[b_job[b].id] >= 0 \/ b_job[b].id \in b_asked
                 /\ \A c \in b_cmds : c.op = "archive" => c.id # b_job[b].id
        <3>1. b # a
            BY <1>2, <2>5
        <3>2. b_job[b].got = "ok"
            BY <2>5, <3>1 DEF Others
        <3> QED
            BY <2>1, <3>2 DEF Archives
    <2> QED
        BY <2>1, <2>2, <2>4, <2>5
<1>3. \A b, c \in B!Actors :
          b_job'[b].pc = "archiving" /\ b_job'[c].pc = "archiving" /\ b_job'[b].id = b_job'[c].id => b = c
    BY <1>1 DEF Archives
<1>4. ASSUME NEW d \in b_cmds', d.op = "archive" PROVE b_row'[d.id] \in {"incomplete", "deleted"}
    <2>1. PICK c \in b_cmds : c.op = "archive" /\ c.id = d.id
        BY <1>4
    <2>2. b_row[d.id] \in {"incomplete", "deleted"} /\ d.id \in B!Ids
        BY <2>1 DEF Archives, CmdType
    <2>3. b_job[a].pc = "archiving" /\ b_job[a].got = "ok" => b_job[a].id # d.id
        BY <2>1 DEF Archives
    <2> QED
        BY <2>2, <2>3 DEF RowStep
<1> QED
    BY <1>2, <1>3, <1>4 DEF Archives

\* A step outside the restores.
LEMMA WorldStays ==
    ASSUME World, UNCHANGED b_dirs, b_asked \subseteq b_asked',
           \A c \in b_cmds' : c.step # "begin" => c \in b_cmds /\ (b_file'[c.id] = b_file[c.id] \/ c.id \in b_asked'),
           \A c \in b_cmds : c.step = "swapped" => c \in b_cmds'
    PROVE  World'
<1>1. ASSUME NEW c \in b_cmds'
      PROVE  /\ c.step = "extracting" => b_dirs'.staging = B!Empty
             /\ c.step \in {"swapping", "swapped"} =>
                   b_dirs'.staging >= 0 /\ (b_dirs'.staging = b_file'[c.id] \/ c.id \in b_asked')
             /\ c.step = "cleaning" => b_dirs'.world = b_file'[c.id] \/ c.id \in b_asked'
    BY DEF World
<1>2. b_dirs'.world = B!Absent => \E c \in b_cmds' : c.step = "swapped"
    BY DEF World
<1> QED
    BY <1>1, <1>2 DEF World

LEMMA SameCardinality == ASSUME NEW s PROVE B!Cardinality(s) = Cardinality(s)
BY DEF B!Cardinality, Cardinality

LEMMA IdsFinite == ASSUME B_MaxId \in Nat, NEW s, s \subseteq B!Ids PROVE IsFiniteSet(s) /\ Cardinality(s) \in Nat
<1>1. IsFiniteSet(1..B_MaxId)
    <2>1. 1 \in Int /\ B_MaxId \in Int
        OBVIOUS
    <2> QED
        BY <2>1, FS_Interval
<1>2. IsFiniteSet(B!Ids)
    BY <1>1 DEF B!Ids
<1> QED
    BY <1>2, FS_Subset, FS_CardinalityType

LEMMA MoreAreMore ==
    ASSUME B_MaxId \in Nat, NEW s, NEW t, s \subseteq t, t \subseteq B!Ids
    PROVE  B!Cardinality(s) <= B!Cardinality(t) /\ B!Cardinality(s) \in Nat /\ B!Cardinality(t) \in Nat
<1>1. IsFiniteSet(t) /\ Cardinality(t) \in Nat /\ Cardinality(s) \in Nat
    BY IdsFinite
<1>2. Cardinality(s) <= Cardinality(t)
    BY <1>1, FS_Subset
<1> QED
    BY <1>1, <1>2, SameCardinality

\* The newer ones stay: what counts as one is never uncounted.
LEMMA NewestStay ==
    ASSUME B!BackupsAssumption, BackupsKinds, BackupsKinds', B!KeepsNewest,
           b_job'[B!Worker].list \subseteq b_job[B!Worker].list,
           \A i \in B!Ids : Kept(i) => Kept(i)'
    PROVE  B!KeepsNewest'
<1>1. B_MaxId \in Nat /\ B_Keep \in Nat
    BY DEF B!BackupsAssumption
<1>2. PICK s : s = B!Completed \cup b_asked
    OBVIOUS
<1>3. PICK t : t = (B!Completed \cup b_asked)'
    OBVIOUS
<1>4. s \subseteq t /\ t \subseteq B!Ids
    BY <1>2, <1>3 DEF BackupsKinds, Kept, B!Completed
<1>5. ASSUME NEW i \in b_job'[B!Worker].list PROVE B!Cardinality({j \in t : j > i}) >= B_Keep
    <2>1. B!Cardinality({j \in s : j > i}) >= B_Keep
        BY <1>2, <1>5 DEF B!KeepsNewest
    <2>2. /\ B!Cardinality({j \in s : j > i}) <= B!Cardinality({j \in t : j > i})
          /\ B!Cardinality({j \in s : j > i}) \in Nat /\ B!Cardinality({j \in t : j > i}) \in Nat
        <3>1. {j \in s : j > i} \subseteq {j \in t : j > i} /\ {j \in t : j > i} \subseteq B!Ids
            BY <1>4
        <3> QED
            BY <1>1, <3>1, MoreAreMore
    <2> QED
        BY <1>1, <2>1, <2>2
<1> QED
    BY <1>3, <1>5 DEF B!KeepsNewest

LEMMA ScheduleStays ==
    ASSUME Scheduled, UNCHANGED <<b_clock, b_lock, b_lastRun, b_fired>>,
           b_job'[B!Worker].pc # "idle" => b_job[B!Worker].pc # "idle" /\ b_job'[B!Worker].at = b_job[B!Worker].at
    PROVE  Scheduled'
BY DEF Scheduled

-----------------------------------------------------------------------------
(* What happens to the commands.                                            *)

\* A step in which no command changes, of a request that waits for none.
LEMMA BackupsFrees ==
    ASSUME B!BackupsAssumption, BackupsInv, NEW a \in B!Actors, ~Waits(a), NEW j \in JobType,
           j.pc \notin B!Waiting, b_job' = [b_job EXCEPT ![a] = j],
           UNCHANGED <<b_asked, b_cmds, B!node>>, RowStep(a),
           b_row' \in [B!Ids -> {"none", "incomplete", "complete", "deleted"}],
           j.list \subseteq b_job[a].list \/ a # B!Worker \/ B!KeepsNewest'
    PROVE  /\ BackupsKinds' /\ Matched' /\ Restorers' /\ Deleters' /\ Archives' /\ World'
           /\ B!Restorable' /\ B!KeepsNewest'
<1>0. /\ BackupsKinds /\ Matched /\ Restorers /\ Deleters /\ Archives /\ World /\ B!Restorable /\ B!KeepsNewest
      /\ UNCHANGED <<b_file, b_dirs, b_runs>> /\ b_asked' = b_asked /\ b_cmds' = b_cmds
    BY DEF BackupsInv, B!node
<1>1. b_job'[a] = j /\ Others(a) /\ b_job' \in [B!Actors -> JobType]
    BY <1>0 DEF BackupsKinds, Others
<1>2. BackupsKinds'
    BY <1>0, <1>1 DEF BackupsKinds
<1>3. Matched'
    <2>1. \A c \in b_cmds : c.awaited => c.by # a
        BY <1>0 DEF Matched, Waits, WaitsAt, B!Waiting
    <2>2. \A c \in b_cmds : c.by \in B!Actors
        BY <1>0 DEF BackupsKinds, CmdType
    <2>3. \A c \in b_cmds : c.awaited => b_job'[c.by] = b_job[c.by]
        BY <1>1, <2>1, <2>2 DEF Others
    <2> QED
        BY <1>0, <2>3 DEF Matched
<1>4. \A i \in B!Ids : Kept(i) => Kept(i)'
    BY <1>0 DEF RowStep, Kept
<1>5. Restorers'
    <2>1. ~B!Restorer(a)'
        BY <1>1 DEF B!Restorer, B!Waiting
    <2> QED
        BY <1>0, <1>1, <1>4, <2>1, RestorersStay
<1>6. Deleters'
    <2>1. b_job'[a].pc # "deleting"
        BY <1>1 DEF B!Waiting
    <2> QED
        BY <1>0, <1>1, <2>1 DEF Deleters, Others
<1>7. Archives'
    <2>1. b_job'[a].pc # "archiving" /\ b_cmds \subseteq CmdType
        BY <1>0, <1>1 DEF B!Waiting, BackupsKinds
    <2>2. /\ \A d \in b_cmds' : d.op = "archive" => \E c \in b_cmds : c.op = "archive" /\ c.id = d.id
          /\ \A c, d \in b_cmds' : c.op = "archive" /\ d.op = "archive" /\ c.id = d.id => c = d
        BY <1>0 DEF Archives
    <2> QED
        BY <1>0, <1>1, <2>1, <2>2, ArchivesStay
<1>8. World'
    BY <1>0, WorldStays
<1>9. B!Restorable'
    <2>1. \A i \in B!Ids : b_row'[i] = "complete" => b_file[i] >= 0 \/ i \in b_asked
        BY <1>0 DEF B!Restorable, RowStep, Archives
    <2> QED
        BY <1>0, <2>1 DEF B!Restorable
<1>10. B!KeepsNewest'
    <2>1. B!Worker \in B!Actors
        BY DEF B!Actors
    <2>2. CASE b_job'[B!Worker].list \subseteq b_job[B!Worker].list
        BY <1>0, <1>2, <1>4, <2>2, NewestStay
    <2> QED
        BY <1>1, <2>1, <2>2 DEF Others
<1> QED
    BY <1>2, <1>3, <1>5, <1>6, <1>7, <1>8, <1>9, <1>10

-----------------------------------------------------------------------------
Command(a, op, i) == [op |-> op, id |-> i, by |-> a, step |-> "begin", awaited |-> TRUE]

\* A call: the command may not arrive.
Called(a, op, i, list) ==
    /\ Others(a) /\ b_job'[a].pc = WaitsAt(op) /\ b_job'[a].id = i /\ b_job'[a].got = "none"
    /\ b_job'[a].list = list /\ b_job'[a].at = b_job[a].at
    /\ b_cmds \subseteq b_cmds' /\ \A c \in b_cmds' : c \in b_cmds \/ c = Command(a, op, i)

LEMMA CallsMatched ==
    ASSUME BackupsKinds, Matched, NEW a \in B!Actors, NEW i \in B!Ids, NEW list \in SUBSET B!Ids,
           NEW op \in {"archive", "stop", "restore", "delete"}, ~Waits(a),
           B!Calls(a, op, i, WaitsAt(op), list)
    PROVE  /\ b_job' \in [B!Actors -> JobType] /\ b_cmds' \subseteq CmdType /\ Matched'
           /\ Called(a, op, i, list)
<1>1. PICK pc : pc = WaitsAt(op)
    OBVIOUS
<1>2. pc \in B!Waiting
    BY <1>1 DEF WaitsAt, B!Waiting
<1>3. b_job \in [B!Actors -> JobType] /\ b_job[a] \in JobType /\ b_cmds \subseteq CmdType
    BY DEF BackupsKinds
<1>4. PICK j : j = [b_job[a] EXCEPT !.pc = pc, !.id = i, !.got = "none", !.list = list]
    OBVIOUS
<1>5. b_job' = [b_job EXCEPT ![a] = j]
    BY <1>1, <1>4 DEF B!Calls
<1>6. i \in 0..B_MaxId
    BY DEF B!Ids
<1>7. j \in JobType /\ j.pc = pc /\ j.id = i /\ j.got = "none" /\ j.list = list /\ j.at = b_job[a].at
    BY <1>2, <1>3, <1>4, <1>6 DEF JobType
<1>8. b_job' \in [B!Actors -> JobType] /\ b_job'[a] = j /\ Others(a)
    BY <1>3, <1>5, <1>7 DEF Others
<1>9. PICK new : new = Command(a, op, i)
    OBVIOUS
<1>10. b_cmds' = b_cmds \cup {new} \/ b_cmds' = b_cmds
    BY <1>9 DEF B!Calls, Command
<1>11. /\ new \in CmdType /\ new.op = op /\ new.id = i /\ new.by = a /\ new.step = "begin"
       /\ new.awaited
    BY <1>9 DEF Command, CmdType, Steps
<1>12. Called(a, op, i, list)
    BY <1>1, <1>7, <1>8, <1>9, <1>10 DEF Called
<1>13. \A c \in b_cmds : c.awaited => c.by # a /\ b_job'[c.by] = b_job[c.by]
    <2>1. \A c \in b_cmds : c.awaited => c.by # a
        BY DEF Matched, Waits, WaitsAt, B!Waiting
    <2>2. \A c \in b_cmds : c.by \in B!Actors
        BY <1>3 DEF CmdType
    <2> QED
        BY <1>8, <2>1, <2>2 DEF Others
<1>14. \A c \in b_cmds' :
          /\ c.awaited => b_job'[c.by].pc = WaitsAt(c.op) /\ b_job'[c.by].id = c.id /\ b_job'[c.by].got = "none"
          /\ c.op = "restore" => c.awaited
          /\ c.step # "begin" => c.op = "restore"
    BY <1>1, <1>7, <1>8, <1>10, <1>11, <1>13 DEF Matched
<1>15. \A c, d \in b_cmds' : c.awaited /\ d.awaited /\ c.by = d.by => c = d
    BY <1>10, <1>11, <1>13 DEF Matched
<1>16. Matched'
    BY <1>14, <1>15 DEF Matched
<1> QED
    BY <1>3, <1>8, <1>10, <1>11, <1>12, <1>16

\* Every call but the one that writes an archive.
LEMMA BackupsCalls ==
    ASSUME B!BackupsAssumption, BackupsInv, NEW a \in B!Actors, NEW i \in B!Ids, NEW list \in SUBSET B!Ids,
           NEW op \in {"stop", "restore", "delete"}, ~Waits(a),
           B!Calls(a, op, i, WaitsAt(op), list), UNCHANGED <<b_row, B!node, B!sched>>,
           b_asked' \subseteq B!Ids, b_asked \subseteq b_asked', op = "delete" => i \in b_asked',
           op # "delete" => Kept(i) /\ a # B!Worker /\ \A b \in B!Actors : B!Restorer(b) => b = a,
           op = "restore" => b_runs = "stopped",
           list \subseteq b_job[a].list \/ a # B!Worker, b_job[a].pc # "idle" \/ a # B!Worker
    PROVE  BackupsInv'
<1>0. /\ BackupsKinds /\ Matched /\ Restorers /\ Deleters /\ Archives /\ World /\ B!Restorable /\ B!KeepsNewest
      /\ Scheduled /\ UNCHANGED <<b_row, b_file, b_dirs, b_runs, b_clock, b_lock, b_lastRun, b_fired>>
    BY DEF BackupsInv, B!node, B!sched
<1>1. /\ b_job' \in [B!Actors -> JobType] /\ b_cmds' \subseteq CmdType /\ Matched'
      /\ Called(a, op, i, list)
    BY <1>0, CallsMatched
<1>2. BackupsKinds'
    BY <1>0, <1>1 DEF BackupsKinds
<1>3. \A j \in B!Ids : Kept(j) => Kept(j)'
    BY <1>0 DEF Kept
<1>4. Restorers'
    <2>1. Others(a) /\ b_job'[a].pc = WaitsAt(op) /\ b_job'[a].id = i /\ b_job'[a].got = "none"
        BY <1>1 DEF Called
    <2>2. CASE op = "delete"
        <3>1. ~B!Restorer(a)'
            BY <2>1, <2>2 DEF B!Restorer, WaitsAt
        <3> QED
            BY <1>0, <1>3, <2>1, <3>1, RestorersStay
    <2>3. CASE op # "delete"
        <3>1. \A b \in B!Actors : b # a => ~B!Restorer(b)' /\ b_job'[b] = b_job[b]
            BY <2>1, <2>3 DEF Others, B!Restorer
        <3>2. \A b \in B!Actors : b # a => b_job'[b].pc \notin {"restoring", "stopping"}
            BY <3>1 DEF B!Restorer
        <3>3. b_job'[a].pc = "restoring" => b_runs' = "stopped"
            BY <1>0, <2>1 DEF WaitsAt
        <3>4. b_row'[b_job'[a].id] = "complete" \/ b_job'[a].id \in b_asked'
            BY <1>0, <2>1, <2>3 DEF Kept
        <3> QED
            BY <2>1, <2>3, <3>1, <3>2, <3>3, <3>4 DEF Restorers
    <2> QED
        BY <2>2, <2>3
<1>5. Deleters'
    <2>1. \A b \in B!Actors : b_job'[b].pc = "deleting" => b_job'[b].id \in b_asked'
        BY <1>0, <1>1 DEF Deleters, Called, Others, WaitsAt
    <2>2. \A c \in b_cmds' : c.op = "delete" => c.id \in b_asked'
        BY <1>0, <1>1 DEF Deleters, Called, Command
    <2> QED
        BY <2>1, <2>2 DEF Deleters
<1>6. Archives'
    <2>1. b_job'[a].pc # "archiving" /\ b_cmds \subseteq CmdType /\ Others(a)
        BY <1>0, <1>1 DEF Called, WaitsAt, BackupsKinds
    <2>2. \A c \in b_cmds' : c.op = "archive" => c \in b_cmds
        BY <1>1 DEF Called, Command
    <2>3. /\ \A d \in b_cmds' : d.op = "archive" => \E c \in b_cmds : c.op = "archive" /\ c.id = d.id
          /\ \A c, d \in b_cmds' : c.op = "archive" /\ d.op = "archive" /\ c.id = d.id => c = d
        BY <1>0, <2>2 DEF Archives
    <2>4. RowStep(a)
        BY <1>0 DEF RowStep
    <2> QED
        BY <1>0, <2>1, <2>3, <2>4, ArchivesStay
<1>7. World'
    <2>1. \A c \in b_cmds' : c.step # "begin" => c \in b_cmds
        BY <1>1 DEF Called, Command
    <2>2. b_cmds \subseteq b_cmds'
        BY <1>1 DEF Called
    <2> QED
        BY <1>0, <2>1, <2>2, WorldStays
<1>8. B!Restorable'
    BY <1>0 DEF B!Restorable
<1>9. B!Worker \in B!Actors
    BY DEF B!Actors
<1>10. B!KeepsNewest'
    <2>1. b_job'[B!Worker].list \subseteq b_job[B!Worker].list
        BY <1>1, <1>9 DEF Called, Others
    <2> QED
        BY <1>0, <1>2, <1>3, <2>1, NewestStay
<1>11. Scheduled'
    <2>1. b_job'[B!Worker].pc # "idle" => b_job[B!Worker].pc # "idle" /\ b_job'[B!Worker].at = b_job[B!Worker].at
        BY <1>1, <1>9 DEF Called, Others
    <2> QED
        BY <1>0, <2>1, ScheduleStays
<1> QED
    BY <1>1, <1>2, <1>4, <1>5, <1>6, <1>7, <1>8, <1>10, <1>11 DEF BackupsInv

\* The row is new, and the first command with its id is sent.
LEMMA BackupsRow ==
    ASSUME B!BackupsAssumption, BackupsInv, NEW a \in B!Actors, B!WriteRow(a)
    PROVE  BackupsInv'
<1>0. /\ BackupsKinds /\ Matched /\ Restorers /\ Deleters /\ Archives /\ World /\ B!Restorable /\ B!KeepsNewest
      /\ Scheduled
    BY DEF BackupsInv
<1>1. /\ b_job[a].pc = "checked"
      /\ UNCHANGED <<b_file, b_dirs, b_runs, b_asked>> /\ UNCHANGED <<b_clock, b_lock, b_lastRun, b_fired>>
    BY DEF B!WriteRow, B!node, B!sched
<1>2. PICK i \in B!Ids :
         /\ b_row[i] = "none" /\ b_row' = [b_row EXCEPT ![i] = "incomplete"]
         /\ B!Calls(a, "archive", i, "archiving", {})
    BY DEF B!WriteRow
<1>3. ~Waits(a) /\ WaitsAt("archive") = "archiving"
    BY <1>1 DEF Waits, B!Waiting, WaitsAt
<1>4. /\ b_job' \in [B!Actors -> JobType] /\ b_cmds' \subseteq CmdType /\ Matched'
      /\ Called(a, "archive", i, {})
    BY <1>0, <1>2, <1>3, CallsMatched
<1>5. /\ Others(a) /\ b_job'[a].pc = "archiving" /\ b_job'[a].id = i /\ b_job'[a].got = "none"
      /\ b_job'[a].list = {} /\ b_job'[a].at = b_job[a].at
      /\ b_cmds \subseteq b_cmds' /\ \A c \in b_cmds' : c \in b_cmds \/ c = Command(a, "archive", i)
    BY <1>3, <1>4 DEF Called
<1>6. /\ Command(a, "archive", i).op = "archive" /\ Command(a, "archive", i).id = i
      /\ Command(a, "archive", i).step = "begin"
    BY DEF Command
<1>7. /\ b_row' \in [B!Ids -> {"none", "incomplete", "complete", "deleted"}] /\ b_row'[i] = "incomplete"
      /\ \A k \in B!Ids : k # i => b_row'[k] = b_row[k]
    BY <1>0, <1>2 DEF BackupsKinds
<1>8. BackupsKinds'
    BY <1>0, <1>1, <1>4, <1>7 DEF BackupsKinds
<1>9. \A k \in B!Ids : Kept(k) => Kept(k)'
    BY <1>1, <1>2, <1>7 DEF Kept
<1>10. Restorers'
    <2>1. ~B!Restorer(a)'
        BY <1>5 DEF B!Restorer
    <2> QED
        BY <1>0, <1>1, <1>5, <1>9, <2>1, RestorersStay
<1>11. Deleters'
    BY <1>0, <1>1, <1>5, <1>6 DEF Deleters, Others
<1>12. Archives'
    <2>1. ASSUME NEW b \in B!Actors, b_job[b].pc = "archiving" PROVE b_job[b].id # i
        BY <1>0, <1>2, <2>1 DEF Archives
    <2>2. \A c \in b_cmds : c.op = "archive" => c.id # i /\ c.id \in B!Ids
        BY <1>0, <1>2 DEF Archives, BackupsKinds, CmdType
    <2>3. ASSUME NEW b \in B!Actors, b_job'[b].pc = "archiving"
          PROVE  /\ b_job'[b].id \in B!Ids /\ b_row'[b_job'[b].id] \in {"incomplete", "deleted"}
                 /\ b_job'[b].got = "ok" =>
                      /\ b_file'[b_job'[b].id] >= 0 \/ b_job'[b].id \in b_asked'
                      /\ \A c \in b_cmds' : c.op = "archive" => c.id # b_job'[b].id
        <3>1. CASE b = a
            BY <1>5, <1>7, <3>1
        <3>2. CASE b # a
            <4>1. b_job'[b] = b_job[b] /\ b_job[b].pc = "archiving" /\ b_job[b].id # i
                BY <1>5, <2>1, <2>3, <3>2 DEF Others
            <4>2. b_job[b].id \in B!Ids /\ b_row[b_job[b].id] \in {"incomplete", "deleted"}
                BY <1>0, <4>1 DEF Archives
            <4>3. ASSUME b_job[b].got = "ok"
                  PROVE  /\ b_file[b_job[b].id] >= 0 \/ b_job[b].id \in b_asked
                         /\ \A c \in b_cmds' : c.op = "archive" => c.id # b_job[b].id
                BY <1>0, <1>5, <1>6, <4>1, <4>3 DEF Archives
            <4> QED
                BY <1>1, <1>7, <4>1, <4>2, <4>3
        <3> QED
            BY <3>1, <3>2
    <2>4. \A b, c \in B!Actors :
              b_job'[b].pc = "archiving" /\ b_job'[c].pc = "archiving" /\ b_job'[b].id = b_job'[c].id => b = c
        BY <1>0, <1>5, <2>1 DEF Archives, Others
    <2>5. \A c \in b_cmds' : c.op = "archive" => b_row'[c.id] \in {"incomplete", "deleted"}
        BY <1>0, <1>5, <1>6, <1>7, <2>2 DEF Archives
    <2>6. \A c, d \in b_cmds' : c.op = "archive" /\ d.op = "archive" /\ c.id = d.id => c = d
        BY <1>0, <1>5, <1>6, <2>2 DEF Archives
    <2> QED
        BY <2>3, <2>4, <2>5, <2>6 DEF Archives
<1>13. World'
    BY <1>0, <1>1, <1>5, <1>6, WorldStays
<1>14. B!Restorable'
    BY <1>0, <1>1, <1>7 DEF B!Restorable
<1>15. B!Worker \in B!Actors
    BY DEF B!Actors
<1>16. B!KeepsNewest'
    <2>1. b_job'[B!Worker].list \subseteq b_job[B!Worker].list
        BY <1>5, <1>15 DEF Others
    <2> QED
        BY <1>0, <1>8, <1>9, <2>1, NewestStay
<1>17. Scheduled'
    <2>1. b_job'[B!Worker].pc # "idle" => b_job[B!Worker].pc # "idle" /\ b_job'[B!Worker].at = b_job[B!Worker].at
        BY <1>1, <1>5, <1>15 DEF Others
    <2> QED
        BY <1>0, <1>1, <2>1, ScheduleStays
<1> QED
    BY <1>4, <1>8, <1>10, <1>11, <1>12, <1>13, <1>14, <1>16, <1>17 DEF BackupsInv

\* A call that is no longer waited for; none of them restores.
Given(a, c) == IF c \in B!Awaited(a) THEN [c EXCEPT !.awaited = FALSE] ELSE c

LEMMA GivesUp ==
    ASSUME B!BackupsAssumption, BackupsInv, NEW a \in B!Actors, B!Awaited(a) \cap B!Restoring = {},
           NEW j \in JobType, b_job' = [b_job EXCEPT ![a] = j], b_cmds' = B!GivenUp(a),
           UNCHANGED <<b_row, b_asked, B!node, B!sched>>,
           \/ j.pc = "idle"
           \/ j.pc = b_job[a].pc /\ j.id = b_job[a].id /\ j.got = "error" /\ b_job[a].got = "none",
           j.list \subseteq b_job[a].list, j.pc = "idle" \/ j.at = b_job[a].at
    PROVE  BackupsInv'
<1>0. /\ BackupsKinds /\ Matched /\ Restorers /\ Deleters /\ Archives /\ World /\ B!Restorable /\ B!KeepsNewest
      /\ Scheduled /\ UNCHANGED <<b_row, b_asked, b_file, b_dirs, b_runs>>
      /\ UNCHANGED <<b_clock, b_lock, b_lastRun, b_fired>>
    BY DEF BackupsInv, B!node, B!sched
<1>1. b_job'[a] = j /\ Others(a) /\ b_job' \in [B!Actors -> JobType]
    BY <1>0 DEF BackupsKinds, Others
<1>2. \A d \in b_cmds' : \E c \in b_cmds : d = Given(a, c)
    <2>1. B!Awaited(a) \subseteq b_cmds
        BY DEF B!Awaited
    <2>2. \A d \in b_cmds' : d \in b_cmds \ B!Awaited(a) \/ \E c \in B!Awaited(a) : d = [c EXCEPT !.awaited = FALSE]
        BY DEF B!GivenUp
    <2> QED
        BY <2>1, <2>2 DEF Given
<1>3. ASSUME NEW c \in b_cmds
      PROVE  /\ Given(a, c) \in CmdType /\ Given(a, c).op = c.op /\ Given(a, c).id = c.id
             /\ Given(a, c).by = c.by /\ Given(a, c).step = c.step
             /\ Given(a, c).awaited => Given(a, c) = c /\ c.by # a
             /\ c.op = "restore" => Given(a, c) = c /\ c \in b_cmds'
             /\ c.by # a => Given(a, c) = c
    <2>0. c \in CmdType
        BY <1>0 DEF BackupsKinds
    <2>1. CASE c \in B!Awaited(a)
        <3>1. Given(a, c) = [c EXCEPT !.awaited = FALSE] /\ c.op # "restore" /\ c.by = a
            BY <2>1 DEF Given, B!Awaited, B!Restoring
        <3> QED
            BY <2>0, <3>1 DEF CmdType
    <2>2. CASE c \notin B!Awaited(a)
        <3>1. Given(a, c) = c /\ c \in b_cmds'
            BY <2>2 DEF Given, B!GivenUp
        <3>2. c.awaited => c.by # a
            BY <2>2 DEF B!Awaited
        <3> QED
            BY <2>0, <3>1, <3>2
    <2> QED
        BY <2>1, <2>2
<1>4. b_cmds' \subseteq CmdType
    BY <1>2, <1>3
<1>5. BackupsKinds'
    BY <1>0, <1>1, <1>4 DEF BackupsKinds
<1>6. Matched'
    <2>1. ASSUME NEW d \in b_cmds'
          PROVE  /\ d.awaited => /\ b_job'[d.by].pc = WaitsAt(d.op) /\ b_job'[d.by].id = d.id
                                 /\ b_job'[d.by].got = "none" /\ d \in b_cmds
                 /\ d.op = "restore" => d.awaited
                 /\ d.step # "begin" => d.op = "restore"
        <3>1. PICK c \in b_cmds : d = Given(a, c)
            BY <1>2
        <3>2. c.by \in B!Actors
            BY <1>0 DEF BackupsKinds, CmdType
        <3>3. ASSUME d.awaited PROVE d = c /\ b_job'[d.by] = b_job[d.by]
            BY <1>1, <1>3, <3>1, <3>2, <3>3 DEF Others
        <3>4. d.op = "restore" => d = c
            BY <1>3, <3>1
        <3>5. d.step # "begin" => d.op = "restore"
            BY <1>0, <1>3, <3>1 DEF Matched
        <3> QED
            BY <1>0, <3>3, <3>4, <3>5 DEF Matched
    <2>2. \A c, d \in b_cmds' : c.awaited /\ d.awaited /\ c.by = d.by => c = d
        BY <1>0, <2>1 DEF Matched
    <2> QED
        BY <2>1, <2>2 DEF Matched
<1>7. \A i \in B!Ids : Kept(i) => Kept(i)'
    BY <1>0 DEF Kept
<1>8. Restorers'
    <2>1. B!Restorer(a)' => B!Restorer(a) /\ b_job'[a].id = b_job[a].id /\ b_job'[a].got = "error"
        BY <1>1 DEF B!Restorer
    <2>2. B!Restorer(a)' /\ (b_job'[a].pc = "restoring" \/ b_job'[a].got = "ok") => b_runs' = "stopped"
        BY <1>0, <1>1, <2>1 DEF Restorers, B!Restorer
    <2> QED
        BY <1>0, <1>1, <1>7, <2>1, <2>2, RestorersStay
<1>9. Deleters'
    <2>1. \A b \in B!Actors : b_job'[b].pc = "deleting" => b_job'[b].id \in b_asked'
        BY <1>0, <1>1 DEF Deleters, Others
    <2>2. \A d \in b_cmds' : d.op = "delete" => d.id \in b_asked'
        BY <1>0, <1>2, <1>3 DEF Deleters
    <2> QED
        BY <2>1, <2>2 DEF Deleters
<1>10. Archives'
    <2>1. \/ b_job'[a].pc # "archiving"
          \/ b_job'[a].pc = b_job[a].pc /\ b_job'[a].id = b_job[a].id /\ b_job'[a].got # "ok" /\ b_job[a].got # "ok"
        BY <1>1
    <2>2. \A d \in b_cmds' : d.op = "archive" => \E c \in b_cmds : c.op = "archive" /\ c.id = d.id
        BY <1>2, <1>3
    <2>3. ASSUME NEW d \in b_cmds', NEW e \in b_cmds', d.op = "archive", e.op = "archive", d.id = e.id PROVE d = e
        <3>1. PICK c \in b_cmds : d = Given(a, c)
            BY <1>2
        <3>2. PICK f \in b_cmds : e = Given(a, f)
            BY <1>2
        <3>3. c.op = "archive" /\ f.op = "archive" /\ c.id = f.id
            BY <1>3, <2>3, <3>1, <3>2
        <3>4. c = f
            BY <1>0, <3>3 DEF Archives
        <3> QED
            BY <3>1, <3>2, <3>4
    <2>4. RowStep(a) /\ b_cmds \subseteq CmdType /\ b_asked \subseteq b_asked'
        BY <1>0 DEF RowStep, BackupsKinds
    <2> QED
        BY <1>0, <1>1, <2>1, <2>2, <2>3, <2>4, ArchivesStay
<1>11. World'
    <2>1. ASSUME NEW d \in b_cmds', d.step # "begin" PROVE d \in b_cmds
        <3>1. PICK c \in b_cmds : d = Given(a, c)
            BY <1>2
        <3>2. c.op = "restore"
            BY <1>0, <1>3, <2>1, <3>1 DEF Matched
        <3> QED
            BY <1>3, <3>1, <3>2
    <2>2. ASSUME NEW c \in b_cmds, c.step = "swapped" PROVE c \in b_cmds'
        BY <1>0, <1>3, <2>2 DEF Matched
    <2> QED
        BY <1>0, <2>1, <2>2, WorldStays
<1>12. B!Restorable'
    BY <1>0 DEF B!Restorable
<1>13. B!Worker \in B!Actors
    BY DEF B!Actors
<1>14. B!KeepsNewest'
    <2>1. b_job'[B!Worker].list \subseteq b_job[B!Worker].list
        BY <1>1, <1>13 DEF Others
    <2> QED
        BY <1>0, <1>5, <1>7, <2>1, NewestStay
<1>15. Scheduled'
    <2>1. b_job'[B!Worker].pc # "idle" => b_job[B!Worker].pc # "idle" /\ b_job'[B!Worker].at = b_job[B!Worker].at
        BY <1>1, <1>13 DEF Others
    <2> QED
        BY <1>0, <2>1, ScheduleStays
<1> QED
    BY <1>5, <1>6, <1>8, <1>9, <1>10, <1>11, <1>12, <1>14, <1>15 DEF BackupsInv

LEMMA BackupsTimeout ==
    ASSUME B!BackupsAssumption, BackupsInv, NEW a \in B!Actors, B!Timeout(a) \/ B!Dies(a)
    PROVE  BackupsInv'
<1>1. b_job \in [B!Actors -> JobType] /\ b_job[a] \in JobType
    BY DEF BackupsInv, BackupsKinds
<1>2. B!Awaited(a) \cap B!Restoring = {} /\ b_cmds' = B!GivenUp(a) /\ UNCHANGED <<b_row, b_asked, B!node, B!sched>>
    BY DEF B!Timeout, B!Dies, B!MayOutlive
<1>3. CASE B!Timeout(a)
    <2>1. PICK j : j = [b_job[a] EXCEPT !.got = "error"]
        OBVIOUS
    <2>2. b_job' = [b_job EXCEPT ![a] = j] /\ b_job[a].got = "none"
        BY <1>3, <2>1 DEF B!Timeout
    <2>3. /\ j \in JobType /\ j.pc = b_job[a].pc /\ j.id = b_job[a].id /\ j.got = "error"
          /\ j.list = b_job[a].list /\ j.at = b_job[a].at
        BY <1>1, <2>1 DEF JobType
    <2> QED
        BY <1>2, <2>2, <2>3, GivesUp
<1>4. CASE B!Dies(a)
    <2>1. b_job' = [b_job EXCEPT ![a] = B!Idle]
        BY <1>4 DEF B!Dies
    <2>2. B!Idle \in JobType /\ B!Idle.pc = "idle" /\ B!Idle.list = {}
        <3>1. B_MaxId \in Nat
            BY DEF B!BackupsAssumption
        <3> QED
            BY <3>1 DEF B!Idle, JobType, B!NoId, B!NoMinute
    <2> QED
        BY <1>2, <2>1, <2>2, GivesUp
<1> QED
    BY <1>3, <1>4

-----------------------------------------------------------------------------
(* The requests' own steps.                                                 *)

\* What a request becomes whose call has been answered: another step, or none.
LEMMA BackupsJobs ==
    ASSUME B!BackupsAssumption, BackupsInv, NEW a \in B!Actors
    PROVE  /\ b_job \in [B!Actors -> JobType] /\ b_job[a] \in JobType /\ B!Worker \in B!Actors
           /\ B!Idle \in JobType /\ B!Idle.pc = "idle" /\ B!Idle.list = {}
<1>1. b_job \in [B!Actors -> JobType] /\ b_job[a] \in JobType /\ B!Worker \in B!Actors
    BY DEF BackupsInv, BackupsKinds, B!Actors
<1>2. B_MaxId \in Nat
    BY DEF B!BackupsAssumption
<1>3. B!Idle \in JobType /\ B!Idle.pc = "idle" /\ B!Idle.list = {}
    BY <1>2 DEF B!Idle, JobType, B!NoId, B!NoMinute
<1> QED
    BY <1>1, <1>3

\* A request goes on, or ends; the schedule's clock stands still.
LEMMA BackupsMoves ==
    ASSUME B!BackupsAssumption, BackupsInv, NEW a \in B!Actors, ~Waits(a),
           NEW pc \in {"checked", "listing", "pruning"},
           B!GoesTo(a, pc) \/ B!Ends(a), b_job[a].pc # "idle" \/ a # B!Worker,
           UNCHANGED <<b_asked, b_cmds, B!node, B!sched>>, RowStep(a),
           b_row' \in [B!Ids -> {"none", "incomplete", "complete", "deleted"}]
    PROVE  BackupsInv'
<1>1. PICK j :
         /\ b_job' = [b_job EXCEPT ![a] = j] /\ j \in JobType /\ j.pc \notin B!Waiting
         /\ (j.list \subseteq b_job[a].list) /\ (a = B!Worker => j.at = b_job[a].at /\ j.pc # "idle")
    <2>1. ASSUME NEW p \in {"checked", "listing", "pruning"}, B!GoesTo(a, p)
          PROVE  b_job' = [b_job EXCEPT ![a] = [b_job[a] EXCEPT !.pc = p, !.got = "none"]]
        BY <2>1, BackupsJobs DEF B!GoesTo
    <2>2. ASSUME NEW p \in {"checked", "listing", "pruning"}, B!GoesTo(a, p)
          PROVE  \E j :
                    /\ b_job' = [b_job EXCEPT ![a] = j] /\ j \in JobType /\ j.pc \notin B!Waiting
                    /\ (j.list \subseteq b_job[a].list) /\ (a = B!Worker => j.at = b_job[a].at /\ j.pc # "idle")
        <3>1. PICK j : j = [b_job[a] EXCEPT !.pc = p, !.got = "none"]
            OBVIOUS
        <3>2. j \in JobType /\ j.pc = p /\ j.list = b_job[a].list /\ j.at = b_job[a].at
            <4>1. b_job[a] \in JobType
                BY BackupsJobs
            <4> QED
                BY <3>1, <4>1 DEF JobType
        <3>3. b_job' = [b_job EXCEPT ![a] = j]
            BY <2>1, <2>2, <3>1
        <3>4. j.pc \notin B!Waiting /\ j.pc # "idle"
            BY <3>2 DEF B!Waiting
        <3> QED
            BY <3>2, <3>3, <3>4
    <2>3. CASE B!Ends(a) /\ a # B!Worker
        <3>1. b_job' = [b_job EXCEPT ![a] = B!Idle]
            BY <2>3 DEF B!Ends
        <3>2. B!Idle.pc \notin B!Waiting
            BY BackupsJobs DEF B!Waiting
        <3> QED
            BY <2>3, <3>1, <3>2, BackupsJobs
    <2>4. CASE B!Ends(a) /\ a = B!Worker
        <3>1. B!GoesTo(a, "pruning")
            BY <2>4 DEF B!Ends
        <3> QED
            BY <2>2, <3>1
    <2> QED
        BY <2>2, <2>3, <2>4
<1>2. UNCHANGED <<b_asked, b_cmds, B!node>> /\ UNCHANGED <<b_clock, b_lock, b_lastRun, b_fired>>
    BY DEF B!sched
<1>3. /\ BackupsKinds' /\ Matched' /\ Restorers' /\ Deleters' /\ Archives' /\ World'
      /\ B!Restorable' /\ B!KeepsNewest'
    BY <1>1, <1>2, BackupsFrees
<1>4. Scheduled'
    <2>1. b_job \in [B!Actors -> JobType] /\ B!Worker \in B!Actors /\ Scheduled
        BY DEF BackupsInv, BackupsKinds, B!Actors
    <2>2. b_job'[B!Worker].pc # "idle" => b_job[B!Worker].pc # "idle" /\ b_job'[B!Worker].at = b_job[B!Worker].at
        BY <1>1, <2>1
    <2> QED
        BY <1>2, <2>1, <2>2, ScheduleStays
<1> QED
    BY <1>3, <1>4 DEF BackupsInv

LEMMA BackupsRequests ==
    ASSUME B!BackupsAssumption, BackupsInv, NEW a \in B!Actors,
           \/ a \in B_Tabs /\ B!Create(a)
           \/ B!Archived(a) \/ B!Stopped(a) \/ B!Restored(a) \/ B!Deleted(a)
    PROVE  BackupsInv'
<1>0. /\ b_row \in [B!Ids -> {"none", "incomplete", "complete", "deleted"}] /\ b_job[a] \in JobType
      /\ B!Worker \notin B_Tabs /\ Restorers /\ Deleters /\ Archives
    BY DEF BackupsInv, BackupsKinds, B!BackupsAssumption
<1>1. ASSUME a \in B_Tabs, B!Create(a) PROVE BackupsInv'
    <2>1. /\ B!GoesTo(a, "checked") /\ UNCHANGED b_row /\ UNCHANGED <<b_asked, b_cmds, B!node, B!sched>>
          /\ b_job[a].pc = "idle" /\ a # B!Worker
        BY <1>0, <1>1 DEF B!Create
    <2>2. ~Waits(a) /\ RowStep(a)
        BY <2>1 DEF Waits, B!Waiting, RowStep
    <2> QED
        BY <1>0, <2>1, <2>2, BackupsMoves
<1>2. CASE B!Archived(a)
    <2>1. /\ b_job[a].pc = "archiving" /\ b_job[a].got # "none" /\ UNCHANGED <<b_asked, b_cmds, B!node, B!sched>>
          /\ b_row' = [b_row EXCEPT ![b_job[a].id] = IF B!Completes(a) THEN "complete" ELSE "deleted"]
          /\ B!GoesTo(a, "listing") \/ B!Ends(a)
        BY <1>2 DEF B!Archived
    <2>2. b_job[a].id \in B!Ids /\ b_row[b_job[a].id] \in {"incomplete", "deleted"}
        BY <1>0, <2>1 DEF Archives
    <2>3. b_row' \in [B!Ids -> {"none", "incomplete", "complete", "deleted"}]
        BY <1>0, <2>1
    <2>4. RowStep(a) /\ ~Waits(a)
        BY <1>0, <2>1, <2>2 DEF RowStep, Waits, B!Completes
    <2> QED
        BY <2>1, <2>3, <2>4, BackupsMoves
<1>3. CASE B!Stopped(a)
    <2>1. /\ b_job[a].pc = "stopping" /\ b_job[a].got # "none" /\ UNCHANGED b_row
          /\ UNCHANGED <<b_asked, B!node, B!sched>>
        BY <1>3 DEF B!Stopped
    <2>2. ~Waits(a) /\ RowStep(a) /\ B!Restorer(a) /\ b_asked \subseteq B!Ids /\ b_asked' = b_asked
        BY <2>1 DEF Waits, RowStep, B!Restorer, BackupsInv, BackupsKinds
    <2>3. CASE B!MayRestore(a)
        <3>1. B!Calls(a, "restore", b_job[a].id, "restoring", {}) /\ WaitsAt("restore") = "restoring"
            BY <1>3, <2>3 DEF B!Stopped, WaitsAt
        <3>2. b_job[a].id \in B!Ids /\ Kept(b_job[a].id) /\ a # B!Worker /\ \A b \in B!Actors : B!Restorer(b) => b = a
            BY <1>0, <2>2 DEF Restorers, Kept
        <3>3. b_runs = "stopped"
            BY <1>0, <2>1, <2>3 DEF B!MayRestore, Restorers
        <3> QED
            BY <2>1, <2>2, <3>1, <3>2, <3>3, BackupsCalls
    <2>4. CASE ~B!MayRestore(a)
        <3>1. B!Ends(a) /\ UNCHANGED <<b_asked, b_cmds, B!node, B!sched>>
            BY <1>3, <2>4 DEF B!Stopped
        <3> QED
            BY <1>0, <2>1, <2>2, <3>1, BackupsMoves
    <2> QED
        BY <2>3, <2>4
<1>4. CASE B!Restored(a)
    <2>1. /\ b_job[a].pc = "restoring" /\ b_job[a].got # "none" /\ UNCHANGED b_row /\ B!Ends(a)
          /\ UNCHANGED <<b_asked, b_cmds, B!node, B!sched>>
        BY <1>4 DEF B!Restored
    <2>2. ~Waits(a) /\ RowStep(a)
        BY <2>1 DEF Waits, RowStep
    <2> QED
        BY <1>0, <2>1, <2>2, BackupsMoves
<1>5. CASE B!Deleted(a)
    <2>1. /\ b_job[a].pc = "deleting" /\ b_job[a].got # "none" /\ B!Ends(a)
          /\ UNCHANGED <<b_asked, b_cmds, B!node, B!sched>>
          /\ b_row' = IF b_job[a].got = "ok" THEN [b_row EXCEPT ![b_job[a].id] = "deleted"] ELSE b_row
        BY <1>5 DEF B!Deleted
    <2>2. b_job[a].id \in b_asked
        BY <1>0, <2>1 DEF Deleters
    <2>3. b_row' \in [B!Ids -> {"none", "incomplete", "complete", "deleted"}]
        BY <1>0, <2>1
    <2>4. RowStep(a) /\ ~Waits(a)
        BY <1>0, <2>1, <2>2 DEF RowStep, Waits
    <2> QED
        BY <2>1, <2>3, <2>4, BackupsMoves
<1> QED
    BY <1>1, <1>2, <1>3, <1>4, <1>5

\* A restore, a deletion.
LEMMA BackupsStartsCalls ==
    ASSUME B!BackupsAssumption, BackupsInv, NEW a \in B_Tabs, NEW i \in B!Ids, B!Restore(a, i) \/ B!Delete(a, i)
    PROVE  BackupsInv'
<1>0. a \in B!Actors /\ a # B!Worker /\ b_asked \subseteq B!Ids /\ b_job[a].pc = "idle"
    BY DEF BackupsInv, BackupsKinds, B!BackupsAssumption, B!Actors, B!Restore, B!Delete
<1>1. ~Waits(a) /\ UNCHANGED <<b_row, B!node, B!sched>> /\ {} \in SUBSET B!Ids
    BY <1>0 DEF Waits, B!Waiting, B!Restore, B!Delete
<1>2. CASE B!Restore(a, i)
    <2>1. /\ B!Calls(a, "stop", i, "stopping", {}) /\ WaitsAt("stop") = "stopping" /\ b_asked' = b_asked
          /\ Kept(i) /\ \A b \in B!Actors : B!Restorer(b) => b = a
        BY <1>2 DEF B!Restore, WaitsAt, Kept
    <2> QED
        BY <1>0, <1>1, <2>1, BackupsCalls
<1>3. CASE B!Delete(a, i)
    <2>1. /\ B!Calls(a, "delete", i, "deleting", {}) /\ WaitsAt("delete") = "deleting"
          /\ b_asked' = b_asked \cup {i}
        BY <1>3 DEF B!Delete, WaitsAt
    <2> QED
        BY <1>0, <1>1, <2>1, BackupsCalls
<1> QED
    BY <1>2, <1>3

-----------------------------------------------------------------------------
(* The worker.                                                              *)

LEMMA IdsHaveLargest ==
    ASSUME B_MaxId \in Nat, NEW list, list \subseteq B!Ids, list # {}
    PROVE  \E k \in list : \A j \in list : k >= j
<1> DEFINE R == {ss \in Nat \X Nat : ss[1] < ss[2]}
           above == {B_MaxId - k : k \in list}
<1>1. \A k \in list : k \in Nat /\ B_MaxId - k \in Nat
    BY DEF B!Ids
<1>2. above \subseteq Nat /\ above # {}
    BY <1>1
<1>3. R = OpToRel(<, Nat)
    BY DEF OpToRel
<1>4. PICK b \in above : \A o \in above : <<o, b>> \notin OpToRel(<, Nat)
    BY <1>2, NatLessThanWellFounded, WFMin
<1>5. \A o \in Nat : o < b => <<o, b>> \in R
    BY <1>2
<1>6. \A o \in above : ~(o < b)
    BY <1>2, <1>3, <1>4, <1>5
<1>7. PICK k \in list : b = B_MaxId - k
    OBVIOUS
<1>8. \A j \in list : ~(B_MaxId - j < B_MaxId - k)
    BY <1>6, <1>7
<1>9. \A j \in list : k >= j
    BY <1>1, <1>8
<1> QED
    BY <1>9

LEMMA StaleHaveNewer ==
    ASSUME B!BackupsAssumption, BackupsKinds, NEW i \in B!Stale
    PROVE  i \in B!Ids /\ B!Cardinality({j \in B!Completed \cup b_asked : j > i}) >= B_Keep
<1>1. B_MaxId \in Nat /\ B_Keep \in Nat
    BY DEF B!BackupsAssumption
<1>2. i \in B!Ids /\ B!Cardinality({j \in B!Completed : j > i}) >= B_Keep
    BY DEF B!Stale, B!Completed
<1>3. {j \in B!Completed : j > i} \subseteq {j \in B!Completed \cup b_asked : j > i}
    OBVIOUS
<1>4. {j \in B!Completed \cup b_asked : j > i} \subseteq B!Ids
    BY DEF B!Completed, BackupsKinds
<1>5. PICK s : s = {j \in B!Completed : j > i}
    OBVIOUS
<1>6. PICK t : t = {j \in B!Completed \cup b_asked : j > i}
    OBVIOUS
<1>7. B!Cardinality(s) <= B!Cardinality(t) /\ B!Cardinality(s) \in Nat /\ B!Cardinality(t) \in Nat
    BY <1>1, <1>3, <1>4, <1>5, <1>6, MoreAreMore
<1> QED
    BY <1>1, <1>2, <1>5, <1>6, <1>7

LEMMA BackupsLists ==
    ASSUME B!BackupsAssumption, BackupsInv, B!ListStale
    PROVE  BackupsInv'
<1>0. /\ b_job \in [B!Actors -> JobType] /\ B!Worker \in B!Actors /\ b_job[B!Worker] \in JobType /\ Scheduled
      /\ BackupsKinds
    BY DEF BackupsInv, BackupsKinds, B!Actors
<1>1. /\ b_job[B!Worker].pc = "listing" /\ UNCHANGED <<b_row, b_asked, b_cmds>>
      /\ UNCHANGED <<b_asked, b_cmds, B!node>> /\ UNCHANGED <<b_clock, b_lock, b_lastRun, b_fired>>
    BY DEF B!ListStale, B!sched
<1>2. B!Stale \subseteq B!Ids
    BY DEF B!Stale, B!Completed
<1>3. PICK list : list = B!Stale
    OBVIOUS
<1>4. PICK j : j = [b_job[B!Worker] EXCEPT !.pc = "pruning", !.list = list]
    OBVIOUS
<1>5. b_job' = [b_job EXCEPT ![B!Worker] = j]
    BY <1>0, <1>3, <1>4 DEF B!ListStale
<1>6. j \in JobType /\ j.pc = "pruning" /\ j.list = list /\ j.at = b_job[B!Worker].at
    BY <1>0, <1>2, <1>3, <1>4 DEF JobType
<1>7. b_job'[B!Worker] = j
    BY <1>0, <1>5
<1>8. B!KeepsNewest'
    <2>1. PICK t : t = B!Completed \cup b_asked
        OBVIOUS
    <2>2. (B!Completed \cup b_asked)' = t
        BY <1>1, <2>1 DEF B!Completed
    <2>3. \A i \in list : B!Cardinality({k \in t : k > i}) >= B_Keep
        BY <1>0, <1>3, <2>1, StaleHaveNewer
    <2> QED
        BY <1>6, <1>7, <2>2, <2>3 DEF B!KeepsNewest
<1>9. ~Waits(B!Worker) /\ RowStep(B!Worker) /\ j.pc \notin B!Waiting
    BY <1>1, <1>6 DEF Waits, B!Waiting, RowStep
<1>10. b_row' \in [B!Ids -> {"none", "incomplete", "complete", "deleted"}]
    BY <1>0, <1>1 DEF BackupsKinds
<1>11. /\ BackupsKinds' /\ Matched' /\ Restorers' /\ Deleters' /\ Archives' /\ World' /\ B!Restorable'
    BY <1>0, <1>1, <1>5, <1>6, <1>8, <1>9, <1>10, BackupsFrees
<1>12. Scheduled'
    BY <1>0, <1>1, <1>6, <1>7, ScheduleStays
<1> QED
    BY <1>8, <1>11, <1>12 DEF BackupsInv

LEMMA BackupsPrunes ==
    ASSUME B!BackupsAssumption, BackupsInv, B!Prune
    PROVE  BackupsInv'
<1>0. B!Worker \in B!Actors /\ b_asked \subseteq B!Ids /\ b_job[B!Worker] \in JobType
    BY DEF BackupsInv, BackupsKinds, B!Actors
<1>1. PICK list : list = b_job[B!Worker].list
    OBVIOUS
<1>2. PICK i : i = CHOOSE k \in list : \A j \in list : k >= j
    OBVIOUS
<1>3. list \subseteq B!Ids /\ list # {} /\ b_job[B!Worker].pc = "pruning" /\ UNCHANGED <<b_row, B!node, B!sched>>
    BY <1>0, <1>1 DEF B!Prune, JobType
<1>4. i \in list
    <2>1. \E k \in list : \A j \in list : k >= j
        BY <1>3, IdsHaveLargest DEF B!BackupsAssumption
    <2> QED
        BY <1>2, <2>1
<1>5. b_asked' = b_asked \cup {i} /\ B!Calls(B!Worker, "delete", i, "deleting", list \ {i})
    BY <1>1, <1>2 DEF B!Prune
<1>6. WaitsAt("delete") = "deleting" /\ ~Waits(B!Worker) /\ i \in B!Ids /\ list \ {i} \in SUBSET B!Ids
    BY <1>3, <1>4 DEF WaitsAt, Waits, B!Waiting
<1>7. b_asked' \subseteq B!Ids /\ b_asked \subseteq b_asked' /\ i \in b_asked'
    BY <1>0, <1>5, <1>6
<1> QED
    BY <1>0, <1>1, <1>3, <1>5, <1>6, <1>7, BackupsCalls

LEMMA BackupsPasses ==
    ASSUME B!BackupsAssumption, BackupsInv, B!Pass \/ B!PassEnds
    PROVE  BackupsInv'
<1>0. /\ b_job \in [B!Actors -> JobType] /\ B!Worker \in B!Actors /\ b_job[B!Worker] \in JobType /\ Scheduled
      /\ BackupsKinds /\ {B_MaxMinute, B_LockMinutes} \subseteq Nat
    BY DEF BackupsInv, BackupsKinds, B!Actors, B!BackupsAssumption
<1>1. /\ b_job[B!Worker].pc \in {"idle", "pruning"} /\ UNCHANGED b_row /\ UNCHANGED <<b_asked, b_cmds, B!node>>
      /\ b_clock' = b_clock
    BY DEF B!Pass, B!PassEnds
<1>2. ~Waits(B!Worker) /\ RowStep(B!Worker) /\ b_row' \in [B!Ids -> {"none", "incomplete", "complete", "deleted"}]
    BY <1>0, <1>1 DEF Waits, B!Waiting, RowStep, BackupsKinds
<1>3. CASE B!Pass
    <2>1. PICK pc \in {"checked", "pruning"} :
             b_job' = [b_job EXCEPT ![B!Worker].pc = pc, ![B!Worker].at = b_clock]
        BY <1>3 DEF B!Pass
    <2>2. /\ b_lock = B!NoMinute /\ b_job[B!Worker].pc = "idle" /\ b_lastRun # b_clock /\ b_lock' = b_clock + B_LockMinutes
          /\ b_fired' = [b_fired EXCEPT ![b_clock] = b_fired[b_clock] + 1] /\ b_lastRun' = b_lastRun
        BY <1>3 DEF B!Pass, B!Fires
    <2>3. PICK j : j = [b_job[B!Worker] EXCEPT !.pc = pc, !.at = b_clock]
        OBVIOUS
    <2>4. b_job' = [b_job EXCEPT ![B!Worker] = j]
        BY <1>0, <2>1, <2>3
    <2>5. b_clock \in 0..B_MaxMinute /\ b_fired[b_clock] \in {0, 1}
        BY <1>0 DEF Scheduled
    <2>6. j \in JobType /\ j.pc = pc /\ j.list = b_job[B!Worker].list /\ j.at = b_clock /\ j.pc \notin B!Waiting
        <3>1. b_clock \in Int
            BY <1>0, <2>5
        <3>2. j \in JobType /\ j.pc = pc /\ j.list = b_job[B!Worker].list /\ j.at = b_clock
            BY <1>0, <2>3, <3>1 DEF JobType
        <3> QED
            BY <3>2 DEF B!Waiting
    <2>7. b_fired[b_clock] = 0
        BY <1>0, <2>2, <2>5 DEF Scheduled, B!NoMinute
    <2>8. /\ b_fired' \in [0..B_MaxMinute -> {0, 1}] /\ b_fired'[b_clock] = 1
          /\ \A m \in 0..B_MaxMinute : m # b_clock => b_fired'[m] = b_fired[m]
        BY <1>0, <2>2, <2>5, <2>7 DEF Scheduled
    <2>9. b_lock' \in Int /\ b_lock' >= b_clock
        BY <1>0, <2>2, <2>5
    <2>10. b_job'[B!Worker].pc # "idle" /\ b_job'[B!Worker].at = b_clock
        BY <1>0, <2>4, <2>6
    <2>11. Scheduled'
        BY <1>0, <1>1, <2>2, <2>5, <2>8, <2>9, <2>10 DEF Scheduled
    <2> QED
        BY <1>0, <1>1, <1>2, <2>4, <2>6, <2>11, BackupsFrees DEF BackupsInv
<1>4. CASE B!PassEnds
    <2>1. /\ b_job' = [b_job EXCEPT ![B!Worker] = B!Idle] /\ b_lastRun' = b_job[B!Worker].at /\ b_lock' = B!NoMinute
          /\ b_fired' = b_fired /\ b_job[B!Worker].pc = "pruning"
        BY <1>4 DEF B!PassEnds
    <2>2. B!Idle \in JobType /\ B!Idle.pc = "idle" /\ B!Idle.list = {}
        BY <1>0, BackupsJobs
    <2>3. B!Idle.pc \notin B!Waiting /\ b_job'[B!Worker] = B!Idle /\ B!Idle.list \subseteq b_job[B!Worker].list
        BY <1>0, <2>1, <2>2 DEF B!Waiting
    <2>4. b_lastRun' \in Int /\ b_lock' \in Int /\ (b_fired[b_clock] = 1 => b_lastRun' = b_clock)
        BY <1>0, <2>1 DEF Scheduled, JobType, B!NoMinute
    <2>5. Scheduled'
        BY <1>0, <1>1, <2>1, <2>2, <2>3, <2>4 DEF Scheduled
    <2> QED
        BY <1>0, <1>1, <1>2, <2>1, <2>2, <2>3, <2>5, BackupsFrees DEF BackupsInv
<1> QED
    BY <1>3, <1>4

-----------------------------------------------------------------------------
(* The agent.                                                               *)

\* A command writes or deletes the archive of its id, if any.
FileStep(c) ==
    \A i \in B!Ids :
        \/ b_file'[i] = b_file[i]
        \/ i = c.id /\ (c.op = "delete" \/ (c.op = "archive" /\ b_file'[i] >= 0))

LEMMA BackupsAnswers ==
    ASSUME B!BackupsAssumption, BackupsInv, NEW c \in b_cmds, NEW answer \in {"ok", "error"},
           B!Answers(c, answer), UNCHANGED <<b_row, b_asked, B!sched>>, FileStep(c),
           b_dirs' \in DirsType, b_file' \in [B!Ids -> Whole \cup {B!Absent}],
           b_runs' = b_runs \/ b_runs' = "stopped",
           c.op = "stop" /\ answer = "ok" => b_runs' = "stopped",
           c.op = "archive" /\ answer = "ok" => b_file'[c.id] >= 0,
           World'
    PROVE  BackupsInv'
<1>0. /\ BackupsKinds /\ Matched /\ Restorers /\ Deleters /\ Archives /\ B!Restorable /\ B!KeepsNewest
      /\ Scheduled /\ b_row' = b_row /\ b_asked' = b_asked /\ UNCHANGED <<b_clock, b_lock, b_lastRun, b_fired>>
      /\ b_cmds' = b_cmds \ {c}
    BY DEF BackupsInv, B!sched, B!Answers
<1>1. /\ b_job \in [B!Actors -> JobType] /\ c \in CmdType /\ c.by \in B!Actors /\ c.id \in B!Ids /\ B!Worker \in B!Actors
      /\ c.op \in {"archive", "stop", "restore", "delete"}
    BY <1>0 DEF BackupsKinds, CmdType, B!Actors
<1>2. PICK j : j = IF c.awaited THEN [b_job[c.by] EXCEPT !.got = answer] ELSE b_job[c.by]
    OBVIOUS
<1>3. /\ j \in JobType /\ j.pc = b_job[c.by].pc /\ j.id = b_job[c.by].id /\ j.list = b_job[c.by].list
      /\ j.at = b_job[c.by].at /\ (c.awaited => j.got = answer) /\ (~c.awaited => j = b_job[c.by])
    BY <1>1, <1>2 DEF JobType
<1>4. b_job' = [b_job EXCEPT ![c.by] = j]
    <2>1. CASE c.awaited
        BY <1>1, <1>2, <2>1 DEF B!Answers
    <2>2. CASE ~c.awaited
        BY <1>1, <1>2, <2>2 DEF B!Answers
    <2> QED
        BY <2>1, <2>2
<1>5. /\ b_job' \in [B!Actors -> JobType] /\ b_job'[c.by] = j /\ Others(c.by)
    BY <1>1, <1>3, <1>4 DEF Others
<1>6. \A b \in B!Actors :
          /\ b_job'[b].pc = b_job[b].pc /\ b_job'[b].id = b_job[b].id /\ b_job'[b].list = b_job[b].list
          /\ b_job'[b].at = b_job[b].at
    BY <1>3, <1>5 DEF Others
<1>7. BackupsKinds'
    <2>1. b_runs' \in {"stopped", "live"}
        BY <1>0 DEF BackupsKinds
    <2> QED
        BY <1>0, <1>5, <2>1 DEF BackupsKinds
<1>8. Matched'
    <2>1. ASSUME NEW d \in b_cmds', d.awaited PROVE b_job'[d.by] = b_job[d.by]
        <3>1. d \in b_cmds /\ d # c /\ d.by \in B!Actors
            BY <1>0 DEF BackupsKinds, CmdType
        <3>2. CASE d.by # c.by
            BY <1>5, <3>1, <3>2 DEF Others
        <3>3. CASE d.by = c.by
            <4>1. ~c.awaited
                BY <1>0, <2>1, <3>1, <3>3 DEF Matched
            <4> QED
                BY <1>3, <1>5, <3>3, <4>1
        <3> QED
            BY <3>2, <3>3
    <2> QED
        BY <1>0, <2>1 DEF Matched
<1>9. c.awaited => b_job[c.by].pc = WaitsAt(c.op) /\ b_job[c.by].id = c.id
    BY <1>0 DEF Matched
<1>10. \A i \in B!Ids : Kept(i) => Kept(i)'
    BY <1>0 DEF Kept
<1>11. Restorers'
    <2>1. B!Restorer(c.by)' => B!Restorer(c.by) /\ b_job'[c.by].id = b_job[c.by].id
        BY <1>1, <1>6 DEF B!Restorer
    <2>2. ASSUME B!Restorer(c.by)', b_job'[c.by].pc = "restoring" \/ b_job'[c.by].got = "ok" PROVE b_runs' = "stopped"
        <3>1. CASE b_job[c.by].pc = "restoring"
            BY <1>0, <1>1, <3>1 DEF Restorers
        <3>2. CASE b_job[c.by].pc = "stopping" /\ ~c.awaited
            BY <1>0, <1>1, <1>3, <1>5, <2>2, <3>2 DEF Restorers
        <3>3. CASE b_job[c.by].pc = "stopping" /\ c.awaited
            <4>1. c.op = "stop"
                BY <1>1, <1>9, <3>3 DEF WaitsAt
            <4>2. answer = "ok"
                BY <1>3, <1>5, <2>2, <3>3
            <4> QED
                BY <4>1, <4>2
        <3> QED
            BY <1>1, <1>6, <2>2, <3>1, <3>2, <3>3 DEF B!Restorer
    <2> QED
        BY <1>0, <1>1, <1>5, <1>10, <2>1, <2>2, RestorersStay
<1>12. Deleters'
    <2>1. \A b \in B!Actors : b_job'[b].pc = "deleting" => b_job'[b].id \in b_asked'
        BY <1>0, <1>6 DEF Deleters
    <2> QED
        BY <1>0, <2>1 DEF Deleters
<1>13. \A i \in B!Ids : b_file[i] >= 0 \/ i \in b_asked => b_file'[i] >= 0 \/ i \in b_asked'
    BY <1>0 DEF FileStep, Deleters
<1>14. Archives'
    <2>1. ASSUME NEW b \in B!Actors, b_job'[b].pc = "archiving"
          PROVE  /\ b_job'[b].id \in B!Ids /\ b_row'[b_job'[b].id] \in {"incomplete", "deleted"}
                 /\ b_job'[b].got = "ok" =>
                      /\ b_file'[b_job'[b].id] >= 0 \/ b_job'[b].id \in b_asked'
                      /\ \A d \in b_cmds' : d.op = "archive" => d.id # b_job'[b].id
        <3>1. b_job[b].pc = "archiving" /\ b_job'[b].id = b_job[b].id
            BY <1>6, <2>1
        <3>2. b_job[b].id \in B!Ids /\ b_row[b_job[b].id] \in {"incomplete", "deleted"}
            BY <1>0, <3>1 DEF Archives
        <3>3. ASSUME b_job[b].got = "ok"
              PROVE  /\ b_file'[b_job[b].id] >= 0 \/ b_job[b].id \in b_asked'
                     /\ \A d \in b_cmds' : d.op = "archive" => d.id # b_job[b].id
            BY <1>0, <1>13, <3>1, <3>2, <3>3 DEF Archives
        <3>4. ASSUME b_job[b].got # "ok", b_job'[b].got = "ok"
              PROVE  /\ b_file'[b_job[b].id] >= 0 \/ b_job[b].id \in b_asked'
                     /\ \A d \in b_cmds' : d.op = "archive" => d.id # b_job[b].id
            <4>1. b = c.by /\ c.awaited /\ answer = "ok"
                BY <1>1, <1>3, <1>5, <3>4 DEF Others
            <4>2. c.op = "archive" /\ c.id = b_job[b].id
                BY <1>1, <1>9, <3>1, <4>1 DEF WaitsAt
            <4> QED
                BY <1>0, <4>1, <4>2 DEF Archives
        <3> QED
            BY <1>0, <3>1, <3>2, <3>3, <3>4
    <2>2. \A b, d \in B!Actors :
              b_job'[b].pc = "archiving" /\ b_job'[d].pc = "archiving" /\ b_job'[b].id = b_job'[d].id => b = d
        BY <1>0, <1>6 DEF Archives
    <2>3. \A d \in b_cmds' : d.op = "archive" => b_row'[d.id] \in {"incomplete", "deleted"}
        BY <1>0 DEF Archives
    <2>4. \A d, e \in b_cmds' : d.op = "archive" /\ e.op = "archive" /\ d.id = e.id => d = e
        BY <1>0 DEF Archives
    <2> QED
        BY <2>1, <2>2, <2>3, <2>4 DEF Archives
<1>15. B!Restorable'
    BY <1>0, <1>13 DEF B!Restorable
<1>16. B!KeepsNewest'
    <2>1. b_job'[B!Worker].list \subseteq b_job[B!Worker].list
        BY <1>1, <1>6
    <2> QED
        BY <1>0, <1>7, <1>10, <2>1, NewestStay
<1>17. Scheduled'
    <2>1. b_job'[B!Worker].pc # "idle" => b_job[B!Worker].pc # "idle" /\ b_job'[B!Worker].at = b_job[B!Worker].at
        BY <1>1, <1>6
    <2> QED
        BY <1>0, <2>1, ScheduleStays
<1> QED
    BY <1>7, <1>8, <1>11, <1>12, <1>14, <1>15, <1>16, <1>17 DEF BackupsInv

\* A restore goes on.
LEMMA BackupsGoes ==
    ASSUME B!BackupsAssumption, BackupsInv, NEW c \in b_cmds, c.op = "restore", NEW step \in Steps,
           B!Goes(c, step), UNCHANGED <<b_row, b_asked, b_file, b_runs, B!sched>>, b_dirs' \in DirsType
    PROVE  /\ \A d \in b_cmds' : d.step # "begin" => d.step = step /\ d.id = c.id
           /\ \E d \in b_cmds' : d.step = step
           /\ World' => BackupsInv'
<1>0. /\ BackupsKinds /\ Matched /\ Restorers /\ Deleters /\ Archives /\ B!Restorable /\ B!KeepsNewest
      /\ Scheduled /\ UNCHANGED <<b_row, b_asked, b_file, b_runs>> /\ UNCHANGED <<b_clock, b_lock, b_lastRun, b_fired>>
      /\ b_job' = b_job
    BY DEF BackupsInv, B!sched, B!Goes
<1>1. PICK new : new = [c EXCEPT !.step = step]
    OBVIOUS
<1>2. b_cmds' = (b_cmds \ {c}) \cup {new}
    BY <1>1 DEF B!Goes
<1>3. c \in CmdType
    BY <1>0 DEF BackupsKinds
<1>4. /\ new \in CmdType /\ new.op = "restore" /\ new.id = c.id /\ new.by = c.by /\ new.step = step
    BY <1>1, <1>3 DEF CmdType
<1>5. c.awaited /\ new.awaited
    BY <1>0, <1>1, <1>3 DEF Matched, CmdType
<1>6. \A d \in b_cmds' : d.step # "begin" => d.step = step /\ d.id = c.id
    BY <1>0, <1>2, <1>4, OneRestore DEF Matched
<1>7. \E d \in b_cmds' : d.step = step
    BY <1>2, <1>4
<1>8. BackupsKinds'
    BY <1>0, <1>2, <1>4 DEF BackupsKinds
<1>9. Matched'
    <2>1. /\ b_job[c.by].pc = WaitsAt(c.op) /\ b_job[c.by].id = c.id /\ b_job[c.by].got = "none"
        BY <1>0, <1>5 DEF Matched
    <2>2. \A d \in b_cmds : d.awaited /\ d.by = c.by => d = c
        BY <1>0, <1>5 DEF Matched
    <2>3. \A d \in b_cmds' :
              /\ d.awaited => b_job'[d.by].pc = WaitsAt(d.op) /\ b_job'[d.by].id = d.id /\ b_job'[d.by].got = "none"
              /\ d.op = "restore" => d.awaited
              /\ d.step # "begin" => d.op = "restore"
        BY <1>0, <1>2, <1>4, <1>5, <2>1 DEF Matched
    <2>4. \A d, e \in b_cmds' : d.awaited /\ e.awaited /\ d.by = e.by => d = e
        BY <1>0, <1>2, <1>4, <2>2 DEF Matched
    <2> QED
        BY <2>3, <2>4 DEF Matched
<1>10. Restorers'
    BY <1>0 DEF Restorers, B!Restorer
<1>11. Deleters'
    BY <1>0, <1>2, <1>4 DEF Deleters
<1>12. Archives'
    <2>1. \A d \in b_cmds' : d.op = "archive" => d \in b_cmds
        BY <1>2, <1>4
    <2> QED
        BY <1>0, <2>1 DEF Archives
<1>13. B!Restorable'
    BY <1>0 DEF B!Restorable
<1>14. B!KeepsNewest'
    BY <1>0 DEF B!KeepsNewest, B!Completed
<1>15. Scheduled'
    BY <1>0 DEF Scheduled
<1> QED
    BY <1>6, <1>7, <1>8, <1>9, <1>10, <1>11, <1>12, <1>13, <1>14, <1>15 DEF BackupsInv

\* What executes apart from restores.
LEMMA BackupsPlain ==
    ASSUME B!BackupsAssumption, BackupsInv, NEW c \in b_cmds, UNCHANGED <<b_row, b_asked, B!sched>>,
           B!TakeArchive(c) \/ B!DeleteArchive(c) \/ B!StopServer(c)
    PROVE  BackupsInv'
<1>0. /\ BackupsKinds /\ Matched /\ Restorers /\ Deleters /\ Archives /\ World /\ b_dirs \in DirsType
      /\ b_file \in [B!Ids -> Whole \cup {B!Absent}] /\ c.id \in B!Ids /\ b_asked' = b_asked
    BY DEF BackupsInv, BackupsKinds, CmdType
<1>1. PICK answer \in {"ok", "error"} : B!Answers(c, answer) /\ (c.op = "archive" /\ answer = "ok" => b_file'[c.id] >= 0)
    <2>1. CASE B!TakeArchive(c)
        <3>1. CASE b_dirs.world # B!Absent /\ b_file' = [b_file EXCEPT ![c.id] = b_dirs.world] /\ B!Answers(c, "ok")
            <4>1. b_dirs.world >= 0
                BY <1>0, <3>1 DEF DirsType, Whole, B!Absent
            <4> QED
                BY <1>0, <3>1, <4>1
        <3> QED
            BY <2>1, <3>1 DEF B!TakeArchive
    <2> QED
        BY <2>1 DEF B!DeleteArchive, B!StopServer
<1>2. /\ b_dirs' = b_dirs /\ (b_runs' = b_runs \/ b_runs' = "stopped") /\ (c.op = "stop" => b_runs' = "stopped")
      /\ c.op # "restore" /\ b_cmds' = b_cmds \ {c}
    BY DEF B!TakeArchive, B!DeleteArchive, B!StopServer, B!Answers
<1>3. FileStep(c) /\ b_file' \in [B!Ids -> Whole \cup {B!Absent}]
    <2>1. CASE B!TakeArchive(c)
        <3>1. CASE b_dirs.world # B!Absent /\ b_file' = [b_file EXCEPT ![c.id] = b_dirs.world]
            <4>1. b_dirs.world >= 0 /\ b_dirs.world \in Whole /\ c.op = "archive"
                BY <1>0, <2>1, <3>1 DEF DirsType, Whole, B!Absent, B!TakeArchive
            <4> QED
                BY <1>0, <3>1, <4>1 DEF FileStep
        <3>2. CASE b_file' = b_file
            BY <1>0, <3>2 DEF FileStep
        <3> QED
            BY <2>1, <3>1, <3>2 DEF B!TakeArchive
    <2>2. CASE B!DeleteArchive(c)
        BY <1>0, <2>2 DEF B!DeleteArchive, FileStep
    <2>3. CASE B!StopServer(c)
        BY <1>0, <2>3 DEF B!StopServer, FileStep
    <2> QED
        BY <2>1, <2>2, <2>3
<1>4. World'
    <2>1. ASSUME NEW d \in b_cmds', d.step # "begin"
          PROVE  d \in b_cmds /\ (b_file'[d.id] = b_file[d.id] \/ d.id \in b_asked')
        <3>1. d \in b_cmds /\ d.op = "restore" /\ d.id \in B!Ids
            BY <1>0, <1>2, <2>1 DEF Matched, BackupsKinds, CmdType
        <3>2. b_row[d.id] = "complete" \/ d.id \in b_asked
            BY <1>0, <3>1, OneRestore DEF Kept
        <3>3. c.op = "archive" /\ c.id = d.id => d.id \in b_asked
            BY <1>0, <3>2 DEF Archives
        <3>4. c.op = "delete" /\ c.id = d.id => d.id \in b_asked
            BY <1>0 DEF Deleters
        <3> QED
            BY <1>0, <1>3, <3>1, <3>3, <3>4 DEF FileStep
    <2>2. \A d \in b_cmds : d.step = "swapped" => d \in b_cmds'
        BY <1>0, <1>2 DEF Matched
    <2> QED
        BY <1>0, <1>2, <2>1, <2>2, WorldStays
<1> QED
    BY <1>0, <1>1, <1>2, <1>3, <1>4, BackupsAnswers

\* Where one restore is there are no others, and the world is missing only
\* between its two moves.
LEMMA RestoreAlone ==
    ASSUME BackupsInv, NEW c \in b_cmds, c.step # "begin" \/ c.op = "restore"
    PROVE  /\ c.op = "restore" /\ c \in CmdType /\ c.id \in B!Ids /\ b_runs = "stopped"
           /\ \A d \in b_cmds : d.step # "begin" => d = c
           /\ c.step # "swapped" => b_dirs.world # B!Absent
           /\ b_dirs \in DirsType /\ b_file \in [B!Ids -> Whole \cup {B!Absent}]
<1>0. /\ BackupsKinds /\ Matched /\ Restorers /\ World
    BY DEF BackupsInv
<1>1. /\ c.op = "restore" /\ c \in CmdType /\ c.id \in B!Ids
      /\ b_dirs \in DirsType /\ b_file \in [B!Ids -> Whole \cup {B!Absent}]
    BY <1>0 DEF Matched, BackupsKinds, CmdType
<1>2. \A d \in b_cmds : d.step # "begin" => d = c
    BY <1>0, <1>1, OneRestore DEF Matched
<1>3. b_runs = "stopped"
    BY <1>0, <1>1, OneRestore
<1>4. c.step # "swapped" => b_dirs.world # B!Absent
    BY <1>0, <1>2 DEF World
<1> QED
    BY <1>1, <1>2, <1>3, <1>4

\* A restore that gives up, or is done.
LEMMA BackupsRestoreEnds ==
    ASSUME B!BackupsAssumption, BackupsInv, NEW c \in b_cmds, c.op = "restore", c.step # "swapped",
           NEW answer \in {"ok", "error"}, B!Answers(c, answer),
           UNCHANGED <<b_row, b_asked, B!sched>>, UNCHANGED <<b_file, b_runs>>,
           b_dirs' \in DirsType, b_dirs'.world = b_dirs.world
    PROVE  BackupsInv'
<1>1. b_cmds' = b_cmds \ {c} /\ c.op = "restore" /\ FileStep(c)
    BY DEF B!Answers, FileStep
<1>2. b_dirs.world # B!Absent /\ \A d \in b_cmds : d.step # "begin" => d = c
    BY RestoreAlone
<1>3. \A d \in b_cmds' : d.step = "begin"
    BY <1>1, <1>2
<1>4. World'
    BY <1>2, <1>3 DEF World
<1>5. b_file' \in [B!Ids -> Whole \cup {B!Absent}]
    BY DEF BackupsInv, BackupsKinds
<1> QED
    BY <1>1, <1>4, <1>5, BackupsAnswers

LEMMA BackupsRestores ==
    ASSUME B!BackupsAssumption, BackupsInv, NEW c \in b_cmds, UNCHANGED <<b_row, b_asked, B!sched>>,
           B!Stage(c) \/ B!Extract(c) \/ B!SwapOut(c) \/ B!SwapIn(c) \/ B!DropPrevious(c)
    PROVE  BackupsInv'
<1>0. /\ c.op = "restore" /\ c \in CmdType /\ c.id \in B!Ids /\ b_runs = "stopped"
      /\ \A d \in b_cmds : d.step # "begin" => d = c
      /\ c.step # "swapped" => b_dirs.world # B!Absent
      /\ b_dirs \in DirsType /\ b_file \in [B!Ids -> Whole \cup {B!Absent}] /\ World
    <2>1. c.step # "begin" \/ c.op = "restore"
        BY DEF B!Stage, B!Extract, B!SwapOut, B!SwapIn, B!DropPrevious
    <2> QED
        BY <2>1, RestoreAlone DEF BackupsInv
<1>1. UNCHANGED b_file /\ UNCHANGED b_runs
    BY <1>0 DEF B!Stage, B!Extract, B!SwapOut, B!SwapIn, B!DropPrevious
<1>2. UNCHANGED <<b_row, b_asked, b_file, b_runs, B!sched>> /\ UNCHANGED <<b_file, b_runs>>
    BY <1>1
<1>3. CASE B!Stage(c)
    <2>1. CASE B!Answers(c, "error") /\ UNCHANGED b_dirs
        BY <1>0, <1>2, <1>3, <2>1, BackupsRestoreEnds DEF B!Stage
    <2>2. CASE B!Goes(c, "extracting") /\ b_dirs' = [b_dirs EXCEPT !.staging = B!Empty]
        <3>1. b_dirs' \in DirsType /\ b_dirs'.staging = B!Empty /\ b_dirs'.world = b_dirs.world
            BY <1>0, <2>2 DEF DirsType
        <3>2. /\ \A d \in b_cmds' : d.step # "begin" => d.step = "extracting" /\ d.id = c.id
              /\ World' => BackupsInv'
            BY <1>0, <1>2, <2>2, <3>1, BackupsGoes DEF Steps
        <3>3. c.step = "begin"
            BY <1>3 DEF B!Stage
        <3>4. World'
            BY <1>0, <3>1, <3>2, <3>3 DEF World
        <3> QED
            BY <3>2, <3>4
    <2> QED
        BY <1>3, <2>1, <2>2 DEF B!Stage
<1>4. CASE B!Extract(c)
    <2>0. c.step = "extracting" /\ b_dirs.staging = B!Empty
        BY <1>0, <1>4 DEF B!Extract, World
    <2>1. CASE b_dirs' = [b_dirs EXCEPT !.staging = B!Absent] /\ B!Answers(c, "error")
        <3>1. b_dirs' \in DirsType /\ b_dirs'.world = b_dirs.world
            BY <1>0, <2>1 DEF DirsType
        <3> QED
            BY <1>0, <1>2, <2>0, <2>1, <3>1, BackupsRestoreEnds
    <2>2. CASE /\ b_file[c.id] # B!Absent /\ B!Goes(c, "swapping")
               /\ b_dirs' = [b_dirs EXCEPT !.staging = IF b_dirs.staging \in {B!Absent, B!Empty}
                                                  THEN b_file[c.id] ELSE B!Torn]
        <3>1. b_file[c.id] \in Whole /\ b_file[c.id] >= 0
            BY <1>0, <2>2 DEF Whole, B!Absent
        <3>2. b_dirs' = [b_dirs EXCEPT !.staging = b_file[c.id]]
            BY <2>0, <2>2
        <3>3. b_dirs' \in DirsType /\ b_dirs'.staging = b_file[c.id] /\ b_dirs'.world = b_dirs.world
            BY <1>0, <3>1, <3>2 DEF DirsType
        <3>4. /\ \A d \in b_cmds' : d.step # "begin" => d.step = "swapping" /\ d.id = c.id
              /\ World' => BackupsInv'
            BY <1>0, <1>2, <2>2, <3>3, BackupsGoes DEF Steps
        <3>5. World'
            BY <1>0, <1>1, <2>0, <3>1, <3>3, <3>4 DEF World
        <3> QED
            BY <3>4, <3>5
    <2> QED
        BY <1>4, <2>1, <2>2 DEF B!Extract
<1>5. CASE B!SwapOut(c)
    <2>1. /\ c.step = "swapping" /\ B!Goes(c, "swapped")
          /\ b_dirs' = [b_dirs EXCEPT !.previous = b_dirs.world, !.world = B!Absent]
        BY <1>5 DEF B!SwapOut
    <2>2. b_dirs.staging >= 0 /\ (b_dirs.staging = b_file[c.id] \/ c.id \in b_asked)
        BY <1>0, <2>1 DEF World
    <2>3. b_dirs' \in DirsType /\ b_dirs'.staging = b_dirs.staging /\ b_dirs'.world = B!Absent
        BY <1>0, <2>1 DEF DirsType
    <2>4. /\ \A d \in b_cmds' : d.step # "begin" => d.step = "swapped" /\ d.id = c.id
          /\ \E d \in b_cmds' : d.step = "swapped"
          /\ World' => BackupsInv'
        BY <1>0, <1>2, <2>1, <2>3, BackupsGoes DEF Steps
    <2>5. World'
        BY <1>1, <2>2, <2>3, <2>4 DEF World
    <2> QED
        BY <2>4, <2>5
<1>6. CASE B!SwapIn(c)
    <2>0. c.step = "swapped" /\ b_dirs.staging >= 0 /\ (b_dirs.staging = b_file[c.id] \/ c.id \in b_asked)
        BY <1>0, <1>6 DEF World, B!SwapIn
    <2>1. b_dirs.staging # B!Absent
        BY <2>0 DEF B!Absent
    <2>2. b_dirs' = [b_dirs EXCEPT !.world = b_dirs.staging, !.staging = B!Absent] /\ B!Goes(c, "cleaning")
        BY <1>6, <2>1 DEF B!SwapIn
    <2>3. b_dirs.staging \in Whole
        BY <1>0, <2>0 DEF DirsType, B!Absent, B!Empty
    <2>4. b_dirs' \in DirsType /\ b_dirs'.world = b_dirs.staging
        BY <1>0, <2>2, <2>3 DEF DirsType
    <2>5. /\ \A d \in b_cmds' : d.step # "begin" => d.step = "cleaning" /\ d.id = c.id
          /\ World' => BackupsInv'
        BY <1>0, <1>2, <2>2, <2>4, BackupsGoes DEF Steps
    <2>6. World'
        BY <1>1, <2>0, <2>1, <2>4, <2>5 DEF World
    <2> QED
        BY <2>5, <2>6
<1>7. CASE B!DropPrevious(c)
    <2>1. c.step = "cleaning" /\ b_dirs' = [b_dirs EXCEPT !.previous = B!Absent] /\ B!Answers(c, "ok")
        BY <1>7 DEF B!DropPrevious
    <2>2. b_dirs' \in DirsType /\ b_dirs'.world = b_dirs.world
        BY <1>0, <2>1 DEF DirsType
    <2> QED
        BY <1>0, <1>2, <2>1, <2>2, BackupsRestoreEnds
<1> QED
    BY <1>3, <1>4, <1>5, <1>6, <1>7

-----------------------------------------------------------------------------
(* The rest.                                                                *)

LEMMA BackupsAround ==
    ASSUME B!BackupsAssumption, BackupsInv, B!Minute \/ B!AgentDies \/ B!Start \/ B!Play \/ UNCHANGED B!vars
    PROVE  BackupsInv'
<1>0. /\ BackupsKinds /\ Matched /\ Restorers /\ Deleters /\ Archives /\ World /\ Scheduled
      /\ B!Restorable /\ B!KeepsNewest
    BY DEF BackupsInv
<1>1. UNCHANGED <<b_row, b_job, b_asked, b_file>>
    BY DEF B!Minute, B!AgentDies, B!Start, B!Play, B!vars, B!panel, B!node, B!sched
<1>2. b_cmds' = b_cmds \/ b_cmds' = {}
    BY DEF B!Minute, B!AgentDies, B!Start, B!Play, B!vars, B!panel, B!node, B!sched
<1>3. Matched' /\ Deleters' /\ Archives'
    BY <1>0, <1>1, <1>2 DEF Matched, Deleters, Archives
<1>4. B!Restorable' /\ B!KeepsNewest'
    BY <1>0, <1>1 DEF B!Restorable, B!KeepsNewest, B!Completed
<1>5. CASE B!AgentDies
    <2>1. /\ B!Restoring = {} /\ b_cmds' = {} /\ UNCHANGED <<b_dirs, b_runs>>
          /\ UNCHANGED <<b_clock, b_lock, b_lastRun, b_fired>>
        BY <1>5 DEF B!AgentDies, B!node, B!sched
    <2>2. b_dirs.world # B!Absent
        BY <1>0, <2>1 DEF World, B!Restoring, Matched
    <2>3. World'
        BY <2>1, <2>2 DEF World
    <2>4. Scheduled' /\ Restorers' /\ BackupsKinds'
        BY <1>0, <1>1, <2>1 DEF Scheduled, Restorers, B!Restorer, BackupsKinds
    <2> QED
        BY <1>3, <1>4, <2>3, <2>4 DEF BackupsInv
<1>6. CASE B!Minute
    <2>1. /\ b_clock < B_MaxMinute /\ b_clock' = b_clock + 1
          /\ b_lock' = (IF b_lock = b_clock + 1 THEN B!NoMinute ELSE b_lock)
          /\ UNCHANGED <<b_dirs, b_runs, b_cmds, b_lastRun, b_fired>>
        BY <1>6 DEF B!Minute, B!panel, B!node
    <2>2. BackupsKinds' /\ Restorers' /\ World'
        BY <1>0, <1>1, <2>1 DEF BackupsKinds, Restorers, B!Restorer, World
    <2>3. B_MaxMinute \in Nat
        BY DEF B!BackupsAssumption
    <2>4. b_clock' \in 0..B_MaxMinute /\ b_lock' \in Int /\ b_lastRun' \in Int
        BY <1>0, <2>1, <2>3 DEF Scheduled, B!NoMinute
    <2>5. b_fired'[b_clock'] # 1 /\ \A m \in 0..B_MaxMinute : b_fired'[m] = 1 => m <= b_clock'
        BY <1>0, <2>1, <2>3, <2>4 DEF Scheduled
    <2>6. Scheduled'
        BY <1>0, <2>1, <2>4, <2>5 DEF Scheduled
    <2> QED
        BY <1>3, <1>4, <2>2, <2>6 DEF BackupsInv
<1>7. CASE B!Start
    <2>1. /\ (\A a \in B!Actors : ~B!Restorer(a)) /\ b_runs' = "live"
          /\ UNCHANGED <<b_cmds, b_dirs>> /\ UNCHANGED <<b_clock, b_lock, b_lastRun, b_fired>>
        BY <1>7 DEF B!Start, B!panel, B!sched
    <2>2. Restorers'
        BY <1>1, <2>1 DEF Restorers, B!Restorer
    <2>3. BackupsKinds' /\ World' /\ Scheduled'
        BY <1>0, <1>1, <2>1 DEF BackupsKinds, World, Scheduled
    <2> QED
        BY <1>3, <1>4, <2>2, <2>3 DEF BackupsInv
<1>8. CASE B!Play
    <2>1. /\ b_runs = "live" /\ b_dirs.world \in 0..(B_MaxPlays - 1) /\ b_dirs' = [b_dirs EXCEPT !.world = b_dirs.world + 1]
          /\ UNCHANGED <<b_cmds, b_runs>> /\ UNCHANGED <<b_clock, b_lock, b_lastRun, b_fired>>
        BY <1>8 DEF B!Play, B!panel, B!sched
    <2>2. B_MaxPlays \in Nat
        BY DEF B!BackupsAssumption
    <2>3. b_dirs' \in DirsType /\ b_dirs'.world # B!Absent
        BY <1>0, <2>1, <2>2 DEF BackupsKinds, DirsType, Whole, B!Absent
    <2>4. \A c \in b_cmds : c.step = "begin"
        BY <1>0, <2>1, OneRestore DEF Matched
    <2>5. World'
        BY <2>1, <2>3, <2>4 DEF World
    <2>6. BackupsKinds' /\ Restorers' /\ Scheduled'
        BY <1>0, <1>1, <2>1, <2>3 DEF BackupsKinds, Restorers, B!Restorer, Scheduled
    <2> QED
        BY <1>3, <1>4, <2>5, <2>6 DEF BackupsInv
<1>9. CASE UNCHANGED B!vars
    <2>1. UNCHANGED <<b_row, b_file, b_dirs, b_job, b_cmds, b_runs, b_clock, b_lock, b_lastRun, b_fired, b_asked>>
        BY <1>9 DEF B!vars
    <2>2. BackupsKinds' /\ Restorers' /\ World' /\ Scheduled'
        BY <1>0, <2>1 DEF BackupsKinds, Restorers, B!Restorer, World, Scheduled
    <2> QED
        BY <1>3, <1>4, <2>2 DEF BackupsInv
<1> QED
    BY <1>5, <1>6, <1>7, <1>8, <1>9

LEMMA BackupsStep ==
    ASSUME B!BackupsAssumption, BackupsInv, B!Next \/ UNCHANGED B!vars
    PROVE  BackupsInv'
<1>0. B_Tabs \subseteq B!Actors /\ B!Worker \in B!Actors
    BY DEF B!Actors
<1>1. ASSUME NEW a \in B_Tabs, B!Create(a) \/ \E i \in B!Ids : B!Restore(a, i) \/ B!Delete(a, i) PROVE BackupsInv'
    BY <1>0, <1>1, BackupsRequests, BackupsStartsCalls
<1>2. ASSUME NEW a \in B!Actors,
             \/ B!WriteRow(a) \/ B!Archived(a) \/ B!Dies(a) \/ B!Stopped(a)
             \/ B!Restored(a) \/ B!Deleted(a) \/ B!Timeout(a)
      PROVE  BackupsInv'
    BY <1>2, BackupsRow, BackupsRequests, BackupsTimeout
<1>3. ASSUME NEW c \in b_cmds, B!Execute(c) PROVE BackupsInv'
    <2>1. UNCHANGED <<b_row, b_asked, B!sched>>
        BY <1>3 DEF B!Execute
    <2> QED
        BY <1>3, <2>1, BackupsPlain, BackupsRestores DEF B!Execute
<1>4. CASE B!Pass \/ B!ListStale \/ B!Prune \/ B!PassEnds
    BY <1>4, BackupsPasses, BackupsLists, BackupsPrunes
<1>5. CASE B!Minute \/ B!AgentDies \/ B!Start \/ B!Play \/ UNCHANGED B!vars
    BY <1>5, BackupsAround
<1> QED
    BY <1>1, <1>2, <1>3, <1>4, <1>5 DEF B!Next

LEMMA BackupsHold ==
    ASSUME B!BackupsAssumption, BackupsInv
    PROVE  B!TypeOK /\ B!WorldKept /\ B!Restorable /\ B!ScheduleKept
<1>0. /\ BackupsKinds /\ Matched /\ World /\ Scheduled /\ B!Restorable /\ B!KeepsNewest
    BY DEF BackupsInv
<1>1. /\ b_row \in [B!Ids -> {"none", "incomplete", "complete", "deleted"}]
      /\ b_file \in [B!Ids -> Whole \cup {B!Absent}] /\ b_dirs \in DirsType
      /\ b_runs \in {"stopped", "live"} /\ \A a \in B!Actors : b_job[a] \in JobType
      /\ \A c \in b_cmds : c \in CmdType
    BY <1>0 DEF BackupsKinds
<1>2. B!TypeOK
    <2>1. b_file \in [B!Ids -> B!Contents]
        BY <1>1 DEF B!Contents, Whole
    <2>2. b_dirs \in [world : B!Contents, staging : B!Contents, previous : B!Contents]
        BY <1>1 DEF DirsType, B!Contents, Whole
    <2>3. \A a \in B!Actors :
              /\ b_job[a].pc \in B!Waiting \cup {"idle", "checked", "listing", "pruning"}
              /\ b_job[a].id \in 0..B_MaxId /\ b_job[a].list \subseteq B!Ids
        BY <1>1 DEF JobType
    <2>4. \A c \in b_cmds : c.op \in {"archive", "delete", "stop", "restore"} /\ c.by \in B!Actors
        BY <1>1 DEF CmdType
    <2> QED
        BY <1>1, <2>1, <2>2, <2>3, <2>4 DEF B!TypeOK
<1>3. B!WorldKept
    <2>1. b_dirs.world \notin {B!Torn, B!Empty} /\ b_runs # "moved-away"
        BY <1>1 DEF DirsType, Whole, B!Torn, B!Empty, B!Absent
    <2>2. \A c \in b_cmds : c.step = "cleaning" => b_dirs.world = b_file[c.id] \/ c.id \in b_asked
        BY <1>0 DEF World
    <2>3. b_dirs.world = B!Absent => \E c \in b_cmds : c.step = "swapped" /\ b_dirs.staging >= 0
        BY <1>0 DEF World
    <2> QED
        BY <2>1, <2>2, <2>3 DEF B!WorldKept
<1>4. B!OncePerMinute
    <2>1. b_fired \in [0..B_MaxMinute -> {0, 1}]
        BY <1>0 DEF Scheduled
    <2> QED
        BY <2>1 DEF B!OncePerMinute
<1> QED
    BY <1>0, <1>2, <1>3, <1>4 DEF B!ScheduleKept

-----------------------------------------------------------------------------
(* Console: every viewer is in the set the map holds, commands alternate,   *)
(* and a log that ended with the container is left before the next set.     *)

ConsoleKinds ==
    /\ c_tickets \subseteq C_Tabs /\ c_made \in 0..C_MaxSets /\ c_current \in {0, c_made} /\ c_faultAt \in 0..c_made
    /\ c_sock \in [C_Tabs -> {"away", "attaching", "closing", "added", "listening", "dead"}]
    /\ c_setOf \in [C_Tabs -> 0..C_MaxSets]
    /\ c_toAgent \in Seq({"attach", "detach"})
    /\ c_slow \in Nat /\ c_streams \in Nat

InTheSet == \A v \in C_Tabs : IF c_sock[v] = "away" THEN c_setOf[v] = 0 ELSE c_setOf[v] = c_current /\ c_current # 0

\* The last command published is an attach when the map holds a set.
Alternate ==
    \A i \in 1..Len(c_toAgent) :
        c_toAgent[i] = IF (((Len(c_toAgent) - i) % 2) = 0) = (c_current # 0) THEN "attach" ELSE "detach"

\* Who follows a log that has ended: there is a detach to come before the
\* attach of the first set made since.
EndedIsLeft ==
    c_attached = TRUE /\ c_streams = 0 =>
        Len(c_toAgent) + 2 * c_faultAt >= 2 * c_made + (IF c_current = 0 THEN 1 ELSE 0)

Followed == c_toAgent = <<>> /\ c_current > c_faultAt => c_slow > 0 \/ c_attached = TRUE

ConsoleInv ==
    /\ ConsoleKinds /\ c_attached \in BOOLEAN
    /\ InTheSet /\ Alternate /\ EndedIsLeft /\ Followed

LEMMA Parity == \A k \in Nat : ((k + 1) % 2 = 0) = ~(k % 2 = 0)
OBVIOUS

LEMMA ConsoleStarts == ASSUME C!ConsoleAssumption, C!Init PROVE ConsoleInv
<1>1. C_MaxSets \in Nat
    BY DEF C!ConsoleAssumption
<1>2. ConsoleKinds
    BY <1>1 DEF C!Init, ConsoleKinds
<1>3. Len(c_toAgent) = 0
    BY DEF C!Init
<1>4. c_attached \in BOOLEAN /\ c_attached # TRUE
    BY DEF C!Init
<1>5. InTheSet /\ Alternate /\ EndedIsLeft /\ Followed
    BY <1>1, <1>3, <1>4 DEF C!Init, InTheSet, Alternate, EndedIsLeft, Followed
<1> QED
    BY <1>2, <1>4, <1>5 DEF ConsoleInv

\* Sockets come and go, and the gateway publishes nothing.
LEMMA ConsoleQuiet ==
    ASSUME ConsoleInv, c_tickets' \subseteq C_Tabs, InTheSet',
           c_sock' \in [C_Tabs -> {"away", "attaching", "closing", "added", "listening", "dead"}],
           c_setOf' \in [C_Tabs -> 0..C_MaxSets],
           UNCHANGED <<c_current, c_made, c_toAgent, c_slow, c_attached, c_streams, c_faults, c_faultAt>>
    PROVE  ConsoleInv'
<1>1. ConsoleKinds'
    BY DEF ConsoleInv, ConsoleKinds
<1>2. c_attached' \in BOOLEAN
    BY DEF ConsoleInv
<1> QED
    BY <1>1, <1>2 DEF ConsoleInv, Alternate, EndedIsLeft, Followed

\* The gateway publishes a command: the map turns from no set to one, or back.
LEMMA ConsolePublishes ==
    ASSUME ConsoleInv, NEW op \in {"attach", "detach"}, c_tickets' \subseteq C_Tabs, InTheSet',
           c_sock' \in [C_Tabs -> {"away", "attaching", "closing", "added", "listening", "dead"}],
           c_setOf' \in [C_Tabs -> 0..C_MaxSets], c_toAgent' = Append(c_toAgent, op),
           UNCHANGED <<c_slow, c_attached, c_streams, c_faults, c_faultAt>>,
           \/ op = "attach" /\ c_current = 0 /\ c_made' = c_made + 1 /\ c_made' <= C_MaxSets /\ c_current' = c_made'
           \/ op = "detach" /\ c_current # 0 /\ c_made' = c_made /\ c_current' = 0,
           C_MaxSets \in Nat
    PROVE  ConsoleInv'
<1>1. /\ c_made \in Nat /\ c_current \in {0, c_made} /\ c_faultAt \in 0..c_made /\ c_streams \in Nat /\ c_slow \in Nat
      /\ c_toAgent \in Seq({"attach", "detach"}) /\ Len(c_toAgent) \in Nat
    BY DEF ConsoleInv, ConsoleKinds
<1>2. /\ c_toAgent' \in Seq({"attach", "detach"}) /\ Len(c_toAgent') = Len(c_toAgent) + 1
      /\ c_toAgent'[Len(c_toAgent) + 1] = op /\ \A i \in 1..Len(c_toAgent) : c_toAgent'[i] = c_toAgent[i]
    BY <1>1
<1>3. ConsoleKinds'
    BY <1>1, <1>2 DEF ConsoleInv, ConsoleKinds
<1>4. (c_current' # 0) = (op = "attach") /\ (c_current # 0) = (op = "detach")
    BY <1>1
<1>5. Alternate'
    <2>1. SUFFICES ASSUME NEW i \in 1..Len(c_toAgent')
                   PROVE  c_toAgent'[i] = IF (((Len(c_toAgent') - i) % 2) = 0) = (c_current' # 0)
                                        THEN "attach" ELSE "detach"
        BY DEF Alternate
    <2>2. CASE i = Len(c_toAgent) + 1
        <3>1. (Len(c_toAgent') - i) % 2 = 0
            BY <1>1, <1>2, <2>2
        <3> QED
            BY <1>2, <1>4, <2>2, <3>1
    <2>3. CASE i \in 1..Len(c_toAgent)
        <3>1. ((Len(c_toAgent') - i) % 2 = 0) = ~((Len(c_toAgent) - i) % 2 = 0)
            <4>1. Len(c_toAgent) - i \in Nat /\ Len(c_toAgent') - i = (Len(c_toAgent) - i) + 1
                BY <1>1, <1>2, <2>3
            <4> QED
                BY <4>1, Parity
        <3>2. c_toAgent[i] = IF (((Len(c_toAgent) - i) % 2) = 0) = (c_current # 0) THEN "attach" ELSE "detach"
            BY <2>3 DEF ConsoleInv, Alternate
        <3> QED
            BY <1>2, <1>4, <2>3, <3>1, <3>2
    <2> QED
        BY <1>1, <1>2, <2>1, <2>2, <2>3
<1>6. EndedIsLeft'
    BY <1>1, <1>2 DEF ConsoleInv, EndedIsLeft
<1>7. Followed'
    BY <1>1, <1>2 DEF Followed
<1>8. c_attached' \in BOOLEAN
    BY DEF ConsoleInv
<1> QED
    BY <1>3, <1>5, <1>6, <1>7, <1>8 DEF ConsoleInv

\* The agent takes the next command.
LEMMA ConsoleReceives ==
    ASSUME ConsoleInv, NEW op, C!Receives(op), UNCHANGED <<c_current, c_made, c_faultAt>>
    PROVE  /\ c_toAgent' \in Seq({"attach", "detach"}) /\ Alternate'
           /\ Len(c_toAgent') = Len(c_toAgent) - 1 /\ Len(c_toAgent) \in Nat \ {0}
           /\ op = IF (((Len(c_toAgent) - 1) % 2) = 0) = (c_current # 0) THEN "attach" ELSE "detach"
<1>1. c_toAgent \in Seq({"attach", "detach"}) /\ c_toAgent # <<>> /\ op = Head(c_toAgent) /\ c_toAgent' = Tail(c_toAgent)
    BY DEF ConsoleInv, ConsoleKinds, C!Receives
<1>2. /\ c_toAgent' \in Seq({"attach", "detach"}) /\ Len(c_toAgent') = Len(c_toAgent) - 1
      /\ Len(c_toAgent) \in Nat \ {0} /\ op = c_toAgent[1]
      /\ \A i \in 1..Len(c_toAgent') : c_toAgent'[i] = c_toAgent[i + 1]
    BY <1>1
<1>3. ASSUME NEW i \in 1..Len(c_toAgent')
      PROVE  c_toAgent'[i] = IF (((Len(c_toAgent') - i) % 2) = 0) = (c_current # 0) THEN "attach" ELSE "detach"
    <2>1. i + 1 \in 1..Len(c_toAgent) /\ Len(c_toAgent') - i = Len(c_toAgent) - (i + 1)
        BY <1>2
    <2>2. c_toAgent[i + 1] = IF (((Len(c_toAgent) - (i + 1)) % 2) = 0) = (c_current # 0) THEN "attach" ELSE "detach"
        BY <2>1 DEF ConsoleInv, Alternate
    <2> QED
        BY <1>2, <2>1, <2>2
<1>4. Alternate'
    BY <1>3 DEF Alternate
<1>5. 1 \in 1..Len(c_toAgent)
    BY <1>2
<1> QED
    BY <1>2, <1>4, <1>5 DEF ConsoleInv, Alternate

LEMMA ConsoleAgent ==
    ASSUME ConsoleInv, C!Attach \/ C!Detach \/ C!AttachDone \/ C!Restart \/ C!Exits
    PROVE  ConsoleInv'
<1>1. /\ c_made \in Nat /\ c_current \in {0, c_made} /\ c_faultAt \in 0..c_made /\ c_streams \in Nat /\ c_slow \in Nat
      /\ Len(c_toAgent) \in Nat /\ c_toAgent \in Seq({"attach", "detach"}) /\ ConsoleKinds
    BY DEF ConsoleInv, ConsoleKinds
<1>2. /\ UNCHANGED <<c_tickets, c_sock, c_setOf, c_current, c_made>> /\ InTheSet'
    BY DEF C!Attach, C!Detach, C!AttachDone, C!Restart, C!Exits, C!gateway, ConsoleInv, InTheSet
<1>3. CASE C!Attach
    <2>1. /\ C!Receives("attach") /\ UNCHANGED <<c_attached, c_streams, c_faultAt>>
          /\ c_slow' = IF c_attached THEN c_slow ELSE c_slow + 1
        BY <1>3 DEF C!Attach
    <2>2. /\ c_toAgent' \in Seq({"attach", "detach"}) /\ Alternate'
          /\ Len(c_toAgent') = Len(c_toAgent) - 1 /\ Len(c_toAgent) \in Nat \ {0}
          /\ "attach" = IF (((Len(c_toAgent) - 1) % 2) = 0) = (c_current # 0) THEN "attach" ELSE "detach"
        BY <1>2, <2>1, ConsoleReceives
    <2>3. c_slow' \in Nat /\ (c_slow' > 0 \/ c_attached = TRUE)
        <3>1. CASE c_attached
            BY <1>1, <2>1, <3>1
        <3>2. CASE ~c_attached
            BY <1>1, <2>1, <3>2
        <3> QED
            BY <3>1, <3>2
    <2>4. EndedIsLeft'
        <3>1. (((Len(c_toAgent) - 1) % 2) = 0) = (c_current # 0)
            BY <2>2
        <3>2. CASE c_current = 0
            <4>1. (Len(c_toAgent) - 1) % 2 = 1
                BY <1>1, <2>2, <3>1, <3>2
            <4> QED
                BY <1>1, <1>2, <2>1, <2>2, <3>2, <4>1 DEF ConsoleInv, EndedIsLeft
        <3>3. CASE c_current # 0
            <4>1. (Len(c_toAgent) - 1) % 2 = 0
                BY <3>1, <3>3
            <4> QED
                BY <1>1, <1>2, <2>1, <2>2, <3>3, <4>1 DEF ConsoleInv, EndedIsLeft
        <3> QED
            BY <3>2, <3>3
    <2>5. ConsoleKinds' /\ c_attached' \in BOOLEAN
        BY <1>1, <1>2, <2>1, <2>2, <2>3 DEF ConsoleKinds, ConsoleInv
    <2>6. Followed'
        BY <2>1, <2>3 DEF Followed
    <2> QED
        BY <1>2, <2>2, <2>4, <2>5, <2>6 DEF ConsoleInv
<1>4. CASE C!Detach
    <2>1. C!Receives("detach") /\ UNCHANGED <<c_slow, c_faultAt>> /\ c_attached' = FALSE /\ c_streams' = C!Left
        BY <1>4 DEF C!Detach
    <2>2. /\ c_toAgent' \in Seq({"attach", "detach"}) /\ Alternate'
          /\ Len(c_toAgent') = Len(c_toAgent) - 1 /\ Len(c_toAgent) \in Nat \ {0}
          /\ "detach" = IF (((Len(c_toAgent) - 1) % 2) = 0) = (c_current # 0) THEN "attach" ELSE "detach"
        BY <1>2, <2>1, ConsoleReceives
    <2>3. c_streams' \in Nat
        BY <1>1, <2>1 DEF C!Left
    <2>4. Followed'
        <3>1. SUFFICES ASSUME c_toAgent' = <<>>, c_current' > c_faultAt' PROVE FALSE
            BY DEF Followed
        <3>2. Len(c_toAgent) - 1 = 0
            BY <2>2, <3>1
        <3>3. c_current = 0
            BY <2>2, <3>2
        <3> QED
            BY <1>1, <1>2, <2>1, <3>1, <3>3
    <2>5. ConsoleKinds' /\ c_attached' \in BOOLEAN /\ EndedIsLeft'
        BY <1>1, <1>2, <2>1, <2>2, <2>3 DEF ConsoleKinds, EndedIsLeft
    <2> QED
        BY <1>2, <2>2, <2>4, <2>5 DEF ConsoleInv
<1>5. CASE C!AttachDone
    <2>1. /\ c_slow > 0 /\ c_slow' = c_slow - 1 /\ c_attached' = TRUE /\ c_streams' = c_streams + 1
          /\ UNCHANGED <<c_toAgent, c_faultAt>>
        BY <1>5 DEF C!AttachDone
    <2> QED
        BY <1>1, <1>2, <2>1 DEF ConsoleInv, ConsoleKinds, Alternate, EndedIsLeft, Followed
<1>6. CASE C!Restart
    <2>1. /\ c_toAgent' = <<>> /\ c_slow' = 0 /\ c_attached' = FALSE /\ c_streams' = 0 /\ c_faultAt' = c_made
        BY <1>6 DEF C!Restart, C!Fault
    <2>2. c_toAgent' \in Seq({"attach", "detach"}) /\ Len(c_toAgent') = 0
        BY <2>1
    <2>3. ConsoleKinds'
        BY <1>1, <1>2, <2>1, <2>2 DEF ConsoleKinds
    <2>4. Alternate' /\ Followed'
        BY <1>1, <1>2, <2>1, <2>2 DEF Alternate, Followed
    <2>5. c_attached' \in BOOLEAN /\ EndedIsLeft'
        BY <2>1 DEF EndedIsLeft
    <2> QED
        BY <1>2, <2>3, <2>4, <2>5 DEF ConsoleInv
<1>7. CASE C!Exits
    <2>1. ~C!Orphan /\ c_streams' = 0 /\ c_faultAt' = c_made /\ UNCHANGED <<c_toAgent, c_slow, c_attached>>
        BY <1>7 DEF C!Exits, C!Fault
    <2>2. c_attached = TRUE => c_toAgent # <<>> \/ c_current # 0
        BY <2>1 DEF C!Orphan
    <2>3. c_toAgent # <<>> => Len(c_toAgent) >= 1
        BY <1>1
    <2>4. EndedIsLeft'
        BY <1>1, <1>2, <2>1, <2>2, <2>3 DEF EndedIsLeft
    <2>5. ConsoleKinds' /\ Followed' /\ Alternate'
        BY <1>1, <1>2, <2>1 DEF ConsoleInv, ConsoleKinds, Followed, Alternate
    <2>6. c_attached' \in BOOLEAN
        BY <2>1 DEF ConsoleInv
    <2> QED
        BY <1>2, <2>4, <2>5, <2>6 DEF ConsoleInv
<1> QED
    BY <1>3, <1>4, <1>5, <1>6, <1>7

LEMMA ConsoleStep ==
    ASSUME C!ConsoleAssumption, ConsoleInv, C!Next \/ UNCHANGED C!vars
    PROVE  ConsoleInv'
<1>0. /\ ConsoleKinds /\ InTheSet /\ C_MaxSets \in Nat /\ c_made \in 0..C_MaxSets /\ c_current \in 0..C_MaxSets
    BY DEF C!ConsoleAssumption, ConsoleInv, ConsoleKinds
<1>1. ASSUME NEW v \in C_Tabs, C!Mint(v) \/ C!Expire(v) \/ C!Added(v) \/ C!Listens(v) \/ C!ClosesEarly(v)
      PROVE  ConsoleInv'
    <2>1. /\ UNCHANGED <<c_setOf, c_current, c_made, c_toAgent, c_slow, c_attached, c_streams, c_faults, c_faultAt>>
          /\ c_tickets' \subseteq C_Tabs
        BY <1>0, <1>1 DEF C!Mint, C!Expire, C!Added, C!Listens, C!ClosesEarly, C!agent, ConsoleKinds
    <2>2. c_sock' = c_sock \/ \E x \in {"closing", "added", "listening", "dead"} :
                             c_sock[v] # "away" /\ c_sock' = [c_sock EXCEPT ![v] = x]
        BY <1>1 DEF C!Mint, C!Expire, C!Added, C!Listens, C!ClosesEarly
    <2>3. /\ c_sock' \in [C_Tabs -> {"away", "attaching", "closing", "added", "listening", "dead"}]
          /\ \A w \in C_Tabs : c_sock'[w] = "away" <=> c_sock[w] = "away"
        BY <1>0, <2>2 DEF ConsoleKinds
    <2>4. c_setOf' \in [C_Tabs -> 0..C_MaxSets] /\ InTheSet'
        BY <1>0, <2>1, <2>3 DEF ConsoleKinds, InTheSet
    <2> QED
        BY <2>1, <2>3, <2>4, ConsoleQuiet
<1>2. ASSUME NEW v \in C_Tabs, C!Connects(v) PROVE ConsoleInv'
    <2>1. /\ c_tickets' \subseteq C_Tabs /\ c_sock[v] = "away"
          /\ UNCHANGED <<c_slow, c_attached, c_streams, c_faults, c_faultAt>>
        BY <1>0, <1>2 DEF C!Connects, C!agent, ConsoleKinds
    <2>2. CASE /\ c_current = 0 /\ c_made < C_MaxSets
               /\ c_made' = c_made + 1 /\ c_current' = c_made' /\ c_setOf' = [c_setOf EXCEPT ![v] = c_made']
               /\ c_sock' = [c_sock EXCEPT ![v] = "attaching"]
               /\ C!Publish("attach")
        <3>1. /\ c_sock' \in [C_Tabs -> {"away", "attaching", "closing", "added", "listening", "dead"}]
              /\ c_setOf' \in [C_Tabs -> 0..C_MaxSets]
            BY <1>0, <2>2 DEF ConsoleKinds
        <3>2. InTheSet'
            BY <1>0, <2>2 DEF ConsoleKinds, InTheSet
        <3>3. c_toAgent' = Append(c_toAgent, "attach") /\ c_made' <= C_MaxSets
            BY <1>0, <2>2 DEF C!Publish
        <3> QED
            BY <1>0, <2>1, <2>2, <3>1, <3>2, <3>3, ConsolePublishes
    <2>3. CASE /\ c_current # 0
               /\ c_setOf' = [c_setOf EXCEPT ![v] = c_current]
               /\ c_sock' = [c_sock EXCEPT ![v] = "added"]
               /\ UNCHANGED <<c_current, c_made, c_toAgent>>
        <3>1. /\ c_sock' \in [C_Tabs -> {"away", "attaching", "closing", "added", "listening", "dead"}]
              /\ c_setOf' \in [C_Tabs -> 0..C_MaxSets]
            BY <1>0, <2>3 DEF ConsoleKinds
        <3>2. InTheSet'
            BY <1>0, <2>3 DEF ConsoleKinds, InTheSet
        <3> QED
            BY <2>1, <2>3, <3>1, <3>2, ConsoleQuiet
    <2> QED
        BY <1>2, <2>2, <2>3 DEF C!Connects
<1>3. ASSUME NEW v \in C_Tabs, C!Closes(v) PROVE ConsoleInv'
    <2>1. /\ c_tickets' \subseteq C_Tabs /\ UNCHANGED <<c_made, c_slow, c_attached, c_streams, c_faults, c_faultAt>>
          /\ c_sock[v] = "listening" /\ c_sock' = [c_sock EXCEPT ![v] = "away"] /\ c_setOf' = [c_setOf EXCEPT ![v] = 0]
          /\ IF C!LastOf(v) THEN c_current' = 0 /\ C!Publish("detach") ELSE UNCHANGED <<c_current, c_toAgent>>
        BY <1>0, <1>3 DEF C!Closes, C!agent, ConsoleKinds
    <2>2. \A w \in C_Tabs : c_sock[w] \notin {"attaching", "closing"}
        BY <1>3 DEF C!Closes
    <2>3. /\ c_sock' \in [C_Tabs -> {"away", "attaching", "closing", "added", "listening", "dead"}]
          /\ c_setOf' \in [C_Tabs -> 0..C_MaxSets] /\ c_current # 0 /\ c_setOf[v] = c_current
        BY <1>0, <2>1 DEF ConsoleKinds, InTheSet
    <2>4. CASE C!LastOf(v)
        <3>1. \A w \in C_Tabs : w # v => c_sock[w] = "away"
            <4>1. \A w \in C_Tabs : w # v => ~(c_setOf[w] = c_current /\ c_sock[w] \in {"added", "listening", "dead"})
                BY <2>3, <2>4 DEF C!LastOf, C!Members
            <4> QED
                BY <1>0, <2>2, <4>1 DEF ConsoleKinds, InTheSet
        <3>2. InTheSet'
            BY <1>0, <2>1, <2>4, <3>1 DEF ConsoleKinds, InTheSet
        <3> QED
            BY <1>0, <2>1, <2>3, <2>4, <3>2, ConsolePublishes DEF C!Publish
    <2>5. CASE ~C!LastOf(v)
        <3>1. InTheSet'
            BY <1>0, <2>1, <2>5 DEF ConsoleKinds, InTheSet
        <3> QED
            BY <2>1, <2>3, <2>5, <3>1, ConsoleQuiet
    <2> QED
        BY <2>4, <2>5
<1>4. CASE UNCHANGED C!vars
    BY <1>0, <1>4, ConsoleQuiet DEF C!vars, InTheSet, ConsoleKinds
<1> QED
    BY <1>1, <1>2, <1>3, <1>4, ConsoleAgent DEF C!Next

LEMMA ConsoleTyped == ASSUME ConsoleInv PROVE C!TypeOK /\ C!Served
<1>1. c_attached \in BOOLEAN
    BY DEF ConsoleInv
<1>2. /\ ConsoleKinds /\ c_current \in 0..c_made
      /\ \A i \in 1..Len(c_toAgent) : c_toAgent[i] \in {"attach", "detach"}
    BY DEF ConsoleInv, ConsoleKinds
<1>3. C!TypeOK
    BY <1>1, <1>2 DEF C!TypeOK, ConsoleKinds
<1>4. ASSUME c_toAgent = <<>>, c_slow = 0, NEW v \in C_Tabs, c_sock[v] = "listening", c_setOf[v] > c_faultAt
      PROVE  C!Gets(v)
    <2>1. c_setOf[v] = c_current /\ c_current # 0
        BY <1>4 DEF ConsoleInv, InTheSet
    <2>2. c_attached = TRUE
        BY <1>4, <2>1 DEF ConsoleInv, Followed
    <2>3. Len(c_toAgent) = 0 /\ c_current = c_made /\ c_faultAt \in Nat /\ c_made \in Nat /\ c_streams \in Nat
        BY <1>4, <2>1 DEF ConsoleInv, ConsoleKinds
    <2>4. c_streams # 0
        BY <1>4, <2>1, <2>2, <2>3 DEF ConsoleInv, EndedIsLeft
    <2> QED
        BY <2>1, <2>3, <2>4 DEF C!Gets
<1> QED
    BY <1>3, <1>4 DEF C!Served

-----------------------------------------------------------------------------
(* Databases: one request works on a name at a time, and its step says how  *)
(* far the host is ahead of the row.                                        *)

Removing == {"dropSchema", "dropUser", "deleteRow"}
Errands == [step : {"idle", "undoSchema", "undoUser", "alterUser", "rewrite"} \cup D!Creating \cup Removing,
            name : D_Names \cup {"none"}, secret : 0..D_MaxSecret]

HostKinds ==
    /\ d_schemas \subseteq D_Names /\ d_dropped \subseteq D_Names
    /\ d_users \in [D_Names -> 0..D_MaxSecret] /\ d_rows \in [D_Names -> 0..D_MaxSecret]

Agrees(n) ==
    IF d_rows[n] = 0 THEN n \notin d_schemas /\ d_users[n] = 0
    ELSE n \in d_dropped \/ (n \in d_schemas /\ d_users[n] = d_rows[n])

\* What the step of a request says of the name it works on.
Working(r) ==
    LET n == d_req[r].name IN
    /\ D!At(r, "idle") => d_req[r] = D!Idle
    /\ ~D!At(r, "idle") => n \in D_Names
    /\ d_req[r].step \in D!Creating \cup {"alterUser", "rewrite"} => d_req[r].secret # 0
    /\ d_req[r].step \in D!Creating \cup {"undoSchema", "undoUser"} => d_rows[n] = 0
    /\ D!At(r, "createSchema") => n \notin d_schemas /\ d_users[n] = 0
    /\ D!At(r, "createUser") => n \in d_schemas /\ d_users[n] = 0
    /\ d_req[r].step \in {"grant", "record"} => n \in d_schemas /\ d_users[n] = d_req[r].secret
    /\ D!At(r, "undoUser") => n \notin d_schemas
    /\ d_req[r].step \in {"alterUser", "rewrite"} \cup Removing => d_rows[n] # 0
    /\ d_req[r].step \in {"alterUser", "dropSchema"} => Agrees(n)
    /\ D!At(r, "rewrite") => (n \in d_dropped \/ n \in d_schemas) /\ d_users[n] = d_req[r].secret
    /\ d_req[r].step \in {"dropUser", "deleteRow"} => n \in d_dropped /\ n \notin d_schemas
    /\ D!At(r, "deleteRow") => d_users[n] = 0

Apart == \A r, s \in D_Requests : d_req[r].name \in D_Names /\ d_req[r].name = d_req[s].name => r = s

WorkInv ==
    /\ HostKinds /\ d_req \in [D_Requests -> Errands]
    /\ Apart /\ \A r \in D_Requests : Working(r)
    /\ \A n \in D_Names : ~D!Busy(n) => Agrees(n)

\* The one that creates may still add a row.
PlanInv ==
    /\ IsFiniteSet(D!Used) /\ Cardinality(D!Used) <= D_Limit
    /\ \A r \in D_Requests : d_req[r].step \in D!Creating => Cardinality(D!Used) < D_Limit
    /\ \A r, s \in D_Requests : d_req[r].step \in D!Creating /\ d_req[s].step \in D!Creating => r = s

\* Whoever deletes the server has every row before it, or is at it.
LeavingInv ==
    /\ d_leaving \in [open : BOOLEAN, names : SUBSET D_Names, done : BOOLEAN]
    /\ d_leaving.open =>
          /\ ~d_leaving.done
          /\ \A r \in D_Requests : d_req[r].step \in {"idle"} \cup Removing
          /\ \A n \in d_leaving.names : d_rows[n] # 0 /\ ~D!Busy(n)
          /\ \A n \in D_Names : d_rows[n] # 0 => n \in d_leaving.names \/ D!Busy(n)
    /\ d_leaving.done => (\A n \in D_Names : d_rows[n] = 0) /\ \A r \in D_Requests : D!At(r, "idle")

DatabasesInv == d_secrets \in 0..D_MaxSecret /\ WorkInv /\ PlanInv /\ LeavingInv

LEMMA DatabasesCounts == \A x : D!Cardinality(x) = Cardinality(x)
BY DEF D!Cardinality, Cardinality

\* A step changes nothing but what there is of one name.
ElsewhereKept(n) ==
    \A m \in D_Names \ {n} :
        /\ d_rows'[m] = d_rows[m] /\ d_users'[m] = d_users[m]
        /\ m \in d_schemas' <=> m \in d_schemas
        /\ m \in d_dropped' <=> m \in d_dropped

LEMMA IdleErrand == ASSUME D!DatabasesAssumption PROVE D!Idle \in Errands /\ D!Idle.step = "idle" /\ D!Idle.name = "none"
BY DEF D!DatabasesAssumption, D!Idle, Errands

LEMMA DatabasesStarts == ASSUME D!DatabasesAssumption, D!Init PROVE DatabasesInv
<1>0. D_Limit \in Nat /\ D_MaxSecret \in Nat /\ "none" \notin D_Names
    BY DEF D!DatabasesAssumption
<1>1. d_secrets \in 0..D_MaxSecret /\ HostKinds
    BY <1>0 DEF D!Init, HostKinds
<1>2. /\ d_req \in [D_Requests -> Errands]
      /\ \A r \in D_Requests : d_req[r] = D!Idle /\ D!At(r, "idle") /\ d_req[r].name = "none"
    BY <1>0, IdleErrand DEF D!Init, D!At
<1>3. Apart
    BY <1>0, <1>2 DEF Apart
<1>4. \A r \in D_Requests : Working(r)
    BY <1>0, <1>2 DEF Working, D!Creating, Removing, D!At
<1>5. \A n \in D_Names : Agrees(n)
    BY DEF D!Init, Agrees
<1>6. D!Used = {}
    BY DEF D!Used, D!Init
<1>7. PlanInv
    <2>1. IsFiniteSet(D!Used) /\ Cardinality(D!Used) = 0
        BY <1>6, FS_EmptySet
    <2> QED
        BY <1>0, <1>2, <2>1 DEF PlanInv, D!Creating, D!At
<1>8. LeavingInv
    <2>1. d_leaving = [open |-> FALSE, names |-> {}, done |-> FALSE]
        BY DEF D!Init
    <2>2. d_leaving \in [open : BOOLEAN, names : SUBSET D_Names, done : BOOLEAN]
        BY <2>1
    <2> QED
        BY <2>1, <2>2 DEF LeavingInv
<1> QED
    BY <1>1, <1>2, <1>3, <1>4, <1>5, <1>7, <1>8 DEF DatabasesInv, WorkInv

\* A step of one request at its name leaves the others, at theirs, alone.
LEMMA WorkStep ==
    ASSUME D!DatabasesAssumption, WorkInv, NEW r \in D_Requests, NEW n \in D_Names, NEW q \in Errands,
           d_req[r].name = n \/ (D!At(r, "idle") /\ ~D!Busy(n)),
           d_req' = [d_req EXCEPT ![r] = q], q.name = n \/ q = D!Idle,
           HostKinds', Working(r)', q = D!Idle => Agrees(n)',
           ElsewhereKept(n)
    PROVE  WorkInv'
<1>0. "none" \notin D_Names /\ d_req \in [D_Requests -> Errands]
    BY DEF D!DatabasesAssumption, WorkInv
<1>1. d_req' \in [D_Requests -> Errands] /\ d_req'[r] = q /\ \A s \in D_Requests : s # r => d_req'[s] = d_req[s]
    BY <1>0
<1>2. \A s \in D_Requests : s # r => d_req[s].name # n
    BY DEF WorkInv, Apart, D!Busy
<1>3. q.name \in {n, "none"}
    BY DEF D!Idle
<1>4. Apart'
    BY <1>0, <1>1, <1>2, <1>3 DEF WorkInv, Apart
<1>5. ASSUME NEW s \in D_Requests, s # r PROVE Working(s)'
    <2>1. d_req'[s] = d_req[s] /\ d_req[s].name # n /\ Working(s)
        BY <1>1, <1>2, <1>5 DEF WorkInv
    <2>2. CASE D!At(s, "idle")
        BY <2>1, <2>2 DEF Working, D!At, D!Creating, Removing
    <2>3. CASE ~D!At(s, "idle")
        <3>1. d_req[s].name \in D_Names
            BY <2>1, <2>3 DEF Working
        <3>2. /\ d_rows'[d_req[s].name] = d_rows[d_req[s].name] /\ d_users'[d_req[s].name] = d_users[d_req[s].name]
              /\ d_req[s].name \in d_schemas' <=> d_req[s].name \in d_schemas
              /\ d_req[s].name \in d_dropped' <=> d_req[s].name \in d_dropped
            BY <2>1, <3>1 DEF ElsewhereKept
        <3>3. Agrees(d_req[s].name) => Agrees(d_req[s].name)'
            BY <2>1, <3>2 DEF Agrees
        <3> QED
            BY <2>1, <3>1, <3>2, <3>3 DEF Working, D!At
    <2> QED
        BY <2>2, <2>3
<1>6. ASSUME NEW m \in D_Names, ~D!Busy(m)' PROVE Agrees(m)'
    <2>1. CASE m = n
        <3>1. q.name # n
            BY <1>1, <1>6, <2>1 DEF D!Busy
        <3> QED
            BY <3>1, <2>1
    <2>2. CASE m # n
        <3>1. ~D!Busy(m)
            <4>1. SUFFICES ASSUME NEW s \in D_Requests, d_req[s].name = m PROVE FALSE
                BY DEF D!Busy
            <4>2. s # r
                BY <4>1, <2>2, <1>0 DEF D!At, WorkInv, Working, D!Idle
            <4> QED
                BY <4>1, <4>2, <1>1, <1>6 DEF D!Busy
        <3> QED
            BY <3>1, <2>2 DEF WorkInv, Agrees, ElsewhereKept
    <2> QED
        BY <2>1, <2>2
<1> QED
    BY <1>1, <1>4, <1>5, <1>6 DEF WorkInv

\* No row is added and nobody begins to create.
LEMMA PlanKept ==
    ASSUME D!DatabasesAssumption, PlanInv, D!Used' \subseteq D!Used,
           \A r \in D_Requests : d_req'[r].step \in D!Creating => d_req[r].step \in D!Creating
    PROVE  PlanInv'
<1>1. IsFiniteSet(D!Used') /\ Cardinality(D!Used') <= Cardinality(D!Used)
    BY FS_Subset DEF PlanInv
<1>2. D_Limit \in Nat /\ Cardinality(D!Used) \in Nat /\ Cardinality(D!Used') \in Nat
    BY <1>1, FS_CardinalityType DEF D!DatabasesAssumption, PlanInv
<1>3. \A r \in D_Requests : d_req'[r].step \in D!Creating => Cardinality(D!Used') < D_Limit
    BY <1>1, <1>2 DEF PlanInv
<1>4. D!Creating' = D!Creating
    BY DEF D!Creating
<1> QED
    BY <1>1, <1>2, <1>3, <1>4 DEF PlanInv

\* A request moves on where it is: its next step q, and the rows.
LEMMA DatabasesMoves ==
    ASSUME D!DatabasesAssumption, DatabasesInv, NEW r \in D_Requests, NEW n \in D_Names, NEW q \in Errands,
           d_req[r].name = n, d_req' = [d_req EXCEPT ![r] = q], q.name = n \/ q = D!Idle,
           HostKinds', Working(r)', q = D!Idle => Agrees(n)',
           ElsewhereKept(n),
           UNCHANGED <<d_secrets, d_leaving>>,
           d_rows[n] = 0 => d_rows'[n] = 0,
           q.step \in D!Creating => d_req[r].step \in D!Creating,
           q.step \in {"idle"} \cup Removing \/ d_req[r].step \notin Removing,
           d_rows'[n] # 0 /\ d_leaving.open => q.name = n
    PROVE  DatabasesInv'
<1>0. "none" \notin D_Names /\ d_req \in [D_Requests -> Errands] /\ WorkInv /\ PlanInv /\ LeavingInv
    BY DEF D!DatabasesAssumption, DatabasesInv, WorkInv
<1>1. WorkInv'
    BY <1>0, WorkStep
<1>2. d_req'[r] = q /\ \A s \in D_Requests : s # r => d_req'[s] = d_req[s]
    BY <1>0
<1>3. \A m \in D_Names : d_rows[m] = 0 => d_rows'[m] = 0
    BY DEF ElsewhereKept
<1>4. D!Used' \subseteq D!Used
    BY <1>3 DEF D!Used
<1>5. PlanInv'
    BY <1>0, <1>2, <1>4, PlanKept
<1>6. ~D!At(r, "idle")
    BY <1>0 DEF WorkInv, Working, D!Idle
<1>7. LeavingInv'
    <2>1. CASE d_leaving.open
        <3>1. \A s \in D_Requests : d_req'[s].step \in {"idle"} \cup Removing
            BY <1>0, <1>2, <1>6, <2>1 DEF LeavingInv, D!At
        <3>2. ASSUME NEW m \in d_leaving.names PROVE d_rows'[m] # 0 /\ ~D!Busy(m)'
            <4>1. d_rows[m] # 0 /\ ~D!Busy(m) /\ m \in D_Names
                BY <1>0, <2>1 DEF LeavingInv
            <4>2. m # n
                BY <4>1 DEF D!Busy
            <4> QED
                BY <4>1, <4>2, <1>0, <1>2 DEF D!Busy, D!Idle, ElsewhereKept
        <3>3. ASSUME NEW m \in D_Names, d_rows'[m] # 0 PROVE m \in d_leaving.names \/ D!Busy(m)'
            <4>1. CASE m = n
                BY <4>1, <2>1, <3>3, <1>2 DEF D!Busy
            <4>2. CASE m # n
                <5>1. m \in d_leaving.names \/ D!Busy(m)
                    BY <4>2, <3>3, <2>1, <1>0 DEF LeavingInv, ElsewhereKept
                <5>2. D!Busy(m) => D!Busy(m)'
                    BY <4>2, <1>2 DEF D!Busy
                <5> QED
                    BY <5>1, <5>2
            <4> QED
                BY <4>1, <4>2
        <3> QED
            BY <1>0, <2>1, <3>1, <3>2, <3>3 DEF LeavingInv, Removing
    <2>2. CASE ~d_leaving.open
        <3>1. ~d_leaving.done
            BY <1>0, <1>6 DEF LeavingInv
        <3> QED
            BY <2>2, <3>1, <1>0 DEF LeavingInv
    <2> QED
        BY <2>1, <2>2
<1> QED
    BY <1>1, <1>5, <1>7 DEF DatabasesInv

\* A step of which the host, the rows and the name stay.
LEMMA DatabasesGoes ==
    ASSUME DatabasesInv, NEW r \in D_Requests, ~D!At(r, "idle"),
           NEW step \in D!Creating \cup Removing \cup {"undoSchema", "undoUser", "rewrite"}
    PROVE  LET q == [d_req[r] EXCEPT !.step = step] IN
           /\ d_req[r].name \in D_Names /\ q \in Errands /\ q # D!Idle
           /\ q.name = d_req[r].name /\ q.step = step /\ q.secret = d_req[r].secret
           /\ [d_req EXCEPT ![r].step = step] = [d_req EXCEPT ![r] = q]
           /\ [d_req EXCEPT ![r].step = step][r] = q
<1>1. d_req \in [D_Requests -> Errands] /\ d_req[r] \in Errands /\ d_req[r].name \in D_Names
    BY DEF DatabasesInv, WorkInv, Working
<1>2. [d_req[r] EXCEPT !.step = step] \in Errands
    BY <1>1 DEF Errands
<1>3. [d_req[r] EXCEPT !.step = step].step = step
    BY <1>1 DEF Errands
<1>4. D!Idle.step = "idle" /\ step # "idle"
    BY DEF D!Idle, D!Creating, Removing
<1>5. [d_req[r] EXCEPT !.step = step].name = d_req[r].name /\ [d_req[r] EXCEPT !.step = step].secret = d_req[r].secret
    BY <1>1 DEF Errands
<1> QED
    BY <1>1, <1>2, <1>3, <1>4, <1>5

\* The creation of a database, and its undoing.
LEMMA DatabasesCreates ==
    ASSUME D!DatabasesAssumption, DatabasesInv, NEW r \in D_Requests,
           D!CreateSchema(r) \/ D!CreateUser(r) \/ D!Grant(r) \/ D!UndoSchema(r)
    PROVE  DatabasesInv'
<1> DEFINE n == d_req[r].name
<1>0. /\ ~D!At(r, "idle") /\ n \in D_Names /\ Working(r) /\ HostKinds /\ d_req \in [D_Requests -> Errands]
      /\ UNCHANGED <<d_rows, d_secrets, d_leaving, d_dropped>>
    <2>1. ~D!At(r, "idle")
        BY DEF D!CreateSchema, D!CreateUser, D!Grant, D!UndoSchema, D!At
    <2>2. Working(r) /\ HostKinds /\ d_req \in [D_Requests -> Errands]
        BY DEF DatabasesInv, WorkInv
    <2>3. n \in D_Names
        BY <2>1, <2>2 DEF Working
    <2> QED
        BY <2>1, <2>2, <2>3 DEF D!CreateSchema, D!CreateUser, D!Grant, D!UndoSchema
<1>1. ASSUME NEW step \in {"createUser", "grant", "record", "undoSchema", "undoUser"},
             d_req' = [d_req EXCEPT ![r].step = step],
             d_schemas' \subseteq D_Names, d_users' \in [D_Names -> 0..D_MaxSecret],
             \A m \in D_Names \ {n} : d_users'[m] = d_users[m] /\ (m \in d_schemas' <=> m \in d_schemas),
             d_req[r].step \in D!Creating \cup {"undoSchema"},
             step \in D!Creating => d_req[r].step \in D!Creating,
             step = "createUser" => n \in d_schemas' /\ d_users'[n] = 0,
             step \in {"grant", "record"} => n \in d_schemas' /\ d_users'[n] = d_req[r].secret,
             step = "undoUser" => n \notin d_schemas'
      PROVE  DatabasesInv'
    <2> DEFINE q == [d_req[r] EXCEPT !.step = step]
    <2>1. /\ q \in Errands /\ q # D!Idle /\ q.name = n /\ q.step = step /\ q.secret = d_req[r].secret
          /\ d_req' = [d_req EXCEPT ![r] = q] /\ d_req'[r] = q
        BY <1>0, <1>1, DatabasesGoes DEF D!Creating
    <2> HIDE DEF q, n
    <2>2. Working(r)'
        <3>1. d_rows'[n] = 0
            BY <1>0, <1>1 DEF Working, n
        <3>2. step \in D!Creating => d_req[r].secret # 0
            BY <1>0, <1>1 DEF Working, n
        <3> QED
            BY <1>0, <1>1, <2>1, <3>1, <3>2 DEF Working, D!At, D!Creating, Removing
    <2>3. HostKinds' /\ ElsewhereKept(n)
        BY <1>0, <1>1 DEF HostKinds, ElsewhereKept
    <2>4. q.step \in D!Creating => d_req[r].step \in D!Creating
        BY <1>1, <2>1
    <2>5. d_req[r].step \notin Removing
        BY <1>1 DEF D!Creating, Removing
    <2> QED
        BY <1>0, <2>1, <2>2, <2>3, <2>4, <2>5, DatabasesMoves DEF n
<1>2. CASE D!CreateSchema(r)
    <2>1. CASE n \notin d_schemas /\ d_schemas' = d_schemas \cup {n} /\ D!Goes(r, "createUser")
        BY <1>0, <1>1, <1>2, <2>1 DEF D!CreateSchema, D!Goes, D!At, D!Creating, HostKinds, Working
    <2>2. CASE D!Goes(r, "undoSchema") /\ UNCHANGED d_schemas
        BY <1>0, <1>1, <1>2, <2>2 DEF D!CreateSchema, D!Goes, D!At, D!Creating, HostKinds
    <2> QED
        BY <1>2, <2>1, <2>2 DEF D!CreateSchema
<1>3. CASE D!CreateUser(r)
    <2>0. D!UserOf(n) = n
        BY DEF D!UserOf
    <2>1. CASE d_users' = [d_users EXCEPT ![n] = d_req[r].secret] /\ D!Goes(r, "grant")
        <3>1. d_req[r].secret \in 0..D_MaxSecret
            BY <1>0 DEF Errands
        <3> QED
            BY <1>0, <1>1, <1>3, <2>1, <3>1 DEF D!CreateUser, D!Goes, D!At, D!Creating, HostKinds, Working
    <2>2. CASE D!Goes(r, "undoSchema") /\ UNCHANGED d_users
        BY <1>0, <1>1, <1>3, <2>2 DEF D!CreateUser, D!Goes, D!At, D!Creating, HostKinds
    <2> QED
        BY <1>3, <2>0, <2>1, <2>2 DEF D!CreateUser
<1>4. CASE D!Grant(r)
    <2>1. CASE D!Goes(r, "record")
        BY <1>0, <1>1, <1>4, <2>1 DEF D!Grant, D!Goes, D!At, D!Creating, HostKinds, Working, D!host
    <2>2. CASE D!Goes(r, "undoSchema")
        BY <1>0, <1>1, <1>4, <2>2 DEF D!Grant, D!Goes, D!At, D!Creating, HostKinds, D!host
    <2> QED
        BY <1>4, <2>1, <2>2 DEF D!Grant
<1>5. CASE D!UndoSchema(r)
    BY <1>0, <1>1, <1>5 DEF D!UndoSchema, D!Goes, D!At, D!Creating, HostKinds
<1> QED
    BY <1>2, <1>3, <1>4, <1>5

\* A request ends, and leaves its name n as it should be.
LEMMA DatabasesEnds ==
    ASSUME D!DatabasesAssumption, DatabasesInv, NEW r \in D_Requests, ~D!At(r, "idle"), D!Ends(r),
           NEW n \in D_Names, n = d_req[r].name,
           HostKinds', Agrees(n)', ElsewhereKept(n), UNCHANGED <<d_secrets, d_leaving>>,
           d_rows[n] = 0 => d_rows'[n] = 0, d_leaving.open => d_rows'[n] = 0
    PROVE  DatabasesInv'
<1>1. D!Idle \in Errands /\ D!Idle.step = "idle" /\ D!Idle.name = "none"
    BY IdleErrand
<1>2. d_req' = [d_req EXCEPT ![r] = D!Idle] /\ d_req'[r] = D!Idle
    BY DEF D!Ends, DatabasesInv, WorkInv
<1>3. Working(r)'
    BY <1>1, <1>2 DEF Working, D!At, D!Creating, Removing
<1>4. D!Idle.step \notin D!Creating /\ D!Idle.step \in {"idle"} \cup Removing
    BY <1>1 DEF D!Creating
<1> QED
    BY <1>1, <1>2, <1>3, <1>4, DatabasesMoves

LEMMA DatabasesAt ==
    ASSUME DatabasesInv, NEW r \in D_Requests, ~D!At(r, "idle")
    PROVE  /\ d_req[r].name \in D_Names /\ Working(r) /\ HostKinds
           /\ d_req \in [D_Requests -> Errands] /\ d_req[r] \in Errands
           /\ LeavingInv /\ ~d_leaving.done
           /\ D!UserOf(d_req[r].name) = d_req[r].name
<1>1. Working(r) /\ HostKinds /\ d_req \in [D_Requests -> Errands] /\ LeavingInv
    BY DEF DatabasesInv, WorkInv
<1>2. d_req[r].name \in D_Names
    BY <1>1 DEF Working
<1>3. ~d_leaving.done
    BY <1>1 DEF LeavingInv
<1> QED
    BY <1>1, <1>2, <1>3 DEF D!UserOf

\* The last step of an undo, of a new password and of a removal.
LEMMA DatabasesFinishes ==
    ASSUME D!DatabasesAssumption, DatabasesInv, NEW r \in D_Requests,
           D!UndoUser(r) \/ D!Rewrite(r) \/ D!Stops(r) \/ D!DeleteRow(r)
    PROVE  DatabasesInv'
<1>a. PICK n : n = d_req[r].name
    OBVIOUS
<1>0. ~D!At(r, "idle") /\ UNCHANGED <<d_secrets, d_leaving>>
    BY DEF D!UndoUser, D!Rewrite, D!Stops, D!DeleteRow, D!At
<1>1. /\ n \in D_Names /\ Working(r) /\ HostKinds /\ d_req \in [D_Requests -> Errands] /\ d_req[r] \in Errands
      /\ LeavingInv /\ D!UserOf(n) = n
    BY <1>a, <1>0, DatabasesAt
<1>2. CASE D!UndoUser(r)
    <2>1. d_users' = [d_users EXCEPT ![n] = 0] /\ UNCHANGED <<d_schemas, d_rows, d_dropped>> /\ D!Ends(r)
        BY <1>a, <1>1, <1>2 DEF D!UndoUser, D!WithoutUser
    <2>2. d_rows[n] = 0 /\ n \notin d_schemas
        BY <1>a, <1>1, <1>2 DEF D!UndoUser, Working, D!At
    <2>3. HostKinds' /\ ElsewhereKept(n) /\ Agrees(n)'
        <3>1. 0 \in 0..D_MaxSecret
            BY DEF D!DatabasesAssumption
        <3> QED
            BY <1>1, <2>1, <2>2, <3>1 DEF HostKinds, ElsewhereKept, Agrees
    <2> QED
        BY <1>a, <1>0, <1>1, <2>1, <2>2, <2>3, DatabasesEnds
<1>3. CASE D!Rewrite(r)
    <2>1. /\ d_rows[n] # 0 /\ (n \in d_dropped \/ n \in d_schemas)
          /\ d_users[n] = d_req[r].secret /\ d_req[r].secret # 0 /\ d_req[r].secret \in 0..D_MaxSecret
        BY <1>a, <1>1, <1>3 DEF D!Rewrite, Working, D!At, Errands
    <2>2. d_rows' = [d_rows EXCEPT ![n] = d_req[r].secret] /\ UNCHANGED <<d_schemas, d_users, d_dropped>> /\ D!Ends(r)
        BY <1>a, <1>3, <2>1 DEF D!Rewrite, D!host
    <2>3. HostKinds' /\ ElsewhereKept(n) /\ Agrees(n)'
        BY <1>1, <2>1, <2>2 DEF HostKinds, ElsewhereKept, Agrees
    <2>4. ~d_leaving.open
        BY <1>1, <1>3 DEF D!Rewrite, D!At, LeavingInv, Removing
    <2> QED
        BY <1>a, <1>0, <1>1, <2>1, <2>2, <2>3, <2>4, DatabasesEnds
<1>4. CASE D!Stops(r)
    <2>1. ~d_leaving.open /\ D!Ends(r) /\ UNCHANGED <<d_schemas, d_users, d_rows, d_dropped>>
        BY <1>4 DEF D!Stops, D!host
    <2>2. Agrees(n)
        <3>1. D!At(r, "dropSchema") \/ D!At(r, "dropUser")
            BY <1>4 DEF D!Stops
        <3>2. CASE D!At(r, "dropSchema")
            BY <1>a, <1>1, <3>2 DEF Working, D!At
        <3>3. CASE D!At(r, "dropUser")
            BY <1>a, <1>1, <3>3 DEF Working, D!At, Agrees, Removing
        <3> QED
            BY <3>1, <3>2, <3>3
    <2>3. HostKinds' /\ ElsewhereKept(n) /\ Agrees(n)'
        BY <1>a, <1>1, <2>1, <2>2 DEF HostKinds, ElsewhereKept, Agrees
    <2> QED
        BY <1>a, <1>0, <1>1, <2>1, <2>3, DatabasesEnds
<1>5. CASE D!DeleteRow(r)
    <2>1. n \notin d_schemas /\ d_users[n] = 0
        BY <1>a, <1>1, <1>5 DEF D!DeleteRow, Working, D!At
    <2>2. /\ d_rows' = [d_rows EXCEPT ![n] = 0] /\ UNCHANGED <<d_schemas, d_users>> /\ D!Ends(r)
          /\ d_dropped' = d_dropped \ {n}
        BY <1>a, <1>5 DEF D!DeleteRow, D!host
    <2>3. HostKinds' /\ ElsewhereKept(n) /\ Agrees(n)' /\ d_rows'[n] = 0
        <3>1. 0 \in 0..D_MaxSecret
            BY DEF D!DatabasesAssumption
        <3> QED
            BY <1>1, <2>1, <2>2, <3>1 DEF HostKinds, ElsewhereKept, Agrees
    <2> QED
        BY <1>a, <1>0, <1>1, <2>2, <2>3, DatabasesEnds
<1> QED
    BY <1>2, <1>3, <1>4, <1>5

\* A new password at the host, and the steps of a removal.
LEMMA DatabasesRemoves ==
    ASSUME D!DatabasesAssumption, DatabasesInv, NEW r \in D_Requests,
           D!AlterUser(r) \/ D!DropSchema(r) \/ D!DropUser(r)
    PROVE  DatabasesInv'
<1>a. PICK n : n = d_req[r].name
    OBVIOUS
<1>0. ~D!At(r, "idle") /\ UNCHANGED <<d_secrets, d_leaving, d_rows>>
    BY DEF D!AlterUser, D!DropSchema, D!DropUser, D!At
<1>1. /\ n \in D_Names /\ Working(r) /\ HostKinds /\ d_req \in [D_Requests -> Errands] /\ d_req[r] \in Errands
      /\ LeavingInv /\ D!UserOf(n) = n /\ 0 \in 0..D_MaxSecret
    BY <1>a, <1>0, DatabasesAt DEF D!DatabasesAssumption
<1>2. d_rows[n] # 0
    BY <1>a, <1>1 DEF D!AlterUser, D!DropSchema, D!DropUser, Working, D!At, Removing
<1>3. ASSUME NEW step \in {"rewrite", "dropUser", "deleteRow"}, d_req' = [d_req EXCEPT ![r].step = step],
             HostKinds', ElsewhereKept(n), step = "rewrite" => d_req[r].step \notin Removing,
             step = "rewrite" => /\ n \in d_dropped' \/ n \in d_schemas'
                                 /\ d_users'[n] = d_req[r].secret /\ d_req[r].secret # 0,
             step \in {"dropUser", "deleteRow"} => n \in d_dropped' /\ n \notin d_schemas',
             step = "deleteRow" => d_users'[n] = 0
      PROVE  DatabasesInv'
    <2> DEFINE q == [d_req[r] EXCEPT !.step = step]
    <2>1. /\ q \in Errands /\ q # D!Idle /\ q.name = n /\ q.step = step /\ q.secret = d_req[r].secret
          /\ d_req' = [d_req EXCEPT ![r] = q] /\ d_req'[r] = q
        BY <1>a, <1>0, <1>3, DatabasesGoes DEF Removing
    <2> HIDE DEF q
    <2>2. Working(r)'
        BY <1>0, <1>1, <1>2, <1>3, <2>1 DEF Working, D!At, D!Creating, Removing
    <2>3. q.step \notin D!Creating
        BY <1>3, <2>1 DEF D!Creating
    <2>4. q.step \in {"idle"} \cup Removing \/ d_req[r].step \notin Removing
        BY <1>3, <2>1 DEF Removing
    <2> QED
        BY <1>a, <1>0, <1>1, <1>2, <1>3, <2>1, <2>2, <2>3, <2>4, DatabasesMoves
<1>4. CASE D!AlterUser(r)
    <2>1. Agrees(n) /\ d_req[r].secret # 0 /\ d_req[r].secret \in 0..D_MaxSecret /\ ~d_leaving.open
        BY <1>a, <1>1, <1>4 DEF D!AlterUser, Working, D!At, Errands, LeavingInv, Removing
    <2>2. CASE d_users[n] # 0 /\ d_users' = [d_users EXCEPT ![n] = d_req[r].secret] /\ D!Goes(r, "rewrite")
        <3>1. HostKinds' /\ ElsewhereKept(n)
            BY <1>0, <1>1, <1>4, <2>1, <2>2 DEF D!AlterUser, HostKinds, ElsewhereKept
        <3>2. n \in d_dropped' \/ n \in d_schemas'
            BY <1>2, <1>4, <2>1 DEF D!AlterUser, Agrees
        <3>3. d_users'[n] = d_req[r].secret /\ d_req[r].step \notin Removing
            BY <1>1, <1>4, <2>2 DEF D!AlterUser, HostKinds, Removing, D!At
        <3> QED
            BY <1>3, <2>1, <2>2, <3>1, <3>2, <3>3 DEF D!Goes
    <2>3. CASE UNCHANGED d_users /\ D!Ends(r)
        <3>1. UNCHANGED <<d_schemas, d_users, d_rows, d_dropped>>
            BY <1>0, <1>4, <2>3 DEF D!AlterUser
        <3>2. HostKinds' /\ ElsewhereKept(n) /\ Agrees(n)'
            BY <1>a, <1>1, <2>1, <3>1 DEF HostKinds, ElsewhereKept, Agrees
        <3> QED
            BY <1>a, <1>0, <1>1, <1>2, <2>1, <2>3, <3>2, DatabasesEnds
    <2> QED
        BY <1>a, <1>1, <1>4, <2>2, <2>3 DEF D!AlterUser
<1>5. CASE D!DropSchema(r)
    <2>1. d_schemas' = d_schemas \ {n} /\ d_dropped' = d_dropped \cup {n} /\ D!Goes(r, "dropUser") /\ d_users' = d_users
        BY <1>a, <1>5 DEF D!DropSchema
    <2>2. HostKinds' /\ ElsewhereKept(n)
        BY <1>0, <1>1, <2>1 DEF HostKinds, ElsewhereKept
    <2> QED
        BY <1>3, <2>1, <2>2 DEF D!Goes
<1>6. CASE D!DropUser(r)
    <2>1. d_users' = [d_users EXCEPT ![n] = 0] /\ D!Goes(r, "deleteRow") /\ UNCHANGED <<d_schemas, d_dropped>>
        BY <1>a, <1>1, <1>6 DEF D!DropUser, D!WithoutUser
    <2>2. n \in d_dropped /\ n \notin d_schemas
        BY <1>a, <1>1, <1>6 DEF D!DropUser, Working, D!At
    <2>3. HostKinds' /\ ElsewhereKept(n) /\ d_users'[n] = 0
        BY <1>0, <1>1, <2>1 DEF HostKinds, ElsewhereKept
    <2> QED
        BY <1>3, <2>1, <2>2, <2>3 DEF D!Goes
<1> QED
    BY <1>4, <1>5, <1>6

-----------------------------------------------------------------------------
(* What begins.                                                             *)

\* A request without a task takes up q on name n.
LEMMA DatabasesBegins ==
    ASSUME D!DatabasesAssumption, DatabasesInv, NEW r \in D_Requests, D!At(r, "idle"),
           NEW n \in D_Names, ~D!Busy(n), NEW q \in Errands, q.name = n,
           d_req' = [d_req EXCEPT ![r] = q], UNCHANGED <<d_schemas, d_users, d_rows, d_dropped>>, Working(r)'
    PROVE  WorkInv' /\ d_req'[r] = q /\ \A s \in D_Requests : s # r => d_req'[s] = d_req[s]
<1>1. WorkInv /\ d_req \in [D_Requests -> Errands] /\ HostKinds
    BY DEF DatabasesInv, WorkInv
<1>2. HostKinds' /\ ElsewhereKept(n)
    BY <1>1 DEF HostKinds, ElsewhereKept
<1>3. q # D!Idle
    BY DEF D!Idle, D!DatabasesAssumption
<1>4. WorkInv'
    BY <1>1, <1>2, <1>3, WorkStep
<1> QED
    BY <1>1, <1>4

\* A customer's task, which nobody begins while the server is deleted.
LEMMA DatabasesTask ==
    ASSUME D!DatabasesAssumption, DatabasesInv, NEW r \in D_Requests, NEW n \in D_Names,
           NEW step \in {"createSchema", "alterUser", "dropSchema"}, D!Begins(r, step, n),
           ~d_leaving.done, UNCHANGED <<d_schemas, d_users, d_rows, d_dropped, d_leaving>>,
           IF step = "createSchema" THEN d_rows[n] = 0 /\ n \notin d_schemas ELSE d_rows[n] # 0
    PROVE  /\ WorkInv' /\ LeavingInv' /\ d_secrets' \in 0..D_MaxSecret /\ d_req'[r].step = step
           /\ d_req[r].step = "idle" /\ \A s \in D_Requests : s # r => d_req'[s] = d_req[s]
<1>1. /\ D!At(r, "idle") /\ ~D!Busy(n) /\ ~d_leaving.open
      /\ d_secrets' = IF step = "dropSchema" THEN d_secrets ELSE d_secrets + 1
      /\ d_secrets' <= D_MaxSecret
      /\ d_req' = [d_req EXCEPT ![r] = [step |-> step, name |-> n, secret |-> d_secrets']]
    BY DEF D!Begins
<1>2. d_secrets \in 0..D_MaxSecret /\ D_MaxSecret \in Nat /\ d_req \in [D_Requests -> Errands] /\ LeavingInv
    BY DEF D!DatabasesAssumption, DatabasesInv, WorkInv
<1>3. d_secrets' \in 0..D_MaxSecret /\ (step # "dropSchema" => d_secrets' # 0)
    BY <1>1, <1>2
<1>4. PICK q : q = [step |-> step, name |-> n, secret |-> d_secrets']
    OBVIOUS
<1>5. q \in Errands /\ q.name = n /\ q.step = step /\ q.secret = d_secrets'
    BY <1>3, <1>4 DEF Errands, D!Creating, Removing
<1>6. d_req' = [d_req EXCEPT ![r] = q] /\ d_req'[r] = q
    BY <1>1, <1>2, <1>4
<1>7. Agrees(n)
    BY <1>1 DEF DatabasesInv, WorkInv
<1>8. Working(r)'
    <2>1. Agrees(n)'
        BY <1>7 DEF Agrees
    <2>2. step = "createSchema" => d_users'[n] = 0 /\ d_rows'[n] = 0 /\ n \notin d_schemas'
        BY <1>7 DEF Agrees
    <2>3. step # "createSchema" => d_rows'[n] # 0
        OBVIOUS
    <2> QED
        BY <1>3, <1>5, <1>6, <2>1, <2>2, <2>3 DEF Working, D!At, D!Creating, Removing
<1>9. WorkInv' /\ \A s \in D_Requests : s # r => d_req'[s] = d_req[s]
    BY <1>1, <1>5, <1>6, <1>8, DatabasesBegins
<1>10. LeavingInv'
    BY <1>1, <1>2 DEF LeavingInv
<1> QED
    BY <1>1, <1>3, <1>5, <1>6, <1>9, <1>10 DEF D!At

LEMMA DatabasesTasks ==
    ASSUME D!DatabasesAssumption, DatabasesInv, NEW r \in D_Requests, NEW n \in D_Names,
           D!Create(r, n) \/ D!Rotate(r, n) \/ D!Delete(r, n)
    PROVE  DatabasesInv'
<1>0. UNCHANGED <<d_schemas, d_users, d_rows, d_dropped, d_leaving>>
    BY DEF D!Create, D!Rotate, D!Delete, D!host
<1>1. PlanInv /\ LeavingInv /\ D!Used' = D!Used
    BY <1>0 DEF DatabasesInv, D!Used
<1>2. CASE D!Create(r, n)
    <2>1. /\ D!Begins(r, "createSchema", n) /\ n \notin d_schemas \cup D!Used /\ ~d_leaving.done
          /\ Cardinality(D!Used) < D_Limit /\ \A s \in D_Requests : d_req[s].step \notin D!Creating
        <3>1. D!Begins(r, "createSchema", n) /\ ~d_leaving.done /\ D!WithinLimit
            BY <1>2 DEF D!Create
        <3>2. n \notin d_schemas \cup D!Used
            BY <1>2 DEF D!Create
        <3>3. \A s \in D_Requests : d_req[s].step \notin D!Creating
            BY <1>2 DEF D!Create
        <3> QED
            BY <3>1, <3>2, <3>3, DatabasesCounts DEF D!WithinLimit
    <2>2. d_rows[n] = 0
        BY <2>1 DEF D!Used
    <2>3. /\ WorkInv' /\ LeavingInv' /\ d_secrets' \in 0..D_MaxSecret
          /\ \A s \in D_Requests : s # r => d_req'[s] = d_req[s]
        BY <1>0, <2>1, <2>2, DatabasesTask
    <2>4. PlanInv'
        BY <1>1, <2>1, <2>3 DEF PlanInv, D!Creating
    <2> QED
        BY <2>3, <2>4 DEF DatabasesInv
<1>3. ASSUME NEW step \in {"alterUser", "dropSchema"}, D!Begins(r, step, n), d_rows[n] # 0
      PROVE  DatabasesInv'
    <2>1. ~d_leaving.done
        BY <1>1, <1>3 DEF LeavingInv
    <2>2. /\ WorkInv' /\ LeavingInv' /\ d_secrets' \in 0..D_MaxSecret /\ d_req'[r].step = step
          /\ \A s \in D_Requests : s # r => d_req'[s] = d_req[s]
        BY <1>0, <1>3, <2>1, DatabasesTask
    <2>3. \A s \in D_Requests : d_req'[s].step \in D!Creating => d_req[s].step \in D!Creating
        BY <2>2, <1>3 DEF D!Creating
    <2>4. PlanInv'
        BY <1>1, <2>3, PlanKept
    <2> QED
        BY <2>2, <2>4 DEF DatabasesInv
<1> QED
    BY <1>2, <1>3 DEF D!Rotate, D!Delete

\* deleteServer turns to one database after the other.
LEMMA DatabasesDropNext ==
    ASSUME D!DatabasesAssumption, DatabasesInv, NEW r \in D_Requests, NEW n \in D_Names, D!DropNext(r, n)
    PROVE  DatabasesInv'
<1>1. /\ d_leaving.open /\ n \in d_leaving.names /\ D!At(r, "idle")
      /\ d_req' = [d_req EXCEPT ![r] = [step |-> "dropSchema", name |-> n, secret |-> 0]]
      /\ d_leaving' = [d_leaving EXCEPT !.names = @ \ {n}]
      /\ UNCHANGED <<d_schemas, d_users, d_rows, d_secrets, d_dropped>>
    BY DEF D!DropNext, D!host
<1>2. LeavingInv /\ PlanInv /\ WorkInv /\ 0 \in 0..D_MaxSecret
    BY DEF D!DatabasesAssumption, DatabasesInv
<1>3. ~D!Busy(n) /\ d_rows[n] # 0
    BY <1>1, <1>2 DEF LeavingInv
<1>4. PICK q : q = [step |-> "dropSchema", name |-> n, secret |-> 0]
    OBVIOUS
<1>5. q \in Errands /\ q.name = n /\ q.step = "dropSchema"
    BY <1>2, <1>4 DEF Errands, Removing
<1>6. d_req' = [d_req EXCEPT ![r] = q] /\ d_req'[r] = q
    BY <1>1, <1>2, <1>4 DEF WorkInv
<1>7. Working(r)'
    <2>1. Agrees(n)'
        BY <1>1, <1>2, <1>3 DEF WorkInv, Agrees
    <2> QED
        BY <1>1, <1>3, <1>5, <1>6, <2>1 DEF Working, D!At, D!Creating, Removing
<1>8. WorkInv' /\ \A s \in D_Requests : s # r => d_req'[s] = d_req[s]
    BY <1>1, <1>3, <1>5, <1>6, <1>7, DatabasesBegins
<1>9. PlanInv'
    <2>1. D!Used' = D!Used
        BY <1>1 DEF D!Used
    <2>2. \A s \in D_Requests : d_req'[s].step \in D!Creating => d_req[s].step \in D!Creating
        BY <1>5, <1>6, <1>8 DEF D!Creating
    <2> QED
        BY <1>2, <2>1, <2>2, PlanKept
<1>10. LeavingInv'
    <2>1. /\ d_leaving' \in [open : BOOLEAN, names : SUBSET D_Names, done : BOOLEAN]
          /\ d_leaving'.open = d_leaving.open /\ d_leaving'.done = d_leaving.done
          /\ d_leaving'.names = d_leaving.names \ {n}
        BY <1>1, <1>2 DEF LeavingInv
    <2>2. ~d_leaving.done /\ \A s \in D_Requests : d_req'[s].step \in {"idle"} \cup Removing
        BY <1>1, <1>2, <1>5, <1>6, <1>8 DEF LeavingInv, Removing
    <2>3. ASSUME NEW m \in d_leaving'.names PROVE d_rows'[m] # 0 /\ ~D!Busy(m)'
        <3>1. m # n /\ d_rows[m] # 0 /\ ~D!Busy(m)
            BY <1>1, <1>2, <2>1, <2>3 DEF LeavingInv
        <3> QED
            BY <1>1, <1>5, <1>6, <1>8, <3>1 DEF D!Busy
    <2>4. ASSUME NEW m \in D_Names, d_rows'[m] # 0 PROVE m \in d_leaving'.names \/ D!Busy(m)'
        <3>1. m \in d_leaving.names \/ D!Busy(m)
            BY <1>1, <1>2, <2>4 DEF LeavingInv
        <3>2. D!Busy(n)'
            BY <1>5, <1>6 DEF D!Busy
        <3>3. D!Busy(m) => D!Busy(m)'
            <4>1. d_req[r].name # m
                BY <1>1, <1>2 DEF WorkInv, Working, D!Idle, D!DatabasesAssumption, D!At
            <4> QED
                BY <1>8, <4>1 DEF D!Busy
        <3> QED
            BY <2>1, <3>1, <3>2, <3>3
    <2> QED
        BY <1>1, <2>1, <2>2, <2>3, <2>4 DEF LeavingInv, Removing
<1> QED
    BY <1>1, <1>8, <1>9, <1>10 DEF DatabasesInv

LEMMA DatabasesLeaves ==
    ASSUME D!DatabasesAssumption, DatabasesInv, D!DeleteServer \/ D!ServerGone
    PROVE  DatabasesInv'
<1>0. /\ LeavingInv /\ PlanInv /\ WorkInv /\ 0 \in 0..D_MaxSecret
      /\ UNCHANGED <<d_schemas, d_users, d_req, d_secrets>>
    BY DEF D!DatabasesAssumption, DatabasesInv, D!DeleteServer, D!ServerGone, D!host
<1>1. \A r \in D_Requests : D!At(r, "idle")
    <2>1. CASE D!DeleteServer
        BY <2>1 DEF D!DeleteServer
    <2>2. CASE D!ServerGone
        BY <1>0, <2>2 DEF D!ServerGone, D!Dropping, LeavingInv, Removing, D!At
    <2> QED
        BY <2>1, <2>2
<1>2. \A n \in D_Names : ~D!Busy(n) /\ Agrees(n)
    <2>1. \A r \in D_Requests : d_req[r].name = "none"
        BY <1>0, <1>1 DEF WorkInv, Working, D!Idle
    <2> QED
        BY <1>0, <2>1 DEF WorkInv, D!Busy, D!DatabasesAssumption
<1>3. D!Used' \subseteq D!Used
    BY DEF D!Used, D!DeleteServer, D!ServerGone
<1>4. PlanInv'
    BY <1>0, <1>3, PlanKept
<1>5. \A r \in D_Requests : Working(r)'
    BY <1>0, <1>1 DEF WorkInv, Working, D!At, D!Creating, Removing
<1>6. CASE D!DeleteServer
    <2>1. /\ d_leaving' = [d_leaving EXCEPT !.open = TRUE, !.names = D!Used] /\ ~d_leaving.done
          /\ UNCHANGED <<d_rows, d_dropped>>
        BY <1>6 DEF D!DeleteServer
    <2>2. WorkInv'
        <3>1. HostKinds' /\ Apart' /\ d_req' \in [D_Requests -> Errands]
            BY <1>0, <2>1 DEF WorkInv, HostKinds, Apart
        <3>2. \A n \in D_Names : Agrees(n)'
            BY <1>0, <1>2, <2>1 DEF Agrees
        <3> QED
            BY <1>5, <3>1, <3>2 DEF WorkInv
    <2>3. LeavingInv'
        <3>1. D!Used \in SUBSET D_Names
            BY DEF D!Used
        <3>2. /\ d_leaving' \in [open : BOOLEAN, names : SUBSET D_Names, done : BOOLEAN]
              /\ d_leaving'.open /\ d_leaving'.names = D!Used /\ ~d_leaving'.done
            BY <1>0, <2>1, <3>1 DEF LeavingInv
        <3>3. \A n \in D_Names : (n \in D!Used <=> d_rows[n] # 0) /\ ~D!Busy(n)'
            BY <1>0, <1>2 DEF D!Used, D!Busy
        <3>4. \A n \in d_leaving'.names : d_rows'[n] # 0 /\ ~D!Busy(n)'
            BY <2>1, <3>1, <3>2, <3>3
        <3>5. \A n \in D_Names : d_rows'[n] # 0 => n \in d_leaving'.names
            BY <2>1, <3>2, <3>3
        <3>6. \A r \in D_Requests : d_req'[r].step = "idle"
            BY <1>0, <1>1 DEF D!At
        <3> QED
            BY <3>2, <3>4, <3>5, <3>6 DEF LeavingInv
    <2> QED
        BY <1>0, <1>4, <2>2, <2>3 DEF DatabasesInv
<1>7. CASE D!ServerGone
    <2>1. /\ d_leaving' = [d_leaving EXCEPT !.open = FALSE, !.done = TRUE] /\ d_leaving.open
          /\ d_leaving.names = {} /\ d_rows' = [n \in D_Names |-> 0] /\ d_dropped' = {}
        BY <1>7 DEF D!ServerGone
    <2>2. \A n \in D_Names : d_rows[n] = 0
        BY <1>0, <1>2, <2>1 DEF LeavingInv
    <2>3. WorkInv'
        <3>1. HostKinds' /\ Apart' /\ d_req' \in [D_Requests -> Errands]
            BY <1>0, <2>1 DEF WorkInv, HostKinds, Apart
        <3>2. \A n \in D_Names : Agrees(n)'
            BY <1>0, <1>2, <2>1, <2>2 DEF Agrees
        <3> QED
            BY <1>5, <3>1, <3>2 DEF WorkInv
    <2>4. LeavingInv'
        <3>1. d_leaving' \in [open : BOOLEAN, names : SUBSET D_Names, done : BOOLEAN] /\ ~d_leaving'.open
            BY <1>0, <2>1 DEF LeavingInv
        <3> QED
            BY <1>0, <1>1, <2>1, <3>1 DEF LeavingInv, D!At
    <2> QED
        BY <1>0, <1>4, <2>3, <2>4 DEF DatabasesInv
<1> QED
    BY <1>6, <1>7

LEMMA DatabasesStep ==
    ASSUME D!DatabasesAssumption, DatabasesInv, D!Next \/ UNCHANGED D!vars
    PROVE  DatabasesInv'
<1>1. ASSUME NEW r \in D_Requests, D!Record(r) PROVE DatabasesInv'
    <2>1. PICK n : n = d_req[r].name
        OBVIOUS
    <2>2. ~D!At(r, "idle") /\ D!At(r, "record")
        BY <1>1 DEF D!Record, D!At
    <2>3. /\ n \in D_Names /\ Working(r) /\ HostKinds /\ d_req \in [D_Requests -> Errands] /\ d_req[r] \in Errands
          /\ LeavingInv /\ ~d_leaving.done /\ WorkInv /\ PlanInv
        BY <2>1, <2>2, DatabasesAt DEF DatabasesInv
    <2>4. /\ d_rows[n] = 0 /\ n \in d_schemas /\ d_users[n] = d_req[r].secret /\ d_req[r].secret # 0
          /\ d_req[r].secret \in 0..D_MaxSecret
        BY <2>1, <2>2, <2>3 DEF Working, D!At, D!Creating, Errands
    <2>5. \A m \in D!Used : D!UserOf(m) # D!UserOf(n)
        BY <2>4 DEF D!Used, D!UserOf
    <2>6. /\ d_rows' = [d_rows EXCEPT ![n] = d_req[r].secret] /\ d_req' = [d_req EXCEPT ![r] = D!Idle]
          /\ UNCHANGED <<d_schemas, d_users, d_secrets, d_dropped, d_leaving>>
        BY <1>1, <2>1, <2>3, <2>4, <2>5 DEF D!Record, D!Ends, D!host
    <2>7. HostKinds' /\ ElsewhereKept(n) /\ Agrees(n)'
        BY <2>3, <2>4, <2>6 DEF HostKinds, ElsewhereKept, Agrees
    <2>8. /\ D!Idle \in Errands /\ D!Idle.step = "idle" /\ d_req'[r] = D!Idle
          /\ \A s \in D_Requests : s # r => d_req'[s] = d_req[s]
        BY <2>3, <2>6, IdleErrand
    <2>9. Working(r)'
        BY <2>8 DEF Working, D!At, D!Creating, Removing
    <2>10. WorkInv'
        BY <2>1, <2>3, <2>6, <2>7, <2>8, <2>9, WorkStep
    <2>11. PlanInv'
        <3>1. D!Used' = D!Used \cup {n} /\ n \notin D!Used
            BY <2>3, <2>4, <2>6 DEF D!Used, HostKinds
        <3>2. IsFiniteSet(D!Used') /\ Cardinality(D!Used') = Cardinality(D!Used) + 1
            BY <2>3, <3>1, FS_AddElement DEF PlanInv
        <3>3. Cardinality(D!Used) < D_Limit /\ D_Limit \in Nat /\ Cardinality(D!Used) \in Nat
            BY <2>2, <2>3, FS_CardinalityType DEF PlanInv, D!DatabasesAssumption, D!At, D!Creating
        <3>4. \A s \in D_Requests : d_req'[s].step \notin D!Creating
            BY <2>2, <2>3, <2>8 DEF PlanInv, D!At, D!Creating
        <3>5. Cardinality(D!Used') <= D_Limit
            BY <3>2, <3>3
        <3> QED
            BY <3>2, <3>4, <3>5 DEF PlanInv, D!Creating
    <2>12. LeavingInv'
        <3>1. ~d_leaving.open
            BY <2>2, <2>3 DEF LeavingInv, D!At, Removing
        <3> QED
            BY <2>3, <2>6, <3>1 DEF LeavingInv
    <2> QED
        BY <2>6, <2>10, <2>11, <2>12 DEF DatabasesInv
<1>2. CASE UNCHANGED D!vars
    BY <1>2 DEF D!vars, DatabasesInv, WorkInv, HostKinds, Apart, D!Busy, Agrees, Working, D!At, PlanInv, D!Used,
                LeavingInv, D!Creating
<1> QED
    BY <1>1, <1>2, DatabasesCreates, DatabasesFinishes, DatabasesRemoves, DatabasesTasks,
       DatabasesDropNext, DatabasesLeaves DEF D!Next

LEMMA DatabasesTyped == ASSUME DatabasesInv PROVE D!TypeOK /\ D!RowsTellTheHost
<1>1. HostKinds /\ LeavingInv /\ d_secrets \in 0..D_MaxSecret
    BY DEF DatabasesInv, WorkInv
<1>2. \A r \in D_Requests : d_req[r] \in Errands
    BY DEF DatabasesInv, WorkInv
<1>3. d_leaving.open \in BOOLEAN /\ d_leaving.done \in BOOLEAN
    BY <1>1 DEF LeavingInv
<1>4. d_leaving.names \subseteq D_Names
    BY <1>1 DEF LeavingInv
<1>5. \A r \in D_Requests : d_req[r].name \in D_Names \cup {"none"} /\ d_req[r].secret \in 0..D_MaxSecret
    BY <1>2 DEF Errands
<1>6. D!TypeOK
    BY <1>1, <1>3, <1>4, <1>5 DEF D!TypeOK, HostKinds
<1>7. D!RowsTellTheHost
    BY DatabasesCounts DEF DatabasesInv, WorkInv, PlanInv, D!RowsTellTheHost, Agrees, D!UserOf
<1> QED
    BY <1>6, <1>7

-----------------------------------------------------------------------------
(* GameSettings: the text of a save under way is what the save makes of the *)
(* file, which nobody else writes meanwhile, and a file has a key once.     *)

Lines == {G!Comment} \cup [key : G!Keys, value : G!Values]
Distinct(text) == \A i, j \in 1..Len(text) : text[i].key = text[j].key => i = j
Shown == [G!Editable -> 0..3]
Sendable == {<<>>} \cup UNION {[ks -> 0..3] : ks \in SUBSET G!Editable}

SettingsKinds ==
    /\ g_file \in Seq(Lines) /\ g_saves \in 0..G_MaxSaves
    /\ g_form \in [G_Tabs -> [page : {"closed", "settings", "editor"}, was : Shown, now : Shown,
                          text : Seq(Lines), opened : Seq(Lines)]]
    /\ g_req \in [G_Tabs -> [step : {"idle", "read", "write"}, changes : Sendable, text : Seq(Lines)]]

OneSave == \A t, u \in G_Tabs : g_req[t] # G!Idle /\ g_req[u] # G!Idle => t = u

Texts ==
    /\ Distinct(g_file)
    /\ \A t \in G_Tabs :
          /\ Distinct(g_form[t].text)
          /\ g_form[t].page # "closed" => g_file # <<>>
          /\ g_form[t].page = "editor" => g_form[t].text # <<>>

SentSave(t) ==
    /\ g_req[t].step = "read" => g_form[t].page = "settings" /\ g_req[t].changes = G!Changed(t)
    /\ g_req[t].step = "write" =>
          \/ g_form[t].page = "settings" /\ g_req[t].text = G!Apply(g_file, G!Accepted(G!Changed(t)))
          \/ g_form[t].page = "editor" /\ g_req[t].text = g_form[t].text /\ g_form[t].opened = g_file

SettingsInv ==
    /\ SettingsKinds /\ OneSave /\ Texts /\ g_told = G!Parse(g_file)
    /\ \A t \in G_Tabs : SentSave(t)

-----------------------------------------------------------------------------
\* The keys a save adds, each once.
LEMMA LengthType == ASSUME NEW X, NEW s \in Seq(X) PROVE Len(s) \in Nat
OBVIOUS

LEMMA SequenceOf == ASSUME NEW n \in Nat, NEW X, NEW f \in [1..n -> X] PROVE f \in Seq(X) /\ Len(f) = n
OBVIOUS

OnceEach(f, n, ks) == f \in [1..n -> ks] /\ \A i, j \in 1..n : f[i] = f[j] => i = j
Lists(f, n, ks) == OnceEach(f, n, ks) /\ \A k \in ks : \E i \in 1..n : f[i] = k

LEMMA ListedAs ==
    ASSUME NEW ks, NEW n \in Nat, NEW f, OnceEach(f, n, ks), G!Cardinality(ks) = n
    PROVE  OnceEach(G!SetToSeq(ks), n, ks)
<1>1. f \in [1..G!Cardinality(ks) -> ks] /\ G!IsInjective(f)
    BY DEF G!IsInjective, OnceEach
<1>2. G!SetToSeq(ks) \in [1..G!Cardinality(ks) -> ks] /\ G!IsInjective(G!SetToSeq(ks))
    BY <1>1 DEF G!SetToSeq
<1> QED
    BY <1>2 DEF G!IsInjective, OnceEach

LEMMA Listed ==
    ASSUME NEW ks, ks \subseteq G!Editable
    PROVE  \E n \in Nat : Lists(G!SetToSeq(ks), n, ks)
<1>1. G!Cardinality(ks) = Cardinality(ks)
    BY DEF G!Cardinality, Cardinality
<1>2. PICK s : s = G!SetToSeq(ks)
    OBVIOUS
<1>3. CASE ks = {}
    <2>1. Cardinality(ks) = 0
        BY <1>3, FS_EmptySet
    <2>2. PICK f : f = [i \in 1..0 |-> i]
        OBVIOUS
    <2>3. OnceEach(f, 0, ks)
        BY <2>2 DEF OnceEach
    <2>4. OnceEach(s, 0, ks)
        BY <1>1, <1>2, <2>1, <2>3, ListedAs
    <2>5. \A k \in ks : \E i \in 1..0 : s[i] = k
        BY <1>3
    <2>6. 0 \in Nat
        OBVIOUS
    <2> QED
        BY <1>2, <2>4, <2>5, <2>6 DEF Lists
<1>4. ASSUME NEW k, ks = {k} PROVE \E n \in Nat : Lists(s, n, ks)
    <2>1. Cardinality(ks) = 1
        BY <1>4, FS_Singleton
    <2>2. PICK f : f = [i \in 1..1 |-> k]
        OBVIOUS
    <2>3. OnceEach(f, 1, ks)
        BY <1>4, <2>2 DEF OnceEach
    <2>4. OnceEach(s, 1, ks)
        BY <1>1, <1>2, <2>1, <2>3, ListedAs
    <2>5. 1 \in 1..1 /\ s[1] = k /\ 1 \in Nat
        BY <1>4, <2>4 DEF OnceEach
    <2>6. \A x \in ks : \E i \in 1..1 : s[i] = x
        BY <1>4, <2>5
    <2> QED
        BY <2>4, <2>5, <2>6 DEF Lists
<1>5. ASSUME NEW k, NEW l, ks = {k, l}, k # l PROVE \E n \in Nat : Lists(s, n, ks)
    <2>1. Cardinality(ks) = 2
        <3>1. IsFiniteSet({k}) /\ Cardinality({k}) = 1
            BY FS_Singleton
        <3>2. Cardinality({k} \cup {l}) = Cardinality({k}) + 1
            BY <1>5, <3>1, FS_AddElement
        <3>3. ks = {k} \cup {l}
            BY <1>5
        <3> QED
            BY <3>1, <3>2, <3>3
    <2>2. PICK f : f = [i \in 1..2 |-> IF i = 1 THEN k ELSE l]
        OBVIOUS
    <2>3. OnceEach(f, 2, ks)
        BY <1>5, <2>2 DEF OnceEach
    <2>4. OnceEach(s, 2, ks)
        BY <1>1, <1>2, <2>1, <2>3, ListedAs
    <2>5. 1 \in 1..2 /\ 2 \in 1..2 /\ 2 \in Nat
        OBVIOUS
    <2>6. s[1] \in {k, l} /\ s[2] \in {k, l} /\ s[1] # s[2]
        BY <1>5, <2>4, <2>5 DEF OnceEach
    <2>7. \A x \in ks : \E i \in 1..2 : s[i] = x
        BY <1>5, <2>5, <2>6
    <2> QED
        BY <2>4, <2>5, <2>7 DEF Lists
<1>6. ks = {} \/ ks = {"motd"} \/ ks = {"pvp"} \/ ks = {"motd", "pvp"}
    <2>1. \A x \in ks : x = "motd" \/ x = "pvp"
        BY DEF G!Editable
    <2>2. CASE "motd" \in ks /\ "pvp" \in ks
        BY <2>1, <2>2
    <2>3. CASE "motd" \in ks /\ "pvp" \notin ks
        BY <2>1, <2>3
    <2>4. CASE "motd" \notin ks /\ "pvp" \in ks
        BY <2>1, <2>4
    <2>5. CASE "motd" \notin ks /\ "pvp" \notin ks
        BY <2>1, <2>5
    <2> QED
        BY <2>2, <2>3, <2>4, <2>5
<1>7. "motd" # "pvp"
    OBVIOUS
<1> QED
    BY <1>2, <1>3, <1>4, <1>5, <1>6, <1>7

\* What a key that a text has once is read as.
LEMMA ParseLine ==
    ASSUME NEW text \in Seq(Lines), Distinct(text), NEW k \in G!Keys
    PROVE  /\ \A i \in 1..Len(text) : text[i].key = k => G!Parse(text)[k] = text[i].value
           /\ (\A i \in 1..Len(text) : text[i].key # k) => G!Parse(text)[k] = G!None
           /\ G!Parse(text)[k] \in G!Values \cup {G!None}
<1> DEFINE at == {i \in 1..Len(text) : text[i].key = k}
<1>1. G!Parse(text)[k] = IF at = {} THEN G!None ELSE text[CHOOSE i \in at : \A j \in at : j <= i].value
    BY DEF G!Parse
<1>2. Len(text) \in Nat /\ \A i \in 1..Len(text) : text[i] \in Lines
    OBVIOUS
<1>3. ASSUME NEW i \in 1..Len(text), text[i].key = k
      PROVE  G!Parse(text)[k] = text[i].value /\ text[i].value \in G!Values
    <2>1. at = {i}
        BY <1>3 DEF Distinct
    <2>2. (CHOOSE x \in at : \A j \in at : j <= x) = i
        BY <1>2, <2>1
    <2>3. text[i].value \in G!Values
        BY <1>2, <1>3 DEF Lines, G!Comment, G!Keys, G!Editable
    <2> QED
        BY <1>1, <2>1, <2>2, <2>3
<1>4. (\A i \in 1..Len(text) : text[i].key # k) => G!Parse(text)[k] = G!None
    BY <1>1
<1>5. G!Parse(text)[k] \in G!Values \cup {G!None}
    BY <1>3, <1>4
<1> QED
    BY <1>3, <1>4, <1>5

\* A save writes the keys it changes and no other.
LEMMA ApplyWrites ==
    ASSUME NEW text \in Seq(Lines), Distinct(text),
           NEW changes, DOMAIN changes \subseteq G!Editable, \A k \in DOMAIN changes : changes[k] \in G!Values
    PROVE  /\ G!Apply(text, changes) \in Seq(Lines) /\ Distinct(G!Apply(text, changes))
           /\ text # <<>> => G!Apply(text, changes) # <<>>
           /\ G!Parse(G!Apply(text, changes)) =
                 [k \in G!Keys |-> IF k \in DOMAIN changes THEN changes[k] ELSE G!Parse(text)[k]]
<1>a. PICK missing : missing = {k \in DOMAIN changes : \A i \in 1..Len(text) : text[i].key # k}
    OBVIOUS
<1>b. PICK added : added = G!SetToSeq(missing)
    OBVIOUS
<1> DEFINE kept == [i \in 1..Len(text) |->
                       IF text[i].key \in DOMAIN changes /\ \A j \in 1..(i - 1) : text[j].key # text[i].key
                       THEN [text[i] EXCEPT !.value = changes[text[i].key]] ELSE text[i]]
           more == [i \in 1..Len(added) |-> [key |-> added[i], value |-> changes[added[i]]]]
<1>0. G!Apply(text, changes) = kept \o more
    BY <1>a, <1>b DEF G!Apply
<1>1. PICK n \in Nat : Lists(added, n, missing)
    <2>1. missing \subseteq G!Editable
        BY <1>a
    <2> QED
        BY <1>b, <2>1, Listed
<1>2. /\ n \in Nat /\ added \in [1..n -> missing]
      /\ \A i, j \in 1..n : added[i] = added[j] => i = j
      /\ \A k \in missing : \E i \in 1..n : added[i] = k
    BY <1>1 DEF Lists, OnceEach
<1>3. Len(text) \in Nat /\ \A i \in 1..Len(text) : text[i] \in Lines
    OBVIOUS
<1>4. \A i \in 1..Len(text) : /\ kept[i].key = text[i].key /\ kept[i] \in Lines
                              /\ text[i].key \in DOMAIN changes => kept[i].value = changes[text[i].key]
                              /\ text[i].key \notin DOMAIN changes => kept[i].value = text[i].value
    <2>1. SUFFICES ASSUME NEW i \in 1..Len(text)
                   PROVE  /\ kept[i].key = text[i].key /\ kept[i] \in Lines
                          /\ text[i].key \in DOMAIN changes => kept[i].value = changes[text[i].key]
                          /\ text[i].key \notin DOMAIN changes => kept[i].value = text[i].value
        OBVIOUS
    <2>2. CASE text[i].key \in DOMAIN changes
        <3>1. \A j \in 1..(i - 1) : text[j].key # text[i].key
            BY <1>3 DEF Distinct
        <3>2. kept[i] = [text[i] EXCEPT !.value = changes[text[i].key]]
            BY <2>2, <3>1
        <3>3. text[i] \in [key : G!Keys, value : G!Values]
            BY <1>3, <2>2 DEF Lines, G!Comment, G!Editable
        <3> QED
            BY <2>2, <3>2, <3>3 DEF Lines
    <2>3. CASE text[i].key \notin DOMAIN changes
        <3>1. kept[i] = text[i]
            BY <2>3
        <3> QED
            BY <1>3, <2>3, <3>1
    <2> QED
        BY <2>2, <2>3
<1>5. kept \in Seq(Lines) /\ Len(kept) = Len(text)
    BY <1>3, <1>4
<1> HIDE DEF kept
<1>6. added \in Seq(missing) /\ Len(added) = n
    BY <1>2, SequenceOf
<1>7. \A i \in 1..n : added[i] \in missing /\ added[i] \in G!Editable /\ changes[added[i]] \in G!Values
    BY <1>a, <1>2
<1>8. /\ more \in Seq(Lines) /\ Len(more) = n
      /\ \A i \in 1..n : more[i].key = added[i] /\ more[i].value = changes[added[i]]
    BY <1>6, <1>7 DEF Lines, G!Keys
<1> HIDE DEF more
<1>c. PICK new : new = kept \o more
    OBVIOUS
<1>d. /\ new \in Seq(Lines) /\ Len(new) = Len(kept) + Len(more)
      /\ \A i \in 1..Len(kept) : new[i] = kept[i]
      /\ \A i \in 1..Len(more) : new[Len(kept) + i] = more[i]
    <2>1. kept \in Seq(Lines) /\ more \in Seq(Lines)
        BY <1>5, <1>8
    <2> QED
        BY <2>1, <1>c
<1>9. /\ new \in Seq(Lines) /\ Len(new) = Len(text) + n
      /\ \A i \in 1..Len(text) : new[i] = kept[i]
      /\ \A i \in 1..n : new[Len(text) + i] = more[i]
    BY <1>5, <1>8, <1>d
<1>10. \A i \in 1..Len(new) : i \in 1..Len(text) \/ \E j \in 1..n : i = Len(text) + j
    <2>1. ASSUME NEW i \in 1..Len(new), i \notin 1..Len(text) PROVE \E j \in 1..n : i = Len(text) + j
        <3>1. i - Len(text) \in 1..n /\ i = Len(text) + (i - Len(text))
            BY <1>3, <1>9, <2>1
        <3> QED
            BY <3>1
    <2> QED
        BY <2>1
<1>11. Distinct(new)
    <2>1. SUFFICES ASSUME NEW i \in 1..Len(new), NEW j \in 1..Len(new), new[i].key = new[j].key PROVE i = j
        BY DEF Distinct
    <2>2. CASE i \in 1..Len(text) /\ j \in 1..Len(text)
        BY <1>4, <1>9, <2>1, <2>2 DEF Distinct
    <2>3. ASSUME NEW a \in 1..Len(text), NEW b \in 1..n PROVE new[a].key # new[Len(text) + b].key
        <3>1. new[a].key = text[a].key
            BY <1>4, <1>9
        <3>2. new[Len(text) + b].key = added[b] /\ added[b] \in missing
            BY <1>7, <1>8, <1>9
        <3> QED
            BY <1>a, <3>1, <3>2
    <2>4. ASSUME NEW a \in 1..n, NEW b \in 1..n, new[Len(text) + a].key = new[Len(text) + b].key PROVE a = b
        <3>1. new[Len(text) + a].key = added[a] /\ new[Len(text) + b].key = added[b]
            BY <1>8, <1>9
        <3> QED
            BY <1>2, <2>4, <3>1
    <2> QED
        BY <1>10, <2>1, <2>2, <2>3, <2>4
<1>12. text # <<>> => new # <<>>
    BY <1>3, <1>9
<1>13. ASSUME NEW k \in G!Keys
       PROVE  G!Parse(new)[k] = IF k \in DOMAIN changes THEN changes[k] ELSE G!Parse(text)[k]
    <2>1. CASE \E i \in 1..Len(text) : text[i].key = k
        <3>1. PICK i \in 1..Len(text) : text[i].key = k
            BY <2>1
        <3>2. i \in 1..Len(new) /\ new[i].key = k
            BY <1>3, <1>4, <1>9, <3>1
        <3>3. G!Parse(new)[k] = new[i].value
            BY <1>9, <1>11, <3>2, ParseLine
        <3>4. G!Parse(text)[k] = text[i].value
            BY <3>1, ParseLine
        <3> QED
            BY <1>4, <1>9, <3>1, <3>3, <3>4
    <2>2. CASE k \in missing
        <3>1. PICK i \in 1..n : added[i] = k
            BY <1>2, <2>2
        <3>2. Len(text) + i \in 1..Len(new) /\ new[Len(text) + i].key = k /\ new[Len(text) + i].value = changes[k]
            BY <1>3, <1>8, <1>9, <3>1
        <3>3. G!Parse(new)[k] = changes[k]
            BY <1>9, <1>11, <3>2, ParseLine
        <3> QED
            BY <1>a, <2>2, <3>3
    <2>3. CASE k \notin DOMAIN changes /\ \A i \in 1..Len(text) : text[i].key # k
        <3>1. \A i \in 1..Len(text) : new[i].key # k
            BY <1>4, <1>9, <2>3
        <3>2. \A i \in 1..n : new[Len(text) + i].key # k
            <4>1. ASSUME NEW i \in 1..n PROVE new[Len(text) + i].key # k
                <5>1. new[Len(text) + i].key = added[i] /\ added[i] \in missing
                    BY <1>7, <1>8, <1>9
                <5> QED
                    BY <1>a, <2>3, <5>1
            <4> QED
                BY <4>1
        <3>3. \A i \in 1..Len(new) : new[i].key # k
            BY <1>10, <3>1, <3>2
        <3>4. G!Parse(new)[k] = G!None /\ G!Parse(text)[k] = G!None
            BY <1>9, <1>11, <2>3, <3>3, ParseLine
        <3> QED
            BY <2>3, <3>4
    <2> QED
        BY <1>a, <2>1, <2>2, <2>3
<1>14. G!Parse(new) = [k \in G!Keys |-> G!Parse(new)[k]]
    BY DEF G!Parse
<1> QED
    BY <1>0, <1>c, <1>9, <1>11, <1>12, <1>13, <1>14

-----------------------------------------------------------------------------
LEMMA AcceptedKeys ==
    ASSUME NEW changes
    PROVE  /\ DOMAIN G!Accepted(changes) \subseteq G!Editable
           /\ \A k \in DOMAIN G!Accepted(changes) : G!Accepted(changes)[k] \in G!Values
BY DEF G!Accepted

LEMMA ParseType == ASSUME NEW text \in Seq(Lines), Distinct(text) PROVE G!Parse(text) \in [G!Keys -> G!Values \cup {G!None}]
<1>1. \A k \in G!Keys : G!Parse(text)[k] \in G!Values \cup {G!None}
    BY ParseLine
<1>2. G!Parse(text) = [k \in G!Keys |-> G!Parse(text)[k]]
    BY DEF G!Parse
<1> QED
    BY <1>1, <1>2

FormType == [page : {"closed", "settings", "editor"}, was : Shown, now : Shown,
             text : Seq(Lines), opened : Seq(Lines)]
SaveType == [step : {"idle", "read", "write"}, changes : Sendable, text : Seq(Lines)]

LEMMA ClosedForm ==
    /\ G!Closed \in FormType /\ G!Closed.page = "closed" /\ Len(G!Closed.text) = 0
    /\ G!Idle \in SaveType /\ G!Idle.step = "idle"
<1>1. [k \in G!Editable |-> G!None] \in Shown
    BY DEF Shown, G!None
<1>2. <<>> \in Seq(Lines) /\ <<>> \in Sendable
    BY DEF Sendable
<1> QED
    BY <1>1, <1>2 DEF G!Closed, G!Idle, FormType, SaveType

LEMMA SettingsStarts == ASSUME G!GameSettingsAssumption, G!Init PROVE SettingsInv
<1>1. g_file \in Seq(Lines) /\ Len(g_file) = 0 /\ g_saves \in 0..G_MaxSaves
    BY DEF G!Init, G!GameSettingsAssumption
<1>2. \A t \in G_Tabs : g_form[t] = G!Closed /\ g_req[t] = G!Idle
    BY DEF G!Init
<1>3. SettingsKinds
    <2>1. g_form \in [G_Tabs -> FormType] /\ g_req \in [G_Tabs -> SaveType]
        BY ClosedForm DEF G!Init
    <2> QED
        BY <1>1, <2>1 DEF SettingsKinds, FormType, SaveType
<1>4. OneSave /\ \A t \in G_Tabs : SentSave(t)
    BY <1>2, ClosedForm DEF OneSave, SentSave
<1>5. Distinct(g_file) /\ Distinct(G!Closed.text)
    BY <1>1, ClosedForm DEF Distinct
<1>6. Texts
    BY <1>2, <1>5, ClosedForm DEF Texts
<1>7. g_told = G!Parse(g_file)
    <2>0. \A i \in 1..Len(g_file) : FALSE
        BY <1>1
    <2>1. \A k \in G!Keys : G!Parse(g_file)[k] = G!None
        BY <1>1, <1>5, <2>0, ParseLine
    <2>2. G!Parse(g_file) = [k \in G!Keys |-> G!Parse(g_file)[k]]
        BY DEF G!Parse
    <2>3. G!Parse(g_file) = [k \in G!Keys |-> G!None]
        BY <2>1, <2>2
    <2> QED
        BY <2>3 DEF G!Init
<1> QED
    BY <1>3, <1>4, <1>6, <1>7 DEF SettingsInv

\* A tab without a save under way shows another form.
LEMMA SettingsForms ==
    ASSUME SettingsInv, NEW t \in G_Tabs, g_req[t] = G!Idle, NEW f \in FormType,
           g_form' = [g_form EXCEPT ![t] = f], Distinct(f.text), f.page # "closed" => g_file # <<>>,
           f.page = "editor" => f.text # <<>>, UNCHANGED <<g_file, g_told, g_req, g_saves>>
    PROVE  SettingsInv'
<1>1. g_form \in [G_Tabs -> FormType]
    BY DEF SettingsInv, SettingsKinds, FormType
<1>2. g_form'[t] = f /\ (\A u \in G_Tabs : u # t => g_form'[u] = g_form[u]) /\ g_form' \in [G_Tabs -> FormType]
    BY <1>1
<1>3. SettingsKinds'
    BY <1>2 DEF SettingsInv, SettingsKinds, FormType
<1>4. OneSave' /\ g_told' = G!Parse(g_file')
    BY DEF SettingsInv, OneSave
<1>5. Texts'
    BY <1>2 DEF SettingsInv, Texts, Distinct
<1>6. ASSUME NEW u \in G_Tabs PROVE SentSave(u)'
    <2>1. CASE u = t
        BY <2>1, ClosedForm DEF SentSave
    <2>2. CASE u # t
        BY <1>2, <2>2 DEF SettingsInv, SentSave, G!Changed
    <2> QED
        BY <2>1, <2>2
<1> QED
    BY <1>3, <1>4, <1>5, <1>6 DEF SettingsInv

\* A save moves on: it is sent, or has read the file.
LEMMA SettingsSends ==
    ASSUME SettingsInv, NEW t \in G_Tabs, \A u \in G_Tabs : u # t => g_req[u] = G!Idle, NEW r \in SaveType,
           g_req' = [g_req EXCEPT ![t] = r], UNCHANGED <<g_file, g_told, g_form>>, g_saves' \in 0..G_MaxSaves,
           r.step = "read" => g_form[t].page = "settings" /\ r.changes = G!Changed(t),
           r.step = "write" =>
              \/ g_form[t].page = "settings" /\ r.text = G!Apply(g_file, G!Accepted(G!Changed(t)))
              \/ g_form[t].page = "editor" /\ r.text = g_form[t].text /\ g_form[t].opened = g_file
    PROVE  SettingsInv'
<1>1. g_req \in [G_Tabs -> SaveType]
    BY DEF SettingsInv, SettingsKinds, SaveType
<1>2. g_req'[t] = r /\ (\A u \in G_Tabs : u # t => g_req'[u] = G!Idle) /\ g_req' \in [G_Tabs -> SaveType]
    BY <1>1
<1>3. SettingsKinds'
    BY <1>2 DEF SettingsInv, SettingsKinds, SaveType
<1>4. OneSave' /\ g_told' = G!Parse(g_file')
    BY <1>2 DEF SettingsInv, OneSave
<1>5. Texts'
    BY DEF SettingsInv, Texts, Distinct
<1>6. ASSUME NEW u \in G_Tabs PROVE SentSave(u)'
    <2>1. CASE u = t
        BY <1>2, <2>1 DEF SentSave, G!Changed
    <2>2. CASE u # t
        BY <1>2, <2>2, ClosedForm DEF SentSave
    <2> QED
        BY <2>1, <2>2
<1> QED
    BY <1>3, <1>4, <1>5, <1>6 DEF SettingsInv

\* All saves have ended, with another file or the same.
LEMMA SettingsEnds ==
    ASSUME SettingsInv, \A t \in G_Tabs : g_req'[t] = G!Idle, g_req' \in [G_Tabs -> SaveType],
           g_form' \in [G_Tabs -> FormType], g_file' \in Seq(Lines), Distinct(g_file'), g_told' = G!Parse(g_file'),
           UNCHANGED g_saves,
           \A t \in G_Tabs : Distinct(g_form'[t].text) /\ (g_form'[t].page # "closed" => g_file' # <<>>),
           \A t \in G_Tabs : g_form'[t].page = "editor" => g_form'[t].text # <<>>
    PROVE  SettingsInv'
<1>1. SettingsKinds'
    BY DEF SettingsInv, SettingsKinds, FormType, SaveType
<1>2. OneSave' /\ \A t \in G_Tabs : SentSave(t)'
    BY ClosedForm DEF OneSave, SentSave
<1>3. Texts'
    BY DEF Texts, Distinct
<1> QED
    BY <1>1, <1>2, <1>3 DEF SettingsInv

LEMMA SettingsWrites ==
    ASSUME SettingsInv, NEW t \in G_Tabs, G!Write(t)
    PROVE  SettingsInv'
<1>1. /\ g_form \in [G_Tabs -> FormType] /\ g_req \in [G_Tabs -> SaveType] /\ g_form[t] \in FormType
      /\ g_file \in Seq(Lines) /\ Distinct(g_file) /\ g_told = G!Parse(g_file)
    BY DEF SettingsInv, SettingsKinds, Texts, FormType, SaveType
<1>2. /\ g_req[t].step = "write" /\ g_file' = g_req[t].text /\ g_req' = [g_req EXCEPT ![t] = G!Idle] /\ UNCHANGED g_saves
    BY DEF G!Write
<1>3. \A u \in G_Tabs : u # t => g_req[u] = G!Idle
    BY <1>2, ClosedForm DEF SettingsInv, OneSave
<1>4. (\A u \in G_Tabs : g_req'[u] = G!Idle) /\ g_req' \in [G_Tabs -> SaveType]
    BY <1>1, <1>2, <1>3, ClosedForm
<1>5. CASE g_form[t].page = "settings"
    <2>1. PICK entered : entered = G!Accepted(G!Changed(t))
        OBVIOUS
    <2>2. g_file' = G!Apply(g_file, entered)
        BY <1>2, <1>5, <2>1 DEF SettingsInv, SentSave
    <2>3. /\ DOMAIN entered \subseteq G!Editable /\ \A k \in DOMAIN entered : entered[k] \in G!Values
        BY <2>1, AcceptedKeys
    <2>4. /\ g_file' \in Seq(Lines) /\ Distinct(g_file') /\ (g_file # <<>> => g_file' # <<>>)
          /\ G!Parse(g_file') = [k \in G!Keys |-> IF k \in DOMAIN entered THEN entered[k] ELSE g_told[k]]
        BY <1>1, <2>2, <2>3, ApplyWrites
    <2>5. g_told' = [k \in G!Keys |-> IF k \in DOMAIN entered THEN entered[k] ELSE g_told[k]]
        BY <1>5, <2>1 DEF G!Write, G!Changed
    <2>6. g_form' = [g_form EXCEPT ![t].was = g_form[t].now]
        BY <1>5 DEF G!Write
    <2>7. /\ g_form' \in [G_Tabs -> FormType]
          /\ \A u \in G_Tabs : g_form'[u].page = g_form[u].page /\ g_form'[u].text = g_form[u].text
        BY <1>1, <2>6 DEF FormType
    <2>8. Distinct(g_form'[t].text) /\ g_file # <<>>
        BY <1>5, <2>7 DEF SettingsInv, Texts
    <2>9. \A u \in G_Tabs : Distinct(g_form'[u].text) /\ (g_form'[u].page # "closed" => g_file' # <<>>)
        BY <2>4, <2>7, <2>8 DEF SettingsInv, Texts
    <2>10. \A u \in G_Tabs : g_form'[u].page = "editor" => g_form'[u].text # <<>>
        BY <2>7 DEF SettingsInv, Texts
    <2> QED
        BY <1>2, <1>4, <2>4, <2>5, <2>7, <2>9, <2>10, SettingsEnds
<1>6. CASE g_form[t].page = "editor"
    <2>1. PICK new : new = g_form[t].text
        OBVIOUS
    <2>2. g_req[t].text = new /\ g_form[t].opened = g_file /\ new \in Seq(Lines) /\ Distinct(new) /\ new # <<>>
        BY <1>1, <1>2, <1>6, <2>1 DEF SettingsInv, SentSave, Texts, FormType
    <2>3. g_told' = [k \in G!Keys |-> IF G!Parse(g_file)[k] # G!Parse(new)[k] THEN G!Parse(new)[k] ELSE g_told[k]]
        BY <1>6, <2>2 DEF G!Write
    <2>4. g_told' = [k \in G!Keys |-> G!Parse(new)[k]]
        BY <1>1, <2>3
    <2>5. G!Parse(new) = [k \in G!Keys |-> G!Parse(new)[k]]
        BY DEF G!Parse
    <2>6. g_form' = [g_form EXCEPT ![t] = G!Closed]
        BY <1>6 DEF G!Write
    <2>7. g_form' \in [G_Tabs -> FormType] /\ g_form'[t] = G!Closed /\ \A u \in G_Tabs : u # t => g_form'[u] = g_form[u]
        BY <1>1, <2>6, ClosedForm
    <2>8. Distinct(G!Closed.text)
        BY ClosedForm DEF Distinct
    <2>9. \A u \in G_Tabs : Distinct(g_form'[u].text) /\ (g_form'[u].page # "closed" => g_file' # <<>>)
        BY <1>2, <2>2, <2>7, <2>8, ClosedForm DEF SettingsInv, Texts
    <2>10. \A u \in G_Tabs : g_form'[u].page = "editor" => g_form'[u].text # <<>>
        BY <2>7, ClosedForm DEF SettingsInv, Texts
    <2>11. g_file' = new /\ g_told' = G!Parse(g_file')
        BY <1>2, <2>2, <2>4, <2>5
    <2> QED
        BY <1>2, <1>4, <2>2, <2>7, <2>9, <2>10, <2>11, SettingsEnds
<1> QED
    BY <1>2, <1>5, <1>6 DEF SettingsInv, SentSave

LEMMA SettingsFirstStart ==
    ASSUME SettingsInv, G!FirstStart
    PROVE  SettingsInv'
<1>1. /\ g_file = <<>> /\ g_told' = G!Parse(g_file') /\ UNCHANGED <<g_form, g_req, g_saves>>
      /\ g_file' = <<G!Comment, [key |-> "motd", value |-> 1], [key |-> "port", value |-> 1]>>
    BY DEF G!FirstStart
<1>2. \A t \in G_Tabs : g_form[t].page = "closed"
    BY <1>1 DEF SettingsInv, Texts, SettingsKinds
<1>3. \A t \in G_Tabs : g_req[t].step = "idle"
    <2>1. \A t \in G_Tabs : g_req[t].step \in {"idle", "read", "write"}
        BY DEF SettingsInv, SettingsKinds
    <2> QED
        BY <1>2, <2>1 DEF SettingsInv, SentSave
<1>4. /\ G!Comment \in Lines /\ [key |-> "motd", value |-> 1] \in Lines
      /\ [key |-> "port", value |-> 1] \in Lines /\ G!Comment.key = "#"
    BY DEF Lines, G!Keys, G!Editable, G!Values, G!Comment
<1>5. g_file' \in Seq(Lines) /\ Len(g_file') = 3
    BY <1>1, <1>4
<1>6. g_file'[1].key = "#" /\ g_file'[2].key = "motd" /\ g_file'[3].key = "port"
    BY <1>1, <1>4
<1>7. Distinct(g_file')
    BY <1>5, <1>6 DEF Distinct
<1>8. SettingsKinds'
    BY <1>1, <1>5 DEF SettingsInv, SettingsKinds
<1>9. Texts'
    BY <1>1, <1>2, <1>7 DEF SettingsInv, Texts, Distinct
<1>10. OneSave' /\ \A t \in G_Tabs : SentSave(t)'
    BY <1>1, <1>3 DEF SettingsInv, OneSave, SentSave
<1> QED
    BY <1>1, <1>8, <1>9, <1>10 DEF SettingsInv

\* A text with as many keys as lines has each once.
Onto(f, n, ks) == f \in [1..n -> ks] /\ \A k \in ks : \E i \in 1..n : f[i] = k

LEMMA KeysOnce ==
    ASSUME NEW n \in Nat, NEW keys, NEW f, Onto(f, n, keys), G!Cardinality(keys) = n
    PROVE  OnceEach(f, n, keys)
<1>1. f \in Surjection(1..n, keys)
    BY DEF Surjection, Onto
<1>2. IsFiniteSet(1..n) /\ Cardinality(1..n) = n
    <2>1. 1 \in Int /\ n \in Int
        OBVIOUS
    <2> QED
        BY <2>1, FS_Interval
<1>3. Cardinality(keys) = n
    BY DEF G!Cardinality, Cardinality
<1>4. f \in Injection(1..n, keys)
    BY <1>1, <1>2, <1>3, FS_Surjection
<1> QED
    BY <1>4 DEF Injection, IsInjective, OnceEach

LEMMA TextOnce ==
    ASSUME NEW text \in Seq(Lines), G!Cardinality({text[i].key : i \in 1..Len(text)}) = Len(text)
    PROVE  Distinct(text)
<1>1. PICK n : n = Len(text)
    OBVIOUS
<1>2. PICK f : f = [i \in 1..n |-> text[i].key]
    OBVIOUS
<1>3. PICK keys : keys = {text[i].key : i \in 1..Len(text)}
    OBVIOUS
<1>4. n \in Nat
    BY <1>1, LengthType
<1>5. Onto(f, n, keys)
    BY <1>1, <1>2, <1>3 DEF Onto
<1>6. G!Cardinality(keys) = n
    BY <1>1, <1>3
<1>7. OnceEach(f, n, keys)
    BY <1>4, <1>5, <1>6, KeysOnce
<1> QED
    BY <1>1, <1>2, <1>7 DEF Distinct, OnceEach

\* What is left of a text without one of its lines.
LEMMA TextWithout ==
    ASSUME NEW text \in Seq(Lines), NEW i \in 1..Len(text)
    PROVE  G!RemoveAt(text, i) \in Seq(Lines)
<1>1. Len(text) \in Nat
    BY LengthType
<1>2. SubSeq(text, 1, i - 1) \in Seq(Lines)
    <2>1. \A j \in 1..(i - 1) : text[j] \in Lines
        BY <1>1
    <2> QED
        BY <1>1, <2>1
<1>3. SubSeq(text, i + 1, Len(text)) \in Seq(Lines)
    <2>1. \A j \in (i + 1)..Len(text) : text[j] \in Lines
        BY <1>1
    <2> QED
        BY <1>1, <2>1
<1> QED
    BY <1>2, <1>3 DEF G!RemoveAt

LEMMA EditType ==
    ASSUME NEW text \in Seq(Lines), NEW k \in G!Keys, NEW v \in G!Values, NEW new \in G!Edits(text, k, v)
    PROVE  new \in Seq(Lines)
<1>1. Len(text) \in Nat
    BY LengthType
<1>2. ASSUME NEW i \in 1..Len(text), text[i].key = k PROVE [text EXCEPT ![i].value = v] \in Seq(Lines)
    <2>1. text[i] \in Lines /\ text[i] # G!Comment
        BY <1>2 DEF G!Comment, G!Keys, G!Editable
    <2>2. text[i] \in [key : G!Keys, value : G!Values]
        BY <2>1 DEF Lines
    <2>3. [text[i] EXCEPT !.value = v] \in Lines
        BY <2>2 DEF Lines
    <2> QED
        BY <1>1, <2>3
<1>3. Append(text, [key |-> k, value |-> v]) \in Seq(Lines)
    <2>1. [key |-> k, value |-> v] \in Lines
        BY DEF Lines
    <2> QED
        BY <2>1
<1> QED
    BY <1>2, <1>3, TextWithout DEF G!Edits

LEMMA SettingsStep ==
    ASSUME G!GameSettingsAssumption, SettingsInv, G!Next \/ UNCHANGED G!vars
    PROVE  SettingsInv'
<1>0. /\ g_form \in [G_Tabs -> FormType] /\ g_req \in [G_Tabs -> SaveType] /\ g_file \in Seq(Lines)
      /\ Distinct(g_file) /\ G_MaxSaves \in Nat /\ g_saves \in 0..G_MaxSaves
    BY DEF SettingsInv, SettingsKinds, Texts, FormType, SaveType, G!GameSettingsAssumption
<1>1. ASSUME NEW t \in G_Tabs, G!Open(t) PROVE SettingsInv'
    <2>1. g_file # <<>> /\ g_req[t] = G!Idle /\ UNCHANGED <<g_file, g_told, g_req, g_saves>>
        BY <1>1 DEF G!Open
    <2>2. PICK shown : shown = [k \in G!Editable |-> G!Parse(g_file)[k]]
        OBVIOUS
    <2>3. shown \in Shown
        <3>1. \A k \in G!Editable : G!Parse(g_file)[k] \in 0..3
            BY <1>0, ParseLine DEF G!Keys, G!Values, G!None
        <3> QED
            BY <2>2, <3>1 DEF Shown
    <2>4. CASE g_form' = [g_form EXCEPT ![t] = [G!Closed EXCEPT !.page = "settings", !.was = shown, !.now = shown]]
        <3>1. PICK f : f = [G!Closed EXCEPT !.page = "settings", !.was = shown, !.now = shown]
            OBVIOUS
        <3>2. f \in FormType /\ f.page = "settings" /\ f.text = G!Closed.text
            BY <2>3, <3>1, ClosedForm DEF FormType
        <3>3. Distinct(f.text)
            BY <3>2, ClosedForm DEF Distinct
        <3> QED
            BY <2>1, <2>4, <3>1, <3>2, <3>3, SettingsForms
    <2>5. CASE g_form' = [g_form EXCEPT ![t] = [G!Closed EXCEPT !.page = "editor", !.text = g_file, !.opened = g_file]]
        <3>1. PICK f : f = [G!Closed EXCEPT !.page = "editor", !.text = g_file, !.opened = g_file]
            OBVIOUS
        <3>2. f \in FormType /\ f.page = "editor" /\ f.text = g_file
            BY <1>0, <3>1, ClosedForm DEF FormType
        <3> QED
            BY <1>0, <2>1, <2>5, <3>1, <3>2, SettingsForms
    <2> QED
        BY <1>1, <2>2, <2>4, <2>5 DEF G!Open
<1>2. ASSUME NEW t \in G_Tabs, NEW k \in G!Editable, NEW v \in G!Values \cup {G!Refused}, G!Enter(t, k, v)
      PROVE  SettingsInv'
    <2>1. PICK f : f = [g_form[t] EXCEPT !.now = [g_form[t].now EXCEPT ![k] = v]]
        OBVIOUS
    <2>2. [g_form[t].now EXCEPT ![k] = v] \in Shown
        BY <1>0 DEF FormType, Shown, G!Values, G!Refused
    <2>3. f \in FormType /\ f.page = g_form[t].page /\ f.text = g_form[t].text
        BY <1>0, <2>1, <2>2 DEF FormType
    <2>4. g_form' = [g_form EXCEPT ![t] = f]
        BY <1>2, <2>1 DEF G!Enter
    <2>5. Distinct(f.text) /\ (f.page # "closed" => g_file # <<>>) /\ (f.page = "editor" => f.text # <<>>)
        BY <2>3 DEF SettingsInv, Texts
    <2> QED
        BY <1>2, <2>3, <2>4, <2>5, SettingsForms DEF G!Enter
<1>3. ASSUME NEW t \in G_Tabs, G!Type(t) PROVE SettingsInv'
    <2>1. /\ g_form[t].page = "editor" /\ g_req[t] = G!Idle /\ UNCHANGED <<g_file, g_told, g_req, g_saves>>
        BY <1>3 DEF G!Type
    <2>2. PICK old : old = g_form[t].text
        OBVIOUS
    <2>3. PICK k \in G!Keys, v \in G!Values :
             \E new \in G!Edits(old, k, v) :
                /\ new # <<>>
                /\ G!Cardinality({new[i].key : i \in 1..Len(new)}) = Len(new)
                /\ g_form' = [g_form EXCEPT ![t].text = new]
        BY <1>3, <2>2 DEF G!Type
    <2>4. PICK new \in G!Edits(old, k, v) :
              /\ new # <<>>
              /\ G!Cardinality({new[i].key : i \in 1..Len(new)}) = Len(new)
              /\ g_form' = [g_form EXCEPT ![t].text = new]
        BY <2>3
    <2>5. old \in Seq(Lines) /\ Len(old) \in Nat
        BY <1>0, <2>2, LengthType DEF FormType
    <2>6. new \in Seq(Lines)
        BY <2>5, <2>4, EditType
    <2>7. Distinct(new)
        BY <2>6, <2>4, TextOnce
    <2>8. PICK f : f = [g_form[t] EXCEPT !.text = new]
        OBVIOUS
    <2>9. f \in FormType /\ f.page = g_form[t].page /\ f.text = new
        BY <1>0, <2>6, <2>8 DEF FormType
    <2>10. g_form' = [g_form EXCEPT ![t] = f]
        BY <2>8, <2>4
    <2>11. new # <<>> /\ g_file # <<>>
        BY <2>1, <2>4 DEF SettingsInv, Texts
    <2> QED
        BY <2>1, <2>7, <2>9, <2>10, <2>11, SettingsForms
<1>4. ASSUME NEW t \in G_Tabs, NEW r \in SaveType, G!Sends(t, r)
      PROVE  /\ \A u \in G_Tabs : u # t => g_req[u] = G!Idle
             /\ g_req' = [g_req EXCEPT ![t] = r] /\ g_saves' \in 0..G_MaxSaves
    BY <1>0, <1>4 DEF G!Sends, G!Alone
<1>5. ASSUME NEW t \in G_Tabs, G!Save(t) PROVE SettingsInv'
    <2>1. PICK r : r = [G!Idle EXCEPT !.step = "read", !.changes = G!Changed(t)]
        OBVIOUS
    <2>2. g_form[t].page = "settings" /\ G!Sends(t, r) /\ UNCHANGED <<g_file, g_told, g_form>>
        BY <1>5, <2>1 DEF G!Save
    <2>3. G!Changed(t) \in Sendable
        <3>1. PICK ks : ks = {k \in G!Editable : g_form[t].now[k] # g_form[t].was[k]}
            OBVIOUS
        <3>2. G!Changed(t) = [k \in ks |-> g_form[t].now[k]] /\ ks \in SUBSET G!Editable
            BY <3>1 DEF G!Changed
        <3>3. \A k \in ks : g_form[t].now[k] \in 0..3
            BY <1>0, <3>2 DEF FormType, Shown
        <3>4. G!Changed(t) \in [ks -> 0..3]
            BY <3>2, <3>3
        <3> QED
            BY <3>2, <3>4 DEF Sendable
    <2>4. r \in SaveType /\ r.step = "read" /\ r.changes = G!Changed(t)
        BY <2>1, <2>3, ClosedForm DEF SaveType
    <2> QED
        BY <1>4, <2>2, <2>4, SettingsSends
<1>6. ASSUME NEW t \in G_Tabs, G!SaveFile(t) PROVE SettingsInv'
    <2>1. PICK r : r = [G!Idle EXCEPT !.step = "write", !.text = g_form[t].text]
        OBVIOUS
    <2>2. g_form[t].page = "editor" /\ g_form[t].opened = g_file /\ G!Sends(t, r) /\ UNCHANGED <<g_file, g_told, g_form>>
        BY <1>6, <2>1 DEF G!SaveFile
    <2>3. r \in SaveType /\ r.step = "write" /\ r.text = g_form[t].text
        BY <1>0, <2>1, ClosedForm DEF SaveType, FormType
    <2> QED
        BY <1>4, <2>2, <2>3, SettingsSends
<1>7. ASSUME NEW t \in G_Tabs, G!Read(t) PROVE SettingsInv'
    <2>1. PICK r : r = [g_req[t] EXCEPT !.step = "write", !.text = G!Apply(g_file, G!Accepted(g_req[t].changes))]
        OBVIOUS
    <2>2. /\ g_req[t].step = "read" /\ g_req' = [g_req EXCEPT ![t] = r] /\ UNCHANGED <<g_file, g_told, g_form, g_saves>>
        BY <1>7, <2>1 DEF G!Read
    <2>3. g_form[t].page = "settings" /\ g_req[t].changes = G!Changed(t)
        BY <2>2 DEF SettingsInv, SentSave
    <2>4. G!Apply(g_file, G!Accepted(g_req[t].changes)) \in Seq(Lines)
        BY <1>0, AcceptedKeys, ApplyWrites
    <2>5. r \in SaveType /\ r.step = "write" /\ r.text = G!Apply(g_file, G!Accepted(G!Changed(t)))
        BY <1>0, <2>1, <2>3, <2>4 DEF SaveType
    <2>6. \A u \in G_Tabs : u # t => g_req[u] = G!Idle
        BY <2>2, ClosedForm DEF SettingsInv, OneSave
    <2> QED
        BY <1>0, <2>2, <2>3, <2>5, <2>6, SettingsSends
<1>8. ASSUME NEW t \in G_Tabs, G!Fail(t) PROVE SettingsInv'
    <2>1. g_req[t] # G!Idle /\ g_req' = [g_req EXCEPT ![t] = G!Idle] /\ UNCHANGED <<g_file, g_told, g_form, g_saves>>
        BY <1>8 DEF G!Fail
    <2>2. \A u \in G_Tabs : u # t => g_req[u] = G!Idle
        BY <2>1 DEF SettingsInv, OneSave
    <2> QED
        BY <1>0, <2>1, <2>2, ClosedForm, SettingsSends
<1>9. CASE UNCHANGED G!vars
    <2>1. UNCHANGED <<g_file, g_told, g_form, g_req, g_saves>>
        BY <1>9 DEF G!vars
    <2>2. SettingsKinds' /\ OneSave'
        BY <2>1 DEF SettingsInv, SettingsKinds, OneSave
    <2>3. Texts'
        BY <2>1 DEF SettingsInv, Texts, Distinct
    <2>4. \A t \in G_Tabs : SentSave(t)'
        BY <2>1 DEF SettingsInv, SentSave, G!Changed
    <2>5. g_told' = G!Parse(g_file')
        BY <2>1 DEF SettingsInv
    <2> QED
        BY <2>2, <2>3, <2>4, <2>5 DEF SettingsInv
<1> QED
    BY <1>1, <1>2, <1>3, <1>5, <1>6, <1>7, <1>8, <1>9, SettingsWrites, SettingsFirstStart DEF G!Next

LEMMA SettingsTyped == ASSUME SettingsInv PROVE G!TypeOK /\ G!SavedStays
<1>1. /\ g_file \in Seq(Lines) /\ g_saves \in 0..G_MaxSaves /\ g_told \in [G!Keys -> G!Values \cup {G!None}]
      /\ \A t \in G_Tabs : g_form[t] \in FormType /\ g_req[t] \in SaveType
    BY ParseType DEF SettingsInv, SettingsKinds, Texts, FormType, SaveType
<1>2. ASSUME NEW text \in Seq(Lines), NEW i \in 1..Len(text)
      PROVE  text[i] = G!Comment \/ (text[i].key \in G!Keys /\ text[i].value \in G!Values)
    <2>1. text[i] \in Lines
        BY <1>2
    <2> QED
        BY <2>1 DEF Lines
<1>3. ASSUME NEW t \in G_Tabs
      PROVE  /\ g_form[t].text \in Seq(Lines) /\ g_req[t].text \in Seq(Lines)
             /\ g_form[t].page \in {"closed", "settings", "editor"}
    BY <1>1 DEF FormType, SaveType
<1>4. G!TypeOK
    BY <1>1, <1>2, <1>3 DEF G!TypeOK
<1>5. G!SavedStays
    BY DEF SettingsInv, G!SavedStays
<1> QED
    BY <1>4, <1>5

-----------------------------------------------------------------------------
(* Startup: requests take their turns, and the one under way was sent from  *)
(* a form that shows the row.                                               *)

Environment == {e \in [V!Variables -> {"1.20", "1.21", "PAPER", "SPIGOT", "TRUE"}] :
                   \A k \in V!Variables : e[k] \in V!ValuesOf(k)}

StartupKinds ==
    /\ v_environment \in Environment /\ v_env \in Environment
    /\ v_form \in [V_Tabs -> [open : BOOLEAN, was : Environment, now : Environment]]
    /\ v_req \in [V_Tabs -> [step : {"idle", "read", "write", "fetch"}, values : Environment,
                         dir : {"none", "/plugins", "/mods"}]]
    /\ v_saves \in 0..V_MaxSaves /\ v_mods \subseteq {"/plugins"}

OneRequest == \A t, u \in V_Tabs : v_req[t] # V!Idle /\ v_req[u] # V!Idle => t = u

SentForm(t) ==
    /\ v_req[t].step = "read" => v_req[t].values = v_form[t].now
    /\ v_req[t].step = "write" => v_req[t].values = V!Merge(v_environment, v_form[t].now)
    /\ v_req[t].step \in {"read", "write"} => v_form[t].was = v_environment
    /\ v_req[t].step = "fetch" => v_req[t].dir = "/plugins"

StartupInv ==
    /\ StartupKinds /\ v_up \in BOOLEAN /\ v_told = v_environment
    /\ OneRequest /\ \A t \in V_Tabs : SentForm(t)

LEMMA SlotsKnown == ASSUME NEW e \in Environment PROVE V!Slots(e) = {"/plugins"}
BY DEF Environment, V!Variables, V!Editable, V!ValuesOf, V!Software, V!Slots

LEMMA DefaultProper == V!Default \in Environment
<1>1. \A k \in V!Variables : V!Default[k] \in V!ValuesOf(k)
    BY DEF V!Default, V!Variables, V!Editable, V!ValuesOf, V!Software
<1>2. V!Default \in [V!Variables -> {"1.20", "1.21", "PAPER", "SPIGOT", "TRUE"}]
    BY DEF V!Default
<1> QED
    BY <1>1, <1>2 DEF Environment

LEMMA IdleIs == V!Idle = [step |-> "idle", values |-> V!Default, dir |-> "none"] /\ V!Idle.step = "idle"
BY DEF V!Idle

LEMMA MergeProper ==
    ASSUME NEW d \in Environment, NEW e \in Environment
    PROVE  V!Merge(d, e) = e /\ V!Merge(d, e) \in Environment
<1>1. \A k \in V!Variables : V!Merge(d, e)[k] = IF k \in V!Editable THEN e[k] ELSE d[k]
    BY DEF V!Merge
<1>2. d["EULA"] = "TRUE" /\ e["EULA"] = "TRUE"
    BY DEF Environment, V!Variables, V!Editable, V!ValuesOf
<1>3. \A k \in V!Variables : V!Merge(d, e)[k] = e[k]
    BY <1>1, <1>2 DEF V!Variables
<1>4. V!Merge(d, e) = [k \in V!Variables |-> e[k]]
    BY <1>3 DEF V!Merge
<1>5. e = [k \in V!Variables |-> e[k]]
    BY DEF Environment
<1> QED
    BY <1>4, <1>5

LEMMA StartupStarts == ASSUME V!StartupAssumption, V!Init PROVE StartupInv
<1>1. v_environment \in Environment /\ v_env \in Environment /\ v_saves \in 0..V_MaxSaves /\ v_mods = {}
    BY DefaultProper DEF V!Init, V!StartupAssumption
<1>2. \A t \in V_Tabs : v_req[t] = V!Idle
    BY DEF V!Init
<1>3. V!Idle.step = "idle" /\ V!Idle \in [step : {"idle", "read", "write", "fetch"},
          values : Environment, dir : {"none", "/plugins", "/mods"}]
    BY DefaultProper DEF V!Idle
<1>4. v_form \in [V_Tabs -> [open : BOOLEAN, was : Environment, now : Environment]]
    <2>1. [open |-> FALSE, was |-> V!Default, now |-> V!Default]
              \in [open : BOOLEAN, was : Environment, now : Environment]
        BY DefaultProper
    <2> QED
        BY <2>1 DEF V!Init
<1>5. v_req \in [V_Tabs -> [step : {"idle", "read", "write", "fetch"}, values : Environment,
                        dir : {"none", "/plugins", "/mods"}]]
    BY <1>3 DEF V!Init
<1>6. StartupKinds
    BY <1>1, <1>4, <1>5 DEF StartupKinds
<1>7. v_up \in BOOLEAN /\ v_told = v_environment
    BY DEF V!Init
<1>8. OneRequest /\ \A t \in V_Tabs : SentForm(t)
    BY <1>2, <1>3 DEF OneRequest, SentForm
<1> QED
    BY <1>6, <1>7, <1>8 DEF StartupInv

\* What a tab sends, it sends alone.
LEMMA SendsAlone ==
    ASSUME V!StartupAssumption, StartupInv, NEW t \in V_Tabs,
           NEW r \in [step : {"idle", "read", "write", "fetch"}, values : Environment,
                      dir : {"none", "/plugins", "/mods"}],
           V!Sends(t, r), UNCHANGED <<v_environment, v_env, v_told, v_form, v_up, v_mods>>,
           r.step = "read" => r.values = v_form[t].now /\ v_form[t].was = v_environment,
           r.step # "write", r.step = "fetch" => r.dir = "/plugins"
    PROVE  StartupInv'
<1>1. /\ \A u \in V_Tabs : v_req[u] = V!Idle
      /\ v_req' = [v_req EXCEPT ![t] = r] /\ v_saves' = v_saves + 1 /\ v_saves < V_MaxSaves
    BY DEF V!Sends, V!Alone
<1>2. V_MaxSaves \in Nat /\ v_saves \in 0..V_MaxSaves
    BY DEF V!StartupAssumption, StartupInv, StartupKinds
<1>3. StartupKinds'
    BY <1>1, <1>2 DEF StartupInv, StartupKinds
<1>4. v_req'[t] = r /\ \A u \in V_Tabs : u # t => v_req'[u] = V!Idle
    BY <1>1 DEF StartupInv, StartupKinds
<1>5. OneRequest'
    BY <1>4 DEF OneRequest
<1>6. V!Idle.step = "idle"
    BY DEF V!Idle
<1>7. \A u \in V_Tabs : SentForm(u)'
    BY <1>4, <1>6 DEF SentForm
<1> QED
    BY <1>3, <1>5, <1>7 DEF StartupInv

\* A request ends, with the row and the form as they were.
LEMMA StartupEnds ==
    ASSUME StartupInv, NEW t \in V_Tabs, V!Done(t),
           UNCHANGED <<v_environment, v_env, v_told, v_form, v_up, v_saves>>, v_mods' \subseteq {"/plugins"}
    PROVE  StartupInv'
<1>1. v_req' = [v_req EXCEPT ![t] = V!Idle]
    BY DEF V!Done
<1>2. V!Idle.step = "idle" /\ V!Idle \in [step : {"idle", "read", "write", "fetch"},
          values : Environment, dir : {"none", "/plugins", "/mods"}]
    BY DefaultProper DEF V!Idle
<1>3. StartupKinds'
    BY <1>1, <1>2 DEF StartupInv, StartupKinds
<1>4. v_req'[t] = V!Idle /\ \A u \in V_Tabs : u # t => v_req'[u] = v_req[u]
    BY <1>1 DEF StartupInv, StartupKinds
<1>5. OneRequest'
    BY <1>4 DEF OneRequest, StartupInv
<1>6. \A u \in V_Tabs : SentForm(u)'
    BY <1>2, <1>4 DEF SentForm, StartupInv
<1> QED
    BY <1>3, <1>5, <1>6 DEF StartupInv

\* A form without a request changes.
LEMMA StartupForms ==
    ASSUME StartupInv, NEW t \in V_Tabs, v_req[t] = V!Idle,
           NEW f \in [open : BOOLEAN, was : Environment, now : Environment],
           v_form' = [v_form EXCEPT ![t] = f],
           UNCHANGED <<v_environment, v_env, v_told, v_req, v_up, v_mods, v_saves>>
    PROVE  StartupInv'
<1>1. StartupKinds'
    BY DEF StartupInv, StartupKinds
<1>2. OneRequest'
    BY DEF StartupInv, OneRequest
<1>3. V!Idle.step = "idle"
    BY DEF V!Idle
<1>4. v_form'[t] = f /\ \A u \in V_Tabs : u # t => v_form'[u] = v_form[u]
    BY DEF StartupInv, StartupKinds
<1>5. \A u \in V_Tabs : SentForm(u)'
    BY <1>3, <1>4 DEF SentForm, StartupInv
<1> QED
    BY <1>1, <1>2, <1>5 DEF StartupInv

LEMMA StartupWrites ==
    ASSUME StartupInv, NEW t \in V_Tabs, V!Write(t)
    PROVE  StartupInv'
<1>1. /\ v_req[t].step = "write" /\ v_environment' = v_req[t].values
      /\ v_told' = [k \in V!Variables |-> IF v_form[t].now[k] # v_form[t].was[k] THEN v_form[t].now[k] ELSE v_told[k]]
      /\ v_form' = [v_form EXCEPT ![t].was = v_form[t].now]
      /\ v_req' = [v_req EXCEPT ![t] = V!Idle]
      /\ UNCHANGED <<v_env, v_up, v_mods, v_saves>>
    BY DEF V!Write, V!Done
<1>2. v_form[t] \in [open : BOOLEAN, was : Environment, now : Environment] /\ v_environment \in Environment
    BY DEF StartupInv, StartupKinds
<1>3. v_form[t].was = v_environment /\ v_req[t].values = V!Merge(v_environment, v_form[t].now)
    BY <1>1 DEF StartupInv, SentForm
<1>4. v_environment' = v_form[t].now /\ v_environment' \in Environment
    BY <1>1, <1>2, <1>3, MergeProper
<1>5. v_told' = [k \in V!Variables |-> v_form[t].now[k]]
    <2>1. v_told = v_form[t].was
        BY <1>3 DEF StartupInv
    <2> QED
        BY <2>1, <1>1
<1>6. v_form[t].now = [k \in V!Variables |-> v_form[t].now[k]]
    BY <1>2 DEF Environment
<1>7. V!Idle.step = "idle" /\ V!Idle # v_req[t] /\ V!Idle \in [step : {"idle", "read", "write", "fetch"},
          values : Environment, dir : {"none", "/plugins", "/mods"}]
    BY <1>1, DefaultProper DEF V!Idle
<1>8. StartupKinds'
    BY <1>1, <1>2, <1>4, <1>7 DEF StartupInv, StartupKinds
<1>9. \A u \in V_Tabs : v_req'[u] = V!Idle
    BY <1>1, <1>7 DEF StartupInv, StartupKinds, OneRequest
<1>10. OneRequest' /\ \A u \in V_Tabs : SentForm(u)'
    BY <1>9, <1>7 DEF OneRequest, SentForm
<1>11. v_up' \in BOOLEAN
    BY <1>1 DEF StartupInv
<1> QED
    BY <1>4, <1>5, <1>6, <1>8, <1>10, <1>11 DEF StartupInv

LEMMA StartupStep ==
    ASSUME V!StartupAssumption, StartupInv, V!Next \/ UNCHANGED V!vars
    PROVE  StartupInv'
<1>0. /\ v_environment \in Environment /\ V!Slots(v_environment) = {"/plugins"}
      /\ \A t \in V_Tabs : v_form[t] \in [open : BOOLEAN, was : Environment, now : Environment]
    BY SlotsKnown DEF StartupInv, StartupKinds
<1>1. ASSUME NEW t \in V_Tabs, V!Open(t) PROVE StartupInv'
    <2>1. [open |-> TRUE, was |-> v_environment, now |-> v_environment]
              \in [open : BOOLEAN, was : Environment, now : Environment]
        BY <1>0
    <2> QED
        BY <2>1, <1>1, StartupForms DEF V!Open
<1>2. ASSUME NEW t \in V_Tabs, NEW k \in V!Editable, NEW v \in V!ValuesOf(k), V!Enter(t, k, v) PROVE StartupInv'
    <2> DEFINE f == [v_form[t] EXCEPT !.now = [v_form[t].now EXCEPT ![k] = v]]
    <2>1. k \in V!Variables /\ v \in {"1.20", "1.21", "PAPER", "SPIGOT", "TRUE"}
        BY DEF V!Variables, V!ValuesOf, V!Software
    <2>2. [v_form[t].now EXCEPT ![k] = v] \in Environment
        BY <1>0, <2>1 DEF Environment
    <2>3. f \in [open : BOOLEAN, was : Environment, now : Environment]
        BY <1>0, <2>2
    <2>4. v_form' = [v_form EXCEPT ![t] = f]
        BY <1>2 DEF V!Enter
    <2> QED
        BY <2>3, <2>4, <1>2, StartupForms DEF V!Enter
<1>3. ASSUME NEW t \in V_Tabs, V!Save(t) PROVE StartupInv'
    <2> DEFINE r == [V!Idle EXCEPT !.step = "read", !.values = v_form[t].now]
    <2>1. v_form[t].was = v_environment /\ V!Sends(t, r) /\ UNCHANGED <<v_environment, v_env, v_told, v_form, v_up, v_mods>>
        BY <1>3 DEF V!Save
    <2>2. V!Idle \in [step : {"idle"}, values : Environment, dir : {"none"}]
        BY IdleIs, DefaultProper
    <2>3. r \in [step : {"idle", "read", "write", "fetch"}, values : Environment,
                 dir : {"none", "/plugins", "/mods"}]
        BY <2>2, <1>0
    <2>4. r.step = "read" /\ r.values = v_form[t].now
        BY <2>2
    <2> HIDE DEF r
    <2> QED
        BY <2>1, <2>3, <2>4, SendsAlone
<1>4. ASSUME NEW t \in V_Tabs, NEW dir \in {"/plugins", "/mods"}, V!Install(t, dir) PROVE StartupInv'
    <2> DEFINE r == [V!Idle EXCEPT !.step = "fetch", !.dir = dir]
    <2>1. dir = "/plugins" /\ V!Sends(t, r) /\ UNCHANGED <<v_environment, v_env, v_told, v_form, v_up, v_mods>>
        BY <1>0, <1>4 DEF V!Install
    <2>2. V!Idle \in [step : {"idle"}, values : Environment, dir : {"none"}]
        BY IdleIs, DefaultProper
    <2>3. r \in [step : {"idle", "read", "write", "fetch"}, values : Environment,
                 dir : {"none", "/plugins", "/mods"}]
        BY <2>2
    <2>4. r.step = "fetch" /\ r.dir = "/plugins"
        BY <2>1, <2>2
    <2> HIDE DEF r
    <2> QED
        BY <2>1, <2>3, <2>4, SendsAlone
<1>5. ASSUME NEW t \in V_Tabs, V!Read(t) PROVE StartupInv'
    <2>1. /\ v_req[t].step = "read" /\ UNCHANGED <<v_environment, v_env, v_told, v_form, v_up, v_mods, v_saves>>
          /\ v_req' = [v_req EXCEPT ![t].step = "write", ![t].values = V!Merge(v_environment, v_req[t].values)]
        BY <1>5 DEF V!Read
    <2>2. v_req[t].values = v_form[t].now /\ v_form[t].was = v_environment
        BY <2>1 DEF StartupInv, SentForm
    <2>3. V!Merge(v_environment, v_form[t].now) \in Environment
        BY <1>0, MergeProper
    <2>4. PICK m : m = V!Merge(v_environment, v_form[t].now)
        OBVIOUS
    <2>5. PICK r : r = [v_req[t] EXCEPT !.step = "write", !.values = m]
        OBVIOUS
    <2>6. PICK kind : kind = [step : {"idle", "read", "write", "fetch"}, values : Environment,
                               dir : {"none", "/plugins", "/mods"}]
        OBVIOUS
    <2>7. v_req \in [V_Tabs -> kind] /\ v_req[t] \in kind
        BY <2>6 DEF StartupInv, StartupKinds
    <2>8. r \in kind /\ r.step = "write" /\ r.values = m
        BY <2>3, <2>4, <2>5, <2>6, <2>7
    <2>9. v_req' = [v_req EXCEPT ![t] = r]
        BY <2>1, <2>2, <2>4, <2>5, <2>7
    <2>10. v_req' \in [V_Tabs -> kind] /\ v_req'[t] = r /\ \A u \in V_Tabs : u # t => v_req'[u] = v_req[u]
        BY <2>7, <2>8, <2>9
    <2>11. StartupKinds'
        BY <2>1, <2>6, <2>10 DEF StartupInv, StartupKinds
    <2>12. /\ v_req'[t].step = "write" /\ v_req'[t].values = V!Merge(v_environment, v_form[t].now)
           /\ \A u \in V_Tabs : u # t => v_req'[u] = v_req[u]
        BY <2>4, <2>8, <2>10
    <2>13. v_req[t] # V!Idle /\ v_req'[t] # V!Idle
        BY <2>1, <2>12, IdleIs
    <2>14. OneRequest'
        BY <2>12, <2>13 DEF OneRequest, StartupInv
    <2>15. \A u \in V_Tabs : SentForm(u)'
        BY <2>1, <2>2, <2>12 DEF SentForm, StartupInv
    <2> QED
        BY <2>1, <2>11, <2>14, <2>15 DEF StartupInv
<1>6. ASSUME NEW t \in V_Tabs, V!Fetch(t) PROVE StartupInv'
    <2>1. v_req[t].dir = "/plugins"
        BY <1>6 DEF V!Fetch, StartupInv, SentForm
    <2>2. v_mods' \subseteq {"/plugins"}
        BY <1>6, <2>1 DEF V!Fetch, StartupInv, StartupKinds
    <2> QED
        BY <1>6, <2>2, StartupEnds DEF V!Fetch
<1>7. ASSUME NEW t \in V_Tabs, NEW dir \in {"/plugins", "/mods"}, V!Remove(t, dir) PROVE StartupInv'
    <2>1. UNCHANGED <<v_environment, v_env, v_told, v_form, v_req, v_up, v_saves>> /\ v_mods' \subseteq v_mods
        BY <1>7 DEF V!Remove
    <2>2. StartupKinds'
        BY <2>1 DEF StartupInv, StartupKinds
    <2> QED
        BY <2>1, <2>2 DEF StartupInv, OneRequest, SentForm
<1>8. CASE V!Start \/ V!Stop \/ V!Rebuild \/ UNCHANGED V!vars
    <2>1. UNCHANGED <<v_environment, v_told, v_form, v_req, v_mods, v_saves>> /\ v_env' \in {v_env, v_environment}
        BY <1>8 DEF V!Start, V!Stop, V!Rebuild, V!vars
    <2>2. StartupKinds'
        BY <2>1 DEF StartupInv, StartupKinds
    <2>3. v_up' \in BOOLEAN
        <3>1. v_up' = TRUE \/ v_up' = FALSE \/ v_up' = v_up
            BY <1>8 DEF V!Start, V!Stop, V!Rebuild, V!vars
        <3>2. v_up \in BOOLEAN
            BY DEF StartupInv
        <3> QED
            BY <3>1, <3>2
    <2> QED
        BY <2>1, <2>2, <2>3 DEF StartupInv, OneRequest, SentForm
<1> QED
    BY <1>1, <1>2, <1>3, <1>4, <1>5, <1>6, <1>7, StartupWrites, <1>8 DEF V!Next

LEMMA StartupTyped == StartupInv => V!TypeOK /\ V!SavedStays
<1> SUFFICES ASSUME StartupInv PROVE V!TypeOK /\ V!SavedStays
    OBVIOUS
<1>1. /\ \A k \in V!Variables : v_environment[k] \in V!ValuesOf(k) /\ v_env[k] \in V!ValuesOf(k)
      /\ v_told = v_environment /\ V!Slots(v_environment) = {"/plugins"}
    BY SlotsKnown DEF StartupInv, StartupKinds, Environment
<1>2. \A k \in V!Variables : {v_environment[k], v_env[k], v_told[k]} \subseteq V!ValuesOf(k)
    BY <1>1
<1>3. /\ v_mods \subseteq {"/plugins"} /\ v_saves \in 0..V_MaxSaves
      /\ \A t \in V_Tabs : v_req[t].step \in {"idle", "read", "write", "fetch"}
    BY DEF StartupInv, StartupKinds
<1>4. v_up \in BOOLEAN
    BY DEF StartupInv
<1>5. V!TypeOK
    BY <1>2, <1>3, <1>4 DEF V!TypeOK
<1> QED
    BY <1>1, <1>3, <1>5 DEF V!SavedStays

-----------------------------------------------------------------------------
(* Login: whoever finds the counter without a time to live is the request   *)
(* that made it, and that one is about to give it its time.                 *)

LoginRequests ==
    l_req \in [L_Requests -> [step : {"idle", "expire", "judge", "clear", "session"},
                          number : 0..L_MaxAttempts]]

LoginInv ==
    /\ l_attempts \in 0..L_MaxAttempts /\ l_expires \in BOOLEAN /\ l_session \subseteq L_Requests
    /\ LoginRequests /\ L!KeyRunsOut

LEMMA LoginStarts == ASSUME L!LoginAssumption, L!Init PROVE LoginInv
<1>1. L_MaxAttempts \in Nat
    BY DEF L!LoginAssumption
<1>2. l_attempts \in 0..L_MaxAttempts /\ l_session \subseteq L_Requests
    BY <1>1 DEF L!Init
<1>3. l_expires \in BOOLEAN
    BY DEF L!Init
<1>4. LoginRequests
    BY <1>1 DEF L!Init, L!Idle, LoginRequests
<1>5. L!KeyRunsOut
    BY DEF L!Init, L!KeyRunsOut
<1> QED
    BY <1>2, <1>3, <1>4, <1>5 DEF LoginInv

\* A request that is not about to set the time to live changes nothing by moving on.
LEMMA LoginElsewhere ==
    ASSUME LoginInv, NEW r \in L_Requests, ~L!At(r, "expire"),
           \A q \in L_Requests : q # r => l_req'[q] = l_req[q],
           UNCHANGED <<l_attempts, l_expires>>
    PROVE  L!KeyRunsOut'
BY DEF LoginInv, L!KeyRunsOut, L!At

LEMMA LoginCounts ==
    ASSUME L!LoginAssumption, LoginInv, NEW r \in L_Requests, L!Count(r) \/ L!SetExpiry(r)
    PROVE  LoginInv'
<1>0. L_MaxAttempts \in Nat /\ l_attempts \in 0..L_MaxAttempts /\ LoginRequests
    BY DEF L!LoginAssumption, LoginInv
<1>1. CASE L!Count(r)
    <2>1. l_attempts' \in 0..L_MaxAttempts /\ l_attempts' > 0 /\ l_attempts' = l_attempts + 1
        BY <1>0, <1>1 DEF L!Count
    <2>2. l_expires' \in BOOLEAN /\ l_session' \subseteq L_Requests
        BY <1>1 DEF L!Count, LoginInv
    <2>3. LoginRequests'
        BY <1>0, <2>1, <1>1 DEF L!Count, LoginRequests
    <2>4. L!KeyRunsOut'
        <3>1. CASE l_attempts = 0
            <4>1. l_req'[r].step = "expire"
                BY <1>0, <2>1, <1>1, <3>1 DEF L!Count, L!First, LoginRequests
            <4> QED
                BY <4>1 DEF L!KeyRunsOut, L!At
        <3>2. CASE l_attempts # 0
            <4>1. l_expires \/ \E q \in L_Requests : L!At(q, "expire")
                BY <1>0, <3>2 DEF LoginInv, L!KeyRunsOut
            <4>2. \A q \in L_Requests : L!At(q, "expire") => L!At(q, "expire")'
                BY <1>0, <1>1 DEF L!Count, L!At, LoginRequests
            <4>3. l_expires' = l_expires
                BY <1>1 DEF L!Count
            <4> QED
                BY <4>1, <4>2, <4>3 DEF L!KeyRunsOut
        <3> QED
            BY <3>1, <3>2
    <2> QED
        BY <2>1, <2>2, <2>3, <2>4 DEF LoginInv
<1>2. CASE L!SetExpiry(r)
    <2>1. UNCHANGED <<l_attempts, l_session>> /\ (l_expires' <=> l_attempts > 0)
        BY <1>2 DEF L!SetExpiry
    <2>2. LoginRequests'
        BY <1>0, <1>2 DEF L!SetExpiry, L!Goes, LoginRequests
    <2>3. L!KeyRunsOut'
        BY <2>1 DEF L!KeyRunsOut
    <2>4. l_expires' \in BOOLEAN
        BY <1>2 DEF L!SetExpiry
    <2> QED
        BY <2>1, <2>2, <2>3, <2>4 DEF LoginInv
<1> QED
    BY <1>1, <1>2

LEMMA LoginMovesOn ==
    ASSUME L!LoginAssumption, LoginInv, NEW r \in L_Requests,
           \/ L!Refuse(r) \/ L!Verify(r) \/ L!Clear(r) \/ L!CreateSession(r) \/ L!SignOut(r) \/ L!Fails(r)
    PROVE  LoginInv'
<1>0. L_MaxAttempts \in Nat /\ LoginRequests
    BY DEF L!LoginAssumption, LoginInv
<1>1. LoginRequests'
    BY <1>0 DEF L!Refuse, L!Verify, L!Clear, L!CreateSession, L!SignOut, L!Fails, L!Goes, L!Ends, L!Idle, LoginRequests
<1>2. l_session' \subseteq L_Requests
    BY DEF LoginInv, L!Refuse, L!Verify, L!Clear, L!CreateSession, L!SignOut, L!Fails
<1>3. CASE L!Clear(r)
    <2>1. l_attempts' = 0 /\ l_expires' = FALSE
        BY <1>3 DEF L!Clear
    <2>2. L!KeyRunsOut' /\ l_attempts' \in 0..L_MaxAttempts
        BY <1>0, <2>1 DEF L!KeyRunsOut
    <2> QED
        BY <1>1, <1>2, <2>1, <2>2 DEF LoginInv
<1>4. CASE ~L!Clear(r)
    <2>1. UNCHANGED <<l_attempts, l_expires>>
        BY <1>4 DEF L!Refuse, L!Verify, L!CreateSession, L!SignOut, L!Fails, L!key
    <2>2. \A q \in L_Requests : q # r => l_req'[q] = l_req[q]
        BY <1>0, <1>4 DEF L!Refuse, L!Verify, L!CreateSession, L!SignOut, L!Fails, L!Goes, L!Ends, LoginRequests
    <2>3. L!KeyRunsOut'
        <3>1. CASE L!SignOut(r)
            BY <2>1, <3>1 DEF L!SignOut, LoginInv, L!KeyRunsOut, L!At
        <3>2. CASE ~L!SignOut(r)
            <4>1. ~L!At(r, "expire")
                BY <1>4, <3>2 DEF L!Refuse, L!Verify, L!CreateSession, L!Fails, L!At
            <4> QED
                BY <2>1, <2>2, <4>1, LoginElsewhere
        <3> QED
            BY <3>1, <3>2
    <2> QED
        BY <1>1, <1>2, <2>1, <2>3 DEF LoginInv
<1> QED
    BY <1>3, <1>4

LEMMA LoginStep ==
    ASSUME L!LoginAssumption, LoginInv, L!Next \/ UNCHANGED L!vars
    PROVE  LoginInv'
<1>0. L_MaxAttempts \in Nat
    BY DEF L!LoginAssumption
<1>1. CASE L!Next
    <2>1. CASE L!Expire
        <3>1. l_attempts' = 0 /\ l_expires' = FALSE /\ UNCHANGED <<l_req, l_session>>
            BY <2>1 DEF L!Expire
        <3>2. L!KeyRunsOut' /\ LoginRequests' /\ l_attempts' \in 0..L_MaxAttempts
            BY <1>0, <3>1 DEF LoginInv, LoginRequests, L!KeyRunsOut
        <3> QED
            BY <3>1, <3>2 DEF LoginInv
    <2> QED
        BY <1>1, <2>1, LoginCounts, LoginMovesOn DEF L!Next
<1>2. CASE UNCHANGED L!vars
    BY <1>2 DEF L!vars, LoginInv, LoginRequests, L!KeyRunsOut, L!At
<1> QED
    BY <1>1, <1>2

LEMMA LoginTyped == LoginInv => L!TypeOK
<1> SUFFICES ASSUME LoginInv PROVE L!TypeOK
    OBVIOUS
<1>1. \A r \in L_Requests :
          /\ l_req[r].step \in {"idle", "expire", "judge", "clear", "session"}
          /\ l_req[r].number \in 0..L_MaxAttempts
    BY DEF LoginInv, LoginRequests
<1> QED
    BY <1>1 DEF LoginInv, L!TypeOK

-----------------------------------------------------------------------------
(* Metrics: a pass knows what is old, and deletes what has its hour's row.  *)

\* A pass works with a cutoff that was old when it was read.
CutoffOld == m_pass.step # "idle" => m_pass.cutoff <= m_now - M_Retain

\* What is about to be deleted has the row of its hour.
Averaged == m_pass.step = "delete" => \A m \in m_minutes : M!Old(m) => m_hours[M!HourOf(m)] # {}

MetricsInv == M!TypeOK /\ CutoffOld /\ Averaged /\ M!MinutesKept

LEMMA HourType ==
    ASSUME M!MetricsAssumption, NEW m \in Nat
    PROVE  M!HourOf(m) \in Int /\ M!HourOf(m) * M_Hour \in Int /\ (m <= M_MaxNow => M!HourOf(m) \in M!Hours)
<1>1. M!HourOf(m) \in Int
    BY DEF M!HourOf, M!MetricsAssumption
<1>2. M!HourOf(m) * M_Hour \in Int
    BY <1>1 DEF M!MetricsAssumption
<1>3. m <= M_MaxNow => M!HourOf(m) \in M!Hours
    BY DEF M!Hours, M!MetricsAssumption
<1> QED
    BY <1>1, <1>2, <1>3

LEMMA MetricsStarts == ASSUME M!MetricsAssumption, M!Init PROVE MetricsInv
<1> USE M!MetricsAssumption DEF M!MetricsAssumption, M!Init, M!Idle
<1>1. M!TypeOK
    <2>1. m_hours \in [M!Hours -> SUBSET m_sampled]
        OBVIOUS
    <2>2. m_pass.step \in {"idle", "insert", "delete", "expire"} /\ m_pass.cutoff \in 0..M_MaxNow
        OBVIOUS
    <2>3. m_now \in 0..M_MaxNow /\ m_minutes \subseteq m_sampled /\ m_sampled \subseteq 0..m_now
        OBVIOUS
    <2>4. m_telemetry \in BOOLEAN
        OBVIOUS
    <2> QED
        BY <2>1, <2>2, <2>3, <2>4 DEF M!TypeOK
<1>2. CutoffOld /\ Averaged
    BY DEF CutoffOld, Averaged
<1>3. M!MinutesKept
    BY DEF M!MinutesKept
<1> QED
    BY <1>1, <1>2, <1>3 DEF MetricsInv

LEMMA MetricsStep ==
    ASSUME M!MetricsAssumption, MetricsInv, M!Next \/ UNCHANGED M!vars
    PROVE  MetricsInv'
<1> USE M!MetricsAssumption DEF M!MetricsAssumption
<1>a. \A m \in m_sampled : m \in Nat /\ m <= M_MaxNow /\ M!HourOf(m) \in M!Hours /\ M!HourOf(m) * M_Hour \in Int
    BY HourType DEF MetricsInv, M!TypeOK
<1>1. CASE M!Tick
    <2>1. M!TypeOK'
        BY <1>1 DEF M!Tick, MetricsInv, M!TypeOK
    <2>2. CutoffOld' /\ Averaged'
        BY <1>1 DEF M!Tick, MetricsInv, M!TypeOK, CutoffOld, Averaged, M!Old
    <2>3. M!MinutesKept'
        BY <1>a, <1>1 DEF M!Tick, MetricsInv, M!TypeOK, M!MinutesKept
    <2> QED
        BY <2>1, <2>2, <2>3 DEF MetricsInv
<1>2. CASE M!Heartbeat
    BY <1>2 DEF M!Heartbeat, MetricsInv, M!TypeOK, CutoffOld, Averaged, M!Old, M!MinutesKept
<1>3. CASE M!Sample
    <2>1. M!TypeOK'
        <3>1. m_hours' \in [M!Hours -> SUBSET m_sampled']
            BY <1>3 DEF M!Sample, MetricsInv, M!TypeOK
        <3> QED
            BY <3>1, <1>3 DEF M!Sample, MetricsInv, M!TypeOK
    <2>2. CutoffOld' /\ Averaged'
        BY <1>3 DEF M!Sample, MetricsInv, M!TypeOK, CutoffOld, Averaged, M!Old
    <2>3. M!MinutesKept'
        BY <1>3 DEF M!Sample, MetricsInv, M!TypeOK, M!MinutesKept
    <2> QED
        BY <2>1, <2>2, <2>3 DEF MetricsInv
<1>4. CASE M!Compact
    <2>1. M!TypeOK'
        BY <1>4 DEF M!Compact, MetricsInv, M!TypeOK
    <2>2. CutoffOld' /\ Averaged'
        BY <1>4 DEF M!Compact, MetricsInv, M!TypeOK, CutoffOld, Averaged
    <2>3. M!MinutesKept'
        BY <1>4 DEF M!Compact, MetricsInv, M!MinutesKept
    <2> QED
        BY <2>1, <2>2, <2>3 DEF MetricsInv
<1>5. CASE M!Insert
    <2>1. M!TypeOK'
        BY <1>5 DEF M!Insert, M!OldOf, MetricsInv, M!TypeOK
    <2>2. CutoffOld'
        BY <1>5 DEF M!Insert, MetricsInv, M!TypeOK, CutoffOld
    <2>3. \A m \in m_minutes : M!Old(m) => m_hours'[M!HourOf(m)] # {}
        BY <1>a, <1>5 DEF M!Insert, M!OldOf, MetricsInv, M!TypeOK
    <2>4. Averaged'
        BY <2>3, <1>5 DEF M!Insert, Averaged, M!Old, MetricsInv, M!TypeOK
    <2>5. \A m \in m_sampled : m_hours[M!HourOf(m)] # {} => m_hours'[M!HourOf(m)] # {}
        BY <1>a, <1>5 DEF M!Insert
    <2>6. \A h \in M!Hours : \A m \in m_hours'[h] : M!HourOf(m) = h
        BY <1>5 DEF M!Insert, M!OldOf, MetricsInv, M!MinutesKept
    <2>7. M!MinutesKept'
        BY <2>5, <2>6, <1>5 DEF M!Insert, MetricsInv, M!MinutesKept
    <2> QED
        BY <2>1, <2>2, <2>4, <2>7 DEF MetricsInv
<1>6. CASE M!DeleteMinutes
    <2>1. M!TypeOK'
        BY <1>6 DEF M!DeleteMinutes, M!Kept, MetricsInv, M!TypeOK
    <2>2. CutoffOld' /\ Averaged'
        BY <1>6 DEF M!DeleteMinutes, MetricsInv, M!TypeOK, CutoffOld, Averaged
    <2>3. \A m \in m_sampled : m \in m_minutes /\ m \notin m_minutes' => m_hours[M!HourOf(m)] # {}
        BY <1>6 DEF M!DeleteMinutes, M!Kept, MetricsInv, Averaged
    <2>4. \A m \in m_sampled : m >= m_now - M_Retain /\ m \in m_minutes => m \in m_minutes'
        BY <1>a, <1>6 DEF M!DeleteMinutes, M!Kept, M!Old, MetricsInv, M!TypeOK, CutoffOld
    <2>5. M!MinutesKept'
        BY <2>3, <2>4, <1>6 DEF M!DeleteMinutes, MetricsInv, M!MinutesKept
    <2> QED
        BY <2>1, <2>2, <2>5 DEF MetricsInv
<1>7. CASE M!ExpireHours
    <2>1. M!TypeOK'
        BY <1>7 DEF M!ExpireHours, M!Idle, MetricsInv, M!TypeOK
    <2>2. CutoffOld' /\ Averaged'
        BY <1>7 DEF M!ExpireHours, M!Idle, CutoffOld, Averaged
    <2>3. \A m \in m_sampled : m_hours[M!HourOf(m)] # {} =>
              m_hours'[M!HourOf(m)] # {} \/ M!HourOf(m) * M_Hour < m_now - M_Expire
        BY <1>a, <1>7 DEF M!ExpireHours
    <2>4. M!MinutesKept'
        BY <2>3, <1>7 DEF M!ExpireHours, MetricsInv, M!MinutesKept
    <2> QED
        BY <2>1, <2>2, <2>4 DEF MetricsInv
<1>8. CASE M!Break
    BY <1>8 DEF M!Break, M!Idle, MetricsInv, M!TypeOK, CutoffOld, Averaged, M!MinutesKept
<1>9. CASE UNCHANGED M!vars
    BY <1>9 DEF M!vars, MetricsInv, M!TypeOK, CutoffOld, Averaged, M!Old, M!MinutesKept
<1> QED
    BY <1>1, <1>2, <1>3, <1>4, <1>5, <1>6, <1>7, <1>8, <1>9 DEF M!Next


-----------------------------------------------------------------------------
(* ServerStatus: a pass past its first step has read a state to write.      *)

StatusInv ==
    /\ s_up \in BOOLEAN /\ s_box \in {"running", "exited"} /\ s_seen \in {"none", "running", "exited"}
    /\ s_status \in {"STARTING", "STOPPING", "RUNNING", "OFFLINE"}
    /\ s_recon \in [pc : {"idle", "telemetry", "server"}, actual : {"none", "RUNNING", "OFFLINE"},
                  was : {"none", "STARTING", "STOPPING", "RUNNING", "OFFLINE"}]
    /\ s_recon.pc # "idle" => s_recon.actual # "none"

LEMMA StatusStarts == ASSUME S!Init PROVE StatusInv
<1>1. s_up \in BOOLEAN
    BY DEF S!Init
<1>2. s_recon \in [pc : {"idle", "telemetry", "server"}, actual : {"none", "RUNNING", "OFFLINE"},
                 was : {"none", "STARTING", "STOPPING", "RUNNING", "OFFLINE"}] /\ s_recon.pc = "idle"
    BY DEF S!Init, S!Idle
<1> QED
    BY <1>1, <1>2 DEF S!Init, StatusInv

LEMMA StatusStep == ASSUME StatusInv, S!Next \/ UNCHANGED S!vars PROVE StatusInv'
<1>1. ASSUME NEW action \in S!Actions, S!Power(action) PROVE StatusInv'
    BY <1>1 DEF S!Power, StatusInv
<1>2. ASSUME NEW m \in s_onWay, S!Execute(m) \/ S!Report(m) PROVE StatusInv'
    <2>1. UNCHANGED <<s_up, s_seen, s_recon>>
        BY <1>2 DEF S!Execute, S!Report
    <2>2. s_box' \in {"running", "exited"}
        BY <1>2 DEF S!Execute, S!Report, StatusInv
    <2>3. s_status' \in {"STARTING", "STOPPING", "RUNNING", "OFFLINE"}
        BY <1>2 DEF S!Execute, S!Report, S!Shown, StatusInv
    <2> QED
        BY <2>1, <2>2, <2>3 DEF StatusInv
<1>3. CASE S!Heartbeat \/ S!Expire \/ S!Exits
    <2>1. UNCHANGED <<s_up, s_status, s_recon>>
        BY <1>3 DEF S!Heartbeat, S!Expire, S!Exits
    <2>2. s_box' \in {"running", "exited"} /\ s_seen' \in {"none", "running", "exited"}
        BY <1>3 DEF S!Heartbeat, S!Expire, S!Exits, StatusInv
    <2> QED
        BY <2>1, <2>2 DEF StatusInv
<1>4. CASE S!Disconnect \/ S!Connect
    <2>1. s_up' \in BOOLEAN
        BY <1>4 DEF S!Disconnect, S!Connect
    <2>2. UNCHANGED <<s_box, s_status, s_seen, s_recon>>
        BY <1>4 DEF S!Disconnect, S!Connect
    <2> QED
        BY <2>1, <2>2 DEF StatusInv
<1>5. CASE S!ReadTelemetry
    <2>1. S!Shown(s_seen) \in {"RUNNING", "OFFLINE"}
        BY DEF S!Shown
    <2>2. s_recon' = [pc |-> "telemetry", actual |-> S!Shown(s_seen), was |-> "none"]
        BY <1>5 DEF S!ReadTelemetry, S!Idle
    <2> QED
        BY <2>1, <2>2, <1>5 DEF S!ReadTelemetry, StatusInv
<1>6. CASE S!ReadServer
    BY <1>6 DEF S!ReadServer, StatusInv
<1>7. CASE S!Correct
    <2>1. s_status' \in {"STARTING", "STOPPING", "RUNNING", "OFFLINE"}
        BY <1>7 DEF S!Correct, StatusInv
    <2>2. s_recon' = [pc |-> "idle", actual |-> "none", was |-> "none"]
        BY <1>7 DEF S!Correct, S!Idle
    <2> QED
        BY <2>1, <2>2, <1>7 DEF S!Correct, StatusInv
<1>8. CASE UNCHANGED S!vars
    BY <1>8 DEF S!vars, StatusInv
<1> QED
    BY <1>1, <1>2, <1>3, <1>4, <1>5, <1>6, <1>7, <1>8 DEF S!Next

LEMMA StatusTyped == StatusInv => S!TypeOK
<1> SUFFICES ASSUME StatusInv PROVE S!TypeOK
    OBVIOUS
<1>1. s_recon.pc \in {"idle", "telemetry", "server"}
    BY DEF StatusInv
<1> QED
    BY <1>1 DEF StatusInv, S!TypeOK, S!Transitional

-----------------------------------------------------------------------------
(* Alerts: a pass judges the keys it listed, all of them known.             *)

PassType == [pc : {"idle", "telemetry", "reporting", "silent", "nodes", "checks", "opening"},
             was : {"ONLINE", "OFFLINE", "UNREACHABLE"}, read : SUBSET A!Keys, todo : SUBSET A!Keys,
             key : A!Keys]

AlertsInv ==
    /\ a_status \in {"ONLINE", "OFFLINE", "UNREACHABLE"} /\ a_facts \subseteq A!Keys /\ a_open \subseteq A!Keys
    /\ a_pass \in [A!Passes -> PassType]

LEMMA KeysKnown ==
    A!NodeDown \in A!Keys /\ A_EvaluatedKeys \subseteq A!Keys /\ A_FleetKeys \cup A_DriftKeys \subseteq A!Keys
BY DEF A!Keys

LEMMA AlertsStarts == ASSUME A!Init PROVE AlertsInv
<1>1. A!Idle \in PassType
    BY KeysKnown DEF A!Idle, PassType
<1> QED
    BY <1>1 DEF A!Init, AlertsInv

\* A pass that goes on to another place, with another key.
LEMMA PassGoes ==
    ASSUME AlertsInv, NEW p \in A!Passes, NEW k \in A!Keys,
           NEW pc \in {"telemetry", "reporting", "silent", "nodes", "checks", "opening"}
    PROVE  /\ [a_pass EXCEPT ![p].pc = pc] \in [A!Passes -> PassType]
           /\ [a_pass EXCEPT ![p].pc = pc, ![p].key = k] \in [A!Passes -> PassType]
<1>1. a_pass \in [A!Passes -> PassType] /\ a_pass[p] \in PassType
    BY DEF AlertsInv
<1>2. [a_pass[p] EXCEPT !.pc = pc] \in PassType /\ [a_pass[p] EXCEPT !.pc = pc, !.key = k] \in PassType
    BY <1>1 DEF PassType
<1>3. [a_pass EXCEPT ![p].pc = pc] = [a_pass EXCEPT ![p] = [a_pass[p] EXCEPT !.pc = pc]]
    BY <1>1
<1>4. [a_pass EXCEPT ![p].pc = pc, ![p].key = k]
          = [a_pass EXCEPT ![p] = [a_pass[p] EXCEPT !.pc = pc, !.key = k]]
    BY <1>1 DEF PassType
<1> QED
    BY <1>1, <1>2, <1>3, <1>4

LEMMA ResolvesType == ASSUME AlertsInv, NEW k, A!Resolves(k) PROVE a_open' \subseteq A!Keys
BY DEF AlertsInv, A!Resolves

LEMMA LookUpType ==
    ASSUME AlertsInv, NEW p \in A!Passes, A!LookUp(p, A!NodeDown)
    PROVE  a_open' \subseteq A!Keys /\ a_pass' \in [A!Passes -> PassType]
<1> DEFINE pc == IF A!NodeDown \in a_open THEN "checks" ELSE "opening"
<1>1. a_pass' = [a_pass EXCEPT ![p].pc = pc, ![p].key = A!NodeDown] /\ a_open' = a_open
    BY DEF A!LookUp
<1>2. pc \in {"telemetry", "reporting", "silent", "nodes", "checks", "opening"}
    OBVIOUS
<1> HIDE DEF pc
<1>3. [a_pass EXCEPT ![p].pc = pc, ![p].key = A!NodeDown] \in [A!Passes -> PassType]
    BY <1>2, KeysKnown, PassGoes
<1> QED
    BY <1>1, <1>3 DEF AlertsInv

LEMMA ResolveType ==
    ASSUME AlertsInv, NEW p \in A!Passes, A!ResolveAlert(p, A!NodeDown)
    PROVE  a_open' \subseteq A!Keys /\ a_pass' \in [A!Passes -> PassType]
<1>1. a_pass' = [a_pass EXCEPT ![p].pc = "checks"]
    BY DEF A!ResolveAlert, A!Goes
<1>2. a_pass' \in [A!Passes -> PassType]
    BY <1>1, KeysKnown, PassGoes
<1> QED
    BY <1>2, ResolvesType DEF A!ResolveAlert

LEMMA AlertsStep == ASSUME AlertsInv, A!Next \/ UNCHANGED A!vars PROVE AlertsInv'
<1>0. "reconcile" \in A!Passes /\ "evaluate" \in A!Passes
    BY DEF A!Passes
<1>1. CASE A!Heartbeat \/ A!Expire \/ A!Disconnect \/ A!Connect \/ A!MarkStale
    BY <1>1 DEF A!Heartbeat, A!Expire, A!Disconnect, A!Connect, A!MarkStale, AlertsInv
<1>2. CASE A!FactsChange
    BY <1>2 DEF A!FactsChange, AlertsInv
<1>3. ASSUME NEW p \in A!Passes, A!Step(p) PROVE AlertsInv'
    <2>1. CASE A!Open(p)
        <3>1. /\ a_pass' = [a_pass EXCEPT ![p].pc = "checks"] /\ a_open' = a_open \cup {a_pass[p].key}
              /\ UNCHANGED <<a_status, a_facts>>
            BY <2>1 DEF A!Open, A!Goes, A!fleet
        <3>2. a_pass[p].key \in A!Keys
            BY DEF AlertsInv, PassType
        <3>3. a_pass' \in [A!Passes -> PassType]
            BY <3>1, KeysKnown, PassGoes
        <3> QED
            BY <3>1, <3>2, <3>3 DEF AlertsInv
    <2>2. CASE A!Check(p)
        <3>1. PICK k \in a_pass[p].todo :
                 \/ /\ a_pass' = [a_pass EXCEPT ![p].pc = IF k \in a_open THEN @ ELSE "opening",
                                            ![p].key = k, ![p].todo = @ \ {k}]
                    /\ a_facts' = (IF k \in A_DriftKeys THEN a_facts \ {k} ELSE a_facts) /\ UNCHANGED a_open
                 \/ /\ a_pass' = [a_pass EXCEPT ![p].todo = @ \ {k}]
                    /\ (UNCHANGED a_open \/ A!Resolves(k)) /\ UNCHANGED a_facts
            BY <2>2 DEF A!Check
        <3>2. a_pass[p] \in PassType /\ k \in A!Keys /\ a_pass[p].todo \in SUBSET A!Keys
            BY DEF AlertsInv, PassType
        <3>3. a_open' \subseteq A!Keys /\ a_facts' \subseteq A!Keys
            BY <3>1, ResolvesType DEF AlertsInv
        <3> DEFINE pc == IF k \in a_open THEN a_pass[p].pc ELSE "opening"
                   T == a_pass[p].todo \ {k}
        <3>4. T \in SUBSET A!Keys
            BY <3>2
        <3>5. CASE a_pass' = [a_pass EXCEPT ![p].pc = IF k \in a_open THEN @ ELSE "opening",
                                        ![p].key = k, ![p].todo = @ \ {k}]
            <4>1. pc \in {"idle", "telemetry", "reporting", "silent", "nodes", "checks", "opening"}
                BY <3>2 DEF PassType
            <4>2. a_pass' = [a_pass EXCEPT ![p] = [a_pass[p] EXCEPT !.pc = pc, !.key = k, !.todo = T]]
                BY <3>5, <3>2 DEF AlertsInv, PassType
            <4> HIDE DEF pc, T
            <4>3. [a_pass[p] EXCEPT !.pc = pc, !.key = k, !.todo = T] \in PassType
                BY <3>2, <3>4, <4>1 DEF PassType
            <4> QED
                BY <4>2, <4>3, <3>3, <2>2 DEF A!Check, AlertsInv
        <3>6. CASE a_pass' = [a_pass EXCEPT ![p].todo = @ \ {k}]
            <4>1. a_pass' = [a_pass EXCEPT ![p] = [a_pass[p] EXCEPT !.todo = T]]
                BY <3>6
            <4> HIDE DEF T
            <4>2. [a_pass[p] EXCEPT !.todo = T] \in PassType
                BY <3>2, <3>4 DEF PassType
            <4> QED
                BY <4>1, <4>2, <3>3, <2>2 DEF A!Check, AlertsInv
        <3> QED
            BY <3>1, <3>5, <3>6
    <2>3. CASE A!Ends(p)
        <3>1. A!Idle \in PassType
            BY KeysKnown DEF A!Idle, PassType
        <3> QED
            BY <2>3, <3>1 DEF A!Ends, AlertsInv, A!fleet
    <2> QED
        BY <1>3, <2>1, <2>2, <2>3 DEF A!Step
<1>4. CASE A!BeginReconcile
    <2>1. [A!Idle EXCEPT !.pc = "telemetry", !.was = a_status, !.todo = A_FleetKeys \cup A_DriftKeys] \in PassType
        BY KeysKnown DEF A!Idle, PassType, AlertsInv
    <2> QED
        BY <1>4, <2>1 DEF A!BeginReconcile, AlertsInv, A!fleet
<1>5. CASE A!ReadTelemetry
    <2>1. \/ a_pass' = [a_pass EXCEPT !["reconcile"].pc = "reporting"]
          \/ a_pass' = [a_pass EXCEPT !["reconcile"].pc = "silent"]
        BY <1>5 DEF A!ReadTelemetry, A!Goes
    <2>2. a_pass' \in [A!Passes -> PassType]
        <3>1. [a_pass EXCEPT !["reconcile"].pc = "reporting"] \in [A!Passes -> PassType]
            BY <1>0, KeysKnown, PassGoes
        <3>2. [a_pass EXCEPT !["reconcile"].pc = "silent"] \in [A!Passes -> PassType]
            BY <1>0, KeysKnown, PassGoes
        <3> QED
            BY <2>1, <3>1, <3>2
    <2> QED
        BY <1>5, <2>2 DEF A!ReadTelemetry, AlertsInv, A!fleet
<1>6. CASE A!Silent
    <2>1. a_open' \subseteq A!Keys /\ a_pass' \in [A!Passes -> PassType]
        BY <1>0, <1>6, LookUpType DEF A!Silent
    <2>2. a_status' \in {"ONLINE", "OFFLINE", "UNREACHABLE"} /\ a_facts' = a_facts
        BY <1>6 DEF A!Silent, AlertsInv
    <2> QED
        BY <2>1, <2>2 DEF AlertsInv
<1>7. CASE A!Reporting
    <2>1. a_open' \subseteq A!Keys /\ a_pass' \in [A!Passes -> PassType]
        BY <1>0, <1>7, ResolveType DEF A!Reporting
    <2> QED
        BY <1>7, <2>1 DEF A!Reporting, AlertsInv, A!fleet
<1>8. CASE A!BeginEvaluate
    <2>1. [A!Idle EXCEPT !.pc = "nodes", !.was = a_status, !.read = a_facts, !.todo = A_EvaluatedKeys] \in PassType
        BY KeysKnown DEF A!Idle, PassType, AlertsInv
    <2> QED
        BY <1>8, <2>1 DEF A!BeginEvaluate, AlertsInv, A!fleet
<1>9. CASE A!JudgeNode
    <2>1. a_open' \subseteq A!Keys /\ a_pass' \in [A!Passes -> PassType]
        BY <1>0, <1>9, LookUpType, ResolveType DEF A!JudgeNode
    <2> QED
        BY <1>9, <2>1 DEF A!JudgeNode, AlertsInv, A!fleet
<1>10. CASE A!Acknowledge
    <2>1. a_open' \subseteq A!Keys
        BY <1>10, ResolvesType DEF A!Acknowledge
    <2> QED
        BY <1>10, <2>1 DEF A!Acknowledge, AlertsInv, A!fleet
<1>11. CASE UNCHANGED A!vars
    BY <1>11 DEF A!vars, AlertsInv
<1> QED
    BY <1>0, <1>1, <1>2, <1>3, <1>4, <1>5, <1>6, <1>7, <1>8, <1>9, <1>10, <1>11
    DEF A!Next, A!Reconcile, A!Evaluate

LEMMA AlertsTyped == AlertsInv => A!TypeOK
BY DEF AlertsInv, PassType, A!TypeOK

-----------------------------------------------------------------------------
(* AgentUpdate: an updater that has begun has a build, and whoever has yet  *)
(* to hear of a push is of its batch.                                       *)

TakingType == [step : {"idle", "fetched", "writing", "written", "renamed"}, build : U_Builds \cup {0}]

PushType == [build : U_Builds \cup {0}, todo : SUBSET U_Nodes, batch : SUBSET U_Nodes, untold : SUBSET U_Nodes]

FilesType ==
    /\ u_installed \in [U_Nodes -> U_Builds \cup {U!Torn}] /\ u_staged \in [U_Nodes -> U_Builds \cup {U!Torn, U!None}]

AgentsType ==
    /\ u_running \in [U_Nodes -> U_Builds \cup {0}] /\ u_online \subseteq U_Nodes
    /\ u_taking \in [U_Nodes -> [U!Updaters -> TakingType]]
    /\ \A n \in U_Nodes : \A u \in U!Updaters : u_taking[n][u].step # "idle" => u_taking[n][u].build \in U_Builds

PanelType == u_channel \in U_Builds \cup {0} /\ u_push \in PushType /\ u_push.untold \subseteq u_push.batch

UpdateInv == FilesType /\ AgentsType /\ PanelType

\* The lowest build, which is installed first, is one.
LEMMA FirstIsBuild == ASSUME U!AgentUpdateAssumption PROVE U!First \in U_Builds
<1> DEFINE R == {ss \in Nat \X Nat : ss[1] < ss[2]}
<1>1. U_Builds \subseteq Nat /\ U_Builds # {}
    BY DEF U!AgentUpdateAssumption
<1>2. R = OpToRel(<, Nat)
    BY DEF OpToRel
<1>3. PICK b \in U_Builds : \A o \in U_Builds : <<o, b>> \notin OpToRel(<, Nat)
    BY <1>1, NatLessThanWellFounded, WFMin
<1>4. \A o \in Nat : o < b => <<o, b>> \in R
    BY <1>1
<1>5. \A o \in U_Builds : ~(o < b)
    BY <1>1, <1>2, <1>3, <1>4
<1>6. \A o \in U_Builds : b <= o
    BY <1>1, <1>5
<1> QED
    BY <1>6 DEF U!First

LEMMA UpdateStarts == ASSUME U!AgentUpdateAssumption, U!Init PROVE UpdateInv
<1> USE FirstIsBuild
<1>1. FilesType
    BY DEF U!Init, FilesType
<1>2. AgentsType
    BY DEF U!Init, AgentsType, U!Nothing, TakingType
<1>3. PanelType
    BY DEF U!Init, PanelType, PushType
<1> QED
    BY <1>1, <1>2, <1>3 DEF UpdateInv

LEMMA PanelSteps ==
    ASSUME UpdateInv,
           \/ \E b \in U_Builds : U!Publish(b) \/ U!Push(b)
           \/ U!NextBatch
           \/ \E n \in U_Nodes : U!Settles(n)
    PROVE  UpdateInv'
<1>0. /\ u_push \in PushType /\ u_push.untold \subseteq u_push.batch /\ u_push.todo \in SUBSET U_Nodes
      /\ u_push.batch \in SUBSET U_Nodes /\ u_push.untold \in SUBSET U_Nodes
    BY DEF UpdateInv, PanelType, PushType
<1>1. UNCHANGED <<u_installed, u_staged, u_running, u_taking, u_online>>
    BY DEF U!Publish, U!Push, U!NextBatch, U!Settles, U!files
<1>2. FilesType' /\ AgentsType'
    BY <1>1 DEF UpdateInv, FilesType, AgentsType
<1>3. ASSUME NEW b \in U_Builds, U!Publish(b) \/ U!Push(b) PROVE PanelType'
    <2> DEFINE T == {n \in u_online : u_running[n] # b}
    <2>1. T \in SUBSET U_Nodes
        BY DEF UpdateInv, AgentsType
    <2>2. CASE U!Push(b)
        <3>1. u_push' = [u_push EXCEPT !.build = b, !.todo = T] /\ u_channel' = u_channel
            BY <2>2 DEF U!Push
        <3> HIDE DEF T
        <3> QED
            BY <1>0, <2>1, <3>1 DEF UpdateInv, PanelType, PushType
    <2>3. CASE U!Publish(b)
        BY <2>3 DEF U!Publish, UpdateInv, PanelType
    <2> QED
        BY <1>3, <2>2, <2>3
<1>4. ASSUME U!NextBatch PROVE PanelType'
    <2>1. PICK T \in SUBSET u_push.todo :
             u_push' = [u_push EXCEPT !.todo = u_push.todo \ T, !.batch = T, !.untold = T]
        BY <1>4 DEF U!NextBatch
    <2>2. T \in SUBSET U_Nodes /\ u_push.todo \ T \in SUBSET U_Nodes
        BY <1>0
    <2>3. u_channel' = u_channel
        BY <1>4 DEF U!NextBatch
    <2> QED
        BY <1>0, <2>1, <2>2, <2>3 DEF UpdateInv, PanelType, PushType
<1>5. ASSUME NEW n \in U_Nodes, U!Settles(n) PROVE PanelType'
    <2>1. u_push' = [u_push EXCEPT !.batch = u_push.batch \ {n}, !.untold = u_push.untold \ {n}] /\ u_channel' = u_channel
        BY <1>5 DEF U!Settles
    <2>2. u_push.batch \ {n} \in SUBSET U_Nodes /\ u_push.untold \ {n} \in SUBSET U_Nodes
        BY <1>0
    <2> QED
        BY <1>0, <2>1, <2>2 DEF UpdateInv, PanelType, PushType
<1> QED
    BY <1>2, <1>3, <1>4, <1>5 DEF UpdateInv

LEMMA OffersBuilds ==
    ASSUME UpdateInv, NEW n \in U_Nodes, NEW u \in U!Updaters
    PROVE  U!Offered(n, u) \in U_Builds \cup {0}
<1>1. u_channel \in U_Builds \cup {0} /\ u_push.build \in U_Builds \cup {0}
    BY DEF UpdateInv, PanelType, PushType
<1> QED
    BY <1>1 DEF U!Offered

\* One updater of one agent goes on.
LEMMA TakingGoes ==
    ASSUME AgentsType, NEW n \in U_Nodes, NEW u \in U!Updaters, NEW t \in TakingType,
           t.step # "idle" => t.build \in U_Builds, u_taking' = [u_taking EXCEPT ![n][u] = t],
           UNCHANGED <<u_running, u_online>>
    PROVE  AgentsType'
<1>1. u_taking' \in [U_Nodes -> [U!Updaters -> TakingType]]
    BY DEF AgentsType
<1>2. \A m \in U_Nodes : \A v \in U!Updaters :
          u_taking'[m][v] = IF m = n /\ v = u THEN t ELSE u_taking[m][v]
    BY DEF AgentsType
<1> QED
    BY <1>1, <1>2 DEF AgentsType

LEMMA StepGoes ==
    ASSUME AgentsType, NEW n \in U_Nodes, NEW u \in U!Updaters,
           NEW s \in {"writing", "written", "renamed"}, u_taking[n][u].step # "idle",
           U!Step(n, u, s), UNCHANGED <<u_running, u_online>>
    PROVE  AgentsType'
<1>1. u_taking[n][u] \in TakingType /\ u_taking[n][u].build \in U_Builds
    BY DEF AgentsType
<1>2. /\ [u_taking[n][u] EXCEPT !.step = s] \in TakingType
      /\ [u_taking[n][u] EXCEPT !.step = s].build \in U_Builds
    BY <1>1 DEF TakingType
<1>3. u_taking' = [u_taking EXCEPT ![n][u] = [u_taking[n][u] EXCEPT !.step = s]]
    BY DEF U!Step, AgentsType
<1> QED
    BY <1>2, <1>3, TakingGoes

LEMMA IdleGoes == U!Nothing \in TakingType /\ U!Nothing.step = "idle"
BY DEF U!Nothing, TakingType

LEMMA AgentSteps ==
    ASSUME U!AgentUpdateAssumption, UpdateInv, NEW n \in U_Nodes, NEW u \in U!Updaters,
           U!Offer(n, u) \/ U!Refuses(n, u) \/ U!Write(n, u) \/ U!Written(n, u) \/ U!Rename(n, u)
    PROVE  UpdateInv'
<1>0. AgentsType /\ FilesType /\ UNCHANGED <<u_running, u_online, u_channel>>
    BY DEF UpdateInv, U!Offer, U!Refuses, U!Write, U!Written, U!Rename
<1>1. CASE U!Offer(n, u)
    <2> DEFINE t == [step |-> "fetched", build |-> U!Offered(n, u)]
    <2>1. t \in TakingType /\ t.build \in U_Builds
        BY <1>1, OffersBuilds DEF U!Offer, TakingType
    <2>2. AgentsType'
        BY <1>0, <1>1, <2>1, TakingGoes DEF U!Offer
    <2>3. u_push' = [u_push EXCEPT !.untold = IF u = "push" THEN u_push.untold \ {n} ELSE u_push.untold]
        BY <1>1 DEF U!Offer
    <2> DEFINE T == IF u = "push" THEN u_push.untold \ {n} ELSE u_push.untold
    <2>4. T \in SUBSET U_Nodes /\ T \subseteq u_push.batch /\ u_push \in PushType
        BY DEF UpdateInv, PanelType, PushType
    <2>5. u_push' = [u_push EXCEPT !.untold = T]
        BY <2>3
    <2> HIDE DEF T
    <2>6. PanelType'
        BY <1>0, <2>4, <2>5 DEF UpdateInv, PanelType, PushType
    <2>7. FilesType'
        BY <1>0, <1>1 DEF U!Offer, U!files, FilesType
    <2> QED
        BY <2>2, <2>6, <2>7 DEF UpdateInv
<1>2. CASE U!Refuses(n, u) \/ U!Write(n, u) \/ U!Written(n, u) \/ U!Rename(n, u)
    <2>1. PanelType'
        BY <1>2 DEF U!Refuses, U!Write, U!Written, U!Rename, UpdateInv, PanelType
    <2>2. AgentsType'
        <3>1. u_taking[n][u].step # "idle"
            BY <1>2 DEF U!Refuses, U!Write, U!Written, U!Rename, U!At
        <3>2. CASE u_taking' = [u_taking EXCEPT ![n][u] = U!Nothing]
            BY <1>0, <3>2, IdleGoes, TakingGoes
        <3>3. CASE \E s \in {"writing", "written", "renamed"} : U!Step(n, u, s)
            BY <1>0, <3>1, <3>3, StepGoes
        <3> QED
            BY <1>2, <3>2, <3>3 DEF U!Refuses, U!Write, U!Written, U!Rename
    <2>3. FilesType'
        <3>1. CASE U!Refuses(n, u)
            BY <1>0, <3>1 DEF U!Refuses, U!files, FilesType
        <3>2. CASE U!Write(n, u)
            BY <1>0, <3>2 DEF U!Write, U!StartWrite, FilesType
        <3>3. CASE U!Written(n, u)
            <4>1. u_taking[n][u].build \in U_Builds
                BY <1>0, <3>3 DEF U!Written, U!At, AgentsType
            <4> QED
                BY <1>0, <3>3, <4>1 DEF U!Written, FilesType
        <3>4. CASE U!Rename(n, u)
            BY <1>0, <3>4 DEF U!Rename, U!files, FilesType
        <3> QED
            BY <1>2, <3>1, <3>2, <3>3, <3>4
    <2> QED
        BY <2>1, <2>2, <2>3 DEF UpdateInv
<1> QED
    BY <1>1, <1>2

LEMMA AgentRestarts ==
    ASSUME U!AgentUpdateAssumption, UpdateInv, NEW n \in U_Nodes, U!Exits(n) \/ U!Crashes(n) \/ U!Start(n)
    PROVE  UpdateInv'
<1>0. AgentsType
    BY DEF UpdateInv
<1>1. FilesType' /\ PanelType'
    BY DEF UpdateInv, U!Exits, U!Crashes, U!Start, U!Stops, U!files, FilesType, PanelType
<1>2. CASE U!Stops(n)
    <2>1. [u \in U!Updaters |-> U!Nothing] \in [U!Updaters -> TakingType]
        BY IdleGoes
    <2>2. /\ u_running' = [u_running EXCEPT ![n] = 0] /\ u_online' = u_online \ {n}
          /\ u_taking' = [u_taking EXCEPT ![n] = [u \in U!Updaters |-> U!Nothing]]
        BY <1>2 DEF U!Stops
    <2>3. /\ u_running' \in [U_Nodes -> U_Builds \cup {0}] /\ u_online' \subseteq U_Nodes
          /\ u_taking' \in [U_Nodes -> [U!Updaters -> TakingType]]
        BY <1>0, <2>1, <2>2 DEF AgentsType
    <2>4. \A m \in U_Nodes : \A v \in U!Updaters : u_taking'[m][v] = IF m = n THEN U!Nothing ELSE u_taking[m][v]
        BY <1>0, <2>2 DEF AgentsType
    <2> QED
        BY <1>0, <1>1, <2>3, <2>4, IdleGoes DEF AgentsType, UpdateInv
<1>3. CASE U!Start(n)
    <2>1. u_installed[n] \in U_Builds
        BY <1>3 DEF U!Start, U!Starts
    <2> QED
        BY <1>0, <1>1, <1>3, <2>1 DEF U!Start, U!Label, AgentsType, UpdateInv
<1> QED
    BY <1>2, <1>3 DEF U!Exits, U!Crashes

LEMMA UpdateStep ==
    ASSUME U!AgentUpdateAssumption, UpdateInv, U!Next \/ UNCHANGED U!vars
    PROVE  UpdateInv'
<1>1. CASE U!Next
    BY <1>1, PanelSteps, AgentSteps, AgentRestarts DEF U!Next, U!AgentStep
<1>2. CASE UNCHANGED U!vars
    BY <1>2 DEF U!vars, UpdateInv, FilesType, AgentsType, PanelType
<1> QED
    BY <1>1, <1>2

LEMMA UpdateTyped == UpdateInv => U!TypeOK
<1> SUFFICES ASSUME UpdateInv PROVE U!TypeOK
    OBVIOUS
<1>1. \A n \in U_Nodes : \A u \in U!Updaters : u_taking[n][u].build \in U_Builds \cup {0}
    BY DEF UpdateInv, AgentsType, TakingType
<1>2. u_push.untold \subseteq u_push.batch /\ u_push.batch \cup u_push.todo \subseteq U_Nodes
    BY DEF UpdateInv, PanelType, PushType
<1> QED
    BY <1>1, <1>2 DEF UpdateInv, FilesType, AgentsType, PanelType, U!TypeOK

-----------------------------------------------------------------------------
(* NodeAdmin: proved in NodeAdminProofs, of which this is an instance.      *)

NP == INSTANCE NodeAdminProofs WITH Nodes <- N_Nodes, Servers <- N_Servers,
        Admits <- {}, node <- n_node, home <- n_home, made <- n_made,
        jobs <- n_jobs, move <- n_move, drain <- n_drain, erase <- n_erase

LEMMA NodesSame ==
    /\ N!NodeAdminAssumption => NP!NodeAdminAssumption
    /\ N!Init => NP!Init
    /\ N!Next \/ UNCHANGED N!vars => [NP!Next]_(NP!vars)
    /\ NP!TypeOK => N!TypeOK
    /\ NP!NodesAccounted => N!NodesAccounted
<1>1. /\ N!NodeAdminAssumption => NP!NodeAdminAssumption
      /\ N!Init => NP!Init
    BY DEF N!NodeAdminAssumption, NP!NodeAdminAssumption, N!Init, NP!Init, N!NoDrain, NP!NoDrain,
           N!None, NP!None
<1>2. N!Next => NP!Next
    BY DEF N!Next, NP!Next, N!DeleteServer, NP!DeleteServer, N!Migrate, NP!Migrate, N!Switch, NP!Switch,
        N!RollBack, NP!RollBack, N!MoveNext, NP!MoveNext, N!Buy, NP!Buy, N!Reserve, NP!Reserve,
        N!Create, NP!Create, N!Enable, NP!Enable, N!Drain, NP!Drain, N!CountServers, NP!CountServers,
        N!DeleteNode, NP!DeleteNode, N!ListServers, NP!ListServers, N!Answered, NP!Answered,
        N!At, NP!At, N!Still, NP!Still, N!Inbound, NP!Inbound, N!Begin, NP!Begin, N!Drained, NP!Drained,
        N!Disables, NP!Disables, N!Named, NP!Named, N!None, NP!None, N!NoDrain, NP!NoDrain,
        N!fleet, NP!fleet
<1>3. UNCHANGED N!vars => UNCHANGED NP!vars
    BY DEF N!vars, NP!vars
<1>4. /\ NP!TypeOK => N!TypeOK
      /\ NP!NodesAccounted => N!NodesAccounted
    BY DEF N!TypeOK, NP!TypeOK, N!NodesAccounted, NP!NodesAccounted, N!NothingDangles, NP!NothingDangles,
        N!DrainedIsEmpty, NP!DrainedIsEmpty, N!At, NP!At, N!Inbound, NP!Inbound, N!None, NP!None
<1> QED
    BY <1>1, <1>2, <1>3, <1>4

LEMMA NodesStarts == ASSUME N!NodeAdminAssumption, N!Init PROVE NP!NodesInv
BY NodesSame, NP!NodesStarts

LEMMA NodesStep ==
    ASSUME N!NodeAdminAssumption, NP!NodesInv, N!Next \/ UNCHANGED N!vars
    PROVE  NP!NodesInv'
BY NodesSame, NP!NodesStep

LEMMA NodesHold == NP!NodesInv => N!TypeOK /\ N!NodesAccounted
BY NodesSame, NP!NodesHold

-----------------------------------------------------------------------------
(* The parts together.                                                      *)

PartsInv ==
    /\ active = "backups" => BackupsInv
    /\ active = "status" => StatusInv
    /\ active = "alerts" => AlertsInv
    /\ active = "console" => ConsoleInv
    /\ active = "databases" => DatabasesInv
    /\ active = "update" => UpdateInv
    /\ active = "settings" => SettingsInv
    /\ active = "startup" => StartupInv
    /\ active = "nodes" => NP!NodesInv
    /\ active = "login" => LoginInv
    /\ active = "metrics" => MetricsInv

LEMMA PartsStart == Init => PartsInv
<1> SUFFICES ASSUME Init PROVE PartsInv
    OBVIOUS
<1>1. /\ B!Init /\ S!Init /\ A!Init /\ C!Init /\ D!Init /\ U!Init /\ G!Init /\ V!Init /\ N!Init
      /\ L!Init /\ M!Init
    BY DEF Init
<1>2. BackupsInv /\ ConsoleInv /\ DatabasesInv /\ SettingsInv /\ StartupInv /\ MetricsInv
    BY <1>1, ServicesAssumption, BackupsStarts, ConsoleStarts, DatabasesStarts, SettingsStarts,
       StartupStarts, MetricsStarts
<1>3. StatusInv /\ AlertsInv /\ UpdateInv /\ NP!NodesInv /\ LoginInv
    BY <1>1, ServicesAssumption, StatusStarts, AlertsStarts, UpdateStarts, NodesStarts, LoginStarts
<1> QED
    BY <1>2, <1>3 DEF PartsInv

\* What a step of the whole is to the part that is active.
LEMMA PartSteps ==
    ASSUME Next
    PROVE  /\ active' = active
           /\ active = "backups" => B!Next
           /\ active = "status" => S!Next
           /\ active = "alerts" => A!Next
           /\ active = "console" => C!Next
           /\ active = "databases" => D!Next
           /\ active = "update" => U!Next
           /\ active = "settings" => G!Next
           /\ active = "startup" => V!Next
           /\ active = "nodes" => N!Next
           /\ active = "login" => L!Next
           /\ active = "metrics" => M!Next
BY DEF Next

LEMMA PartsStutter ==
    ASSUME UNCHANGED vars
    PROVE  /\ active' = active
           /\ UNCHANGED B!vars /\ UNCHANGED S!vars /\ UNCHANGED A!vars /\ UNCHANGED C!vars
           /\ UNCHANGED D!vars /\ UNCHANGED U!vars /\ UNCHANGED G!vars /\ UNCHANGED V!vars
           /\ UNCHANGED N!vars /\ UNCHANGED L!vars /\ UNCHANGED M!vars
<1>1. active' = active /\ UNCHANGED B!vars /\ UNCHANGED S!vars /\ UNCHANGED A!vars
    BY DEF vars, backupsVars, statusVars, alertsVars, B!vars, S!vars, A!vars
<1>2. UNCHANGED C!vars /\ UNCHANGED D!vars /\ UNCHANGED U!vars
    BY DEF vars, consoleVars, databasesVars, updateVars, C!vars, D!vars, U!vars
<1>3. UNCHANGED G!vars /\ UNCHANGED V!vars /\ UNCHANGED N!vars
    BY DEF vars, settingsVars, startupVars, nodesVars, G!vars, V!vars, N!vars
<1>4. UNCHANGED L!vars /\ UNCHANGED M!vars
    BY DEF vars, loginVars, metricsVars, L!vars, M!vars
<1> QED
    BY <1>1, <1>2, <1>3, <1>4

LEMMA PartsStep == PartsInv /\ [Next]_vars => PartsInv'
<1> SUFFICES ASSUME PartsInv, [Next]_vars PROVE PartsInv'
    OBVIOUS
<1>1. active' = active
    BY PartSteps, PartsStutter
<1>2. ASSUME active = "backups" PROVE BackupsInv'
    <2>1. BackupsInv /\ (B!Next \/ UNCHANGED B!vars)
        BY <1>2, PartSteps, PartsStutter DEF PartsInv
    <2> QED
        BY <2>1, ServicesAssumption, BackupsStep
<1>3. ASSUME active = "status" PROVE StatusInv'
    <2>1. StatusInv /\ (S!Next \/ UNCHANGED S!vars)
        BY <1>3, PartSteps, PartsStutter DEF PartsInv
    <2> QED
        BY <2>1, StatusStep
<1>4. ASSUME active = "alerts" PROVE AlertsInv'
    <2>1. AlertsInv /\ (A!Next \/ UNCHANGED A!vars)
        BY <1>4, PartSteps, PartsStutter DEF PartsInv
    <2> QED
        BY <2>1, AlertsStep
<1>5. ASSUME active = "console" PROVE ConsoleInv'
    <2>1. ConsoleInv /\ (C!Next \/ UNCHANGED C!vars)
        BY <1>5, PartSteps, PartsStutter DEF PartsInv
    <2> QED
        BY <2>1, ServicesAssumption, ConsoleStep
<1>6. ASSUME active = "databases" PROVE DatabasesInv'
    <2>1. DatabasesInv /\ (D!Next \/ UNCHANGED D!vars)
        BY <1>6, PartSteps, PartsStutter DEF PartsInv
    <2> QED
        BY <2>1, ServicesAssumption, DatabasesStep
<1>7. ASSUME active = "update" PROVE UpdateInv'
    <2>1. UpdateInv /\ (U!Next \/ UNCHANGED U!vars)
        BY <1>7, PartSteps, PartsStutter DEF PartsInv
    <2> QED
        BY <2>1, ServicesAssumption, UpdateStep
<1>8. ASSUME active = "settings" PROVE SettingsInv'
    <2>1. SettingsInv /\ (G!Next \/ UNCHANGED G!vars)
        BY <1>8, PartSteps, PartsStutter DEF PartsInv
    <2> QED
        BY <2>1, ServicesAssumption, SettingsStep
<1>9. ASSUME active = "startup" PROVE StartupInv'
    <2>1. StartupInv /\ (V!Next \/ UNCHANGED V!vars)
        BY <1>9, PartSteps, PartsStutter DEF PartsInv
    <2> QED
        BY <2>1, ServicesAssumption, StartupStep
<1>10. ASSUME active = "nodes" PROVE NP!NodesInv'
    <2>1. NP!NodesInv /\ (N!Next \/ UNCHANGED N!vars)
        BY <1>10, PartSteps, PartsStutter DEF PartsInv
    <2> QED
        BY <2>1, ServicesAssumption, NodesStep
<1>11. ASSUME active = "login" PROVE LoginInv'
    <2>1. LoginInv /\ (L!Next \/ UNCHANGED L!vars)
        BY <1>11, PartSteps, PartsStutter DEF PartsInv
    <2> QED
        BY <2>1, ServicesAssumption, LoginStep
<1>12. ASSUME active = "metrics" PROVE MetricsInv'
    <2>1. MetricsInv /\ (M!Next \/ UNCHANGED M!vars)
        BY <1>12, PartSteps, PartsStutter DEF PartsInv
    <2> QED
        BY <2>1, ServicesAssumption, MetricsStep
<1> QED
    BY <1>1, <1>2, <1>3, <1>4, <1>5, <1>6, <1>7, <1>8, <1>9, <1>10, <1>11, <1>12 DEF PartsInv

LEMMA PartsHold == Spec => []PartsInv
BY PartsStart, PartsStep, PTL DEF Spec

-----------------------------------------------------------------------------
(* What is promised, for every value of the constants.                      *)

\* Every variable of every part is of its kind.
THEOREM PartsTyped == Spec => []TypeOK
<1>1. PartsInv => TypeOK
    <2> SUFFICES ASSUME PartsInv PROVE TypeOK
        OBVIOUS
    <2>1. active = "backups" => B!TypeOK
        BY ServicesAssumption, BackupsHold DEF PartsInv
    <2>2. /\ active = "console" => C!TypeOK
          /\ active = "databases" => D!TypeOK
          /\ active = "settings" => G!TypeOK
          /\ active = "startup" => V!TypeOK
        BY ConsoleTyped, DatabasesTyped, SettingsTyped, StartupTyped DEF PartsInv
    <2>3. active = "metrics" => M!TypeOK
        BY DEF PartsInv, MetricsInv
    <2>4. /\ active = "status" => S!TypeOK
          /\ active = "alerts" => A!TypeOK
          /\ active = "update" => U!TypeOK
        BY StatusTyped, AlertsTyped, UpdateTyped DEF PartsInv
    <2>5. /\ active = "nodes" => N!TypeOK
          /\ active = "login" => L!TypeOK
        BY NodesHold, LoginTyped DEF PartsInv
    <2> QED
        BY <2>1, <2>2, <2>3, <2>4, <2>5 DEF TypeOK
<1> QED
    BY <1>1, PartsHold, PTL

\* However calls of the panel are lost, time out and are executed late: the
\* world's directory is never a mixture of two, and is missing only while the
\* archive that replaces it lies whole beside it; nobody plays on the one that
\* was moved away (lib/backups.ts:57-77, docker.ts:330-352).
THEOREM RestoresKeepTheWorld == Spec => []WorldKept
<1>1. PartsInv => WorldKept
    BY ServicesAssumption, BackupsHold DEF PartsInv, WorldKept
<1> QED
    BY <1>1, PartsHold, PTL

\* A backup listed as completed has its archive until somebody asks for its
\* deletion; a pass deletes none that has not Keep newer ones, and the schedule
\* fires once in a minute, though passes break off (lib/backups.ts:20-175).
THEOREM BackupsCanBeRestored == Spec => []BackupsKept
<1>1. PartsInv => BackupsKept
    BY ServicesAssumption, BackupsHold DEF PartsInv, BackupsKept
<1> QED
    BY <1>1, PartsHold, PTL

\* Once every command has been executed, each viewer the gateway listens to,
\* added since the last fault, is in the set the map holds while the log is
\* followed (gateway/src/index.ts:239-300, agent/src/index.ts:278-290).
THEOREM ConsoleServed == Spec => []Served
<1>1. PartsInv => Served
    BY ConsoleTyped DEF PartsInv, Served
<1> QED
    BY <1>1, PartsHold, PTL

\* Of a name no operation works on: a row means that the schema is there, and the
\* user with the row's password, unless its removal was broken off; no row means
\* that neither is there.  And the plan's limit is kept (lib/databases.ts).
THEOREM RowsAreTrue == Spec => []RowsTellTheHost
<1>1. PartsInv => RowsTellTheHost
    BY DatabasesTyped DEF PartsInv, RowsTellTheHost
<1> QED
    BY <1>1, PartsHold, PTL

\* What a form reported as saved stays until that very setting is saved again
\* (lib/game-settings.ts, api/servers/[serverId]/startup/route.ts).
THEOREM SavesStay == Spec => []SavedStays
<1>1. PartsInv => SavedStays
    BY SettingsTyped, StartupTyped DEF PartsInv, SavedStays
<1> QED
    BY <1>1, PartsHold, PTL

\* Servers live on and move to nodes that exist, and a drain that failed for
\* nobody leaves its node empty (admin/nodes/[nodeId]/route.ts).
THEOREM NodesAreAccounted == Spec => []NodesAccounted
<1>1. PartsInv => NodesAccounted
    BY NodesHold DEF PartsInv, NodesAccounted
<1> QED
    BY <1>1, PartsHold, PTL

\* A counter of attempts has a time to live, or a request that is about to set
\* it: nobody is kept from signing in for good (api/auth/login/route.ts:17-33).
THEOREM KeysRunOut == Spec => []KeyRunsOut
<1>1. PartsInv => KeyRunsOut
    BY DEF PartsInv, KeyRunsOut, LoginInv
<1> QED
    BY <1>1, PartsHold, PTL

\* Every minute sampled stays in the history until its hour expires, as itself
\* while it is younger than the retention (lib/metrics.ts:60-92).
THEOREM NoMinuteLost == Spec => []MinutesKept
<1>1. PartsInv => MinutesKept
    BY DEF PartsInv, MinutesKept, MetricsInv
<1> QED
    BY <1>1, PartsHold, PTL
=============================================================================
