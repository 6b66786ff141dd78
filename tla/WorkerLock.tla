------------------------------ MODULE WorkerLock ------------------------------
(***************************************************************************)
(* The Redis lock around a background pass (apps/worker/src/index.ts,      *)
(* withLock and every), with the pass it guards reduced to what two passes *)
(* could spoil for one another: a list read at the start, the work it      *)
(* lists done item by item (billing's renewals, scheduled backups).        *)
(*                                                                         *)
(* A pass is one invocation of withLock.  setInterval starts the next one  *)
(* whether or not the last has ended, so a process may run several; they   *)
(* share its WORKER_ID, which a restarted process draws anew.              *)
(***************************************************************************)
EXTENDS Naturals, FiniteSets

CONSTANTS
    Workers,   \* worker processes
    Slots,     \* passes one process may have under way
    Items,     \* what there is to do, each to be done once
    MaxLives,  \* a bound on the restarts of a process
    Admits,    \* the interactions of the code this instance explores
    NoPass

(***************************************************************************)
(*   slow    a pass outlives its lock's time to live                       *)
(*   crash   a worker process dies and is restarted                        *)
(***************************************************************************)
Interactions == {"slow", "crash"}

ASSUME LockAssumption ==
    /\ MaxLives \in Nat \ {0}
    /\ Admits \subseteq Interactions
    /\ NoPass \notin Workers \X Slots

VARIABLES
    life,    \* the restarts of each process
    lock,    \* worker:lock:<name>: the WORKER_ID it holds, and who set it
    pass,    \* what each pass is doing
    todo,    \* the list it has read
    done     \* how often each item has been done

vars == <<life, lock, pass, todo, done>>

Passes == Workers \X Slots
\* Mutant of WorkerId: the id names the host and survives a restart.
WorkerIdHost(p) == <<p[1], 0>>

WorkerId(p) == <<p[1], life[p[1]]>>
Free == [id |-> NoPass, by |-> NoPass]

Working == {"reading", "working"}

-----------------------------------------------------------------------------
Init ==
    /\ life = [w \in Workers |-> 1]
    /\ lock = Free
    /\ pass = [p \in Passes |-> "idle"]
    /\ todo = [p \in Passes |-> {}]
    /\ done = [i \in Items |-> 0]

\* Mutant of Acquire: SET without NX.
AcquireTaken(p) ==
    /\ pass[p] = "idle"
    /\ lock' = [id |-> WorkerId(p), by |-> p]
    /\ pass' = [pass EXCEPT ![p] = "reading"]
    /\ UNCHANGED <<life, todo, done>>

\* SET key WORKER_ID EX ttl NX.
Acquire(p) ==
    /\ pass[p] = "idle" /\ lock = Free
    /\ lock' = [id |-> WorkerId(p), by |-> p]
    /\ pass' = [pass EXCEPT ![p] = "reading"]
    /\ UNCHANGED <<life, todo, done>>

\* The pass: the items not yet done are read ...
Read(p) ==
    /\ pass[p] = "reading"
    /\ todo' = [todo EXCEPT ![p] = {i \in Items : done[i] = 0}]
    /\ pass' = [pass EXCEPT ![p] = "working"]
    /\ UNCHANGED <<life, lock, done>>

\* ... and done one after the other.
Work(p, i) ==
    /\ pass[p] = "working" /\ i \in todo[p]
    /\ done' = [done EXCEPT ![i] = @ + 1]
    /\ todo' = [todo EXCEPT ![p] = @ \ {i}]
    /\ UNCHANGED <<life, lock, pass>>

\* The pass ends, or throws with work left, which withLock logs.
Return(p) ==
    /\ pass[p] \in Working
    /\ pass' = [pass EXCEPT ![p] = "checking"]
    /\ todo' = [todo EXCEPT ![p] = {}]
    /\ UNCHANGED <<life, lock, done>>

\* GET key: whose lock is it?
Check(p) ==
    /\ pass[p] = "checking"
    /\ pass' = [pass EXCEPT ![p] = IF lock.id = WorkerId(p) THEN "releasing" ELSE "idle"]
    /\ UNCHANGED <<life, lock, todo, done>>

\* DEL key, whatever it holds by now.
Release(p) ==
    /\ pass[p] = "releasing"
    /\ lock' = Free
    /\ pass' = [pass EXCEPT ![p] = "idle"]
    /\ UNCHANGED <<life, todo, done>>

\* Redis does not answer: the key stays until it expires.
Unanswered(p) ==
    /\ "crash" \in Admits
    /\ pass[p] \in {"checking", "releasing"}
    /\ pass' = [pass EXCEPT ![p] = "idle"]
    /\ UNCHANGED <<life, lock, todo, done>>

\* The time to live runs out: of a lock whose owner has died or, if passes
\* may be slow, of any.
Abandoned == lock.by # NoPass /\ (lock.id # WorkerId(lock.by) \/ pass[lock.by] = "idle")

\* Mutant of Expire: SET without EX, the key never expires.
ExpireNever == FALSE /\ UNCHANGED vars

Expire ==
    /\ lock # Free
    /\ Abandoned \/ "slow" \in Admits
    /\ lock' = Free
    /\ UNCHANGED <<life, pass, todo, done>>

Crash(w) ==
    /\ "crash" \in Admits /\ life[w] < MaxLives
    /\ life' = [life EXCEPT ![w] = @ + 1]
    /\ pass' = [p \in Passes |-> IF p[1] = w THEN "idle" ELSE pass[p]]
    /\ todo' = [p \in Passes |-> IF p[1] = w THEN {} ELSE todo[p]]
    /\ UNCHANGED <<lock, done>>

PassStep(p) ==
    \/ Acquire(p) \/ Read(p) \/ \E i \in Items : Work(p, i)
    \/ Return(p) \/ Check(p) \/ Release(p)

Next ==
    \/ \E p \in Passes : PassStep(p) \/ Unanswered(p)
    \/ \E w \in Workers : Crash(w)
    \/ Expire

Spec == Init /\ [][Next]_vars

\* setInterval keeps starting passes and Redis expires keys; a pass that gets
\* its turn over and over does not fail at the same statement every time.
Fairness ==
    /\ \A p \in Passes : WF_vars(PassStep(p))
    /\ SF_vars(\E p \in Passes : Read(p))
    /\ \A i \in Items : SF_vars(\E p \in Passes : Work(p, i))
    /\ WF_vars(Expire)

FairSpec == Spec /\ Fairness

-----------------------------------------------------------------------------
(* Properties.                                                              *)

PassStates == {"idle", "checking", "releasing"} \cup Working
Ids == Workers \X (1..MaxLives)

TypeOK ==
    /\ life \in [Workers -> 1..MaxLives]
    /\ lock \in [id : Ids \cup {NoPass}, by : Passes \cup {NoPass}]
    /\ pass \in [Passes -> PassStates]
    /\ todo \in [Passes -> SUBSET Items]
    /\ done \in [Items -> Nat]

\* "without two of them billing the same customer twice" (index.ts:12-13): no
\* two passes of one name work at the same time ...
Exclusive ==
    \A p, q \in Passes : pass[p] \in Working /\ pass[q] \in Working => p = q

\* ... and nothing is done twice.
DoneOnce == \A i \in Items : done[i] <= 1

\* "a slow pass must not free a successor's" lock (index.ts:29): a key is
\* deleted only by the pass that set it.
ReleasesOwn ==
    [][\A p \in Passes : pass[p] = "releasing" /\ pass'[p] = "idle" /\ lock' # lock =>
        lock.by = p]_vars

\* "a crash mid-cycle costs at most one iteration" (index.ts:9-10): a lock
\* left by a dead worker does not stop the others for good, and what it left
\* undone is done.
EverythingDone == \A i \in Items : <>(done[i] >= 1)
=============================================================================
