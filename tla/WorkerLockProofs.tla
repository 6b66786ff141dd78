--------------------------- MODULE WorkerLockProofs ---------------------------
(***************************************************************************)
(* Proofs about WorkerLock: as long as no pass outlives its lock, the lock *)
(* excludes, whatever crashes and however many passes a process starts.    *)
(***************************************************************************)
EXTENDS WorkerLock, TLAPS

InTime == "slow" \notin Admits

\* A pass that is under way holds the lock, under its process's present id.
HoldsLock ==
    \A p \in Passes : pass[p] # "idle" => lock = [id |-> WorkerId(p), by |-> p]

\* What a working pass still has on its list has not been done.
ListFresh ==
    \A p \in Passes :
        /\ pass[p] # "working" => todo[p] = {}
        /\ \A i \in todo[p] : done[i] = 0

LockInv == TypeOK /\ HoldsLock /\ ListFresh /\ DoneOnce

-----------------------------------------------------------------------------
LEMMA LockType == TypeOK /\ [Next]_vars => TypeOK'
<1> SUFFICES ASSUME TypeOK, [Next]_vars
             PROVE  TypeOK'
    OBVIOUS
<1> USE LockAssumption DEF TypeOK, Passes, PassStates, Working, Ids, Free
<1>1. ASSUME NEW p \in Passes, Acquire(p)
      PROVE  TypeOK'
    BY <1>1 DEF Acquire, WorkerId
<1>2. ASSUME NEW p \in Passes, Read(p)
      PROVE  TypeOK'
    BY <1>2 DEF Read
<1>3. ASSUME NEW p \in Passes, NEW i \in Items, Work(p, i)
      PROVE  TypeOK'
    BY <1>3 DEF Work
<1>4. ASSUME NEW p \in Passes, Return(p) \/ Check(p) \/ Release(p) \/ Unanswered(p)
      PROVE  TypeOK'
    BY <1>4 DEF Return, Check, Release, Unanswered
<1>5. ASSUME NEW w \in Workers, Crash(w)
      PROVE  TypeOK'
    BY <1>5 DEF Crash
<1>6. CASE Expire \/ UNCHANGED vars
    BY <1>6 DEF Expire, vars
<1> QED
    BY <1>1, <1>2, <1>3, <1>4, <1>5, <1>6 DEF Next, PassStep

\* Two passes under way would both be the one that set the key.
LEMMA OneUnderWay ==
    ASSUME HoldsLock, NEW p \in Passes, NEW q \in Passes,
           pass[p] # "idle", pass[q] # "idle"
    PROVE  p = q
BY DEF HoldsLock

LEMMA LockStep == InTime /\ LockInv /\ [Next]_vars => LockInv'
<1> SUFFICES ASSUME InTime, LockInv, [Next]_vars
             PROVE  HoldsLock' /\ ListFresh' /\ DoneOnce'
    BY LockType DEF LockInv
<1>0. TypeOK /\ HoldsLock /\ ListFresh /\ DoneOnce
    BY DEF LockInv
<1>1. ASSUME NEW p \in Passes, Acquire(p)
      PROVE  HoldsLock' /\ ListFresh' /\ DoneOnce'
    <2>1. \A q \in Passes : pass[q] = "idle"
        <3> SUFFICES ASSUME NEW q \in Passes, pass[q] # "idle"
                     PROVE  FALSE
            OBVIOUS
        <3>1. lock.by = q /\ lock.by = NoPass
            BY <1>0, <1>1 DEF HoldsLock, Acquire, Free
        <3> QED
            BY <3>1, LockAssumption DEF Passes
    <2>2. HoldsLock'
        BY <1>0, <1>1, <2>1 DEF Acquire, HoldsLock, WorkerId, TypeOK
    <2>3. ListFresh' /\ DoneOnce'
        BY <1>0, <1>1, <2>1 DEF Acquire, ListFresh, DoneOnce, TypeOK
    <2> QED
        BY <2>2, <2>3
<1>2. ASSUME NEW p \in Passes, Read(p)
      PROVE  HoldsLock' /\ ListFresh' /\ DoneOnce'
    <2>1. HoldsLock'
        BY <1>0, <1>2 DEF Read, HoldsLock, WorkerId, TypeOK
    <2>2. ListFresh' /\ DoneOnce'
        BY <1>0, <1>2 DEF Read, ListFresh, DoneOnce, TypeOK
    <2> QED
        BY <2>1, <2>2
<1>3. ASSUME NEW p \in Passes, NEW i \in Items, Work(p, i)
      PROVE  HoldsLock' /\ ListFresh' /\ DoneOnce'
    <2>1. HoldsLock'
        BY <1>0, <1>3 DEF Work, HoldsLock, WorkerId
    <2>2. \A q \in Passes \ {p} : todo[q] = {}
        BY <1>0, <1>3, OneUnderWay DEF Work, ListFresh
    <2>3. done[i] = 0 /\ done' = [done EXCEPT ![i] = @ + 1]
          /\ todo' = [todo EXCEPT ![p] = @ \ {i}] /\ pass' = pass
        BY <1>0, <1>3 DEF Work, ListFresh
    <2>4. ListFresh'
        BY <1>0, <2>2, <2>3 DEF ListFresh, TypeOK
    <2>5. DoneOnce'
        BY <1>0, <2>3 DEF DoneOnce, TypeOK
    <2> QED
        BY <2>1, <2>4, <2>5
<1>4. ASSUME NEW p \in Passes, Return(p) \/ Check(p) \/ Unanswered(p)
      PROVE  HoldsLock' /\ ListFresh' /\ DoneOnce'
    <2>1. HoldsLock'
        BY <1>0, <1>4 DEF Return, Check, Unanswered, HoldsLock, WorkerId, TypeOK, Working
    <2>2. ListFresh' /\ DoneOnce'
        BY <1>0, <1>4 DEF Return, Check, Unanswered, ListFresh, DoneOnce, TypeOK, Working
    <2> QED
        BY <2>1, <2>2
<1>5. ASSUME NEW p \in Passes, Release(p)
      PROVE  HoldsLock' /\ ListFresh' /\ DoneOnce'
    <2>1. \A q \in Passes \ {p} : pass[q] = "idle"
        BY <1>0, <1>5, OneUnderWay DEF Release
    <2>2. HoldsLock'
        BY <1>0, <1>5, <2>1 DEF Release, HoldsLock, TypeOK
    <2>3. ListFresh' /\ DoneOnce'
        BY <1>0, <1>5 DEF Release, ListFresh, DoneOnce, TypeOK
    <2> QED
        BY <2>2, <2>3
<1>6. ASSUME NEW w \in Workers, Crash(w)
      PROVE  HoldsLock' /\ ListFresh' /\ DoneOnce'
    <2>1. HoldsLock'
        BY <1>0, <1>6 DEF Crash, HoldsLock, WorkerId, TypeOK
    <2>2. ListFresh' /\ DoneOnce'
        BY <1>0, <1>6 DEF Crash, ListFresh, DoneOnce, TypeOK
    <2> QED
        BY <2>1, <2>2
<1>7. CASE Expire
    <2>1. \A q \in Passes : pass[q] = "idle"
        BY <1>0, <1>7 DEF Expire, Abandoned, InTime, HoldsLock, WorkerId
    <2>2. HoldsLock'
        BY <1>7, <2>1 DEF Expire, HoldsLock
    <2>3. ListFresh' /\ DoneOnce'
        BY <1>0, <1>7 DEF Expire, ListFresh, DoneOnce
    <2> QED
        BY <2>2, <2>3
<1>8. CASE UNCHANGED vars
    BY <1>0, <1>8 DEF vars, HoldsLock, WorkerId, ListFresh, DoneOnce
<1> QED
    BY <1>1, <1>2, <1>3, <1>4, <1>5, <1>6, <1>7, <1>8 DEF Next, PassStep

\* While no pass outlives its lock, the key under worker:lock always names the
\* one pass that is under way, through crashes and lost answers.
THEOREM LockInvariant == InTime => (Spec => []LockInv)
<1> SUFFICES ASSUME InTime
             PROVE  Spec => []LockInv
    OBVIOUS
<1>1. Init => LockInv
    BY LockAssumption DEF Init, LockInv, TypeOK, HoldsLock, ListFresh, DoneOnce, Free,
        PassStates, Working, Ids
<1>2. LockInv /\ [Next]_vars => LockInv'
    BY LockStep
<1> QED
    BY <1>1, <1>2, PTL DEF Spec

\* withLock excludes: no two passes of one name, of the same or of different
\* workers, work at the same time.
THEOREM Exclusion == InTime => (Spec => []Exclusive)
<1>1. LockInv => Exclusive
    BY OneUnderWay DEF LockInv, Exclusive, Working
<1> QED
    BY <1>1, LockInvariant, PTL

\* Nothing on a pass's list is done twice: not by a replica, and not by the
\* pass that follows a crash.
THEOREM OnceEach == InTime => (Spec => []DoneOnce)
<1>1. LockInv => DoneOnce
    BY DEF LockInv
<1> QED
    BY <1>1, LockInvariant, PTL

\* The GET before the DEL is not atomic with it, but a pass in time deletes
\* only the key it has set.
THEOREM OwnRelease == InTime => (Spec => ReleasesOwn)
<1>1. LockInv /\ [Next]_vars =>
        [\A p \in Passes : pass[p] = "releasing" /\ pass'[p] = "idle" /\ lock' # lock =>
            lock.by = p]_vars
    BY DEF LockInv, HoldsLock
<1> QED
    BY <1>1, LockInvariant, PTL DEF Spec, ReleasesOwn
=============================================================================
