-------------------------- MODULE PlacementProofs --------------------------
(***************************************************************************)
(* Proofs about Placement, for every number of nodes, servers, movers and  *)
(* ports and every plan size.                                              *)
(***************************************************************************)
EXTENDS PlacementInv, FiniteSetTheorems, TLAPS

-----------------------------------------------------------------------------
(* The ledger's arithmetic.                                                 *)

\* The memory units of any set of servers are finitely many.
LEMMA UnitsFinite ==
    ASSUME NEW S
    PROVE  IsFiniteSet(Units(S))
<1>1. IsFiniteSet(1..MaxSize)
    BY FS_Interval, SizeAssumption
<1>2. IsFiniteSet(Servers \X (1..MaxSize))
    BY <1>1, FS_Product, SetsAssumption
<1>3. Units(S) \subseteq Servers \X (1..MaxSize)
    BY DEF Units
<1> QED
    BY <1>2, <1>3, FS_Subset

\* A load is a natural number (the SUM of recalculateNodeReservations).
LEMMA LoadType ==
    ASSUME NEW S
    PROVE  Load(S) \in Nat
BY UnitsFinite, FS_CardinalityType DEF Load

\* One server weighs its plan's size.
LEMMA LoadOne ==
    ASSUME NEW s \in Servers
    PROVE  Load({s}) = Size[s]
<1> DEFINE f == [i \in 1..Size[s] |-> <<s, i>>]
<1>1. Size[s] \in 1..MaxSize /\ Size[s] \in Nat
    BY SizeAssumption
<1>2. Units({s}) = {s} \X (1..Size[s])
    BY <1>1, SizeAssumption DEF Units
<1>3. f \in Bijection(1..Size[s], {s} \X (1..Size[s]))
    BY DEF Bijection, Injection, Surjection, IsInjective
<1>4. IsFiniteSet(1..Size[s]) /\ Cardinality(1..Size[s]) = Size[s]
    BY <1>1, FS_Interval
<1>5. ExistsBijection(1..Size[s], Units({s}))
    BY <1>2, <1>3 DEF ExistsBijection
<1> QED
    BY <1>4, <1>5, FS_Bijection DEF Load

\* A server that joins a set adds its size to the set's load.
LEMMA LoadAdd ==
    ASSUME NEW S, NEW s \in Servers, s \notin S
    PROVE  Load(S \cup {s}) = Load(S) + Size[s]
<1>1. Units(S \cup {s}) = Units(S) \cup Units({s})
    BY DEF Units
<1>2. Units(S) \cap Units({s}) = {}
    BY DEF Units
<1>3. Cardinality(Units(S) \cap Units({s})) = 0
    BY <1>2, FS_EmptySet
<1>4. Load(S \cup {s}) = Load(S) + Load({s}) - 0
    BY <1>1, <1>3, UnitsFinite, FS_Union DEF Load
<1> QED
    BY <1>4, LoadOne, LoadType, SizeAssumption

\* A server that leaves a set takes its size off the set's load.
LEMMA LoadRemove ==
    ASSUME NEW S, NEW s \in Servers, s \in S
    PROVE  /\ Load(S \ {s}) = Load(S) - Size[s]
           /\ Load(S) >= Size[s]
<1>1. Load((S \ {s}) \cup {s}) = Load(S \ {s}) + Size[s]
    BY LoadAdd
<1>2. (S \ {s}) \cup {s} = S
    OBVIOUS
<1>3. Size[s] \in Nat
    BY SizeAssumption
<1>4. Load(S) = Load(S \ {s}) + Size[s]
    BY <1>1, <1>2, Zenon
<1>5. Load(S \ {s}) \in Nat
    BY LoadType
<1> QED
    BY <1>3, <1>4, <1>5

\* A smaller set has no larger load.
LEMMA LoadMonotone ==
    ASSUME NEW S, NEW T, S \subseteq T
    PROVE  Load(S) <= Load(T)
<1>1. Units(S) \subseteq Units(T)
    BY DEF Units
<1> QED
    BY <1>1, UnitsFinite, FS_Subset DEF Load

\* Nothing weighs nothing.
LEMMA LoadEmpty == Load({}) = 0
<1>1. Units({}) = {}
    BY DEF Units
<1> QED
    BY <1>1, FS_EmptySet DEF Load

-----------------------------------------------------------------------------
(* Type correctness, whatever Admits allows.                                *)

LEMMA TypeInit == Init => TypeOK /\ AttemptLeft
<1> SUFFICES ASSUME Init PROVE TypeOK /\ AttemptLeft
    OBVIOUS
<1> USE DEF Init
<1>1. 0 \in Attempts
    BY BoundsAssumption DEF Attempts
<1>2. NoRow \in RowRecord
    BY <1>1 DEF NoRow, RowRecord, SomeNode
<1>3. buy \in [Servers -> BuyRecord]
    BY <1>1 DEF BuyRecord, BuyPC, BuyActive, SomeNode
<1>4. Resting({}) \in JobRecord
    BY <1>1 DEF Resting, JobRecord, JobPC, SomeNode
<1>5. total \in [Nodes -> Nat]
    BY BoundsAssumption
<1>6. sums \in [Nodes -> Nat \cup {NoSum}]
    OBVIOUS
<1>7. AttemptLeft
    BY DEF AttemptLeft
<1> QED
    BY <1>2, <1>3, <1>4, <1>5, <1>6, <1>7 DEF TypeOK, SomeNode

\* Releasing keeps a counter a natural number (GREATEST(0, ...)).
LEMMA ReleasedType ==
    ASSUME reserved \in [Nodes -> Nat], NEW s \in Servers, NEW n
    PROVE  Released(n, s) \in [Nodes -> Nat]
<1>1. Size[s] \in Nat
    BY SizeAssumption
<1>2. CASE n \in Nodes
    BY <1>1, <1>2 DEF Released
<1>3. CASE n \notin Nodes
    <2>1. Released(n, s) = reserved
        BY <1>3 DEF Released
    <2> QED
        BY <2>1
<1> QED
    BY <1>2, <1>3

LEMMA UnclaimedType ==
    ASSUME owner \in [Allocations -> Servers \cup {NoServer}], NEW s, NEW N
    PROVE  Unclaimed(s, N) \in [Allocations -> Servers \cup {NoServer}]
BY DEF Unclaimed

\* Setting a field of a purchase, a row or a job to a value of its type.
LEMMA BuyUpdate ==
    ASSUME NEW r \in BuyRecord
    PROVE  /\ \A p \in BuyPC : [r EXCEPT !.pc = p] \in BuyRecord
           /\ \A a \in Attempts : [r EXCEPT !.attempt = a] \in BuyRecord
           /\ \A T \in SUBSET Nodes : [r EXCEPT !.tried = T] \in BuyRecord
           /\ \A n \in SomeNode : [r EXCEPT !.node = n] \in BuyRecord
BY DEF BuyRecord

LEMMA RowUpdate ==
    ASSUME NEW r \in RowRecord
    PROVE  /\ \A n \in SomeNode : [r EXCEPT !.node = n] \in RowRecord
           /\ \A p \in {"none", "PROVISIONING", "OFFLINE", "DELETING"} :
                [r EXCEPT !.status = p] \in RowRecord
BY DEF RowRecord

LEMMA JobUpdate ==
    ASSUME NEW r \in JobRecord
    PROVE  /\ \A p \in JobPC : [r EXCEPT !.pc = p] \in JobRecord
           /\ \A n \in SomeNode : [r EXCEPT !.to = n] \in JobRecord
           /\ \A n \in SomeNode : [r EXCEPT !.rsv = n] \in JobRecord
           /\ \A T \in SUBSET (Servers \X Attempts) : [r EXCEPT !.todo = T] \in JobRecord
BY DEF JobRecord

\* Types are kept by the steps of a purchase ...
LEMMA TypeBuy ==
    ASSUME TypeOK, AttemptLeft, NEW s \in Servers,
           Order(s) \/ BuyStep(s) \/ BuyCrash(s)
    PROVE  TypeOK' /\ AttemptLeft'
<1> USE DEF TypeOK
<1>1. CASE Order(s)
    <2>1. buy' \in [Servers -> BuyRecord]
        BY BuyUpdate, <1>1 DEF Order, BuyPC, BuyActive
    <2>2. AttemptLeft'
        BY <1>1 DEF Order, AttemptLeft
    <2> QED
        BY <1>1, <2>1, <2>2 DEF Order
<1>2. CASE Reserve(s)
    <2>1. PICK n \in Candidates(s, buy[s].tried) : \E a \in FreePorts(n) :
            /\ reserved' = [reserved EXCEPT ![n] = @ + Size[s]]
            /\ row' = [row EXCEPT ![s] = [status |-> "PROVISIONING", node |-> n,
                                          attempt |-> buy[s].attempt + 1]]
            /\ owner' = [owner EXCEPT ![a] = s]
            /\ order' = [order EXCEPT ![s] = "PROVISIONED"]
            /\ buy' = [buy EXCEPT ![s].pc = "building", ![s].node = n,
                                  ![s].tried = @ \cup {n}]
        BY <1>2 DEF Reserve
    <2>2. n \in Nodes /\ Size[s] \in Nat
        BY SizeAssumption DEF Candidates
    <2>3. buy[s].attempt + 1 \in Attempts /\ buy[s].attempt < MaxAttempts
        BY <1>2, BoundsAssumption DEF Reserve, Placing, Attempts, BuyRecord
    <2>4. row' \in [Servers -> RowRecord]
        BY <2>1, <2>2, <2>3 DEF RowRecord, SomeNode
    <2>5. buy' \in [Servers -> BuyRecord]
        <3> DEFINE r1 == [buy[s] EXCEPT !.pc = "building"]
                   r2 == [r1 EXCEPT !.node = n]
                   r3 == [r2 EXCEPT !.tried = buy[s].tried \cup {n}]
        <3>1. "building" \in BuyPC /\ n \in SomeNode
            BY <2>2 DEF BuyPC, BuyActive, SomeNode
        <3>2. r2 \in BuyRecord
            BY <3>1, BuyUpdate
        <3>3. r3 \in BuyRecord
            BY <2>2, <3>2, BuyUpdate DEF BuyRecord
        <3>4. buy' = [buy EXCEPT ![s] = r3]
            BY <2>1 DEF BuyRecord
        <3> QED
            BY <3>3, <3>4
    <2>6. AttemptLeft'
        BY <2>1, <2>3 DEF AttemptLeft, BuyRecord
    <2>7. reserved' \in [Nodes -> Nat]
        BY <2>1, <2>2
    <2>8. owner' \in [Allocations -> Servers \cup {NoServer}]
        BY <2>1
    <2>9. order' \in [Servers -> {"none", "PAID", "PROVISIONED", "PENDING", "FAILED"}]
        BY <2>1
    <2> QED
        BY <1>2, <2>4, <2>5, <2>6, <2>7, <2>8, <2>9 DEF Reserve
<1>3. CASE NoCapacity(s)
    <2>1. buy' \in [Servers -> BuyRecord]
        BY <1>3 DEF NoCapacity, BuyRecord, BuyPC, BuyActive
    <2>2. AttemptLeft'
        BY <1>3 DEF NoCapacity, AttemptLeft
    <2> QED
        BY <1>3, <2>1, <2>2 DEF NoCapacity
<1>4. CASE NoAllocation(s)
    <2>1. buy[s].attempt + 1 \in Attempts
        BY <1>4, BoundsAssumption DEF NoAllocation, Placing, Attempts, BuyRecord
    <2>2. buy' \in [Servers -> BuyRecord]
        BY <1>4, <2>1 DEF NoAllocation, BuyRecord
    <2>3. AttemptLeft'
        BY <1>4 DEF NoAllocation, Placing, AttemptLeft, BuyRecord
    <2> QED
        BY <1>4, <2>2, <2>3 DEF NoAllocation
<1>5. CASE GiveUp(s)
    <2>1. buy' \in [Servers -> BuyRecord]
        BY BuyUpdate, <1>5 DEF GiveUp, BuyPC, BuyActive
    <2>2. AttemptLeft'
        BY <1>5 DEF GiveUp, AttemptLeft
    <2> QED
        BY <1>5, <2>1, <2>2 DEF GiveUp
<1>6. CASE BuildSucceeds(s)
    <2>1. buy' \in [Servers -> BuyRecord]
        BY <1>6 DEF BuildSucceeds, BuyRecord, BuyPC, BuyActive
    <2>2. AttemptLeft'
        BY <1>6 DEF BuildSucceeds, AttemptLeft, BuyRecord
    <2>3. row' \in [Servers -> RowRecord]
        BY <1>6 DEF BuildSucceeds, RowRecord
    <2> QED
        BY <1>6, <2>1, <2>2, <2>3 DEF BuildSucceeds
<1>7. CASE Recorded(s)
    <2>1. buy' \in [Servers -> BuyRecord]
        BY BuyUpdate, <1>7 DEF Recorded, BuyPC, BuyActive
    <2>2. AttemptLeft'
        BY <1>7 DEF Recorded, AttemptLeft
    <2> QED
        BY <1>7, <2>1, <2>2 DEF Recorded
<1>8. CASE BuildFails(s)
    <2>1. buy[s].attempt + 1 \in Attempts
        BY <1>8, BoundsAssumption DEF BuildFails, Attempts, BuyRecord, AttemptLeft
    <2>2. buy' \in [Servers -> BuyRecord]
        <3> DEFINE r1 == [buy[s] EXCEPT !.pc = "placing"]
                   r2 == [r1 EXCEPT !.attempt = buy[s].attempt + 1]
                   r3 == [r2 EXCEPT !.node = NoNode]
        <3>1. "placing" \in BuyPC /\ NoNode \in SomeNode
            BY DEF BuyPC, BuyActive, SomeNode
        <3>2. r3 \in BuyRecord
            BY <2>1, <3>1, BuyUpdate
        <3>3. buy' = [buy EXCEPT ![s] = r3]
            BY <1>8 DEF BuildFails, BuyRecord
        <3> QED
            BY <3>2, <3>3
    <2>3. AttemptLeft'
        BY <1>8 DEF BuildFails, AttemptLeft, BuyRecord
    <2>4. NoRow \in RowRecord
        BY BoundsAssumption DEF NoRow, RowRecord, SomeNode, Attempts
    <2> QED
        BY <1>8, <2>2, <2>3, <2>4, ReleasedType, UnclaimedType DEF BuildFails
<1>9. CASE BuyCrash(s)
    <2>1. buy' \in [Servers -> BuyRecord]
        BY <1>9 DEF BuyCrash, BuyRecord, BuyPC, BuyActive
    <2>2. AttemptLeft'
        BY <1>9 DEF BuyCrash, AttemptLeft
    <2> QED
        BY <1>9, <2>1, <2>2 DEF BuyCrash
<1> QED
    BY <1>1, <1>2, <1>3, <1>4, <1>5, <1>6, <1>7, <1>8, <1>9 DEF BuyStep

\* ... of a deletion ...
LEMMA TypeDel ==
    ASSUME TypeOK, AttemptLeft, NEW s \in Servers,
           DeleteStart(s) \/ DeleteCommit(s) \/ DeleteCrash(s)
    PROVE  TypeOK' /\ AttemptLeft'
<1> USE DEF TypeOK, AttemptLeft
<1>1. CASE DeleteStart(s)
    <2>1. row' \in [Servers -> RowRecord]
        BY <1>1 DEF DeleteStart, RowRecord
    <2>2. del' \in [Servers -> SomeNode]
        BY <1>1 DEF DeleteStart, RowRecord
    <2> QED
        BY <1>1, <2>1, <2>2 DEF DeleteStart
<1>2. CASE DeleteCommit(s)
    <2>1. NoRow \in RowRecord
        BY BoundsAssumption DEF NoRow, RowRecord, SomeNode, Attempts
    <2>2. del' \in [Servers -> SomeNode]
        BY <1>2 DEF DeleteCommit, SomeNode
    <2> QED
        BY <1>2, <2>1, <2>2, ReleasedType, UnclaimedType DEF DeleteCommit
<1>3. CASE DeleteCrash(s)
    BY <1>3 DEF DeleteCrash, SomeNode
<1> QED
    BY <1>1, <1>2, <1>3

\* A job at rest and a job just queued are well typed.
LEMMA RestingType ==
    ASSUME NEW T \in SUBSET (Servers \X Attempts)
    PROVE  Resting(T) \in JobRecord
<1>1. 0 \in Attempts
    BY BoundsAssumption DEF Attempts
<1> QED
    BY <1>1 DEF Resting, JobRecord, JobPC, SomeNode

LEMMA QueuedType ==
    ASSUME TypeOK, JobServer, NEW m \in Movers, NEW s \in Servers, NEW target \in SomeNode,
           NEW T \in SUBSET (Servers \X Attempts), Queued(m, s, target, T)
    PROVE  job' \in [Movers -> JobRecord] /\ JobServer'
<1>1. /\ row[s].attempt \in Attempts
      /\ row[s].node \in SomeNode
    BY DEF TypeOK, RowRecord
<1> DEFINE r == [pc |-> "queued", server |-> s, attempt |-> row[s].attempt,
                 from |-> row[s].node,
                 to |-> IF target = NoNode THEN row[s].node ELSE target,
                 target |-> target, rsv |-> NoNode, todo |-> T]
<1>2. r \in JobRecord
    BY <1>1 DEF JobRecord, JobPC, SomeNode
<1>3. job' = [job EXCEPT ![m] = r]
    BY DEF Queued
<1>4. job' \in [Movers -> JobRecord]
    BY <1>2, <1>3 DEF TypeOK
<1>5. JobServer'
    BY <1>3 DEF TypeOK, JobServer, Busy
<1> QED
    BY <1>4, <1>5

\* ... of a migration or a drain ...
LEMMA TypeMove ==
    ASSUME TypeOK, JobServer, NEW m \in Movers,
           \/ \E s \in Servers : Migrate(m, s)
           \/ \E n \in Nodes : Drain(m, n)
           \/ MoveStep(m) \/ LateFailure(m) \/ MoveCrash(m)
    PROVE  TypeOK' /\ JobServer'
<1>1. job[m] \in JobRecord /\ job[m].todo \in SUBSET (Servers \X Attempts)
    BY DEF TypeOK, JobRecord
<1> DEFINE JobsOK == job' \in [Movers -> JobRecord] /\ JobServer'
<1>2. ASSUME NEW T \in SUBSET (Servers \X Attempts), job' = [job EXCEPT ![m] = Resting(T)]
      PROVE  JobsOK
    BY <1>2, RestingType DEF TypeOK, JobServer, Busy, Resting
<1>3. ASSUME NEW p \in JobPC, job' = [job EXCEPT ![m].pc = p], Busy(m)
      PROVE  JobsOK
    <2>1. [job[m] EXCEPT !.pc = p] \in JobRecord
        BY <1>1, JobUpdate
    <2>2. job' \in [Movers -> JobRecord]
        BY <1>3, <2>1 DEF TypeOK
    <2>3. JobServer'
        BY <1>3 DEF TypeOK, JobServer, Busy, JobRecord
    <2> QED
        BY <2>2, <2>3
<1>4. ASSUME NEW s \in Servers, Migrate(m, s)
      PROVE  TypeOK' /\ JobServer'
    <2>1. PICK target \in SomeNode : Queued(m, s, target, {})
        BY <1>4 DEF Migrate, SomeNode
    <2> QED
        BY <1>4, <2>1, QueuedType DEF Migrate, TypeOK
<1>5. ASSUME NEW n \in Nodes, Drain(m, n)
      PROVE  TypeOK' /\ JobServer'
    <2> DEFINE T == {<<s, row[s].attempt>> : s \in Located(n)}
    <2>1. T \in SUBSET (Servers \X Attempts)
        BY DEF TypeOK, RowRecord, Located
    <2>2. [job[m] EXCEPT !.todo = T] \in JobRecord
        BY <1>1, <2>1, JobUpdate
    <2>3. job' = [job EXCEPT ![m] = [job[m] EXCEPT !.todo = T]]
        BY <1>5 DEF Drain
    <2>4. job' \in [Movers -> JobRecord]
        BY <2>2, <2>3 DEF TypeOK
    <2>5. JobServer'
        BY <1>5 DEF Drain, JobServer, Busy, TypeOK, JobRecord
    <2> QED
        BY <1>5, <2>4, <2>5 DEF Drain, TypeOK
<1>6. CASE DrainNext(m)
    <2>1. PICK x \in job[m].todo :
            IF Present(x[1]) /\ row[x[1]].attempt = x[2]
            THEN Queued(m, x[1], NoNode, job[m].todo \ {x})
            ELSE job' = [job EXCEPT ![m].todo = @ \ {x}]
        BY <1>6 DEF DrainNext
    <2>2. /\ x[1] \in Servers
          /\ job[m].todo \ {x} \in SUBSET (Servers \X Attempts)
        BY <1>1
    <2>3. CASE Queued(m, x[1], NoNode, job[m].todo \ {x})
        <3>1. NoNode \in SomeNode
            BY DEF SomeNode
        <3> QED
            BY <1>6, <2>2, <2>3, <3>1, QueuedType DEF DrainNext, TypeOK
    <2>4. CASE job' = [job EXCEPT ![m].todo = @ \ {x}]
        <3>1. [job[m] EXCEPT !.todo = job[m].todo \ {x}] \in JobRecord
            BY <1>1, <2>2, JobUpdate
        <3>2. job' \in [Movers -> JobRecord]
            BY <2>4, <3>1 DEF TypeOK
        <3>3. JobServer'
            BY <2>4 DEF JobServer, Busy, TypeOK, JobRecord
        <3> QED
            BY <1>6, <3>2, <3>3 DEF DrainNext, TypeOK
    <2> QED
        BY <2>1, <2>3, <2>4
<1>7. CASE MoveReserve(m)
    <2>1. PICK n \in Candidates(job[m].server, {job[m].from}) :
            /\ reserved' = [reserved EXCEPT ![n] = @ + Size[job[m].server]]
            /\ job' = [job EXCEPT ![m].pc = "copying", ![m].to = n, ![m].rsv = n]
        BY <1>7 DEF MoveReserve
    <2> DEFINE r1 == [job[m] EXCEPT !.pc = "copying"]
               r2 == [r1 EXCEPT !.to = n]
               r3 == [r2 EXCEPT !.rsv = n]
    <2>2. n \in Nodes /\ n \in SomeNode /\ "copying" \in JobPC
        BY DEF Candidates, TypeOK, SomeNode, JobPC
    <2>3. r3 \in JobRecord
        BY <1>1, <2>2, JobUpdate
    <2>4. job' = [job EXCEPT ![m] = r3]
        BY <2>1 DEF TypeOK, JobRecord
    <2>5. job' \in [Movers -> JobRecord]
        BY <2>3, <2>4 DEF TypeOK
    <2>6. job[m].server \in Servers /\ Busy(m)
        BY <1>7 DEF MoveReserve, JobServer, Busy
    <2>7. reserved' \in [Nodes -> Nat]
        BY <2>1, <2>2, <2>6, SizeAssumption DEF TypeOK
    <2>8. JobServer'
        BY <2>1, <2>6 DEF JobServer, Busy, TypeOK, JobRecord
    <2> QED
        BY <1>7, <2>5, <2>7, <2>8 DEF MoveReserve, TypeOK
<1>8. CASE MoveRefused(m) \/ MoveFails(m) \/ LateFailure(m)
    <2>1. JobsOK
        BY <1>3, <1>8 DEF MoveRefused, MoveFails, LateFailure, JobPC, Busy
    <2> QED
        BY <1>8, <2>1 DEF MoveRefused, MoveFails, LateFailure, TypeOK
<1>9. CASE Claim(m)
    <2>1. JobsOK
        BY <1>3, <1>9 DEF Claim, JobPC, Busy
    <2>2. owner' \in [Allocations -> Servers \cup {NoServer}]
        BY <1>9 DEF Claim, TypeOK, JobServer, Busy
    <2> QED
        BY <1>9, <2>1, <2>2 DEF Claim, TypeOK
<1>10. CASE Switch(m)
    <2> DEFINE s == job[m].server
               r1 == [row[s] EXCEPT !.node = job[m].rsv]
               r2 == [r1 EXCEPT !.status = "OFFLINE"]
    <2>1. JobsOK
        BY <1>3, <1>10 DEF Switch, JobPC, Busy
    <2>2. s \in Servers /\ row[s] \in RowRecord /\ job[m].rsv \in SomeNode
        BY <1>1, <1>10 DEF Switch, JobServer, Busy, TypeOK, JobRecord
    <2>3. r2 \in RowRecord
        BY <2>2, RowUpdate
    <2>4. row' = [row EXCEPT ![s] = r2]
        BY <1>10, <2>2 DEF Switch, TypeOK, RowRecord
    <2>5. row' \in [Servers -> RowRecord]
        BY <2>3, <2>4 DEF TypeOK
    <2> QED
        BY <1>10, <2>1, <2>2, <2>5, ReleasedType, UnclaimedType DEF Switch, TypeOK
<1>11. CASE Completed(m)
    <2>1. JobsOK
        BY <1>1, <1>2, <1>11 DEF Completed
    <2> QED
        BY <1>11, <2>1 DEF Completed, TypeOK
<1>12. CASE UnwindPorts(m)
    <2>1. JobsOK
        BY <1>1, <1>2, <1>3, <1>12 DEF UnwindPorts, JobPC, Busy
    <2> QED
        BY <1>12, <2>1, UnclaimedType DEF UnwindPorts, TypeOK
<1>13. CASE UnwindLedger(m)
    <2>1. JobsOK
        BY <1>1, <1>2, <1>13 DEF UnwindLedger
    <2>2. job[m].server \in Servers
        BY <1>13 DEF UnwindLedger, JobServer, Busy
    <2> QED
        BY <1>13, <2>1, <2>2, ReleasedType DEF UnwindLedger, TypeOK
<1>14. CASE MoveCrash(m)
    <2>1. JobsOK
        BY <1>2, <1>14 DEF MoveCrash
    <2> QED
        BY <1>14, <2>1 DEF MoveCrash, TypeOK
<1> QED
    BY <1>4, <1>5, <1>6, <1>7, <1>8, <1>9, <1>10, <1>11, <1>12, <1>13, <1>14 DEF MoveStep

\* ... and of a node.
LEMMA TypeNode ==
    ASSUME TypeOK, NEW n \in Nodes,
           \/ Toggle(n) \/ SumRows(n) \/ Recalculate(n)
           \/ \E c \in Totals : Resize(n, c)
    PROVE  TypeOK'
<1>1. CASE Toggle(n)
    BY <1>1 DEF Toggle, TypeOK
<1>2. CASE SumRows(n)
    BY <1>2, LoadType DEF SumRows, TypeOK
<1>3. CASE Recalculate(n)
    <2>1. sums[n] \in Nat
        BY <1>3 DEF Recalculate, TypeOK
    <2> QED
        BY <1>3, <2>1 DEF Recalculate, TypeOK
<1>4. ASSUME NEW c \in Totals, Resize(n, c)
      PROVE  TypeOK'
    BY <1>4, BoundsAssumption DEF Resize, TypeOK
<1> QED
    BY <1>1, <1>2, <1>3, <1>4

LEMMA TypeStep == TypeInv /\ [Next]_vars => TypeInv'
<1> SUFFICES ASSUME TypeInv, [Next]_vars
             PROVE  TypeInv'
    OBVIOUS
<1> USE DEF TypeInv
<1>1. ASSUME NEW s \in Servers, Order(s) \/ BuyStep(s) \/ BuyCrash(s)
      PROVE  TypeInv'
    <2>1. job' = job
        BY <1>1 DEF Order, BuyStep, BuyCrash, Reserve, NoCapacity, NoAllocation,
                    GiveUp, BuildSucceeds, Recorded, BuildFails
    <2> QED
        BY <1>1, <2>1, TypeBuy DEF JobServer, Busy
<1>2. ASSUME NEW s \in Servers, DeleteStart(s) \/ DeleteCommit(s) \/ DeleteCrash(s)
      PROVE  TypeInv'
    <2>1. job' = job
        BY <1>2 DEF DeleteStart, DeleteCommit, DeleteCrash
    <2> QED
        BY <1>2, <2>1, TypeDel DEF JobServer, Busy
<1>3. ASSUME NEW m \in Movers,
             \/ \E s \in Servers : Migrate(m, s)
             \/ \E n \in Nodes : Drain(m, n)
             \/ MoveStep(m) \/ LateFailure(m) \/ MoveCrash(m)
      PROVE  TypeInv'
    <2>1. buy' = buy
        BY <1>3 DEF Migrate, Drain, MoveStep, LateFailure, MoveCrash, DrainNext,
                    MoveReserve, MoveRefused, Claim, Switch, MoveFails, Completed,
                    UnwindPorts, UnwindLedger
    <2> QED
        BY <1>3, <2>1, TypeMove DEF AttemptLeft
<1>4. ASSUME NEW n \in Nodes,
             \/ Toggle(n) \/ SumRows(n) \/ Recalculate(n)
             \/ \E c \in Totals : Resize(n, c)
      PROVE  TypeInv'
    <2>1. buy' = buy /\ job' = job
        BY <1>4 DEF Toggle, SumRows, Recalculate, Resize
    <2> QED
        BY <1>4, <2>1, TypeNode DEF AttemptLeft, JobServer, Busy
<1>5. CASE UNCHANGED vars
    BY <1>5 DEF vars, TypeOK, AttemptLeft, JobServer, Busy
<1> QED
    BY <1>1, <1>2, <1>3, <1>4, <1>5 DEF Next

\* Every variable keeps its type, whatever Admits allows: no purchase spends
\* more attempts than the loop of provisionServer has, and no counter becomes
\* negative (releaseCapacity's GREATEST).
THEOREM TypeCorrect == Spec => []TypeOK
<1>1. Init => TypeInv
    BY TypeInit DEF TypeInv, Init, JobServer, Busy, Resting
<1>2. TypeInv /\ [Next]_vars => TypeInv'
    BY TypeStep
<1>3. TypeInv => TypeOK
    BY DEF TypeInv
<1> QED
    BY <1>1, <1>2, <1>3, PTL DEF Spec

-----------------------------------------------------------------------------
(* One operation per server: no interaction of Admits is switched on.       *)

Calm == Admits = {}

LEMMA StructureInit == Init => Structure
BY DEF Init, Structure, BuyInv, DelInv, JobInv, OneMover, NoSums, Present, NoRow,
       Busy, Resting

\* A step on a server that nobody migrates disturbs no migration.
LEMMA JobFrame ==
    ASSUME TypeInv, JobInv, OneMover, NEW s \in Servers,
           \A m \in Movers : Busy(m) => job[m].server # s,
           job' = job,
           \A z \in Servers \ {s} : row'[z] = row[z] /\ buy'[z] = buy[z]
    PROVE  JobInv' /\ OneMover'
<1>1. ASSUME NEW m \in Movers, Busy(m)
      PROVE  JobShape(m)'
    <2>1. job[m].server \in Servers \ {s} /\ JobShape(m)
        BY <1>1 DEF JobInv, TypeInv, JobServer
    <2> QED
        BY <2>1 DEF JobShape, Live, Present
<1>2. OneMover'
    BY DEF OneMover, Busy
<1> QED
    BY <1>1, <1>2 DEF JobInv, Busy

\* A migration's step on its own server disturbs no other migration.
LEMMA MoveFrame ==
    ASSUME TypeInv, JobInv, OneMover, NEW m \in Movers, NEW s \in Servers,
           \A k \in Movers \ {m} : job'[k] = job[k],
           \A k \in Movers \ {m} : Busy(k) => job[k].server # s,
           \A z \in Servers \ {s} : row'[z] = row[z],
           buy' = buy,
           Busy(m)' => job'[m].server = s /\ JobShape(m)'
    PROVE  JobInv' /\ OneMover'
<1>1. ASSUME NEW k \in Movers \ {m}, Busy(k)
      PROVE  JobShape(k)'
    <2>1. job[k].server \in Servers \ {s} /\ JobShape(k)
        BY <1>1 DEF JobInv, TypeInv, JobServer
    <2> QED
        BY <2>1 DEF JobShape, Live, Present
<1>2. OneMover'
    BY DEF OneMover, Busy
<1> QED
    BY <1>1, <1>2 DEF JobInv, Busy

\* Every purchase under way has its server to itself.
LEMMA BuyAlone ==
    ASSUME Structure, NEW s \in Servers, buy[s].pc # "done"
    PROVE  /\ \A m \in Movers : Busy(m) => job[m].server # s
           /\ del[s] = NoNode
BY DEF Structure, JobInv, JobShape, DelInv

LEMMA StructureBuy ==
    ASSUME Calm, TypeInv, TypeInv', Structure, NEW s \in Servers,
           Order(s) \/ BuyStep(s) \/ BuyCrash(s)
    PROVE  Structure'
<1>1. buy[s].pc # "done" /\ ~BuyCrash(s)
    BY DEF Calm, Order, BuyStep, BuyCrash, Reserve, NoCapacity, NoAllocation, GiveUp,
           BuildSucceeds, Recorded, BuildFails, Placing
<1>2. /\ \A m \in Movers : Busy(m) => job[m].server # s
      /\ del[s] = NoNode
    BY <1>1, BuyAlone
<1>3. /\ job' = job /\ del' = del /\ sums' = sums
      /\ \A z \in Servers \ {s} : row'[z] = row[z] /\ buy'[z] = buy[z]
    BY <1>1 DEF Order, BuyStep, Reserve, NoCapacity, NoAllocation, GiveUp,
           BuildSucceeds, Recorded, BuildFails, TypeInv, TypeOK
<1>4. JobInv' /\ OneMover'
    BY <1>2, <1>3, JobFrame DEF Structure
<1>5. DelInv'
    BY <1>2, <1>3 DEF Structure, DelInv, Moving, Present
<1>6. NoSums'
    BY <1>3 DEF Structure, NoSums
<1>7. ASSUME NEW z \in Servers \ {s}
      PROVE  /\ buy'[z].pc # "dead"
             /\ buy'[z].pc \in {"building", "recorded"} =>
                    Present(z)' /\ row'[z].node = buy'[z].node
             /\ buy'[z].pc \in {"new", "placing", "refused", "failed"} => ~Present(z)'
             /\ Present(z)' => row'[z].node \in Nodes
    BY <1>3 DEF Structure, BuyInv, Present
<1> DEFINE Mine == /\ buy'[s].pc # "dead"
                   /\ buy'[s].pc \in {"building", "recorded"} =>
                          Present(s)' /\ row'[s].node = buy'[s].node
                   /\ buy'[s].pc \in {"new", "placing", "refused", "failed"} => ~Present(s)'
                   /\ Present(s)' => row'[s].node \in Nodes
<1>8. Mine
    <2> USE DEF Structure, BuyInv, Present, TypeInv, TypeOK, BuyRecord, RowRecord
    <2>1. CASE Order(s)
        BY <2>1 DEF Order
    <2>2. CASE Reserve(s)
        <3>1. PICK n \in Candidates(s, buy[s].tried) :
                /\ row' = [row EXCEPT ![s] = [status |-> "PROVISIONING", node |-> n,
                                              attempt |-> buy[s].attempt + 1]]
                /\ buy' = [buy EXCEPT ![s].pc = "building", ![s].node = n,
                                      ![s].tried = @ \cup {n}]
            BY <2>2 DEF Reserve
        <3>2. n \in Nodes
            BY DEF Candidates
        <3> QED
            BY <3>1, <3>2
    <2>3. CASE NoCapacity(s) \/ NoAllocation(s) \/ GiveUp(s)
        BY <2>3 DEF NoCapacity, NoAllocation, GiveUp, Placing
    <2>4. CASE BuildSucceeds(s)
        BY <2>4 DEF BuildSucceeds
    <2>5. CASE Recorded(s)
        BY <2>5 DEF Recorded
    <2>6. CASE BuildFails(s)
        BY <2>6 DEF BuildFails, NoRow
    <2> QED
        BY <1>1, <2>1, <2>2, <2>3, <2>4, <2>5, <2>6 DEF BuyStep
<1>9. BuyInv'
    BY <1>7, <1>8 DEF BuyInv
<1> QED
    BY <1>4, <1>5, <1>6, <1>9 DEF Structure

LEMMA StructureDel ==
    ASSUME Calm, TypeInv, Structure, NEW s \in Servers,
           DeleteStart(s) \/ DeleteCommit(s) \/ DeleteCrash(s)
    PROVE  Structure'
<1> USE DEF Structure
<1>1. ~DeleteCrash(s)
    BY DEF Calm, DeleteCrash
<1>2. \A m \in Movers : Busy(m) => job[m].server # s
    BY <1>1 DEF Calm, DeleteStart, DeleteCommit, MayStart, Idle, Moving, Busy, DelInv
<1>3. buy[s].pc = "done" /\ Present(s)
    BY <1>1 DEF DeleteStart, DeleteCommit, DelInv, BuyInv
<1>4. /\ buy' = buy /\ job' = job /\ sums' = sums
      /\ \A z \in Servers \ {s} : row'[z] = row[z] /\ del'[z] = del[z]
    BY <1>1 DEF DeleteStart, DeleteCommit, TypeInv, TypeOK
<1>5. JobInv' /\ OneMover'
    BY <1>2, <1>4, JobFrame
<1>6. NoSums'
    BY <1>4 DEF NoSums
<1>7. BuyInv'
    <2>1. Present(s)' => row'[s].node = row[s].node
        BY <1>1 DEF DeleteStart, DeleteCommit, Present, NoRow, TypeInv, TypeOK, RowRecord
    <2> QED
        BY <1>3, <1>4, <2>1 DEF BuyInv, Present
<1>8. DelInv'
    <2>1. del'[s] # NoNode => Present(s)' /\ row'[s].node = del'[s]
        BY <1>1 DEF DeleteStart, DeleteCommit, Present, TypeInv, TypeOK, RowRecord
    <2>2. ~Moving(s)'
        BY <1>2, <1>4 DEF Moving, Busy
    <2>3. ASSUME NEW z \in Servers \ {s}, del'[z] # NoNode
          PROVE  Present(z)' /\ row'[z].node = del'[z] /\ buy'[z].pc = "done" /\ ~Moving(z)'
        BY <1>4, <2>3 DEF DelInv, Present, Moving
    <2> QED
        BY <1>3, <1>4, <2>1, <2>2, <2>3 DEF DelInv
<1> QED
    BY <1>5, <1>6, <1>7, <1>8

\* A migration keeps the structure if its own part of it is right: it may
\* move its server's row, and nobody else works on that server.
LEMMA StructureMoveFrame ==
    ASSUME TypeInv, Structure, NEW m \in Movers, NEW s \in Servers,
           \A k \in Movers \ {m} : job'[k] = job[k],
           \A k \in Movers \ {m} : Busy(k) => job[k].server # s,
           \A z \in Servers \ {s} : row'[z] = row[z],
           buy' = buy, del' = del, sums' = sums,
           del[s] = NoNode, buy[s].pc = "done",
           Present(s)' => row'[s].node \in Nodes,
           Busy(m) => job[m].server = s,
           Busy(m)' => job'[m].server = s /\ JobShape(m)'
    PROVE  Structure'
<1> USE DEF Structure
<1>1. JobInv' /\ OneMover'
    BY MoveFrame
<1>2. NoSums'
    BY DEF NoSums
<1>3. BuyInv'
    BY DEF BuyInv, Present
<1>4. ASSUME NEW z \in Servers, del'[z] # NoNode
      PROVE  Present(z)' /\ row'[z].node = del'[z] /\ buy'[z].pc = "done" /\ ~Moving(z)'
    <2>1. z # s /\ del[z] # NoNode
        BY <1>4
    <2>2. ~Moving(z)'
        BY <2>1 DEF DelInv, Moving, Busy
    <2> QED
        BY <2>1, <2>2 DEF DelInv, Present
<1>5. DelInv'
    BY <1>4 DEF DelInv
<1> QED
    BY <1>1, <1>2, <1>3, <1>5

\* A migration starts on an idle server that has a row.
LEMMA StructureQueued ==
    ASSUME Calm, TypeInv, Structure, NEW m \in Movers, NEW s \in Servers, ~Busy(m),
           Present(s), NEW T, Queued(m, s, NoNode, T),
           row' = row, buy' = buy, del' = del, sums' = sums
    PROVE  Structure'
<1> USE DEF Structure
<1>1. Idle(s)
    BY DEF Queued, MayStart, Calm
<1>2. buy[s].pc = "done" /\ del[s] = NoNode /\ row[s].node \in Nodes
    BY <1>1 DEF Idle, BuyActive, BuyInv, TypeInv, TypeOK, BuyRecord, BuyPC
<1>3. \A k \in Movers \ {m} : job'[k] = job[k] /\ (Busy(k) => job[k].server # s)
    BY <1>1 DEF Queued, Idle, Moving, Busy, TypeInv, TypeOK
<1>4. job'[m] = [pc |-> "queued", server |-> s, attempt |-> row[s].attempt,
                 from |-> row[s].node, to |-> row[s].node, target |-> NoNode,
                 rsv |-> NoNode, todo |-> T]
    BY DEF Queued, TypeInv, TypeOK
<1>5. JobShape(m)'
    BY <1>2, <1>4 DEF JobShape, Live, Present
<1> QED
    BY <1>2, <1>3, <1>4, <1>5, StructureMoveFrame DEF Busy

LEMMA StructureMove ==
    ASSUME Calm, TypeInv, Structure, NEW m \in Movers,
           \/ \E s \in Servers : Migrate(m, s)
           \/ \E n \in Nodes : Drain(m, n)
           \/ MoveStep(m) \/ LateFailure(m) \/ MoveCrash(m)
    PROVE  Structure'
<1>1. ~LateFailure(m) /\ ~MoveCrash(m)
    BY DEF Calm, LateFailure, MoveCrash
<1>2. ASSUME NEW s \in Servers, Migrate(m, s)
      PROVE  Structure'
    <2>1. Queued(m, s, NoNode, {})
        BY <1>2 DEF Migrate, Calm
    <2> QED
        BY <1>2, <2>1, StructureQueued DEF Migrate, Busy
<1>3. ASSUME ~Busy(m), ~Busy(m)', \A k \in Movers \ {m} : job'[k] = job[k],
             row' = row, buy' = buy, del' = del, sums' = sums
      PROVE  Structure'
    <2>1. ASSUME NEW k \in Movers, Busy(k)'
          PROVE  Busy(k) /\ JobShape(k)' /\ job'[k] = job[k]
        BY <1>3, <2>1 DEF Structure, JobInv, JobShape, Live, Present, Busy
    <2>2. JobInv' /\ OneMover'
        BY <2>1 DEF Structure, JobInv, OneMover
    <2>3. BuyInv' /\ NoSums'
        BY <1>3 DEF Structure, BuyInv, NoSums, Present
    <2>4. DelInv'
        BY <1>3, <2>1 DEF Structure, DelInv, Present, Moving, Busy
    <2> QED
        BY <2>2, <2>3, <2>4 DEF Structure
<1>4. ASSUME NEW n \in Nodes, Drain(m, n)
      PROVE  Structure'
    BY <1>3, <1>4 DEF Drain, Busy, TypeInv, TypeOK, JobRecord
<1>5. CASE DrainNext(m)
    <2>1. PICK x \in job[m].todo :
            IF Present(x[1]) /\ row[x[1]].attempt = x[2]
            THEN Queued(m, x[1], NoNode, job[m].todo \ {x})
            ELSE job' = [job EXCEPT ![m].todo = @ \ {x}]
        BY <1>5 DEF DrainNext
    <2>2. x[1] \in Servers
        BY DEF TypeInv, TypeOK, JobRecord
    <2>3. CASE Present(x[1]) /\ row[x[1]].attempt = x[2]
        BY <1>5, <2>1, <2>2, <2>3, StructureQueued DEF DrainNext, Busy
    <2>4. CASE ~(Present(x[1]) /\ row[x[1]].attempt = x[2])
        BY <1>3, <1>5, <2>1, <2>4 DEF DrainNext, Busy, TypeInv, TypeOK, JobRecord
    <2> QED
        BY <2>3, <2>4
<1>6. ASSUME Busy(m), NEW s, s = job[m].server
      PROVE  /\ s \in Servers /\ JobShape(m)
             /\ \A k \in Movers \ {m} : Busy(k) => job[k].server # s
             /\ del[s] = NoNode /\ buy[s].pc = "done"
             /\ Present(s) /\ row[s].node \in Nodes
    BY <1>6 DEF Structure, OneMover, JobInv, JobShape, Live, TypeInv, JobServer, DelInv,
                Moving, Busy, BuyInv
<1> DEFINE s == job[m].server
<1>7. ASSUME Busy(m), \A k \in Movers \ {m} : job'[k] = job[k],
             row' = row, buy' = buy, del' = del, sums' = sums,
             Busy(m)' => job'[m].server = s /\ JobShape(m)'
      PROVE  Structure'
    BY <1>6, <1>7, StructureMoveFrame DEF Present
<1> USE DEF TypeInv, TypeOK
<1>8. CASE MoveReserve(m)
    <2>1. PICK n \in Candidates(s, {job[m].from}) :
            job' = [job EXCEPT ![m].pc = "copying", ![m].to = n, ![m].rsv = n]
        BY <1>8 DEF MoveReserve
    <2>2. n \in Nodes /\ n # job[m].from
        BY DEF Candidates
    <2>3. JobShape(m)'
        BY <1>6, <1>8, <2>1, <2>2 DEF MoveReserve, JobShape, Live, Present, Busy, JobRecord
    <2> QED
        BY <1>7, <1>8, <2>1, <2>3 DEF MoveReserve, Busy, JobRecord
<1>9. CASE MoveRefused(m)
    <2>1. JobShape(m)'
        BY <1>6, <1>9 DEF MoveRefused, JobShape, Live, Present, Busy, JobRecord
    <2> QED
        BY <1>7, <1>9, <2>1 DEF MoveRefused, Busy, JobRecord
<1>10. CASE Claim(m)
    <2>1. JobShape(m)'
        BY <1>6, <1>10 DEF Claim, JobShape, Live, Present, Busy, JobRecord
    <2> QED
        BY <1>7, <1>10, <2>1 DEF Claim, Busy, JobRecord
<1>11. CASE MoveFails(m)
    <2>1. JobShape(m)'
        BY <1>6, <1>11 DEF MoveFails, JobShape, Live, Present, Busy, JobRecord
    <2> QED
        BY <1>7, <1>11, <2>1 DEF MoveFails, Busy, JobRecord
<1>12. CASE Switch(m)
    <2>1. Busy(m) /\ job[m].pc = "building"
        BY <1>12 DEF Switch, Busy
    <2>2. job[m].rsv \in Nodes /\ job[m].rsv # job[m].from
        BY <1>6, <2>1 DEF JobShape
    <2>3. /\ row'[s].node = job[m].rsv /\ row'[s].attempt = row[s].attempt
          /\ row'[s].status = "OFFLINE"
          /\ \A z \in Servers \ {s} : row'[z] = row[z]
        BY <1>6, <1>12, <2>1 DEF Switch, RowRecord
    <2>4. /\ job'[m] = [job[m] EXCEPT !.pc = "cleanup"]
          /\ \A k \in Movers \ {m} : job'[k] = job[k]
        BY <1>12 DEF Switch
    <2>5. /\ job[m] \in JobRecord /\ job'[m].pc = "cleanup"
          /\ job'[m].server = s /\ job'[m].attempt = job[m].attempt
          /\ job'[m].from = job[m].from /\ job'[m].to = job[m].to
          /\ job'[m].target = job[m].target /\ job'[m].rsv = job[m].rsv
        BY <2>4 DEF JobRecord
    <2>6. /\ job[m].from \in Nodes /\ job[m].target = NoNode /\ job[m].to = job[m].rsv
          /\ row[s].attempt = job[m].attempt
        BY <1>6, <2>1 DEF JobShape, Live
    <2>7. /\ buy' = buy /\ del' = del /\ sums' = sums
        BY <1>12 DEF Switch
    <2>8. s \in Servers /\ buy'[s].pc = "done" /\ del[s] = NoNode /\ buy[s].pc = "done"
        BY <1>6, <2>1, <2>7
    <2>9. Live(m)'
        BY <2>3, <2>5, <2>6 DEF Live, Present
    <2>10. JobShape(m)'
        BY <2>2, <2>3, <2>5, <2>6, <2>8, <2>9 DEF JobShape
    <2>11. PICK z \in Servers : z = s
        BY <2>8
    <2>12. /\ job[m].server = z /\ job'[m].server = z /\ del[z] = NoNode /\ buy[z].pc = "done"
           /\ row'[z].node \in Nodes /\ \A y \in Servers \ {z} : row'[y] = row[y]
        BY <2>2, <2>3, <2>5, <2>8, <2>11
    <2>13. \A k \in Movers \ {m} : Busy(k) => job[k].server # z
        BY <1>6, <2>1, <2>11
    <2> QED
        BY <2>4, <2>7, <2>10, <2>12, <2>13, StructureMoveFrame
<1>13. CASE Completed(m) \/ UnwindLedger(m)
    BY <1>7, <1>13 DEF Completed, UnwindLedger, Busy, Resting
<1>14. CASE UnwindPorts(m)
    <2>1. Busy(m) /\ job[m].pc = "unwinding"
        BY <1>14 DEF UnwindPorts, Busy
    <2>2. CASE Live(m) /\ job[m].to # job[m].from
        <3>1. job' = [job EXCEPT ![m].pc = "releasing"]
            BY <1>14, <2>2 DEF UnwindPorts
        <3>2. JobShape(m)'
            BY <1>6, <1>14, <2>1, <2>2, <3>1
            DEF UnwindPorts, JobShape, Live, Present, Busy, JobRecord
        <3> QED
            BY <1>7, <1>14, <2>1, <3>1, <3>2 DEF UnwindPorts, Busy, JobRecord
    <2>3. CASE ~(Live(m) /\ job[m].to # job[m].from)
        BY <1>7, <1>14, <2>1, <2>3 DEF UnwindPorts, Busy, Resting
    <2> QED
        BY <2>2, <2>3
<1> QED
    BY <1>1, <1>2, <1>4, <1>5, <1>8, <1>9, <1>10, <1>11, <1>12, <1>13, <1>14 DEF MoveStep

LEMMA StructureNode ==
    ASSUME Calm, Structure, NEW n \in Nodes,
           \/ Toggle(n) \/ SumRows(n) \/ Recalculate(n)
           \/ \E c \in Totals : Resize(n, c)
    PROVE  Structure'
<1>1. ~SumRows(n) /\ ~Recalculate(n)
    BY DEF Calm, SumRows, Recalculate, Structure, NoSums
<1>2. row' = row /\ buy' = buy /\ del' = del /\ job' = job /\ sums' = sums
    BY <1>1 DEF Toggle, Resize
<1> QED
    BY <1>2 DEF Structure, BuyInv, DelInv, JobInv, JobShape, OneMover, NoSums, Live,
                Present, Moving, Busy

-----------------------------------------------------------------------------
(* The ledger.                                                              *)

LEMMA LedgerInit == Init => LedgerExact
<1> SUFFICES ASSUME Init, NEW n \in Nodes
             PROVE  reserved[n] = Load(Located(n) \cup Holds(n))
    BY DEF LedgerExact
<1>1. Located(n) \cup Holds(n) = {}
    BY DEF Init, Located, Holds, Present, NoRow, Resting, HoldPC
<1>2. Load(Located(n) \cup Holds(n)) = 0
    BY <1>1, LoadEmpty, Zenon
<1> QED
    BY <1>2 DEF Init

\* The ledger's three moves: nothing changes, a server is booked, a server is
\* released.
LEMMA LedgerSame ==
    ASSUME LedgerExact, reserved' = reserved,
           \A n \in Nodes : Booked(n)' = Booked(n)
    PROVE  LedgerExact'
<1> SUFFICES ASSUME NEW n \in Nodes
             PROVE  reserved'[n] = Load(Booked(n)')
    BY DEF LedgerExact, Booked
<1>1. reserved[n] = Load(Booked(n))
    BY DEF LedgerExact, Booked
<1>2. Load(Booked(n)') = Load(Booked(n))
    BY Zenon
<1> QED
    BY <1>1, <1>2

LEMMA LedgerAdds ==
    ASSUME TypeOK, LedgerExact, NEW n \in Nodes, NEW s \in Servers, s \notin Booked(n),
           reserved' = [reserved EXCEPT ![n] = @ + Size[s]],
           Booked(n)' = Booked(n) \cup {s},
           \A k \in Nodes \ {n} : Booked(k)' = Booked(k)
    PROVE  LedgerExact'
<1> SUFFICES ASSUME NEW k \in Nodes
             PROVE  reserved'[k] = Load(Booked(k)')
    BY DEF LedgerExact, Booked
<1>1. reserved[k] = Load(Booked(k))
    BY DEF LedgerExact, Booked
<1>2. CASE k = n
    <2>1. Load(Booked(n) \cup {s}) = Load(Booked(n)) + Size[s]
        BY LoadAdd
    <2>2. Load(Booked(n)') = Load(Booked(n)) + Size[s]
        BY <2>1, Zenon
    <2> QED
        BY <1>1, <1>2, <2>2 DEF TypeOK
<1>3. CASE k # n
    <2>1. Load(Booked(k)') = Load(Booked(k))
        BY <1>3, Zenon
    <2> QED
        BY <1>1, <1>3, <2>1 DEF TypeOK
<1> QED
    BY <1>2, <1>3

LEMMA LedgerDrops ==
    ASSUME TypeOK, LedgerExact, NEW n \in Nodes, NEW s \in Servers, s \in Booked(n),
           reserved' = Released(n, s),
           Booked(n)' = Booked(n) \ {s},
           \A k \in Nodes \ {n} : Booked(k)' = Booked(k)
    PROVE  LedgerExact'
<1> SUFFICES ASSUME NEW k \in Nodes
             PROVE  reserved'[k] = Load(Booked(k)')
    BY DEF LedgerExact, Booked
<1>1. reserved[k] = Load(Booked(k))
    BY DEF LedgerExact, Booked
<1>2. CASE k = n
    <2>1. /\ Load(Booked(n) \ {s}) = Load(Booked(n)) - Size[s]
          /\ Load(Booked(n)) >= Size[s]
        BY LoadRemove
    <2>2. Load(Booked(n)') = Load(Booked(n)) - Size[s]
        BY <2>1, Zenon
    <2> QED
        BY <1>1, <1>2, <2>1, <2>2 DEF TypeOK, Released
<1>3. CASE k # n
    <2>1. Load(Booked(k)') = Load(Booked(k))
        BY <1>3, Zenon
    <2> QED
        BY <1>1, <1>3, <2>1 DEF TypeOK, Released
<1> QED
    BY <1>2, <1>3

\* A server no migration works on is held by none.
LEMMA NotHeld ==
    ASSUME NEW s \in Servers, NEW n \in Nodes,
           \A m \in Movers : Busy(m) => job[m].server # s
    PROVE  s \notin Holds(n)
BY DEF Holds, Busy, HoldPC

LEMMA LedgerBuy ==
    ASSUME Calm, TypeInv, Structure, LedgerExact, NEW s \in Servers,
           Order(s) \/ BuyStep(s) \/ BuyCrash(s)
    PROVE  LedgerExact'
<1> USE DEF TypeInv
<1>1. buy[s].pc # "done" /\ ~BuyCrash(s)
    BY DEF Calm, Order, BuyStep, BuyCrash, Reserve, NoCapacity, NoAllocation, GiveUp,
           BuildSucceeds, Recorded, BuildFails, Placing
<1>2. \A n \in Nodes : s \notin Holds(n)
    BY <1>1, BuyAlone, NotHeld
<1>3. \A n \in Nodes : Holds(n)' = Holds(n)
    BY <1>1 DEF Order, BuyStep, Reserve, NoCapacity, NoAllocation, GiveUp,
                BuildSucceeds, Recorded, BuildFails, Holds
<1>4. CASE Reserve(s)
    <2>1. PICK n \in Candidates(s, buy[s].tried) :
            /\ reserved' = [reserved EXCEPT ![n] = @ + Size[s]]
            /\ row' = [row EXCEPT ![s] = [status |-> "PROVISIONING", node |-> n,
                                          attempt |-> buy[s].attempt + 1]]
        BY <1>4 DEF Reserve
    <2>2. n \in Nodes
        BY DEF Candidates, TypeOK
    <2>3. ~Present(s)
        BY <1>4 DEF Reserve, Placing, Structure, BuyInv
    <2>4. s \notin Booked(n)
        BY <1>2, <2>2, <2>3 DEF Booked, Located
    <2>5. /\ Located(n)' = Located(n) \cup {s}
          /\ \A k \in Nodes \ {n} : Located(k)' = Located(k)
        BY <2>1, <2>3 DEF Located, Present, TypeOK
    <2>6. /\ Booked(n)' = Booked(n) \cup {s}
          /\ \A k \in Nodes \ {n} : Booked(k)' = Booked(k)
        BY <1>3, <2>2, <2>5 DEF Booked
    <2> QED
        BY <2>1, <2>2, <2>4, <2>6, LedgerAdds
<1>5. CASE BuildFails(s)
    <2>1. PICK n \in Nodes : Present(s) /\ row[s].node = n /\ buy[s].node = n
        BY <1>5 DEF BuildFails, Structure, BuyInv
    <2>2. /\ row' = [row EXCEPT ![s] = NoRow]
          /\ reserved' = Released(n, s)
        BY <1>5, <2>1 DEF BuildFails
    <2>3. /\ s \in Located(n) /\ Located(n)' = Located(n) \ {s}
          /\ \A k \in Nodes \ {n} : Located(k)' = Located(k)
        BY <2>1, <2>2 DEF Located, Present, TypeOK, NoRow
    <2>4. /\ s \in Booked(n) /\ Booked(n)' = Booked(n) \ {s}
          /\ \A k \in Nodes \ {n} : Booked(k)' = Booked(k)
        BY <1>2, <1>3, <2>1, <2>3 DEF Booked
    <2> QED
        BY <2>1, <2>2, <2>4, LedgerDrops
<1>6. CASE Order(s) \/ NoCapacity(s) \/ NoAllocation(s) \/ GiveUp(s) \/ Recorded(s)
    <2>1. reserved' = reserved /\ row' = row
        BY <1>6 DEF Order, NoCapacity, NoAllocation, GiveUp, Recorded
    <2>2. \A n \in Nodes : Booked(n)' = Booked(n)
        BY <1>3, <2>1 DEF Booked, Located, Present
    <2> QED
        BY <2>1, <2>2, LedgerSame
<1>7. CASE BuildSucceeds(s)
    <2>1. Present(s)
        BY <1>7 DEF BuildSucceeds, Structure, BuyInv
    <2>2. \A n \in Nodes : Located(n)' = Located(n)
        BY <1>7, <2>1 DEF BuildSucceeds, Located, Present, TypeOK, RowRecord
    <2>3. \A n \in Nodes : Booked(n)' = Booked(n)
        BY <1>3, <2>2 DEF Booked
    <2> QED
        BY <1>7, <2>3, LedgerSame DEF BuildSucceeds
<1> QED
    BY <1>1, <1>4, <1>5, <1>6, <1>7 DEF BuyStep

LEMMA LedgerDel ==
    ASSUME Calm, TypeInv, Structure, LedgerExact, NEW s \in Servers,
           DeleteStart(s) \/ DeleteCommit(s) \/ DeleteCrash(s)
    PROVE  LedgerExact'
<1> USE DEF TypeInv
<1>1. \A n \in Nodes : Holds(n)' = Holds(n)
    BY DEF DeleteStart, DeleteCommit, DeleteCrash, Holds
<1>2. CASE DeleteStart(s)
    <2>1. \A n \in Nodes : Located(n)' = Located(n)
        BY <1>2 DEF DeleteStart, Located, Present, TypeOK, RowRecord
    <2>2. \A n \in Nodes : Booked(n)' = Booked(n)
        BY <1>1, <2>1 DEF Booked
    <2> QED
        BY <1>2, <2>2, LedgerSame DEF DeleteStart
<1>3. CASE DeleteCommit(s)
    <2>1. PICK n \in Nodes : Present(s) /\ row[s].node = n /\ del[s] = n /\ ~Moving(s)
        BY <1>3 DEF DeleteCommit, Structure, DelInv, TypeOK, SomeNode
    <2>2. /\ row' = [row EXCEPT ![s] = NoRow]
          /\ reserved' = Released(n, s)
        BY <1>3, <2>1 DEF DeleteCommit
    <2>3. /\ s \in Located(n) /\ Located(n)' = Located(n) \ {s}
          /\ \A k \in Nodes \ {n} : Located(k)' = Located(k)
        BY <2>1, <2>2 DEF Located, Present, TypeOK, NoRow
    <2>4. s \notin Holds(n)
        BY <2>1, NotHeld DEF Moving, Busy
    <2>5. /\ s \in Booked(n) /\ Booked(n)' = Booked(n) \ {s}
          /\ \A k \in Nodes \ {n} : Booked(k)' = Booked(k)
        BY <1>1, <2>1, <2>3, <2>4 DEF Booked
    <2> QED
        BY <2>1, <2>2, <2>5, LedgerDrops
<1> QED
    BY <1>2, <1>3 DEF Calm, DeleteCrash

\* What a running migration knows about its server.
LEMMA MoverFacts ==
    ASSUME TypeInv, Structure, NEW m \in Movers, Busy(m),
           NEW s, s = job[m].server
    PROVE  /\ s \in Servers /\ JobShape(m)
           /\ \A k \in Movers \ {m} : Busy(k) => job[k].server # s
           /\ Present(s) /\ row[s].node \in Nodes
BY DEF Structure, OneMover, JobInv, JobShape, Live, TypeInv, JobServer, BuyInv

\* A step of a migration changes no hold but its own server's.
LEMMA HoldsFrame ==
    ASSUME TypeInv, Structure, NEW m \in Movers, Busy(m),
           NEW s, s = job[m].server,
           \A k \in Movers \ {m} : job'[k] = job[k],
           job'[m].pc # "idle" => job'[m].server = s,
           NEW n \in Nodes
    PROVE  /\ Holds(n)' \ {s} = Holds(n) \ {s}
           /\ s \in Holds(n) <=> job[m].rsv = n /\ job[m].pc \in HoldPC
           /\ s \in Holds(n)' <=> job'[m].rsv = n /\ job'[m].pc \in HoldPC
<1>1. /\ s \in Servers
      /\ \A k \in Movers \ {m} : Busy(k) => job[k].server # s
    BY MoverFacts
<1>2. \A k \in Movers : job[k].pc \in HoldPC => Busy(k)
    BY DEF Busy, HoldPC
<1>3. "idle" \notin HoldPC
    BY DEF HoldPC
<1> QED
    BY <1>1, <1>2, <1>3 DEF Holds

LEMMA LedgerMove ==
    ASSUME Calm, TypeInv, Structure, LedgerExact, NEW m \in Movers,
           \/ \E s \in Servers : Migrate(m, s)
           \/ \E n \in Nodes : Drain(m, n)
           \/ MoveStep(m) \/ LateFailure(m) \/ MoveCrash(m)
    PROVE  LedgerExact'
<1> USE DEF TypeInv
<1>1. ~LateFailure(m) /\ ~MoveCrash(m)
    BY DEF Calm, LateFailure, MoveCrash
<1>2. ASSUME job[m].pc \notin HoldPC, job'[m].pc \notin HoldPC,
             \A k \in Movers \ {m} : job'[k] = job[k], row' = row, reserved' = reserved
      PROVE  LedgerExact'
    <2>1. \A n \in Nodes : Holds(n)' = Holds(n) /\ Located(n)' = Located(n)
        BY <1>2 DEF Holds, Located, Present
    <2> QED
        BY <1>2, <2>1, LedgerSame DEF Booked
<1>3. ASSUME NEW x \in Servers, NEW T, job[m].pc = "idle", Queued(m, x, NoNode, T),
             row' = row, reserved' = reserved
      PROVE  LedgerExact'
    BY <1>2, <1>3 DEF Queued, HoldPC, TypeOK
<1>4. ASSUME NEW x \in Servers, Migrate(m, x)
      PROVE  LedgerExact'
    <2>1. Queued(m, x, NoNode, {})
        BY <1>4 DEF Migrate, Calm
    <2> QED
        BY <1>3, <1>4, <2>1 DEF Migrate
<1>5. ASSUME NEW n \in Nodes, Drain(m, n)
      PROVE  LedgerExact'
    BY <1>2, <1>5 DEF Drain, HoldPC, TypeOK, JobRecord
<1>6. CASE DrainNext(m)
    <2>1. PICK x \in job[m].todo :
            IF Present(x[1]) /\ row[x[1]].attempt = x[2]
            THEN Queued(m, x[1], NoNode, job[m].todo \ {x})
            ELSE job' = [job EXCEPT ![m].todo = @ \ {x}]
        BY <1>6 DEF DrainNext
    <2>2. x[1] \in Servers
        BY DEF TypeOK, JobRecord
    <2>3. CASE Present(x[1]) /\ row[x[1]].attempt = x[2]
        BY <1>3, <1>6, <2>1, <2>2, <2>3 DEF DrainNext
    <2>4. CASE ~(Present(x[1]) /\ row[x[1]].attempt = x[2])
        BY <1>2, <1>6, <2>1, <2>4 DEF DrainNext, HoldPC, TypeOK, JobRecord
    <2> QED
        BY <2>3, <2>4
<1>7. ASSUME Busy(m)
      PROVE  \E s \in Servers : s = job[m].server
    BY <1>7 DEF JobServer
<1>8. ASSUME NEW s \in Servers, s = job[m].server, Busy(m),
             \A k \in Movers \ {m} : job'[k] = job[k],
             job'[m].pc # "idle" => job'[m].server = s,
             \A n \in Nodes : (job[m].rsv = n /\ job[m].pc \in HoldPC)
                                <=> (job'[m].rsv = n /\ job'[m].pc \in HoldPC),
             row' = row, reserved' = reserved
      PROVE  LedgerExact'
    <2>1. ASSUME NEW n \in Nodes
          PROVE  Booked(n)' = Booked(n)
        <3>1. /\ Holds(n)' \ {s} = Holds(n) \ {s}
              /\ s \in Holds(n) <=> job[m].rsv = n /\ job[m].pc \in HoldPC
              /\ s \in Holds(n)' <=> job'[m].rsv = n /\ job'[m].pc \in HoldPC
            BY <1>8, HoldsFrame
        <3>2. s \in Holds(n)' <=> s \in Holds(n)
            BY <1>8, <3>1
        <3>3. Holds(n)' = Holds(n)
            BY <3>1, <3>2
        <3> QED
            BY <1>8, <3>3 DEF Booked, Located, Present
    <2> QED
        BY <1>8, <2>1, LedgerSame
<1>9. CASE MoveReserve(m)
    <2>1. PICK s \in Servers : s = job[m].server
        BY <1>7, <1>9 DEF MoveReserve, Busy
    <2>2. PICK n \in Candidates(s, {job[m].from}) :
            /\ reserved' = [reserved EXCEPT ![n] = @ + Size[s]]
            /\ job' = [job EXCEPT ![m].pc = "copying", ![m].to = n, ![m].rsv = n]
        BY <1>9, <2>1 DEF MoveReserve
    <2>3. /\ Busy(m) /\ row' = row /\ job[m].pc = "queued"
          /\ n \in Nodes /\ n # job[m].from
        BY <1>9, <2>2 DEF MoveReserve, Busy, Candidates, TypeOK
    <2>4. row[s].node = job[m].from
        BY <2>1, <2>3, MoverFacts DEF JobShape
    <2>5. /\ job'[m].pc = "copying" /\ job'[m].rsv = n /\ job'[m].server = s
          /\ \A k \in Movers \ {m} : job'[k] = job[k]
        BY <2>1, <2>2 DEF TypeOK, JobRecord
    <2>6. ASSUME NEW k \in Nodes
          PROVE  /\ Holds(k)' \ {s} = Holds(k) \ {s}
                 /\ s \notin Holds(k)
                 /\ s \in Holds(k)' <=> k = n
                 /\ Located(k)' = Located(k)
        BY <2>1, <2>3, <2>5, HoldsFrame DEF HoldPC, Located, Present
    <2>7. s \notin Located(n)
        BY <2>3, <2>4 DEF Located
    <2>8. /\ s \notin Booked(n) /\ Booked(n)' = Booked(n) \cup {s}
          /\ \A k \in Nodes \ {n} : Booked(k)' = Booked(k)
        BY <2>3, <2>6, <2>7 DEF Booked
    <2> QED
        BY <2>2, <2>3, <2>8, LedgerAdds
<1>10. CASE MoveRefused(m)
    <2>1. PICK s \in Servers : s = job[m].server
        BY <1>7, <1>10 DEF MoveRefused, Busy
    <2>2. Busy(m) /\ job[m].rsv = NoNode
        BY <1>10, <2>1, MoverFacts DEF MoveRefused, Busy, JobShape
    <2> QED
        BY <1>8, <1>10, <2>1, <2>2, SetsAssumption DEF MoveRefused, TypeOK, JobRecord, HoldPC
<1>11. CASE Claim(m) \/ MoveFails(m)
    <2>1. PICK s \in Servers : s = job[m].server
        BY <1>7, <1>11 DEF Claim, MoveFails, Busy
    <2> QED
        BY <1>8, <1>11, <2>1 DEF Claim, MoveFails, Busy, TypeOK, JobRecord, HoldPC
<1>12. CASE Switch(m)
    <2>1. PICK s \in Servers : s = job[m].server
        BY <1>7, <1>12 DEF Switch, Busy
    <2>2. Busy(m) /\ job[m].pc = "building"
        BY <1>12 DEF Switch, Busy
    <2>3. PICK n \in Nodes : n = job[m].from /\ row[s].node = n
        BY <2>1, <2>2, MoverFacts DEF JobShape
    <2>4. PICK k \in Nodes : k = job[m].rsv /\ k # n
        BY <2>1, <2>2, <2>3, MoverFacts DEF JobShape
    <2>5. /\ reserved' = Released(n, s)
          /\ row'[s].node = k /\ row'[s].status = "OFFLINE"
          /\ \A z \in Servers \ {s} : row'[z] = row[z]
          /\ job'[m].pc = "cleanup" /\ job'[m].server = s
          /\ \A j \in Movers \ {m} : job'[j] = job[j]
        BY <1>12, <2>1, <2>3, <2>4 DEF Switch, TypeOK, RowRecord, JobRecord
    <2>6. Present(s)
        BY <2>1, <2>2, MoverFacts
    <2>7. ASSUME NEW j \in Nodes
          PROVE  /\ Holds(j)' \ {s} = Holds(j) \ {s}
                 /\ s \notin Holds(j)'
                 /\ s \in Holds(j) <=> j = k
        BY <2>1, <2>2, <2>4, <2>5, HoldsFrame DEF HoldPC
    <2>8. ASSUME NEW j \in Nodes
          PROVE  /\ Located(j)' \ {s} = Located(j) \ {s}
                 /\ s \in Located(j)' <=> j = k
                 /\ s \in Located(j) <=> j = n
        BY <2>3, <2>5, <2>6 DEF Located, Present
    <2>9. /\ s \in Booked(n) /\ Booked(n)' = Booked(n) \ {s}
          /\ \A j \in Nodes \ {n} : Booked(j)' = Booked(j)
        BY <2>4, <2>7, <2>8 DEF Booked
    <2> QED
        BY <2>5, <2>9, LedgerDrops
<1>13. CASE Completed(m)
    BY <1>2, <1>13 DEF Completed, Resting, HoldPC, TypeOK
<1>14. CASE UnwindPorts(m)
    <2>1. PICK s \in Servers : s = job[m].server
        BY <1>7, <1>14 DEF UnwindPorts, Busy
    <2>2. Busy(m) /\ job[m].pc = "unwinding" /\ row' = row /\ reserved' = reserved
        BY <1>14 DEF UnwindPorts, Busy
    <2>3. JobShape(m)
        BY <2>1, <2>2, MoverFacts
    <2>4. CASE job[m].to # job[m].from
        <3>1. job' = [job EXCEPT ![m].pc = "releasing"]
            BY <1>14, <2>3, <2>4 DEF UnwindPorts, JobShape
        <3> QED
            BY <1>8, <2>1, <2>2, <3>1 DEF TypeOK, JobRecord, HoldPC
    <2>5. CASE job[m].to = job[m].from
        <3>1. job' = [job EXCEPT ![m] = Resting(job[m].todo)]
            BY <1>14, <2>5 DEF UnwindPorts
        <3>2. job[m].rsv = NoNode
            BY <2>2, <2>3, <2>5 DEF JobShape
        <3> QED
            BY <1>8, <2>1, <2>2, <3>1, <3>2, SetsAssumption DEF TypeOK, Resting, HoldPC
    <2> QED
        BY <2>4, <2>5
<1>15. CASE UnwindLedger(m)
    <2>1. PICK s \in Servers : s = job[m].server
        BY <1>7, <1>15 DEF UnwindLedger, Busy
    <2>2. Busy(m) /\ job[m].pc = "releasing"
        BY <1>15 DEF UnwindLedger, Busy
    <2>3. PICK n \in Nodes : n = job[m].rsv /\ n = job[m].to /\ n # row[s].node
        BY <2>1, <2>2, MoverFacts DEF JobShape
    <2>4. /\ reserved' = Released(n, s) /\ row' = row
          /\ job'[m].pc = "idle"
          /\ \A k \in Movers \ {m} : job'[k] = job[k]
        BY <1>15, <2>1, <2>3 DEF UnwindLedger, TypeOK, Resting
    <2>5. ASSUME NEW k \in Nodes
          PROVE  /\ Holds(k)' \ {s} = Holds(k) \ {s}
                 /\ s \notin Holds(k)'
                 /\ s \in Holds(k) <=> k = n
                 /\ Located(k)' = Located(k)
        BY <2>1, <2>2, <2>3, <2>4, HoldsFrame DEF HoldPC, Located, Present
    <2>6. s \notin Located(n)
        BY <2>3 DEF Located
    <2>7. /\ s \in Booked(n) /\ Booked(n)' = Booked(n) \ {s}
          /\ \A k \in Nodes \ {n} : Booked(k)' = Booked(k)
        BY <2>3, <2>5, <2>6 DEF Booked
    <2> QED
        BY <2>4, <2>7, LedgerDrops
<1> QED
    BY <1>1, <1>4, <1>5, <1>6, <1>9, <1>10, <1>11, <1>12, <1>13, <1>14, <1>15 DEF MoveStep

LEMMA LedgerNode ==
    ASSUME Calm, Structure, LedgerExact, NEW n \in Nodes,
           \/ Toggle(n) \/ SumRows(n) \/ Recalculate(n)
           \/ \E c \in Totals : Resize(n, c)
    PROVE  LedgerExact'
<1>1. ~SumRows(n) /\ ~Recalculate(n)
    BY DEF Calm, SumRows, Recalculate, Structure, NoSums
<1>2. row' = row /\ job' = job /\ reserved' = reserved
    BY <1>1 DEF Toggle, Resize
<1>3. \A k \in Nodes : Booked(k)' = Booked(k)
    BY <1>2 DEF Booked, Located, Holds, Present
<1> QED
    BY <1>2, <1>3, LedgerSame

-----------------------------------------------------------------------------
(* Totals.                                                                  *)

\* A reservation fits, a release only lowers the counter, and a total is not
\* set below the counter unless "shrink" is admitted.
LEMMA TotalsStep ==
    ASSUME Calm, TypeInv, Structure, TotalsCoverReserved, Next
    PROVE  TotalsCoverReserved'
<1> USE DEF TypeInv, TypeOK
<1>1. ASSUME total' = total, reserved' = reserved
      PROVE  TotalsCoverReserved'
    BY <1>1 DEF TotalsCoverReserved
<1>2. ASSUME total' = total, NEW s \in Servers, NEW excluded,
             NEW n \in Candidates(s, excluded), reserved' = [reserved EXCEPT ![n] = @ + Size[s]]
      PROVE  TotalsCoverReserved'
    BY <1>2, SizeAssumption DEF TotalsCoverReserved, Candidates
<1>3. ASSUME total' = total, NEW s \in Servers, NEW n, reserved' = Released(n, s)
      PROVE  TotalsCoverReserved'
    <2>1. Size[s] \in Nat
        BY SizeAssumption
    <2>2. CASE n \in Nodes
        BY <1>3, <2>1, <2>2 DEF TotalsCoverReserved, Released
    <2>3. CASE n \notin Nodes
        BY <1>3, <2>3 DEF TotalsCoverReserved, Released
    <2> QED
        BY <2>2, <2>3
<1>4. ASSUME NEW s \in Servers, Order(s) \/ BuyStep(s) \/ BuyCrash(s)
      PROVE  TotalsCoverReserved'
    <2>1. CASE Reserve(s)
        BY <1>2, <2>1 DEF Reserve
    <2>2. CASE BuildFails(s)
        BY <1>3, <2>2 DEF BuildFails
    <2>3. CASE \/ Order(s) \/ NoCapacity(s) \/ NoAllocation(s) \/ GiveUp(s)
               \/ BuildSucceeds(s) \/ Recorded(s) \/ BuyCrash(s)
        BY <1>1, <2>3 DEF Order, NoCapacity, NoAllocation, GiveUp, BuildSucceeds,
                          Recorded, BuyCrash
    <2> QED
        BY <1>4, <2>1, <2>2, <2>3 DEF BuyStep
<1>5. ASSUME NEW s \in Servers, DeleteStart(s) \/ DeleteCommit(s) \/ DeleteCrash(s)
      PROVE  TotalsCoverReserved'
    BY <1>1, <1>3, <1>5 DEF DeleteStart, DeleteCommit, DeleteCrash
<1>6. ASSUME NEW m \in Movers,
             \/ \E s \in Servers : Migrate(m, s)
             \/ \E n \in Nodes : Drain(m, n)
             \/ MoveStep(m) \/ LateFailure(m) \/ MoveCrash(m)
      PROVE  TotalsCoverReserved'
    <2>1. CASE MoveReserve(m)
        <3>1. job[m].server \in Servers
            BY <2>1 DEF MoveReserve, JobServer, Busy
        <3> QED
            BY <1>2, <2>1, <3>1 DEF MoveReserve
    <2>2. CASE Switch(m) \/ UnwindLedger(m)
        <3>1. job[m].server \in Servers
            BY <2>2 DEF Switch, UnwindLedger, JobServer, Busy
        <3> QED
            BY <1>3, <2>2, <3>1 DEF Switch, UnwindLedger
    <2>3. CASE \/ \E s \in Servers : Migrate(m, s)
               \/ \E n \in Nodes : Drain(m, n)
               \/ DrainNext(m) \/ MoveRefused(m) \/ Claim(m) \/ MoveFails(m)
               \/ Completed(m) \/ UnwindPorts(m) \/ LateFailure(m) \/ MoveCrash(m)
        BY <1>1, <2>3 DEF Migrate, Drain, DrainNext, MoveRefused, Claim, MoveFails,
                          Completed, UnwindPorts, LateFailure, MoveCrash
    <2> QED
        BY <1>6, <2>1, <2>2, <2>3 DEF MoveStep
<1>7. ASSUME NEW n \in Nodes, Toggle(n) \/ SumRows(n) \/ Recalculate(n)
      PROVE  TotalsCoverReserved'
    <2>1. ~SumRows(n) /\ ~Recalculate(n)
        BY DEF Calm, SumRows, Recalculate, Structure, NoSums
    <2> QED
        BY <1>1, <1>7, <2>1 DEF Toggle
<1>8. ASSUME NEW n \in Nodes, NEW c \in Totals, Resize(n, c)
      PROVE  TotalsCoverReserved'
    <2>1. c >= reserved[n]
        BY <1>8 DEF Resize, Calm
    <2> QED
        BY <1>8, <2>1, BoundsAssumption DEF Resize, TotalsCoverReserved
<1> QED
    BY <1>4, <1>5, <1>6, <1>7, <1>8 DEF Next

\* All the servers of a node and of the migrations on their way to it fit.
LEMMA BookedFit ==
    ASSUME TypeOK, LedgerExact, TotalsCoverReserved
    PROVE  NeverOversold
<1> SUFFICES ASSUME NEW n \in Nodes
             PROVE  Load(Located(n)) <= total[n]
    BY DEF NeverOversold
<1>1. Load(Located(n)) <= Load(Located(n) \cup Holds(n))
    BY LoadMonotone
<1>2. Load(Located(n) \cup Holds(n)) = reserved[n]
    BY DEF LedgerExact
<1>3. reserved[n] <= total[n]
    BY DEF TotalsCoverReserved
<1> QED
    BY <1>1, <1>2, <1>3, LoadType DEF TypeOK

-----------------------------------------------------------------------------
(* Ports.                                                                   *)

LEMMA PortsInit == Init => PortsExact /\ PortClaimed
BY SetsAssumption DEF Init, PortsExact, ServerPorts, PortClaimed, Present, NoRow, Resting

\* A server keeps its ports right while its row, its ports and the migration
\* that may hold one of them stay as they are.
LEMMA PortsFrame ==
    ASSUME NEW z \in Servers, ServerPorts(z),
           \A a \in Allocations : owner'[a] = z <=> owner[a] = z,
           Present(z)' <=> Present(z),
           row'[z].node = row[z].node,
           \A m \in Movers :
                job[m].pc \in {"building", "unwinding"} /\ job[m].server = z =>
                    /\ job'[m].pc \in {"building", "unwinding"}
                    /\ job'[m].server = z /\ job'[m].rsv = job[m].rsv
    PROVE  ServerPorts(z)'
BY DEF ServerPorts

LEMMA PortsBuy ==
    ASSUME Calm, TypeInv, Structure, PortsExact, PortClaimed, NEW s \in Servers,
           Order(s) \/ BuyStep(s) \/ BuyCrash(s)
    PROVE  PortsExact' /\ PortClaimed'
<1> USE DEF TypeInv, TypeOK
<1>1. buy[s].pc # "done" /\ ~BuyCrash(s)
    BY DEF Calm, Order, BuyStep, BuyCrash, Reserve, NoCapacity, NoAllocation, GiveUp,
           BuildSucceeds, Recorded, BuildFails, Placing
<1>2. \A m \in Movers : Busy(m) => job[m].server # s
    BY <1>1, BuyAlone
<1>3. /\ job' = job
      /\ \A z \in Servers \ {s} : row'[z] = row[z]
    BY <1>1 DEF Order, BuyStep, Reserve, NoCapacity, NoAllocation, GiveUp,
           BuildSucceeds, Recorded, BuildFails
<1>4. \A z \in Servers \ {s} : \A a \in Allocations : owner'[a] = z <=> owner[a] = z
    <2>1. CASE Reserve(s)
        BY <2>1, SetsAssumption DEF Reserve, FreePorts
    <2>2. CASE BuildFails(s)
        BY <2>2, SetsAssumption DEF BuildFails, Unclaimed
    <2>3. CASE ~Reserve(s) /\ ~BuildFails(s)
        BY <1>1, <2>3 DEF Order, BuyStep, NoCapacity, NoAllocation, GiveUp,
                          BuildSucceeds, Recorded
    <2> QED
        BY <2>1, <2>2, <2>3
<1>5. \A z \in Servers \ {s} : ServerPorts(z)'
    BY <1>3, <1>4, PortsFrame DEF PortsExact, Present
<1>6. ServerPorts(s)'
    <2>1. CASE Reserve(s)
        <3>1. PICK n \in Candidates(s, buy[s].tried) : \E a \in FreePorts(n) :
                /\ row' = [row EXCEPT ![s] = [status |-> "PROVISIONING", node |-> n,
                                              attempt |-> buy[s].attempt + 1]]
                /\ owner' = [owner EXCEPT ![a] = s]
            BY <2>1 DEF Reserve
        <3>2. PICK a \in FreePorts(n) : owner' = [owner EXCEPT ![a] = s]
            BY <3>1
        <3>3. \A b \in Allocations : owner[b] # s
            BY <2>1 DEF Reserve, Placing, Structure, BuyInv, PortsExact, ServerPorts
        <3>4. a \in Allocations /\ NodeOf[a] = n
            BY DEF FreePorts
        <3>5. \A b \in Allocations : owner'[b] = s <=> b = a
            BY <3>2, <3>3, <3>4
        <3>6. Present(s)' /\ row'[s].node = n
            BY <3>1 DEF Present
        <3> QED
            BY <3>4, <3>5, <3>6 DEF ServerPorts
    <2>2. CASE BuildFails(s)
        <3>1. \A a \in Allocations : owner'[a] # s
            BY <2>2, SetsAssumption DEF BuildFails, Unclaimed
        <3>2. ~Present(s)'
            BY <2>2 DEF BuildFails, Present, NoRow
        <3> QED
            BY <3>1, <3>2 DEF ServerPorts
    <2>3. CASE ~Reserve(s) /\ ~BuildFails(s)
        <3>1. owner' = owner
            BY <1>1, <2>3 DEF Order, BuyStep, NoCapacity, NoAllocation, GiveUp,
                              BuildSucceeds, Recorded
        <3>2. (Present(s)' <=> Present(s)) /\ row'[s].node = row[s].node
            BY <1>1, <2>3 DEF Order, BuyStep, NoCapacity, NoAllocation, GiveUp,
                    BuildSucceeds, Recorded, Present, RowRecord, Structure, BuyInv
        <3> QED
            BY <1>3, <3>1, <3>2, PortsFrame DEF PortsExact
    <2> QED
        BY <2>1, <2>2, <2>3
<1>7. PortClaimed'
    BY <1>2, <1>3, <1>4 DEF PortClaimed, Busy, JobServer
<1> QED
    BY <1>5, <1>6, <1>7 DEF PortsExact

LEMMA PortsDel ==
    ASSUME Calm, TypeInv, Structure, PortsExact, PortClaimed, NEW s \in Servers,
           DeleteStart(s) \/ DeleteCommit(s) \/ DeleteCrash(s)
    PROVE  PortsExact' /\ PortClaimed'
<1> USE DEF TypeInv, TypeOK
<1>1. \A m \in Movers : Busy(m) => job[m].server # s
    BY DEF Calm, DeleteStart, DeleteCommit, DeleteCrash, MayStart, Idle, Moving, Busy,
           Structure, DelInv
<1>2. /\ job' = job
      /\ \A z \in Servers \ {s} : row'[z] = row[z]
    BY DEF DeleteStart, DeleteCommit, DeleteCrash
<1>3. \A z \in Servers \ {s} : \A a \in Allocations : owner'[a] = z <=> owner[a] = z
    BY SetsAssumption DEF DeleteStart, DeleteCommit, DeleteCrash, Unclaimed
<1>4. \A z \in Servers \ {s} : ServerPorts(z)'
    BY <1>2, <1>3, PortsFrame DEF PortsExact, Present
<1>5. ServerPorts(s)'
    <2>1. CASE DeleteStart(s)
        <3>1. (Present(s)' <=> Present(s)) /\ row'[s].node = row[s].node /\ owner' = owner
            BY <2>1 DEF DeleteStart, Present, RowRecord
        <3> QED
            BY <1>2, <3>1, PortsFrame DEF PortsExact
    <2>2. CASE DeleteCommit(s)
        <3>1. \A a \in Allocations : owner'[a] # s
            BY <2>2, SetsAssumption DEF DeleteCommit, Unclaimed
        <3>2. ~Present(s)'
            BY <2>2 DEF DeleteCommit, Present, NoRow
        <3> QED
            BY <3>1, <3>2 DEF ServerPorts
    <2> QED
        BY <2>1, <2>2 DEF Calm, DeleteCrash
<1>6. PortClaimed'
    BY <1>1, <1>2, <1>3 DEF PortClaimed, Busy, JobServer
<1> QED
    BY <1>4, <1>5, <1>6 DEF PortsExact

\* A migration's step keeps every other server's ports right.
LEMMA PortsMoveFrame ==
    ASSUME TypeInv, Structure, PortsExact, PortClaimed, NEW m \in Movers, Busy(m),
           NEW s \in Servers, s = job[m].server,
           \A k \in Movers \ {m} : job'[k] = job[k],
           \A z \in Servers \ {s} : row'[z] = row[z],
           \A z \in Servers \ {s} : \A a \in Allocations : owner'[a] = z <=> owner[a] = z,
           ServerPorts(s)',
           job'[m].pc = "building" =>
               \E a \in Allocations : owner'[a] = job'[m].server /\ NodeOf[a] = job'[m].rsv
    PROVE  PortsExact' /\ PortClaimed'
<1>1. \A k \in Movers \ {m} : Busy(k) => job[k].server \in Servers \ {s}
    BY MoverFacts DEF TypeInv, JobServer
<1>2. \A z \in Servers \ {s} : ServerPorts(z)'
    BY PortsFrame DEF PortsExact, Present
<1>3. ASSUME NEW k \in Movers \ {m}, job'[k].pc = "building"
      PROVE  \E a \in Allocations : owner'[a] = job'[k].server /\ NodeOf[a] = job'[k].rsv
    <2>1. job[k].pc = "building" /\ job[k].server \in Servers \ {s}
        BY <1>1, <1>3 DEF Busy
    <2> QED
        BY <2>1 DEF PortClaimed
<1> QED
    BY <1>2, <1>3 DEF PortsExact, PortClaimed

\* A server that is not being migrated, or is but holds no port on the target,
\* has its ports on its own node only.
LEMMA PortsAtHome ==
    ASSUME TypeInv, Structure, PortsExact, NEW m \in Movers, Busy(m),
           job[m].pc \notin {"building", "unwinding"} \/ job[m].rsv = NoNode,
           NEW s, s = job[m].server, NEW a \in Allocations, owner[a] = s
    PROVE  NodeOf[a] = row[s].node
<1>1. s \in Servers /\ \A k \in Movers \ {m} : Busy(k) => job[k].server # s
    BY MoverFacts
<1>2. NodeOf[a] \in Nodes
    BY SetsAssumption
<1> QED
    BY <1>1, <1>2, SetsAssumption DEF PortsExact, ServerPorts, Busy

LEMMA PortsMove ==
    ASSUME Calm, TypeInv, Structure, PortsExact, PortClaimed, NEW m \in Movers,
           \/ \E s \in Servers : Migrate(m, s)
           \/ \E n \in Nodes : Drain(m, n)
           \/ MoveStep(m) \/ LateFailure(m) \/ MoveCrash(m)
    PROVE  PortsExact' /\ PortClaimed'
<1> USE DEF TypeInv, TypeOK
<1>1. ~LateFailure(m) /\ ~MoveCrash(m)
    BY DEF Calm, LateFailure, MoveCrash
<1>2. ASSUME job[m].pc = "idle", job'[m].pc # "building",
             \A k \in Movers \ {m} : job'[k] = job[k], row' = row, owner' = owner
      PROVE  PortsExact' /\ PortClaimed'
    <2>1. \A z \in Servers : ServerPorts(z)'
        BY <1>2, PortsFrame DEF PortsExact, Present
    <2>2. PortClaimed'
        BY <1>2 DEF PortClaimed
    <2> QED
        BY <2>1, <2>2 DEF PortsExact
<1>3. ASSUME NEW x \in Servers, Migrate(m, x)
      PROVE  PortsExact' /\ PortClaimed'
    <2>1. job[m].pc = "idle" /\ row' = row /\ owner' = owner
        BY <1>3 DEF Migrate
    <2>2. job'[m].pc = "queued" /\ \A k \in Movers \ {m} : job'[k] = job[k]
        <3>1. PICK target : Queued(m, x, target, {})
            BY <1>3 DEF Migrate
        <3> QED
            BY <3>1 DEF Queued
    <2> QED
        BY <1>2, <2>1, <2>2
<1>4. ASSUME NEW n \in Nodes, Drain(m, n)
      PROVE  PortsExact' /\ PortClaimed'
    BY <1>2, <1>4 DEF Drain, JobRecord
<1>5. CASE DrainNext(m)
    <2>1. PICK x \in job[m].todo :
            IF Present(x[1]) /\ row[x[1]].attempt = x[2]
            THEN Queued(m, x[1], NoNode, job[m].todo \ {x})
            ELSE job' = [job EXCEPT ![m].todo = @ \ {x}]
        BY <1>5 DEF DrainNext
    <2>2. job[m].pc = "idle" /\ row' = row /\ owner' = owner
        BY <1>5 DEF DrainNext
    <2>3. CASE Queued(m, x[1], NoNode, job[m].todo \ {x})
        <3>1. job'[m].pc = "queued" /\ \A k \in Movers \ {m} : job'[k] = job[k]
            BY <2>3 DEF Queued
        <3> QED
            BY <1>2, <2>2, <3>1
    <2>4. CASE job' = [job EXCEPT ![m].todo = @ \ {x}]
        <3>1. job'[m].pc = "idle" /\ \A k \in Movers \ {m} : job'[k] = job[k]
            BY <2>2, <2>4 DEF JobRecord
        <3> QED
            BY <1>2, <2>2, <3>1
    <2> QED
        BY <2>1, <2>3, <2>4
<1>6. ASSUME Busy(m)
      PROVE  \E s \in Servers : s = job[m].server
    BY <1>6 DEF JobServer
\* Steps that leave rows and ports alone and enter or leave no state in which
\* a port may be held on the target.
<1>7. ASSUME NEW s \in Servers, s = job[m].server, Busy(m),
             \A k \in Movers \ {m} : job'[k] = job[k], row' = row, owner' = owner,
             job'[m].pc # "building",
             \/ job[m].pc \notin {"building", "unwinding"} \/ job[m].rsv = NoNode
             \/ /\ job'[m].pc \in {"building", "unwinding"}
                /\ job'[m].server = s /\ job'[m].rsv = job[m].rsv
      PROVE  PortsExact' /\ PortClaimed'
    <2>1. ServerPorts(s)'
        <3>1. CASE job[m].pc \notin {"building", "unwinding"} \/ job[m].rsv = NoNode
            <4>1. \A a \in Allocations : owner[a] = s => NodeOf[a] = row[s].node
                BY <1>7, <3>1, PortsAtHome
            <4> QED
                BY <1>7, <4>1 DEF PortsExact, ServerPorts, Present
        <3>2. CASE /\ job'[m].pc \in {"building", "unwinding"}
                   /\ job'[m].server = s /\ job'[m].rsv = job[m].rsv
            BY <1>7, <3>2, PortsFrame DEF PortsExact, Present
        <3> QED
            BY <1>7, <3>1, <3>2
    <2> QED
        BY <1>7, <2>1, PortsMoveFrame
<1>8. CASE MoveReserve(m)
    <2>1. PICK s \in Servers : s = job[m].server
        BY <1>6, <1>8 DEF MoveReserve, Busy
    <2>2. Busy(m) /\ job[m].pc = "queued" /\ row' = row /\ owner' = owner
        BY <1>8 DEF MoveReserve, Busy
    <2>3. job'[m].pc = "copying" /\ \A k \in Movers \ {m} : job'[k] = job[k]
        BY <1>8 DEF MoveReserve, JobRecord
    <2> QED
        BY <1>7, <2>1, <2>2, <2>3
<1>9. CASE MoveRefused(m) \/ Completed(m) \/ UnwindLedger(m)
    <2>1. PICK s \in Servers : s = job[m].server
        BY <1>6, <1>9 DEF MoveRefused, Completed, UnwindLedger, Busy
    <2>2. /\ Busy(m) /\ job[m].pc \notin {"building", "unwinding"}
          /\ row' = row /\ owner' = owner
        BY <1>9 DEF MoveRefused, Completed, UnwindLedger, Busy
    <2>3. job'[m].pc # "building" /\ \A k \in Movers \ {m} : job'[k] = job[k]
        BY <1>9 DEF MoveRefused, Completed, UnwindLedger, Resting, JobRecord
    <2> QED
        BY <1>7, <2>1, <2>2, <2>3
<1>10. CASE MoveFails(m)
    <2>1. PICK s \in Servers : s = job[m].server
        BY <1>6, <1>10 DEF MoveFails, Busy
    <2>2. /\ Busy(m) /\ row' = row /\ owner' = owner
          /\ job'[m].pc = "unwinding" /\ job'[m].server = s /\ job'[m].rsv = job[m].rsv
          /\ \A k \in Movers \ {m} : job'[k] = job[k]
        BY <1>10, <2>1 DEF MoveFails, Busy, JobRecord
    <2> QED
        BY <1>7, <2>1, <2>2
<1>11. CASE Claim(m)
    <2>1. PICK s \in Servers : s = job[m].server
        BY <1>6, <1>11 DEF Claim, Busy
    <2>2. /\ Busy(m) /\ job[m].pc = "copying" /\ row' = row
          /\ job'[m].pc = "building" /\ job'[m].server = s /\ job'[m].rsv = job[m].rsv
          /\ \A k \in Movers \ {m} : job'[k] = job[k]
        BY <1>11, <2>1 DEF Claim, Busy, JobRecord
    <2>3. PICK a \in FreePorts(job[m].rsv) : owner' = [owner EXCEPT ![a] = s]
        BY <1>11, <2>1 DEF Claim
    <2>4. a \in Allocations /\ NodeOf[a] = job[m].rsv /\ owner[a] = NoServer
        BY DEF FreePorts
    <2>5. job[m].rsv # row[s].node
        BY <2>1, <2>2, MoverFacts DEF JobShape
    <2>6. \A b \in Allocations : owner[b] = s => NodeOf[b] = row[s].node
        BY <2>1, <2>2, PortsAtHome
    <2>7. \A b \in Allocations : owner'[b] = s <=> owner[b] = s \/ b = a
        BY <2>3, <2>4
    <2>8. ServerPorts(s)'
        <3>1. Present(s) /\ Present(s)'
            BY <2>1, <2>2, MoverFacts DEF Present
        <3>2. \E b \in Allocations : owner'[b] = s /\ NodeOf[b] = row'[s].node
            BY <2>2, <2>7, <3>1 DEF PortsExact, ServerPorts
        <3>3. \A b, c \in Allocations :
                owner'[b] = s /\ owner'[c] = s /\ NodeOf[b] = NodeOf[c] => b = c
            BY <2>4, <2>5, <2>6, <2>7 DEF PortsExact, ServerPorts
        <3> QED
            BY <2>2, <2>4, <2>6, <2>7, <3>1, <3>2, <3>3 DEF ServerPorts
    <2>9. \A z \in Servers \ {s} : \A b \in Allocations : owner'[b] = z <=> owner[b] = z
        BY <2>3, <2>4, SetsAssumption
    <2> QED
        BY <2>1, <2>2, <2>4, <2>7, <2>8, <2>9, PortsMoveFrame
<1>12. CASE Switch(m)
    <2>1. PICK s \in Servers : s = job[m].server
        BY <1>6, <1>12 DEF Switch, Busy
    <2>2. /\ Busy(m) /\ job[m].pc = "building"
          /\ row'[s].node = job[m].rsv /\ row'[s].status = "OFFLINE"
          /\ \A z \in Servers \ {s} : row'[z] = row[z]
          /\ owner' = Unclaimed(s, {job[m].from})
          /\ job'[m].pc = "cleanup"
          /\ \A k \in Movers \ {m} : job'[k] = job[k]
        BY <1>12, <2>1 DEF Switch, Busy, JobRecord, RowRecord
    <2>3. row[s].node = job[m].from /\ job[m].rsv # job[m].from
        BY <2>1, <2>2, MoverFacts DEF JobShape
    <2>4. \A a \in Allocations : owner[a] = s => NodeOf[a] \in {job[m].from, job[m].rsv}
        <3>1. SUFFICES ASSUME NEW a \in Allocations, owner[a] = s, NodeOf[a] # row[s].node
                       PROVE  NodeOf[a] = job[m].rsv
            BY <2>3
        <3>2. s \in Servers
            BY <2>1, <2>2, MoverFacts
        <3>3. PICK k \in Movers : /\ job[k].pc \in {"building", "unwinding"}
                                  /\ job[k].server = s /\ job[k].rsv = NodeOf[a]
            BY <3>1, <3>2 DEF PortsExact, ServerPorts
        <3>4. Busy(k)
            BY <3>3 DEF Busy
        <3>5. k = m
            BY <2>1, <2>2, <3>3, <3>4, MoverFacts
        <3> QED
            BY <3>3, <3>5
    <2>5. \A a \in Allocations :
            owner'[a] = s <=> owner[a] = s /\ NodeOf[a] # job[m].from
        BY <2>2, SetsAssumption DEF Unclaimed
    <2>6. PICK a \in Allocations : owner[a] = s /\ NodeOf[a] = job[m].rsv
        BY <2>1, <2>2 DEF PortClaimed
    <2>7. ServerPorts(s)'
        <3>1. Present(s)' /\ row'[s].node = job[m].rsv
            BY <2>2 DEF Present
        <3>2. owner'[a] = s /\ NodeOf[a] = row'[s].node
            BY <2>3, <2>5, <2>6, <3>1
        <3>3. \A b \in Allocations : owner'[b] = s => owner[b] = s
            BY <2>5
        <3>4. \A b, c \in Allocations :
                owner'[b] = s /\ owner'[c] = s /\ NodeOf[b] = NodeOf[c] => b = c
            BY <3>3 DEF PortsExact, ServerPorts
        <3>5. \A b \in Allocations : owner'[b] = s => NodeOf[b] = row'[s].node
            BY <2>4, <2>5, <3>1
        <3> QED
            BY <3>1, <3>2, <3>4, <3>5 DEF ServerPorts
    <2>8. \A z \in Servers \ {s} : \A b \in Allocations : owner'[b] = z <=> owner[b] = z
        BY <2>2, SetsAssumption DEF Unclaimed
    <2> QED
        BY <2>1, <2>2, <2>7, <2>8, PortsMoveFrame
<1>13. CASE UnwindPorts(m)
    <2>1. PICK s \in Servers : s = job[m].server
        BY <1>6, <1>13 DEF UnwindPorts, Busy
    <2>2. Busy(m) /\ job[m].pc = "unwinding" /\ row' = row
        BY <1>13 DEF UnwindPorts, Busy
    <2>3. JobShape(m) /\ Present(s)
        BY <2>1, <2>2, MoverFacts
    <2>4. CASE job[m].to = job[m].from
        <3>1. job' = [job EXCEPT ![m] = Resting(job[m].todo)] /\ owner' = owner
            BY <1>13, <2>4 DEF UnwindPorts
        <3>2. job[m].rsv = NoNode /\ job'[m].pc = "idle"
            BY <2>2, <2>3, <2>4, <3>1 DEF JobShape, Resting
        <3> QED
            BY <1>7, <2>1, <2>2, <3>1, <3>2
    <2>5. CASE job[m].to # job[m].from
        <3>1. /\ job' = [job EXCEPT ![m].pc = "releasing"]
              /\ owner' = Unclaimed(s, {job[m].to})
            BY <1>13, <2>1, <2>3, <2>5 DEF UnwindPorts, JobShape
        <3>2. job[m].to = job[m].rsv /\ row[s].node = job[m].from
            BY <2>1, <2>2, <2>3, <2>5 DEF JobShape
        <3>3. ASSUME NEW a \in Allocations, owner[a] = s
              PROVE  NodeOf[a] \in {job[m].from, job[m].rsv}
            <4>1. \A k \in Movers \ {m} : Busy(k) => job[k].server # s
                BY <2>1, <2>2, MoverFacts
            <4>2. \/ NodeOf[a] = row[s].node
                  \/ \E k \in Movers : /\ job[k].pc \in {"building", "unwinding"}
                                       /\ job[k].server = s /\ job[k].rsv = NodeOf[a]
                BY <3>3 DEF PortsExact, ServerPorts
            <4> QED
                BY <3>2, <4>1, <4>2 DEF Busy
        <3>4. \A a \in Allocations :
                owner'[a] = s <=> owner[a] = s /\ NodeOf[a] # job[m].to
            BY <3>1, SetsAssumption DEF Unclaimed
        <3>5. ServerPorts(s)'
            <4>1. PICK a \in Allocations : owner[a] = s /\ NodeOf[a] = row[s].node
                BY <2>3 DEF PortsExact, ServerPorts
            <4>2. owner'[a] = s /\ NodeOf[a] = row'[s].node /\ Present(s)'
                BY <2>2, <2>3, <2>5, <3>2, <3>4, <4>1 DEF Present
            <4>3. \A b, c \in Allocations :
                    owner'[b] = s /\ owner'[c] = s /\ NodeOf[b] = NodeOf[c] => b = c
                BY <3>4 DEF PortsExact, ServerPorts
            <4>4. \A b \in Allocations : owner'[b] = s => NodeOf[b] = row'[s].node
                BY <2>2, <3>2, <3>3, <3>4
            <4> QED
                BY <4>2, <4>3, <4>4 DEF ServerPorts
        <3>6. \A z \in Servers \ {s} : \A b \in Allocations : owner'[b] = z <=> owner[b] = z
            BY <3>1, SetsAssumption DEF Unclaimed
        <3>7. job'[m].pc = "releasing" /\ \A k \in Movers \ {m} : job'[k] = job[k]
            BY <3>1 DEF JobRecord
        <3> QED
            BY <2>1, <2>2, <3>5, <3>6, <3>7, PortsMoveFrame
    <2> QED
        BY <2>4, <2>5
<1> QED
    BY <1>1, <1>3, <1>4, <1>5, <1>8, <1>9, <1>10, <1>11, <1>12, <1>13 DEF MoveStep

LEMMA PortsNode ==
    ASSUME Calm, TypeInv, Structure, PortsExact, PortClaimed, NEW n \in Nodes,
           Toggle(n) \/ SumRows(n) \/ Recalculate(n) \/ \E c \in Totals : Resize(n, c)
    PROVE  PortsExact' /\ PortClaimed'
<1>1. row' = row /\ owner' = owner /\ job' = job
    BY DEF Toggle, SumRows, Recalculate, Resize
<1>2. \A s \in Servers : ServerPorts(s)'
    BY <1>1, PortsFrame DEF PortsExact, Present
<1>3. PortClaimed'
    BY <1>1 DEF PortClaimed
<1> QED
    BY <1>2, <1>3 DEF PortsExact

-----------------------------------------------------------------------------
(* The inductive invariant.                                                 *)

LEMMA CalmInit == Init => IInv
<1> SUFFICES ASSUME Init
             PROVE  IInv
    OBVIOUS
<1>1. TypeInv
    BY TypeInit DEF Init, TypeInv, JobServer, Busy, Resting
<1>2. TotalsCoverReserved
    <2>1. \A n \in Nodes : reserved[n] = 0 /\ total[n] \in Nat
        BY BoundsAssumption DEF Init
    <2> QED
        BY <2>1 DEF TotalsCoverReserved
<1> QED
    BY <1>1, <1>2, StructureInit, LedgerInit, PortsInit DEF IInv

LEMMA CalmNext ==
    ASSUME Calm, IInv, Next
    PROVE  IInv'
<1>1. TypeInv /\ Structure /\ LedgerExact /\ TotalsCoverReserved /\ PortsExact /\ PortClaimed
    BY DEF IInv
<1>2. TypeInv'
    BY <1>1, TypeStep
<1>3. TotalsCoverReserved'
    BY <1>1, TotalsStep
<1>4. ASSUME NEW s \in Servers, Order(s) \/ BuyStep(s) \/ BuyCrash(s)
      PROVE  IInv'
    BY <1>1, <1>2, <1>3, <1>4, StructureBuy, LedgerBuy, PortsBuy DEF IInv
<1>5. ASSUME NEW s \in Servers, DeleteStart(s) \/ DeleteCommit(s) \/ DeleteCrash(s)
      PROVE  IInv'
    BY <1>1, <1>2, <1>3, <1>5, StructureDel, LedgerDel, PortsDel DEF IInv
<1>6. ASSUME NEW m \in Movers,
             \/ \E s \in Servers : Migrate(m, s)
             \/ \E n \in Nodes : Drain(m, n)
             \/ MoveStep(m) \/ LateFailure(m) \/ MoveCrash(m)
      PROVE  IInv'
    BY <1>1, <1>2, <1>3, <1>6, StructureMove, LedgerMove, PortsMove DEF IInv
<1>7. ASSUME NEW n \in Nodes,
             \/ Toggle(n) \/ SumRows(n) \/ Recalculate(n)
             \/ \E c \in Totals : Resize(n, c)
      PROVE  IInv'
    BY <1>1, <1>2, <1>3, <1>7, StructureNode, LedgerNode, PortsNode DEF IInv
<1> QED
    BY <1>4, <1>5, <1>6, <1>7 DEF Next

LEMMA CalmStill ==
    ASSUME IInv, UNCHANGED vars
    PROVE  IInv'
<1> USE DEF vars
<1>1. TypeInv'
    BY TypeStep DEF IInv
<1>2. \A n \in Nodes : (Located(n) \cup Holds(n))' = Located(n) \cup Holds(n)
    BY DEF Located, Holds, Present
<1>3. LedgerExact'
    BY <1>2 DEF IInv, LedgerExact
<1>4. TotalsCoverReserved'
    BY DEF IInv, TotalsCoverReserved
<1>5. PortsExact' /\ PortClaimed'
    BY DEF IInv, PortsExact, ServerPorts, PortClaimed, Present
<1>6. Structure'
    BY DEF IInv, Structure, BuyInv, DelInv, JobInv, JobShape, OneMover, NoSums, Busy,
           Live, Moving, Present
<1> QED
    BY <1>1, <1>3, <1>4, <1>5, <1>6 DEF IInv

\* What every operation of the panel preserves while no interaction of Admits
\* is switched on: the whole of PlacementInv's invariant.
THEOREM CalmInvariant == Calm => (Spec => []IInv)
<1> SUFFICES ASSUME Calm
             PROVE  Spec => []IInv
    OBVIOUS
<1>1. IInv /\ [Next]_vars => IInv'
    BY CalmNext, CalmStill
<1> QED
    BY <1>1, CalmInit, PTL DEF Spec

\* Every write of a node's counter by reserveCapacity and releaseCapacity,
\* from whichever of the three operations, keeps it at the sum of the servers
\* the node hosts and of those a migration has booked there.
THEOREM LedgerCorrect == Calm => (Spec => []LedgerExact)
<1>1. IInv => LedgerExact
    BY DEF IInv
<1> QED
    BY <1>1, CalmInvariant, PTL

\* The guarded UPDATE of reserveCapacity is enough to keep every node's
\* servers within its sellable total, through purchases, failed builds,
\* migrations and their unwinding.
THEOREM CapacityCorrect == Calm => (Spec => []NeverOversold)
<1>1. IInv => NeverOversold
    BY BookedFit DEF IInv, TypeInv
<1> QED
    BY <1>1, CalmInvariant, PTL

\* Ports follow their server: one on its node, a second one only where a
\* migration is building it, none left behind by a failure or a deletion.
THEOREM PortsCorrect == Calm => (Spec => []PortsExact)
<1>1. IInv => PortsExact
    BY DEF IInv
<1> QED
    BY <1>1, CalmInvariant, PTL

-----------------------------------------------------------------------------
(* Failed purchases, whatever Admits allows.                                *)

\* A step that keeps a server's row, its purchase's progress, its order and
\* its ports, or only takes ports away.
LEMMA PurchaseFrame ==
    ASSUME PurchaseInv,
           \A s \in Servers :
                /\ Present(s)' <=> Present(s)
                /\ buy'[s].pc = buy[s].pc \/ buy'[s].pc \in {"done", "dead", "building", "recorded"}
                /\ order'[s] = order[s]
                /\ ~Present(s) => \A a \in Allocations : owner'[a] = s => owner[a] = s
    PROVE  PurchaseInv'
BY DEF PurchaseInv

LEMMA PurchaseBuy ==
    ASSUME TypeInv, PurchaseInv, NEW s \in Servers, Order(s) \/ BuyStep(s) \/ BuyCrash(s)
    PROVE  PurchaseInv'
<1> USE DEF TypeInv, TypeOK
<1>1. \A z \in Servers \ {s} :
        /\ row'[z] = row[z] /\ buy'[z] = buy[z] /\ order'[z] = order[z]
        /\ \A a \in Allocations : owner'[a] = z => owner[a] = z
    <2>1. CASE Reserve(s)
        BY <2>1, SetsAssumption DEF Reserve
    <2>2. CASE BuildFails(s)
        BY <2>2, SetsAssumption DEF BuildFails, Unclaimed
    <2>3. CASE BuildSucceeds(s)
        BY <2>3 DEF BuildSucceeds
    <2>4. CASE Order(s) \/ GiveUp(s)
        BY <2>4 DEF Order, GiveUp
    <2>5. CASE NoCapacity(s) \/ NoAllocation(s) \/ Recorded(s) \/ BuyCrash(s)
        BY <2>5 DEF NoCapacity, NoAllocation, Recorded, BuyCrash
    <2> QED
        BY <2>1, <2>2, <2>3, <2>4, <2>5 DEF BuyStep
<1>2. \A z \in Servers \ {s} :
        /\ buy'[z].pc \in {"new", "placing", "refused", "failed"} => ~Present(z)'
        /\ buy'[z].pc \in {"placing", "refused", "failed"} => order'[z] # "PROVISIONED"
        /\ ~Present(z)' => \A a \in Allocations : owner'[a] # z
    BY <1>1 DEF PurchaseInv, Present
<1>3. /\ buy'[s].pc \in {"new", "placing", "refused", "failed"} => ~Present(s)'
      /\ buy'[s].pc \in {"placing", "refused", "failed"} => order'[s] # "PROVISIONED"
      /\ ~Present(s)' => \A a \in Allocations : owner'[a] # s
    <2>1. CASE Order(s)
        <3>1. /\ row' = row /\ owner' = owner /\ buy[s].pc = "new"
              /\ order'[s] = "PAID"
            BY <2>1 DEF Order
        <3> QED
            BY <3>1 DEF PurchaseInv, Present
    <2>2. CASE Reserve(s)
        <3>1. row'[s].status = "PROVISIONING" /\ buy'[s].pc = "building"
            BY <2>2 DEF Reserve, BuyRecord
        <3> QED
            BY <3>1 DEF Present
    <2>3. CASE NoCapacity(s) \/ NoAllocation(s)
        <3>1. /\ row' = row /\ owner' = owner /\ order' = order
              /\ buy[s].pc = "placing"
            BY <2>3 DEF NoCapacity, NoAllocation, Placing
        <3> QED
            BY <3>1 DEF PurchaseInv, Present
    <2>4. CASE GiveUp(s)
        <3>1. /\ row' = row /\ owner' = owner /\ order'[s] = "FAILED"
              /\ buy[s].pc = "placing"
            BY <2>4 DEF GiveUp
        <3> QED
            BY <3>1 DEF PurchaseInv, Present
    <2>5. CASE BuildSucceeds(s)
        <3>1. row'[s].status = "OFFLINE" /\ buy'[s].pc = "recorded"
            BY <2>5 DEF BuildSucceeds, RowRecord, BuyRecord
        <3> QED
            BY <3>1 DEF Present
    <2>6. CASE Recorded(s) \/ BuyCrash(s)
        <3>1. /\ row' = row /\ owner' = owner /\ buy'[s].pc \in {"done", "dead"}
            BY <2>6 DEF Recorded, BuyCrash, BuyRecord
        <3> QED
            BY <3>1 DEF PurchaseInv, Present
    <2>7. CASE BuildFails(s)
        <3>1. \A a \in Allocations : owner'[a] # s
            BY <2>7, SetsAssumption DEF BuildFails, Unclaimed
        <3>2. ~Present(s)' /\ order'[s] = "PENDING"
            BY <2>7 DEF BuildFails, Present, NoRow
        <3> QED
            BY <3>1, <3>2
    <2> QED
        BY <2>1, <2>2, <2>3, <2>4, <2>5, <2>6, <2>7 DEF BuyStep
<1> QED
    BY <1>2, <1>3 DEF PurchaseInv

LEMMA PurchaseDel ==
    ASSUME TypeInv, PurchaseInv, NEW s \in Servers,
           DeleteStart(s) \/ DeleteCommit(s) \/ DeleteCrash(s)
    PROVE  PurchaseInv'
<1> USE DEF TypeInv, TypeOK
<1>1. CASE DeleteStart(s)
    <2>1. \A z \in Servers : Present(z)' <=> Present(z)
        BY <1>1 DEF DeleteStart, Present, RowRecord
    <2> QED
        BY <1>1, <2>1, PurchaseFrame DEF DeleteStart
<1>2. CASE DeleteCommit(s)
    <2>1. \A a \in Allocations : owner'[a] # s
        BY <1>2, SetsAssumption DEF DeleteCommit, Unclaimed
    <2>2. \A z \in Servers \ {s} : \A a \in Allocations : owner'[a] = z => owner[a] = z
        BY <1>2, SetsAssumption DEF DeleteCommit, Unclaimed
    <2>3. /\ ~Present(s)' /\ buy' = buy /\ order' = order
          /\ \A z \in Servers \ {s} : row'[z] = row[z]
        BY <1>2 DEF DeleteCommit, Present, NoRow
    <2>4. buy[s].pc \in {"placing", "refused", "failed"} => order[s] # "PROVISIONED"
        BY DEF PurchaseInv
    <2> QED
        BY <2>1, <2>2, <2>3, <2>4 DEF PurchaseInv, Present
<1>3. CASE DeleteCrash(s)
    BY <1>3, PurchaseFrame DEF DeleteCrash, Present
<1> QED
    BY <1>1, <1>2, <1>3

LEMMA PurchaseMove ==
    ASSUME TypeInv, PurchaseInv, NEW m \in Movers,
           \/ \E s \in Servers : Migrate(m, s)
           \/ \E n \in Nodes : Drain(m, n)
           \/ MoveStep(m) \/ LateFailure(m) \/ MoveCrash(m)
    PROVE  PurchaseInv'
<1> USE DEF TypeInv, TypeOK
<1>1. CASE Claim(m)
    <2>1. PICK a \in Allocations : owner' = [owner EXCEPT ![a] = job[m].server]
        BY <1>1 DEF Claim, FreePorts
    <2>2. Present(job[m].server) /\ row' = row /\ order' = order /\ buy' = buy
        BY <1>1 DEF Claim, Live
    <2> QED
        BY <2>1, <2>2, PurchaseFrame DEF Present
<1>2. CASE Switch(m)
    <2>1. job[m].server \in Servers /\ Present(job[m].server)
        BY <1>2 DEF Switch, Live, JobServer, Busy
    <2>2. \A z \in Servers : Present(z)' <=> Present(z)
        BY <1>2, <2>1 DEF Switch, Present, RowRecord
    <2>3. \A z \in Servers : \A a \in Allocations : owner'[a] = z => owner[a] = z
        BY <1>2, SetsAssumption DEF Switch, Unclaimed
    <2> QED
        BY <1>2, <2>2, <2>3, PurchaseFrame DEF Switch
<1>3. CASE UnwindPorts(m)
    <2>1. \A z \in Servers : \A a \in Allocations : owner'[a] = z => owner[a] = z
        BY <1>3, SetsAssumption DEF UnwindPorts, Unclaimed
    <2>2. row' = row /\ order' = order /\ buy' = buy
        BY <1>3 DEF UnwindPorts
    <2> QED
        BY <2>1, <2>2, PurchaseFrame DEF Present
<1>4. CASE \/ \E s \in Servers : Migrate(m, s)
           \/ \E n \in Nodes : Drain(m, n)
           \/ DrainNext(m) \/ MoveReserve(m) \/ MoveRefused(m) \/ MoveFails(m)
           \/ Completed(m) \/ UnwindLedger(m) \/ LateFailure(m) \/ MoveCrash(m)
    <2>1. row' = row /\ order' = order /\ buy' = buy /\ owner' = owner
        BY <1>4 DEF Migrate, Drain, DrainNext, MoveReserve, MoveRefused, MoveFails,
                    Completed, UnwindLedger, LateFailure, MoveCrash
    <2> QED
        BY <2>1, PurchaseFrame DEF Present
<1> QED
    BY <1>1, <1>2, <1>3, <1>4 DEF MoveStep

\* provisionServer leaves nothing behind when it ends by an exception: for
\* every overlap, late failure, crash and recalculation the code permits, an
\* order that was refused or failed has no row and no port and does not say
\* PROVISIONED.
THEOREM FailedPurchaseCorrect == Spec => []FailedPurchaseHoldsNothing
<1>1. Init => TypeInv /\ PurchaseInv
    <2>1. Init => TypeInv
        BY TypeInit DEF TypeInv, Init, JobServer, Busy, Resting
    <2>2. Init => PurchaseInv
        BY SetsAssumption DEF Init, PurchaseInv, Present, NoRow
    <2> QED
        BY <2>1, <2>2
<1>2. TypeInv /\ PurchaseInv /\ [Next]_vars => (TypeInv /\ PurchaseInv)'
    <2> SUFFICES ASSUME TypeInv, PurchaseInv, [Next]_vars
                 PROVE  PurchaseInv'
        BY TypeStep
    <2>1. ASSUME NEW n \in Nodes,
                 \/ Toggle(n) \/ SumRows(n) \/ Recalculate(n)
                 \/ \E c \in Totals : Resize(n, c)
          PROVE  PurchaseInv'
        <3>1. row' = row /\ order' = order /\ buy' = buy /\ owner' = owner
            BY <2>1 DEF Toggle, SumRows, Recalculate, Resize
        <3> QED
            BY <3>1, PurchaseFrame DEF Present
    <2>2. CASE UNCHANGED vars
        BY <2>2, PurchaseFrame DEF vars, Present
    <2> QED
        BY <2>1, <2>2, PurchaseBuy, PurchaseDel, PurchaseMove DEF Next
<1>3. PurchaseInv => FailedPurchaseHoldsNothing
    BY DEF PurchaseInv, FailedPurchaseHoldsNothing
<1> QED
    BY <1>1, <1>2, <1>3, PTL DEF Spec
-----------------------------------------------------------------------------
(* What LedgerHeals owes to the steps, whatever Admits: in a quiet fleet    *)
(* two recalculations of a node, after whatever happened, make its counter  *)
(* exact, and it stays so.  That they happen is fairness.                   *)

\* No recalculation under way is about to write a sum that is out of date.
Fresh(n) == sums[n] \in {NoSum, Load(Placed(n))}
Healed(n) == Fresh(n) /\ reserved[n] = Load(Placed(n))

HealsWhenQuiet ==
    Quiet /\ Quiet' => \A n \in Nodes :
        /\ SumRows(n) \/ Recalculate(n) \/ Fresh(n) => Fresh(n)'
        /\ (Recalculate(n) /\ Fresh(n)) \/ Healed(n) => Healed(n)'

LEMMA SummedIsPlaced == ASSUME TypeOK, NEW n \in Nodes PROVE Summed(n) = Placed(n)
<1>1. \A s \in Servers : row[s].status \in {"none", "PROVISIONING", "OFFLINE", "DELETING"}
    BY DEF TypeOK, RowRecord
<1> QED
    BY <1>1 DEF Summed, Located, Present, Placed

\* In a quiet fleet no step touches a row that a recalculation sums, and none
\* but a recalculation touches a counter.
LEMMA QuietStep ==
    ASSUME TypeOK, [Next]_vars, Quiet, Quiet'
    PROVE  /\ \A n \in Nodes : Placed(n)' = Placed(n)
           /\ \/ reserved' = reserved /\ sums' = sums
              \/ \E n \in Nodes : row' = row /\ (SumRows(n) \/ Recalculate(n))
<1> DEFINE Still == /\ \A n \in Nodes : Placed(n)' = Placed(n)
                    /\ reserved' = reserved /\ sums' = sums
<1>0. ASSUME row' = row PROVE \A n \in Nodes : Placed(n)' = Placed(n)
    BY <1>0 DEF Placed
<1>1. ASSUME NEW s \in Servers, Order(s) PROVE FALSE
    <2>1. buy'[s].pc = "placing"
        BY <1>1 DEF Order, TypeOK, BuyRecord
    <2> QED
        BY <2>1 DEF Quiet, BuyActive
<1>2. ASSUME NEW s \in Servers, BuyStep(s) \/ BuyCrash(s) PROVE FALSE
    <2>1. ASSUME Reserve(s) \/ NoCapacity(s) \/ NoAllocation(s) \/ GiveUp(s)
          PROVE  buy[s].pc = "placing"
        BY <2>1 DEF Reserve, NoCapacity, NoAllocation, GiveUp, Placing
    <2>2. ASSUME BuildSucceeds(s) \/ Recorded(s) \/ BuildFails(s)
          PROVE  buy[s].pc \in {"building", "recorded"}
        BY <2>2 DEF BuildSucceeds, Recorded, BuildFails
    <2>3. buy[s].pc \in BuyActive
        BY <1>2, <2>1, <2>2 DEF BuyStep, BuyCrash, BuyActive
    <2> QED
        BY <2>3 DEF Quiet
<1>3. ASSUME NEW s \in Servers, DeleteStart(s) PROVE Still
    <2>1. row[s].node = NoNode
        <3>1. del'[s] = row[s].node
            BY <1>3 DEF DeleteStart, TypeOK
        <3> QED
            BY <3>1 DEF Quiet
    <2>2. /\ row'[s].node = NoNode
          /\ \A t \in Servers \ {s} : row'[t] = row[t]
        BY <1>3, <2>1 DEF DeleteStart, TypeOK, RowRecord
    <2>3. \A n \in Nodes : Placed(n)' = Placed(n)
        BY <2>1, <2>2, SetsAssumption DEF Placed
    <2> QED
        BY <1>3, <2>3 DEF DeleteStart
<1>4. ASSUME NEW s \in Servers, DeleteCommit(s) \/ DeleteCrash(s) PROVE FALSE
    BY <1>4 DEF DeleteCommit, DeleteCrash, Quiet
<1>5. ASSUME NEW m \in Movers, NEW s \in Servers, Migrate(m, s) PROVE FALSE
    <2>1. PICK target \in SomeNode : Queued(m, s, target, {})
        BY <1>5 DEF Migrate, SomeNode
    <2>2. job'[m].pc = "queued"
        BY <2>1 DEF Queued, TypeOK
    <2> QED
        BY <2>2 DEF Quiet
<1>6. ASSUME NEW m \in Movers, NEW n \in Nodes, Drain(m, n) PROVE Still
    BY <1>0, <1>6 DEF Drain
<1>7. ASSUME NEW m \in Movers, MoveStep(m) \/ LateFailure(m) \/ MoveCrash(m) PROVE Still
    <2>1. job[m].pc = "idle"
        BY DEF Quiet
    <2>2. DrainNext(m) \/ MoveCrash(m)
        BY <1>7, <2>1 DEF MoveStep, LateFailure, MoveReserve, MoveRefused, Claim, Switch, MoveFails,
                          Completed, UnwindPorts, UnwindLedger
    <2> QED
        BY <1>0, <2>2 DEF DrainNext, MoveCrash
<1>8. ASSUME NEW n \in Nodes, Toggle(n) \/ \E c \in Totals : Resize(n, c) PROVE Still
    BY <1>0, <1>8 DEF Toggle, Resize
<1>9. ASSUME NEW n \in Nodes, SumRows(n) \/ Recalculate(n) PROVE row' = row
    BY <1>9 DEF SumRows, Recalculate
<1>10. CASE UNCHANGED vars
    BY <1>0, <1>10 DEF vars
<1>11. CASE Next
    <2>1. Still \/ \E n \in Nodes : SumRows(n) \/ Recalculate(n)
        BY <1>1, <1>2, <1>3, <1>4, <1>5, <1>6, <1>7, <1>8, <1>11 DEF Next
    <2> QED
        BY <1>0, <1>9, <2>1
<1> QED
    BY <1>10, <1>11

\* Whatever overlapped, failed or died before: once no operation runs, the
\* second recalculation of a node makes its counter the sum of its rows, and no
\* step takes it from there (recalculateNodeReservations, scheduler.ts).
THEOREM QuietFleetHeals == Spec => [][HealsWhenQuiet]_vars
<1>1. TypeOK /\ [Next]_vars => [HealsWhenQuiet]_vars
    <2> SUFFICES ASSUME TypeOK, [Next]_vars, Quiet, Quiet', NEW n \in Nodes
                 PROVE  /\ SumRows(n) \/ Recalculate(n) \/ Fresh(n) => Fresh(n)'
                        /\ (Recalculate(n) /\ Fresh(n)) \/ Healed(n) => Healed(n)'
        BY DEF HealsWhenQuiet
    <2>1. Load(Placed(n))' = Load(Placed(n))
        BY QuietStep DEF Load, Units
    <2>2. ASSUME SumRows(n) PROVE sums'[n] = Load(Placed(n)) /\ reserved'[n] = reserved[n]
        BY <2>2, SummedIsPlaced DEF SumRows, TypeOK
    <2>3. ASSUME Recalculate(n) PROVE sums'[n] = NoSum /\ reserved'[n] = sums[n] /\ sums[n] # NoSum
        BY <2>3 DEF Recalculate, TypeOK
    <2>4. ASSUME ~SumRows(n), ~Recalculate(n) PROVE sums'[n] = sums[n] /\ reserved'[n] = reserved[n]
        <3>1. ASSUME NEW k \in Nodes, k # n, SumRows(k) \/ Recalculate(k)
              PROVE  sums'[n] = sums[n] /\ reserved'[n] = reserved[n]
            BY <3>1 DEF SumRows, Recalculate, TypeOK
        <3> QED
            BY <2>4, <3>1, QuietStep
    <2> QED
        BY <2>1, <2>2, <2>3, <2>4 DEF Fresh, Healed
<1> QED
    BY <1>1, TypeCorrect, PTL DEF Spec
=============================================================================
