---------------------------- MODULE BillingProofs ----------------------------
(***************************************************************************)
(* Proofs about Billing for any number of servers, payments, invoices and  *)
(* days, and any grace, retention and period.                              *)
(***************************************************************************)
EXTENDS Billing, TLAPS

-----------------------------------------------------------------------------
(* Typing.                                                                  *)

Renewals == Servers \X (-1..LastDay)
Cases == Ids \X Servers

BooksTyped ==
    /\ issued \in 0..MaxInvoices /\ invoice \in [Ids -> InvoiceRecord]
    /\ \A i \in Written : invoice[i].server \in Servers

RowsTyped == server \in [Servers -> ServerRecord]

WorkerRecord ==
    [job : WorkerJob, now : 0..LastDay, todo : SUBSET (Renewals \cup Cases),
     at : Servers \cup {NoServer}]

WorkerTyped ==
    /\ worker \in WorkerRecord /\ worker.now <= day
    /\ worker.job \in {"suspending", "stopping", "flagging", "deleting"} => worker.at \in Servers
    /\ worker.job = "renew" => worker.todo \subseteq Renewals
    /\ worker.job \notin {"idle", "renew"} => worker.todo \subseteq Cases

PayTyped ==
    /\ pay \in [Payments -> [pc : {"none", "sent", "done"} \cup PayBusy, invoice : Ids \cup {0}]]
    /\ \A p \in Payments : pay[p].pc \in PayBusy \cup {"sent"} => pay[p].invoice \in Written

OthersTyped ==
    /\ day \in 0..LastDay /\ cycled \in BOOLEAN /\ online \in BOOLEAN
    /\ running \in [Servers -> BOOLEAN] /\ power \in [Servers -> {"none", "read", "marked"}]

TypeInv == BooksTyped /\ RowsTyped /\ WorkerTyped /\ PayTyped /\ OthersTyped

LEMMA TypeInvImplies == TypeInv => TypeOK
BY DEF TypeInv, TypeOK, BooksTyped, RowsTyped, WorkerTyped, WorkerRecord, PayTyped, OthersTyped

LEMMA TypeInit == Init => TypeInv
<1> SUFFICES ASSUME Init PROVE TypeInv
    OBVIOUS
<1> USE SetsAssumption, DaysAssumption DEF Init
<1>1. BooksTyped
    BY DEF BooksTyped, NoInvoice, InvoiceRecord, Ids, Written
<1>2. RowsTyped
    BY DEF RowsTyped, ServerRecord
<1>3. WorkerTyped
    BY DEF WorkerTyped, WorkerRecord, WorkerJob, Resting
<1>4. PayTyped
    BY DEF PayTyped, PayBusy
<1>5. running \in [Servers -> BOOLEAN] /\ cycled \in BOOLEAN /\ online \in BOOLEAN
    OBVIOUS
<1>6. OthersTyped
    BY <1>5 DEF OthersTyped
<1> QED
    BY <1>1, <1>2, <1>3, <1>4, <1>6 DEF TypeInv

-----------------------------------------------------------------------------
(* Invoices: what is written stays, and a server's last period ends last.   *)

\* The choice in LastEnd is of something there is.
Latest ==
    \A s \in Servers : Of(s) # {} => \E k \in Of(s) : \A i \in Of(s) : End(i) <= End(k)

LEMMA Typed ==
    ASSUME BooksTyped, NEW i \in Written
    PROVE  /\ i \in Ids /\ invoice[i].server \in Servers
           /\ Start(i) \in Nat /\ End(i) \in Nat \ {0} /\ End(i) > Start(i) /\ Due(i) \in Nat
BY DaysAssumption DEF BooksTyped, InvoiceRecord, Written, Ids, Start, End, Due

LEMMA LastEndFacts ==
    ASSUME BooksTyped, Latest, NEW s \in Servers
    PROVE  /\ Of(s) = {} => LastEnd(s) = NoEnd
           /\ Of(s) # {} => /\ LastEnd(s) \in Nat \ {0}
                            /\ \E k \in Of(s) : End(k) = LastEnd(s)
                            /\ \A i \in Of(s) : End(i) <= LastEnd(s)
<1>1. CASE Of(s) = {}
    BY <1>1 DEF LastEnd
<1>2. CASE Of(s) # {}
    <2> DEFINE ends == {End(i) : i \in Of(s)}
    <2>1. PICK k \in Of(s) : \A i \in Of(s) : End(i) <= End(k)
        BY <1>2 DEF Latest
    <2>2. ends \subseteq Nat \ {0}
        BY Typed DEF Of
    <2>3. End(k) \in ends /\ \A e \in ends : End(k) >= e
        BY <2>1, <2>2
    <2>4. LastEnd(s) = Max(ends)
        BY <1>2 DEF LastEnd
    <2>5. \A i \in Of(s) : End(i) \in ends
        OBVIOUS
    <2>6. \A e \in ends : \E i \in Of(s) : End(i) = e
        OBVIOUS
    <2> HIDE DEF ends
    <2>7. Max(ends) \in ends /\ \A e \in ends : Max(ends) >= e
        BY <2>3 DEF Max
    <2> QED
        BY <1>2, <2>2, <2>4, <2>5, <2>6, <2>7
<1> QED
    BY <1>1, <1>2

\* A step that writes no invoice changes no server's periods.
BooksKept ==
    /\ issued' = issued
    /\ \A i \in Written : invoice'[i].server = invoice[i].server /\ invoice'[i].start = invoice[i].start

LEMMA KeptFacts ==
    ASSUME BooksTyped, BooksKept
    PROVE  /\ Written' = Written
           /\ \A i \in Written : Start(i)' = Start(i) /\ End(i)' = End(i) /\ Due(i)' = Due(i)
           /\ \A s \in Servers : Of(s)' = Of(s) /\ LastEnd(s)' = LastEnd(s)
<1>1. Written' = Written
    BY DEF BooksKept, Written
<1>2. \A i \in Written : Start(i)' = Start(i) /\ End(i)' = End(i) /\ Due(i)' = Due(i)
    BY DEF BooksKept, Start, End, Due
<1>3. ASSUME NEW s \in Servers
      PROVE  Of(s)' = Of(s) /\ LastEnd(s)' = LastEnd(s)
    <2>1. Of(s)' = Of(s)
        BY <1>1 DEF BooksKept, Of
    <2>2. {End(i) : i \in Of(s)}' = {End(i) : i \in Of(s)}
        BY <1>2, <2>1 DEF Of
    <2> QED
        BY <2>1, <2>2 DEF LastEnd
<1> QED
    BY <1>1, <1>2, <1>3

\* An invoice that is written is the server's own and nobody else's.
LEMMA IssuedFacts ==
    ASSUME BooksTyped, NEW s \in Servers, NEW d \in 0..LastDay, Issued(s, d),
           NEW n, n = issued + 1
    PROVE  /\ BooksTyped'
           /\ n \notin Written /\ Written' = Written \cup {n}
           /\ Start(n)' = d /\ End(n)' = d + Period
           /\ \A i \in Written : invoice'[i] = invoice[i]
           /\ \A i \in Written : Start(i)' = Start(i) /\ End(i)' = End(i) /\ Due(i)' = Due(i)
           /\ Of(s)' = Of(s) \cup {n}
           /\ \A t \in Servers \ {s} : Of(t)' = Of(t) /\ LastEnd(t)' = LastEnd(t)
<1> USE SetsAssumption, DaysAssumption
<1> DEFINE new == [server |-> s, start |-> d, status |-> "OPEN", ref |-> NoPayment]
<1>1. new \in InvoiceRecord /\ new.server = s /\ new.start = d
    BY DEF InvoiceRecord
<1>2. /\ issued' = n /\ n \in Ids /\ invoice' = [invoice EXCEPT ![n] = new]
      /\ invoice \in [Ids -> InvoiceRecord] /\ issued \in Nat
    BY DEF Issued, Ids, BooksTyped
<1> HIDE DEF new
<1>3. invoice' \in [Ids -> InvoiceRecord] /\ invoice'[n] = new
    BY <1>1, <1>2
<1>4. Written' = Written \cup {n} /\ n \notin Written /\ Written \subseteq Ids
    BY <1>2 DEF Written, Ids
<1>5. \A i \in Written : invoice'[i] = invoice[i]
    BY <1>2, <1>4
<1>6. BooksTyped'
    <2>1. \A i \in Written' : invoice'[i].server \in Servers
        BY <1>1, <1>3, <1>4, <1>5 DEF BooksTyped
    <2> QED
        BY <1>2, <1>3, <2>1 DEF BooksTyped, Ids
<1>7. \A i \in Written : Start(i)' = Start(i) /\ End(i)' = End(i) /\ Due(i)' = Due(i)
    BY <1>5 DEF Start, End, Due
<1>8. Of(s)' = Of(s) \cup {n}
    BY <1>1, <1>3, <1>4, <1>5 DEF Of
<1>9. ASSUME NEW t \in Servers \ {s} PROVE Of(t)' = Of(t) /\ LastEnd(t)' = LastEnd(t)
    <2>1. Of(t)' = Of(t)
        BY <1>1, <1>3, <1>4, <1>5 DEF Of
    <2>2. {End(i) : i \in Of(t)}' = {End(i) : i \in Of(t)}
        BY <1>7, <2>1 DEF Of
    <2> QED
        BY <2>1, <2>2 DEF LastEnd
<1>10. Start(n)' = d /\ End(n)' = d + Period
    BY <1>1, <1>3 DEF Start, End
<1> QED
    BY <1>2, <1>4, <1>5, <1>6, <1>7, <1>8, <1>9, <1>10

-----------------------------------------------------------------------------
(* Typing is kept.                                                          *)

LEMMA LatestStep ==
    ASSUME BooksTyped, Latest, BooksKept \/ \E s \in Servers, d \in 0..LastDay : Issued(s, d)
    PROVE  Latest'
<1>1. CASE BooksKept
    BY <1>1, KeptFacts DEF Latest, Of
<1>2. ASSUME NEW s \in Servers, NEW d \in 0..LastDay, Issued(s, d)
      PROVE  Latest'
    <2> DEFINE n == issued + 1
    <2>1. PICK m : m = n
        OBVIOUS
    <2>2. /\ m \notin Written /\ Start(m)' = d /\ End(m)' = d + Period
          /\ \A i \in Written : End(i)' = End(i)
          /\ Of(s)' = Of(s) \cup {m} /\ \A t \in Servers \ {s} : Of(t)' = Of(t)
        BY <1>2, <2>1, IssuedFacts
    <2>3. \A i \in Written : End(i) \in Nat
        BY Typed
    <2>4. d + Period \in Nat
        BY DaysAssumption
    <2> SUFFICES ASSUME NEW t \in Servers, Of(t)' # {}
                 PROVE  \E k \in Of(t)' : \A i \in Of(t)' : End(i)' <= End(k)'
        BY DEF Latest
    <2>5. CASE t # s
        BY <2>2, <2>5 DEF Latest, Of
    <2>6. CASE t = s /\ Of(s) = {}
        BY <2>2, <2>4, <2>6
    <2>7. CASE t = s /\ Of(s) # {}
        <3>1. PICK k \in Of(s) : \A i \in Of(s) : End(i) <= End(k)
            BY <2>7 DEF Latest
        <3>2. Of(s) \subseteq Written
            BY DEF Of
        <3>3. CASE End(k) <= d + Period
            BY <2>2, <2>3, <2>4, <2>7, <3>1, <3>2, <3>3
        <3>4. CASE d + Period <= End(k)
            BY <2>2, <2>3, <2>4, <2>7, <3>1, <3>2, <3>4
        <3> QED
            BY <2>3, <2>4, <3>2, <3>3, <3>4
    <2> QED
        BY <2>5, <2>6, <2>7
<1> QED
    BY <1>1, <1>2

\* What a step leaves alone stays typed.
LEMMA Frames ==
    ASSUME TypeInv
    PROVE  /\ (issued' = issued /\ invoice' = invoice) => BooksTyped'
           /\ server' = server => RowsTyped'
           /\ (worker' = worker /\ day' = day) => WorkerTyped'
           /\ (pay' = pay /\ issued' = issued) => PayTyped'
           /\ (/\ day' = day /\ cycled' = cycled /\ online' = online
               /\ running' = running /\ power' = power) => OthersTyped'
BY DEF TypeInv, BooksTyped, RowsTyped, WorkerTyped, PayTyped, OthersTyped, Written

LEMMA StopTyped ==
    ASSUME OthersTyped, NEW s \in Servers, Stopped(s)
    PROVE  running' \in [Servers -> BOOLEAN]
BY DEF OthersTyped, Stopped

\* A step of the cycle that touches neither invoices nor payments.
LEMMA CycleTyped ==
    ASSUME TypeInv,
           UNCHANGED <<day, cycled, issued, invoice, server, running, online, pay, power>>,
           WorkerTyped'
    PROVE  TypeInv'
BY Frames DEF TypeInv

LEMMA TypeStep ==
    ASSUME TypeInv, Latest, [Next]_vars
    PROVE  TypeInv'
<1> USE SetsAssumption, DaysAssumption
<1>0. BooksTyped /\ RowsTyped /\ WorkerTyped /\ PayTyped /\ OthersTyped
    BY DEF TypeInv
<1>1. ASSUME NEW s \in Servers, FirstInvoice(s) PROVE TypeInv'
    <2>1. Issued(s, day) /\ day \in 0..LastDay
        BY <1>0, <1>1 DEF FirstInvoice, OthersTyped
    <2>2. BooksTyped' /\ Written \subseteq Written'
        BY <1>0, <2>1, IssuedFacts
    <2>3. RowsTyped'
        BY <1>0, <1>1 DEF FirstInvoice, RowsTyped, ServerRecord
    <2>4. PayTyped'
        BY <1>0, <1>1, <2>2 DEF FirstInvoice, PayTyped
    <2> QED
        BY <1>1, <2>2, <2>3, <2>4, Frames DEF FirstInvoice, TypeInv
<1>2. ASSUME NEW s \in Servers, FirstInvoiceFails(s) PROVE TypeInv'
    <2>1. RowsTyped'
        BY <1>0, <1>2 DEF FirstInvoiceFails, RowsTyped, ServerRecord
    <2> QED
        BY <1>2, <2>1, Frames DEF FirstInvoiceFails, TypeInv
<1>3. ASSUME CycleBegin PROVE TypeInv'
    <2>1. day \in 0..LastDay /\ NoServer \notin Servers
        BY <1>0 DEF OthersTyped
    <2>2. ASSUME NEW s \in Renewable(day) PROVE <<s, LastEnd(s)>> \in Renewals
        <3>1. s \in Servers /\ \A i \in Of(s) : End(i) <= day
            BY DEF Renewable
        <3>2. LastEnd(s) = -1 \/ LastEnd(s) \in 1..LastDay
            BY <1>0, <2>1, <3>1, LastEndFacts DEF NoEnd
        <3> QED
            BY <3>1, <3>2 DEF Renewals
    <2>3. worker' = [job |-> "renew", now |-> day, at |-> NoServer,
                     todo |-> {<<s, LastEnd(s)>> : s \in Renewable(day)}]
        BY <1>3 DEF CycleBegin
    <2>4. {<<s, LastEnd(s)>> : s \in Renewable(day)} \subseteq Renewals
        BY <2>2
    <2>5. WorkerTyped'
        BY <1>3, <2>1, <2>3, <2>4 DEF CycleBegin, WorkerTyped, WorkerRecord, WorkerJob
    <2> QED
        BY <1>3, <2>5, CycleTyped DEF CycleBegin
<1>4. ASSUME NEW x \in worker.todo, Renew(x) PROVE TypeInv'
    <2>1. x \in Renewals
        BY <1>0, <1>4 DEF Renew, WorkerTyped
    <2> DEFINE d == IF x[2] = NoEnd THEN worker.now ELSE x[2]
    <2>2. x[1] \in Servers /\ d \in 0..LastDay /\ Issued(x[1], d)
        BY <1>0, <1>4, <2>1 DEF Renew, Renewals, WorkerTyped, WorkerRecord, NoEnd
    <2>3. BooksTyped' /\ Written \subseteq Written'
        BY <1>0, <2>2, IssuedFacts
    <2>4. WorkerTyped'
        BY <1>0, <1>4 DEF Renew, WorkerTyped, WorkerRecord
    <2>5. PayTyped'
        BY <1>0, <1>4, <2>3 DEF Renew, PayTyped
    <2> QED
        BY <1>4, <2>3, <2>4, <2>5, Frames DEF Renew, TypeInv
<1>5. ASSUME NEW x \in worker.todo, RenewFails(x) PROVE TypeInv'
    <2>1. WorkerTyped'
        BY <1>0, <1>5 DEF RenewFails, WorkerTyped, WorkerRecord
    <2> QED
        BY <1>5, <2>1, CycleTyped DEF RenewFails
<1>6. ASSUME NEW x \in worker.todo, MarkOverdue(x) PROVE TypeInv'
    <2>1. x \in Cases /\ x[1] \in Ids /\ x[2] \in Servers
        BY <1>0, <1>6 DEF MarkOverdue, WorkerTyped, Cases
    <2>2. [invoice[x[1]] EXCEPT !.status = "OVERDUE"] \in InvoiceRecord
        BY <1>0, <2>1 DEF BooksTyped, InvoiceRecord
    <2>3. BooksTyped'
        BY <1>0, <1>6, <2>1, <2>2 DEF MarkOverdue, BooksTyped, Written, InvoiceRecord
    <2>4. WorkerTyped'
        BY <1>0, <1>6, <2>1 DEF MarkOverdue, WorkerTyped, WorkerRecord, WorkerJob
    <2> QED
        BY <1>6, <2>3, <2>4, Frames DEF MarkOverdue, TypeInv
<1>7. ASSUME NEW x \in worker.todo, Reclaim(x) PROVE TypeInv'
    <2>1. /\ worker.job = "reclaim" /\ x \in Cases /\ x[2] \in Servers
          /\ worker.todo \subseteq Cases
        BY <1>0, <1>7 DEF Reclaim, WorkerTyped, Cases
    <2>2. RowsTyped'
        BY <1>0, <1>7, <2>1 DEF Reclaim, RowsTyped, ServerRecord
    <2>3. ASSUME worker' = [worker EXCEPT !.job = "deleting", !.at = x[2], !.todo = @ \ {x}]
          PROVE  WorkerTyped'
        BY <1>0, <1>7, <2>1, <2>3 DEF Reclaim, WorkerTyped, WorkerRecord, WorkerJob
    <2>4. ASSUME worker' = [worker EXCEPT !.todo = @ \ {x}]
          PROVE  WorkerTyped'
        BY <1>0, <1>7, <2>1, <2>4 DEF Reclaim, WorkerTyped, WorkerRecord, WorkerJob
    <2>5. WorkerTyped'
        BY <1>7, <2>3, <2>4 DEF Reclaim
    <2> QED
        BY <1>7, <2>2, <2>5, Frames DEF Reclaim, TypeInv
<1>8. ASSUME NEW job \in WorkerJob, NEW next \in {"suspend", "reclaim"}, NEW list \in SUBSET Cases,
             NextJob(job, next, list)
      PROVE  TypeInv'
    <2>1. WorkerTyped'
        BY <1>0, <1>8 DEF NextJob, WorkerTyped, WorkerRecord, WorkerJob
    <2> QED
        BY <1>8, <2>1, CycleTyped DEF NextJob
<1>9. ASSUME RenewDone \/ SuspendDone PROVE TypeInv'
    <2>1. \A i \in Written : <<i, invoice[i].server>> \in Cases
        BY <1>0, Typed DEF Cases
    <2>2. /\ {<<i, invoice[i].server>> : i \in Overdue(worker.now)} \subseteq Cases
          /\ {<<i, invoice[i].server>> : i \in Abandoned(worker.now)} \subseteq Cases
        BY <2>1 DEF Overdue, Abandoned
    <2> QED
        BY <1>8, <1>9, <2>2 DEF RenewDone, SuspendDone, WorkerJob
<1>10. ASSUME SuspendRead \/ SuspendFails PROVE TypeInv'
    <2>1. WorkerTyped'
        BY <1>0, <1>10 DEF SuspendRead, SuspendFails, WorkerTyped, WorkerRecord, WorkerJob
    <2> QED
        BY <1>10, <2>1, CycleTyped DEF SuspendRead, SuspendFails
<1>11. ASSUME SuspendStop PROVE TypeInv'
    <2>1. WorkerTyped'
        BY <1>0, <1>11 DEF SuspendStop, WorkerTyped, WorkerRecord, WorkerJob
    <2>2. worker.at \in Servers /\ Stopped(worker.at)
        BY <1>0, <1>11 DEF SuspendStop, WorkerTyped
    <2>3. running' \in [Servers -> BOOLEAN]
        BY <1>0, <2>2, StopTyped
    <2>4. OthersTyped'
        BY <1>0, <1>11, <2>3 DEF SuspendStop, OthersTyped
    <2> QED
        BY <1>11, <2>1, <2>4, Frames DEF SuspendStop, TypeInv
<1>12. ASSUME SuspendWrite PROVE TypeInv'
    <2>1. RowsTyped'
        BY <1>0, <1>12 DEF SuspendWrite, RowsTyped, ServerRecord, WorkerTyped
    <2>2. WorkerTyped'
        BY <1>0, <1>12 DEF SuspendWrite, WorkerTyped, WorkerRecord, WorkerJob
    <2> QED
        BY <1>12, <2>1, <2>2, Frames DEF SuspendWrite, TypeInv
<1>13. ASSUME ReclaimCommit PROVE TypeInv'
    <2>1. worker.at \in Servers /\ Stopped(worker.at)
        BY <1>0, <1>13 DEF ReclaimCommit, WorkerTyped
    <2>2. RowsTyped'
        BY <1>0, <1>13, <2>1 DEF ReclaimCommit, RowsTyped, ServerRecord
    <2>3. WorkerTyped'
        BY <1>0, <1>13 DEF ReclaimCommit, WorkerTyped, WorkerRecord, WorkerJob
    <2>4. running' \in [Servers -> BOOLEAN]
        BY <1>0, <2>1, StopTyped
    <2>5. OthersTyped'
        BY <1>0, <1>13, <2>4 DEF ReclaimCommit, OthersTyped
    <2> QED
        BY <1>13, <2>2, <2>3, <2>5, Frames DEF ReclaimCommit, TypeInv
<1>14. ASSUME CycleEnd \/ CycleCrash PROVE TypeInv'
    <2>1. worker' = Resting
        BY <1>14 DEF CycleEnd, CycleCrash
    <2>2. WorkerTyped'
        BY <1>0, <1>14, <2>1 DEF CycleEnd, CycleCrash, Resting, WorkerTyped, WorkerRecord, WorkerJob, OthersTyped
    <2>3. OthersTyped'
        BY <1>0, <1>14 DEF CycleEnd, CycleCrash, OthersTyped
    <2> QED
        BY <1>14, <2>2, <2>3, Frames DEF CycleEnd, CycleCrash, TypeInv
<1>15. ASSUME NEW p \in Payments, NEW i \in Ids, Charge(p, i) PROVE TypeInv'
    <2>1. PayTyped'
        BY <1>0, <1>15 DEF Charge, PayTyped, PayBusy, Written
    <2> QED
        BY <1>15, <2>1, Frames DEF Charge, TypeInv
<1>16. ASSUME NEW p \in Payments, PayLook(p) \/ PayFails(p) \/ PayRead(p) PROVE TypeInv'
    <2>1. PayTyped'
        BY <1>0, <1>16 DEF PayLook, PayFails, PayRead, PayTyped, PayBusy, Written
    <2> QED
        BY <1>16, <2>1, Frames DEF PayLook, PayFails, PayRead, TypeInv
<1>17. ASSUME NEW p \in Payments, PayWrite(p) PROVE TypeInv'
    <2>1. pay[p].invoice \in Written /\ pay[p].invoice \in Ids
        BY <1>0, <1>17, Typed DEF PayWrite, PayTyped, PayBusy
    <2>2. PICK paid : paid = [invoice[pay[p].invoice] EXCEPT !.status = "PAID", !.ref = p]
        OBVIOUS
    <2>3. paid \in InvoiceRecord /\ paid.server = invoice[pay[p].invoice].server
        BY <1>0, <2>1, <2>2 DEF BooksTyped, InvoiceRecord
    <2>4. invoice' = [invoice EXCEPT ![pay[p].invoice] = paid] /\ issued' = issued
        BY <1>0, <1>17, <2>1, <2>2 DEF PayWrite, BooksTyped
    <2>5. BooksTyped'
        BY <1>0, <2>1, <2>3, <2>4 DEF BooksTyped, Written
    <2>6. PayTyped'
        BY <1>0, <1>17 DEF PayWrite, PayTyped, PayBusy, Written
    <2> QED
        BY <1>17, <2>5, <2>6, Frames DEF PayWrite, TypeInv
<1>18. ASSUME NEW p \in Payments, PayRevive(p) PROVE TypeInv'
    <2>1. RowsTyped'
        BY <1>0, <1>18 DEF PayRevive, RowsTyped, ServerRecord
    <2>2. PayTyped'
        BY <1>0, <1>18 DEF PayRevive, PayTyped, PayBusy, Written
    <2> QED
        BY <1>18, <2>1, <2>2, Frames DEF PayRevive, TypeInv
<1>19. ASSUME NEW s \in Servers, PowerRead(s) PROVE TypeInv'
    <2>1. OthersTyped'
        BY <1>0, <1>19 DEF PowerRead, OthersTyped
    <2> QED
        BY <1>19, <2>1, Frames DEF PowerRead, TypeInv
<1>20. ASSUME NEW s \in Servers, PowerMark(s) PROVE TypeInv'
    <2>1. OthersTyped'
        BY <1>0, <1>20 DEF PowerMark, OthersTyped
    <2>2. RowsTyped'
        BY <1>0, <1>20 DEF PowerMark, RowsTyped, ServerRecord
    <2> QED
        BY <1>20, <2>1, <2>2, Frames DEF PowerMark, TypeInv
<1>21. ASSUME NEW s \in Servers, PowerCall(s) PROVE TypeInv'
    <2>1. running' \in [Servers -> BOOLEAN]
        BY <1>0, <1>21 DEF PowerCall, OthersTyped
    <2>2. OthersTyped'
        BY <1>0, <1>21, <2>1 DEF PowerCall, OthersTyped
    <2> QED
        BY <1>21, <2>2, Frames DEF PowerCall, TypeInv
<1>22. ASSUME Reconnect \/ Disconnect PROVE TypeInv'
    <2>1. running' \in [Servers -> BOOLEAN]
        BY <1>0, <1>22 DEF Reconnect, Disconnect, OthersTyped
    <2>2. online' \in BOOLEAN
        BY <1>22 DEF Reconnect, Disconnect
    <2>3. OthersTyped'
        BY <1>0, <1>22, <2>1, <2>2 DEF Reconnect, Disconnect, OthersTyped
    <2> QED
        BY <1>22, <2>3, Frames DEF Reconnect, Disconnect, TypeInv
<1>23. ASSUME Tick PROVE TypeInv'
    <2>1. day \in 0..LastDay
        BY <1>0 DEF OthersTyped
    <2>2. day < LastDay /\ day' = day + 1 /\ cycled' = FALSE
        BY <1>23 DEF Tick
    <2>3. UNCHANGED <<issued, invoice, server, running, online, worker, pay, power>>
        BY <1>23 DEF Tick
    <2>4. day' \in 0..LastDay /\ day <= day'
        BY <2>1, <2>2
    <2>5. cycled' \in BOOLEAN
        BY <2>2
    <2>6. OthersTyped'
        BY <1>0, <2>3, <2>4, <2>5 DEF OthersTyped
    <2>7. worker.now \in 0..LastDay /\ worker.now <= day
        BY <1>0 DEF WorkerTyped, WorkerRecord
    <2>8. worker.now <= day'
        BY <2>1, <2>2, <2>7
    <2>9. WorkerTyped'
        BY <1>0, <2>3, <2>8 DEF WorkerTyped
    <2> QED
        BY <2>3, <2>6, <2>9, Frames DEF TypeInv
<1>24. ASSUME UNCHANGED vars PROVE TypeInv'
    BY <1>24, Frames DEF vars, TypeInv
<1> QED
    BY <1>1, <1>2, <1>3, <1>4, <1>5, <1>6, <1>7, <1>9, <1>10, <1>11, <1>12, <1>13, <1>14,
       <1>15, <1>16, <1>17, <1>18, <1>19, <1>20, <1>21, <1>22, <1>23, <1>24 DEF Next, CycleStep, PayStep

-----------------------------------------------------------------------------
(* What a step does to invoices and days.                                   *)

LEMMA BooksStep ==
    ASSUME TypeInv, Latest, [Next]_vars
    PROVE  /\ BooksKept \/ \E s \in Servers, d \in 0..LastDay : Issued(s, d)
           /\ day \in Nat /\ day' \in Nat /\ day <= day'
<1> USE SetsAssumption, DaysAssumption
<1>0. BooksTyped /\ WorkerTyped /\ PayTyped /\ day \in 0..LastDay
    BY DEF TypeInv, OthersTyped
<1>1. ASSUME NEW s \in Servers, FirstInvoice(s)
      PROVE  \E d \in 0..LastDay : Issued(s, d)
    BY <1>0, <1>1 DEF FirstInvoice
<1>2. ASSUME NEW x \in worker.todo, Renew(x)
      PROVE  \E s \in Servers, d \in 0..LastDay : Issued(s, d)
    <2>1. x \in Renewals
        BY <1>0, <1>2 DEF Renew, WorkerTyped
    <2> DEFINE d == IF x[2] = NoEnd THEN worker.now ELSE x[2]
    <2>2. x[1] \in Servers /\ d \in 0..LastDay /\ Issued(x[1], d)
        BY <1>0, <1>2, <2>1 DEF Renew, Renewals, WorkerTyped, WorkerRecord, NoEnd
    <2> QED
        BY <2>2
<1>3. ASSUME NEW x \in worker.todo, MarkOverdue(x) PROVE BooksKept
    BY <1>0, <1>3, Typed DEF MarkOverdue, BooksKept, BooksTyped, InvoiceRecord
<1>4. ASSUME NEW p \in Payments, PayWrite(p) PROVE BooksKept
    BY <1>0, <1>4, Typed DEF PayWrite, BooksKept, BooksTyped, InvoiceRecord
<1>5. (issued' = issued /\ invoice' = invoice) => BooksKept
    BY DEF BooksKept
<1>6. BooksKept \/ \E s \in Servers, d \in 0..LastDay : Issued(s, d)
    BY <1>1, <1>2, <1>3, <1>4, <1>5
    DEF Next, vars, CycleStep, PayStep, FirstInvoiceFails, CycleBegin, RenewFails, Reclaim, RenewDone,
        SuspendDone, NextJob, SuspendRead, SuspendFails, SuspendStop, SuspendWrite, ReclaimCommit,
        CycleEnd, CycleCrash, Charge, PayLook, PayRead, PayRevive, PayFails, PowerRead, PowerMark,
        PowerCall, Reconnect, Disconnect, Tick
<1>7. day' = day \/ day' = day + 1
    BY DEF Next, vars, CycleStep, PayStep, FirstInvoice, FirstInvoiceFails, CycleBegin, Renew,
        RenewFails, MarkOverdue, Reclaim, RenewDone, SuspendDone, NextJob, SuspendRead, SuspendFails,
        SuspendStop, SuspendWrite, ReclaimCommit, CycleEnd, CycleCrash, Charge, PayLook, PayWrite,
        PayRead, PayRevive, PayFails, PowerRead, PowerMark, PowerCall, Reconnect, Disconnect, Tick
<1> QED
    BY <1>0, <1>6, <1>7

-----------------------------------------------------------------------------
(* Nothing is deleted early.                                                *)

Aged(s) == \E i \in Of(s) : Due(i) + Retention < day

EarlyInv ==
    /\ NoEarlyReclaim
    /\ worker.job \in {"reclaim", "deleting"} => \A x \in worker.todo : Aged(x[2])
    /\ worker.job = "deleting" => Aged(worker.at)

LEMMA AgedStays ==
    ASSUME TypeInv, Latest, [Next]_vars, NEW s \in Servers, Aged(s)
    PROVE  Aged(s)'
<1>0. BooksTyped
    BY DEF TypeInv
<1>1. PICK i \in Of(s) : Due(i) + Retention < day
    BY DEF Aged
<1>2. i \in Written /\ Due(i) \in Nat
    BY <1>0, Typed DEF Of
<1>3. i \in Of(s)' /\ Due(i)' = Due(i)
    <2>1. CASE BooksKept
        BY <1>0, <1>2, <2>1, KeptFacts
    <2>2. ASSUME NEW t \in Servers, NEW d \in 0..LastDay, Issued(t, d)
          PROVE  i \in Of(s)' /\ Due(i)' = Due(i)
        <3>1. PICK n : n = issued + 1
            OBVIOUS
        <3>2. /\ \A j \in Written : Due(j)' = Due(j)
              /\ Of(t)' = Of(t) \cup {n} /\ \A u \in Servers \ {t} : Of(u)' = Of(u)
            BY <1>0, <2>2, <3>1, IssuedFacts
        <3> QED
            BY <1>2, <3>2
    <2> QED
        BY <2>1, <2>2, BooksStep
<1> QED
    BY <1>1, <1>2, <1>3, BooksStep, DaysAssumption DEF Aged

\* Steps of the cycle that do not lead to a deletion.
OtherJobs ==
    \/ \E x \in worker.todo : Renew(x) \/ RenewFails(x) \/ MarkOverdue(x)
    \/ CycleBegin \/ RenewDone \/ SuspendRead \/ SuspendStop \/ SuspendWrite \/ SuspendFails
    \/ CycleEnd \/ CycleCrash

LEMMA JobsMove ==
    ASSUME TypeInv
    PROVE  /\ OtherJobs => worker'.job \notin {"reclaim", "deleting"}
           /\ SuspendDone \/ ReclaimCommit => worker'.job = "reclaim"
<1>0. worker \in WorkerRecord
    BY DEF TypeInv, WorkerTyped
<1>1. ASSUME NEW x \in worker.todo, Renew(x) \/ RenewFails(x) \/ MarkOverdue(x)
      PROVE  worker'.job \in {"renew", "suspending"}
    BY <1>0, <1>1 DEF Renew, RenewFails, MarkOverdue, WorkerRecord
<1>2. ASSUME CycleBegin \/ CycleEnd \/ CycleCrash PROVE worker'.job \in {"renew", "idle"}
    BY <1>2 DEF CycleBegin, CycleEnd, CycleCrash, Resting
<1>3. ASSUME RenewDone PROVE worker'.job = "suspend"
    BY <1>0, <1>3 DEF RenewDone, NextJob, WorkerRecord
<1>4. ASSUME SuspendRead \/ SuspendStop \/ SuspendWrite \/ SuspendFails
      PROVE  worker'.job \in {"suspend", "stopping", "flagging"}
    BY <1>0, <1>4 DEF SuspendRead, SuspendStop, SuspendWrite, SuspendFails, WorkerRecord
<1>5. ASSUME SuspendDone \/ ReclaimCommit PROVE worker'.job = "reclaim"
    BY <1>0, <1>5 DEF SuspendDone, NextJob, ReclaimCommit, WorkerRecord
<1> QED
    BY <1>1, <1>2, <1>3, <1>4, <1>5 DEF OtherJobs

LEMMA EarlyStep ==
    ASSUME TypeInv, Latest, EarlyInv, [Next]_vars
    PROVE  EarlyInv'
<1> USE SetsAssumption, DaysAssumption
<1>0. BooksTyped /\ RowsTyped /\ WorkerTyped
    BY DEF TypeInv
<1>1. ASSUME NEW s \in Servers, server[s].state \notin {"deleting", "gone"},
             server'[s].state \in {"deleting", "gone"}
      PROVE  Aged(s)
    <2>1. ASSUME NEW x \in worker.todo, Reclaim(x) PROVE Aged(s)
        <3>1. Aged(x[2])
            BY <2>1 DEF Reclaim, EarlyInv
        <3> QED
            BY <1>0, <1>1, <2>1, <3>1 DEF Reclaim, RowsTyped, ServerRecord
    <2>2. ASSUME ReclaimCommit PROVE Aged(s)
        BY <1>0, <1>1, <2>2 DEF ReclaimCommit, EarlyInv, RowsTyped, ServerRecord
    <2>3. ASSUME SuspendWrite PROVE FALSE
        BY <1>0, <1>1, <2>3 DEF SuspendWrite, RowsTyped, ServerRecord
    <2>4. ASSUME NEW t \in Servers, FirstInvoice(t) \/ FirstInvoiceFails(t) \/ PowerMark(t) PROVE FALSE
        BY <1>0, <1>1, <2>4 DEF FirstInvoice, FirstInvoiceFails, PowerMark, RowsTyped, ServerRecord
    <2>5. ASSUME NEW p \in Payments, PayRevive(p) PROVE FALSE
        BY <1>0, <1>1, <2>5 DEF PayRevive, RowsTyped, ServerRecord
    <2>6. server' # server
        BY <1>1
    <2> QED
        BY <2>1, <2>2, <2>3, <2>4, <2>5, <2>6
        DEF Next, vars, CycleStep, PayStep, CycleBegin, Renew, RenewFails, MarkOverdue, RenewDone,
            SuspendDone, NextJob, SuspendRead, SuspendFails, SuspendStop, CycleEnd, CycleCrash, Charge,
            PayLook, PayWrite, PayRead, PayFails, PowerRead, PowerCall, Reconnect, Disconnect, Tick
<1>2. NoEarlyReclaim'
    <2> SUFFICES ASSUME NEW s \in Servers, server'[s].state \in {"deleting", "gone"}
                 PROVE  Aged(s)'
        BY DEF NoEarlyReclaim, Aged
    <2>1. Aged(s)
        BY <1>1 DEF EarlyInv, NoEarlyReclaim, Aged
    <2> QED
        BY <2>1, AgedStays
<1>3. ASSUME worker'.job \in {"reclaim", "deleting"}, NEW x \in worker'.todo
      PROVE  Aged(x[2])
    <2>1. ASSUME SuspendDone PROVE Aged(x[2])
        <3>1. worker'.todo = {<<i, invoice[i].server>> : i \in Abandoned(worker.now)}
            BY <1>0, <2>1 DEF SuspendDone, NextJob, WorkerTyped, WorkerRecord
        <3>2. PICK i \in Abandoned(worker.now) : x = <<i, invoice[i].server>>
            BY <1>3, <3>1
        <3>3. i \in Of(x[2]) /\ Due(i) < worker.now - Retention
            BY <3>2 DEF Abandoned, Of
        <3>4. Due(i) \in Nat /\ worker.now \in Nat /\ worker.now <= day /\ day \in Nat
            BY <1>0, <3>2, Typed, BooksStep DEF Abandoned, WorkerTyped, WorkerRecord
        <3> QED
            BY <3>3, <3>4 DEF Aged
    <2>2. ASSUME NEW y \in worker.todo, Reclaim(y) PROVE Aged(x[2])
        <3>1. worker.job = "reclaim" /\ worker'.todo \subseteq worker.todo
            BY <1>0, <2>2 DEF Reclaim, WorkerTyped, WorkerRecord
        <3> QED
            BY <1>3, <3>1 DEF EarlyInv
    <2>3. ASSUME ReclaimCommit PROVE Aged(x[2])
        BY <1>0, <1>3, <2>3 DEF ReclaimCommit, EarlyInv, WorkerTyped, WorkerRecord
    <2>4. ASSUME worker' = worker PROVE Aged(x[2])
        BY <1>3, <2>4 DEF EarlyInv
    <2>5. ASSUME OtherJobs PROVE FALSE
        BY <1>3, <2>5, JobsMove
    <2> QED
        BY <2>1, <2>2, <2>3, <2>4, <2>5
        DEF OtherJobs, Next, vars, CycleStep, PayStep, FirstInvoice, FirstInvoiceFails, Charge,
            PayLook, PayWrite, PayRead, PayRevive, PayFails, PowerRead, PowerMark, PowerCall, Reconnect, Disconnect, Tick
<1>4. ASSUME worker'.job = "deleting" PROVE worker'.at \in Servers /\ Aged(worker'.at)
    <2>1. ASSUME NEW x \in worker.todo, Reclaim(x) PROVE worker'.at \in Servers /\ Aged(worker'.at)
        <3>1. x[2] \in Servers /\ Aged(x[2]) /\ worker.job = "reclaim"
            BY <1>0, <2>1 DEF Reclaim, EarlyInv, WorkerTyped, Cases
        <3> QED
            BY <1>0, <1>4, <2>1, <3>1 DEF Reclaim, WorkerTyped, WorkerRecord
    <2>2. ASSUME worker' = worker PROVE worker'.at \in Servers /\ Aged(worker'.at)
        BY <1>0, <1>4, <2>2 DEF EarlyInv, WorkerTyped
    <2>3. ASSUME OtherJobs \/ SuspendDone \/ ReclaimCommit PROVE FALSE
        BY <1>4, <2>3, JobsMove
    <2> QED
        BY <2>1, <2>2, <2>3
        DEF OtherJobs, Next, vars, CycleStep, PayStep, FirstInvoice, FirstInvoiceFails, Charge,
            PayLook, PayWrite, PayRead, PayRevive, PayFails, PowerRead, PowerMark, PowerCall, Reconnect, Disconnect, Tick
<1>5. ASSUME worker'.job \in {"reclaim", "deleting"}, NEW x \in worker'.todo
      PROVE  x[2] \in Servers
    <2>1. WorkerTyped'
        BY TypeStep DEF TypeInv
    <2> QED
        BY <1>5, <2>1 DEF WorkerTyped, Cases
<1>6. \A s \in Servers : Aged(s) => Aged(s)'
    BY AgedStays
<1>7. worker'.job \in {"reclaim", "deleting"} => \A x \in worker'.todo : x[2] \in Servers /\ Aged(x[2])
    BY <1>3, <1>5
<1>8. worker'.job \in {"reclaim", "deleting"} => \A x \in worker'.todo : Aged(x[2])'
    BY <1>6, <1>7 DEF Aged
<1>9. worker'.job = "deleting" => Aged(worker.at)'
    BY <1>4, <1>6 DEF Aged
<1> QED
    BY <1>2, <1>8, <1>9 DEF EarlyInv

-----------------------------------------------------------------------------
(* Periods tile.                                                            *)

\* A server whose purchase goes on has no invoice, no cycle meets one, and what
\* a cycle has read of a server's last period is still so when it renews.
TileInv ==
    /\ PeriodsTile
    /\ \A s \in Servers : server[s].state = "building" => Of(s) = {}
    /\ worker.job # "idle" => \A s \in Servers : server[s].state # "building"
    /\ worker.job = "renew" => \A x \in worker.todo : x[2] = LastEnd(x[1])

LEMMA TileIssued ==
    ASSUME BooksTyped, Latest, PeriodsTile, NEW s \in Servers, NEW d \in 0..LastDay,
           Issued(s, d), Of(s) = {} \/ d = LastEnd(s)
    PROVE  PeriodsTile'
<1>1. PICK n : n = issued + 1
    OBVIOUS
<1>2. /\ n \notin Written /\ Start(n)' = d /\ End(n)' = d + Period
      /\ \A i \in Written : Start(i)' = Start(i) /\ End(i)' = End(i)
      /\ Of(s)' = Of(s) \cup {n} /\ \A t \in Servers \ {s} : Of(t)' = Of(t)
    BY <1>1, IssuedFacts
<1>3. \A i \in Written : Start(i) \in Nat /\ End(i) \in Nat /\ End(i) > Start(i)
    BY Typed
<1>4. \A t \in Servers : Of(t) \subseteq Written
    BY DEF Of
<1>5. \A i \in Of(s) : End(i) <= d
    BY LastEndFacts
<1>6. Of(s) # {} => \E k \in Of(s) : End(k) = d
    BY LastEndFacts
<1> SUFFICES ASSUME NEW t \in Servers, NEW i \in Of(t)', NEW j \in Of(t)'
             PROVE  /\ i # j => End(i)' <= Start(j)' \/ End(j)' <= Start(i)'
                    /\ Start(i)' < Start(j)' => \E k \in Of(t)' : End(k)' = Start(j)'
    BY DEF PeriodsTile
<1>7. CASE i \in Of(t) /\ j \in Of(t)
    <2>1. /\ i # j => End(i) <= Start(j) \/ End(j) <= Start(i)
          /\ Start(i) < Start(j) => \E k \in Of(t) : End(k) = Start(j)
        BY <1>7 DEF PeriodsTile
    <2>2. Of(t) \subseteq Of(t)'
        BY <1>2
    <2> QED
        BY <1>2, <1>4, <1>7, <2>1, <2>2
<1>8. CASE t = s /\ i \in Of(s) /\ j = n
    BY <1>2, <1>3, <1>4, <1>5, <1>6, <1>8
<1>9. CASE t = s /\ i = n /\ j \in Of(s)
    BY <1>2, <1>3, <1>4, <1>5, <1>9
<1>10. CASE i = n /\ j = n
    BY <1>2, <1>10
<1> QED
    BY <1>2, <1>7, <1>8, <1>9, <1>10

LEMMA TileKept ==
    ASSUME BooksTyped, PeriodsTile, BooksKept
    PROVE  PeriodsTile'
<1>1. /\ \A i \in Written : Start(i)' = Start(i) /\ End(i)' = End(i)
      /\ \A s \in Servers : Of(s)' = Of(s)
    BY KeptFacts
<1>2. \A s \in Servers : Of(s) \subseteq Written
    BY DEF Of
<1> QED
    BY <1>1, <1>2 DEF PeriodsTile

\* Only the end of a purchase and a renewal write an invoice.
LEMMA OthersKeep ==
    ASSUME TypeInv, Latest, [Next]_vars,
           ~\E s \in Servers : FirstInvoice(s), ~\E x \in worker.todo : Renew(x)
    PROVE  BooksKept
<1>0. BooksTyped /\ WorkerTyped /\ PayTyped
    BY DEF TypeInv
<1>1. ASSUME NEW x \in worker.todo, MarkOverdue(x) PROVE BooksKept
    BY <1>0, <1>1, Typed DEF MarkOverdue, BooksKept, BooksTyped, InvoiceRecord
<1>2. ASSUME NEW p \in Payments, PayWrite(p) PROVE BooksKept
    BY <1>0, <1>2, Typed DEF PayWrite, BooksKept, BooksTyped, InvoiceRecord
<1>3. (issued' = issued /\ invoice' = invoice) => BooksKept
    BY DEF BooksKept
<1> QED
    BY <1>1, <1>2, <1>3
    DEF Next, vars, CycleStep, PayStep, FirstInvoiceFails, CycleBegin, RenewFails, Reclaim, RenewDone,
        SuspendDone, NextJob, SuspendRead, SuspendFails, SuspendStop, SuspendWrite, ReclaimCommit,
        CycleEnd, CycleCrash, Charge, PayLook, PayRead, PayRevive, PayFails, PowerRead, PowerMark,
        PowerCall, Reconnect, Disconnect, Tick

\* No server goes back to being built.
LEMMA BuiltStays ==
    ASSUME TypeInv, [Next]_vars, NEW s \in Servers, server[s].state # "building"
    PROVE  server'[s].state # "building"
<1>0. RowsTyped
    BY DEF TypeInv
<1>1. ASSUME NEW t \in Servers, FirstInvoice(t) \/ FirstInvoiceFails(t) \/ PowerMark(t)
      PROVE  server'[s].state # "building"
    BY <1>0, <1>1 DEF FirstInvoice, FirstInvoiceFails, PowerMark, RowsTyped, ServerRecord
<1>2. ASSUME NEW x \in worker.todo, Reclaim(x) PROVE server'[s].state # "building"
    BY <1>0, <1>2 DEF Reclaim, RowsTyped, ServerRecord
<1>3. ASSUME SuspendWrite \/ ReclaimCommit PROVE server'[s].state # "building"
    BY <1>0, <1>3 DEF SuspendWrite, ReclaimCommit, RowsTyped, ServerRecord
<1>4. ASSUME NEW p \in Payments, PayRevive(p) PROVE server'[s].state # "building"
    BY <1>0, <1>4 DEF PayRevive, RowsTyped, ServerRecord
<1>5. ASSUME server' = server PROVE server'[s].state # "building"
    BY <1>5
<1> QED
    BY <1>1, <1>2, <1>3, <1>4, <1>5
    DEF Next, vars, CycleStep, PayStep, CycleBegin, Renew, RenewFails, MarkOverdue, RenewDone,
        SuspendDone, NextJob, SuspendRead, SuspendFails, SuspendStop, CycleEnd, CycleCrash, Charge,
        PayLook, PayWrite, PayRead, PayFails, PowerRead, PowerCall, Reconnect, Disconnect, Tick

\* A cycle that is under way has begun, and its renewals were read then.
LEMMA CycleGoesOn ==
    ASSUME TypeInv, [Next]_vars, ~CycleBegin
    PROVE  /\ worker'.job # "idle" => worker.job # "idle"
           /\ worker'.job = "renew" => worker.job = "renew" /\ worker'.todo \subseteq worker.todo
<1>0. worker \in WorkerRecord
    BY DEF TypeInv, WorkerTyped
<1>1. ASSUME NEW x \in worker.todo, Renew(x) \/ RenewFails(x)
      PROVE  worker.job = "renew" /\ worker'.todo \subseteq worker.todo
    BY <1>0, <1>1 DEF Renew, RenewFails, WorkerRecord
<1>2. ASSUME NEW x \in worker.todo, MarkOverdue(x)
      PROVE  worker.job # "idle" /\ worker'.job # "renew"
    BY <1>0, <1>2 DEF MarkOverdue, WorkerRecord
<1>3. ASSUME NEW x \in worker.todo, Reclaim(x)
      PROVE  worker.job # "idle" /\ worker'.job # "renew"
    BY <1>0, <1>3 DEF Reclaim, WorkerRecord
<1>4. ASSUME CycleEnd \/ CycleCrash PROVE worker'.job = "idle"
    BY <1>4 DEF CycleEnd, CycleCrash, Resting
<1>5. ASSUME RenewDone \/ SuspendDone PROVE worker.job # "idle" /\ worker'.job # "renew"
    BY <1>0, <1>5 DEF RenewDone, SuspendDone, NextJob, WorkerRecord
<1>6. ASSUME SuspendRead \/ SuspendStop \/ SuspendWrite \/ SuspendFails \/ ReclaimCommit
      PROVE  worker.job # "idle" /\ worker'.job # "renew"
    BY <1>0, <1>6 DEF SuspendRead, SuspendStop, SuspendWrite, SuspendFails, ReclaimCommit, WorkerRecord
<1>7. ASSUME worker' = worker
      PROVE  /\ worker'.job # "idle" => worker.job # "idle"
             /\ worker'.job = "renew" => worker.job = "renew" /\ worker'.todo \subseteq worker.todo
    BY <1>7
<1> QED
    BY <1>1, <1>2, <1>3, <1>4, <1>5, <1>6, <1>7
    DEF Next, vars, CycleStep, PayStep, FirstInvoice, FirstInvoiceFails, Charge, PayLook, PayWrite,
        PayRead, PayRevive, PayFails, PowerRead, PowerMark, PowerCall, Reconnect, Disconnect, Tick

LEMMA TileStep ==
    ASSUME TypeInv, Latest, TileInv, "unbuilt" \notin Admits, [Next]_vars
    PROVE  TileInv'
<1> USE SetsAssumption, DaysAssumption
<1>0. /\ BooksTyped /\ RowsTyped /\ WorkerTyped /\ worker \in WorkerRecord /\ day \in 0..LastDay
      /\ PeriodsTile
    BY DEF TypeInv, WorkerTyped, OthersTyped, TileInv
<1>1. ASSUME NEW s \in Servers, FirstInvoice(s) PROVE TileInv'
    <2>1. /\ server[s].state = "building" /\ Issued(s, day) /\ worker' = worker
          /\ server' = [server EXCEPT ![s].state = "up"]
        BY <1>1 DEF FirstInvoice
    <2>2. Of(s) = {} /\ worker.job = "idle"
        BY <2>1 DEF TileInv
    <2>3. PeriodsTile'
        BY <1>0, <2>1, <2>2, TileIssued
    <2>4. \A t \in Servers \ {s} : Of(t)' = Of(t) /\ server'[t] = server[t]
        <3>1. PICK n : n = issued + 1
            OBVIOUS
        <3>2. \A t \in Servers \ {s} : Of(t)' = Of(t)
            BY <1>0, <2>1, <3>1, IssuedFacts
        <3> QED
            BY <1>0, <2>1, <3>2 DEF RowsTyped
    <2>5. server'[s].state = "up"
        BY <1>0, <2>1 DEF RowsTyped, ServerRecord
    <2>6. \A t \in Servers : server'[t].state = "building" => Of(t)' = {}
        BY <2>4, <2>5 DEF TileInv
    <2> QED
        BY <2>1, <2>2, <2>3, <2>6 DEF TileInv
<1>2. ASSUME NEW x \in worker.todo, Renew(x) PROVE TileInv'
    <2>1. /\ worker.job = "renew" /\ x \in Renewals /\ x[2] = LastEnd(x[1])
          /\ worker' = [worker EXCEPT !.todo = @ \ {x}] /\ server' = server
          /\ worker.todo \subseteq Renewals
        BY <1>0, <1>2 DEF Renew, WorkerTyped, TileInv
    <2>2. PICK s \in Servers, e \in -1..LastDay : x = <<s, e>>
        BY <2>1 DEF Renewals
    <2>3. PICK d : d = IF e = NoEnd THEN worker.now ELSE e
        OBVIOUS
    <2>4. d \in 0..LastDay /\ Issued(s, d) /\ e = LastEnd(s)
        BY <1>0, <1>2, <2>1, <2>2, <2>3 DEF Renew, WorkerRecord, NoEnd
    <2>5. Of(s) = {} \/ d = LastEnd(s)
        BY <1>0, <2>3, <2>4, LastEndFacts DEF NoEnd
    <2>6. PeriodsTile'
        BY <1>0, <2>4, <2>5, TileIssued
    <2>7. \A t \in Servers \ {s} : LastEnd(t)' = LastEnd(t)
        <3>1. PICK n : n = issued + 1
            OBVIOUS
        <3> QED
            BY <1>0, <2>4, <3>1, IssuedFacts
    <2>8. \A t \in Servers : server'[t].state # "building"
        BY <2>1 DEF TileInv
    <2>9. ASSUME NEW y \in worker'.todo PROVE y[2] = LastEnd(y[1])'
        <3>1. y \in worker.todo /\ y # x /\ y[2] = LastEnd(y[1])
            BY <1>0, <2>1, <2>9 DEF WorkerRecord, TileInv
        <3>2. PICK t \in Servers, f \in -1..LastDay : y = <<t, f>>
            BY <2>1, <3>1 DEF Renewals
        <3>3. t # s
            BY <2>2, <2>4, <3>1, <3>2
        <3> QED
            BY <2>7, <3>1, <3>2, <3>3
    <2> QED
        BY <2>6, <2>8, <2>9 DEF TileInv
<1>3. ASSUME BooksKept PROVE TileInv'
    <2>1. \A s \in Servers : Of(s)' = Of(s) /\ LastEnd(s)' = LastEnd(s)
        BY <1>0, <1>3, KeptFacts
    <2>2. PeriodsTile'
        BY <1>0, <1>3, TileKept
    <2>3. \A s \in Servers : server'[s].state = "building" => Of(s)' = {}
        BY <2>1, BuiltStays DEF TileInv
    <2>4. CASE CycleBegin
        <3>1. /\ server' = server /\ \A s \in Servers : server[s].state # "building"
              /\ worker'.todo = {<<s, LastEnd(s)>> : s \in Renewable(day)}
            BY <2>4 DEF CycleBegin
        <3>2. ASSUME NEW x \in worker'.todo PROVE x[2] = LastEnd(x[1])'
            <4>1. PICK s \in Renewable(day) : x = <<s, LastEnd(s)>>
                BY <3>1, <3>2
            <4> QED
                BY <2>1, <4>1 DEF Renewable
        <3> QED
            BY <2>2, <2>3, <3>1, <3>2 DEF TileInv
    <2>5. CASE ~CycleBegin
        <3>1. worker'.job # "idle" => \A s \in Servers : server'[s].state # "building"
            BY <2>5, CycleGoesOn, BuiltStays DEF TileInv
        <3>2. ASSUME worker'.job = "renew", NEW x \in worker'.todo PROVE x[2] = LastEnd(x[1])'
            <4>1. worker.job = "renew" /\ x \in worker.todo
                BY <2>5, <3>2, CycleGoesOn
            <4>2. x[1] \in Servers /\ x[2] = LastEnd(x[1])
                BY <1>0, <4>1 DEF WorkerTyped, Renewals, TileInv
            <4> QED
                BY <2>1, <4>2
        <3> QED
            BY <2>2, <2>3, <3>1, <3>2 DEF TileInv
    <2> QED
        BY <2>4, <2>5
<1> QED
    BY <1>1, <1>2, <1>3, OthersKeep

-----------------------------------------------------------------------------
(* One operation at a time, a cycle every day: the flag tells the invoices. *)

Late(s) == \E i \in Of(s) : invoice[i].status = "OVERDUE"
Unpaid(i) == invoice[i].status \in {"OPEN", "OVERDUE"}
Suspending == {"suspending", "stopping", "flagging"}
Crediting(p) == pay[p].pc \in {"reading", "reviving"}

\* A payment, the cycle and a power request exclude one another.
Exclusive ==
    /\ \A p \in Payments : pay[p].pc \in PayBusy =>
        /\ worker.job = "idle" /\ \A s \in Servers : power[s] = "none"
        /\ \A q \in Payments : pay[q].pc \in PayBusy => q = p
    /\ \A s \in Servers : power[s] # "none" => worker.job = "idle"

\* What a job of the cycle has on its list is as it was when it was read.
RenewListed ==
    worker.job = "renew" => \A x \in worker.todo :
        /\ \A i \in Of(x[1]) : ~Unpaid(i)
        /\ \A y \in worker.todo : y[1] = x[1] => y = x
OverdueListed ==
    worker.job \in {"suspend"} \cup Suspending => \A x \in worker.todo :
        /\ x[1] \in Written /\ invoice[x[1]].server = x[2]
        /\ Exists(x[2]) /\ invoice[x[1]].status = "OPEN"
AbandonedListed ==
    worker.job \in {"reclaim", "deleting"} => \A x \in worker.todo :
        x[1] \in Written /\ invoice[x[1]].server = x[2] /\ invoice[x[1]].status = "OVERDUE"

\* The flag and the invoices disagree only for the server being worked on.
FlagsAgree ==
    \A s \in Servers : Exists(s) =>
        /\ server[s].suspended => Late(s) \/ \E p \in Payments : Crediting(p) /\ PayServer(p) = s
        /\ Late(s) => server[s].suspended \/ (worker.job \in Suspending /\ worker.at = s)

\* That server is late when it is being suspended, paid up when it is credited.
AtWork ==
    /\ worker.job \in Suspending =>
        Exists(worker.at) /\ Late(worker.at) /\ ~server[worker.at].suspended
    /\ worker.job = "deleting" => server[worker.at].state = "deleting"
    /\ \A s \in Servers : server[s].state = "deleting" => worker.job = "deleting" /\ worker.at = s
    /\ \A p \in Payments : Crediting(p) =>
        Exists(PayServer(p)) /\ \A i \in Of(PayServer(p)) : ~Unpaid(i)

\* No server owes twice: its invoice is overdue before the next is due.
OneUnpaid == \A s \in Servers : \A i, j \in Of(s) : Unpaid(i) /\ Unpaid(j) => i = j

\* An open invoice is past its due date for less than a cycle.
OnTime ==
    \A i \in Written : invoice[i].status = "OPEN" /\ Linked(i) =>
        /\ worker.job = "idle" => Due(i) + 1 >= day /\ (cycled => Due(i) >= day)
        /\ worker.job \in {"suspend"} \cup Suspending =>
            Due(i) >= day \/ <<i, invoice[i].server>> \in worker.todo
        /\ worker.job \in {"reclaim", "deleting"} => Due(i) >= day

\* A payment on its way is for an unpaid invoice, and is the only one for it.
Paying ==
    /\ \A p \in Payments : pay[p].pc \in {"sent", "paying"} => Unpaid(pay[p].invoice)
    /\ \A p, q \in Payments : pay[p].invoice # 0 /\ pay[p].invoice = pay[q].invoice => p = q

CalmInv ==
    /\ Exclusive /\ RenewListed /\ OverdueListed /\ AbandonedListed
    /\ worker.job # "idle" => worker.now = day
    /\ FlagsAgree /\ AtWork /\ OneUnpaid /\ OnTime /\ Paying

Calm == Admits = {} /\ Grace + 1 < Period

LEMMA CalmStarts == Init => CalmInv
<1> SUFFICES ASSUME Init PROVE CalmInv
    OBVIOUS
<1>1. /\ worker.job = "idle" /\ Written = {} /\ \A s \in Servers : Of(s) = {}
      /\ \A p \in Payments : pay[p].pc = "none" /\ pay[p].invoice = 0
      /\ \A s \in Servers : power[s] = "none"
      /\ \A s \in Servers : server[s].state = "building" /\ server[s].suspended = FALSE
    BY DEF Init, Resting, Written, Of
<1>2. Exclusive /\ RenewListed /\ OverdueListed /\ AbandonedListed /\ OneUnpaid /\ OnTime /\ Paying
    BY <1>1 DEF Exclusive, RenewListed, OverdueListed, AbandonedListed, OneUnpaid, OnTime, Paying,
                PayBusy, Suspending
<1>3. FlagsAgree /\ AtWork
    BY <1>1 DEF FlagsAgree, AtWork, Late, Crediting, Suspending
<1> QED
    BY <1>1, <1>2, <1>3 DEF CalmInv

\* A step that leaves invoices and rows alone leaves what is said of them.
LEMMA RowsStill ==
    ASSUME UNCHANGED <<issued, invoice, server>>
    PROVE  /\ Written' = Written
           /\ \A s : Of(s)' = Of(s) /\ Exists(s)' = Exists(s) /\ Late(s)' = Late(s)
           /\ \A i : Unpaid(i)' = Unpaid(i) /\ Due(i)' = Due(i) /\ Linked(i)' = Linked(i)
BY DEF Written, Of, Exists, Late, Unpaid, Due, Linked

\* ... and a step that moves neither the cycle nor a payment nor the clock
\* keeps the invariant.
LEMMA CalmElsewhere ==
    ASSUME TypeInv, CalmInv, Exclusive',
           UNCHANGED <<day, cycled, issued, invoice, server, worker, pay>>
    PROVE  CalmInv'
<1>1. RenewListed' /\ OverdueListed' /\ AbandonedListed' /\ (worker.job # "idle" => worker.now = day)'
    BY RowsStill DEF CalmInv, RenewListed, OverdueListed, AbandonedListed
<1>2. FlagsAgree' /\ AtWork'
    BY RowsStill DEF CalmInv, FlagsAgree, AtWork, Crediting, PayServer
<1>3. OneUnpaid' /\ OnTime' /\ Paying'
    BY RowsStill DEF CalmInv, OneUnpaid, OnTime, Paying
<1> QED
    BY <1>1, <1>2, <1>3 DEF CalmInv

\* Power requests, the agent's connection and stuttering.
LEMMA CalmPower ==
    ASSUME Calm, TypeInv, CalmInv,
           \/ \E s \in Servers : PowerRead(s) \/ PowerMark(s) \/ PowerCall(s)
           \/ Reconnect \/ Disconnect \/ UNCHANGED vars
    PROVE  CalmInv'
<1>1. ASSUME NEW s \in Servers, PowerRead(s) PROVE CalmInv'
    <2>1. Alone
        BY <1>1 DEF PowerRead, MayStart, Calm
    <2>2. Exclusive'
        BY <1>1, <2>1 DEF PowerRead, Alone, Exclusive
    <2> QED
        BY <1>1, <2>2, CalmElsewhere DEF PowerRead
<1>2. ASSUME NEW s \in Servers, PowerMark(s) PROVE CalmInv'
    <2>1. power[s] # "none" /\ worker.job = "idle" /\ \A p \in Payments : pay[p].pc \notin PayBusy
        BY <1>2 DEF PowerMark, CalmInv, Exclusive
    <2>2. server[s].state # "deleting"
        BY <2>1 DEF CalmInv, AtWork
    <2>3. server' = server
        BY <1>2, <2>2 DEF PowerMark, TypeInv, RowsTyped, ServerRecord
    <2>4. Exclusive'
        BY <1>2, <2>1 DEF PowerMark, CalmInv, Exclusive
    <2> QED
        BY <1>2, <2>3, <2>4, CalmElsewhere DEF PowerMark
<1>3. ASSUME NEW s \in Servers, PowerCall(s) PROVE CalmInv'
    <2>1. power[s] # "none" /\ worker.job = "idle" /\ \A p \in Payments : pay[p].pc \notin PayBusy
        BY <1>3 DEF PowerCall, CalmInv, Exclusive
    <2>2. Exclusive'
        BY <1>3, <2>1 DEF PowerCall, CalmInv, Exclusive
    <2> QED
        BY <1>3, <2>2, CalmElsewhere DEF PowerCall
<1>4. ASSUME Reconnect \/ Disconnect \/ UNCHANGED vars PROVE CalmInv'
    <2>1. UNCHANGED <<day, cycled, issued, invoice, server, worker, pay, power>>
        BY <1>4 DEF Reconnect, Disconnect, vars
    <2>2. Exclusive'
        BY <2>1 DEF CalmInv, Exclusive
    <2> QED
        BY <2>1, <2>2, CalmElsewhere
<1> QED
    BY <1>1, <1>2, <1>3, <1>4

LEMMA CalmTick ==
    ASSUME Calm, TypeInv, CalmInv, Tick
    PROVE  CalmInv'
<1>1. /\ Alone /\ cycled /\ day' = day + 1 /\ cycled' = FALSE
      /\ UNCHANGED <<issued, invoice, server, worker, pay, power>>
    BY DEF Tick, MayStart, Calm
<1>2. worker.job = "idle" /\ day \in Nat
    BY <1>1 DEF Alone, TypeInv, OthersTyped
<1>3. /\ Exclusive' /\ RenewListed' /\ OverdueListed' /\ AbandonedListed'
      /\ (worker.job # "idle" => worker.now = day)'
    BY <1>1, <1>2 DEF CalmInv, Exclusive, RenewListed, OverdueListed, AbandonedListed, Suspending
<1>4. FlagsAgree' /\ AtWork'
    BY <1>1, RowsStill DEF CalmInv, FlagsAgree, AtWork, Crediting, PayServer
<1>5. OneUnpaid' /\ Paying'
    BY <1>1, RowsStill DEF CalmInv, OneUnpaid, Paying
<1>6. OnTime'
    <2>1. \A i \in Written : Due(i) \in Nat
        BY Typed DEF TypeInv
    <2> QED
        BY <1>1, <1>2, <2>1, RowsStill DEF CalmInv, OnTime, Suspending
<1> QED
    BY <1>3, <1>4, <1>5, <1>6 DEF CalmInv

\* Payments.  The invoice paid is the only one its server owes.
LEMMA PayFacts ==
    ASSUME TypeInv, CalmInv, NEW p \in Payments, pay[p].pc \in {"sent"} \cup PayBusy
    PROVE  /\ pay[p].invoice \in Written /\ pay[p].invoice \in Ids /\ pay[p].invoice # 0
           /\ PayServer(p) \in Servers /\ pay[p].invoice \in Of(PayServer(p))
           /\ pay[p].pc \in PayBusy => worker.job = "idle"
           /\ \A q \in Payments \ {p} : pay[q].invoice # pay[p].invoice
<1>1. pay[p].invoice \in Written
    BY DEF TypeInv, PayTyped
<1>2. pay[p].invoice \in Ids /\ pay[p].invoice # 0 /\ PayServer(p) \in Servers
    BY <1>1, Typed DEF TypeInv, PayServer, Ids
<1>3. pay[p].invoice \in Of(PayServer(p))
    BY <1>1 DEF Of, PayServer
<1>4. \A q \in Payments \ {p} : pay[q].invoice # pay[p].invoice
    BY <1>2 DEF CalmInv, Paying
<1> QED
    BY <1>1, <1>2, <1>3, <1>4 DEF CalmInv, Exclusive

\* A payment that moves on without writing.
LEMMA CalmMoves ==
    ASSUME TypeInv, CalmInv, Exclusive', FlagsAgree', AtWork', Paying',
           UNCHANGED <<day, cycled, issued, invoice, server, worker, power>>
    PROVE  CalmInv'
<1>1. RenewListed' /\ OverdueListed' /\ AbandonedListed' /\ (worker.job # "idle" => worker.now = day)'
    BY RowsStill DEF CalmInv, RenewListed, OverdueListed, AbandonedListed
<1>2. OneUnpaid' /\ OnTime'
    BY RowsStill DEF CalmInv, OneUnpaid, OnTime
<1> QED
    BY <1>1, <1>2 DEF CalmInv

LEMMA CalmCharge ==
    ASSUME Calm, TypeInv, CalmInv, NEW p \in Payments, NEW i \in Ids, Charge(p, i)
    PROVE  CalmInv'
<1>1. /\ pay[p].pc = "none" /\ i \in Written /\ i # 0 /\ Unpaid(i)
      /\ \A q \in Payments : pay[q].invoice # i
      /\ pay' = [pay EXCEPT ![p] = [pc |-> "sent", invoice |-> i]]
      /\ UNCHANGED <<day, cycled, issued, invoice, server, running, online, worker, power>>
    BY DEF Charge, Calm, Unpaid, Ids
<1>2. /\ pay'[p].pc = "sent" /\ pay'[p].invoice = i
      /\ \A q \in Payments \ {p} : pay'[q] = pay[q]
    BY <1>1 DEF TypeInv, PayTyped
<1>3. /\ \A q \in Payments : pay'[q].pc \in PayBusy <=> pay[q].pc \in PayBusy
      /\ \A q \in Payments : Crediting(q)' <=> Crediting(q)
      /\ \A q \in Payments : Crediting(q) => PayServer(q)' = PayServer(q)
    BY <1>1, <1>2 DEF PayBusy, Crediting, PayServer
<1>4. Exclusive'
    BY <1>1, <1>3 DEF CalmInv, Exclusive
<1>5. FlagsAgree' /\ AtWork'
    BY <1>1, <1>3, RowsStill DEF CalmInv, FlagsAgree, AtWork
<1>6. Paying'
    BY <1>1, <1>2, RowsStill DEF CalmInv, Paying
<1> QED
    BY <1>1, <1>4, <1>5, <1>6, CalmMoves

LEMMA CalmPayLook ==
    ASSUME Calm, TypeInv, CalmInv, NEW p \in Payments, PayLook(p)
    PROVE  CalmInv'
<1>1. /\ pay[p].pc = "sent" /\ Alone
      /\ UNCHANGED <<day, cycled, issued, invoice, server, worker, power>>
    BY DEF PayLook, MayStart, Calm
<1>2. /\ pay'[p].pc \in {"done", "paying"} /\ pay'[p].invoice = pay[p].invoice
      /\ \A q \in Payments \ {p} : pay'[q] = pay[q]
    BY DEF PayLook, TypeInv, PayTyped
<1>3. \A q \in Payments : ~Crediting(q) /\ ~Crediting(q)'
    BY <1>1, <1>2 DEF Alone, Crediting, PayBusy
<1>4. Exclusive'
    BY <1>1, <1>2 DEF Alone, Exclusive
<1>5. FlagsAgree' /\ AtWork'
    BY <1>1, <1>3, RowsStill DEF CalmInv, FlagsAgree, AtWork
<1>6. Paying'
    BY <1>1, <1>2, RowsStill DEF CalmInv, Paying
<1> QED
    BY <1>1, <1>4, <1>5, <1>6, CalmMoves

LEMMA CalmPayRead ==
    ASSUME Calm, TypeInv, CalmInv, NEW p \in Payments, PayRead(p)
    PROVE  CalmInv'
<1>1. /\ pay[p].pc = "reading"
      /\ UNCHANGED <<day, cycled, issued, invoice, server, worker, power>>
    BY DEF PayRead
<1>2. /\ pay'[p].pc = IF server[PayServer(p)].suspended THEN "reviving" ELSE "done"
      /\ pay'[p].invoice = pay[p].invoice
      /\ \A q \in Payments \ {p} : pay'[q] = pay[q]
    BY DEF PayRead, TypeInv, PayTyped
<1>3. /\ \A q \in Payments : Crediting(q)' => Crediting(q)
      /\ \A q \in Payments : pay'[q].pc \in PayBusy => pay[q].pc \in PayBusy
      /\ \A q \in Payments : PayServer(q)' = PayServer(q)
    BY <1>1, <1>2 DEF Crediting, PayBusy, PayServer
<1>4. Exclusive'
    BY <1>1, <1>3 DEF CalmInv, Exclusive
<1>5. \A q \in Payments : Crediting(q) /\ server[PayServer(q)].suspended => Crediting(q)'
    BY <1>1, <1>2 DEF Crediting
<1>6. FlagsAgree'
    BY <1>1, <1>3, <1>5, RowsStill DEF CalmInv, FlagsAgree
<1>7. AtWork'
    BY <1>1, <1>3, RowsStill DEF CalmInv, AtWork
<1>8. Paying'
    BY <1>1, <1>2, RowsStill DEF CalmInv, Paying
<1> QED
    BY <1>1, <1>4, <1>6, <1>7, <1>8, CalmMoves

\* With one operation at a time the row to reactivate is there.
LEMMA CalmPayFails ==
    ASSUME Calm, TypeInv, CalmInv, NEW p \in Payments
    PROVE  ~PayFails(p)
BY DEF PayFails, Calm, CalmInv, AtWork, Crediting

LEMMA CalmPayWrite ==
    ASSUME Calm, TypeInv, CalmInv, NEW p \in Payments, PayWrite(p)
    PROVE  /\ CalmInv'
           /\ \E s \in Servers : /\ s = PayServer(p) /\ \A j \in Of(s)' : ~Unpaid(j)'
                               /\ \A t \in Servers \ {s} : Late(t)' = Late(t)
<1>1. PICK i \in Written : i = pay[p].invoice
    BY PayFacts DEF PayWrite, PayBusy
<1>2. PICK s \in Servers : s = PayServer(p)
    BY PayFacts DEF PayWrite, PayBusy
<1>0. pay[p].pc = "paying" /\ pay[p].pc \in PayBusy
    BY DEF PayWrite, PayBusy
<1>3. /\ pay[p].pc = "paying" /\ worker.job = "idle" /\ i \in Of(s) /\ i \in Ids /\ Unpaid(i)
      /\ \A q \in Payments \ {p} : pay[q].invoice # i /\ pay[q].pc \notin PayBusy
      /\ \A t \in Servers : power[t] = "none"
      /\ UNCHANGED <<day, cycled, issued, server, worker, power>>
    <2>1. i \in Of(s) /\ i \in Ids /\ \A q \in Payments \ {p} : pay[q].invoice # i
        BY <1>0, <1>1, <1>2, PayFacts
    <2>2. /\ worker.job = "idle" /\ \A t \in Servers : power[t] = "none"
          /\ \A q \in Payments \ {p} : pay[q].pc \notin PayBusy
        BY <1>0 DEF CalmInv, Exclusive
    <2>3. Unpaid(i)
        BY <1>0, <1>1 DEF CalmInv, Paying
    <2> QED
        BY <1>0, <2>1, <2>2, <2>3 DEF PayWrite
<1>4. /\ invoice'[i].status = "PAID" /\ invoice'[i].server = s /\ invoice'[i].start = invoice[i].start
      /\ \A j \in Ids \ {i} : invoice'[j] = invoice[j]
    <2>1. invoice \in [Ids -> InvoiceRecord] /\ invoice[i].server = s
        BY <1>1, <1>2 DEF TypeInv, BooksTyped, PayServer
    <2>2. invoice' = [invoice EXCEPT ![i] = [invoice[i] EXCEPT !.status = "PAID", !.ref = p]]
        BY <1>1, <1>3, <2>1 DEF PayWrite
    <2> QED
        BY <1>3, <2>1, <2>2 DEF InvoiceRecord
<1>5. /\ pay'[p].pc = (IF Exists(s) THEN "reading" ELSE "done") /\ pay'[p].invoice = i
      /\ \A q \in Payments \ {p} : pay'[q] = pay[q]
    BY <1>1, <1>2 DEF PayWrite, TypeInv, PayTyped, Linked, PayServer
<1>6. Written' = Written /\ Written \subseteq Ids /\ \A t \in Servers : Of(t)' = Of(t)
    BY <1>3, <1>4, Typed DEF Written, Of, TypeInv, PayServer
<1>7. \A j \in Of(s) : ~Unpaid(j)'
    BY <1>3, <1>4, <1>6 DEF Of, Unpaid, CalmInv, OneUnpaid
<1>8. \A j \in Written : Unpaid(j)' => Unpaid(j) /\ j # i
    BY <1>4, <1>6 DEF Unpaid
<1>9. ASSUME NEW t \in Servers \ {s} PROVE Late(t)' = Late(t)
    <2>1. \A j \in Of(t) : j # i /\ j \in Ids
        BY <1>3, <1>6, <1>9 DEF Of
    <2> QED
        BY <1>4, <1>6, <2>1 DEF Late
<1>10. Exclusive'
    BY <1>3, <1>5 DEF Exclusive, PayBusy
<1>11. /\ RenewListed' /\ OverdueListed' /\ AbandonedListed'
       /\ (worker.job # "idle" => worker.now = day)'
    BY <1>3 DEF RenewListed, OverdueListed, AbandonedListed, Suspending
<1>17. ~Late(s)'
    BY <1>6, <1>7 DEF Late, Unpaid
<1>12. FlagsAgree'
    <2>1. \A q \in Payments : Crediting(q)' <=> q = p /\ Exists(s)
        BY <1>3, <1>5 DEF Crediting, PayBusy
    <2>2. PayServer(p)' = s
        BY <1>4, <1>5 DEF PayServer
    <2>4. \A q \in Payments : ~Crediting(q)
        BY <1>3 DEF Crediting, PayBusy
    <2> SUFFICES ASSUME NEW t \in Servers, Exists(t)'
                 PROVE  /\ server'[t].suspended =>
                            Late(t)' \/ \E q \in Payments : Crediting(q)' /\ PayServer(q)' = t
                        /\ Late(t)' => \/ server'[t].suspended
                                       \/ worker'.job \in Suspending /\ worker'.at = t
        BY DEF FlagsAgree
    <2>5. server' = server /\ worker' = worker /\ Exists(t)
        BY <1>3 DEF Exists
    <2>6. CASE t = s
        BY <1>17, <2>1, <2>2, <2>5, <2>6
    <2>7. CASE t # s
        BY <1>9, <2>4, <2>5, <2>7 DEF CalmInv, FlagsAgree
    <2> QED
        BY <2>6, <2>7
<1>13. AtWork'
    <2>1. \A q \in Payments : Crediting(q)' => q = p /\ Exists(s)
        BY <1>3, <1>5 DEF Crediting, PayBusy
    <2>2. PayServer(p)' = s
        BY <1>4, <1>5 DEF PayServer
    <2> QED
        BY <1>3, <1>6, <1>7, <2>1, <2>2 DEF AtWork, CalmInv, Exists, Suspending
<1>14. OneUnpaid'
    <2>1. \A t \in Servers : Of(t) \subseteq Written
        BY DEF Of
    <2> QED
        BY <1>6, <1>8, <2>1 DEF OneUnpaid, CalmInv
<1>15. OnTime'
    <2>1. \A j \in Written : invoice'[j].status = "OPEN" => j # i
        BY <1>4
    <2>2. \A j \in Written \ {i} : invoice'[j] = invoice[j]
        BY <1>4, <1>6
    <2> QED
        BY <1>3, <1>6, <2>1, <2>2 DEF OnTime, CalmInv, Suspending, Linked, Exists, Due
<1>16. Paying'
    <2>1. ASSUME NEW q \in Payments, pay'[q].pc \in {"sent", "paying"} PROVE Unpaid(pay[q].invoice)'
        <3>1. q # p /\ pay'[q] = pay[q] /\ pay[q].invoice # i
            BY <1>3, <1>5, <2>1
        <3>2. pay[q].invoice \in Ids /\ Unpaid(pay[q].invoice)
            BY <1>6, <2>1, <3>1 DEF CalmInv, Paying, TypeInv, PayTyped
        <3> QED
            BY <1>4, <3>1, <3>2 DEF Unpaid
    <2>2. \A q \in Payments : pay'[q].invoice = pay[q].invoice
        BY <1>1, <1>5
    <2> QED
        BY <2>1, <2>2 DEF CalmInv, Paying
<1>18. CalmInv'
    BY <1>10, <1>11, <1>12, <1>13, <1>14, <1>15, <1>16 DEF CalmInv
<1> QED
    BY <1>2, <1>6, <1>7, <1>9, <1>18

LEMMA CalmPayRevive ==
    ASSUME Calm, TypeInv, CalmInv, NEW p \in Payments, PayRevive(p)
    PROVE  CalmInv'
<1>1. PICK s \in Servers : s = PayServer(p)
    BY PayFacts DEF PayRevive, PayBusy
<1>2. /\ pay[p].pc = "reviving" /\ Exists(s) /\ worker.job = "idle"
      /\ \A q \in Payments \ {p} : pay[q].pc \notin PayBusy
      /\ UNCHANGED <<day, cycled, issued, invoice, worker, power>>
    BY <1>1, PayFacts DEF PayRevive, PayBusy, CalmInv, Exclusive
<1>3. /\ pay'[p].pc = "done" /\ pay'[p].invoice = pay[p].invoice
      /\ \A q \in Payments \ {p} : pay'[q] = pay[q]
    BY DEF PayRevive, TypeInv, PayTyped
<1>4. /\ server'[s].state = "up" /\ server'[s].suspended = FALSE
      /\ \A t \in Servers \ {s} : server'[t] = server[t]
    BY <1>1 DEF PayRevive, TypeInv, RowsTyped
<1>5. \A j \in Of(s) : ~Unpaid(j)
    BY <1>1, <1>2 DEF CalmInv, AtWork, Crediting
<1>6. /\ Written' = Written /\ \A t : Of(t)' = Of(t) /\ Late(t)' = Late(t)
      /\ \A i : Unpaid(i)' = Unpaid(i) /\ Due(i)' = Due(i)
    BY <1>2 DEF Written, Of, Late, Unpaid, Due
<1>7. \A t \in Servers : Exists(t)' = Exists(t)
    BY <1>2, <1>4 DEF Exists
<1>8. \A q \in Payments : ~Crediting(q)'
    BY <1>2, <1>3 DEF Crediting, PayBusy
<1>9. /\ Exclusive' /\ RenewListed' /\ OverdueListed' /\ AbandonedListed'
      /\ (worker.job # "idle" => worker.now = day)'
    BY <1>2, <1>3 DEF CalmInv, Exclusive, RenewListed, OverdueListed, AbandonedListed, PayBusy, Suspending
<1>10. FlagsAgree'
    <2> SUFFICES ASSUME NEW t \in Servers, Exists(t)'
                 PROVE  /\ server'[t].suspended => Late(t)'
                        /\ Late(t)' => server'[t].suspended
        BY DEF FlagsAgree
    <2>1. CASE t = s
        BY <1>4, <1>5, <1>6, <2>1 DEF Late, Unpaid
    <2>2. CASE t # s
        <3>1. \A q \in Payments : Crediting(q) => PayServer(q) = s
            BY <1>1, <1>2 DEF Crediting, PayBusy
        <3>2. Exists(t) /\ server'[t] = server[t]
            BY <1>4, <1>7, <2>2
        <3> QED
            BY <1>2, <1>6, <2>2, <3>1, <3>2 DEF CalmInv, FlagsAgree, Suspending
    <2> QED
        BY <2>1, <2>2
<1>11. AtWork'
    BY <1>2, <1>4, <1>8 DEF CalmInv, AtWork, Suspending
<1>12. OneUnpaid' /\ Paying'
    BY <1>3, <1>6 DEF CalmInv, OneUnpaid, Paying
<1>13. OnTime'
    <2>1. \A i \in Written : Linked(i)' = Linked(i)
        BY <1>2, <1>7, Typed DEF Linked, TypeInv
    <2> QED
        BY <1>2, <1>6, <2>1 DEF CalmInv, OnTime, Suspending
<1> QED
    BY <1>9, <1>10, <1>11, <1>12, <1>13 DEF CalmInv

\* A new invoice for a server that owes nothing.
LEMMA CalmIssued ==
    ASSUME TypeInv, CalmInv, NEW s \in Servers, NEW d \in 0..LastDay, Issued(s, d),
           \A i \in Of(s) : ~Unpaid(i), NEW n, n = issued + 1
    PROVE  /\ n \notin Written /\ Written' = Written \cup {n} /\ n # 0
           /\ invoice'[n].server = s /\ invoice'[n].status = "OPEN" /\ Due(n)' = d + Grace
           /\ \A i \in Written : invoice'[i] = invoice[i] /\ Due(i)' = Due(i)
           /\ \A i \in Written : Unpaid(i)' = Unpaid(i)
           /\ Of(s)' = Of(s) \cup {n} /\ \A t \in Servers \ {s} : Of(t)' = Of(t)
           /\ \A t \in Servers : Late(t)' = Late(t)
           /\ OneUnpaid'
           /\ pay' = pay => Paying'
<1>1. /\ BooksTyped /\ n \notin Written /\ Written' = Written \cup {n} /\ Start(n)' = d
      /\ \A i \in Written : invoice'[i] = invoice[i] /\ Due(i)' = Due(i)
      /\ Of(s)' = Of(s) \cup {n} /\ \A t \in Servers \ {s} : Of(t)' = Of(t)
    BY IssuedFacts DEF TypeInv
<1>2. invoice'[n] = [server |-> s, start |-> d, status |-> "OPEN", ref |-> NoPayment] /\ n # 0
    BY <1>1, DaysAssumption DEF Issued, BooksTyped, Ids
<1>3. \A t \in Servers : Of(t) \subseteq Written
    BY DEF Of
<1>4. \A i \in Written : Unpaid(i)' = Unpaid(i)
    BY <1>1 DEF Unpaid
<1>5. \A t \in Servers : Late(t)' = Late(t)
    BY <1>1, <1>2, <1>3 DEF Late
<1>6. OneUnpaid'
    BY <1>1, <1>3, <1>4 DEF OneUnpaid, CalmInv
<1>7. ASSUME pay' = pay PROVE Paying'
    <2>1. \A p \in Payments : pay[p].pc \in {"sent", "paying"} => pay[p].invoice \in Written
        BY DEF TypeInv, PayTyped, PayBusy
    <2> QED
        BY <1>4, <1>7, <2>1 DEF Paying, CalmInv
<1> QED
    BY <1>1, <1>2, <1>4, <1>5, <1>6, <1>7 DEF Due, Start

LEMMA CalmFirst ==
    ASSUME Calm, TypeInv, TileInv, CalmInv, NEW s \in Servers,
           FirstInvoice(s) \/ FirstInvoiceFails(s)
    PROVE  CalmInv' /\ \A t \in Servers : Late(t)' = Late(t)
<1>1. /\ server[s].state = "building" /\ Alone /\ Of(s) = {} /\ day \in 0..LastDay
      /\ server' = [server EXCEPT ![s].state = "up"]
      /\ UNCHANGED <<day, cycled, worker, pay, power>>
    BY DEF FirstInvoice, FirstInvoiceFails, MayStart, Calm, TileInv, TypeInv, OthersTyped
<1>2. /\ server'[s].state = "up" /\ server'[s].suspended = server[s].suspended
      /\ \A t \in Servers \ {s} : server'[t] = server[t]
      /\ \A t \in Servers : Exists(t)' = Exists(t)
    BY <1>1 DEF TypeInv, RowsTyped, ServerRecord, Exists
<1>3. worker.job = "idle" /\ \A p \in Payments : ~Crediting(p) /\ ~Crediting(p)'
    BY <1>1 DEF Alone, Crediting, PayBusy
<1>4. /\ Exclusive' /\ RenewListed' /\ OverdueListed' /\ AbandonedListed' /\ AtWork'
      /\ (worker.job # "idle" => worker.now = day)'
    BY <1>1, <1>2, <1>3 DEF CalmInv, Exclusive, RenewListed, OverdueListed, AbandonedListed,
                            AtWork, Suspending
<1>5. /\ OneUnpaid' /\ Paying' /\ OnTime'
      /\ \A t \in Servers : Late(t)' = Late(t)
    <2>1. ASSUME FirstInvoice(s)
          PROVE  /\ OneUnpaid' /\ Paying' /\ OnTime'
                 /\ \A t \in Servers : Late(t)' = Late(t)
        <3>1. PICK n : n = issued + 1
            OBVIOUS
        <3>2. Issued(s, day)
            BY <2>1 DEF FirstInvoice
        <3>3. /\ OneUnpaid' /\ Paying' /\ \A t \in Servers : Late(t)' = Late(t)
              /\ n \notin Written /\ Written' = Written \cup {n} /\ Due(n)' = day + Grace
              /\ \A i \in Written : invoice'[i] = invoice[i] /\ Due(i)' = Due(i)
            BY <1>1, <3>1, <3>2, CalmIssued
        <3>4. \A i \in Written : Linked(i)' = Linked(i)
            BY <1>2, <3>3, Typed DEF Linked, TypeInv
        <3>5. day + Grace >= day /\ day + Grace + 1 >= day
            BY <1>1, DaysAssumption
        <3>6. OnTime'
            BY <1>1, <1>3, <3>3, <3>4, <3>5 DEF OnTime, CalmInv, Suspending
        <3> QED
            BY <3>3, <3>6
    <2>2. ASSUME FirstInvoiceFails(s)
          PROVE  /\ OneUnpaid' /\ Paying' /\ OnTime'
                 /\ \A t \in Servers : Late(t)' = Late(t)
        <3>1. issued' = issued /\ invoice' = invoice
            BY <2>2 DEF FirstInvoiceFails
        <3>2. /\ Written' = Written /\ \A t : Of(t)' = Of(t) /\ Late(t)' = Late(t)
              /\ \A i : Unpaid(i)' = Unpaid(i) /\ Due(i)' = Due(i)
            BY <3>1 DEF Written, Of, Late, Unpaid, Due
        <3>3. \A i \in Written : Linked(i)' = Linked(i)
            BY <1>2, <3>1, Typed DEF Linked, TypeInv
        <3> QED
            BY <1>1, <3>1, <3>2, <3>3 DEF OneUnpaid, OnTime, Paying, CalmInv
    <2> QED
        BY <2>1, <2>2
<1>6. FlagsAgree'
    BY <1>1, <1>2, <1>3, <1>5 DEF FlagsAgree, CalmInv
<1>7. CalmInv'
    BY <1>4, <1>5, <1>6 DEF CalmInv
<1> QED
    BY <1>5, <1>7

\* The cycle.  Only a server that owes nothing is renewed: an open invoice lasts
\* beyond the day, and a server with an overdue one is suspended.
LEMMA CalmBegin ==
    ASSUME Calm, TypeInv, CalmInv, CycleBegin
    PROVE  CalmInv'
<1>1. /\ worker.job = "idle" /\ Alone /\ day \in Nat
      /\ worker'.job = "renew" /\ worker'.now = day
      /\ worker'.todo = {<<s, LastEnd(s)>> : s \in Renewable(day)}
      /\ UNCHANGED <<day, cycled, issued, invoice, server, pay, power>>
    BY DEF CycleBegin, MayStart, Calm, TypeInv, OthersTyped
<1>2. ASSUME NEW s \in Renewable(day), NEW i \in Of(s) PROVE ~Unpaid(i)
    <2>1. /\ s \in Servers /\ Exists(s) /\ ~server[s].suspended /\ End(i) <= day
          /\ i \in Written /\ Linked(i)
        BY <1>2 DEF Renewable, Exists, Of, Linked
    <2>2. invoice[i].status # "OVERDUE"
        BY <1>1, <1>2, <2>1 DEF CalmInv, FlagsAgree, Late, Suspending
    <2>3. ASSUME invoice[i].status = "OPEN" PROVE FALSE
        <3>1. Due(i) + 1 >= day
            BY <1>1, <2>1, <2>3 DEF CalmInv, OnTime
        <3>2. Start(i) \in Nat /\ Due(i) = Start(i) + Grace /\ End(i) = Start(i) + Period
            BY <2>1, Typed DEF TypeInv, Due, End, Start
        <3> QED
            BY <1>1, <2>1, <3>1, <3>2, DaysAssumption DEF Calm
    <2> QED
        BY <2>2, <2>3 DEF Unpaid
<1>3. RenewListed'
    <2>1. ASSUME NEW x \in worker'.todo
          PROVE  \E s \in Renewable(day) : x = <<s, LastEnd(s)>> /\ x[1] = s
        BY <1>1, <2>1
    <2>2. \A x \in worker'.todo : \A i \in Of(x[1]) : ~Unpaid(i)
        BY <1>2, <2>1
    <2>3. \A x, y \in worker'.todo : y[1] = x[1] => y = x
        BY <2>1
    <2> QED
        BY <1>1, <2>2, <2>3, RowsStill DEF RenewListed
<1>4. Exclusive'
    BY <1>1 DEF Exclusive, Alone
<1>5. OverdueListed' /\ AbandonedListed' /\ OnTime' /\ (worker.job # "idle" => worker.now = day)'
    BY <1>1 DEF OverdueListed, AbandonedListed, OnTime, Suspending
<1>6. FlagsAgree' /\ AtWork'
    BY <1>1, RowsStill DEF FlagsAgree, AtWork, CalmInv, Suspending, Crediting, PayServer
<1>7. OneUnpaid' /\ Paying'
    BY <1>1, RowsStill DEF OneUnpaid, Paying, CalmInv
<1> QED
    BY <1>3, <1>4, <1>5, <1>6, <1>7 DEF CalmInv

LEMMA CalmRenew ==
    ASSUME Calm, TypeInv, CalmInv, NEW x \in worker.todo, Renew(x)
    PROVE  CalmInv' /\ \A t \in Servers : Late(t)' = Late(t)
<1>1. /\ worker.job = "renew" /\ worker'.job = "renew" /\ worker'.now = worker.now
      /\ worker'.at = worker.at /\ worker'.todo = worker.todo \ {x} /\ x \in Renewals
      /\ worker.todo \subseteq Renewals
      /\ UNCHANGED <<day, cycled, server, pay, power>>
    BY DEF Renew, TypeInv, WorkerTyped, WorkerRecord
<1>2. PICK s \in Servers, e \in -1..LastDay : x = <<s, e>>
    BY <1>1 DEF Renewals
<1>3. PICK d \in 0..LastDay : Issued(s, d)
    BY <1>2 DEF Renew, NoEnd, TypeInv, WorkerTyped, WorkerRecord
<1>4. PICK n : n = issued + 1
    OBVIOUS
<1>5. \A i \in Of(s) : ~Unpaid(i)
    BY <1>1, <1>2 DEF CalmInv, RenewListed
<1>6. /\ OneUnpaid' /\ Paying' /\ \A t \in Servers : Late(t)' = Late(t)
      /\ \A i \in Written : Unpaid(i)' = Unpaid(i) /\ invoice'[i] = invoice[i]
      /\ \A t \in Servers \ {s} : Of(t)' = Of(t)
    BY <1>1, <1>3, <1>4, <1>5, CalmIssued
<1>7. RenewListed'
    <2> SUFFICES ASSUME NEW y \in worker'.todo
                 PROVE  /\ \A i \in Of(y[1])' : ~Unpaid(i)'
                        /\ \A z \in worker'.todo : z[1] = y[1] => z = y
        BY DEF RenewListed
    <2>1. y \in worker.todo /\ y # x
        BY <1>1
    <2>2. y[1] # x[1] /\ y[1] \in Servers /\ x[1] = s
        BY <1>1, <1>2, <2>1 DEF CalmInv, RenewListed, Renewals
    <2>3. Of(y[1])' = Of(y[1]) /\ Of(y[1]) \subseteq Written
        BY <1>6, <2>2 DEF Of
    <2> QED
        BY <1>1, <1>6, <2>1, <2>3 DEF CalmInv, RenewListed
<1>8. FlagsAgree' /\ AtWork'
    <2>1. \A p \in Payments : ~Crediting(p)
        BY <1>1 DEF CalmInv, Exclusive, Crediting, PayBusy
    <2> QED
        BY <1>1, <1>6, <2>1 DEF CalmInv, FlagsAgree, AtWork, Exists, Crediting, Suspending
<1>9. /\ OverdueListed' /\ AbandonedListed' /\ OnTime' /\ Exclusive'
      /\ (worker.job # "idle" => worker.now = day)'
    BY <1>1 DEF CalmInv, OverdueListed, AbandonedListed, OnTime, Exclusive, Suspending
<1>10. CalmInv'
    BY <1>6, <1>7, <1>8, <1>9 DEF CalmInv
<1> QED
    BY <1>6, <1>10

\* A step of the cycle that changes nothing but what the cycle is at.
LEMMA CalmWorks ==
    ASSUME TypeInv, CalmInv, worker.job # "idle", worker'.now = worker.now,
           UNCHANGED <<day, cycled, issued, invoice, server, pay, power>>,
           RenewListed', OverdueListed', AbandonedListed', FlagsAgree', AtWork', OnTime'
    PROVE  CalmInv'
<1>1. /\ \A p \in Payments : pay[p].pc \notin PayBusy
      /\ \A s \in Servers : power[s] = "none"
    BY DEF CalmInv, Exclusive
<1>2. Exclusive'
    BY <1>1 DEF Exclusive
<1>3. OneUnpaid' /\ Paying'
    BY RowsStill DEF CalmInv, OneUnpaid, Paying
<1> QED
    BY <1>2, <1>3 DEF CalmInv

LEMMA CalmFlags ==
    ASSUME CalmInv, UNCHANGED <<issued, invoice, server, pay>>,
           worker.job \notin Suspending, worker'.job \notin Suspending,
           worker.job # "deleting", worker'.job # "deleting"
    PROVE  FlagsAgree' /\ AtWork'
BY RowsStill DEF CalmInv, FlagsAgree, AtWork, Crediting, PayServer

LEMMA CalmRenewEnds ==
    ASSUME Calm, TypeInv, CalmInv,
           RenewDone \/ \E x \in worker.todo : RenewFails(x)
    PROVE  CalmInv'
<1> USE DEF Suspending
<1>0. worker \in WorkerRecord /\ worker.now \in 0..LastDay /\ day \in 0..LastDay
    BY DEF TypeInv, WorkerTyped, WorkerRecord, OthersTyped
<1>1. ASSUME NEW x \in worker.todo, RenewFails(x) PROVE CalmInv'
    <2>1. /\ worker.job = "renew" /\ worker'.job = "renew" /\ worker'.todo \subseteq worker.todo
          /\ worker'.now = worker.now
          /\ UNCHANGED <<day, cycled, issued, invoice, server, pay, power>>
        BY <1>0, <1>1 DEF RenewFails, WorkerRecord
    <2>2. RenewListed' /\ OverdueListed' /\ AbandonedListed' /\ OnTime'
        BY <2>1, RowsStill DEF RenewListed, OverdueListed, AbandonedListed, OnTime, CalmInv
    <2>3. FlagsAgree' /\ AtWork'
        BY <2>1, CalmFlags
    <2> QED
        BY <2>1, <2>2, <2>3, CalmWorks
<1>2. ASSUME RenewDone PROVE CalmInv'
    <2>1. /\ worker.job = "renew" /\ worker'.job = "suspend" /\ worker'.now = worker.now
          /\ worker'.todo = {<<i, invoice[i].server>> : i \in Overdue(day)}
          /\ UNCHANGED <<day, cycled, issued, invoice, server, pay, power>>
        BY <1>0, <1>2 DEF RenewDone, NextJob, WorkerRecord, CalmInv
    <2>2. OverdueListed'
        <3>1. ASSUME NEW x \in worker'.todo
              PROVE  \E i \in Overdue(day) : x[1] = i /\ x[2] = invoice[i].server
            BY <2>1, <3>1
        <3>2. \A i \in Overdue(day) :
                i \in Written /\ Exists(invoice[i].server) /\ invoice[i].status = "OPEN"
            BY DEF Overdue, Linked
        <3> QED
            BY <2>1, <3>1, <3>2, RowsStill DEF OverdueListed
    <2>3. OnTime'
        <3>1. \A i \in Written : Due(i) \in Nat /\ day \in Nat
            BY <1>0, Typed DEF TypeInv
        <3>2. ASSUME NEW i \in Written, invoice[i].status = "OPEN", Linked(i)
              PROVE  Due(i) >= day \/ <<i, invoice[i].server>> \in worker'.todo
            BY <2>1, <3>1, <3>2 DEF Overdue
        <3> QED
            BY <2>1, <3>2, RowsStill DEF OnTime
    <2>4. RenewListed' /\ AbandonedListed'
        BY <2>1 DEF RenewListed, AbandonedListed
    <2>5. AtWork' /\ FlagsAgree'
        BY <2>1, CalmFlags
    <2> QED
        BY <2>1, <2>2, <2>3, <2>4, <2>5, CalmWorks
<1> QED
    BY <1>1, <1>2

\* The invoice marked is the only one its server owes: it was not suspended.
LEMMA CalmMark ==
    ASSUME Calm, TypeInv, CalmInv, NEW x \in worker.todo, MarkOverdue(x)
    PROVE  /\ CalmInv'
           /\ x[2] \in Servers /\ Exists(x[2]) /\ ~Late(x[2]) /\ ~server[x[2]].suspended
           /\ Late(x[2])' /\ \A t \in Servers \ {x[2]} : Late(t)' = Late(t)
<1>1. worker.job = "suspend" /\ worker.todo \subseteq Cases /\ worker \in WorkerRecord
    BY DEF MarkOverdue, TypeInv, WorkerTyped
<1>2. PICK i \in Ids, s \in Servers : x = <<i, s>>
    BY <1>1 DEF Cases
<1>3. /\ worker'.job = "suspending" /\ worker'.at = s /\ worker'.todo = worker.todo \ {x}
      /\ worker'.now = worker.now
      /\ UNCHANGED <<day, cycled, issued, server, pay, power>>
    BY <1>1, <1>2 DEF MarkOverdue, WorkerRecord
<1>4. /\ i \in Written /\ invoice[i].server = s /\ Exists(s) /\ invoice[i].status = "OPEN"
      /\ i \in Of(s)
    BY <1>1, <1>2 DEF CalmInv, OverdueListed, Of
<1>5. /\ invoice'[i].status = "OVERDUE" /\ invoice'[i].server = s
      /\ invoice'[i].start = invoice[i].start
      /\ \A j \in Ids \ {i} : invoice'[j] = invoice[j]
    BY <1>2, <1>4 DEF MarkOverdue, TypeInv, BooksTyped, InvoiceRecord
<1>6. Written' = Written /\ Written \subseteq Ids /\ \A t \in Servers : Of(t)' = Of(t)
    BY <1>3, <1>4, <1>5, Typed DEF Written, Of, TypeInv
<1>7. \A j \in Written : Unpaid(j)' = Unpaid(j)
    BY <1>4, <1>5, <1>6 DEF Unpaid
<1>8. ~Late(s)
    BY <1>4 DEF CalmInv, OneUnpaid, Unpaid, Late
<1>9. \A p \in Payments : ~Crediting(p) /\ pay[p].pc \notin PayBusy
    BY <1>1 DEF CalmInv, Exclusive, Crediting, PayBusy
<1>10. ~server[s].suspended
    BY <1>4, <1>8, <1>9 DEF CalmInv, FlagsAgree
<1>11. Late(s)'
    BY <1>4, <1>5, <1>6 DEF Late
<1>12. ASSUME NEW t \in Servers \ {s} PROVE Late(t)' = Late(t)
    <2>1. \A j \in Of(t) : j # i /\ j \in Ids
        BY <1>4, <1>6, <1>12 DEF Of
    <2> QED
        BY <1>5, <1>6, <2>1 DEF Late
<1>13. FlagsAgree'
    <2> SUFFICES ASSUME NEW t \in Servers, Exists(t)'
                 PROVE  /\ server'[t].suspended => Late(t)'
                        /\ Late(t)' => server'[t].suspended \/ t = s
        BY <1>3 DEF FlagsAgree, Suspending
    <2>1. server' = server /\ Exists(t)
        BY <1>3 DEF Exists
    <2>2. CASE t = s
        BY <1>10, <2>1, <2>2
    <2>3. CASE t # s
        BY <1>1, <1>9, <1>12, <2>1, <2>3 DEF CalmInv, FlagsAgree, Suspending
    <2> QED
        BY <2>2, <2>3
<1>14. AtWork'
    BY <1>1, <1>3, <1>4, <1>9, <1>10, <1>11 DEF CalmInv, AtWork, Exists, Crediting, Suspending
<1>15. OverdueListed'
    <2> SUFFICES ASSUME NEW y \in worker'.todo
                 PROVE  /\ y[1] \in Written /\ invoice'[y[1]].server = y[2]
                        /\ Exists(y[2]) /\ invoice'[y[1]].status = "OPEN"
        BY <1>3, <1>6 DEF OverdueListed, Exists
    <2>1. y \in worker.todo /\ y # x
        BY <1>3
    <2>2. PICK j \in Ids, t \in Servers : y = <<j, t>>
        BY <1>1, <2>1 DEF Cases
    <2>3. j \in Written /\ invoice[j].server = t /\ Exists(t) /\ invoice[j].status = "OPEN"
        BY <1>1, <2>1, <2>2 DEF CalmInv, OverdueListed
    <2>4. j # i
        BY <1>2, <1>4, <2>1, <2>2, <2>3
    <2> QED
        BY <1>5, <2>2, <2>3, <2>4
<1>16. OnTime'
    <2> SUFFICES ASSUME NEW j \in Written, invoice'[j].status = "OPEN", Linked(j)'
                 PROVE  Due(j)' >= day \/ <<j, invoice'[j].server>> \in worker'.todo
        BY <1>3, <1>6 DEF OnTime, Suspending
    <2>1. j # i /\ invoice'[j] = invoice[j] /\ Due(j)' = Due(j) /\ Linked(j)
        BY <1>3, <1>5, <1>6 DEF Due, Linked, Exists
    <2>2. Due(j) >= day \/ <<j, invoice[j].server>> \in worker.todo
        BY <1>1, <2>1 DEF CalmInv, OnTime
    <2>3. <<j, invoice[j].server>> # x
        BY <1>2, <2>1
    <2> QED
        BY <1>3, <2>1, <2>2, <2>3
<1>17. RenewListed' /\ AbandonedListed' /\ (worker.job # "idle" => worker.now = day)'
    BY <1>1, <1>3 DEF RenewListed, AbandonedListed, CalmInv
<1>18. OneUnpaid'
    <2>1. \A t \in Servers : Of(t) \subseteq Written
        BY DEF Of
    <2> QED
        BY <1>6, <1>7, <2>1 DEF CalmInv, OneUnpaid
<1>19. Paying'
    <2>1. \A p \in Payments : pay[p].pc \in {"sent", "paying"} => pay[p].invoice \in Written
        BY DEF TypeInv, PayTyped, PayBusy
    <2> QED
        BY <1>3, <1>7, <2>1 DEF Paying, CalmInv
<1>20. Exclusive'
    BY <1>1, <1>3, <1>9 DEF CalmInv, Exclusive
<1> QED
    BY <1>2, <1>4, <1>8, <1>10, <1>11, <1>12, <1>13, <1>14, <1>15, <1>16, <1>17, <1>18, <1>19, <1>20
    DEF CalmInv

LEMMA CalmSuspend ==
    ASSUME Calm, TypeInv, CalmInv, SuspendRead \/ SuspendStop
    PROVE  CalmInv'
<1> USE DEF Suspending
<1>1. /\ worker.job \in {"suspending", "stopping"}
      /\ worker'.at = worker.at /\ worker'.todo = worker.todo /\ worker'.now = worker.now
      /\ UNCHANGED <<day, cycled, issued, invoice, server, pay, power>>
    BY DEF SuspendRead, SuspendStop, TypeInv, WorkerTyped, WorkerRecord
<1>2. Exists(worker.at) /\ ~server[worker.at].suspended
    BY <1>1 DEF CalmInv, AtWork
<1>3. worker'.job \in {"stopping", "flagging"}
    BY <1>1, <1>2 DEF SuspendRead, SuspendStop, TypeInv, WorkerTyped, WorkerRecord
<1>4. RenewListed' /\ OverdueListed' /\ AbandonedListed' /\ OnTime'
    BY <1>1, <1>3, RowsStill DEF CalmInv, RenewListed, OverdueListed, AbandonedListed, OnTime
<1>5. FlagsAgree' /\ AtWork'
    BY <1>1, <1>3, RowsStill DEF CalmInv, FlagsAgree, AtWork, Crediting, PayServer
<1> QED
    BY <1>1, <1>3, <1>4, <1>5, CalmWorks

LEMMA CalmSuspendWrite ==
    ASSUME Calm, TypeInv, CalmInv, SuspendWrite
    PROVE  CalmInv'
<1>1. PICK s \in Servers : s = worker.at
    BY DEF SuspendWrite, TypeInv, WorkerTyped
<1>2. /\ worker.job = "flagging" /\ Exists(s) /\ Late(s) /\ ~server[s].suspended
      /\ worker'.job = "suspend" /\ worker'.todo = worker.todo /\ worker'.now = worker.now
      /\ UNCHANGED <<day, cycled, issued, invoice, pay, power>>
    BY <1>1 DEF SuspendWrite, CalmInv, AtWork, Suspending, TypeInv, WorkerTyped, WorkerRecord
<1>3. /\ server'[s].state = "up" /\ server'[s].suspended = TRUE
      /\ \A t \in Servers \ {s} : server'[t] = server[t]
    BY <1>1, <1>2 DEF SuspendWrite, TypeInv, RowsTyped, ServerRecord
<1>4. \A t \in Servers : Exists(t)' = Exists(t)
    BY <1>2, <1>3 DEF Exists
<1>5. /\ Written' = Written /\ \A t : Of(t)' = Of(t) /\ Late(t)' = Late(t)
      /\ \A i : Unpaid(i)' = Unpaid(i) /\ Due(i)' = Due(i)
      /\ \A i \in Written : Linked(i)' = Linked(i)
    BY <1>2, <1>4, Typed DEF Written, Of, Late, Unpaid, Due, Linked, TypeInv
<1>6. \A p \in Payments : ~Crediting(p) /\ pay[p].pc \notin PayBusy
    BY <1>2 DEF CalmInv, Exclusive, Crediting, PayBusy
<1>7. FlagsAgree'
    <2> SUFFICES ASSUME NEW t \in Servers, Exists(t)'
                 PROVE  /\ server'[t].suspended => Late(t)'
                        /\ Late(t)' => server'[t].suspended
        BY DEF FlagsAgree
    <2>1. CASE t = s
        BY <1>2, <1>3, <1>5, <2>1
    <2>2. CASE t # s
        <3>1. Exists(t) /\ server'[t] = server[t]
            BY <1>3, <1>4, <2>2
        <3> QED
            BY <1>1, <1>2, <1>5, <1>6, <2>2, <3>1 DEF CalmInv, FlagsAgree
    <2> QED
        BY <2>1, <2>2
<1>8. AtWork'
    BY <1>2, <1>3, <1>6 DEF CalmInv, AtWork, Crediting, Suspending
<1>9. OverdueListed'
    <2>1. \A x \in worker.todo : x[2] \in Servers
        BY <1>2 DEF TypeInv, WorkerTyped, Cases
    <2> QED
        BY <1>2, <1>4, <1>5, <2>1 DEF CalmInv, OverdueListed, Suspending
<1>10. RenewListed' /\ AbandonedListed' /\ OnTime' /\ (worker.job # "idle" => worker.now = day)'
    BY <1>2, <1>5 DEF CalmInv, RenewListed, AbandonedListed, OnTime, Suspending
<1>11. OneUnpaid' /\ Paying' /\ Exclusive'
    BY <1>2, <1>5, <1>6 DEF CalmInv, OneUnpaid, Paying, Exclusive
<1> QED
    BY <1>7, <1>8, <1>9, <1>10, <1>11 DEF CalmInv

LEMMA CalmSuspendDone ==
    ASSUME Calm, TypeInv, CalmInv, SuspendDone
    PROVE  CalmInv'
<1> USE DEF Suspending
<1>1. /\ worker.job = "suspend" /\ worker.todo = {} /\ worker'.job = "reclaim"
      /\ worker'.now = worker.now
      /\ worker'.todo = {<<i, invoice[i].server>> : i \in Abandoned(worker.now)}
      /\ UNCHANGED <<day, cycled, issued, invoice, server, pay, power>>
    BY DEF SuspendDone, NextJob, TypeInv, WorkerTyped, WorkerRecord
<1>2. AbandonedListed'
    <2>1. ASSUME NEW x \in worker'.todo
          PROVE  \E i \in Abandoned(worker.now) : x[1] = i /\ x[2] = invoice[i].server
        BY <1>1, <2>1
    <2>2. \A i \in Abandoned(worker.now) : i \in Written /\ invoice[i].status = "OVERDUE"
        BY DEF Abandoned
    <2> QED
        BY <1>1, <2>1, <2>2, RowsStill DEF AbandonedListed
<1>3. OnTime'
    BY <1>1, RowsStill DEF CalmInv, OnTime
<1>4. RenewListed' /\ OverdueListed'
    BY <1>1 DEF RenewListed, OverdueListed
<1>5. FlagsAgree' /\ AtWork'
    BY <1>1, CalmFlags
<1> QED
    BY <1>1, <1>2, <1>3, <1>4, <1>5, CalmWorks

LEMMA CalmEnd ==
    ASSUME Calm, TypeInv, CalmInv, CycleEnd
    PROVE  CalmInv'
<1>1. /\ worker.job = "reclaim" /\ worker'.job = "idle" /\ cycled' = TRUE
      /\ UNCHANGED <<day, issued, invoice, server, pay, power>>
    BY DEF CycleEnd, Resting
<1>2. RenewListed' /\ OverdueListed' /\ AbandonedListed' /\ (worker.job # "idle" => worker.now = day)'
    BY <1>1 DEF RenewListed, OverdueListed, AbandonedListed, Suspending
<1>3. FlagsAgree' /\ AtWork'
    BY <1>1, CalmFlags DEF Suspending
<1>4. OnTime'
    <2>1. \A i \in Written : Due(i) \in Nat /\ day \in Nat
        BY Typed DEF TypeInv, OthersTyped
    <2> QED
        BY <1>1, <2>1, RowsStill DEF CalmInv, OnTime, Suspending
<1>5. OneUnpaid' /\ Paying' /\ Exclusive'
    BY <1>1, RowsStill DEF CalmInv, OneUnpaid, Paying, Exclusive
<1> QED
    BY <1>2, <1>3, <1>4, <1>5 DEF CalmInv

\* A row that is marked for deletion, or deleted, while the rest stays.
LEMMA CalmRow ==
    ASSUME Calm, TypeInv, CalmInv, NEW s \in Servers,
           worker.job \in {"reclaim", "deleting"}, worker'.job \in {"reclaim", "deleting"},
           worker'.todo \subseteq worker.todo, worker'.now = worker.now,
           UNCHANGED <<day, cycled, issued, invoice, pay, power>>,
           \A t \in Servers \ {s} : server'[t] = server[t],
           Exists(s)' => Exists(s) /\ server'[s].suspended = server[s].suspended,
           worker'.job = "deleting" => server'[worker'.at].state = "deleting",
           \A t \in Servers : server'[t].state = "deleting" => worker'.job = "deleting" /\ worker'.at = t
    PROVE  CalmInv'
<1> USE DEF Suspending
<1>1. /\ Written' = Written /\ \A t : Of(t)' = Of(t) /\ Late(t)' = Late(t)
      /\ \A i : Unpaid(i)' = Unpaid(i) /\ Due(i)' = Due(i)
    BY DEF Written, Of, Late, Unpaid, Due
<1>2. \A t \in Servers : Exists(t)' => Exists(t) /\ server'[t].suspended = server[t].suspended
    BY DEF Exists
<1>3. \A p \in Payments : ~Crediting(p) /\ pay[p].pc \notin PayBusy
    BY DEF CalmInv, Exclusive, Crediting, PayBusy
<1>4. FlagsAgree'
    BY <1>1, <1>2, <1>3 DEF CalmInv, FlagsAgree
<1>5. AtWork'
    BY <1>3 DEF AtWork, Crediting
<1>6. AbandonedListed'
    BY <1>1 DEF CalmInv, AbandonedListed
<1>7. OnTime'
    <2>1. \A i \in Written : Linked(i)' => Linked(i)
        BY <1>2, Typed DEF Linked, TypeInv
    <2> QED
        BY <1>1, <2>1 DEF CalmInv, OnTime
<1>8. RenewListed' /\ OverdueListed' /\ (worker.job # "idle" => worker.now = day)'
    BY DEF CalmInv, RenewListed, OverdueListed
<1>9. OneUnpaid' /\ Paying' /\ Exclusive'
    BY <1>1, <1>3 DEF CalmInv, OneUnpaid, Paying, Exclusive
<1> QED
    BY <1>4, <1>5, <1>6, <1>7, <1>8, <1>9 DEF CalmInv

\* What is reclaimed is late, and so it is suspended.
LEMMA CalmReclaim ==
    ASSUME Calm, TypeInv, CalmInv, NEW x \in worker.todo, Reclaim(x)
    PROVE  /\ CalmInv'
           /\ x[2] \in Servers
           /\ Exists(x[2]) => Late(x[2]) /\ server[x[2]].suspended /\ server[x[2]].state # "deleting"
<1>1. worker.job = "reclaim" /\ worker.todo \subseteq Cases /\ worker \in WorkerRecord
    BY DEF Reclaim, TypeInv, WorkerTyped
<1>2. PICK i \in Ids, s \in Servers : x = <<i, s>>
    BY <1>1 DEF Cases
<1>3. Late(s)
    BY <1>1, <1>2 DEF CalmInv, AbandonedListed, Late, Of
<1>4. Exists(s) => server[s].suspended /\ server[s].state # "deleting"
    BY <1>1, <1>3 DEF CalmInv, FlagsAgree, AtWork, Suspending
<1>5. UNCHANGED <<day, cycled, issued, invoice, pay, power>>
    BY DEF Reclaim
<1>6. CASE Exists(s)
    <2>1. /\ server'[s].state = "deleting" /\ server'[s].suspended = server[s].suspended
          /\ \A t \in Servers \ {s} : server'[t] = server[t]
        BY <1>2, <1>6 DEF Reclaim, TypeInv, RowsTyped, ServerRecord
    <2>2. /\ worker'.job = "deleting" /\ worker'.at = s /\ worker'.todo \subseteq worker.todo
          /\ worker'.now = worker.now
        <3>1. worker' = [worker EXCEPT !.job = "deleting", !.at = s, !.todo = @ \ {x}]
            BY <1>2, <1>6 DEF Reclaim
        <3> QED
            BY <1>1, <3>1 DEF WorkerRecord
    <2>3. \A t \in Servers : server'[t].state = "deleting" => t = s
        BY <1>1, <2>1 DEF CalmInv, AtWork
    <2>4. CalmInv'
        BY <1>1, <1>5, <1>6, <2>1, <2>2, <2>3, CalmRow
    <2> QED
        BY <1>2, <1>3, <1>4, <2>4
<1>7. CASE ~Exists(s)
    <2>1. /\ server' = server
          /\ worker'.job = "reclaim" /\ worker'.todo \subseteq worker.todo /\ worker'.now = worker.now
        BY <1>1, <1>2, <1>7 DEF Reclaim, WorkerRecord
    <2>2. \A t \in Servers : server'[t].state # "deleting"
        BY <1>1, <2>1 DEF CalmInv, AtWork
    <2>3. ~Exists(s)'
        BY <1>7, <2>1 DEF Exists
    <2>4. CalmInv'
        BY <1>1, <1>5, <2>1, <2>2, <2>3, CalmRow
    <2> QED
        BY <1>2, <1>3, <1>4, <2>4
<1> QED
    BY <1>6, <1>7

LEMMA CalmCommit ==
    ASSUME Calm, TypeInv, CalmInv, ReclaimCommit
    PROVE  CalmInv'
<1>1. PICK s \in Servers : s = worker.at
    BY DEF ReclaimCommit, TypeInv, WorkerTyped
<1>2. /\ worker.job = "deleting" /\ worker'.job = "reclaim" /\ worker'.todo \subseteq worker.todo
      /\ worker'.now = worker.now
      /\ UNCHANGED <<day, cycled, issued, invoice, pay, power>>
    BY DEF ReclaimCommit, TypeInv, WorkerTyped, WorkerRecord
<1>3. /\ server'[s].state = "gone" /\ \A t \in Servers \ {s} : server'[t] = server[t]
    BY <1>1 DEF ReclaimCommit, TypeInv, RowsTyped
<1>4. ~Exists(s)'
    BY <1>3 DEF Exists
<1>5. \A t \in Servers : server'[t].state # "deleting"
    BY <1>1, <1>3 DEF CalmInv, AtWork
<1> QED
    BY <1>2, <1>3, <1>4, <1>5, CalmRow

LEMMA CalmStep ==
    ASSUME Calm, TypeInv, TileInv, CalmInv, [Next]_vars
    PROVE  CalmInv'
<1>1. ~SuspendFails /\ ~CycleCrash
    BY DEF SuspendFails, CycleCrash, Calm
<1>2. ASSUME CycleStep PROVE CalmInv'
    BY <1>2, CalmRenew, CalmRenewEnds, CalmMark, CalmReclaim, CalmSuspendDone, CalmSuspend,
       CalmSuspendWrite, CalmCommit, CalmEnd DEF CycleStep
<1>3. ASSUME NEW p \in Payments, PayStep(p) \/ PayFails(p) \/ \E i \in Ids : Charge(p, i)
      PROVE  CalmInv'
    BY <1>3, CalmPayLook, CalmPayWrite, CalmPayRead, CalmPayRevive, CalmPayFails, CalmCharge DEF PayStep
<1> QED
    BY <1>1, <1>2, <1>3, CalmFirst, CalmPower, CalmBegin, CalmTick DEF Next

LEMMA CalmAgrees ==
    ASSUME CalmInv
    PROVE  SuspendedIffOverdue
<1> SUFFICES ASSUME Alone, NEW s \in Servers, Exists(s)
             PROVE  server[s].suspended <=> Late(s)
    BY DEF SuspendedIffOverdue, Late
<1>1. worker.job = "idle" /\ \A p \in Payments : ~Crediting(p)
    BY DEF Alone, Crediting, PayBusy
<1> QED
    BY <1>1 DEF CalmInv, FlagsAgree, Suspending

-----------------------------------------------------------------------------
(* What a step does to the standing of a server.                            *)

\* A step that leaves a row and its overdue invoices alone leaves its standing.
LEMMA StandingStays ==
    ASSUME NEW s, Late(s)' <=> Late(s),
           server'[s].state \in {"deleting", "gone"} <=> server[s].state \in {"deleting", "gone"},
           Late(s) => server'[s].suspended = server[s].suspended
    PROVE  Standing(s)' = Standing(s)
BY DEF Standing, Late

\* At most one server moves, and by a step the promise allows.
LEMMA OneMoves ==
    ASSUME NEW s \in Servers, \A t \in Servers \ {s} : Standing(t)' = Standing(t),
           \/ Standing(s)' = Standing(s)
           \/ Standing(s) = "paid up" /\ Standing(s)' = "overdue"
           \/ Standing(s) = "overdue" /\ Standing(s)' = "suspended"
           \/ Standing(s) \in {"overdue", "suspended"} /\ Standing(s)' = "paid up"
           \/ Standing(s) = "suspended" /\ Standing(s)' = "gone"
    PROVE  [Promise!Next]_[t \in Servers |-> Standing(t)]
<1> DEFINE st == [t \in Servers |-> Standing(t)]
<1>1. /\ st \in [Servers -> {Standing(t) : t \in Servers}]
      /\ st[s] = Standing(s) /\ st' = [st EXCEPT ![s] = Standing(s)']
    OBVIOUS
<1>2. CASE Standing(s)' = Standing(s)
    <2>1. st' = st
        BY <1>2
    <2> QED
        BY <2>1
<1>3. CASE Standing(s) = "paid up" /\ Standing(s)' = "overdue"
    <2>1. Promise!Lapse(s)
        BY <1>1, <1>3 DEF Promise!Lapse, Promise!Move
    <2> QED
        BY <2>1 DEF Promise!Next
<1>4. CASE Standing(s) = "overdue" /\ Standing(s)' = "suspended"
    <2>1. Promise!Suspend(s)
        BY <1>1, <1>4 DEF Promise!Suspend, Promise!Move
    <2> QED
        BY <2>1 DEF Promise!Next
<1>5. CASE Standing(s) \in {"overdue", "suspended"} /\ Standing(s)' = "paid up"
    <2>1. Promise!Settle(s)
        BY <1>1, <1>5 DEF Promise!Settle, Promise!Move
    <2> QED
        BY <2>1 DEF Promise!Next
<1>6. CASE Standing(s) = "suspended" /\ Standing(s)' = "gone"
    <2>1. Promise!Reclaim(s)
        BY <1>1, <1>6 DEF Promise!Reclaim, Promise!Move
    <2> QED
        BY <2>1 DEF Promise!Next
<1> QED
    BY <1>2, <1>3, <1>4, <1>5, <1>6

LEMMA NoneMoves ==
    ASSUME \A t \in Servers : Standing(t)' = Standing(t)
    PROVE  [Promise!Next]_[t \in Servers |-> Standing(t)]
<1>1. [t \in Servers |-> Standing(t)]' = [t \in Servers |-> Standing(t)]
    OBVIOUS
<1> QED
    BY <1>1

\* An invoice falls due; its server is suspended.
LEMMA LapseMoves ==
    ASSUME Calm, TypeInv, CalmInv, NEW x \in worker.todo, MarkOverdue(x)
    PROVE  [Promise!Next]_[t \in Servers |-> Standing(t)]
<1>1. PICK s \in Servers : s = x[2]
    BY CalmMark
<1>2. /\ Exists(s) /\ ~Late(s) /\ ~server[s].suspended /\ Late(s)'
      /\ \A t \in Servers \ {s} : Late(t)' = Late(t)
    BY <1>1, CalmMark
<1>3. server' = server /\ worker.job = "suspend"
    BY DEF MarkOverdue
<1>4. server[s].state \notin {"deleting", "gone"}
    BY <1>2, <1>3 DEF CalmInv, AtWork, Exists
<1>5. Standing(s) = "paid up" /\ Standing(s)' = "overdue"
    BY <1>2, <1>3, <1>4 DEF Standing, Late
<1>6. \A t \in Servers \ {s} : Standing(t)' = Standing(t)
    BY <1>2, <1>3, StandingStays
<1> QED
    BY <1>5, <1>6, OneMoves

LEMMA SuspendMoves ==
    ASSUME Calm, TypeInv, CalmInv, SuspendWrite
    PROVE  [Promise!Next]_[t \in Servers |-> Standing(t)]
<1>1. PICK s \in Servers : s = worker.at
    BY DEF SuspendWrite, TypeInv, WorkerTyped
<1>2. Exists(s) /\ Late(s) /\ ~server[s].suspended /\ server[s].state \notin {"deleting", "gone"}
    BY <1>1 DEF SuspendWrite, CalmInv, AtWork, Suspending, Exists
<1>3. /\ server'[s].state = "up" /\ server'[s].suspended = TRUE
      /\ \A t \in Servers \ {s} : server'[t] = server[t]
    BY <1>1, <1>2 DEF SuspendWrite, TypeInv, RowsTyped, ServerRecord
<1>4. \A t : Late(t)' <=> Late(t)
    BY DEF SuspendWrite, Late, Of, Written
<1>5. Standing(s) = "overdue" /\ Standing(s)' = "suspended"
    BY <1>2, <1>3, <1>4 DEF Standing, Late
<1>6. \A t \in Servers \ {s} : Standing(t)' = Standing(t)
    BY <1>3, <1>4, StandingStays
<1> QED
    BY <1>5, <1>6, OneMoves

LEMMA ReclaimMoves ==
    ASSUME Calm, TypeInv, CalmInv, NEW x \in worker.todo, Reclaim(x)
    PROVE  [Promise!Next]_[t \in Servers |-> Standing(t)]
<1>1. PICK s \in Servers : s = x[2]
    BY CalmReclaim
<1>2. \A t : Late(t)' <=> Late(t)
    BY DEF Reclaim, Late, Of, Written
<1>3. CASE Exists(s)
    <2>1. Late(s) /\ server[s].suspended /\ server[s].state \notin {"deleting", "gone"}
        BY <1>1, <1>3, CalmReclaim DEF Exists
    <2>2. server'[s].state = "deleting" /\ \A t \in Servers \ {s} : server'[t] = server[t]
        BY <1>1, <1>3 DEF Reclaim, TypeInv, RowsTyped, ServerRecord
    <2>3. Standing(s) = "suspended" /\ Standing(s)' = "gone"
        BY <2>1, <2>2 DEF Standing, Late
    <2>4. \A t \in Servers \ {s} : Standing(t)' = Standing(t)
        BY <1>2, <2>2, StandingStays
    <2> QED
        BY <2>3, <2>4, OneMoves
<1>4. CASE ~Exists(s)
    <2>1. server' = server
        BY <1>1, <1>4 DEF Reclaim
    <2>2. \A t \in Servers : Standing(t)' = Standing(t)
        BY <1>2, <2>1, StandingStays
    <2> QED
        BY <2>2, NoneMoves
<1> QED
    BY <1>3, <1>4

\* A payment settles what its server owes.
LEMMA PayMoves ==
    ASSUME Calm, TypeInv, CalmInv, NEW p \in Payments, PayWrite(p)
    PROVE  [Promise!Next]_[t \in Servers |-> Standing(t)]
<1>1. PICK s \in Servers : /\ s = PayServer(p) /\ \A j \in Of(s)' : ~Unpaid(j)'
                           /\ \A t \in Servers \ {s} : Late(t)' = Late(t)
    BY CalmPayWrite
<1>2. server' = server
    BY DEF PayWrite
<1>4. \A j \in Of(s)' : invoice'[j].status # "OVERDUE"
    BY <1>1 DEF Unpaid
<1>5. \A t \in Servers \ {s} : Standing(t)' = Standing(t)
    BY <1>1, <1>2, StandingStays
<1>6. CASE server[s].state \in {"deleting", "gone"}
    <2>1. Standing(s)' = Standing(s)
        BY <1>2, <1>6 DEF Standing
    <2> QED
        BY <1>5, <2>1, OneMoves
<1>7. CASE server[s].state \notin {"deleting", "gone"}
    <2>1. Standing(s)' = "paid up"
        BY <1>2, <1>4, <1>7 DEF Standing
    <2>2. Standing(s) \in {"paid up", "overdue", "suspended"}
        BY <1>7 DEF Standing
    <2> QED
        BY <1>5, <2>1, <2>2, OneMoves
<1> QED
    BY <1>6, <1>7

\* Nothing else moves a server.
LEMMA RestStands ==
    ASSUME Calm, TypeInv, TileInv, CalmInv, [Next]_vars,
           ~SuspendWrite, \A x \in worker.todo : ~MarkOverdue(x) /\ ~Reclaim(x),
           \A p \in Payments : ~PayWrite(p)
    PROVE  \A t \in Servers : Standing(t)' = Standing(t)
<1>1. ASSUME UNCHANGED <<issued, invoice, server>>
      PROVE  \A t \in Servers : Standing(t)' = Standing(t)
    BY <1>1 DEF Standing, Of, Written
<1>2. ASSUME NEW s \in Servers, FirstInvoice(s) \/ FirstInvoiceFails(s)
      PROVE  \A t \in Servers : Standing(t)' = Standing(t)
    <2>1. \A t \in Servers : Late(t)' = Late(t)
        BY <1>2, CalmFirst
    <2>2. \A t \in Servers : /\ server'[t].suspended = server[t].suspended
                             /\ server'[t].state \in {"deleting", "gone"} <=>
                                    server[t].state \in {"deleting", "gone"}
        BY <1>2 DEF FirstInvoice, FirstInvoiceFails, TypeInv, RowsTyped, ServerRecord
    <2> QED
        BY <2>1, <2>2, StandingStays
<1>3. ASSUME NEW s \in Servers, PowerMark(s)
      PROVE  \A t \in Servers : Standing(t)' = Standing(t)
    <2>1. server[s].state # "deleting"
        BY <1>3 DEF PowerMark, CalmInv, Exclusive, AtWork
    <2>2. UNCHANGED <<issued, invoice, server>>
        BY <1>3, <2>1 DEF PowerMark, TypeInv, RowsTyped, ServerRecord
    <2> QED
        BY <1>1, <2>2
<1>4. ASSUME NEW x \in worker.todo, Renew(x)
      PROVE  \A t \in Servers : Standing(t)' = Standing(t)
    <2>1. server' = server /\ \A t \in Servers : Late(t)' = Late(t)
        BY <1>4, CalmRenew DEF Renew
    <2> QED
        BY <2>1, StandingStays
<1>5. ASSUME ReclaimCommit
      PROVE  \A t \in Servers : Standing(t)' = Standing(t)
    <2>1. PICK s \in Servers : s = worker.at
        BY <1>5 DEF ReclaimCommit, TypeInv, WorkerTyped
    <2>2. server'[s].state = "gone" /\ \A t \in Servers \ {s} : server'[t] = server[t]
        BY <1>5, <2>1 DEF ReclaimCommit, TypeInv, RowsTyped
    <2>3. UNCHANGED <<issued, invoice>>
        BY <1>5 DEF ReclaimCommit
    <2>4. \A t : Late(t)' <=> Late(t)
        BY <2>3 DEF Late, Of, Written
    <2>5. \A t \in Servers \ {s} : Standing(t)' = Standing(t)
        BY <2>2, <2>4, StandingStays
    <2>6. server[s].state = "deleting"
        BY <1>5, <2>1 DEF ReclaimCommit, CalmInv, AtWork
    <2> QED
        BY <2>2, <2>5, <2>6 DEF Standing
<1>6. ASSUME NEW p \in Payments, PayRevive(p)
      PROVE  \A t \in Servers : Standing(t)' = Standing(t)
    <2>1. PICK s \in Servers : s = PayServer(p)
        BY <1>6, PayFacts DEF PayRevive, PayBusy
    <2>2. /\ worker.job = "idle" /\ Exists(s)
          /\ \A i \in Of(s) : invoice[i].status # "OVERDUE"
        BY <1>6, <2>1 DEF PayRevive, CalmInv, Exclusive, AtWork, Crediting, PayBusy, Unpaid
    <2>3. server[s].state \notin {"deleting", "gone"}
        BY <2>2 DEF CalmInv, AtWork, Exists
    <2>4. server'[s].state = "up" /\ \A t \in Servers \ {s} : server'[t] = server[t]
        BY <1>6, <2>1 DEF PayRevive, TypeInv, RowsTyped
    <2>5. UNCHANGED <<issued, invoice>>
        BY <1>6 DEF PayRevive
    <2>6. \A t : Late(t)' <=> Late(t)
        BY <2>5 DEF Late, Of, Written
    <2>7. \A t \in Servers \ {s} : Standing(t)' = Standing(t)
        BY <2>4, <2>6, StandingStays
    <2>8. Standing(s)' = "paid up" /\ Standing(s) = "paid up"
        BY <2>2, <2>3, <2>4, <2>5 DEF Standing, Of, Written
    <2> QED
        BY <2>7, <2>8
<1> QED
    BY <1>1, <1>2, <1>3, <1>4, <1>5, <1>6
    DEF Next, vars, CycleStep, PayStep, CycleBegin, RenewFails, RenewDone, SuspendDone, NextJob,
        SuspendRead, SuspendFails, SuspendStop, CycleEnd, CycleCrash, Charge, PayLook, PayRead,
        PayFails, PowerRead, PowerCall, Reconnect, Disconnect, Tick

LEMMA PromiseStep ==
    ASSUME Calm, TypeInv, TileInv, CalmInv, [Next]_vars
    PROVE  [Promise!Next]_[t \in Servers |-> Standing(t)]
<1>1. CASE SuspendWrite \/ (\E x \in worker.todo : MarkOverdue(x) \/ Reclaim(x))
           \/ \E p \in Payments : PayWrite(p)
    BY <1>1, SuspendMoves, LapseMoves, ReclaimMoves, PayMoves
<1>2. CASE ~(SuspendWrite \/ (\E x \in worker.todo : MarkOverdue(x) \/ Reclaim(x))
             \/ \E p \in Payments : PayWrite(p))
    BY <1>2, RestStands, NoneMoves
<1> QED
    BY <1>1, <1>2

-----------------------------------------------------------------------------
(* The theorems.                                                            *)

LEMMA StartsWell == Init => TypeInv /\ Latest /\ EarlyInv /\ TileInv
<1> SUFFICES ASSUME Init PROVE TypeInv /\ Latest /\ EarlyInv /\ TileInv
    OBVIOUS
<1>1. issued = 0 /\ worker = Resting /\ \A s \in Servers : server[s].state = "building"
    BY DEF Init
<1>2. \A s \in Servers : Of(s) = {}
    BY <1>1 DEF Of, Written
<1>3. Latest /\ PeriodsTile /\ NoEarlyReclaim
    BY <1>1, <1>2 DEF Latest, PeriodsTile, NoEarlyReclaim
<1> QED
    BY <1>1, <1>2, <1>3, TypeInit DEF EarlyInv, TileInv, Resting

LEMMA TypeLatest == Spec => [](TypeInv /\ Latest)
<1>1. Init => TypeInv /\ Latest
    BY StartsWell
<1>2. TypeInv /\ Latest /\ [Next]_vars => (TypeInv /\ Latest)'
    <2> SUFFICES ASSUME TypeInv, Latest, [Next]_vars PROVE TypeInv' /\ Latest'
        OBVIOUS
    <2>1. BooksTyped
        BY DEF TypeInv
    <2> QED
        BY <2>1, TypeStep, BooksStep, LatestStep
<1> QED
    BY <1>1, <1>2, PTL DEF Spec

\* Invoices, rows, the cycle, payments and containers are typed (Billing!TypeOK),
\* whatever overlaps, fails or is late.
THEOREM TypeCorrect == Spec => []TypeOK
BY TypeLatest, TypeInvImplies, PTL

\* "Capacity is only released when ... the retention window expires"
\* (billing.ts:10-11), whatever overlaps, fails or is late.
THEOREM NothingReclaimedEarly == Spec => []NoEarlyReclaim
<1>1. Init => EarlyInv
    BY StartsWell
<1>2. TypeInv /\ Latest /\ EarlyInv /\ [Next]_vars => EarlyInv'
    BY EarlyStep
<1>3. EarlyInv => NoEarlyReclaim
    BY DEF EarlyInv
<1> QED
    BY <1>1, <1>2, <1>3, TypeLatest, PTL DEF Spec

\* "New period starts where the last one ended" (billing.ts:150-153): no gap and
\* no overlap in what a server is billed for, whatever overlaps, fails or is
\* late, as long as no cycle meets a server whose purchase goes on.
THEOREM PeriodsCorrect == ASSUME "unbuilt" \notin Admits PROVE Spec => []PeriodsTile
<1>1. Init => TileInv
    BY StartsWell
<1>2. TypeInv /\ Latest /\ TileInv /\ [Next]_vars => TileInv'
    BY TileStep
<1>3. TileInv => PeriodsTile
    BY DEF TileInv
<1> QED
    BY <1>1, <1>2, <1>3, TypeLatest, PTL DEF Spec

LEMMA CalmCorrect == ASSUME Calm PROVE Spec => [](TypeInv /\ Latest /\ TileInv /\ CalmInv)
<1>1. Init => TileInv /\ CalmInv
    BY StartsWell, CalmStarts
<1>2. TypeInv /\ Latest /\ TileInv /\ CalmInv /\ [Next]_vars => TileInv' /\ CalmInv'
    BY TileStep, CalmStep DEF Calm
<1> QED
    BY <1>1, <1>2, TypeLatest, PTL DEF Spec

\* No server runs on past an OVERDUE invoice and none stays down without one, when
\* billing operations follow one another, a cycle runs every day, and an invoice
\* that is not paid is OVERDUE before the next one is written.
THEOREM SuspensionCorrect ==
    ASSUME Admits = {}, Grace + 1 < Period PROVE Spec => []SuspendedIffOverdue
<1>1. CalmInv => SuspendedIffOverdue
    BY CalmAgrees
<1> QED
    BY <1>1, CalmCorrect, PTL DEF Calm

\* Under the same conditions the lifecycle implements its promise (Tenancy): from
\* paid up to overdue to suspended to deleted, one step at a time (billing.ts:5-12).
THEOREM PromiseKept ==
    ASSUME Admits = {}, Grace + 1 < Period PROVE Spec => KeepsPromise
<1>1. Init => Promise!Init
    <2> SUFFICES ASSUME Init PROVE [s \in Servers |-> Standing(s)] = [s \in Servers |-> "paid up"]
        BY DEF Promise!Init
    <2>1. \A s \in Servers : Of(s) = {} /\ server[s].state = "building"
        BY DEF Init, Of, Written
    <2>2. \A s \in Servers : Standing(s) = "paid up"
        BY <2>1 DEF Standing
    <2> QED
        BY <2>2
<1>2. TypeInv /\ TileInv /\ CalmInv /\ [Next]_vars
          => [Promise!Next]_[s \in Servers |-> Standing(s)]
    BY PromiseStep DEF Calm
<1> QED
    BY <1>1, <1>2, CalmCorrect, PTL DEF Calm, Spec, KeepsPromise, Promise!Spec

=============================================================================
