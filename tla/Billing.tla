------------------------------- MODULE Billing -------------------------------
(***************************************************************************)
(* The billing lifecycle (lib/billing.ts): the worker's hourly cycle that  *)
(* renews, suspends and reclaims, the payment webhook that marks invoices  *)
(* paid and reactivates, and the power route, which refuses to start a     *)
(* suspended server.                                                       *)
(*                                                                         *)
(* One action is one database statement or one agent call; the lists that  *)
(* the cycle walks are read once, at the start of each of its three jobs.  *)
(* Time is counted in days, a month is Period days, and amounts are left   *)
(* out: no decision of the code depends on them.                           *)
(***************************************************************************)
EXTENDS Integers, FiniteSets, FiniteSetsExt

CONSTANTS
    Servers,      \* rows of table Server
    Payments,     \* payment references of the processor
    MaxInvoices,  \* a bound on the invoices written
    LastDay,      \* a bound on the clock
    Grace, Retention, Period,   \* GRACE_DAYS, RETENTION_DAYS, one month
    Admits,       \* the interactions of the code this instance explores
    NoServer, NoPayment

(***************************************************************************)
(* The interactions the code permits and that an instance may switch on:   *)
(*   overlap      cycle, webhooks and power requests run at the same time  *)
(*   failure      a statement throws, or the process dies, between steps   *)
(*   late worker  no cycle runs for a day or more                          *)
(*   unbuilt      a cycle sees a server whose purchase is still running    *)
(*   paid twice   a customer pays one invoice with two references          *)
(***************************************************************************)
Interactions == {"overlap", "failure", "late worker", "unbuilt", "paid twice"}

ASSUME SetsAssumption ==
    /\ IsFiniteSet(Servers) /\ NoServer \notin Servers
    /\ NoPayment \notin Payments
    /\ Admits \subseteq Interactions

ASSUME DaysAssumption ==
    /\ MaxInvoices \in Nat /\ LastDay \in Nat
    /\ Grace \in Nat /\ Retention \in Nat /\ Period \in Nat \ {0}

VARIABLES
    day,      \* new Date()
    cycled,   \* a cycle has ended today
    issued,   \* how many invoices exist
    invoice,  \* rows of table Invoice, numbered as they are written
    server,   \* the Server rows: state and the suspended flag
    running,  \* the container of a server is running on its node
    online,   \* their node's agent is connected
    worker,   \* runBillingCycle: the job it is at and the list it walks
    pay,      \* markInvoicePaid, by payment reference
    power     \* the power route's request to start a server

vars == <<day, cycled, issued, invoice, server, running, online, worker, pay, power>>

-----------------------------------------------------------------------------
(* Invoices.  A server's row is deleted for good and sets Invoice.serverId  *)
(* to null (onDelete: SetNull), so an invoice is linked while the row is.   *)

Ids == 1..MaxInvoices
Written == 1..issued
Exists(s) == server[s].state # "gone"

Start(i)  == invoice[i].start
End(i)    == invoice[i].start + Period
Due(i)    == invoice[i].start + Grace
Linked(i) == Exists(invoice[i].server)
Of(s)     == {i \in Written : invoice[i].server = s}

NoInvoice == [server |-> NoServer, start |-> 0, status |-> "none", ref |-> NoPayment]

\* Mutant of LastEnd: the last period's start is taken for its end.
LastEndStart(s) == IF Of(s) = {} THEN -1 ELSE Max({Start(i) : i \in Of(s)})

NoEnd == -1
LastEnd(s) == IF Of(s) = {} THEN NoEnd ELSE Max({End(i) : i \in Of(s)})

\* createInvoiceForServer.
Issued(s, start) ==
    /\ issued < MaxInvoices
    /\ issued' = issued + 1
    /\ invoice' = [invoice EXCEPT ![issued + 1] =
            [server |-> s, start |-> start, status |-> "OPEN", ref |-> NoPayment]]

\* Mutant of Renewable: a server without any invoice is passed over.
RenewableBilled(now) ==
    {s \in Servers :
        /\ server[s].state \in {"building", "up"} /\ ~server[s].suspended
        /\ Of(s) # {} /\ \A i \in Of(s) : End(i) <= now}

\* Mutants of Abandoned: no filter on the status; no retention window.
AbandonedPaid(now) == {i \in Written : Due(i) < now - Retention /\ Linked(i)}
AbandonedAtOnce(now) ==
    {i \in Written : invoice[i].status = "OVERDUE" /\ Due(i) < now /\ Linked(i)}

\* The three queries of the cycle.
Renewable(now) ==
    {s \in Servers :
        /\ server[s].state \in {"building", "up"} /\ ~server[s].suspended
        /\ \A i \in Of(s) : End(i) <= now}
Overdue(now) == {i \in Written : invoice[i].status = "OPEN" /\ Due(i) < now /\ Linked(i)}
Abandoned(now) ==
    {i \in Written : invoice[i].status = "OVERDUE" /\ Due(i) < now - Retention /\ Linked(i)}

-----------------------------------------------------------------------------
(* Who is running.                                                          *)

PayBusy == {"paying", "reading", "reviving"}

Alone ==
    /\ worker.job = "idle"
    /\ \A p \in Payments : pay[p].pc \notin PayBusy
    /\ \A s \in Servers : power[s] = "none"
MayStart == "overlap" \in Admits \/ Alone

Resting == [job |-> "idle", now |-> 0, todo |-> {}, at |-> NoServer]

-----------------------------------------------------------------------------
Init ==
    /\ day = 0 /\ cycled = FALSE
    /\ issued = 0 /\ invoice = [i \in Ids |-> NoInvoice]
    /\ server = [s \in Servers |-> [state |-> "building", suspended |-> FALSE]]
    /\ running = [s \in Servers |-> FALSE] /\ online = TRUE
    /\ worker = Resting
    /\ pay = [p \in Payments |-> [pc |-> "none", invoice |-> 0]]
    /\ power = [s \in Servers |-> "none"]

-----------------------------------------------------------------------------
(* The end of a purchase (provisioning.ts): the container is built and the  *)
(* first invoice written, unless writing it fails, which is only logged.    *)

FirstInvoice(s) ==
    /\ server[s].state = "building" /\ MayStart
    /\ server' = [server EXCEPT ![s].state = "up"]
    /\ Issued(s, day)
    /\ UNCHANGED <<day, cycled, running, online, worker, pay, power>>

FirstInvoiceFails(s) ==
    /\ server[s].state = "building" /\ MayStart
    /\ server' = [server EXCEPT ![s].state = "up"]
    /\ UNCHANGED <<day, cycled, issued, invoice, running, online, worker, pay, power>>

-----------------------------------------------------------------------------
(* The billing cycle.                                                       *)

CycleBegin ==
    /\ worker.job = "idle" /\ MayStart
    /\ "unbuilt" \in Admits \/ \A s \in Servers : server[s].state # "building"
    /\ worker' = [job |-> "renew", now |-> day, at |-> NoServer,
                  todo |-> {<<s, LastEnd(s)>> : s \in Renewable(day)}]
    /\ UNCHANGED <<day, cycled, issued, invoice, server, running, online, pay, power>>

\* Mutant of Renew: the new period starts when the cycle runs.
RenewNow(x) ==
    /\ worker.job = "renew" /\ x \in worker.todo
    /\ Exists(x[1])
    /\ Issued(x[1], worker.now)
    /\ worker' = [worker EXCEPT !.todo = @ \ {x}]
    /\ UNCHANGED <<day, cycled, server, running, online, pay, power>>

\* The new period starts where the last one ended.
Renew(x) ==
    /\ worker.job = "renew" /\ x \in worker.todo
    /\ Exists(x[1])
    /\ Issued(x[1], IF x[2] = NoEnd THEN worker.now ELSE x[2])
    /\ worker' = [worker EXCEPT !.todo = @ \ {x}]
    /\ UNCHANGED <<day, cycled, server, running, online, pay, power>>

\* The insert throws (a number taken meanwhile, the server gone): logged.
RenewFails(x) ==
    /\ worker.job = "renew" /\ x \in worker.todo
    /\ worker' = [worker EXCEPT !.todo = @ \ {x}]
    /\ UNCHANGED <<day, cycled, issued, invoice, server, running, online, pay, power>>

NextJob(job, next, list) ==
    /\ worker.job = job /\ worker.todo = {}
    /\ worker' = [worker EXCEPT !.job = next, !.todo = list]
    /\ UNCHANGED <<day, cycled, issued, invoice, server, running, online, pay, power>>

RenewDone == NextJob("renew", "suspend",
                     {<<i, invoice[i].server>> : i \in Overdue(worker.now)})
SuspendDone == NextJob("suspend", "reclaim",
                       {<<i, invoice[i].server>> : i \in Abandoned(worker.now)})

\* Mutant of MarkOverdue: the invoice's id is passed on as the server's.
MarkOverdueId(x) ==
    /\ worker.job = "suspend" /\ x \in worker.todo
    /\ invoice' = [invoice EXCEPT ![x[1]].status = "OVERDUE"]
    /\ worker' = [worker EXCEPT !.job = "suspending", !.at = x[1], !.todo = @ \ {x}]
    /\ UNCHANGED <<day, cycled, issued, server, running, online, pay, power>>

\* The update is keyed by id alone: whatever the invoice has become since the
\* list was read, it is OVERDUE now.
MarkOverdue(x) ==
    /\ worker.job = "suspend" /\ x \in worker.todo
    /\ invoice' = [invoice EXCEPT ![x[1]].status = "OVERDUE"]
    /\ worker' = [worker EXCEPT !.job = "suspending", !.at = x[2], !.todo = @ \ {x}]
    /\ UNCHANGED <<day, cycled, issued, server, running, online, pay, power>>

\* suspendServer reads the row: gone (throws) or already suspended (returns).
SuspendRead ==
    /\ worker.job = "suspending"
    /\ worker' = [worker EXCEPT !.job =
            IF Exists(worker.at) /\ ~server[worker.at].suspended THEN "stopping" ELSE "suspend"]
    /\ UNCHANGED <<day, cycled, issued, invoice, server, running, online, pay, power>>

\* The agent stops the container, or an AgentError is ignored.
Stopped(s) ==
    \/ online /\ running' = [running EXCEPT ![s] = FALSE]
    \/ UNCHANGED running

SuspendStop ==
    /\ worker.job = "stopping"
    /\ Stopped(worker.at)
    /\ worker' = [worker EXCEPT !.job = "flagging"]
    /\ UNCHANGED <<day, cycled, issued, invoice, server, online, pay, power>>

\* The row may have gone meanwhile, and then the update throws.
SuspendWrite ==
    /\ worker.job = "flagging"
    /\ server' = IF Exists(worker.at)
                 THEN [server EXCEPT ![worker.at].suspended = TRUE, ![worker.at].state = "up"]
                 ELSE server
    /\ worker' = [worker EXCEPT !.job = "suspend"]
    /\ UNCHANGED <<day, cycled, issued, invoice, running, online, pay, power>>

\* A throw inside suspendServer that is not an AgentError: logged.
SuspendFails ==
    /\ "failure" \in Admits
    /\ worker.job \in {"suspending", "stopping", "flagging"}
    /\ worker' = [worker EXCEPT !.job = "suspend"]
    /\ UNCHANGED <<day, cycled, issued, invoice, server, running, online, pay, power>>

\* deleteServer: the row is marked, or is gone and the call throws (logged).
Reclaim(x) ==
    /\ worker.job = "reclaim" /\ x \in worker.todo
    /\ IF Exists(x[2])
       THEN /\ server' = [server EXCEPT ![x[2]].state = "deleting"]
            /\ worker' = [worker EXCEPT !.job = "deleting", !.at = x[2], !.todo = @ \ {x}]
       ELSE /\ worker' = [worker EXCEPT !.todo = @ \ {x}]
            /\ UNCHANGED server
    /\ UNCHANGED <<day, cycled, issued, invoice, running, online, pay, power>>

\* ... and, whatever the agent answered, deleted.
ReclaimCommit ==
    /\ worker.job = "deleting"
    /\ server' = [server EXCEPT ![worker.at] = [state |-> "gone", suspended |-> FALSE]]
    /\ Stopped(worker.at)
    /\ worker' = [worker EXCEPT !.job = "reclaim"]
    /\ UNCHANGED <<day, cycled, issued, invoice, online, pay, power>>

CycleEnd ==
    /\ worker.job = "reclaim" /\ worker.todo = {}
    /\ worker' = Resting
    /\ cycled' = TRUE
    /\ UNCHANGED <<day, issued, invoice, server, running, online, pay, power>>

\* The worker dies, or a statement outside the caught calls throws.
CycleCrash ==
    /\ "failure" \in Admits
    /\ worker.job # "idle"
    /\ worker' = Resting
    /\ UNCHANGED <<day, cycled, issued, invoice, server, running, online, pay, power>>

CycleStep ==
    \/ \E x \in worker.todo : Renew(x) \/ RenewFails(x) \/ MarkOverdue(x) \/ Reclaim(x)
    \/ RenewDone \/ SuspendDone \/ SuspendRead \/ SuspendStop \/ SuspendWrite
    \/ ReclaimCommit \/ CycleEnd

-----------------------------------------------------------------------------
(* Payments: the webhook and markInvoicePaid.                               *)

\* A customer pays an invoice; the processor posts the event until it is
\* answered with a 200.
Charge(p, i) ==
    /\ pay[p].pc = "none" /\ i \in Written
    /\ invoice[i].status \in {"OPEN", "OVERDUE"}
    /\ "paid twice" \in Admits \/ \A q \in Payments : pay[q].invoice # i
    /\ pay' = [pay EXCEPT ![p] = [pc |-> "sent", invoice |-> i]]
    /\ UNCHANGED <<day, cycled, issued, invoice, server, running, online, worker, power>>

\* An invoice that carries this reference ends the call.
PayLook(p) ==
    /\ pay[p].pc = "sent" /\ MayStart
    /\ pay' = [pay EXCEPT ![p].pc =
            IF \E i \in Written : invoice[i].ref = p THEN "done" ELSE "paying"]
    /\ UNCHANGED <<day, cycled, issued, invoice, server, running, online, worker, power>>

PayWrite(p) ==
    /\ pay[p].pc = "paying"
    /\ invoice' = [invoice EXCEPT ![pay[p].invoice].status = "PAID",
                                  ![pay[p].invoice].ref = p]
    /\ pay' = [pay EXCEPT ![p].pc = IF Linked(pay[p].invoice) THEN "reading" ELSE "done"]
    /\ UNCHANGED <<day, cycled, issued, server, running, online, worker, power>>

PayServer(p) == invoice[pay[p].invoice].server

\* Mutant of PayRead: a payment does not reactivate.
PayReadOnly(p) ==
    /\ pay[p].pc = "reading"
    /\ pay' = [pay EXCEPT ![p].pc = "done"]
    /\ UNCHANGED <<day, cycled, issued, invoice, server, running, online, worker, power>>

PayRead(p) ==
    /\ pay[p].pc = "reading"
    /\ pay' = [pay EXCEPT ![p].pc =
            IF server[PayServer(p)].suspended THEN "reviving" ELSE "done"]
    /\ UNCHANGED <<day, cycled, issued, invoice, server, running, online, worker, power>>

\* reactivateServer sets status OFFLINE, whatever it was.
PayRevive(p) ==
    /\ pay[p].pc = "reviving" /\ Exists(PayServer(p))
    /\ server' = [server EXCEPT ![PayServer(p)] = [state |-> "up", suspended |-> FALSE]]
    /\ pay' = [pay EXCEPT ![p].pc = "done"]
    /\ UNCHANGED <<day, cycled, issued, invoice, running, online, worker, power>>

\* Mutant of PayFails: the processor is told that all went well.
PayFailsQuietly(p) ==
    /\ pay[p].pc \in PayBusy
    /\ "failure" \in Admits \/ (pay[p].pc = "reviving" /\ ~Exists(PayServer(p)))
    /\ pay' = [pay EXCEPT ![p].pc = "done"]
    /\ UNCHANGED <<day, cycled, issued, invoice, server, running, online, worker, power>>

\* A statement throws (it must, when the row to reactivate is gone) or the
\* panel dies: the processor gets no 200 and posts the event again.
PayFails(p) ==
    /\ pay[p].pc \in PayBusy
    /\ \/ "failure" \in Admits
       \/ pay[p].pc = "reviving" /\ ~Exists(PayServer(p))
    /\ pay' = [pay EXCEPT ![p].pc = "sent"]
    /\ UNCHANGED <<day, cycled, issued, invoice, server, running, online, worker, power>>

PayStep(p) == PayLook(p) \/ PayWrite(p) \/ PayRead(p) \/ PayRevive(p)

-----------------------------------------------------------------------------
(* Containers: power requests, the agent's reconciliation, the clock.       *)

\* The route reads the flag ...
PowerRead(s) ==
    /\ Exists(s) /\ power[s] = "none" /\ MayStart
    /\ ~server[s].suspended
    /\ power' = [power EXCEPT ![s] = "read"]
    /\ UNCHANGED <<day, cycled, issued, invoice, server, running, online, worker, pay>>

\* ... sets the status STARTING, whatever it was, unless the row is gone ...
PowerMark(s) ==
    /\ power[s] = "read"
    /\ power' = [power EXCEPT ![s] = IF Exists(s) THEN "marked" ELSE "none"]
    /\ server' = [server EXCEPT ![s].state = IF @ = "deleting" THEN "up" ELSE @]
    /\ UNCHANGED <<day, cycled, issued, invoice, running, online, worker, pay>>

\* ... and has the agent start the container, which may fail.
PowerCall(s) ==
    /\ power[s] = "marked"
    /\ power' = [power EXCEPT ![s] = "none"]
    /\ \/ Exists(s) /\ online /\ running' = [running EXCEPT ![s] = TRUE]
       \/ UNCHANGED running
    /\ UNCHANGED <<day, cycled, issued, invoice, server, online, worker, pay>>

\* The agent reconnects: it keeps the servers the panel lists (all that are
\* not DELETING), suspended or not, and removes every other container.
Reconnect ==
    /\ ~online /\ online' = TRUE
    /\ running' = [s \in Servers |-> running[s] /\ server[s].state \in {"building", "up"}]
    /\ UNCHANGED <<day, cycled, issued, invoice, server, worker, pay, power>>

Disconnect ==
    /\ online /\ online' = FALSE
    /\ UNCHANGED <<day, cycled, issued, invoice, server, running, worker, pay, power>>

Tick ==
    /\ day < LastDay
    /\ cycled \/ "late worker" \in Admits
    /\ MayStart
    /\ day' = day + 1 /\ cycled' = FALSE
    /\ UNCHANGED <<issued, invoice, server, running, online, worker, pay, power>>

-----------------------------------------------------------------------------
Next ==
    \/ \E s \in Servers :
        FirstInvoice(s) \/ FirstInvoiceFails(s) \/ PowerRead(s) \/ PowerMark(s) \/ PowerCall(s)
    \/ CycleBegin \/ CycleStep \/ SuspendFails \/ CycleCrash
    \/ \E p \in Payments :
        PayStep(p) \/ PayFails(p) \/ \E i \in Ids : Charge(p, i)
    \/ Reconnect \/ Disconnect \/ Tick

Spec == Init /\ [][Next]_vars

\* setInterval starts the cycle again and again, a step of it ends by an
\* answer or a timeout, and inserts and payments fail only now and then.
Fairness ==
    /\ \A s \in Servers : WF_vars(FirstInvoice(s) \/ FirstInvoiceFails(s))
    /\ WF_vars(CycleBegin) /\ WF_vars(CycleStep)
    /\ SF_vars(\E x \in worker.todo : Renew(x))
    /\ \A s \in Servers : WF_vars(PowerMark(s) \/ PowerCall(s))
    /\ \A p \in Payments : WF_vars(PayStep(p)) /\ SF_vars(PayWrite(p))

FairSpec == Spec /\ Fairness

-----------------------------------------------------------------------------
(* Properties.                                                              *)

ServerRecord == [state : {"building", "up", "deleting", "gone"}, suspended : BOOLEAN]
InvoiceRecord ==
    [server : Servers \cup {NoServer}, start : 0..LastDay + Period,
     status : {"none", "OPEN", "PAID", "OVERDUE"}, ref : Payments \cup {NoPayment}]
WorkerJob ==
    {"idle", "renew", "suspend", "suspending", "stopping", "flagging", "reclaim", "deleting"}

TypeOK ==
    /\ day \in 0..LastDay /\ cycled \in BOOLEAN
    /\ issued \in 0..MaxInvoices /\ invoice \in [Ids -> InvoiceRecord]
    /\ server \in [Servers -> ServerRecord]
    /\ running \in [Servers -> BOOLEAN] /\ online \in BOOLEAN
    /\ worker.job \in WorkerJob /\ worker.at \in Servers \cup {NoServer}
    /\ pay \in [Payments -> [pc : {"none", "sent", "done"} \cup PayBusy,
                              invoice : Ids \cup {0}]]
    /\ power \in [Servers -> {"none", "read", "marked"}]

\* "New period starts where the last one ended, so a late worker run does not
\* hand the customer free days" (billing.ts:150-153), nor bill a day twice:
\* the invoices of a server tile its time.
PeriodsTile ==
    \A s \in Servers : \A i, j \in Of(s) :
        /\ i # j => End(i) <= Start(j) \/ End(j) <= Start(i)
        /\ Start(i) < Start(j) => \E k \in Of(s) : End(k) = Start(j)

\* Between two cycles an unpaid invoice and a suspended server go together:
\* no server runs on past an OVERDUE invoice, and none stays down without one.
SuspendedIffOverdue ==
    Alone => \A s \in Servers : Exists(s) =>
        (server[s].suspended <=> \E i \in Of(s) : invoice[i].status = "OVERDUE")

\* The lifecycle refines the promise: paid up, overdue, suspended, deleted.
Standing(s) ==
    IF server[s].state \in {"deleting", "gone"} THEN "gone"
    ELSE IF \A i \in Of(s) : invoice[i].status # "OVERDUE" THEN "paid up"
    ELSE IF server[s].suspended THEN "suspended" ELSE "overdue"

Promise == INSTANCE Tenancy WITH standing <- [s \in Servers |-> Standing(s)]
KeepsPromise == Promise!Spec

\* "Capacity is only released when ... the retention window expires"
\* (billing.ts:10-11): however the cycle is interrupted, and whatever is paid
\* meanwhile, nothing is deleted before an invoice of its own is that old.
NoEarlyReclaim ==
    \A s \in Servers : server[s].state \in {"deleting", "gone"} =>
        \E i \in Of(s) : Due(i) + Retention < day

\* "This also catches servers that predate invoicing, so nothing runs free"
\* (billing.ts:140): a server that lost its first invoice, or a renewal to a
\* failed insert or a dead worker, is billed in the end.
Covered(s) == \E i \in Of(s) : Start(i) <= day /\ day < End(i)
NothingRunsFree ==
    \A s \in Servers :
        []<>(server[s].state \in {"deleting", "gone"} \/ server[s].suspended \/ Covered(s))

\* A payment is credited in the end, to its own invoice, however often the
\* processor has to repeat it (webhook/route.ts:7-10).
PaymentCredited ==
    \A p \in Payments : pay[p].pc = "sent" ~> \E i \in Written : invoice[i].ref = p

-----------------------------------------------------------------------------
(* What comments of the code say and the code does not do.                  *)

AllPaid(s) == \A i \in Of(s) : Due(i) < day => invoice[i].ref # NoPayment

\* "an unpaid server is suspended ... rather than deleted, so a late payment
\* restores the exact same world" (billing.ts:8-10): no server is deleted whose
\* due invoices have all been paid.
PaidIsKept ==
    [][\A s \in Servers :
        (server[s].state = "up" /\ server'[s].state = "deleting") => ~AllPaid(s)]_vars

\* "3. Reclaim: suspended past the retention window" (billing.ts:172).
ReclaimsSuspended ==
    [][\A s \in Servers :
        (server[s].state = "up" /\ server'[s].state = "deleting") => server[s].suspended]_vars

\* "A 500 asks the processor to retry, which is what we want"
\* (webhook/route.ts:58): when the processor has its 200, the payment has had
\* its effect and the server it was for is no longer suspended.
RetryCompletes ==
    \A p \in Payments :
        pay[p].pc = "done" /\ Alone /\ Linked(pay[p].invoice) /\ AllPaid(PayServer(p))
            => ~server[PayServer(p)].suspended

\* "Stops the container and blocks power actions" (billing.ts:89).
SuspensionBlocksStart ==
    [][\A s \in Servers : ~running[s] /\ running'[s] => ~server[s].suspended]_vars

\* "the flag is authoritative and the agent reconciles on reconnect"
\* (billing.ts:105-106): after a reconnect no suspended server runs.
ReconnectStopsSuspended ==
    [][~online /\ online' =>
        \A s \in Servers : server[s].suspended => ~running'[s]]_vars

\* "Renew: any active server with no invoice covering the present moment"
\* (billing.ts:139): no server is given a second one.
OneInvoiceAtATime ==
    \A s \in Servers : \A i, j \in Of(s) :
        Start(i) <= day /\ day < End(i) /\ Start(j) <= day /\ day < End(j) => i = j

\* "Servers are suspended three days after the due date" (billing/page.tsx:32).
SuspendedThreeDaysLate ==
    \A s \in Servers : server[s].suspended => \E i \in Of(s) : Due(i) + Grace <= day
=============================================================================
