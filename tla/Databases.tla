----------------------------- MODULE Databases -----------------------------
(***************************************************************************)
(* The MySQL databases of one server (panel, lib/databases.ts).  The host  *)
(* has schemas and users, PostgreSQL the rows that say which of them are   *)
(* the server's and under which password.  Every statement to the host and *)
(* every write of a row is a step of its own; requests run side by side.   *)
(***************************************************************************)
EXTENDS Integers, FiniteSets

CONSTANTS
    Names,     \* names a customer gives to databases
    Requests,  \* requests under way at a time
    Limit,     \* the plan's databaseLimit
    MaxSecret, \* a bound on the passwords generated
    Admits     \* the interactions of the code this instance explores

(***************************************************************************)
(* The interactions the code permits and that an instance may switch on:   *)
(*   same-name   a database is created under a name the host knows         *)
(*   same-user   two names that differ after the 32nd character            *)
(*   overlap     two operations on one database at a time                  *)
(*   race        two creations at a time                                   *)
(*   dies        the panel dies between two steps                          *)
(*   unanswered  the host refuses a statement of an undo, or of the        *)
(*               deletion of a server, and the code goes on                *)
(***************************************************************************)
DatabasesAssumption ==
    /\ Limit \in Nat /\ MaxSecret \in Nat /\ "none" \notin Names
    /\ Admits \subseteq {"same-name", "same-user", "overlap", "race", "dies", "unanswered"}

VARIABLES
    schemas,  \* databases on the host
    users,    \* the password of each user on the host, 0 without one
    rows,     \* the password recorded for each database, 0 without a row
    req,      \* what each request is doing: step, name, secret
    secrets,  \* passwords generated so far
    dropped,  \* names whose removal was begun and whose row is still there
    leaving   \* deleteServer: whether it is under way, what it has yet to drop, and whether it is done

vars == <<schemas, users, rows, req, secrets, dropped, leaving>>
host == <<schemas, users>>

Idle == [step |-> "idle", name |-> "none", secret |-> 0]

Init ==
    /\ schemas = {} /\ users = [n \in Names |-> 0] /\ rows = [n \in Names |-> 0]
    /\ req = [r \in Requests |-> Idle]
    /\ secrets = 0 /\ dropped = {} /\ leaving = [open |-> FALSE, names |-> {}, done |-> FALSE]

-----------------------------------------------------------------------------
\* A user's name is cut at 32 characters, the database's is not.
UserOf(n) == IF "same-user" \in Admits THEN CHOOSE m \in Names : TRUE ELSE n

Used == {n \in Names : rows[n] # 0}
Busy(n) == \E r \in Requests : req[r].name = n

Goes(r, step) == req' = [req EXCEPT ![r].step = step]
Ends(r) == req' = [req EXCEPT ![r] = Idle]
At(r, step) == req[r].step = step
Begins(r, step, n) ==
    /\ At(r, "idle")
    /\ "overlap" \in Admits \/ (~Busy(n) /\ ~leaving.open)
    /\ secrets' = IF step = "dropSchema" THEN secrets ELSE secrets + 1
    /\ secrets' <= MaxSecret
    /\ req' = [req EXCEPT ![r] = [step |-> step, name |-> n, secret |-> secrets']]

\* Mutant of WithinLimit: a plan's limit is the last number refused.
WithinLimitPlusOne == Cardinality(Used) <= Limit

WithinLimit == Cardinality(Used) < Limit

Creating == {"createSchema", "createUser", "grant", "record"}

Create(r, n) ==
    /\ ~leaving.done /\ WithinLimit
    /\ "race" \in Admits \/ \A s \in Requests : req[s].step \notin Creating
    /\ "same-name" \in Admits \/ n \notin schemas \cup Used
    /\ Begins(r, "createSchema", n)
    /\ UNCHANGED <<host, rows, dropped, leaving>>

\* A name that is taken is an error of the host's, and so is any other.
CreateSchema(r) ==
    /\ At(r, "createSchema")
    /\ \/ /\ req[r].name \notin schemas
          /\ schemas' = schemas \cup {req[r].name} /\ Goes(r, "createUser")
       \/ Goes(r, "undoSchema") /\ UNCHANGED schemas
    /\ UNCHANGED <<users, rows, secrets, dropped, leaving>>

CreateUser(r) ==
    LET u == UserOf(req[r].name) IN
    /\ At(r, "createUser")
    /\ \/ /\ users[u] = 0
          /\ users' = [users EXCEPT ![u] = req[r].secret] /\ Goes(r, "grant")
       \/ Goes(r, "undoSchema") /\ UNCHANGED users
    /\ UNCHANGED <<schemas, rows, secrets, dropped, leaving>>

Grant(r) ==
    /\ At(r, "grant")
    /\ Goes(r, "record") \/ Goes(r, "undoSchema")
    /\ UNCHANGED <<host, rows, secrets, dropped, leaving>>

UndoSchema(r) ==
    /\ At(r, "undoSchema")
    /\ schemas' = schemas \ {req[r].name} \/ ("unanswered" \in Admits /\ UNCHANGED schemas)
    /\ Goes(r, "undoUser")
    /\ UNCHANGED <<users, rows, secrets, dropped, leaving>>

\* Mutant of WithoutUser: the database is undone, its user is not.
WithoutUserLeft(r) == users

WithoutUser(r) == [users EXCEPT ![UserOf(req[r].name)] = 0]

UndoUser(r) ==
    /\ At(r, "undoUser")
    /\ users' = WithoutUser(r) \/ ("unanswered" \in Admits /\ UNCHANGED users)
    /\ Ends(r)
    /\ UNCHANGED <<schemas, rows, secrets, dropped, leaving>>

\* The row refers to the server and its name and user are unique.
Record(r) ==
    LET n == req[r].name IN
    /\ At(r, "record")
    /\ rows' = IF ~leaving.done /\ rows[n] = 0 /\ \A m \in Used : UserOf(m) # UserOf(n)
               THEN [rows EXCEPT ![n] = req[r].secret] ELSE rows
    /\ Ends(r)
    /\ UNCHANGED <<host, secrets, dropped, leaving>>

Rotate(r, n) ==
    /\ rows[n] # 0 /\ Begins(r, "alterUser", n)
    /\ UNCHANGED <<host, rows, dropped, leaving>>

\* A user that is not there, or a host that fails, leaves the row as it is.
AlterUser(r) ==
    LET u == UserOf(req[r].name) IN
    /\ At(r, "alterUser")
    /\ \/ users[u] # 0 /\ users' = [users EXCEPT ![u] = req[r].secret] /\ Goes(r, "rewrite")
       \/ UNCHANGED users /\ Ends(r)
    /\ UNCHANGED <<schemas, rows, secrets, dropped, leaving>>

Rewrite(r) ==
    LET n == req[r].name IN
    /\ At(r, "rewrite")
    /\ rows' = IF rows[n] # 0 THEN [rows EXCEPT ![n] = req[r].secret] ELSE rows
    /\ Ends(r)
    /\ UNCHANGED <<host, secrets, dropped, leaving>>

-----------------------------------------------------------------------------
(* deleteDatabase, for a request or for deleteServer.                       *)

Delete(r, n) ==
    /\ rows[n] # 0 /\ Begins(r, "dropSchema", n)
    /\ UNCHANGED <<host, rows, dropped, leaving>>

\* deleteServer reads the rows; it drops one after the other.
DeleteServer ==
    /\ ~leaving.done /\ ~leaving.open
    /\ "overlap" \in Admits \/ \A r \in Requests : At(r, "idle")
    /\ leaving' = [leaving EXCEPT !.open = TRUE, !.names = Used]
    /\ UNCHANGED <<host, rows, req, secrets, dropped>>

Dropping == \E r \in Requests : req[r].step \in {"dropSchema", "dropUser", "deleteRow"}

DropNext(r, n) ==
    /\ leaving.open /\ n \in leaving.names /\ At(r, "idle") /\ ~Dropping
    /\ req' = [req EXCEPT ![r] = [step |-> "dropSchema", name |-> n, secret |-> 0]]
    /\ leaving' = [leaving EXCEPT !.names = @ \ {n}]
    /\ UNCHANGED <<host, rows, secrets, dropped>>

\* The host refuses a DROP; whoever deletes the server only logs it.  Or the
\* panel dies, at whatever step.
Stops(r) ==
    /\ \/ (At(r, "dropSchema") \/ At(r, "dropUser")) /\ (leaving.open => "unanswered" \in Admits)
       \/ ~At(r, "idle") /\ "dies" \in Admits
    /\ Ends(r)
    /\ UNCHANGED <<host, rows, secrets, dropped, leaving>>

DropSchema(r) ==
    /\ At(r, "dropSchema")
    /\ schemas' = schemas \ {req[r].name} /\ dropped' = dropped \cup {req[r].name}
    /\ Goes(r, "dropUser")
    /\ UNCHANGED <<users, rows, secrets, leaving>>

DropUser(r) ==
    /\ At(r, "dropUser")
    /\ users' = WithoutUser(r) /\ Goes(r, "deleteRow")
    /\ UNCHANGED <<schemas, rows, secrets, dropped, leaving>>

DeleteRow(r) ==
    /\ At(r, "deleteRow")
    /\ rows' = [rows EXCEPT ![req[r].name] = 0] /\ dropped' = dropped \ {req[r].name}
    /\ Ends(r)
    /\ UNCHANGED <<host, secrets, leaving>>

\* The server's row takes the rows of its databases along.
ServerGone ==
    /\ leaving.open /\ leaving.names = {} /\ ~Dropping
    /\ leaving' = [leaving EXCEPT !.open = FALSE, !.done = TRUE]
    /\ rows' = [n \in Names |-> 0] /\ dropped' = {}
    /\ UNCHANGED <<host, req, secrets>>

-----------------------------------------------------------------------------
Next ==
    \/ \E r \in Requests :
          \/ \E n \in Names : Create(r, n) \/ Rotate(r, n) \/ Delete(r, n) \/ DropNext(r, n)
          \/ CreateSchema(r) \/ CreateUser(r) \/ Grant(r) \/ UndoSchema(r) \/ UndoUser(r) \/ Record(r)
          \/ AlterUser(r) \/ Rewrite(r)
          \/ Stops(r) \/ DropSchema(r) \/ DropUser(r) \/ DeleteRow(r)
    \/ DeleteServer \/ ServerGone

Spec == Init /\ [][Next]_vars

-----------------------------------------------------------------------------
(* Properties.                                                              *)

\* Passwords, steps and names are of their kinds.
TypeOK ==
    /\ schemas \subseteq Names /\ dropped \subseteq Names /\ secrets \in 0..MaxSecret
    /\ users \in [Names -> 0..MaxSecret] /\ rows \in [Names -> 0..MaxSecret]
    /\ \A r \in Requests : req[r].name \in Names \cup {"none"} /\ req[r].secret \in 0..MaxSecret
    /\ leaving.open \in BOOLEAN /\ leaving.done \in BOOLEAN /\ leaving.names \subseteq Names

\* What a row promises is on the host, under the password it records, and what
\* is on the host has a row, so that its owner can get at it and remove it:
\* whenever no operation on that name is under way, whichever statements the
\* host refused and whichever operations ran side by side.  A removal that
\* the host broke off leaves its row, from which it can be repeated.  And a
\* plan's limit is kept.  Violated by the interactions in Admits.
RowsTellTheHost ==
    /\ \A n \in Names : ~Busy(n) =>
        IF rows[n] = 0 THEN n \notin schemas /\ users[UserOf(n)] = 0
        ELSE n \in dropped \/ (n \in schemas /\ users[UserOf(n)] = rows[n])
    /\ Cardinality(Used) <= Limit
=============================================================================
