---------------------------- MODULE GameSettings ----------------------------
(***************************************************************************)
(* The configuration file of one game server, server.properties, as it is  *)
(* edited: by the settings form, which sends what was changed in it and    *)
(* has the panel merge that into the file (lib/game-settings.ts), and by   *)
(* the file manager, which sends a whole file back (files/route.ts).  The  *)
(* file lives on the node: reading and writing it are two calls.           *)
(***************************************************************************)
EXTENDS Integers, Sequences, FiniteSets, SequencesExt

CONSTANTS
    Tabs,
    MaxSaves, \* a bound on saves
    Admits    \* the interactions of the code this instance explores

(***************************************************************************)
(* The interactions the code permits and that an instance may switch on:   *)
(*   side-by-side   a save reads the file while another is being written   *)
(*   stale-editor   a file is saved that has changed since it was opened   *)
(*   duplicates     a file is edited by hand to hold a key twice           *)
(*   late           the node writes what the panel no longer waits for     *)
(***************************************************************************)
GameSettingsAssumption ==
    MaxSaves \in Nat /\ Admits \subseteq {"side-by-side", "stale-editor", "duplicates", "late"}

Editable == {"motd", "pvp"}   \* shown in the form
Keys == Editable \cup {"port"} \* managed, never shown
Comment == [key |-> "#", value |-> 0]
None == 0                     \* a key the file does not have
Refused == 3                  \* a value the form lets pass and coerce does not
Values == {1, 2}

VARIABLES
    file,  \* the lines of server.properties, none before the first start
    told,  \* what the last completed save of each key said
    form,  \* what each tab shows: the page, what was read, what is entered
    req,   \* what each tab has sent: the step, the changes, the text to write
    saves

vars == <<file, told, form, req, saves>>

Closed == [page |-> "closed", was |-> [k \in Editable |-> None],
           now |-> [k \in Editable |-> None], text |-> <<>>, opened |-> <<>>]
Idle == [step |-> "idle", changes |-> <<>>, text |-> <<>>]

Init ==
    /\ file = <<>> /\ told = [k \in Keys |-> None]
    /\ form = [t \in Tabs |-> Closed] /\ req = [t \in Tabs |-> Idle] /\ saves = 0

-----------------------------------------------------------------------------
(* The format.                                                              *)

\* The last line with a key counts.
Parse(lines) ==
    [k \in Keys |-> LET I == {i \in 1..Len(lines) : lines[i].key = k} IN
                    IF I = {} THEN None ELSE lines[CHOOSE i \in I : \A j \in I : j <= i].value]

\* The first line with a key is rewritten in its place; keys the file does not
\* have are added at its end.
Apply(lines, changes) ==
    LET First(i) == \A j \in 1..(i - 1) : lines[j].key # lines[i].key
        added == SetToSeq({k \in DOMAIN changes : \A i \in 1..Len(lines) : lines[i].key # k})
    IN  [i \in 1..Len(lines) |->
            IF lines[i].key \in DOMAIN changes /\ First(i)
            THEN [lines[i] EXCEPT !.value = changes[lines[i].key]] ELSE lines[i]]
        \o [i \in 1..Len(added) |-> [key |-> added[i], value |-> changes[added[i]]]]

Accepted(changes) ==
    [k \in {k \in DOMAIN changes \cap Editable : changes[k] \in Values} |-> changes[k]]

-----------------------------------------------------------------------------
\* The game writes its file when it starts without one.
FirstStart ==
    /\ file = <<>>
    /\ file' = <<Comment, [key |-> "motd", value |-> 1], [key |-> "port", value |-> 1]>>
    /\ told' = Parse(file')
    /\ UNCHANGED <<form, req, saves>>

Open(t) ==
    /\ file # <<>> /\ req[t] = Idle
    /\ LET shown == [k \in Editable |-> Parse(file)[k]] IN
       \/ form' = [form EXCEPT ![t] = [Closed EXCEPT !.page = "settings", !.was = shown, !.now = shown]]
       \/ form' = [form EXCEPT ![t] = [Closed EXCEPT !.page = "editor", !.text = file, !.opened = file]]
    /\ UNCHANGED <<file, told, req, saves>>

Enter(t, k, v) ==
    /\ form[t].page = "settings" /\ req[t] = Idle
    /\ form' = [form EXCEPT ![t].now[k] = v]
    /\ UNCHANGED <<file, told, req, saves>>

\* A line of a text removed, changed or added.
Edits(old, k, v) ==
    LET lines == {i \in 1..Len(old) : old[i].key = k} IN
    {RemoveAt(old, i) : i \in lines} \cup {[old EXCEPT ![i].value = v] : i \in lines}
    \cup {Append(old, [key |-> k, value |-> v])}

Type(t) ==
    /\ form[t].page = "editor" /\ form[t].text = form[t].opened /\ req[t] = Idle
    /\ \E k \in Keys, v \in Values : \E text \in Edits(form[t].text, k, v) :
          /\ text # <<>>
          /\ "duplicates" \in Admits \/ Cardinality({text[i].key : i \in 1..Len(text)}) = Len(text)
          /\ form' = [form EXCEPT ![t].text = text]
    /\ UNCHANGED <<file, told, req, saves>>

Alone == "side-by-side" \in Admits \/ \A t \in Tabs : req[t] = Idle
Sends(t, r) == Alone /\ saves < MaxSaves /\ saves' = saves + 1 /\ req' = [req EXCEPT ![t] = r]

\* Mutant of Changed: the form sends all it shows.
ChangedAll(t) == form[t].now

Changed(t) == [k \in {k \in Editable : form[t].now[k] # form[t].was[k]} |-> form[t].now[k]]

Save(t) ==
    /\ form[t].page = "settings" /\ req[t] = Idle /\ form[t].now # form[t].was
    /\ Sends(t, [Idle EXCEPT !.step = "read", !.changes = Changed(t)])
    /\ UNCHANGED <<file, told, form>>

\* writeGameSettings reads the file of that moment, not the one the form shows.
Read(t) ==
    /\ req[t].step = "read"
    /\ req' = [req EXCEPT ![t].step = "write", ![t].text = Apply(file, Accepted(req[t].changes))]
    /\ UNCHANGED <<file, told, form, saves>>

SaveFile(t) ==
    /\ form[t].page = "editor" /\ req[t] = Idle
    /\ "stale-editor" \in Admits \/ form[t].opened = file
    /\ Sends(t, [Idle EXCEPT !.step = "write", !.text = form[t].text])
    /\ UNCHANGED <<file, told, form>>

\* The form takes what it sent for what was saved, refused values too; the
\* editor closes.
Write(t) ==
    LET entered == Accepted([k \in {k \in Editable : form[t].now[k] # form[t].was[k]} |-> form[t].now[k]]) IN
    /\ req[t].step = "write"
    /\ file' = req[t].text
    /\ told' = [k \in Keys |->
                   IF form[t].page = "settings" THEN IF k \in DOMAIN entered THEN entered[k] ELSE told[k]
                   ELSE IF Parse(form[t].opened)[k] # Parse(req[t].text)[k] THEN Parse(req[t].text)[k]
                   ELSE told[k]]
    /\ form' = IF form[t].page = "editor" THEN [form EXCEPT ![t] = Closed]
               ELSE [form EXCEPT ![t].was = form[t].now]
    /\ req' = [req EXCEPT ![t] = Idle]
    /\ UNCHANGED saves

\* The node does not answer: the form keeps what was entered.
Fail(t) ==
    /\ req[t] # Idle
    /\ req' = [req EXCEPT ![t] = Idle]
    /\ \/ UNCHANGED file
       \/ "late" \in Admits /\ req[t].step = "write" /\ file' = req[t].text
    /\ UNCHANGED <<told, form, saves>>

-----------------------------------------------------------------------------
Next ==
    \/ FirstStart
    \/ \E t \in Tabs : \/ Open(t) \/ Type(t) \/ Save(t) \/ Read(t) \/ SaveFile(t) \/ Write(t) \/ Fail(t)
                       \/ \E k \in Editable, v \in Values \cup {Refused} : Enter(t, k, v)

Spec == Init /\ [][Next]_vars

-----------------------------------------------------------------------------
(* Properties.                                                              *)

\* Lines, forms and requests are of their kinds.
TypeOK ==
    LET IsText(x) == \A i \in 1..Len(x) : x[i] = Comment \/ (x[i].key \in Keys /\ x[i].value \in Values) IN
    /\ IsText(file) /\ told \in [Keys -> Values \cup {None}] /\ saves \in 0..MaxSaves
    /\ \A t \in Tabs : /\ IsText(form[t].text) /\ IsText(req[t].text)
                       /\ form[t].page \in {"closed", "settings", "editor"}

\* What a save reported as saved is what the server reads, until somebody sets
\* that very key again: forms read long ago, in several tabs, disturb no key
\* but those changed in them, and not the managed port; a save that fails half
\* way disturbs nothing.  Violated by the interactions in Admits.
SavedStays == (\A t \in Tabs : req[t] = Idle) => Parse(file) = told

-----------------------------------------------------------------------------
(* What comments of the code say and the code does not do.                  *)

\* "Saved." (components/settings-form.tsx:49): also of values that were refused.
NoticeTrue ==
    \A t \in Tabs : form[t].page = "settings" => \A k \in Editable : form[t].was[k] # Refused
=============================================================================
