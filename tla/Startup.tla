------------------------------ MODULE Startup ------------------------------
(***************************************************************************)
(* The variables a server is started with and the add-ons it loads.  The   *)
(* startup page edits the environment column of the server's row           *)
(* (startup/route.ts, components/startup-editor.tsx); the container has    *)
(* the environment it was created with (providers/docker.ts); the mods     *)
(* page puts files where the row's TYPE says they belong (lib/mods.ts).    *)
(***************************************************************************)
EXTENDS Integers

CONSTANTS
    Tabs,
    MaxSaves, \* a bound on requests that write
    Admits    \* the interactions of the code this instance explores

(***************************************************************************)
(* The interactions the code permits and that an instance may switch on:   *)
(*   side-by-side   two requests of tabs at a time                         *)
(*   stale-form     a form is saved when the row has changed since         *)
(*   switch         TYPE is changed to software that loads other content   *)
(***************************************************************************)
StartupAssumption ==
    MaxSaves \in Nat /\ Admits \subseteq {"side-by-side", "stale-form", "switch"}

\* EULA is declared, like MEMORY, not to be edited.
Editable == {"VERSION", "TYPE"}
Variables == Editable \cup {"EULA"}
Software == {"PAPER", "SPIGOT"} \cup (IF "switch" \in Admits THEN {"FABRIC", "VANILLA"} ELSE {})
ValuesOf(k) == IF k = "VERSION" THEN {"1.20", "1.21"} ELSE IF k = "TYPE" THEN Software ELSE {"TRUE"}

VARIABLES
    environment, \* the row's column
    env,         \* what the container was created with
    told,        \* what the last completed save of each variable said
    form,        \* what each tab's startup page shows: open, was, now
    req,         \* what each tab has sent: step, values, slot
    up,          \* the container runs
    mods,        \* directories of the server's data that hold an add-on
    saves

vars == <<environment, env, told, form, req, up, mods, saves>>

Default == [k \in Variables |->
                IF k = "VERSION" THEN "1.21" ELSE IF k = "TYPE" THEN "PAPER" ELSE "TRUE"]
Idle == [step |-> "idle", values |-> Default, dir |-> "none"]

Init ==
    /\ environment = Default /\ env = Default /\ up = FALSE /\ told = Default
    /\ form = [t \in Tabs |-> [open |-> FALSE, was |-> Default, now |-> Default]]
    /\ req = [t \in Tabs |-> Idle] /\ mods = {} /\ saves = 0

-----------------------------------------------------------------------------
Alone == "side-by-side" \in Admits \/ \A t \in Tabs : req[t] = Idle
Sends(t, r) == req[t] = Idle /\ Alone /\ saves < MaxSaves /\ saves' = saves + 1 /\ req' = [req EXCEPT ![t] = r]
Done(t) == req' = [req EXCEPT ![t] = Idle]

Open(t) ==
    /\ req[t] = Idle
    /\ form' = [form EXCEPT ![t] = [open |-> TRUE, was |-> environment, now |-> environment]]
    /\ UNCHANGED <<environment, env, told, req, up, mods, saves>>

Enter(t, k, v) ==
    /\ form[t].open /\ req[t] = Idle /\ v \in ValuesOf(k)
    /\ form' = [form EXCEPT ![t].now[k] = v]
    /\ UNCHANGED <<environment, env, told, req, up, mods, saves>>

\* The form sends every variable it shows.
Save(t) ==
    /\ form[t].open
    /\ "stale-form" \in Admits \/ form[t].was = environment
    /\ Sends(t, [Idle EXCEPT !.step = "read", !.values = form[t].now])
    /\ UNCHANGED <<environment, env, told, form, up, mods>>

\* What is not declared editable is dropped.
Merge(current, values) == [k \in Variables |-> IF k \in Editable THEN values[k] ELSE current[k]]

\* The access check has read the row; the template is read after it.
Read(t) ==
    /\ req[t].step = "read"
    /\ req' = [req EXCEPT ![t].step = "write", ![t].values = Merge(environment, @)]
    /\ UNCHANGED <<environment, env, told, form, up, mods, saves>>

Write(t) ==
    /\ req[t].step = "write"
    /\ environment' = req[t].values
    /\ told' = [k \in Variables |-> IF form[t].now[k] # form[t].was[k] THEN form[t].now[k] ELSE told[k]]
    /\ form' = [form EXCEPT ![t].was = form[t].now]
    /\ Done(t)
    /\ UNCHANGED <<env, up, mods, saves>>

-----------------------------------------------------------------------------
(* The container.                                                           *)

\* server.start and server.restart start the container there is.
Start ==
    /\ ~up /\ up' = TRUE
    /\ UNCHANGED <<environment, env, told, form, req, mods, saves>>

Stop ==
    /\ up /\ up' = FALSE
    /\ UNCHANGED <<environment, env, told, form, req, mods, saves>>

\* A migration creates it anew, from the row.
Rebuild ==
    /\ env' = environment
    /\ UNCHANGED <<environment, told, form, req, up, mods, saves>>

-----------------------------------------------------------------------------
(* Add-ons.                                                                 *)

\* slotsForServer: what the software named by TYPE loads.
Slots(e) ==
    IF e["TYPE"] \in {"PAPER", "SPIGOT"} THEN {"/plugins"}
    ELSE IF e["TYPE"] = "FABRIC" THEN {"/mods"} ELSE {}

\* The slot is chosen from the row, then the file is fetched, then it is sent.
Install(t, dir) ==
    /\ dir \in Slots(environment)
    /\ Sends(t, [Idle EXCEPT !.step = "fetch", !.dir = dir])
    /\ UNCHANGED <<environment, env, told, form, up, mods>>

\* The download is refused, too large, or does not come.
Fetch(t) ==
    /\ req[t].step = "fetch"
    /\ \/ mods' = mods \cup {req[t].dir}
       \/ UNCHANGED mods
    /\ Done(t)
    /\ UNCHANGED <<environment, env, told, form, up, saves>>

\* Only what a slot of the server lists can be removed.
Remove(t, dir) ==
    /\ dir \in Slots(environment) \cap mods /\ Alone
    /\ mods' = mods \ {dir}
    /\ UNCHANGED <<environment, env, told, form, req, up, saves>>

-----------------------------------------------------------------------------
Next ==
    \/ \E t \in Tabs : \/ Open(t) \/ Save(t) \/ Read(t) \/ Write(t) \/ Fetch(t)
                       \/ \E k \in Editable : \E v \in ValuesOf(k) : Enter(t, k, v)
                       \/ \E dir \in {"/plugins", "/mods"} : Install(t, dir) \/ Remove(t, dir)
    \/ Start \/ Stop \/ Rebuild

Spec == Init /\ [][Next]_vars

-----------------------------------------------------------------------------
(* Properties.                                                              *)

\* The column has a value for every variable, forms and requests are of their kinds.
TypeOK ==
    /\ \A k \in Variables : {environment[k], env[k], told[k]} \subseteq ValuesOf(k)
    /\ \A t \in Tabs : req[t].step \in {"idle", "read", "write", "fetch"}
    /\ mods \subseteq {"/plugins", "/mods"} /\ saves \in 0..MaxSaves /\ up \in BOOLEAN

\* What a save reported as saved is in the row until somebody sets that very
\* variable again, and a variable that is not editable is never changed; what
\* was installed can be listed and removed.  Violated by the interactions in
\* Admits.
SavedStays ==
    /\ (\A t \in Tabs : req[t].step # "write") => environment = told
    /\ mods \subseteq Slots(environment)

-----------------------------------------------------------------------------
(* What the code says and does not do.                                      *)

\* "Changes apply the next time the server starts." (startup/route.ts:68): the
\* container starts with the environment it was created with.
AppliedAtStart == [][~up /\ up' => env = environment]_vars

\* "Offering both would let a customer drop a plugin into a server that will
\* never load it" (lib/mods.ts:41-42): the row's TYPE is not the container's,
\* with "switch" admitted.
InstalledIsLoaded == up => mods \subseteq Slots(env)
=============================================================================
