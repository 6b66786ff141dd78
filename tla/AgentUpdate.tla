---------------------------- MODULE AgentUpdate ----------------------------
(***************************************************************************)
(* How agents come to run another build.  An administrator pushes one to   *)
(* the nodes in batches (admin/agent-update/route.ts, agent/updater.ts);   *)
(* an agent that has said hello looks at the release channel by itself     *)
(* (agent/version/route.ts, checkForUpdate in agent/index.ts).  Both write *)
(* the same file beside the agent, rename it over the agent, and exit;     *)
(* systemd starts what is there.  The copy kept at .previous is read by    *)
(* agent.rollback alone, which nothing sends, and is left out.             *)
(***************************************************************************)
EXTENDS Integers, FiniteSets

CONSTANTS
    Nodes,
    Builds,      \* versions; the lowest is the one installed first
    BatchSize,   \* batchSize of the push
    MaxReleases, \* a bound on publications and pushes
    MaxCrashes,  \* a bound on crashes of agents
    Admits       \* the interactions of the code this instance explores

(***************************************************************************)
(* The interactions the code permits and that an instance may switch on:   *)
(*   both        an agent takes a push and the channel's build at a time   *)
(*   mislabelled a build that calls itself another version than advertised *)
(*   bad         a build that does not start                               *)
(***************************************************************************)
AgentUpdateAssumption ==
    /\ Builds \subseteq Nat \ {0} /\ Builds # {} /\ {BatchSize, MaxReleases, MaxCrashes} \subseteq Nat
    /\ BatchSize > 0 /\ Admits \subseteq {"both", "mislabelled", "bad"}

None == 0   \* no file
Torn == -1  \* a file that was not written to its end

VARIABLES
    installed, \* the file systemd starts
    staged,    \* the file beside it
    running,   \* the version the running agent calls itself, 0 while it is down
    taking,    \* each updater of an agent: step, build
    online,    \* agents that have said hello, whose version the panel knows
    channel,   \* the version the channel publishes, 0 for none
    push,      \* the push under way: build, nodes to come, the batch, who has yet to hear of it
    releases, crashes

vars == <<installed, staged, running, taking, online, channel, push, releases, crashes>>
files == <<installed, staged>>

Updaters == {"push", "channel"}
Nothing == [step |-> "idle", build |-> 0]
First == CHOOSE b \in Builds : \A o \in Builds : b <= o

Init ==
    /\ installed = [n \in Nodes |-> First] /\ staged = [n \in Nodes |-> None]
    /\ running = [n \in Nodes |-> First] /\ online = Nodes
    /\ taking = [n \in Nodes |-> [u \in Updaters |-> Nothing]]
    /\ channel = 0 /\ push = [build |-> 0, todo |-> {}, batch |-> {}, untold |-> {}]
    /\ releases = 0 /\ crashes = 0

-----------------------------------------------------------------------------
(* The panel.                                                               *)

Release == releases < MaxReleases /\ releases' = releases + 1

Publish(b) ==
    /\ Release /\ channel' = b
    /\ UNCHANGED <<files, running, taking, online, push, crashes>>

\* The nodes that are online and run another version.
Push(b) ==
    /\ Release /\ push.todo = {} /\ push.batch = {}
    /\ push' = [push EXCEPT !.build = b, !.todo = {n \in online : running[n] # b}]
    /\ UNCHANGED <<files, running, taking, online, channel, crashes>>

\* A batch is told at once, and waited for whatever its nodes answer.
NextBatch ==
    /\ push.batch = {} /\ push.todo # {}
    /\ \E S \in SUBSET push.todo :
          /\ Cardinality(S) = BatchSize \/ (S = push.todo /\ Cardinality(S) < BatchSize)
          /\ push' = [push EXCEPT !.todo = @ \ S, !.batch = S, !.untold = S]
    /\ UNCHANGED <<files, running, taking, online, channel, releases, crashes>>

\* A node answers, fails, does not get the command or does not answer in time:
\* each counts as done.
Settles(n) ==
    /\ n \in push.batch
    /\ push' = [push EXCEPT !.batch = @ \ {n}, !.untold = @ \ {n}]
    /\ UNCHANGED <<files, running, taking, online, channel, releases, crashes>>

-----------------------------------------------------------------------------
(* The agent.                                                               *)

Up(n) == running[n] # 0
Free(n) == "both" \in Admits \/ \A u \in Updaters : taking[n][u] = Nothing
Step(n, u, s) == taking' = [taking EXCEPT ![n][u].step = s]
At(n, u, s) == taking[n][u].step = s
Offered(n, u) == IF u = "channel" THEN channel ELSE IF n \in push.untold THEN push.build ELSE 0

\* checkForUpdate, at each hello, and applyUpdate: a version other than the
\* agent's own, newer or not.
Offer(n, u) ==
    /\ n \in online /\ At(n, u, "idle") /\ Free(n)
    /\ Offered(n, u) \notin {0, running[n]}
    /\ taking' = [taking EXCEPT ![n][u] = [step |-> "fetched", build |-> Offered(n, u)]]
    /\ push' = [push EXCEPT !.untold = IF u = "push" THEN @ \ {n} ELSE @]
    /\ UNCHANGED <<files, running, online, channel, releases, crashes>>

\* The download failed or its checksum differs: nothing was touched.
Refuses(n, u) ==
    /\ At(n, u, "fetched")
    /\ taking' = [taking EXCEPT ![n][u] = Nothing]
    /\ UNCHANGED <<files, running, online, channel, push, releases, crashes>>

\* Mutant of StartWrite: the agent's own file is overwritten.
StartWriteInPlace(n) == installed' = [installed EXCEPT ![n] = Torn] /\ UNCHANGED staged

StartWrite(n) == staged' = [staged EXCEPT ![n] = Torn] /\ UNCHANGED installed

Write(n, u) ==
    /\ At(n, u, "fetched") /\ StartWrite(n) /\ Step(n, u, "writing")
    /\ UNCHANGED <<running, online, channel, push, releases, crashes>>

\* The file that was opened may have been renamed meanwhile.
Written(n, u) ==
    /\ At(n, u, "writing")
    /\ IF staged[n] = Torn
       THEN staged' = [staged EXCEPT ![n] = taking[n][u].build] /\ UNCHANGED installed
       ELSE installed' = [installed EXCEPT ![n] = taking[n][u].build] /\ UNCHANGED staged
    /\ Step(n, u, "written")
    /\ UNCHANGED <<running, online, channel, push, releases, crashes>>

\* A rename of a file that is gone throws.
Rename(n, u) ==
    /\ At(n, u, "written")
    /\ IF staged[n] = None
       THEN taking' = [taking EXCEPT ![n][u] = Nothing] /\ UNCHANGED files
       ELSE /\ installed' = [installed EXCEPT ![n] = staged[n]]
            /\ staged' = [staged EXCEPT ![n] = None]
            /\ Step(n, u, "renamed")
    /\ UNCHANGED <<running, online, channel, push, releases, crashes>>

Stops(n) ==
    /\ running' = [running EXCEPT ![n] = 0] /\ online' = online \ {n}
    /\ taking' = [taking EXCEPT ![n] = [u \in Updaters |-> Nothing]]
    /\ UNCHANGED <<files, channel, push, releases>>

Exits(n) == Stops(n) /\ UNCHANGED crashes /\ \E u \in Updaters : At(n, u, "renamed")

Crashes(n) == Up(n) /\ crashes < MaxCrashes /\ crashes' = crashes + 1 /\ Stops(n)

\* What version a build calls itself, and whether it starts.
Label(b) == IF "mislabelled" \in Admits THEN First ELSE b
Starts(b) == b \in Builds /\ ("bad" \in Admits => b = First)

\* systemd starts what is installed; the agent then says hello.
Start(n) ==
    /\ ~Up(n) /\ Starts(installed[n])
    /\ running' = [running EXCEPT ![n] = Label(installed[n])] /\ online' = online \cup {n}
    /\ UNCHANGED <<files, taking, channel, push, releases, crashes>>

-----------------------------------------------------------------------------
AgentStep(n) ==
    \/ \E u \in Updaters : \/ Offer(n, u) \/ Refuses(n, u) \/ Write(n, u) \/ Written(n, u)
                           \/ Rename(n, u)
    \/ Exits(n) \/ Start(n)

Next ==
    \/ \E b \in Builds : Publish(b) \/ Push(b)
    \/ NextBatch
    \/ \E n \in Nodes : Settles(n) \/ AgentStep(n) \/ Crashes(n)

\* Timers, the file system and systemd see to it that nothing stays where it is.
Fairness ==
    /\ WF_vars(NextBatch)
    /\ \A n \in Nodes :
          /\ WF_vars(Settles(n)) /\ WF_vars(Exits(n)) /\ WF_vars(Start(n))
          /\ \A u \in Updaters :
                WF_vars(Refuses(n, u) \/ Write(n, u)) /\ WF_vars(Written(n, u)) /\ WF_vars(Rename(n, u))

Spec == Init /\ [][Next]_vars /\ Fairness

-----------------------------------------------------------------------------
(* Properties.                                                              *)

\* Files, versions and steps are of their kinds.
TypeOK ==
    /\ \A n \in Nodes : /\ installed[n] \in Builds \cup {Torn} /\ staged[n] \in Builds \cup {Torn, None}
                         /\ running[n] \in Builds \cup {0}
                         /\ \A u \in Updaters : taking[n][u].build \in Builds \cup {0}
    /\ online \subseteq Nodes /\ channel \in Builds \cup {0}
    /\ push.untold \subseteq push.batch /\ push.batch \cup push.todo \subseteq Nodes

\* Whatever is published and pushed, and whenever an agent crashes, every node
\* ends up running, for good, the build it has installed: an update that was
\* cut short leaves an agent that starts, and a finished one is not taken
\* again.  And a push that was begun comes to its end.  Violated by the
\* interactions in Admits.
UpdatesSettle ==
    /\ \A n \in Nodes : <>[](Up(n) /\ running[n] = installed[n])
    /\ <>[](push.todo = {} /\ push.batch = {})

-----------------------------------------------------------------------------
(* What comments of the code say and the code does not do.                  *)

\* "if the published version is newer they download the bundle"
\* (agent/version/route.ts:5): an older one is taken as well, and the build
\* just pushed is replaced by the channel's at the next hello.
NeverBackwards == [][\A n \in Nodes : installed'[n] \in Builds /\ installed[n] \in Builds
                        => installed'[n] >= installed[n]]_vars

\* "so a bad build cannot take the fleet down" (admin/agent-update/route.ts:14):
\* with "bad" admitted the next batch is told all the same.
FleetStays == \E n \in Nodes : Starts(installed[n])
=============================================================================
