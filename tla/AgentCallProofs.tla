--------------------------- MODULE AgentCallProofs ---------------------------
(***************************************************************************)
(* Proof that callAgent keeps RemoteCall's promise, for any number of      *)
(* panels and calls and through every failure of AgentCall.                *)
(***************************************************************************)
EXTENDS AgentCall, TLAPS

Results == {"ok", "failed"}
EffectOf(r) == IF r = "ok" THEN "done" ELSE "failed"

\* A call that has not got as far as PUBLISH has no command anywhere.
Unsent == {"new", "joining", "checking", "publishing"}

\* A command is in one place at most, and only before it has had its effect.
CommandInv ==
    \A c \in Calls :
        /\ at[c] \in Unsent =>
            Command(c) \notin wire /\ c \notin working /\ effect[c] = "none"
        /\ Command(c) \in wire \/ c \in working => effect[c] = "none" /\ outcome[c] # "offline"
        /\ Command(c) \in wire => c \notin working

\* Whatever is on its way back tells the truth.
ResultInv ==
    \A c \in Calls : \A r \in Results :
        Result(c, r) \in answers \cup wire \/ Reply(c, r) \in wire => effect[c] = EffectOf(r)

SettledInv == \A c \in Calls : outcome[c] = "none" <=> at[c] # "settled"

CallInv == TypeOK /\ CommandInv /\ ResultInv /\ SettledInv

-----------------------------------------------------------------------------
(* Messages of different kinds, or of different calls, are different.       *)

LEMMA MessagesDiffer ==
    /\ \A c, d : Command(c) = Command(d) => c = d
    /\ \A c, d, r : Command(c) # Result(d, r) /\ Command(c) # Reply(d, r)
    /\ \A c, d, q, r : Result(c, q) # Reply(d, r)
    /\ \A c, d, q, r : Result(c, q) = Result(d, r) => c = d /\ q = r
    /\ \A c, d, q, r : Reply(c, q) = Reply(d, r) => c = d /\ q = r
<1>1. ASSUME NEW c, NEW d, Command(c) = Command(d)
      PROVE  c = d
    <2>1. Command(c).id = c /\ Command(d).id = d
        BY DEF Command
    <2> QED
        BY <1>1, <2>1
<1>2. ASSUME NEW c, NEW d, NEW r
      PROVE  Command(c) # Result(d, r) /\ Command(c) # Reply(d, r)
    <2>1. Command(c).type = "command" /\ Result(d, r).type = "result" /\ Reply(d, r).type = "reply"
        BY DEF Command, Result, Reply
    <2> QED
        BY <2>1
<1>3. ASSUME NEW c, NEW d, NEW q, NEW r
      PROVE  Result(c, q) # Reply(d, r)
    <2>1. Result(c, q).type = "result" /\ Reply(d, r).type = "reply"
        BY DEF Result, Reply
    <2> QED
        BY <2>1
<1>4. ASSUME NEW c, NEW d, NEW q, NEW r, Result(c, q) = Result(d, r)
      PROVE  c = d /\ q = r
    <2>1. Result(c, q).id = c /\ Result(d, r).id = d /\ Result(c, q).ok = q /\ Result(d, r).ok = r
        BY DEF Result
    <2> QED
        BY <1>4, <2>1
<1>5. ASSUME NEW c, NEW d, NEW q, NEW r, Reply(c, q) = Reply(d, r)
      PROVE  c = d /\ q = r
    <2>1. Reply(c, q).id = c /\ Reply(d, r).id = d /\ Reply(c, q).ok = q /\ Reply(d, r).ok = r
        BY DEF Reply
    <2> QED
        BY <1>5, <2>1
<1> QED
    BY <1>1, <1>2, <1>3, <1>4, <1>5

LEMMA MessageTypes ==
    ASSUME NEW c \in Calls, NEW r \in Results
    PROVE  Command(c) \in Messages /\ Result(c, r) \in Messages /\ Reply(c, r) \in Messages
BY DEF Command, Result, Reply, Messages, Results

-----------------------------------------------------------------------------
LEMMA CallType == TypeOK /\ [Next]_vars => TypeOK'
<1> SUFFICES ASSUME TypeOK, [Next]_vars
             PROVE  TypeOK'
    OBVIOUS
<1> USE CallAssumption DEF TypeOK
<1>1. ASSUME NEW c \in Calls, CallStep(c) \/ Timeout(c)
      PROVE  TypeOK'
    <2>1. CASE Begin(c) \/ Listening(c)
        BY <2>1 DEF Begin, Listening, linkVars, agentVars
    <2>2. CASE CheckOnline(c)
        BY <2>2 DEF CheckOnline, Settles, linkVars, agentVars
    <2>3. CASE Publish(c)
        BY <2>3, MessageTypes DEF Publish, Settles, linkVars, agentVars, Results
    <2>4. CASE PublishFails(c) \/ Timeout(c)
        BY <2>4 DEF PublishFails, Timeout, Settles, linkVars, agentVars
    <2> QED
        BY <1>1, <2>1, <2>2, <2>3, <2>4 DEF CallStep
<1>2. ASSUME NEW c \in Calls, Forward(c)
      PROVE  TypeOK'
    BY <1>2 DEF Forward, panelVars, linkVars
<1>3. ASSUME NEW c \in Calls, NEW r \in {"ok", "failed"},
             Receive(c, r) \/ Relay(c, r) \/ Execute(c, r) \/ Answer(c, r)
      PROVE  TypeOK'
    <2>1. CASE Receive(c, r)
        BY <2>1 DEF Receive, Settles, linkVars, agentVars
    <2>2. CASE Relay(c, r)
        BY <2>2, MessageTypes DEF Relay, panelVars, linkVars, agentVars, Results
    <2>3. CASE Execute(c, r)
        BY <2>3, MessageTypes DEF Execute, panelVars, linkVars, Results
    <2>4. CASE Answer(c, r)
        BY <2>4, MessageTypes DEF Answer, panelVars, linkVars, Results
    <2> QED
        BY <1>3, <2>1, <2>2, <2>3, <2>4
<1>4. ASSUME NEW p \in Panels, PanelCrash(p)
      PROVE  TypeOK'
    BY <1>4 DEF PanelCrash, linkVars, agentVars
<1>5. CASE GatewayCrash \/ Register \/ Subscribe \/ Unregister \/ KeyTurns \/ AgentCrash
    BY <1>5 DEF GatewayCrash, Register, Subscribe, Unregister, KeyTurns, AgentCrash,
                panelVars, linkVars, agentVars
<1>6. CASE UNCHANGED vars
    BY <1>6 DEF vars
<1> QED
    BY <1>1, <1>2, <1>3, <1>4, <1>5, <1>6 DEF Next

\* Steps that send no message, execute nothing and settle no call as offline.
LEMMA QuietStep ==
    ASSUME CallInv, wire' \subseteq wire, working' \subseteq working, answers' \subseteq answers,
           effect' = effect,
           \A c \in Calls : at'[c] \in Unsent => at[c] \in Unsent,
           \A c \in Calls : outcome'[c] = "offline" => outcome[c] = "offline" \/ at[c] \in Unsent,
           \A c \in Calls : outcome'[c] = "none" <=> at'[c] # "settled"
    PROVE  CommandInv' /\ ResultInv' /\ SettledInv'
<1>1. CommandInv'
    BY DEF CallInv, CommandInv
<1>2. ResultInv'
    BY DEF CallInv, ResultInv
<1> QED
    BY <1>1, <1>2 DEF SettledInv

LEMMA CallNext == CallInv /\ [Next]_vars => CallInv'
<1> SUFFICES ASSUME CallInv, [Next]_vars
             PROVE  CommandInv' /\ ResultInv' /\ SettledInv'
    BY CallType DEF CallInv
<1>0. TypeOK /\ CommandInv /\ ResultInv /\ SettledInv
    BY DEF CallInv
<1> USE DEF TypeOK
<1>1. ASSUME NEW c \in Calls, \/ Begin(c) \/ Listening(c) \/ CheckOnline(c)
                               \/ PublishFails(c) \/ Timeout(c)
      PROVE  CommandInv' /\ ResultInv' /\ SettledInv'
    <2>1. wire' = wire /\ working' = working /\ answers' = answers /\ effect' = effect
        BY <1>1 DEF Begin, Listening, CheckOnline, PublishFails, Timeout, agentVars
    <2>2. \A d \in Calls : at'[d] \in Unsent => at[d] \in Unsent
        BY <1>0, <1>1 DEF Begin, Listening, CheckOnline, PublishFails, Timeout, Settles, Unsent
    <2>3. \A d \in Calls : outcome'[d] = "offline" => outcome[d] = "offline" \/ at[d] \in Unsent
        BY <1>0, <1>1 DEF Begin, Listening, CheckOnline, PublishFails, Timeout, Settles, Unsent
    <2>4. \A d \in Calls : outcome'[d] = "none" <=> at'[d] # "settled"
        BY <1>0, <1>1 DEF Begin, Listening, CheckOnline, PublishFails, Timeout, Settles, SettledInv
    <2> QED
        BY <2>1, <2>2, <2>3, <2>4, QuietStep
<1>2. ASSUME NEW c \in Calls, Publish(c)
      PROVE  CommandInv' /\ ResultInv' /\ SettledInv'
    <2>1. /\ working' = working /\ answers' = answers /\ effect' = effect
          /\ at[c] = "publishing" /\ at'[c] \in {"waiting", "settled"}
          /\ \A d \in Calls \ {c} : at'[d] = at[d] /\ outcome'[d] = outcome[d]
          /\ outcome'[c] = "none" <=> at'[c] # "settled"
        BY <1>0, <1>2 DEF Publish, Settles, agentVars, SettledInv
    <2>2. SettledInv'
        BY <1>0, <2>1 DEF SettledInv
    <2>3. Command(c) \notin wire /\ c \notin working /\ effect[c] = "none"
        BY <1>0, <2>1 DEF CommandInv, Unsent
    <2>4. CASE wire' = wire
        BY <1>0, <2>1, <2>2, <2>3, <2>4 DEF CommandInv, ResultInv, Unsent
    <2>5. CASE wire' = wire \cup {Command(c)} /\ outcome'[c] # "offline"
        <3>1. \A d \in Calls \ {c} : Command(d) \in wire' <=> Command(d) \in wire
            BY <2>5, MessagesDiffer
        <3>2. CommandInv'
            BY <1>0, <2>1, <2>3, <2>5, <3>1 DEF CommandInv, Unsent
        <3>3. ResultInv'
            BY <1>0, <2>1, <2>5, MessagesDiffer DEF ResultInv
        <3> QED
            BY <2>2, <3>2, <3>3
    <2>6. \/ wire' = wire
          \/ wire' = wire \cup {Command(c)} /\ outcome'[c] # "offline"
        BY <1>0, <1>2, <2>1 DEF Publish, Settles, SettledInv
    <2> QED
        BY <2>4, <2>5, <2>6
<1>3. ASSUME NEW c \in Calls, Forward(c)
      PROVE  CommandInv' /\ ResultInv' /\ SettledInv'
    <2>1. /\ Command(c) \in wire /\ wire' = wire \ {Command(c)}
          /\ working' \subseteq working \cup {c}
          /\ at' = at /\ outcome' = outcome /\ answers' = answers /\ effect' = effect
        BY <1>3 DEF Forward, panelVars
    <2>2. Command(c) \notin wire' /\ at[c] \notin Unsent
        BY <1>0, <2>1 DEF CommandInv
    <2>3. CommandInv'
        BY <1>0, <2>1, <2>2 DEF CommandInv
    <2>4. ResultInv' /\ SettledInv'
        BY <1>0, <2>1 DEF ResultInv, SettledInv
    <2> QED
        BY <2>3, <2>4
<1>4. ASSUME NEW c \in Calls, NEW r \in {"ok", "failed"}, Receive(c, r)
      PROVE  CommandInv' /\ ResultInv' /\ SettledInv'
    <2>1. /\ wire' \subseteq wire /\ working' = working /\ answers' = answers /\ effect' = effect
        BY <1>4 DEF Receive, agentVars
    <2>2. \A d \in Calls : at'[d] \in Unsent => at[d] \in Unsent
        BY <1>0, <1>4 DEF Receive, Settles, Unsent
    <2>3. \A d \in Calls : outcome'[d] = "offline" => outcome[d] = "offline"
        BY <1>0, <1>4 DEF Receive, Settles
    <2>4. \A d \in Calls : outcome'[d] = "none" <=> at'[d] # "settled"
        BY <1>0, <1>4 DEF Receive, Settles, SettledInv
    <2> QED
        BY <2>1, <2>2, <2>3, <2>4, QuietStep
<1>5. ASSUME NEW c \in Calls, NEW r \in {"ok", "failed"}, Relay(c, r) \/ Answer(c, r)
      PROVE  CommandInv' /\ ResultInv' /\ SettledInv'
    <2>1. /\ working' = working /\ effect' = effect /\ at' = at /\ outcome' = outcome
          /\ answers' \subseteq answers
          /\ Result(c, r) \in wire \cup answers
          /\ wire' \subseteq wire \cup {Result(c, r), Reply(c, r)}
        BY <1>5 DEF Relay, Answer, panelVars, agentVars
    <2>2. effect[c] = EffectOf(r)
        BY <1>0, <2>1 DEF ResultInv, Results
    <2>3. \A d \in Calls : Command(d) \in wire' => Command(d) \in wire
        BY <2>1, MessagesDiffer
    <2>4. CommandInv'
        BY <1>0, <2>1, <2>3 DEF CommandInv
    <2>5. ResultInv'
        <3> SUFFICES ASSUME NEW d \in Calls, NEW q \in Results,
                            Result(d, q) \in answers' \cup wire' \/ Reply(d, q) \in wire'
                     PROVE  effect[d] = EffectOf(q)
            BY <2>1 DEF ResultInv
        <3>1. \/ Result(d, q) \in answers \cup wire \/ Reply(d, q) \in wire
              \/ d = c /\ q = r
            BY <2>1, MessagesDiffer
        <3> QED
            BY <1>0, <2>2, <3>1 DEF ResultInv
    <2> QED
        BY <1>0, <2>1, <2>4, <2>5 DEF SettledInv
<1>6. ASSUME NEW c \in Calls, NEW r \in {"ok", "failed"}, Execute(c, r)
      PROVE  CommandInv' /\ ResultInv' /\ SettledInv'
    <2>1. /\ c \in working /\ working' = working \ {c}
          /\ answers' = answers \cup {Result(c, r)}
          /\ wire' = wire /\ at' = at /\ outcome' = outcome
          /\ effect'[c] = EffectOf(r)
          /\ \A d \in Calls \ {c} : effect'[d] = effect[d]
        BY <1>0, <1>6 DEF Execute, panelVars, EffectOf
    <2>2. effect[c] = "none" /\ Command(c) \notin wire /\ at[c] \notin Unsent
        BY <1>0, <2>1 DEF CommandInv
    <2>3. CommandInv'
        BY <1>0, <2>1, <2>2 DEF CommandInv
    <2>4. ResultInv'
        <3> SUFFICES ASSUME NEW d \in Calls, NEW q \in Results,
                            Result(d, q) \in answers' \cup wire' \/ Reply(d, q) \in wire'
                     PROVE  effect'[d] = EffectOf(q)
            BY DEF ResultInv
        <3>1. CASE Result(d, q) \in answers \cup wire \/ Reply(d, q) \in wire
            <4>1. effect[d] = EffectOf(q)
                BY <1>0, <3>1 DEF ResultInv
            <4>2. d # c
                BY <2>2, <4>1 DEF EffectOf
            <4> QED
                BY <2>1, <4>1, <4>2
        <3>2. CASE Result(d, q) = Result(c, r)
            BY <2>1, <3>2, MessagesDiffer
        <3> QED
            BY <2>1, <3>1, <3>2
    <2> QED
        BY <1>0, <2>1, <2>3, <2>4 DEF SettledInv
<1>7. ASSUME NEW p \in Panels, PanelCrash(p)
      PROVE  CommandInv' /\ ResultInv' /\ SettledInv'
    <2>1. /\ wire' \subseteq wire /\ working' = working /\ answers' = answers /\ effect' = effect
        BY <1>7 DEF PanelCrash, agentVars
    <2>2. \A d \in Calls :
            \/ at'[d] = at[d] /\ outcome'[d] = outcome[d]
            \/ at'[d] = "settled" /\ outcome'[d] = "lost"
        <3>1. PICK open :
                /\ open = {c \in Calls : PanelOf[c] = p /\ at[c] \notin {"new", "settled"}}
                /\ at' = [c \in Calls |-> IF c \in open THEN "settled" ELSE at[c]]
                /\ outcome' = [c \in Calls |-> IF c \in open THEN "lost" ELSE outcome[c]]
            BY <1>7 DEF PanelCrash
        <3>2. ASSUME NEW d \in Calls, d \in open
              PROVE  at'[d] = "settled" /\ outcome'[d] = "lost"
            BY <3>1, <3>2
        <3>3. ASSUME NEW d \in Calls, d \notin open
              PROVE  at'[d] = at[d] /\ outcome'[d] = outcome[d]
            BY <3>1, <3>3
        <3> QED
            BY <3>2, <3>3
    <2> QED
        BY <1>0, <2>1, <2>2, QuietStep DEF SettledInv, Unsent
<1>8. CASE GatewayCrash \/ Register \/ Subscribe \/ Unregister \/ KeyTurns \/ AgentCrash
    <2>1. /\ wire' \subseteq wire /\ working' \subseteq working /\ answers' \subseteq answers
          /\ effect' = effect /\ at' = at /\ outcome' = outcome
        BY <1>8 DEF GatewayCrash, Register, Subscribe, Unregister, KeyTurns, AgentCrash,
                    panelVars, agentVars
    <2> QED
        BY <1>0, <2>1, QuietStep DEF SettledInv
<1>9. CASE UNCHANGED vars
    BY <1>0, <1>9, QuietStep DEF vars, SettledInv
<1> QED
    BY <1>1, <1>2, <1>3, <1>4, <1>5, <1>6, <1>7, <1>8, <1>9 DEF Next, CallStep

\* What is on its way between a panel and an agent is consistent with what the
\* agent has done and with what the panel has told its caller.
THEOREM CallInvariant == Spec => []CallInv
<1>1. Init => CallInv
    BY DEF Init, CallInv, TypeOK, CommandInv, ResultInv, SettledInv, Unsent
<1> QED
    BY <1>1, CallNext, PTL DEF Spec

-----------------------------------------------------------------------------
LEMMA ContractStep == CallInv /\ [Next]_vars => [Contract!Next]_(Contract!vars)
<1> SUFFICES ASSUME CallInv, Next
             PROVE  Contract!Next \/ UNCHANGED <<outcome, effect>>
    BY DEF vars, Contract!vars
<1> USE DEF CallInv, TypeOK
<1>1. ASSUME NEW c \in Calls, NEW o \in Contract!Outcomes \ {"none"},
             outcome[c] = "none", Contract!Allowed(c, o),
             outcome' = [outcome EXCEPT ![c] = o], effect' = effect
      PROVE  Contract!Next
    <2>1. outcome' = [d \in Calls |-> IF d \in {c} THEN o ELSE outcome[d]]
        BY <1>1
    <2>2. Contract!Settle({c}, o)
        BY <1>1, <2>1 DEF Contract!Settle
    <2> QED
        BY <2>2 DEF Contract!Next
<1>2. ASSUME NEW c \in Calls, CallStep(c) \/ Timeout(c)
      PROVE  Contract!Next \/ UNCHANGED <<outcome, effect>>
    <2>1. effect' = effect
        BY <1>2 DEF CallStep, Begin, Listening, CheckOnline, Publish, PublishFails, Timeout,
                    agentVars
    <2>2. \/ outcome' = outcome
          \/ \E o \in {"offline", "timeout", "error"} :
                /\ outcome' = [outcome EXCEPT ![c] = o]
                /\ at[c] # "settled"
                /\ o = "offline" => at[c] \in Unsent
        BY <1>2 DEF CallStep, Begin, Listening, CheckOnline, Publish, PublishFails, Timeout,
                    Settles, Unsent
    <2>3. ASSUME NEW o \in {"offline", "timeout", "error"},
                 outcome' = [outcome EXCEPT ![c] = o], at[c] # "settled",
                 o = "offline" => at[c] \in Unsent
          PROVE  Contract!Next
        <3>1. outcome[c] = "none"
            BY <2>3 DEF SettledInv
        <3>2. o = "offline" => effect[c] = "none"
            BY <2>3 DEF CommandInv
        <3>3. Contract!Allowed(c, o)
            BY <3>2 DEF Contract!Allowed
        <3> QED
            BY <1>1, <2>1, <2>3, <3>1, <3>3 DEF Contract!Outcomes
    <2> QED
        BY <2>1, <2>2, <2>3
<1>3. ASSUME NEW c \in Calls, NEW r \in {"ok", "failed"}, Receive(c, r)
      PROVE  Contract!Next \/ UNCHANGED <<outcome, effect>>
    <2>1. effect' = effect /\ Reply(c, r) \in wire
        BY <1>3 DEF Receive, agentVars
    <2>2. effect[c] = EffectOf(r)
        BY <2>1 DEF ResultInv, Results
    <2>3. \/ outcome' = outcome
          \/ outcome' = [outcome EXCEPT ![c] = r] /\ at[c] # "settled"
        BY <1>3 DEF Receive, Settles
    <2>4. CASE outcome' = [outcome EXCEPT ![c] = r] /\ at[c] # "settled"
        <3>1. outcome[c] = "none"
            BY <2>4 DEF SettledInv
        <3>2. Contract!Allowed(c, r)
            BY <2>2 DEF Contract!Allowed, EffectOf
        <3> QED
            BY <1>1, <2>1, <2>4, <3>1, <3>2 DEF Contract!Outcomes
    <2> QED
        BY <2>1, <2>3, <2>4
<1>4. ASSUME NEW c \in Calls, NEW r \in {"ok", "failed"}, Execute(c, r)
      PROVE  Contract!Next
    <2>1. effect[c] = "none" /\ outcome[c] # "offline" /\ outcome' = outcome
        BY <1>4 DEF Execute, CommandInv, panelVars
    <2>2. \E e \in {"done", "failed"} : effect' = [effect EXCEPT ![c] = e]
        BY <1>4 DEF Execute
    <2> QED
        BY <2>1, <2>2 DEF Contract!Next, Contract!Execute
<1>5. ASSUME NEW p \in Panels, PanelCrash(p)
      PROVE  Contract!Next
    <2>1. PICK S \in SUBSET Calls :
            /\ S = {c \in Calls : PanelOf[c] = p /\ at[c] \notin {"new", "settled"}}
            /\ outcome' = [c \in Calls |-> IF c \in S THEN "lost" ELSE outcome[c]]
        BY <1>5 DEF PanelCrash
    <2>2. \A c \in S : outcome[c] = "none" /\ Contract!Allowed(c, "lost")
        BY <2>1 DEF SettledInv, Contract!Allowed
    <2>3. effect' = effect
        BY <1>5 DEF PanelCrash, agentVars
    <2>4. Contract!Settle(S, "lost")
        BY <2>1, <2>2, <2>3 DEF Contract!Settle
    <2> QED
        BY <2>4 DEF Contract!Next
<1>6. ASSUME NEW c \in Calls, NEW r \in {"ok", "failed"},
             Forward(c) \/ Relay(c, r) \/ Answer(c, r)
      PROVE  UNCHANGED <<outcome, effect>>
    BY <1>6 DEF Forward, Relay, Answer, panelVars, agentVars
<1>7. CASE GatewayCrash \/ Register \/ Subscribe \/ Unregister \/ KeyTurns \/ AgentCrash
    BY <1>7 DEF GatewayCrash, Register, Subscribe, Unregister, KeyTurns, AgentCrash,
                panelVars, agentVars
<1> QED
    BY <1>2, <1>3, <1>4, <1>5, <1>6, <1>7 DEF Next

\* callAgent, the gateway's bridge and handleCommand together implement
\* RemoteCall, for any number of panels and calls: no failure of a link or a
\* process makes a command take effect twice, a result lie, or a command
\* reach a node after its caller was told that the node is offline.
THEOREM CallKeepsContract == Spec => KeepsContract
<1>1. Init => Contract!Init
    BY DEF Init, Contract!Init
<1> QED
    BY <1>1, CallInvariant, ContractStep, PTL DEF Spec, KeepsContract, Contract!Spec
=============================================================================
