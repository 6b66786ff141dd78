--------------------------- MODULE NodeLinkProofs ---------------------------
(***************************************************************************)
(* Proofs about NodeLink for any number of sockets, any bound on open      *)
(* handlers and every failure of Admits: types, and that an accepted open  *)
(* socket is the registered one.                                           *)
(***************************************************************************)
EXTENDS NodeLink, TLAPS

HelloSet == [type : {"hello"}, socket : Sockets, n : {1, 2},
             at : {"read", "accept", "row", "key", "ack"}]
OtherSet == [type : {"heartbeat", "close"}, socket : Sockets, n : {1}, at : {"row"}]

\* A handler is of its type's set, and a hello handler that goes on stays one.
LEMMA HandlerKinds ==
    ASSUME NEW h \in Handlers
    PROVE  /\ h.socket \in Sockets
           /\ h.type = "hello" => h \in HelloSet
  BY DEF Handlers, HelloSet

LEMMA HelloStep ==
    ASSUME NEW h \in HelloSet, NEW a \in {"read", "accept", "row", "key", "ack"}
    PROVE  [h EXCEPT !.at = a] \in Handlers
  BY DEF HelloSet, Handlers

LEMMA NewHandlers ==
    ASSUME NEW s \in Sockets, NEW n \in {1, 2}
    PROVE  Hello(s, n) \in Handlers /\ Beat(s) \in Handlers /\ Close(s) \in Handlers
  BY DEF Hello, Beat, Close, Handlers

\* Closing keeps the ends of sockets typed.
LEMMA ClosingType ==
    ASSUME gw \in [Sockets -> {"open", "closing", "closed"}], NEW G
    PROVE  Closing(G) \in [Sockets -> {"open", "closing", "closed"}]
  BY DEF Closing

-----------------------------------------------------------------------------
(* Types.                                                                   *)

\* Every step keeps TypeOK, one case per action.
LEMMA TypeStep == TypeOK /\ [Next]_vars => TypeOK'
<1> SUFFICES ASSUME TypeOK, [Next]_vars PROVE TypeOK'
  OBVIOUS
<1> USE LinkAssumption DEF TypeOK
<1>a. agent.pc \in Online => agent.at \in Sockets
  BY DEF Online
<1>1. CASE \E s \in Sockets : Dial(s)
  <2> PICK s \in Sockets : Dial(s)
    BY <1>1
  <2>1. hellos' \in 0..MaxHellos
    BY DEF Dial
  <2>2. agent' \in [pc : Online, at : Sockets]
    BY DEF Dial, Online
  <2> QED
    BY <2>1, <2>2 DEF Dial, nodeVars
<1>2. CASE SendHello
  <2>1. work' \subseteq Handlers
    <3>1. CASE agent.pc \in Online
      <4>1. \A n \in {1, 2} : Hello(agent.at, n) \in Handlers
        BY <1>a, <3>1, NewHandlers
      <4> QED
        BY <1>2, <3>1, <4>1 DEF SendHello, Arrives
    <3> QED
      BY <1>2, <3>1 DEF SendHello
  <2>2. agent' \in [pc : {"down", "waiting"}, at : {NoSocket}] \cup [pc : Online, at : Sockets]
    BY <1>2 DEF SendHello, Online
  <2>3. hellos' \in 0..MaxHellos
    BY <1>2 DEF SendHello
  <2> QED
    BY <1>2, <2>1, <2>2, <2>3 DEF SendHello, socketVars, nodeVars
<1>3. CASE BeatStart
  BY <1>3 DEF BeatStart, socketVars, nodeVars
<1>4. CASE BeatSend
  <2>1. gw' = gw \/ gw' = Closing({agent.at})
    BY <1>4 DEF BeatSend, Unexpected
  <2>2. gw' \in [Sockets -> {"open", "closing", "closed"}]
    BY <2>1, ClosingType
  <2>3. alive' \in BOOLEAN /\ key' \in BOOLEAN
    BY <1>4 DEF BeatSend, Unexpected
  <2>4. \/ work' = work
        \/ agent.pc \in Online /\ work' = work \cup {Beat(agent.at)}
    BY <1>4 DEF BeatSend, Unexpected
  <2>5. work' \subseteq Handlers
    BY <2>4, <1>a, NewHandlers
  <2> QED
    BY <1>4, <2>2, <2>3, <2>5 DEF BeatSend
<1>5. CASE AgentNotices
  BY <1>5 DEF AgentNotices, Idle, nodeVars
<1>6. CASE AgentStarts
  BY <1>6 DEF AgentStarts, Idle, socketVars, nodeVars
<1>7. CASE Rotate
  BY <1>7 DEF Rotate, socketVars, nodeVars, agentVars
<1>8. CASE \E h \in work : Resume(h)
  <2> PICK h \in work : Resume(h)
    BY <1>8
  <2>a. h \in Handlers /\ h.socket \in Sockets
    BY HandlerKinds
  <2>b. ASSUME NEW at \in {"read", "accept", "row", "key", "ack"},
               h.type = "hello", Goes(h, [h EXCEPT !.at = at])
        PROVE  work' \subseteq Handlers
    <3>1. h \in HelloSet
      BY <2>a, <2>b, HandlerKinds
    <3>2. [h EXCEPT !.at = at] \in Handlers
      BY <3>1, HelloStep
    <3> QED
      BY <2>b, <3>2 DEF Goes
  <2>c. Ends(h) => work' \subseteq Handlers
    BY DEF Ends
  <2>1. CASE Verify(h)
    <3>1. gw' \in [Sockets -> {"open", "closing", "closed"}]
      BY <2>1, ClosingType DEF Verify
    <3>2. work' \subseteq Handlers
      BY <2>1, <2>b, <2>c DEF Verify
    <3> QED
      BY <2>1, <3>1, <3>2 DEF Verify, nodeVars, agentVars
  <2>2. CASE Accept(h)
    <3>1. gw' \in [Sockets -> {"open", "closing", "closed"}]
      BY <2>2, ClosingType DEF Accept
    <3>2. work' \subseteq Handlers
      BY <2>2, <2>b DEF Accept
    <3> QED
      BY <2>a, <2>2, <3>1, <3>2 DEF Accept, nodeVars, agentVars
  <2>3. CASE HelloRow(h)
    <3>1. work' \subseteq Handlers
      BY <2>3, <2>b DEF HelloRow
    <3> QED
      BY <2>3, <3>1 DEF HelloRow, socketVars, agentVars
  <2>4. CASE HelloKey(h)
    <3>1. work' \subseteq Handlers
      BY <2>4, <2>b DEF HelloKey
    <3> QED
      BY <2>4, <3>1 DEF HelloKey, socketVars, agentVars
  <2>5. CASE HelloAck(h)
    <3>1. agent' \in [pc : {"down", "waiting"}, at : {NoSocket}] \cup [pc : Online, at : Sockets]
      BY <2>5 DEF HelloAck, Intact, Current, Online
    <3>2. work' \subseteq Handlers /\ collecting' \in BOOLEAN
      BY <2>5, <2>c DEF HelloAck
    <3> QED
      BY <2>5, <3>1, <3>2 DEF HelloAck, socketVars, nodeVars
  <2>6. CASE BeatRow(h)
    BY <2>6, <2>c DEF BeatRow, socketVars, agentVars
  <2>7. CASE CloseRow(h)
    BY <2>7, <2>c DEF CloseRow, socketVars, agentVars
  <2> QED
    BY <2>1, <2>2, <2>3, <2>4, <2>5, <2>6, <2>7 DEF Resume
<1>9. ASSUME NEW s \in Sockets, Closed(s), UNCHANGED <<status, agentVars, valid>>
      PROVE  TypeOK'
  <2>1. work' \subseteq Handlers
    BY <1>9, NewHandlers DEF Closed
  <2> QED
    BY <1>9, <2>1 DEF Closed, agentVars
<1>10. CASE \E s \in Sockets : GatewayNotices(s) \/ HelloTimeout(s)
  <2> PICK s \in Sockets : GatewayNotices(s) \/ HelloTimeout(s)
    BY <1>10
  <2>1. CASE GatewayNotices(s)
    BY <1>9, <2>1 DEF GatewayNotices
  <2>2. CASE HelloTimeout(s)
    BY <2>2, ClosingType DEF HelloTimeout, nodeVars, agentVars
  <2> QED
    BY <2>1, <2>2
<1>11. CASE Terminate
  BY <1>9, <1>11 DEF Terminate
<1>12. CASE Ping \/ Pong
  BY <1>12 DEF Ping, Pong, nodeVars, agentVars
<1>13. CASE KeyExpires \/ MarkStale
  BY <1>13 DEF KeyExpires, MarkStale, socketVars, agentVars
<1>14. CASE AgentDies
  <2>1. agent' \in [pc : {"down", "waiting"}, at : {NoSocket}]
    BY <1>14 DEF AgentDies, Idle
  <2>2. hellos' \in 0..MaxHellos
    BY <1>14 DEF AgentDies
  <2> QED
    BY <1>14, <2>1, <2>2 DEF AgentDies, nodeVars
<1>15. CASE GatewayDies
  BY <1>15 DEF GatewayDies, nodeVars, agentVars
<1>16. CASE Chatter
  BY <1>16, ClosingType DEF Chatter, Unexpected, agentVars
<1>17. CASE \E s \in Sockets : Cut(s)
  BY <1>17 DEF Cut, nodeVars, agentVars
<1>18. CASE UNCHANGED vars
  BY <1>18 DEF vars
<1> HIDE DEF TypeOK
<1> QED
  BY <1>1, <1>2, <1>3, <1>4, <1>5, <1>6, <1>7, <1>8, <1>10, <1>11, <1>12, <1>13,
     <1>14, <1>15, <1>16, <1>17, <1>18 DEF Next, AgentStep, Timers, Break

\* Every state is typed, whatever fails and however often.
THEOREM TypeCorrect == Spec => []TypeOK
<1>1. ASSUME Init PROVE TypeOK
  <2>1. agent \in [pc : {"down", "waiting"}, at : {NoSocket}]
    BY <1>1 DEF Init
  <2>2. gw \in [Sockets -> {"open", "closing", "closed"}]
    BY <1>1 DEF Init
  <2>3. hellos \in 0..MaxHellos
    BY <1>1, LinkAssumption DEF Init
  <2> QED
    BY <1>1, <2>1, <2>2, <2>3 DEF Init, TypeOK
<1> QED
  BY <1>1, TypeStep, PTL DEF Spec

-----------------------------------------------------------------------------
(* One accepted socket.                                                     *)

\* Every step keeps OneAccepted: a socket is registered and the other one
\* closed in the same step, and nothing but its own close event, or the end
\* of the gateway, unregisters an open socket.
LEMMA AcceptedStep == TypeOK /\ OneAccepted /\ [Next]_vars => OneAccepted'
<1> SUFFICES ASSUME TypeOK, OneAccepted, [Next]_vars,
                    NEW s \in conn', gw'[s] = "open"
             PROVE  registered' = s
  BY DEF OneAccepted
<1> USE DEF TypeOK, OneAccepted
<1>a. ASSUME UNCHANGED <<registered, conn>>, \/ UNCHANGED gw
                                             \/ \E G : gw' = Closing(G)
      PROVE  registered' = s
  BY <1>a DEF Closing
<1>1. CASE \E t \in Sockets : Dial(t)
  BY <1>1 DEF Dial
<1>2. CASE SendHello \/ BeatStart \/ AgentStarts \/ Rotate
  BY <1>2, <1>a DEF SendHello, BeatStart, AgentStarts, Rotate, socketVars
<1>3. CASE BeatSend
  BY <1>3, <1>a DEF BeatSend, Unexpected
<1>4. CASE AgentNotices \/ AgentDies
  BY <1>4, <1>a DEF AgentNotices, AgentDies
<1>5. CASE \E h \in work : Resume(h)
  <2> PICK h \in work : Resume(h)
    BY <1>5
  <2>1. CASE Verify(h)
    BY <2>1, <1>a DEF Verify
  <2>2. CASE Accept(h)
    BY <2>2 DEF Accept, Closing
  <2>3. CASE HelloRow(h) \/ HelloKey(h) \/ HelloAck(h) \/ BeatRow(h) \/ CloseRow(h)
    BY <2>3, <1>a DEF HelloRow, HelloKey, HelloAck, BeatRow, CloseRow, socketVars
  <2> QED
    BY <2>1, <2>2, <2>3 DEF Resume
<1>6. ASSUME NEW t \in Sockets, Closed(t)
      PROVE  registered' = s
  BY <1>6 DEF Closed
<1>7. CASE \E t \in Sockets : GatewayNotices(t) \/ HelloTimeout(t)
  BY <1>7, <1>6, <1>a DEF GatewayNotices, HelloTimeout
<1>8. CASE Terminate
  BY <1>8, <1>6 DEF Terminate
<1>9. CASE Ping \/ Pong \/ KeyExpires \/ MarkStale
  BY <1>9, <1>a DEF Ping, Pong, KeyExpires, MarkStale, socketVars
<1>10. CASE GatewayDies
  BY <1>10 DEF GatewayDies
<1>11. CASE Chatter \/ \E t \in Sockets : Cut(t)
  BY <1>11, <1>a DEF Chatter, Unexpected, Cut
<1>12. CASE UNCHANGED vars
  BY <1>12, <1>a DEF vars
<1> QED
  BY <1>1, <1>2, <1>3, <1>4, <1>5, <1>7, <1>8, <1>9, <1>10, <1>11, <1>12
     DEF Next, AgentStep, Timers, Break

\* However many sockets a node leaves behind, an accepted socket that is open
\* is the one its commands are sent to.
THEOREM AcceptedIsRegistered == Spec => []OneAccepted
<1>1. Init => OneAccepted
  BY DEF Init, OneAccepted
<1> QED
  BY <1>1, TypeCorrect, AcceptedStep, PTL DEF Spec
=============================================================================
