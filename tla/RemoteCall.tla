------------------------------ MODULE RemoteCall ------------------------------
(***************************************************************************)
(* What a caller of callAgent may rely on: the command takes effect at     *)
(* most once; a result says what the effect was; a node reported offline   *)
(* has not been given the command and never will be; and after a timeout   *)
(* anything may still happen.                                              *)
(***************************************************************************)
CONSTANT Calls

VARIABLES outcome, effect

vars == <<outcome, effect>>

Outcomes == {"none", "ok", "failed", "offline", "timeout", "error", "lost"}
Effects == {"none", "done", "failed"}

Init ==
    /\ outcome = [c \in Calls |-> "none"]
    /\ effect = [c \in Calls |-> "none"]

Execute(c) ==
    /\ effect[c] = "none" /\ outcome[c] # "offline"
    /\ \E e \in {"done", "failed"} : effect' = [effect EXCEPT ![c] = e]
    /\ UNCHANGED outcome

Allowed(c, o) ==
    CASE o = "ok"      -> effect[c] = "done"
      [] o = "failed"  -> effect[c] = "failed"
      [] o = "offline" -> effect[c] = "none"
      [] OTHER         -> TRUE

\* A panel that dies loses all its calls at once.
Settle(S, o) ==
    /\ \A c \in S : outcome[c] = "none" /\ Allowed(c, o)
    /\ outcome' = [c \in Calls |-> IF c \in S THEN o ELSE outcome[c]]
    /\ UNCHANGED effect

Next ==
    \/ \E c \in Calls : Execute(c)
    \/ \E c \in Calls, o \in Outcomes \ {"none"} : Settle({c}, o)
    \/ \E S \in SUBSET Calls : Settle(S, "lost")

Spec == Init /\ [][Next]_vars
=============================================================================
