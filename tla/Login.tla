------------------------------- MODULE Login -------------------------------
(***************************************************************************)
(* Signing in from one address (panel, api/auth/login/route.ts).  Redis    *)
(* counts the attempts under a key that the first of them gives fifteen    *)
(* minutes to live, and that a right password removes; requests run side   *)
(* by side, and every command to Redis and every query is a step.          *)
(***************************************************************************)
EXTENDS Integers

CONSTANTS
    Requests,    \* requests under way at a time
    Limit,       \* attempts allowed while the key lives
    MaxAttempts, \* a bound on the counter
    Admits       \* the interactions of the code this instance explores

(***************************************************************************)
(* The interaction the code permits and that an instance may switch on:    *)
(*   dies   the panel dies, or Redis fails, between INCR and EXPIRE        *)
(***************************************************************************)
LoginAssumption ==
    Limit \in Nat \ {0} /\ MaxAttempts \in Nat /\ Limit < MaxAttempts /\ Admits \subseteq {"dies"}

VARIABLES
    attempts, \* login:attempts, 0 without the key
    expires,  \* the key has a time to live
    req,      \* where each request is, and the number it was given
    session   \* the browser of each request has a session

vars == <<attempts, expires, req, session>>
key == <<attempts, expires>>

Idle == [step |-> "idle", number |-> 0]

Init ==
    /\ attempts = 0 /\ expires = FALSE
    /\ req = [r \in Requests |-> Idle] /\ session = {}

-----------------------------------------------------------------------------
At(r, step) == req[r].step = step
Goes(r, step) == req' = [req EXCEPT ![r].step = step]
Ends(r) == req' = [req EXCEPT ![r] = Idle]

\* Mutant of First: the key is given its time only when it runs full.
FirstRefused(number) == number = Limit + 1

First(number) == number = 1

\* INCR.
Count(r) ==
    /\ At(r, "idle") /\ r \notin session /\ attempts < MaxAttempts
    /\ attempts' = attempts + 1
    /\ req' = [req EXCEPT ![r] = [step |-> IF First(attempts') THEN "expire" ELSE "judge",
                                  number |-> attempts']]
    /\ UNCHANGED <<expires, session>>

\* EXPIRE does nothing to a key that is gone.
SetExpiry(r) ==
    /\ At(r, "expire")
    /\ expires' = (attempts > 0)
    /\ Goes(r, "judge")
    /\ UNCHANGED <<attempts, session>>

Refuse(r) ==
    /\ At(r, "judge") /\ req[r].number > Limit
    /\ Ends(r)
    /\ UNCHANGED <<key, session>>

\* The account is not there, the password is wrong, or both are right.
Verify(r) ==
    /\ At(r, "judge") /\ req[r].number <= Limit
    /\ Ends(r) \/ Goes(r, "clear")
    /\ UNCHANGED <<key, session>>

\* DEL, whoever has counted meanwhile.
Clear(r) ==
    /\ At(r, "clear")
    /\ attempts' = 0 /\ expires' = FALSE
    /\ Goes(r, "session")
    /\ UNCHANGED session

CreateSession(r) ==
    /\ At(r, "session")
    /\ session' = session \cup {r} /\ Ends(r)
    /\ UNCHANGED key

SignOut(r) ==
    /\ r \in session /\ session' = session \ {r}
    /\ UNCHANGED <<key, req>>

\* Fifteen minutes have passed.
Expire ==
    /\ expires
    /\ attempts' = 0 /\ expires' = FALSE
    /\ UNCHANGED <<req, session>>

\* The process dies, or a statement throws.
Fails(r) ==
    /\ ~At(r, "idle") /\ ("dies" \in Admits \/ ~At(r, "expire"))
    /\ Ends(r)
    /\ UNCHANGED <<key, session>>

-----------------------------------------------------------------------------
Next ==
    \/ \E r \in Requests : \/ Count(r) \/ SetExpiry(r) \/ Refuse(r) \/ Verify(r)
                           \/ Clear(r) \/ CreateSession(r) \/ SignOut(r) \/ Fails(r)
    \/ Expire

Spec == Init /\ [][Next]_vars

-----------------------------------------------------------------------------
(* Properties.                                                              *)

\* The counter, requests and sessions are of their kinds.
TypeOK ==
    /\ attempts \in 0..MaxAttempts /\ expires \in BOOLEAN /\ session \subseteq Requests
    /\ \A r \in Requests :
          /\ req[r].step \in {"idle", "expire", "judge", "clear", "session"}
          /\ req[r].number \in 0..MaxAttempts

\* "Try again in 15 minutes." (login/route.ts:21): the key has a time to live,
\* or a request is about to give it one, however many others count meanwhile,
\* are right and remove the key, let it run out or give up; so that nobody who
\* was refused is refused for good.  Violated by "dies".
KeyRunsOut == attempts > 0 => expires \/ \E r \in Requests : At(r, "expire")
=============================================================================
