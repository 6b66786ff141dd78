------------------------------- MODULE Tenancy -------------------------------
(***************************************************************************)
(* What the billing code promises a customer (lib/billing.ts, lines 5-12): *)
(* a server goes from paid up to overdue to suspended to deleted, one step *)
(* at a time, and a payment brings it back from any of them but the last.  *)
(***************************************************************************)
CONSTANT Servers

VARIABLE standing  \* of each server's tenancy

Standings == {"paid up", "overdue", "suspended", "gone"}

Move(s, from, to) ==
    /\ standing[s] \in from
    /\ standing' = [standing EXCEPT ![s] = to]

Lapse(s)   == Move(s, {"paid up"}, "overdue")
Suspend(s) == Move(s, {"overdue"}, "suspended")
Settle(s)  == Move(s, {"overdue", "suspended"}, "paid up")
Reclaim(s) == Move(s, {"suspended"}, "gone")

Init == standing = [s \in Servers |-> "paid up"]
Next == \E s \in Servers : Lapse(s) \/ Suspend(s) \/ Settle(s) \/ Reclaim(s)
Spec == Init /\ [][Next]_standing
=============================================================================
