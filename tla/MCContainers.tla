---------------------------- MODULE MCContainers ----------------------------
(* Small fleets for Containers: two nodes. *)
EXTENDS Containers

CONSTANTS n1, n2, s1, s2
=============================================================================
