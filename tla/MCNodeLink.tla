------------------------------ MODULE MCNodeLink ------------------------------
(* Small instances of NodeLink. *)
EXTENDS NodeLink

CONSTANTS k1, k2
=============================================================================
