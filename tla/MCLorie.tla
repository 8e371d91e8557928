------------------------------ MODULE MCLorie ------------------------------
(* Lorie for TLC: one process that makes two segments, one that makes one. *)
EXTENDS Lorie, TLC

CONSTANTS p1, p2              \* the processes of LorieShm

TwoAndOne == (p1 :> 2) @@ (p2 :> 1)
=============================================================================
