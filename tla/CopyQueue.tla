----------------------------- MODULE CopyQueue -----------------------------
(***************************************************************************)
(* What the queue of GPU copies promises: copies are numbered in the order *)
(* in which they are scheduled, are taken off in that order, none twice    *)
(* and none left out, and are reported complete only up to the last one    *)
(* that was taken.                                                         *)
(***************************************************************************)
EXTENDS Naturals

CONSTANT Limit                \* how many copies may wait

VARIABLES
    scheduled,                \* the number of the last copy scheduled,
    fetched,                  \* of the last one looked at,
    taken,                    \* of the last one taken off,
    completed                 \* and of the last one known to be complete

vars == <<scheduled, fetched, taken, completed>>

(* All earlier copies are over. *)
Init ==
    /\ scheduled \in Nat
    /\ fetched = scheduled /\ taken = scheduled /\ completed = scheduled

Schedule ==
    /\ scheduled - taken < Limit
    /\ scheduled' = scheduled + 1
    /\ UNCHANGED <<fetched, taken, completed>>

Fetch ==
    /\ taken < scheduled
    /\ fetched' = taken + 1
    /\ UNCHANGED <<scheduled, taken, completed>>

Take ==
    /\ fetched = taken + 1
    /\ taken' = fetched
    /\ UNCHANGED <<scheduled, fetched, completed>>

Complete ==
    /\ completed' = taken
    /\ UNCHANGED <<scheduled, fetched, taken>>

Next == Schedule \/ Fetch \/ Take \/ Complete

Spec == Init /\ [][Next]_vars
=============================================================================
