---------------------------- MODULE BlockMatrix ----------------------------
(***************************************************************************)
(* What Argon2d promises about its memory: the blocks of a matrix of lanes *)
(* are computed Passes times each, every one from the block before it in   *)
(* its lane and from one other block, both of which hold a value of this   *)
(* fill, and in the first pass from nothing else.                          *)
(***************************************************************************)
EXTENDS Naturals

CONSTANTS Lanes, LaneLength, Passes, None

VARIABLES
    computed,  \* how many times each block was computed
    last       \* the last computation: its block and, with the versions they
               \* had, the two blocks it was computed from

matrixVars == <<computed, last>>

Blocks == (0 .. Lanes - 1) \X (0 .. LaneLength - 1)

Before(b) == <<b[1], (b[2] + LaneLength - 1) % LaneLength>>

\* The block before b holds the value it has to have when b is computed: that
\* of the same pass, or for the first block of a lane that of the last pass.
Ready(b) == computed[Before(b)] = computed[b] + (IF b[2] = 0 THEN 0 ELSE 1)

\* The first two blocks of every lane come from the key.
Seed ==
    /\ \A b \in Blocks : computed[b] = 0
    /\ computed' = [b \in Blocks |-> IF b[2] < 2 THEN 1 ELSE 0]
    /\ UNCHANGED last

Compute(b) ==
    /\ computed[b] < Passes
    /\ Ready(b)
    /\ computed[Before(b)] > 0
    /\ \E ref \in Blocks \ {b, Before(b)} :
          /\ computed[ref] > 0
          /\ computed' = [computed EXCEPT ![b] = @ + 1]
          /\ last' = <<b, Before(b), computed[Before(b)], ref, computed[ref]>>

Init == computed = [b \in Blocks |-> 0] /\ last = None

Next == Seed \/ \E b \in Blocks : Compute(b)

Spec == Init /\ [][Next]_matrixVars
=============================================================================
