---------------------------- MODULE DatasetFill ----------------------------
(***************************************************************************)
(* What initialising a dataset promises: items become ready, in any order  *)
(* and any grouping, an item that is ready stays ready, and whoever waits  *)
(* for the initialisation continues only when every item is.               *)
(***************************************************************************)
EXTENDS Naturals

VARIABLES
    itemCount,  \* number of items of the dataset
    ready,      \* items that hold their own value
    joined      \* the caller has continued

fillVars == <<itemCount, ready, joined>>

Init ==
    /\ itemCount \in Nat \ {0}
    /\ ready = {}
    /\ joined = FALSE

Fill ==
    /\ ready' \in SUBSET (0 .. itemCount - 1)
    /\ ready \subseteq ready'
    /\ UNCHANGED <<itemCount, joined>>

Join ==
    /\ ready = 0 .. itemCount - 1
    /\ joined' = TRUE
    /\ UNCHANGED <<itemCount, ready>>

Next == Fill \/ Join

Spec == Init /\ [][Next]_fillVars
=============================================================================
