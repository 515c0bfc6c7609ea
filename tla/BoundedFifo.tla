---------------------------- MODULE BoundedFifo ----------------------------
(***************************************************************************)
(* What the filter-write queue of hal/ble_server.cpp promises to the two   *)
(* threads that share it: a first-in first-out queue that holds at most    *)
(* Depth writes, refuses the next one, and never reorders, duplicates or   *)
(* alters what it accepted.  FilterQueue implements it with a ring.        *)
(***************************************************************************)
EXTENDS Naturals, Sequences

CONSTANTS Item,     \* the writes that can be queued
          Depth     \* how many of them the queue holds

VARIABLES items     \* what is queued, oldest first

Init == items = << >>

Put(x) == /\ Len(items) < Depth
          /\ items' = Append(items, x)

Take == /\ items # << >>
        /\ items' = Tail(items)

Next == (\E x \in Item : Put(x)) \/ Take

Spec == Init /\ [][Next]_items
=============================================================================
