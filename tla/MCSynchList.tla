---------------------------- MODULE MCSynchList ----------------------------
(***************************************************************************)
(* Model checking of SynchList: two items can be in the list, one can be   *)
(* appended while the other is removed, and all three threads may wait.    *)
(***************************************************************************)
EXTENDS SynchList

CONSTANTS a, b, c, null, x, y, none

MCThreads3 == {a, b, c}
MCItems2   == {x, y}

=============================================================================
