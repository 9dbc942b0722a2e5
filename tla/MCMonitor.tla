----------------------------- MODULE MCMonitor -----------------------------
(***************************************************************************)
(* Model checking of Monitor: four threads, so that while one signals two  *)
(* can wait and a fourth can barge in.                                     *)
(***************************************************************************)
EXTENDS Monitor

CONSTANTS a, b, c, d, null, mutex

MCThreads4 == {a, b, c, d}

=============================================================================
