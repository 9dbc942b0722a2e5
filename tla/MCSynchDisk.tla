---------------------------- MODULE MCSynchDisk ----------------------------
(***************************************************************************)
(* Model checking of SynchDisk: three threads, so that two compete for the *)
(* lock while the third one's request is pending, and two sectors.         *)
(***************************************************************************)
EXTENDS SynchDisk

CONSTANTS a, b, c, null, s1, s2, zero, one, done

MCThreads == {a, b, c}
MCSectors == {s1, s2}
MCContents == {zero, one}

=============================================================================
