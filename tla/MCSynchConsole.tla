--------------------------- MODULE MCSynchConsole ---------------------------
(***************************************************************************)
(* Model checking of SynchConsole: three threads, so that two can compete  *)
(* for one device while the third uses the same or the other one; two keys *)
(* to tell their order, one typed ahead of the one in the buffer.          *)
(***************************************************************************)
EXTENDS SynchConsole

CONSTANTS a, b, c, null, x, y, eof, none, in, out

MCThreads == {a, b, c}
MCKeys == {x, y}

=============================================================================
