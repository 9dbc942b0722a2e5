---------------------------- MODULE MCPostOffice ----------------------------
(***************************************************************************)
(* Model checking of PostOffice: two machines, two threads on the first so *)
(* that they compete for its sendLock, one on the second; two mailboxes to *)
(* tell the messages apart, and two messages at a time, so that one can be *)
(* on the wire while the other is in the buffer or in the worker's hands.  *)
(***************************************************************************)
EXTENDS PostOffice

CONSTANTS a, b, c, null, here, there, x, none, zero, one

MCThreads == {a, b, c}
MCHosts == {here, there}
MCHost == [t \in MCThreads |-> IF t = c THEN there ELSE here]
MCLetters == {x}
MCBoxes == {zero, one}

=============================================================================
