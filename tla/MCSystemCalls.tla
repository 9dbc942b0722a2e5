--------------------------- MODULE MCSystemCalls ---------------------------
(***************************************************************************)
(* Model checking of SystemCalls: a table of two entries besides the        *)
(* standard ones, so that it fills up with the names there are, one of them *)
(* also the name of a standard file; integers of six bits, with buffers      *)
(* that are as tight for them as the program's are for its own.              *)
(***************************************************************************)
EXTENDS SystemCalls

CONSTANTS stdin, stdout, f, null

MCNames  == {stdin, stdout, f}
MCInodes == 1 .. 5

\* Behind the text of a number: a NUL, a digit, something else.
MCLeftovers == {<<0>>, <<Zero + 3, 0>>, <<65, 0>>}

\* Nothing, 7, -5, -, 31, 32, -32, -33, 1.9, 1.2.3, a letter, a sign in the
\* middle, the end of the input, a NUL in a line, and a line that is too long.
MCTyped == {<<>>, <<55>>, <<45, 53>>, <<45>>, <<51, 49>>, <<51, 50>>,
            <<45, 51, 50>>, <<45, 51, 51>>, <<49, 46, 57>>,
            <<49, 46, 50, 46, 51>>, <<65>>, <<53, 45, 49>>, <<EOF>>, <<55, EOF>>,
            <<55, 0, 56>>, <<49, 49, 49, 49, 49, 49>>}

MCStrings == {<<0>>, <<65, 0>>, <<65, 66, 67, 68>>, <<EOF, 0>>}

\* No action reads what the last call has returned, so that states which
\* differ in it only need to be told apart by the properties of one step.
Kernel == <<dir, data, ListFile, crashed>>

\* The calls on the console neither read nor change files and table: making
\* them while no file is open beside the standard ones shows all they do.
MCNext ==
  \/ Next
  \/ ~crashed /\ (\A s \in Slots \ {0, 1} : ~IsOpen(s)) /\ ConsoleNext

MCSpec == Init /\ [][MCNext]_vars

=============================================================================
