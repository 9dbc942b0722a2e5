-------------------------- MODULE AbstractConsole --------------------------
(***************************************************************************)
(* What synchconsole.h promises: GetChar waits for a key or for the end of *)
(* the input and returns it, the keys in the order in which they were      *)
(* typed, each to one caller; PutChar returns after its character has been *)
(* shown.                                                                  *)
(***************************************************************************)
EXTENDS Sequences

CONSTANTS Threads, Keys, EOF, NoChar

VARIABLES keys,     (* typed, and not returned by any GetChar              *)
          ended,    (* no more will be typed                               *)
          reading,  (* the threads in GetChar                              *)
          char,     (* what the last GetChar to return has returned        *)
          writing,  (* the character of each thread in PutChar             *)
          screen    (* the last character shown                            *)

consoleVars == <<keys, ended, reading, char, writing, screen>>

ConsoleInit ==
    /\ keys = <<>>
    /\ ended = FALSE
    /\ reading = {}
    /\ char = NoChar
    /\ writing = [t \in Threads |-> NoChar]
    /\ screen = NoChar

TypeKey(k) ==
    /\ ~ended
    /\ keys' = Append(keys, k)
    /\ UNCHANGED <<ended, reading, char, writing, screen>>

EndKeys ==
    /\ ended' = TRUE
    /\ UNCHANGED <<keys, reading, char, writing, screen>>

CallGet(t) ==
    /\ t \notin reading
    /\ reading' = reading \cup {t}
    /\ UNCHANGED <<keys, ended, char, writing, screen>>

ReturnKey(t) ==
    /\ t \in reading
    /\ \/ keys # <<>> /\ char' = Head(keys) /\ keys' = Tail(keys)
       \/ keys = <<>> /\ ended /\ char' = EOF /\ keys' = keys
    /\ reading' = reading \ {t}
    /\ UNCHANGED <<ended, writing, screen>>

CallPut(t, c) ==
    /\ writing[t] = NoChar
    /\ writing' = [writing EXCEPT ![t] = c]
    /\ UNCHANGED <<keys, ended, reading, char, screen>>

ShowChar(t) ==
    /\ writing[t] # NoChar
    /\ screen' = writing[t]
    /\ writing' = [writing EXCEPT ![t] = NoChar]
    /\ UNCHANGED <<keys, ended, reading, char>>

ConsoleNext ==
    \/ \E k \in Keys : TypeKey(k)
    \/ EndKeys
    \/ \E t \in Threads :
         \/ CallGet(t) \/ ReturnKey(t)
         \/ ShowChar(t)
         \/ \E c \in Keys : CallPut(t, c)

ConsoleSafety == ConsoleInit /\ [][ConsoleNext]_consoleVars

=============================================================================
