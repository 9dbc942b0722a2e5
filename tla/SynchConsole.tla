---------------------------- MODULE SynchConsole ----------------------------
(***************************************************************************)
(* SynchConsoleInput and SynchConsoleOutput (synchconsole.cc) over the     *)
(* simulated keyboard and display (console.cc).  Each has a lock, as       *)
(* AbstractLock describes it, and a semaphore that the device's interrupt  *)
(* increments.  The keyboard buffers one character and is polled again     *)
(* only when that character has been taken; the display shows one at a     *)
(* time.                                                                   *)
(***************************************************************************)
EXTENDS Naturals, Sequences, FiniteSets

CONSTANTS Threads, NoThread,
          Keys,          (* the characters typed and shown                 *)
          EOF,           (* no character in ConsoleInput::incoming         *)
          NoChar,        (* no character                                   *)
          In, Out,       (* the two semaphores waitFor                     *)
          MaxTyped       (* bound on the keys typed ahead                  *)

\* A key whose code is EOF's would be taken for an empty buffer.
ASSUME SynchConsoleAssumption ==
    /\ NoThread \notin Threads
    /\ EOF \notin Keys /\ NoChar \notin Keys \cup {EOF}
    /\ In # Out
    /\ MaxTyped \in Nat

VARIABLES inHolder, inAsking,    (* SynchConsoleInput::lock                *)
          outHolder, outAsking,  (* SynchConsoleOutput::lock               *)
          value, waiting,        (* the semaphores, see AbstractSemaphores *)
          typed,     (* in the input file, not yet read by the keyboard    *)
          ended,     (* the input file ends after these                    *)
          polling,   (* a ConsoleReadInt is scheduled                      *)
          incoming,  (* ConsoleInput::incoming                             *)
          putBusy,   (* ConsoleOutput::putBusy; a ConsoleWriteInt is       *)
                     (* scheduled                                          *)
          screen,    (* the last character in the output file              *)
          place,     (* where each thread is                               *)
          char,      (* what the last GetChar to return has returned       *)
          output     (* the argument of PutChar, until it returns          *)

inLock == <<inHolder, inAsking>>
outLock == <<outHolder, outAsking>>
semaphores == <<value, waiting>>
keyboard == <<typed, ended, polling, incoming>>
display == <<putBusy, screen>>
vars == <<inLock, outLock, semaphores, keyboard, display, place, char, output>>

\* none     in neither operation      put       in PutChar's Acquire
\* get      in GetChar's Acquire      putting   its P, the character is out
\* getting  its P                     shown     past its P
\* ready    past its P
Places == {"none", "get", "getting", "ready", "put", "putting", "shown"}

InLock == INSTANCE AbstractLock WITH holder <- inHolder, asking <- inAsking
OutLock == INSTANCE AbstractLock WITH holder <- outHolder, asking <- outAsking
Sem == INSTANCE AbstractSemaphores WITH
          Sems <- {In, Out}, InitialValue <- [s \in {In, Out} |-> 0]

Goes(t, to) == place' = [place EXCEPT ![t] = to]

Init ==
    /\ inHolder = NoThread /\ inAsking = {}
    /\ outHolder = NoThread /\ outAsking = {}
    /\ Sem!AbsInit
    /\ typed = <<>> /\ ended = FALSE
    /\ polling = TRUE /\ incoming = EOF
    /\ putBusy = FALSE /\ screen = NoChar
    /\ place = [t \in Threads |-> "none"]
    /\ char = NoChar
    /\ output = [t \in Threads |-> NoChar]

-----------------------------------------------------------------------------
\* The user types a key, or ends the input.
Type(k) ==
    /\ ~ended /\ Len(typed) < MaxTyped
    /\ typed' = Append(typed, k)
    /\ UNCHANGED <<inLock, outLock, semaphores, ended, polling, incoming,
                   display, place, char, output>>

EndInput ==
    /\ ~ended
    /\ ended' = TRUE
    /\ UNCHANGED <<inLock, outLock, semaphores, typed, polling, incoming,
                   display, place, char, output>>

\* ConsoleInput::CallBack: a key is stored, or the end of the file found; in
\* either case the reader is told and the keyboard is not polled again.  With
\* nothing to read the poll is repeated, which changes nothing.
KeyboardInterrupt ==
    /\ polling
    /\ \/ typed # <<>> /\ incoming' = Head(typed) /\ typed' = Tail(typed)
       \/ typed = <<>> /\ ended /\ UNCHANGED <<incoming, typed>>
    /\ polling' = FALSE
    /\ Sem!Increment(In)
    /\ UNCHANGED <<inLock, outLock, ended, display, place, char, output>>

-----------------------------------------------------------------------------
\* SynchConsoleInput::GetChar: Acquire ...
CallGetChar(t) ==
    /\ place[t] = "none"
    /\ InLock!EnterAtOnce(t) \/ InLock!Ask(t)
    /\ Goes(t, "get")
    /\ UNCHANGED <<outLock, semaphores, keyboard, display, char, output>>

GetCharLocked(t) ==
    /\ InLock!Enter(t)
    /\ UNCHANGED <<outLock, semaphores, keyboard, display, place, char, output>>

\* ... P ...
WaitForChar(t) ==
    /\ inHolder = t /\ place[t] = "get"
    /\ \/ Sem!TakeAtOnce(In) /\ Goes(t, "ready")
       \/ Sem!Wait(t, In) /\ Goes(t, "getting")
    /\ UNCHANGED <<inLock, outLock, keyboard, display, char, output>>

CharArrives(t) ==
    /\ place[t] = "getting"
    /\ Sem!Take(t, In)
    /\ Goes(t, "ready")
    /\ UNCHANGED <<inLock, outLock, keyboard, display, char, output>>

\* Wrong variant of GetChar, refused by ConsoleServes.
GetCharForgetsToPoll(t) ==
    /\ place[t] = "ready"
    /\ char' = incoming
    /\ incoming' = EOF
    /\ InLock!Leave(t)
    /\ Goes(t, "none")
    /\ UNCHANGED <<outLock, semaphores, typed, ended, polling, display, output>>

\* Wrong variant of GetChar, refused by ImplementsConsole, SynchConsoleInv.
GetCharKeepsIncoming(t) ==
    /\ place[t] = "ready"
    /\ char' = incoming
    /\ polling' = (incoming # EOF)
    /\ InLock!Leave(t)
    /\ Goes(t, "none")
    /\ UNCHANGED <<outLock, semaphores, typed, ended, incoming, display, output>>

\* ... ConsoleInput::GetChar, which empties the buffer and polls again if
\* there was a character in it, and Release.
GetChar(t) ==
    /\ place[t] = "ready"
    /\ char' = incoming
    /\ polling' = (polling \/ incoming # EOF)
    /\ incoming' = EOF
    /\ InLock!Leave(t)
    /\ Goes(t, "none")
    /\ UNCHANGED <<outLock, semaphores, typed, ended, display, output>>

-----------------------------------------------------------------------------
\* SynchConsoleOutput::PutChar: Acquire ...
CallPutChar(t, c) ==
    /\ place[t] = "none"
    /\ OutLock!EnterAtOnce(t) \/ OutLock!Ask(t)
    /\ Goes(t, "put")
    /\ output' = [output EXCEPT ![t] = c]
    /\ UNCHANGED <<inLock, semaphores, keyboard, display, char>>

PutCharLocked(t) ==
    /\ OutLock!Enter(t)
    /\ UNCHANGED <<inLock, semaphores, keyboard, display, place, char, output>>

\* ... ConsoleOutput::PutChar, which writes at once and schedules the
\* interrupt, and P ...
PutChar(t) ==
    /\ outHolder = t /\ place[t] = "put"
    /\ ~putBusy
    /\ screen' = output[t]
    /\ putBusy' = TRUE
    /\ IF value[Out] = 0 THEN Sem!Wait(t, Out) /\ Goes(t, "putting")
                         ELSE Sem!TakeAtOnce(Out) /\ Goes(t, "shown")
    /\ UNCHANGED <<inLock, outLock, keyboard, char, output>>

\* Wrong variant of DisplayInterrupt, refused by ConsoleServes.
DisplayInterruptForgetsV ==
    /\ putBusy
    /\ putBusy' = FALSE
    /\ UNCHANGED <<inLock, outLock, semaphores, keyboard, screen, place, char, output>>

\* ConsoleOutput::CallBack.
DisplayInterrupt ==
    /\ putBusy
    /\ putBusy' = FALSE
    /\ Sem!Increment(Out)
    /\ UNCHANGED <<inLock, outLock, keyboard, screen, place, char, output>>

CharIsShown(t) ==
    /\ place[t] = "putting"
    /\ Sem!Take(t, Out)
    /\ Goes(t, "shown")
    /\ UNCHANGED <<inLock, outLock, keyboard, display, char, output>>

\* ... Release.
PutCharReturns(t) ==
    /\ place[t] = "shown"
    /\ OutLock!Leave(t)
    /\ Goes(t, "none")
    /\ output' = [output EXCEPT ![t] = NoChar]
    /\ UNCHANGED <<inLock, semaphores, keyboard, display, char>>

-----------------------------------------------------------------------------
Inside(t) ==
    \/ WaitForChar(t) \/ CharArrives(t) \/ GetChar(t)
    \/ PutChar(t) \/ CharIsShown(t) \/ PutCharReturns(t)

Next ==
    \/ \E k \in Keys : Type(k)
    \/ EndInput
    \/ KeyboardInterrupt
    \/ DisplayInterrupt
    \/ \E t \in Threads :
         \/ CallGetChar(t) \/ GetCharLocked(t)
         \/ PutCharLocked(t) \/ \E c \in Keys : CallPutChar(t, c)
         \/ Inside(t)

Spec == Init /\ [][Next]_vars

\* Ready threads run, locks and semaphores keep their promises, pending
\* interrupts come.  Nobody has to type, nor to end the input.
FairSpec ==
    /\ Spec
    /\ \A t \in Threads : WF_vars(Inside(t))
    /\ WF_vars(\E t \in Threads : GetCharLocked(t))
    /\ WF_vars(\E t \in Threads : PutCharLocked(t))
    /\ WF_vars(KeyboardInterrupt)
    /\ WF_vars(DisplayInterrupt)

-----------------------------------------------------------------------------
(* Properties.                                                             *)

TypeOK ==
    /\ inHolder \in Threads \cup {NoThread} /\ inAsking \subseteq Threads
    /\ outHolder \in Threads \cup {NoThread} /\ outAsking \subseteq Threads
    /\ value \in [{In, Out} -> Nat]
    /\ waiting \in [{In, Out} -> SUBSET Threads]
    /\ typed \in Seq(Keys) /\ ended \in BOOLEAN
    /\ polling \in BOOLEAN /\ incoming \in Keys \cup {EOF}
    /\ putBusy \in BOOLEAN /\ screen \in Keys \cup {NoChar}
    /\ place \in [Threads -> Places]
    /\ char \in Keys \cup {EOF, NoChar}
    /\ output \in [Threads -> Keys \cup {NoChar}]

LocksCover ==
    \A t \in Threads :
        /\ place[t] = "get" => (inHolder = t <=> t \notin inAsking)
        /\ place[t] \in {"getting", "ready"} => inHolder = t
        /\ inHolder = t => place[t] \in {"get", "getting", "ready"}
        /\ t \in inAsking => place[t] = "get"
        /\ place[t] = "put" => (outHolder = t <=> t \notin outAsking)
        /\ place[t] \in {"putting", "shown"} => outHolder = t
        /\ outHolder = t => place[t] \in {"put", "putting", "shown"}
        /\ t \in outAsking => place[t] = "put"

Told == value[In] = 1 \/ \E t \in Threads : place[t] = "ready"

\* The ASSERT(incoming == EOF) of the interrupt: the keyboard is polled
\* only while its one-character buffer is empty and nobody has been told of
\* a character, so that none is overwritten; one character, one wake-up; and
\* it is polled until the input has ended and its last character is read.
BufferNotOverwritten ==
    /\ polling => incoming = EOF /\ ~Told
    /\ incoming # EOF => Told
    /\ value[In] + Cardinality({t \in Threads : place[t] = "ready"}) <= 1
    /\ ~polling /\ incoming = EOF => ended /\ typed = <<>>

\* The ASSERT(putBusy == FALSE) of PutChar, and one wake-up per character.
OneCharAtATime ==
    /\ \A t \in Threads :
         /\ outHolder = t /\ place[t] = "put" => ~putBusy /\ value[Out] = 0
         /\ output[t] # NoChar <=> place[t] \in {"put", "putting", "shown"}
    /\ value[Out] + (IF putBusy THEN 1 ELSE 0)
         = Cardinality({t \in Threads : place[t] = "putting"})

SynchConsoleInv ==
    /\ TypeOK
    /\ LocksCover
    /\ BufferNotOverwritten
    /\ OneCharAtATime

\* Every key goes to one GetChar, in the order typed; EOF comes after the
\* last of them; PutChar shows its character before it returns.
Promise == INSTANCE AbstractConsole WITH
              keys <- IF incoming = EOF THEN typed ELSE <<incoming>> \o typed,
              reading <- {t \in Threads : place[t] \in {"get", "getting", "ready"}},
              writing <- [t \in Threads |->
                            IF place[t] = "put" THEN output[t] ELSE NoChar]

ImplementsConsole == Promise!ConsoleSafety

\* While keys arrive they are handed out as long as somebody wants them.  The
\* wait of a reader ends for want of keys, or because one reader was told of
\* the end of the input: only one is, the others wait for ever.
KeysAreDelivered ==
    \/ []<>(typed = <<>> /\ incoming = EOF)
    \/ []<>(\A t \in Threads : place[t] \notin {"get", "getting", "ready"})
    \/ []<><<\E t \in Threads : GetChar(t)>>_vars

\* Writers are served whatever the keyboard does.
CharsAreShown ==
    \A t \in Threads : place[t] = "putting" ~> place[t] = "none"

\* Neither direction of the console ever comes to rest while it is wanted.
ConsoleServes == KeysAreDelivered /\ CharsAreShown

=============================================================================
