------------------------- MODULE SynchConsoleProofs -------------------------
(***************************************************************************)
(* Proofs about SynchConsole, for any threads and keys and any bound on    *)
(* the keys typed ahead: SynchConsoleInv holds, and the console implements *)
(* AbstractConsole.  The two counts in the invariant are first brought to  *)
(* a form without Cardinality, which the actions are then shown to keep.   *)
(***************************************************************************)
EXTENDS SynchConsole, FiniteSetTheorems, TLAPS

\* Of the increments of waitFor and the threads past their P there is at most
\* one: what BufferNotOverwritten counts.
InputInStep ==
    /\ polling => incoming = EOF /\ ~Told
    /\ incoming # EOF => Told
    /\ value[In] <= 1
    /\ value[In] = 1 => \A t \in Threads : place[t] # "ready"
    /\ ~polling /\ incoming = EOF => ended /\ typed = <<>>

Putting == \E t \in Threads : place[t] = "putting"

\* The character that a thread in P waits for is on the display or has been
\* shown, and there is no other: what OneCharAtATime counts.
OutputInStep ==
    /\ \A t \in Threads :
         /\ outHolder = t /\ place[t] = "put" => ~putBusy /\ value[Out] = 0
         /\ output[t] # NoChar <=> place[t] \in {"put", "putting", "shown"}
    /\ Putting => IF putBusy THEN value[Out] = 0 ELSE value[Out] = 1
    /\ ~Putting => ~putBusy /\ value[Out] = 0

CoreInv ==
    /\ TypeOK
    /\ LocksCover
    /\ InputInStep
    /\ OutputInStep

\* No thread shares a place behind its Acquire with another one.
LEMMA SetOfOne ==
    ASSUME NEW S, NEW x, S \subseteq {x}
    PROVE  /\ S = {} => Cardinality(S) = 0
           /\ S # {} => Cardinality(S) = 1
  <1>1. S = {} \/ S = {x}
    OBVIOUS
  <1>2. Cardinality({}) = 0
    BY FS_EmptySet
  <1>3. Cardinality({x}) = 1
    BY FS_Singleton
  <1> QED BY <1>1, <1>2, <1>3

\* The invariant of the runs, without its counts.
LEMMA CoreIsInv == CoreInv <=> SynchConsoleInv
  <1> SUFFICES ASSUME TypeOK, LocksCover
               PROVE  /\ InputInStep <=> BufferNotOverwritten
                      /\ OutputInStep <=> OneCharAtATime
    BY DEF CoreInv, SynchConsoleInv
  <1>0. value[In] \in Nat /\ value[Out] \in Nat /\ putBusy \in BOOLEAN
    BY DEF TypeOK
  <1>1. InputInStep <=> BufferNotOverwritten
    <2> DEFINE Ready == {t \in Threads : place[t] = "ready"}
    <2>1. Ready \subseteq {inHolder}
      BY DEF LocksCover
    <2>2. /\ Ready = {} => Cardinality(Ready) = 0
          /\ Ready # {} => Cardinality(Ready) = 1
      BY <2>1, SetOfOne
    <2>3. Ready = {} <=> \A t \in Threads : place[t] # "ready"
      OBVIOUS
    <2>4. value[In] + Cardinality(Ready) <= 1
            <=> value[In] <= 1 /\ (value[In] = 1 => Ready = {})
      <3> HIDE DEF Ready
      <3> QED BY <1>0, <2>2
    <2> QED BY <2>3, <2>4 DEF InputInStep, BufferNotOverwritten
  <1>2. OutputInStep <=> OneCharAtATime
    <2> DEFINE P == {t \in Threads : place[t] = "putting"}
    <2>1. P \subseteq {outHolder}
      BY DEF LocksCover
    <2>2. /\ P = {} => Cardinality(P) = 0
          /\ P # {} => Cardinality(P) = 1
      BY <2>1, SetOfOne
    <2>3. P # {} <=> Putting
      BY DEF Putting
    <2>4. value[Out] + (IF putBusy THEN 1 ELSE 0) = Cardinality(P)
            <=> /\ P # {} => IF putBusy THEN value[Out] = 0 ELSE value[Out] = 1
                /\ P = {} => ~putBusy /\ value[Out] = 0
      <3> HIDE DEF P
      <3> QED BY <1>0, <2>2
    <2> QED BY <2>3, <2>4 DEF OutputInStep, OneCharAtATime
  <1> QED BY <1>1, <1>2

LEMMA InitInv == Init => CoreInv
  <1> SUFFICES ASSUME Init PROVE CoreInv
    OBVIOUS
  <1> USE SynchConsoleAssumption DEF Init, Sem!AbsInit
  <1>1. TypeOK
    <2>1. waiting \in [{In, Out} -> SUBSET Threads] /\ value \in [{In, Out} -> Nat]
      OBVIOUS
    <2>2. typed \in Seq(Keys)
      OBVIOUS
    <2>3. /\ place \in [Threads -> Places]
          /\ output \in [Threads -> Keys \cup {NoChar}]
      BY DEF Places
    <2> QED BY <2>1, <2>2, <2>3 DEF TypeOK
  <1>2. LocksCover
    BY DEF LocksCover
  <1>3. InputInStep
    BY DEF InputInStep, Told
  <1>4. OutputInStep
    BY DEF OutputInStep, Putting
  <1> QED BY <1>1, <1>2, <1>3, <1>4 DEF CoreInv

-----------------------------------------------------------------------------
(***************************************************************************)
(* The user, the keyboard and GetChar leave the display and its lock       *)
(* alone; the display and PutChar leave those of the keyboard alone.       *)
(***************************************************************************)

\* Type and EndInput.
LEMMA UserInv ==
    ASSUME CoreInv, EndInput \/ \E k \in Keys : Type(k)
    PROVE  CoreInv'
  <1>1. /\ UNCHANGED <<inHolder, inAsking, outHolder, outAsking, value, waiting,
                       polling, incoming, putBusy, screen, place, char, output>>
        /\ ~ended
        /\ typed' = typed \/ \E k \in Keys : typed' = Append(typed, k)
        /\ ended' \in BOOLEAN
    <2>1. CASE EndInput
      BY <2>1 DEF EndInput, inLock, outLock, semaphores, display
    <2>2. CASE \E k \in Keys : Type(k)
      <3>1. ended' = ended /\ ended \in BOOLEAN
        BY <2>2 DEF Type, CoreInv, TypeOK
      <3> QED BY <2>2, <3>1 DEF Type, inLock, outLock, semaphores, display
    <2> QED BY <2>1, <2>2
  <1>2. typed' \in Seq(Keys)
    <2>1. typed \in Seq(Keys)
      BY DEF CoreInv, TypeOK
    <2> QED BY <1>1, <2>1
  <1>3. TypeOK'
    BY <1>1, <1>2 DEF CoreInv, TypeOK
  <1>4. LocksCover'
    BY <1>1 DEF CoreInv, LocksCover
  <1>5. InputInStep'
    BY <1>1 DEF CoreInv, InputInStep, Told
  <1>6. OutputInStep'
    BY <1>1 DEF CoreInv, OutputInStep, Putting
  <1> QED BY <1>3, <1>4, <1>5, <1>6 DEF CoreInv

\* The interrupt comes while the buffer is empty and nobody has been told.
LEMMA KeyboardInterruptInv ==
    ASSUME CoreInv, KeyboardInterrupt
    PROVE  CoreInv'
  <1> USE SynchConsoleAssumption
      DEF KeyboardInterrupt, Sem!Increment, inLock, outLock, display, CoreInv
  <1>1. /\ value[In] = 0 /\ \A t \in Threads : place[t] # "ready"
        /\ incoming = EOF
    BY DEF InputInStep, Told, TypeOK
  <1>2. value' \in [{In, Out} -> Nat] /\ value'[In] = 1 /\ value'[Out] = value[Out]
    BY <1>1 DEF TypeOK
  <1>3. /\ typed' \in Seq(Keys) /\ incoming' \in Keys \cup {EOF}
        /\ incoming' = EOF => ended' /\ typed' = <<>>
    <2>1. typed \in Seq(Keys)
      BY DEF TypeOK
    <2>2. CASE typed # <<>>
      <3>1. Head(typed) \in Keys /\ Tail(typed) \in Seq(Keys)
        BY <2>1, <2>2
      <3> QED BY <2>2, <3>1
    <2>3. CASE typed = <<>>
      BY <1>1, <2>1, <2>3
    <2> QED BY <2>2, <2>3
  <1>4. TypeOK'
    BY <1>2, <1>3 DEF TypeOK
  <1>5. LocksCover'
    BY DEF LocksCover
  <1>6. InputInStep'
    BY <1>1, <1>2, <1>3 DEF InputInStep, Told
  <1>7. OutputInStep'
    BY <1>2 DEF OutputInStep, Putting
  <1> QED BY <1>4, <1>5, <1>6, <1>7

\* The interrupt comes while one thread, the holder of the lock, is in P.
LEMMA DisplayInterruptInv ==
    ASSUME CoreInv, DisplayInterrupt
    PROVE  CoreInv'
  <1> USE SynchConsoleAssumption
      DEF DisplayInterrupt, Sem!Increment, inLock, outLock, keyboard, CoreInv
  <1>1. value[Out] = 0 /\ Putting
    BY DEF OutputInStep
  <1>2. value' \in [{In, Out} -> Nat] /\ value'[Out] = 1 /\ value'[In] = value[In]
    BY <1>1 DEF TypeOK
  <1>3. TypeOK'
    BY <1>2 DEF TypeOK
  <1>4. LocksCover'
    BY DEF LocksCover
  <1>5. InputInStep'
    BY <1>2 DEF InputInStep, Told
  <1>6. OutputInStep'
    BY <1>1, <1>2 DEF OutputInStep, Putting, LocksCover
  <1> QED BY <1>3, <1>4, <1>5, <1>6

-----------------------------------------------------------------------------
(* GetChar.                                                                *)

\* Acquire, called and returning: the semaphores and the devices are left
\* alone.
LEMMA EnterGetChar ==
    ASSUME CoreInv, NEW t \in Threads, CallGetChar(t) \/ GetCharLocked(t)
    PROVE  CoreInv'
  <1> USE SynchConsoleAssumption
      DEF CallGetChar, GetCharLocked, InLock!EnterAtOnce, InLock!Ask, InLock!Enter,
          Goes, outLock, semaphores, keyboard, display, CoreInv
  <1>1. TypeOK'
    BY DEF TypeOK, Places
  <1>2. LocksCover'
    BY DEF LocksCover, TypeOK
  <1>3. InputInStep'
    BY DEF InputInStep, Told, TypeOK, LocksCover
  <1>4. OutputInStep'
    BY DEF OutputInStep, Putting, TypeOK, LocksCover
  <1> QED BY <1>1, <1>2, <1>3, <1>4

\* P of a thread that holds the lock takes the one increment there is.
LEMMA WaitForCharInv ==
    ASSUME CoreInv, NEW t \in Threads, WaitForChar(t) \/ CharArrives(t)
    PROVE  CoreInv'
  <1> USE SynchConsoleAssumption
      DEF WaitForChar, CharArrives, Goes, inLock, outLock, keyboard, display, CoreInv
  <1>1. inHolder = t /\ place[t] \in {"get", "getting"}
    BY DEF LocksCover
  <1>2. \A u \in Threads : place[u] # "ready"
    BY <1>1 DEF LocksCover
  <1>3. CASE UNCHANGED value
    <2>1. Sem!Wait(t, In) /\ Goes(t, "getting")
      BY <1>3 DEF Sem!TakeAtOnce, Sem!Take, TypeOK
    <2> USE <2>1 DEF Sem!Wait
    <2>2. TypeOK'
      BY DEF TypeOK, Places
    <2>3. LocksCover'
      BY <1>1 DEF LocksCover, TypeOK
    <2>4. InputInStep'
      BY <1>2 DEF InputInStep, Told, TypeOK
    <2>5. OutputInStep'
      BY <1>1 DEF OutputInStep, Putting, TypeOK
    <2> QED BY <2>2, <2>3, <2>4, <2>5
  <1>4. CASE ~ UNCHANGED value
    <2>1. /\ value[In] > 0 /\ value' = [value EXCEPT ![In] = @ - 1]
          /\ Goes(t, "ready")
          /\ waiting' = waiting \/ waiting' = [waiting EXCEPT ![In] = @ \ {t}]
      BY <1>4 DEF Sem!TakeAtOnce, Sem!Take, Sem!Wait
    <2>2. /\ value[In] = 1 /\ value'[In] = 0 /\ value'[Out] = value[Out]
          /\ value' \in [{In, Out} -> Nat]
      BY <2>1 DEF TypeOK, InputInStep
    <2>3. TypeOK'
      <3>1. waiting' \in [{In, Out} -> SUBSET Threads]
        BY <2>1 DEF TypeOK
      <3> QED BY <2>1, <2>2, <3>1 DEF TypeOK, Places
    <2>4. LocksCover'
      BY <1>1, <2>1 DEF LocksCover, TypeOK
    <2>5. InputInStep'
      BY <1>2, <2>1, <2>2 DEF InputInStep, Told, TypeOK
    <2>6. OutputInStep'
      BY <1>1, <2>1, <2>2 DEF OutputInStep, Putting, TypeOK
    <2> QED BY <2>3, <2>4, <2>5, <2>6
  <1> QED BY <1>3, <1>4

\* Only the one thread past its P empties the buffer.
LEMMA GetCharQuiet ==
    ASSUME CoreInv, NEW t \in Threads, place[t] = "ready"
    PROVE  /\ value[In] = 0 /\ ~polling
           /\ \A u \in Threads : place[u] = "ready" => u = t
           /\ incoming = EOF => ended /\ typed = <<>>
  BY DEF CoreInv, TypeOK, LocksCover, InputInStep, Told

LEMMA GetCharInv ==
    ASSUME CoreInv, NEW t \in Threads, GetChar(t)
    PROVE  CoreInv'
  <1> USE SynchConsoleAssumption
      DEF GetChar, InLock!Leave, Goes, outLock, semaphores, display, CoreInv
  <1>1. /\ value[In] = 0 /\ ~polling
        /\ \A u \in Threads : place[u] = "ready" => u = t
        /\ incoming = EOF => ended /\ typed = <<>>
    BY GetCharQuiet
  <1>2. TypeOK'
    BY DEF TypeOK, Places
  <1>3. LocksCover'
    BY DEF LocksCover, TypeOK
  <1>4. InputInStep'
    BY <1>1 DEF InputInStep, Told, TypeOK
  <1>5. OutputInStep'
    BY DEF OutputInStep, Putting, TypeOK, LocksCover
  <1> QED BY <1>2, <1>3, <1>4, <1>5

-----------------------------------------------------------------------------
(* PutChar.                                                                *)

\* Acquire, called and returning: without a thread behind it the display is
\* idle and no increment is left.
LEMMA EnterPutChar ==
    ASSUME CoreInv, NEW t \in Threads,
           PutCharLocked(t) \/ \E c \in Keys : CallPutChar(t, c)
    PROVE  CoreInv'
  <1> USE SynchConsoleAssumption
      DEF CallPutChar, PutCharLocked, OutLock!EnterAtOnce, OutLock!Ask,
          OutLock!Enter, Goes, inLock, semaphores, keyboard, display, CoreInv
  <1>1. outHolder = NoThread => ~Putting /\ value[Out] = 0 /\ ~putBusy
    BY DEF LocksCover, OutputInStep, Putting
  <1>2. TypeOK'
    BY DEF TypeOK, Places
  <1>3. LocksCover'
    BY DEF LocksCover, TypeOK
  <1>4. InputInStep'
    BY DEF InputInStep, Told, TypeOK, LocksCover
  <1>5. OutputInStep'
    <2>1. Putting' <=> Putting
      BY DEF Putting, TypeOK, LocksCover
    <2>2. \A u \in Threads :
            output'[u] # NoChar <=> place'[u] \in {"put", "putting", "shown"}
      BY DEF OutputInStep, TypeOK, LocksCover
    <2>3. \A u \in Threads :
            outHolder' = u /\ place'[u] = "put" => ~putBusy' /\ value'[Out] = 0
      BY <1>1 DEF OutputInStep, TypeOK, LocksCover
    <2> QED BY <2>1, <2>2, <2>3 DEF OutputInStep
  <1> QED BY <1>2, <1>3, <1>4, <1>5

\* The character is put on an idle display, and P waits for the interrupt.
LEMMA PutCharPWaits ==
    ASSUME CoreInv, NEW t \in Threads, PutChar(t)
    PROVE  /\ Sem!Wait(t, Out) /\ Goes(t, "putting")
           /\ value[Out] = 0 /\ ~putBusy
           /\ output[t] \in Keys
  BY DEF PutChar, CoreInv, OutputInStep, TypeOK

LEMMA PutCharInv ==
    ASSUME CoreInv, NEW t \in Threads, PutChar(t)
    PROVE  CoreInv'
  <1> USE SynchConsoleAssumption
      DEF PutChar, Sem!Wait, Goes, inLock, outLock, keyboard, CoreInv
  <1>1. /\ Sem!Wait(t, Out) /\ Goes(t, "putting")
        /\ value[Out] = 0 /\ ~putBusy
        /\ output[t] \in Keys
    BY PutCharPWaits
  <1>2. TypeOK'
    BY <1>1 DEF TypeOK, Places
  <1>3. LocksCover'
    BY <1>1 DEF LocksCover, TypeOK
  <1>4. InputInStep'
    BY <1>1 DEF InputInStep, Told, TypeOK
  <1>5. OutputInStep'
    BY <1>1 DEF OutputInStep, Putting, TypeOK, LocksCover
  <1> QED BY <1>2, <1>3, <1>4, <1>5

LEMMA CharIsShownInv ==
    ASSUME CoreInv, NEW t \in Threads, CharIsShown(t)
    PROVE  CoreInv'
  <1> USE SynchConsoleAssumption
      DEF CharIsShown, Sem!Take, Goes, inLock, outLock, keyboard, display, CoreInv
  <1>1. value[Out] = 1 /\ ~putBusy
    BY DEF OutputInStep, Putting
  <1>2. \A u \in Threads : place[u] = "putting" => u = t
    BY DEF LocksCover
  <1>3. /\ value' \in [{In, Out} -> Nat]
        /\ value'[Out] = 0 /\ value'[In] = value[In]
    BY <1>1 DEF TypeOK
  <1>4. TypeOK'
    BY <1>3 DEF TypeOK, Places
  <1>5. LocksCover'
    BY DEF LocksCover, TypeOK
  <1>6. InputInStep'
    BY <1>3 DEF InputInStep, Told, TypeOK
  <1>7. OutputInStep'
    BY <1>1, <1>2, <1>3 DEF OutputInStep, Putting, TypeOK, LocksCover
  <1> QED BY <1>4, <1>5, <1>6, <1>7

LEMMA PutCharReturnsInv ==
    ASSUME CoreInv, NEW t \in Threads, PutCharReturns(t)
    PROVE  CoreInv'
  <1> USE SynchConsoleAssumption
      DEF PutCharReturns, OutLock!Leave, Goes, inLock, semaphores, keyboard,
          display, CoreInv
  <1>1. TypeOK'
    BY DEF TypeOK, Places
  <1>2. LocksCover'
    BY DEF LocksCover, TypeOK
  <1>3. InputInStep'
    BY DEF InputInStep, Told, TypeOK
  <1>4. OutputInStep'
    BY DEF OutputInStep, Putting, TypeOK, LocksCover
  <1> QED BY <1>1, <1>2, <1>3, <1>4

-----------------------------------------------------------------------------
LEMMA NextInv == CoreInv /\ [Next]_vars => CoreInv'
  <1> SUFFICES ASSUME CoreInv, [Next]_vars PROVE CoreInv'
    OBVIOUS
  <1>1. CASE UNCHANGED vars
    BY <1>1 DEF vars, inLock, outLock, semaphores, keyboard, display, CoreInv,
                TypeOK, LocksCover, InputInStep, Told, OutputInStep, Putting
  <1>2. CASE Next
    BY <1>2, UserInv, KeyboardInterruptInv, DisplayInterruptInv, EnterGetChar,
       WaitForCharInv, GetCharInv, EnterPutChar, PutCharInv, CharIsShownInv,
       PutCharReturnsInv
       DEF Next, Inside
  <1> QED BY <1>1, <1>2

LEMMA CoreCorrect == Spec => []CoreInv
  BY InitInv, NextInv, PTL DEF Spec

\* Each device is used by one thread at a time, the ASSERTs of console.cc
\* hold, no character typed is overwritten in the buffer, and every character
\* has exactly one wake-up.
THEOREM SynchConsoleCorrect == Spec => []SynchConsoleInv
  BY CoreCorrect, CoreIsInv, PTL

-----------------------------------------------------------------------------
(* The refinement.                                                         *)

AllKeys == IF incoming = EOF THEN typed ELSE <<incoming>> \o typed

Readers == {t \in Threads : place[t] \in {"get", "getting", "ready"}}

Writing == [t \in Threads |-> IF place[t] = "put" THEN output[t] ELSE NoChar]

\* The buffered character is the first of those that no GetChar has returned.
LEMMA FirstOfTwo ==
    ASSUME NEW S, NEW c \in S, NEW list \in Seq(S)
    PROVE  /\ <<c>> \o list # <<>>
           /\ Head(<<c>> \o list) = c
           /\ Tail(<<c>> \o list) = list
           /\ \A d \in S : <<c>> \o Append(list, d) = Append(<<c>> \o list, d)
           /\ list # <<>> => <<Head(list)>> \o Tail(list) = list
  <1>1. <<c>> \o list \in Seq(S) /\ Len(<<c>> \o list) = Len(list) + 1
    OBVIOUS
  <1>2. Tail(<<c>> \o list) = list
    OBVIOUS
  <1>3. ASSUME NEW d \in S
        PROVE  <<c>> \o Append(list, d) = Append(<<c>> \o list, d)
    OBVIOUS
  <1>4. list # <<>> => <<Head(list)>> \o Tail(list) = list
    OBVIOUS
  <1> QED BY <1>1, <1>2, <1>3, <1>4

\* A step of one thread to another place.
LEMMA GoesMoves ==
    ASSUME TypeOK, NEW t \in Threads, NEW p \in Places, Goes(t, p)
    PROVE  /\ p \in {"get", "getting", "ready"} => Readers' = Readers \cup {t}
           /\ p \notin {"get", "getting", "ready"} => Readers' = Readers \ {t}
           /\ (p # "put" /\ place[t] # "put" /\ UNCHANGED output)
                => Writing' = Writing
  BY DEF TypeOK, Goes, Readers, Writing

\* A key typed is the last that will be returned.
LEMMA TypeRefines ==
    ASSUME CoreInv, NEW k \in Keys, Type(k)
    PROVE  Promise!TypeKey(k)
  <1>1. typed \in Seq(Keys) /\ incoming \in Keys \cup {EOF}
    BY DEF CoreInv, TypeOK
  <1>2. AllKeys' = Append(AllKeys, k)
    BY <1>1, FirstOfTwo DEF Type, AllKeys
  <1> QED BY <1>2 DEF Type, display, AllKeys, Promise!TypeKey

\* The keyboard moves a key into the buffer: the keys are the same.
LEMMA KeyboardRefines ==
    ASSUME CoreInv, KeyboardInterrupt
    PROVE  UNCHANGED Promise!consoleVars
  <1>1. typed \in Seq(Keys) /\ incoming = EOF
    BY DEF CoreInv, TypeOK, InputInStep, KeyboardInterrupt
  <1>2. AllKeys' = AllKeys
    <2>1. CASE typed # <<>> /\ incoming' = Head(typed) /\ typed' = Tail(typed)
      <3>1. Head(typed) \in Keys /\ <<Head(typed)>> \o Tail(typed) = typed
        BY <1>1, <2>1, FirstOfTwo
      <3> QED BY <1>1, <2>1, <3>1, SynchConsoleAssumption DEF AllKeys
    <2>2. CASE UNCHANGED <<incoming, typed>>
      BY <2>2 DEF AllKeys
    <2> QED BY <2>1, <2>2 DEF KeyboardInterrupt
  <1> QED BY <1>2 DEF KeyboardInterrupt, display, AllKeys, Promise!consoleVars

\* The character returned is the oldest of the keys; without one the input
\* has ended.
LEMMA GetCharRefines ==
    ASSUME CoreInv, NEW t \in Threads, GetChar(t)
    PROVE  Promise!ReturnKey(t)
  <1>1. /\ typed \in Seq(Keys) /\ incoming \in Keys \cup {EOF}
        /\ place \in [Threads -> Places]
    BY DEF CoreInv, TypeOK
  <1>2. /\ place[t] = "ready" /\ char' = incoming /\ incoming' = EOF
        /\ Goes(t, "none")
        /\ UNCHANGED <<typed, ended, output, screen>>
    BY DEF GetChar, display
  <1>3. incoming = EOF => ended /\ typed = <<>>
    BY <1>2, GetCharQuiet
  <1>4. t \in Readers /\ Readers' = Readers \ {t} /\ Writing' = Writing
    BY <1>2, GoesMoves DEF Readers, Places, CoreInv
  <1>5. \/ AllKeys # <<>> /\ char' = Head(AllKeys) /\ AllKeys' = Tail(AllKeys)
        \/ AllKeys = <<>> /\ ended /\ char' = EOF /\ AllKeys' = AllKeys
    BY <1>1, <1>2, <1>3, FirstOfTwo DEF AllKeys
  <1> QED BY <1>2, <1>4, <1>5 DEF AllKeys, Readers, Writing, Promise!ReturnKey

LEMMA CallGetCharRefines ==
    ASSUME CoreInv, NEW t \in Threads, CallGetChar(t)
    PROVE  Promise!CallGet(t)
  <1>1. /\ place[t] = "none" /\ Goes(t, "get")
        /\ UNCHANGED <<typed, incoming, ended, char, output, screen>>
    BY DEF CallGetChar, keyboard, display
  <1>2. t \notin Readers /\ Readers' = Readers \cup {t} /\ Writing' = Writing
    BY <1>1, GoesMoves DEF Readers, Places, CoreInv
  <1> QED BY <1>1, <1>2 DEF Readers, Writing, Promise!CallGet

LEMMA CallPutCharRefines ==
    ASSUME CoreInv, NEW t \in Threads, NEW c \in Keys, CallPutChar(t, c)
    PROVE  Promise!CallPut(t, c)
  <1>1. /\ place[t] = "none" /\ Goes(t, "put")
        /\ output' = [output EXCEPT ![t] = c]
        /\ UNCHANGED <<typed, incoming, ended, char, screen>>
    BY DEF CallPutChar, keyboard, display
  <1>2. Readers' = Readers
    BY <1>1, GoesMoves DEF Readers, Places, CoreInv
  <1>3. Writing[t] = NoChar /\ Writing' = [Writing EXCEPT ![t] = c]
    BY <1>1 DEF Writing, Goes, CoreInv, TypeOK
  <1> QED BY <1>1, <1>2, <1>3 DEF Readers, Writing, Promise!CallPut

\* PutChar of the device is where the character is shown.
LEMMA PutCharRefines ==
    ASSUME CoreInv, NEW t \in Threads, PutChar(t)
    PROVE  Promise!ShowChar(t)
  <1>1. /\ place[t] = "put" /\ Goes(t, "putting") /\ screen' = output[t]
        /\ output[t] \in Keys
        /\ UNCHANGED <<typed, incoming, ended, char, output>>
    BY PutCharPWaits DEF PutChar, keyboard
  <1>2. Readers' = Readers
    BY <1>1, GoesMoves DEF Readers, Places, CoreInv
  <1>3. /\ Writing[t] = output[t] /\ Writing[t] # NoChar
        /\ Writing' = [Writing EXCEPT ![t] = NoChar]
    BY <1>1, SynchConsoleAssumption DEF Writing, Goes, CoreInv, TypeOK
  <1> QED BY <1>1, <1>2, <1>3 DEF Readers, Writing, Promise!ShowChar

\* The steps inside an operation that nobody outside sees.
LEMMA InnerRefines ==
    ASSUME CoreInv, NEW t \in Threads,
           \/ GetCharLocked(t) \/ PutCharLocked(t) \/ WaitForChar(t)
           \/ CharArrives(t) \/ CharIsShown(t) \/ PutCharReturns(t)
    PROVE  UNCHANGED Promise!consoleVars
  <1>1. /\ UNCHANGED <<typed, incoming, ended, char, screen>>
        /\ \/ UNCHANGED <<place, output>>
           \/ /\ place[t] # "put"
              /\ \E p \in Places \ {"put"} :
                   /\ Goes(t, p)
                   /\ p \in {"get", "getting", "ready"} <=> t \in Readers
              /\ output' = output \/ output' = [output EXCEPT ![t] = NoChar]
    <2>1. UNCHANGED <<typed, incoming, ended, char, screen>>
      BY DEF GetCharLocked, PutCharLocked, WaitForChar, CharArrives, CharIsShown,
             PutCharReturns, keyboard, display
    <2>2. CASE GetCharLocked(t) \/ PutCharLocked(t)
      BY <2>1, <2>2 DEF GetCharLocked, PutCharLocked
    <2>3. CASE WaitForChar(t) \/ CharArrives(t)
      BY <2>1, <2>3 DEF WaitForChar, CharArrives, Places, Readers
    <2>4. CASE CharIsShown(t) \/ PutCharReturns(t)
      BY <2>1, <2>4 DEF CharIsShown, PutCharReturns, Places, Readers
    <2> QED BY <2>2, <2>3, <2>4
  <1>2. Readers' = Readers
    BY <1>1 DEF Readers, Goes, CoreInv, TypeOK
  <1>3. Writing' = Writing
    BY <1>1 DEF Writing, Goes, CoreInv, TypeOK
  <1> QED BY <1>1, <1>2, <1>3 DEF Readers, Writing, Promise!consoleVars

LEMMA NextRefines ==
    CoreInv /\ [Next]_vars => [Promise!ConsoleNext]_(Promise!consoleVars)
  <1> SUFFICES ASSUME CoreInv, [Next]_vars
               PROVE  [Promise!ConsoleNext]_(Promise!consoleVars)
    OBVIOUS
  <1> USE DEF Promise!ConsoleNext
  <1>1. CASE EndInput
    BY <1>1 DEF EndInput, display, Promise!EndKeys
  <1>2. CASE DisplayInterrupt
    BY <1>2 DEF DisplayInterrupt, keyboard, Promise!consoleVars
  <1>3. CASE UNCHANGED vars
    BY <1>3 DEF vars, keyboard, display, Promise!consoleVars
  <1> QED BY <1>1, <1>2, <1>3, TypeRefines, KeyboardRefines, GetCharRefines,
          CallGetCharRefines, CallPutCharRefines, PutCharRefines, InnerRefines
          DEF Next, Inside

\* Every key goes to one GetChar, in the order typed; EOF comes after the
\* last of them; PutChar shows its character before it returns.
THEOREM SynchConsoleImplements == Spec => ImplementsConsole
  <1>1. Init => Promise!ConsoleInit
    BY DEF Init, Promise!ConsoleInit
  <1> QED BY <1>1, NextRefines, CoreCorrect, PTL
          DEF Spec, ImplementsConsole, Promise!ConsoleSafety

=============================================================================
