---------------------------- MODULE SystemCalls ----------------------------
(***************************************************************************)
(* ExceptionHandler (exception.cc): every system call of the kernel, those  *)
(* on files as FileTable has them and those on numbers, characters and       *)
(* strings here.  What is typed comes with the call; characters are their    *)
(* codes, so that a digit d is Zero + d.  As in FileTable a call leaves its   *)
(* result in register 2, bytes in the program's memory (received) and         *)
(* characters on the console (shown); a call without a result leaves there    *)
(* its own number.                                                           *)
(***************************************************************************)
EXTENDS FileTable

CONSTANTS
  MaxInt,              \* 2^31 - 1
  NumBuffer,           \* bytes for a number that is read, 20
  PrintBuffer,         \* bytes for a number that is printed, 12
  CharBuffer,          \* bytes for a character that is read, 10
  MaxString,           \* MAX_LENGTH_STRINH_SYS, the longest string printed
  Leftovers,           \* what may lie in memory behind the characters ReadNum stores
  Typed,               \* what may be typed in one call, without its newline
  Strings              \* strings in the memory of the program

ASSUME SystemCallsAssumption ==
  /\ MaxInt \in Nat
  /\ CharBuffer \in Nat
  /\ Typed \subseteq Seq(Int)

Zero == 48
Minus == 45
Dot == 46
EOF == -1
MinInt == -MaxInt - 1
Numbers == MinInt .. MaxInt
Digits == Zero .. Zero + 9
StringSizes == 0 .. CharBuffer
LeastOf(S) == CHOOSE x \in S : \A y \in S : x <= y

\* The characters of a C string, up to its NUL.
CString(buffer) ==
  LET nuls == {k \in DOMAIN buffer : buffer[k] = 0}
  IN  IF nuls = {} THEN buffer ELSE SubSeq(buffer, 1, LeastOf(nuls) - 1)

-----------------------------------------------------------------------------
(* Numbers *)

\* What the digits of a text are worth.
ValueOf(digits) ==
  LET re[k \in 0 .. Len(digits)] ==
        IF k = 0 THEN 0 ELSE re[k - 1] * 10 + (digits[k] - Zero)
  IN  re[Len(digits)]

\* The loop of ReadNum over its text.  A double holds the digits exactly; those
\* behind the point are divided as ints and count for nothing; and the cast of
\* a value that is no int gives MinInt on the x86.
Converted(text) ==
  LET body == IF text # <<>> /\ text[1] = Minus THEN Tail(text) ELSE text
      dots == {k \in DOMAIN body : body[k] = Dot}
      whole == IF dots = {} THEN body ELSE SubSeq(body, 1, LeastOf(dots) - 1)
      value == IF body = text THEN ValueOf(whole) ELSE -ValueOf(whole)
  IN  IF Cardinality(dots) > 1 \/ \E k \in DOMAIN body : body[k] \notin Digits \cup {Dot}
        THEN 0
      ELSE IF value \in Numbers THEN value ELSE MinInt

\* The digits of sprintf("%d"), for every number without its sign.
DigitsOf[k \in 0 .. MaxInt + 1] ==
  IF k < 10 THEN <<Zero + k>> ELSE Append(DigitsOf[k \div 10], Zero + (k % 10))

\* Wrong variant of Shown, refused by NumbersReadBack.
ShownWithoutSign(n) == DigitsOf[IF n < 0 THEN -n ELSE n]

\* sprintf("%d") of PrintNum.
Shown(n) == IF n < 0 THEN <<Minus>> \o DigitsOf[-n] ELSE DigitsOf[n]

\* The number furthest from 0 fits both buffers, with a NUL where one is written.
ASSUME BuffersAssumption ==
  /\ PrintBuffer \in Nat /\ Len(Shown(MinInt)) < PrintBuffer
  /\ NumBuffer \in Nat /\ Len(Shown(MinInt)) <= NumBuffer

\* Return, from a call that gives the program bytes or characters as well.
Gives(r, bytes, characters) ==
  /\ result' = r /\ received' = bytes /\ shown' = characters
  /\ UNCHANGED <<dir, data, ListFile, crashed>>

\* Kernel::EH_ReadNum: the line is stored without a NUL behind it, so that what
\* lies there belongs to the text; a longer one than the buffer overruns the heap.
EH_ReadNum(line) ==
  \/ \E left \in Leftovers : Gives(Converted(CString(line \o left)), <<>>, <<>>)
  \/ Len(line) > NumBuffer /\ Crash

\* Kernel::PrintNum
PrintNum(n) == Gives(47, <<>>, Shown(n))

-----------------------------------------------------------------------------
(* Characters and strings *)

\* Kernel::EH_ReadChar: up to a NUL, a newline or the end of its buffer, whose
\* last character it drops; what follows stays typed.
EH_ReadChar(line) ==
  LET text == CString(line)
      n == Minimum(Len(text), CharBuffer - 1)
  IN  Gives(IF n = 1 THEN text[1] ELSE 0, <<>>, <<>>)

\* SC_ReadString and ReadString2KeyBoard: up to size - 1 characters of the line,
\* copied without the NUL that is put behind them.
ReadString(size, line) ==
  LET ends == {k \in DOMAIN line : line[k] = EOF}
      n == Minimum(IF ends = {} THEN Len(line) ELSE LeastOf(ends) - 1,
                   Maximum(size - 1, 0))
  IN  Gives(44, System2User(SubSeq(line, 1, n)), <<>>)

\* SC_PrintString and PrintString2Console
PrintString(string) ==
  Gives(45, <<>>, CString(SubSeq(string, 1, Minimum(Len(string), MaxString))))

EH_PrintChar(character) == Gives(50, <<>>, <<character>>)

-----------------------------------------------------------------------------
(* The other calls *)

Wrapped(n) == ((n - MinInt) % (MaxInt - MinInt + 1)) + MinInt
SysAdd(op1, op2) == Gives(Wrapped(op1 + op2), <<>>, <<>>)
SysSub(op1, op2) == Gives(Wrapped(op1 - op2), <<>>, <<>>)
RandomNum == \E num \in 0 .. 99 : Gives(num, <<>>, <<>>)

\* SC_Halt, and an address outside the space in any call that has one: the
\* exception inside the handler stops the machine as well.
SysHalt == Crash

ConsoleNext ==
  \/ \E line \in Typed :
       \/ EH_ReadNum(line)
       \/ EH_ReadChar(line)
       \/ \E size \in StringSizes : ReadString(size, line)
  \/ \E n \in Numbers : PrintNum(n)
  \/ \E op1, op2 \in {MinInt, -1, MaxInt} : SysAdd(op1, op2) \/ SysSub(op1, op2)
  \/ \E string \in Strings : PrintString(string) \/ EH_PrintChar(string[1])
  \/ RandomNum
  \/ SysHalt

CallsNext == Next \/ (~crashed /\ ConsoleNext)
CallsSpec == Init /\ [][CallsNext]_vars

-----------------------------------------------------------------------------
(* Properties *)

\* A number that PrintNum has shown, typed again, is the one that ReadNum reads,
\* the two ends of the range included, as long as nothing is left in memory
\* behind its digits; and with its sign it fits both buffers, its NUL included
\* where one is written.
NumbersReadBack ==
  [][shown' # <<>> => \A n \in Numbers : PrintNum(n) =>
       /\ Converted(CString(shown' \o <<0>>)) = n
       /\ Len(shown') < PrintBuffer /\ Len(shown') <= NumBuffer]_vars

\* A call that fails has changed neither a file, nor the directory, nor the
\* table, whatever it had done before it met the failure.
FailedCallsChangeNothing ==
  [][result' < 0 => UNCHANGED <<dir, data, ListFile>>]_vars
=============================================================================
