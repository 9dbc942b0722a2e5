---------------------------- MODULE AbstractMips ----------------------------
(***************************************************************************)
(* The processor a user program is written for ("User programs shouldn't   *)
(* be able to tell that they are running on our simulator or on the real   *)
(* hardware", machine.h): whole instructions one after the other, in the    *)
(* arithmetic of the integers, on a flat memory of its own, each load       *)
(* done when its instruction is.  What real programs must not do because    *)
(* the hardware leaves it open (use a register in the slot behind its load, *)
(* branch in the slot behind a branch) is not described.  In one place the  *)
(* simulator is not that processor, and both results are allowed: see        *)
(* SimulatedShift.                                                           *)
(***************************************************************************)
EXTENDS Words, FiniteSets

CONSTANTS
  Registers, StackReg, RetAddrReg,   \* 0..31, 29, 31
  TargetBits,      \* bits of the target of a jump (26)
  StackGap,        \* 16
  Instructions,    \* the instructions programs consist of
  Results,         \* results of system calls
  Programs         \* memory images: [0 .. size of the space - 1 -> Byte]
VARIABLES instr,     \* the instruction executed last
          mode,      \* "off", "user", "system" (in a system call), "halted"
          r, hi, lo, \* registers; r[0] is always 0
          pc, npc,   \* the instruction to execute and the one behind it
          memory     \* [0 .. size of the space - 1 -> Byte]
amVars == <<instr, mode, r, hi, lo, pc, npc, memory>>

AInit == mode \in {"off", "user"}

InMemory(a, size) == a % size = 0 /\ a + size - 1 \in DOMAIN memory
Set(reg, value) == IF reg = 0 THEN r ELSE [r EXCEPT ![reg] = Wrap(value)]
Flow(target) == pc' = npc /\ npc' = Wrap(target)
Next4 == Flow(npc + 4)

\* The value an instruction computes for its destination register.
Floor(s) == s % WordBits
BitwiseOf(f(_, _), x, y) ==
  LET sum[k \in 0..WordBits] ==
        IF k = WordBits THEN 0
        ELSE f((x \div 2^k) % 2, (y \div 2^k) % 2) * 2^k + sum[k + 1]
  IN  sum[0]
And(p, q) == p * q
Or(p, q)  == IF p + q > 0 THEN 1 ELSE 0
Xor(p, q) == (p + q) % 2
Truth(b)  == IF b THEN 1 ELSE 0

Result(i) ==
  LET x == r[i.rs]  y == r[i.rt]  k == i.extra  imm == i.extra % Half IN
  CASE i.op \in {"ADD", "ADDU"}   -> Signed(x) + Signed(y)
    [] i.op \in {"ADDI", "ADDIU"} -> Signed(x) + Signed(k)
    [] i.op \in {"SUB", "SUBU"}   -> Signed(x) - Signed(y)
    [] i.op = "AND"   -> BitwiseOf(And, x, y)
    [] i.op = "ANDI"  -> BitwiseOf(And, x, imm)
    [] i.op = "OR"    -> BitwiseOf(Or, x, y)
    [] i.op = "ORI"   -> BitwiseOf(Or, x, imm)
    [] i.op = "XOR"   -> BitwiseOf(Xor, x, y)
    [] i.op = "XORI"  -> BitwiseOf(Xor, x, imm)
    [] i.op = "NOR"   -> -1 - BitwiseOf(Or, x, y)
    [] i.op = "SLT"   -> Truth(Signed(x) < Signed(y))
    [] i.op = "SLTI"  -> Truth(Signed(x) < Signed(k))
    [] i.op = "SLTU"  -> Truth(x < y)
    [] i.op = "SLTIU" -> Truth(x < k)
    [] i.op = "SLL"   -> y * 2^k
    [] i.op = "SLLV"  -> y * 2^Floor(x)
    [] i.op = "SRA"   -> Signed(y) \div 2^k
    [] i.op = "SRAV"  -> Signed(y) \div 2^Floor(x)
    [] i.op = "SRL"   -> y \div 2^k
    [] i.op = "SRLV"  -> y \div 2^Floor(x)
    [] i.op = "LUI"   -> imm * Half
    [] i.op = "MFHI"  -> hi
    [] i.op = "MFLO"  -> lo

\* The manual shifts zeros in from the left at SRL and SRLV, as Result does; the
\* simulator shifts an int (mipssim.cc, tmp), and a word with its sign bit set is
\* filled with ones, as by SRA.  For all other words this is the same result.
SimulatedShift(i) ==
  CASE i.op = "SRL"  -> {Signed(r[i.rt]) \div 2^i.extra}
    [] i.op = "SRLV" -> {Signed(r[i.rt]) \div 2^Floor(r[i.rs])}
    [] OTHER -> {}

Immediate == {"ADDI", "ADDIU", "ANDI", "ORI", "XORI", "SLTI", "SLTIU", "LUI"}
ThreeRegister == {"ADD", "ADDU", "SUB", "SUBU", "AND", "OR", "XOR", "NOR", "SLT",
                  "SLTU", "SLL", "SLLV", "SRA", "SRAV", "SRL", "SRLV", "MFHI", "MFLO"}
Trapping == {"ADD", "ADDI", "SUB"}   \* signed arithmetic that may overflow

Compute(i) ==
  /\ i.op \in Immediate \cup ThreeRegister
  /\ i.op \in Trapping => Result(i) \in SignedRange
  /\ \E value \in {Result(i)} \cup SimulatedShift(i) :
       r' = Set(IF i.op \in Immediate THEN i.rt ELSE i.rd, value)
  /\ Next4
  /\ UNCHANGED <<mode, hi, lo, memory>>

\* Quotient rounded towards 0 and remainder with the sign of the dividend.
Quotient(a, b) ==
  LET q == (IF a < 0 THEN -a ELSE a) \div (IF b < 0 THEN -b ELSE b)
  IN  IF (a < 0) = (b < 0) THEN q ELSE -q

HiLo(i) ==
  LET a == IF i.op \in {"MULT", "DIV"} THEN Signed(r[i.rs]) ELSE r[i.rs]
      b == IF i.op \in {"MULT", "DIV"} THEN Signed(r[i.rt]) ELSE r[i.rt]
  IN
  /\ \/ /\ i.op \in {"MULT", "MULTU"}
        /\ hi' = Wrap((a * b) \div 2^WordBits) /\ lo' = Wrap(a * b)
     \/ /\ i.op \in {"DIV", "DIVU"}
        /\ b = 0 \/ Quotient(a, b) \in SignedRange \/ i.op = "DIVU"
        /\ lo' = IF b = 0 THEN 0 ELSE Wrap(Quotient(a, b))
        /\ hi' = IF b = 0 THEN 0 ELSE Wrap(a - b * Quotient(a, b))
     \/ i.op = "MTHI" /\ hi' = r[i.rs] /\ lo' = lo
     \/ i.op = "MTLO" /\ lo' = r[i.rs] /\ hi' = hi
  /\ Next4
  /\ UNCHANGED <<mode, r, memory>>

\* A branch or jump takes effect behind the instruction that follows it.
Taken(i) ==
  LET x == Signed(r[i.rs]) IN
  CASE i.op = "BEQ" -> r[i.rs] = r[i.rt]
    [] i.op = "BNE" -> r[i.rs] # r[i.rt]
    [] i.op \in {"BGEZ", "BGEZAL"} -> x >= 0
    [] i.op \in {"BLTZ", "BLTZAL"} -> x < 0
    [] i.op = "BGTZ" -> x > 0
    [] i.op = "BLEZ" -> x <= 0
    [] OTHER -> FALSE

Linking == {"BGEZAL", "BLTZAL", "JAL"}

Branch(i) ==
  /\ i.op \in {"BEQ", "BNE", "BGEZ", "BGEZAL", "BLTZ", "BLTZAL", "BGTZ", "BLEZ",
               "J", "JAL", "JR", "JALR"}
  /\ CASE i.op \in {"J", "JAL"} ->
            Flow(npc - (npc % 2^(TargetBits + 2)) + 4 * i.extra)
       [] i.op \in {"JR", "JALR"} -> Flow(r[i.rs])
       [] OTHER -> IF Taken(i) THEN Flow(npc + 4 * i.extra) ELSE Next4
  /\ r' = CASE i.op \in Linking -> Set(RetAddrReg, npc + 4)
            [] i.op = "JALR"    -> Set(i.rd, npc + 4)
            [] OTHER            -> r
  /\ UNCHANGED <<mode, hi, lo, memory>>

Size(op) == CASE op \in {"LB", "LBU", "SB"} -> 1
              [] op \in {"LH", "LHU", "SH"} -> 2
              [] OTHER -> 4
Address(i) == Wrap(r[i.rs] + i.extra)
\* The bytes LWL and SWL (LWR and SWR) move: those of the aligned word at or
\* below (at or above) the address, to or from the top (bottom) of the register.
Left(a) == a - (a % 4) .. a
Right(a) == a .. a - (a % 4) + 3

Load(i) ==
  LET a == Address(i)
      whole == Assembled(memory, a, Size(i.op))
      merged(moved, shift) ==
        Assembled([k \in 0..3 |-> IF a + k - shift \in moved
                                    THEN memory[a + k - shift]
                                    ELSE ByteAt(r[i.rt], k)], 0, 4)
  IN
  /\ \/ /\ i.op \in {"LB", "LBU", "LH", "LHU", "LW"}
        /\ InMemory(a, Size(i.op))
        /\ r' = Set(i.rt, IF i.op \in {"LB", "LH"}
                            THEN SignExtended(whole, Size(i.op)) ELSE whole)
     \/ i.op = "LWL" /\ Left(a) \subseteq DOMAIN memory
                     /\ r' = Set(i.rt, merged(Left(a), 3))
     \/ i.op = "LWR" /\ Right(a) \subseteq DOMAIN memory
                     /\ r' = Set(i.rt, merged(Right(a), 0))
  /\ Next4
  /\ UNCHANGED <<mode, hi, lo, memory>>

Store(i) ==
  LET a == Address(i)
      stored(moved, shift) ==
        [b \in DOMAIN memory |->
           IF b \in moved THEN ByteAt(r[i.rt], b - a + shift) ELSE memory[b]]
  IN
  /\ \/ /\ i.op \in {"SB", "SH", "SW"}
        /\ InMemory(a, Size(i.op))
        /\ memory' = stored(a .. a + Size(i.op) - 1, 0)
     \/ i.op = "SWL" /\ Left(a) \subseteq DOMAIN memory
                     /\ memory' = stored(Left(a), 3)
     \/ i.op = "SWR" /\ Right(a) \subseteq DOMAIN memory
                     /\ memory' = stored(Right(a), 0)
  /\ Next4
  /\ UNCHANGED <<mode, r, hi, lo>>

\* What cannot be executed stops the program (the kernel has no other answer):
\* a wrong address, an overflow, an instruction the processor does not have.
Accesses(i) ==
  LET a == Address(i) IN
  CASE i.op \in {"LB", "LBU", "LH", "LHU", "LW", "SB", "SH", "SW"} ->
         InMemory(a, Size(i.op))
    [] i.op \in {"LWL", "LWR", "SWL", "SWR"} -> a \in DOMAIN memory
    [] OTHER -> TRUE
Faults(i) ==
  /\ \/ ~Accesses(i)
     \/ i.op \in Trapping /\ Result(i) \notin SignedRange
     \/ i.op = "DIV" /\ r[i.rt] # 0
                     /\ Quotient(Signed(r[i.rs]), Signed(r[i.rt])) \notin SignedRange
     \/ i.op \in {"RES", "UNIMP"}
  /\ mode' = "halted"
  /\ UNCHANGED <<r, hi, lo, pc, npc, memory>>

Execute(i) ==
  /\ mode = "user" /\ InMemory(pc, 4)
  /\ \/ Compute(i) \/ HiLo(i) \/ Branch(i) \/ Load(i) \/ Store(i)
     \/ /\ i.op = "SYSCALL"
        /\ mode' = "system" /\ UNCHANGED <<r, hi, lo, pc, npc, memory>>
     \/ Faults(i)
OutOfMemory ==
  /\ mode = "user" /\ ~InMemory(pc, 4)
  /\ mode' = "halted" /\ UNCHANGED <<r, hi, lo, pc, npc, memory>>

\* A system call may change the program's memory and its result register, and
\* goes on behind its instruction; or it is made again, or stops the machine.
Returns(result) ==
  /\ mode = "system" /\ mode' = "user"
  /\ r' = Set(2, result)
  /\ pc' = Wrap(pc + 4) /\ npc' = Wrap(pc + 8)
  /\ UNCHANGED <<hi, lo, memory>>
MadeAgain == mode = "system" /\ mode' = "user" /\ UNCHANGED <<r, hi, lo, pc, npc, memory>>
Writes(a, byte) ==
  /\ mode = "system" /\ a \in DOMAIN memory
  /\ memory' = [memory EXCEPT ![a] = byte]
  /\ UNCHANGED <<mode, r, hi, lo, pc, npc>>
Stops ==
  /\ mode \in {"off", "system"} /\ mode' = "halted"
  /\ UNCHANGED <<r, hi, lo, pc, npc, memory>>

\* A program starts at address 0 with its image in memory, every byte outside
\* the image 0, and its stack pointer StackGap below the end of its memory.
Start(program) ==
  /\ mode = "off" /\ mode' = "user"
  /\ memory' = program
  /\ r' = [q \in Registers |->
             IF q = StackReg THEN Cardinality(DOMAIN program) - StackGap ELSE 0]
  /\ hi' = 0 /\ lo' = 0 /\ pc' = 0 /\ npc' = 4

ANext ==
  \/ \E program \in Programs : Start(program)
  \/ instr' \in Instructions /\ Execute(instr')
  \/ OutOfMemory
  \/ \E result \in Results : Returns(result)
  \/ \E a \in DOMAIN memory, byte \in Byte : Writes(a, byte)
  \/ MadeAgain
  \/ Stops

ASpec == AInit /\ [][ANext]_amVars
=============================================================================
