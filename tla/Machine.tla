------------------------------ MODULE Machine ------------------------------
(***************************************************************************)
(* The simulated MIPS processor and the address space of the one user      *)
(* program: machine/mipssim.cc, machine.cc, translate.cc and               *)
(* userprog/addrspace.cc, with the part of userprog/exception.cc that      *)
(* answers faults and with the return from a system call.                   *)
(*                                                                         *)
(* A step of the user program is one call of OneInstruction; between two of *)
(* them OneTick may run interrupt handlers, which first complete the load   *)
(* in progress.  The word fetched is any instruction of Instructions: what  *)
(* the code in memory is, is not modelled, only that it is fetched through  *)
(* the page table.  PrevPCReg, which nothing reads, is left out.            *)
(***************************************************************************)
EXTENDS Words, Sequences, FiniteSets

CONSTANTS
  NumGPRegs, StackReg, RetAddrReg,   \* 32, 29 and 31
  TargetBits,                        \* 26
  PageSize, NumPhysPages,            \* 128 and 128
  UserStackSize, StackGap,           \* 1024, and the 16 bytes above the stack
  BitAnd(_, _), BitOr(_, _), BitXor(_, _),   \* &, | and ^ of the host
  Instructions,                      \* what OneInstruction may fetch
  Results,                           \* results of system calls
  NoffFiles,                         \* object files Load is called with
  Running                            \* states of programs in the middle of a run

\* Pages of whole words, a memory that words can address, a stack with room for
\* the gap; the upper bits of a jump's target are those of the pc.
ASSUME MachineAssumption ==
  /\ PageSize \in Nat \ {0} /\ PageSize % 4 = 0 /\ NumPhysPages \in Nat
  /\ NumPhysPages * PageSize <= 2^WordBits
  /\ UserStackSize \in Nat /\ StackGap \in 1..UserStackSize
  /\ NumGPRegs \in Nat /\ {0, 2, RetAddrReg} \subseteq 0..NumGPRegs - 1
  /\ StackReg \in 1..NumGPRegs - 1
  /\ TargetBits \in Nat /\ TargetBits + 2 <= WordBits
  /\ Results \subseteq Word
  /\ \A x, y \in Word :
       BitAnd(x, y) \in Word /\ BitOr(x, y) \in Word /\ BitXor(x, y) \in Word

VARIABLES
  registers,      \* general registers gp and the special ones, by their names
  mainMemory,     \* [0..MemorySize-1 -> Byte]
  pageTable,      \* translation of each virtual page
  pageTableSize,  \* numPages of the address space
  status,         \* "boot", "loaded", "user", "system" or "halted"
  instr,          \* Run's Instruction, the one decoded last
  fuel            \* instructions left to execute (bounds the run)
machineVars == <<registers, mainMemory, pageTable, pageTableSize, status, instr, fuel>>

MemorySize == NumPhysPages * PageSize
GPRegs == 0..NumGPRegs - 1
Exceptions == {"PageFault", "ReadOnly", "BusError", "AddressError", "Overflow",
               "IllegalInstr", "Syscall"}

-----------------------------------------------------------------------------
(* Address translation: translate.cc *)

VirtualPage(addr) == addr \div PageSize

\* Wrong variant of Translate, refused by OneMemoryForBoth.
TranslateOnePageMore(addr, size, writing) ==
  LET vpn == VirtualPage(addr) IN
  IF addr % size # 0 \/ vpn > pageTableSize THEN "AddressError"
  ELSE IF pageTable[vpn].readOnly /\ writing THEN "ReadOnly" ELSE "NoException"

Translate(addr, size, writing) ==
  LET vpn == VirtualPage(addr) IN
  IF addr % size # 0 \/ vpn >= pageTableSize THEN "AddressError"
  ELSE IF ~pageTable[vpn].valid THEN "PageFault"
  ELSE IF pageTable[vpn].readOnly /\ writing THEN "ReadOnly"
  ELSE IF pageTable[vpn].physicalPage >= NumPhysPages THEN "BusError"
  ELSE "NoException"

PhysAddr(addr) == pageTable[VirtualPage(addr)].physicalPage * PageSize + (addr % PageSize)

\* The table after a translation that succeeded: the use and dirty bits.
Touched(table, addr, writing) ==
  [table EXCEPT ![VirtualPage(addr)].use = TRUE,
                ![VirtualPage(addr)].dirty = @ \/ writing]

\* AddrSpace::Translate, for the kernel: no check of alignment and of valid.
SpaceTranslate(addr, writing) ==
  LET vpn == VirtualPage(addr) IN
  IF vpn >= pageTableSize THEN "AddressError"
  ELSE IF pageTable[vpn].readOnly /\ writing THEN "ReadOnly"
  ELSE IF pageTable[vpn].physicalPage >= NumPhysPages THEN "BusError"
  ELSE "NoException"

-----------------------------------------------------------------------------
(* The effect of an instruction as a record: the registers, memory and page *)
(* table it leaves, the pc after the next instruction, the load it starts,  *)
(* and the exception it raises.                                             *)

Fetched ==   \* once the instruction is fetched
  [exception |-> "NoException", badVAddr |-> 0, regs |-> registers,
   memory |-> mainMemory, table |-> Touched(pageTable, registers.pc, FALSE),
   pcAfter |-> Wrap(registers.nextPC + 4), loadReg |-> 0, loadValue |-> 0]

Raises(e, exception, addr) == [e EXCEPT !.exception = exception, !.badVAddr = addr]
SetReg(e, reg, value) == [e EXCEPT !.regs.gp[reg] = Wrap(value)]

\* ReadMem and WriteMem: the effect e with the access made or its exception.
Reading(e, addr, size) ==
  LET x == Translate(addr, size, FALSE) IN
  IF x # "NoException" THEN Raises(e, x, addr)
  ELSE [e EXCEPT !.table = Touched(@, addr, FALSE)]
ReadMem(addr, size) == Assembled(mainMemory, PhysAddr(addr), size)

\* Wrong variant of WriteMem, refused by ChangesAreNoted.
WriteMemAsRead(e, addr, size, value) ==
  [e EXCEPT !.table = Touched(@, addr, FALSE),
            !.memory = [b \in DOMAIN @ |->
               IF b - PhysAddr(addr) \in 0..size - 1
                 THEN ByteAt(value, b - PhysAddr(addr)) ELSE @[b]]]

WriteMem(e, addr, size, value) ==
  LET x == Translate(addr, size, TRUE) IN
  IF x # "NoException" THEN Raises(e, x, addr)
  ELSE [e EXCEPT !.table = Touched(@, addr, TRUE),
                 !.memory = [b \in DOMAIN @ |->
                    IF b - PhysAddr(addr) \in 0..size - 1
                      THEN ByteAt(value, b - PhysAddr(addr)) ELSE @[b]]]

GP(reg) == registers.gp[reg]
Rs(i) == GP(i.rs)
Rt(i) == GP(i.rt)
IndexToAddr(x) == 4 * x

\* The trap on overflow looks at sign bits only.
Signs(i) ==
  LET e == Fetched  sum == Wrap(Rs(i) + Rt(i))  sumI == Wrap(Rs(i) + i.extra)
  IN
  CASE i.op = "ADD" ->
         IF SignBit(Rs(i)) = SignBit(Rt(i)) /\ SignBit(Rs(i)) # SignBit(sum)
           THEN Raises(e, "Overflow", 0) ELSE SetReg(e, i.rd, sum)
    [] i.op = "ADDI" ->
         IF SignBit(Rs(i)) = SignBit(i.extra) /\ SignBit(i.extra) # SignBit(sumI)
           THEN Raises(e, "Overflow", 0) ELSE SetReg(e, i.rt, sumI)
    [] i.op = "ADDIU" -> SetReg(e, i.rt, sumI)
    [] i.op = "ADDU"  -> SetReg(e, i.rd, sum)
    [] i.op = "AND"   -> SetReg(e, i.rd, BitAnd(Rs(i), Rt(i)))
    [] i.op = "ANDI"  -> SetReg(e, i.rt, BitAnd(Rs(i), i.extra % Half))

Branches(i) ==
  LET link == IF i.op \in {"BGEZAL", "BLTZAL"}
                THEN SetReg(Fetched, RetAddrReg, registers.nextPC + 4) ELSE Fetched
      \* the register is read after the link is written
      x == link.regs.gp[i.rs]
      taken ==
        CASE i.op = "BEQ" -> x = Rt(i)
          [] i.op = "BNE" -> x # Rt(i)
          [] i.op \in {"BGEZ", "BGEZAL"} -> ~SignBit(x)
          [] i.op \in {"BLTZ", "BLTZAL"} -> SignBit(x)
          [] i.op = "BGTZ" -> Signed(x) > 0
          [] i.op = "BLEZ" -> Signed(x) <= 0
  IN  IF taken
        THEN [link EXCEPT !.pcAfter = Wrap(registers.nextPC + IndexToAddr(i.extra))]
        ELSE link

\* A multiple of the first bytes of a word, and the others, for the shifts by bytes.
Low(w, bytes)  == w % 2^(ByteBits * bytes)
Up(w, bytes)   == Wrap(w * 2^(ByteBits * bytes))
Down(w, bytes) == w \div 2^(ByteBits * bytes)
High(w, bytes) == w - (w % 2^(ByteBits * (4 - bytes)))

\* C division: towards 0.  The most negative word by -1 has no quotient, and
\* the host's divide instruction ends the simulator.
HostQuotient(a, b) ==
  LET abs(n) == IF n < 0 THEN -n ELSE n
      q == abs(a) \div abs(b)
  IN  IF (a < 0) = (b < 0) THEN q ELSE -q
Divide(i) ==
  LET a == IF i.op = "DIV" THEN Signed(Rs(i)) ELSE Rs(i)
      b == IF i.op = "DIV" THEN Signed(Rt(i)) ELSE Rt(i)
      q == HostQuotient(a, b)
  IN  IF b = 0 THEN [Fetched EXCEPT !.regs.lo = 0, !.regs.hi = 0]
      ELSE IF i.op = "DIV" /\ q \notin SignedRange THEN Raises(Fetched, "HostTrap", 0)
      ELSE [Fetched EXCEPT !.regs.lo = Wrap(q), !.regs.hi = Wrap(a - q * b)]

Jumps(i) ==
  LET next == Fetched.pcAfter  link == Wrap(registers.nextPC + 4)
      toIndex == (next - (next % 2^(TargetBits + 2))) + IndexToAddr(i.extra)
  IN
  CASE i.op = "J"    -> [Fetched EXCEPT !.pcAfter = toIndex]
    [] i.op = "JAL"  -> [SetReg(Fetched, RetAddrReg, link) EXCEPT !.pcAfter = toIndex]
    [] i.op = "JR"   -> [Fetched EXCEPT !.pcAfter = Rs(i)]
    [] i.op = "JALR" -> LET e == SetReg(Fetched, i.rd, link)
                        IN  [e EXCEPT !.pcAfter = e.regs.gp[i.rs]]

EffAddr(i) == Wrap(Rs(i) + i.extra)
Starts(e, reg, value) == \* a load, done when the next instruction is complete
  IF e.exception # "NoException" THEN e
  ELSE [e EXCEPT !.loadReg = reg, !.loadValue = value]

Loads(i) ==
  LET a == EffAddr(i)
      size == CASE i.op \in {"LB", "LBU"} -> 1 [] i.op \in {"LH", "LHU"} -> 2
                [] i.op = "LW" -> 4
      e == IF a % size # 0 THEN Raises(Fetched, "AddressError", a)
           ELSE Reading(Fetched, a, size)
      value == ReadMem(a, size)
  IN  Starts(e, i.rt, IF e.exception # "NoException" THEN 0
                      ELSE IF i.op \in {"LB", "LH"} THEN SignExtended(value, size)
                      ELSE value)

\* Wrong variant of LoadsPart, refused by ImplementsMips.
LoadsPartOfOld(i) ==
  LET a == EffAddr(i)  byte == a % 4
      e == Reading(Fetched, a - byte, 4)
      value == ReadMem(a - byte, 4)
  IN  Starts(e, i.rt,
        IF e.exception # "NoException" THEN 0
        ELSE IF i.op = "LWL" THEN Low(Rt(i), 3 - byte) + Up(value, 3 - byte)
        ELSE High(Rt(i), byte) + Down(value, byte))

\* LWL and LWR merge with the register, or with the load of it in progress.
LoadsPart(i) ==
  LET a == EffAddr(i)  byte == a % 4
      e == Reading(Fetched, a - byte, 4)
      value == ReadMem(a - byte, 4)
      old == IF registers.load = i.rt THEN registers.loadValue ELSE Rt(i)
  IN  Starts(e, i.rt,
        IF e.exception # "NoException" THEN 0
        ELSE IF i.op = "LWL" THEN Low(old, 3 - byte) + Up(value, 3 - byte)
        ELSE High(old, byte) + Down(value, byte))

\* Mult: one bit of a at a time, b shifted along in the double word bHi, bLo.
MultStep(p) ==
  LET sum == Wrap(p.lo + p.bLo)
      odd == p.a % 2 = 1
  IN  [a |-> p.a \div 2,
       lo |-> IF odd THEN sum ELSE p.lo,
       hi |-> IF odd THEN Wrap(p.hi + p.bHi + (IF sum < p.bLo THEN 1 ELSE 0)) ELSE p.hi,
       bHi |-> Wrap(2 * p.bHi) + (IF SignBit(p.bLo) THEN 1 ELSE 0),
       bLo |-> Wrap(2 * p.bLo)]
Mult(a, b, signedArith) ==
  LET negative == signedArith /\ SignBit(a) # SignBit(b)
      abs(w) == IF signedArith /\ SignBit(w) THEN Wrap(-w) ELSE w
      loop[k \in 0..WordBits] ==
        IF k = 0 THEN [a |-> abs(a), bLo |-> abs(b), bHi |-> 0, lo |-> 0, hi |-> 0]
        ELSE MultStep(loop[k - 1])
      r == loop[WordBits]
      not(w) == 2^WordBits - 1 - w
      lo == Wrap(not(r.lo) + 1)
  IN  IF a = 0 \/ b = 0 THEN [hi |-> 0, lo |-> 0]
      ELSE IF ~negative THEN [hi |-> r.hi, lo |-> r.lo]
      ELSE [hi |-> Wrap(not(r.hi) + (IF lo = 0 THEN 1 ELSE 0)), lo |-> lo]

Moves(i) ==
  LET product == Mult(Rs(i), Rt(i), i.op = "MULT") IN
  CASE i.op = "MFHI" -> SetReg(Fetched, i.rd, registers.hi)
    [] i.op = "MFLO" -> SetReg(Fetched, i.rd, registers.lo)
    [] i.op = "MTHI" -> [Fetched EXCEPT !.regs.hi = Rs(i)]
    [] i.op = "MTLO" -> [Fetched EXCEPT !.regs.lo = Rs(i)]
    [] i.op \in {"MULT", "MULTU"} ->
         [Fetched EXCEPT !.regs.hi = product.hi, !.regs.lo = product.lo]

Logical(i) ==
  CASE i.op = "NOR"  -> SetReg(Fetched, i.rd, 2^WordBits - 1 - BitOr(Rs(i), Rt(i)))
    [] i.op = "OR"   -> SetReg(Fetched, i.rd, BitOr(Rs(i), Rt(i)))
    [] i.op = "ORI"  -> SetReg(Fetched, i.rt, BitOr(Rs(i), i.extra % Half))
    [] i.op = "XOR"  -> SetReg(Fetched, i.rd, BitXor(Rs(i), Rt(i)))
    [] i.op = "XORI" -> SetReg(Fetched, i.rt, BitXor(Rs(i), i.extra % Half))
    [] i.op = "LUI"  -> SetReg(Fetched, i.rt, i.extra * Half)

Stores(i) ==
  WriteMem(Fetched, EffAddr(i),
           CASE i.op = "SB" -> 1 [] i.op = "SH" -> 2 [] i.op = "SW" -> 4, Rt(i))

\* << and >> of C ints: >> of a negative int fills with the sign.  tmp, which
\* SRL and SRLV shift, is an int as well.
Shifts(i) ==
  LET amount == IF i.op \in {"SLL", "SRA", "SRL"} THEN i.extra ELSE Rs(i) % WordBits
  IN  SetReg(Fetched, i.rd, IF i.op \in {"SLL", "SLLV"} THEN Rt(i) * 2^amount
                            ELSE Signed(Rt(i)) \div 2^amount)

Compares(i) ==
  LET one(b) == IF b THEN 1 ELSE 0 IN
  CASE i.op = "SLT"   -> SetReg(Fetched, i.rd, one(Signed(Rs(i)) < Signed(Rt(i))))
    [] i.op = "SLTI"  -> SetReg(Fetched, i.rt, one(Signed(Rs(i)) < Signed(i.extra)))
    [] i.op = "SLTIU" -> SetReg(Fetched, i.rt, one(Rs(i) < i.extra))
    [] i.op = "SLTU"  -> SetReg(Fetched, i.rd, one(Rs(i) < Rt(i)))

Subtracts(i) ==
  LET diff == Wrap(Rs(i) - Rt(i)) IN
  IF i.op = "SUB" /\ SignBit(Rs(i)) # SignBit(Rt(i)) /\ SignBit(Rs(i)) # SignBit(diff)
    THEN Raises(Fetched, "Overflow", 0) ELSE SetReg(Fetched, i.rd, diff)

\* SWL and SWR read the aligned word, merge, and write it back.
StoresPart(i) ==
  LET a == EffAddr(i)  byte == a % 4
      read == Reading(Fetched, a - byte, 4)
      value == ReadMem(a - byte, 4)
      merged == IF i.op = "SWL" THEN High(value, 3 - byte) + Down(Rt(i), 3 - byte)
                ELSE Low(value, byte) + Up(Rt(i), byte)
  IN  IF read.exception # "NoException" THEN read
      ELSE WriteMem(read, a - byte, 4, merged)

Groups == [arithmetic |-> {"ADD", "ADDI", "ADDIU", "ADDU", "AND", "ANDI"},
           branch     |-> {"BEQ", "BNE", "BGEZ", "BGEZAL", "BLTZ", "BLTZAL", "BGTZ", "BLEZ"},
           jump       |-> {"J", "JAL", "JR", "JALR"},
           load       |-> {"LB", "LBU", "LH", "LHU", "LW"},
           move       |-> {"MFHI", "MFLO", "MTHI", "MTLO", "MULT", "MULTU"},
           logical    |-> {"NOR", "OR", "ORI", "XOR", "XORI", "LUI"},
           shift      |-> {"SLL", "SLLV", "SRA", "SRAV", "SRL", "SRLV"},
           compare    |-> {"SLT", "SLTI", "SLTIU", "SLTU"}]

Effect(i) ==
  CASE i.op \in Groups.arithmetic -> Signs(i)
    [] i.op \in Groups.branch     -> Branches(i)
    [] i.op \in {"DIV", "DIVU"}   -> Divide(i)
    [] i.op \in Groups.jump       -> Jumps(i)
    [] i.op \in Groups.load       -> Loads(i)
    [] i.op \in {"LWL", "LWR"}    -> LoadsPart(i)
    [] i.op \in Groups.move       -> Moves(i)
    [] i.op \in Groups.logical    -> Logical(i)
    [] i.op \in {"SB", "SH", "SW"} -> Stores(i)
    [] i.op \in Groups.shift      -> Shifts(i)
    [] i.op \in Groups.compare    -> Compares(i)
    [] i.op \in {"SUB", "SUBU"}   -> Subtracts(i)
    [] i.op \in {"SWL", "SWR"}    -> StoresPart(i)
    [] i.op = "SYSCALL"           -> Raises(Fetched, "Syscall", 0)
    [] i.op \in {"RES", "UNIMP"}  -> Raises(Fetched, "IllegalInstr", 0)

\* What Decode makes of a word of memory: the fields it cuts out of it, the
\* immediate one with its sign extended, have their widths.
Operations == (UNION {Groups[g] : g \in DOMAIN Groups}) \cup
  {"DIV", "DIVU", "LWL", "LWR", "SB", "SH", "SW", "SUB", "SUBU", "SWL", "SWR",
   "SYSCALL", "RES", "UNIMP"}
ASSUME DecodeAssumption ==
  /\ Instructions \subseteq
       [op : Operations, rs : GPRegs, rt : GPRegs, rd : GPRegs, extra : Word]
  /\ \A i \in Instructions :
       /\ i.op \in {"SLL", "SRA", "SRL"} => i.extra < WordBits
       /\ i.op \in {"J", "JAL"} => i.extra < 2^TargetBits

-----------------------------------------------------------------------------
(* The machine *)

\* Complete the load in progress and note the next one; register 0 stays 0.
DelayedLoad(regs, reg, value) ==
  [regs EXCEPT !.gp = [@ EXCEPT ![regs.load] = regs.loadValue, ![0] = 0],
               !.load = reg, !.loadValue = value]

\* Wrong variant of RaiseException, refused by MachineInv.
RaiseExceptionAtOnce(e) ==
  /\ registers' = [registers EXCEPT !.badVAddr = e.badVAddr]
  /\ status' = IF e.exception = "Syscall" THEN "system" ELSE "halted"

\* The kernel is entered with the load in progress completed.  It returns only
\* from a system call: ExceptionHandler answers everything else with SysHalt.
RaiseException(e) ==
  /\ registers' = DelayedLoad([registers EXCEPT !.badVAddr = e.badVAddr], 0, 0)
  /\ status' = IF e.exception = "Syscall" THEN "system" ELSE "halted"

OneInstruction(i) ==
  LET fetch == Translate(registers.pc, 4, FALSE)
      e == IF fetch = "NoException" THEN Effect(i)
           ELSE [exception |-> fetch, badVAddr |-> registers.pc, table |-> pageTable]
  IN
  /\ status = "user" /\ fuel > 0
  /\ fuel' = fuel - 1
  /\ instr' = IF fetch = "NoException" THEN i ELSE instr
  /\ pageTable' = e.table
  /\ \/ /\ e.exception = "NoException"
        /\ registers' = [DelayedLoad(e.regs, e.loadReg, e.loadValue)
                           EXCEPT !.pc = registers.nextPC, !.nextPC = e.pcAfter]
        /\ mainMemory' = e.memory
        /\ UNCHANGED status
     \/ /\ e.exception \in Exceptions
        /\ RaiseException(e)
        /\ UNCHANGED mainMemory
     \/ /\ e.exception = "HostTrap"
        /\ status' = "halted"
        /\ UNCHANGED <<registers, mainMemory>>
  /\ UNCHANGED pageTableSize

\* What a compiler never emits, and MIPS leaves undefined: an instruction in
\* the slot behind a load that uses the register loaded, a branch or system
\* call in the slot behind a branch, and a link register that is also a source.
Uses(i) ==
  IF i.op \in {"J", "JAL", "SYSCALL"} THEN {}
  ELSE {i.rs} \cup (IF i.op \in {"LWL", "LWR", "LB", "LBU", "LH", "LHU", "LW"} THEN {}
                    ELSE {i.rt}) \cup (IF i.op \in Groups.branch THEN {} ELSE {i.rd})
Scheduled(i) ==
  /\ registers.load # 0 =>
       registers.load \notin Uses(i) \cup
         (IF i.op \in {"BGEZAL", "BLTZAL", "JAL"} THEN {RetAddrReg} ELSE {})
  /\ i.op \in Groups.branch \cup Groups.jump \cup {"SYSCALL"} =>
       registers.nextPC = Wrap(registers.pc + 4)
  /\ i.op \in {"BGEZAL", "BLTZAL"} => i.rs # RetAddrReg
  /\ i.op = "JALR" => i.rs # i.rd

\* Run: an instruction, then OneTick, whose CheckIfDue completes the load in
\* progress if an interrupt is due.
RunInstruction == \E i \in Instructions : Scheduled(i) /\ OneInstruction(i)
InterruptDue ==
  /\ status = "user"
  /\ registers' = DelayedLoad(registers, 0, 0)
  /\ UNCHANGED <<mainMemory, pageTable, pageTableSize, status, instr, fuel>>

-----------------------------------------------------------------------------
(* System calls, as far as the machine sees them *)

\* IncreasePC, with the result in r2.
ReturnFromCall(result) ==
  /\ status = "system" /\ status' = "user"
  /\ registers' = [registers EXCEPT !.gp[2] = result,
                                    !.pc = Wrap(@ + 4),
                                    !.nextPC = Wrap(registers.pc + 8)]
  /\ UNCHANGED <<mainMemory, pageTable, pageTableSize, instr, fuel>>

\* An unknown call: the handler returns and has changed nothing.
UnknownCall ==
  /\ status = "system" /\ status' = "user"
  /\ UNCHANGED <<registers, mainMemory, pageTable, pageTableSize, instr, fuel>>

\* SC_Halt, and every call whose handler gives up.
HaltCall ==
  /\ status = "system" /\ status' = "halted"
  /\ UNCHANGED <<registers, mainMemory, pageTable, pageTableSize, instr, fuel>>

\* System2User and User2System go through WriteMem and ReadMem, a byte at a
\* time; an address outside the space is an exception inside the handler.
CopyByte(addr, writing, byte) ==
  LET none == [Fetched EXCEPT !.table = pageTable]   \* no instruction is fetched
      e == IF writing THEN WriteMem(none, addr, 1, byte) ELSE Reading(none, addr, 1)
  IN
  /\ status = "system"
  /\ pageTable' = e.table /\ mainMemory' = e.memory
  /\ IF e.exception = "NoException" THEN UNCHANGED <<registers, status>>
     ELSE RaiseException(e)
  /\ UNCHANGED <<pageTableSize, instr, fuel>>

-----------------------------------------------------------------------------
(* Starting the program: addrspace.cc *)

DivRoundUp(n, s) == (n + s - 1) \div s

\* The size of the space is the sum of the sizes of the segments and the stack.
NumPages(noff) ==
  DivRoundUp(Len(noff.code.bytes) + Len(noff.readonlyData.bytes)
               + Len(noff.initData.bytes) + noff.uninitSize + UserStackSize, PageSize)

\* ReadAt copies a segment to its virtual address, taken for the physical one.
Copied(memory, segment) ==
  [b \in DOMAIN memory |->
     IF b - segment.virtualAddr \in 0..Len(segment.bytes) - 1
       THEN segment.bytes[b - segment.virtualAddr + 1] ELSE memory[b]]

IdentityTable ==
  [p \in 0..NumPhysPages - 1 |->
     [physicalPage |-> p, valid |-> TRUE, use |-> FALSE, dirty |-> FALSE, readOnly |-> FALSE]]

\* new AddrSpace and Load; main halts if the file is missing, and ASSERT aborts
\* if the space is larger than the memory.
Load(noff) ==
  /\ status = "boot" /\ NumPages(noff) <= NumPhysPages
  /\ pageTable' = IdentityTable
  /\ mainMemory' = Copied(Copied(Copied([b \in 0..MemorySize - 1 |-> 0], noff.code),
                                 noff.initData), noff.readonlyData)
  /\ pageTableSize' = NumPages(noff)
  /\ status' = "loaded"
  /\ UNCHANGED <<registers, instr, fuel>>
LoadFails ==
  /\ status = "boot" /\ status' = "halted"
  /\ UNCHANGED <<registers, mainMemory, pageTable, pageTableSize, instr, fuel>>

\* A program of Running has registers and memory of their sizes, with 0 in
\* register 0; segments consist of bytes.
RegisterFile ==
  [gp : [GPRegs -> Word], hi : Word, lo : Word, pc : Word, nextPC : Word,
   load : GPRegs, loadValue : Word, badVAddr : Word]
Memories == [0..MemorySize - 1 -> Byte]
Segment == [virtualAddr : Nat, bytes : Seq(Byte)]
ASSUME ProgramAssumption ==
  /\ NoffFiles \subseteq
       [code : Segment, initData : Segment, readonlyData : Segment, uninitSize : Nat]
  /\ \A run \in Running :
       /\ run.registers \in RegisterFile /\ run.registers.gp[0] = 0
       /\ run.memory \in Memories /\ run.pages \in 0..NumPhysPages

InitialRegisters(pages) ==
  [gp |-> [r \in GPRegs |-> IF r = StackReg THEN pages * PageSize - StackGap ELSE 0],
   hi |-> 0, lo |-> 0, pc |-> 0, nextPC |-> 4, load |-> 0, loadValue |-> 0, badVAddr |-> 0]

\* InitRegisters and RestoreState, then Machine::Run.
Execute ==
  /\ status = "loaded" /\ status' = "user"
  /\ registers' = InitialRegisters(pageTableSize)
  /\ UNCHANGED <<mainMemory, pageTable, pageTableSize, instr, fuel>>

\* What is in Run's Instruction before one is decoded, which nothing reads.
Undecoded == [op |-> "none"]

\* The machine is switched on, or a program is in the middle of its run.
MInit ==
  \/ /\ status = "boot" /\ instr = Undecoded
     /\ registers = [InitialRegisters(0) EXCEPT !.gp[StackReg] = 0, !.nextPC = 0]
     /\ mainMemory = [b \in 0..MemorySize - 1 |-> 0]
     /\ pageTable = IdentityTable /\ pageTableSize = 0
     /\ fuel = 1
  \/ /\ status = "user" /\ instr = Undecoded
     /\ pageTable = IdentityTable
     /\ \E run \in Running :
          /\ registers = run.registers /\ mainMemory = run.memory
          /\ pageTableSize = run.pages /\ fuel = run.fuel

MNext ==
  \/ \E noff \in NoffFiles : Load(noff)
  \/ LoadFails
  \/ Execute
  \/ RunInstruction
  \/ InterruptDue
  \/ \E result \in Results : ReturnFromCall(result)
  \/ UnknownCall
  \/ HaltCall
  \/ \E addr \in Results, writing \in BOOLEAN, byte \in {1} : CopyByte(addr, writing, byte)

MSpec == MInit /\ [][MNext]_machineVars

-----------------------------------------------------------------------------
(* Properties *)

Special == {"hi", "lo", "pc", "nextPC", "loadValue", "badVAddr"}

\* Types; register 0 is 0; a load is in progress only while the program runs
\* (DelayedLoad has completed it before the kernel looks at the registers), so
\* that a handler and a context switch never see half an instruction.
MachineInv ==
  /\ status \in {"boot", "loaded", "user", "system", "halted"}
  /\ registers.gp \in [GPRegs -> Word] /\ registers.gp[0] = 0
  /\ \A f \in Special : registers[f] \in Word
  /\ registers.load \in GPRegs
  /\ status = "system" => registers.load = 0 /\ registers.loadValue = 0
  /\ mainMemory \in [0..MemorySize - 1 -> Byte]
  /\ pageTableSize \in 0..NumPhysPages

\* Machine::Translate (for the program) and AddrSpace::Translate (for the
\* kernel) give every address the same byte or the same exception: exactly the
\* addresses of the pages of the space have one, each a byte of its own.
OneMemoryForBoth ==
  /\ \A addr \in Word, writing \in BOOLEAN :
       /\ SpaceTranslate(addr, writing) = Translate(addr, 1, writing)
       /\ Translate(addr, 1, writing) =
            IF addr < pageTableSize * PageSize THEN "NoException" ELSE "AddressError"
  /\ \A a, b \in 0..pageTableSize * PageSize - 1 : a # b => PhysAddr(a) # PhysAddr(b)

\* The use and dirty bits tell the truth, whichever instruction or system call
\* changes memory, also when it fails after its first access: a byte changes
\* only on a page that is then marked dirty and used, no bit is ever cleared,
\* and a step that changes no memory marks no page dirty but one it wrote to.
VirtualMemory ==
  [a \in 0..(IF status = "loaded" THEN 0 ELSE pageTableSize * PageSize) - 1 |->
     mainMemory[PhysAddr(a)]]
BitsTell ==
  /\ \A a \in DOMAIN VirtualMemory :
       mainMemory'[PhysAddr(a)] # mainMemory[PhysAddr(a)] =>
         pageTable'[VirtualPage(a)].dirty /\ pageTable'[VirtualPage(a)].use
  /\ \A p \in DOMAIN pageTable :
       /\ pageTable[p].use => pageTable'[p].use
       /\ pageTable[p].dirty => pageTable'[p].dirty
       /\ pageTable'[p].dirty => pageTable'[p].use
       /\ p >= pageTableSize => ~pageTable'[p].use
ChangesAreNoted == [][(status \in {"user", "system"}) => BitsTell]_machineVars

\* The program cannot tell the simulator from the processor (machine.h) but by SRL
\* or SRLV of a negative word, into which mipssim.cc shifts ones: every step is
\* the whole of the instruction decoded, as AbstractMips has it, a system call, or
\* nothing, whenever interrupts come.  A register whose load is in progress stands for
\* the value that is coming, except for the kernel, which reads it as it is.
ArchRegisters ==
  [r \in GPRegs |-> IF r = registers.load /\ r # 0 /\ status # "system"
                      THEN registers.loadValue ELSE registers.gp[r]]
Image(noff) ==
  LET segments == {noff.code, noff.initData, noff.readonlyData}
      holds(s, a) == a - s.virtualAddr \in 0..Len(s.bytes) - 1
  IN  [a \in 0..NumPages(noff) * PageSize - 1 |->
         IF \E s \in segments : holds(s, a)
           THEN LET s == CHOOSE t \in segments : holds(t, a)
                IN  s.bytes[a - s.virtualAddr + 1]
           ELSE 0]

Mips == INSTANCE AbstractMips WITH
  Registers <- GPRegs,
  Programs <- {Image(noff) : noff \in {n \in NoffFiles : NumPages(n) <= NumPhysPages}},
  mode <- IF status \in {"boot", "loaded"} THEN "off" ELSE status,
  r <- ArchRegisters, hi <- registers.hi, lo <- registers.lo,
  pc <- registers.pc, npc <- registers.nextPC, memory <- VirtualMemory

ImplementsMips == Mips!ASpec
=============================================================================
