----------------------------- MODULE MCMachine -----------------------------
(* An instance of Machine: words of 8 bits, 12 bytes of memory, 5 registers. *)
EXTENDS Machine, FiniteSetsExt, Bitwise

MCBitAnd(x, y) == x & y
MCBitOr(x, y) == x | y
MCBitXor(x, y) == x ^^ y

\* Instructions by format; register 3 is the stack pointer, 4 the link.
R(op, rd, rs, rt) == [op |-> op, rs |-> rs, rt |-> rt, rd |-> rd, extra |-> 0]
Sh(op, rd, rt, n) == [op |-> op, rs |-> 0, rt |-> rt, rd |-> rd, extra |-> n]
I(op, rt, rs, n)  == [op |-> op, rs |-> rs, rt |-> rt, rd |-> 0, extra |-> Wrap(n)]
J(op, n)          == [op |-> op, rs |-> 0, rt |-> 0, rd |-> 0, extra |-> n]

MCInstructions ==
  {R(op, 2, 1, 2) : op \in {"ADD", "ADDU", "SUB", "SUBU", "AND", "OR", "XOR", "NOR",
                            "SLT", "SLTU", "SLLV", "SRAV", "SRLV"}}
  \cup {R(op, 0, 1, 2) : op \in {"DIV", "DIVU", "MULT", "MULTU"}}
  \cup {R("ADDU", 1, 2, 1), R("ADDU", 0, 1, 2), R("MFHI", 1, 0, 0), R("MFLO", 2, 0, 0),
        R("MTHI", 0, 1, 0), R("MTLO", 0, 2, 0), R("JR", 0, 1, 0), R("JALR", 4, 2, 0)}
  \cup {Sh("SLL", 1, 2, 3), Sh("SRA", 2, 1, 1), Sh("SRL", 2, 1, 1)}
  \cup {I(op, 2, 1, -2) : op \in {"ADDI", "ADDIU", "ANDI", "ORI", "XORI", "SLTI",
                                  "SLTIU", "LUI"}}
  \cup {I(op, 2, 1, 1) : op \in {"BEQ", "BNE"}}
  \cup {I(op, 0, 1, -1) : op \in {"BGEZ", "BLTZ", "BGEZAL", "BLTZAL", "BGTZ", "BLEZ"}}
  \cup {I(op, 2, 1, 3) : op \in {"LB", "LBU", "LH", "LHU", "LW", "LWL", "LWR",
                                 "SB", "SH", "SW", "SWL", "SWR"}}
  \cup {I("LW", 1, 0, 4), I("LWR", 2, 0, 2), I("LWL", 2, 0, 5), I("SW", 1, 3, 0)}
  \cup {J("J", 2), J("JAL", 1), J("SYSCALL", 0), J("RES", 0), J("UNIMP", 0)}

Gp(a, b) == [r \in GPRegs |-> CASE r = 1 -> a [] r = 2 -> b [] r = 3 -> 6 [] OTHER -> 0]
Memory == [b \in 0..MemorySize - 1 |-> (3 * b + (b \div 4)) % 4]
State(a, b, at, steps) ==
  [registers |-> [gp |-> Gp(a, b), hi |-> 77, lo |-> 130, pc |-> at, nextPC |-> at + 4,
                  load |-> 0, loadValue |-> 0, badVAddr |-> 0],
   memory |-> Memory, pages |-> 2, fuel |-> steps]

Boundary == {Wrap(n) : n \in {-128, -127, -65, -3, -1, 0, 1, 2, 3, 7, 64, 126, 127}}
MCRunning ==
  {State(a, b, 0, 1) : a, b \in Boundary}
  \cup {State(x[1], x[2], 0, 3) : x \in {<<1, 4>>, <<254, 3>>, <<5, 200>>}}

Seg(addr, bytes) == [virtualAddr |-> addr, bytes |-> bytes]
MCNoffFiles ==
  {[code |-> Seg(0, <<1, 2, 3, 1>>), initData |-> Seg(4, <<3>>),
    readonlyData |-> Seg(5, <<>>), uninitSize |-> 0],
   [code |-> Seg(0, <<1, 2>>), initData |-> Seg(4, <<>>),
    readonlyData |-> Seg(2, <<2, 1>>), uninitSize |-> 3],
   [code |-> Seg(0, <<1, 1, 1, 1, 1, 1, 1>>), initData |-> Seg(7, <<3>>),
    readonlyData |-> Seg(5, <<>>), uninitSize |-> 3]}
=============================================================================
