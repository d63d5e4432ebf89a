-------------------------------- MODULE HexIsa --------------------------------
(***************************************************************************)
(* What the processor does with an instruction word of a hex program:      *)
(* decode.cpp, the choice of operands at rename, the operation of the      *)
(* execution unit (executeOp) or the request to the load/store queue, and  *)
(* where control goes (resolveBranch).  `executed' holds the last          *)
(* instruction with what was done for it.                                  *)
(***************************************************************************)
EXTENDS GoldenRv32

CONSTANTS HexInputs      \* [in, x, pc]: instruction, registers, its pc

VARIABLE executed        \* [in, x, pc, uop, effect]

NotExecuted == [in |-> None]

-------------------------------------------------------------------------------
(* decodeInstruction.                                                      *)

ImmI(in) == SignExtend(in.f7 * 32 + in.rs2, 12)
ImmS(in) == SignExtend(in.f7 * 32 + in.rd, 12)

(* Bits 31, 7, 30..25 and 11..8 of the word, and of J 31, 19..12, 20 and   *)
(* 30..21; both name even numbers.                                         *)
ImmB_NoBit7(in) == SignExtend((in.f7 \div 64) * 4096 + (in.f7 % 64) * 32
                              + (in.rd \div 2) * 2, 13)           \* mutant
ImmB(in) == LET bit31 == in.f7 \div 64
                bit7  == in.rd % 2
            IN  SignExtend(bit31 * 4096 + bit7 * 2048 + (in.f7 % 64) * 32
                           + (in.rd \div 2) * 2, 13)
ImmU(in) == SignExtend(in.f7 * 8192 + in.rs2 * 256 + in.rs1 * 8 + in.f3, 20) * 4096
ImmJ(in) == LET bit31  == in.f7 \div 64
                bit20  == in.rs2 % 2
                low10  == (in.f7 % 64) * 16 + in.rs2 \div 2
            IN  SignExtend(bit31 * TwoTo(20) + (in.rs1 * 8 + in.f3) * TwoTo(12)
                           + bit20 * TwoTo(11) + low10 * 2, 21)

AluOps == <<"ADD", "SLL", "SLT", "SLTU", "XOR", "SRL", "OR", "AND">>
MulOps == <<"MUL", "MULH", "MULHSU", "MULHU", "DIV", "DIVU", "REM", "REMU">>
BranchOps == [f3 \in {0, 1, 4, 5, 6, 7} |->
                CASE f3 = 0 -> "EQ" [] f3 = 1 -> "NE"  [] f3 = 4 -> "LT"
                  [] f3 = 5 -> "GE" [] f3 = 6 -> "LTU" [] f3 = 7 -> "GEU"]

AluOp(f3, f7, alt) ==
  CASE f7 = 0             -> AluOps[f3 + 1]
    [] f7 = 32 /\ f3 = 0 /\ alt -> "SUB"
    [] f7 = 32 /\ f3 = 5  -> "SRA"
    [] OTHER              -> "NOP"

Nop == [op |-> "NOP", fu |-> "ALU", rd_used |-> FALSE, rs1_used |-> FALSE,
        rs2_used |-> FALSE, imm |-> 0, src2_is_imm |-> FALSE,
        is_load |-> FALSE, is_store |-> FALSE, mem_size |-> 4, mem_unsigned |-> FALSE,
        is_branch |-> FALSE, is_jump |-> FALSE]

(* A word by its opcode; "NOP" as operation when funct3 or funct7 is not   *)
(* one of the opcode's.  OPIMM looks at funct7 in the shifts only.         *)
DecodeByOpcode(in) ==
  LET U == [Nop EXCEPT !.rd_used = TRUE]
  IN CASE in.opcode = OPIMM ->
            [U EXCEPT !.op = AluOp(in.f3, IF in.f3 \in {1, 5} THEN in.f7 ELSE 0, FALSE),
                      !.rs1_used = TRUE, !.src2_is_imm = TRUE, !.imm = ImmI(in)]
       [] in.opcode = OP ->
            [U EXCEPT !.op = IF in.f7 = 1 THEN MulOps[in.f3 + 1] ELSE AluOp(in.f3, in.f7, TRUE),
                      !.fu = IF in.f7 # 1 THEN "ALU" ELSE IF in.f3 < 4 THEN "MUL" ELSE "DIV",
                      !.rs1_used = TRUE, !.rs2_used = TRUE]
       [] in.opcode = LOAD ->
            [U EXCEPT !.op = IF in.f3 \in {0, 1, 2, 4, 5} THEN "LOAD" ELSE "NOP", !.fu = "MEM",
                      !.rs1_used = TRUE, !.is_load = TRUE, !.imm = ImmI(in),
                      !.mem_size = TwoTo(in.f3 % 4), !.mem_unsigned = in.f3 \in {4, 5}]
       [] in.opcode = STORE ->
            [Nop EXCEPT !.op = IF in.f3 \in {0, 1, 2} THEN "STORE" ELSE "NOP", !.fu = "MEM",
                        !.rs1_used = TRUE, !.rs2_used = TRUE, !.is_store = TRUE,
                        !.imm = ImmS(in), !.mem_size = TwoTo(in.f3 % 4)]
       [] in.opcode = BRANCH ->
            [Nop EXCEPT !.op = IF in.f3 \in DOMAIN BranchOps THEN BranchOps[in.f3] ELSE "NOP",
                        !.fu = "BR", !.rs1_used = TRUE, !.rs2_used = TRUE,
                        !.is_branch = TRUE, !.imm = ImmB(in)]
       [] in.opcode = JAL  -> [U EXCEPT !.op = "JAL", !.fu = "BR", !.is_jump = TRUE,
                                        !.imm = ImmJ(in)]
       [] in.opcode = JALR /\ in.f3 = 0 ->
            [U EXCEPT !.op = "JALR", !.fu = "BR", !.is_jump = TRUE, !.rs1_used = TRUE,
                      !.imm = ImmI(in)]
       [] in.opcode \in {LUI, AUIPC} ->
            [U EXCEPT !.op = IF in.opcode = LUI THEN "LUI" ELSE "AUIPC",
                      !.src2_is_imm = TRUE, !.imm = ImmU(in)]
       [] OTHER -> Nop

(* makeNop, and no write to x0.                                            *)
DecodeInstruction(in) ==
  LET u == DecodeByOpcode(in)
  IN  IF u.op = "NOP" THEN Nop ELSE [u EXCEPT !.rd_used = @ /\ in.rd # 0]

(* What tryRenameOne accepts without giving it an entry.                   *)
IsNop(u) == u.op = "NOP" \/ (~u.rd_used /\ u.fu \in {"ALU", "MUL", "DIV"})

-------------------------------------------------------------------------------
(* executeOp.                                                              *)

Divided(s1, s2) ==
  CASE s2 = 0                         -> MaxWord
    [] s1 = MinWord /\ s2 = MaxWord   -> MinWord
    [] OTHER                          -> Wrap(Quot(Signed(s1), Signed(s2)))

Remainder(s1, s2) ==
  CASE s2 = 0                         -> s1
    [] s1 = MinWord /\ s2 = MaxWord   -> 0
    [] OTHER                          -> Wrap(Rem(Signed(s1), Signed(s2)))

ExecuteOp(op, s1, s2, imm, pc) ==
  LET shamt == s2 % 32
      upper(product) == Wrap(product \div TwoTo(XLEN))
  IN  CASE op = "ADD"  -> Wrap(s1 + s2)
        [] op = "SUB"  -> Wrap(s1 - s2)
        [] op = "SLL"  -> ShiftLeft(s1, shamt)
        [] op = "SLT"  -> Bool(Signed(s1) < Signed(s2))
        [] op = "SLTU" -> Bool(s1 < s2)
        [] op = "XOR"  -> s1 ^^ s2
        [] op = "SRL"  -> ShiftRight(s1, shamt)
        [] op = "SRA"  -> ShiftRightArith(s1, shamt)
        [] op = "OR"   -> s1 | s2
        [] op = "AND"  -> s1 & s2
        [] op = "LUI"  -> Wrap(imm)
        [] op = "AUIPC" -> Wrap(pc + Wrap(imm))
        [] op = "MUL"    -> Wrap(s1 * s2)
        [] op = "MULH"   -> upper(Signed(s1) * Signed(s2))
        [] op = "MULHSU" -> upper(Signed(s1) * s2)
        [] op = "MULHU"  -> upper(s1 * s2)
        [] op = "DIV"  -> Divided(s1, s2)
        [] op = "DIVU" -> IF s2 = 0 THEN MaxWord ELSE s1 \div s2
        [] op = "REM"  -> Remainder(s1, s2)
        [] op = "REMU" -> IF s2 = 0 THEN s1 ELSE s1 % s2
        [] op \in {"JAL", "JALR"} -> Wrap(pc + 4)
        [] OTHER -> 0

BranchTaken(op, s1, s2) ==
  CASE op = "EQ"  -> s1 = s2
    [] op = "NE"  -> s1 # s2
    [] op = "LT"  -> Signed(s1) < Signed(s2)
    [] op = "GE"  -> Signed(s1) >= Signed(s2)
    [] op = "LTU" -> s1 < s2
    [] op = "GEU" -> s1 >= s2
    [] OTHER      -> op \in {"JAL", "JALR"}

BranchTarget(op, pc, s1, imm) ==
  LET sum == Wrap(s1 + Wrap(imm))
  IN  IF op = "JALR" THEN sum - (sum % 2) ELSE Wrap(pc + Wrap(imm))

-------------------------------------------------------------------------------
(* From the queue to the units: operands, address, destination, next pc.   *)

Effect(u, in, x, pc) ==
  LET src1 == IF u.rs1_used THEN x[in.rs1] ELSE 0
      src2 == IF u.src2_is_imm THEN Wrap(u.imm)
              ELSE IF u.rs2_used /\ ~u.is_store THEN x[in.rs2] ELSE 0
      addr == Wrap(src1 + Wrap(u.imm))
      fallthrough == Wrap(pc + 4)
      taken == u.is_jump \/ BranchTaken(u.op, src1, src2)
      rd    == IF u.rd_used THEN in.rd ELSE 0
      none  == [rd |-> 0, value |-> 0, next_pc |-> fallthrough,
                load |-> NoAccess, store |-> NoAccess]
  IN  CASE IsNop(u) -> none
        [] u.is_load -> [none EXCEPT !.rd = rd,
             !.load = [addr |-> addr, bytes |-> u.mem_size, uns |-> u.mem_unsigned]]
        [] u.is_store -> [none EXCEPT
             !.store = [addr |-> addr, bytes |-> u.mem_size, data |-> x[in.rs2]]]
        [] u.is_branch \/ u.is_jump -> [none EXCEPT !.rd = rd,
             !.value = IF rd = 0 THEN 0 ELSE ExecuteOp(u.op, src1, src2, u.imm, pc),
             !.next_pc = IF taken THEN BranchTarget(u.op, pc, src1, u.imm) ELSE fallthrough]
        [] OTHER -> [none EXCEPT !.rd = rd,
             !.value = ExecuteOp(u.op, src1, src2, u.imm, pc)]

IsaInit == executed = NotExecuted

ExecuteHex(i) ==
  LET u == DecodeInstruction(i.in)
  IN  executed' = [in |-> i.in, x |-> i.x, pc |-> i.pc, uop |-> u,
                   effect |-> Effect(u, i.in, i.x, i.pc)]

IsaNext == executed = NotExecuted /\ \E i \in HexInputs : ExecuteHex(i)

-------------------------------------------------------------------------------
(* Properties.                                                             *)

(* An instruction does what it does in the golden model: the same register *)
(* gets the same value, control goes to the same place, the same bytes are *)
(* loaded or stored; and what decodes as an instruction has its immediate. *)
(* Out of this: JALR with a funct3 other than 0, which is not an           *)
(* instruction here (as decode.sv has it) and is one in the golden model;  *)
(* and the request of a load to x0, which the golden model has no use for. *)
ExecutesAsGolden ==
  LET e == executed
      g == GoldenStep(e.in, e.x, e.pc)
  IN  (e # NotExecuted /\ (e.in.opcode = JALR => e.in.f3 = 0)) =>
        /\ e.uop.op # "NOP" /\ e.in.opcode # OP => e.uop.imm = GoldenImm(e.in)
        /\ IF e.uop.is_load /\ e.in.rd = 0 THEN [e.effect EXCEPT !.load = NoAccess] = g
                                           ELSE e.effect = g
===============================================================================
