------------------------------ MODULE GoldenRv32 ------------------------------
(***************************************************************************)
(* One step of the golden model for RV32IM (tools/golden_rv32im.py): what  *)
(* an instruction does, as a record of                                     *)
(*   rd, value   the register written (0: none)                            *)
(*   next_pc                                                               *)
(*   load        [addr, bytes, uns] whose bytes are the value, or NoAccess *)
(*   store       [addr, bytes, data], or NoAccess                          *)
(* An access that leaves its word is as the golden model makes it; the     *)
(* processor's is the subject of module StoreForwarding.                   *)
(***************************************************************************)
EXTENDS MachineWords

NoAccess == [bytes |-> 0]

GoldenImm(in) ==
  CASE in.opcode \in {OPIMM, LOAD, JALR} -> SignExtend(in.f7 * 32 + in.rs2, 12)
    [] in.opcode = STORE                 -> SignExtend(in.f7 * 32 + in.rd, 12)
    [] in.opcode = BRANCH ->
         SignExtend(  (in.f7 \div 64) * 4096 + (in.rd % 2) * 2048
                    + (in.f7 % 64) * 32 + (in.rd \div 2) * 2, 13)
    [] in.opcode \in {LUI, AUIPC} ->
         SignExtend(in.f7 * 8192 + in.rs2 * 256 + in.rs1 * 8 + in.f3, 20) * 4096
    [] in.opcode = JAL ->
         SignExtend(  (in.f7 \div 64) * 1048576 + (in.rs1 * 8 + in.f3) * 4096
                    + (in.rs2 % 2) * 2048 + (in.f7 % 64) * 32 + (in.rs2 \div 2) * 2, 21)
    [] OTHER -> 0

None == -1          \* of an encoding that is not an instruction

GoldenMulDiv(f3, a, b) ==
  LET sa == Signed(a)
      sb == Signed(b)
      overflow == a = MinWord /\ b = MaxWord
      high(product) == Wrap(product \div TwoTo(XLEN))
  IN  CASE f3 = 0 -> Wrap(sa * sb)
        [] f3 = 1 -> high(sa * sb)
        [] f3 = 2 -> high(sa * b)
        [] f3 = 3 -> high(a * b)
        [] f3 = 4 -> IF b = 0 THEN MaxWord ELSE IF overflow THEN a ELSE Wrap(Quot(sa, sb))
        [] f3 = 5 -> IF b = 0 THEN MaxWord ELSE a \div b
        [] f3 = 6 -> IF b = 0 THEN a ELSE IF overflow THEN 0 ELSE Wrap(Rem(sa, sb))
        [] f3 = 7 -> IF b = 0 THEN a ELSE a % b

GoldenOp(f3, f7, a, b) ==
  CASE f3 = 0 /\ f7 = 0  -> Wrap(a + b)
    [] f3 = 0 /\ f7 = 32 -> Wrap(a - b)
    [] f3 = 1 /\ f7 = 0  -> ShiftLeft(a, b % 32)
    [] f3 = 2 /\ f7 = 0  -> Bool(Signed(a) < Signed(b))
    [] f3 = 3 /\ f7 = 0  -> Bool(a < b)
    [] f3 = 4 /\ f7 = 0  -> a ^^ b
    [] f3 = 5 /\ f7 = 0  -> ShiftRight(a, b % 32)
    [] f3 = 5 /\ f7 = 32 -> ShiftRightArith(a, b % 32)
    [] f3 = 6 /\ f7 = 0  -> a | b
    [] f3 = 7 /\ f7 = 0  -> a & b
    [] OTHER             -> None

(* The immediate forms take the shift amount from the rs2 field.           *)
GoldenOpImm(f3, f7, a, imm, shamt) ==
  CASE f3 \in {1, 5}  -> GoldenOp(f3, f7, a, shamt)
    [] OTHER          -> GoldenOp(f3, 0, a, Wrap(imm))

GoldenTakes(f3, a, b) ==
  CASE f3 = 0 -> a = b
    [] f3 = 1 -> a # b
    [] f3 = 4 -> Signed(a) < Signed(b)
    [] f3 = 5 -> Signed(a) >= Signed(b)
    [] f3 = 6 -> a < b
    [] f3 = 7 -> a >= b
    [] OTHER  -> FALSE

(* An instruction at pc with registers x.                                  *)
GoldenStep(in, x, pc) ==
  LET a == x[in.rs1]
      b == x[in.rs2]
      imm  == GoldenImm(in)
      next == Wrap(pc + 4)
      nop  == [rd |-> 0, value |-> 0, next_pc |-> next, load |-> NoAccess, store |-> NoAccess]
      writes(v) == IF v = None \/ in.rd = 0 THEN nop
                   ELSE [nop EXCEPT !.rd = in.rd, !.value = v]
      addr  == Wrap(a + Wrap(imm))
      bytes == TwoTo(in.f3 % 4)
  IN  CASE in.opcode = OP -> writes(IF in.f7 = 1 THEN GoldenMulDiv(in.f3, a, b)
                                    ELSE GoldenOp(in.f3, in.f7, a, b))
        [] in.opcode = OPIMM -> writes(GoldenOpImm(in.f3, in.f7, a, imm, in.rs2))
        [] in.opcode = LUI   -> writes(Wrap(imm))
        [] in.opcode = AUIPC -> writes(Wrap(pc + Wrap(imm)))
        [] in.opcode = JAL   -> [writes(next) EXCEPT !.next_pc = Wrap(pc + Wrap(imm))]
        [] in.opcode = JALR  -> [writes(next) EXCEPT !.next_pc = addr - (addr % 2)]
        [] in.opcode = BRANCH ->
             IF GoldenTakes(in.f3, a, b) THEN [nop EXCEPT !.next_pc = Wrap(pc + Wrap(imm))]
                                         ELSE nop
        [] in.opcode = LOAD /\ in.f3 \in {0, 1, 2, 4, 5} /\ in.rd # 0 ->
             [nop EXCEPT !.rd = in.rd,
                         !.load = [addr |-> addr, bytes |-> bytes, uns |-> in.f3 > 3]]
        [] in.opcode = STORE /\ in.f3 \in {0, 1, 2} ->
             [nop EXCEPT !.store = [addr |-> addr, bytes |-> bytes, data |-> b]]
        [] OTHER -> nop
===============================================================================
