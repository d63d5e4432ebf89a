---------------------------- MODULE InOrderMachine ----------------------------
(***************************************************************************)
(* The golden model of golden/golden_model.cpp, what the processor is to   *)
(* compute: one instruction at a time, in program order.  The link jumps   *)
(* of the hex programs are those of tools/golden_rv32im.py.                *)
(*                                                                         *)
(* A program is a function from addresses, counted in instructions from 0, *)
(* to instructions; it ends when pc leaves its domain.  Words are counted  *)
(* modulo the number of values, as machine words are modulo 2^32, and the  *)
(* memory has one word per value.                                          *)
(***************************************************************************)
EXTENDS Integers, FiniteSets

CONSTANTS NumRegs,    \* registers 0 .. NumRegs - 1, register 0 reads as 0
          Val,        \* the words, 0 .. n - 1
          Programs    \* the programs it may run

VARIABLES prog, pc, regs, memory

goldenVars == <<prog, pc, regs, memory>>

Wrap(x) == x % Cardinality(Val)

GoldenInit ==
  /\ prog \in Programs
  /\ pc = 0
  /\ regs = [r \in 0 .. NumRegs - 1 |-> 0]
  /\ memory = [a \in Val |-> 0]

ReadReg(r) == IF r = 0 THEN 0 ELSE regs[r]

WriteReg(r, v) == regs' = IF r = 0 THEN regs ELSE [regs EXCEPT ![r] = Wrap(v)]

Address(in) == Wrap(ReadReg(in.s1) + in.imm)

Arith(in) ==
  /\ in.op \in {"add", "addi"}
  /\ WriteReg(in.d, ReadReg(in.s1) + (IF in.op = "addi" THEN in.imm
                                                        ELSE ReadReg(in.s2)))
  /\ pc' = pc + 1
  /\ UNCHANGED memory

Load(in) ==
  /\ in.op = "load"
  /\ WriteReg(in.d, memory[Address(in)])
  /\ pc' = pc + 1
  /\ UNCHANGED memory

(* The word stored is that of the destination field's register.            *)
Store(in) ==
  /\ in.op = "store"
  /\ memory' = [memory EXCEPT ![Address(in)] = ReadReg(in.d)]
  /\ pc' = pc + 1
  /\ UNCHANGED regs

Branch(in) ==
  /\ in.op \in {"beq", "bne"}
  /\ pc' = IF (ReadReg(in.s1) = ReadReg(in.s2)) <=> (in.op = "beq")
             THEN in.imm ELSE pc + 1
  /\ UNCHANGED <<regs, memory>>

JumpAndLink(in) ==
  /\ in.op \in {"jal", "jalr"}
  /\ WriteReg(in.d, pc + 1)
  /\ pc' = IF in.op = "jal" THEN in.imm ELSE Address(in)
  /\ UNCHANGED memory

GoldenNext ==
  /\ pc \in DOMAIN prog
  /\ LET in == prog[pc]
     IN  Arith(in) \/ Load(in) \/ Store(in) \/ Branch(in) \/ JumpAndLink(in)
  /\ UNCHANGED prog

GoldenSpec == GoldenInit /\ [][GoldenNext]_goldenVars
===============================================================================
