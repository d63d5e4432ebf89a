----------------------------- MODULE MachineWords -----------------------------
(***************************************************************************)
(* Words of XLEN bits (32 in the code) as 0 .. 2^XLEN - 1, the fields of   *)
(* an instruction word, and its immediates' sign extension.                *)
(***************************************************************************)
EXTENDS Integers, Bitwise

CONSTANT XLEN

(* With fewer bits than the widest immediate of a load or store an address *)
(* would not be what the field says; products have to fit TLC's integers.  *)
ASSUME WordAssumption == XLEN \in 13 .. 15

TwoTo(n)  == 2 ^ n
Wrap(v)   == v % TwoTo(XLEN)
Signed(u) == IF u >= TwoTo(XLEN - 1) THEN u - TwoTo(XLEN) ELSE u
MinWord   == TwoTo(XLEN - 1)            \* the smallest signed word
MaxWord   == TwoTo(XLEN) - 1            \* all ones

ShiftLeft(u, s)       == IF s >= XLEN THEN 0 ELSE Wrap(Wrap(u) * TwoTo(s))
ShiftRight(u, s)      == IF s >= XLEN THEN 0 ELSE u \div TwoTo(s)
ShiftRightArith(u, s) == IF s >= XLEN THEN (IF Signed(u) < 0 THEN MaxWord ELSE 0)
                         ELSE Wrap(Signed(u) \div TwoTo(s))

SignExtend(v, n) == IF v >= TwoTo(n - 1) THEN v - TwoTo(n) ELSE v

(* Division of integers rounds towards zero, as in C++.                    *)
Abs(v)     == IF v < 0 THEN -v ELSE v
Quot(a, b) == LET q == Abs(a) \div Abs(b) IN IF (a < 0) # (b < 0) THEN -q ELSE q
Rem(a, b)  == a - Quot(a, b) * b

Bool(b) == IF b THEN 1 ELSE 0

(* Instruction words by their fields, most significant first:              *)
(* [f7: 7 bits, rs2: 5, rs1: 5, f3: 3, rd: 5, opcode: 7].                  *)
LUI    == 55
AUIPC  == 23
JAL    == 111
JALR   == 103
BRANCH == 99
LOAD   == 3
STORE  == 35
OPIMM  == 19
OP     == 51
===============================================================================
