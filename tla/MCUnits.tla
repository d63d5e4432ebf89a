------------------------------- MODULE MCUnits -------------------------------
(***************************************************************************)
(* Parts of the processor that share no state, one of them at work in each *)
(* behaviour: the reorder buffer alone, the return stack with fetch and    *)
(* resolution of trace programs, loads and stores of all sizes, hex        *)
(* instructions, the gshare predictor.                                     *)
(*                                                                         *)
(* The reorder buffer of three entries wraps around and fills up.  Calls   *)
(* are two deep on a stack of two, with wrong paths that return and call   *)
(* again (MCReturnStack).  Accesses overlap in every way within a word.    *)
(***************************************************************************)
EXTENDS ReorderBuffer, MCReturnStack, StoreForwarding, HexIsa, Gshare

VARIABLE unit

LoadOf(size, uns, low) == [load |-> TRUE, size |-> size, uns |-> uns, low |-> low]
StoreOf(size, low) == [load |-> FALSE, size |-> size, uns |-> FALSE, low |-> low]

SomeAccesses == {LoadOf("W", FALSE, 0), LoadOf("H", FALSE, 1),
                 StoreOf("B", 1), StoreOf("H", 2)}

(* Words at which arithmetic turns: the extremes, zero and their           *)
(* neighbours, a shift amount.                                             *)
Edges == {0, 1, 2, 13, MinWord - 1, MinWord, MaxWord - 6, MaxWord}

Regs(a, b) == [r \in 0 .. 31 |-> IF r = 0 THEN 0 ELSE IF r % 2 = 1 THEN a ELSE b]

Insn(opcode, f3, f7, rd, rs1, rs2) ==
  [opcode |-> opcode, f3 |-> f3, f7 |-> f7, rd |-> rd, rs1 |-> rs1, rs2 |-> rs2]

(* Operations on pairs of edges; immediates; each opcode, two that are     *)
(* none, with fields at their extremes.                                    *)
SomeInsns ==
  {[in |-> Insn(opcode, f3, f7, 30, 1, 2), x |-> Regs(a, b), pc |-> 8] :
     opcode \in {OP, BRANCH}, f3 \in 0 .. 7, f7 \in {0, 1, 32}, a \in Edges, b \in Edges}
  \cup
  {[in |-> Insn(OPIMM, f3, f7, 31, 1, rs2), x |-> Regs(a, 1), pc |-> 8] :
     f3 \in 0 .. 7, f7 \in {0, 32, 127}, rs2 \in {0, 1, 13, 31}, a \in Edges}
  \cup
  {[in |-> Insn(opcode, f3, f7, rd, rs1, rs2),
    x |-> Regs(MinWord + 5, MinWord + 4), pc |-> 4096] :
     opcode \in {LUI, AUIPC, JAL, JALR, BRANCH, LOAD, STORE, OPIMM, OP, 15, 0},
     f3 \in 0 .. 7, f7 \in {0, 63, 64, 127}, rd \in {0, 1, 30}, rs1 \in {0, 1},
     rs2 \in {1, 30}}

unitVars == <<robVars, rsVars, sfVars, executed, gsVars, unit>>

UnitInit ==
  /\ unit \in {"rob", "calls", "memory", "isa", "gshare"}
  /\ RobInit /\ RsInit /\ SfInit /\ IsaInit /\ GsInit
  /\ unit # "calls" => prog = Loop
  /\ unit # "memory" => store_forwarding

UnitNext ==
  /\ UNCHANGED unit
  /\ \/ unit = "rob"    /\ RobNext /\ UNCHANGED <<rsVars, sfVars, executed, gsVars>>
     \/ unit = "calls"  /\ RsNext  /\ UNCHANGED <<robVars, sfVars, executed, gsVars>>
     \/ unit = "memory" /\ SfNext  /\ UNCHANGED <<robVars, rsVars, executed, gsVars>>
     \/ unit = "isa"    /\ IsaNext /\ UNCHANGED <<robVars, rsVars, sfVars, gsVars>>
     \/ unit = "gshare" /\ GsNext  /\ UNCHANGED <<robVars, rsVars, sfVars, executed>>

UnitSpec == UnitInit /\ [][UnitNext]_unitVars

(* The types of the load/store queue's and the predictor's variables.      *)
UnitTypeOK == SfTypeOK /\ GsTypeOK
===============================================================================
