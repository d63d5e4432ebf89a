------------------------------ MODULE MCOoOCore ------------------------------
(***************************************************************************)
(* The core on programs of two to five instructions, each written for one  *)
(* difficulty: forwarding past late addresses and data, wrong paths with a *)
(* store on them, a loop, a link value, two stores to one word, nested     *)
(* mispredictions; and on every program of three or four instructions that *)
(* starts by loading register 1 and goes on from a menu, where nobody      *)
(* chose which hazards meet.  Four reorder buffer entries and two lanes    *)
(* let a window wrap around, fill up and be squashed in the middle.        *)
(***************************************************************************)
EXTENDS OoOCore

I(op, d, s1, s2, imm) == [op |-> op, d |-> d, s1 |-> s1, s2 |-> s2, imm |-> imm]

(* A program from the sequence of its instructions.                        *)
Prog(s) == [pc \in 0 .. Len(s) - 1 |-> s[pc + 1]]

(* Forwarding from an older store whose address or data comes late.        *)
Forwarding == Prog(<<I("addi", 1, 0, 0, 1), I("store", 1, 0, 0, 1),
                     I("load", 2, 1, 0, 0), I("store", 2, 0, 0, 0)>>)
(* A branch around a store and a register write.                           *)
WrongPath == Prog(<<I("addi", 1, 0, 0, 1), I("bne", 0, 1, 0, 3),
                    I("store", 1, 0, 0, 0), I("load", 1, 0, 0, 0)>>)
(* A loop whose counter wraps around.                                      *)
Loop == Prog(<<I("addi", 1, 1, 0, 1), I("bne", 0, 1, 0, 0)>>)
(* A link jump forwards; the link register is read at its target.          *)
Link == Prog(<<I("jal", 1, 0, 0, 2), I("addi", 1, 0, 0, 0),
               I("add", 2, 1, 1, 0)>>)

(* A jump through a register whose value comes late.                       *)
Indirect == Prog(<<I("addi", 1, 0, 0, 2), I("jalr", 2, 1, 0, 0),
                   I("add", 1, 1, 2, 0)>>)
(* Two stores to one word and a load that must see the younger one.        *)
TwoStores == Prog(<<I("addi", 1, 0, 0, 1), I("store", 1, 0, 0, 0),
                    I("addi", 1, 1, 0, 1), I("store", 1, 0, 0, 0),
                    I("load", 2, 0, 0, 0)>>)
(* The younger branch may resolve, and squash, before the older one.       *)
TwoBranches == Prog(<<I("addi", 1, 0, 0, 1), I("beq", 0, 1, 0, 4),
                      I("beq", 0, 0, 0, 4), I("addi", 2, 0, 0, 2),
                      I("add", 1, 1, 2, 0)>>)

(* A loop through memory: an iteration loads what the one before stored.   *)
MemoryLoop == Prog(<<I("load", 1, 0, 0, 0), I("addi", 1, 1, 0, 1),
                     I("store", 1, 0, 0, 0), I("bne", 0, 1, 0, 0)>>)

Menu == {I("addi", 1, 1, 0, 1), I("bne", 0, 1, 2, 3),
         I("store", 2, 1, 0, 0), I("load", 2, 0, 0, 0)}
LongMenu == Menu \cup {I("add", 2, 1, 1, 0), I("store", 1, 0, 0, 0),
                       I("load", 1, 1, 0, 0)}
Starting(rest) == Prog(<<I("addi", 1, 0, 0, 1)>> \o rest)
FromMenu == {Starting(s) : s \in [1 .. 3 -> Menu]}
              \cup {Starting(s) : s \in [1 .. 2 -> LongMenu]}

MCPrograms == {Forwarding, WrongPath, Loop, Link, Indirect, TwoStores,
               TwoBranches, MemoryLoop} \cup FromMenu

LiveInst(t) ==
  <<t, kind[t], dest_reg[t], done[t], inst[t],
    IF done[t] THEN value[t] ELSE 0,
    IF ckpt_valid[t] THEN ckpt_map[t] ELSE rat_snapshot[t]>>

(* Fields of dead reorder buffer entries and maps that are not valid are   *)
(* never read: they do not distinguish states.                             *)
LiveState ==
  <<head, tail, active_count, stage, rat, freed_rob_tags, ckpt_valid,
    {LiveInst(t) : t \in Live},
    prog, step, lane, arf, wakeups, sb, mem, fetch_pc, ifq, dispatch_reg,
    resolving>>
===============================================================================
