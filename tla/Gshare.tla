-------------------------------- MODULE Gshare --------------------------------
(***************************************************************************)
(* The gshare predictor with its branch target buffer                      *)
(* (gshare_predictor.cpp), trained when a control instruction commits.  A  *)
(* pc counts words.                                                        *)
(***************************************************************************)
EXTENDS Integers, Bitwise

CONSTANTS GhrBits,          \* log2 of pht_size: ghr_w
          BtbBits,          \* log2 of btb_size: btb_idx_w
          BranchPcs,        \* pcs of control instructions
          BranchTargets     \* where taken ones lead

ASSUME GshareAssumption == {GhrBits, BtbBits} \subseteq Nat \ {0}

VARIABLES pht, btb, ghr,
          streak    \* [pc, taken, target, n]: the last n updates were this (ghost)

gsVars == <<pht, btb, ghr, streak>>

GhrStates == 0 .. 2 ^ GhrBits - 1
BtbSlots  == 0 .. 2 ^ BtbBits - 1

(* Enough of one outcome to fill the history and move a counter across.    *)
LearningTime == GhrBits + 2

GsInit ==
  /\ pht = [i \in GhrStates |-> 1]
  /\ btb = [i \in BtbSlots |-> [valid |-> FALSE, tag |-> 0, target |-> 0]]
  /\ ghr = 0
  /\ streak = [pc |-> 0, taken |-> FALSE, target |-> 0, n |-> 0]

PhtIndex(pc, hist) == (pc % 2 ^ GhrBits) ^^ hist
BtbIndex(pc) == pc % 2 ^ BtbBits
BtbTag(pc)   == pc \div 2 ^ BtbBits

PredictGshare(pc) ==
  LET entry == btb[BtbIndex(pc)]
      taken == pht[PhtIndex(pc, ghr)] >= 2 /\ entry.valid /\ entry.tag = BtbTag(pc)
  IN  [taken |-> taken, target |-> IF taken THEN entry.target ELSE pc + 1]

(* Two-bit counters.                                                       *)
Counted_To4(c, taken) ==
  IF taken THEN (IF c < 4 THEN c + 1 ELSE c) ELSE (IF c > 0 THEN c - 1 ELSE c) \* mutant
Counted(c, taken) ==
  IF taken THEN (IF c < 3 THEN c + 1 ELSE c) ELSE (IF c > 0 THEN c - 1 ELSE c)

UpdateGshare(pc, taken, target) ==
  LET again == streak.n > 0 /\ streak.pc = pc /\ streak.taken = taken
               /\ streak.target = target
  IN  /\ pht' = [pht EXCEPT ![PhtIndex(pc, ghr)] = Counted(@, taken)]
      /\ btb' = IF taken THEN [btb EXCEPT ![BtbIndex(pc)] =
                                 [valid |-> TRUE, tag |-> BtbTag(pc), target |-> target]]
                ELSE btb
      /\ ghr' = (ghr * 2 + IF taken THEN 1 ELSE 0) % 2 ^ GhrBits
      /\ streak' = [pc |-> pc, taken |-> taken, target |-> target,
                    n |-> IF ~again THEN 1
                          ELSE IF streak.n < LearningTime THEN streak.n + 1 ELSE streak.n]

GsNext == \E pc \in BranchPcs :
            \/ UpdateGshare(pc, FALSE, pc + 1)
            \/ \E target \in BranchTargets : UpdateGshare(pc, TRUE, target)

-------------------------------------------------------------------------------
(* Properties.                                                             *)

GsTypeOK == /\ ghr \in GhrStates
            /\ \A i \in GhrStates : pht[i] \in 0 .. 3

(* Whatever other branches have left in the tables, a branch that goes one *)
(* way LearningTime times in a row is predicted to go there: counters      *)
(* saturate and the history fills up with the one outcome.                 *)
LearnsAStreak ==
  streak.n = LearningTime =>
    PredictGshare(streak.pc) = [taken |-> streak.taken, target |-> streak.target]
===============================================================================
