----------------------------- MODULE OoOCoreProofs -----------------------------
(***************************************************************************)
(* Proofs about the out-of-order core, for every program, every width and  *)
(* every size of its queues: first what connects its tables, wakeups and   *)
(* operands, then that it computes what the in-order machine computes.     *)
(***************************************************************************)
EXTENDS OoOCore, RenameUnitProofs

InstStates ==
  [pc : DOMAIN prog, predicted_taken : BOOLEAN, predicted_target : Pcs,
   src1 : Operands, src2 : Operands, store_data : Operands,
   addr_computed : BOOLEAN, dispatched : BOOLEAN, fwd : Val \cup {NeedsMemory},
   br_resolved : BOOLEAN, mispredicted : BOOLEAN, completed : BOOLEAN]
SbStates  == [addr : Val, val : Val]
Fetched   == [pc : DOMAIN prog, predicted_taken : BOOLEAN, predicted_target : Pcs]

CoreShapes ==
  /\ prog \in Programs
  /\ step \in Steps /\ lane \in Nat
  /\ arf \in [Reg -> Val]
  /\ inst \in [Tags -> InstStates]
  /\ wakeups \in SUBSET [tag : Tags, val : Val]
  /\ sb \in Seq(SbStates) /\ Len(sb) <= SbDepth
  /\ mem \in [Val -> Val]
  /\ fetch_pc \in Pcs
  /\ ifq \in Seq(Fetched) /\ Len(ifq) <= IfqSize
  /\ dispatch_reg \in Seq(Fetched) /\ Len(dispatch_reg) <= Width
  /\ resolving \in SUBSET Tags

(* The steps of the tick that run in each stage of the rename unit.        *)
StepsOfStage ==
  /\ stage = "commit"    <=> step \in {"stores", "commit"}
  /\ stage = "writeback" <=> step \in {"resolve", "broadcast"}
  /\ stage = "rename"    <=> step \in {"rename", "fetch"}

(* The reorder buffer and the instruction table speak of the same          *)
(* instructions, and a store is never sent to a unit.                      *)
InstsMatch ==
  \A t \in Live : /\ kind[t] = KindOf(Op(t)) /\ dest_reg[t] = prog[inst[t].pc].d
                  /\ done[t] <=> inst[t].completed
                  /\ inst[t].dispatched => Op(t) # "store"

(* What is to be resolved in this tick has not been completed.             *)
ResolvingAreOpen ==
  /\ resolving # {} => step = "resolve"
  /\ \A t \in resolving : busy[t] /\ kind[t] = "control" /\ ~done[t]

(* No wakeup is left over from the tick before when instructions retire or *)
(* are squashed.                                                           *)
WakeupsAreFresh == step \in {"stores", "commit", "resolve"} => wakeups = {}

(* A store is done only on its way out, with everything before it done and *)
(* a lane left for each of them to retire in this tick.                    *)
DoneStoresRetire ==
  \A t \in Live : Op(t) = "store" /\ done[t] =>
    /\ stage = "commit"
    /\ step = "stores" => AgeFromHead(t) < Width
    /\ step = "commit" => AgeFromHead(t) < Width - lane
    /\ \A u \in Live : Older(u, t) => done[u]

CoreInv ==
  /\ RuInv /\ CoreShapes /\ StepsOfStage /\ InstsMatch /\ ResolvingAreOpen
  /\ WakeupsAreFresh /\ WakeupsAreCurrent /\ OperandsWaitForLiveProducers
  /\ DoneStoresRetire

-------------------------------------------------------------------------------
(* Values, programs and operands.                                          *)

(* The sizes are positive numbers.                                         *)
LEMMA ConstantsAreSizes ==
  /\ Width \in Nat /\ Width > 0 /\ SbDepth \in Nat /\ SbDepth > 0
  /\ IfqSize \in Nat /\ IfqSize > 0 /\ CdbWidth \in Nat /\ CdbWidth > 0
  BY CoreAssumption

(* A number is wrapped to a word, and words are numbers.                   *)
LEMMA WrapIsVal ==
  /\ Val \subseteq Nat /\ 0 \in Val
  /\ \A x \in Int : Wrap(x) \in Val
  <1>1. PICK n \in Nat \ {0} : n = Cardinality(Val)
    BY CoreAssumption
  <1>2. Val = 0 .. n - 1
    BY <1>1, CoreAssumption
  <1>3. \A x \in Int : x % n \in 0 .. n - 1
    OBVIOUS
  <1>4. \A x : Wrap(x) = x % n
    BY <1>1 DEF Wrap
  <1>5. Val \subseteq Nat /\ 0 \in Val
    BY <1>2
  <1>6. \A x \in Int : Wrap(x) \in Val
    BY <1>2, <1>3, <1>4
  <1>7. QED
    BY <1>5, <1>6

(* A program counts from 0, its branches have no destination and jump to   *)
(* program counters there are.                                             *)
LEMMA ProgramFacts ==
  ASSUME prog \in Programs
  PROVE  \E n \in Nat \ {0} :
           /\ DOMAIN prog = 0 .. n - 1 /\ Pcs = Val \cup (0 .. n)
           /\ \A pc \in DOMAIN prog :
                /\ prog[pc] \in Instructions
                /\ prog[pc].op \in {"beq", "bne"} => prog[pc].d = 0
                /\ prog[pc].op \in {"beq", "bne", "jal"} => prog[pc].imm \in Pcs
  <1>1. IsProgram(prog)
    BY CoreAssumption
  <1>2. PICK n \in Nat \ {0} : n = Cardinality(DOMAIN prog)
    BY <1>1 DEF IsProgram
  <1>3. /\ prog \in [0 .. n - 1 -> Instructions]
        /\ \A pc \in DOMAIN prog :
             /\ prog[pc].op \in {"beq", "bne"} => prog[pc].d = 0
             /\ prog[pc].op \in {"beq", "bne", "jal"} => prog[pc].imm \in Val \cup (0 .. n)
    BY <1>1, <1>2 DEF IsProgram
  <1>4. Pcs = Val \cup (0 .. n)
    BY <1>2 DEF Pcs
  <1>5. QED
    BY <1>3, <1>4

(* While the program stays, so do its program counters.                    *)
LEMMA PcsStay == prog' = prog => Pcs' = Pcs /\ InstStates' = InstStates /\ Fetched' = Fetched
  BY DEF Pcs, InstStates, Fetched

(* Each operation has one kind.                                            *)
LEMMA KindsOfOps ==
  \A op : /\ KindOf(op) \in Kinds
          /\ KindOf(op) = "store" <=> op = "store"
          /\ KindOf(op) = "control" <=> IsControlOp(op)
  BY DEF KindOf, Kinds, IsControlOp, IsJump

(* The operands renaming makes are operands.                               *)
LEMMA OperandStates ==
  /\ \A v \in Val : Ready(v) \in Operands /\ Ready(v).ready /\ Ready(v).val = v
  /\ NeverReady \in Operands /\ ~NeverReady.ready /\ NeverReady.tag = NoTag
  BY WrapIsVal DEF Ready, NeverReady, Operands

(* The instruction of a tag, and its fields.                               *)
LEMMA InstFacts ==
  ASSUME CoreShapes, NEW t \in Tags
  PROVE  /\ inst[t] \in InstStates /\ inst[t].pc \in DOMAIN prog /\ inst[t].pc \in Nat
         /\ prog[inst[t].pc] \in Instructions /\ Imm(t) \in Int
         /\ inst[t].src1 \in Operands /\ inst[t].src2 \in Operands
         /\ inst[t].store_data \in Operands
         /\ inst[t].src1.val \in Val /\ inst[t].src2.val \in Val
         /\ inst[t].store_data.val \in Val
         /\ inst[t].pc + 1 \in Pcs /\ Address(t) \in Val
  <1>1. PICK n \in Nat \ {0} :
           /\ DOMAIN prog = 0 .. n - 1 /\ Pcs = Val \cup (0 .. n)
           /\ \A pc \in DOMAIN prog : prog[pc] \in Instructions
    BY ProgramFacts DEF CoreShapes
  <1>2. inst[t] \in InstStates
    BY DEF CoreShapes
  <1>3. /\ inst[t].pc \in DOMAIN prog /\ inst[t].src1 \in Operands
        /\ inst[t].src2 \in Operands /\ inst[t].store_data \in Operands
    BY <1>2 DEF InstStates
  <1>4. inst[t].pc \in Nat /\ inst[t].pc + 1 \in Pcs
    BY <1>1, <1>3
  <1>5. prog[inst[t].pc] \in Instructions
    BY <1>1, <1>3
  <1>6. Imm(t) \in Int
    BY <1>5 DEF Imm, Instructions
  <1>7. /\ inst[t].src1.val \in Val /\ inst[t].src2.val \in Val
        /\ inst[t].store_data.val \in Val
    BY <1>3 DEF Operands
  <1>8. Address(t) \in Val
    <2>1. PICK v \in Nat, i \in Int : v = inst[t].src1.val /\ i = Imm(t)
      BY <1>6, <1>7, WrapIsVal
    <2>2. Wrap(v + i) \in Val
      BY WrapIsVal
    <2> QED
      BY <2>1, <2>2 DEF Address
  <1>9. QED
    BY <1>2, <1>3, <1>4, <1>5, <1>6, <1>7, <1>8

(* A set of numbers with a bound has a largest member.                     *)
LEMMA MaximumExists ==
  ASSUME NEW n \in Nat, NEW S \in SUBSET (0 .. n), S # {}
  PROVE  \E m \in S : \A k \in S : k <= m
  <1> DEFINE back == {n - i : i \in S}
  <1>1. back \in SUBSET Nat /\ back # {}
    <2>1. \A i \in S : n - i \in Nat
      OBVIOUS
    <2> QED
      BY <2>1
  <1>2. PICK m \in back : \A k \in back : ~(<<k, m>> \in OpToRel(<, Nat))
    BY <1>1, NatLessThanWellFounded, WFMin
  <1>3. \A k \in back : ~(k < m)
    BY <1>1, <1>2 DEF OpToRel
  <1> HIDE DEF back
  <1>4. PICK i \in S : m = n - i
    BY <1>2 DEF back
  <1>5. \A k \in S : n - k \in back
    BY DEF back
  <1>6. \A k \in S : ~(n - k < n - i)
    BY <1>3, <1>4, <1>5
  <1>7. QED
    BY <1>6

(* The maximum is that member.                                             *)
LEMMA MaxIsIn ==
  ASSUME NEW n \in Nat, NEW S \in SUBSET (1 .. n), S # {}
  PROVE  Max(S) \in S /\ \A k \in S : k <= Max(S)
  <1>1. S \in SUBSET (0 .. n)
    OBVIOUS
  <1>2. \E m \in S : \A k \in S : m >= k
    BY <1>1, MaximumExists
  <1>3. Max(S) \in S /\ \A k \in S : Max(S) >= k
    BY <1>2 DEF Max
  <1>4. QED
    BY <1>1, <1>3

(* The memory after some of the stores have been written.                  *)
LEMMA DrainedIsMemory ==
  ASSUME CoreShapes, NEW n \in 0 .. Len(sb)
  PROVE  Drained(n) \in [Val -> Val]
  <1>1. Len(sb) \in Nat /\ \A i \in 1 .. Len(sb) : sb[i] \in SbStates
    BY LenProperties, ElementOfSeq DEF CoreShapes
  <1>2. ASSUME NEW a \in Val
        PROVE  Drained(n)[a] \in Val
    <2> DEFINE hits == {i \in 1 .. n : sb[i].addr = a}
    <2>1. CASE hits = {}
      BY <2>1 DEF Drained, CoreShapes
    <2>2. CASE hits # {}
      <3>1. hits \in SUBSET (1 .. n) /\ n \in Nat /\ \A i \in 1 .. n : i \in 1 .. Len(sb)
        BY <1>1
      <3>2. PICK i \in 1 .. Len(sb) : i = Max(hits)
        <4> HIDE DEF hits
        <4>1. Max(hits) \in 1 .. n
          BY <2>2, <3>1, MaxIsIn
        <4> QED
          BY <3>1, <4>1
      <3>3. Drained(n)[a] = sb[i].val
        BY <2>2, <3>2 DEF Drained
      <3> QED
        BY <1>1, <3>3 DEF SbStates
    <2> QED
      BY <2>1, <2>2
  <1>3. QED
    BY <1>2 DEF Drained

(* What the units compute, from an instruction they may be given.          *)
LEMMA ResultIsVal ==
  ASSUME CoreShapes, InstsMatch, NEW t \in Live, CanBroadcast(t)
  PROVE  ResultOf(t) \in Val
  <1>1. t \in Tags
    BY DEF Live
  <1>2. PICK pc \in Nat, i \in Int, v \in Nat, w \in Nat :
          pc = inst[t].pc /\ i = Imm(t) /\ v = inst[t].src1.val /\ w = inst[t].src2.val
    BY <1>1, InstFacts, WrapIsVal
  <1>3. /\ Wrap(v + w) \in Val /\ Wrap(v + i) \in Val /\ Wrap(pc + 1) \in Val
    BY WrapIsVal
  <1>4. mem[Address(t)] \in Val /\ inst[t].fwd \in Val \cup {NeedsMemory}
    BY <1>1, InstFacts DEF CoreShapes, InstStates
  <1>5. Op(t) \in {"add", "addi", "load", "jal", "jalr"}
    <2>1. Op(t) \in {"addi", "add", "load", "store", "beq", "bne", "jal", "jalr"}
      BY <1>1, InstFacts DEF Op, Instructions
    <2>2. Op(t) # "store"
      BY DEF CanBroadcast, InstsMatch
    <2>3. IsControlOp(Op(t)) => IsJump(Op(t))
      BY KindsOfOps DEF CanBroadcast, InstsMatch, HasLink
    <2> QED
      BY <2>1, <2>2, <2>3 DEF IsControlOp, IsJump
  <1>6. CASE Op(t) = "add"
    BY <1>2, <1>3, <1>6 DEF ResultOf, IsJump
  <1>7. CASE Op(t) = "addi"
    BY <1>2, <1>3, <1>7 DEF ResultOf, IsJump
  <1>8. CASE Op(t) \in {"jal", "jalr"}
    BY <1>2, <1>3, <1>8 DEF ResultOf, IsJump
  <1>9. CASE Op(t) = "load"
    <2>1. ResultOf(t) = IF inst[t].fwd = NeedsMemory THEN mem[Address(t)] ELSE inst[t].fwd
      BY <1>9 DEF ResultOf, IsJump
    <2> QED
      BY <1>4, <2>1
  <1>10. QED
    BY <1>5, <1>6, <1>7, <1>8, <1>9

(* A control instruction goes to a program counter.                        *)
LEMMA NextIsPc ==
  ASSUME CoreShapes, NEW t \in Tags, IsControlOp(Op(t))
  PROVE  ActualNext(t) \in Pcs
  <1>1. PICK i \in Int, v \in Nat : i = Imm(t) /\ v = inst[t].src1.val
    BY InstFacts, WrapIsVal
  <1>2. Wrap(v + i) \in Pcs
    BY WrapIsVal DEF Pcs
  <1>3. Op(t) \in {"beq", "bne", "jal"} => Imm(t) \in Pcs
    BY ProgramFacts, InstFacts DEF CoreShapes, Op, Imm
  <1>4. Target(t) \in Pcs
    BY <1>1, <1>2, <1>3 DEF Target, IsControlOp, IsJump
  <1>5. QED
    BY <1>4, InstFacts DEF ActualNext

(* The youngest of the stores that may be forwarded from is one of them.   *)
LEMMA YoungestIsIn ==
  ASSUME head \in Tags, NEW S \in SUBSET Tags, S # {}
  PROVE  \E y \in S : /\ y = CHOOSE u \in S : \A w \in S : ~Older(u, w)
                      /\ \A w \in S : ~Older(y, w)
  <1> DEFINE ages == {AgeFromHead(u) : u \in S}
  <1>1. Capacity \in Nat /\ \A u \in S : AgeFromHead(u) \in 0 .. Capacity
    BY AgeIsPosition, RobAssumption DEF Tags
  <1>2. ages \in SUBSET (0 .. Capacity) /\ ages # {}
    BY <1>1
  <1>3. PICK m \in ages : \A k \in ages : k <= m
    <2> HIDE DEF ages
    <2> QED
      BY <1>1, <1>2, MaximumExists
  <1>4. PICK u \in S : m = AgeFromHead(u)
    BY <1>3
  <1>5. \A w \in S : ~Older(u, w)
    BY <1>1, <1>3, <1>4 DEF Older
  <1>6. QED
    BY <1>5

(* A load gets a word, or has to ask memory.                               *)
LEMMA ForwardedIsVal ==
  ASSUME CoreShapes, head \in Tags, NEW l
  PROVE  Forwarded(l) \in Val \cup {NeedsMemory}
  <1> DEFINE hits == {u \in OlderStores(l) : Address(u) = Address(l)}
             sbHits == {i \in 1 .. Len(sb) : sb[i].addr = Address(l)}
  <1>1. hits \in SUBSET Tags
    BY DEF OlderStores, InLsq, Live
  <1>2. CASE hits # {}
    <2> DEFINE u == CHOOSE u \in hits : \A w \in hits : ~Older(u, w)
    <2>1. u \in Tags
      <3> HIDE DEF hits
      <3> QED
        BY <1>1, <1>2, YoungestIsIn
    <2>2. Forwarded(l) = inst[u].store_data.val
      BY <1>2 DEF Forwarded
    <2> HIDE DEF u
    <2> QED
      BY <2>1, <2>2, InstFacts
  <1>3. CASE hits = {} /\ sbHits # {}
    <2>1. Len(sb) \in Nat /\ \A i \in 1 .. Len(sb) : sb[i] \in SbStates
      BY LenProperties, ElementOfSeq DEF CoreShapes
    <2>2. PICK i \in 1 .. Len(sb) : i = Max(sbHits)
      <3>1. sbHits \in SUBSET (1 .. Len(sb))
        OBVIOUS
      <3> HIDE DEF sbHits
      <3> QED
        BY <1>3, <2>1, <3>1, MaxIsIn
    <2>3. Forwarded(l) = sb[i].val
      BY <1>3, <2>2 DEF Forwarded
    <2> QED
      BY <2>1, <2>3 DEF SbStates
  <1>4. CASE hits = {} /\ sbHits = {}
    BY <1>4 DEF Forwarded
  <1>5. QED
    BY <1>2, <1>3, <1>4

(* What the alias table gives is an operand.                               *)
LEMMA OperandIsOperand ==
  ASSUME CoreShapes, RuTypeOK, NEW r \in Reg
  PROVE  Operand(r) \in Operands
  <1>1. rat[r] \in Tags \cup {NoTag} /\ arf[r] \in Val
    BY DEF RuTypeOK, CoreShapes
  <1>2. rat[r] # NoTag => value[rat[r]] \in Val
    BY <1>1 DEF RuTypeOK, RobTypeOK
  <1>3. rat[r] # NoTag => [ready |-> FALSE, tag |-> rat[r], val |-> 0] \in Operands
    BY <1>1, WrapIsVal DEF Operands
  <1>4. QED
    BY <1>1, <1>2, <1>3, WrapIsVal, OperandStates DEF Operand

(* A renamed instruction: an operand that waits is one that resolveOperand *)
(* found in the alias table.                                               *)
LEMMA NewInstFacts ==
  ASSUME CoreShapes, RuTypeOK, NEW f \in Fetched
  PROVE  /\ NewInst(f) \in InstStates /\ NewInst(f).pc = f.pc
         /\ ~NewInst(f).completed /\ ~NewInst(f).dispatched
         /\ \A o \in {NewInst(f).src1, NewInst(f).src2, NewInst(f).store_data} :
              ~o.ready /\ o.tag # NoTag => \E r \in Reg : o = Operand(r)
         /\ ~NewInst(f).addr_computed /\ ~NewInst(f).br_resolved /\ ~NewInst(f).mispredicted
         /\ NewInst(f).predicted_taken = f.predicted_taken
         /\ NewInst(f).predicted_target = f.predicted_target
         /\ NewInst(f).src1 = IF prog[f.pc].op = "jal" THEN Ready(0)
                                                       ELSE Operand(prog[f.pc].s1)
         /\ NewInst(f).src2 = IF prog[f.pc].op \in {"add", "beq", "bne"}
                                THEN Operand(prog[f.pc].s2) ELSE Ready(0)
         /\ NewInst(f).store_data = IF prog[f.pc].op = "store" /\ prog[f.pc].d > 0
                                      THEN Operand(prog[f.pc].d) ELSE NeverReady
  <1>1. f.pc \in DOMAIN prog /\ f.predicted_taken \in BOOLEAN /\ f.predicted_target \in Pcs
    BY DEF Fetched
  <1>2. prog[f.pc] \in Instructions
    BY <1>1, ProgramFacts DEF CoreShapes
  <1>3. prog[f.pc].s1 \in Reg /\ prog[f.pc].s2 \in Reg /\ prog[f.pc].d \in Reg
    BY <1>2 DEF Instructions
  <1>4. Ready(0) \in Operands /\ Ready(0).ready /\ NeverReady \in Operands
        /\ NeverReady.tag = NoTag
    BY OperandStates, WrapIsVal
  <1>5. \A r \in Reg : Operand(r) \in Operands
    BY OperandIsOperand
  <1>6. PICK o1 \in Operands, o2 \in Operands, o3 \in Operands :
          /\ o1 = IF prog[f.pc].op = "jal" THEN Ready(0) ELSE Operand(prog[f.pc].s1)
          /\ o2 = IF prog[f.pc].op \in {"add", "beq", "bne"} THEN Operand(prog[f.pc].s2)
                                                             ELSE Ready(0)
          /\ o3 = IF prog[f.pc].op = "store" /\ prog[f.pc].d > 0
                    THEN Operand(prog[f.pc].d) ELSE NeverReady
    BY <1>3, <1>4, <1>5
  <1>7. /\ 0 \in DOMAIN prog /\ 0 \in Pcs
    <2>1. PICK n \in Nat \ {0} : DOMAIN prog = 0 .. n - 1 /\ Pcs = Val \cup (0 .. n)
      BY ProgramFacts DEF CoreShapes
    <2> QED
      BY <2>1
  <1>8. NewInst(f) =
          [pc |-> f.pc, predicted_taken |-> f.predicted_taken,
           predicted_target |-> f.predicted_target, src1 |-> o1, src2 |-> o2,
           store_data |-> o3, addr_computed |-> FALSE, dispatched |-> FALSE,
           fwd |-> NeedsMemory, br_resolved |-> FALSE, mispredicted |-> FALSE,
           completed |-> FALSE]
    <2>1. NewInst(f) = [NoInst EXCEPT
              !.pc = f.pc, !.predicted_taken = f.predicted_taken,
              !.predicted_target = f.predicted_target,
              !.src1 = o1, !.src2 = o2, !.store_data = o3]
      BY <1>6 DEF NewInst
    <2>2. PICK o, p : o = Ready(0) /\ p = NeverReady
      OBVIOUS
    <2>3. NoInst =
            [pc |-> 0, predicted_taken |-> FALSE, predicted_target |-> 0,
             src1 |-> o, src2 |-> o, store_data |-> p,
             addr_computed |-> FALSE, dispatched |-> FALSE, fwd |-> NeedsMemory,
             br_resolved |-> FALSE, mispredicted |-> FALSE, completed |-> FALSE]
      BY <2>2 DEF NoInst
    <2> QED
      BY <2>1, <2>3
  <1>9. NewInst(f) \in InstStates
    BY <1>1, <1>8 DEF InstStates
  <1>10. \A o \in {o1, o2, o3} : ~o.ready /\ o.tag # NoTag => \E r \in Reg : o = Operand(r)
    BY <1>3, <1>4, <1>6
  <1>11. QED
    BY <1>6, <1>8, <1>9, <1>10

(* A free entry has not started.                                           *)
LEMMA NoInstFacts ==
  ASSUME prog \in Programs
  PROVE  NoInst \in InstStates /\ ~NoInst.dispatched /\ ~NoInst.completed
  <1>1. 0 \in DOMAIN prog /\ 0 \in Pcs
    BY ProgramFacts
  <1>2. Ready(0) \in Operands /\ NeverReady \in Operands
    BY OperandStates, WrapIsVal
  <1>3. QED
    BY <1>1, <1>2 DEF NoInst, InstStates

-------------------------------------------------------------------------------
(* Steps that leave the instructions alone.                                *)

(* The empty core satisfies the invariant.                                 *)
LEMMA CoreInitInv == CoreInit => CoreInv
  <1> SUFFICES ASSUME CoreInit PROVE CoreInv
    OBVIOUS
  <1>1. RuInv
    BY RuInitInv DEF CoreInit
  <1>2. \A t \in Tags : ~busy[t]
    BY DEF CoreInit, RuInit, RobInit
  <1>3. /\ stage = "commit" /\ step = "stores" /\ wakeups = {} /\ resolving = {}
        /\ prog \in Programs
    BY DEF CoreInit, RuInit
  <1>4. CoreShapes
    <2>1. inst \in [Tags -> InstStates]
      BY <1>3, NoInstFacts DEF CoreInit
    <2>2. arf \in [Reg -> Val] /\ mem \in [Val -> Val] /\ 0 \in Pcs
      BY WrapIsVal DEF CoreInit, Pcs
    <2>3. Len(<<>>) = 0 /\ <<>> \in Seq(SbStates) /\ <<>> \in Seq(Fetched)
      BY EmptySeq
    <2> QED
      BY <1>3, <2>1, <2>2, <2>3, ConstantsAreSizes DEF CoreShapes, CoreInit, Steps
  <1>5. StepsOfStage /\ ResolvingAreOpen /\ WakeupsAreFresh /\ WakeupsAreCurrent
    BY <1>3 DEF StepsOfStage, ResolvingAreOpen, WakeupsAreFresh, WakeupsAreCurrent
  <1>6. InstsMatch /\ OperandsWaitForLiveProducers /\ DoneStoresRetire
    BY <1>2 DEF InstsMatch, OperandsWaitForLiveProducers, DoneStoresRetire, Live
  <1>7. QED
    BY <1>1, <1>4, <1>5, <1>6 DEF CoreInv

(* Where no instruction changes, what is said of them stays.               *)
LEMMA SameInsts ==
  ASSUME CoreInv, UNCHANGED <<robVars, kind, prog, inst, wakeups>>
  PROVE  /\ InstsMatch' /\ WakeupsAreCurrent' /\ OperandsWaitForLiveProducers'
         /\ Live' = Live /\ \A t : Op(t)' = Op(t) /\ AgeFromHead(t)' = AgeFromHead(t)
  <1>1. /\ Live' = Live
        /\ \A t : Op(t)' = Op(t) /\ AgeFromHead(t)' = AgeFromHead(t)
    BY DEF Live, Op, AgeFromHead, robVars
  <1>2. InstsMatch'
    BY <1>1 DEF CoreInv, InstsMatch, robVars
  <1>3. WakeupsAreCurrent'
    BY DEF CoreInv, WakeupsAreCurrent, robVars
  <1>4. OperandsWaitForLiveProducers'
    BY <1>1 DEF CoreInv, OperandsWaitForLiveProducers, Older, robVars
  <1>5. QED
    BY <1>1, <1>2, <1>3, <1>4

(* The end of the store step keeps the invariant.                          *)
LEMMA EndStoresInv ==
  ASSUME CoreInv, EndStores
  PROVE  CoreInv'
  <1>1. /\ UNCHANGED <<ruVars, prog, arf, inst, wakeups, memVars, frontVars, resolving>>
        /\ step = "stores" /\ step' = "commit" /\ lane' = 0
    BY DEF EndStores
  <1>2. RuInv'
    BY <1>1, RuNextInv DEF CoreInv
  <1>3. stage' = stage /\ robVars' = robVars /\ kind' = kind
    BY <1>1 DEF ruVars, renameVars
  <1>4. CoreShapes'
    BY <1>1, PcsStay DEF CoreInv, CoreShapes, Steps, memVars, frontVars
  <1>5. stage = "commit" /\ wakeups = {} /\ resolving = {}
    BY <1>1 DEF CoreInv, StepsOfStage, WakeupsAreFresh, ResolvingAreOpen
  <1>6. StepsOfStage' /\ WakeupsAreFresh' /\ ResolvingAreOpen'
    BY <1>1, <1>3, <1>5 DEF StepsOfStage, WakeupsAreFresh, ResolvingAreOpen
  <1>7. /\ InstsMatch' /\ WakeupsAreCurrent' /\ OperandsWaitForLiveProducers'
        /\ Live' = Live /\ \A t : Op(t)' = Op(t) /\ AgeFromHead(t)' = AgeFromHead(t)
    BY <1>1, <1>3, SameInsts
  <1>8. DoneStoresRetire'
    <2>1. done' = done
      BY <1>3 DEF robVars
    <2>2. \A t \in Live : Op(t) = "store" /\ done[t] =>
            /\ AgeFromHead(t) < Width /\ \A u \in Live : Older(u, t) => done[u]
      BY <1>1 DEF CoreInv, DoneStoresRetire
    <2>3. Width - lane' = Width
      BY <1>1, ConstantsAreSizes
    <2>4. step' # "stores"
      BY <1>1
    <2> QED
      BY <1>3, <1>5, <1>7, <2>1, <2>2, <2>3, <2>4 DEF DoneStoresRetire, Older
  <1>9. QED
    BY <1>2, <1>4, <1>6, <1>7, <1>8 DEF CoreInv

(* Outside the commit stage no store that is still in the reorder buffer   *)
(* is done, and no step that completes none changes that.                  *)
LEMMA NoStoreIsDone ==
  ASSUME CoreInv, step \in {"resolve", "broadcast", "rename", "fetch"}
  PROVE  \A t \in Live : Op(t) = "store" => ~done[t]
  BY DEF CoreInv, StepsOfStage, DoneStoresRetire

(* Where no store is done, none has to retire.                             *)
LEMMA StillNoStoreIsDone ==
  ASSUME (\A t \in Live : Op(t) = "store" => ~done[t])'
  PROVE  DoneStoresRetire'
  BY DEF DoneStoresRetire

(* Decoding, fetch and the end of recovery touch the queues only and keep  *)
(* the invariant.                                                          *)
LEMMA FrontInv ==
  ASSUME CoreInv,
         \/ EndResolve \/ DecodeStage
         \/ \E taken \in BOOLEAN, target \in Pcs : FetchOne(taken, target)
  PROVE  CoreInv'
  <1>1. /\ UNCHANGED <<ruVars, prog, arf, inst, wakeups, memVars, resolving>>
        /\ step \in {"resolve", "rename", "fetch"}
        /\ \/ step = "resolve" /\ step' = "broadcast" /\ resolving = {}
           \/ step \in {"rename", "fetch"} /\ step' = "fetch"
    BY DEF EndResolve, DecodeStage, FetchOne
  <1>2. RuInv'
    BY <1>1, RuNextInv DEF CoreInv
  <1>3. stage' = stage /\ robVars' = robVars /\ kind' = kind
    BY <1>1 DEF ruVars, renameVars
  <1>4. CoreShapes'
    <2>1. /\ fetch_pc \in Pcs /\ ifq \in Seq(Fetched) /\ dispatch_reg \in Seq(Fetched)
          /\ Len(ifq) \in Nat /\ Len(ifq) <= IfqSize /\ Len(dispatch_reg) <= Width
          /\ lane \in Nat /\ Pcs' = Pcs /\ Fetched' = Fetched /\ InstStates' = InstStates
      BY <1>1, PcsStay, LenProperties DEF CoreInv, CoreShapes
    <2>2. CASE EndResolve
      BY <1>1, <2>1, <2>2 DEF CoreInv, CoreShapes, EndResolve, Steps, memVars, frontVars
    <2>3. CASE DecodeStage
      <3>1. CASE CanCapture
        <4>1. PICK n \in Nat, k \in Nat : n = Len(ifq) /\ k = BundleSize /\ k <= n /\ k <= Width
          BY <2>1, ConstantsAreSizes DEF BundleSize
        <4>2. dispatch_reg' = SubSeq(ifq, 1, k) /\ ifq' = SubSeq(ifq, k + 1, n)
          BY <2>3, <3>1, <4>1 DEF DecodeStage
        <4>3. /\ dispatch_reg' \in Seq(Fetched) /\ Len(dispatch_reg') = k
              /\ ifq' \in Seq(Fetched) /\ Len(ifq') <= IfqSize
          <5>1. ifq \in Seq(Fetched) /\ Len(ifq) = n /\ n <= IfqSize
            BY <2>1, <4>1
          <5>2. \A i \in 1 .. n : ifq[i] \in Fetched
            BY <5>1, ElementOfSeq
          <5>3. dispatch_reg' \in Seq(Fetched) /\ Len(dispatch_reg') = k
            BY <4>1, <4>2, <5>1, <5>2, SubSeqProperties
          <5>4. ifq' \in Seq(Fetched) /\ Len(ifq') = n - k
            BY <4>1, <4>2, <5>1, <5>2, SubSeqProperties
          <5> QED
            BY <4>1, <5>1, <5>3, <5>4, ConstantsAreSizes
        <4> QED
          BY <1>1, <2>1, <2>3, <4>1, <4>3
             DEF CoreInv, CoreShapes, DecodeStage, Steps, memVars
      <3>2. CASE ~CanCapture
        BY <1>1, <2>1, <2>3, <3>2 DEF CoreInv, CoreShapes, DecodeStage, Steps, memVars
      <3> QED
        BY <3>1, <3>2
    <2>4. ASSUME NEW taken \in BOOLEAN, NEW target \in Pcs, FetchOne(taken, target)
          PROVE  CoreShapes'
      <3> DEFINE f == [pc |-> fetch_pc, predicted_taken |-> taken,
                       predicted_target |-> target]
      <3>1. f \in Fetched
        BY <2>4 DEF Fetched, FetchOne, FetchGoesOn
      <3>2. ifq' = Append(ifq, f) /\ Len(ifq) < IfqSize
        BY <2>4 DEF FetchOne, FetchGoesOn, IfqHasRoom
      <3>3. ifq' \in Seq(Fetched) /\ Len(ifq') = Len(ifq) + 1
        <4> HIDE DEF f
        <4> QED
          BY <2>1, <3>1, <3>2, AppendProperties
      <3>4. Len(ifq') <= IfqSize
        BY <2>1, <3>2, <3>3, ConstantsAreSizes
      <3>5. lane' \in Nat /\ fetch_pc' = target /\ dispatch_reg' = dispatch_reg
        BY <2>1, <2>4, ConstantsAreSizes DEF FetchOne
      <3> QED
        BY <1>1, <2>1, <3>3, <3>4, <3>5 DEF CoreInv, CoreShapes, Steps, memVars
    <2> QED
      BY <2>2, <2>3, <2>4
  <1>5. StepsOfStage' /\ WakeupsAreFresh' /\ ResolvingAreOpen'
    <2>1. step' \in {"broadcast", "fetch"} /\ resolving = {}
      BY <1>1 DEF CoreInv, ResolvingAreOpen
    <2> QED
      BY <1>1, <1>3, <2>1 DEF CoreInv, StepsOfStage, WakeupsAreFresh, ResolvingAreOpen
  <1>6. /\ InstsMatch' /\ WakeupsAreCurrent' /\ OperandsWaitForLiveProducers'
        /\ Live' = Live /\ \A t : Op(t)' = Op(t)
    BY <1>1, <1>3, SameInsts
  <1>7. DoneStoresRetire'
    <2>1. \A t \in Live : Op(t) = "store" => ~done[t]
      BY <1>1, NoStoreIsDone
    <2>2. (\A t \in Live : Op(t) = "store" => ~done[t])'
      BY <1>3, <1>6, <2>1 DEF robVars
    <2> QED
      BY <2>2, StillNoStoreIsDone
  <1>8. QED
    BY <1>2, <1>4, <1>5, <1>6, <1>7 DEF CoreInv

-------------------------------------------------------------------------------
(* Steps that keep every instruction in its place.                         *)

SamePlaces ==
  /\ UNCHANGED <<head, busy, kind, dest_reg, prog>>
  /\ \A t \in Tags : inst'[t].pc = inst[t].pc

(* Where the window stays, so do ages and operations.                      *)
LEMMA PlacesStay ==
  ASSUME SamePlaces
  PROVE  Live' = Live /\ \A t \in Tags : Op(t)' = Op(t) /\ AgeFromHead(t)' = AgeFromHead(t)
  BY DEF SamePlaces, Live, Op, AgeFromHead

(* Where the window stays, the tables go on to agree.                      *)
LEMMA MatchStays ==
  ASSUME CoreInv, SamePlaces,
         \A t \in Live : done'[t] <=> inst'[t].completed,
         \A t \in Live : inst'[t].dispatched => inst[t].dispatched \/ Op(t) # "store"
  PROVE  InstsMatch'
  <1>1. \A t \in Live : t \in Tags
    BY DEF Live
  <1>2. QED
    BY <1>1, PlacesStay DEF SamePlaces, CoreInv, InstsMatch

(* The operands that still wait are old ones, and a result they wait for   *)
(* that is there is in the wakeups.                                        *)
LEMMA WaitingStays ==
  ASSUME CoreInv, SamePlaces,
         \A t \in Live : \A o \in {inst'[t].src1, inst'[t].src2, inst'[t].store_data} :
            ~o.ready =>
              /\ o \in {inst[t].src1, inst[t].src2, inst[t].store_data}
              /\ \A p \in Live : p = o.tag /\ Writes(kind[p], dest_reg[p]) /\ done'[p] =>
                   \/ [tag |-> p, val |-> value'[p]] \in wakeups'
                   \/ /\ done[p] /\ value'[p] = value[p]
                      /\ [tag |-> p, val |-> value[p]] \in wakeups => [tag |-> p, val |-> value[p]] \in wakeups'
  PROVE  OperandsWaitForLiveProducers'
  <1> SUFFICES ASSUME NEW t \in Live',
                      NEW o \in {inst'[t].src1, inst'[t].src2, inst'[t].store_data},
                      ~o.ready, o.tag # NoTag
               PROVE  /\ o.tag \in Live' /\ AgeFromHead(o.tag)' < AgeFromHead(t)'
                      /\ Writes(kind'[o.tag], dest_reg'[o.tag])
                      /\ done'[o.tag] => [tag |-> o.tag, val |-> value'[o.tag]] \in wakeups'
    BY DEF OperandsWaitForLiveProducers, Older
  <1>0. Live' = Live /\ t \in Live /\ kind' = kind /\ dest_reg' = dest_reg
    BY PlacesStay DEF SamePlaces
  <1>1. o \in {inst[t].src1, inst[t].src2, inst[t].store_data}
    BY <1>0
  <1>2. PICK p : p = o.tag
    OBVIOUS
  <1>3. /\ p \in Live /\ Older(p, t) /\ Writes(kind[p], dest_reg[p])
        /\ done[p] => [tag |-> p, val |-> value[p]] \in wakeups
    BY <1>0, <1>1, <1>2 DEF CoreInv, OperandsWaitForLiveProducers
  <1>4. p \in Tags /\ t \in Tags
    BY <1>0, <1>3 DEF Live
  <1>5. AgeFromHead(p)' < AgeFromHead(t)'
    BY <1>3, <1>4, PlacesStay DEF Older
  <1>6. done'[p] => [tag |-> p, val |-> value'[p]] \in wakeups'
    BY <1>0, <1>2, <1>3
  <1>7. QED
    BY <1>0, <1>2, <1>3, <1>5, <1>6

(* Completing an instruction writes its result and marks it done, nothing  *)
(* else.                                                                   *)
LEMMA ResultWritten ==
  ASSUME CoreInv, NEW t \in Live, NEW v \in Val, Complete(t, v)
  PROVE  /\ RuInv' /\ UNCHANGED <<head, busy, kind, dest_reg, stage>>
         /\ value' = [value EXCEPT ![t] = v] /\ done' = [done EXCEPT ![t] = TRUE]
         /\ \A u \in Tags : /\ done'[u] <=> done[u] \/ u = t
                            /\ u # t => value'[u] = value[u]
         /\ value'[t] = v
  <1>1. t \in Tags /\ busy[t]
    BY DEF Live
  <1>2. RuInv'
    BY <1>1, RuNextInv DEF CoreInv, RuNext
  <1>3. /\ UNCHANGED <<head, busy, kind, dest_reg, stage>>
        /\ value' = [value EXCEPT ![t] = v] /\ done' = [done EXCEPT ![t] = TRUE]
    BY <1>1 DEF Complete, WriteResult, renameVars
  <1>4. done \in [Tags -> BOOLEAN] /\ value \in [Tags -> Val]
    BY DEF CoreInv, RuInv, RuTypeOK, RobTypeOK
  <1>5. QED
    BY <1>1, <1>2, <1>3, <1>4

(* An instruction marked complete.                                         *)
LEMMA CompletedInst ==
  ASSUME CoreShapes, NEW t \in Tags, inst' = [inst EXCEPT ![t].completed = TRUE]
  PROVE  /\ inst' \in [Tags -> InstStates]
         /\ \A u \in Tags : /\ inst'[u].pc = inst[u].pc /\ inst'[u].src1 = inst[u].src1
                            /\ inst'[u].src2 = inst[u].src2
                            /\ inst'[u].store_data = inst[u].store_data
                            /\ inst'[u].dispatched = inst[u].dispatched
                            /\ inst'[u].completed = IF u = t THEN TRUE ELSE inst[u].completed
  <1>1. inst \in [Tags -> InstStates]
    BY DEF CoreShapes
  <1>2. \A i \in InstStates :
          /\ [i EXCEPT !.completed = TRUE] \in InstStates
          /\ [i EXCEPT !.completed = TRUE].pc = i.pc
          /\ [i EXCEPT !.completed = TRUE].src1 = i.src1
          /\ [i EXCEPT !.completed = TRUE].src2 = i.src2
          /\ [i EXCEPT !.completed = TRUE].store_data = i.store_data
          /\ [i EXCEPT !.completed = TRUE].dispatched = i.dispatched
          /\ [i EXCEPT !.completed = TRUE].completed = TRUE
    BY DEF InstStates
  <1>3. inst' = [inst EXCEPT ![t] = [inst[t] EXCEPT !.completed = TRUE]]
    BY <1>1
  <1>4. QED
    BY <1>1, <1>2, <1>3

(* A store that enters the store buffer keeps the invariant: all that is   *)
(* older is done.                                                          *)
LEMMA EnqueueStoreInv ==
  ASSUME CoreInv, NEW t \in Tags, EnqueueStore(t)
  PROVE  CoreInv'
  <1> DEFINE e == [addr |-> Address(t), val |-> inst[t].store_data.val]
  <1>1. /\ step = "stores" /\ t \in Live /\ Complete(t, 0)
        /\ inst' = [inst EXCEPT ![t].completed = TRUE]
        /\ sb' = Append(sb, e) /\ Len(sb) < SbDepth /\ lane' = lane + 1
        /\ UNCHANGED <<prog, step, arf, wakeups, mem, frontVars, resolving>>
    BY DEF EnqueueStore, CanEnqueue, SbHasSpace, Live
  <1>2. /\ Op(t) = "store" /\ AgeFromHead(t) < Width
        /\ \A u \in Live : Older(u, t) => done[u]
    BY DEF EnqueueStore, CanEnqueue, StorePermitted
  <1>3. /\ RuInv' /\ UNCHANGED <<head, busy, kind, dest_reg, stage>>
        /\ \A u \in Tags : /\ done'[u] <=> done[u] \/ u = t
                           /\ u # t => value'[u] = value[u]
    BY <1>1, ResultWritten, WrapIsVal
  <1>4. CoreShapes
    BY DEF CoreInv
  <1>5. /\ inst' \in [Tags -> InstStates]
        /\ \A u \in Tags : /\ inst'[u].pc = inst[u].pc /\ inst'[u].src1 = inst[u].src1
                           /\ inst'[u].src2 = inst[u].src2
                           /\ inst'[u].store_data = inst[u].store_data
                           /\ inst'[u].dispatched = inst[u].dispatched
                           /\ inst'[u].completed = IF u = t THEN TRUE ELSE inst[u].completed
    BY <1>1, <1>4, CompletedInst
  <1>6. SamePlaces /\ \A u \in Live : u \in Tags
    BY <1>1, <1>3, <1>5 DEF SamePlaces, Live
  <1>7. CoreShapes'
    <2>1. e \in SbStates
      BY <1>4, InstFacts DEF SbStates
    <2>2. sb' \in Seq(SbStates) /\ Len(sb') = Len(sb) + 1 /\ Len(sb) \in Nat
      <3> HIDE DEF e
      <3> QED
        BY <1>1, <1>4, <2>1, AppendProperties, LenProperties DEF CoreShapes
    <2>3. Len(sb') <= SbDepth /\ lane' \in Nat
      BY <1>1, <1>4, <2>2, ConstantsAreSizes DEF CoreShapes
    <2>4. Pcs' = Pcs /\ InstStates' = InstStates /\ Fetched' = Fetched
      BY <1>1, PcsStay
    <2> QED
      BY <1>1, <1>4, <1>5, <2>2, <2>3, <2>4 DEF CoreShapes, frontVars
  <1>8. InstsMatch'
    <2>1. \A u \in Live : done'[u] <=> inst'[u].completed
      BY <1>3, <1>5, <1>6 DEF CoreInv, InstsMatch
    <2> QED
      BY <1>5, <1>6, <2>1, MatchStays
  <1>9. wakeups = {} /\ resolving = {} /\ wakeups' = {} /\ resolving' = {}
    BY <1>1 DEF CoreInv, WakeupsAreFresh, ResolvingAreOpen
  <1>10. OperandsWaitForLiveProducers'
    <2>1. kind[t] = "store"
      BY <1>1, <1>2, KindsOfOps DEF CoreInv, InstsMatch
    <2>2. \A p \in Live : Writes(kind[p], dest_reg[p]) /\ done'[p] =>
            done[p] /\ value'[p] = value[p]
      BY <1>3, <1>6, <2>1 DEF Writes
    <2> QED
      BY <1>5, <1>6, <1>9, <2>2, WaitingStays
  <1>11. StepsOfStage' /\ ResolvingAreOpen' /\ WakeupsAreFresh' /\ WakeupsAreCurrent'
    BY <1>1, <1>3, <1>9
       DEF CoreInv, StepsOfStage, ResolvingAreOpen, WakeupsAreFresh, WakeupsAreCurrent
  <1>12. DoneStoresRetire'
    <2>1. Live' = Live /\ \A u \in Tags : Op(u)' = Op(u) /\ AgeFromHead(u)' = AgeFromHead(u)
      BY <1>6, PlacesStay
    <2>2. stage' = "commit" /\ step' = "stores"
      BY <1>1, <1>3 DEF CoreInv, StepsOfStage
    <2>3. ASSUME NEW s \in Live, Op(s) = "store", done'[s]
          PROVE  AgeFromHead(s) < Width /\ \A u \in Live : Older(u, s) => done'[u]
      <3>1. s = t \/ done[s]
        BY <1>3, <1>6, <2>3
      <3>2. AgeFromHead(s) < Width /\ \A u \in Live : Older(u, s) => done[u]
        BY <1>1, <1>2, <2>3, <3>1 DEF CoreInv, DoneStoresRetire
      <3> QED
        BY <1>3, <1>6, <3>2
    <2>4. \A s, u \in Live : Older(u, s)' <=> Older(u, s)
      BY <1>6, <2>1 DEF Older
    <2> QED
      BY <1>6, <2>1, <2>2, <2>3, <2>4 DEF DoneStoresRetire
  <1>13. QED
    BY <1>3, <1>7, <1>8, <1>10, <1>11, <1>12 DEF CoreInv

(* A control instruction that finishes keeps the invariant.                *)
LEMMA FinishResolveInv ==
  ASSUME CoreInv, NEW t \in Tags, FinishResolve(t)
  PROVE  CoreInv'
  <1>1. /\ step = "resolve" /\ t \in resolving /\ resolving' = resolving \ {t}
        /\ UNCHANGED <<prog, step, lane, arf, wakeups, memVars, frontVars>>
    BY DEF FinishResolve, OldestResolving
  <1>2. /\ t \in Live /\ kind[t] = "control" /\ CoreShapes
        /\ \A u \in resolving : busy[u] /\ kind[u] = "control" /\ ~done[u]
        /\ wakeups = {} /\ wakeups' = {}
    BY <1>1 DEF CoreInv, ResolvingAreOpen, WakeupsAreFresh, Live
  <1>3. IsControlOp(Op(t)) /\ dest_reg[t] = prog[inst[t].pc].d
    BY <1>2, KindsOfOps DEF CoreInv, InstsMatch
  <1>4. /\ RuInv' /\ UNCHANGED <<head, busy, kind, dest_reg, stage>>
        /\ \A u \in Tags : done'[u] => done[u] \/ (u = t /\ ~HasLink(t))
        /\ \A u \in Tags : u # t \/ HasLink(t) => value'[u] = value[u]
        /\ \A u \in Live : done'[u] <=> inst'[u].completed
        /\ inst' \in [Tags -> InstStates]
        /\ \A u \in Tags : /\ inst'[u].pc = inst[u].pc /\ inst'[u].src1 = inst[u].src1
                           /\ inst'[u].src2 = inst[u].src2
                           /\ inst'[u].store_data = inst[u].store_data
                           /\ inst'[u].dispatched = inst[u].dispatched
    <2>1. CASE HasLink(t)
      <3>1. UNCHANGED <<ruVars, inst>>
        BY <2>1 DEF FinishResolve
      <3>2. RuInv'
        BY <3>1, RuNextInv DEF CoreInv
      <3> QED
        BY <2>1, <3>1, <3>2 DEF CoreInv, CoreShapes, InstsMatch, ruVars, robVars, renameVars
    <2>2. CASE ~HasLink(t)
      <3>1. Complete(t, 0) /\ inst' = [inst EXCEPT ![t].completed = TRUE]
        BY <2>2 DEF FinishResolve
      <3>2. /\ RuInv' /\ UNCHANGED <<head, busy, kind, dest_reg, stage>>
            /\ \A u \in Tags : /\ done'[u] <=> done[u] \/ u = t
                               /\ u # t => value'[u] = value[u]
        BY <1>2, <3>1, ResultWritten, WrapIsVal
      <3>3. /\ inst' \in [Tags -> InstStates]
            /\ \A u \in Tags : /\ inst'[u].pc = inst[u].pc /\ inst'[u].src1 = inst[u].src1
                               /\ inst'[u].src2 = inst[u].src2
                               /\ inst'[u].store_data = inst[u].store_data
                               /\ inst'[u].dispatched = inst[u].dispatched
                               /\ inst'[u].completed = IF u = t THEN TRUE ELSE inst[u].completed
        BY <1>2, <3>1, CompletedInst
      <3>4. \A u \in Live : done'[u] <=> inst'[u].completed
        BY <3>2, <3>3 DEF CoreInv, InstsMatch, Live
      <3> QED
        BY <2>2, <3>2, <3>3, <3>4
    <2> QED
      BY <2>1, <2>2
  <1>5. SamePlaces /\ \A u \in Live : u \in Tags
    BY <1>1, <1>4 DEF SamePlaces, Live
  <1>6. CoreShapes'
    <2>1. Pcs' = Pcs /\ InstStates' = InstStates /\ Fetched' = Fetched
      BY <1>1, PcsStay
    <2> QED
      BY <1>1, <1>2, <1>4, <2>1 DEF CoreShapes, frontVars, memVars
  <1>7. InstsMatch'
    BY <1>4, <1>5, MatchStays
  (* Without a link value the instruction writes no register.              *)
  <1>8. ~HasLink(t) => ~Writes(kind[t], dest_reg[t])
    <2>1. Op(t) \in {"beq", "bne"} => dest_reg[t] = 0
      BY <1>2, <1>3, ProgramFacts, InstFacts DEF CoreShapes, Op
    <2> QED
      BY <1>3, <2>1 DEF HasLink, Writes, IsControlOp
  <1>9. OperandsWaitForLiveProducers'
    <2>1. \A p \in Live : Writes(kind[p], dest_reg[p]) /\ done'[p] =>
            done[p] /\ value'[p] = value[p]
      BY <1>4, <1>5, <1>8
    <2> QED
      BY <1>2, <1>4, <1>5, <2>1, WaitingStays
  <1>10. StepsOfStage' /\ WakeupsAreFresh' /\ WakeupsAreCurrent'
    BY <1>1, <1>2, <1>4 DEF CoreInv, StepsOfStage, WakeupsAreFresh, WakeupsAreCurrent
  <1>11. ResolvingAreOpen'
    BY <1>1, <1>2, <1>4, <1>5 DEF ResolvingAreOpen, CoreShapes
  <1>12. DoneStoresRetire'
    <2>1. Live' = Live /\ \A u \in Tags : Op(u)' = Op(u)
      BY <1>5, PlacesStay
    <2>2. Op(t) # "store"
      BY <1>3 DEF IsControlOp, IsJump
    <2>3. \A u \in Live : Op(u) = "store" => ~done'[u]
      BY <1>1, <1>4, <1>5, <2>2, NoStoreIsDone
    <2> QED
      BY <1>5, <2>1, <2>3, StillNoStoreIsDone
  <1>13. QED
    BY <1>4, <1>6, <1>7, <1>9, <1>10, <1>11, <1>12 DEF CoreInv

(* A broadcast keeps the invariant: whoever waits finds the value in the   *)
(* wakeups.                                                                *)
LEMMA BroadcastInv ==
  ASSUME CoreInv, NEW t \in Tags, BroadcastCDB(t)
  PROVE  CoreInv'
  <1>1. /\ step = "broadcast" /\ t \in Live /\ Complete(t, ResultOf(t)) /\ CanBroadcast(t)
        /\ inst' = [inst EXCEPT ![t].completed = TRUE]
        /\ wakeups' = wakeups \cup {[tag |-> t, val |-> ResultOf(t)]}
        /\ lane' = lane + 1
        /\ UNCHANGED <<prog, step, arf, memVars, frontVars, resolving>>
    BY DEF BroadcastCDB, Live
  <1>2. CoreShapes /\ InstsMatch /\ ~inst[t].completed /\ inst[t].dispatched
    BY <1>1 DEF CoreInv, CanBroadcast
  <1>3. ~done[t] /\ Op(t) # "store" /\ resolving = {}
    BY <1>1, <1>2 DEF CoreInv, InstsMatch, ResolvingAreOpen
  <1>4. PICK v \in Val : v = ResultOf(t)
    BY <1>1, <1>2, ResultIsVal
  <1>5. /\ RuInv' /\ UNCHANGED <<head, busy, kind, dest_reg, stage>> /\ value'[t] = v
        /\ \A u \in Tags : /\ done'[u] <=> done[u] \/ u = t
                           /\ u # t => value'[u] = value[u]
    BY <1>1, <1>4, ResultWritten
  <1>6. /\ inst' \in [Tags -> InstStates]
        /\ \A u \in Tags : /\ inst'[u].pc = inst[u].pc /\ inst'[u].src1 = inst[u].src1
                           /\ inst'[u].src2 = inst[u].src2
                           /\ inst'[u].store_data = inst[u].store_data
                           /\ inst'[u].dispatched = inst[u].dispatched
                           /\ inst'[u].completed = IF u = t THEN TRUE ELSE inst[u].completed
    BY <1>1, <1>2, CompletedInst
  <1>7. SamePlaces /\ \A u \in Live : u \in Tags
    BY <1>1, <1>5, <1>6 DEF SamePlaces, Live
  <1>8. wakeups' = wakeups \cup {[tag |-> t, val |-> v]}
    BY <1>1, <1>4
  <1>9. CoreShapes'
    <2>1. wakeups' \in SUBSET [tag : Tags, val : Val] /\ lane' \in Nat
      BY <1>1, <1>2, <1>8 DEF CoreShapes
    <2>2. Pcs' = Pcs /\ InstStates' = InstStates /\ Fetched' = Fetched
      BY <1>1, PcsStay
    <2> QED
      BY <1>1, <1>2, <1>6, <2>1, <2>2 DEF CoreShapes, frontVars, memVars
  <1>10. InstsMatch'
    <2>1. \A u \in Live : done'[u] <=> inst'[u].completed
      BY <1>2, <1>5, <1>6, <1>7 DEF InstsMatch
    <2> QED
      BY <1>6, <1>7, <2>1, MatchStays
  <1>11. OperandsWaitForLiveProducers'
    <2>1. \A p \in Live : done'[p] =>
            \/ [tag |-> p, val |-> value'[p]] \in wakeups'
            \/ done[p] /\ value'[p] = value[p]
      BY <1>5, <1>7, <1>8
    <2>2. \A w : w \in wakeups => w \in wakeups'
      BY <1>8
    <2> QED
      BY <1>6, <1>7, <2>1, <2>2, WaitingStays
  <1>12. WakeupsAreCurrent'
    <2>1. \A w \in wakeups : w.tag \in Tags /\ busy[w.tag] /\ done[w.tag] /\ value[w.tag] = w.val
      BY <1>2 DEF CoreInv, WakeupsAreCurrent, CoreShapes
    <2>2. \A w \in wakeups : w.tag # t
      BY <1>3, <2>1
    <2>3. \A w \in wakeups' : busy'[w.tag] /\ done'[w.tag] /\ value'[w.tag] = w.val
      <3>1. \A w \in wakeups : busy'[w.tag] /\ done'[w.tag] /\ value'[w.tag] = w.val
        BY <1>5, <2>1, <2>2
      <3>2. busy'[t] /\ done'[t] /\ value'[t] = v
        BY <1>1, <1>5 DEF Live
      <3> QED
        BY <1>8, <3>1, <3>2
    <2> QED
      BY <2>3 DEF WakeupsAreCurrent
  <1>13. StepsOfStage' /\ WakeupsAreFresh' /\ ResolvingAreOpen'
    BY <1>1, <1>3, <1>5 DEF CoreInv, StepsOfStage, WakeupsAreFresh, ResolvingAreOpen
  <1>14. DoneStoresRetire'
    <2>1. Live' = Live /\ \A u \in Tags : Op(u)' = Op(u)
      BY <1>7, PlacesStay
    <2>2. \A u \in Live : Op(u) = "store" => ~done'[u]
      BY <1>1, <1>3, <1>5, <1>7, NoStoreIsDone
    <2> QED
      BY <1>7, <2>1, <2>2, StillNoStoreIsDone
  <1>15. QED
    BY <1>5, <1>9, <1>10, <1>11, <1>12, <1>13, <1>14 DEF CoreInv

(* The commit stage ends when every instruction up to the last done store  *)
(* has retired.                                                            *)
LEMMA EndCommitInv ==
  ASSUME CoreInv, EndCommit
  PROVE  CoreInv'
  <1>1. /\ step = "commit" /\ EnterStage /\ step' = "resolve" /\ lane' = 0
        /\ lane = Width \/ active_count = 0 \/ ~done[head]
        /\ UNCHANGED <<prog, arf, inst, wakeups, frontVars>>
        /\ resolving' \in SUBSET {t \in Live : /\ kind[t] = "control"
                                               /\ inst[t].dispatched
                                               /\ ~inst[t].completed}
    BY DEF EndCommit
  <1>2. PICK n \in 0 .. Len(sb) : mem' = Drained(n) /\ sb' = SubSeq(sb, n + 1, Len(sb))
    BY DEF EndCommit
  <1>3. CoreShapes /\ stage = "commit" /\ wakeups = {}
    BY <1>1 DEF CoreInv, StepsOfStage, WakeupsAreFresh
  <1>4. UNCHANGED <<robVars, kind>> /\ stage' = "writeback"
    BY <1>1, <1>3 DEF EnterStage, NextStage
  <1>5. RuInv'
    BY <1>1, RuNextInv DEF CoreInv, RuNext
  <1>6. /\ InstsMatch' /\ WakeupsAreCurrent' /\ OperandsWaitForLiveProducers'
        /\ Live' = Live /\ \A t : Op(t)' = Op(t)
    BY <1>1, <1>4, SameInsts
  <1>7. CoreShapes'
    <2>1. sb' \in Seq(SbStates) /\ Len(sb') <= SbDepth
      <3>1. PICK k \in Nat : k = Len(sb)
        BY <1>3, LenProperties DEF CoreShapes
      <3>2. /\ sb \in Seq(SbStates) /\ Len(sb) = k /\ k <= SbDepth /\ n \in 0 .. k
            /\ sb' = SubSeq(sb, n + 1, k)
        BY <1>2, <1>3, <3>1 DEF CoreShapes
      <3>3. \A i \in 1 .. k : sb[i] \in SbStates
        BY <3>2, ElementOfSeq
      <3>4. sb' \in Seq(SbStates) /\ Len(sb') = k - n
        BY <3>2, <3>3, SubSeqProperties
      <3> QED
        BY <3>2, <3>4, ConstantsAreSizes
    <2>2. mem' \in [Val -> Val]
      BY <1>2, <1>3, DrainedIsMemory
    <2>3. resolving' \in SUBSET Tags
      BY <1>1 DEF Live
    <2>4. Pcs' = Pcs /\ InstStates' = InstStates /\ Fetched' = Fetched
      BY <1>1, PcsStay
    <2> QED
      BY <1>1, <1>3, <2>1, <2>2, <2>3, <2>4 DEF CoreShapes, Steps, frontVars
  <1>8. StepsOfStage' /\ WakeupsAreFresh'
    BY <1>1, <1>3, <1>4 DEF StepsOfStage, WakeupsAreFresh
  <1>9. ResolvingAreOpen'
    <2>1. \A t \in resolving' : busy[t] /\ kind[t] = "control" /\ ~done[t]
      BY <1>1 DEF CoreInv, InstsMatch, Live
    <2> QED
      BY <1>1, <1>4, <2>1 DEF ResolvingAreOpen, robVars
  <1>10. DoneStoresRetire'
    <2>1. ASSUME NEW t \in Live, Op(t) = "store", done[t]
          PROVE  FALSE
      <3>1. AgeFromHead(t) < Width - lane /\ \A u \in Live : Older(u, t) => done[u]
        BY <1>1, <2>1 DEF CoreInv, DoneStoresRetire
      <3>2. t \in Tags /\ busy[t]
        BY DEF Live
      <3>3. /\ AgeFromHead(t) \in Nat /\ head \in Tags /\ AgeFromHead(head) = 0
            /\ AgeFromHead(t) = 0 <=> t = head
        BY <3>2, AgesAreNat DEF CoreInv
      <3>4. lane # Width
        BY <3>1, <3>3, ConstantsAreSizes
      <3>5. AgeFromHead(t) < active_count /\ active_count \in Nat
        BY <3>2, RobAssumption DEF CoreInv, RuInv, RobInv, RobTypeOK, BusyIsWindow
      <3>6. head \in Live
        BY <3>3, <3>5 DEF Live, CoreInv, RuInv, RobInv, BusyIsWindow
      <3>7. done[head]
        BY <2>1, <3>1, <3>3, <3>6 DEF Older
      <3> QED
        BY <1>1, <3>3, <3>4, <3>5, <3>7
    <2> QED
      BY <1>4, <1>6, <2>1, StillNoStoreIsDone DEF robVars
  <1>11. QED
    BY <1>5, <1>6, <1>7, <1>8, <1>9, <1>10 DEF CoreInv

(* Entering a stage keeps the reorder buffer as it is.                     *)
LEMMA StageEntered ==
  ASSUME CoreInv, EnterStage
  PROVE  RuInv' /\ UNCHANGED <<robVars, kind>> /\ stage' = NextStage
  BY RuNextInv DEF CoreInv, RuNext, EnterStage

(* The dispatch stage keeps the invariant.                                 *)
LEMMA DispatchStageInv ==
  ASSUME CoreInv, DispatchStage
  PROVE  CoreInv'
  <1>1. /\ step = "broadcast" /\ EnterStage /\ step' = "rename" /\ lane' = 0
        /\ UNCHANGED <<prog, arf, wakeups, memVars, frontVars, resolving>>
    BY DEF DispatchStage
  <1>2. PICK issued \in SUBSET ReadyInRs :
          inst' = [t \in Tags |->
                  [inst[t] EXCEPT
                     !.addr_computed = @ \/ (t \in InLsq /\ inst[t].src1.ready),
                     !.dispatched = @ \/ t \in issued \/ t \in StartingLoads,
                     !.fwd = IF t \in StartingLoads THEN Forwarded(t) ELSE @]]
    BY DEF DispatchStage
  <1>3. /\ CoreShapes /\ stage = "writeback" /\ resolving = {}
    BY <1>1 DEF CoreInv, StepsOfStage, ResolvingAreOpen
  <1>4. RuInv' /\ UNCHANGED <<robVars, kind>> /\ stage' = "rename"
    BY <1>1, <1>3, StageEntered DEF NextStage
  <1>5. head \in Tags /\ inst \in [Tags -> InstStates]
    BY <1>3 DEF CoreInv, RuInv, RobInv, RobTypeOK, CoreShapes
  <1>7. ASSUME NEW t \in Tags
        PROVE  /\ inst'[t] \in InstStates /\ inst'[t].pc = inst[t].pc
               /\ inst'[t].src1 = inst[t].src1 /\ inst'[t].src2 = inst[t].src2
               /\ inst'[t].store_data = inst[t].store_data
               /\ inst'[t].dispatched => inst[t].dispatched \/ Op(t) # "store"
               /\ inst'[t].completed = inst[t].completed
    <2>1. PICK i \in InstStates : i = inst[t]
      BY <1>5
    <2>2. PICK a \in BOOLEAN :
            a = (i.addr_computed \/ (t \in InLsq /\ i.src1.ready))
      BY DEF InstStates
    <2>3. PICK d \in BOOLEAN : d = (i.dispatched \/ t \in issued \/ t \in StartingLoads)
      BY DEF InstStates
    <2>4. PICK f \in Val \cup {NeedsMemory} :
            f = IF t \in StartingLoads THEN Forwarded(t) ELSE i.fwd
      BY <1>3, <1>5, ForwardedIsVal DEF InstStates
    <2>5. inst'[t] = [i EXCEPT !.addr_computed = a, !.dispatched = d, !.fwd = f]
      BY <1>2, <2>1, <2>2, <2>3, <2>4
    <2>6. d => i.dispatched \/ Op(t) # "store"
      <3>1. t \in issued => Op(t) # "store"
        BY <1>2 DEF ReadyInRs, InRs, IsMem
      <3>2. t \in StartingLoads => Op(t) = "load"
        BY DEF StartingLoads
      <3> QED
        BY <2>3, <3>1, <3>2
    <2>7. /\ inst'[t] \in InstStates /\ inst'[t].pc = i.pc
          /\ inst'[t].src1 = i.src1 /\ inst'[t].src2 = i.src2
          /\ inst'[t].store_data = i.store_data /\ inst'[t].dispatched = d
          /\ inst'[t].completed = i.completed
      <3>1. PICK j : j = inst'[t]
        OBVIOUS
      <3>2. j = [pc |-> i.pc, predicted_taken |-> i.predicted_taken,
                 predicted_target |-> i.predicted_target, src1 |-> i.src1, src2 |-> i.src2,
                 store_data |-> i.store_data, addr_computed |-> a, dispatched |-> d,
                 fwd |-> f, br_resolved |-> i.br_resolved,
                 mispredicted |-> i.mispredicted, completed |-> i.completed]
        BY <2>5, <3>1 DEF InstStates
      <3>3. j \in InstStates
        BY <3>2 DEF InstStates
      <3>4. /\ j.pc = i.pc /\ j.src1 = i.src1 /\ j.src2 = i.src2 /\ j.store_data = i.store_data
            /\ j.dispatched = d /\ j.completed = i.completed
        BY <3>2
      <3> QED
        BY <3>1, <3>3, <3>4
    <2> QED
      BY <2>1, <2>6, <2>7
  <1>8. SamePlaces /\ \A u \in Live : u \in Tags
    BY <1>1, <1>4, <1>7 DEF SamePlaces, Live, robVars
  <1>9. CoreShapes'
    <2>1. inst' \in [Tags -> InstStates]
      BY <1>2, <1>7
    <2>2. Pcs' = Pcs /\ InstStates' = InstStates /\ Fetched' = Fetched
      BY <1>1, PcsStay
    <2> QED
      BY <1>1, <1>3, <2>1, <2>2 DEF CoreShapes, Steps, frontVars, memVars
  <1>10. InstsMatch'
    <2>1. \A u \in Live : done'[u] <=> inst'[u].completed
      BY <1>4, <1>7, <1>8 DEF CoreInv, InstsMatch, robVars
    <2> QED
      BY <1>7, <1>8, <2>1, MatchStays
  <1>11. OperandsWaitForLiveProducers'
    <2>1. \A p \in Live : done'[p] => done[p] /\ value'[p] = value[p]
      BY <1>4 DEF robVars
    <2> QED
      BY <1>1, <1>7, <1>8, <2>1, WaitingStays
  <1>12. StepsOfStage' /\ WakeupsAreFresh' /\ ResolvingAreOpen' /\ WakeupsAreCurrent'
    BY <1>1, <1>3, <1>4
       DEF CoreInv, StepsOfStage, WakeupsAreFresh, ResolvingAreOpen, WakeupsAreCurrent, robVars
  <1>13. DoneStoresRetire'
    <2>1. Live' = Live /\ \A u \in Tags : Op(u)' = Op(u)
      BY <1>8, PlacesStay
    <2>2. \A u \in Live : Op(u) = "store" => ~done'[u]
      BY <1>1, <1>4, NoStoreIsDone DEF robVars
    <2> QED
      BY <1>8, <2>1, <2>2, StillNoStoreIsDone
  <1>14. QED
    BY <1>4, <1>9, <1>10, <1>11, <1>12, <1>13 DEF CoreInv

(* An operand after the wakeups have been applied.                         *)
LEMMA SnoopedFacts ==
  ASSUME CoreShapes, NEW o \in Operands
  PROVE  /\ Snooped(o) \in Operands
         /\ ~Snooped(o).ready => Snooped(o) = o /\ \A w \in wakeups : w.tag # o.tag
  <1> DEFINE hits == {w \in wakeups : w.tag = o.tag}
  <1>1. CASE o.ready \/ hits = {}
    BY <1>1 DEF Snooped
  <1>2. CASE ~(o.ready \/ hits = {})
    <2>1. PICK w \in hits : w = CHOOSE x \in hits : TRUE
      BY <1>2
    <2>2. w.val \in Val
      BY DEF CoreShapes
    <2>3. Snooped(o) = Ready(w.val)
      BY <1>2, <2>1 DEF Snooped
    <2> QED
      BY <2>2, <2>3, OperandStates
  <1>3. QED
    BY <1>1, <1>2

(* The next tick keeps the invariant: whoever waited for a result that     *)
(* has passed gets it.                                                     *)
LEMMA NextTickInv ==
  ASSUME CoreInv, NextTick
  PROVE  CoreInv'
  <1>1. /\ step = "fetch" /\ EnterStage /\ step' = "stores" /\ lane' = 0 /\ wakeups' = {}
        /\ inst' = [t \in Tags |->
                [inst[t] EXCEPT !.src1 = Snooped(@), !.src2 = Snooped(@),
                                !.store_data = Snooped(@)]]
        /\ UNCHANGED <<prog, arf, memVars, frontVars, resolving>>
    BY DEF NextTick, WakeupsAfterTick
  <1>2. /\ CoreShapes /\ stage = "rename" /\ resolving = {}
    BY <1>1 DEF CoreInv, StepsOfStage, ResolvingAreOpen
  <1>3. RuInv' /\ UNCHANGED <<robVars, kind>> /\ stage' = "commit"
    BY <1>1, <1>2, StageEntered DEF NextStage
  <1>5. ASSUME NEW t \in Tags
        PROVE  /\ inst'[t] \in InstStates /\ inst'[t].pc = inst[t].pc
               /\ inst'[t].src1 = Snooped(inst[t].src1)
               /\ inst'[t].src2 = Snooped(inst[t].src2)
               /\ inst'[t].store_data = Snooped(inst[t].store_data)
               /\ inst'[t].dispatched = inst[t].dispatched
               /\ inst'[t].completed = inst[t].completed
    <2>1. PICK i \in InstStates : i = inst[t]
      BY <1>2 DEF CoreShapes
    <2>2. i.src1 \in Operands /\ i.src2 \in Operands /\ i.store_data \in Operands
      BY DEF InstStates
    <2>3. PICK a \in Operands, b \in Operands, c \in Operands :
            a = Snooped(i.src1) /\ b = Snooped(i.src2) /\ c = Snooped(i.store_data)
      BY <1>2, <2>2, SnoopedFacts
    <2>4. inst'[t] = [i EXCEPT !.src1 = a, !.src2 = b, !.store_data = c]
      BY <1>1, <2>1, <2>3
    <2>5. /\ inst'[t] \in InstStates /\ inst'[t].pc = i.pc
          /\ inst'[t].src1 = a /\ inst'[t].src2 = b /\ inst'[t].store_data = c
          /\ inst'[t].dispatched = i.dispatched /\ inst'[t].completed = i.completed
      <3>1. PICK j : j = inst'[t]
        OBVIOUS
      <3>2. j = [pc |-> i.pc, predicted_taken |-> i.predicted_taken,
                 predicted_target |-> i.predicted_target, src1 |-> a, src2 |-> b,
                 store_data |-> c, addr_computed |-> i.addr_computed, dispatched |-> i.dispatched,
                 fwd |-> i.fwd, br_resolved |-> i.br_resolved,
                 mispredicted |-> i.mispredicted, completed |-> i.completed]
        BY <2>4, <3>1 DEF InstStates
      <3>3. j \in InstStates
        BY <3>2 DEF InstStates
      <3>4. /\ j.pc = i.pc /\ j.src1 = a /\ j.src2 = b /\ j.store_data = c
            /\ j.dispatched = i.dispatched /\ j.completed = i.completed
        BY <3>2
      <3> QED
        BY <3>1, <3>3, <3>4
    <2> QED
      BY <2>1, <2>3, <2>5
  <1>6. SamePlaces /\ \A u \in Live : u \in Tags
    BY <1>1, <1>3, <1>5 DEF SamePlaces, Live, robVars
  <1>7. CoreShapes'
    <2>1. inst' \in [Tags -> InstStates]
      BY <1>1, <1>5
    <2>2. Pcs' = Pcs /\ InstStates' = InstStates /\ Fetched' = Fetched
      BY <1>1, PcsStay
    <2> QED
      BY <1>1, <1>2, <2>1, <2>2 DEF CoreShapes, Steps, frontVars, memVars
  <1>8. InstsMatch'
    <2>1. \A u \in Live : done'[u] <=> inst'[u].completed
      BY <1>3, <1>5, <1>6 DEF CoreInv, InstsMatch, robVars
    <2> QED
      BY <1>5, <1>6, <2>1, MatchStays
  (* An operand that still waits found no wakeup: its producer is not done. *)
  <1>9. OperandsWaitForLiveProducers'
    <2>1. ASSUME NEW t \in Live,
                 NEW o \in {inst'[t].src1, inst'[t].src2, inst'[t].store_data}, ~o.ready
          PROVE  /\ o \in {inst[t].src1, inst[t].src2, inst[t].store_data}
                 /\ \A p \in Live : p = o.tag /\ Writes(kind[p], dest_reg[p]) => ~done'[p]
      <3>1. PICK q \in {inst[t].src1, inst[t].src2, inst[t].store_data} : o = Snooped(q)
        BY <1>5, <1>6
      <3>2. q \in Operands
        BY <1>2, <1>6, InstFacts
      <3>3. o = q /\ \A w \in wakeups : w.tag # q.tag
        BY <2>1, <3>1, <3>2, SnoopedFacts, <1>2
      <3>4. ASSUME NEW p \in Live, p = o.tag, done[p] PROVE FALSE
        <4>1. o.tag # NoTag
          BY <1>6, <3>4, RobAssumption DEF Tags, NoTag
        <4>2. [tag |-> p, val |-> value[p]] \in wakeups
          BY <2>1, <3>1, <3>3, <3>4, <4>1 DEF CoreInv, OperandsWaitForLiveProducers
        <4> QED
          BY <3>3, <3>4, <4>2
      <3> QED
        BY <1>3, <3>1, <3>3, <3>4 DEF robVars
    <2> QED
      BY <1>6, <2>1, WaitingStays
  <1>10. StepsOfStage' /\ WakeupsAreFresh' /\ ResolvingAreOpen' /\ WakeupsAreCurrent'
    BY <1>1, <1>2, <1>3
       DEF StepsOfStage, WakeupsAreFresh, ResolvingAreOpen, WakeupsAreCurrent
  <1>11. DoneStoresRetire'
    <2>1. Live' = Live /\ \A u \in Tags : Op(u)' = Op(u)
      BY <1>6, PlacesStay
    <2>2. \A u \in Live : Op(u) = "store" => ~done'[u]
      BY <1>1, <1>3, NoStoreIsDone DEF robVars
    <2> QED
      BY <1>6, <2>1, <2>2, StillNoStoreIsDone
  <1>12. QED
    BY <1>3, <1>7, <1>8, <1>9, <1>10, <1>11 DEF CoreInv

-------------------------------------------------------------------------------
(* Steps by which instructions enter and leave.                            *)

(* A source operand that has to wait names the newest writer of its        *)
(* register, which is in flight and not done.                              *)
LEMMA WaitingOperand ==
  ASSUME CoreInv, NEW r \in Reg, NEW o, o = Operand(r), ~o.ready, o.tag # NoTag
  PROVE  o.tag \in Live /\ Writes(kind[o.tag], dest_reg[o.tag]) /\ ~done[o.tag]
  <1>1. rat[r] \in Tags \cup {NoTag}
    BY DEF CoreInv, RuInv, RuTypeOK
  <1>2. \A v : Ready(v).ready
    BY DEF Ready
  <1>3. rat[r] # NoTag /\ ~done[rat[r]] /\ o.tag = rat[r]
    BY <1>2 DEF Operand
  <1>4. rat[r] \in WritersUpTo(r, Capacity - 1)
    BY <1>3 DEF CoreInv, RuInv, RatNamesNewestWriter, MapsNewestWriters, IsNewest
  <1>5. QED
    BY <1>3, <1>4 DEF WritersUpTo, Live

(* The instruction that enters is the last of the window; the others stay  *)
(* what and where they are.                                                *)
LEMMA RenameFacts ==
  ASSUME CoreInv, RenameInst,
         NEW f \in Fetched, NEW k \in Kinds, NEW d \in Reg, NEW i \in InstStates,
         f = Head(dispatch_reg), k = KindOf(prog[f.pc].op), d = prog[f.pc].d, i = NewInst(f)
  PROVE  /\ RenameOne(k, d) /\ inst' = [inst EXCEPT ![tail] = i] /\ step = "rename"
         /\ dispatch_reg' = Tail(dispatch_reg) /\ dispatch_reg # <<>>
         /\ UNCHANGED <<prog, step, lane, arf, wakeups, memVars, fetch_pc, ifq, resolving>>
         /\ RuInv' /\ stage = "rename" /\ active_count' = active_count + 1
         /\ busy' = [busy EXCEPT ![tail] = TRUE] /\ done' = [done EXCEPT ![tail] = FALSE]
         /\ dest_reg' = [dest_reg EXCEPT ![tail] = d] /\ kind' = [kind EXCEPT ![tail] = k]
         /\ UNCHANGED <<head, value, stage>>
         /\ tail \in Tags /\ active_count \in Nat /\ AgeFromHead(tail) = active_count
         /\ Live' = Live \cup {tail} /\ tail \notin Live
         /\ \A u \in Live : /\ u \in Tags /\ u # tail /\ inst'[u] = inst[u]
                            /\ kind'[u] = kind[u] /\ dest_reg'[u] = dest_reg[u]
                            /\ done'[u] = done[u] /\ Op(u)' = Op(u)
                            /\ AgeFromHead(u) < AgeFromHead(tail)
         /\ inst'[tail] = i /\ kind'[tail] = k /\ dest_reg'[tail] = d /\ ~done'[tail]
         /\ \A t \in Tags : AgeFromHead(t)' = AgeFromHead(t)
  <1>1. CoreShapes /\ RuTypeOK /\ RobInv
    BY DEF CoreInv, RuInv
  <1>7. /\ RenameOne(k, d) /\ inst' = [inst EXCEPT ![tail] = i] /\ step = "rename"
        /\ dispatch_reg' = Tail(dispatch_reg) /\ dispatch_reg # <<>>
        /\ UNCHANGED <<prog, step, lane, arf, wakeups, memVars, fetch_pc, ifq, resolving>>
    BY DEF RenameInst, CanRename
  <1>8. /\ RuInv' /\ stage = "rename" /\ active_count < Capacity
        /\ active_count' = active_count + 1
        /\ busy' = [busy EXCEPT ![tail] = TRUE] /\ done' = [done EXCEPT ![tail] = FALSE]
        /\ dest_reg' = [dest_reg EXCEPT ![tail] = d] /\ kind' = [kind EXCEPT ![tail] = k]
        /\ UNCHANGED <<head, value, stage>>
    BY <1>7, RuNextInv DEF CoreInv, RuNext, RenameOne, Dispatch, HasSpace
  <1>9. tail \in Tags /\ head \in Tags /\ active_count \in Nat /\ AgeFromHead(tail) = active_count
    BY <1>1, <1>8, AgeOfTail, RobAssumption DEF RobInv, RobTypeOK
  <1>10. ~busy[tail]
    BY <1>1, <1>9 DEF RobInv, BusyIsWindow
  <1>11. /\ Live' = Live \cup {tail} /\ tail \notin Live
         /\ \A u \in Live : /\ u \in Tags /\ u # tail /\ inst'[u] = inst[u]
                            /\ kind'[u] = kind[u] /\ dest_reg'[u] = dest_reg[u]
                            /\ done'[u] = done[u] /\ Op(u)' = Op(u)
                            /\ AgeFromHead(u) < AgeFromHead(tail)
    <2>1. busy \in [Tags -> BOOLEAN] /\ done \in [Tags -> BOOLEAN]
          /\ kind \in [Tags -> Kinds] /\ dest_reg \in [Tags -> Reg]
      BY <1>1 DEF RuTypeOK, RobInv, RobTypeOK
    <2>2. inst \in [Tags -> InstStates]
      BY <1>1 DEF CoreShapes
    <2>3. Live' = Live \cup {tail} /\ tail \notin Live
      BY <1>8, <1>9, <1>10, <2>1 DEF Live
    <2>4. ASSUME NEW u \in Live
          PROVE  /\ u \in Tags /\ u # tail /\ inst'[u] = inst[u]
                 /\ kind'[u] = kind[u] /\ dest_reg'[u] = dest_reg[u]
                 /\ done'[u] = done[u] /\ AgeFromHead(u) < AgeFromHead(tail)
      BY <1>1, <1>7, <1>8, <1>9, <1>10, <2>1, <2>2 DEF Live, RobInv, BusyIsWindow
    <2>5. \A u \in Live : Op(u)' = Op(u)
      BY <1>7, <2>4 DEF Op
    <2> QED
      BY <2>3, <2>4, <2>5
  <1>12. /\ inst'[tail] = i /\ kind'[tail] = k /\ dest_reg'[tail] = d /\ ~done'[tail]
    BY <1>1, <1>7, <1>8, <1>9 DEF CoreShapes, RuTypeOK, RobInv, RobTypeOK
  <1>13. \A t \in Tags : AgeFromHead(t)' = AgeFromHead(t)
    BY <1>8 DEF AgeFromHead
  <1>14. QED
    BY <1>7, <1>8, <1>9, <1>11, <1>12, <1>13

(* Renaming keeps the invariant: operands wait for the newest writers, or  *)
(* have their values.                                                      *)
LEMMA RenameInstInv ==
  ASSUME CoreInv, RenameInst
  PROVE  CoreInv'
  <1>1. CoreShapes /\ RuTypeOK /\ RobInv
    BY DEF CoreInv, RuInv
  <1>2. PICK f \in Fetched : f = Head(dispatch_reg)
    BY <1>1, HeadTailProperties DEF RenameInst, CanRename, CoreShapes
  <1>3. prog[f.pc] \in Instructions
    BY <1>1, ProgramFacts DEF CoreShapes, Fetched
  <1>4. PICK k \in Kinds, d \in Reg : k = KindOf(prog[f.pc].op) /\ d = prog[f.pc].d
    BY <1>3, KindsOfOps DEF Instructions
  <1>5. PICK i \in InstStates : i = NewInst(f)
    BY <1>1, NewInstFacts
  <1>6. /\ i.pc = f.pc /\ ~i.completed /\ ~i.dispatched
        /\ \A o \in {i.src1, i.src2, i.store_data} :
             ~o.ready /\ o.tag # NoTag => \E r \in Reg : o = Operand(r)
    BY <1>1, <1>5, NewInstFacts
  <1>7. /\ RenameOne(k, d) /\ inst' = [inst EXCEPT ![tail] = i] /\ step = "rename"
        /\ dispatch_reg' = Tail(dispatch_reg) /\ dispatch_reg # <<>>
        /\ UNCHANGED <<prog, step, lane, arf, wakeups, memVars, fetch_pc, ifq, resolving>>
    BY <1>2, <1>4, <1>5, RenameFacts
  <1>8. /\ RuInv' /\ stage = "rename"
        /\ busy' = [busy EXCEPT ![tail] = TRUE] /\ done' = [done EXCEPT ![tail] = FALSE]
        /\ dest_reg' = [dest_reg EXCEPT ![tail] = d] /\ kind' = [kind EXCEPT ![tail] = k]
        /\ UNCHANGED <<head, value, stage>>
    BY <1>2, <1>4, <1>5, RenameFacts
  <1>9. tail \in Tags
    BY <1>2, <1>4, <1>5, RenameFacts
  <1>11. /\ Live' = Live \cup {tail} /\ tail \notin Live
         /\ \A u \in Live : /\ u \in Tags /\ u # tail /\ inst'[u] = inst[u]
                            /\ kind'[u] = kind[u] /\ dest_reg'[u] = dest_reg[u]
                            /\ done'[u] = done[u] /\ Op(u)' = Op(u)
                            /\ AgeFromHead(u) < AgeFromHead(tail)
    BY <1>2, <1>4, <1>5, RenameFacts
  <1>12. /\ inst'[tail] = i /\ kind'[tail] = k /\ dest_reg'[tail] = d /\ ~done'[tail]
    BY <1>2, <1>4, <1>5, RenameFacts
  <1>13. \A t \in Tags : AgeFromHead(t)' = AgeFromHead(t)
    BY <1>2, <1>4, <1>5, RenameFacts
  <1>14. \A n \in Tags : n = tail => Op(n)' = prog[f.pc].op
    BY <1>6, <1>7, <1>12 DEF Op
  <1>15. CoreShapes'
    <2>1. dispatch_reg' \in Seq(Fetched) /\ Len(dispatch_reg') <= Width
      <3>1. PICK n \in Nat : n = Len(dispatch_reg)
        BY <1>1, LenProperties DEF CoreShapes
      <3>2. dispatch_reg' \in Seq(Fetched) /\ Len(dispatch_reg') = n - 1
        BY <1>1, <1>7, <3>1, HeadTailProperties DEF CoreShapes
      <3> QED
        BY <1>1, <3>1, <3>2, ConstantsAreSizes DEF CoreShapes
    <2>2. Pcs' = Pcs /\ InstStates' = InstStates /\ Fetched' = Fetched
      BY <1>7, PcsStay
    <2>3. inst' \in [Tags -> InstStates]
      BY <1>1, <1>7 DEF CoreShapes
    <2> QED
      BY <1>1, <1>7, <2>1, <2>2, <2>3 DEF CoreShapes, memVars
  <1>16. InstsMatch'
    <2>1. PICK n \in Tags : n = tail
      BY <1>9
    <2>2. /\ kind'[n] = KindOf(Op(n)') /\ dest_reg'[n] = prog'[inst'[n].pc].d
          /\ done'[n] <=> inst'[n].completed
          /\ ~inst'[n].dispatched
      BY <1>4, <1>6, <1>7, <1>12, <1>14, <2>1
    <2>3. \A u \in Live : /\ kind'[u] = KindOf(Op(u)') /\ dest_reg'[u] = prog'[inst'[u].pc].d
                          /\ done'[u] <=> inst'[u].completed
                          /\ inst'[u].dispatched => Op(u)' # "store"
      BY <1>7, <1>11 DEF CoreInv, InstsMatch
    <2> QED
      BY <1>11, <2>1, <2>2, <2>3 DEF InstsMatch
  <1>17. WakeupsAreCurrent'
    <2>1. \A w \in wakeups : w.tag \in Live
      BY <1>1 DEF CoreInv, WakeupsAreCurrent, CoreShapes, Live
    <2> QED
      BY <1>7, <1>8, <1>11, <2>1 DEF CoreInv, WakeupsAreCurrent, Live
  <1>18. OperandsWaitForLiveProducers'
    <2>1. ASSUME NEW t \in Live', NEW o \in {inst'[t].src1, inst'[t].src2, inst'[t].store_data},
                 ~o.ready, o.tag # NoTag
          PROVE  /\ o.tag \in Live' /\ AgeFromHead(o.tag)' < AgeFromHead(t)'
                 /\ Writes(kind'[o.tag], dest_reg'[o.tag])
                 /\ done'[o.tag] => [tag |-> o.tag, val |-> value'[o.tag]] \in wakeups'
      <3>1. PICK p : p = o.tag
        OBVIOUS
      <3>2. /\ p \in Live /\ Older(p, t) /\ Writes(kind[p], dest_reg[p])
            /\ done[p] => [tag |-> p, val |-> value[p]] \in wakeups
        <4>1. CASE t = tail
          <5>1. p \in Live /\ Writes(kind[p], dest_reg[p]) /\ ~done[p]
            BY <1>6, <1>12, <2>1, <3>1, <4>1, WaitingOperand
          <5> QED
            BY <1>11, <4>1, <5>1 DEF Older
        <4>2. CASE t # tail
          <5>1. t \in Live /\ inst'[t] = inst[t]
            BY <1>11, <2>1, <4>2
          <5>2. o \in {inst[t].src1, inst[t].src2, inst[t].store_data}
            BY <2>1, <5>1
          <5> QED
            BY <2>1, <3>1, <5>1, <5>2 DEF CoreInv, OperandsWaitForLiveProducers
        <4> QED
          BY <4>1, <4>2
      <3>3. t \in Tags /\ p \in Tags
        BY <3>2, <1>9, <1>11
      <3>4. AgeFromHead(p)' < AgeFromHead(t)'
        BY <1>13, <3>2, <3>3 DEF Older
      <3> QED
        BY <1>7, <1>8, <1>11, <3>1, <3>2, <3>4
    <2> QED
      BY <2>1 DEF OperandsWaitForLiveProducers, Older
  <1>19. StepsOfStage' /\ WakeupsAreFresh' /\ ResolvingAreOpen'
    BY <1>7, <1>8 DEF CoreInv, StepsOfStage, WakeupsAreFresh, ResolvingAreOpen
  <1>20. DoneStoresRetire'
    <2>1. \A u \in Live : Op(u) = "store" => ~done[u]
      BY <1>7, NoStoreIsDone
    <2>2. \A u \in Live' : Op(u)' = "store" => ~done'[u]
      BY <1>11, <1>12, <2>1
    <2> QED
      BY <2>2, StillNoStoreIsDone
  <1>21. QED
    BY <1>8, <1>15, <1>16, <1>17, <1>18, <1>19, <1>20 DEF CoreInv

(* Nothing waits for the instruction that retires: what it produced went   *)
(* to its consumers at the beginning of the tick.                          *)
LEMMA CommitInstInv ==
  ASSUME CoreInv, CommitInst
  PROVE  CoreInv'
  <1>1. CoreShapes /\ RuTypeOK /\ RobInv
    BY DEF CoreInv, RuInv
  <1>2. /\ CommitOne /\ step = "commit" /\ lane' = lane + 1
        /\ arf' = IF Writes(kind[head], dest_reg[head])
                    THEN [arf EXCEPT ![dest_reg[head]] = value[head]] ELSE arf
        /\ inst' = [inst EXCEPT ![head] = NoInst]
        /\ UNCHANGED <<prog, step, wakeups, memVars, frontVars, resolving>>
    BY DEF CommitInst
  <1>3. /\ RuInv' /\ done[head] /\ head \in Tags
        /\ busy' = [busy EXCEPT ![head] = FALSE] /\ done' = [done EXCEPT ![head] = FALSE]
        /\ head' = (head + 1) % Capacity
        /\ UNCHANGED <<kind, dest_reg, value, stage>>
    BY <1>1, <1>2, RuNextInv DEF CoreInv, RuNext, CommitOne, Commit, RobInv, RobTypeOK
  <1>4. stage = "commit" /\ wakeups = {} /\ resolving = {}
    BY <1>2 DEF CoreInv, StepsOfStage, WakeupsAreFresh, ResolvingAreOpen
  <1>5. /\ Live' = Live \ {head}
        /\ \A u \in Live' : /\ u \in Live /\ u \in Tags /\ u # head /\ inst'[u] = inst[u]
                            /\ done'[u] = done[u] /\ Op(u)' = Op(u)
                            /\ AgeFromHead(u) \in Nat
                            /\ AgeFromHead(u)' = AgeFromHead(u) - 1
    <2>1. busy \in [Tags -> BOOLEAN] /\ done \in [Tags -> BOOLEAN] /\ inst \in [Tags -> InstStates]
      BY <1>1 DEF RobInv, RobTypeOK, CoreShapes
    <2>2. Live' = Live \ {head}
      BY <1>3, <2>1 DEF Live
    <2>3. ASSUME NEW u \in Live \ {head}
          PROVE  /\ u \in Live /\ u \in Tags /\ u # head /\ inst'[u] = inst[u]
                 /\ done'[u] = done[u] /\ AgeFromHead(u) \in Nat
                 /\ AgeFromHead(u)' = AgeFromHead(u) - 1
      <3>1. u \in Live /\ u \in Tags /\ u # head
        BY DEF Live
      <3>2. inst'[u] = inst[u] /\ done'[u] = done[u]
        BY <1>2, <1>3, <2>1, <3>1
      <3>3. AgeFromHead(u) \in Nat
        BY <3>1, AgesAreNat DEF CoreInv
      <3>4. AgeFromHead(u)' = AgeFromHead(u) - 1
        BY <1>3, <3>1, AgeAfterCommit
      <3> QED
        BY <3>1, <3>2, <3>3, <3>4
    <2>4. \A u \in Live \ {head} : Op(u)' = Op(u)
      BY <1>2, <2>3 DEF Op
    <2> QED
      BY <2>2, <2>3, <2>4
  <1>6. CoreShapes'
    <2>1. inst' \in [Tags -> InstStates]
      BY <1>1, <1>2, NoInstFacts DEF CoreShapes
    <2>2. arf' \in [Reg -> Val]
      BY <1>1, <1>2, <1>3 DEF CoreShapes, RobInv, RobTypeOK
    <2>3. Pcs' = Pcs /\ InstStates' = InstStates /\ Fetched' = Fetched
      BY <1>2, PcsStay
    <2>4. lane' \in Nat
      BY <1>1, <1>2 DEF CoreShapes
    <2> QED
      BY <1>1, <1>2, <2>1, <2>2, <2>3, <2>4 DEF CoreShapes, frontVars, memVars
  <1>7. InstsMatch'
    <2>1. \A u \in Live' : /\ kind[u] = KindOf(Op(u)') /\ dest_reg[u] = prog'[inst'[u].pc].d
                           /\ done'[u] <=> inst'[u].completed
                           /\ inst'[u].dispatched => Op(u)' # "store"
      BY <1>2, <1>5 DEF CoreInv, InstsMatch
    <2> QED
      BY <1>3, <2>1 DEF InstsMatch
  <1>8. OperandsWaitForLiveProducers'
    <2>1. ASSUME NEW t \in Live', NEW o \in {inst'[t].src1, inst'[t].src2, inst'[t].store_data},
                 ~o.ready, o.tag # NoTag
          PROVE  /\ o.tag \in Live' /\ AgeFromHead(o.tag)' < AgeFromHead(t)'
                 /\ Writes(kind[o.tag], dest_reg[o.tag]) /\ ~done'[o.tag]
      <3>1. t \in Live /\ inst'[t] = inst[t]
        BY <1>5, <2>1
      <3>2. PICK p : p = o.tag
        OBVIOUS
      <3>3. o \in {inst[t].src1, inst[t].src2, inst[t].store_data}
        BY <3>1
      <3>4. p \in Live /\ Older(p, t) /\ Writes(kind[p], dest_reg[p]) /\ ~done[p]
        BY <1>4, <2>1, <3>1, <3>2, <3>3 DEF CoreInv, OperandsWaitForLiveProducers
      <3>5. p \in Live'
        BY <1>3, <1>5, <3>4
      <3>6. AgeFromHead(p)' < AgeFromHead(t)'
        BY <1>5, <3>4, <3>5 DEF Older
      <3> QED
        BY <1>5, <3>2, <3>4, <3>5, <3>6
    <2> QED
      BY <1>3, <2>1 DEF OperandsWaitForLiveProducers, Older
  <1>9. StepsOfStage' /\ WakeupsAreFresh' /\ ResolvingAreOpen' /\ WakeupsAreCurrent'
    BY <1>2, <1>3, <1>4
       DEF CoreInv, StepsOfStage, WakeupsAreFresh, ResolvingAreOpen, WakeupsAreCurrent
  <1>10. DoneStoresRetire'
    <2>1. ASSUME NEW t \in Live', Op(t)' = "store", done'[t]
          PROVE  /\ AgeFromHead(t)' < Width - lane'
                 /\ \A u \in Live' : AgeFromHead(u)' < AgeFromHead(t)' => done'[u]
      <3>1. t \in Live /\ Op(t) = "store" /\ done[t]
        BY <1>5, <2>1
      <3>2. AgeFromHead(t) < Width - lane /\ \A u \in Live : Older(u, t) => done[u]
        BY <1>2, <3>1 DEF CoreInv, DoneStoresRetire
      <3>3. AgeFromHead(t)' < Width - lane'
        BY <1>1, <1>2, <1>5, <2>1, <3>2, ConstantsAreSizes DEF CoreShapes
      <3>4. ASSUME NEW u \in Live', AgeFromHead(u)' < AgeFromHead(t)'
            PROVE  done'[u]
        <4>1. AgeFromHead(u) < AgeFromHead(t)
          BY <1>5, <2>1, <3>4
        <4> QED
          BY <1>5, <3>2, <3>4, <4>1 DEF Older
      <3> QED
        BY <3>3, <3>4
    <2>2. stage' = "commit" /\ step' # "stores"
      BY <1>2, <1>3, <1>4
    <2> QED
      BY <2>1, <2>2 DEF DoneStoresRetire, Older
  <1>11. QED
    BY <1>3, <1>6, <1>7, <1>8, <1>9, <1>10 DEF CoreInv

(* What a recovery leaves is older than what it squashes, and waits only   *)
(* for instructions that are older still.                                  *)
LEMMA RecoveryInv ==
  ASSUME CoreInv, NEW t \in Tags, ResolveBranch(t), Mispredicted(t)
  PROVE  CoreInv'
  <1> DEFINE i == [inst[t] EXCEPT !.br_resolved = TRUE, !.mispredicted = TRUE]
  <1>1. CoreShapes /\ RuTypeOK /\ RobInv /\ InstsMatch
    BY DEF CoreInv, RuInv
  <1>2. /\ Recover(t) /\ step = "resolve" /\ t \in resolving
        /\ inst' = [u \in Tags |-> IF u = t THEN i
                                   ELSE IF u \in YoungerThan(t) THEN NoInst ELSE inst[u]]
        /\ wakeups' = {w \in wakeups : w.tag \notin YoungerThan(t)}
        /\ resolving' = resolving \ YoungerThan(t) /\ fetch_pc' = ActualNext(t)
        /\ ifq' = <<>> /\ dispatch_reg' = <<>>
        /\ UNCHANGED <<prog, step, lane, arf, memVars>>
    BY DEF ResolveBranch, OldestResolving
  <1>3. /\ RuInv' /\ UNCHANGED <<head, kind, dest_reg, value, stage>>
        /\ busy' = [u \in Tags |-> busy[u] /\ u \notin YoungerThan(t)]
        /\ done' = [u \in Tags |-> done[u] /\ u \notin YoungerThan(t)]
    BY <1>2, RuNextInv DEF CoreInv, RuNext, Recover, SquashYoungerThan
  <1>4. /\ t \in Live /\ kind[t] = "control" /\ wakeups = {} /\ wakeups' = {}
        /\ \A u \in resolving : busy[u] /\ kind[u] = "control" /\ ~done[u]
    BY <1>2 DEF CoreInv, ResolvingAreOpen, WakeupsAreFresh, Live
  <1>5. \A u \in Tags : AgeFromHead(u) \in Nat /\ AgeFromHead(u)' = AgeFromHead(u)
    BY <1>3, AgesAreNat DEF CoreInv, AgeFromHead
  <1>6. \A u \in Tags : u \in YoungerThan(t) <=> busy[u] /\ AgeFromHead(u) > AgeFromHead(t)
    BY DEF YoungerThan, IsYounger
  <1>7. /\ i \in InstStates /\ i.pc = inst[t].pc /\ i.src1 = inst[t].src1
        /\ i.src2 = inst[t].src2 /\ i.store_data = inst[t].store_data
        /\ i.dispatched = inst[t].dispatched /\ i.completed = inst[t].completed
    <2>1. inst[t] \in InstStates
      BY <1>1 DEF CoreShapes
    <2>2. i \in InstStates
      BY <2>1 DEF InstStates
    <2> QED
      BY <2>1, <2>2 DEF InstStates
  <1> HIDE DEF i
  <1>8. /\ Live' = Live \ YoungerThan(t)
        /\ \A u \in Live' : /\ u \in Live /\ u \in Tags /\ AgeFromHead(u) <= AgeFromHead(t)
                            /\ inst'[u].pc = inst[u].pc /\ inst'[u].src1 = inst[u].src1
                            /\ inst'[u].src2 = inst[u].src2
                            /\ inst'[u].store_data = inst[u].store_data
                            /\ inst'[u].dispatched = inst[u].dispatched
                            /\ inst'[u].completed = inst[u].completed
                            /\ done'[u] <=> done[u]
                            /\ Op(u)' = Op(u)
    <2>1. Live' = Live \ YoungerThan(t)
      BY <1>3 DEF Live
    <2>2. ASSUME NEW u \in Live \ YoungerThan(t)
          PROVE  /\ u \in Live /\ u \in Tags /\ AgeFromHead(u) <= AgeFromHead(t)
                 /\ inst'[u].pc = inst[u].pc /\ inst'[u].src1 = inst[u].src1
                 /\ inst'[u].src2 = inst[u].src2
                 /\ inst'[u].store_data = inst[u].store_data
                 /\ inst'[u].dispatched = inst[u].dispatched
                 /\ inst'[u].completed = inst[u].completed
                 /\ done'[u] <=> done[u]
      <3>1. u \in Tags /\ busy[u] /\ u \in Live
        BY DEF Live
      <3>2. AgeFromHead(u) <= AgeFromHead(t)
        BY <1>5, <1>6, <3>1
      <3>3. inst'[u] = IF u = t THEN i ELSE inst[u]
        BY <1>2, <3>1
      <3>4. done'[u] <=> done[u]
        BY <1>3, <3>1
      <3> QED
        BY <1>7, <3>1, <3>2, <3>3, <3>4
    <2>3. \A u \in Live \ YoungerThan(t) : Op(u)' = Op(u)
      BY <1>2, <2>2 DEF Op
    <2> QED
      BY <2>1, <2>2, <2>3
  <1>9. CoreShapes'
    <2>1. NoInst \in InstStates
      BY <1>1, NoInstFacts DEF CoreShapes
    <2>2. inst' \in [Tags -> InstStates]
      BY <1>1, <1>2, <1>7, <2>1 DEF CoreShapes
    <2>3. IsControlOp(Op(t))
      BY <1>1, <1>4, KindsOfOps DEF InstsMatch
    <2>4. fetch_pc' \in Pcs
      BY <1>1, <1>2, <2>3, NextIsPc
    <2>5. <<>> \in Seq(Fetched) /\ Len(<<>>) = 0
      BY EmptySeq
    <2>6. Pcs' = Pcs /\ InstStates' = InstStates /\ Fetched' = Fetched
      BY <1>2, PcsStay
    <2> QED
      BY <1>1, <1>2, <1>4, <2>2, <2>4, <2>5, <2>6, ConstantsAreSizes DEF CoreShapes, memVars
  <1>10. InstsMatch'
    <2>1. \A u \in Live' : /\ kind[u] = KindOf(Op(u)') /\ dest_reg[u] = prog'[inst'[u].pc].d
                           /\ done'[u] <=> inst'[u].completed
                           /\ inst'[u].dispatched => Op(u)' # "store"
      <3> SUFFICES ASSUME NEW u \in Live'
                   PROVE  /\ kind[u] = KindOf(Op(u)') /\ dest_reg[u] = prog'[inst'[u].pc].d
                          /\ done'[u] <=> inst'[u].completed
                          /\ inst'[u].dispatched => Op(u)' # "store"
        OBVIOUS
      <3>1. /\ u \in Live /\ inst'[u].pc = inst[u].pc /\ inst'[u].dispatched = inst[u].dispatched
            /\ inst'[u].completed = inst[u].completed /\ (done'[u] <=> done[u]) /\ Op(u)' = Op(u)
        BY <1>8
      <3>2. /\ kind[u] = KindOf(Op(u)) /\ dest_reg[u] = prog[inst[u].pc].d
            /\ done[u] <=> inst[u].completed
            /\ inst[u].dispatched => Op(u) # "store"
        BY <1>1, <3>1 DEF InstsMatch
      <3> QED
        BY <1>2, <3>1, <3>2
    <2> QED
      BY <1>3, <2>1 DEF InstsMatch
  <1>11. OperandsWaitForLiveProducers'
    <2>1. ASSUME NEW u \in Live', NEW o \in {inst'[u].src1, inst'[u].src2, inst'[u].store_data},
                 ~o.ready, o.tag # NoTag
          PROVE  /\ o.tag \in Live' /\ AgeFromHead(o.tag)' < AgeFromHead(u)'
                 /\ Writes(kind[o.tag], dest_reg[o.tag]) /\ ~done'[o.tag]
      <3>1. u \in Live /\ u \in Tags /\ AgeFromHead(u) <= AgeFromHead(t)
        BY <1>8, <2>1
      <3>2. PICK p : p = o.tag
        OBVIOUS
      <3>3. o \in {inst[u].src1, inst[u].src2, inst[u].store_data}
        BY <1>8, <2>1
      <3>4. p \in Live /\ Older(p, u) /\ Writes(kind[p], dest_reg[p]) /\ ~done[p]
        BY <1>4, <2>1, <3>1, <3>2, <3>3 DEF CoreInv, OperandsWaitForLiveProducers
      <3>5. p \in Tags
        BY <3>4 DEF Live
      <3>6. AgeFromHead(p) < AgeFromHead(u)
        BY <3>4 DEF Older
      <3>7. p \notin YoungerThan(t)
        BY <1>5, <1>6, <3>1, <3>5, <3>6
      <3>8. p \in Live' /\ ~done'[p]
        BY <1>8, <3>4, <3>7
      <3> QED
        BY <1>5, <3>1, <3>2, <3>4, <3>5, <3>6, <3>8
    <2> QED
      BY <1>3, <2>1 DEF OperandsWaitForLiveProducers, Older
  <1>12. StepsOfStage' /\ WakeupsAreFresh' /\ WakeupsAreCurrent'
    BY <1>2, <1>3, <1>4 DEF CoreInv, StepsOfStage, WakeupsAreFresh, WakeupsAreCurrent
  <1>13. ResolvingAreOpen'
    <2>1. resolving \in SUBSET Tags
      BY <1>1 DEF CoreShapes
    <2>2. \A u \in resolving' : busy'[u] /\ kind'[u] = "control" /\ ~done'[u]
      BY <1>2, <1>3, <1>4, <2>1
    <2> QED
      BY <1>2, <2>2 DEF ResolvingAreOpen
  <1>14. DoneStoresRetire'
    <2>1. \A u \in Live : Op(u) = "store" => ~done[u]
      BY <1>2, NoStoreIsDone
    <2>2. \A u \in Live' : Op(u)' = "store" => ~done'[u]
      BY <1>8, <2>1
    <2> QED
      BY <2>2, StillNoStoreIsDone
  <1>15. QED
    BY <1>3, <1>9, <1>10, <1>11, <1>12, <1>13, <1>14 DEF CoreInv

(* Resolving a branch keeps the invariant, with and without a recovery.    *)
LEMMA ResolveBranchInv ==
  ASSUME CoreInv, NEW t \in Tags, ResolveBranch(t)
  PROVE  CoreInv'
  <1>1. CASE Mispredicted(t)
    BY <1>1, RecoveryInv
  <1>2. CASE ~Mispredicted(t)
    <2>1. /\ step = "resolve" /\ inst' = [inst EXCEPT ![t].br_resolved = TRUE]
          /\ UNCHANGED <<ruVars, wakeups, resolving, frontVars, prog, step, lane, arf, memVars>>
      BY <1>2 DEF ResolveBranch
    <2>2. CoreShapes /\ inst \in [Tags -> InstStates]
      BY DEF CoreInv, CoreShapes
    <2>3. /\ RuInv' /\ UNCHANGED <<head, busy, done, value, kind, dest_reg, stage>>
      BY <2>1, RuNextInv DEF CoreInv, ruVars, robVars, renameVars
    <2>4. /\ inst' \in [Tags -> InstStates]
          /\ \A u \in Tags : /\ inst'[u].pc = inst[u].pc /\ inst'[u].src1 = inst[u].src1
                             /\ inst'[u].src2 = inst[u].src2
                             /\ inst'[u].store_data = inst[u].store_data
                             /\ inst'[u].dispatched = inst[u].dispatched
                             /\ inst'[u].completed = inst[u].completed
      <3>1. PICK i \in InstStates : i = inst[t]
        BY <2>2
      <3>2. PICK j : j = [i EXCEPT !.br_resolved = TRUE]
        OBVIOUS
      <3>3. inst' = [inst EXCEPT ![t] = j]
        BY <2>1, <2>2, <3>1, <3>2
      <3>4. j \in InstStates
        BY <3>2 DEF InstStates
      <3>5. /\ j.pc = i.pc /\ j.src1 = i.src1 /\ j.src2 = i.src2
            /\ j.store_data = i.store_data /\ j.dispatched = i.dispatched
            /\ j.completed = i.completed
        BY <3>2 DEF InstStates
      <3> QED
        BY <2>2, <3>1, <3>3, <3>4, <3>5
    <2>5. SamePlaces /\ \A u \in Live : u \in Tags
      BY <2>1, <2>3, <2>4 DEF SamePlaces, Live
    <2>6. CoreShapes'
      <3>1. Pcs' = Pcs /\ InstStates' = InstStates /\ Fetched' = Fetched
        BY <2>1, PcsStay
      <3> QED
        BY <2>1, <2>2, <2>4, <3>1 DEF CoreShapes, frontVars, memVars
    <2>7. InstsMatch'
      <3>1. \A u \in Live : done'[u] <=> inst'[u].completed
        BY <2>3, <2>4, <2>5 DEF CoreInv, InstsMatch
      <3> QED
        BY <2>4, <2>5, <3>1, MatchStays
    <2>8. OperandsWaitForLiveProducers'
      BY <2>1, <2>3, <2>4, <2>5, WaitingStays
    <2>9. StepsOfStage' /\ ResolvingAreOpen' /\ WakeupsAreFresh' /\ WakeupsAreCurrent'
      BY <2>1, <2>3
         DEF CoreInv, StepsOfStage, ResolvingAreOpen, WakeupsAreFresh, WakeupsAreCurrent
    <2>10. DoneStoresRetire'
      <3>1. Live' = Live /\ \A u \in Tags : Op(u)' = Op(u)
        BY <2>5, PlacesStay
      <3>2. \A u \in Live : Op(u) = "store" => ~done'[u]
        BY <2>1, <2>3, NoStoreIsDone
      <3> QED
        BY <2>5, <3>1, <3>2, StillNoStoreIsDone
    <2> QED
      BY <2>3, <2>6, <2>7, <2>8, <2>9, <2>10 DEF CoreInv
  <1>3. QED
    BY <1>1, <1>2

(* A step that changes nothing keeps the invariant.                        *)
LEMMA CoreStutterInv ==
  ASSUME CoreInv, UNCHANGED coreVars
  PROVE  CoreInv'
  <1>1. UNCHANGED <<ruVars, prog, step, lane, arf, inst, wakeups, memVars, frontVars, resolving>>
    BY DEF coreVars, coreOnly
  <1>2. RuInv' /\ UNCHANGED <<robVars, kind, stage>>
    BY <1>1, RuNextInv DEF CoreInv, ruVars, renameVars
  <1>3. CoreShapes'
    BY <1>1, PcsStay DEF CoreInv, CoreShapes, memVars, frontVars
  <1>4. /\ InstsMatch' /\ WakeupsAreCurrent' /\ OperandsWaitForLiveProducers'
        /\ Live' = Live /\ \A t : Op(t)' = Op(t) /\ AgeFromHead(t)' = AgeFromHead(t)
    BY <1>1, <1>2, SameInsts
  <1>5. StepsOfStage' /\ ResolvingAreOpen' /\ WakeupsAreFresh'
    BY <1>1, <1>2 DEF CoreInv, StepsOfStage, ResolvingAreOpen, WakeupsAreFresh, robVars
  <1>6. DoneStoresRetire'
    BY <1>1, <1>2, <1>4 DEF CoreInv, DoneStoresRetire, Older, robVars
  <1>7. QED
    BY <1>2, <1>3, <1>4, <1>5, <1>6 DEF CoreInv

(* The invariant is inductive.                                             *)
LEMMA CoreNextInv == CoreInv /\ [CoreNext]_coreVars => CoreInv'
  <1> SUFFICES ASSUME CoreInv, [CoreNext]_coreVars PROVE CoreInv'
    OBVIOUS
  <1>1. ASSUME NEW t \in Tags, EnqueueStore(t) PROVE CoreInv'
    BY <1>1, EnqueueStoreInv
  <1>2. ASSUME NEW t \in Tags, ResolveBranch(t) PROVE CoreInv'
    BY <1>2, ResolveBranchInv
  <1>3. ASSUME NEW t \in Tags, FinishResolve(t) PROVE CoreInv'
    BY <1>3, FinishResolveInv
  <1>4. ASSUME NEW t \in Tags, BroadcastCDB(t) PROVE CoreInv'
    BY <1>4, BroadcastInv
  <1>5. ASSUME NEW taken \in BOOLEAN, NEW target \in Pcs, FetchOne(taken, target) PROVE CoreInv'
    BY <1>5, FrontInv
  <1>6. CASE EndStores \/ CommitInst \/ EndCommit \/ EndResolve
    BY <1>6, EndStoresInv, CommitInstInv, EndCommitInv, FrontInv
  <1>7. CASE DispatchStage \/ RenameInst \/ DecodeStage \/ NextTick
    BY <1>7, DispatchStageInv, RenameInstInv, FrontInv, NextTickInv
  <1>8. CASE UNCHANGED coreVars
    BY <1>8, CoreStutterInv
  <1>9. QED
    BY <1>1, <1>2, <1>3, <1>4, <1>5, <1>6, <1>7, <1>8 DEF CoreNext

(* The invariant holds in every behaviour of the core.                     *)
LEMMA CoreInvariant == CoreSpec => []CoreInv
  <1>1. CoreInit => CoreInv
    BY CoreInitInv
  <1>2. CoreInv /\ [CoreNext]_coreVars => CoreInv'
    BY CoreNextInv
  <1>3. QED
    BY <1>1, <1>2, PTL DEF CoreSpec

-------------------------------------------------------------------------------
(* Type correctness of the core: every operand that is ready holds a word, *)
(* every value forwarded, stored or committed is one, fetch never leaves   *)
(* the program counters there are, no queue grows beyond its entries.      *)
THEOREM CoreTypes == CoreSpec => []CoreTypeOK
  <1>1. CoreInv => CoreTypeOK
    <2> SUFFICES ASSUME CoreInv PROVE CoreTypeOK
      OBVIOUS
    <2>1. CoreShapes /\ RuTypeOK
      BY DEF CoreInv, RuInv
    <2>2. \A t \in Tags : /\ inst[t].pc \in DOMAIN prog
                          /\ {inst[t].src1, inst[t].src2, inst[t].store_data} \subseteq Operands
                          /\ inst[t].fwd \in Val \cup {NeedsMemory}
      BY <2>1 DEF CoreShapes, InstStates
    <2>3. \A i \in 1 .. Len(sb) : sb[i].addr \in Val /\ sb[i].val \in Val
      <3>1. \A i \in 1 .. Len(sb) : sb[i] \in SbStates
        BY <2>1, ElementOfSeq DEF CoreShapes
      <3> QED
        BY <3>1 DEF SbStates
    <2> QED
      BY <2>1, <2>2, <2>3 DEF CoreTypeOK, CoreShapes
  <1>2. QED
    BY <1>1, CoreInvariant, PTL

(* No wakeup is lost and none strays: an operand that waits names a live,  *)
(* older writer, whose result is still to come or in the wakeups of the    *)
(* next tick, through every recovery and reuse of tags.                    *)
THEOREM NoWakeupIsLost == CoreSpec => []OperandsWaitForLiveProducers
  <1>1. CoreInv => OperandsWaitForLiveProducers
    BY DEF CoreInv
  <1>2. QED
    BY <1>1, CoreInvariant, PTL

(* A wakeup is applied while its producer is still the same instruction,   *)
(* with the value that went to the reorder buffer.                         *)
THEOREM WakeupsStayCurrent == CoreSpec => []WakeupsAreCurrent
  <1>1. CoreInv => WakeupsAreCurrent
    BY DEF CoreInv
  <1>2. QED
    BY <1>1, CoreInvariant, PTL

(* A store that has entered the store buffer retires in the same commit    *)
(* stage: no recovery ever finds it among the instructions it squashes.    *)
THEOREM StoresRetireAsTheyEnter == CoreSpec => []SpeculativeStoresStayOut
  <1>1. CoreInv => SpeculativeStoresStayOut
    BY DEF CoreInv, DoneStoresRetire, SpeculativeStoresStayOut
  <1>2. QED
    BY <1>1, CoreInvariant, PTL

(* The core drives the rename unit as the unit's own specification lets    *)
(* it: commit, recovery, results and renames come in the stages it has,    *)
(* whatever the rest of the tick does.  What is proved of the unit holds   *)
(* in the core.                                                            *)
THEOREM CoreImplementsRenameUnit == CoreSpec => RuSpec
  <1>1. CoreInit => RuInit
    BY DEF CoreInit
  <1>2. CoreInv /\ [CoreNext]_coreVars => [RuNext]_ruVars
    <2> SUFFICES ASSUME CoreInv, [CoreNext]_coreVars PROVE [RuNext]_ruVars
      OBVIOUS
    <2>1. ASSUME NEW t \in Tags, EnqueueStore(t) PROVE RuNext
      BY <2>1, WrapIsVal DEF EnqueueStore, RuNext
    <2>2. ASSUME NEW t \in Tags, ResolveBranch(t) PROVE [RuNext]_ruVars
      BY <2>2 DEF ResolveBranch, RuNext
    <2>3. ASSUME NEW t \in Tags, FinishResolve(t) PROVE [RuNext]_ruVars
      BY <2>3, WrapIsVal DEF FinishResolve, RuNext
    <2>4. ASSUME NEW t \in Tags, BroadcastCDB(t) PROVE RuNext
      <3>1. t \in Live /\ CanBroadcast(t) /\ Complete(t, ResultOf(t))
        BY <2>4 DEF BroadcastCDB, Live
      <3>2. PICK v \in Val : v = ResultOf(t)
        BY <3>1, ResultIsVal DEF CoreInv
      <3> QED
        BY <3>1, <3>2 DEF RuNext
    <2>5. ASSUME NEW taken \in BOOLEAN, NEW target \in Pcs, FetchOne(taken, target)
          PROVE  UNCHANGED ruVars
      BY <2>5 DEF FetchOne
    <2>6. CASE EndStores \/ CommitInst \/ EndCommit \/ EndResolve
      BY <2>6 DEF EndStores, CommitInst, EndCommit, EndResolve, RuNext
    <2>7. CASE DispatchStage \/ DecodeStage \/ NextTick
      BY <2>7 DEF DispatchStage, DecodeStage, NextTick, RuNext
    <2>8. CASE RenameInst
      <3>1. PICK f \in Fetched : f = Head(dispatch_reg)
        BY <2>8, HeadTailProperties DEF RenameInst, CanRename, CoreInv, CoreShapes
      <3>2. prog[f.pc] \in Instructions
        BY ProgramFacts DEF CoreInv, CoreShapes, Fetched
      <3>3. PICK k \in Kinds, d \in Reg : k = KindOf(prog[f.pc].op) /\ d = prog[f.pc].d
        BY <3>2, KindsOfOps DEF Instructions
      <3>4. RenameOne(k, d)
        BY <2>8, <3>1, <3>3 DEF RenameInst
      <3> QED
        BY <3>4 DEF RuNext
    <2>9. CASE UNCHANGED coreVars
      BY <2>9 DEF coreVars
    <2> QED
      BY <2>1, <2>2, <2>3, <2>4, <2>5, <2>6, <2>7, <2>8, <2>9 DEF CoreNext
  <1>3. QED
    BY <1>1, <1>2, CoreInvariant, PTL DEF CoreSpec, RuSpec

-------------------------------------------------------------------------------
(***************************************************************************)
(* The core against the in-order machine.                                  *)
(*                                                                         *)
(* The argument gives every instruction in flight the registers and the    *)
(* memory that program order gives it: g[k] is the state before the k-th   *)
(* instruction of the path fetch has taken, right or wrong, and b of them  *)
(* have retired.  Whatever has a value in the core has the one g says, and *)
(* whoever waits, waits for the instruction that will produce it.          *)
(***************************************************************************)

(* One instruction in program order; `stores' counts the stores so far.    *)

ArchStates == [regs : [Reg -> Val], mem : [Val -> Val], stores : Nat]

Histories == [Nat -> ArchStates]

ReadIn(s, r)     == IF r = 0 THEN 0 ELSE s.regs[r]
AddressIn(s, in) == Wrap(ReadIn(s, in.s1) + in.imm)

ResultIn(s, in, pc) ==
  CASE in.op = "add"  -> Wrap(ReadIn(s, in.s1) + ReadIn(s, in.s2))
    [] in.op = "addi" -> AddressIn(s, in)
    [] in.op = "load" -> s.mem[AddressIn(s, in)]
    [] OTHER          -> Wrap(pc + 1)

StateAfter(s, in, pc) ==
  [regs   |-> IF Writes(KindOf(in.op), in.d)
                THEN [s.regs EXCEPT ![in.d] = ResultIn(s, in, pc)] ELSE s.regs,
   mem    |-> IF in.op = "store"
                THEN [s.mem EXCEPT ![AddressIn(s, in)] = ReadIn(s, in.d)] ELSE s.mem,
   stores |-> IF in.op = "store" THEN s.stores + 1 ELSE s.stores]

TakenIn(s, in) ==
  \/ in.op = "beq" /\ ReadIn(s, in.s1) = ReadIn(s, in.s2)
  \/ in.op = "bne" /\ ReadIn(s, in.s1) # ReadIn(s, in.s2)
  \/ IsJump(in.op)

PcAfter(s, in, pc) ==
  IF TakenIn(s, in) THEN IF in.op = "jalr" THEN AddressIn(s, in) ELSE in.imm
                    ELSE pc + 1

-------------------------------------------------------------------------------
(* What an instruction in flight knows of the state before it.             *)

In(t)       == prog[inst[t].pc]
Place(t, b) == b + AgeFromHead(t)

StepsFollow(g, b) ==
  \A t \in Live : g[Place(t, b) + 1] = StateAfter(g[Place(t, b)], In(t), inst[t].pc)

(* An operand has the value of its register, or waits for the instruction  *)
(* that leaves that value in the register.                                 *)
Holds(o, r, s, g, b) ==
  IF o.ready THEN o.val = ReadIn(s, r)
  ELSE /\ o.tag # NoTag /\ r # 0 /\ dest_reg[o.tag] = r
       /\ g[Place(o.tag, b) + 1].regs[r] = s.regs[r]

OperandsAt(t, s, g, b) ==
  /\ In(t).op # "jal" => Holds(inst[t].src1, In(t).s1, s, g, b)
  /\ In(t).op \in {"add", "beq", "bne"} => Holds(inst[t].src2, In(t).s2, s, g, b)
  /\ In(t).op = "store" /\ In(t).d > 0 => Holds(inst[t].store_data, In(t).d, s, g, b)
  /\ In(t).op = "store" /\ In(t).d = 0 =>
       ~inst[t].store_data.ready /\ inst[t].store_data.tag = NoTag

OperandsHold(g, b) == \A t \in Live : OperandsAt(t, g[Place(t, b)], g, b)

ResultAt(t, s) ==
  done[t] /\ Writes(kind[t], dest_reg[t]) => value[t] = ResultIn(s, In(t), inst[t].pc)

ResultsHold(g, b) == \A t \in Live : ResultAt(t, g[Place(t, b)])

(* A load on its way to memory finds there what it has to load: no store   *)
(* before it, in the queue or in the store buffer, is to that word.        *)
MemoryIsCurrent(t, s) ==
  /\ mem[Address(t)] = s.mem[Address(t)]
  /\ \A i \in 1 .. Len(sb) : sb[i].addr # Address(t)
  /\ \A u \in Live : Older(u, t) /\ Op(u) = "store" /\ ~done[u] =>
       inst[u].src1.ready /\ Address(u) # Address(t)

LoadAt(t, s) ==
  Op(t) = "load" /\ inst[t].dispatched =>
    /\ inst[t].fwd # NeedsMemory => inst[t].fwd = s.mem[Address(t)]
    /\ inst[t].fwd = NeedsMemory /\ ~done[t] => MemoryIsCurrent(t, s)

LoadsHold(g, b) == \A t \in Live : LoadAt(t, g[Place(t, b)])

RegsHold(g, b) == g[b].regs = arf

(* The memory m after the first n stores of the buffer s.                  *)
Written(s, m, n) ==
  [a \in Val |->
     LET hits == {i \in 1 .. n : s[i].addr = a}
     IN  IF hits = {} THEN m[a] ELSE s[Max(hits)].val]

(* The first d stores have reached the memory, the next ones are in the    *)
(* store buffer, in program order; the place m is as far as they have got. *)
DoneStores == {t \in Live : Op(t) = "store" /\ done[t]}

Entered(t, s, d) ==
  /\ s.stores - d + 1 \in 1 .. Len(sb)
  /\ sb[s.stores - d + 1] = [addr |-> AddressIn(s, In(t)), val |-> ReadIn(s, In(t).d)]

EnteredUpTo(m, b) ==
  /\ m \in b .. b + active_count
  /\ \A t \in Live : IF Place(t, b) < m THEN done[t] ELSE t \notin DoneStores

StoresHold(g, b, d) ==
  /\ RetiredInSb \in 0 .. Len(sb)
  /\ g[b].stores = d + RetiredInSb /\ g[b].mem = Written(sb, mem, RetiredInSb)
  /\ \A t \in DoneStores : Entered(t, g[Place(t, b)], d)
  /\ \E m \in Nat : EnteredUpTo(m, b) /\ g[m].stores = d + Len(sb)

History(g, b, d) ==
  /\ StepsFollow(g, b) /\ OperandsHold(g, b) /\ ResultsHold(g, b) /\ LoadsHold(g, b)
  /\ RegsHold(g, b) /\ StoresHold(g, b, d)

-------------------------------------------------------------------------------
(* The path: what follows an instruction in the queues is what its         *)
(* prediction, or its resolution, says.                                    *)

(* Work starts when its operands are there.                                *)
SourcesAt(t) ==
  /\ inst[t].addr_computed => inst[t].src1.ready
  /\ inst[t].dispatched => inst[t].src1.ready /\ inst[t].src2.ready
  /\ Op(t) = "load" => inst[t].src2.ready

SourcesAreRead == \A t \in Live : SourcesAt(t)

BranchAt(t) ==
  /\ inst[t].predicted_taken => IsControlOp(Op(t))
  /\ inst[t].mispredicted => inst[t].br_resolved
  /\ inst[t].br_resolved => IsControlOp(Op(t)) /\ inst[t].dispatched
  /\ inst[t].br_resolved /\ ~inst[t].mispredicted => ~Mispredicted(t)
  /\ done[t] /\ IsControlOp(Op(t)) => inst[t].br_resolved

BranchesHold ==
  /\ \A t \in Live : BranchAt(t)
  /\ \A t \in resolving : inst[t].dispatched

NextFetched(f) == IF f.predicted_taken THEN f.predicted_target ELSE f.pc + 1
NextOf(t)  == IF inst[t].mispredicted THEN ActualNext(t) ELSE NextFetched(inst[t])
IfqPc      == IF ifq # <<>> THEN ifq[1].pc ELSE fetch_pc
FrontPc    == IF dispatch_reg # <<>> THEN dispatch_reg[1].pc ELSE IfqPc

Chain(s, end) ==
  \A i \in 1 .. Len(s) :
    /\ NextFetched(s[i]) = IF i = Len(s) THEN end ELSE s[i + 1].pc
    /\ s[i].predicted_taken => IsControlOp(prog[s[i].pc].op)

QueuesFollow == Chain(dispatch_reg, IfqPc) /\ Chain(ifq, fetch_pc)

WindowFollows ==
  \A t \in Live :
    /\ \A u \in Live : AgeFromHead(u) = AgeFromHead(t) + 1 => inst[u].pc = NextOf(t)
    /\ AgeFromHead(t) + 1 = active_count => FrontPc = NextOf(t)

PathInv == SourcesAreRead /\ BranchesHold /\ QueuesFollow /\ WindowFollows

OrderInv ==
  CoreInv /\ PathInv /\ \E g \in Histories, b, d \in Nat : History(g, b, d)

-------------------------------------------------------------------------------
(* One instruction in program order.                                       *)

(* What nothing changes on the way from a to b is the same at both.        *)
LEMMA Steady ==
  ASSUME NEW h, NEW a \in Nat, NEW b \in Nat, a <= b,
         \A k \in Nat : a <= k /\ k < b => h[k + 1] = h[k]
  PROVE  h[b] = h[a]
  <1> DEFINE Off == {k \in Nat : a <= k /\ k <= b /\ h[k] # h[a]}
  <1> SUFFICES ASSUME h[b] # h[a] PROVE FALSE
    OBVIOUS
  <1>1. Off # {} /\ Off \in SUBSET Nat
    OBVIOUS
  <1>2. PICK m \in Off : \A k \in Off : ~(<<k, m>> \in OpToRel(<, Nat))
    BY <1>1, NatLessThanWellFounded, WFMin
  <1>3. m \in Nat /\ a <= m /\ m <= b /\ h[m] # h[a]
    BY <1>2
  <1>4. m - 1 \in Nat /\ a <= m - 1 /\ m - 1 < b /\ m - 1 + 1 = m
    BY <1>3
  <1>5. h[m] = h[m - 1]
    BY <1>4
  <1>6. m - 1 \in Off
    BY <1>3, <1>4, <1>5
  <1>7. <<m - 1, m>> \in OpToRel(<, Nat)
    BY <1>3, <1>4 DEF OpToRel
  <1>8. QED
    BY <1>2, <1>6, <1>7

(* Addresses, results and what is read are words.                          *)
LEMMA InstructionResults ==
  ASSUME NEW s \in ArchStates, NEW in \in Instructions, NEW pc \in Nat
  PROVE  /\ \A r \in Reg : ReadIn(s, r) \in Val
         /\ AddressIn(s, in) \in Val
         /\ ResultIn(s, in, pc) \in Val
  <1>1. s.regs \in [Reg -> Val] /\ s.mem \in [Val -> Val]
    BY DEF ArchStates
  <1>2. in.s1 \in Reg /\ in.s2 \in Reg /\ in.imm \in Int
    BY DEF Instructions
  <1>3. \A r \in Reg : ReadIn(s, r) \in Val
    BY <1>1, WrapIsVal DEF ReadIn
  <1>4. PICK v \in Nat, w \in Nat, i \in Int :
          v = ReadIn(s, in.s1) /\ w = ReadIn(s, in.s2) /\ i = in.imm
    BY <1>2, <1>3, WrapIsVal
  <1>5. Wrap(v + i) \in Val /\ Wrap(v + w) \in Val /\ Wrap(pc + 1) \in Val
    BY WrapIsVal
  <1>6. AddressIn(s, in) \in Val
    BY <1>4, <1>5 DEF AddressIn
  <1>7. ResultIn(s, in, pc) \in Val
    BY <1>1, <1>4, <1>5, <1>6 DEF ResultIn
  <1>8. QED
    BY <1>3, <1>6, <1>7

(* A step in program order: the destination gets the result, a store its   *)
(* word, and nothing else changes.                                         *)
LEMMA StepInOrder ==
  ASSUME NEW s \in ArchStates, NEW in \in Instructions, NEW pc \in Nat
  PROVE  /\ StateAfter(s, in, pc) \in ArchStates
         /\ \A r \in Reg : StateAfter(s, in, pc).regs[r] =
              IF Writes(KindOf(in.op), in.d) /\ in.d = r THEN ResultIn(s, in, pc)
              ELSE s.regs[r]
         /\ \A a \in Val : StateAfter(s, in, pc).mem[a] =
              IF in.op = "store" /\ a = AddressIn(s, in) THEN ReadIn(s, in.d)
              ELSE s.mem[a]
         /\ StateAfter(s, in, pc).stores =
              IF in.op = "store" THEN s.stores + 1 ELSE s.stores
  <1>1. s.regs \in [Reg -> Val] /\ s.mem \in [Val -> Val] /\ s.stores \in Nat
    BY DEF ArchStates
  <1>2. in.d \in Reg
    BY DEF Instructions
  <1>3. /\ ReadIn(s, in.d) \in Val /\ AddressIn(s, in) \in Val
        /\ ResultIn(s, in, pc) \in Val
    BY <1>2, InstructionResults
  <1>4. PICK v \in Val, a \in Val, w \in Val :
          v = ResultIn(s, in, pc) /\ a = AddressIn(s, in) /\ w = ReadIn(s, in.d)
    BY <1>3
  <1>5. PICK n \in [Reg -> Val] :
          /\ n = IF Writes(KindOf(in.op), in.d) THEN [s.regs EXCEPT ![in.d] = v] ELSE s.regs
          /\ \A r \in Reg : n[r] =
               IF Writes(KindOf(in.op), in.d) /\ in.d = r THEN v ELSE s.regs[r]
    <2>1. PICK q \in [Reg -> Val], d \in Reg : q = s.regs /\ d = in.d
      BY <1>1, <1>2
    <2>2. /\ [q EXCEPT ![d] = v] \in [Reg -> Val]
          /\ \A r \in Reg : [q EXCEPT ![d] = v][r] = IF d = r THEN v ELSE q[r]
      OBVIOUS
    <2>3. CASE Writes(KindOf(in.op), in.d)
      BY <2>1, <2>2, <2>3
    <2>4. CASE ~Writes(KindOf(in.op), in.d)
      BY <2>1, <2>4
    <2> QED
      BY <2>3, <2>4
  <1>6. PICK m \in [Val -> Val] :
          /\ m = IF in.op = "store" THEN [s.mem EXCEPT ![a] = w] ELSE s.mem
          /\ \A x \in Val : m[x] = IF in.op = "store" /\ x = a THEN w ELSE s.mem[x]
    <2>1. PICK q \in [Val -> Val] : q = s.mem
      BY <1>1
    <2>2. /\ [q EXCEPT ![a] = w] \in [Val -> Val]
          /\ \A x \in Val : [q EXCEPT ![a] = w][x] = IF x = a THEN w ELSE q[x]
      OBVIOUS
    <2>3. CASE in.op = "store"
      BY <2>1, <2>2, <2>3
    <2>4. CASE in.op # "store"
      BY <2>1, <2>4
    <2> QED
      BY <2>3, <2>4
  <1>7. PICK c \in Nat : c = IF in.op = "store" THEN s.stores + 1 ELSE s.stores
    BY <1>1
  <1>8. StateAfter(s, in, pc) = [regs |-> n, mem |-> m, stores |-> c]
    BY <1>4, <1>5, <1>6, <1>7 DEF StateAfter
  <1>9. QED
    BY <1>4, <1>5, <1>6, <1>7, <1>8 DEF ArchStates

-------------------------------------------------------------------------------
(* Places.                                                                 *)

(* Places are the positions from b on, one for each live instruction, in   *)
(* the order of age.                                                       *)
LEMMA PlaceFacts ==
  ASSUME CoreInv, NEW b \in Nat
  PROVE  /\ \A t \in Live : /\ t \in Tags /\ AgeFromHead(t) \in Nat
                            /\ Place(t, b) \in b .. b + active_count - 1
                            /\ Place(t, b) \in Nat
         /\ \A t, u \in Live : Place(t, b) = Place(u, b) => t = u
         /\ \A t, u \in Live : Older(u, t) <=> Place(u, b) < Place(t, b)
         /\ active_count \in Nat /\ active_count <= Capacity
  <1>1. /\ RobInv /\ head \in Tags /\ active_count \in 0 .. Capacity
        /\ \A t \in Tags : busy[t] <=> AgeFromHead(t) < active_count
    BY DEF CoreInv, RuInv, RobInv, RobTypeOK, BusyIsWindow
  <1>2. Capacity \in Nat
    BY RobAssumption
  <1>3. \A t \in Live : t \in Tags /\ AgeFromHead(t) \in 0 .. Capacity - 1
                        /\ AgeFromHead(t) < active_count
    BY <1>1, AgesAreNat DEF CoreInv, Live
  <1>4. \A t, u \in Live : AgeFromHead(t) = AgeFromHead(u) => t = u
    BY <1>1, <1>3, AgeIsInjective
  <1>5. \A t \in Live : /\ t \in Tags /\ AgeFromHead(t) \in Nat
                        /\ Place(t, b) \in b .. b + active_count - 1
                        /\ Place(t, b) \in Nat
    BY <1>1, <1>2, <1>3 DEF Place
  <1>6. \A t, u \in Live : Place(t, b) = Place(u, b) => t = u
    <2> SUFFICES ASSUME NEW t \in Live, NEW u \in Live, Place(t, b) = Place(u, b)
                 PROVE  t = u
      OBVIOUS
    <2>1. PICK i \in Nat, j \in Nat : i = AgeFromHead(t) /\ j = AgeFromHead(u)
      BY <1>5
    <2>2. b + i = b + j
      BY <2>1 DEF Place
    <2>3. i = j
      BY <2>2
    <2> QED
      BY <1>4, <2>1, <2>3
  <1>7. \A t, u \in Live : Older(u, t) <=> Place(u, b) < Place(t, b)
    BY <1>5 DEF Older, Place
  <1>8. QED
    BY <1>1, <1>2, <1>5, <1>6, <1>7

(* Every place of the window has its instruction.                          *)
LEMMA PlacesAreTaken ==
  ASSUME CoreInv, NEW b \in Nat, NEW k \in b .. b + active_count - 1
  PROVE  \E t \in Live : Place(t, b) = k
  <1>1. /\ head \in Tags /\ active_count \in 0 .. Capacity
        /\ \A t \in Tags : busy[t] <=> AgeFromHead(t) < active_count
    BY DEF CoreInv, RuInv, RobInv, RobTypeOK, BusyIsWindow
  <1>2. PICK c \in Nat \ {0}, h \in Nat, n \in Nat :
          c = Capacity /\ h = head /\ h < c /\ n = active_count /\ n <= c
    BY <1>1, RobAssumption DEF Tags
  <1>3. PICK i \in 0 .. n - 1 : k = b + i
    <2>1. k - b \in 0 .. n - 1 /\ k = b + (k - b)
      BY <1>2
    <2> QED
      BY <2>1
  <1>4. PICK t \in 0 .. c - 1 : t = IF h + i < c THEN h + i ELSE h + i - c
    <2>1. i \in Nat /\ i < c
      BY <1>2, <1>3
    <2>2. (IF h + i < c THEN h + i ELSE h + i - c) \in 0 .. c - 1
      BY <1>2, <2>1
    <2> QED
      BY <2>2
  <1>5. t \in Tags
    BY <1>2, <1>4 DEF Tags
  <1>6. AgeFromHead(t) = IF t >= h THEN t - h ELSE t - h + c
    BY <1>1, <1>2, <1>5, AgeIsPosition
  <1>7. AgeFromHead(t) = i
    BY <1>2, <1>3, <1>4, <1>6
  <1>8. busy[t]
    BY <1>1, <1>2, <1>3, <1>5, <1>7
  <1>9. QED
    BY <1>3, <1>5, <1>7, <1>8 DEF Live, Place

(* The head of the window has the first place.                             *)
LEMMA HeadIsFirst ==
  ASSUME CoreInv, NEW b \in Nat, active_count # 0
  PROVE  head \in Live /\ Place(head, b) = b
  <1>1. /\ head \in Tags /\ active_count \in 0 .. Capacity
        /\ \A t \in Tags : busy[t] <=> AgeFromHead(t) < active_count
    BY DEF CoreInv, RuInv, RobInv, RobTypeOK, BusyIsWindow
  <1>2. AgeFromHead(head) = 0
    BY <1>1, AgesAreNat DEF CoreInv
  <1>3. QED
    BY <1>1, <1>2, RobAssumption DEF Live, Place

-------------------------------------------------------------------------------
(* Instructions in flight.                                                 *)

(* What the tables say of a live instruction is what its program says.     *)
LEMMA InFacts ==
  ASSUME CoreInv, NEW t \in Live
  PROVE  /\ t \in Tags /\ In(t) \in Instructions /\ inst[t].pc \in Nat
         /\ Op(t) = In(t).op /\ Imm(t) = In(t).imm
         /\ kind[t] = KindOf(In(t).op) /\ dest_reg[t] = In(t).d
         /\ In(t).d \in Reg /\ In(t).s1 \in Reg /\ In(t).s2 \in Reg
         /\ In(t).op \in {"beq", "bne"} => In(t).d = 0
  <1>1. t \in Tags /\ CoreShapes /\ InstsMatch
    BY DEF CoreInv, Live
  <1>2. In(t) \in Instructions /\ inst[t].pc \in Nat
    BY <1>1, InstFacts DEF In
  <1>3. In(t).op \in {"beq", "bne"} => In(t).d = 0
    BY <1>1, InstFacts, ProgramFacts DEF CoreShapes, In
  <1>4. QED
    BY <1>1, <1>2, <1>3 DEF InstsMatch, Op, Imm, In, Instructions

(* The step of a live instruction, word by word and register by register.  *)
LEMMA StepOfInst ==
  ASSUME CoreInv, NEW g \in Histories, NEW b \in Nat, StepsFollow(g, b),
         NEW t \in Live, NEW k \in Nat, k = Place(t, b)
  PROVE  /\ \A r \in Reg : g[k + 1].regs[r] =
              IF Writes(kind[t], dest_reg[t]) /\ dest_reg[t] = r
                THEN ResultIn(g[k], In(t), inst[t].pc) ELSE g[k].regs[r]
         /\ \A a \in Val : g[k + 1].mem[a] =
              IF Op(t) = "store" /\ a = AddressIn(g[k], In(t))
                THEN ReadIn(g[k], In(t).d) ELSE g[k].mem[a]
         /\ g[k + 1].stores = IF Op(t) = "store" THEN g[k].stores + 1 ELSE g[k].stores
  <1>1. PICK s \in ArchStates, in \in Instructions, pc \in Nat :
          s = g[k] /\ in = In(t) /\ pc = inst[t].pc
    BY InFacts DEF Histories
  <1>2. g[k + 1] = StateAfter(s, in, pc)
    BY <1>1 DEF StepsFollow
  <1>3. kind[t] = KindOf(in.op) /\ dest_reg[t] = in.d /\ Op(t) = in.op
    BY <1>1, InFacts
  <1>4. PICK x : x = StateAfter(s, in, pc)
    OBVIOUS
  <1>5. /\ \A r \in Reg : x.regs[r] =
             IF Writes(KindOf(in.op), in.d) /\ in.d = r THEN ResultIn(s, in, pc) ELSE s.regs[r]
        /\ \A a \in Val : x.mem[a] =
             IF in.op = "store" /\ a = AddressIn(s, in) THEN ReadIn(s, in.d) ELSE s.mem[a]
        /\ x.stores = IF in.op = "store" THEN s.stores + 1 ELSE s.stores
    BY <1>4, StepInOrder
  <1>6. \A r \in Reg : g[k + 1].regs[r] =
           IF Writes(kind[t], dest_reg[t]) /\ dest_reg[t] = r
             THEN ResultIn(g[k], In(t), inst[t].pc) ELSE g[k].regs[r]
    BY <1>1, <1>2, <1>3, <1>4, <1>5
  <1>7. \A a \in Val : g[k + 1].mem[a] =
           IF Op(t) = "store" /\ a = AddressIn(g[k], In(t))
             THEN ReadIn(g[k], In(t).d) ELSE g[k].mem[a]
    BY <1>1, <1>2, <1>3, <1>4, <1>5
  <1>8. g[k + 1].stores = IF Op(t) = "store" THEN g[k].stores + 1 ELSE g[k].stores
    BY <1>1, <1>2, <1>3, <1>4, <1>5
  <1>9. QED
    BY <1>6, <1>7, <1>8

(* A register keeps what the last instruction before left in it, a word of *)
(* memory what the last store left, and the count of stores.               *)
LEMMA RegisterSteady ==
  ASSUME CoreInv, NEW g \in Histories, NEW b \in Nat, StepsFollow(g, b),
         NEW r \in Reg, NEW i \in Nat, NEW j \in Nat,
         b <= i, i <= j, j <= b + active_count,
         \A u \in Live : i <= Place(u, b) /\ Place(u, b) < j =>
            ~(Writes(kind[u], dest_reg[u]) /\ dest_reg[u] = r)
  PROVE  g[j].regs[r] = g[i].regs[r]
  <1> DEFINE h == [k \in Nat |-> g[k].regs[r]]
  <1>1. ASSUME NEW k \in Nat, i <= k, k < j PROVE h[k + 1] = h[k]
    <2>1. active_count \in Nat
      BY PlaceFacts
    <2>2. PICK u \in Live : Place(u, b) = k
      BY <1>1, <2>1, PlacesAreTaken
    <2>3. g[k + 1].regs[r] = g[k].regs[r]
      BY <1>1, <2>2, StepOfInst
    <2> QED
      BY <2>3
  <1>2. h[j] = h[i]
    <2> HIDE DEF h
    <2> QED
      BY <1>1, Steady
  <1>3. QED
    BY <1>2

(* Without a store to a word between two places the word is the same.      *)
LEMMA WordSteady ==
  ASSUME CoreInv, NEW g \in Histories, NEW b \in Nat, StepsFollow(g, b),
         NEW a \in Val, NEW i \in Nat, NEW j \in Nat,
         b <= i, i <= j, j <= b + active_count,
         \A u \in Live : i <= Place(u, b) /\ Place(u, b) < j =>
            ~(Op(u) = "store" /\ AddressIn(g[Place(u, b)], In(u)) = a)
  PROVE  g[j].mem[a] = g[i].mem[a]
  <1> DEFINE h == [k \in Nat |-> g[k].mem[a]]
  <1>1. ASSUME NEW k \in Nat, i <= k, k < j PROVE h[k + 1] = h[k]
    <2>1. active_count \in Nat
      BY PlaceFacts
    <2>2. PICK u \in Live : Place(u, b) = k
      BY <1>1, <2>1, PlacesAreTaken
    <2>3. g[k + 1].mem[a] = g[k].mem[a]
      BY <1>1, <2>2, StepOfInst
    <2> QED
      BY <2>3
  <1>2. h[j] = h[i]
    <2> HIDE DEF h
    <2> QED
      BY <1>1, Steady
  <1>3. QED
    BY <1>2

(* Without a store between two places as many have been counted.           *)
LEMMA CountSteady ==
  ASSUME CoreInv, NEW g \in Histories, NEW b \in Nat, StepsFollow(g, b),
         NEW i \in Nat, NEW j \in Nat,
         b <= i, i <= j, j <= b + active_count,
         \A u \in Live : i <= Place(u, b) /\ Place(u, b) < j => Op(u) # "store"
  PROVE  g[j].stores = g[i].stores
  <1> DEFINE h == [k \in Nat |-> g[k].stores]
  <1>1. ASSUME NEW k \in Nat, i <= k, k < j PROVE h[k + 1] = h[k]
    <2>1. active_count \in Nat
      BY PlaceFacts
    <2>2. PICK u \in Live : Place(u, b) = k
      BY <1>1, <2>1, PlacesAreTaken
    <2>3. g[k + 1].stores = g[k].stores
      BY <1>1, <2>2, StepOfInst
    <2> QED
      BY <2>3
  <1>2. h[j] = h[i]
    <2> HIDE DEF h
    <2> QED
      BY <1>1, Steady
  <1>3. QED
    BY <1>2

-------------------------------------------------------------------------------
(* What is computed from operands that are there.                          *)

(* A ready source of a live instruction has the value program order gives  *)
(* it, and so has an address computed from it.                             *)
LEMMA OperandValues ==
  ASSUME CoreInv, NEW g \in Histories, NEW b \in Nat, OperandsHold(g, b),
         NEW t \in Live, NEW s \in ArchStates, s = g[Place(t, b)]
  PROVE  /\ Op(t) # "jal" /\ inst[t].src1.ready =>
              /\ inst[t].src1.val = ReadIn(s, In(t).s1)
              /\ Address(t) = AddressIn(s, In(t))
         /\ Op(t) \in {"add", "beq", "bne"} /\ inst[t].src2.ready =>
              inst[t].src2.val = ReadIn(s, In(t).s2)
         /\ Op(t) = "store" /\ inst[t].store_data.ready =>
              inst[t].store_data.val = ReadIn(s, In(t).d)
  <1>1. Op(t) = In(t).op /\ Imm(t) = In(t).imm /\ In(t).d \in Reg
    BY InFacts
  <1>2. /\ In(t).op # "jal" => Holds(inst[t].src1, In(t).s1, s, g, b)
        /\ In(t).op \in {"add", "beq", "bne"} => Holds(inst[t].src2, In(t).s2, s, g, b)
        /\ In(t).op = "store" /\ In(t).d > 0 => Holds(inst[t].store_data, In(t).d, s, g, b)
        /\ In(t).op = "store" /\ In(t).d = 0 => ~inst[t].store_data.ready
    <2>1. OperandsAt(t, s, g, b)
      BY DEF OperandsHold
    <2> QED
      BY <2>1 DEF OperandsAt
  <1>3. Op(t) # "jal" /\ inst[t].src1.ready => inst[t].src1.val = ReadIn(s, In(t).s1)
    BY <1>1, <1>2 DEF Holds
  <1>4. Op(t) # "jal" /\ inst[t].src1.ready => Address(t) = AddressIn(s, In(t))
    BY <1>1, <1>3 DEF Address, AddressIn
  <1>5. Op(t) \in {"add", "beq", "bne"} /\ inst[t].src2.ready =>
          inst[t].src2.val = ReadIn(s, In(t).s2)
    BY <1>1, <1>2 DEF Holds
  <1>6. In(t).d > 0 \/ In(t).d = 0
    BY <1>1, RobAssumption DEF Reg
  <1>7. Op(t) = "store" /\ inst[t].store_data.ready =>
          inst[t].store_data.val = ReadIn(s, In(t).d)
    BY <1>1, <1>2, <1>6 DEF Holds
  <1>8. QED
    BY <1>3, <1>4, <1>5, <1>7

(* With its operands a control instruction goes where program order goes.  *)
LEMMA ResolvedAsInOrder ==
  ASSUME CoreInv, NEW g \in Histories, NEW b \in Nat, OperandsHold(g, b),
         NEW t \in Live, NEW s \in ArchStates, s = g[Place(t, b)],
         IsControlOp(Op(t)), inst[t].src1.ready, inst[t].src2.ready
  PROVE  ActualNext(t) = PcAfter(s, In(t), inst[t].pc)
  <1>1. Op(t) = In(t).op /\ Imm(t) = In(t).imm
    BY InFacts
  <1>2. /\ Op(t) # "jal" => /\ inst[t].src1.val = ReadIn(s, In(t).s1)
                            /\ Address(t) = AddressIn(s, In(t))
        /\ Op(t) \in {"beq", "bne"} => inst[t].src2.val = ReadIn(s, In(t).s2)
    BY OperandValues
  <1>3. Op(t) \in {"beq", "bne", "jal", "jalr"}
    BY DEF IsControlOp, IsJump
  <1>4. Taken(t) <=> TakenIn(s, In(t))
    BY <1>1, <1>2, <1>3 DEF Taken, TakenIn, IsJump
  <1>5. Target(t) = IF In(t).op = "jalr" THEN AddressIn(s, In(t)) ELSE In(t).imm
    BY <1>1, <1>2 DEF Target, Address
  <1>6. QED
    BY <1>4, <1>5 DEF ActualNext, PcAfter

(* What a unit computes from ready operands is the result in program       *)
(* order.                                                                  *)
LEMMA ComputedAsInOrder ==
  ASSUME CoreInv, SourcesAreRead, NEW g \in Histories, NEW b \in Nat,
         OperandsHold(g, b), LoadsHold(g, b),
         NEW t \in Live, NEW s \in ArchStates, s = g[Place(t, b)], CanBroadcast(t)
  PROVE  ResultOf(t) = ResultIn(s, In(t), inst[t].pc)
  <1>1. Op(t) = In(t).op /\ Imm(t) = In(t).imm /\ In(t) \in Instructions
        /\ kind[t] = KindOf(In(t).op) /\ t \in Tags
    BY InFacts
  <1>2. inst[t].dispatched /\ ~done[t]
    BY DEF CanBroadcast, CoreInv, InstsMatch
  <1>3. inst[t].src1.ready /\ inst[t].src2.ready
    BY <1>2 DEF SourcesAreRead, SourcesAt
  <1>4. /\ Op(t) # "jal" => /\ inst[t].src1.val = ReadIn(s, In(t).s1)
                            /\ Address(t) = AddressIn(s, In(t))
        /\ Op(t) = "add" => inst[t].src2.val = ReadIn(s, In(t).s2)
    BY <1>3, OperandValues
  <1>5. Op(t) \in {"add", "addi", "load", "jal", "jalr"}
    <2>1. Op(t) \in {"addi", "add", "load", "store", "beq", "bne", "jal", "jalr"}
      BY <1>1 DEF Instructions
    <2>2. Op(t) # "store"
      BY <1>2 DEF CoreInv, InstsMatch
    <2>3. IsControlOp(Op(t)) => IsJump(Op(t))
      BY <1>1, KindsOfOps DEF CanBroadcast, HasLink
    <2> QED
      BY <2>1, <2>2, <2>3 DEF IsControlOp, IsJump
  <1>6. CASE Op(t) = "add"
    <2>1. ResultOf(t) = Wrap(inst[t].src1.val + inst[t].src2.val)
      BY <1>6 DEF ResultOf, IsJump
    <2>2. ResultIn(s, In(t), inst[t].pc) = Wrap(ReadIn(s, In(t).s1) + ReadIn(s, In(t).s2))
      BY <1>1, <1>6 DEF ResultIn
    <2> QED
      BY <1>4, <1>6, <2>1, <2>2
  <1>7. CASE Op(t) = "addi"
    <2>1. ResultOf(t) = Address(t)
      BY <1>7 DEF ResultOf, IsJump, Address
    <2>2. ResultIn(s, In(t), inst[t].pc) = AddressIn(s, In(t))
      BY <1>1, <1>7 DEF ResultIn
    <2> QED
      BY <1>4, <1>7, <2>1, <2>2
  <1>8. CASE Op(t) \in {"jal", "jalr"}
    BY <1>1, <1>8 DEF ResultOf, ResultIn, IsJump
  <1>9. CASE Op(t) = "load"
    <2>1. ResultOf(t) = IF inst[t].fwd = NeedsMemory THEN mem[Address(t)] ELSE inst[t].fwd
      BY <1>9 DEF ResultOf, IsJump
    <2>2. ResultIn(s, In(t), inst[t].pc) = s.mem[Address(t)]
      BY <1>1, <1>4, <1>9 DEF ResultIn
    <2>3. inst[t].fwd # NeedsMemory => inst[t].fwd = s.mem[Address(t)]
      BY <1>2, <1>9 DEF LoadsHold, LoadAt
    <2>4. inst[t].fwd = NeedsMemory => mem[Address(t)] = s.mem[Address(t)]
      BY <1>2, <1>9 DEF LoadsHold, LoadAt, MemoryIsCurrent
    <2> QED
      BY <2>1, <2>2, <2>3, <2>4
  <1>10. QED
    BY <1>5, <1>6, <1>7, <1>8, <1>9

-------------------------------------------------------------------------------
(* The store buffer.                                                       *)

(* The store buffer is a sequence of stores.                               *)
LEMMA BufferShape ==
  ASSUME CoreInv
  PROVE  /\ Len(sb) \in Nat /\ sb \in Seq(SbStates)
         /\ \A i \in 1 .. Len(sb) : sb[i] \in SbStates /\ sb[i].addr \in Val /\ sb[i].val \in Val
  <1>1. sb \in Seq(SbStates)
    BY DEF CoreInv, CoreShapes
  <1>2. Len(sb) \in Nat /\ \A i \in 1 .. Len(sb) : sb[i] \in SbStates
    BY <1>1, LenProperties, ElementOfSeq
  <1>3. QED
    BY <1>1, <1>2 DEF SbStates

(* The stores that have entered the buffer can be counted.                 *)
LEMMA DoneStoresAreFinite ==
  ASSUME CoreInv
  PROVE  /\ DoneStores \subseteq Live /\ IsFiniteSet(DoneStores)
         /\ Cardinality(DoneStores) \in Nat /\ RetiredInSb = Len(sb) - Cardinality(DoneStores)
  <1>1. DoneStores \subseteq Tags /\ DoneStores \subseteq Live
    BY DEF DoneStores, Live
  <1>2. IsFiniteSet(Tags)
    BY RobAssumption, FS_Interval DEF Tags
  <1>3. IsFiniteSet(DoneStores) /\ Cardinality(DoneStores) \in Nat
    BY <1>1, <1>2, FS_Subset, FS_CardinalityType
  <1>4. QED
    BY <1>1, <1>3 DEF RetiredInSb, DoneStores

(* Outside the commit stage every store in the buffer has retired.         *)
LEMMA AllHaveRetired ==
  ASSUME CoreInv, DoneStores = {}
  PROVE  RetiredInSb = Len(sb)
  <1>1. RetiredInSb = Len(sb) - 0
    BY DoneStoresAreFinite, FS_EmptySet
  <1>2. QED
    BY <1>1, BufferShape

(* Outside the commit stage no live store has entered the buffer.          *)
LEMMA NoDoneStores ==
  ASSUME CoreInv, stage # "commit"
  PROVE  DoneStores = {}
  BY DEF CoreInv, DoneStoresRetire, DoneStores

(* The same after a step.                                                  *)
LEMMA NoDoneStoresNext ==
  ASSUME CoreInv', stage' # "commit"
  PROVE  (DoneStores = {})'
  BY DEF CoreInv, DoneStoresRetire, DoneStores

(* The memory the refinement mapping shows is the one written by the       *)
(* retired part of the buffer.                                             *)
LEMMA DrainedIsWritten ==
  ASSUME NEW n
  PROVE  Drained(n) = Written(sb, mem, n) /\ Drained(n)' = Written(sb', mem', n)
  BY DEF Drained, Written

(* A word is that of the last entry with its address, or the one in        *)
(* memory.                                                                 *)
LEMMA WrittenWord ==
  ASSUME NEW s, NEW m, NEW n \in Nat, NEW a \in Val
  PROVE  /\ (\A i \in 1 .. n : s[i].addr # a) => Written(s, m, n)[a] = m[a]
         /\ \A i \in 1 .. n : s[i].addr = a /\ (\A j \in 1 .. n : s[j].addr = a => j <= i)
              => Written(s, m, n)[a] = s[i].val
  <1> DEFINE hits == {i \in 1 .. n : s[i].addr = a}
  <1>1. Written(s, m, n)[a] = IF hits = {} THEN m[a] ELSE s[Max(hits)].val
    BY DEF Written
  <1>2. ASSUME \A i \in 1 .. n : s[i].addr # a PROVE Written(s, m, n)[a] = m[a]
    BY <1>1, <1>2
  <1>3. ASSUME NEW i \in 1 .. n, s[i].addr = a,
               \A j \in 1 .. n : s[j].addr = a => j <= i
        PROVE  Written(s, m, n)[a] = s[i].val
    <2>1. i \in hits /\ hits \in SUBSET (1 .. n) /\ \A j \in hits : j <= i
      BY <1>3
    <2>2. Max(hits) = i
      <3> HIDE DEF hits
      <3>1. Max(hits) \in hits /\ \A k \in hits : k <= Max(hits)
        BY <2>1, MaxIsIn
      <3>2. Max(hits) <= i /\ i <= Max(hits) /\ Max(hits) \in 1 .. n
        BY <2>1, <3>1
      <3> QED
        BY <3>2
    <2> QED
      BY <1>1, <2>1, <2>2
  <1>4. QED
    BY <1>2, <1>3

(* There is a last one, if any, of the stores to a word.                   *)
LEMMA LastHit ==
  ASSUME NEW s, NEW n \in Nat, NEW a, \E i \in 1 .. n : s[i].addr = a
  PROVE  \E i \in 1 .. n : s[i].addr = a /\ \A j \in 1 .. n : s[j].addr = a => j <= i
  <1> DEFINE hits == {i \in 1 .. n : s[i].addr = a}
  <1>1. hits \in SUBSET (0 .. n) /\ hits # {}
    OBVIOUS
  <1>2. PICK m \in hits : \A k \in hits : k <= m
    <2> HIDE DEF hits
    <2> QED
      BY <1>1, MaximumExists
  <1>3. QED
    BY <1>2

(* One more store.                                                         *)
LEMMA WrittenOneMore ==
  ASSUME NEW s, NEW m, NEW n \in Nat, NEW a \in Val
  PROVE  /\ s[n + 1].addr = a => Written(s, m, n + 1)[a] = s[n + 1].val
         /\ s[n + 1].addr # a => Written(s, m, n + 1)[a] = Written(s, m, n)[a]
  <1>1. CASE s[n + 1].addr = a
    BY <1>1, WrittenWord
  <1>2. CASE s[n + 1].addr # a /\ \A i \in 1 .. n : s[i].addr # a
    <2>1. \A i \in 1 .. n + 1 : s[i].addr # a
      BY <1>2
    <2> QED
      BY <1>2, <2>1, WrittenWord
  <1>3. CASE s[n + 1].addr # a /\ \E i \in 1 .. n : s[i].addr = a
    <2>0. \E i \in 1 .. n : s[i].addr = a
      BY <1>3
    <2>1. PICK i \in 1 .. n : s[i].addr = a /\ \A j \in 1 .. n : s[j].addr = a => j <= i
      BY <2>0, LastHit
    <2>2. \A j \in 1 .. n + 1 : s[j].addr = a => j <= i
      BY <1>3, <2>1
    <2>3. Written(s, m, n + 1)[a] = s[i].val
      BY <2>1, <2>2, WrittenWord
    <2>4. Written(s, m, n)[a] = s[i].val
      BY <2>1, WrittenWord
    <2> QED
      BY <1>3, <2>3, <2>4
  <1>4. QED
    BY <1>1, <1>2, <1>3

(* Equal buffers write the same.                                           *)
LEMMA WrittenFromSame ==
  ASSUME NEW s, NEW t, NEW m, NEW n \in Nat, \A i \in 1 .. n : t[i] = s[i]
  PROVE  Written(t, m, n) = Written(s, m, n)
  <1>1. ASSUME NEW a \in Val PROVE Written(t, m, n)[a] = Written(s, m, n)[a]
    <2>1. CASE \A i \in 1 .. n : s[i].addr # a
      BY <2>1, WrittenWord
    <2>2. CASE \E i \in 1 .. n : s[i].addr = a
      <3>1. PICK i \in 1 .. n : s[i].addr = a /\ \A j \in 1 .. n : s[j].addr = a => j <= i
        BY <2>2, LastHit
      <3>2. Written(s, m, n)[a] = s[i].val
        BY <3>1, WrittenWord
      <3>3. Written(t, m, n)[a] = t[i].val
        BY <3>1, WrittenWord
      <3> QED
        BY <3>2, <3>3
    <2> QED
      BY <2>1, <2>2
  <1>2. QED
    BY <1>1 DEF Written

(* The stores written in two steps: the rest of the buffer is t.           *)
LEMMA WrittenInTwo ==
  ASSUME NEW s, NEW t, NEW m, NEW n \in Nat, NEW c \in Nat, NEW e \in Nat, c = n + e,
         \A i \in 1 .. e : t[i] = s[n + i]
  PROVE  Written(t, Written(s, m, n), e) = Written(s, m, c)
  <1>1. ASSUME NEW a \in Val PROVE Written(t, Written(s, m, n), e)[a] = Written(s, m, c)[a]
    <2>1. CASE \E i \in 1 .. e : t[i].addr = a
      <3>1. PICK i \in 1 .. e : t[i].addr = a /\ \A j \in 1 .. e : t[j].addr = a => j <= i
        BY <2>1, LastHit
      <3>2. Written(t, Written(s, m, n), e)[a] = t[i].val
        BY <3>1, WrittenWord
      <3>3. n + i \in 1 .. c /\ s[n + i] = t[i]
        BY <3>1
      <3>4. \A j \in 1 .. c : s[j].addr = a => j <= n + i
        <4> SUFFICES ASSUME NEW j \in 1 .. c, s[j].addr = a, j > n + i PROVE FALSE
          BY <3>1
        <4>1. j - n \in 1 .. e /\ n + (j - n) = j /\ ~(j - n <= i)
          BY <3>1
        <4>2. t[j - n] = s[j]
          BY <4>1
        <4> QED
          BY <3>1, <4>1, <4>2
      <3>5. Written(s, m, c)[a] = s[n + i].val
        BY <3>1, <3>3, <3>4, WrittenWord
      <3> QED
        BY <3>2, <3>3, <3>5
    <2>2. CASE \A i \in 1 .. e : t[i].addr # a
      <3>1. Written(t, Written(s, m, n), e)[a] = Written(s, m, n)[a]
        BY <2>2, WrittenWord
      <3>2. \A j \in 1 .. c : s[j].addr = a => j <= n
        <4> SUFFICES ASSUME NEW j \in 1 .. c, s[j].addr = a, j > n PROVE FALSE
          OBVIOUS
        <4>1. j - n \in 1 .. e /\ n + (j - n) = j
          OBVIOUS
        <4>2. t[j - n] = s[j]
          BY <4>1
        <4> QED
          BY <2>2, <4>1, <4>2
      <3>3. CASE \E i \in 1 .. n : s[i].addr = a
        <4>1. PICK i \in 1 .. n : s[i].addr = a /\ \A j \in 1 .. n : s[j].addr = a => j <= i
          BY <3>3, LastHit
        <4>2. i \in 1 .. c /\ \A j \in 1 .. c : s[j].addr = a => j <= i
          BY <3>2, <4>1
        <4>3. Written(s, m, n)[a] = s[i].val
          BY <4>1, WrittenWord
        <4>4. Written(s, m, c)[a] = s[i].val
          BY <4>1, <4>2, WrittenWord
        <4> QED
          BY <3>1, <4>3, <4>4
      <3>4. CASE \A i \in 1 .. n : s[i].addr # a
        <4>1. \A i \in 1 .. c : s[i].addr # a
          BY <3>2, <3>4
        <4>2. Written(s, m, n)[a] = m[a]
          BY <3>4, WrittenWord
        <4>3. Written(s, m, c)[a] = m[a]
          BY <4>1, WrittenWord
        <4> QED
          BY <3>1, <4>2, <4>3
      <3> QED
        BY <3>3, <3>4
    <2> QED
      BY <2>1, <2>2
  <1>2. QED
    BY <1>1 DEF Written

(* The stores left in the buffer when some have been written.              *)
LEMMA BufferDrains ==
  ASSUME CoreInv, NEW n \in Nat, n <= Len(sb),
         mem' = Drained(n), sb' = SubSeq(sb, n + 1, Len(sb))
  PROVE  /\ Len(sb') = Len(sb) - n
         /\ \A i \in 1 .. Len(sb) - n : sb'[i] = sb[n + i]
         /\ \A c \in Nat : c = Len(sb) - n => Drained(c)' = Drained(Len(sb))
  <1>1. PICK c \in Nat : c = Len(sb)
    BY BufferShape
  <1>2. Len(sb') = c - n /\ \A i \in 1 .. c - n : sb'[i] = sb[n + i]
    <2>1. sb \in Seq(SbStates) /\ \A i \in 1 .. c : sb[i] \in SbStates
      BY <1>1, BufferShape
    <2>2. Len(SubSeq(sb, n + 1, c)) = IF n + 1 <= c THEN c - (n + 1) + 1 ELSE 0
      BY <1>1, <2>1, SubSeqProperties
    <2>3. \A i \in 1 .. c - n : SubSeq(sb, n + 1, c)[i] = sb[n + 1 + i - 1]
      BY <1>1, <2>1, <2>2, SubSeqProperties
    <2>4. \A i \in 1 .. c - n : n + 1 + i - 1 = n + i
      BY <1>1
    <2> QED
      BY <1>1, <2>2, <2>3, <2>4
  <1>3. PICK e \in Nat : e = c - n /\ c = n + e
    <2>1. c - n \in Nat /\ c = n + (c - n)
      BY <1>1
    <2> QED
      BY <2>1
  <1>4. PICK s, t, m, q : s = sb /\ t = sb' /\ m = mem /\ q = mem'
    OBVIOUS
  <1>5. q = Written(s, m, n)
    BY <1>4, DrainedIsWritten
  <1>6. Written(t, Written(s, m, n), e) = Written(s, m, c)
    <2>1. \A i \in 1 .. e : t[i] = s[n + i]
      BY <1>2, <1>3, <1>4
    <2> QED
      BY <1>1, <1>3, <2>1, WrittenInTwo
  <1>7. Drained(e)' = Drained(c)
    BY <1>4, <1>5, <1>6, DrainedIsWritten
  <1>8. QED
    BY <1>1, <1>2, <1>3, <1>7

-------------------------------------------------------------------------------
(* What stays with an instruction while others move.                       *)

(* Who is in flight before and after a step is the same instruction, in    *)
(* the same place of the history.                                          *)
Stays(b, c) ==
  /\ prog' = prog
  /\ \A t \in Live : t \in Live' =>
       /\ inst'[t].pc = inst[t].pc /\ kind'[t] = kind[t] /\ dest_reg'[t] = dest_reg[t]
       /\ Place(t, c)' = Place(t, b)

SameOperands(t) ==
  /\ inst'[t].src1 = inst[t].src1 /\ inst'[t].src2 = inst[t].src2
  /\ inst'[t].store_data = inst[t].store_data

SameWork(t) ==
  /\ inst'[t].pc = inst[t].pc /\ SameOperands(t)
  /\ inst'[t].predicted_taken = inst[t].predicted_taken
  /\ inst'[t].predicted_target = inst[t].predicted_target
  /\ inst'[t].addr_computed = inst[t].addr_computed
  /\ inst'[t].dispatched = inst[t].dispatched /\ inst'[t].fwd = inst[t].fwd
  /\ inst'[t].br_resolved = inst[t].br_resolved
  /\ inst'[t].mispredicted = inst[t].mispredicted

(* Ages of live instructions are below the occupancy.                      *)
LEMMA LiveAges ==
  CoreInv => /\ active_count \in Nat
             /\ \A u \in Live : u \in Tags /\ AgeFromHead(u) \in Nat /\ AgeFromHead(u) < active_count
  <1> SUFFICES ASSUME CoreInv
               PROVE  /\ active_count \in Nat
                      /\ \A u \in Live : u \in Tags /\ AgeFromHead(u) \in Nat
                                         /\ AgeFromHead(u) < active_count
    OBVIOUS
  <1>1. /\ active_count \in 0 .. Capacity
        /\ \A t \in Tags : busy[t] <=> AgeFromHead(t) < active_count
    BY DEF CoreInv, RuInv, RobInv, RobTypeOK, BusyIsWindow
  <1>2. \A t \in Live : t \in Tags /\ AgeFromHead(t) \in Nat
    BY PlaceFacts
  <1>3. active_count \in Nat
    BY <1>1, RobAssumption
  <1>4. QED
    BY <1>1, <1>2, <1>3 DEF Live

(* The same after a step.                                                  *)
LEMMA LiveAgesNext ==
  ASSUME CoreInv'
  PROVE  /\ active_count' \in Nat
         /\ \A u \in Live' : u \in Tags /\ AgeFromHead(u)' \in Nat
                             /\ AgeFromHead(u)' < active_count'
  <1>1. (CoreInv => /\ active_count \in Nat
                    /\ \A u \in Live : u \in Tags /\ AgeFromHead(u) \in Nat /\ AgeFromHead(u) < active_count)'
    BY LiveAges, PTL
  <1>2. QED
    BY <1>1

(* An instruction that stays keeps its program, and its place while b      *)
(* moves with the head.                                                    *)
LEMMA StayFacts ==
  ASSUME CoreInv, CoreInv', NEW b \in Nat, NEW c \in Nat, Stays(b, c),
         NEW t \in Live, t \in Live'
  PROVE  /\ t \in Tags /\ prog' = prog /\ inst'[t].pc = inst[t].pc
         /\ kind'[t] = kind[t] /\ dest_reg'[t] = dest_reg[t]
         /\ Place(t, c)' = Place(t, b)
         /\ In(t)' = In(t) /\ Op(t)' = Op(t) /\ Imm(t)' = Imm(t)
         /\ \A u \in Live : u \in Live' => (Older(u, t)' <=> Older(u, t))
  <1>1. /\ t \in Tags /\ prog' = prog /\ inst'[t].pc = inst[t].pc
        /\ kind'[t] = kind[t] /\ dest_reg'[t] = dest_reg[t] /\ Place(t, c)' = Place(t, b)
    BY DEF Stays, Live
  <1>2. In(t)' = In(t) /\ Op(t)' = Op(t) /\ Imm(t)' = Imm(t)
    BY <1>1 DEF In, Op, Imm
  <1>3. \A u \in Live : AgeFromHead(u) \in Nat
    BY LiveAges
  <1>5. \A u \in Live' : AgeFromHead(u)' \in Nat
    BY LiveAgesNext
  <1>6. ASSUME NEW u \in Live, u \in Live'
        PROVE  Older(u, t)' <=> Older(u, t)
    <2>1. PICK i \in Nat, j \in Nat, k \in Nat, l \in Nat :
            /\ i = AgeFromHead(u) /\ j = AgeFromHead(t)
            /\ k = AgeFromHead(u)' /\ l = AgeFromHead(t)'
      BY <1>3, <1>5, <1>6
    <2>2. c + k = b + i /\ c + l = b + j
      BY <1>6, <2>1 DEF Stays, Place
    <2>3. k < l <=> i < j
      BY <2>1, <2>2
    <2> QED
      BY <2>1, <2>3 DEF Older
  <1>7. QED
    BY <1>1, <1>2, <1>6

(* Operands that change only by taking results of their producers keep     *)
(* the values of the history.                                              *)
LEMMA OperandsStay ==
  ASSUME CoreInv, CoreInv', NEW b \in Nat, NEW c \in Nat, Stays(b, c),
         NEW t \in Live, t \in Live', SameOperands(t),
         NEW g, NEW s, OperandsAt(t, s, g, b)
  PROVE  OperandsAt(t, s, g, c)'
  <1>1. In(t)' = In(t)
    BY StayFacts
  <1>2. ASSUME NEW o \in {inst[t].src1, inst[t].src2, inst[t].store_data}, NEW r,
               Holds(o, r, s, g, b)
        PROVE  Holds(o, r, s, g, c)'
    <2>1. CASE o.ready
      BY <1>2, <2>1 DEF Holds
    <2>2. CASE ~o.ready
      <3>1. PICK p : p = o.tag
        OBVIOUS
      <3>2. /\ p # NoTag /\ r # 0 /\ dest_reg[p] = r
            /\ g[Place(p, b) + 1].regs[r] = s.regs[r]
        BY <1>2, <2>2, <3>1 DEF Holds
      <3>3. p \in Live
        BY <2>2, <3>1, <3>2 DEF CoreInv, OperandsWaitForLiveProducers
      <3>4. p \in Live'
        <4>1. o \in {inst'[t].src1, inst'[t].src2, inst'[t].store_data}
          BY DEF SameOperands
        <4>2. OperandsWaitForLiveProducers'
          BY DEF CoreInv
        <4> QED
          BY <2>2, <3>1, <3>2, <4>1, <4>2 DEF OperandsWaitForLiveProducers
      <3>5. dest_reg'[p] = r /\ Place(p, c)' = Place(p, b)
        BY <3>2, <3>3, <3>4 DEF Stays
      <3> QED
        BY <2>2, <3>1, <3>2, <3>5 DEF Holds
    <2> QED
      BY <2>1, <2>2
  <1>3. QED
    BY <1>1, <1>2 DEF OperandsAt, SameOperands

ReadyStays(t) ==
  /\ inst[t].src1.ready => inst'[t].src1 = inst[t].src1
  /\ inst[t].src2.ready => inst'[t].src2 = inst[t].src2

SameBranch(t) ==
  /\ inst'[t].predicted_taken = inst[t].predicted_taken
  /\ inst'[t].predicted_target = inst[t].predicted_target
  /\ inst'[t].br_resolved = inst[t].br_resolved
  /\ inst'[t].mispredicted = inst[t].mispredicted

(* A load whose forwarded word, store buffer and older stores stay keeps   *)
(* what it knows of the history.                                           *)
LEMMA LoadStays ==
  ASSUME CoreInv, CoreInv', NEW b \in Nat, NEW c \in Nat, Stays(b, c),
         NEW t \in Live, t \in Live', NEW s, LoadAt(t, s), SourcesAt(t), ReadyStays(t),
         inst'[t].dispatched => inst[t].dispatched, inst'[t].fwd = inst[t].fwd,
         done[t] => done'[t],
         MemoryIsCurrent(t, s) /\ ~done'[t] =>
           /\ mem'[Address(t)] = mem[Address(t)]
           /\ \A i \in 1 .. Len(sb') : sb'[i].addr # Address(t),
         \A u \in Live' : Older(u, t)' /\ Op(u)' = "store" /\ ~done'[u] =>
           u \in Live /\ ~done[u] /\ ReadyStays(u)
  PROVE  LoadAt(t, s)'
  <1> SUFFICES ASSUME Op(t)' = "load", inst'[t].dispatched
               PROVE  /\ inst'[t].fwd # NeedsMemory => inst'[t].fwd = s.mem[Address(t)']
                      /\ inst'[t].fwd = NeedsMemory /\ ~done'[t] => MemoryIsCurrent(t, s)'
    BY DEF LoadAt
  <1>1. Op(t) = "load" /\ inst[t].dispatched /\ inst[t].src1.ready
    BY StayFacts DEF SourcesAt
  <1>2. Address(t)' = Address(t)
    BY <1>1, StayFacts DEF Address, ReadyStays
  <1>3. inst'[t].fwd # NeedsMemory => inst'[t].fwd = s.mem[Address(t)']
    BY <1>1, <1>2 DEF LoadAt
  <1>4. ASSUME inst'[t].fwd = NeedsMemory, ~done'[t]
        PROVE  MemoryIsCurrent(t, s)'
    <2>1. MemoryIsCurrent(t, s)
      BY <1>1, <1>4 DEF LoadAt
    <2>2. /\ mem'[Address(t)'] = s.mem[Address(t)']
          /\ \A i \in 1 .. Len(sb') : sb'[i].addr # Address(t)'
      BY <1>2, <1>4, <2>1 DEF MemoryIsCurrent
    <2>3. ASSUME NEW u \in Live', Older(u, t)', Op(u)' = "store", ~done'[u]
          PROVE  inst'[u].src1.ready /\ Address(u)' # Address(t)'
      <3>1. u \in Live /\ ~done[u] /\ ReadyStays(u)
        BY <2>3
      <3>2. /\ Older(u, t) /\ Op(u) = "store"
        BY <2>3, <3>1, StayFacts
      <3>3. inst[u].src1.ready /\ Address(u) # Address(t)
        BY <2>1, <3>1, <3>2 DEF MemoryIsCurrent
      <3>4. inst'[u].src1.ready /\ Address(u)' = Address(u)
        BY <3>1, <3>3, StayFacts DEF ReadyStays, Address
      <3> QED
        BY <1>2, <3>3, <3>4
    <2> QED
      BY <2>2, <2>3 DEF MemoryIsCurrent
  <1>5. QED
    BY <1>3, <1>4

(* An instruction whose work only advances keeps its part of the path.     *)
LEMMA PathStays ==
  ASSUME CoreInv, CoreInv', NEW b \in Nat, NEW c \in Nat, Stays(b, c),
         NEW t \in Live, t \in Live', SourcesAt(t), BranchAt(t), ReadyStays(t), SameBranch(t),
         inst'[t].addr_computed => inst[t].src1.ready,
         inst'[t].dispatched => inst[t].src1.ready /\ inst[t].src2.ready,
         inst[t].dispatched => inst'[t].dispatched,
         done'[t] /\ IsControlOp(Op(t)) => inst[t].br_resolved
  PROVE  SourcesAt(t)' /\ BranchAt(t)' /\ NextOf(t)' = NextOf(t)
  <1>1. /\ t \in Tags /\ inst'[t].pc = inst[t].pc
        /\ Op(t)' = Op(t) /\ Imm(t)' = Imm(t)
    BY StayFacts
  <1>2. SourcesAt(t)'
    BY <1>1 DEF SourcesAt, ReadyStays
  <1>3. inst[t].br_resolved => inst'[t].src1 = inst[t].src1 /\ inst'[t].src2 = inst[t].src2
    BY DEF BranchAt, SourcesAt, ReadyStays
  <1>4. inst[t].br_resolved => /\ Taken(t)' = Taken(t) /\ Target(t)' = Target(t)
                               /\ ActualNext(t)' = ActualNext(t)
    BY <1>1, <1>3 DEF Taken, Target, ActualNext
  <1>5. inst[t].br_resolved => (Mispredicted(t)' <=> Mispredicted(t))
    BY <1>4 DEF Mispredicted, SameBranch
  <1>6. BranchAt(t)'
    BY <1>1, <1>5 DEF BranchAt, SameBranch
  <1>7. NextOf(t)' = NextOf(t)
    BY <1>1, <1>4 DEF NextOf, NextFetched, SameBranch, BranchAt
  <1>8. QED
    BY <1>2, <1>6, <1>7

(* While the window and the program counters in it stay, so does the path  *)
(* through it.                                                             *)
LEMMA WindowStays ==
  ASSUME CoreInv, CoreInv', NEW b \in Nat, NEW c \in Nat, Stays(b, c), WindowFollows,
         \A t \in Live' : t \in Live /\ NextOf(t)' = NextOf(t),
         c + active_count' = b + active_count, FrontPc' = FrontPc
  PROVE  WindowFollows'
  <1>1. ASSUME NEW t \in Live', NEW u \in Live', AgeFromHead(u)' = AgeFromHead(t)' + 1
        PROVE  inst'[u].pc = NextOf(t)'
    <2>1. PICK i \in Nat, j \in Nat, k \in Nat, l \in Nat :
            /\ i = AgeFromHead(u) /\ j = AgeFromHead(t)
            /\ k = AgeFromHead(u)' /\ l = AgeFromHead(t)'
      BY LiveAges, LiveAgesNext
    <2>2. c + k = b + i /\ c + l = b + j
      BY <2>1, StayFacts DEF Place
    <2>3. i = j + 1
      BY <1>1, <2>1, <2>2
    <2>4. inst[u].pc = NextOf(t)
      BY <2>1, <2>3 DEF WindowFollows
    <2> QED
      BY <2>4, StayFacts
  <1>2. ASSUME NEW t \in Live', AgeFromHead(t)' + 1 = active_count'
        PROVE  FrontPc' = NextOf(t)'
    <2>1. PICK i \in Nat, k \in Nat, m \in Nat, n \in Nat :
            /\ i = AgeFromHead(t) /\ k = AgeFromHead(t)'
            /\ m = active_count /\ n = active_count'
      BY LiveAges, LiveAgesNext
    <2>2. c + k = b + i /\ c + n = b + m
      BY <2>1, StayFacts DEF Place
    <2>3. i + 1 = m
      <3>1. k + 1 = n
        BY <1>2, <2>1
      <3>2. b \in Nat /\ c \in Nat /\ i \in Nat /\ k \in Nat /\ m \in Nat /\ n \in Nat
        BY <2>1
      <3> QED
        BY <2>2, <3>1, <3>2
    <2>4. FrontPc = NextOf(t)
      BY <2>1, <2>3 DEF WindowFollows
    <2> QED
      BY <2>4
  <1>3. QED
    BY <1>1, <1>2 DEF WindowFollows

(* What stays in flight takes the same steps of the history.               *)
LEMMA StepsStay ==
  ASSUME CoreInv, CoreInv', NEW b \in Nat, NEW c \in Nat, Stays(b, c), Live' \subseteq Live,
         NEW g, StepsFollow(g, b)
  PROVE  StepsFollow(g, c)'
  BY StayFacts DEF StepsFollow

(* When no store in the buffer is in flight.                               *)
StoresAreSettled ==
  \A g \in Histories, b \in Nat, d \in Nat :
    StoresHold(g, b, d) <=> /\ g[b].stores = d + Len(sb)
                            /\ g[b].mem = Written(sb, mem, Len(sb))

(* With no store waiting to retire everything in the buffer is retired.    *)
LEMMA StoresSettled == CoreInv /\ DoneStores = {} => StoresAreSettled
  <1> SUFFICES ASSUME NEW g \in Histories, NEW b \in Nat, NEW d \in Nat, CoreInv, DoneStores = {}
               PROVE  StoresHold(g, b, d) <=> /\ g[b].stores = d + Len(sb)
                                              /\ g[b].mem = Written(sb, mem, Len(sb))
    BY DEF StoresAreSettled
  <1>1. RetiredInSb = Len(sb) /\ Len(sb) \in Nat
    BY AllHaveRetired, BufferShape
  <1>2. EnteredUpTo(b, b)
    <2>1. active_count \in Nat
      BY LiveAges
    <2>2. \A t \in Live : ~(Place(t, b) < b)
      BY PlaceFacts
    <2> QED
      BY <2>1, <2>2 DEF EnteredUpTo
  <1>3. QED
    BY <1>1, <1>2 DEF StoresHold

(* The same after a step.                                                  *)
LEMMA StoresSettledNext ==
  ASSUME CoreInv', (DoneStores = {})', NEW g \in Histories, NEW b \in Nat, NEW d \in Nat
  PROVE  StoresHold(g, b, d)' <=> /\ g[b].stores = d + Len(sb')
                                  /\ g[b].mem = Written(sb', mem', Len(sb'))
  <1>1. StoresAreSettled'
    BY StoresSettled, PTL
  <1>2. (Written(sb, mem, Len(sb)))' = Written(sb', mem', Len(sb'))
    BY DEF Written
  <1>3. QED
    BY <1>1, <1>2 DEF StoresAreSettled

(* The memory and the buffer agree with the history as long as nothing     *)
(* enters, drains or retires.                                              *)
LEMMA StoresStay ==
  ASSUME CoreInv, CoreInv', DoneStores = {}, (DoneStores = {})', sb' = sb, mem' = mem,
         NEW g \in Histories, NEW b \in Nat, NEW d \in Nat, StoresHold(g, b, d)
  PROVE  StoresHold(g, b, d)'
  <1>1. g[b].stores = d + Len(sb) /\ g[b].mem = Written(sb, mem, Len(sb))
    BY StoresSettled DEF StoresAreSettled
  <1>2. QED
    BY <1>1, StoresSettledNext

(* A step that moves nothing but the front of the pipeline.                *)
LEMMA HistoryStays ==
  ASSUME UNCHANGED <<robVars, kind, prog, inst, arf, sb, mem>>,
         NEW g, NEW b, NEW d, History(g, b, d)
  PROVE  History(g, b, d)'
  <1>1. /\ Live' = Live
        /\ \A t : /\ In(t)' = In(t) /\ Op(t)' = Op(t) /\ Place(t, b)' = Place(t, b)
                  /\ Address(t)' = Address(t)
        /\ \A t, u : Older(u, t)' <=> Older(u, t)
    BY DEF robVars, Live, In, Op, Place, AgeFromHead, Address, Imm, Older
  <1>2. StepsFollow(g, b)'
    BY <1>1 DEF History, StepsFollow
  <1>3. OperandsHold(g, b)'
    <2>1. \A t \in Live : OperandsAt(t, g[Place(t, b)], g, b)
      BY DEF History, OperandsHold
    <2>2. \A o, r, s : Holds(o, r, s, g, b)' <=> Holds(o, r, s, g, b)
      BY <1>1 DEF Holds, robVars
    <2>3. \A t, s : OperandsAt(t, s, g, b) => OperandsAt(t, s, g, b)'
      BY <1>1, <2>2 DEF OperandsAt
    <2> QED
      BY <1>1, <2>1, <2>3 DEF OperandsHold
  <1>4. ResultsHold(g, b)'
    BY <1>1 DEF History, ResultsHold, ResultAt, robVars
  <1>5. LoadsHold(g, b)'
    <2>1. \A t, s : MemoryIsCurrent(t, s) => MemoryIsCurrent(t, s)'
      BY <1>1 DEF MemoryIsCurrent, robVars
    <2>2. \A t, s : LoadAt(t, s) => LoadAt(t, s)'
      BY <1>1, <2>1 DEF LoadAt, robVars
    <2> QED
      BY <1>1, <2>2 DEF History, LoadsHold
  <1>6. RegsHold(g, b)'
    BY DEF History, RegsHold
  <1>7. StoresHold(g, b, d)'
    <2>1. DoneStores' = DoneStores /\ RetiredInSb' = RetiredInSb
      BY <1>1 DEF DoneStores, RetiredInSb, robVars
    <2>2. \A t, s : Entered(t, s, d) => Entered(t, s, d)'
      BY <1>1 DEF Entered
    <2>3. \A m : EnteredUpTo(m, b) => EnteredUpTo(m, b)'
      BY <1>1, <2>1 DEF EnteredUpTo, robVars
    <2>4. Written(sb, mem, RetiredInSb)' = Written(sb, mem, RetiredInSb)
      BY <2>1 DEF Written
    <2> QED
      BY <1>1, <2>1, <2>2, <2>3, <2>4 DEF History, StoresHold
  <1>8. QED
    BY <1>2, <1>3, <1>4, <1>5, <1>6, <1>7 DEF History

-------------------------------------------------------------------------------
(* The front of the pipeline.                                              *)

(* The path stays when the window and the queues do.                       *)
LEMMA PathKeeps ==
  ASSUME PathInv, UNCHANGED <<robVars, kind, prog, inst, resolving>>, FrontPc' = FrontPc
  PROVE  SourcesAreRead' /\ BranchesHold' /\ WindowFollows'
  <1>1. /\ Live' = Live
        /\ \A t : Op(t)' = Op(t) /\ Imm(t)' = Imm(t) /\ AgeFromHead(t)' = AgeFromHead(t)
    BY DEF robVars, Live, Op, Imm, AgeFromHead
  <1>2. \A t : /\ Taken(t)' = Taken(t) /\ Target(t)' = Target(t)
               /\ ActualNext(t)' = ActualNext(t)
               /\ (Mispredicted(t)' <=> Mispredicted(t)) /\ NextOf(t)' = NextOf(t)
    BY <1>1 DEF Taken, Target, ActualNext, Mispredicted, NextOf, NextFetched
  <1>3. SourcesAreRead'
    BY <1>1 DEF PathInv, SourcesAreRead, SourcesAt
  <1>4. BranchesHold'
    BY <1>1, <1>2 DEF PathInv, BranchesHold, BranchAt, robVars
  <1>5. WindowFollows'
    BY <1>1, <1>2 DEF PathInv, WindowFollows, robVars
  <1>6. QED
    BY <1>3, <1>4, <1>5

(* What is fetched are instructions of the program with their              *)
(* predictions.                                                            *)
LEMMA QueueTypes ==
  ASSUME CoreInv
  PROVE  /\ ifq \in Seq(Fetched) /\ Len(ifq) \in Nat /\ (ifq = <<>> <=> Len(ifq) = 0)
         /\ \A i \in 1 .. Len(ifq) : ifq[i] \in Fetched
         /\ dispatch_reg \in Seq(Fetched) /\ Len(dispatch_reg) \in Nat
         /\ dispatch_reg = <<>> <=> Len(dispatch_reg) = 0
         /\ \A i \in 1 .. Len(dispatch_reg) : dispatch_reg[i] \in Fetched
         /\ fetch_pc \in Pcs
  <1>1. /\ ifq \in Seq(Fetched) /\ dispatch_reg \in Seq(Fetched) /\ fetch_pc \in Pcs
    BY DEF CoreInv, CoreShapes
  <1>2. QED
    BY <1>1, LenProperties, ElementOfSeq, EmptySeq

(* Steps that only move a stage on keep the path.                          *)
LEMMA QuietPath ==
  ASSUME CoreInv, PathInv, EndStores \/ EndResolve \/ UNCHANGED coreVars
  PROVE  PathInv' /\ FrontPc' = FrontPc
  <1>1. UNCHANGED <<robVars, kind, prog, inst, frontVars>> /\ resolving' = resolving
    BY DEF EndStores, EndResolve, coreVars, coreOnly, ruVars, renameVars
  <1>2. FrontPc' = FrontPc /\ IfqPc' = IfqPc
    BY <1>1 DEF FrontPc, IfqPc, frontVars
  <1>3. QueuesFollow'
    BY <1>1, <1>2 DEF PathInv, QueuesFollow, Chain, NextFetched, frontVars
  <1>4. QED
    BY <1>1, <1>2, <1>3, PathKeeps DEF PathInv

(* Decoding moves a bundle from one queue to the next and keeps the path.  *)
LEMMA DecodePath ==
  ASSUME CoreInv, CoreInv', PathInv, DecodeStage
  PROVE  PathInv' /\ FrontPc' = FrontPc
  <1>1. UNCHANGED <<robVars, kind, prog, inst, resolving, fetch_pc>>
    BY DEF DecodeStage, ruVars, renameVars
  <1>2. Chain(ifq, fetch_pc) /\ Chain(dispatch_reg, IfqPc)
    BY DEF PathInv, QueuesFollow
  <1>3. CASE dispatch_reg # <<>>
    <2>1. UNCHANGED <<dispatch_reg, ifq>>
      BY <1>3 DEF DecodeStage, CanCapture
    <2>2. FrontPc' = FrontPc /\ IfqPc' = IfqPc
      BY <1>1, <2>1 DEF FrontPc, IfqPc
    <2>3. QueuesFollow'
      BY <1>1, <1>2, <2>1, <2>2 DEF QueuesFollow, Chain, NextFetched
    <2> QED
      BY <1>1, <2>2, <2>3, PathKeeps DEF PathInv
  <1>4. CASE dispatch_reg = <<>>
    <2>1. PICK l \in Nat, n \in Nat : l = Len(ifq) /\ n = BundleSize /\ n <= l
                                      /\ (l # 0 => n # 0)
      BY QueueTypes, ConstantsAreSizes DEF BundleSize
    <2>2. dispatch_reg' = SubSeq(ifq, 1, n) /\ ifq' = SubSeq(ifq, n + 1, l)
      BY <1>4, <2>1 DEF DecodeStage, CanCapture
    <2>3. /\ Len(dispatch_reg') = n
          /\ \A i \in 1 .. n : dispatch_reg'[i] = ifq[i]
          /\ dispatch_reg' = <<>> <=> n = 0
      <3>1. \A i \in 1 .. n : ifq[i] \in Fetched
        BY <2>1, QueueTypes
      <3>2. /\ Len(SubSeq(ifq, 1, n)) = IF 1 <= n THEN n - 1 + 1 ELSE 0
            /\ \A i \in 1 .. n - 1 + 1 : SubSeq(ifq, 1, n)[i] = ifq[1 + i - 1]
        BY <2>1, <3>1, QueueTypes, SubSeqProperties
      <3>3. SubSeq(ifq, 1, n) = <<>> <=> Len(SubSeq(ifq, 1, n)) = 0
        BY <2>1, <3>1, QueueTypes, SubSeqProperties, EmptySeq
      <3> QED
        BY <2>1, <2>2, <3>2, <3>3
    <2>4. /\ Len(ifq') = l - n
          /\ \A i \in 1 .. l - n : ifq'[i] = ifq[n + i]
          /\ ifq' = <<>> <=> n = l
      <3>1. \A i \in n + 1 .. l : ifq[i] \in Fetched
        BY <2>1, QueueTypes
      <3>2. /\ Len(SubSeq(ifq, n + 1, l)) = IF n + 1 <= l THEN l - (n + 1) + 1 ELSE 0
            /\ \A i \in 1 .. l - (n + 1) + 1 : SubSeq(ifq, n + 1, l)[i] = ifq[n + 1 + i - 1]
        BY <2>1, <3>1, QueueTypes, SubSeqProperties
      <3>3. SubSeq(ifq, n + 1, l) = <<>> <=> Len(SubSeq(ifq, n + 1, l)) = 0
        <4>1. n + 1 \in Nat
          BY <2>1
        <4>2. SubSeq(ifq, n + 1, l) \in Seq(Fetched)
          BY <2>1, <3>1, <4>1, QueueTypes, SubSeqProperties
        <4> QED
          BY <4>2, EmptySeq
      <3>4. \A i \in 1 .. l - n : n + 1 + i - 1 = n + i
        BY <2>1
      <3> QED
        BY <2>1, <2>2, <3>2, <3>3, <3>4
    <2>5. IfqPc' = IF n = l THEN fetch_pc ELSE ifq[n + 1].pc
      BY <1>1, <2>1, <2>4 DEF IfqPc
    <2>6. FrontPc' = FrontPc
      BY <1>1, <1>4, <2>1, <2>3, <2>5, QueueTypes DEF FrontPc, IfqPc
    <2>7. \A i \in 1 .. l : /\ NextFetched(ifq[i]) = IF i = l THEN fetch_pc ELSE ifq[i + 1].pc
                            /\ ifq[i].predicted_taken => IsControlOp(prog[ifq[i].pc].op)
      BY <1>2, <2>1 DEF Chain
    <2>8. Chain(dispatch_reg, IfqPc)'
      <3> SUFFICES ASSUME NEW i \in 1 .. n
                   PROVE  /\ NextFetched(dispatch_reg'[i]) =
                               IF i = n THEN IfqPc' ELSE dispatch_reg'[i + 1].pc
                          /\ dispatch_reg'[i].predicted_taken =>
                               IsControlOp(prog[dispatch_reg'[i].pc].op)
        BY <1>1, <2>3 DEF Chain, NextFetched
      <3>1. i \in 1 .. l /\ dispatch_reg'[i] = ifq[i]
        BY <2>1, <2>3
      <3>2. i # n => i + 1 \in 1 .. n /\ i # l
        BY <2>1
      <3>3. i # n => dispatch_reg'[i + 1] = ifq[i + 1]
        BY <2>3, <3>2
      <3> QED
        BY <2>5, <2>7, <3>1, <3>2, <3>3
    <2>9. Chain(ifq, fetch_pc)'
      <3> SUFFICES ASSUME NEW i \in 1 .. l - n
                   PROVE  /\ NextFetched(ifq'[i]) =
                               IF i = l - n THEN fetch_pc ELSE ifq'[i + 1].pc
                          /\ ifq'[i].predicted_taken => IsControlOp(prog[ifq'[i].pc].op)
        BY <1>1, <2>4 DEF Chain, NextFetched
      <3>1. n + i \in 1 .. l /\ ifq'[i] = ifq[n + i] /\ (i = l - n <=> n + i = l)
        BY <2>1, <2>4
      <3>2. i # l - n => i + 1 \in 1 .. l - n /\ n + (i + 1) = n + i + 1
        BY <2>1
      <3>3. i # l - n => ifq'[i + 1] = ifq[n + i + 1]
        BY <2>4, <3>2
      <3> QED
        BY <2>7, <3>1, <3>3
    <2> QED
      BY <1>1, <2>6, <2>8, <2>9, PathKeeps DEF PathInv, QueuesFollow
  <1>5. QED
    BY <1>3, <1>4

(* Fetch goes on where the last prediction says.                           *)
LEMMA FetchPath ==
  ASSUME CoreInv, CoreInv', PathInv, NEW taken \in BOOLEAN, NEW target \in Pcs,
         FetchOne(taken, target)
  PROVE  PathInv' /\ FrontPc' = FrontPc
  <1> DEFINE f == [pc |-> fetch_pc, predicted_taken |-> taken, predicted_target |-> target]
  <1>1. /\ UNCHANGED <<robVars, kind, prog, inst, resolving, dispatch_reg>>
        /\ ifq' = Append(ifq, f) /\ fetch_pc' = target /\ fetch_pc \in DOMAIN prog
    BY DEF FetchOne, FetchGoesOn, ruVars, renameVars
  <1>2. f.pc = fetch_pc /\ f.predicted_taken = taken /\ NextFetched(f) = target
        /\ (taken => IsControlOp(prog[fetch_pc].op))
    BY DEF FetchOne, CanPredict, NextFetched, IsControlOp, IsJump
  <1>3. PICK l \in Nat : l = Len(ifq)
    BY QueueTypes
  <1>4. /\ Len(ifq') = l + 1 /\ ifq'[l + 1] = f
        /\ \A i \in 1 .. l : ifq'[i] = ifq[i]
        /\ ifq' # <<>>
    <2>1. f \in Fetched
      BY <1>1 DEF Fetched
    <2> HIDE DEF f
    <2> QED
      BY <1>1, <1>3, <2>1, QueueTypes, AppendProperties
  <1>5. IfqPc' = IfqPc
    BY <1>2, <1>3, <1>4, QueueTypes DEF IfqPc
  <1>6. FrontPc' = FrontPc
    BY <1>1, <1>5 DEF FrontPc
  <1>7. Chain(dispatch_reg, IfqPc)'
    BY <1>1, <1>5 DEF PathInv, QueuesFollow, Chain, NextFetched
  <1>8. \A i \in 1 .. l : /\ NextFetched(ifq[i]) = IF i = l THEN fetch_pc ELSE ifq[i + 1].pc
                          /\ ifq[i].predicted_taken => IsControlOp(prog[ifq[i].pc].op)
    BY <1>3 DEF PathInv, QueuesFollow, Chain
  <1>9. Chain(ifq, fetch_pc)'
    <2> SUFFICES ASSUME NEW i \in 1 .. l + 1
                 PROVE  /\ NextFetched(ifq'[i]) =
                             IF i = l + 1 THEN target ELSE ifq'[i + 1].pc
                        /\ ifq'[i].predicted_taken => IsControlOp(prog[ifq'[i].pc].op)
      BY <1>1, <1>4 DEF Chain, NextFetched
    <2>1. CASE i = l + 1
      BY <1>2, <1>4, <2>1
    <2>2. CASE i = l /\ i # l + 1
      BY <1>2, <1>4, <1>8, <2>2
    <2>3. CASE i \in 1 .. l /\ i # l
      <3>1. i + 1 \in 1 .. l /\ i # l + 1
        BY <2>3
      <3> QED
        BY <1>4, <1>8, <2>3, <3>1
    <2> QED
      BY <2>1, <2>2, <2>3
  <1>10. QED
    BY <1>1, <1>6, <1>7, <1>9, PathKeeps DEF PathInv, QueuesFollow
-------------------------------------------------------------------------------
(* Steps after which nobody is new.                                        *)

(* Operands, for all live instructions at once.                            *)
LEMMA OperandsHoldStay ==
  ASSUME CoreInv, CoreInv', NEW b \in Nat, NEW c \in Nat, Stays(b, c), Live' \subseteq Live,
         NEW g, OperandsHold(g, b), \A t \in Live' : SameOperands(t)
  PROVE  OperandsHold(g, c)'
  <1> SUFFICES ASSUME NEW t \in Live'
               PROVE  OperandsAt(t, g[Place(t, c)], g, c)'
    BY DEF OperandsHold
  <1>1. PICK s : s = g[Place(t, b)]
    OBVIOUS
  <1>2. OperandsAt(t, s, g, b)
    BY <1>1 DEF OperandsHold
  <1>3. OperandsAt(t, s, g, c)'
    BY <1>2, OperandsStay
  <1>4. s = g[Place(t, c)']
    BY <1>1, StayFacts
  <1>5. QED
    BY <1>3, <1>4

(* Results, for all live instructions at once.                             *)
LEMMA ResultsHoldStay ==
  ASSUME CoreInv, CoreInv', NEW b \in Nat, NEW c \in Nat, Stays(b, c), Live' \subseteq Live,
         NEW g, ResultsHold(g, b),
         \A t \in Live' : done'[t] /\ Writes(kind[t], dest_reg[t]) =>
                            done[t] /\ value'[t] = value[t]
  PROVE  ResultsHold(g, c)'
  <1> SUFFICES ASSUME NEW t \in Live', done'[t], Writes(kind'[t], dest_reg'[t])
               PROVE  value'[t] = ResultIn(g[Place(t, c)'], In(t)', inst'[t].pc)
    BY DEF ResultsHold, ResultAt
  <1>1. /\ kind'[t] = kind[t] /\ dest_reg'[t] = dest_reg[t] /\ In(t)' = In(t)
        /\ inst'[t].pc = inst[t].pc /\ Place(t, c)' = Place(t, b)
    BY StayFacts
  <1>2. done[t] /\ value'[t] = value[t] /\ Writes(kind[t], dest_reg[t])
    BY <1>1
  <1>3. value[t] = ResultIn(g[Place(t, b)], In(t), inst[t].pc)
    BY <1>2 DEF ResultsHold, ResultAt
  <1>4. QED
    BY <1>1, <1>2, <1>3

(* Loads, for all live instructions at once.                               *)
LEMMA LoadsHoldStay ==
  ASSUME CoreInv, CoreInv', SourcesAreRead,
         NEW b \in Nat, NEW c \in Nat, Stays(b, c), Live' \subseteq Live,
         NEW g, LoadsHold(g, b),
         \A t \in Live' : /\ ReadyStays(t) /\ inst'[t].fwd = inst[t].fwd
                          /\ inst'[t].dispatched => inst[t].dispatched
                          /\ done[t] => done'[t],
         \A t \in Live' : MemoryIsCurrent(t, g[Place(t, b)]) /\ ~done'[t] =>
           /\ mem'[Address(t)] = mem[Address(t)]
           /\ \A i \in 1 .. Len(sb') : sb'[i].addr # Address(t)
  PROVE  LoadsHold(g, c)'
  <1> SUFFICES ASSUME NEW t \in Live'
               PROVE  LoadAt(t, g[Place(t, c)])'
    BY DEF LoadsHold
  <1>1. PICK s : s = g[Place(t, b)]
    OBVIOUS
  <1>2. LoadAt(t, s) /\ SourcesAt(t)
    BY <1>1 DEF LoadsHold, SourcesAreRead
  <1>3. MemoryIsCurrent(t, s) /\ ~done'[t] =>
           /\ mem'[Address(t)] = mem[Address(t)]
           /\ \A i \in 1 .. Len(sb') : sb'[i].addr # Address(t)
    BY <1>1
  <1>4. \A u \in Live' : Older(u, t)' /\ Op(u)' = "store" /\ ~done'[u] =>
           u \in Live /\ ~done[u] /\ ReadyStays(u)
    OBVIOUS
  <1>5. LoadAt(t, s)'
    BY <1>2, <1>3, <1>4, LoadStays
  <1>6. s = g[Place(t, c)']
    BY <1>1, StayFacts
  <1>7. QED
    BY <1>5, <1>6

(* The path, when only the work of some instructions advances.             *)
LEMMA WorkPath ==
  ASSUME CoreInv, CoreInv', PathInv, UNCHANGED frontVars,
         NEW b \in Nat, NEW c \in Nat, Stays(b, c), Live' \subseteq Live,
         c + active_count' = b + active_count,
         \A t \in Live' :
           /\ ReadyStays(t) /\ SameBranch(t)
           /\ inst'[t].addr_computed => inst[t].src1.ready
           /\ inst'[t].dispatched => inst[t].src1.ready /\ inst[t].src2.ready
           /\ inst[t].dispatched => inst'[t].dispatched
           /\ done'[t] /\ IsControlOp(Op(t)) => inst[t].br_resolved,
         \A t \in resolving' : inst'[t].dispatched
  PROVE  PathInv'
  <1>1. ASSUME NEW t \in Live'
        PROVE  SourcesAt(t)' /\ BranchAt(t)' /\ NextOf(t)' = NextOf(t)
    <2>1. SourcesAt(t) /\ BranchAt(t)
      BY DEF PathInv, SourcesAreRead, BranchesHold
    <2> QED
      BY <2>1, PathStays
  <1>2. SourcesAreRead' /\ BranchesHold'
    BY <1>1 DEF SourcesAreRead, BranchesHold
  <1>3. FrontPc' = FrontPc /\ IfqPc' = IfqPc /\ prog' = prog
    BY DEF FrontPc, IfqPc, frontVars, Stays
  <1>4. QueuesFollow'
    BY <1>3 DEF PathInv, QueuesFollow, Chain, NextFetched, frontVars
  <1>5. WindowFollows'
    BY <1>1, <1>3, WindowStays DEF PathInv
  <1>6. QED
    BY <1>2, <1>4, <1>5 DEF PathInv
-------------------------------------------------------------------------------
(* Instructions complete.                                                  *)

(* Completing an instruction changes its done bit and its value only.      *)
LEMMA CompletedWork ==
  ASSUME CoreShapes, NEW t \in Tags, inst' = [inst EXCEPT ![t].completed = TRUE]
  PROVE  \A u \in Tags : SameWork(u)
  <1>1. inst \in [Tags -> InstStates]
    BY DEF CoreShapes
  <1>2. \A i \in InstStates :
          /\ [i EXCEPT !.completed = TRUE].pc = i.pc
          /\ [i EXCEPT !.completed = TRUE].src1 = i.src1
          /\ [i EXCEPT !.completed = TRUE].src2 = i.src2
          /\ [i EXCEPT !.completed = TRUE].store_data = i.store_data
          /\ [i EXCEPT !.completed = TRUE].predicted_taken = i.predicted_taken
          /\ [i EXCEPT !.completed = TRUE].predicted_target = i.predicted_target
          /\ [i EXCEPT !.completed = TRUE].addr_computed = i.addr_computed
          /\ [i EXCEPT !.completed = TRUE].dispatched = i.dispatched
          /\ [i EXCEPT !.completed = TRUE].fwd = i.fwd
          /\ [i EXCEPT !.completed = TRUE].br_resolved = i.br_resolved
          /\ [i EXCEPT !.completed = TRUE].mispredicted = i.mispredicted
    BY DEF InstStates
  <1>3. inst' = [inst EXCEPT ![t] = [inst[t] EXCEPT !.completed = TRUE]]
    BY <1>1
  <1>4. ASSUME NEW u \in Tags PROVE SameWork(u)
    <2>1. CASE u = t
      BY <1>1, <1>2, <1>3, <2>1 DEF SameWork, SameOperands
    <2>2. CASE u # t
      <3>1. inst'[u] = inst[u]
        BY <1>1, <1>3, <2>2
      <3> QED
        BY <3>1 DEF SameWork, SameOperands
    <2> QED
      BY <2>1, <2>2
  <1>5. QED
    BY <1>4

(* What remains of the history when only the work of some instructions     *)
(* advances.                                                               *)
LEMMA WorkKeeps ==
  ASSUME CoreInv, CoreInv', PathInv,
         NEW g \in Histories, NEW b \in Nat, NEW d \in Nat, History(g, b, d),
         SamePlaces, UNCHANGED <<active_count, arf, frontVars>>,
         \A u \in Tags : SameWork(u),
         \A u \in Live : done[u] => done'[u],
         \A u \in Live : done'[u] /\ IsControlOp(Op(u)) => inst[u].br_resolved,
         \A u \in Live : MemoryIsCurrent(u, g[Place(u, b)]) /\ ~done'[u] =>
            /\ mem'[Address(u)] = mem[Address(u)]
            /\ \A i \in 1 .. Len(sb') : sb'[i].addr # Address(u),
         \A u \in resolving' : u \in Tags /\ inst[u].dispatched
  PROVE  /\ Stays(b, b) /\ Live' = Live /\ PathInv'
         /\ StepsFollow(g, b)' /\ OperandsHold(g, b)' /\ LoadsHold(g, b)' /\ RegsHold(g, b)'
  <1>1. Live' = Live /\ \A u \in Live : u \in Tags
    BY PlacesStay DEF Live
  <1>2. Stays(b, b)
    BY <1>1, PlacesStay DEF Stays, SamePlaces, Place
  <1>3. \A u \in Live :
          /\ SameOperands(u) /\ ReadyStays(u) /\ SameBranch(u)
          /\ inst'[u].addr_computed = inst[u].addr_computed
          /\ inst'[u].dispatched = inst[u].dispatched /\ inst'[u].fwd = inst[u].fwd
    BY <1>1 DEF SameWork, SameOperands, ReadyStays, SameBranch
  <1>4. \A u \in Live :
          /\ inst[u].addr_computed => inst[u].src1.ready
          /\ inst[u].dispatched => inst[u].src1.ready /\ inst[u].src2.ready
    BY DEF PathInv, SourcesAreRead, SourcesAt
  <1>5. \A u \in resolving' : inst'[u].dispatched
    BY DEF SameWork
  <1>6. PathInv'
    <2>1. b + active_count' = b + active_count
      OBVIOUS
    <2> QED
      BY <1>1, <1>2, <1>3, <1>4, <1>5, <2>1, WorkPath
  <1>7. StepsFollow(g, b)'
    BY <1>1, <1>2, StepsStay DEF History
  <1>8. OperandsHold(g, b)'
    BY <1>1, <1>2, <1>3, OperandsHoldStay DEF History
  <1>9. LoadsHold(g, b)'
    <2>1. \A u \in Live' : MemoryIsCurrent(u, g[Place(u, b)]) /\ ~done'[u] =>
            /\ mem'[Address(u)] = mem[Address(u)]
            /\ \A i \in 1 .. Len(sb') : sb'[i].addr # Address(u)
      BY <1>1
    <2>2. \A u \in Live' : /\ ReadyStays(u) /\ inst'[u].fwd = inst[u].fwd
                           /\ inst'[u].dispatched => inst[u].dispatched
                           /\ done[u] => done'[u]
      BY <1>1, <1>3
    <2>3. SourcesAreRead /\ LoadsHold(g, b)
      BY DEF PathInv, History
    <2> QED
      BY <1>1, <1>2, <2>1, <2>2, <2>3, LoadsHoldStay
  <1>10. RegsHold(g, b)'
    BY DEF History, RegsHold
  <1>11. QED
    BY <1>1, <1>2, <1>6, <1>7, <1>8, <1>9, <1>10

(* A control instruction finishes with the link of the history.            *)
LEMMA FinishResolveHistory ==
  ASSUME CoreInv, CoreInv', PathInv, NEW t \in Tags, FinishResolve(t),
         NEW g \in Histories, NEW b \in Nat, NEW d \in Nat, History(g, b, d)
  PROVE  PathInv' /\ History(g, b, d)'
  <1>1. /\ step = "resolve" /\ t \in resolving /\ resolving' = resolving \ {t}
        /\ inst[t].br_resolved
        /\ UNCHANGED <<prog, step, arf, memVars, frontVars>>
    BY DEF FinishResolve, OldestResolving
  <1>2. t \in Live /\ kind[t] = "control" /\ ~done[t] /\ CoreShapes
    BY <1>1 DEF CoreInv, ResolvingAreOpen, Live
  <1>3. IsControlOp(Op(t)) /\ dest_reg[t] = prog[inst[t].pc].d
    BY <1>2, KindsOfOps DEF CoreInv, InstsMatch
  <1>4. ~HasLink(t) => ~Writes(kind[t], dest_reg[t])
    <2>1. Op(t) \in {"beq", "bne"} => dest_reg[t] = 0
      BY <1>2, <1>3, ProgramFacts, InstFacts DEF CoreShapes, Op
    <2> QED
      BY <1>3, <2>1 DEF HasLink, Writes, IsControlOp
  <1>5. /\ UNCHANGED <<head, busy, kind, dest_reg, stage, active_count>>
        /\ \A u \in Tags : done[u] => done'[u]
        /\ \A u \in Tags : done'[u] => done[u] \/ (u = t /\ ~HasLink(t))
        /\ \A u \in Tags : u # t \/ HasLink(t) => value'[u] = value[u]
        /\ \A u \in Tags : SameWork(u)
    <2>1. CASE HasLink(t)
      <3>1. UNCHANGED <<ruVars, inst>>
        BY <2>1 DEF FinishResolve
      <3> QED
        BY <2>1, <3>1 DEF ruVars, robVars, renameVars, SameWork, SameOperands
    <2>2. CASE ~HasLink(t)
      <3>1. Complete(t, 0) /\ inst' = [inst EXCEPT ![t].completed = TRUE]
        BY <2>2 DEF FinishResolve
      <3>2. /\ UNCHANGED <<head, busy, kind, dest_reg, stage>>
            /\ \A u \in Tags : /\ done'[u] <=> done[u] \/ u = t
                               /\ u # t => value'[u] = value[u]
        BY <1>2, <3>1, ResultWritten, WrapIsVal
      <3>3. active_count' = active_count
        BY <3>1 DEF Complete, WriteResult
      <3>4. \A u \in Tags : SameWork(u)
        BY <1>2, <3>1, CompletedWork
      <3> QED
        BY <2>2, <3>2, <3>3, <3>4
    <2> QED
      BY <2>1, <2>2
  <1>6. SamePlaces /\ UNCHANGED <<active_count, arf, mem, sb, frontVars>>
        /\ \A u \in Live : u \in Tags
    BY <1>1, <1>5 DEF SamePlaces, SameWork, Live, memVars
  <1>7. \A u \in Live : done'[u] /\ IsControlOp(Op(u)) => inst[u].br_resolved
    BY <1>1, <1>5, <1>6 DEF PathInv, BranchesHold, BranchAt
  <1>8. \A u \in Live : MemoryIsCurrent(u, g[Place(u, b)]) /\ ~done'[u] =>
           /\ mem'[Address(u)] = mem[Address(u)]
           /\ \A i \in 1 .. Len(sb') : sb'[i].addr # Address(u)
    BY <1>6 DEF MemoryIsCurrent
  <1>9. /\ Stays(b, b) /\ Live' = Live /\ PathInv'
        /\ StepsFollow(g, b)' /\ OperandsHold(g, b)' /\ LoadsHold(g, b)' /\ RegsHold(g, b)'
    <2>1. \A u \in resolving' : u \in Tags /\ inst[u].dispatched
      BY <1>1 DEF PathInv, BranchesHold, CoreInv, CoreShapes
    <2> QED
      BY <1>5, <1>6, <1>7, <1>8, <2>1, WorkKeeps
  <1>10. ResultsHold(g, b)'
    <2>1. \A u \in Live' : done'[u] /\ Writes(kind[u], dest_reg[u]) =>
                             done[u] /\ value'[u] = value[u]
      BY <1>2, <1>4, <1>5, <1>6, <1>9
    <2> QED
      BY <1>9, <2>1, ResultsHoldStay DEF History
  <1>11. StoresHold(g, b, d)'
    <2>1. stage = "writeback" /\ stage' = "writeback"
      BY <1>1, <1>5 DEF CoreInv, StepsOfStage
    <2>2. DoneStores = {}
      BY <2>1, NoDoneStores
    <2>3. (DoneStores = {})'
      BY <2>1, NoDoneStoresNext
    <2> QED
      BY <1>6, <2>2, <2>3, StoresStay DEF History
  <1>12. QED
    BY <1>9, <1>10, <1>11 DEF History

(* A broadcast result is the one of the history.                           *)
LEMMA BroadcastHistory ==
  ASSUME CoreInv, CoreInv', PathInv, NEW t \in Tags, BroadcastCDB(t),
         NEW g \in Histories, NEW b \in Nat, NEW d \in Nat, History(g, b, d)
  PROVE  PathInv' /\ History(g, b, d)'
  <1>1. /\ step = "broadcast" /\ t \in Live /\ Complete(t, ResultOf(t)) /\ CanBroadcast(t)
        /\ inst' = [inst EXCEPT ![t].completed = TRUE]
        /\ UNCHANGED <<prog, step, arf, memVars, frontVars, resolving>>
    BY DEF BroadcastCDB, Live
  <1>2. CoreShapes /\ InstsMatch /\ inst[t].dispatched /\ ~done[t]
    BY <1>1 DEF CoreInv, CanBroadcast, InstsMatch
  <1>3. PICK r \in Val : r = ResultOf(t)
    BY <1>1, <1>2, ResultIsVal
  <1>4. /\ UNCHANGED <<head, busy, kind, dest_reg, stage, active_count>>
        /\ \A u \in Tags : /\ done'[u] <=> done[u] \/ u = t
                           /\ u # t => value'[u] = value[u]
        /\ value'[t] = r
        /\ \A u \in Tags : SameWork(u)
    <2>1. Complete(t, r)
      BY <1>1, <1>3
    <2>2. active_count' = active_count
      BY <2>1 DEF Complete, WriteResult
    <2> QED
      BY <1>1, <1>2, <2>1, <2>2, ResultWritten, CompletedWork
  <1>5. SamePlaces /\ UNCHANGED <<active_count, arf, mem, sb, frontVars>>
        /\ \A u \in Live : u \in Tags
    BY <1>1, <1>4 DEF SamePlaces, SameWork, Live, memVars
  <1>6. \A u \in Live : done'[u] /\ IsControlOp(Op(u)) => inst[u].br_resolved
    <2>1. IsControlOp(Op(t)) => inst[t].br_resolved
      BY <1>1, KindsOfOps DEF CanBroadcast, CoreInv, InstsMatch
    <2> QED
      BY <1>4, <1>5, <2>1 DEF PathInv, BranchesHold, BranchAt
  <1>7. \A u \in Live : MemoryIsCurrent(u, g[Place(u, b)]) /\ ~done'[u] =>
           /\ mem'[Address(u)] = mem[Address(u)]
           /\ \A i \in 1 .. Len(sb') : sb'[i].addr # Address(u)
    BY <1>5 DEF MemoryIsCurrent
  <1>8. /\ Stays(b, b) /\ Live' = Live /\ PathInv'
        /\ StepsFollow(g, b)' /\ OperandsHold(g, b)' /\ LoadsHold(g, b)' /\ RegsHold(g, b)'
    <2>1. \A u \in resolving' : u \in Tags /\ inst[u].dispatched
      BY <1>1 DEF PathInv, BranchesHold, CoreInv, CoreShapes
    <2>2. \A u \in Live : done[u] => done'[u]
      BY <1>4, <1>5
    <2> QED
      BY <1>4, <1>5, <1>6, <1>7, <2>1, <2>2, WorkKeeps
  <1>9. ResultsHold(g, b)'
    <2> SUFFICES ASSUME NEW u \in Live', done'[u], Writes(kind'[u], dest_reg'[u])
                 PROVE  value'[u] = ResultIn(g[Place(u, b)'], In(u)', inst'[u].pc)
      BY DEF ResultsHold, ResultAt
    <2>1. /\ kind'[u] = kind[u] /\ dest_reg'[u] = dest_reg[u] /\ In(u)' = In(u)
          /\ inst'[u].pc = inst[u].pc /\ Place(u, b)' = Place(u, b) /\ u \in Live
      BY <1>8, StayFacts
    <2>2. CASE u # t
      <3>1. done[u] /\ value'[u] = value[u]
        BY <1>4, <1>5, <2>1, <2>2
      <3>2. ResultAt(u, g[Place(u, b)])
        BY <2>1 DEF History, ResultsHold
      <3> QED
        BY <2>1, <3>1, <3>2 DEF ResultAt
    <2>3. CASE u = t
      <3>1. PICK s \in ArchStates : s = g[Place(t, b)]
        BY <1>1, PlaceFacts DEF Histories
      <3>2. SourcesAreRead /\ OperandsHold(g, b) /\ LoadsHold(g, b)
        BY DEF PathInv, History
      <3>3. ResultOf(t) = ResultIn(s, In(t), inst[t].pc)
        BY <1>1, <3>1, <3>2, ComputedAsInOrder
      <3> QED
        BY <1>3, <1>4, <2>1, <2>3, <3>1, <3>3
    <2> QED
      BY <2>2, <2>3
  <1>10. StoresHold(g, b, d)'
    <2>1. stage = "writeback" /\ stage' = "writeback"
      BY <1>1, <1>4 DEF CoreInv, StepsOfStage
    <2>2. DoneStores = {}
      BY <2>1, NoDoneStores
    <2>3. (DoneStores = {})'
      BY <2>1, NoDoneStoresNext
    <2> QED
      BY <1>5, <2>2, <2>3, StoresStay DEF History
  <1>11. QED
    BY <1>8, <1>9, <1>10 DEF History

(* The end of the commit stage keeps the history; a drained store is in    *)
(* memory instead of the buffer.                                           *)
LEMMA EndCommitHistory ==
  ASSUME CoreInv, CoreInv', PathInv, EndCommit,
         NEW g \in Histories, NEW b \in Nat, NEW d \in Nat, History(g, b, d)
  PROVE  PathInv' /\ \E e \in Nat : History(g, b, e)'
  <1>1. /\ step = "commit" /\ EnterStage
        /\ UNCHANGED <<prog, arf, inst, wakeups, frontVars>>
        /\ resolving' \in SUBSET {t \in Live : /\ kind[t] = "control"
                                               /\ inst[t].dispatched
                                               /\ ~inst[t].completed}
    BY DEF EndCommit
  <1>2. PICK k \in Nat : k = Len(sb)
    BY BufferShape
  <1>3. PICK n \in 0 .. k : mem' = Drained(n) /\ sb' = SubSeq(sb, n + 1, Len(sb))
    BY <1>2 DEF EndCommit
  <1>4. stage = "commit" /\ UNCHANGED <<robVars, kind>> /\ stage' = "writeback"
    BY <1>1 DEF CoreInv, StepsOfStage, EnterStage, NextStage
  <1>5. /\ Len(sb') = k - n /\ k - n \in Nat
        /\ \A i \in 1 .. k - n : sb'[i] = sb[n + i]
        /\ Drained(k - n)' = Drained(k)
    <2>1. n \in Nat /\ n <= Len(sb) /\ k - n \in Nat
      BY <1>2, <1>3
    <2> QED
      BY <1>2, <1>3, <2>1, BufferDrains
  <1>6. SamePlaces /\ UNCHANGED <<active_count, arf, frontVars>>
        /\ \A u \in Tags : SameWork(u)
    BY <1>1, <1>4 DEF SamePlaces, robVars, SameWork, SameOperands
  <1>7. done' = done /\ value' = value /\ \A u \in Live : u \in Tags
    BY <1>4 DEF robVars, Live
  <1>8. \A u \in Live : MemoryIsCurrent(u, g[Place(u, b)]) /\ ~done'[u] =>
           /\ mem'[Address(u)] = mem[Address(u)]
           /\ \A i \in 1 .. Len(sb') : sb'[i].addr # Address(u)
    <2> SUFFICES ASSUME NEW u \in Live, MemoryIsCurrent(u, g[Place(u, b)])
                 PROVE  /\ mem'[Address(u)] = mem[Address(u)]
                        /\ \A i \in 1 .. Len(sb') : sb'[i].addr # Address(u)
      OBVIOUS
    <2>1. PICK a \in Val : a = Address(u)
      BY <1>7, InstFacts DEF CoreInv
    <2>2. \A i \in 1 .. k : sb[i].addr # a
      BY <1>2, <2>1 DEF MemoryIsCurrent
    <2>3. mem'[a] = mem[a]
      <3>1. \A i \in 1 .. n : sb[i].addr # a
        BY <1>3, <2>2
      <3>2. Written(sb, mem, n)[a] = mem[a]
        BY <1>3, <3>1, WrittenWord
      <3> QED
        BY <1>3, <3>2, DrainedIsWritten
    <2>4. \A i \in 1 .. k - n : sb'[i].addr # a
      <3>1. \A i \in 1 .. k - n : n + i \in 1 .. k
        BY <1>3
      <3> QED
        BY <1>5, <2>2, <3>1
    <2> QED
      BY <1>5, <2>1, <2>3, <2>4
  <1>9. /\ Stays(b, b) /\ Live' = Live /\ PathInv'
        /\ StepsFollow(g, b)' /\ OperandsHold(g, b)' /\ LoadsHold(g, b)' /\ RegsHold(g, b)'
    <2>1. \A u \in resolving' : u \in Tags /\ inst[u].dispatched
      BY <1>1, <1>7
    <2>2. \A u \in Live : done'[u] /\ IsControlOp(Op(u)) => inst[u].br_resolved
      BY <1>7 DEF PathInv, BranchesHold, BranchAt
    <2> QED
      BY <1>6, <1>7, <1>8, <2>1, <2>2, WorkKeeps
  <1>10. ResultsHold(g, b)'
    BY <1>7, <1>9, ResultsHoldStay DEF History
  <1>11. StoresHold(g, b, d + n)'
    <2>1. (DoneStores = {})'
      BY <1>4, NoDoneStoresNext
    <2>2. DoneStores = {}
      <3>1. \A u : Op(u)' = Op(u)
        BY <1>1 DEF Op
      <3> QED
        BY <1>7, <1>9, <2>1, <3>1 DEF DoneStores
    <2>3. g[b].stores = d + k /\ g[b].mem = Written(sb, mem, k)
      BY <1>2, <2>2, StoresSettled DEF StoresAreSettled, History
    <2>4. PICK e \in Nat, l \in Nat : e = d + n /\ l = k - n /\ e + l = d + k
      <3>1. d + n \in Nat /\ (d + n) + (k - n) = d + k
        BY <1>3
      <3> QED
        BY <1>5, <3>1
    <2>5. g[b].stores = e + Len(sb')
      BY <1>5, <2>3, <2>4
    <2>6. g[b].mem = Written(sb', mem', Len(sb'))
      BY <1>5, <2>3, DrainedIsWritten
    <2>7. StoresHold(g, b, e)'
      BY <2>1, <2>5, <2>6, StoresSettledNext
    <2> QED
      BY <2>4, <2>7
  <1>12. d + n \in Nat
    BY <1>3
  <1>13. History(g, b, d + n)'
    BY <1>9, <1>10, <1>11 DEF History
  <1>14. QED
    BY <1>9, <1>12, <1>13

(* A store enters the buffer: it is the next one in program order.         *)
LEMMA EnqueueStoreHistory ==
  ASSUME CoreInv, CoreInv', PathInv, NEW t \in Tags, EnqueueStore(t),
         NEW g \in Histories, NEW b \in Nat, NEW d \in Nat, History(g, b, d)
  PROVE  PathInv' /\ History(g, b, d)'
  <1>1. /\ step = "stores" /\ t \in Live /\ Complete(t, 0) /\ CanEnqueue(t)
        /\ inst' = [inst EXCEPT ![t].completed = TRUE]
        /\ sb' = Append(sb, [addr |-> Address(t), val |-> inst[t].store_data.val])
        /\ UNCHANGED <<prog, step, arf, wakeups, mem, frontVars, resolving>>
    BY DEF EnqueueStore, Live
  <1>2. /\ Op(t) = "store" /\ ~done[t] /\ inst[t].src1.ready /\ inst[t].store_data.ready
        /\ \A u \in Live : Older(u, t) => done[u]
    BY <1>1 DEF CanEnqueue, StorePermitted, PathInv, SourcesAreRead, SourcesAt
  <1>3. /\ UNCHANGED <<head, busy, kind, dest_reg, stage, active_count>>
        /\ \A u \in Tags : /\ done'[u] <=> done[u] \/ u = t
                           /\ u # t => value'[u] = value[u]
        /\ \A u \in Tags : SameWork(u)
    <2>1. active_count' = active_count
      BY <1>1 DEF Complete, WriteResult
    <2> QED
      BY <1>1, <2>1, ResultWritten, CompletedWork, WrapIsVal DEF CoreInv
  <1>4. SamePlaces /\ UNCHANGED <<active_count, arf, mem, frontVars>>
        /\ \A u \in Live : u \in Tags
    BY <1>1, <1>3 DEF SamePlaces, SameWork, Live
  <1>5. PICK l \in Nat : l = Len(sb)
    BY BufferShape
  <1>6. PICK s \in ArchStates, p \in Nat : p = Place(t, b) /\ s = g[p]
    BY <1>1, PlaceFacts DEF Histories
  <1>7. PICK e \in SbStates : e = [addr |-> Address(t), val |-> inst[t].store_data.val]
    BY InstFacts DEF CoreInv, SbStates
  <1>8. Len(sb') = l + 1 /\ sb'[l + 1] = e /\ \A i \in 1 .. l : sb'[i] = sb[i]
    BY <1>1, <1>5, <1>7, BufferShape, AppendProperties
  <1>9. e = [addr |-> AddressIn(s, In(t)), val |-> ReadIn(s, In(t).d)]
    <2>1. Address(t) = AddressIn(s, In(t)) /\ inst[t].store_data.val = ReadIn(s, In(t).d)
      BY <1>1, <1>2, <1>6, OperandValues DEF History
    <2> QED
      BY <1>7, <2>1
  <1>10. /\ Stays(b, b) /\ Live' = Live /\ PathInv'
         /\ StepsFollow(g, b)' /\ OperandsHold(g, b)' /\ LoadsHold(g, b)' /\ RegsHold(g, b)'
    <2>1. \A u \in resolving' : u \in Tags /\ inst[u].dispatched
      BY <1>1 DEF PathInv, BranchesHold, CoreInv, CoreShapes
    <2>2. \A u \in Live : done[u] => done'[u]
      BY <1>3, <1>4
    <2>3. \A u \in Live : done'[u] /\ IsControlOp(Op(u)) => inst[u].br_resolved
      <3>1. ~IsControlOp(Op(t))
        BY <1>2 DEF IsControlOp, IsJump
      <3> QED
        BY <1>3, <1>4, <3>1 DEF PathInv, BranchesHold, BranchAt
    <2>4. ASSUME NEW u \in Live, MemoryIsCurrent(u, g[Place(u, b)]), ~done'[u]
          PROVE  /\ mem'[Address(u)] = mem[Address(u)]
                 /\ \A i \in 1 .. Len(sb') : sb'[i].addr # Address(u)
      <3>1. u # t /\ ~done[u]
        BY <1>3, <1>4, <2>4
      <3>2. ~Older(u, t)
        BY <1>2, <3>1
      <3>3. Older(t, u)
        <4>1. PICK i \in Nat, j \in Nat : i = Place(u, b) /\ j = Place(t, b)
          BY <1>1, PlaceFacts
        <4>2. i # j /\ ~(i < j)
          BY <1>1, <3>1, <3>2, <4>1, PlaceFacts
        <4>3. j < i
          BY <4>2
        <4> QED
          BY <1>1, <4>1, <4>3, PlaceFacts
      <3>4. Address(t) # Address(u) /\ \A i \in 1 .. l : sb[i].addr # Address(u)
        BY <1>1, <1>2, <1>5, <2>4, <3>3 DEF MemoryIsCurrent
      <3>5. \A i \in 1 .. l + 1 : i \in 1 .. l \/ i = l + 1
        OBVIOUS
      <3> QED
        BY <1>1, <1>7, <1>8, <3>4, <3>5
    <2> QED
      BY <1>3, <1>4, <2>1, <2>2, <2>3, <2>4, WorkKeeps
  <1>11. ResultsHold(g, b)'
    <2>1. kind[t] = "store"
      BY <1>1, <1>2, KindsOfOps DEF CoreInv, InstsMatch
    <2>2. \A u \in Live' : done'[u] /\ Writes(kind[u], dest_reg[u]) =>
                             done[u] /\ value'[u] = value[u]
      BY <1>3, <1>4, <1>10, <2>1 DEF Writes
    <2> QED
      BY <1>10, <2>2, ResultsHoldStay DEF History
  <1>12. PICK m \in Nat : EnteredUpTo(m, b) /\ g[m].stores = d + l
    BY <1>5 DEF History, StoresHold
  <1>13. PICK n \in Nat : n = active_count /\ m \in b .. b + n /\ p \in b .. b + n - 1
    BY <1>1, <1>6, <1>12, PlaceFacts DEF EnteredUpTo
  (* Between the last store that entered and this one there is none.       *)
  <1>14. m <= p /\ s.stores = d + l
    <2>1. ~(p < m)
      BY <1>1, <1>2, <1>6, <1>12 DEF EnteredUpTo
    <2>2. \A u \in Live : m <= Place(u, b) /\ Place(u, b) < p => Op(u) # "store"
      <3> SUFFICES ASSUME NEW u \in Live, m <= Place(u, b), Place(u, b) < p
                   PROVE  Op(u) # "store"
        OBVIOUS
      <3>1. done[u]
        BY <1>1, <1>2, <1>6, PlaceFacts
      <3>2. ~(Place(u, b) < m)
        BY <1>13, PlaceFacts
      <3>3. u \notin DoneStores
        BY <1>12, <3>2 DEF EnteredUpTo
      <3> QED
        BY <3>1, <3>3 DEF DoneStores
    <2>3. m <= p /\ b <= m /\ p <= b + active_count
      BY <1>13, <2>1
    <2>4. g[p].stores = g[m].stores
      BY <1>13, <2>2, <2>3, CountSteady DEF History
    <2> QED
      BY <1>6, <1>12, <2>3, <2>4
  <1>15. \A u \in Live : Op(u)' = Op(u) /\ Place(u, b)' = Place(u, b) /\ In(u)' = In(u)
    BY <1>10, StayFacts
  <1>16. DoneStores' = DoneStores \cup {t} /\ t \notin DoneStores
    BY <1>1, <1>2, <1>3, <1>4, <1>10, <1>15 DEF DoneStores
  <1>17. PICK r \in Nat : r = RetiredInSb /\ r <= l /\ g[b].stores = d + r
                          /\ g[b].mem = Written(sb, mem, r)
    BY <1>5 DEF History, StoresHold
  <1>18. RetiredInSb' = r
    <2>1. PICK c \in Nat : c = Cardinality(DoneStores) /\ r = l - c
      BY <1>5, <1>17, DoneStoresAreFinite
    <2>2. Cardinality(DoneStores') = c + 1
      BY <1>16, <2>1, DoneStoresAreFinite, FS_AddElement
    <2>3. RetiredInSb' = Len(sb') - Cardinality(DoneStores')
      BY DEF RetiredInSb, DoneStores
    <2> QED
      BY <1>8, <2>1, <2>2, <2>3
  <1>19. g[b].mem = Written(sb', mem', r)
    <2>1. \A i \in 1 .. r : sb'[i] = sb[i]
      BY <1>8, <1>17
    <2>2. Written(sb', mem', r) = Written(sb, mem', r)
      BY <2>1, WrittenFromSame
    <2> QED
      BY <1>1, <1>17, <2>2
  <1>20. \A u \in DoneStores' : Entered(u, g[Place(u, b)], d)'
    <2> SUFFICES ASSUME NEW u \in DoneStores'
                 PROVE  LET z == g[Place(u, b)']
                        IN  /\ z.stores - d + 1 \in 1 .. Len(sb')
                            /\ sb'[z.stores - d + 1] =
                                 [addr |-> AddressIn(z, In(u)'), val |-> ReadIn(z, In(u)'.d)]
      BY DEF Entered
    <2>1. CASE u = t
      <3>1. s.stores - d + 1 = l + 1
        BY <1>14
      <3>2. In(t)' = In(t) /\ g[Place(t, b)'] = s
        BY <1>1, <1>6, <1>15
      <3> QED
        BY <1>8, <1>9, <2>1, <3>1, <3>2
    <2>2. CASE u \in DoneStores
      <3>1. Entered(u, g[Place(u, b)], d) /\ u \in Live
        BY <2>2 DEF History, StoresHold, DoneStores
      <3>2. PICK z : z = g[Place(u, b)]
        OBVIOUS
      <3>3. /\ z.stores - d + 1 \in 1 .. l
            /\ sb[z.stores - d + 1] =
                 [addr |-> AddressIn(z, In(u)), val |-> ReadIn(z, In(u).d)]
        BY <1>5, <3>1, <3>2 DEF Entered
      <3>4. z.stores - d + 1 \in 1 .. l + 1 /\ sb'[z.stores - d + 1] = sb[z.stores - d + 1]
        BY <1>8, <3>3
      <3>5. In(u)' = In(u) /\ g[Place(u, b)'] = z
        BY <1>15, <3>1, <3>2
      <3> QED
        BY <1>8, <3>3, <3>4, <3>5
    <2> QED
      BY <1>16, <2>1, <2>2
  <1>21. EnteredUpTo(p + 1, b)' /\ g[p + 1].stores = d + Len(sb')
    <2>1. p + 1 \in b .. b + active_count'
      BY <1>3, <1>13
    <2>2. ASSUME NEW u \in Live'
          PROVE  IF Place(u, b)' < p + 1 THEN done'[u] ELSE u \notin DoneStores'
      <3>1. PICK q \in Nat : q = Place(u, b) /\ q = Place(u, b)'
        BY <1>10, <1>15, PlaceFacts
      <3>2. CASE q < p
        <4>1. done[u]
          <5>1. u \in Live /\ Place(u, b) < Place(t, b)
            BY <1>6, <1>10, <3>1, <3>2
          <5>2. Older(u, t)
            BY <1>1, <5>1, PlaceFacts
          <5> QED
            BY <1>2, <5>1, <5>2
        <4>2. q < p + 1
          BY <3>2
        <4> QED
          BY <1>3, <1>4, <1>10, <3>1, <4>1, <4>2
      <3>3. CASE q = p
        <4>1. u = t
          BY <1>1, <1>6, <1>10, <3>1, <3>3, PlaceFacts
        <4> QED
          BY <1>3, <3>1, <3>3, <4>1
      <3>4. CASE p < q
        <4>0. p \in Nat /\ q \in Nat /\ m \in Nat /\ m <= p
          BY <1>6, <1>12, <1>14, <3>1
        <4>1. u # t /\ ~(q < p + 1) /\ ~(q < m)
          <5>1. ~(q < p + 1) /\ ~(q < m) /\ q # p
            BY <3>4, <4>0
          <5> QED
            BY <1>6, <3>1, <5>1
        <4>2. u \notin DoneStores
          BY <1>10, <1>12, <3>1, <4>1 DEF EnteredUpTo
        <4> QED
          BY <1>16, <3>1, <4>1, <4>2
      <3> QED
        BY <3>2, <3>3, <3>4
    <2>3. g[p + 1].stores = s.stores + 1
      BY <1>1, <1>2, <1>6, StepOfInst DEF History
    <2>4. g[p + 1].stores = d + (l + 1)
      BY <1>14, <2>3
    <2> QED
      BY <1>8, <2>1, <2>2, <2>4 DEF EnteredUpTo
  <1>22. StoresHold(g, b, d)'
    <2>1. r \in 0 .. Len(sb')
      BY <1>8, <1>17
    <2>2. \E k \in Nat : EnteredUpTo(k, b)' /\ g[k].stores = d + Len(sb')
      <3>1. p + 1 \in Nat
        OBVIOUS
      <3> QED
        BY <1>21, <3>1
    <2>3. Written(sb, mem, RetiredInSb)' = Written(sb', mem', r)
      BY <1>18 DEF Written
    <2> QED
      BY <1>17, <1>18, <1>19, <1>20, <2>1, <2>2, <2>3 DEF StoresHold
  <1>23. QED
    BY <1>10, <1>11, <1>22 DEF History

-------------------------------------------------------------------------------
(* The oldest instruction retires.                                         *)

(* A retirement takes the head from the window and leaves the rest as it   *)
(* is, each at its place.                                                  *)
LEMMA CommitStays ==
  ASSUME CoreInv, CoreInv', CommitInst, NEW b \in Nat
  PROVE  /\ head \in Live /\ done[head] /\ Place(head, b) = b /\ active_count \in Nat \ {0}
         /\ Live' = Live \ {head} /\ b + 1 + active_count' = b + active_count
         /\ Stays(b, b + 1) /\ UNCHANGED <<kind, dest_reg, value>>
         /\ \A u \in Live' : u \in Live /\ inst'[u] = inst[u] /\ done'[u] = done[u]
  <1>1. CoreShapes /\ RuTypeOK /\ RobInv
    BY DEF CoreInv, RuInv
  <1>2. /\ CommitOne /\ inst' = [inst EXCEPT ![head] = NoInst] /\ prog' = prog
    BY DEF CommitInst
  <1>3. /\ active_count # 0 /\ done[head] /\ head \in Tags
        /\ busy' = [busy EXCEPT ![head] = FALSE] /\ done' = [done EXCEPT ![head] = FALSE]
        /\ head' = (head + 1) % Capacity /\ active_count' = active_count - 1
        /\ UNCHANGED <<kind, dest_reg, value>>
    BY <1>1, <1>2 DEF CommitOne, Commit, RobInv, RobTypeOK
  <1>4. head \in Live /\ Place(head, b) = b /\ active_count \in Nat
    BY <1>3, HeadIsFirst, LiveAges
  <1>5. b + 1 + active_count' = b + active_count
    BY <1>3, <1>4
  <1>6. /\ busy \in [Tags -> BOOLEAN] /\ done \in [Tags -> BOOLEAN]
        /\ inst \in [Tags -> InstStates]
    BY <1>1 DEF RobInv, RobTypeOK, CoreShapes
  <1>7. Live' = Live \ {head}
    BY <1>3, <1>6 DEF Live
  <1>8. ASSUME NEW u \in Live'
        PROVE  /\ u \in Live /\ inst'[u] = inst[u] /\ done'[u] = done[u]
               /\ Place(u, b + 1)' = Place(u, b)
    <2>1. u \in Live /\ u \in Tags /\ u # head
      BY <1>7 DEF Live
    <2>2. inst'[u] = inst[u] /\ done'[u] = done[u]
      BY <1>2, <1>3, <1>6, <2>1
    <2>3. PICK i \in Nat, j \in Nat : i = AgeFromHead(u) /\ j = AgeFromHead(u)'
      BY <2>1, LiveAges, LiveAgesNext
    <2>4. j = i - 1
      BY <1>1, <1>3, <2>1, <2>3, AgeAfterCommit
    <2>5. b + 1 + j = b + i
      BY <2>4
    <2> QED
      BY <2>1, <2>2, <2>3, <2>5 DEF Place
  <1>9. Stays(b, b + 1)
    BY <1>2, <1>3, <1>8 DEF Stays
  <1>10. QED
    BY <1>3, <1>4, <1>5, <1>7, <1>8, <1>9

(* The register a retirement writes is the one of the next state of the    *)
(* history.                                                                *)
LEMMA CommitRegisters ==
  ASSUME CoreInv, CoreInv', CommitInst,
         NEW g \in Histories, NEW b \in Nat, NEW d \in Nat, History(g, b, d)
  PROVE  RegsHold(g, b + 1)'
  <1>1. head \in Live /\ done[head] /\ Place(head, b) = b /\ b + 1 \in Nat
    BY CommitStays
  <1>2. arf' = IF Writes(kind[head], dest_reg[head])
                 THEN [arf EXCEPT ![dest_reg[head]] = value[head]] ELSE arf
    BY DEF CommitInst
  <1>3. PICK q \in [Reg -> Val] : q = arf /\ q = g[b].regs
    BY DEF CoreInv, CoreShapes, History, RegsHold
  <1>4. Writes(kind[head], dest_reg[head]) => value[head] = ResultIn(g[b], In(head), inst[head].pc)
    BY <1>1 DEF History, ResultsHold, ResultAt
  <1>5. PICK x \in [Reg -> Val] : x = g[b + 1].regs
    BY <1>1 DEF Histories, ArchStates
  <1>6. \A r \in Reg : x[r] = IF Writes(kind[head], dest_reg[head]) /\ dest_reg[head] = r
                                THEN value[head] ELSE q[r]
    BY <1>1, <1>3, <1>4, <1>5, StepOfInst DEF History
  <1>7. PICK y \in [Reg -> Val] : y = arf'
    BY DEF CoreInv, CoreShapes
  <1>8. \A r \in Reg : y[r] = IF Writes(kind[head], dest_reg[head]) /\ dest_reg[head] = r
                                THEN value[head] ELSE q[r]
    BY <1>2, <1>3, <1>7
  <1>9. x = y
    <2>1. \A r \in Reg : x[r] = y[r]
      BY <1>6, <1>8
    <2> QED
      BY <2>1
  <1>10. QED
    BY <1>5, <1>7, <1>9 DEF RegsHold

(* A retired store is in the buffer already, as its oldest entry not yet   *)
(* retired.                                                                *)
LEMMA CommitStores ==
  ASSUME CoreInv, CoreInv', CommitInst,
         NEW g \in Histories, NEW b \in Nat, NEW d \in Nat, History(g, b, d)
  PROVE  StoresHold(g, b + 1, d)'
  <1>1. PICK c \in Nat : c = b + 1
    OBVIOUS
  <1>2. /\ head \in Live /\ done[head] /\ Place(head, b) = b /\ active_count \in Nat \ {0}
        /\ Live' = Live \ {head} /\ c + active_count' = b + active_count /\ Stays(b, c)
        /\ \A u \in Live' : u \in Live /\ inst'[u] = inst[u] /\ done'[u] = done[u]
    BY <1>1, CommitStays
  <1>3. sb' = sb /\ mem' = mem
    BY DEF CommitInst, memVars
  <1>4. \A u \in Live' : Op(u)' = Op(u) /\ Place(u, c)' = Place(u, b) /\ In(u)' = In(u)
    BY <1>2, StayFacts
  <1>5. DoneStores' = DoneStores \ {head}
    BY <1>2, <1>4 DEF DoneStores
  <1>6. PICK l \in Nat, r \in Nat : /\ l = Len(sb) /\ r = RetiredInSb /\ r <= l
                                    /\ g[b].stores = d + r /\ g[b].mem = Written(sb, mem, r)
    <2>1. Len(sb) \in Nat /\ RetiredInSb \in 0 .. Len(sb)
      BY BufferShape DEF History, StoresHold
    <2> QED
      BY <2>1 DEF History, StoresHold
  <1>7. RetiredInSb' = l - Cardinality(DoneStores')
    BY <1>3, <1>6 DEF RetiredInSb, DoneStores
  <1>8. PICK s \in ArchStates, t \in ArchStates : s = g[b] /\ t = g[c]
    BY DEF Histories
  <1>9. /\ \A a \in Val : t.mem[a] = IF Op(head) = "store" /\ a = AddressIn(s, In(head))
                                       THEN ReadIn(s, In(head).d) ELSE s.mem[a]
        /\ t.stores = IF Op(head) = "store" THEN s.stores + 1 ELSE s.stores
    BY <1>1, <1>2, <1>8, StepOfInst DEF History
  <1>10. s.mem \in [Val -> Val] /\ t.mem \in [Val -> Val]
    BY DEF ArchStates
  <1>11. PICK q \in Nat : /\ q = RetiredInSb' /\ q <= l /\ t.stores = d + q
                          /\ t.mem = Written(sb, mem, q)
    <2>1. CASE Op(head) = "store"
      <3>1. head \in DoneStores
        BY <1>2, <2>1 DEF DoneStores
      <3>2. PICK k \in Nat : k = Cardinality(DoneStores) /\ r = l - k
        BY <1>6, DoneStoresAreFinite
      <3>3. Cardinality(DoneStores') = k - 1
        BY <1>5, <3>1, <3>2, DoneStoresAreFinite, FS_RemoveElement
      <3>4. RetiredInSb' = r + 1
        BY <1>7, <3>2, <3>3
      <3>5. Entered(head, s, d)
        BY <1>2, <1>8, <3>1 DEF History, StoresHold
      <3>6. s.stores - d + 1 = r + 1
        BY <1>6, <1>8
      <3>7. r + 1 <= l /\ sb[r + 1] = [addr |-> AddressIn(s, In(head)), val |-> ReadIn(s, In(head).d)]
        BY <1>6, <3>5, <3>6 DEF Entered
      <3>8. \A a \in Val : t.mem[a] = Written(sb, mem, r + 1)[a]
        <4> SUFFICES ASSUME NEW a \in Val PROVE t.mem[a] = Written(sb, mem, r + 1)[a]
          OBVIOUS
        <4>1. Written(sb, mem, r + 1)[a] =
                IF sb[r + 1].addr = a THEN sb[r + 1].val ELSE Written(sb, mem, r)[a]
          <5>1. PICK y, z : y = sb /\ z = mem
            OBVIOUS
          <5>2. /\ y[r + 1].addr = a => Written(y, z, r + 1)[a] = y[r + 1].val
                /\ y[r + 1].addr # a => Written(y, z, r + 1)[a] = Written(y, z, r)[a]
            <6>1. r \in Nat
              BY <1>6
            <6> QED
              BY <6>1, WrittenOneMore
          <5> QED
            BY <5>1, <5>2
        <4>2. Written(sb, mem, r + 1)[a] =
                IF AddressIn(s, In(head)) = a THEN ReadIn(s, In(head).d) ELSE s.mem[a]
          BY <1>6, <1>8, <3>7, <4>1
        <4> QED
          BY <1>9, <2>1, <4>2
      <3>9. t.mem = Written(sb, mem, r + 1)
        BY <1>10, <3>8 DEF Written
      <3>10. t.stores = d + (r + 1)
        BY <1>6, <1>8, <1>9, <2>1
      <3> QED
        BY <3>4, <3>7, <3>9, <3>10
    <2>2. CASE Op(head) # "store"
      <3>1. DoneStores' = DoneStores
        BY <1>5, <2>2 DEF DoneStores
      <3>2. RetiredInSb' = r
        BY <1>6, <1>7, <3>1, DoneStoresAreFinite
      <3>3. t.mem = s.mem
        BY <1>9, <1>10, <2>2
      <3> QED
        BY <1>6, <1>8, <1>9, <2>2, <3>2, <3>3
    <2> QED
      BY <2>1, <2>2
  <1>12. \A u \in DoneStores' : Entered(u, g[Place(u, c)], d)'
    <2> SUFFICES ASSUME NEW u \in DoneStores' PROVE Entered(u, g[Place(u, c)], d)'
      OBVIOUS
    <2>1. u \in DoneStores /\ u \in Live'
      BY <1>5 DEF DoneStores
    <2>2. Entered(u, g[Place(u, b)], d)
      BY <2>1 DEF History, StoresHold
    <2> QED
      BY <1>3, <1>4, <2>1, <2>2 DEF Entered
  <1>13. PICK m \in Nat : EnteredUpTo(m, b) /\ g[m].stores = d + l
    BY <1>6 DEF History, StoresHold
  <1>14. \E k \in Nat : EnteredUpTo(k, c)' /\ g[k].stores = d + l
    <2>1. CASE m # b
      <3>1. m \in c .. c + active_count'
        BY <1>1, <1>2, <1>13, <2>1 DEF EnteredUpTo
      <3>2. \A u \in Live' : IF Place(u, c)' < m THEN done'[u] ELSE u \notin DoneStores'
        BY <1>2, <1>4, <1>5, <1>13 DEF EnteredUpTo
      <3>3. EnteredUpTo(m, c)'
        BY <3>1, <3>2 DEF EnteredUpTo
      <3> QED
        BY <1>13, <3>3
    <2>2. CASE m = b
      <3>1. \A u \in Live : ~(Place(u, b) < b)
        BY PlaceFacts
      <3>2. \A u \in Live : u \notin DoneStores
        BY <1>13, <2>2, <3>1 DEF EnteredUpTo
      <3>3. Op(head) # "store"
        BY <1>2, <3>2 DEF DoneStores
      <3>4. t.stores = d + l
        BY <1>8, <1>9, <1>13, <2>2, <3>3
      <3>5. \A u \in Live' : ~(Place(u, c)' < c) /\ u \notin DoneStores'
        <4> SUFFICES ASSUME NEW u \in Live' PROVE ~(Place(u, c)' < c) /\ u \notin DoneStores'
          OBVIOUS
        <4>1. PICK i \in Nat : i = AgeFromHead(u)'
          BY LiveAgesNext
        <4>2. Place(u, c)' = c + i /\ ~(c + i < c)
          BY <4>1 DEF Place
        <4> QED
          BY <1>5, <1>2, <3>2, <4>2
      <3>6. c \in c .. c + active_count'
        BY LiveAgesNext
      <3>7. EnteredUpTo(c, c)'
        BY <3>5, <3>6 DEF EnteredUpTo
      <3> QED
        BY <1>8, <3>4, <3>7
    <2> QED
      BY <2>1, <2>2
  <1>15. StoresHold(g, c, d)'
    <2>1. Written(sb, mem, RetiredInSb)' = Written(sb, mem, q)
      BY <1>3, <1>11 DEF Written
    <2>2. q \in 0 .. Len(sb')
      BY <1>3, <1>6, <1>11
    <2> QED
      BY <1>3, <1>6, <1>8, <1>11, <1>12, <1>14, <2>1, <2>2 DEF StoresHold
  <1>16. QED
    BY <1>1, <1>15

(* A retirement moves b to the next state of the same history.             *)
LEMMA CommitInstHistory ==
  ASSUME CoreInv, CoreInv', PathInv, CommitInst,
         NEW g \in Histories, NEW b \in Nat, NEW d \in Nat, History(g, b, d)
  PROVE  PathInv' /\ History(g, b + 1, d)'
  <1>1. PICK c \in Nat : c = b + 1
    OBVIOUS
  <1>2. /\ Live' \subseteq Live /\ c + active_count' = b + active_count /\ Stays(b, c)
        /\ UNCHANGED <<kind, dest_reg, value>>
        /\ \A u \in Live' : u \in Live /\ inst'[u] = inst[u] /\ done'[u] = done[u]
    BY <1>1, CommitStays
  <1>3. sb' = sb /\ mem' = mem /\ UNCHANGED frontVars /\ resolving' = {}
    BY DEF CommitInst, memVars, CoreInv, ResolvingAreOpen
  <1>4. \A u \in Live' :
          /\ SameOperands(u) /\ ReadyStays(u) /\ SameBranch(u)
          /\ inst'[u].addr_computed = inst[u].addr_computed
          /\ inst'[u].dispatched = inst[u].dispatched /\ inst'[u].fwd = inst[u].fwd
    BY <1>2 DEF SameOperands, ReadyStays, SameBranch
  <1>5. PathInv'
    <2>1. \A u \in Live' :
            /\ inst'[u].addr_computed => inst[u].src1.ready
            /\ inst'[u].dispatched => inst[u].src1.ready /\ inst[u].src2.ready
            /\ inst[u].dispatched => inst'[u].dispatched
            /\ done'[u] /\ IsControlOp(Op(u)) => inst[u].br_resolved
      BY <1>2, <1>4 DEF PathInv, SourcesAreRead, SourcesAt, BranchesHold, BranchAt
    <2>2. \A u \in resolving' : inst'[u].dispatched
      BY <1>3
    <2> QED
      BY <1>2, <1>3, <1>4, <2>1, <2>2, WorkPath
  <1>6. StepsFollow(g, c)'
    BY <1>2, StepsStay DEF History
  <1>7. OperandsHold(g, c)'
    BY <1>2, <1>4, OperandsHoldStay DEF History
  <1>8. ResultsHold(g, c)'
    BY <1>2, ResultsHoldStay DEF History
  <1>9. LoadsHold(g, c)'
    <2>1. \A u \in Live' : MemoryIsCurrent(u, g[Place(u, b)]) /\ ~done'[u] =>
            /\ mem'[Address(u)] = mem[Address(u)]
            /\ \A i \in 1 .. Len(sb') : sb'[i].addr # Address(u)
      BY <1>3 DEF MemoryIsCurrent
    <2>2. \A u \in Live' : /\ ReadyStays(u) /\ inst'[u].fwd = inst[u].fwd
                           /\ inst'[u].dispatched => inst[u].dispatched
                           /\ done[u] => done'[u]
      BY <1>2, <1>4
    <2>3. SourcesAreRead /\ LoadsHold(g, b)
      BY DEF PathInv, History
    <2> QED
      BY <1>2, <2>1, <2>2, <2>3, LoadsHoldStay
  <1>10. RegsHold(g, c)' /\ StoresHold(g, c, d)'
    BY <1>1, CommitRegisters, CommitStores
  <1>11. History(g, c, d)'
    BY <1>6, <1>7, <1>8, <1>9, <1>10 DEF History
  <1>12. QED
    BY <1>1, <1>5, <1>11

-------------------------------------------------------------------------------
(* Control instructions resolve.                                           *)

(* A recovery keeps the instructions up to the branch and forgets the      *)
(* younger ones.                                                           *)
LEMMA ResolveFacts ==
  ASSUME CoreInv, CoreInv', PathInv, NEW t \in Tags, ResolveBranch(t)
  PROVE  /\ t \in Live /\ t \in Live' /\ ~done[t] /\ IsControlOp(Op(t)) /\ inst[t].dispatched
         /\ ~inst[t].br_resolved /\ ~inst[t].mispredicted
         /\ Live' = IF Mispredicted(t) THEN Live \ YoungerThan(t) ELSE Live
         /\ UNCHANGED <<head, kind, dest_reg, value, arf, sb, mem, prog, stage>>
         /\ stage = "writeback"
         /\ \A u \in Live' :
              /\ u \in Live /\ AgeFromHead(u)' = AgeFromHead(u) /\ (done'[u] <=> done[u])
              /\ inst'[u].pc = inst[u].pc /\ SameOperands(u)
              /\ inst'[u].addr_computed = inst[u].addr_computed
              /\ inst'[u].dispatched = inst[u].dispatched /\ inst'[u].fwd = inst[u].fwd
              /\ inst'[u].predicted_taken = inst[u].predicted_taken
              /\ inst'[u].predicted_target = inst[u].predicted_target
              /\ u # t => /\ inst'[u].br_resolved = inst[u].br_resolved
                          /\ inst'[u].mispredicted = inst[u].mispredicted
         /\ inst'[t].br_resolved /\ (inst'[t].mispredicted <=> Mispredicted(t))
         /\ resolving' \subseteq resolving
  <1>1. /\ step = "resolve" /\ t \in resolving /\ ~inst[t].br_resolved
        /\ UNCHANGED <<prog, step, arf, memVars>>
    BY DEF ResolveBranch, OldestResolving
  <1>2. /\ t \in Live /\ kind[t] = "control" /\ ~done[t] /\ stage = "writeback"
    BY <1>1 DEF CoreInv, ResolvingAreOpen, StepsOfStage, Live
  <1>3. /\ IsControlOp(Op(t)) /\ inst[t].dispatched /\ ~inst[t].mispredicted
    BY <1>1, <1>2, KindsOfOps DEF CoreInv, InstsMatch, PathInv, BranchesHold, BranchAt
  <1>4. PICK i \in InstStates : i = inst[t]
    BY <1>2, InstFacts DEF CoreInv
  <1>5. inst \in [Tags -> InstStates]
    BY DEF CoreInv, CoreShapes
  <1>6. CASE Mispredicted(t)
    <2>1. /\ Recover(t)
          /\ inst' = [u \in Tags |->
                        IF u = t THEN [inst[t] EXCEPT !.br_resolved = TRUE, !.mispredicted = TRUE]
                        ELSE IF u \in YoungerThan(t) THEN NoInst ELSE inst[u]]
          /\ resolving' = resolving \ YoungerThan(t)
      BY <1>6 DEF ResolveBranch
    <2>2. /\ UNCHANGED <<head, kind, dest_reg, value, stage>>
          /\ busy' = [u \in Tags |-> busy[u] /\ u \notin YoungerThan(t)]
          /\ done' = [u \in Tags |-> done[u] /\ u \notin YoungerThan(t)]
      BY <2>1 DEF Recover, SquashYoungerThan
    <2>3. PICK j : j = [i EXCEPT !.br_resolved = TRUE, !.mispredicted = TRUE]
      OBVIOUS
    <2>4. /\ j.pc = i.pc /\ j.src1 = i.src1 /\ j.src2 = i.src2
          /\ j.store_data = i.store_data /\ j.dispatched = i.dispatched
          /\ j.addr_computed = i.addr_computed /\ j.fwd = i.fwd
          /\ j.predicted_taken = i.predicted_taken
          /\ j.predicted_target = i.predicted_target
          /\ j.br_resolved /\ j.mispredicted
      BY <2>3 DEF InstStates
    <2>5. inst' = [u \in Tags |-> IF u = t THEN j
                                  ELSE IF u \in YoungerThan(t) THEN NoInst ELSE inst[u]]
      BY <1>4, <2>1, <2>3
    <2>6. Live' = Live \ YoungerThan(t)
      BY <2>2 DEF Live
    <2>7. t \in Live'
      <3>1. ~(AgeFromHead(t) > AgeFromHead(t))
        BY <1>2, LiveAges
      <3> QED
        BY <1>2, <2>6, <3>1 DEF YoungerThan, IsYounger
    <2>8. ASSUME NEW u \in Live'
          PROVE  /\ u \in Live /\ AgeFromHead(u)' = AgeFromHead(u) /\ (done'[u] <=> done[u])
                 /\ inst'[u].pc = inst[u].pc /\ SameOperands(u)
                 /\ inst'[u].addr_computed = inst[u].addr_computed
                 /\ inst'[u].dispatched = inst[u].dispatched /\ inst'[u].fwd = inst[u].fwd
                 /\ inst'[u].predicted_taken = inst[u].predicted_taken
                 /\ inst'[u].predicted_target = inst[u].predicted_target
                 /\ u # t => /\ inst'[u].br_resolved = inst[u].br_resolved
                             /\ inst'[u].mispredicted = inst[u].mispredicted
      <3>1. u \in Live /\ u \in Tags /\ u \notin YoungerThan(t)
        BY <2>6 DEF Live
      <3>2. AgeFromHead(u)' = AgeFromHead(u) /\ (done'[u] <=> done[u])
        BY <2>2, <3>1 DEF AgeFromHead
      <3>3. inst'[u] = IF u = t THEN j ELSE inst[u]
        BY <2>5, <3>1
      <3> QED
        BY <1>4, <2>4, <3>1, <3>2, <3>3 DEF SameOperands
    <2>9. inst'[t].br_resolved /\ inst'[t].mispredicted
      BY <2>4, <2>5
    <2> QED
      BY <1>1, <1>2, <1>3, <1>6, <2>1, <2>2, <2>6, <2>7, <2>8, <2>9 DEF memVars
  <1>7. CASE ~Mispredicted(t)
    <2>1. /\ inst' = [inst EXCEPT ![t].br_resolved = TRUE]
          /\ UNCHANGED <<ruVars, resolving>>
      BY <1>7 DEF ResolveBranch
    <2>2. UNCHANGED <<head, busy, done, kind, dest_reg, value, stage>>
      BY <2>1 DEF ruVars, robVars, renameVars
    <2>3. PICK j : j = [i EXCEPT !.br_resolved = TRUE]
      OBVIOUS
    <2>4. /\ j.pc = i.pc /\ j.src1 = i.src1 /\ j.src2 = i.src2
          /\ j.store_data = i.store_data /\ j.dispatched = i.dispatched
          /\ j.addr_computed = i.addr_computed /\ j.fwd = i.fwd
          /\ j.predicted_taken = i.predicted_taken
          /\ j.predicted_target = i.predicted_target
          /\ j.br_resolved /\ j.mispredicted = i.mispredicted
      BY <2>3 DEF InstStates
    <2>5. inst' = [inst EXCEPT ![t] = j]
      BY <1>4, <1>5, <2>1, <2>3
    <2>6. Live' = Live
      BY <2>2 DEF Live
    <2>7. ASSUME NEW u \in Live'
          PROVE  /\ u \in Live /\ AgeFromHead(u)' = AgeFromHead(u) /\ (done'[u] <=> done[u])
                 /\ inst'[u].pc = inst[u].pc /\ SameOperands(u)
                 /\ inst'[u].addr_computed = inst[u].addr_computed
                 /\ inst'[u].dispatched = inst[u].dispatched /\ inst'[u].fwd = inst[u].fwd
                 /\ inst'[u].predicted_taken = inst[u].predicted_taken
                 /\ inst'[u].predicted_target = inst[u].predicted_target
                 /\ u # t => /\ inst'[u].br_resolved = inst[u].br_resolved
                             /\ inst'[u].mispredicted = inst[u].mispredicted
      <3>1. u \in Live /\ u \in Tags
        BY <2>6 DEF Live
      <3>2. AgeFromHead(u)' = AgeFromHead(u) /\ (done'[u] <=> done[u])
        BY <2>2 DEF AgeFromHead
      <3>3. inst'[u] = IF u = t THEN j ELSE inst[u]
        BY <1>5, <2>5, <3>1
      <3> QED
        BY <1>4, <2>4, <3>1, <3>2, <3>3 DEF SameOperands
    <2>8. inst'[t].br_resolved /\ ~inst'[t].mispredicted
      BY <1>3, <1>4, <1>5, <2>4, <2>5
    <2> QED
      BY <1>1, <1>2, <1>3, <1>7, <2>1, <2>2, <2>6, <2>7, <2>8 DEF memVars
  <1>8. QED
    BY <1>6, <1>7

(* After a recovery fetch is where the branch goes.                        *)
LEMMA ResolvePath ==
  ASSUME CoreInv, CoreInv', PathInv, NEW t \in Tags, ResolveBranch(t)
  PROVE  PathInv'
  <1>1. PICK b \in Nat : b = 0
    OBVIOUS
  <1>2. /\ t \in Live /\ t \in Live' /\ ~done[t] /\ IsControlOp(Op(t)) /\ inst[t].dispatched
        /\ ~inst[t].br_resolved /\ ~inst[t].mispredicted
        /\ Live' = IF Mispredicted(t) THEN Live \ YoungerThan(t) ELSE Live
        /\ UNCHANGED <<kind, dest_reg, prog>>
        /\ \A u \in Live' :
             /\ u \in Live /\ AgeFromHead(u)' = AgeFromHead(u) /\ (done'[u] <=> done[u])
             /\ inst'[u].pc = inst[u].pc /\ SameOperands(u)
             /\ inst'[u].addr_computed = inst[u].addr_computed
             /\ inst'[u].dispatched = inst[u].dispatched
             /\ inst'[u].predicted_taken = inst[u].predicted_taken
             /\ inst'[u].predicted_target = inst[u].predicted_target
             /\ u # t => /\ inst'[u].br_resolved = inst[u].br_resolved
                         /\ inst'[u].mispredicted = inst[u].mispredicted
        /\ inst'[t].br_resolved /\ (inst'[t].mispredicted <=> Mispredicted(t))
        /\ resolving' \subseteq resolving
    BY ResolveFacts
  <1>3. Stays(b, b)
    BY <1>2 DEF Stays, Place
  <1>4. \A u \in Live' : /\ SourcesAt(u) /\ BranchAt(u) /\ ReadyStays(u)
                         /\ u # t => SameBranch(u)
    BY <1>2 DEF PathInv, SourcesAreRead, BranchesHold, ReadyStays, SameOperands, SameBranch
  <1>5. ASSUME NEW u \in Live', u # t
        PROVE  SourcesAt(u)' /\ BranchAt(u)' /\ NextOf(u)' = NextOf(u)
    <2>1. /\ SourcesAt(u) /\ BranchAt(u) /\ ReadyStays(u) /\ SameBranch(u) /\ u \in Live
          /\ inst'[u].addr_computed => inst[u].src1.ready
          /\ inst'[u].dispatched => inst[u].src1.ready /\ inst[u].src2.ready
          /\ inst[u].dispatched => inst'[u].dispatched
          /\ done'[u] /\ IsControlOp(Op(u)) => inst[u].br_resolved
      BY <1>2, <1>4, <1>5 DEF SourcesAt, BranchAt
    <2> QED
      BY <1>3, <2>1, PathStays
  <1>6. /\ Op(t)' = Op(t) /\ Imm(t)' = Imm(t) /\ inst'[t].pc = inst[t].pc /\ SameOperands(t)
        /\ inst'[t].predicted_taken = inst[t].predicted_taken
        /\ inst'[t].predicted_target = inst[t].predicted_target
    BY <1>2, <1>3, StayFacts
  <1>7. /\ (Taken(t) <=> Taken(t)') /\ Target(t)' = Target(t) /\ ActualNext(t)' = ActualNext(t)
        /\ Mispredicted(t)' <=> Mispredicted(t)
    BY <1>6 DEF Taken, Target, ActualNext, Mispredicted, SameOperands
  <1>8. SourcesAt(t)' /\ BranchAt(t)'
    <2>1. SourcesAt(t)'
      BY <1>2, <1>4, <1>6 DEF SourcesAt, SameOperands
    <2>2. BranchAt(t)'
      BY <1>2, <1>6, <1>7 DEF BranchAt
    <2> QED
      BY <2>1, <2>2
  <1>9. SourcesAreRead' /\ BranchesHold'
    <2>1. \A u \in resolving' : inst'[u].dispatched
      <3> SUFFICES ASSUME NEW u \in resolving' PROVE inst'[u].dispatched
        OBVIOUS
      <3>1. u \in Live'
        BY DEF CoreInv, CoreShapes, ResolvingAreOpen, Live
      <3> QED
        BY <1>2, <3>1 DEF PathInv, BranchesHold
    <2> QED
      BY <1>5, <1>8, <2>1 DEF SourcesAreRead, BranchesHold
  <1>10. CASE Mispredicted(t)
    <2>1. /\ Recover(t) /\ fetch_pc' = ActualNext(t) /\ ifq' = <<>> /\ dispatch_reg' = <<>>
      BY <1>10 DEF ResolveBranch
    <2>2. active_count' = AgeFromHead(t) + 1
      BY <2>1 DEF Recover, SquashYoungerThan
    <2>3. FrontPc' = ActualNext(t) /\ NextOf(t)' = ActualNext(t)
      BY <1>2, <1>7, <1>10, <2>1 DEF FrontPc, IfqPc, NextOf
    <2>4. QueuesFollow'
      <3>1. Len(<<>>) = 0
        BY EmptySeq
      <3> QED
        BY <2>1, <3>1 DEF QueuesFollow, Chain
    <2>5. ASSUME NEW u \in Live', NEW v \in Live', AgeFromHead(v)' = AgeFromHead(u)' + 1
          PROVE  inst'[v].pc = NextOf(u)'
      <3>1. AgeFromHead(v) = AgeFromHead(u) + 1 /\ u \in Live /\ v \in Live
        BY <1>2, <2>5
      <3>2. u # t
        <4>1. v \in Tags /\ busy[v] /\ v \notin YoungerThan(t)
          BY <1>2, <1>10 DEF Live
        <4>2. ~(AgeFromHead(v) > AgeFromHead(t))
          BY <4>1 DEF YoungerThan, IsYounger
        <4>3. AgeFromHead(u) \in Nat
          BY <3>1, LiveAges
        <4> QED
          BY <3>1, <4>2, <4>3
      <3>3. inst[v].pc = NextOf(u)
        BY <3>1 DEF PathInv, WindowFollows
      <3> QED
        BY <1>2, <1>5, <3>2, <3>3
    <2>6. ASSUME NEW u \in Live', AgeFromHead(u)' + 1 = active_count'
          PROVE  FrontPc' = NextOf(u)'
      <3>1. PICK i \in Nat, j \in Nat : i = AgeFromHead(u) /\ j = AgeFromHead(t)
        BY <1>2, LiveAges
      <3>2. i + 1 = j + 1
        BY <1>2, <2>2, <2>6, <3>1
      <3>3. Place(u, b) = Place(t, b)
        BY <3>1, <3>2 DEF Place
      <3>4. u = t
        BY <1>2, <3>3, PlaceFacts
      <3> QED
        BY <2>3, <3>4
    <2>7. WindowFollows'
      BY <2>5, <2>6 DEF WindowFollows
    <2> QED
      BY <1>9, <2>4, <2>7 DEF PathInv
  <1>11. CASE ~Mispredicted(t)
    <2>1. UNCHANGED frontVars /\ active_count' = active_count
      BY <1>11 DEF ResolveBranch, ruVars, robVars
    <2>2. FrontPc' = FrontPc /\ IfqPc' = IfqPc /\ prog' = prog
      BY <1>2, <2>1 DEF FrontPc, IfqPc, frontVars
    <2>3. QueuesFollow'
      BY <2>1, <2>2 DEF PathInv, QueuesFollow, Chain, NextFetched, frontVars
    <2>4. NextOf(t)' = NextOf(t)
      BY <1>2, <1>6, <1>11 DEF NextOf, NextFetched
    <2>5. \A u \in Live' : u \in Live /\ NextOf(u)' = NextOf(u)
      BY <1>2, <1>5, <2>4
    <2>6. b + active_count' = b + active_count
      BY <2>1
    <2>7. WindowFollows'
      BY <1>3, <2>2, <2>5, <2>6, WindowStays DEF PathInv
    <2> QED
      BY <1>9, <2>3, <2>7 DEF PathInv
  <1>12. QED
    BY <1>10, <1>11

(* A recovery keeps the history of what is left.                           *)
LEMMA ResolveBranchHistory ==
  ASSUME CoreInv, CoreInv', PathInv, NEW t \in Tags, ResolveBranch(t),
         NEW g \in Histories, NEW b \in Nat, NEW d \in Nat, History(g, b, d)
  PROVE  PathInv' /\ History(g, b, d)'
  <1>1. /\ Live' \subseteq Live /\ stage = "writeback"
        /\ UNCHANGED <<kind, dest_reg, value, arf, sb, mem, prog, stage>>
        /\ \A u \in Live' :
             /\ u \in Live /\ AgeFromHead(u)' = AgeFromHead(u) /\ (done'[u] <=> done[u])
             /\ inst'[u].pc = inst[u].pc /\ SameOperands(u)
             /\ inst'[u].dispatched = inst[u].dispatched /\ inst'[u].fwd = inst[u].fwd
    BY ResolveFacts
  <1>2. Stays(b, b)
    BY <1>1 DEF Stays, Place
  <1>3. StepsFollow(g, b)'
    BY <1>1, <1>2, StepsStay DEF History
  <1>4. OperandsHold(g, b)'
    BY <1>1, <1>2, OperandsHoldStay DEF History
  <1>5. ResultsHold(g, b)'
    BY <1>1, <1>2, ResultsHoldStay DEF History
  <1>6. LoadsHold(g, b)'
    <2>1. \A u \in Live' : MemoryIsCurrent(u, g[Place(u, b)]) /\ ~done'[u] =>
            /\ mem'[Address(u)] = mem[Address(u)]
            /\ \A i \in 1 .. Len(sb') : sb'[i].addr # Address(u)
      BY <1>1 DEF MemoryIsCurrent
    <2>2. \A u \in Live' : /\ ReadyStays(u) /\ inst'[u].fwd = inst[u].fwd
                           /\ inst'[u].dispatched => inst[u].dispatched
                           /\ done[u] => done'[u]
      BY <1>1 DEF ReadyStays, SameOperands
    <2>3. SourcesAreRead /\ LoadsHold(g, b)
      BY DEF PathInv, History
    <2> QED
      BY <1>1, <1>2, <2>1, <2>2, <2>3, LoadsHoldStay
  <1>7. RegsHold(g, b)'
    BY <1>1 DEF History, RegsHold
  <1>8. StoresHold(g, b, d)'
    <2>1. DoneStores = {}
      BY <1>1, NoDoneStores
    <2>2. (DoneStores = {})'
      BY <1>1, NoDoneStoresNext
    <2> QED
      BY <1>1, <2>1, <2>2, StoresStay DEF History
  <1>9. History(g, b, d)'
    BY <1>3, <1>4, <1>5, <1>6, <1>7, <1>8 DEF History
  <1>10. QED
    BY <1>9, ResolvePath

-------------------------------------------------------------------------------
(* The steps in which instructions learn: of operands, of stores, of what  *)
(* a load is to return.                                                    *)

(* The next tick begins with the wakeups, and the window stays.            *)
LEMMA TickFacts ==
  ASSUME CoreInv, NextTick
  PROVE  /\ UNCHANGED <<robVars, kind, prog, arf, sb, mem, frontVars, resolving>>
         /\ stage = "rename"
         /\ \A u \in Tags :
              /\ inst'[u].pc = inst[u].pc
              /\ inst'[u].src1 = Snooped(inst[u].src1)
              /\ inst'[u].src2 = Snooped(inst[u].src2)
              /\ inst'[u].store_data = Snooped(inst[u].store_data)
              /\ inst'[u].addr_computed = inst[u].addr_computed
              /\ inst'[u].dispatched = inst[u].dispatched
              /\ inst'[u].fwd = inst[u].fwd /\ SameBranch(u)
  <1>1. /\ step = "fetch" /\ EnterStage
        /\ inst' = [t \in Tags |->
                [inst[t] EXCEPT !.src1 = Snooped(@), !.src2 = Snooped(@),
                                !.store_data = Snooped(@)]]
        /\ UNCHANGED <<prog, arf, memVars, frontVars, resolving>>
    BY DEF NextTick
  <1>2. UNCHANGED <<robVars, kind>> /\ stage = "rename"
    BY <1>1, StageEntered DEF CoreInv, StepsOfStage
  <1>3. ASSUME NEW u \in Tags
        PROVE  /\ inst'[u].pc = inst[u].pc
               /\ inst'[u].src1 = Snooped(inst[u].src1)
               /\ inst'[u].src2 = Snooped(inst[u].src2)
               /\ inst'[u].store_data = Snooped(inst[u].store_data)
               /\ inst'[u].addr_computed = inst[u].addr_computed
               /\ inst'[u].dispatched = inst[u].dispatched
               /\ inst'[u].fwd = inst[u].fwd /\ SameBranch(u)
    <2>1. PICK i \in InstStates : i = inst[u]
      BY DEF CoreInv, CoreShapes
    <2>2. PICK a, b, c :
            a = Snooped(i.src1) /\ b = Snooped(i.src2) /\ c = Snooped(i.store_data)
      OBVIOUS
    <2>3. PICK j : j = [i EXCEPT !.src1 = a, !.src2 = b, !.store_data = c]
      OBVIOUS
    <2>4. inst'[u] = j
      BY <1>1, <2>1, <2>2, <2>3
    <2>5. /\ j.pc = i.pc /\ j.src1 = a /\ j.src2 = b /\ j.store_data = c
          /\ j.addr_computed = i.addr_computed /\ j.dispatched = i.dispatched /\ j.fwd = i.fwd
          /\ j.predicted_taken = i.predicted_taken /\ j.predicted_target = i.predicted_target
          /\ j.br_resolved = i.br_resolved /\ j.mispredicted = i.mispredicted
      BY <2>3 DEF InstStates
    <2> QED
      BY <2>1, <2>2, <2>4, <2>5 DEF SameBranch
  <1>4. QED
    BY <1>1, <1>2, <1>3 DEF memVars

(* What a wakeup brings is what program order leaves in the register.      *)
LEMMA SnoopedHolds ==
  ASSUME CoreInv, NEW g \in Histories, NEW b \in Nat, StepsFollow(g, b), ResultsHold(g, b),
         NEW t \in Live, NEW o \in {inst[t].src1, inst[t].src2, inst[t].store_data},
         NEW r \in Reg, NEW s, Holds(o, r, s, g, b)
  PROVE  \/ Snooped(o) = o
         \/ ~o.ready /\ Snooped(o).ready /\ Snooped(o).val = ReadIn(s, r)
  <1> SUFFICES ASSUME Snooped(o) # o
               PROVE  ~o.ready /\ Snooped(o).ready /\ Snooped(o).val = ReadIn(s, r)
    OBVIOUS
  <1>1. PICK w \in wakeups : ~o.ready /\ w.tag = o.tag /\ Snooped(o) = Ready(w.val)
    BY DEF Snooped
  <1>2. PICK p : p = o.tag
    OBVIOUS
  <1>3. p # NoTag /\ r # 0 /\ dest_reg[p] = r /\ g[Place(p, b) + 1].regs[r] = s.regs[r]
    BY <1>1, <1>2 DEF Holds
  <1>4. p \in Live /\ Writes(kind[p], dest_reg[p])
    BY <1>1, <1>2, <1>3 DEF CoreInv, OperandsWaitForLiveProducers
  <1>5. done[p] /\ value[p] = w.val
    BY <1>1, <1>2 DEF CoreInv, WakeupsAreCurrent
  <1>6. PICK k \in Nat : k = Place(p, b)
    BY <1>4, PlaceFacts
  <1>7. w.val = ResultIn(g[k], In(p), inst[p].pc)
    BY <1>4, <1>5, <1>6 DEF ResultsHold, ResultAt
  <1>8. g[k + 1].regs[r] = w.val
    BY <1>3, <1>4, <1>6, <1>7, StepOfInst
  <1>9. ReadIn(s, r) = w.val
    BY <1>3, <1>6, <1>8 DEF ReadIn
  <1>10. Snooped(o).ready /\ Snooped(o).val = w.val
    BY <1>1 DEF Ready
  <1>11. QED
    BY <1>1, <1>9, <1>10

(* A wakeup brings the value the history has: the next tick keeps it.      *)
LEMMA NextTickHistory ==
  ASSUME CoreInv, CoreInv', PathInv, NextTick,
         NEW g \in Histories, NEW b \in Nat, NEW d \in Nat, History(g, b, d)
  PROVE  PathInv' /\ History(g, b, d)'
  <1>1. /\ UNCHANGED <<robVars, kind, prog, arf, sb, mem, frontVars, resolving>>
        /\ stage = "rename"
        /\ \A u \in Tags :
             /\ inst'[u].pc = inst[u].pc
             /\ inst'[u].src1 = Snooped(inst[u].src1)
             /\ inst'[u].src2 = Snooped(inst[u].src2)
             /\ inst'[u].store_data = Snooped(inst[u].store_data)
             /\ inst'[u].addr_computed = inst[u].addr_computed
             /\ inst'[u].dispatched = inst[u].dispatched
             /\ inst'[u].fwd = inst[u].fwd /\ SameBranch(u)
    BY TickFacts
  <1>2. /\ UNCHANGED <<head, active_count, busy, done, dest_reg, value>> /\ Live' = Live
        /\ \A u \in Live : u \in Tags
    BY <1>1 DEF robVars, Live
  <1>3. Stays(b, b)
    BY <1>1, <1>2 DEF Stays, Place, AgeFromHead
  <1>4. \A o : o.ready => Snooped(o) = o
    BY DEF Snooped
  <1>5. \A u \in Live : ReadyStays(u)
    BY <1>1, <1>2, <1>4 DEF ReadyStays
  <1>6. PathInv'
    <2>1. ASSUME NEW u \in Live'
          PROVE  /\ ReadyStays(u) /\ SameBranch(u)
                 /\ inst'[u].addr_computed => inst[u].src1.ready
                 /\ inst'[u].dispatched => inst[u].src1.ready /\ inst[u].src2.ready
                 /\ inst[u].dispatched => inst'[u].dispatched
                 /\ done'[u] /\ IsControlOp(Op(u)) => inst[u].br_resolved
      <3>1. SourcesAt(u) /\ BranchAt(u)
        BY <1>2 DEF PathInv, SourcesAreRead, BranchesHold
      <3> QED
        BY <1>1, <1>2, <1>5, <3>1 DEF SourcesAt, BranchAt
    <2>2. \A u \in resolving' : inst'[u].dispatched
      BY <1>1 DEF PathInv, BranchesHold, CoreInv, CoreShapes
    <2>3. b + active_count' = b + active_count /\ Live' \subseteq Live /\ UNCHANGED frontVars
      BY <1>1, <1>2
    <2> QED
      BY <1>3, <2>1, <2>2, <2>3, WorkPath
  <1>7. StepsFollow(g, b)'
    BY <1>2, <1>3, StepsStay DEF History
  <1>8. OperandsHold(g, b)'
    <2> SUFFICES ASSUME NEW u \in Live'
                 PROVE  OperandsAt(u, g[Place(u, b)], g, b)'
      BY DEF OperandsHold
    <2>1. u \in Live /\ u \in Tags
      BY <1>2
    <2>2. In(u)' = In(u) /\ Place(u, b)' = Place(u, b)
      BY <1>2, <1>3, <2>1, StayFacts
    <2>3. PICK s : s = g[Place(u, b)]
      OBVIOUS
    <2>4. OperandsAt(u, s, g, b)
      BY <2>1, <2>3 DEF History, OperandsHold
    <2>5. ASSUME NEW o \in {inst[u].src1, inst[u].src2, inst[u].store_data}, NEW r \in Reg,
                 Holds(o, r, s, g, b), NEW q, q = Snooped(o)
          PROVE  Holds(q, r, s, g, b)'
      <3>1. q = o \/ (q.ready /\ q.val = ReadIn(s, r))
        BY <2>1, <2>5, SnoopedHolds DEF History
      <3> QED
        BY <1>2, <2>5, <3>1 DEF Holds, Place, AgeFromHead
    <2>6. inst[u].store_data.tag = NoTag => Snooped(inst[u].store_data) = inst[u].store_data
      <3>1. \A w \in wakeups : w.tag \in Tags
        BY DEF CoreInv, CoreShapes
      <3>2. \A w \in wakeups : w.tag # NoTag
        BY <3>1, RobAssumption DEF Tags, NoTag
      <3> QED
        BY <3>2 DEF Snooped
    <2>7. In(u).s1 \in Reg /\ In(u).s2 \in Reg /\ In(u).d \in Reg
      BY <2>1, InFacts
    <2>8. PICK p, q, e : p = inst'[u].src1 /\ q = inst'[u].src2 /\ e = inst'[u].store_data
      OBVIOUS
    <2>9. /\ In(u).op # "jal" => Holds(p, In(u).s1, s, g, b)'
          /\ In(u).op \in {"add", "beq", "bne"} => Holds(q, In(u).s2, s, g, b)'
          /\ In(u).op = "store" /\ In(u).d > 0 => Holds(e, In(u).d, s, g, b)'
          /\ In(u).op = "store" /\ In(u).d = 0 => ~e.ready /\ e.tag = NoTag
      BY <1>1, <2>1, <2>2, <2>4, <2>5, <2>6, <2>7, <2>8 DEF OperandsAt
    <2> QED
      BY <2>2, <2>3, <2>8, <2>9 DEF OperandsAt
  <1>9. ResultsHold(g, b)'
    BY <1>1, <1>2, <1>3, ResultsHoldStay DEF History
  <1>10. LoadsHold(g, b)'
    <2>1. \A u \in Live' : MemoryIsCurrent(u, g[Place(u, b)]) /\ ~done'[u] =>
            /\ mem'[Address(u)] = mem[Address(u)]
            /\ \A i \in 1 .. Len(sb') : sb'[i].addr # Address(u)
      BY <1>1 DEF MemoryIsCurrent
    <2>2. \A u \in Live' : /\ ReadyStays(u) /\ inst'[u].fwd = inst[u].fwd
                           /\ inst'[u].dispatched => inst[u].dispatched
                           /\ done[u] => done'[u]
      BY <1>1, <1>2, <1>5
    <2>3. SourcesAreRead /\ LoadsHold(g, b)
      BY DEF PathInv, History
    <2> QED
      BY <1>2, <1>3, <2>1, <2>2, <2>3, LoadsHoldStay
  <1>11. RegsHold(g, b)'
    BY <1>1 DEF History, RegsHold
  <1>12. StoresHold(g, b, d)'
    <2>1. DoneStores = {}
      BY <1>1, NoDoneStores
    <2>2. (DoneStores = {})'
      BY <1>1, <1>2, <2>1 DEF DoneStores, Op
    <2> QED
      BY <1>1, <2>1, <2>2, StoresStay DEF History
  <1>13. QED
    BY <1>6, <1>7, <1>8, <1>9, <1>10, <1>11, <1>12 DEF History

(* The dispatch stage changes the work of instructions in the window,      *)
(* nothing else.                                                           *)
LEMMA DispatchFacts ==
  ASSUME CoreInv, DispatchStage
  PROVE  /\ UNCHANGED <<robVars, kind, prog, arf, sb, mem, frontVars, resolving>>
         /\ stage = "writeback" /\ stage' = "rename"
         /\ \A u \in Tags :
              /\ inst'[u].pc = inst[u].pc /\ SameOperands(u) /\ SameBranch(u)
              /\ inst'[u].addr_computed => inst[u].addr_computed \/ inst[u].src1.ready
              /\ inst[u].dispatched => inst'[u].dispatched
              /\ inst'[u].dispatched =>
                   inst[u].dispatched \/ u \in ReadyInRs \/ u \in StartingLoads
              /\ inst'[u].fwd = IF u \in StartingLoads THEN Forwarded(u) ELSE inst[u].fwd
  <1>1. /\ step = "broadcast" /\ EnterStage
        /\ UNCHANGED <<prog, arf, memVars, frontVars, resolving>>
    BY DEF DispatchStage
  <1>2. PICK issued \in SUBSET ReadyInRs :
          inst' = [t \in Tags |->
                  [inst[t] EXCEPT
                     !.addr_computed = @ \/ (t \in InLsq /\ inst[t].src1.ready),
                     !.dispatched = @ \/ t \in issued \/ t \in StartingLoads,
                     !.fwd = IF t \in StartingLoads THEN Forwarded(t) ELSE @]]
    BY DEF DispatchStage
  <1>3. UNCHANGED <<robVars, kind>> /\ stage = "writeback" /\ stage' = "rename"
    BY <1>1, StageEntered DEF CoreInv, StepsOfStage, NextStage
  <1>4. ASSUME NEW u \in Tags
        PROVE  /\ inst'[u].pc = inst[u].pc /\ SameOperands(u) /\ SameBranch(u)
               /\ inst'[u].addr_computed => inst[u].addr_computed \/ inst[u].src1.ready
               /\ inst[u].dispatched => inst'[u].dispatched
               /\ inst'[u].dispatched =>
                    inst[u].dispatched \/ u \in ReadyInRs \/ u \in StartingLoads
               /\ inst'[u].fwd = IF u \in StartingLoads THEN Forwarded(u) ELSE inst[u].fwd
    <2>1. PICK i \in InstStates : i = inst[u]
      BY DEF CoreInv, CoreShapes
    <2>2. PICK a \in BOOLEAN : a = (i.addr_computed \/ (u \in InLsq /\ i.src1.ready))
      BY DEF InstStates
    <2>3. PICK d \in BOOLEAN : d = (i.dispatched \/ u \in issued \/ u \in StartingLoads)
      BY DEF InstStates
    <2>4. PICK f : f = IF u \in StartingLoads THEN Forwarded(u) ELSE i.fwd
      OBVIOUS
    <2>5. PICK j : j = [i EXCEPT !.addr_computed = a, !.dispatched = d, !.fwd = f]
      OBVIOUS
    <2>6. inst'[u] = j
      BY <1>2, <2>1, <2>2, <2>3, <2>4, <2>5
    <2>7. /\ j.pc = i.pc /\ j.src1 = i.src1 /\ j.src2 = i.src2 /\ j.store_data = i.store_data
          /\ j.addr_computed = a /\ j.dispatched = d /\ j.fwd = f
          /\ j.predicted_taken = i.predicted_taken /\ j.predicted_target = i.predicted_target
          /\ j.br_resolved = i.br_resolved /\ j.mispredicted = i.mispredicted
      BY <2>5 DEF InstStates
    <2>8. SameOperands(u) /\ SameBranch(u) /\ inst'[u].pc = inst[u].pc
      BY <2>1, <2>6, <2>7 DEF SameOperands, SameBranch
    <2>9. inst'[u].fwd = IF u \in StartingLoads THEN Forwarded(u) ELSE inst[u].fwd
      BY <2>1, <2>4, <2>6, <2>7
    <2>10. inst'[u].addr_computed => inst[u].addr_computed \/ inst[u].src1.ready
      BY <2>1, <2>2, <2>6, <2>7
    <2>11. inst'[u].dispatched <=> inst[u].dispatched \/ u \in issued \/ u \in StartingLoads
      BY <2>1, <2>3, <2>6, <2>7
    <2> QED
      BY <1>2, <2>8, <2>9, <2>10, <2>11
  <1>5. QED
    BY <1>1, <1>3, <1>4 DEF memVars

(* A load that starts: it gets the youngest store before it to its word,   *)
(* from the queue or from the store buffer, or finds it in memory.         *)
LEMMA StartingLoadReads ==
  ASSUME CoreInv, DoneStores = {},
         NEW g \in Histories, NEW b \in Nat, NEW d \in Nat, History(g, b, d),
         NEW l \in StartingLoads, NEW s, s = g[Place(l, b)]
  PROVE  /\ Forwarded(l) # NeedsMemory => Forwarded(l) = s.mem[Address(l)]
         /\ Forwarded(l) = NeedsMemory => MemoryIsCurrent(l, s)
  <1>1. l \in Live /\ Op(l) = "load" /\ Unblocked(l) /\ l \in Tags /\ head \in Tags
    BY DEF StartingLoads, InLsq, Live, CoreInv, RuInv, RobInv, RobTypeOK
  <1>2. PICK a \in Val : a = Address(l)
    BY <1>1, InstFacts DEF CoreInv
  <1>3. PICK k \in Nat : k = Place(l, b) /\ b <= k /\ k <= b + active_count
    <2>1. PICK k \in Nat : k = Place(l, b) /\ k \in b .. b + active_count - 1
      BY <1>1, PlaceFacts
    <2>2. active_count \in Nat
      BY PlaceFacts
    <2> QED
      BY <2>1, <2>2
  <1>4. \A u \in Live : u \in OlderStores(l) <=> Op(u) = "store" /\ Place(u, b) < k
    BY <1>1, <1>3, PlaceFacts DEF OlderStores, InLsq, DoneStores
  <1>5. ASSUME NEW u \in OlderStores(l)
        PROVE  /\ u \in Live /\ inst[u].src1.ready
               /\ Address(u) = AddressIn(g[Place(u, b)], In(u))
               /\ inst[u].store_data.val = ReadIn(g[Place(u, b)], In(u).d)
    <2>1. u \in Live /\ Op(u) = "store" /\ inst[u].src1.ready /\ inst[u].store_data.ready
      BY <1>1 DEF OlderStores, InLsq, Unblocked
    <2>2. PICK q \in ArchStates : q = g[Place(u, b)]
      BY <2>1, PlaceFacts DEF Histories
    <2> QED
      BY <2>1, <2>2, OperandValues DEF History
  <1>6. StepsFollow(g, b)
    BY DEF History
  <1> DEFINE hits   == {u \in OlderStores(l) : Address(u) = Address(l)}
             sbHits == {i \in 1 .. Len(sb) : sb[i].addr = Address(l)}
  <1>7. CASE hits # {}
    <2>1. hits \in SUBSET Tags
      BY DEF OlderStores, InLsq, Live
    <2>2. PICK y \in hits : /\ y = CHOOSE u \in hits : \A w \in hits : ~Older(u, w)
                            /\ \A w \in hits : ~Older(y, w)
      <3> HIDE DEF hits
      <3> QED
        BY <1>1, <1>7, <2>1, YoungestIsIn
    <2>3. Forwarded(l) = inst[y].store_data.val
      BY <1>7, <2>2 DEF Forwarded
    <2>4. y \in OlderStores(l) /\ Address(y) = a /\ y \in Live /\ Op(y) = "store"
      BY <1>2 DEF OlderStores, InLsq
    <2>5. PICK i \in Nat : i = Place(y, b) /\ b <= i /\ i + 1 <= k
      <3>1. PICK i \in Nat : i = Place(y, b) /\ i \in b .. b + active_count - 1
        BY <2>4, PlaceFacts
      <3>2. i < k
        BY <1>4, <2>4, <3>1
      <3> QED
        BY <3>1, <3>2, PlaceFacts
    <2>6. g[i + 1].mem[a] = inst[y].store_data.val
      <3>1. a = AddressIn(g[i], In(y)) /\ inst[y].store_data.val = ReadIn(g[i], In(y).d)
        BY <1>5, <2>4, <2>5
      <3> QED
        BY <1>6, <2>4, <2>5, <3>1, StepOfInst
    <2>7. \A u \in Live : i + 1 <= Place(u, b) /\ Place(u, b) < k =>
            ~(Op(u) = "store" /\ AddressIn(g[Place(u, b)], In(u)) = a)
      <3> SUFFICES ASSUME NEW u \in Live, i + 1 <= Place(u, b), Place(u, b) < k,
                          Op(u) = "store", AddressIn(g[Place(u, b)], In(u)) = a
                   PROVE  FALSE
        OBVIOUS
      <3>1. u \in OlderStores(l) /\ Address(u) = a
        BY <1>4, <1>5
      <3>2. u \in hits
        BY <1>2, <3>1
      <3>3. Place(u, b) \in Nat
        BY PlaceFacts
      <3>4. i < Place(u, b)
        BY <3>3
      <3>5. Older(y, u)
        BY <2>4, <2>5, <3>4, PlaceFacts
      <3> QED
        BY <2>2, <3>2, <3>5
    <2>8. i + 1 \in Nat /\ b <= i + 1
      BY <2>5
    <2>9. g[k].mem[a] = g[i + 1].mem[a]
      BY <1>3, <1>6, <2>5, <2>7, <2>8, WordSteady
    <2>10. inst[y].store_data.val \in Val
      BY <2>1, InstFacts DEF CoreInv
    <2>11. Forwarded(l) # NeedsMemory
      BY <2>3, <2>10, WrapIsVal DEF NeedsMemory
    <2> QED
      BY <1>2, <1>3, <2>3, <2>6, <2>9, <2>11
  <1>8. CASE hits = {}
    <2>1. \A u \in Live : b <= Place(u, b) /\ Place(u, b) < k =>
            ~(Op(u) = "store" /\ AddressIn(g[Place(u, b)], In(u)) = a)
      BY <1>2, <1>4, <1>5, <1>8
    <2>2. g[k].mem[a] = g[b].mem[a]
      BY <1>3, <1>6, <2>1, WordSteady
    <2>3. StoresAreSettled
      BY StoresSettled
    <2>4. g[b].mem = Written(sb, mem, Len(sb))
      BY <2>3 DEF StoresAreSettled, History
    <2>5. PICK n \in Nat : n = Len(sb)
      BY BufferShape
    <2>6. s.mem[a] = Written(sb, mem, n)[a]
      BY <1>3, <2>2, <2>4, <2>5
    <2>7. CASE sbHits # {}
      <3>1. PICK m \in sbHits : m = Max(sbHits) /\ \A j \in sbHits : j <= m
        <4>1. sbHits \in SUBSET (1 .. n)
          BY <2>5
        <4> HIDE DEF sbHits
        <4> QED
          BY <2>5, <2>7, <4>1, MaxIsIn
      <3>2. Forwarded(l) = sb[m].val
        BY <1>8, <2>7, <3>1 DEF Forwarded
      <3>3. m \in 1 .. n /\ sb[m].addr = a /\ \A j \in 1 .. n : sb[j].addr = a => j <= m
        BY <1>2, <2>5, <3>1
      <3>4. Written(sb, mem, n)[a] = sb[m].val
        BY <3>3, WrittenWord
      <3>5. sb[m].val \in Val
        BY <2>5, <3>3, BufferShape
      <3>6. Forwarded(l) # NeedsMemory
        BY <3>2, <3>5, WrapIsVal DEF NeedsMemory
      <3> QED
        BY <1>2, <2>6, <3>2, <3>4, <3>6
    <2>8. CASE sbHits = {}
      <3>1. Forwarded(l) = NeedsMemory
        BY <1>8, <2>8 DEF Forwarded
      <3>2. \A i \in 1 .. n : sb[i].addr # a
        BY <1>2, <2>5, <2>8
      <3>3. mem[a] = s.mem[a]
        BY <2>6, <3>2, WrittenWord
      <3>4. \A u \in Live : Older(u, l) /\ Op(u) = "store" /\ ~done[u] =>
              inst[u].src1.ready /\ Address(u) # Address(l)
        BY <1>5, <1>8 DEF OlderStores, InLsq
      <3>5. MemoryIsCurrent(l, s)
        BY <1>2, <2>5, <3>2, <3>3, <3>4 DEF MemoryIsCurrent
      <3> QED
        BY <3>1, <3>5
    <2> QED
      BY <2>7, <2>8
  <1>9. QED
    BY <1>7, <1>8

(* The dispatch stage keeps the history: what starts has the values of     *)
(* program order.                                                          *)
LEMMA DispatchStageHistory ==
  ASSUME CoreInv, CoreInv', PathInv, DispatchStage,
         NEW g \in Histories, NEW b \in Nat, NEW d \in Nat, History(g, b, d)
  PROVE  PathInv' /\ History(g, b, d)'
  <1>1. /\ UNCHANGED <<robVars, kind, prog, arf, sb, mem, frontVars, resolving>>
        /\ stage = "writeback" /\ stage' = "rename"
        /\ \A u \in Tags :
             /\ inst'[u].pc = inst[u].pc /\ SameOperands(u) /\ SameBranch(u)
             /\ inst'[u].addr_computed => inst[u].addr_computed \/ inst[u].src1.ready
             /\ inst[u].dispatched => inst'[u].dispatched
             /\ inst'[u].dispatched =>
                  inst[u].dispatched \/ u \in ReadyInRs \/ u \in StartingLoads
             /\ inst'[u].fwd = IF u \in StartingLoads THEN Forwarded(u) ELSE inst[u].fwd
    BY DispatchFacts
  <1>2. /\ UNCHANGED <<head, active_count, busy, done, dest_reg, value>> /\ Live' = Live
        /\ \A u \in Live : u \in Tags
    BY <1>1 DEF robVars, Live
  <1>3. Stays(b, b)
    BY <1>1, <1>2 DEF Stays, Place, AgeFromHead
  <1>4. \A u \in Live : ReadyStays(u) /\ SameOperands(u)
    BY <1>1, <1>2 DEF ReadyStays, SameOperands
  <1>5. PathInv'
    <2>1. ASSUME NEW u \in Live'
          PROVE  /\ ReadyStays(u) /\ SameBranch(u)
                 /\ inst'[u].addr_computed => inst[u].src1.ready
                 /\ inst'[u].dispatched => inst[u].src1.ready /\ inst[u].src2.ready
                 /\ inst[u].dispatched => inst'[u].dispatched
                 /\ done'[u] /\ IsControlOp(Op(u)) => inst[u].br_resolved
      <3>1. SourcesAt(u) /\ BranchAt(u)
        BY <1>2 DEF PathInv, SourcesAreRead, BranchesHold
      <3>2. u \in ReadyInRs => inst[u].src1.ready /\ inst[u].src2.ready
        BY DEF ReadyInRs
      <3>3. u \in StartingLoads => inst[u].src1.ready /\ Op(u) = "load"
        BY DEF StartingLoads
      <3> QED
        BY <1>1, <1>2, <1>4, <3>1, <3>2, <3>3 DEF SourcesAt, BranchAt
    <2>2. \A u \in resolving' : inst'[u].dispatched
      BY <1>1 DEF PathInv, BranchesHold, CoreInv, CoreShapes
    <2>3. b + active_count' = b + active_count /\ Live' \subseteq Live /\ UNCHANGED frontVars
      BY <1>1, <1>2
    <2> QED
      BY <1>3, <2>1, <2>2, <2>3, WorkPath
  <1>6. StepsFollow(g, b)'
    BY <1>2, <1>3, StepsStay DEF History
  <1>7. OperandsHold(g, b)'
    BY <1>2, <1>3, <1>4, OperandsHoldStay DEF History
  <1>8. ResultsHold(g, b)'
    BY <1>1, <1>2, <1>3, ResultsHoldStay DEF History
  <1>9. DoneStores = {} /\ (DoneStores = {})'
    BY <1>1, NoDoneStores, NoDoneStoresNext
  <1>10. LoadsHold(g, b)'
    <2> SUFFICES ASSUME NEW u \in Live' PROVE LoadAt(u, g[Place(u, b)])'
      BY DEF LoadsHold
    <2>1. PICK s : s = g[Place(u, b)]
      OBVIOUS
    <2>2. /\ u \in Live /\ u \in Tags /\ Place(u, b)' = Place(u, b) /\ Op(u)' = Op(u)
          /\ LoadAt(u, s)
      BY <1>2, <1>3, <2>1, StayFacts DEF History, LoadsHold
    <2>3. \A t \in Live : /\ Address(t)' = Address(t) /\ Op(t)' = Op(t)
                          /\ inst'[t].src1 = inst[t].src1 /\ (Older(t, u)' <=> Older(t, u))
      BY <1>1, <1>2, <1>4 DEF Address, Op, Imm, SameOperands, Older, AgeFromHead
    <2>4. MemoryIsCurrent(u, s) => MemoryIsCurrent(u, s)'
      BY <1>1, <1>2, <2>2, <2>3 DEF MemoryIsCurrent
    <2>5. CASE u \in StartingLoads
      <3>1. /\ Forwarded(u) # NeedsMemory => Forwarded(u) = s.mem[Address(u)]
            /\ Forwarded(u) = NeedsMemory => MemoryIsCurrent(u, s)
        BY <1>9, <2>1, <2>5, StartingLoadReads
      <3>2. inst'[u].fwd = Forwarded(u)
        BY <1>1, <2>2, <2>5
      <3>3. LoadAt(u, s)'
        BY <2>2, <2>3, <2>4, <3>1, <3>2 DEF LoadAt
      <3> QED
        BY <2>1, <2>2, <3>3
    <2>6. CASE u \notin StartingLoads
      <3>1. inst'[u].fwd = inst[u].fwd
        BY <1>1, <2>2, <2>6
      <3>2. Op(u) = "load" /\ inst'[u].dispatched => inst[u].dispatched
        BY <1>1, <2>2, <2>6 DEF ReadyInRs, InRs, IsMem
      <3>3. LoadAt(u, s)'
        BY <1>2, <2>2, <2>3, <2>4, <3>1, <3>2 DEF LoadAt
      <3> QED
        BY <2>1, <2>2, <3>3
    <2> QED
      BY <2>5, <2>6
  <1>11. RegsHold(g, b)'
    BY <1>1 DEF History, RegsHold
  <1>12. StoresHold(g, b, d)'
    BY <1>1, <1>9, StoresStay DEF History
  <1>13. QED
    BY <1>5, <1>6, <1>7, <1>8, <1>10, <1>11, <1>12 DEF History

-------------------------------------------------------------------------------
(* A new instruction.                                                      *)

(* An operand read at rename: the newest writer of the register in flight  *)
(* has its value, or will have it; without one the register file has it.   *)
LEMMA OperandReads ==
  ASSUME CoreInv, NEW g \in Histories, NEW b \in Nat, NEW d \in Nat, History(g, b, d),
         NEW r \in Reg, NEW o, o = Operand(r), NEW k \in Nat, k = b + active_count
  PROVE  Holds(o, r, g[k], g, b)
  <1>1. /\ StepsFollow(g, b) /\ ResultsHold(g, b) /\ g[b].regs = arf
        /\ active_count \in Nat /\ b <= k
    BY PlaceFacts DEF History, RegsHold
  <1>2. \A v : Ready(v).ready /\ Ready(v).val = v
    BY DEF Ready
  <1>3. IsNewest(rat[r], WritersUpTo(r, Capacity - 1), Ages)
    BY DEF CoreInv, RuInv, RatNamesNewestWriter, MapsNewestWriters
  <1>4. \A u \in Live : Writes(kind[u], dest_reg[u]) /\ dest_reg[u] = r =>
          u \in WritersUpTo(r, Capacity - 1)
    <2> SUFFICES ASSUME NEW u \in Live
                 PROVE  AgeFromHead(u) <= Capacity - 1 /\ u \in Tags /\ busy[u]
      BY DEF WritersUpTo
    <2>1. AgeFromHead(u) \in 0 .. Capacity - 1
      BY AgesAreNat DEF CoreInv, RuInv, RobInv, RobTypeOK, Live
    <2> QED
      BY <2>1, RobAssumption DEF Live
  <1>5. CASE r = 0
    BY <1>2, <1>5 DEF Operand, Holds, ReadIn
  <1>6. CASE r # 0 /\ rat[r] = NoTag
    <2>1. \A u \in Live : ~(Writes(kind[u], dest_reg[u]) /\ dest_reg[u] = r)
      BY <1>3, <1>4, <1>6 DEF IsNewest
    <2>2. g[k].regs[r] = g[b].regs[r]
      BY <1>1, <2>1, RegisterSteady
    <2> QED
      BY <1>1, <1>2, <1>6, <2>2 DEF Operand, Holds, ReadIn
  <1>7. CASE r # 0 /\ rat[r] # NoTag
    <2>1. PICK p : p = rat[r]
      OBVIOUS
    <2>2. /\ p \in WritersUpTo(r, Capacity - 1)
          /\ \A u \in WritersUpTo(r, Capacity - 1) : Ages[u] <= Ages[p]
      BY <1>3, <1>7, <2>1 DEF IsNewest
    <2>3. p \in Live /\ Writes(kind[p], dest_reg[p]) /\ dest_reg[p] = r
      BY <2>2 DEF WritersUpTo, Live
    <2>4. PICK i \in Nat : i = Place(p, b) /\ b <= i /\ i + 1 <= k
      <3>1. PICK i \in Nat : i = Place(p, b) /\ i \in b .. b + active_count - 1
        BY <2>3, PlaceFacts
      <3> QED
        BY <1>1, <3>1
    <2>5. \A u \in Live : i + 1 <= Place(u, b) /\ Place(u, b) < k =>
            ~(Writes(kind[u], dest_reg[u]) /\ dest_reg[u] = r)
      <3> SUFFICES ASSUME NEW u \in Live, i + 1 <= Place(u, b),
                          Writes(kind[u], dest_reg[u]), dest_reg[u] = r
                   PROVE  FALSE
        OBVIOUS
      <3>1. AgeFromHead(u) <= AgeFromHead(p)
        BY <1>4, <2>2, <2>3 DEF Ages, Live
      <3>2. PICK x \in Nat, y \in Nat : x = AgeFromHead(u) /\ y = AgeFromHead(p)
        BY <2>3, PlaceFacts
      <3> QED
        BY <2>4, <3>1, <3>2 DEF Place
    <2>6. g[k].regs[r] = g[i + 1].regs[r]
      <3>1. i + 1 \in Nat /\ b <= i + 1
        BY <2>4
      <3> QED
        BY <1>1, <2>4, <2>5, <3>1, RegisterSteady
    <2>7. CASE done[p]
      <3>1. value[p] = ResultIn(g[i], In(p), inst[p].pc)
        BY <1>1, <2>3, <2>4, <2>7 DEF ResultsHold, ResultAt
      <3>2. g[i + 1].regs[r] = value[p]
        BY <1>1, <2>3, <2>4, <3>1, StepOfInst
      <3> QED
        BY <1>2, <1>7, <2>1, <2>6, <2>7, <3>2 DEF Operand, Holds, ReadIn
    <2>8. CASE ~done[p]
      <3>1. ~o.ready /\ o.tag = p
        BY <1>7, <2>1, <2>8 DEF Operand
      <3> QED
        BY <1>7, <2>1, <2>3, <2>4, <2>6, <3>1 DEF Holds
    <2> QED
      BY <2>7, <2>8
  <1>8. QED
    BY <1>5, <1>6, <1>7

(* What comes after the window is not part of its history yet.             *)
LEMMA HistoryAgrees ==
  ASSUME CoreInv, NEW g \in Histories, NEW h \in Histories, NEW b \in Nat, NEW d \in Nat,
         History(g, b, d), \A j \in Nat : j <= b + active_count => h[j] = g[j]
  PROVE  History(h, b, d)
  <1>1. active_count \in Nat /\ h[b] = g[b]
    BY PlaceFacts
  <1>2. ASSUME NEW u \in Live
        PROVE  h[Place(u, b)] = g[Place(u, b)] /\ h[Place(u, b) + 1] = g[Place(u, b) + 1]
    <2>1. PICK i \in Nat : i = Place(u, b) /\ i \in b .. b + active_count - 1
      BY PlaceFacts
    <2>2. i \in Nat /\ i + 1 \in Nat /\ i <= b + active_count /\ i + 1 <= b + active_count
      BY <1>1, <2>1
    <2> QED
      BY <2>1, <2>2
  <1>3. StepsFollow(h, b) /\ ResultsHold(h, b) /\ LoadsHold(h, b)
    BY <1>2 DEF History, StepsFollow, ResultsHold, LoadsHold
  <1>4. OperandsHold(h, b)
    <2> SUFFICES ASSUME NEW u \in Live PROVE OperandsAt(u, g[Place(u, b)], h, b)
      BY <1>2 DEF OperandsHold
    <2>1. PICK s : s = g[Place(u, b)]
      OBVIOUS
    <2>2. OperandsAt(u, s, g, b)
      BY <2>1 DEF History, OperandsHold
    <2>3. ASSUME NEW o \in {inst[u].src1, inst[u].src2, inst[u].store_data}, NEW r,
                 Holds(o, r, s, g, b)
          PROVE  Holds(o, r, s, h, b)
      <3>1. ~o.ready /\ o.tag # NoTag => o.tag \in Live
        BY DEF CoreInv, OperandsWaitForLiveProducers
      <3> QED
        BY <1>2, <2>3, <3>1 DEF Holds
    <2> QED
      BY <2>1, <2>2, <2>3 DEF OperandsAt
  <1>5. StoresHold(h, b, d)
    <2>1. \E m \in Nat : EnteredUpTo(m, b) /\ h[m].stores = d + Len(sb)
      <3>1. PICK m \in Nat : EnteredUpTo(m, b) /\ g[m].stores = d + Len(sb)
        BY DEF History, StoresHold
      <3>2. m <= b + active_count
        BY <3>1 DEF EnteredUpTo
      <3> QED
        BY <3>1, <3>2
    <2>2. \A t \in DoneStores : Entered(t, h[Place(t, b)], d)
      BY <1>2 DEF History, StoresHold, DoneStores
    <2> QED
      BY <1>1, <2>1, <2>2 DEF History, StoresHold
  <1>6. RegsHold(h, b)
    BY <1>1 DEF History, RegsHold
  <1>7. QED
    BY <1>3, <1>4, <1>5, <1>6 DEF History

(* What the renamed instruction knows, and where it is.                    *)
Entering(f, k, d, i) ==
  /\ f = Head(dispatch_reg) /\ k = KindOf(prog[f.pc].op) /\ d = prog[f.pc].d
  /\ i = NewInst(f)

(* Renaming enters one instruction, the first one in the dispatch          *)
(* register.                                                               *)
LEMMA EnteringExists ==
  ASSUME CoreInv, RenameInst
  PROVE  \E f \in Fetched, k \in Kinds, d \in Reg, i \in InstStates : Entering(f, k, d, i)
  <1>1. CoreShapes /\ RuTypeOK
    BY DEF CoreInv, RuInv
  <1>2. PICK f \in Fetched : f = Head(dispatch_reg)
    BY <1>1, HeadTailProperties DEF RenameInst, CanRename, CoreShapes
  <1>3. prog[f.pc] \in Instructions
    BY <1>1, ProgramFacts DEF CoreShapes, Fetched
  <1>4. PICK k \in Kinds, d \in Reg : k = KindOf(prog[f.pc].op) /\ d = prog[f.pc].d
    BY <1>3, KindsOfOps DEF Instructions
  <1>5. PICK i \in InstStates : i = NewInst(f)
    BY <1>1, NewInstFacts
  <1>6. QED
    BY <1>2, <1>4, <1>5 DEF Entering

(* The instruction that enters is the youngest; the others stay where      *)
(* they are.                                                               *)
LEMMA EntersLast ==
  ASSUME CoreInv, CoreInv', RenameInst, NEW b \in Nat,
         NEW f \in Fetched, NEW k \in Kinds, NEW d \in Reg, NEW i \in InstStates,
         Entering(f, k, d, i), NEW n, n = tail
  PROVE  /\ n \in Tags /\ n \notin Live /\ Live' = Live \cup {n}
         /\ inst'[n] = i /\ kind'[n] = k /\ dest_reg'[n] = d /\ ~done'[n]
         /\ active_count \in Nat /\ active_count' = active_count + 1
         /\ AgeFromHead(n)' = active_count /\ Place(n, b)' = b + active_count
         /\ In(n)' = prog[f.pc] /\ Op(n)' = prog[f.pc].op
         /\ \A u \in Live : /\ u \in Tags /\ u # n /\ u \in Live' /\ inst'[u] = inst[u]
                            /\ done'[u] = done[u] /\ AgeFromHead(u)' = AgeFromHead(u)
                            /\ AgeFromHead(u) \in Nat /\ AgeFromHead(u) < active_count
         /\ Stays(b, b) /\ stage = "rename" /\ dispatch_reg # <<>>
         /\ dispatch_reg' = Tail(dispatch_reg)
         /\ UNCHANGED <<prog, stage, value, arf, sb, mem, fetch_pc, ifq, resolving>>
  <1>1. /\ tail \in Tags /\ active_count \in Nat /\ AgeFromHead(tail) = active_count
        /\ Live' = Live \cup {tail} /\ tail \notin Live
        /\ inst'[tail] = i /\ kind'[tail] = k /\ dest_reg'[tail] = d /\ ~done'[tail]
        /\ active_count' = active_count + 1
        /\ stage = "rename" /\ dispatch_reg # <<>> /\ dispatch_reg' = Tail(dispatch_reg)
        /\ UNCHANGED <<prog, stage, value, arf, memVars, fetch_pc, ifq, resolving>>
    BY RenameFacts DEF Entering
  <1>2. \A u \in Live : /\ u \in Tags /\ u # tail /\ inst'[u] = inst[u]
                        /\ kind'[u] = kind[u] /\ dest_reg'[u] = dest_reg[u]
                        /\ done'[u] = done[u]
                        /\ AgeFromHead(u) < AgeFromHead(tail)
    BY RenameFacts DEF Entering
  <1>3. \A t \in Tags : AgeFromHead(t)' = AgeFromHead(t)
    BY RenameFacts DEF Entering
  <1>4. Place(n, b)' = b + active_count /\ AgeFromHead(n)' = active_count
    BY <1>1, <1>3 DEF Place
  <1>5. i.pc = f.pc
    BY NewInstFacts DEF Entering, CoreInv, RuInv
  <1>6. In(n)' = prog[f.pc] /\ Op(n)' = prog[f.pc].op
    BY <1>1, <1>5 DEF In, Op
  <1>7. Stays(b, b)
    BY <1>1, <1>2, <1>3 DEF Stays, Place
  <1>8. \A u \in Live : AgeFromHead(u) \in Nat
    BY PlaceFacts
  <1>9. QED
    BY <1>1, <1>2, <1>3, <1>4, <1>6, <1>7, <1>8 DEF memVars

(* The instruction that enters follows the youngest one.                   *)
LEMMA RenamePath ==
  ASSUME CoreInv, CoreInv', PathInv, RenameInst
  PROVE  PathInv'
  <1>1. PICK f \in Fetched, k \in Kinds, d \in Reg, i \in InstStates : Entering(f, k, d, i)
    BY EnteringExists
  <1>2. PICK n : n = tail
    OBVIOUS
  <1>3. /\ n \in Tags /\ n \notin Live /\ Live' = Live \cup {n}
        /\ inst'[n] = i /\ ~done'[n] /\ Op(n)' = prog[f.pc].op
        /\ active_count \in Nat /\ active_count' = active_count + 1
        /\ AgeFromHead(n)' = active_count
        /\ stage = "rename" /\ dispatch_reg # <<>> /\ dispatch_reg' = Tail(dispatch_reg)
        /\ UNCHANGED <<prog, stage, fetch_pc, ifq, resolving>>
    BY <1>1, <1>2, EntersLast
  <1>4. \A u \in Live : /\ u \in Tags /\ u # n /\ u \in Live' /\ inst'[u] = inst[u]
                        /\ done'[u] = done[u] /\ AgeFromHead(u)' = AgeFromHead(u)
                        /\ AgeFromHead(u) \in Nat /\ AgeFromHead(u) < active_count
    BY <1>1, <1>2, EntersLast
  <1>5. Stays(0, 0)
    BY <1>1, <1>2, EntersLast
  <1>6. /\ i.pc = f.pc /\ ~i.dispatched /\ ~i.addr_computed /\ ~i.br_resolved
        /\ ~i.mispredicted /\ i.predicted_taken = f.predicted_taken
        /\ i.predicted_target = f.predicted_target
        /\ prog[f.pc].op = "load" => i.src2.ready
    <2>1. Ready(0).ready
      BY DEF Ready
    <2>2. i = NewInst(f) /\ CoreShapes /\ RuTypeOK
      BY <1>1 DEF Entering, CoreInv, RuInv
    <2> QED
      BY <2>1, <2>2, NewInstFacts
  <1>7. f = dispatch_reg[1] /\ Len(dispatch_reg) \in Nat \ {0}
    BY <1>1, <1>3, QueueTypes DEF Entering
  <1>8. /\ Chain(dispatch_reg, IfqPc) /\ Chain(ifq, fetch_pc)
        /\ IfqPc' = IfqPc
    BY <1>3 DEF PathInv, QueuesFollow, IfqPc
  <1>9. PICK c \in Nat \ {0} : c = Len(dispatch_reg)
    BY <1>7
  <1>10. /\ \A j \in 1 .. c : /\ NextFetched(dispatch_reg[j]) =
                                   IF j = c THEN IfqPc ELSE dispatch_reg[j + 1].pc
                              /\ dispatch_reg[j].predicted_taken =>
                                   IsControlOp(prog[dispatch_reg[j].pc].op)
    BY <1>8, <1>9 DEF Chain
  <1>11. /\ Len(dispatch_reg') = c - 1
         /\ \A j \in 1 .. c - 1 : dispatch_reg'[j] = dispatch_reg[j + 1]
         /\ dispatch_reg' = <<>> <=> c = 1
    <2>1. /\ Tail(dispatch_reg) \in Seq(Fetched) /\ Len(Tail(dispatch_reg)) = c - 1
          /\ \A j \in 1 .. c - 1 : Tail(dispatch_reg)[j] = dispatch_reg[j + 1]
      BY <1>3, <1>9, QueueTypes, HeadTailProperties
    <2>2. Tail(dispatch_reg) = <<>> <=> Len(Tail(dispatch_reg)) = 0
      BY <2>1, EmptySeq
    <2> QED
      BY <1>3, <1>9, <2>1, <2>2
  <1>12. /\ NextFetched(f) = FrontPc' /\ FrontPc = f.pc
         /\ f.predicted_taken => IsControlOp(prog[f.pc].op)
    <2>1. 1 \in 1 .. c
      BY <1>9
    <2>2. /\ NextFetched(f) = IF 1 = c THEN IfqPc ELSE dispatch_reg[1 + 1].pc
          /\ f.predicted_taken => IsControlOp(prog[f.pc].op)
      BY <1>7, <1>10, <2>1
    <2>3. FrontPc' = IF 1 = c THEN IfqPc ELSE dispatch_reg[1 + 1].pc
      BY <1>8, <1>9, <1>11 DEF FrontPc
    <2>4. FrontPc = f.pc
      BY <1>3, <1>7 DEF FrontPc
    <2> QED
      BY <2>2, <2>3, <2>4
  <1>13. QueuesFollow'
    <2>1. Chain(dispatch_reg, IfqPc)'
      <3> SUFFICES ASSUME NEW j \in 1 .. c - 1
                   PROVE  /\ NextFetched(dispatch_reg'[j]) =
                               IF j = c - 1 THEN IfqPc ELSE dispatch_reg'[j + 1].pc
                          /\ dispatch_reg'[j].predicted_taken =>
                               IsControlOp(prog[dispatch_reg'[j].pc].op)
        BY <1>3, <1>8, <1>11 DEF Chain, NextFetched
      <3>1. j + 1 \in 1 .. c /\ dispatch_reg'[j] = dispatch_reg[j + 1] /\ (j + 1 = c <=> j = c - 1)
        BY <1>9, <1>11
      <3>2. j # c - 1 => dispatch_reg'[j + 1] = dispatch_reg[j + 1 + 1]
        BY <1>9, <1>11
      <3> QED
        BY <1>10, <3>1, <3>2
    <2>2. Chain(ifq, fetch_pc)'
      BY <1>3, <1>8 DEF Chain, NextFetched
    <2> QED
      BY <2>1, <2>2 DEF QueuesFollow
  <1>14. ASSUME NEW u \in Live
         PROVE  SourcesAt(u)' /\ BranchAt(u)' /\ NextOf(u)' = NextOf(u)
    <2>1. SourcesAt(u) /\ BranchAt(u)
      BY DEF PathInv, SourcesAreRead, BranchesHold
    <2>2. /\ u \in Live' /\ ReadyStays(u) /\ SameBranch(u)
          /\ inst'[u].addr_computed => inst[u].src1.ready
          /\ inst'[u].dispatched => inst[u].src1.ready /\ inst[u].src2.ready
          /\ inst[u].dispatched => inst'[u].dispatched
          /\ done'[u] /\ IsControlOp(Op(u)) => inst[u].br_resolved
      BY <1>4, <2>1 DEF ReadyStays, SameBranch, SourcesAt, BranchAt
    <2> QED
      BY <1>5, <2>1, <2>2, PathStays
  <1>15. SourcesAt(n)' /\ BranchAt(n)' /\ NextOf(n)' = FrontPc'
    <2>1. SourcesAt(n)'
      BY <1>3, <1>6 DEF SourcesAt
    <2>2. BranchAt(n)'
      BY <1>3, <1>6, <1>12 DEF BranchAt
    <2>3. NextOf(n)' = FrontPc'
      BY <1>3, <1>6, <1>12 DEF NextOf, NextFetched
    <2> QED
      BY <2>1, <2>2, <2>3
  <1>16. SourcesAreRead' /\ BranchesHold'
    <2>1. resolving' = {}
      BY <1>3 DEF CoreInv, ResolvingAreOpen, StepsOfStage
    <2> QED
      BY <1>3, <1>14, <1>15, <2>1 DEF SourcesAreRead, BranchesHold
  <1>17. WindowFollows'
    <2> SUFFICES ASSUME NEW t \in Live'
                 PROVE  /\ \A u \in Live' : AgeFromHead(u)' = AgeFromHead(t)' + 1 =>
                             inst'[u].pc = NextOf(t)'
                        /\ AgeFromHead(t)' + 1 = active_count' => FrontPc' = NextOf(t)'
      BY DEF WindowFollows
    <2>1. CASE t = n
      <3>1. \A u \in Live' : AgeFromHead(u)' # AgeFromHead(t)' + 1
        BY <1>3, <1>4, <2>1
      <3> QED
        BY <1>15, <2>1, <3>1
    <2>2. CASE t \in Live
      <3>1. AgeFromHead(t)' + 1 # active_count'
        BY <1>3, <1>4, <2>2
      <3>2. ASSUME NEW u \in Live', AgeFromHead(u)' = AgeFromHead(t)' + 1
            PROVE  inst'[u].pc = NextOf(t)
        <4>1. CASE u = n
          <5>1. AgeFromHead(t) + 1 = active_count
            BY <1>3, <1>4, <2>2, <3>2, <4>1
          <5>2. FrontPc = NextOf(t)
            BY <2>2, <5>1 DEF PathInv, WindowFollows
          <5> QED
            BY <1>3, <1>6, <1>12, <4>1, <5>2
        <4>2. CASE u \in Live
          <5>1. AgeFromHead(u) = AgeFromHead(t) + 1 /\ inst'[u] = inst[u]
            BY <1>4, <2>2, <3>2, <4>2
          <5> QED
            BY <2>2, <4>2, <5>1 DEF PathInv, WindowFollows
        <4> QED
          BY <1>3, <4>1, <4>2
      <3> QED
        BY <1>14, <2>2, <3>1, <3>2
    <2> QED
      BY <1>3, <2>1, <2>2
  <1>18. QED
    BY <1>13, <1>16, <1>17 DEF PathInv

(* The history is extended by the step of the instruction that enters.     *)
LEMMA RenameHistory ==
  ASSUME CoreInv, CoreInv', PathInv, RenameInst,
         NEW f \in Fetched, NEW w \in Kinds, NEW e \in Reg, NEW i \in InstStates,
         Entering(f, w, e, i),
         NEW g \in Histories, NEW b \in Nat, NEW d \in Nat, History(g, b, d),
         NEW k \in Nat, k = b + active_count, g[k + 1] = StateAfter(g[k], prog[f.pc], f.pc)
  PROVE  History(g, b, d)'
  <1>1. PICK n : n = tail
    OBVIOUS
  <1>2. /\ n \in Tags /\ n \notin Live /\ Live' = Live \cup {n}
        /\ inst'[n] = i /\ ~done'[n]
        /\ active_count \in Nat /\ active_count' = active_count + 1
        /\ AgeFromHead(n)' = active_count /\ Place(n, b)' = k
        /\ In(n)' = prog[f.pc] /\ Op(n)' = prog[f.pc].op
        /\ Stays(b, b) /\ stage = "rename"
        /\ UNCHANGED <<prog, stage, value, arf, sb, mem>>
    BY <1>1, EntersLast
  <1>3. \A u \in Live : /\ u \in Tags /\ u # n /\ u \in Live' /\ inst'[u] = inst[u]
                        /\ done'[u] = done[u] /\ AgeFromHead(u)' = AgeFromHead(u)
                        /\ AgeFromHead(u) \in Nat /\ AgeFromHead(u) < active_count
    BY <1>1, EntersLast
  <1>4. \A u \in Live : /\ Place(u, b)' = Place(u, b) /\ In(u)' = In(u) /\ Op(u)' = Op(u)
                        /\ kind'[u] = kind[u] /\ dest_reg'[u] = dest_reg[u]
    BY <1>2, <1>3, StayFacts
  <1>5. i = NewInst(f) /\ i.pc = f.pc /\ ~i.dispatched /\ CoreShapes /\ RuTypeOK
    BY NewInstFacts DEF Entering, CoreInv, RuInv
  <1>6. StepsFollow(g, b)'
    <2>1. g[Place(n, b)' + 1] = StateAfter(g[Place(n, b)'], In(n)', inst'[n].pc)
      BY <1>2, <1>5
    <2>2. \A u \in Live : g[Place(u, b)' + 1] = StateAfter(g[Place(u, b)'], In(u)', inst'[u].pc)
      BY <1>3, <1>4 DEF History, StepsFollow
    <2> QED
      BY <1>2, <2>1, <2>2 DEF StepsFollow
  <1>7. OperandsHold(g, b)'
    <2>1. ASSUME NEW u \in Live
          PROVE  OperandsAt(u, g[Place(u, b)], g, b)'
      <3>1. PICK s : s = g[Place(u, b)]
        OBVIOUS
      <3>2. OperandsAt(u, s, g, b) /\ SameOperands(u) /\ u \in Live'
        BY <1>3, <3>1 DEF History, OperandsHold, SameOperands
      <3>3. OperandsAt(u, s, g, b)'
        BY <1>2, <3>2, OperandsStay
      <3> QED
        BY <1>4, <3>1, <3>3
    <2>2. OperandsAt(n, g[Place(n, b)], g, b)'
      <3>1. PICK s : s = g[k]
        OBVIOUS
      <3>2. PICK in \in Instructions : in = prog[f.pc]
        BY <1>5, ProgramFacts DEF CoreShapes, Fetched
      <3>3. ASSUME NEW r \in Reg, NEW o, o = Operand(r)
            PROVE  Holds(o, r, s, g, b)'
        <4>1. Holds(o, r, s, g, b)
          BY <3>1, <3>3, OperandReads
        <4>2. CASE o.ready
          BY <4>1, <4>2 DEF Holds
        <4>3. CASE ~o.ready
          <5>1. PICK p : p = o.tag
            OBVIOUS
          <5>2. /\ p # NoTag /\ r # 0 /\ dest_reg[p] = r
                /\ g[Place(p, b) + 1].regs[r] = s.regs[r]
            BY <4>1, <4>3, <5>1 DEF Holds
          <5>3. p \in Live
            BY <3>3, <4>3, <5>1, <5>2, WaitingOperand
          <5>4. dest_reg'[p] = r /\ Place(p, b)' = Place(p, b)
            BY <1>4, <5>2, <5>3
          <5> QED
            BY <4>3, <5>1, <5>2, <5>4 DEF Holds
        <4> QED
          BY <4>2, <4>3
      <3>4. in.s1 \in Reg /\ in.s2 \in Reg /\ in.d \in Reg
        BY DEF Instructions
      <3>5. PICK p, q, c : p = i.src1 /\ q = i.src2 /\ c = i.store_data
        OBVIOUS
      <3>6. /\ in.op # "jal" => p = Operand(in.s1)
            /\ in.op \in {"add", "beq", "bne"} => q = Operand(in.s2)
            /\ in.op = "store" /\ in.d > 0 => c = Operand(in.d)
            /\ in.op = "store" /\ in.d = 0 => c = NeverReady
        BY <1>5, <3>2, <3>5, NewInstFacts
      <3>7. /\ in.op # "jal" => Holds(p, in.s1, s, g, b)'
            /\ in.op \in {"add", "beq", "bne"} => Holds(q, in.s2, s, g, b)'
            /\ in.op = "store" /\ in.d > 0 => Holds(c, in.d, s, g, b)'
            /\ in.op = "store" /\ in.d = 0 => ~c.ready /\ c.tag = NoTag
        BY <3>3, <3>4, <3>6, OperandStates
      <3>8. OperandsAt(n, s, g, b)'
        BY <1>2, <3>2, <3>5, <3>7 DEF OperandsAt
      <3> QED
        BY <1>2, <3>1, <3>8
    <2> QED
      BY <1>2, <2>1, <2>2 DEF OperandsHold
  <1>8. ResultsHold(g, b)'
    <2>1. ASSUME NEW u \in Live
          PROVE  ResultAt(u, g[Place(u, b)])'
      <3>1. ResultAt(u, g[Place(u, b)])
        BY DEF History, ResultsHold
      <3> QED
        BY <1>2, <1>3, <1>4, <3>1 DEF ResultAt
    <2> QED
      BY <1>2, <2>1 DEF ResultsHold, ResultAt
  <1>9. LoadsHold(g, b)'
    <2>1. ASSUME NEW u \in Live
          PROVE  LoadAt(u, g[Place(u, b)])'
      <3>1. PICK s : s = g[Place(u, b)]
        OBVIOUS
      <3>2. LoadAt(u, s) /\ SourcesAt(u) /\ u \in Live'
        BY <1>3, <3>1 DEF History, LoadsHold, PathInv, SourcesAreRead
      <3>3. \A t \in Live : ReadyStays(t)
        BY <1>3 DEF ReadyStays
      <3>4. \A t \in Live' : Older(t, u)' => t # n
        BY <1>2, <1>3 DEF Older
      <3>5. \A t \in Live' : Older(t, u)' /\ Op(t)' = "store" /\ ~done'[t] =>
              t \in Live /\ ~done[t] /\ ReadyStays(t)
        BY <1>2, <1>3, <3>3, <3>4
      <3>6. MemoryIsCurrent(u, s) /\ ~done'[u] =>
              /\ mem'[Address(u)] = mem[Address(u)]
              /\ \A j \in 1 .. Len(sb') : sb'[j].addr # Address(u)
        BY <1>2 DEF MemoryIsCurrent
      <3>7. /\ inst'[u].dispatched => inst[u].dispatched
            /\ inst'[u].fwd = inst[u].fwd /\ (done[u] => done'[u])
        BY <1>3
      <3>8. LoadAt(u, s)'
        BY <1>2, <3>2, <3>3, <3>5, <3>6, <3>7, LoadStays
      <3> QED
        BY <1>4, <3>1, <3>8
    <2>2. LoadAt(n, g[Place(n, b)])'
      BY <1>2, <1>5 DEF LoadAt
    <2> QED
      BY <1>2, <2>1, <2>2 DEF LoadsHold
  <1>10. RegsHold(g, b)'
    BY <1>2 DEF History, RegsHold
  <1>11. StoresHold(g, b, d)'
    <2>1. DoneStores = {} /\ (DoneStores = {})'
      BY <1>2, NoDoneStores, NoDoneStoresNext
    <2> QED
      BY <1>2, <2>1, StoresStay DEF History
  <1>12. QED
    BY <1>6, <1>7, <1>8, <1>9, <1>10, <1>11 DEF History

(* The history goes on with what the renamed instruction does.             *)
LEMMA RenameInstHistory ==
  ASSUME CoreInv, CoreInv', PathInv, RenameInst,
         NEW g \in Histories, NEW b \in Nat, NEW d \in Nat, History(g, b, d)
  PROVE  PathInv' /\ \E h \in Histories : h[b] = g[b] /\ History(h, b, d)'
  <1>1. PICK f \in Fetched, w \in Kinds, e \in Reg, i \in InstStates : Entering(f, w, e, i)
    BY EnteringExists
  <1>2. PICK k \in Nat : k = b + active_count
    BY PlaceFacts
  <1>3. PICK in \in Instructions, pc \in Nat : in = prog[f.pc] /\ pc = f.pc
    BY ProgramFacts DEF CoreInv, CoreShapes, Fetched
  <1>4. PICK s \in ArchStates : s = StateAfter(g[k], in, pc)
    BY StepInOrder DEF Histories
  <1>5. PICK h \in Histories : h = [g EXCEPT ![k + 1] = s]
    BY DEF Histories
  <1>6. h[k + 1] = s /\ \A j \in Nat : j <= k => h[j] = g[j]
    BY <1>2, <1>5 DEF Histories
  <1>7. History(h, b, d)
    BY <1>2, <1>6, HistoryAgrees
  <1>8. h[k + 1] = StateAfter(h[k], prog[f.pc], f.pc)
    BY <1>2, <1>3, <1>4, <1>6
  <1>9. History(h, b, d)'
    BY <1>1, <1>2, <1>7, <1>8, RenameHistory
  <1>10. h[b] = g[b]
    <2>1. active_count \in Nat
      BY PlaceFacts
    <2> QED
      BY <1>2, <1>6, <2>1
  <1>11. QED
    BY <1>9, <1>10, RenamePath

-------------------------------------------------------------------------------
(* Every step.                                                             *)

(* Steps that touch no instruction in flight keep the history.             *)
LEMMA QuietHistory ==
  ASSUME CoreInv, CoreInv', PathInv,
         \/ EndStores \/ EndResolve \/ DecodeStage \/ UNCHANGED coreVars
         \/ \E taken \in BOOLEAN, target \in Pcs : FetchOne(taken, target),
         NEW g \in Histories, NEW b \in Nat, NEW d \in Nat, History(g, b, d)
  PROVE  PathInv' /\ FrontPc' = FrontPc /\ History(g, b, d)'
  <1>1. PathInv' /\ FrontPc' = FrontPc
    BY QuietPath, DecodePath, FetchPath
  <1>2. UNCHANGED <<robVars, kind, prog, inst, arf, sb, mem>>
    BY DEF EndStores, EndResolve, DecodeStage, FetchOne, coreVars, coreOnly, ruVars,
           renameVars, memVars
  <1>3. QED
    BY <1>1, <1>2, HistoryStays

(* Only a retirement moves the history; nothing else changes the state it  *)
(* has for what is to retire next.                                         *)
LEMMA OrderStep ==
  ASSUME CoreInv, CoreInv', PathInv, [CoreNext]_coreVars, ~CommitInst,
         NEW g \in Histories, NEW b \in Nat, NEW d \in Nat, History(g, b, d)
  PROVE  PathInv' /\ \E h \in Histories, e \in Nat : h[b] = g[b] /\ History(h, b, e)'
  <1>1. ASSUME NEW t \in Tags,
               EnqueueStore(t) \/ ResolveBranch(t) \/ FinishResolve(t) \/ BroadcastCDB(t)
        PROVE  PathInv' /\ History(g, b, d)'
    BY <1>1, EnqueueStoreHistory, ResolveBranchHistory, FinishResolveHistory, BroadcastHistory
  <1>2. CASE EndCommit
    BY <1>2, EndCommitHistory
  <1>3. CASE DispatchStage
    BY <1>3, DispatchStageHistory
  <1>4. CASE RenameInst
    BY <1>4, RenameInstHistory
  <1>5. CASE NextTick
    BY <1>5, NextTickHistory
  <1>6. CASE \/ EndStores \/ EndResolve \/ DecodeStage \/ UNCHANGED coreVars
             \/ \E taken \in BOOLEAN, target \in Pcs : FetchOne(taken, target)
    BY <1>6, QuietHistory
  <1>7. QED
    BY <1>1, <1>2, <1>3, <1>4, <1>5, <1>6 DEF CoreNext

(* The invariant is inductive.                                             *)
LEMMA OrderNextInv == OrderInv /\ [CoreNext]_coreVars => OrderInv'
  <1> SUFFICES ASSUME OrderInv, [CoreNext]_coreVars PROVE OrderInv'
    OBVIOUS
  <1>1. CoreInv /\ CoreInv' /\ PathInv
    BY CoreNextInv DEF OrderInv
  <1>2. PICK g \in Histories, b \in Nat, d \in Nat : History(g, b, d)
    BY DEF OrderInv
  <1>3. PathInv' /\ \E h \in Histories, c \in Nat, e \in Nat : History(h, c, e)'
    <2>1. CASE CommitInst
      <3>1. PathInv' /\ History(g, b + 1, d)'
        BY <1>1, <1>2, <2>1, CommitInstHistory
      <3>2. b + 1 \in Nat
        OBVIOUS
      <3> QED
        BY <3>1, <3>2
    <2>2. CASE ~CommitInst
      <3>1. PathInv' /\ \E h \in Histories, e \in Nat : h[b] = g[b] /\ History(h, b, e)'
        BY <1>1, <1>2, <2>2, OrderStep
      <3> QED
        BY <3>1
    <2> QED
      BY <2>1, <2>2
  <1>4. QED
    BY <1>1, <1>3 DEF OrderInv

(* At the start the history is the initial state, before every             *)
(* instruction.                                                            *)
LEMMA OrderInitInv == CoreInit => OrderInv
  <1> SUFFICES ASSUME CoreInit PROVE OrderInv
    OBVIOUS
  <1>1. CoreInv
    BY CoreInitInv
  <1>2. /\ Live = {} /\ resolving = {} /\ ifq = <<>> /\ dispatch_reg = <<>> /\ sb = <<>>
        /\ arf = [r \in Reg |-> 0] /\ mem = [a \in Val |-> 0]
    BY DEF CoreInit, RuInit, RobInit, Live
  <1>3. PathInv
    BY <1>2 DEF PathInv, SourcesAreRead, BranchesHold, QueuesFollow, Chain, WindowFollows
  <1> DEFINE s == [regs |-> arf, mem |-> mem, stores |-> 0]
             g == [k \in Nat |-> s]
  <1>4. g \in Histories
    <2>1. arf \in [Reg -> Val] /\ mem \in [Val -> Val]
      BY <1>1 DEF CoreInv, CoreShapes
    <2>2. s \in ArchStates
      BY <2>1 DEF ArchStates
    <2> HIDE DEF s
    <2> QED
      BY <2>2 DEF Histories
  <1>5. g[0].regs = arf /\ g[0].mem = mem /\ g[0].stores = 0
    OBVIOUS
  <1> HIDE DEF g
  <1>6. StepsFollow(g, 0) /\ OperandsHold(g, 0) /\ ResultsHold(g, 0) /\ LoadsHold(g, 0)
    BY <1>2 DEF StepsFollow, OperandsHold, ResultsHold, LoadsHold
  <1>7. StoresHold(g, 0, 0)
    <2>1. DoneStores = {}
      BY <1>2 DEF DoneStores
    <2>2. StoresAreSettled
      BY <1>1, <2>1, StoresSettled
    <2>3. Len(sb) = 0
      BY <1>2
    <2>4. Written(sb, mem, 0) = mem
      <3>1. \A a \in Val : Written(sb, mem, 0)[a] = mem[a]
        BY WrittenWord
      <3> QED
        BY <1>1, <3>1 DEF Written, CoreInv, CoreShapes
    <2> QED
      BY <1>4, <1>5, <2>2, <2>3, <2>4 DEF StoresAreSettled
  <1>8. History(g, 0, 0)
    BY <1>5, <1>6, <1>7 DEF History, RegsHold
  <1>9. QED
    BY <1>1, <1>3, <1>4, <1>8 DEF OrderInv

(* The invariant holds in every behaviour of the core.                     *)
LEMMA OrderInvariant == CoreSpec => []OrderInv
  <1>1. CoreInit => OrderInv
    BY OrderInitInv
  <1>2. OrderInv /\ [CoreNext]_coreVars => OrderInv'
    BY OrderNextInv
  <1>3. QED
    BY <1>1, <1>2, PTL DEF CoreSpec

-------------------------------------------------------------------------------
(* What retires is the next instruction in program order.                  *)

FrontIsNext == NextToCommit = IF active_count > 0 THEN inst[head].pc ELSE FrontPc

(* What is to retire next is the head of the window, or what is first      *)
(* behind it.                                                              *)
LEMMA NextIsFront == CoreInv => FrontIsNext
  <1> SUFFICES ASSUME CoreInv PROVE FrontIsNext
    OBVIOUS
  <1>1. dispatch_reg \in Seq(Fetched) /\ ifq \in Seq(Fetched)
    BY QueueTypes
  <1>2. Head(dispatch_reg) = dispatch_reg[1] /\ Head(ifq) = ifq[1]
    BY <1>1
  <1>3. QED
    BY <1>2 DEF FrontIsNext, NextToCommit, FrontPc, IfqPc

(* The same after a step.                                                  *)
LEMMA NextIsFrontNext ==
  ASSUME CoreInv'
  PROVE  NextToCommit' = IF active_count' > 0 THEN inst'[head'].pc ELSE FrontPc'
  <1>1. FrontIsNext'
    BY NextIsFront, PTL
  <1>2. QED
    BY <1>1 DEF FrontIsNext

(* Until something retires, what is to retire next stays the same.         *)
LEMMA NextStays ==
  ASSUME CoreInv, CoreInv', PathInv, [CoreNext]_coreVars, ~CommitInst
  PROVE  NextToCommit' = NextToCommit
  <1>1. CoreShapes /\ head \in Tags /\ active_count \in Nat
    BY PlaceFacts DEF CoreInv, RuInv, RobInv, RobTypeOK
  <1>2. active_count > 0 => head \in Live
    BY HeadIsFirst
  <1>3. ASSUME FrontPc' = FrontPc, head' = head, active_count' = active_count,
               inst'[head].pc = inst[head].pc
        PROVE  NextToCommit' = NextToCommit
    BY <1>3, NextIsFront, NextIsFrontNext DEF FrontIsNext
  <1>4. ASSUME NEW t \in Tags, EnqueueStore(t) \/ BroadcastCDB(t)
        PROVE  NextToCommit' = NextToCommit
    <2>1. /\ inst' = [inst EXCEPT ![t].completed = TRUE] /\ UNCHANGED frontVars
          /\ UNCHANGED <<head, active_count>>
      BY <1>4 DEF EnqueueStore, BroadcastCDB, Complete, WriteResult
    <2>2. inst'[head].pc = inst[head].pc
      BY <1>1, <2>1, CompletedInst
    <2> QED
      BY <1>3, <2>1, <2>2 DEF FrontPc, IfqPc, frontVars
  <1>5. ASSUME NEW t \in Tags, FinishResolve(t)
        PROVE  NextToCommit' = NextToCommit
    <2>1. UNCHANGED frontVars /\ UNCHANGED <<head, active_count>>
      BY <1>5 DEF FinishResolve, Complete, WriteResult, ruVars, robVars
    <2>2. inst'[head].pc = inst[head].pc
      BY <1>1, <1>5, CompletedInst DEF FinishResolve
    <2> QED
      BY <1>3, <2>1, <2>2 DEF FrontPc, IfqPc, frontVars
  <1>6. ASSUME NEW t \in Tags, ResolveBranch(t)
        PROVE  NextToCommit' = NextToCommit
    <2>1. /\ t \in Live /\ head' = head
          /\ Live' = IF Mispredicted(t) THEN Live \ YoungerThan(t) ELSE Live
          /\ \A u \in Live' : inst'[u].pc = inst[u].pc
      BY <1>6, ResolveFacts
    <2>2. active_count > 0 /\ AgeFromHead(t) \in Nat
      BY <1>1, <2>1, LiveAges
    <2>3. AgeFromHead(head) = 0
      <3>1. Place(head, 0) = 0 /\ AgeFromHead(head) \in Nat
        BY <1>2, <2>2, HeadIsFirst, PlaceFacts
      <3> QED
        BY <3>1 DEF Place
    <2>4. head \in Live'
      BY <1>2, <2>1, <2>2, <2>3 DEF YoungerThan, IsYounger
    <2>5. active_count' > 0
      <3>1. /\ active_count' \in Nat
            /\ \A u \in Live' : AgeFromHead(u)' \in Nat /\ AgeFromHead(u)' < active_count'
        BY LiveAgesNext
      <3> QED
        BY <2>4, <3>1
    <2> QED
      BY <2>1, <2>2, <2>4, <2>5, NextIsFront, NextIsFrontNext DEF FrontIsNext
  <1>7. CASE EndCommit \/ EndStores \/ EndResolve \/ UNCHANGED coreVars
    <2>1. UNCHANGED <<inst, head, active_count>> /\ UNCHANGED frontVars
      BY <1>7 DEF EndCommit, EndStores, EndResolve, EnterStage, coreVars, coreOnly, ruVars,
                  robVars, frontVars
    <2> QED
      BY <1>3, <2>1 DEF FrontPc, IfqPc, frontVars
  <1>8. CASE DecodeStage \/ \E taken \in BOOLEAN, target \in Pcs : FetchOne(taken, target)
    <2>1. UNCHANGED <<inst, head, active_count>>
      BY <1>8 DEF DecodeStage, FetchOne, ruVars, robVars
    <2>2. FrontPc' = FrontPc
      BY <1>8, DecodePath, FetchPath
    <2> QED
      BY <1>3, <2>1, <2>2
  <1>9. CASE DispatchStage
    <2>1. inst'[head].pc = inst[head].pc /\ UNCHANGED <<robVars, frontVars>>
      BY <1>1, <1>9, DispatchFacts
    <2> QED
      BY <1>3, <2>1 DEF FrontPc, IfqPc, frontVars, robVars
  <1>10. CASE NextTick
    <2>1. inst'[head].pc = inst[head].pc /\ UNCHANGED <<robVars, frontVars>>
      BY <1>1, <1>10, TickFacts
    <2> QED
      BY <1>3, <2>1 DEF FrontPc, IfqPc, frontVars, robVars
  <1>11. CASE RenameInst
    <2>1. PICK f \in Fetched, k \in Kinds, d \in Reg, i \in InstStates : Entering(f, k, d, i)
      BY <1>11, EnteringExists
    <2>2. PICK n : n = tail
      OBVIOUS
    <2>3. /\ active_count' = active_count + 1 /\ inst'[n] = i /\ dispatch_reg # <<>>
          /\ \A u \in Live : inst'[u] = inst[u]
      BY <1>11, <2>1, <2>2, RenameFacts DEF Entering
    <2>4. i.pc = f.pc /\ f = dispatch_reg[1] /\ FrontPc = f.pc
      <3>1. i.pc = f.pc
        BY <2>1, NewInstFacts DEF Entering, CoreInv, RuInv
      <3>2. f = dispatch_reg[1]
        BY <2>1, QueueTypes DEF Entering
      <3> QED
        BY <2>3, <3>1, <3>2 DEF FrontPc
    <2>5. head' = head
      BY <1>11 DEF RenameInst, RenameOne, Dispatch
    <2>6. active_count = 0 => n = head
      <3>1. tail = (head + active_count) % Capacity /\ active_count \in 0 .. Capacity
        BY DEF CoreInv, RuInv, RobInv, RobTypeOK, BusyIsWindow
      <3> QED
        <4>1. tail = IF head + active_count < Capacity THEN head + active_count
                                                       ELSE head + active_count - Capacity
          BY <1>1, <3>1, WrapAround
        <4>2. head \in Nat /\ head < Capacity /\ Capacity \in Nat
          BY <1>1, RobAssumption DEF Tags
        <4> QED
          BY <2>2, <4>1, <4>2
    <2> QED
      BY <1>1, <1>2, <2>3, <2>4, <2>5, <2>6, NextIsFront, NextIsFrontNext DEF FrontIsNext
  <1>12. QED
    BY <1>4, <1>5, <1>6, <1>7, <1>8, <1>9, <1>10, <1>11 DEF CoreNext

(* After a retirement it is what the instruction that retired says.        *)
LEMMA NextFollows ==
  ASSUME CoreInv, CoreInv', PathInv, CommitInst
  PROVE  NextToCommit' = NextOf(head)
  <1>1. /\ head \in Live /\ active_count \in Nat \ {0} /\ Live' = Live \ {head}
        /\ 0 + 1 + active_count' = 0 + active_count
        /\ \A u \in Live' : inst'[u] = inst[u]
    BY CommitStays
  <1>2. PICK n \in Nat \ {0} : n = active_count /\ active_count' = n - 1
    <2>1. active_count' \in Nat
      BY LiveAgesNext
    <2>2. PICK n \in Nat \ {0}, m \in Nat : n = active_count /\ m = active_count'
      BY <1>1, <2>1
    <2>3. 0 + 1 + m = 0 + n
      BY <1>1, <2>2
    <2>4. m = n - 1
      BY <2>3
    <2> QED
      BY <2>2, <2>4
  <1>3. head \in Tags /\ AgeFromHead(head) = 0 /\ n <= Capacity /\ head' = (head + 1) % Capacity
    <2>1. Place(head, 0) = 0 /\ AgeFromHead(head) \in Nat /\ active_count <= Capacity
      BY <1>1, HeadIsFirst, PlaceFacts
    <2> QED
      BY <1>2, <2>1 DEF Place, CommitInst, CommitOne, Commit, CoreInv, RuInv, RobInv, RobTypeOK
  <1>4. FrontPc' = FrontPc
    BY DEF CommitInst, FrontPc, IfqPc, frontVars
  <1>5. CASE n = 1
    <2>1. FrontPc = NextOf(head)
      BY <1>1, <1>2, <1>3, <1>5 DEF PathInv, WindowFollows
    <2> QED
      BY <1>2, <1>4, <1>5, <2>1, NextIsFrontNext
  <1>6. CASE n # 1
    <2>1. PICK u : u = head'
      OBVIOUS
    <2>2. PICK c \in Nat, h \in Nat : c = Capacity /\ h = head /\ 1 < c /\ h < c
      BY <1>2, <1>3, <1>6, RobAssumption DEF Tags
    <2>3. u \in Tags /\ u = IF h = c - 1 THEN 0 ELSE h + 1
      BY <1>3, <2>1, <2>2, SuccessorTag
    <2>4. AgeFromHead(u) = 1
      <3>1. AgeFromHead(u) = IF u >= h THEN u - h ELSE u - h + c
        BY <1>3, <2>2, <2>3, AgeIsPosition
      <3> QED
        BY <2>2, <2>3, <3>1
    <2>5. u \in Live
      <3>1. busy[u] <=> AgeFromHead(u) < active_count
        BY <2>3 DEF CoreInv, RuInv, RobInv, BusyIsWindow
      <3> QED
        BY <1>2, <1>6, <2>3, <2>4, <3>1 DEF Live
    <2>6. inst[u].pc = NextOf(head)
      BY <1>1, <1>3, <2>4, <2>5 DEF PathInv, WindowFollows
    <2>7. inst'[u] = inst[u]
      BY <1>1, <1>3, <2>4, <2>5
    <2> QED
      BY <1>2, <1>6, <2>1, <2>6, <2>7, NextIsFrontNext
  <1>7. QED
    BY <1>5, <1>6

(* What retires has gone the right way.                                    *)
LEMMA RetiredGoesOn ==
  ASSUME CoreInv, PathInv, NEW g \in Histories, NEW b \in Nat, OperandsHold(g, b),
         NEW t \in Live, done[t], NEW s \in ArchStates, s = g[Place(t, b)]
  PROVE  NextOf(t) = PcAfter(s, In(t), inst[t].pc)
  <1>1. BranchAt(t) /\ SourcesAt(t) /\ Op(t) = In(t).op
    BY InFacts DEF PathInv, BranchesHold, SourcesAreRead
  <1>2. CASE IsControlOp(Op(t))
    <2>1. inst[t].br_resolved /\ inst[t].src1.ready /\ inst[t].src2.ready
      BY <1>1, <1>2 DEF BranchAt, SourcesAt
    <2>2. ActualNext(t) = PcAfter(s, In(t), inst[t].pc)
      BY <1>2, <2>1, ResolvedAsInOrder
    <2>3. ~inst[t].mispredicted => NextFetched(inst[t]) = ActualNext(t)
      <3>1. ~inst[t].mispredicted => ~Mispredicted(t)
        BY <1>1, <2>1 DEF BranchAt
      <3>2. Taken(t) \in BOOLEAN
        BY <1>2 DEF Taken, IsControlOp
      <3>3. inst[t].predicted_taken \in BOOLEAN
        BY InFacts, InstFacts DEF CoreInv, InstStates
      <3> QED
        BY <3>1, <3>2, <3>3 DEF Mispredicted, NextFetched, ActualNext
    <2> QED
      BY <2>2, <2>3 DEF NextOf
  <1>3. CASE ~IsControlOp(Op(t))
    <2>1. ~inst[t].mispredicted /\ ~inst[t].predicted_taken
      BY <1>1, <1>3 DEF BranchAt
    <2>2. ~TakenIn(s, In(t))
      BY <1>1, <1>3 DEF TakenIn, IsControlOp
    <2> QED
      BY <2>1, <2>2 DEF NextOf, NextFetched, PcAfter
  <1>4. QED
    BY <1>2, <1>3

(* A word fits in a word.                                                  *)
LEMMA WrapOfVal == \A v \in Val : Wrap(v) = v
  <1>1. PICK n \in Nat \ {0} : n = Cardinality(Val)
    BY CoreAssumption
  <1>2. Val = 0 .. n - 1
    BY <1>1, CoreAssumption
  <1>3. \A v \in 0 .. n - 1 : v % n = v
    OBVIOUS
  <1>4. QED
    BY <1>1, <1>2, <1>3 DEF Wrap

(* A step in program order is a step of the in-order machine.              *)
LEMMA StepIsGolden ==
  ASSUME NEW s \in ArchStates, NEW in \in Instructions, NEW pc \in Nat,
         prog' = prog, pc \in DOMAIN prog, in = prog[pc],
         in.op \in {"beq", "bne"} => in.d = 0,
         NextToCommit = pc, arf = s.regs, Drained(RetiredInSb) = s.mem,
         NextToCommit' = PcAfter(s, in, pc),
         arf' = StateAfter(s, in, pc).regs,
         Drained(RetiredInSb)' = StateAfter(s, in, pc).mem
  PROVE  Golden!GoldenNext
  <1>1. /\ in.d \in Reg /\ in.s1 \in Reg /\ in.s2 \in Reg /\ in.d \in Nat
        /\ in.op \in {"addi", "add", "load", "store", "beq", "bne", "jal", "jalr"}
    BY DEF Instructions, Reg
  <1>2. \A r : Golden!ReadReg(r) = ReadIn(s, r)
    BY DEF Golden!ReadReg, ReadIn
  <1>3. \A x : Golden!Wrap(x) = Wrap(x)
    BY DEF Golden!Wrap, Wrap, Golden!Cardinality, Cardinality
  <1>4. Golden!Address(in) = AddressIn(s, in)
    BY <1>2, <1>3 DEF Golden!Address, AddressIn
  <1>5. /\ arf' = IF Writes(KindOf(in.op), in.d)
                    THEN [arf EXCEPT ![in.d] = ResultIn(s, in, pc)] ELSE arf
        /\ Drained(RetiredInSb)' =
             IF in.op = "store"
               THEN [Drained(RetiredInSb) EXCEPT ![AddressIn(s, in)] = ReadIn(s, in.d)]
               ELSE Drained(RetiredInSb)
    BY DEF StateAfter
  <1>6. ASSUME NEW v, Wrap(v) = ResultIn(s, in, pc), in.op \notin {"store", "beq", "bne"}
        PROVE  Golden!WriteReg(in.d, v)
    <2>1. Writes(KindOf(in.op), in.d) <=> in.d # 0
      BY <1>1, <1>6 DEF Writes, KindOf, IsControlOp, IsJump
    <2> QED
      BY <1>3, <1>5, <1>6, <2>1 DEF Golden!WriteReg
  <1>7. CASE in.op \in {"add", "addi"}
    <2>1. Golden!Arith(in)
      <3>1. Wrap(ReadIn(s, in.s1) + (IF in.op = "addi" THEN in.imm ELSE ReadIn(s, in.s2)))
              = ResultIn(s, in, pc)
        BY <1>7 DEF ResultIn, AddressIn
      <3>2. NextToCommit' = NextToCommit + 1
        BY <1>7 DEF PcAfter, TakenIn, IsJump
      <3>3. Golden!WriteReg(in.d, Golden!ReadReg(in.s1) +
               (IF in.op = "addi" THEN in.imm ELSE Golden!ReadReg(in.s2)))
        BY <1>2, <1>6, <1>7, <3>1
      <3> QED
        BY <1>5, <1>7, <3>2, <3>3 DEF Golden!Arith
    <2> QED
      BY <2>1 DEF Golden!GoldenNext
  <1>8. CASE in.op = "load"
    <2>1. Golden!Load(in)
      <3>1. Wrap(s.mem[AddressIn(s, in)]) = ResultIn(s, in, pc)
        <4>1. s.mem[AddressIn(s, in)] \in Val
          BY InstructionResults DEF ArchStates
        <4> QED
          BY <1>8, <4>1, WrapOfVal DEF ResultIn
      <3>2. NextToCommit' = NextToCommit + 1
        BY <1>8 DEF PcAfter, TakenIn, IsJump
      <3> QED
        BY <1>4, <1>5, <1>6, <1>8, <3>1, <3>2 DEF Golden!Load
    <2> QED
      BY <2>1 DEF Golden!GoldenNext
  <1>9. CASE in.op = "store"
    <2>1. Golden!Store(in)
      <3>1. NextToCommit' = NextToCommit + 1
        BY <1>9 DEF PcAfter, TakenIn, IsJump
      <3>2. arf' = arf
        <4>1. ~Writes(KindOf(in.op), in.d)
          BY <1>9, KindsOfOps DEF Writes
        <4> QED
          BY <1>5, <4>1
      <3> QED
        BY <1>2, <1>4, <1>5, <1>9, <3>1, <3>2 DEF Golden!Store
    <2> QED
      BY <2>1 DEF Golden!GoldenNext
  <1>10. CASE in.op \in {"beq", "bne"}
    <2>1. Golden!Branch(in)
      <3>1. NextToCommit' = IF (ReadIn(s, in.s1) = ReadIn(s, in.s2)) <=> (in.op = "beq")
                              THEN in.imm ELSE NextToCommit + 1
        BY <1>10 DEF PcAfter, TakenIn, IsJump
      <3>2. arf' = arf
        <4>1. ~Writes(KindOf(in.op), in.d)
          BY <1>10 DEF Writes
        <4> QED
          BY <1>5, <4>1
      <3> QED
        BY <1>2, <1>5, <1>10, <3>1, <3>2 DEF Golden!Branch
    <2> QED
      BY <2>1 DEF Golden!GoldenNext
  <1>11. CASE in.op \in {"jal", "jalr"}
    <2>1. Golden!JumpAndLink(in)
      <3>1. Wrap(NextToCommit + 1) = ResultIn(s, in, pc)
        BY <1>11 DEF ResultIn
      <3>2. NextToCommit' = IF in.op = "jal" THEN in.imm ELSE AddressIn(s, in)
        BY <1>11 DEF PcAfter, TakenIn, IsJump
      <3> QED
        BY <1>4, <1>5, <1>6, <1>11, <3>1, <3>2 DEF Golden!JumpAndLink
    <2> QED
      BY <2>1 DEF Golden!GoldenNext
  <1>12. QED
    BY <1>1, <1>7, <1>8, <1>9, <1>10, <1>11

(* The history's present is what the in-order machine sees.                *)
ArchIsHistory ==
  \A g \in Histories, b, d \in Nat :
    History(g, b, d) => arf = g[b].regs /\ Drained(RetiredInSb) = g[b].mem

(* It is: the present of any history of the core.                          *)
LEMMA HistoryIsArch == ArchIsHistory
  BY DEF ArchIsHistory, History, RegsHold, StoresHold, Drained, Written

(* The same after a step.                                                  *)
LEMMA HistoryIsArchNext ==
  ASSUME NEW g \in Histories, NEW b \in Nat, NEW d \in Nat, History(g, b, d)'
  PROVE  arf' = g[b].regs /\ Drained(RetiredInSb)' = g[b].mem
  <1>1. ArchIsHistory'
    BY HistoryIsArch, PTL
  <1>2. QED
    BY <1>1 DEF ArchIsHistory

(* No step changes the program.                                            *)
LEMMA ProgStays == [CoreNext]_coreVars => prog' = prog
  <1> SUFFICES ASSUME [CoreNext]_coreVars PROVE prog' = prog
    OBVIOUS
  <1>1. ASSUME NEW t \in Tags,
               EnqueueStore(t) \/ ResolveBranch(t) \/ FinishResolve(t) \/ BroadcastCDB(t)
        PROVE  prog' = prog
    BY <1>1 DEF EnqueueStore, ResolveBranch, FinishResolve, BroadcastCDB
  <1>2. CASE EndStores \/ CommitInst \/ EndCommit \/ EndResolve
    BY <1>2 DEF EndStores, CommitInst, EndCommit, EndResolve
  <1>3. CASE RenameInst \/ DispatchStage \/ DecodeStage \/ NextTick
    BY <1>3 DEF RenameInst, DispatchStage, DecodeStage, NextTick
  <1>4. ASSUME NEW taken \in BOOLEAN, NEW target \in Pcs, FetchOne(taken, target)
        PROVE  prog' = prog
    BY <1>4 DEF FetchOne
  <1>5. CASE UNCHANGED coreVars
    BY <1>5 DEF coreVars, coreOnly
  <1>6. QED
    BY <1>1, <1>2, <1>3, <1>4, <1>5 DEF CoreNext

(* A retirement is a step of the in-order machine.                         *)
LEMMA CommitIsGolden ==
  ASSUME CoreInv, CoreInv', PathInv, CommitInst,
         NEW g \in Histories, NEW b \in Nat, NEW d \in Nat, History(g, b, d)
  PROVE  Golden!GoldenNext
  <1>1. head \in Live /\ done[head] /\ Place(head, b) = b /\ active_count > 0
    <2>1. head \in Live /\ done[head] /\ Place(head, b) = b /\ active_count \in Nat \ {0}
      BY CommitStays
    <2> QED
      BY <2>1
  <1>2. PICK s \in ArchStates, in \in Instructions, pc \in Nat :
          s = g[b] /\ in = In(head) /\ pc = inst[head].pc
    BY <1>1, InFacts DEF Histories
  <1>3. prog' = prog
    BY DEF CommitInst
  <1>4. /\ pc \in DOMAIN prog /\ in = prog[pc]
        /\ in.op \in {"beq", "bne"} => in.d = 0
    BY <1>1, <1>2, InFacts, InstFacts DEF In, CoreInv
  <1>5. NextToCommit = pc
    BY <1>1, <1>2, NextIsFront DEF FrontIsNext
  <1>6. arf = s.regs /\ Drained(RetiredInSb) = s.mem
    BY <1>2, HistoryIsArch DEF ArchIsHistory
  <1>7. g[b + 1] = StateAfter(s, in, pc)
    BY <1>1, <1>2 DEF History, StepsFollow
  <1>8. arf' = g[b + 1].regs /\ Drained(RetiredInSb)' = g[b + 1].mem
    <2>1. History(g, b + 1, d)'
      BY CommitInstHistory
    <2>2. PICK c \in Nat : c = b + 1
      OBVIOUS
    <2>3. History(g, c, d)'
      BY <2>1, <2>2
    <2> QED
      BY <2>2, <2>3, HistoryIsArchNext
  <1>9. NextToCommit' = PcAfter(s, in, pc)
    <2>1. OperandsHold(g, b)
      BY DEF History
    <2> QED
      BY <1>1, <1>2, <2>1, NextFollows, RetiredGoesOn
  <1>10. QED
    BY <1>2, <1>3, <1>4, <1>5, <1>6, <1>7, <1>8, <1>9, StepIsGolden

(* Every step of the core is a step of the in-order machine, or leaves     *)
(* what that machine is seen to have unchanged.                            *)
LEMMA StepImplements ==
  ASSUME OrderInv, OrderInv', [CoreNext]_coreVars
  PROVE  Golden!GoldenNext \/ UNCHANGED Golden!goldenVars
  <1>1. CoreInv /\ CoreInv' /\ PathInv
    BY DEF OrderInv
  <1>2. PICK g \in Histories, b \in Nat, d \in Nat : History(g, b, d)
    BY DEF OrderInv
  <1>3. CASE CommitInst
    BY <1>1, <1>2, <1>3, CommitIsGolden
  <1>4. CASE ~CommitInst
    <2>1. PICK h \in Histories, e \in Nat : h[b] = g[b] /\ History(h, b, e)'
      BY <1>1, <1>2, <1>4, OrderStep
    <2>2. arf' = h[b].regs /\ Drained(RetiredInSb)' = h[b].mem
      BY <2>1, HistoryIsArchNext
    <2>3. arf = g[b].regs /\ Drained(RetiredInSb) = g[b].mem
      BY <1>2, HistoryIsArch DEF ArchIsHistory
    <2>4. NextToCommit' = NextToCommit /\ prog' = prog
      BY <1>1, <1>4, NextStays, ProgStays
    <2> QED
      BY <2>1, <2>2, <2>3, <2>4 DEF Golden!goldenVars
  <1>5. QED
    BY <1>3, <1>4

(* The core starts where the in-order machine starts.                      *)
LEMMA InitImplements == CoreInit => Golden!GoldenInit
  <1> SUFFICES ASSUME CoreInit PROVE Golden!GoldenInit
    OBVIOUS
  <1>1. /\ active_count = 0 /\ ifq = <<>> /\ dispatch_reg = <<>> /\ fetch_pc = 0 /\ sb = <<>>
        /\ arf = [r \in Reg |-> 0] /\ mem = [a \in Val |-> 0] /\ prog \in Programs
    BY DEF CoreInit, RuInit, RobInit
  <1>2. NextToCommit = 0
    BY <1>1 DEF NextToCommit
  <1>3. RetiredInSb = 0
    <2>1. PICK g \in Histories, b \in Nat, d \in Nat : History(g, b, d)
      BY OrderInitInv DEF OrderInv
    <2>2. RetiredInSb \in 0 .. Len(sb) /\ Len(sb) = 0
      BY <1>1, <2>1 DEF History, StoresHold
    <2> QED
      BY <2>2
  <1>4. Drained(0) = [a \in Val |-> 0]
    <2>1. \A a \in Val : Written(sb, mem, 0)[a] = mem[a]
      BY WrittenWord
    <2>2. Written(sb, mem, 0) = [a \in Val |-> Written(sb, mem, 0)[a]]
      BY DEF Written
    <2>3. \A a \in Val : Written(sb, mem, 0)[a] = 0
      BY <1>1, <2>1
    <2>4. Drained(0) = Written(sb, mem, 0)
      BY DEF Drained, Written
    <2> QED
      BY <2>2, <2>3, <2>4
  <1>5. QED
    BY <1>1, <1>2, <1>3, <1>4 DEF Golden!GoldenInit, Reg

(* For every program and every size of the machine: whatever the latencies *)
(* of the units, the predictions and the order of the results on the bus,  *)
(* the instructions retire in program order, and the registers and the     *)
(* memory after each retirement are those of the in-order machine of       *)
(* golden/golden_model.cpp: no wrong path leaves a trace, no load reads an *)
(* older or a younger store's word.                                        *)
THEOREM CoreImplementsInOrder == CoreSpec => ImplementsInOrder
  <1>1. CoreInit => Golden!GoldenInit
    BY InitImplements
  <1>2. OrderInv /\ OrderInv' /\ [CoreNext]_coreVars => [Golden!GoldenNext]_(Golden!goldenVars)
    BY StepImplements
  <1>3. CoreSpec => []OrderInv
    BY OrderInvariant
  <1>4. QED
    BY <1>1, <1>2, <1>3, PTL DEF CoreSpec, ImplementsInOrder, Golden!GoldenSpec
===============================================================================
