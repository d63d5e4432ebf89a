------------------------------- MODULE OoOCore -------------------------------
(***************************************************************************)
(* The out-of-order core: the whole of Processor::tick, stage by stage,    *)
(* around the rename unit.  What one tick does, in order:                  *)
(*   - results broadcast in the last tick wake their consumers;            *)
(*   - commit: finished stores enter the store buffer, then the oldest     *)
(*     instructions retire;                                                *)
(*   - writeback: control instructions resolve, oldest first, recovering   *)
(*     from mispredictions; then results go over the common data bus;      *)
(*   - dispatch: addresses are computed, ready instructions leave the      *)
(*     reservation station, unblocked loads start;                         *)
(*   - rename, decode, fetch.                                              *)
(* `stage' (of RenameUnit) and `step' say where the tick is; `lane' counts *)
(* what the current step has handled.                                      *)
(*                                                                         *)
(* Abstracted: how long an execution unit or the memory takes, which ready *)
(* instruction gets a unit and which results get the bus are choices; the  *)
(* predictors may take or not take any branch, and may send a jump through *)
(* a register anywhere.  Memory behaves as in the ideal memory system:     *)
(* stores leave the store buffer in order.  All accesses are of whole      *)
(* words, store-to-load forwarding is on.  addi, add, load, store, beq,    *)
(* bne are the instructions of the traces, jal and jalr those of the hex   *)
(* programs; call and ret are left out.  PCs count instructions.           *)
(***************************************************************************)
EXTENDS RenameUnit, Sequences, FiniteSetsExt

CONSTANTS Programs,    \* the programs that may be run
          Width,       \* config.width, also max_mem_ports
          RsSize,      \* reservation station entries
          LsqSize,     \* load/store queue entries
          SbDepth,     \* store buffer entries
          IfqSize,     \* instruction fetch queue entries
          CdbWidth     \* results per tick on the common data bus

VARIABLES
  prog,          \* pc -> instruction [op, d, s1, s2, imm]
  step, lane,
  arf,           \* architectural registers
  inst,          \* InstInfo by tag (inst_table), with its place in the queues
  wakeups,       \* cdb_wakeup_pending_
  sb,            \* committed store buffer, oldest first
  mem,           \* main memory
  fetch_pc,
  ifq,           \* InstructionFetchQueue
  dispatch_reg,  \* DispatchReg, the lanes not yet renamed
  resolving      \* branch unit outputs still to be handled in this tick

frontVars == <<fetch_pc, ifq, dispatch_reg>>
memVars   == <<sb, mem>>
coreOnly  == <<prog, step, lane, arf, inst, wakeups, memVars, frontVars,
               resolving>>
coreVars  == <<ruVars, coreOnly>>

Steps == {"stores", "commit", "resolve", "broadcast", "rename", "fetch"}

-------------------------------------------------------------------------------
(* Instructions in flight.                                                 *)

IsJump(op)      == op \in {"jal", "jalr"}
IsControlOp(op) == op \in {"beq", "bne"} \/ IsJump(op)

Instructions == [op : {"addi", "add", "load", "store", "beq", "bne", "jal", "jalr"},
                 d : Reg, s1 : Reg, s2 : Reg, imm : Int]

(* A program starts at 0.  Its branches have no destination register, as   *)
(* in all traces and by decodeInstruction, and name targets of the model.  *)
IsProgram(p) ==
  LET n == Cardinality(DOMAIN p)
  IN  /\ n \in Nat \ {0}
      /\ p \in [0 .. n - 1 -> Instructions]
      /\ \A pc \in DOMAIN p :
           /\ p[pc].op \in {"beq", "bne"} => p[pc].d = 0
           /\ p[pc].op \in {"beq", "bne", "jal"} => p[pc].imm \in Val \cup (0 .. n)

ASSUME CoreAssumption ==
  /\ {Width, RsSize, LsqSize, SbDepth, IfqSize, CdbWidth}
       \subseteq Nat \ {0}
  /\ Cardinality(Val) \in Nat \ {0}
  /\ Val = 0 .. Cardinality(Val) - 1
  /\ \A p \in Programs : IsProgram(p)

Wrap(x) == x % Cardinality(Val)

KindOf(op) == CASE op = "store"      -> "store"
                [] IsControlOp(op)   -> "control"
                [] OTHER             -> "plain"

Ready(v) == [ready |-> TRUE, tag |-> NoTag, val |-> v]
NeverReady == [ready |-> FALSE, tag |-> NoTag, val |-> 0]

NeedsMemory == -1      \* a load whose value is still to come from memory

NoInst == [pc |-> 0, predicted_taken |-> FALSE, predicted_target |-> 0,
           src1 |-> Ready(0), src2 |-> Ready(0), store_data |-> NeverReady,
           addr_computed |-> FALSE, dispatched |-> FALSE, fwd |-> NeedsMemory,
           br_resolved |-> FALSE, mispredicted |-> FALSE, completed |-> FALSE]

Op(t)      == prog[inst[t].pc].op
Imm(t)     == prog[inst[t].pc].imm
IsMem(t)   == Op(t) \in {"load", "store"}
HasLink(t) == IsJump(Op(t)) /\ dest_reg[t] > 0
Address(t) == Wrap(inst[t].src1.val + Imm(t))

Live == {t \in Tags : busy[t]}
Older(u, t) == AgeFromHead(u) < AgeFromHead(t)

(* A store leaves the load/store queue for the store buffer, a load when   *)
(* it commits; the others leave the reservation station for a unit.        *)
InLsq == {t \in Live : Op(t) = "load" \/ (Op(t) = "store" /\ ~done[t])}
InRs  == {t \in Live : ~IsMem(t) /\ ~inst[t].dispatched}

CoreInit ==
  /\ RuInit
  /\ prog \in Programs
  /\ step = "stores" /\ lane = 0
  /\ arf = [r \in Reg |-> 0]
  /\ inst = [t \in Tags |-> NoInst]
  /\ wakeups = {}
  /\ sb = <<>>
  /\ mem = [a \in Val |-> 0]
  /\ fetch_pc = 0
  /\ ifq = <<>> /\ dispatch_reg = <<>>
  /\ resolving = {}

-------------------------------------------------------------------------------
(* Commit.                                                                 *)

StorePermitted_AnyAge(t) ==                 \* mutant: older entries ignored
  Op(t) = "store" /\ ~done[t] /\ AgeFromHead(t) < Width
(* storeCommitPermissions: among the Width oldest, a store with nothing    *)
(* unfinished before it and no mispredicted branch awaiting retirement.    *)
StorePermitted(t) ==
  /\ Op(t) = "store" /\ ~done[t]
  /\ AgeFromHead(t) < Width
  /\ \A u \in Live : Older(u, t) => done[u] /\ ~inst[u].mispredicted

SbHasSpace_OneMore == Len(sb) <= SbDepth    \* mutant: off by one
SbHasSpace == Len(sb) < SbDepth

CanEnqueue(t) ==
  /\ lane < Width
  /\ SbHasSpace
  /\ StorePermitted(t)
  /\ inst[t].addr_computed
  /\ inst[t].store_data.ready

(* enqueueStores, one store: it is complete once in the store buffer.      *)
EnqueueStore(t) ==
  /\ step = "stores"
  /\ busy[t] /\ CanEnqueue(t)
  /\ sb' = Append(sb, [addr |-> Address(t), val |-> inst[t].store_data.val])
  /\ Complete(t, 0)
  /\ inst' = [inst EXCEPT ![t].completed = TRUE]
  /\ lane' = lane + 1
  /\ UNCHANGED <<prog, step, arf, wakeups, mem, frontVars, resolving>>

EndStores ==
  /\ step = "stores"
  /\ \A t \in Live : ~CanEnqueue(t)
  /\ step' = "commit" /\ lane' = 0
  /\ UNCHANGED <<ruVars, prog, arf, inst, wakeups, memVars, frontVars,
                 resolving>>

CommitInst ==
  /\ step = "commit" /\ lane < Width
  /\ CommitOne
  /\ arf' = IF Writes(kind[head], dest_reg[head])
              THEN [arf EXCEPT ![dest_reg[head]] = value[head]] ELSE arf
  /\ inst' = [inst EXCEPT ![head] = NoInst]
  /\ lane' = lane + 1
  /\ UNCHANGED <<prog, step, wakeups, memVars, frontVars, resolving>>

(* The memory system ticks: the oldest n stores are written.               *)
Drained(n) ==
  [a \in Val |->
     LET hits == {i \in 1 .. n : sb[i].addr = a}
     IN  IF hits = {} THEN mem[a] ELSE sb[Max(hits)].val]

(* Writeback begins: some control instructions have reached the output of  *)
(* their unit, and some of the stores have been written.                   *)
EndCommit ==
  /\ step = "commit"
  /\ lane = Width \/ active_count = 0 \/ ~done[head]
  /\ EnterStage
  /\ step' = "resolve" /\ lane' = 0
  /\ resolving' \in SUBSET {t \in Live : /\ kind[t] = "control"
                                         /\ inst[t].dispatched
                                         /\ ~inst[t].completed}
  /\ \E n \in 0 .. Len(sb) : /\ mem' = Drained(n)
                             /\ sb' = SubSeq(sb, n + 1, Len(sb))
  /\ UNCHANGED <<prog, arf, inst, wakeups, frontVars>>

-------------------------------------------------------------------------------
(* Writeback.                                                              *)

Taken(t) ==
  CASE Op(t) = "beq" -> inst[t].src1.val = inst[t].src2.val
    [] Op(t) = "bne" -> inst[t].src1.val # inst[t].src2.val
    [] IsJump(Op(t)) -> TRUE

(* A branch names its target, a jump through a register computes it.       *)
Target(t) == IF Op(t) = "jalr" THEN Wrap(inst[t].src1.val + Imm(t)) ELSE Imm(t)

ActualNext(t) == IF Taken(t) THEN Target(t) ELSE inst[t].pc + 1

Mispredicted(t) ==
  \/ Taken(t) # inst[t].predicted_taken
  \/ Taken(t) /\ inst[t].predicted_target # Target(t)

OldestResolving(t) == t \in resolving /\ \A u \in resolving \ {t} : Older(t, u)

(* resolveBranch, and earlyRecover after a misprediction: everything       *)
(* younger is squashed and fetch goes on at the right place.               *)
ResolveBranch(t) ==
  /\ step = "resolve"
  /\ OldestResolving(t)
  /\ ~inst[t].br_resolved
  /\ IF Mispredicted(t)
       THEN /\ Recover(t)
            /\ inst' = [u \in Tags |->
                          IF u = t THEN [inst[t] EXCEPT !.br_resolved = TRUE,
                                                        !.mispredicted = TRUE]
                          ELSE IF u \in YoungerThan(t) THEN NoInst ELSE inst[u]]
            /\ wakeups' = {w \in wakeups : w.tag \notin YoungerThan(t)}
            /\ resolving' = resolving \ YoungerThan(t)
            /\ fetch_pc' = ActualNext(t)
            /\ ifq' = <<>> /\ dispatch_reg' = <<>>
       ELSE /\ inst' = [inst EXCEPT ![t].br_resolved = TRUE]
            /\ UNCHANGED <<ruVars, wakeups, resolving, frontVars>>
  /\ UNCHANGED <<prog, step, lane, arf, memVars>>

(* Without a link value the instruction is complete; with one it waits for *)
(* the bus.                                                                *)
FinishResolve(t) ==
  /\ step = "resolve"
  /\ OldestResolving(t)
  /\ inst[t].br_resolved
  /\ resolving' = resolving \ {t}
  /\ IF HasLink(t)
       THEN UNCHANGED <<ruVars, inst>>
       ELSE /\ Complete(t, 0)
            /\ inst' = [inst EXCEPT ![t].completed = TRUE]
  /\ UNCHANGED <<prog, step, lane, arf, wakeups, memVars, frontVars>>

EndResolve ==
  /\ step = "resolve" /\ resolving = {}
  /\ step' = "broadcast"
  /\ UNCHANGED <<ruVars, prog, lane, arf, inst, wakeups, memVars, frontVars,
                 resolving>>

(* What the unit or the memory returns.                                    *)
ResultOf(t) ==
  CASE Op(t) = "add"  -> Wrap(inst[t].src1.val + inst[t].src2.val)
    [] Op(t) = "addi" -> Wrap(inst[t].src1.val + Imm(t))
    [] IsJump(Op(t))  -> Wrap(inst[t].pc + 1)
    [] Op(t) = "load" -> IF inst[t].fwd = NeedsMemory THEN mem[Address(t)]
                                                      ELSE inst[t].fwd

CanBroadcast(t) ==
  /\ lane < CdbWidth
  /\ inst[t].dispatched /\ ~inst[t].completed
  /\ kind[t] = "control" => HasLink(t) /\ inst[t].br_resolved

(* broadcastCDB: the reorder buffer has the result now, the consumers at   *)
(* the beginning of the next tick.                                         *)
BroadcastCDB(t) ==
  /\ step = "broadcast"
  /\ busy[t] /\ CanBroadcast(t)
  /\ Complete(t, ResultOf(t))
  /\ inst' = [inst EXCEPT ![t].completed = TRUE]
  /\ wakeups' = wakeups \cup {[tag |-> t, val |-> ResultOf(t)]}
  /\ lane' = lane + 1
  /\ UNCHANGED <<prog, step, arf, memVars, frontVars, resolving>>

-------------------------------------------------------------------------------
(* Dispatch.                                                               *)

OlderStores(l) == {u \in InLsq : Op(u) = "store" /\ Older(u, l)}

Unblocked_Unknown(l) == TRUE                \* mutant: unknown stores ignored
(* dispatchLoad: every older store in the queue has address and data.      *)
Unblocked(l) ==
  \A u \in OlderStores(l) : inst[u].src1.ready /\ inst[u].store_data.ready

(* dispatchLoad's search: the youngest older store to the same word, then  *)
(* the newest store buffer entry for it.                                   *)
Forwarded(l) ==
  LET hits   == {u \in OlderStores(l) : Address(u) = Address(l)}
      sbHits == {i \in 1 .. Len(sb) : sb[i].addr = Address(l)}
  IN  IF hits # {}
        THEN inst[CHOOSE u \in hits : \A w \in hits : ~Older(u, w)].store_data.val
      ELSE IF sbHits # {} THEN sb[Max(sbHits)].val
      ELSE NeedsMemory

(* The Width oldest of the loads that can start.                           *)
StartingLoads ==
  LET ready == {l \in InLsq : /\ Op(l) = "load"
                              /\ ~inst[l].dispatched
                              /\ inst[l].src1.ready
                              /\ Unblocked(l)}
  IN  {l \in ready : Cardinality({u \in ready : Older(u, l)}) < Width}

ReadyInRs == {t \in InRs : inst[t].src1.ready /\ inst[t].src2.ready}

(* dispatchStage; `issued' are the ready instructions that got a unit.     *)
DispatchStage ==
  /\ step = "broadcast"
  /\ EnterStage
  /\ step' = "rename" /\ lane' = 0
  /\ \E issued \in SUBSET ReadyInRs :
       inst' = [t \in Tags |->
                  [inst[t] EXCEPT
                     !.addr_computed = @ \/ (t \in InLsq /\ inst[t].src1.ready),
                     !.dispatched = @ \/ t \in issued \/ t \in StartingLoads,
                     !.fwd = IF t \in StartingLoads THEN Forwarded(t) ELSE @]]
  /\ UNCHANGED <<prog, arf, wakeups, memVars, frontVars, resolving>>

-------------------------------------------------------------------------------
(* Rename, decode, fetch.                                                  *)

Operand_NotFromRob(r) ==                    \* mutant: the done bit is ignored
  IF r = 0 THEN Ready(0)
  ELSE IF rat[r] = NoTag THEN Ready(arf[r])
  ELSE [ready |-> FALSE, tag |-> rat[r], val |-> 0]
(* resolveOperand.                                                         *)
Operand(r) ==
  IF r = 0 THEN Ready(0)
  ELSE IF rat[r] = NoTag THEN Ready(arf[r])
  ELSE IF done[rat[r]] THEN Ready(value[rat[r]])
  ELSE [ready |-> FALSE, tag |-> rat[r], val |-> 0]

(* The InstInfo of a fetched instruction.  A store whose data field names  *)
(* register 0 never gets its data.                                         *)
NewInst(f) ==
  LET in == prog[f.pc]
  IN  [NoInst EXCEPT
         !.pc = f.pc,
         !.predicted_taken = f.predicted_taken,
         !.predicted_target = f.predicted_target,
         !.src1 = IF in.op = "jal" THEN Ready(0) ELSE Operand(in.s1),
         !.src2 = IF in.op \in {"add", "beq", "bne"} THEN Operand(in.s2)
                                                     ELSE Ready(0),
         !.store_data = IF in.op = "store" /\ in.d > 0 THEN Operand(in.d)
                                                       ELSE NeverReady]

(* tryRenameOne's structural conditions.                                   *)
CanRename ==
  /\ dispatch_reg # <<>>
  /\ HasSpace
  /\ IF prog[Head(dispatch_reg).pc].op \in {"load", "store"}
       THEN Cardinality(InLsq) < LsqSize
       ELSE Cardinality(InRs) < RsSize

RenameInst ==
  /\ step = "rename"
  /\ CanRename
  /\ LET f  == Head(dispatch_reg)
         in == prog[f.pc]
     IN  /\ RenameOne(KindOf(in.op), in.d)
         /\ inst' = [inst EXCEPT ![tail] = NewInst(f)]
  /\ dispatch_reg' = Tail(dispatch_reg)
  /\ UNCHANGED <<prog, step, lane, arf, wakeups, memVars, fetch_pc, ifq,
                 resolving>>

(* DispatchReg::canCapture: the last bundle has left it.                   *)
CanCapture == dispatch_reg = <<>>

(* What peek and dequeue take from the instruction fetch queue.            *)
BundleSize == IF Len(ifq) < Width THEN Len(ifq) ELSE Width

DecodeStage ==
  /\ step = "rename"
  /\ ~CanRename
  /\ step' = "fetch"
  /\ IF CanCapture
       THEN /\ dispatch_reg' = SubSeq(ifq, 1, BundleSize)
            /\ ifq' = SubSeq(ifq, BundleSize + 1, Len(ifq))
       ELSE UNCHANGED <<dispatch_reg, ifq>>
  /\ UNCHANGED <<ruVars, prog, lane, arf, inst, wakeups, memVars, fetch_pc,
                 resolving>>

IfqHasRoom == Len(ifq) < IfqSize

FetchGoesOn == lane < Width /\ IfqHasRoom /\ fetch_pc \in DOMAIN prog

(* predictToyControl, predictHexControl: the target predicted for a branch *)
(* is its own (the branch target buffer compares the whole pc), that for a *)
(* jump through a register is one it has had or a return address.          *)
CanPredict(in, taken, target) ==
  CASE ~taken         -> target = fetch_pc + 1
    [] in.op = "jalr" -> taken
    [] OTHER          -> IsControlOp(in.op) /\ target = in.imm

(* fetchStage, one instruction.  A predicted-taken branch ends the bundle. *)
FetchOne(taken, target) ==
  /\ step = "fetch"
  /\ FetchGoesOn
  /\ CanPredict(prog[fetch_pc], taken, target)
  /\ ifq' = Append(ifq, [pc |-> fetch_pc, predicted_taken |-> taken,
                         predicted_target |-> target])
  /\ fetch_pc' = target
  /\ lane' = IF taken THEN Width ELSE lane + 1
  /\ UNCHANGED <<ruVars, prog, step, arf, inst, wakeups, memVars, dispatch_reg,
                 resolving>>

Finished ==
  /\ fetch_pc \notin DOMAIN prog
  /\ ifq = <<>> /\ dispatch_reg = <<>> /\ sb = <<>>
  /\ active_count = 0

Snooped(o) ==
  LET hits == {w \in wakeups : w.tag = o.tag}
  IN  IF o.ready \/ hits = {} THEN o
      ELSE Ready((CHOOSE w \in hits : TRUE).val)

WakeupsAfterTick_Kept == wakeups            \* mutant: never cleared
WakeupsAfterTick == {}

(* The next tick begins by applying the registered wakeups.                *)
NextTick ==
  /\ step = "fetch"
  /\ ~FetchGoesOn
  /\ ~Finished
  /\ EnterStage
  /\ step' = "stores" /\ lane' = 0
  /\ inst' = [t \in Tags |->
                [inst[t] EXCEPT !.src1 = Snooped(@), !.src2 = Snooped(@),
                                !.store_data = Snooped(@)]]
  /\ wakeups' = WakeupsAfterTick
  /\ UNCHANGED <<prog, arf, memVars, frontVars, resolving>>

-------------------------------------------------------------------------------
(* Where fetch may go, the end of the program included.                    *)
Pcs == Val \cup (0 .. Cardinality(DOMAIN prog))

CoreNext ==
  \/ \E t \in Tags : EnqueueStore(t)
  \/ EndStores
  \/ CommitInst
  \/ EndCommit
  \/ \E t \in Tags : ResolveBranch(t)
  \/ \E t \in Tags : FinishResolve(t)
  \/ EndResolve
  \/ \E t \in Tags : BroadcastCDB(t)
  \/ DispatchStage
  \/ RenameInst
  \/ DecodeStage
  \/ \E taken \in BOOLEAN, target \in Pcs : FetchOne(taken, target)
  \/ NextTick

CoreSpec == CoreInit /\ [][CoreNext]_coreVars

(* tick() is called until the program is finished; a ready instruction     *)
(* gets a unit in the end (units are scanned in every tick), units and     *)
(* memory have finite latencies, the bus is granted round-robin.           *)
Issues(t)   == DispatchStage /\ inst'[t].dispatched /\ ~inst[t].dispatched
Resolves(t) == EndCommit /\ t \in resolving'
Drains      == EndCommit /\ Len(sb') < Len(sb)

CoreFairness ==
  /\ WF_coreVars(CoreNext)
  /\ \A t \in Tags : /\ SF_coreVars(Issues(t))
                      /\ SF_coreVars(Resolves(t))
                      /\ SF_coreVars(BroadcastCDB(t))
  /\ SF_coreVars(Drains)

FairCoreSpec == CoreSpec /\ CoreFairness

-------------------------------------------------------------------------------
(* Properties.                                                             *)

Operands == [ready : BOOLEAN, tag : Tags \cup {NoTag}, val : Val]

CoreTypeOK ==
  /\ RuTypeOK
  /\ step \in Steps
  /\ arf \in [Reg -> Val]
  /\ \A t \in Tags : /\ inst[t].pc \in DOMAIN prog
                     /\ {inst[t].src1, inst[t].src2, inst[t].store_data}
                          \subseteq Operands
                     /\ inst[t].fwd \in Val \cup {NeedsMemory}
  /\ Len(sb) <= SbDepth
  /\ \A i \in 1 .. Len(sb) : sb[i].addr \in Val /\ sb[i].val \in Val
  /\ mem \in [Val -> Val]
  /\ fetch_pc \in Pcs
  /\ Len(ifq) <= IfqSize
  /\ Len(dispatch_reg) <= Width
  /\ resolving \subseteq Tags

(* No lost and no stray wakeup: an operand that waits names a live, older  *)
(* writer whose result is either still to come or in the wakeups applied   *)
(* when the next tick begins.  A tag reused by another instruction, or a   *)
(* result that passed between rename and wakeup, would break it.           *)
OperandsWaitForLiveProducers ==
  \A t \in Live :
    \A o \in {inst[t].src1, inst[t].src2, inst[t].store_data} :
      ~o.ready /\ o.tag # NoTag =>
        /\ o.tag \in Live /\ Older(o.tag, t)
        /\ Writes(kind[o.tag], dest_reg[o.tag])
        /\ done[o.tag] => [tag |-> o.tag, val |-> value[o.tag]] \in wakeups

(* broadcastCDB's "Drop grants for tags no longer in flight": a wakeup is  *)
(* applied while its producer, still the same one, is in the buffer.       *)
WakeupsAreCurrent ==
  \A w \in wakeups : busy[w.tag] /\ done[w.tag] /\ value[w.tag] = w.val

(* A store enters the store buffer, which no recovery ever empties, before *)
(* it retires, along with older instructions that have not retired either: *)
(* by the end of the commit stage all of them have.                        *)
SpeculativeStoresStayOut ==
  stage # "commit" => \A t \in Live : Op(t) = "store" => ~done[t]

(* The registers of the rename unit, seen from the program: what is to     *)
(* commit next is what the program has next, whichever queue it is in.     *)
NextToCommit ==
  IF active_count > 0 THEN inst[head].pc
  ELSE IF dispatch_reg # <<>> THEN Head(dispatch_reg).pc
  ELSE IF ifq # <<>> THEN Head(ifq).pc
  ELSE fetch_pc

(* The memory as the retired stores leave it: those in the store buffer    *)
(* that have not retired are its newest entries.                           *)
RetiredInSb ==
  Len(sb) - Cardinality({t \in Live : Op(t) = "store" /\ done[t]})

Golden == INSTANCE InOrderMachine
            WITH pc <- NextToCommit, regs <- arf, memory <- Drained(RetiredInSb)

(* Whatever the units' latencies, the predictions and the order of results *)
(* on the bus, the instructions that retire, the registers and the memory  *)
(* are those of the in-order machine (VERIFICATION.md's comparison of the  *)
(* final state, at every retirement).                                      *)
ImplementsInOrder == Golden!GoldenSpec

(* isFinished: a program that ends does so here, whatever is predicted: no *)
(* instruction waits for a result that has passed, no queue stays full.    *)
Finishes == <>Finished
===============================================================================
