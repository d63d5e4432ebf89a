----------------------------- MODULE ReturnStack -----------------------------
(***************************************************************************)
(* The return address stack (return_address_stack.cpp) and what the core   *)
(* does with it for the CALL and RET of the traces: fetch pushes and pops  *)
(* speculatively (predictToyControl), RET takes its target from the pop,   *)
(* every control instruction keeps a snapshot, and recovery restores it    *)
(* (resolveBranch, earlyRecover).                                          *)
(*                                                                         *)
(* The instructions between fetch and commit, in whichever queue, are one  *)
(* window; control instructions resolve in any order; the branch predictor *)
(* of the gshare mode is a choice.  Targets count instructions, so that    *)
(* CALL's other form (immediate 0, the target in the source field) needs   *)
(* no case of its own.                                                     *)
(***************************************************************************)
EXTENDS Integers, Sequences, SequencesExt

CONSTANTS Programs,     \* pc -> [op, target]
          RasSize,      \* ras_size
          WindowSize,   \* bound on the instructions in flight
          AlwaysTaken   \* bp_mode: always-taken or gshare

ASSUME ReturnStackAssumption ==
  /\ {RasSize, WindowSize} \subseteq Nat \ {0}
  /\ AlwaysTaken \in BOOLEAN
  /\ \A p \in Programs : /\ DOMAIN p \subseteq Nat
                         /\ \A pc \in DOMAIN p :
                               /\ p[pc].op \in {"plain", "branch", "call", "ret"}
                               /\ p[pc].target \in Nat

VARIABLES
  prog,
  ras,        \* [stack, tos, count]
  window,     \* oldest first
  fetch_pc,
  calls       \* callers of the next instruction to commit, for the properties

rsVars == <<prog, ras, window, fetch_pc, calls>>

RsInit ==
  /\ prog \in Programs
  /\ ras = [stack |-> [i \in 0 .. RasSize - 1 |-> 0], tos |-> 0, count |-> 0]
  /\ window = <<>>
  /\ fetch_pc = 0
  /\ calls = <<>>

-------------------------------------------------------------------------------
(* The stack, a ring that forgets its oldest entries.                      *)

Pushed(a) ==
  [stack |-> [ras.stack EXCEPT ![ras.tos] = a],
   tos   |-> (ras.tos + 1) % RasSize,
   count |-> IF ras.count < RasSize THEN ras.count + 1 ELSE ras.count]

TopSlot == (ras.tos - 1 + RasSize) % RasSize

Popped == [ras EXCEPT !.tos = TopSlot, !.count = @ - 1]

(* restoreFull; restoreState, which no one calls, is the mutant.           *)
Restored_Pointers(s) == [s EXCEPT !.stack = ras.stack]           \* mutant
Restored(s) == s

-------------------------------------------------------------------------------
(* predictToyControl.                                                      *)
Predictions(in, has_return) ==
  LET fall  == [taken |-> FALSE, target |-> fetch_pc + 1]
      taken == [taken |-> TRUE, target |-> in.target]
  IN  CASE in.op = "call"   -> {taken}
        [] in.op = "ret"    -> IF has_return /\ AlwaysTaken
                                 THEN {[taken |-> TRUE, target |-> ras.stack[TopSlot]]}
                                 ELSE {fall}
        [] in.op = "branch" -> IF AlwaysTaken THEN {taken} ELSE {taken, fall}
        [] in.op = "plain"  -> {fall}

(* pop fails on an empty stack.                                            *)
CanPop_Always == TRUE                                            \* mutant
CanPop == ras.count > 0

Fetch ==
  /\ fetch_pc \in DOMAIN prog
  /\ Len(window) < WindowSize
  /\ LET in         == prog[fetch_pc]
         has_return == in.op = "ret" /\ CanPop
     IN  \E p \in Predictions(in, has_return) :
           /\ window' = Append(window,
                [pc |-> fetch_pc, predicted |-> p, snapshot |-> ras,
                 returns |-> has_return,
                 ret_target |-> IF has_return THEN ras.stack[TopSlot] ELSE 0,
                 resolved |-> in.op = "plain"])
           /\ ras' = IF in.op = "call" THEN Pushed(fetch_pc + 1)
                     ELSE IF has_return THEN Popped ELSE ras
           /\ fetch_pc' = p.target
  /\ UNCHANGED <<prog, calls>>

(* resolveBranch: what the instruction really does; `taken' decides for a  *)
(* branch.                                                                 *)
Outcome(e, taken) ==
  CASE prog[e.pc].op = "call" -> [taken |-> TRUE, target |-> prog[e.pc].target]
    [] prog[e.pc].op = "ret"  -> [taken |-> e.returns, target |-> e.ret_target]
    [] OTHER                  -> [taken |-> taken, target |-> prog[e.pc].target]

Wrong(e, o) ==
  o.taken # e.predicted.taken \/ (o.taken /\ o.target # e.predicted.target)

Resolve(i, taken) ==
  /\ i \in DOMAIN window
  /\ ~window[i].resolved
  /\ LET e == window[i]
         o == Outcome(e, taken)
     IN  IF Wrong(e, o)
           THEN /\ window' = Append(SubSeq(window, 1, i - 1),
                                    [e EXCEPT !.resolved = TRUE])
                /\ ras' = Restored(e.snapshot)
                /\ fetch_pc' = IF o.taken THEN o.target ELSE e.pc + 1
           ELSE /\ window' = [window EXCEPT ![i].resolved = TRUE]
                /\ UNCHANGED <<ras, fetch_pc>>
  /\ UNCHANGED <<prog, calls>>

Retire ==
  /\ window # <<>>
  /\ Head(window).resolved
  /\ window' = Tail(window)
  /\ calls' = CASE prog[Head(window).pc].op = "call" ->
                     Append(calls, Head(window).pc + 1)
                [] prog[Head(window).pc].op = "ret" /\ calls # <<>> -> Front(calls)
                [] OTHER -> calls
  /\ UNCHANGED <<prog, ras, fetch_pc>>

RsNext ==
  \/ Fetch
  \/ \E i \in 1 .. WindowSize, taken \in BOOLEAN : Resolve(i, taken)
  \/ Retire

RsSpec == RsInit /\ [][RsNext]_rsVars

-------------------------------------------------------------------------------
(* Properties.                                                             *)

RsTypeOK ==
  /\ ras \in [stack : [0 .. RasSize - 1 -> Nat], tos : 0 .. RasSize - 1,
              count : 0 .. RasSize]
  /\ Len(window) <= WindowSize
  /\ fetch_pc \in Nat

(* Calls return to their callers, however many calls and returns on wrong  *)
(* paths the stack has seen: the instructions retire as in the golden      *)
(* model.                                                                  *)
Golden == INSTANCE CallMachine
            WITH pc <- IF window = <<>> THEN fetch_pc ELSE Head(window).pc
ImplementsCalls == Golden!CallSpec
===============================================================================
