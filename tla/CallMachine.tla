----------------------------- MODULE CallMachine -----------------------------
(***************************************************************************)
(* CALL and RET as golden/golden_model.cpp runs them: one instruction at a *)
(* time, with a stack of return addresses.  Whether a branch is taken is a *)
(* choice.                                                                 *)
(***************************************************************************)
EXTENDS Integers, Sequences, SequencesExt

CONSTANT Programs    \* pc -> [op, target], pcs counted in instructions from 0

VARIABLES prog, pc, calls

callVars == <<prog, pc, calls>>

CallInit == prog \in Programs /\ pc = 0 /\ calls = <<>>

Call ==
  /\ prog[pc].op = "call"
  /\ pc' = prog[pc].target
  /\ calls' = Append(calls, pc + 1)

(* With no caller RET does nothing.                                        *)
Ret ==
  /\ prog[pc].op = "ret"
  /\ IF calls = <<>> THEN pc' = pc + 1 /\ UNCHANGED calls
                     ELSE pc' = Last(calls) /\ calls' = Front(calls)

Other ==
  /\ \/ prog[pc].op \in {"plain", "branch"} /\ pc' = pc + 1
     \/ prog[pc].op = "branch" /\ pc' = prog[pc].target
  /\ UNCHANGED calls

CallNext == pc \in DOMAIN prog /\ (Call \/ Ret \/ Other) /\ UNCHANGED prog

CallSpec == CallInit /\ [][CallNext]_callVars
===============================================================================
