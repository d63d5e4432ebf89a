---------------------------- MODULE PredictedPath ----------------------------
(***************************************************************************)
(* What fetch promises the rest of the core: a queue of words of the       *)
(* program, each one where the prediction recorded with the word before it *)
(* leads, from the pc of the last redirect to the end of the image.        *)
(***************************************************************************)
EXTENDS Integers, Sequences, SequencesExt

VARIABLES
  prog,     \* pc -> word
  ifq,      \* [pc, at (the address the word was read from), taken, target]
  next,     \* the pc of the next word to deliver
  halted,
  redirected

ppVars == <<prog, ifq, next, halted, redirected>>

PpInit == ifq = <<>> /\ next = 0 /\ ~halted /\ ~redirected

After(e) == IF e.taken THEN e.target ELSE e.pc + 1

IsPath(s, pc) ==
  /\ \A i \in DOMAIN s : s[i].at = s[i].pc /\ s[i].pc \in DOMAIN prog
  /\ s # <<>> => s[1].pc = pc
  /\ \A i \in 1 .. Len(s) - 1 : s[i + 1].pc = After(s[i])

(* A call through a register is recorded as not taken.  That is wrong and  *)
(* its resolution redirects, so what follows its bundle may be anywhere.   *)
HasCall(s) == \E i \in DOMAIN s : prog[s[i].pc].op = "call"

Deliver ==
  /\ ~halted
  /\ LET s   == SubSeq(ifq', Len(ifq) + 1, Len(ifq'))
         end == IF s = <<>> THEN next ELSE After(Last(s))
     IN  /\ ifq' = ifq \o s
         /\ IsPath(s, next)
         /\ \/ HasCall(s)
            \/ IF halted' THEN end \notin DOMAIN prog ELSE next' = end
  /\ ~redirected'
  /\ UNCHANGED prog

Consume == /\ \E k \in 1 .. Len(ifq) : ifq' = SubSeq(ifq, k + 1, Len(ifq))
           /\ UNCHANGED <<prog, next, halted, redirected>>

(* Only a recovery changes the path, and it leaves nothing of the old one. *)
Redirect == ~redirected /\ redirected' /\ ifq' = <<>> /\ ~halted' /\ UNCHANGED prog

PpNext == Deliver \/ Consume \/ Redirect

PpSpec == PpInit /\ [][PpNext]_ppVars
===============================================================================
