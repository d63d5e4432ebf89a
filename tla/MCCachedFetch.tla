---------------------------- MODULE MCCachedFetch ----------------------------
(***************************************************************************)
(* A small front end for TLC.  Three lines of two words in a cache of two  *)
(* ways, two of them in one set: fills evict, and a way is reserved for a  *)
(* line nobody waits for any more when the next one is wanted.             *)
(***************************************************************************)
EXTENDS CachedFetch

W(op, target) == [op |-> op, target |-> target]
Program(s) == [pc \in 0 .. Len(s) - 1 |-> s[pc + 1]]

(* A call with its return and a branch back; a call through a register     *)
(* with a return in the same bundle.                                       *)
FetchPrograms ==
  {Program(<<W("plain", 0), W("link", 4), W("branch", 1), W("plain", 0), W("ret", 0)>>),
   Program(<<W("link", 2), W("jal", 0), W("call", 0), W("ret", 0), W("jalr", 0)>>)}
===============================================================================
