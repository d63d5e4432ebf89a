---------------------------- MODULE MCReturnStack ----------------------------
(***************************************************************************)
(* Calls two deep with a stack of two, branches whose wrong path returns   *)
(* and calls again, and a return without a caller.                         *)
(***************************************************************************)
EXTENDS ReturnStack

I(op, target) == [op |-> op, target |-> target]
Prog(s) == [pc \in 0 .. Len(s) - 1 |-> s[pc + 1]]

(* main calls f, which calls g, which may skip its return.                *)
Nested == Prog(<<I("call", 3), I("plain", 0), I("branch", 7),
                 I("call", 5), I("ret", 0),
                 I("branch", 4), I("ret", 0)>>)
(* main calls f, then g; the wrong path of the branch in f returns to main *)
(* and calls g.  At the end RET without a caller.                          *)
Detour == Prog(<<I("call", 3), I("call", 6), I("branch", 7),
                 I("branch", 5), I("plain", 0), I("ret", 0),
                 I("ret", 0), I("ret", 0)>>)
(* main calls f in a loop.                                                 *)
Loop == Prog(<<I("call", 2), I("branch", 0), I("branch", 4), I("plain", 0),
               I("ret", 0)>>)

MCPrograms == {Nested, Detour, Loop}
===============================================================================
