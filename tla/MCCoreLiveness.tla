---------------------------- MODULE MCCoreLiveness ----------------------------
(***************************************************************************)
(* Termination of the core, on small programs: FinishPrograms end in the   *)
(* golden model and must end here; StoreOfZero is the program whose store  *)
(* takes its data from register 0.                                         *)
(***************************************************************************)
EXTENDS MCOoOCore

Short == Prog(<<I("addi", 1, 0, 0, 1), I("add", 2, 1, 1, 0),
                I("store", 2, 1, 0, 0), I("load", 1, 0, 0, 1)>>)

FinishPrograms == {Short, WrongPath, Loop, Link, MemoryLoop}

StoreOfZero == {Prog(<<I("addi", 1, 0, 0, 1), I("store", 0, 1, 0, 0),
                       I("addi", 2, 0, 0, 1)>>)}
===============================================================================
