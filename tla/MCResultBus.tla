----------------------------- MODULE MCResultBus -----------------------------
(***************************************************************************)
(* A result bus one lane wide, so that results wait; units and load lanes  *)
(* as the configurations say.  What a tag without an owner did before does *)
(* not distinguish states.                                                 *)
(***************************************************************************)
EXTENDS ResultBus

LiveState ==
  <<phase, window, tail, id, {<<t, work[t], result[t]>> : t \in Live},
    rs, unitVars, lsq, busVars>>
===============================================================================
