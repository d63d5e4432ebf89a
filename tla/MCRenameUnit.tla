---------------------------- MODULE MCRenameUnit ----------------------------
(***************************************************************************)
(* The rename unit with three reorder buffer entries and two renamable     *)
(* registers: enough for two writers of one register around a control      *)
(* instruction, for a full buffer, and for tags to be reused while a       *)
(* checkpoint still refers to them.                                        *)
(*                                                                         *)
(* Fields of an entry that is not live are never read before they are      *)
(* written again, nor is the map of a checkpoint that is not valid, nor    *)
(* the snapshot of an instruction with a valid checkpoint: LiveState       *)
(* leaves them out of what distinguishes two states.                       *)
(***************************************************************************)
EXTENDS RenameUnit

Live(t) ==
  [kind |-> kind[t], dest |-> dest_reg[t], done |-> done[t],
   map  |-> IF ckpt_valid[t] THEN ckpt_map[t] ELSE rat_snapshot[t],
   ckpt |-> ckpt_valid[t]]

LiveState ==
  <<head, tail, active_count, stage, rat, freed_rob_tags,
    {<<t, Live(t)>> : t \in {u \in Tags : busy[u]}},
    {<<t, ckpt_map[t]>> : t \in {u \in Tags : ckpt_valid[u]}}>>
=============================================================================
