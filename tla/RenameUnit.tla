----------------------------- MODULE RenameUnit -----------------------------
(***************************************************************************)
(* Register renaming: the reorder buffer together with the register alias  *)
(* table (register_alias_table.cpp), the checkpoints of it that control    *)
(* instructions take (rat_checkpoints.cpp) and the three places of         *)
(* processor.cpp that change them: commitStage, earlyRecover and           *)
(* tryRenameOne.                                                           *)
(*                                                                         *)
(* Within one tick the stages run in the order commit, writeback, rename;  *)
(* `stage' is where the tick is.  freed_rob_tags holds the tags committed  *)
(* since the tick began.  The order matters: a tag in freed_rob_tags may   *)
(* be given to a new instruction only after the last recovery of the tick. *)
(***************************************************************************)
EXTENDS ReorderBuffer

VARIABLES
  stage,           \* the part of the tick that runs
  kind,            \* InstInfo: is_store, isControl or neither, by tag
  rat,             \* logical register -> tag of its newest writer, or -1
  ckpt_valid,      \* valid_[tag]
  ckpt_map,        \* maps_[tag]
  rat_snapshot,    \* InstInfo::rat_snapshot, the map before the rename
  freed_rob_tags   \* tags committed in this tick

tableVars  == <<rat, ckpt_valid, ckpt_map, rat_snapshot>>
renameVars == <<stage, kind, rat, ckpt_valid, ckpt_map, rat_snapshot,
                freed_rob_tags>>
ruVars == <<robVars, renameVars>>

Kinds   == {"plain", "store", "control"}
Stages  == {"commit", "writeback", "rename"}
NoTag   == -1
NoMap   == [r \in Reg |-> NoTag]

RuInit ==
  /\ RobInit
  /\ stage = "commit"
  /\ kind = [t \in Tags |-> "plain"]
  /\ rat = NoMap
  /\ ckpt_valid = [t \in Tags |-> FALSE]
  /\ ckpt_map = [t \in Tags |-> NoMap]
  /\ rat_snapshot = [t \in Tags |-> NoMap]
  /\ freed_rob_tags = {}

-------------------------------------------------------------------------------
(* The tables.                                                             *)

(* Only these instructions have a destination register: register 0 is      *)
(* hardwired, and the destination field of a store names its data.         *)
Writes(k, d) == k # "store" /\ d > 0

(* RegisterAliasTable::rename.                                             *)
Renamed(map, r, t) == [map EXCEPT ![r] = t]

(* RegisterAliasTable::commit: a newer writer keeps its mapping.           *)
Cleared(map, r, t) == IF map[r] = t THEN [map EXCEPT ![r] = NoTag] ELSE map

(* RatCheckpoints::onCommitClear, on every valid checkpoint.               *)
OnCommitClear_Not(r, t) == ckpt_map                        \* mutant
OnCommitClear(r, t) ==
  [b \in Tags |-> IF ckpt_valid[b] THEN Cleared(ckpt_map[b], r, t)
                                   ELSE ckpt_map[b]]

(* RegisterAliasTable::restoreStateScrub.                                  *)
Scrubbed(map, freed) ==
  [r \in Reg |-> IF r = 0 \/ map[r] \in freed THEN NoTag ELSE map[r]]

-------------------------------------------------------------------------------
(* The stages.                                                             *)

(* One pass of the loop of commitStage: the oldest instruction retires.    *)
CommitOne ==
  /\ stage = "commit"
  /\ Commit
  /\ freed_rob_tags' = freed_rob_tags \cup {head}
  /\ IF Writes(kind[head], dest_reg[head])
       THEN /\ rat' = Cleared(rat, dest_reg[head], head)
            /\ ckpt_map' = OnCommitClear(dest_reg[head], head)
       ELSE UNCHANGED <<rat, ckpt_map>>
  /\ ckpt_valid' = IF kind[head] = "control"
                     THEN [ckpt_valid EXCEPT ![head] = FALSE]
                     ELSE ckpt_valid
  /\ UNCHANGED <<stage, kind, rat_snapshot>>

(* The alias table after recovery from control instruction b: its          *)
(* checkpoint, or without one the map it was renamed with and its own      *)
(* destination; mappings to freed tags are dropped.                        *)
RecoveredMap_Snapshot(b) ==    \* mutant: the map from before the rename
  Scrubbed(rat_snapshot[b], freed_rob_tags \cup YoungerThan(b))
RecoveredMap(b) ==
  LET freed == freed_rob_tags \cup YoungerThan(b)
  IN  IF ckpt_valid[b] THEN Scrubbed(ckpt_map[b], freed)
      ELSE IF dest_reg[b] > 0
        THEN Renamed(Scrubbed(rat_snapshot[b], freed), dest_reg[b], b)
        ELSE Scrubbed(rat_snapshot[b], freed)

(* The checkpoints of the squashed instructions are invalidated.           *)
ValidAfterSquash_All(b) == ckpt_valid                      \* mutant
ValidAfterSquash(b) == [t \in Tags |-> ckpt_valid[t] /\ t \notin YoungerThan(b)]

(* earlyRecover's effect on the alias table and its checkpoints.           *)
RecoverTables(b) ==
  /\ rat' = RecoveredMap(b)
  /\ ckpt_valid' = ValidAfterSquash(b)
  /\ UNCHANGED <<ckpt_map, rat_snapshot>>

Recover(b) ==
  /\ stage = "writeback"
  /\ kind[b] = "control"
  /\ RecoverTables(b)
  /\ SquashYoungerThan(b)
  /\ UNCHANGED <<stage, kind, freed_rob_tags>>

(* Results arrive on the common data bus, or, for a store, when commit     *)
(* hands it to the store buffer.                                           *)
Complete(t, v) ==
  /\ stage \in {"commit", "writeback"}
  /\ WriteResult(t, v)
  /\ UNCHANGED renameVars

(* tryRenameOne's effect on the reorder buffer and the tables: allocate,   *)
(* rename the destination, checkpoint the renamed map for control.         *)
RenameOne(k, d) ==
  /\ stage = "rename"
  /\ Dispatch(d)
  /\ kind' = [kind EXCEPT ![tail] = k]
  /\ rat_snapshot' = [rat_snapshot EXCEPT ![tail] = rat]
  /\ rat' = IF Writes(k, d) THEN Renamed(rat, d, tail) ELSE rat
  /\ IF k = "control"
       THEN /\ ckpt_valid' = [ckpt_valid EXCEPT ![tail] = TRUE]
            /\ ckpt_map' = [ckpt_map EXCEPT ![tail] = rat']
       ELSE UNCHANGED <<ckpt_valid, ckpt_map>>
  /\ UNCHANGED <<stage, freed_rob_tags>>

(* The tick moves on; freed_rob_tags_ is cleared when the next one begins. *)
FreedAtStage_Kept(next) == freed_rob_tags                  \* mutant
FreedAtStage(next) == IF next = "commit" THEN {} ELSE freed_rob_tags

NextStage == CASE stage = "commit"    -> "writeback"
               [] stage = "writeback" -> "rename"
               [] stage = "rename"    -> "commit"

EnterStage ==
  /\ stage' = NextStage
  /\ freed_rob_tags' = FreedAtStage(stage')
  /\ UNCHANGED <<robVars, kind, tableVars>>

RuNext ==
  \/ CommitOne
  \/ \E b \in Tags : Recover(b)
  \/ \E t \in Tags, v \in Val : Complete(t, v)
  \/ \E k \in Kinds, d \in Reg : RenameOne(k, d)
  \/ EnterStage

RuSpec == RuInit /\ [][RuNext]_ruVars

-------------------------------------------------------------------------------
(* Properties.                                                             *)

RuTypeOK ==
  /\ RobTypeOK
  /\ stage \in Stages
  /\ kind \in [Tags -> Kinds]
  /\ rat \in [Reg -> Tags \cup {NoTag}]
  /\ ckpt_valid \in [Tags -> BOOLEAN]
  /\ ckpt_map \in [Tags -> [Reg -> Tags \cup {NoTag}]]
  /\ rat_snapshot \in [Tags -> [Reg -> Tags \cup {NoTag}]]
  /\ freed_rob_tags \in SUBSET Tags

(* The in-flight instructions that will write r, up to the given age.      *)
WritersUpTo(r, age) ==
  {t \in Tags : /\ busy[t]
                /\ Writes(kind[t], dest_reg[t])
                /\ dest_reg[t] = r
                /\ AgeFromHead(t) <= age}

Ages == [t \in Tags |-> AgeFromHead(t)]

(* n is the youngest of the tags in S, or no tag when there is none.       *)
IsNewest(n, S, age) ==
  IF n = NoTag THEN S = {}
               ELSE n \in S /\ \A t \in S : age[t] <= age[n]

(* map sends every register to its newest in-flight writer among the       *)
(* instructions up to the given age, and to none when there is no writer,  *)
(* that is when the architectural register is up to date.                  *)
MapsNewestWriters(map, age) ==
  \A r \in Reg : IsNewest(map[r], WritersUpTo(r, age), Ages)

(* A source register read at rename names the youngest older writer, or    *)
(* the architectural file if it has retired: whatever commits, squashes    *)
(* and reuses of tags have happened, the table never keeps a retired,      *)
(* squashed or reincarnated tag.                                           *)
RatNamesNewestWriter == MapsNewestWriters(rat, Capacity - 1)

(* While a control instruction is in flight its checkpoint stays what the  *)
(* table would have been just after it was renamed, as older writers       *)
(* retire and their tags are reused by younger instructions.               *)
CheckpointsStayExact ==
  \A b \in Tags : busy[b] /\ kind[b] = "control" =>
    /\ ckpt_valid[b]
    /\ MapsNewestWriters(ckpt_map[b], AgeFromHead(b))

(* No checkpoint outlives its instruction, so commits never rewrite the    *)
(* map of a dead one and a new owner of the tag never inherits it.         *)
NoStaleCheckpoint ==
  \A b \in Tags : ckpt_valid[b] => busy[b] /\ kind[b] = "control"

(* Until the last recovery of a tick is over, the tags committed in it     *)
(* have no new owner: scrubbing them from a restored map cannot erase the  *)
(* mapping of a live instruction.                                          *)
FreedTagsAreFree ==
  stage # "rename" => \A t \in freed_rob_tags : ~busy[t]
==============================================================================
