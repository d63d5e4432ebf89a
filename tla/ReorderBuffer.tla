---------------------------- MODULE ReorderBuffer ----------------------------
(***************************************************************************)
(* The reorder buffer of reorder_buffer.cpp: a circular array of           *)
(* `Capacity' entries between head (oldest) and tail (next free), with the *)
(* number of live entries in active_count.  An entry's index is its tag,   *)
(* by which every other part of the processor names the instruction, so a  *)
(* tag is reused as soon as its entry commits or is squashed.              *)
(*                                                                         *)
(* The array of records is one function per field.  The opcode text of an  *)
(* entry is only printed and is left out.                                  *)
(***************************************************************************)
EXTENDS Integers, FiniteSets

CONSTANTS Capacity,   \* rob_size: number of entries
          NumRegs,    \* num_regs: logical registers 0 .. NumRegs - 1
          Val         \* values a result may have (0 among them)

ASSUME RobAssumption == /\ Capacity \in Nat \ {0}
                        /\ NumRegs \in Nat \ {0}
                        /\ 0 \in Val

VARIABLES head, tail, active_count,
          busy, done, dest_reg, value     \* the fields of buffer[tag]

robVars == <<head, tail, active_count, busy, done, dest_reg, value>>

Tags == 0 .. Capacity - 1
Reg  == 0 .. NumRegs - 1

RobInit ==
  /\ head = 0
  /\ tail = 0
  /\ active_count = 0
  /\ busy = [t \in Tags |-> FALSE]
  /\ done = [t \in Tags |-> FALSE]
  /\ dest_reg = [t \in Tags |-> 0]
  /\ value = [t \in Tags |-> 0]

-------------------------------------------------------------------------------
(* Reading the buffer.                                                     *)

HasSpace_OneMore == active_count <= Capacity    \* mutant: off by one
HasSpace == active_count < Capacity

(* Distance from the oldest entry, around the end of the array.            *)
AgeFromHead(t) == (t - head + Capacity) % Capacity

IsYounger(a, b) == AgeFromHead(a) > AgeFromHead(b)

-------------------------------------------------------------------------------
(* Operations.                                                             *)

Dispatch(d) ==
  /\ HasSpace
  /\ busy' = [busy EXCEPT ![tail] = TRUE]
  /\ done' = [done EXCEPT ![tail] = FALSE]
  /\ dest_reg' = [dest_reg EXCEPT ![tail] = d]
  /\ tail' = (tail + 1) % Capacity
  /\ active_count' = active_count + 1
  /\ UNCHANGED <<head, value>>

(* Takes back the newest entry.                                            *)
Undispatch(t) ==
  LET last == (tail - 1 + Capacity) % Capacity
  IN  /\ active_count # 0
      /\ t = last
      /\ busy[t]
      /\ busy' = [busy EXCEPT ![t] = FALSE]
      /\ done' = [done EXCEPT ![t] = FALSE]
      /\ tail' = last
      /\ active_count' = active_count - 1
      /\ UNCHANGED <<head, dest_reg, value>>

(* Mutant: the busy check is dropped.                                      *)
WriteResult_AnyTag(t, v) ==
  /\ value' = [value EXCEPT ![t] = v]
  /\ done' = [done EXCEPT ![t] = TRUE]
  /\ UNCHANGED <<head, tail, active_count, busy, dest_reg>>

(* A result for a tag with no live entry changes nothing.                  *)
WriteResult(t, v) ==
  /\ value' = IF busy[t] THEN [value EXCEPT ![t] = v] ELSE value
  /\ done'  = IF busy[t] THEN [done EXCEPT ![t] = TRUE] ELSE done
  /\ UNCHANGED <<head, tail, active_count, busy, dest_reg>>

(* Mutant: the head leaves without waiting for its result.                 *)
Commit_NotDone ==
  /\ active_count # 0
  /\ busy' = [busy EXCEPT ![head] = FALSE]
  /\ done' = [done EXCEPT ![head] = FALSE]
  /\ head' = (head + 1) % Capacity
  /\ active_count' = active_count - 1
  /\ UNCHANGED <<tail, dest_reg, value>>

Commit ==
  /\ active_count # 0
  /\ done[head]
  /\ busy' = [busy EXCEPT ![head] = FALSE]
  /\ done' = [done EXCEPT ![head] = FALSE]
  /\ head' = (head + 1) % Capacity
  /\ active_count' = active_count - 1
  /\ UNCHANGED <<tail, dest_reg, value>>

(* Mutant: age taken from the tag, as if the array never wrapped around.   *)
YoungerThan_ByTag(t) == {i \in Tags : busy[i] /\ i > t}

(* The entries a squash at t frees.                                        *)
YoungerThan(t) == {i \in Tags : busy[i] /\ IsYounger(i, t)}

SquashYoungerThan(t) ==
  /\ busy[t]
  /\ busy' = [i \in Tags |-> busy[i] /\ i \notin YoungerThan(t)]
  /\ done' = [i \in Tags |-> done[i] /\ i \notin YoungerThan(t)]
  /\ tail' = (t + 1) % Capacity
  /\ active_count' = AgeFromHead(t) + 1
  /\ UNCHANGED <<head, dest_reg, value>>

RobNext ==
  \/ \E d \in Reg : Dispatch(d)
  \/ \E t \in Tags : Undispatch(t)
  \/ \E t \in Tags, v \in Val : WriteResult(t, v)
  \/ Commit
  \/ \E t \in Tags : SquashYoungerThan(t)

RobSpec == RobInit /\ [][RobNext]_robVars

-------------------------------------------------------------------------------
(* Properties.                                                             *)

RobTypeOK ==
  /\ head \in Tags
  /\ tail \in Tags
  /\ active_count \in 0 .. Capacity
  /\ busy \in [Tags -> BOOLEAN]
  /\ done \in [Tags -> BOOLEAN]
  /\ dest_reg \in [Tags -> Reg]
  /\ value \in [Tags -> Val]

(* The live entries are exactly the active_count entries from head on, and *)
(* tail is the entry after them: no operation leaves a hole in the window, *)
(* wherever head is when the window wraps around the array.                *)
BusyIsWindow ==
  /\ tail = (head + active_count) % Capacity
  /\ \A t \in Tags : busy[t] <=> AgeFromHead(t) < active_count

(* checkInvariant and the asserts of dispatch and squashYoungerThan: the   *)
(* occupancy counter is the number of live entries, and an instruction is  *)
(* never dispatched into a live entry.                                     *)
OccupancyAgrees ==
  /\ Cardinality({t \in Tags : busy[t]}) = active_count
  /\ HasSpace => ~busy[tail]

(* isReady is read from the done bit alone, without looking at busy: a     *)
(* freed entry must never look done to the rename stage.                   *)
DoneOnlyWhenBusy == \A t \in Tags : done[t] => busy[t]

(* The circular array implements the bounded in-order queue.               *)
EntryAt(k) ==
  LET t == (head + k - 1) % Capacity
  IN  [dest |-> dest_reg[t], done |-> done[t], value |-> value[t]]

InOrder == INSTANCE InFlightQueue
             WITH queue <- [k \in 1 .. active_count |-> EntryAt(k)]

ImplementsQueue == InOrder!QueueSpec
==============================================================================
