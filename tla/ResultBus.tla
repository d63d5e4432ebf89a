------------------------------ MODULE ResultBus ------------------------------
(***************************************************************************)
(* How results get from the execution units and the load/store queue to    *)
(* the reorder buffer: the pipes of execution_engine.cpp, the load lanes   *)
(* of LoadStoreQueue::collectProducersFixed, and the arbiter of            *)
(* cdb_arbiter.cpp, which grants CdbWidth lanes per tick round-robin and   *)
(* keeps a result that was not granted as the lane's pending beat.         *)
(*                                                                         *)
(* A unit has a lane of its own; load lane k offers the k-th oldest ready  *)
(* load, so a load changes lanes when older ones come and go.              *)
(*                                                                         *)
(* A tick goes through the phases commit, resolve (control instructions),  *)
(* grant, dispatch and rename.  The rest of the core is a choice: what is  *)
(* renamed, how much of it, when operands and loaded words arrive.  A      *)
(* control instruction without a link value completes off the bus, and so  *)
(* does a store: both are "quiet", and may squash what is younger.  Jumps  *)
(* with a link value are units' instructions here: what their recoveries   *)
(* squash, a quiet instruction's can.                                      *)
(***************************************************************************)
EXTENDS Integers, FiniteSets, Sequences, SequencesExt

CONSTANTS Capacity,     \* reorder buffer entries
          NumUnits,     \* execution units
          UnitLatency,  \* stages of a unit
          NumLsq,       \* num_lsq: load lanes
          LsqSize,      \* load/store queue entries
          CdbWidth,     \* grants per tick
          Ids           \* bound: owners of a tag are told apart modulo this

ASSUME BusAssumption ==
  {Capacity, NumUnits, UnitLatency, NumLsq, LsqSize, CdbWidth, Ids}
    \subseteq Nat \ {0}

VARIABLES
  phase,
  window,       \* live tags, oldest first
  tail,         \* the next tag
  work,         \* "unit", "load" or "quiet", by tag
  id,           \* which owner of the tag this is
  result,       \* what writeResult has brought, by tag
  rs,           \* tags that wait for a unit
  unit,         \* pipe[stage] by unit
  lane_ready,   \* lane_ready_
  lsq,          \* [tag, state] by queue index
  pending,      \* pending_ (and pending_valid_), by lane
  rr_ptr,
  lanes,        \* what each lane offers in this tick
  granted       \* last_grant_

robVars  == <<window, tail, work, id, result>>
unitVars == <<unit, lane_ready>>
busVars  == <<pending, rr_ptr, lanes, granted>>
vars == <<phase, robVars, rs, unitVars, lsq, busVars>>

Tags  == 0 .. Capacity - 1
Slots == 0 .. LsqSize - 1
Units == 0 .. NumUnits - 1
NumLanes == NumUnits + NumLsq
Lanes == 0 .. NumLanes - 1

NoResult == -1
NoBeat == [tag |-> -1, id |-> 0, slot |-> -1]
FreeSlot == [tag |-> -1, state |-> "free"]
EmptyPipe == [i \in 1 .. UnitLatency |-> NoBeat]

Live == ToSet(window)
AgeOf(t) == CHOOSE i \in DOMAIN window : window[i] = t
Beat(t, slot) == [tag |-> t, id |-> id[t], slot |-> slot]

BusInit ==
  /\ phase = "rename"
  /\ window = <<>> /\ tail = 0
  /\ work = [t \in Tags |-> "quiet"]
  /\ id = [t \in Tags |-> 0]
  /\ result = [t \in Tags |-> NoResult]
  /\ rs = {}
  /\ unit = [u \in Units |-> EmptyPipe]
  /\ lane_ready = [u \in Units |-> TRUE]
  /\ lsq = [s \in Slots |-> FreeSlot]
  /\ pending = [l \in Lanes |-> NoBeat]
  /\ rr_ptr = 0
  /\ lanes = [l \in Lanes |-> NoBeat]
  /\ granted = {}

-------------------------------------------------------------------------------
(* Commit; then the loads whose words have arrived are ready.              *)

Retire ==
  /\ phase = "commit"
  /\ window # <<>> /\ result[Head(window)] # NoResult
  /\ window' = Tail(window)
  /\ lsq' = [s \in Slots |-> IF lsq[s].tag = Head(window) THEN FreeSlot ELSE lsq[s]]
  /\ UNCHANGED <<phase, tail, work, id, result, rs, unitVars, busVars>>

EndCommit(arrived) ==
  /\ phase = "commit"
  /\ \A s \in arrived : lsq[s].state = "accessing"
  /\ lsq' = [s \in Slots |-> IF s \in arrived THEN [lsq[s] EXCEPT !.state = "ready"]
                                              ELSE lsq[s]]
  /\ phase' = "resolve"
  /\ UNCHANGED <<robVars, rs, unitVars, busVars>>

-------------------------------------------------------------------------------
(* resolveBranch and writeResult off the bus.  A recovery removes what is  *)
(* younger from everywhere: squashRobTags, squashInstIds, invalidateTags.  *)

InvalidateTags_None(dead) == pending                             \* mutant
InvalidateTags(dead) ==
  [l \in Lanes |-> IF pending[l].tag \in dead THEN NoBeat ELSE pending[l]]

ResolveQuiet(t, recover) ==
  /\ phase = "resolve"
  /\ t \in Live /\ work[t] = "quiet" /\ result[t] = NoResult
  /\ result' = [result EXCEPT ![t] = id[t]]
  /\ IF recover
       THEN LET age  == AgeOf(t)
                dead == {window[i] : i \in age + 1 .. Len(window)}
            IN  /\ window' = SubSeq(window, 1, age)
                /\ tail' = (t + 1) % Capacity
                /\ rs' = rs \ dead
                /\ unit' = [u \in Units |-> [i \in 1 .. UnitLatency |->
                     IF unit[u][i].tag \in dead THEN NoBeat ELSE unit[u][i]]]
                /\ lsq' = [s \in Slots |->
                     IF lsq[s].tag \in dead THEN FreeSlot ELSE lsq[s]]
                /\ pending' = InvalidateTags(dead)
       ELSE UNCHANGED <<window, tail, rs, unit, lsq, pending>>
  /\ UNCHANGED <<phase, work, id, lane_ready, rr_ptr, lanes, granted>>

-------------------------------------------------------------------------------
(* The arbiter.                                                            *)

ReadySlots(q) == {s \in Slots : q[s].state = "ready"}
(* The load that k older ready ones go before in collectProducersFixed.    *)
ReadyAfter(q, k) ==
  {s \in ReadySlots(q) :
     Cardinality({r \in ReadySlots(q) : AgeOf(q[r].tag) < AgeOf(q[s].tag)}) = k}

(* collectProducersFixed of the units, then of the load/store queue.       *)
Producers(pipes, q) ==
  [l \in Lanes |->
     IF l < NumUnits THEN pipes[l][UnitLatency]
     ELSE IF ReadyAfter(q, l - NumUnits) = {} THEN NoBeat
     ELSE LET s == CHOOSE s \in ReadyAfter(q, l - NumUnits) : TRUE
          IN  Beat(q[s].tag, s)]

(* selectGrants' lanes: the pending beat goes before the live one.         *)
EndResolve ==
  /\ phase = "resolve"
  /\ phase' = "grant"
  /\ lanes' = [l \in Lanes |-> IF pending[l] # NoBeat THEN pending[l]
                                                     ELSE Producers(unit, lsq)[l]]
  /\ UNCHANGED <<robVars, rs, unitVars, lsq, pending, rr_ptr, granted>>

Requests == {l \in Lanes \ granted : lanes[l] # NoBeat}
(* The first request from rr_ptr on.                                       *)
NextLane ==
  LET turn(l) == (l - rr_ptr + NumLanes) % NumLanes
  IN  CHOOSE l \in Requests : \A k \in Requests : turn(l) <= turn(k)

CanGrant_OneMore == Requests # {} /\ Cardinality(granted) <= CdbWidth  \* mutant
CanGrant == Requests # {} /\ Cardinality(granted) < CdbWidth

(* One grant: broadcastCDB drops it if the tag is not live; releaseSlot,   *)
(* or for a unit consumeOutput at the end, frees the place it came from.   *)
Grant ==
  /\ phase = "grant"
  /\ CanGrant
  /\ LET b == lanes[NextLane]
     IN  /\ result' = IF b.tag \in Live THEN [result EXCEPT ![b.tag] = b.id]
                                       ELSE result
         /\ lsq' = IF NextLane >= NumUnits /\ lsq[b.slot].state # "free"
                     THEN [lsq EXCEPT ![b.slot].state = "executed"] ELSE lsq
  /\ granted' = granted \cup {NextLane}
  /\ rr_ptr' = (NextLane + 1) % NumLanes
  /\ UNCHANGED <<phase, window, tail, work, id, rs, unitVars, pending, lanes>>

(* The lane is ready when nothing is pending on it, or that was granted.   *)
LaneReady(u) == pending[u] = NoBeat \/ u \in granted

Shifted(pipe) ==
  [i \in 1 .. UnitLatency |-> IF i = 1 THEN NoBeat ELSE pipe[i - 1]]
(* applyCdbAndAdvance: a pipe moves when its lane is ready and its output  *)
(* free.                                                                   *)
Advanced(u) ==
  LET pipe == IF u \in granted THEN [unit[u] EXCEPT ![UnitLatency] = NoBeat]
                               ELSE unit[u]
  IN  IF LaneReady(u) /\ pipe[UnitLatency] = NoBeat
        THEN Shifted(pipe)
        ELSE pipe

PendingAfter_Kept(l, offered) ==                                 \* mutant
  IF pending[l] # NoBeat THEN pending[l]
  ELSE IF l \in granted THEN NoBeat ELSE offered
(* commitPending: what is offered now and was not granted waits.           *)
PendingAfter(l, offered) ==
  IF pending[l] # NoBeat /\ l \notin granted THEN pending[l]
  ELSE IF pending[l] = NoBeat /\ l \in granted THEN NoBeat
  ELSE offered

EndGrant ==
  /\ phase = "grant"
  /\ ~CanGrant
  /\ unit' = [u \in Units |-> Advanced(u)]
  /\ lane_ready' = [u \in Units |-> LaneReady(u)]
  /\ pending' = [l \in Lanes |-> PendingAfter(l, Producers(unit', lsq)[l])]
  /\ lanes' = [l \in Lanes |-> NoBeat]
  /\ granted' = {}
  /\ phase' = "dispatch"
  /\ UNCHANGED <<robVars, rs, lsq, rr_ptr>>

-------------------------------------------------------------------------------
(* Dispatch: instructions enter units, loads start; then rename.           *)

FreeUnits_LaneOnly == {u \in Units : lane_ready[u]}                \* mutant
FreeUnits == {u \in Units : lane_ready[u] /\ unit[u][1] = NoBeat}

IssueToUnit(t) ==
  /\ phase = "dispatch"
  /\ t \in rs /\ FreeUnits # {}
  /\ LET u == CHOOSE u \in FreeUnits : \A v \in FreeUnits : u <= v
     IN  unit' = [unit EXCEPT ![u][1] = Beat(t, u)]
  /\ rs' = rs \ {t}
  /\ UNCHANGED <<phase, robVars, lane_ready, lsq, busVars>>

StartLoad(s) ==
  /\ phase = "dispatch"
  /\ lsq[s].state = "waiting"
  /\ lsq' = [lsq EXCEPT ![s].state = "accessing"]
  /\ UNCHANGED <<phase, robVars, rs, unitVars, busVars>>

EndDispatch ==
  /\ phase = "dispatch"
  /\ phase' = "rename"
  /\ UNCHANGED <<robVars, rs, unitVars, lsq, busVars>>

FreeSlots == {s \in Slots : lsq[s] = FreeSlot}

Rename(w) ==
  /\ phase = "rename"
  /\ Len(window) < Capacity
  /\ w = "load" => FreeSlots # {}
  /\ window' = Append(window, tail)
  /\ tail' = (tail + 1) % Capacity
  /\ work' = [work EXCEPT ![tail] = w]
  /\ id' = [id EXCEPT ![tail] = (@ + 1) % Ids]
  /\ result' = [result EXCEPT ![tail] = NoResult]
  /\ rs' = IF w = "unit" THEN rs \cup {tail} ELSE rs
  /\ lsq' = IF w = "load"
              THEN [lsq EXCEPT ![CHOOSE s \in FreeSlots : \A r \in FreeSlots : s <= r]
                      = [tag |-> tail, state |-> "waiting"]]
              ELSE lsq
  /\ UNCHANGED <<phase, unitVars, busVars>>

EndTick ==
  /\ phase = "rename"
  /\ phase' = "commit"
  /\ UNCHANGED <<robVars, rs, unitVars, lsq, busVars>>

BusNext ==
  \/ Retire
  \/ \E arrived \in SUBSET Slots : EndCommit(arrived)
  \/ \E t \in Tags, recover \in BOOLEAN : ResolveQuiet(t, recover)
  \/ EndResolve
  \/ Grant
  \/ EndGrant
  \/ \E t \in Tags : IssueToUnit(t)
  \/ \E s \in Slots : StartLoad(s)
  \/ EndDispatch
  \/ \E w \in {"unit", "load", "quiet"} : Rename(w)
  \/ EndTick

BusSpec == BusInit /\ [][BusNext]_vars

(* Ticks follow one another.                                               *)
FairBusSpec == BusSpec /\ WF_vars(EndCommit({}) \/ EndResolve \/ Grant
                                  \/ EndGrant \/ EndDispatch \/ EndTick)

-------------------------------------------------------------------------------
(* Properties.                                                             *)

BusTypeOK ==
  /\ IsInjective(window) /\ Live \subseteq Tags
  /\ tail \in Tags
  /\ result \in [Tags -> (0 .. Ids - 1) \cup {NoResult}]
  /\ rs \subseteq Live
  /\ rr_ptr \in Lanes
  /\ granted \subseteq Lanes /\ Cardinality(granted) <= CdbWidth
  /\ \A l \in Lanes : pending[l].tag \in Tags \cup {-1}

(* broadcastCDB's "tags no longer in flight (squashed / not yet            *)
(* reincarnated)": the result an instruction gets is its own, never that   *)
(* of an earlier owner of its tag.                                         *)
ResultsAreOwn ==
  \A t \in Live : result[t] \in {NoResult, id[t]}

(* No result is lost: an instruction that has left the reservation station *)
(* or started its load, and has no result, is in the pipe of one unit or   *)
(* in the queue, where it will be offered.                                 *)
InUnits(t) == {p \in Units \X (1 .. UnitLatency) : unit[p[1]][p[2]].tag = t}
NoResultIsLost ==
  \A t \in Live : result[t] = NoResult =>
    /\ work[t] = "unit" /\ t \notin rs =>
         Cardinality(InUnits(t)) = 1 \/ t \in {lanes[l].tag : l \in granted}
    /\ work[t] = "load" =>
         \E s \in Slots : lsq[s].tag = t /\ lsq[s].state # "executed"

(* A pending beat of a unit is the output it froze: granting the one and   *)
(* consuming the other are the same result.                                *)
PendingIsOutput ==
  phase \notin {"grant"} =>
    \A u \in Units : pending[u] # NoBeat => unit[u][UnitLatency] = pending[u]

(* No lane starves: a pending result is granted, or squashed, whatever the *)
(* other lanes go on offering.                                             *)
PendingIsServed ==
  \A l \in Lanes, t \in Tags, i \in 0 .. Ids - 1 :
    LET waits == pending[l].tag = t /\ pending[l].id = i
    IN  waits ~> ~waits
===============================================================================
