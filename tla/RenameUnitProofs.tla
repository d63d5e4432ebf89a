-------------------------- MODULE RenameUnitProofs --------------------------
(***************************************************************************)
(* Proofs about the reorder buffer, then about renaming, for every         *)
(* capacity and register count.  The invariant of the buffer is the        *)
(* window: the live entries are those whose age is below active_count;     *)
(* everything the code asserts follows from it, and that the circular      *)
(* array implements the in-order queue of InFlightQueue.  The alias table  *)
(* and the checkpoints are exact only together: recovery makes a           *)
(* checkpoint the table, and a rename makes the table a checkpoint.  Their *)
(* invariant adds the window and the fact that a tag freed in this tick    *)
(* has no new owner before renaming starts.                                *)
(***************************************************************************)
EXTENDS RenameUnit, FiniteSetTheorems, SequenceTheorems, TLAPS

RobInv == RobTypeOK /\ BusyIsWindow /\ DoneOnlyWhenBusy

-------------------------------------------------------------------------------
(* Arithmetic around the end of the array.                                 *)

(* The age of a tag is a position of the array, and no two tags have the   *)
(* same one: ageFromHead can be compared in place of program order.        *)
LEMMA AgeIsPosition ==
  ASSUME head \in Tags, NEW t \in Tags
  PROVE  /\ AgeFromHead(t) \in Tags
         /\ AgeFromHead(t) = IF t >= head THEN t - head
                                          ELSE t - head + Capacity
  BY RobAssumption DEF Tags, AgeFromHead

(* Different tags have different ages.                                     *)
LEMMA AgeIsInjective ==
  ASSUME head \in Tags
  PROVE  \A s, t \in Tags : AgeFromHead(s) = AgeFromHead(t) => s = t
  BY AgeIsPosition, RobAssumption DEF Tags

(* The successor of a tag, as dispatch, commit and squash compute it.      *)
LEMMA SuccessorTag ==
  ASSUME NEW t \in Tags
  PROVE  /\ (t + 1) % Capacity \in Tags
         /\ (t + 1) % Capacity = IF t = Capacity - 1 THEN 0 ELSE t + 1
  BY RobAssumption DEF Tags

(* The tag before a tag, as undispatch computes it.                        *)
LEMMA PredecessorTag ==
  ASSUME NEW t \in Tags
  PROVE  /\ (t - 1 + Capacity) % Capacity \in Tags
         /\ (t - 1 + Capacity) % Capacity = IF t = 0 THEN Capacity - 1 ELSE t - 1
  BY RobAssumption DEF Tags

(* The position n places after h, without the modulus.                     *)
LEMMA WrapAround ==
  ASSUME NEW h \in Tags, NEW n \in 0 .. Capacity
  PROVE  (h + n) % Capacity = IF h + n < Capacity THEN h + n
                                                  ELSE h + n - Capacity
  <1>1. CASE h + n < Capacity
    BY <1>1, RobAssumption DEF Tags
  <1>2. CASE h + n >= Capacity
    <2>1. h + n - Capacity \in 0 .. Capacity - 1 \/ Capacity = h + n - Capacity
      BY <1>2, RobAssumption DEF Tags
    <2> QED
      BY <1>2, <2>1, RobAssumption DEF Tags
  <1>3. QED
    BY <1>1, <1>2, RobAssumption DEF Tags

(* The next free entry is as old as the window is long.                    *)
LEMMA AgeOfTail ==
  ASSUME RobInv, active_count < Capacity
  PROVE  AgeFromHead(tail) = active_count
  <1>1. head \in Tags /\ tail \in Tags /\ active_count \in 0 .. Capacity
    BY DEF RobInv, RobTypeOK
  <1>2. tail = IF head + active_count < Capacity
                 THEN head + active_count ELSE head + active_count - Capacity
    BY <1>1, WrapAround DEF RobInv, BusyIsWindow
  <1>3. AgeFromHead(tail) = IF tail >= head THEN tail - head
                                            ELSE tail - head + Capacity
    BY <1>1, AgeIsPosition
  <1>4. QED
    BY <1>1, <1>2, <1>3, RobAssumption DEF Tags

(* Committing the head makes every other entry one step older.             *)
LEMMA AgeAfterCommit ==
  ASSUME head \in Tags, head' = (head + 1) % Capacity, NEW t \in Tags
  PROVE  AgeFromHead(t)' = IF t = head THEN Capacity - 1 ELSE AgeFromHead(t) - 1
  BY AgeIsPosition, SuccessorTag, RobAssumption DEF Tags, AgeFromHead

-------------------------------------------------------------------------------
(* The empty buffer satisfies the invariant.                               *)
LEMMA RobInitInv == RobInit => RobInv
  <1> SUFFICES ASSUME RobInit PROVE RobInv
    OBVIOUS
  <1>1. 0 \in Tags /\ 0 \in Reg /\ 0 \in Val
    BY RobAssumption DEF Tags, Reg
  <1>2. RobTypeOK
    BY <1>1, RobAssumption DEF RobInit, RobTypeOK
  <1>3. BusyIsWindow
    BY <1>1, AgeIsPosition, RobAssumption DEF RobInit, BusyIsWindow, Tags
  <1>4. QED
    BY <1>2, <1>3 DEF RobInv, RobInit, DoneOnlyWhenBusy

(* dispatch keeps the invariant: the window grows by the tag at the tail.  *)
LEMMA DispatchInv ==
  ASSUME RobInv, NEW d \in Reg, Dispatch(d)
  PROVE  RobInv'
  <1> USE DEF RobInv
  <1>1. active_count \in 0 .. Capacity - 1 /\ active_count' = active_count + 1
    BY RobAssumption DEF Dispatch, HasSpace, RobTypeOK
  <1>2. tail' \in Tags
    BY SuccessorTag DEF Dispatch, RobTypeOK
  <1>3. RobTypeOK'
    BY <1>1, <1>2, RobAssumption DEF Dispatch, RobTypeOK
  <1>4. AgeFromHead(tail) = active_count
    BY AgeOfTail, <1>1, RobAssumption
  <1>5. \A t \in Tags : AgeFromHead(t)' = AgeFromHead(t)
    BY DEF Dispatch, AgeFromHead
  <1>6. \A t \in Tags : busy'[t] <=> busy[t] \/ t = tail
    BY DEF Dispatch, RobTypeOK
  <1>7. \A t \in Tags : AgeFromHead(t) < active_count + 1
                          <=> AgeFromHead(t) < active_count \/ t = tail
    <2> SUFFICES ASSUME NEW t \in Tags
                 PROVE  AgeFromHead(t) < active_count + 1
                          <=> AgeFromHead(t) < active_count \/ t = tail
      OBVIOUS
    <2>1. head \in Tags /\ tail \in Tags
      BY DEF RobTypeOK
    <2>2. AgeFromHead(t) \in Int
      BY <2>1, AgeIsPosition DEF Tags
    <2>3. AgeFromHead(t) = AgeFromHead(tail) <=> t = tail
      BY <2>1, AgeIsInjective
    <2> QED
      BY <1>1, <1>4, <2>2, <2>3
  <1>8. \A t \in Tags : busy'[t] <=> AgeFromHead(t)' < active_count'
    BY <1>1, <1>5, <1>6, <1>7 DEF BusyIsWindow
  <1>9. tail' = (head' + active_count') % Capacity
    <2>1. tail' = IF tail = Capacity - 1 THEN 0 ELSE tail + 1
      BY SuccessorTag DEF Dispatch, RobTypeOK
    <2>2. head' = head /\ head \in Tags
      BY DEF Dispatch, RobTypeOK
    <2>3. tail = (head + active_count) % Capacity
      BY DEF BusyIsWindow
    <2>4. /\ (head + active_count) % Capacity =
               IF head + active_count < Capacity THEN head + active_count
               ELSE head + active_count - Capacity
          /\ (head' + active_count') % Capacity =
               IF head' + active_count' < Capacity THEN head' + active_count'
               ELSE head' + active_count' - Capacity
      BY <1>1, <2>2, WrapAround, RobAssumption
    <2> QED
      BY <1>1, <2>1, <2>2, <2>3, <2>4, RobAssumption DEF Tags
  <1>10. DoneOnlyWhenBusy'
    BY DEF Dispatch, DoneOnlyWhenBusy, RobTypeOK
  <1>11. QED
    BY <1>3, <1>8, <1>9, <1>10 DEF BusyIsWindow

(* undispatch keeps the invariant: the window shrinks by the tag before    *)
(* the tail.                                                               *)
LEMMA UndispatchInv ==
  ASSUME RobInv, NEW u \in Tags, Undispatch(u)
  PROVE  RobInv'
  <1> USE DEF RobInv
  <1>1. /\ active_count \in 1 .. Capacity
        /\ active_count' = active_count - 1
        /\ active_count' \in 0 .. Capacity
    BY RobAssumption DEF Undispatch, RobTypeOK
  <1>2. u = IF tail = 0 THEN Capacity - 1 ELSE tail - 1
    BY PredecessorTag DEF Undispatch, RobTypeOK
  <1>3. tail' = u /\ head' = head
    BY DEF Undispatch
  <1>4. RobTypeOK'
    BY <1>1, <1>3, RobAssumption DEF Undispatch, RobTypeOK
  <1>5. AgeFromHead(u) = active_count - 1
    <2>1. head \in Tags /\ tail \in Tags
      BY DEF RobTypeOK
    <2>2. tail = IF head + active_count < Capacity
                   THEN head + active_count ELSE head + active_count - Capacity
      BY <1>1, <2>1, WrapAround DEF BusyIsWindow
    <2>3. AgeFromHead(u) = IF u >= head THEN u - head ELSE u - head + Capacity
      BY <2>1, AgeIsPosition
    <2> QED
      BY <1>1, <1>2, <2>1, <2>2, <2>3, RobAssumption DEF Tags
  <1>6. \A t \in Tags : AgeFromHead(t)' = AgeFromHead(t)
    BY <1>3 DEF AgeFromHead
  <1>7. \A t \in Tags : busy'[t] <=> busy[t] /\ t # u
    BY DEF Undispatch, RobTypeOK
  <1>8. \A t \in Tags : AgeFromHead(t) < active_count - 1
                          <=> AgeFromHead(t) < active_count /\ t # u
    <2> SUFFICES ASSUME NEW t \in Tags
                 PROVE  AgeFromHead(t) < active_count - 1
                          <=> AgeFromHead(t) < active_count /\ t # u
      OBVIOUS
    <2>1. head \in Tags
      BY DEF RobTypeOK
    <2>2. AgeFromHead(t) \in Int
      BY <2>1, AgeIsPosition DEF Tags
    <2>3. AgeFromHead(t) = AgeFromHead(u) <=> t = u
      BY <2>1, AgeIsInjective
    <2> QED
      BY <1>1, <1>5, <2>2, <2>3
  <1>9. \A t \in Tags : busy'[t] <=> AgeFromHead(t)' < active_count'
    BY <1>1, <1>6, <1>7, <1>8 DEF BusyIsWindow
  <1>10. tail' = (head' + active_count') % Capacity
    <2>1. head \in Tags /\ tail \in Tags
      BY DEF RobTypeOK
    <2>2. tail = (head + active_count) % Capacity
      BY DEF BusyIsWindow
    <2>3. /\ (head + active_count) % Capacity =
               IF head + active_count < Capacity THEN head + active_count
               ELSE head + active_count - Capacity
          /\ (head' + active_count') % Capacity =
               IF head' + active_count' < Capacity THEN head' + active_count'
               ELSE head' + active_count' - Capacity
      BY <1>1, <1>3, <2>1, WrapAround, RobAssumption
    <2> QED
      BY <1>1, <1>2, <1>3, <2>1, <2>2, <2>3, RobAssumption DEF Tags
  <1>11. DoneOnlyWhenBusy'
    BY DEF Undispatch, DoneOnlyWhenBusy, RobTypeOK
  <1>12. QED
    BY <1>4, <1>9, <1>10, <1>11 DEF BusyIsWindow

(* writeResult keeps the invariant: a late result for a free entry         *)
(* changes nothing.                                                        *)
LEMMA WriteResultInv ==
  ASSUME RobInv, NEW u \in Tags, NEW v \in Val, WriteResult(u, v)
  PROVE  RobInv'
  BY DEF RobInv, WriteResult, RobTypeOK, BusyIsWindow, DoneOnlyWhenBusy,
         AgeFromHead

(* commit keeps the invariant: the window loses its head and every age     *)
(* drops by one.                                                           *)
LEMMA CommitInv ==
  ASSUME RobInv, Commit
  PROVE  RobInv'
  <1> USE DEF RobInv
  <1>1. /\ active_count \in 1 .. Capacity
        /\ active_count' = active_count - 1
        /\ active_count' \in 0 .. Capacity
    BY RobAssumption DEF Commit, RobTypeOK
  <1>2. head' \in Tags /\ head' = IF head = Capacity - 1 THEN 0 ELSE head + 1
    BY SuccessorTag DEF Commit, RobTypeOK
  <1>3. RobTypeOK'
    BY <1>1, <1>2 DEF Commit, RobTypeOK
  <1>4. \A t \in Tags :
          AgeFromHead(t)' = IF t = head THEN Capacity - 1 ELSE AgeFromHead(t) - 1
    BY AgeAfterCommit DEF Commit, RobTypeOK
  <1>5. \A t \in Tags : busy'[t] <=> busy[t] /\ t # head
    BY DEF Commit, RobTypeOK
  <1>6. AgeFromHead(head) = 0
    BY AgeIsPosition, RobAssumption DEF RobTypeOK, Tags
  <1>7. \A t \in Tags : busy'[t] <=> AgeFromHead(t)' < active_count'
    <2> SUFFICES ASSUME NEW t \in Tags
                 PROVE  busy'[t] <=> AgeFromHead(t)' < active_count'
      OBVIOUS
    <2>1. head \in Tags
      BY DEF RobTypeOK
    <2>2. AgeFromHead(t) \in 0 .. Capacity - 1
      BY <2>1, AgeIsPosition DEF Tags
    <2>3. AgeFromHead(t) = 0 <=> t = head
      BY <1>6, <2>1, AgeIsInjective
    <2>4. busy[t] <=> AgeFromHead(t) < active_count
      BY DEF BusyIsWindow
    <2> QED
      BY <1>1, <1>4, <1>5, <2>2, <2>3, <2>4, RobAssumption
  <1>8. tail' = (head' + active_count') % Capacity
    <2>1. head \in Tags /\ tail' = tail
      BY DEF Commit, RobTypeOK
    <2>2. tail = (head + active_count) % Capacity
      BY DEF BusyIsWindow
    <2>3. /\ tail = IF head + active_count < Capacity THEN head + active_count
                    ELSE head + active_count - Capacity
          /\ (head' + active_count') % Capacity =
               IF head' + active_count' < Capacity THEN head' + active_count'
               ELSE head' + active_count' - Capacity
      BY <1>1, <1>2, <2>1, <2>2, WrapAround
    <2> QED
      BY <1>1, <1>2, <2>1, <2>3, RobAssumption DEF Tags
  <1>9. DoneOnlyWhenBusy'
    BY DEF Commit, DoneOnlyWhenBusy, RobTypeOK
  <1>10. QED
    BY <1>3, <1>7, <1>8, <1>9 DEF BusyIsWindow

(* squashYoungerThan keeps the invariant: what is left is the window up    *)
(* to the squashing tag.                                                   *)
LEMMA SquashInv ==
  ASSUME RobInv, NEW u \in Tags, SquashYoungerThan(u)
  PROVE  RobInv'
  <1> USE DEF RobInv
  <1>1. AgeFromHead(u) \in 0 .. Capacity - 1
    BY AgeIsPosition DEF RobTypeOK, Tags
  <1>2. /\ active_count' = AgeFromHead(u) + 1
        /\ active_count' \in 0 .. Capacity
    BY <1>1, RobAssumption DEF SquashYoungerThan
  <1>3. /\ tail' \in Tags
        /\ tail' = IF u = Capacity - 1 THEN 0 ELSE u + 1
        /\ head' = head
    BY SuccessorTag DEF SquashYoungerThan
  <1>4. RobTypeOK'
    BY <1>2, <1>3 DEF SquashYoungerThan, RobTypeOK
  <1>5. \A t \in Tags : AgeFromHead(t)' = AgeFromHead(t)
    BY <1>3 DEF AgeFromHead
  <1>6. \A t \in Tags : busy'[t] <=> busy[t] /\ ~IsYounger(t, u)
    BY DEF SquashYoungerThan, YoungerThan, RobTypeOK
  <1>7. AgeFromHead(u) < active_count
    BY DEF SquashYoungerThan, BusyIsWindow
  <1>8. \A t \in Tags : busy'[t] <=> AgeFromHead(t)' < active_count'
    <2> SUFFICES ASSUME NEW t \in Tags
                 PROVE  busy'[t] <=> AgeFromHead(t)' < active_count'
      OBVIOUS
    <2>1. AgeFromHead(t) \in Int
      BY AgeIsPosition DEF RobTypeOK, Tags
    <2>2. busy[t] <=> AgeFromHead(t) < active_count
      BY DEF BusyIsWindow
    <2>3. active_count \in Int
      BY DEF RobTypeOK
    <2> QED
      BY <1>1, <1>2, <1>5, <1>6, <1>7, <2>1, <2>2, <2>3 DEF IsYounger
  <1>9. tail' = (head' + active_count') % Capacity
    <2>1. AgeFromHead(u) = IF u >= head THEN u - head ELSE u - head + Capacity
      BY AgeIsPosition DEF RobTypeOK
    <2> QED
      <3>1. head \in Tags
        BY DEF RobTypeOK
      <3>2. (head + active_count') % Capacity =
              IF head + active_count' < Capacity THEN head + active_count'
              ELSE head + active_count' - Capacity
        BY <1>2, <3>1, WrapAround
      <3> QED
        BY <1>2, <1>3, <2>1, <3>1, <3>2, RobAssumption DEF Tags
  <1>10. DoneOnlyWhenBusy'
    BY DEF SquashYoungerThan, DoneOnlyWhenBusy, RobTypeOK
  <1>11. QED
    BY <1>4, <1>8, <1>9, <1>10 DEF BusyIsWindow

(* The invariant is inductive.                                             *)
LEMMA RobNextInv == RobInv /\ [RobNext]_robVars => RobInv'
  <1> SUFFICES ASSUME RobInv, [RobNext]_robVars PROVE RobInv'
    OBVIOUS
  <1>1. ASSUME NEW d \in Reg, Dispatch(d) PROVE RobInv'
    BY <1>1, DispatchInv
  <1>2. ASSUME NEW t \in Tags, Undispatch(t) PROVE RobInv'
    BY <1>2, UndispatchInv
  <1>3. ASSUME NEW t \in Tags, NEW v \in Val, WriteResult(t, v) PROVE RobInv'
    BY <1>3, WriteResultInv
  <1>4. CASE Commit
    BY <1>4, CommitInv
  <1>5. ASSUME NEW t \in Tags, SquashYoungerThan(t) PROVE RobInv'
    BY <1>5, SquashInv
  <1>6. CASE UNCHANGED robVars
    BY <1>6 DEF robVars, RobInv, RobTypeOK, BusyIsWindow, DoneOnlyWhenBusy,
                AgeFromHead
  <1>7. QED
    BY <1>1, <1>2, <1>3, <1>4, <1>5, <1>6 DEF RobNext

-------------------------------------------------------------------------------
(* The live entries are always the window from head to tail, for every     *)
(* capacity: dispatch, commit, undispatch and squash leave no hole.        *)
THEOREM RobWindow == RobSpec => [](RobTypeOK /\ BusyIsWindow /\ DoneOnlyWhenBusy)
  <1>1. RobInit => RobInv
    BY RobInitInv
  <1>2. RobInv /\ [RobNext]_robVars => RobInv'
    BY RobNextInv
  <1>3. QED
    BY <1>1, <1>2, PTL DEF RobSpec, RobInv

(* A window of n positions holds n tags: the age is a bijection from the   *)
(* live tags onto 0 .. active_count - 1.                                   *)
LEMMA LiveCount ==
  ASSUME RobInv
  PROVE  Cardinality({t \in Tags : busy[t]}) = active_count
  <1> DEFINE L == {t \in Tags : busy[t]}
             P == 0 .. active_count - 1
             f == [t \in L |-> AgeFromHead(t)]
  <1>1. head \in Tags /\ active_count \in 0 .. Capacity
    BY DEF RobInv, RobTypeOK
  <1>2. f \in [L -> P]
    BY <1>1, AgeIsPosition, RobAssumption DEF RobInv, BusyIsWindow, Tags
  <1>3. \A s, t \in L : f[s] = f[t] => s = t
    BY <1>1, AgeIsInjective
  <1>4. ASSUME NEW n \in P PROVE \E t \in L : f[t] = n
    <2> DEFINE t == IF head + n < Capacity THEN head + n ELSE head + n - Capacity
    <2>1. t \in Tags /\ AgeFromHead(t) = n
      BY <1>1, AgeIsPosition, RobAssumption DEF Tags
    <2>2. t \in L
      BY <2>1, <1>1, RobAssumption DEF RobInv, BusyIsWindow
    <2> QED
      BY <2>1, <2>2
  <1>5. f \in Bijection(L, P)
    BY <1>2, <1>3, <1>4 DEF Bijection, Injection, Surjection, IsInjective
  <1>6. IsFiniteSet(P) /\ Cardinality(P) = active_count
    BY <1>1, FS_Interval, RobAssumption
  <1>7. L \in SUBSET Tags /\ IsFiniteSet(L)
    <2>1. IsFiniteSet(Tags)
      BY FS_Interval, RobAssumption DEF Tags
    <2> QED
      BY <2>1, FS_Subset
  <1>8. Cardinality(L) = Cardinality(P)
    BY <1>5, <1>6, <1>7, FS_Bijection DEF ExistsBijection
  <1>9. QED
    BY <1>6, <1>8

(* What checkInvariant and the asserts of dispatch and squashYoungerThan   *)
(* test holds in every reachable state, for every capacity.                *)
THEOREM RobOccupancy == RobSpec => []OccupancyAgrees
  <1>1. RobInv => OccupancyAgrees
    <2> SUFFICES ASSUME RobInv, HasSpace PROVE ~busy[tail]
      BY LiveCount DEF OccupancyAgrees
    <2>1. AgeFromHead(tail) = active_count
      BY AgeOfTail DEF HasSpace
    <2> QED
      BY <2>1, RobAssumption DEF RobInv, RobTypeOK, BusyIsWindow
  <1>2. QED
    BY <1>1, RobWindow, PTL DEF RobInv

-------------------------------------------------------------------------------
(* The circular array implements the bounded in-order queue of             *)
(* InFlightQueue: the refinement mapping reads the array from head on, and *)
(* every step of the array is a step of the queue or leaves it as it is.   *)

(* The tag of the k-th oldest position.                                    *)
TagAt(k) == (head + k - 1) % Capacity

(* The queue the array stands for: what InOrder puts in place of `queue'.  *)
LiveQueue == [k \in 1 .. active_count |-> EntryAt(k)]

-------------------------------------------------------------------------------
(* Positions and tags name each other: TagAt is the inverse of the age.    *)

(* The k-th entry of the queue has age k - 1.                              *)
LEMMA TagOfPosition ==
  ASSUME head \in Tags
  PROVE  \A k \in 1 .. Capacity :
           TagAt(k) \in Tags /\ AgeFromHead(TagAt(k)) = k - 1
  <1> TAKE k \in 1 .. Capacity
  <1>1. k - 1 \in 0 .. Capacity /\ head + k - 1 = head + (k - 1)
    BY RobAssumption DEF Tags
  <1>2. TagAt(k) = IF head + (k - 1) < Capacity THEN head + (k - 1)
                                              ELSE head + (k - 1) - Capacity
    BY <1>1, WrapAround DEF TagAt
  <1>3. TagAt(k) \in Tags
    BY <1>2, RobAssumption DEF Tags
  <1>4. AgeFromHead(TagAt(k)) = k - 1
    BY <1>2, <1>3, RobAssumption DEF Tags, AgeFromHead
  <1>5. QED
    BY <1>3, <1>4

(* The position of a tag in the queue is its age plus one.                 *)
LEMMA PositionOfTag ==
  ASSUME head \in Tags, NEW t \in Tags
  PROVE  AgeFromHead(t) + 1 \in 1 .. Capacity /\ TagAt(AgeFromHead(t) + 1) = t
  <1>1. AgeFromHead(t) + 1 \in 1 .. Capacity
    BY AgeIsPosition, RobAssumption DEF Tags
  <1>2. AgeFromHead(t) \in Int
    BY AgeIsPosition DEF Tags
  <1>3. PICK k \in 1 .. Capacity : k = AgeFromHead(t) + 1
    BY <1>1
  <1>4. TagAt(k) \in Tags /\ AgeFromHead(TagAt(k)) = AgeFromHead(t)
    BY <1>2, <1>3, TagOfPosition
  <1>5. QED
    BY <1>1, <1>3, <1>4, AgeIsInjective

(* The entry of a position, field by field.                                *)
LEMMA EntryOfPosition ==
  ASSUME NEW k
  PROVE  EntryAt(k) = [dest |-> dest_reg[TagAt(k)], done |-> done[TagAt(k)],
                       value |-> value[TagAt(k)]]
  BY DEF EntryAt, TagAt

(* The queue is a sequence of entries as long as the window.               *)
QueueShape ==
  /\ LiveQueue \in Seq(InOrder!Entry)
  /\ Len(LiveQueue) = active_count
  /\ active_count \in 0 .. Capacity
  /\ \A k \in 1 .. active_count : EntryAt(k) \in InOrder!Entry

(* What the mapping shows is a sequence of entries as long as the          *)
(* occupancy.                                                              *)
LEMMA QueueIsSequence == RobInv => QueueShape
  <1> SUFFICES ASSUME RobInv PROVE QueueShape
    OBVIOUS
  <1>1. active_count \in 0 .. Capacity /\ head \in Tags
    BY DEF RobInv, RobTypeOK
  <1>2. ASSUME NEW k \in 1 .. active_count
        PROVE  EntryAt(k) \in InOrder!Entry
    <2>1. TagAt(k) \in Tags
      BY <1>1, TagOfPosition, RobAssumption
    <2> QED
      BY <2>1, EntryOfPosition DEF RobInv, RobTypeOK, InOrder!Entry
  <1>3. QED
    BY <1>1, <1>2, RobAssumption DEF LiveQueue, QueueShape

(* The same after a step.                                                  *)
LEMMA NextQueueIsSequence == RobInv' => QueueShape'
  BY QueueIsSequence, PTL

-------------------------------------------------------------------------------
(* When a sequence is another one with an element appended, without its    *)
(* first element, or only its first n elements.                            *)

(* A sequence with one element more at its end is an Append.               *)
LEMMA AppendIs ==
  ASSUME NEW S, NEW s \in Seq(S), NEW t \in Seq(S), NEW e \in S,
         Len(t) = Len(s) + 1, t[Len(s) + 1] = e,
         \A k \in 1 .. Len(s) : t[k] = s[k]
  PROVE  t = Append(s, e)
  <1>1. Append(s, e) \in Seq(S) /\ Len(Append(s, e)) = Len(s) + 1 /\ Len(s) \in Nat
    BY AppendProperties, LenProperties
  <1>2. \A k \in 1 .. Len(t) : t[k] = Append(s, e)[k]
    BY <1>1, AppendProperties
  <1>3. QED
    BY <1>1, <1>2, SeqEqual

(* A sequence without the first element is a Tail.                         *)
LEMMA TailIs ==
  ASSUME NEW S, NEW s \in Seq(S), NEW t \in Seq(S), s # << >>,
         Len(t) = Len(s) - 1, \A k \in 1 .. Len(t) : t[k] = s[k + 1]
  PROVE  t = Tail(s)
  BY HeadTailProperties, SeqEqual

(* A sequence of the first elements is a SubSeq.                           *)
LEMMA PrefixIs ==
  ASSUME NEW S, NEW s \in Seq(S), NEW t \in Seq(S), Len(t) <= Len(s),
         \A k \in 1 .. Len(t) : t[k] = s[k]
  PROVE  t = SubSeq(s, 1, Len(t))
  <1>1. Len(t) \in Nat /\ Len(s) \in Nat /\ \A i \in 1 .. Len(t) : s[i] \in S
    BY LenProperties
  <1>2. /\ SubSeq(s, 1, Len(t)) \in Seq(S)
        /\ Len(SubSeq(s, 1, Len(t))) = Len(t)
        /\ \A i \in 1 .. Len(t) : SubSeq(s, 1, Len(t))[i] = s[i]
    BY <1>1, SubSeqProperties
  <1>3. QED
    BY <1>2, SeqEqual

-------------------------------------------------------------------------------
(* The mapped steps, one lemma per operation.                              *)

(* At the start the queue is empty.                                        *)
LEMMA InitIsEmpty == RobInit => LiveQueue = << >>
  BY DEF RobInit, LiveQueue

(* dispatch appends an entry that is not done.                             *)
LEMMA DispatchEnters ==
  ASSUME RobInv, RobInv', NEW d \in Reg, Dispatch(d)
  PROVE  Len(LiveQueue) < Capacity
         /\ LiveQueue' = Append(LiveQueue, [dest |-> d, done |-> FALSE, value |-> value[tail]])
  <1> DEFINE e == [dest |-> d, done |-> FALSE, value |-> value[tail]]
  <1>1. /\ active_count \in 0 .. Capacity - 1
        /\ active_count' = active_count + 1
        /\ head' = head /\ head \in Tags /\ tail \in Tags
    BY RobAssumption DEF Dispatch, HasSpace, RobInv, RobTypeOK
  <1>2. \A k \in 1 .. Capacity : TagAt(k)' = TagAt(k)
    BY <1>1 DEF TagAt
  <1>3. TagAt(active_count + 1) = tail
    BY <1>1 DEF RobInv, BusyIsWindow, TagAt
  <1>4. \A k \in 1 .. active_count : TagAt(k) # tail /\ TagAt(k) \in Tags
    <2>1. AgeFromHead(tail) = active_count
      BY <1>1, AgeOfTail, RobAssumption
    <2> QED
      BY <1>1, <2>1, TagOfPosition, RobAssumption
  <1>5. \A k \in 1 .. active_count : EntryAt(k)' = EntryAt(k)
    BY <1>1, <1>2, <1>4, EntryOfPosition DEF Dispatch, RobInv, RobTypeOK, EntryAt, TagAt
  <1>6. \A k \in 1 .. Capacity : k = active_count + 1 => EntryAt(k)' = e
    BY <1>1, <1>2, <1>3 DEF Dispatch, RobInv, RobTypeOK, EntryAt, TagAt
  <1>7. /\ LiveQueue' \in Seq(InOrder!Entry) /\ LiveQueue \in Seq(InOrder!Entry)
        /\ Len(LiveQueue') = active_count + 1 /\ Len(LiveQueue) = active_count
    BY <1>1, QueueIsSequence, NextQueueIsSequence DEF QueueShape
  <1>8. \A k \in 1 .. active_count : LiveQueue'[k] = LiveQueue[k]
    BY <1>1, <1>5 DEF LiveQueue
  <1>9. LiveQueue'[active_count + 1] = e /\ e \in InOrder!Entry
    <2>1. PICK k \in 1 .. Capacity : k = active_count + 1
      BY <1>1, RobAssumption
    <2>2. k \in 1 .. active_count'
      BY <1>1, <2>1, RobAssumption
    <2>3. LiveQueue'[k] = e
      BY <1>6, <2>1, <2>2 DEF LiveQueue, EntryAt
    <2>4. e \in InOrder!Entry
      BY <1>1 DEF InOrder!Entry, RobInv, RobTypeOK
    <2> QED
      BY <2>1, <2>3, <2>4
  <1>10. LiveQueue' = Append(LiveQueue, e)
    BY <1>1, <1>7, <1>8, <1>9, AppendIs
  <1>11. QED
    BY <1>1, <1>7, <1>10, RobAssumption

(* undispatch drops the youngest entry, a squash everything younger than   *)
(* its tag: both keep the entries of the n oldest positions as they are.   *)
LEMMA PrefixStays ==
  ASSUME RobInv, RobInv', head' = head, active_count' <= active_count,
         \A t \in Tags : AgeFromHead(t) < active_count' =>
           /\ dest_reg'[t] = dest_reg[t]
           /\ done'[t] = done[t]
           /\ value'[t] = value[t]
  PROVE  /\ LiveQueue' = SubSeq(LiveQueue, 1, active_count')
         /\ active_count' \in 0 .. Len(LiveQueue)
  <1>1. /\ LiveQueue' \in Seq(InOrder!Entry) /\ LiveQueue \in Seq(InOrder!Entry)
        /\ Len(LiveQueue') = active_count' /\ Len(LiveQueue) = active_count
        /\ active_count \in 0 .. Capacity /\ active_count' \in 0 .. Capacity
    BY QueueIsSequence, NextQueueIsSequence DEF QueueShape
  <1>2. \A k \in 1 .. active_count' : LiveQueue'[k] = LiveQueue[k]
    <2> TAKE k \in 1 .. active_count'
    <2>1. k \in 1 .. Capacity /\ k \in 1 .. active_count /\ head \in Tags
      BY <1>1, RobAssumption DEF RobInv, RobTypeOK
    <2>2. TagAt(k) \in Tags /\ AgeFromHead(TagAt(k)) < active_count'
      BY <1>1, <2>1, TagOfPosition
    <2>3. EntryAt(k)' = EntryAt(k)
      BY <2>2 DEF EntryAt, TagAt
    <2> QED
      BY <2>1, <2>3 DEF LiveQueue
  <1>3. QED
    BY <1>1, <1>2, PrefixIs

(* undispatch keeps all but the last entry.                                *)
LEMMA UndispatchKeeps ==
  ASSUME RobInv, RobInv', NEW u \in Tags, Undispatch(u)
  PROVE  /\ LiveQueue' = SubSeq(LiveQueue, 1, active_count')
         /\ active_count' \in 0 .. Len(LiveQueue)
  <1>1. /\ active_count \in 1 .. Capacity
        /\ active_count' = active_count - 1
        /\ head' = head
    BY RobAssumption DEF Undispatch, RobInv, RobTypeOK
  <1>2. ~busy'[u] /\ AgeFromHead(u)' = AgeFromHead(u)
    BY <1>1 DEF Undispatch, RobInv, RobTypeOK, AgeFromHead
  <1>3. ~(AgeFromHead(u) < active_count')
    BY <1>2 DEF RobInv, BusyIsWindow
  <1>4. active_count' <= active_count
    BY <1>1
  <1>5. \A t \in Tags : AgeFromHead(t) < active_count' =>
           /\ dest_reg'[t] = dest_reg[t]
           /\ done'[t] = done[t]
           /\ value'[t] = value[t]
    BY <1>3 DEF Undispatch, RobInv, RobTypeOK
  <1>6. QED
    BY <1>1, <1>4, <1>5, PrefixStays

(* A squash keeps the entries up to the squashing tag, which are a         *)
(* prefix.                                                                 *)
LEMMA SquashKeeps ==
  ASSUME RobInv, RobInv', NEW u \in Tags, SquashYoungerThan(u)
  PROVE  /\ LiveQueue' = SubSeq(LiveQueue, 1, active_count')
         /\ active_count' \in 0 .. Len(LiveQueue)
  <1>1. AgeFromHead(u) \in 0 .. Capacity - 1
    BY AgeIsPosition DEF RobInv, RobTypeOK, Tags
  <1>2. /\ head' = head
        /\ active_count' = AgeFromHead(u) + 1
        /\ active_count' <= active_count
        /\ active_count \in 0 .. Capacity
    BY <1>1, RobAssumption
       DEF SquashYoungerThan, RobInv, RobTypeOK, BusyIsWindow
  <1>3. \A t \in Tags : AgeFromHead(t) < active_count' => t \notin YoungerThan(u)
    BY <1>1, <1>2, AgeIsPosition DEF YoungerThan, IsYounger, RobInv, RobTypeOK, Tags
  <1>4. \A t \in Tags : AgeFromHead(t) < active_count' =>
           /\ dest_reg'[t] = dest_reg[t]
           /\ done'[t] = done[t]
           /\ value'[t] = value[t]
    BY <1>3 DEF SquashYoungerThan, RobInv, RobTypeOK
  <1>5. QED
    BY <1>2, <1>4, PrefixStays

(* commit takes the oldest entry off the front, and that entry is done.    *)
LEMMA CommitLeaves ==
  ASSUME RobInv, RobInv', Commit
  PROVE  LiveQueue # << >> /\ Head(LiveQueue).done /\ LiveQueue' = Tail(LiveQueue)
  <1>1. /\ active_count \in 1 .. Capacity
        /\ active_count' = active_count - 1
        /\ head \in Tags /\ head' \in Tags
        /\ head' = IF head = Capacity - 1 THEN 0 ELSE head + 1
    BY RobAssumption, SuccessorTag DEF Commit, RobInv, RobTypeOK
  <1>2. /\ LiveQueue' \in Seq(InOrder!Entry) /\ LiveQueue \in Seq(InOrder!Entry)
        /\ Len(LiveQueue') = active_count' /\ Len(LiveQueue) = active_count
    BY QueueIsSequence, NextQueueIsSequence DEF QueueShape
  <1>3. LiveQueue # << >> /\ Head(LiveQueue) = EntryAt(1)
    BY <1>1, <1>2 DEF LiveQueue
  <1>4. TagAt(1) = head
    BY <1>1, RobAssumption DEF TagAt, Tags
  <1>5. EntryAt(1).done
    BY <1>4 DEF EntryAt, TagAt, Commit
  <1>6. \A k \in 1 .. active_count' : LiveQueue'[k] = LiveQueue[k + 1]
    <2> TAKE k \in 1 .. active_count'
    <2>1. k \in 1 .. Capacity /\ k + 1 \in 2 .. Capacity /\ k + 1 \in 1 .. active_count
      BY <1>1, RobAssumption
    <2>2. TagAt(k)' = TagAt(k + 1)
      <3>1. k \in 0 .. Capacity /\ k - 1 \in 0 .. Capacity
        BY <2>1, RobAssumption
      <3>2. TagAt(k)' = IF head' + (k - 1) < Capacity THEN head' + (k - 1)
                                                ELSE head' + (k - 1) - Capacity
        BY <1>1, <3>1, WrapAround DEF TagAt, Tags
      <3>3. TagAt(k + 1) = IF head + k < Capacity THEN head + k
                                                  ELSE head + k - Capacity
        BY <1>1, <3>1, WrapAround DEF TagAt, Tags
      <3> QED
        BY <1>1, <3>1, <3>2, <3>3, RobAssumption DEF Tags
    <2>3. TagAt(k + 1) \in Tags /\ TagAt(k + 1) # head
      <3>1. PICK j \in 2 .. Capacity : j = k + 1
        BY <2>1
      <3>2. j \in 1 .. Capacity /\ j - 1 # 0
        BY RobAssumption
      <3>3. TagAt(j) \in Tags /\ AgeFromHead(TagAt(j)) = j - 1
        BY <1>1, <3>2, TagOfPosition
      <3>4. AgeFromHead(head) = 0
        BY <1>1, AgeIsPosition, RobAssumption DEF Tags
      <3> QED
        BY <3>1, <3>2, <3>3, <3>4
    <2>4. EntryAt(k)' = EntryAt(k + 1)
      BY <2>2, <2>3 DEF EntryAt, TagAt, Commit, RobInv, RobTypeOK
    <2> QED
      BY <2>1, <2>4 DEF LiveQueue
  <1>7. QED
    BY <1>1, <1>2, <1>3, <1>5, <1>6, TailIs

(* A result marks one position done, or belongs to no live entry and       *)
(* changes nothing.                                                        *)
LEMMA ResultFinishes ==
  ASSUME RobInv, RobInv', NEW u \in Tags, NEW v \in Val, WriteResult(u, v)
  PROVE  \/ LiveQueue' = LiveQueue
         \/ \E i \in 1 .. Capacity : InOrder!Finish(i, v)
  <1>1. /\ head \in Tags /\ head' = head
        /\ active_count \in 0 .. Capacity /\ active_count' = active_count
    BY DEF WriteResult, RobInv, RobTypeOK
  <1>2. CASE ~busy[u]
    BY <1>1, <1>2 DEF WriteResult, LiveQueue, EntryAt
  <1>3. CASE busy[u]
    <2>1. PICK i \in 1 .. Capacity : i = AgeFromHead(u) + 1
      BY <1>1, PositionOfTag
    <2>2. AgeFromHead(u) < active_count /\ AgeFromHead(u) \in Tags
      BY <1>1, <1>3, AgeIsPosition DEF RobInv, BusyIsWindow
    <2>3. i \in 1 .. active_count /\ TagAt(i) = u
      BY <1>1, <2>1, <2>2, PositionOfTag DEF Tags
    <2>4. \A k \in 1 .. active_count : TagAt(k) = u <=> k = i
      BY <1>1, <2>1, <2>3, TagOfPosition, RobAssumption
    <2>5. \A k \in 1 .. active_count :
            EntryAt(k)' = IF k = i THEN [EntryAt(k) EXCEPT !.done = TRUE, !.value = v]
                                   ELSE EntryAt(k)
      <3> TAKE k \in 1 .. active_count
      <3>1. TagAt(k) \in Tags /\ TagAt(k)' = TagAt(k)
        BY <1>1, TagOfPosition, RobAssumption DEF TagAt
      <3>2. TagAt(k) = u <=> k = i
        BY <2>4
      <3> QED
        BY <1>3, <3>1, <3>2 DEF EntryAt, TagAt, WriteResult, RobInv, RobTypeOK
    <2>6. LiveQueue' = [LiveQueue EXCEPT ![i].done = TRUE, ![i].value = v]
      BY <1>1, <2>3, <2>5 DEF LiveQueue
    <2>7. i \in DOMAIN LiveQueue
      BY <2>3 DEF LiveQueue
    <2> QED
      BY <2>1, <2>6, <2>7 DEF InOrder!Finish, LiveQueue
  <1>4. QED
    BY <1>2, <1>3

(* Every step of the array is a step of the queue, or leaves it unchanged. *)
LEMMA StepRefines ==
  ASSUME RobInv, RobInv', [RobNext]_robVars
  PROVE  InOrder!QueueNext \/ LiveQueue' = LiveQueue
  <1>1. ASSUME NEW d \in Reg, Dispatch(d) PROVE InOrder!Enter(d)
    <2> DEFINE e == [dest |-> d, done |-> FALSE, value |-> value[tail]]
    <2>1. e \in InOrder!Entry /\ e.dest = d /\ ~e.done
      BY DEF InOrder!Entry, RobInv, RobTypeOK
    <2>2. Len(LiveQueue) < Capacity /\ LiveQueue' = Append(LiveQueue, e)
      BY <1>1, DispatchEnters
    <2> QED
      BY <2>1, <2>2 DEF InOrder!Enter, LiveQueue
  <1>2. ASSUME NEW t \in Tags, Undispatch(t) \/ SquashYoungerThan(t)
        PROVE  \E n \in 0 .. Len(LiveQueue) : InOrder!Keep(n)
    BY <1>2, UndispatchKeeps, SquashKeeps DEF InOrder!Keep, LiveQueue
  <1>3. CASE Commit
    BY <1>3, CommitLeaves DEF InOrder!QueueNext, InOrder!Leave, LiveQueue
  <1>4. ASSUME NEW t \in Tags, NEW v \in Val, WriteResult(t, v)
        PROVE  InOrder!QueueNext \/ LiveQueue' = LiveQueue
    BY <1>4, ResultFinishes DEF InOrder!QueueNext
  <1>5. CASE UNCHANGED robVars
    BY <1>5 DEF robVars, LiveQueue, EntryAt
  <1>6. QED
    BY <1>1, <1>2, <1>3, <1>4, <1>5 DEF RobNext, InOrder!QueueNext, LiveQueue

(* The reorder buffer is a first-in first-out queue of at most Capacity    *)
(* instructions: results can come in any order, but the array hands them   *)
(* back in program order, each only once and only when it is done, however *)
(* often the window has wrapped around the end of the array.               *)
THEOREM RobImplementsQueue == RobSpec => ImplementsQueue
  <1>1. RobInit => InOrder!QueueInit
    BY InitIsEmpty DEF InOrder!QueueInit, LiveQueue
  <1>2. RobInv /\ RobInv' /\ [RobNext]_robVars => [InOrder!QueueNext]_LiveQueue
    BY StepRefines
  <1>3. RobSpec => []RobInv
    BY RobWindow, PTL DEF RobInv
  <1>4. QED
    BY <1>1, <1>2, <1>3, PTL DEF RobSpec, ImplementsQueue, InOrder!QueueSpec, LiveQueue

-------------------------------------------------------------------------------
(* Renaming on top of the buffer.                                          *)

RuInv ==
  /\ RobInv
  /\ RuTypeOK
  /\ RatNamesNewestWriter
  /\ CheckpointsStayExact
  /\ NoStaleCheckpoint
  /\ FreedTagsAreFree

Maps == [Reg -> Tags \cup {NoTag}]

-------------------------------------------------------------------------------
(* The youngest of a set of tags.                                          *)

(* When the oldest tag h leaves and all others become one step older, the  *)
(* youngest is the same, unless it was h, and then nothing is left.        *)
LEMMA NewestAfterOldestLeaves ==
  ASSUME NEW h, NEW n, NEW S, NEW age, NEW older, h # NoTag,
         IsNewest(n, S, age),
         \A t \in S : age[t] \in Nat /\ (age[t] = 0 <=> t = h),
         \A t \in S \ {h} : older[t] = age[t] - 1
  PROVE  IsNewest(IF n = h THEN NoTag ELSE n, S \ {h}, older)
  <1>1. CASE n = NoTag
    BY <1>1 DEF IsNewest
  <1>2. CASE n = h
    <2>1. h \in S /\ \A t \in S : age[t] <= age[h]
      BY <1>2 DEF IsNewest
    <2>2. \A t \in S : age[t] = 0
      BY <2>1
    <2>3. S \ {h} = {}
      BY <2>2
    <2> QED
      BY <1>2, <2>3 DEF IsNewest
  <1>3. CASE n # NoTag /\ n # h
    <2>1. n \in S /\ \A t \in S : age[t] <= age[n]
      BY <1>3 DEF IsNewest
    <2>2. \A t \in S \ {h} : older[t] <= older[n]
      BY <1>3, <2>1
    <2> QED
      BY <1>3, <2>1, <2>2 DEF IsNewest
  <1>4. QED
    BY <1>1, <1>2, <1>3

(* A new tag that is younger than all others is the youngest.              *)
LEMMA NewestAfterYoungerEnters ==
  ASSUME NEW n, NEW S, NEW age, n # NoTag, age[n] \in Int,
         \A t \in S : age[t] \in Int /\ age[t] <= age[n]
  PROVE  IsNewest(n, S \cup {n}, age)
  BY DEF IsNewest

(* The youngest depends only on the ages of the tags of the set.           *)
LEMMA NewestSameAges ==
  ASSUME NEW n, NEW S, NEW age, NEW other,
         \A t \in S : other[t] = age[t], IsNewest(n, S, age)
  PROVE  IsNewest(n, S, other)
  BY DEF IsNewest

-------------------------------------------------------------------------------
(* The empty tables satisfy the invariant.                                 *)
LEMMA RuInitInv == RuInit => RuInv
  <1> SUFFICES ASSUME RuInit PROVE RuInv
    OBVIOUS
  <1>1. RobInv
    BY RobInitInv DEF RuInit
  <1>2. NoMap \in Maps
    BY DEF NoMap, Maps
  <1>3. RuTypeOK
    BY <1>1, <1>2 DEF RuInit, RuTypeOK, RobInv, Maps, Kinds, Stages
  <1>4. \A t \in Tags : ~busy[t]
    BY DEF RuInit, RobInit
  <1>5. RatNamesNewestWriter
    BY <1>4 DEF RatNamesNewestWriter, MapsNewestWriters, IsNewest,
                WritersUpTo, RuInit, NoMap
  <1>6. CheckpointsStayExact /\ NoStaleCheckpoint /\ FreedTagsAreFree
    BY <1>4 DEF CheckpointsStayExact, NoStaleCheckpoint, FreedTagsAreFree, RuInit
  <1>7. QED
    BY <1>1, <1>3, <1>5, <1>6 DEF RuInv

(* A step that leaves the window, the tables and the destinations alone    *)
(* leaves both exactness properties alone.                                 *)
LEMMA SameMapsSameExactness ==
  ASSUME RuInv,
         UNCHANGED <<head, busy, dest_reg, kind, rat, ckpt_valid, ckpt_map>>
  PROVE  RatNamesNewestWriter' /\ CheckpointsStayExact' /\ NoStaleCheckpoint'
  BY DEF RuInv, RatNamesNewestWriter, CheckpointsStayExact, NoStaleCheckpoint,
         MapsNewestWriters, WritersUpTo, Ages, AgeFromHead

(* A result keeps the invariant: no table depends on it.                   *)
LEMMA CompleteInv ==
  ASSUME RuInv, NEW t \in Tags, NEW v \in Val, Complete(t, v)
  PROVE  RuInv'
  <1>1. RobInv'
    BY WriteResultInv DEF RuInv, Complete
  <1>2. UNCHANGED <<head, busy, dest_reg, kind, rat, ckpt_valid, ckpt_map,
                    stage, rat_snapshot, freed_rob_tags>>
    BY DEF Complete, WriteResult, renameVars
  <1>3. RuTypeOK'
    BY <1>1, <1>2 DEF RuInv, RobInv, RuTypeOK
  <1>4. RatNamesNewestWriter' /\ CheckpointsStayExact' /\ NoStaleCheckpoint'
    BY <1>2, SameMapsSameExactness
  <1>5. FreedTagsAreFree'
    BY <1>2 DEF RuInv, FreedTagsAreFree
  <1>6. QED
    BY <1>1, <1>3, <1>4, <1>5 DEF RuInv

(* The next stage keeps the invariant: it keeps the scrub set or clears    *)
(* it.                                                                     *)
LEMMA EnterStageInv ==
  ASSUME RuInv, EnterStage
  PROVE  RuInv'
  <1>1. RobInv'
    BY DEF RuInv, EnterStage, robVars, RobInv, RobTypeOK, BusyIsWindow,
           DoneOnlyWhenBusy, AgeFromHead
  <1>2. UNCHANGED <<head, busy, dest_reg, kind, rat, ckpt_valid, ckpt_map,
                    rat_snapshot>>
    BY DEF EnterStage, robVars, tableVars
  <1>3. stage' \in Stages /\ (stage' = "writeback" => stage = "commit")
    BY DEF RuInv, RuTypeOK, EnterStage, NextStage, Stages
  <1>4. freed_rob_tags' = IF stage' = "commit" THEN {} ELSE freed_rob_tags
    BY DEF EnterStage, FreedAtStage
  <1>5. RuTypeOK'
    BY <1>1, <1>2, <1>3, <1>4 DEF RuInv, RobInv, RuTypeOK
  <1>6. RatNamesNewestWriter' /\ CheckpointsStayExact' /\ NoStaleCheckpoint'
    BY <1>2, SameMapsSameExactness
  <1>7. FreedTagsAreFree'
    BY <1>2, <1>3, <1>4 DEF RuInv, FreedTagsAreFree, Stages
  <1>8. QED
    BY <1>1, <1>5, <1>6, <1>7 DEF RuInv

-------------------------------------------------------------------------------
(* Facts about the next state that several conjuncts of a step need.       *)

(* Ages are below the capacity, and only the head has age 0.               *)
LEMMA AgesAreNat ==
  ASSUME RuInv, NEW t \in Tags
  PROVE  /\ AgeFromHead(t) \in 0 .. Capacity - 1
         /\ head \in Tags
         /\ AgeFromHead(t) = 0 <=> t = head
  <1>1. head \in Tags
    BY DEF RuInv, RobInv, RobTypeOK
  <1>2. AgeFromHead(t) \in 0 .. Capacity - 1
    BY <1>1, AgeIsPosition DEF Tags
  <1>3. AgeFromHead(head) = 0
    BY <1>1, AgeIsPosition, RobAssumption DEF Tags
  <1>4. QED
    BY <1>1, <1>2, <1>3, AgeIsInjective

(* What the oldest instruction's departure does to a map that is exact up  *)
(* to some age: cleared as commit clears it, it is exact up to the age     *)
(* before.                                                                 *)
LEMMA ClearedMapIsExact ==
  ASSUME RuInv, CommitOne, NEW m \in Maps, NEW a \in Int,
         MapsNewestWriters(m, a), NEW r \in Reg
  PROVE  LET c == IF Writes(kind[head], dest_reg[head])
                    THEN Cleared(m, dest_reg[head], head) ELSE m
         IN  IsNewest(c[r], WritersUpTo(r, a - 1)', Ages')
  <1> DEFINE c == IF Writes(kind[head], dest_reg[head])
                    THEN Cleared(m, dest_reg[head], head) ELSE m
             S == WritersUpTo(r, a)
  <1>1. /\ head \in Tags /\ head # NoTag
        /\ kind' = kind /\ dest_reg' = dest_reg
        /\ busy' = [busy EXCEPT ![head] = FALSE]
        /\ busy \in [Tags -> BOOLEAN]
        /\ dest_reg[head] \in Reg
    BY RobAssumption
    DEF CommitOne, Commit, RuInv, RobInv, RobTypeOK, Tags, NoTag
  <1>2. \A t \in Tags : AgeFromHead(t)' = IF t = head THEN Capacity - 1
                                                     ELSE AgeFromHead(t) - 1
    BY <1>1, AgeAfterCommit DEF CommitOne, Commit
  <1>3. \A t \in Tags : AgeFromHead(t) \in Nat /\ (AgeFromHead(t) = 0 <=> t = head)
    BY AgesAreNat
  <1>4. WritersUpTo(r, a - 1)' = S \ {head}
    <2>1. \A t \in Tags : t \in WritersUpTo(r, a - 1)' <=> t \in S \ {head}
      BY <1>1, <1>2, <1>3 DEF WritersUpTo
    <2> QED
      BY <2>1 DEF WritersUpTo
  <1>5. IsNewest(m[r], S, Ages)
    BY DEF MapsNewestWriters
  <1>6. c[r] = IF m[r] = head THEN NoTag ELSE m[r]
    <2>1. m[r] = head => Writes(kind[head], dest_reg[head]) /\ dest_reg[head] = r
      BY <1>1, <1>5 DEF IsNewest, WritersUpTo
    <2> QED
      BY <1>1, <2>1 DEF Cleared, Maps
  <1>7. /\ \A t \in S : Ages[t] \in Nat /\ (Ages[t] = 0 <=> t = head)
        /\ \A t \in S \ {head} : Ages'[t] = Ages[t] - 1
    BY <1>2, <1>3 DEF WritersUpTo, Ages
  <1>8. IsNewest(IF m[r] = head THEN NoTag ELSE m[r], S \ {head}, Ages')
    BY <1>1, <1>5, <1>7, NewestAfterOldestLeaves
  <1>9. QED
    BY <1>4, <1>6, <1>8

(* A retirement keeps the invariant: its register is renamed by a younger  *)
(* writer, or by none.                                                     *)
LEMMA CommitOneInv ==
  ASSUME RuInv, CommitOne
  PROVE  RuInv'
  <1>1. RobInv'
    BY CommitInv DEF RuInv, CommitOne
  <1>2. /\ head \in Tags /\ dest_reg[head] \in Reg /\ kind[head] \in Kinds
        /\ rat \in Maps /\ ckpt_map \in [Tags -> Maps]
        /\ ckpt_valid \in [Tags -> BOOLEAN]
        /\ busy \in [Tags -> BOOLEAN]
        /\ busy' = [busy EXCEPT ![head] = FALSE]
        /\ kind' = kind /\ dest_reg' = dest_reg
        /\ freed_rob_tags' = freed_rob_tags \cup {head}
        /\ stage = "commit" /\ stage' = stage
    BY DEF RuInv, RobInv, RobTypeOK, RuTypeOK, CommitOne, Commit, Maps
  <1>3. \A m \in Maps, d \in Reg, t \in Tags : Cleared(m, d, t) \in Maps
    BY DEF Cleared, Maps
  <1>4. /\ rat' = IF Writes(kind[head], dest_reg[head])
                    THEN Cleared(rat, dest_reg[head], head) ELSE rat
        /\ \A b \in Tags : ckpt_valid[b] =>
             ckpt_map'[b] = IF Writes(kind[head], dest_reg[head])
                              THEN Cleared(ckpt_map[b], dest_reg[head], head)
                              ELSE ckpt_map[b]
        /\ ckpt_valid' = IF kind[head] = "control"
                           THEN [ckpt_valid EXCEPT ![head] = FALSE]
                           ELSE ckpt_valid
    BY <1>2 DEF CommitOne, OnCommitClear
  <1>5. RuTypeOK'
    <2>1. rat' \in Maps
      BY <1>2, <1>3, <1>4
    <2>2. ckpt_map' \in [Tags -> Maps]
      BY <1>2, <1>3 DEF CommitOne, OnCommitClear
    <2>3. freed_rob_tags' \in SUBSET Tags
      BY <1>2 DEF RuInv, RuTypeOK
    <2> QED
      BY <1>1, <1>2, <1>4, <2>1, <2>2, <2>3
      DEF RuInv, RobInv, RuTypeOK, Maps, CommitOne
  <1>6. RatNamesNewestWriter'
    <2>1. MapsNewestWriters(rat, Capacity)
      <3>1. \A r \in Reg : WritersUpTo(r, Capacity) = WritersUpTo(r, Capacity - 1)
        BY AgesAreNat, RobAssumption DEF WritersUpTo
      <3> QED
        BY <3>1 DEF RuInv, RatNamesNewestWriter, MapsNewestWriters
    <2>2. \A r \in Reg : IsNewest(rat'[r], WritersUpTo(r, Capacity - 1)', Ages')
      BY <1>2, <1>4, <2>1, ClearedMapIsExact, RobAssumption
    <2> QED
      BY <2>2 DEF RatNamesNewestWriter, MapsNewestWriters
  <1>7. CheckpointsStayExact'
    <2> SUFFICES ASSUME NEW b \in Tags, busy'[b], kind'[b] = "control"
                 PROVE  /\ ckpt_valid'[b]
                        /\ MapsNewestWriters(ckpt_map[b], AgeFromHead(b))'
      BY DEF CheckpointsStayExact
    <2>1. b # head /\ busy[b] /\ kind[b] = "control"
      BY <1>2
    <2>2. ckpt_valid[b] /\ MapsNewestWriters(ckpt_map[b], AgeFromHead(b))
      BY <2>1 DEF RuInv, CheckpointsStayExact
    <2>3. ckpt_valid'[b]
      BY <1>2, <1>4, <2>1, <2>2
    <2>4. AgeFromHead(b)' = AgeFromHead(b) - 1 /\ AgeFromHead(b) \in Int
      BY <1>2, <2>1, AgeAfterCommit, AgesAreNat DEF CommitOne, Commit
    <2>5. PICK a \in Int : a = AgeFromHead(b)
      BY <2>4
    <2>6. \A r \in Reg : IsNewest(ckpt_map'[b][r], WritersUpTo(r, a - 1)', Ages')
      BY <1>2, <1>4, <2>2, <2>5, ClearedMapIsExact
    <2>7. \A r \in Reg : WritersUpTo(r, a - 1)' = WritersUpTo(r, AgeFromHead(b))'
      BY <2>4, <2>5 DEF WritersUpTo
    <2> QED
      BY <2>3, <2>6, <2>7 DEF MapsNewestWriters
  <1>8. NoStaleCheckpoint'
    BY <1>2, <1>4 DEF RuInv, NoStaleCheckpoint
  <1>9. FreedTagsAreFree'
    BY <1>2 DEF RuInv, FreedTagsAreFree
  <1>10. QED
    BY <1>1, <1>5, <1>6, <1>7, <1>8, <1>9 DEF RuInv

-------------------------------------------------------------------------------
(* A recovery keeps the invariant: its checkpoint, scrubbed, is exact for  *)
(* what is left.                                                           *)
LEMMA RecoverInv ==
  ASSUME RuInv, NEW b \in Tags, Recover(b)
  PROVE  RuInv'
  <1>1. RobInv'
    BY SquashInv DEF RuInv, Recover
  <1>2. /\ busy[b] /\ kind[b] = "control" /\ stage = "writeback"
        /\ head' = head /\ kind' = kind /\ dest_reg' = dest_reg
        /\ stage' = stage /\ freed_rob_tags' = freed_rob_tags
        /\ ckpt_map' = ckpt_map /\ rat_snapshot' = rat_snapshot
        /\ rat' = RecoveredMap(b)
    BY DEF Recover, RecoverTables, SquashYoungerThan
  <1>3. \A t \in Tags : AgeFromHead(t)' = AgeFromHead(t)
    BY <1>2 DEF AgeFromHead
  <1>4. \A t \in Tags : /\ busy'[t] <=> busy[t] /\ AgeFromHead(t) <= AgeFromHead(b)
                        /\ ckpt_valid'[t] <=> ckpt_valid[t] /\ t \notin YoungerThan(b)
    <2>1. \A t \in Tags : AgeFromHead(t) \in Int
      BY AgesAreNat
    <2>2. \A t \in Tags : t \in YoungerThan(b)
                            <=> busy[t] /\ ~(AgeFromHead(t) <= AgeFromHead(b))
      BY <2>1 DEF YoungerThan, IsYounger
    <2>3. /\ busy' = [t \in Tags |-> busy[t] /\ t \notin YoungerThan(b)]
          /\ ckpt_valid' = [t \in Tags |-> ckpt_valid[t] /\ t \notin YoungerThan(b)]
      BY DEF Recover, RecoverTables, ValidAfterSquash, SquashYoungerThan
    <2> QED
      BY <2>2, <2>3
  <1>5. ckpt_valid[b] /\ MapsNewestWriters(ckpt_map[b], AgeFromHead(b))
    BY <1>2 DEF RuInv, CheckpointsStayExact
  <1>6. ckpt_map[b] \in Maps
    BY DEF RuInv, RuTypeOK, Maps
  <1>7. \A r \in Reg : rat'[r] = ckpt_map[b][r]
    <2> SUFFICES ASSUME NEW r \in Reg PROVE rat'[r] = ckpt_map[b][r]
      OBVIOUS
    <2>1. IsNewest(ckpt_map[b][r], WritersUpTo(r, AgeFromHead(b)), Ages)
      BY <1>5 DEF MapsNewestWriters
    <2>2. CASE ckpt_map[b][r] = NoTag
      BY <1>2, <1>5, <2>2 DEF RecoveredMap, Scrubbed
    <2>3. CASE ckpt_map[b][r] # NoTag
      <3>1. ckpt_map[b][r] \in WritersUpTo(r, AgeFromHead(b))
        BY <2>1, <2>3 DEF IsNewest
      <3>2. r # 0
        BY <3>1 DEF WritersUpTo, Writes
      <3>3. ckpt_map[b][r] \notin freed_rob_tags
        BY <1>2, <3>1 DEF RuInv, FreedTagsAreFree, WritersUpTo
      <3>4. ckpt_map[b][r] \notin YoungerThan(b)
        BY <3>1, AgesAreNat DEF WritersUpTo, YoungerThan, IsYounger
      <3> QED
        BY <1>2, <1>5, <3>2, <3>3, <3>4 DEF RecoveredMap, Scrubbed
    <2>4. QED
      BY <2>2, <2>3
  <1>8. RuTypeOK'
    <2>1. rat' = Scrubbed(ckpt_map[b], freed_rob_tags \cup YoungerThan(b))
      BY <1>2, <1>5 DEF RecoveredMap
    <2>2. rat' \in Maps
      BY <1>6, <1>7, <2>1 DEF Scrubbed, Maps, NoTag
    <2>3. ckpt_valid' \in [Tags -> BOOLEAN]
      BY DEF Recover, RecoverTables, ValidAfterSquash, RuInv, RuTypeOK
    <2> QED
      BY <1>1, <1>2, <2>2, <2>3 DEF RuInv, RobInv, RuTypeOK, Maps
  <1>9. PICK a \in Int : a = AgeFromHead(b)
    BY AgesAreNat
  <1>10. \A r \in Reg, c \in Int : c >= a => WritersUpTo(r, c)' = WritersUpTo(r, a)
    <2> SUFFICES ASSUME NEW r \in Reg, NEW c \in Int, c >= a
                 PROVE  WritersUpTo(r, c)' = WritersUpTo(r, a)
      OBVIOUS
    <2>1. \A t \in Tags : AgeFromHead(t) \in Int
      BY AgesAreNat
    <2> QED
      BY <1>2, <1>3, <1>4, <1>9, <2>1 DEF WritersUpTo
  <1>11. Ages' = Ages
    BY <1>3 DEF Ages
  <1>12. RatNamesNewestWriter'
    <2>1. Capacity - 1 >= a /\ Capacity - 1 \in Int
      BY <1>9, AgesAreNat, RobAssumption
    <2>2. \A r \in Reg : WritersUpTo(r, Capacity - 1)'
                           = WritersUpTo(r, AgeFromHead(b))
      BY <1>9, <1>10, <2>1
    <2> QED
      BY <1>5, <1>7, <1>11, <2>2 DEF RatNamesNewestWriter, MapsNewestWriters
  <1>13. CheckpointsStayExact'
    <2> SUFFICES ASSUME NEW d \in Tags, busy'[d], kind'[d] = "control"
                 PROVE  /\ ckpt_valid'[d]
                        /\ MapsNewestWriters(ckpt_map[d], AgeFromHead(d))'
      BY DEF CheckpointsStayExact
    <2>1. busy[d] /\ kind[d] = "control" /\ AgeFromHead(d) <= AgeFromHead(b)
      BY <1>2, <1>4
    <2>2. ckpt_valid[d] /\ MapsNewestWriters(ckpt_map[d], AgeFromHead(d))
      BY <2>1 DEF RuInv, CheckpointsStayExact
    <2>3. ckpt_valid'[d]
      BY <1>4, <2>1, <2>2, AgesAreNat DEF YoungerThan, IsYounger
    <2>4. \A r \in Reg : WritersUpTo(r, AgeFromHead(d))'
                           = WritersUpTo(r, AgeFromHead(d))
      <3>1. \A t \in Tags : AgeFromHead(t) \in Int
        BY AgesAreNat
      <3> QED
        BY <1>2, <1>3, <1>4, <2>1, <3>1 DEF WritersUpTo
    <2> QED
      BY <1>2, <1>11, <2>2, <2>3, <2>4 DEF MapsNewestWriters
  <1>14. NoStaleCheckpoint'
    <2> SUFFICES ASSUME NEW d \in Tags, ckpt_valid'[d]
                 PROVE  busy'[d] /\ kind'[d] = "control"
      BY DEF NoStaleCheckpoint
    <2>1. busy[d] /\ kind[d] = "control" /\ d \notin YoungerThan(b)
      BY <1>4 DEF RuInv, NoStaleCheckpoint
    <2> QED
      BY <1>2, <1>4, <2>1, AgesAreNat DEF YoungerThan, IsYounger
  <1>15. FreedTagsAreFree'
    BY <1>2, <1>4 DEF RuInv, FreedTagsAreFree, RuTypeOK
  <1>16. QED
    BY <1>1, <1>8, <1>12, <1>13, <1>14, <1>15 DEF RuInv

(* Renaming keeps the invariant: the new instruction is the newest writer  *)
(* of its register.                                                        *)
LEMMA RenameOneInv ==
  ASSUME RuInv, NEW k \in Kinds, NEW d \in Reg, RenameOne(k, d)
  PROVE  RuInv'
  <1>1. RobInv'
    BY DispatchInv DEF RuInv, RenameOne
  <1>2. /\ tail \in Tags /\ tail # NoTag /\ HasSpace
        /\ active_count \in 0 .. Capacity - 1
        /\ AgeFromHead(tail) = active_count
        /\ ~busy[tail]
    <2>1. tail \in Tags /\ HasSpace /\ active_count \in 0 .. Capacity - 1
      BY RobAssumption
      DEF RenameOne, Dispatch, HasSpace, RuInv, RobInv, RobTypeOK
    <2>2. AgeFromHead(tail) = active_count
      BY <2>1, AgeOfTail DEF RuInv, HasSpace
    <2> QED
      BY <2>1, <2>2, RobAssumption DEF RuInv, RobInv, BusyIsWindow, Tags, NoTag
  <1>3. /\ head' = head
        /\ \A t \in Tags : busy'[t] <=> busy[t] \/ t = tail
        /\ \A t \in Tags : t # tail => /\ dest_reg'[t] = dest_reg[t]
                                       /\ kind'[t] = kind[t]
        /\ dest_reg'[tail] = d /\ kind'[tail] = k
        /\ stage = "rename" /\ stage' = stage
        /\ freed_rob_tags' = freed_rob_tags
    BY <1>2 DEF RenameOne, Dispatch, RuInv, RobInv, RobTypeOK, RuTypeOK
  <1>4. /\ rat \in Maps
        /\ rat' = IF Writes(k, d) THEN [rat EXCEPT ![d] = tail] ELSE rat
        /\ rat' \in Maps
        /\ ckpt_valid' = IF k = "control" THEN [ckpt_valid EXCEPT ![tail] = TRUE]
                                          ELSE ckpt_valid
        /\ ckpt_map' = IF k = "control" THEN [ckpt_map EXCEPT ![tail] = rat']
                                        ELSE ckpt_map
    BY <1>2 DEF RenameOne, Renamed, RuInv, RuTypeOK, Maps
  <1>5. RuTypeOK'
    BY <1>1, <1>2, <1>3, <1>4
    DEF RuInv, RobInv, RuTypeOK, Maps, RenameOne
  <1>6. Ages' = Ages
    BY <1>3 DEF Ages, AgeFromHead
  <1>7. \A t \in Tags : AgeFromHead(t)' = AgeFromHead(t) /\ AgeFromHead(t) \in Int
    BY <1>3, AgesAreNat DEF AgeFromHead
  (* The writers up to an age: as before, and the new instruction. *)
  <1>8. \A r \in Reg, c \in Int :
          WritersUpTo(r, c)' =
            IF Writes(k, d) /\ d = r /\ active_count <= c
              THEN WritersUpTo(r, c) \cup {tail} ELSE WritersUpTo(r, c)
    BY <1>2, <1>3, <1>7 DEF WritersUpTo
  (* All in-flight instructions are older than the new one. *)
  <1>9. \A t \in Tags : busy[t] => AgeFromHead(t) < active_count
    BY DEF RuInv, RobInv, BusyIsWindow
  <1>10. \A r \in Reg, c \in Int : c >= active_count =>
           IsNewest(rat'[r], WritersUpTo(r, c)', Ages)
    <2> SUFFICES ASSUME NEW r \in Reg, NEW c \in Int, c >= active_count
                 PROVE  IsNewest(rat'[r], WritersUpTo(r, c)', Ages)
      OBVIOUS
    <2>1. WritersUpTo(r, c) = WritersUpTo(r, Capacity - 1)
      BY <1>2, <1>7, <1>9, RobAssumption DEF WritersUpTo
    <2>2. IsNewest(rat[r], WritersUpTo(r, c), Ages)
      BY <2>1 DEF RuInv, RatNamesNewestWriter, MapsNewestWriters
    <2>3. CASE Writes(k, d) /\ d = r
      <3>1. rat'[r] = tail
        BY <1>4, <2>3 DEF Maps
      <3>2. \A t \in WritersUpTo(r, c) : Ages[t] \in Int /\ Ages[t] <= Ages[tail]
        BY <1>2, <1>7, <1>9 DEF WritersUpTo, Ages
      <3>3. Ages[tail] \in Int
        BY <1>2 DEF Ages
      <3>4. WritersUpTo(r, c)' = WritersUpTo(r, c) \cup {tail}
        BY <1>8, <2>3
      <3> QED
        BY <1>2, <3>1, <3>2, <3>3, <3>4, NewestAfterYoungerEnters
    <2>4. CASE ~(Writes(k, d) /\ d = r)
      <3>1. rat'[r] = rat[r]
        BY <1>4, <2>4 DEF Maps
      <3>2. WritersUpTo(r, c)' = WritersUpTo(r, c)
        BY <1>8, <2>4
      <3> QED
        BY <2>2, <3>1, <3>2
    <2>5. QED
      BY <2>3, <2>4
  <1>11. RatNamesNewestWriter'
    <2>1. Capacity - 1 >= active_count /\ Capacity - 1 \in Int
      BY <1>2, RobAssumption
    <2> QED
      BY <1>6, <1>10, <2>1 DEF RatNamesNewestWriter, MapsNewestWriters
  <1>12. CheckpointsStayExact'
    <2> SUFFICES ASSUME NEW b \in Tags, busy'[b], kind'[b] = "control"
                 PROVE  /\ ckpt_valid'[b]
                        /\ MapsNewestWriters(ckpt_map[b], AgeFromHead(b))'
      BY DEF CheckpointsStayExact
    <2>1. PICK a \in Int : a = AgeFromHead(b)
      BY <1>7
    <2>2. \A r \in Reg : WritersUpTo(r, AgeFromHead(b))' = WritersUpTo(r, a)'
      BY <1>7, <2>1 DEF WritersUpTo
    <2>3. CASE b = tail
      <3>1. k = "control" /\ ckpt_valid'[b] /\ ckpt_map'[b] = rat'
        BY <1>2, <1>3, <1>4, <2>3 DEF RuInv, RuTypeOK
      <3>2. a >= active_count
        BY <1>2, <2>1, <2>3
      <3> QED
        BY <1>6, <1>10, <2>2, <3>1, <3>2 DEF MapsNewestWriters
    <2>4. CASE b # tail
      <3>1. busy[b] /\ kind[b] = "control" /\ a < active_count
        BY <1>3, <1>9, <2>1, <2>4
      <3>2. ckpt_valid[b] /\ MapsNewestWriters(ckpt_map[b], AgeFromHead(b))
        BY <3>1 DEF RuInv, CheckpointsStayExact
      <3>3. ckpt_valid'[b] /\ ckpt_map'[b] = ckpt_map[b]
        BY <1>2, <1>4, <2>4, <3>2 DEF RuInv, RuTypeOK
      <3>4. \A r \in Reg : WritersUpTo(r, a)' = WritersUpTo(r, AgeFromHead(b))
        BY <1>2, <1>8, <2>1, <3>1
      <3> QED
        BY <1>6, <2>2, <3>2, <3>3, <3>4 DEF MapsNewestWriters
    <2>5. QED
      BY <2>3, <2>4
  <1>13. NoStaleCheckpoint'
    <2> SUFFICES ASSUME NEW b \in Tags, ckpt_valid'[b]
                 PROVE  busy'[b] /\ kind'[b] = "control"
      BY DEF NoStaleCheckpoint
    <2>1. CASE b = tail
      <3>1. ~ckpt_valid[b]
        BY <1>2, <2>1 DEF RuInv, NoStaleCheckpoint
      <3> QED
        BY <1>2, <1>3, <1>4, <2>1, <3>1
    <2>2. CASE b # tail
      BY <1>2, <1>3, <1>4, <2>2 DEF RuInv, NoStaleCheckpoint, RuTypeOK
    <2>3. QED
      BY <2>1, <2>2
  <1>14. FreedTagsAreFree'
    BY <1>3 DEF FreedTagsAreFree
  <1>15. QED
    BY <1>1, <1>5, <1>11, <1>12, <1>13, <1>14 DEF RuInv

-------------------------------------------------------------------------------
(* The invariant is inductive.                                             *)
LEMMA RuNextInv == RuInv /\ [RuNext]_ruVars => RuInv'
  <1> SUFFICES ASSUME RuInv, [RuNext]_ruVars PROVE RuInv'
    OBVIOUS
  <1>1. CASE CommitOne
    BY <1>1, CommitOneInv
  <1>2. ASSUME NEW b \in Tags, Recover(b) PROVE RuInv'
    BY <1>2, RecoverInv
  <1>3. ASSUME NEW t \in Tags, NEW v \in Val, Complete(t, v) PROVE RuInv'
    BY <1>3, CompleteInv
  <1>4. ASSUME NEW k \in Kinds, NEW d \in Reg, RenameOne(k, d) PROVE RuInv'
    BY <1>4, RenameOneInv
  <1>5. CASE EnterStage
    BY <1>5, EnterStageInv
  <1>6. CASE UNCHANGED ruVars
    <2>1. RobInv' /\ RuTypeOK' /\ FreedTagsAreFree'
      BY <1>6 DEF ruVars, robVars, renameVars, RuInv, RobInv, RobTypeOK, RuTypeOK,
                  BusyIsWindow, DoneOnlyWhenBusy, FreedTagsAreFree, AgeFromHead
    <2>2. RatNamesNewestWriter' /\ CheckpointsStayExact' /\ NoStaleCheckpoint'
      BY <1>6, SameMapsSameExactness DEF ruVars, robVars, renameVars
    <2> QED
      BY <2>1, <2>2 DEF RuInv
  <1>7. QED
    BY <1>1, <1>2, <1>3, <1>4, <1>5, <1>6 DEF RuNext

(* The invariant holds in every behaviour of the rename unit.              *)
LEMMA RuInvariant == RuSpec => []RuInv
  <1>1. RuInit => RuInv
    BY RuInitInv
  <1>2. RuInv /\ [RuNext]_ruVars => RuInv'
    BY RuNextInv
  <1>3. QED
    BY <1>1, <1>2, PTL DEF RuSpec

(* Type correctness of the rename unit.                                    *)
THEOREM RenameTypes == RuSpec => []RuTypeOK
  <1>1. RuInv => RuTypeOK
    BY DEF RuInv
  <1>2. QED
    BY <1>1, RuInvariant, PTL

(* At every rename, the alias table names for every register its youngest  *)
(* in-flight writer, or none if the register file is current.              *)
THEOREM RatIsExact == RuSpec => []RatNamesNewestWriter
  <1>1. RuInv => RatNamesNewestWriter
    BY DEF RuInv
  <1>2. QED
    BY <1>1, RuInvariant, PTL

(* Every in-flight control instruction can restore the table as it was     *)
(* after its own rename, minus what has retired since; no checkpoint       *)
(* outlives its instruction.                                               *)
THEOREM CheckpointsAreExact == RuSpec => [](CheckpointsStayExact /\ NoStaleCheckpoint)
  <1>1. RuInv => CheckpointsStayExact /\ NoStaleCheckpoint
    BY DEF RuInv
  <1>2. QED
    BY <1>1, RuInvariant, PTL

(* Scrubbing the tags freed in this tick never drops a live mapping.       *)
THEOREM ScrubIsSafe == RuSpec => []FreedTagsAreFree
  <1>1. RuInv => FreedTagsAreFree
    BY DEF RuInv
  <1>2. QED
    BY <1>1, RuInvariant, PTL
==============================================================================
