---------------------------- MODULE ResultBusProofs ----------------------------
(***************************************************************************)
(* Proofs about the result bus, for any number of tags, units, stages,     *)
(* queue entries and grants.                                               *)
(***************************************************************************)
EXTENDS ResultBus, FiniteSetTheorems, SequenceTheorems, WellFoundedInduction, TLAPS

(* The stages of a unit; a beat that holds a result.                       *)
Stages == 1 .. UnitLatency
Results == [tag : Tags, id : 0 .. Ids - 1, slot : Nat]
States == {"waiting", "accessing", "ready", "executed"}
Entries == [tag : Tags, state : States]
LoadLanes == Lanes \ Units

(* What each variable may hold.                                            *)
Shapes ==
  /\ phase \in {"commit", "resolve", "grant", "dispatch", "rename"}
  /\ window \in Seq(Tags) /\ Len(window) <= Capacity
  /\ tail \in Tags
  /\ work \in [Tags -> {"unit", "load", "quiet"}]
  /\ id \in [Tags -> 0 .. Ids - 1]
  /\ result \in [Tags -> (0 .. Ids - 1) \cup {NoResult}]
  /\ unit \in [Units -> [Stages -> Results \cup {NoBeat}]]
  /\ lane_ready \in [Units -> BOOLEAN]
  /\ lsq \in [Slots -> Entries \cup {FreeSlot}]
  /\ pending \in [Lanes -> Results \cup {NoBeat}]
  /\ lanes \in [Lanes -> Results \cup {NoBeat}]
  /\ rr_ptr \in Lanes
  /\ granted \subseteq Lanes /\ Cardinality(granted) <= CdbWidth

(* The tag n places before t, around the end of the array.                 *)
Before(t, n) == IF t >= n THEN t - n ELSE t - n + Capacity

(* The window is the run of tags that ends before the tail.                *)
WindowRuns ==
  \A i \in 1 .. Len(window) : window[i] = Before(tail, Len(window) + 1 - i)

(* A unit's beat belongs to the live owner of its tag, which has left the  *)
(* reservation station and has no result, unless this output was granted.  *)
UnitBeatsAreOwn ==
  \A u \in Units, i \in Stages : unit[u][i] # NoBeat =>
    /\ unit[u][i].tag \in Live \ rs
    /\ work[unit[u][i].tag] = "unit"
    /\ unit[u][i].id = id[unit[u][i].tag]
    /\ result[unit[u][i].tag] = IF i = UnitLatency /\ u \in granted
                                  THEN unit[u][i].id ELSE NoResult

(* No tag is in two places of the units.                                   *)
UnitBeatsDiffer ==
  \A u, v \in Units, i, j \in Stages :
    unit[u][i] # NoBeat /\ unit[u][i].tag = unit[v][j].tag => u = v /\ i = j

(* What waits for a unit has no result, and what left and has none is in   *)
(* a unit.                                                                 *)
UnitTagsAreHeld ==
  /\ rs \subseteq Live
  /\ \A t \in rs : work[t] = "unit" /\ result[t] = NoResult
  /\ \A t \in Live \ rs : work[t] = "unit" /\ result[t] = NoResult =>
       \E u \in Units, i \in Stages : unit[u][i].tag = t

(* A queue entry belongs to a live load, which has its result exactly when *)
(* the entry is executed; and every live load has one.                     *)
LoadsAreHeld ==
  /\ \A s \in Slots : lsq[s] # FreeSlot =>
       /\ lsq[s].tag \in Live
       /\ work[lsq[s].tag] = "load"
       /\ lsq[s].state = "executed" <=> result[lsq[s].tag] # NoResult
  /\ \A s, r \in Slots : lsq[s] # FreeSlot /\ lsq[s].tag = lsq[r].tag => s = r
  /\ \A t \in Live : work[t] = "load" => \E s \in Slots : lsq[s].tag = t

(* The beat b on load lane l is that of a ready entry of the queue, or of  *)
(* one that was granted in this tick.                                      *)
IsLoadBeat(l, b) ==
  /\ b.slot \in Slots
  /\ lsq[b.slot].tag = b.tag
  /\ lsq[b.slot].state = IF l \in granted THEN "executed" ELSE "ready"
  /\ b.id = id[b.tag]

PendingIsHeld ==
  /\ \A u \in Units : pending[u] # NoBeat => unit[u][UnitLatency] = pending[u]
  /\ \A l \in LoadLanes : pending[l] # NoBeat => IsLoadBeat(l, pending[l])

(* What the lanes offer while the arbiter grants.                          *)
LanesAreHeld ==
  /\ phase # "grant" => granted = {}
  /\ phase = "grant" =>
       /\ \A u \in Units : lanes[u] = unit[u][UnitLatency]
       /\ \A l \in LoadLanes :
            /\ pending[l] # NoBeat => lanes[l] = pending[l]
            /\ lanes[l] # NoBeat => IsLoadBeat(l, lanes[l])
       /\ \A l \in granted : lanes[l] # NoBeat

BusInv ==
  /\ Shapes
  /\ WindowRuns
  /\ UnitBeatsAreOwn
  /\ UnitBeatsDiffer
  /\ UnitTagsAreHeld
  /\ LoadsAreHeld
  /\ PendingIsHeld
  /\ LanesAreHeld
  /\ ResultsAreOwn

-------------------------------------------------------------------------------
(* Constants, sets of numbers and beats.                                   *)

(* The sizes are positive numbers.                                         *)
LEMMA ConstantsArePositive ==
  /\ Capacity \in Nat /\ Capacity > 0
  /\ NumUnits \in Nat /\ NumUnits > 0
  /\ UnitLatency \in Nat /\ UnitLatency > 0
  /\ NumLsq \in Nat /\ NumLsq > 0
  /\ LsqSize \in Nat /\ LsqSize > 0
  /\ CdbWidth \in Nat /\ CdbWidth > 0
  /\ Ids \in Nat /\ Ids > 0
  BY BusAssumption

(* The minimum that the scans of the code find exists.                     *)
LEMMA MinimumExists ==
  ASSUME NEW S \in SUBSET Nat, S # {}
  PROVE  \E m \in S : \A k \in S : m <= k
  <1>1. PICK m \in S : \A k \in S : ~(<<k, m>> \in OpToRel(<, Nat))
    BY NatLessThanWellFounded, WFMin
  <1>2. \A k \in S : ~(k < m)
    BY <1>1 DEF OpToRel
  <1>3. QED
    BY <1>2

(* A beat is NoBeat, or has a tag.                                         *)
LEMMA BeatFacts ==
  /\ \A b \in Results \cup {NoBeat} :
       /\ b # NoBeat => b \in Results /\ b.tag \in Tags
       /\ b.tag \in Tags => b # NoBeat
       /\ b = NoBeat <=> b.tag = -1
  /\ NoBeat.tag = -1 /\ -1 \notin Tags
  BY ConstantsArePositive DEF Results, NoBeat, Tags

(* A queue entry is free, or has a tag.                                    *)
LEMMA SlotFacts ==
  /\ FreeSlot.tag = -1 /\ FreeSlot.state = "free"
  /\ \A e \in Entries \cup {FreeSlot} :
       /\ e # FreeSlot => e.tag \in Tags /\ e.state # "free"
       /\ e = FreeSlot <=> e.tag = -1
       /\ e = FreeSlot <=> e.state = "free"
  BY ConstantsArePositive DEF FreeSlot, Tags, Entries, States

(* A queue entry that changes its state keeps its tag.                     *)
LEMMA StateChange ==
  ASSUME NEW e \in Entries \cup {FreeSlot}, e # FreeSlot, NEW s \in States
  PROVE  /\ [e EXCEPT !.state = s] \in Entries
         /\ [e EXCEPT !.state = s] # FreeSlot
         /\ [e EXCEPT !.state = s].tag = e.tag
         /\ [e EXCEPT !.state = s].state = s
  BY DEF Entries, States, FreeSlot

(* Units and load lanes are the lanes of the bus, the units first.         *)
LEMMA LaneFacts ==
  /\ Units \subseteq Lanes
  /\ Units \subseteq Nat /\ Slots \subseteq Nat /\ Lanes \subseteq Nat
  /\ UnitLatency \in Stages /\ 1 \in Stages
  /\ \A l \in Lanes : l < NumUnits <=> l \in Units
  /\ \A l \in LoadLanes : l \in Lanes /\ ~(l < NumUnits) /\ l >= NumUnits
  BY ConstantsArePositive DEF Units, Lanes, NumLanes, Stages, Slots, LoadLanes

(* With one load lane there is one lane whose beats come from the queue.   *)
LEMMA OneLoadLane ==
  ASSUME NumLsq = 1
  PROVE  LoadLanes = {NumUnits}
  BY ConstantsArePositive DEF LoadLanes, Units, Lanes, NumLanes

-------------------------------------------------------------------------------
(* The window of live tags.                                                *)

(* The live tags are those of the window.                                  *)
LEMMA LiveTags ==
  ASSUME window \in Seq(Tags)
  PROVE  /\ Len(window) \in Nat
         /\ \A i \in 1 .. Len(window) : window[i] \in Tags /\ window[i] \in Live
         /\ \A t \in Live : \E i \in 1 .. Len(window) : window[i] = t
         /\ Live \subseteq Tags
  BY DEF Live, ToSet

(* Arithmetic around the end of the array.                                 *)
LEMMA TagArithmetic ==
  ASSUME NEW t \in Tags
  PROVE  /\ (t + 1) % Capacity \in Tags
         /\ Before((t + 1) % Capacity, 1) = t
         /\ \A n \in 1 .. Capacity - 1 : Before((t + 1) % Capacity, n + 1) = Before(t, n)
         /\ \A n \in 1 .. Capacity, m \in 1 .. Capacity :
              m < n => /\ Before(t, n) # Before(t, m)
                       /\ Before((Before(t, m) + 1) % Capacity, n - m + 1) = Before(t, n)
         /\ \A n \in 1 .. Capacity - 1 : Before(t, n) # t
         /\ \A n \in 1 .. Capacity : Before(t, n) \in Tags
  <1>1. \A s \in Tags : /\ (s + 1) % Capacity \in Tags
                        /\ (s + 1) % Capacity = IF s = Capacity - 1 THEN 0 ELSE s + 1
    BY ConstantsArePositive DEF Tags
  <1>2. \A n \in 1 .. Capacity : Before(t, n) \in Tags
    BY ConstantsArePositive DEF Before, Tags
  <1>3. ASSUME NEW n \in 1 .. Capacity, NEW m \in 1 .. Capacity, m < n
        PROVE  /\ Before(t, n) # Before(t, m)
               /\ Before((Before(t, m) + 1) % Capacity, n - m + 1) = Before(t, n)
    <2>1. (Before(t, m) + 1) % Capacity =
            IF Before(t, m) = Capacity - 1 THEN 0 ELSE Before(t, m) + 1
      BY <1>1, <1>2
    <2> QED
      BY <1>3, <2>1, ConstantsArePositive DEF Before, Tags
  <1>4. \A n \in 1 .. Capacity - 1 : /\ Before((t + 1) % Capacity, n + 1) = Before(t, n)
                                     /\ Before(t, n) # t
    BY <1>1, ConstantsArePositive DEF Before, Tags
  <1>5. Before((t + 1) % Capacity, 1) = t
    BY <1>1, ConstantsArePositive DEF Before, Tags
  <1>6. QED
    BY <1>1, <1>2, <1>3, <1>4, <1>5

(* The window is what it is when its variables are right and it runs.      *)
WindowOK == /\ window \in Seq(Tags)
            /\ Len(window) <= Capacity
            /\ tail \in Tags
            /\ WindowRuns

(* No two positions hold the same tag, and none holds the next one.        *)
LEMMA WindowIsInjective ==
  ASSUME WindowOK
  PROVE  /\ \A i, j \in 1 .. Len(window) : i < j => window[i] # window[j]
         /\ Len(window) < Capacity => tail \notin Live
  <1>1. Len(window) \in Nat
    BY LiveTags DEF WindowOK
  <1>2. ASSUME NEW i \in 1 .. Len(window), NEW j \in 1 .. Len(window), i < j
        PROVE  window[i] # window[j]
    <2> DEFINE n == Len(window) + 1 - i
               m == Len(window) + 1 - j
    <2>1. n \in 1 .. Capacity /\ m \in 1 .. Capacity /\ m < n
      BY <1>1, <1>2, ConstantsArePositive DEF WindowOK
    <2>2. window[i] = Before(tail, n) /\ window[j] = Before(tail, m) /\ tail \in Tags
      BY DEF WindowOK, WindowRuns
    <2> HIDE DEF n, m
    <2>3. Before(tail, n) # Before(tail, m)
      BY <2>1, <2>2, ConstantsArePositive DEF Before, Tags
    <2> QED
      BY <2>2, <2>3
  <1>3. ASSUME Len(window) < Capacity, NEW i \in 1 .. Len(window)
        PROVE  window[i] # tail
    <2> DEFINE n == Len(window) + 1 - i
    <2>1. n \in 1 .. Capacity - 1
      BY <1>1, <1>3, ConstantsArePositive
    <2>2. window[i] = Before(tail, n) /\ tail \in Tags
      BY DEF WindowOK, WindowRuns
    <2> HIDE DEF n
    <2> QED
      BY <2>1, <2>2, TagArithmetic
  <1>4. QED
    BY <1>2, <1>3, LiveTags DEF WindowOK

(* Where a live tag is in the window.                                      *)
LEMMA AgeFacts ==
  ASSUME window \in Seq(Tags)
  PROVE  \A t \in Live : AgeOf(t) \in 1 .. Len(window) /\ window[AgeOf(t)] = t
  BY LiveTags DEF AgeOf

(* The head leaves, a tag enters at the tail, the youngest are squashed:   *)
(* the window stays a run of tags and the live set follows.                *)
LEMMA RetireWindow ==
  WindowOK /\ window # <<>> /\ window' = Tail(window) /\ tail' = tail
    => WindowOK' /\ Head(window) \in Live /\ Live' = Live \ {Head(window)}
  <1>0. SUFFICES ASSUME WindowOK, window # <<>>, window' = Tail(window), tail' = tail
                 PROVE  WindowOK' /\ Head(window) \in Live /\ Live' = Live \ {Head(window)}
    OBVIOUS
  <1>1. /\ Len(window) \in Nat /\ Len(window) > 0
        /\ window' \in Seq(Tags)
        /\ Len(window') = Len(window) - 1
        /\ \A i \in 1 .. Len(window') : window'[i] = window[i + 1]
        /\ Head(window) = window[1]
    BY <1>0, HeadTailProperties, LiveTags, LenProperties DEF WindowOK
  <1>2. WindowRuns'
    <2>1. ASSUME NEW i \in 1 .. Len(window')
          PROVE  window'[i] = Before(tail, Len(window') + 1 - i)
      <3>1. PICK j \in 1 .. Len(window) : j = i + 1
        BY <1>1
      <3>2. window[j] = Before(tail, Len(window) + 1 - j)
        BY <1>0 DEF WindowOK, WindowRuns
      <3>3. Len(window) + 1 - j = Len(window') + 1 - i
        <4> DEFINE l == Len(window)
                   m == Len(window')
        <4>1. l \in Int /\ m = l - 1 /\ i \in Int
          BY <1>1
        <4> HIDE DEF l, m
        <4>2. l + 1 - (i + 1) = m + 1 - i
          BY <4>1
        <4> QED
          BY <3>1, <4>2 DEF l, m
      <3> QED
        BY <1>1, <3>1, <3>2, <3>3
    <2> QED
      BY <1>0, <2>1 DEF WindowRuns
  <1>3. \A i \in 1 .. Len(window) : window[i] = window[1] <=> i = 1
    BY <1>0, <1>1, WindowIsInjective
  <1>4. ASSUME NEW t PROVE t \in Live' <=> t \in Live \ {window[1]}
    <2>1. t \in Live' <=> \E i \in 1 .. Len(window') : window'[i] = t
      BY <1>1, LiveTags DEF Live, ToSet
    <2>2. t \in Live <=> \E i \in 1 .. Len(window) : window[i] = t
      BY <1>0, LiveTags DEF WindowOK
    <2>3. ASSUME NEW i \in 1 .. Len(window'), window'[i] = t
          PROVE  t \in Live /\ t # window[1]
      <3>1. PICK j \in 1 .. Len(window) : j = i + 1 /\ j # 1
        BY <1>1
      <3> QED
        BY <1>1, <1>3, <2>2, <2>3, <3>1
    <2>4. ASSUME NEW j \in 1 .. Len(window), window[j] = t, t # window[1]
          PROVE  \E i \in 1 .. Len(window') : window'[i] = t
      <3>1. PICK i \in 1 .. Len(window') : j = i + 1
        BY <1>1, <2>4
      <3> QED
        BY <1>1, <2>4, <3>1
    <2> QED
      BY <2>1, <2>2, <2>3, <2>4
  <1>5. window[1] \in Live
    BY <1>0, <1>1, LiveTags DEF WindowOK
  <1>6. WindowOK'
    BY <1>0, <1>1, <1>2, ConstantsArePositive DEF WindowOK
  <1>7. QED
    BY <1>1, <1>4, <1>5, <1>6

(* Renaming adds a tag that is not live.                                   *)
LEMMA RenameWindow ==
  WindowOK /\ Len(window) < Capacity /\ window' = Append(window, tail)
    /\ tail' = (tail + 1) % Capacity
    => WindowOK' /\ tail \notin Live /\ Live' = Live \cup {tail}
  <1>0. SUFFICES ASSUME WindowOK, Len(window) < Capacity,
                        window' = Append(window, tail), tail' = (tail + 1) % Capacity
                 PROVE  WindowOK' /\ tail \notin Live /\ Live' = Live \cup {tail}
    OBVIOUS
  <1>1. /\ Len(window) \in Nat
        /\ window' \in Seq(Tags)
        /\ Len(window') = Len(window) + 1
        /\ \A i \in 1 .. Len(window) : window'[i] = window[i]
        /\ window'[Len(window) + 1] = tail
    BY <1>0, AppendProperties, LiveTags DEF WindowOK
  <1>2. tail \in Tags /\ tail' \in Tags
    BY <1>0, TagArithmetic DEF WindowOK
  <1>3. WindowRuns'
    <2>1. ASSUME NEW i \in 1 .. Len(window')
          PROVE  window'[i] = Before(tail', Len(window') + 1 - i)
      <3>1. CASE i = Len(window')
        <4>1. Len(window') + 1 - i = 1
          BY <1>1, <3>1
        <4> QED
          BY <1>0, <1>1, <1>2, <3>1, <4>1, TagArithmetic
      <3>2. CASE i # Len(window')
        <4>1. i \in 1 .. Len(window)
          BY <1>1, <3>2
        <4>2. PICK n \in 1 .. Capacity - 1 : n = Len(window) + 1 - i
          <5>1. PICK w \in Nat, c \in Nat : w = Len(window) /\ c = Capacity /\ w < c
            BY <1>0, <1>1, ConstantsArePositive
          <5>2. i \in 1 .. w
            BY <4>1, <5>1
          <5>3. w + 1 - i \in 1 .. c - 1
            BY <5>1, <5>2
          <5> QED
            BY <5>1, <5>3
        <4>3. Len(window') + 1 - i = n + 1
          BY <1>1, <4>1, <4>2
        <4>4. Before(tail', n + 1) = Before(tail, n)
          BY <1>0, <1>2, TagArithmetic
        <4>5. window[i] = Before(tail, n)
          BY <1>0, <4>1, <4>2 DEF WindowOK, WindowRuns
        <4> QED
          BY <1>1, <4>1, <4>3, <4>4, <4>5
      <3> QED
        BY <3>1, <3>2
    <2> QED
      BY <2>1 DEF WindowRuns
  <1>4. WindowOK'
    BY <1>0, <1>1, <1>2, <1>3, ConstantsArePositive DEF WindowOK
  <1>5. ASSUME NEW t PROVE t \in Live' <=> t \in Live \cup {tail}
    <2>1. t \in Live' <=> \E i \in 1 .. Len(window') : window'[i] = t
      BY <1>1, LiveTags DEF Live, ToSet
    <2>2. t \in Live <=> \E i \in 1 .. Len(window) : window[i] = t
      BY <1>0, LiveTags DEF WindowOK
    <2> QED
      BY <1>1, <2>1, <2>2
  <1>6. tail \notin Live
    BY <1>0, WindowIsInjective
  <1>7. QED
    BY <1>4, <1>5, <1>6

(* A recovery takes the tags behind the branch from the window.            *)
LEMMA RecoverWindow ==
  ASSUME NEW age \in 1 .. Len(window)
  PROVE  WindowOK /\ window' = SubSeq(window, 1, age)
           /\ tail' = (window[age] + 1) % Capacity
         => /\ WindowOK'
            /\ Live' = Live \ {window[i] : i \in age + 1 .. Len(window)}
            /\ window[age] \in Live'
  <1>0. SUFFICES ASSUME WindowOK, window' = SubSeq(window, 1, age),
                        tail' = (window[age] + 1) % Capacity
                 PROVE  /\ WindowOK'
                        /\ Live' = Live \ {window[i] : i \in age + 1 .. Len(window)}
                        /\ window[age] \in Live'
    OBVIOUS
  <1>1. /\ Len(window) \in Nat /\ age \in Nat
        /\ window' \in Seq(Tags)
        /\ Len(window') = age
        /\ \A i \in 1 .. age : window'[i] = window[i]
        /\ window[age] \in Tags
    BY <1>0, SubSeqProperties, LiveTags DEF WindowOK
  <1>2. tail \in Tags /\ tail' \in Tags
    BY <1>0, <1>1, TagArithmetic DEF WindowOK
  <1>3. PICK m \in 1 .. Capacity : m = Len(window) + 1 - age /\ window[age] = Before(tail, m)
    <2>1. window[age] = Before(tail, Len(window) + 1 - age)
      BY <1>0 DEF WindowOK, WindowRuns
    <2>2. Len(window) + 1 - age \in 1 .. Capacity
      BY <1>0, <1>1, ConstantsArePositive DEF WindowOK
    <2> QED
      BY <2>1, <2>2
  <1>4. WindowRuns'
    <2>1. ASSUME NEW i \in 1 .. age
          PROVE  window'[i] = Before(tail', age + 1 - i)
      <3>1. CASE i = age
        <4>1. age + 1 - i = 1
          BY <1>1, <3>1
        <4> QED
          BY <1>0, <1>1, <3>1, <4>1, TagArithmetic
      <3>2. CASE i # age
        <4> DEFINE n == Len(window) + 1 - i
        <4>1. i \in 1 .. Len(window) /\ i < age
          BY <1>1, <3>2
        <4>2. n \in 1 .. Capacity /\ m < n /\ age + 1 - i = n - m + 1
          BY <1>0, <1>1, <1>3, <4>1, ConstantsArePositive DEF WindowOK
        <4>3. window[i] = Before(tail, n)
          BY <1>0, <4>1 DEF WindowOK, WindowRuns
        <4> HIDE DEF n
        <4>4. Before((Before(tail, m) + 1) % Capacity, n - m + 1) = Before(tail, n)
          BY <1>2, <4>2, TagArithmetic
        <4> QED
          BY <1>0, <1>1, <1>3, <4>2, <4>3, <4>4
      <3> QED
        BY <3>1, <3>2
    <2> QED
      BY <1>1, <2>1 DEF WindowRuns
  <1>5. WindowOK'
    BY <1>0, <1>1, <1>2, <1>4, ConstantsArePositive DEF WindowOK
  <1>6. ASSUME NEW t
        PROVE  t \in Live' <=> t \in Live \ {window[i] : i \in age + 1 .. Len(window)}
    <2>1. t \in Live' <=> \E i \in 1 .. age : window[i] = t
      BY <1>1, LiveTags DEF Live, ToSet
    <2>2. t \in Live <=> \E i \in 1 .. Len(window) : window[i] = t
      BY <1>0, LiveTags DEF WindowOK
    <2>3. \A i \in 1 .. age, j \in age + 1 .. Len(window) : window[i] # window[j]
      BY <1>0, <1>1, WindowIsInjective
    <2>4. \A i \in 1 .. Len(window) : i \in 1 .. age \/ i \in age + 1 .. Len(window)
      BY <1>1
    <2>5. \A i \in 1 .. age : i \in 1 .. Len(window)
      BY <1>1
    <2> QED
      BY <2>1, <2>2, <2>3, <2>4, <2>5
  <1>7. window[age] \in Live'
    <2>1. Live' = {window'[i] : i \in DOMAIN window'} /\ DOMAIN window' = 1 .. age
      BY <1>1 DEF Live, ToSet
    <2> QED
      BY <1>1, <2>1
  <1>8. QED
    BY <1>5, <1>6, <1>7

-------------------------------------------------------------------------------
(* The invariant holds at first and after every step of a bus with one     *)
(* load lane.                                                              *)

(* The empty machine satisfies the invariant.                              *)
LEMMA BusInitInv == BusInit => BusInv
  <1> SUFFICES ASSUME BusInit PROVE BusInv
    OBVIOUS
  <1>1. /\ 0 \in Tags /\ 0 \in Lanes /\ 0 \in 0 .. Ids - 1
        /\ Len(window) = 0 /\ window \in Seq(Tags) /\ Live = {}
    BY ConstantsArePositive, EmptySeq DEF BusInit, Tags, Lanes, NumLanes, Live, ToSet
  <1>2. granted \subseteq Lanes /\ Cardinality(granted) <= CdbWidth
    BY FS_EmptySet, ConstantsArePositive DEF BusInit
  <1>3. Shapes
    BY <1>1, <1>2, ConstantsArePositive DEF BusInit, Shapes, EmptyPipe, Stages
  <1>4. WindowRuns
    BY <1>1 DEF WindowRuns
  <1>5. UnitBeatsAreOwn /\ UnitBeatsDiffer
    BY DEF BusInit, UnitBeatsAreOwn, UnitBeatsDiffer, EmptyPipe, Stages
  <1>6. UnitTagsAreHeld /\ LoadsAreHeld /\ ResultsAreOwn
    BY <1>1 DEF BusInit, UnitTagsAreHeld, LoadsAreHeld, ResultsAreOwn
  <1>7. PendingIsHeld /\ LanesAreHeld
    BY LaneFacts DEF BusInit, PendingIsHeld, LanesAreHeld
  <1>8. QED
    BY <1>3, <1>4, <1>5, <1>6, <1>7 DEF BusInv

(* The oldest instruction has its result: no beat of its own is on its     *)
(* way any more, so its tag can be used again.                             *)
LEMMA RetireInv ==
  ASSUME BusInv, Retire
  PROVE  BusInv'
  <1> DEFINE h == Head(window)
  <1>1. WindowOK' /\ h \in Live /\ Live' = Live \ {h}
    BY RetireWindow DEF BusInv, Shapes, WindowOK, Retire
  <1>2. h \in Tags /\ result[h] # NoResult /\ granted = {} /\ phase = "commit"
    BY <1>1, LiveTags DEF BusInv, Shapes, Retire, LanesAreHeld
  <1>3. Shapes'
    BY <1>1, SlotFacts DEF BusInv, Shapes, WindowOK, Retire, unitVars, busVars
  <1>4. UnitBeatsAreOwn' /\ UnitBeatsDiffer'
    BY <1>1, <1>2 DEF BusInv, Retire, UnitBeatsAreOwn, UnitBeatsDiffer, unitVars, busVars
  <1>5. UnitTagsAreHeld'
    BY <1>1, <1>2 DEF BusInv, Retire, UnitTagsAreHeld, unitVars
  <1>6. LoadsAreHeld'
    BY <1>1, <1>2, SlotFacts DEF BusInv, Shapes, Retire, LoadsAreHeld
  <1>7. PendingIsHeld'
    <2>1. \A u \in Units : pending'[u] # NoBeat => unit'[u][UnitLatency] = pending'[u]
      BY DEF BusInv, Retire, PendingIsHeld, unitVars, busVars
    <2>2. ASSUME NEW l \in LoadLanes, pending[l] # NoBeat
          PROVE  IsLoadBeat(l, pending[l]) /\ lsq'[pending[l].slot] = lsq[pending[l].slot]
      <3> DEFINE s == pending[l].slot
      <3>1. IsLoadBeat(l, pending[l]) /\ s \in Slots /\ lsq[s].state = "ready"
        BY <1>2, <2>2 DEF BusInv, PendingIsHeld, IsLoadBeat
      <3>2. lsq[s] # FreeSlot
        BY <3>1, SlotFacts
      <3>3. result[lsq[s].tag] = NoResult
        BY <3>1, <3>2 DEF BusInv, LoadsAreHeld
      <3> QED
        BY <1>2, <3>1, <3>3 DEF Retire
    <2> QED
      BY <2>1, <2>2 DEF Retire, PendingIsHeld, IsLoadBeat, busVars
  <1>8. LanesAreHeld'
    BY <1>2 DEF Retire, LanesAreHeld, busVars
  <1>9. ResultsAreOwn'
    BY <1>1 DEF BusInv, Retire, ResultsAreOwn
  <1>10. QED
    BY <1>1, <1>3, <1>4, <1>5, <1>6, <1>7, <1>8, <1>9 DEF BusInv, WindowOK

(* Loads that finish their access wait for the bus, and keep the           *)
(* invariant.                                                              *)
LEMMA EndCommitInv ==
  ASSUME BusInv, NEW arrived \in SUBSET Slots, EndCommit(arrived)
  PROVE  BusInv'
  <1>1. Live' = Live /\ granted = {} /\ phase = "commit"
    BY DEF BusInv, EndCommit, LanesAreHeld, Live, robVars
  <1>2. \A s \in Slots : /\ lsq'[s] \in Entries \cup {FreeSlot}
                         /\ lsq'[s].tag = lsq[s].tag
                         /\ lsq'[s] = FreeSlot <=> lsq[s] = FreeSlot
                         /\ lsq'[s].state = "executed" <=> lsq[s].state = "executed"
                         /\ lsq[s].state = "ready" => lsq'[s].state = "ready"
    <2> TAKE s \in Slots
    <2>1. lsq[s] \in Entries \cup {FreeSlot}
      BY DEF BusInv, Shapes
    <2>2. CASE s \in arrived
      <3>1. lsq[s].state = "accessing" /\ lsq'[s] = [lsq[s] EXCEPT !.state = "ready"]
        BY <2>2 DEF EndCommit
      <3>2. lsq[s] # FreeSlot /\ "ready" \in States
        BY <3>1, SlotFacts DEF States
      <3> QED
        BY <2>1, <3>1, <3>2, StateChange
    <2>3. CASE s \notin arrived
      BY <2>1, <2>3 DEF EndCommit
    <2> QED
      BY <2>2, <2>3
  <1>4. Shapes' /\ WindowRuns'
    <2>1. lsq' \in [Slots -> Entries \cup {FreeSlot}]
      BY <1>2 DEF EndCommit
    <2> QED
      BY <1>1, <2>1 DEF BusInv, Shapes, WindowRuns, EndCommit, robVars, unitVars, busVars
  <1>3. UnitBeatsAreOwn' /\ UnitBeatsDiffer' /\ UnitTagsAreHeld' /\ ResultsAreOwn'
    BY <1>1 DEF BusInv, EndCommit, UnitBeatsAreOwn, UnitBeatsDiffer, UnitTagsAreHeld,
                ResultsAreOwn, robVars, unitVars, busVars
  <1>5. LoadsAreHeld'
    BY <1>1, <1>2 DEF BusInv, EndCommit, LoadsAreHeld, robVars
  <1>6. PendingIsHeld' /\ LanesAreHeld'
    BY <1>1, <1>2
    DEF BusInv, EndCommit, PendingIsHeld, LanesAreHeld, IsLoadBeat, robVars, unitVars, busVars
  <1>7. QED
    BY <1>3, <1>4, <1>5, <1>6 DEF BusInv

(* A control instruction or store completes off the bus; a recovery takes  *)
(* the beats of what it squashes from every place a beat can be.           *)
LEMMA ResolveInv ==
  ASSUME BusInv, NEW t \in Tags, NEW recover \in BOOLEAN, ResolveQuiet(t, recover)
  PROVE  BusInv'
  <1>1. /\ t \in Live /\ work[t] = "quiet" /\ result[t] = NoResult
        /\ result' = [result EXCEPT ![t] = id[t]]
        /\ granted = {} /\ granted' = {} /\ phase = "resolve" /\ phase' = "resolve"
        /\ id' = id /\ work' = work /\ lanes' = lanes /\ rr_ptr' = rr_ptr
        /\ lane_ready' = lane_ready
    BY DEF BusInv, ResolveQuiet, LanesAreHeld
  <1>2. \A r \in Tags : result'[r] = IF r = t THEN id[t] ELSE result[r]
    BY <1>1 DEF BusInv, Shapes
  <1>3. id[t] # NoResult /\ id[t] \in 0 .. Ids - 1
    BY ConstantsArePositive DEF BusInv, Shapes, NoResult
  <1>4. PICK gone \in SUBSET Live :
          /\ WindowOK' /\ Live' = Live \ gone
          /\ rs' = rs \ gone
          /\ unit' = [u \in Units |-> [i \in 1 .. UnitLatency |->
                        IF unit[u][i].tag \in gone THEN NoBeat ELSE unit[u][i]]]
          /\ lsq' = [s \in Slots |-> IF lsq[s].tag \in gone THEN FreeSlot ELSE lsq[s]]
          /\ pending' = [l \in Lanes |-> IF pending[l].tag \in gone THEN NoBeat
                                                                 ELSE pending[l]]
    <2>1. PICK age \in 1 .. Len(window) : age = AgeOf(t) /\ window[age] = t
      BY <1>1, AgeFacts DEF BusInv, Shapes
    <2> DEFINE dead == {window[i] : i \in age + 1 .. Len(window)}
    <2>2. CASE recover
      <3>1. /\ window' = SubSeq(window, 1, age) /\ tail' = (window[age] + 1) % Capacity
            /\ rs' = rs \ dead
            /\ unit' = [u \in Units |-> [i \in 1 .. UnitLatency |->
                          IF unit[u][i].tag \in dead THEN NoBeat ELSE unit[u][i]]]
            /\ lsq' = [s \in Slots |-> IF lsq[s].tag \in dead THEN FreeSlot ELSE lsq[s]]
            /\ pending' = [l \in Lanes |-> IF pending[l].tag \in dead THEN NoBeat
                                                                   ELSE pending[l]]
        BY <2>1, <2>2 DEF ResolveQuiet, InvalidateTags
      <3>2. WindowOK
        BY DEF BusInv, Shapes, WindowOK
      <3>3. WindowOK' /\ Live' = Live \ dead
        BY <3>1, <3>2, RecoverWindow
      <3>4. dead \in SUBSET Live
        BY <2>1, LiveTags DEF BusInv, Shapes
      <3> HIDE DEF dead
      <3> QED
        BY <3>1, <3>3, <3>4
    <2>3. CASE ~recover
      <3> DEFINE none == {x \in Live : FALSE}
      <3>1. WindowOK' /\ Live' = Live \ none
        BY <2>3 DEF BusInv, Shapes, WindowOK, WindowRuns, ResolveQuiet, Live
      <3>2. /\ rs' = rs \ none
            /\ unit' = [u \in Units |-> [i \in 1 .. UnitLatency |->
                          IF unit[u][i].tag \in none THEN NoBeat ELSE unit[u][i]]]
            /\ lsq' = [s \in Slots |-> IF lsq[s].tag \in none THEN FreeSlot ELSE lsq[s]]
            /\ pending' = [l \in Lanes |-> IF pending[l].tag \in none THEN NoBeat
                                                                   ELSE pending[l]]
        BY <2>3 DEF ResolveQuiet, BusInv, Shapes, Stages
      <3>3. none \in SUBSET Live
        OBVIOUS
      <3> HIDE DEF none
      <3> QED
        BY <3>1, <3>2, <3>3
    <2> QED
      BY <2>2, <2>3
  <1>5. Live \subseteq Tags /\ gone \subseteq Tags /\ -1 \notin gone
    BY LiveTags, BeatFacts DEF BusInv, Shapes
  <1>6. \A u \in Units, i \in Stages :
          unit'[u][i] = IF unit[u][i].tag \in gone THEN NoBeat ELSE unit[u][i]
    BY <1>4 DEF Stages
  <1>7. Shapes'
    <2>1. unit' \in [Units -> [Stages -> Results \cup {NoBeat}]]
      BY <1>4 DEF BusInv, Shapes, Stages
    <2> QED
      BY <1>1, <1>2, <1>3, <1>4, <2>1 DEF BusInv, Shapes, WindowOK
  <1>8. UnitBeatsAreOwn'
    BY <1>1, <1>2, <1>4, <1>5, <1>6 DEF BusInv, UnitBeatsAreOwn
  <1>9. UnitBeatsDiffer'
    <2> SUFFICES ASSUME NEW u \in Units, NEW v \in Units, NEW i \in Stages, NEW j \in Stages,
                        unit'[u][i] # NoBeat, unit'[u][i].tag = unit'[v][j].tag
                 PROVE  u = v /\ i = j
      BY DEF UnitBeatsDiffer
    <2>1. unit'[u][i] = unit[u][i] /\ unit[u][i] # NoBeat
      BY <1>6
    <2>2. unit[u][i].tag # -1
      BY <2>1, BeatFacts DEF BusInv, Shapes
    <2>3. unit'[v][j] = unit[v][j]
      BY <1>6, <2>1, <2>2, BeatFacts
    <2> QED
      BY <2>1, <2>3 DEF BusInv, UnitBeatsDiffer
  <1>10. UnitTagsAreHeld'
    <2>1. rs' \subseteq Live' /\ \A r \in rs' : work'[r] = "unit" /\ result'[r] = NoResult
      BY <1>1, <1>2, <1>4, <1>5 DEF BusInv, UnitTagsAreHeld
    <2>2. ASSUME NEW r \in Live' \ rs', work'[r] = "unit", result'[r] = NoResult
          PROVE  \E u \in Units, i \in Stages : unit'[u][i].tag = r
      <3>1. r \in Live \ rs /\ r \notin gone /\ work[r] = "unit" /\ result[r] = NoResult
        BY <1>1, <1>2, <1>3, <1>4, <1>5, <2>2
      <3>2. PICK u \in Units, i \in Stages : unit[u][i].tag = r
        BY <3>1 DEF BusInv, UnitTagsAreHeld
      <3> QED
        BY <1>6, <3>1, <3>2
    <2> QED
      BY <2>1, <2>2 DEF UnitTagsAreHeld
  <1>11. LoadsAreHeld'
    <2>1. \A s \in Slots : /\ lsq'[s] = IF lsq[s].tag \in gone THEN FreeSlot ELSE lsq[s]
                           /\ lsq'[s] # FreeSlot => lsq'[s].tag # -1
      BY <1>4, SlotFacts DEF BusInv, Shapes
    <2>2. \A s \in Slots : lsq'[s] # FreeSlot =>
            /\ lsq'[s].tag \in Live'
            /\ work'[lsq'[s].tag] = "load"
            /\ lsq'[s].state = "executed" <=> result'[lsq'[s].tag] # NoResult
      BY <1>1, <1>2, <1>4, <1>5, <2>1 DEF BusInv, LoadsAreHeld
    <2>3. \A s, r \in Slots : lsq'[s] # FreeSlot /\ lsq'[s].tag = lsq'[r].tag => s = r
      BY <2>1, SlotFacts DEF BusInv, LoadsAreHeld
    <2>4. \A r \in Live' : work'[r] = "load" => \E s \in Slots : lsq'[s].tag = r
      BY <1>1, <1>4, <2>1 DEF BusInv, LoadsAreHeld
    <2> QED
      BY <2>2, <2>3, <2>4 DEF LoadsAreHeld
  <1>12. PendingIsHeld'
    BY <1>1, <1>4, <1>5, <1>6, LaneFacts
    DEF BusInv, PendingIsHeld, IsLoadBeat
  <1>13. LanesAreHeld'
    BY <1>1 DEF LanesAreHeld
  <1>14. ResultsAreOwn'
    BY <1>1, <1>2, <1>4, <1>5 DEF BusInv, ResultsAreOwn
  <1>15. QED
    BY <1>4, <1>7, <1>8, <1>9, <1>10, <1>11, <1>12, <1>13, <1>14 DEF BusInv, WindowOK

(* What a load lane takes from the queue is a ready entry.                 *)
LEMMA ProducerFacts ==
  ASSUME NEW q \in [Slots -> Entries \cup {FreeSlot}],
         NEW pipes, NEW l \in LoadLanes, Producers(pipes, q)[l] # NoBeat
  PROVE  \E s \in Slots : q[s].state = "ready" /\ Producers(pipes, q)[l] = Beat(q[s].tag, s)
  BY LaneFacts DEF Producers, ReadyAfter, ReadySlots

(* The beat of a live tag names its present owner.                         *)
LEMMA BeatIsResult ==
  ASSUME id \in [Tags -> 0 .. Ids - 1], NEW t \in Tags, NEW s \in Nat
  PROVE  /\ Beat(t, s) \in Results
         /\ Beat(t, s).tag = t /\ Beat(t, s).id = id[t] /\ Beat(t, s).slot = s
         /\ Beat(t, s) # NoBeat
  BY ConstantsArePositive DEF Beat, Results, NoBeat, Tags

(* The offers of units and load lanes keep the invariant.                  *)
LEMMA EndResolveInv ==
  ASSUME BusInv, EndResolve
  PROVE  BusInv'
  <1>1. /\ Live' = Live /\ granted = {} /\ granted' = {} /\ phase = "resolve"
        /\ phase' = "grant" /\ unit' = unit /\ lsq' = lsq /\ pending' = pending /\ id' = id
    BY DEF BusInv, EndResolve, LanesAreHeld, Live, robVars, unitVars
  <1>2. \A l \in Lanes : lanes'[l] = IF pending[l] # NoBeat THEN pending[l]
                                                         ELSE Producers(unit, lsq)[l]
    BY DEF EndResolve
  <1>3. \A u \in Units : Producers(unit, lsq)[u] = unit[u][UnitLatency]
    BY LaneFacts DEF Producers
  <1>4. ASSUME NEW l \in LoadLanes, Producers(unit, lsq)[l] # NoBeat
        PROVE  /\ Producers(unit, lsq)[l] \in Results
               /\ IsLoadBeat(l, Producers(unit, lsq)[l])
    <2>1. PICK s \in Slots : /\ lsq[s].state = "ready"
                             /\ Producers(unit, lsq)[l] = Beat(lsq[s].tag, s)
      <3>1. lsq \in [Slots -> Entries \cup {FreeSlot}]
        BY DEF BusInv, Shapes
      <3> QED
        BY <1>4, <3>1, ProducerFacts
    <2>2. lsq[s].tag \in Tags /\ s \in Nat
      BY <2>1, SlotFacts, LaneFacts DEF BusInv, Shapes
    <2> QED
      BY <1>1, <2>1, <2>2, BeatIsResult DEF BusInv, Shapes, IsLoadBeat
  <1>5. lanes' \in [Lanes -> Results \cup {NoBeat}]
    <2>1. \A l \in Lanes : Producers(unit, lsq)[l] \in Results \cup {NoBeat}
      BY <1>3, <1>4, LaneFacts DEF BusInv, Shapes, LoadLanes
    <2> QED
      BY <2>1 DEF EndResolve, BusInv, Shapes
  <1>6. Shapes' /\ WindowRuns'
    BY <1>1, <1>5 DEF BusInv, Shapes, WindowRuns, EndResolve, robVars, unitVars
  <1>7. UnitBeatsAreOwn' /\ UnitBeatsDiffer' /\ UnitTagsAreHeld' /\ ResultsAreOwn'
        /\ LoadsAreHeld'
    BY <1>1 DEF BusInv, EndResolve, UnitBeatsAreOwn, UnitBeatsDiffer, UnitTagsAreHeld,
                ResultsAreOwn, LoadsAreHeld, robVars, unitVars
  <1>8. PendingIsHeld'
    BY <1>1 DEF BusInv, PendingIsHeld, IsLoadBeat
  <1>9. LanesAreHeld'
    <2>1. \A u \in Units : lanes'[u] = unit'[u][UnitLatency]
      BY <1>1, <1>2, <1>3, LaneFacts DEF BusInv, PendingIsHeld
    <2>2. ASSUME NEW l \in LoadLanes
          PROVE  /\ pending'[l] # NoBeat => lanes'[l] = pending'[l]
                 /\ lanes'[l] # NoBeat => IsLoadBeat(l, lanes[l])'
      <3>1. l \in Lanes
        BY LaneFacts
      <3>2. lanes'[l] # NoBeat => IsLoadBeat(l, lanes'[l])
        BY <1>2, <1>4, <3>1 DEF BusInv, PendingIsHeld
      <3> QED
        BY <1>1, <1>2, <3>1, <3>2 DEF IsLoadBeat
    <2> QED
      BY <1>1, <2>1, <2>2 DEF LanesAreHeld
  <1>10. QED
    BY <1>6, <1>7, <1>8, <1>9 DEF BusInv

(* The scan from rr_ptr finds a request when there is one.                 *)
LEMMA NextLaneRequests ==
  ASSUME rr_ptr \in Lanes, Requests # {}
  PROVE  NextLane \in Requests
  <1> DEFINE turn(l) == (l - rr_ptr + NumLanes) % NumLanes
             turns == {turn(l) : l \in Requests}
  <1>1. NumLanes \in Nat /\ NumLanes > 0
    BY ConstantsArePositive DEF NumLanes
  <1>2. \A l \in Lanes : turn(l) \in Nat
    BY <1>1 DEF Lanes
  <1>3. Requests \subseteq Lanes
    BY DEF Requests
  <1>4. turns \in SUBSET Nat /\ turns # {}
    BY <1>2, <1>3
  <1> HIDE DEF turn
  <1>5. PICK m \in turns : \A k \in turns : m <= k
    BY <1>4, MinimumExists
  <1>6. \E l \in Requests : \A k \in Requests : turn(l) <= turn(k)
    BY <1>5
  <1>7. NextLane = CHOOSE l \in Requests : \A k \in Requests : turn(l) <= turn(k)
    BY DEF NextLane, turn
  <1>8. QED
    BY <1>6, <1>7

(* One more grant: the beat's tag is live and gets its own result.         *)
LEMMA GrantInv ==
  ASSUME NumLsq = 1, BusInv, Grant
  PROVE  BusInv'
  <1>1. /\ Live' = Live /\ phase = "grant" /\ phase' = "grant"
        /\ unit' = unit /\ pending' = pending /\ id' = id /\ lanes' = lanes
        /\ rs' = rs /\ work' = work /\ window' = window /\ tail' = tail
        /\ lane_ready' = lane_ready
    BY DEF Grant, Live, unitVars
  <1>2. PICK l \in Requests : l = NextLane
    BY NextLaneRequests DEF BusInv, Shapes, Grant, CanGrant
  <1>3. l \in Lanes /\ l \notin granted /\ lanes[l] # NoBeat /\ granted' = granted \cup {l}
    BY <1>2 DEF Requests, Grant
  <1> DEFINE b == lanes[l]
  <1>4. b \in Results /\ b.tag \in Tags
    BY <1>3, BeatFacts DEF BusInv, Shapes
  <1>5. /\ b.tag \in Live /\ b.id = id[b.tag] /\ result[b.tag] = NoResult
        /\ l \in Units => b = unit[l][UnitLatency] /\ work[b.tag] = "unit"
        /\ l \in LoadLanes => /\ b.slot \in Slots /\ lsq[b.slot].tag = b.tag
                              /\ lsq[b.slot].state = "ready" /\ work[b.tag] = "load"
    <2>1. CASE l \in Units
      BY <1>1, <1>3, <2>1, LaneFacts DEF BusInv, LanesAreHeld, UnitBeatsAreOwn, LoadLanes
    <2>2. CASE l \in LoadLanes
      <3>1. IsLoadBeat(l, b)
        BY <1>1, <1>3, <2>2 DEF BusInv, LanesAreHeld
      <3>2. /\ b.slot \in Slots /\ lsq[b.slot].tag = b.tag /\ b.id = id[b.tag]
            /\ lsq[b.slot].state = "ready"
        BY <1>3, <3>1 DEF IsLoadBeat
      <3>3. lsq[b.slot] # FreeSlot
        BY <3>2, SlotFacts
      <3> QED
        BY <2>2, <3>2, <3>3 DEF BusInv, LoadsAreHeld, LoadLanes
    <2> QED
      BY <1>3, <2>1, <2>2 DEF LoadLanes
  <1>6. \A t \in Tags : result'[t] = IF t = b.tag THEN b.id ELSE result[t]
    BY <1>2, <1>4, <1>5 DEF Grant, BusInv, Shapes
  <1>7. \A s \in Slots :
          lsq'[s] = IF l \in LoadLanes /\ s = b.slot THEN [lsq[s] EXCEPT !.state = "executed"]
                                                     ELSE lsq[s]
    <2>1. CASE l \in LoadLanes
      <3>1. l >= NumUnits /\ lsq[b.slot].state # "free"
        BY <1>5, <2>1, LaneFacts
      <3>2. lsq' = [lsq EXCEPT ![b.slot].state = "executed"]
        BY <1>2, <3>1 DEF Grant
      <3> QED
        BY <1>5, <2>1, <3>2 DEF BusInv, Shapes
    <2>2. CASE l \notin LoadLanes
      <3>1. l < NumUnits /\ ~(l >= NumUnits)
        BY <1>3, <2>2, ConstantsArePositive DEF LoadLanes, Units
      <3> QED
        BY <1>2, <2>2, <3>1 DEF Grant
    <2> QED
      BY <2>1, <2>2
  <1>8. l \in LoadLanes => /\ lsq[b.slot] # FreeSlot
                           /\ lsq'[b.slot] \in Entries
                           /\ lsq'[b.slot] # FreeSlot
                           /\ lsq'[b.slot].tag = b.tag
                           /\ lsq'[b.slot].state = "executed"
    <2> SUFFICES ASSUME l \in LoadLanes
                 PROVE  /\ lsq[b.slot] # FreeSlot
                        /\ lsq'[b.slot] \in Entries
                        /\ lsq'[b.slot] # FreeSlot
                        /\ lsq'[b.slot].tag = b.tag
                        /\ lsq'[b.slot].state = "executed"
      OBVIOUS
    <2>1. PICK s \in Slots : s = b.slot /\ lsq[s].tag = b.tag /\ lsq[s].state = "ready"
      BY <1>5
    <2>2. lsq[s] \in Entries \cup {FreeSlot} /\ lsq[s] # FreeSlot /\ "executed" \in States
      BY <2>1, SlotFacts DEF BusInv, Shapes, States
    <2>3. lsq'[s] = [lsq[s] EXCEPT !.state = "executed"]
      BY <1>7, <2>1
    <2> QED
      BY <2>1, <2>2, <2>3, StateChange
  <1>9. b.id # NoResult /\ b.id \in 0 .. Ids - 1
    BY <1>4 DEF Results, NoResult
  <1>10. Shapes'
    <2>1. result' \in [Tags -> (0 .. Ids - 1) \cup {NoResult}]
      BY <1>2, <1>4, <1>9 DEF Grant, BusInv, Shapes
    <2>2. lsq' \in [Slots -> Entries \cup {FreeSlot}]
      <3>1. \A s \in Slots : lsq'[s] \in Entries \cup {FreeSlot}
        BY <1>7, <1>8 DEF BusInv, Shapes
      <3> QED
        BY <3>1 DEF Grant, BusInv, Shapes
    <2>3. rr_ptr' \in Lanes
      BY <1>2, <1>3, ConstantsArePositive DEF Grant, Lanes, NumLanes
    <2>4. granted' \subseteq Lanes /\ Cardinality(granted') <= CdbWidth
      <3>1. IsFiniteSet(granted)
        <4>1. IsFiniteSet(Lanes)
          BY FS_Interval, ConstantsArePositive DEF Lanes, NumLanes
        <4> QED
          BY <4>1, FS_Subset DEF BusInv, Shapes
      <3>2. Cardinality(granted') = Cardinality(granted) + 1 /\ Cardinality(granted) \in Nat
        BY <1>3, <3>1, FS_AddElement, FS_CardinalityType
      <3>3. Cardinality(granted) < CdbWidth
        BY DEF Grant, CanGrant
      <3> QED
        BY <1>3, <3>2, <3>3, ConstantsArePositive DEF BusInv, Shapes
    <2> QED
      BY <1>1, <2>1, <2>2, <2>3, <2>4 DEF BusInv, Shapes
  <1>11. WindowRuns' /\ UnitBeatsDiffer' /\ ResultsAreOwn'
    <2>1. WindowRuns' /\ UnitBeatsDiffer'
      BY <1>1 DEF BusInv, WindowRuns, UnitBeatsDiffer
    <2>2. Live \subseteq Tags
      BY LiveTags DEF BusInv, Shapes
    <2>3. ResultsAreOwn'
      BY <1>1, <1>5, <1>6, <2>2 DEF BusInv, ResultsAreOwn
    <2> QED
      BY <2>1, <2>3
  <1>12. UnitBeatsAreOwn'
    <2> SUFFICES ASSUME NEW u \in Units, NEW i \in Stages, unit[u][i] # NoBeat
                 PROVE  result'[unit[u][i].tag] = IF i = UnitLatency /\ u \in granted'
                                                    THEN unit[u][i].id ELSE NoResult
      BY <1>1 DEF BusInv, UnitBeatsAreOwn
    <2>1. /\ unit[u][i].tag \in Tags /\ work[unit[u][i].tag] = "unit"
          /\ result[unit[u][i].tag] = IF i = UnitLatency /\ u \in granted
                                        THEN unit[u][i].id ELSE NoResult
      BY LiveTags DEF BusInv, Shapes, UnitBeatsAreOwn
    <2>2. unit[u][i].tag = b.tag <=> u = l /\ i = UnitLatency
      BY <1>3, <1>5, <2>1, LaneFacts DEF BusInv, UnitBeatsDiffer, LoadLanes
    <2> QED
      BY <1>3, <1>5, <1>6, <2>1, <2>2, LaneFacts
  <1>13. UnitTagsAreHeld'
    <2>1. Live \subseteq Tags
      BY LiveTags DEF BusInv, Shapes
    <2>2. b.tag \notin rs
      BY <1>3, <1>5, LaneFacts DEF BusInv, UnitTagsAreHeld, UnitBeatsAreOwn, LoadLanes
    <2> QED
      BY <1>1, <1>6, <1>9, <2>1, <2>2 DEF BusInv, UnitTagsAreHeld
  <1>14. LoadsAreHeld'
    <2>1. \A s \in Slots : lsq'[s].tag = lsq[s].tag /\ (lsq'[s] = FreeSlot <=> lsq[s] = FreeSlot)
      <3> TAKE s \in Slots
      <3>1. CASE l \in LoadLanes /\ s = b.slot
        BY <1>5, <1>8, <3>1
      <3> QED
        BY <1>7, <3>1
    <2>2. ASSUME NEW s \in Slots, lsq[s] # FreeSlot
          PROVE  lsq'[s].state = "executed" <=> result'[lsq[s].tag] # NoResult
      <3>1. /\ lsq[s].tag \in Tags /\ work[lsq[s].tag] = "load"
            /\ lsq[s].state = "executed" <=> result[lsq[s].tag] # NoResult
        BY <2>2, SlotFacts DEF BusInv, Shapes, LoadsAreHeld
      <3>2. CASE l \in LoadLanes /\ s = b.slot
        BY <1>4, <1>5, <1>6, <1>9, <1>8, <3>2
      <3>3. CASE ~(l \in LoadLanes /\ s = b.slot)
        <4>1. lsq[s].tag # b.tag
          BY <1>3, <1>5, <2>2, <3>1, <3>3 DEF BusInv, LoadsAreHeld, LoadLanes
        <4> QED
          BY <1>6, <1>7, <3>1, <3>3, <4>1
      <3> QED
        BY <3>2, <3>3
    <2> QED
      BY <1>1, <2>1, <2>2 DEF BusInv, LoadsAreHeld
  <1>15. PendingIsHeld' /\ LanesAreHeld'
    <2>1. ASSUME NEW k \in LoadLanes, lanes[k] # NoBeat
          PROVE  IsLoadBeat(k, lanes[k])'
      <3>1. IsLoadBeat(k, lanes[k])
        BY <1>1, <2>1 DEF BusInv, LanesAreHeld
      <3>2. CASE k = l
        BY <1>1, <1>3, <1>5, <1>8, <2>1, <3>2 DEF IsLoadBeat
      <3>3. CASE k # l
        <4>1. l \notin LoadLanes
          BY <3>3, OneLoadLane
        <4>2. \A s \in Slots : lsq'[s] = lsq[s]
          BY <1>7, <4>1
        <4> QED
          BY <1>1, <1>3, <3>1, <3>3, <4>2 DEF IsLoadBeat
      <3> QED
        BY <3>2, <3>3
    <2>2. PendingIsHeld'
      BY <1>1, <2>1 DEF BusInv, PendingIsHeld, LanesAreHeld, IsLoadBeat
    <2>3. LanesAreHeld'
      BY <1>1, <1>3, <2>1 DEF BusInv, LanesAreHeld, IsLoadBeat
    <2> QED
      BY <2>2, <2>3
  <1>16. QED
    BY <1>10, <1>11, <1>12, <1>13, <1>14, <1>15 DEF BusInv

(* What a stage holds after the grants, before the pipe moves.             *)
Kept(u, i) == IF i = UnitLatency /\ u \in granted THEN NoBeat ELSE unit[u][i]

(* A pipe moves by one stage or not at all; it moves only when its output  *)
(* register is empty and nothing is pending on its lane.                   *)
LEMMA AdvancedFacts ==
  ASSUME unit \in [Units -> [Stages -> Results \cup {NoBeat}]], NEW u \in Units
  PROVE  /\ Advanced(u) \in [Stages -> Results \cup {NoBeat}]
         /\ \E d \in {0, 1} :
              /\ \A i \in Stages : Advanced(u)[i] = IF i - d \in Stages THEN Kept(u, i - d)
                                                                       ELSE NoBeat
              /\ d = 1 => Kept(u, UnitLatency) = NoBeat
              /\ pending[u] # NoBeat /\ u \notin granted => d = 0
  <1> DEFINE pipe == IF u \in granted THEN [unit[u] EXCEPT ![UnitLatency] = NoBeat]
                                      ELSE unit[u]
  <1>1. pipe \in [Stages -> Results \cup {NoBeat}]
    OBVIOUS
  <1>2. \A i \in Stages : pipe[i] = Kept(u, i)
    BY DEF Kept
  <1>3. Advanced(u) = IF LaneReady(u) /\ pipe[UnitLatency] = NoBeat THEN Shifted(pipe)
                                                                   ELSE pipe
    BY DEF Advanced
  <1> HIDE DEF pipe
  <1>4. /\ Shifted(pipe) \in [Stages -> Results \cup {NoBeat}]
        /\ \A i \in Stages : Shifted(pipe)[i] = IF i - 1 \in Stages THEN Kept(u, i - 1)
                                                                   ELSE NoBeat
    <2>1. \A i \in Stages : i \in Int /\ (i = 1 <=> i - 1 \notin Stages)
      BY ConstantsArePositive DEF Stages
    <2>2. Shifted(pipe) = [i \in Stages |-> IF i = 1 THEN NoBeat ELSE pipe[i - 1]]
      BY DEF Shifted, Stages
    <2> QED
      BY <1>1, <1>2, <2>1, <2>2
  <1>5. CASE LaneReady(u) /\ pipe[UnitLatency] = NoBeat
    <2>1. /\ \A i \in Stages : Advanced(u)[i] = IF i - 1 \in Stages THEN Kept(u, i - 1)
                                                                   ELSE NoBeat
          /\ Kept(u, UnitLatency) = NoBeat
          /\ ~(pending[u] # NoBeat /\ u \notin granted)
      BY <1>2, <1>3, <1>4, <1>5, LaneFacts DEF LaneReady
    <2> QED
      BY <1>3, <1>4, <1>5, <2>1
  <1>6. CASE ~(LaneReady(u) /\ pipe[UnitLatency] = NoBeat)
    <2>1. \A i \in Stages : i - 0 = i
      BY DEF Stages
    <2> QED
      BY <1>1, <1>2, <1>3, <1>6, <2>1
  <1>7. QED
    BY <1>5, <1>6

(* The grants of a tick are over: a granted output leaves its pipe, and    *)
(* what was offered in vain is pending.                                    *)
LEMMA EndGrantInv ==
  ASSUME BusInv, EndGrant
  PROVE  BusInv'
  <1>1. /\ Live' = Live /\ phase = "grant" /\ phase' = "dispatch" /\ granted' = {}
        /\ lsq' = lsq /\ id' = id /\ rs' = rs /\ work' = work /\ result' = result
        /\ window' = window /\ tail' = tail
    BY DEF EndGrant, Live, robVars
  <1>2. \A u \in Units : unit'[u] = Advanced(u)
    BY DEF EndGrant
  <1>3. PICK d \in [Units -> {0, 1}] : \A u \in Units :
          /\ \A i \in Stages : unit'[u][i] = IF i - d[u] \in Stages THEN Kept(u, i - d[u])
                                                                   ELSE NoBeat
          /\ d[u] = 1 => Kept(u, UnitLatency) = NoBeat
          /\ pending[u] # NoBeat /\ u \notin granted => d[u] = 0
    <2> DEFINE Moved(u, n) ==
          /\ \A i \in Stages : unit'[u][i] = IF i - n \in Stages THEN Kept(u, i - n)
                                                                ELSE NoBeat
          /\ n = 1 => Kept(u, UnitLatency) = NoBeat
          /\ pending[u] # NoBeat /\ u \notin granted => n = 0
    <2>1. \A u \in Units : \E n \in {0, 1} : Moved(u, n)
      BY <1>2, AdvancedFacts DEF BusInv, Shapes
    <2> HIDE DEF Moved
    <2> DEFINE f == [u \in Units |-> CHOOSE n \in {0, 1} : Moved(u, n)]
    <2>2. f \in [Units -> {0, 1}] /\ \A u \in Units : Moved(u, f[u])
      BY <2>1
    <2> HIDE DEF f
    <2> QED
      BY <2>2 DEF Moved
  <1>4. unit' \in [Units -> [Stages -> Results \cup {NoBeat}]]
    BY AdvancedFacts DEF EndGrant, BusInv, Shapes
  <1>5. \A u \in Units, i \in Stages : Kept(u, i) # NoBeat =>
          /\ Kept(u, i) = unit[u][i] /\ unit[u][i] # NoBeat
          /\ unit[u][i].tag \in Live \ rs /\ unit[u][i].tag # -1
          /\ work[unit[u][i].tag] = "unit"
          /\ unit[u][i].id = id[unit[u][i].tag]
          /\ result[unit[u][i].tag] = NoResult
    BY BeatFacts DEF Kept, BusInv, Shapes, UnitBeatsAreOwn
  <1>6. \A u \in Units, i \in Stages : unit'[u][i] # NoBeat =>
          i - d[u] \in Stages /\ unit'[u][i] = Kept(u, i - d[u]) /\ Kept(u, i - d[u]) # NoBeat
    BY <1>3
  <1>7. UnitBeatsAreOwn'
    <2> SUFFICES ASSUME NEW u \in Units, NEW i \in Stages, unit'[u][i] # NoBeat
                 PROVE  /\ unit'[u][i].tag \in Live \ rs
                        /\ work[unit'[u][i].tag] = "unit"
                        /\ unit'[u][i].id = id[unit'[u][i].tag]
                        /\ result[unit'[u][i].tag] = NoResult
      BY <1>1 DEF UnitBeatsAreOwn
    <2>1. PICK j \in Stages : unit'[u][i] = Kept(u, j) /\ Kept(u, j) # NoBeat
      BY <1>6
    <2> QED
      BY <1>5, <2>1
  <1>8. UnitBeatsDiffer'
    <2> SUFFICES ASSUME NEW u \in Units, NEW v \in Units, NEW i \in Stages, NEW j \in Stages,
                        unit'[u][i] # NoBeat, unit'[u][i].tag = unit'[v][j].tag
                 PROVE  u = v /\ i = j
      BY DEF UnitBeatsDiffer
    <2>1. PICK m \in Stages : m = i - d[u] /\ unit'[u][i] = unit[u][m] /\ unit[u][m] # NoBeat
                              /\ unit[u][m].tag # -1
      BY <1>5, <1>6
    <2>2. unit'[v][j] # NoBeat
      BY <2>1, BeatFacts
    <2>3. PICK n \in Stages : n = j - d[v] /\ unit'[v][j] = unit[v][n]
      BY <1>5, <1>6, <2>2
    <2>4. u = v /\ m = n
      BY <2>1, <2>3 DEF BusInv, UnitBeatsDiffer
    <2>5. d[u] \in Int /\ i \in Int /\ j \in Int
      BY DEF Stages
    <2> QED
      BY <2>1, <2>3, <2>4, <2>5
  <1>9. UnitTagsAreHeld'
    <2>1. ASSUME NEW t \in Live \ rs, work[t] = "unit", result[t] = NoResult
          PROVE  \E u \in Units, i \in Stages : unit'[u][i].tag = t
      <3>1. PICK u \in Units, j \in Stages : unit[u][j].tag = t
        BY <2>1 DEF BusInv, UnitTagsAreHeld
      <3>2. unit[u][j] # NoBeat
        BY <3>1, LiveTags, BeatFacts DEF BusInv, Shapes
      <3>3. unit[u][j].id # NoResult
        BY <3>2, ConstantsArePositive DEF BusInv, Shapes, Results, NoResult
      <3>4. Kept(u, j) = unit[u][j]
        BY <2>1, <3>1, <3>2, <3>3 DEF Kept, BusInv, UnitBeatsAreOwn
      <3>5. d[u] = 0 \/ j # UnitLatency
        BY <1>3, <3>2, <3>4
      <3>6. PICK i \in Stages : i - d[u] = j
        <4>1. d[u] \in {0, 1}
          OBVIOUS
        <4>2. CASE d[u] = 0
          BY <4>2, ConstantsArePositive DEF Stages
        <4>3. CASE d[u] = 1
          <5>1. j + 1 \in Stages /\ (j + 1) - 1 = j
            BY <3>5, <4>3, ConstantsArePositive DEF Stages
          <5> QED
            BY <4>3, <5>1
        <4> QED
          BY <4>1, <4>2, <4>3
      <3>7. unit'[u][i] = Kept(u, j)
        BY <1>3, <3>6
      <3> QED
        BY <3>1, <3>4, <3>7
    <2> QED
      BY <1>1, <2>1 DEF BusInv, UnitTagsAreHeld
  <1>10. \A l \in Lanes : pending'[l] = PendingAfter(l, Producers(unit', lsq)[l])
    BY DEF EndGrant
  <1>11. ASSUME NEW u \in Units
         PROVE  /\ pending'[u] # NoBeat => unit'[u][UnitLatency] = pending'[u]
                /\ pending'[u] \in Results \cup {NoBeat}
    <2>1. Producers(unit', lsq)[u] = unit'[u][UnitLatency] /\ u \in Lanes
      BY LaneFacts DEF Producers
    <2>2. CASE pending[u] # NoBeat /\ u \notin granted
      <3>1. d[u] = 0 /\ UnitLatency - 0 = UnitLatency
        BY <1>3, <2>2, ConstantsArePositive
      <3>2. unit'[u][UnitLatency] = unit[u][UnitLatency]
        BY <1>3, <2>2, <3>1, LaneFacts DEF Kept
      <3> QED
        BY <1>10, <2>1, <2>2, <3>2 DEF PendingAfter, BusInv, PendingIsHeld, Shapes
    <2>3. CASE ~(pending[u] # NoBeat /\ u \notin granted)
      BY <1>4, <1>10, <2>1, <2>3, LaneFacts DEF PendingAfter
    <2> QED
      BY <2>2, <2>3
  <1>12. ASSUME NEW l \in LoadLanes, pending'[l] # NoBeat
         PROVE  /\ pending'[l] \in Results
                /\ pending'[l].slot \in Slots
                /\ lsq[pending'[l].slot].tag = pending'[l].tag
                /\ lsq[pending'[l].slot].state = "ready"
                /\ pending'[l].id = id[pending'[l].tag]
    <2>1. l \in Lanes
      BY LaneFacts
    <2>2. CASE pending[l] # NoBeat /\ l \notin granted
      BY <1>10, <2>1, <2>2 DEF PendingAfter, BusInv, Shapes, PendingIsHeld, IsLoadBeat
    <2>3. CASE ~(pending[l] # NoBeat /\ l \notin granted)
      <3>1. pending'[l] = Producers(unit', lsq)[l]
        BY <1>10, <1>12, <2>1, <2>3 DEF PendingAfter
      <3>2. PICK s \in Slots : lsq[s].state = "ready" /\ pending'[l] = Beat(lsq[s].tag, s)
        BY <1>12, <3>1, LaneFacts DEF Producers, ReadyAfter, ReadySlots
      <3>3. lsq[s].tag \in Tags /\ s \in Nat
        BY <3>2, SlotFacts, LaneFacts DEF BusInv, Shapes
      <3> QED
        BY <3>2, <3>3, BeatIsResult DEF BusInv, Shapes
    <2> QED
      BY <2>2, <2>3
  <1>13. Shapes'
    <2>1. pending' \in [Lanes -> Results \cup {NoBeat}]
      <3>1. \A l \in Lanes : pending'[l] \in Results \cup {NoBeat}
        BY <1>11, <1>12 DEF LoadLanes
      <3> QED
        BY <3>1 DEF EndGrant
    <2>2. lane_ready' \in [Units -> BOOLEAN]
      BY DEF EndGrant, LaneReady
    <2>3. lanes' \in [Lanes -> Results \cup {NoBeat}] /\ rr_ptr' = rr_ptr
      BY DEF EndGrant
    <2>4. Cardinality(granted') = 0
      BY <1>1, FS_EmptySet
    <2> QED
      BY <1>1, <1>4, <2>1, <2>2, <2>3, <2>4, ConstantsArePositive DEF BusInv, Shapes
  <1>14. WindowRuns' /\ LoadsAreHeld' /\ ResultsAreOwn'
    BY <1>1 DEF BusInv, WindowRuns, LoadsAreHeld, ResultsAreOwn
  <1>15. PendingIsHeld' /\ LanesAreHeld'
    BY <1>1, <1>11, <1>12 DEF PendingIsHeld, LanesAreHeld, IsLoadBeat
  <1>16. QED
    BY <1>7, <1>8, <1>9, <1>13, <1>14, <1>15 DEF BusInv

(* An instruction leaves the reservation station for a free unit's first   *)
(* stage.                                                                  *)
LEMMA IssueToUnitInv ==
  ASSUME BusInv, NEW t \in Tags, IssueToUnit(t)
  PROVE  BusInv'
  <1>1. /\ Live' = Live /\ phase = "dispatch" /\ granted = {} /\ granted' = {}
        /\ t \in rs /\ rs' = rs \ {t}
        /\ UNCHANGED <<phase, robVars, lane_ready, lsq, busVars>>
    BY DEF BusInv, IssueToUnit, LanesAreHeld, Live, robVars, busVars
  <1>2. t \in Live /\ work[t] = "unit" /\ result[t] = NoResult
    BY <1>1 DEF BusInv, UnitTagsAreHeld
  <1>3. PICK u \in FreeUnits : unit' = [unit EXCEPT ![u][1] = Beat(t, u)]
    <2>1. FreeUnits \in SUBSET Nat /\ FreeUnits # {}
      BY LaneFacts DEF FreeUnits, IssueToUnit
    <2>2. PICK u \in FreeUnits : u = CHOOSE m \in FreeUnits : \A v \in FreeUnits : m <= v
      BY <2>1, MinimumExists
    <2> QED
      BY <2>2 DEF IssueToUnit
  <1>4. u \in Units /\ u \in Nat /\ unit[u][1] = NoBeat /\ 1 \in Stages
    BY <1>3, LaneFacts DEF FreeUnits
  <1> DEFINE b == Beat(t, u)
  <1>5. b \in Results /\ b # NoBeat /\ b.tag = t /\ b.id = id[t]
    BY <1>4, BeatIsResult DEF BusInv, Shapes
  <1> HIDE DEF b
  <1>6. \A v \in Units, i \in Stages :
          unit'[v][i] = IF v = u /\ i = 1 THEN b ELSE unit[v][i]
    BY <1>3, <1>4 DEF BusInv, Shapes, b
  <1>7. \A v \in Units, i \in Stages : unit[v][i] # NoBeat => unit[v][i].tag \in Live \ rs
    BY DEF BusInv, UnitBeatsAreOwn
  <1>8. \A v \in Units, i \in Stages : unit[v][i].tag # t
    BY <1>1, <1>7, BeatFacts DEF BusInv, Shapes
  <1>9. unit' \in [Units -> [Stages -> Results \cup {NoBeat}]]
    BY <1>3, <1>4, <1>5 DEF BusInv, Shapes, b
  <1>10. Shapes' /\ WindowRuns'
    BY <1>1, <1>9 DEF BusInv, Shapes, WindowRuns, robVars, busVars
  <1>11. UnitBeatsAreOwn'
    BY <1>1, <1>2, <1>5, <1>6 DEF BusInv, UnitBeatsAreOwn, robVars
  <1>12. UnitBeatsDiffer'
    <2> SUFFICES ASSUME NEW v \in Units, NEW w \in Units, NEW i \in Stages, NEW j \in Stages,
                        unit'[v][i] # NoBeat, unit'[v][i].tag = unit'[w][j].tag
                 PROVE  v = w /\ i = j
      BY DEF UnitBeatsDiffer
    <2> QED
      BY <1>5, <1>6, <1>8 DEF BusInv, UnitBeatsDiffer
  <1>13. UnitTagsAreHeld'
    <2>1. \A r \in Live' \ rs' : work'[r] = "unit" /\ result'[r] = NoResult =>
            \E v \in Units, i \in Stages : unit'[v][i].tag = r
      <3> SUFFICES ASSUME NEW r \in Live, r \notin rs \/ r = t,
                          work[r] = "unit", result[r] = NoResult
                   PROVE  \E v \in Units, i \in Stages : unit'[v][i].tag = r
        BY <1>1 DEF robVars
      <3>1. CASE r = t
        BY <1>4, <1>5, <1>6, <3>1
      <3>2. CASE r # t
        <4>1. PICK v \in Units, i \in Stages : unit[v][i].tag = r
          BY <3>2 DEF BusInv, UnitTagsAreHeld
        <4>2. unit[v][i] # NoBeat
          BY <4>1, LiveTags, BeatFacts DEF BusInv, Shapes
        <4> QED
          BY <1>4, <1>6, <4>1, <4>2
      <3> QED
        BY <3>1, <3>2
    <2> QED
      BY <1>1, <2>1 DEF BusInv, UnitTagsAreHeld, robVars
  <1>14. PendingIsHeld'
    <2>1. \A v \in Units : pending[v] # NoBeat => unit'[v][UnitLatency] = pending[v]
      <3> SUFFICES ASSUME NEW v \in Units, pending[v] # NoBeat
                   PROVE  unit'[v][UnitLatency] = pending[v]
        OBVIOUS
      <3>1. unit[v][UnitLatency] = pending[v]
        BY DEF BusInv, PendingIsHeld
      <3> QED
        BY <1>4, <1>6, <3>1, LaneFacts
    <2> QED
      BY <1>1, <2>1 DEF BusInv, PendingIsHeld, IsLoadBeat, robVars, busVars
  <1>15. LoadsAreHeld' /\ LanesAreHeld' /\ ResultsAreOwn'
    BY <1>1 DEF BusInv, LoadsAreHeld, LanesAreHeld, ResultsAreOwn, robVars, busVars
  <1>16. QED
    BY <1>10, <1>11, <1>12, <1>13, <1>14, <1>15 DEF BusInv

(* A load that starts keeps the invariant.                                 *)
LEMMA StartLoadInv ==
  ASSUME BusInv, NEW s \in Slots, StartLoad(s)
  PROVE  BusInv'
  <1>1. /\ Live' = Live /\ granted = {} /\ granted' = {} /\ phase = "dispatch"
        /\ UNCHANGED <<phase, robVars, rs, unitVars, busVars>>
        /\ lsq[s].state = "waiting" /\ lsq' = [lsq EXCEPT ![s].state = "accessing"]
    BY DEF BusInv, StartLoad, LanesAreHeld, Live, robVars, busVars
  <1>2. \A r \in Slots : /\ lsq'[r] \in Entries \cup {FreeSlot}
                         /\ lsq'[r].tag = lsq[r].tag
                         /\ lsq'[r] = FreeSlot <=> lsq[r] = FreeSlot
                         /\ lsq'[r].state = "executed" <=> lsq[r].state = "executed"
                         /\ lsq[r].state = "ready" => lsq'[r].state = "ready"
    <2> TAKE r \in Slots
    <2>1. lsq[r] \in Entries \cup {FreeSlot}
      BY DEF BusInv, Shapes
    <2>2. CASE r = s
      <3>1. lsq'[r] = [lsq[r] EXCEPT !.state = "accessing"]
        BY <1>1, <2>2 DEF BusInv, Shapes
      <3>2. lsq[r] # FreeSlot /\ "accessing" \in States /\ lsq[r].state = "waiting"
        BY <1>1, <2>2, SlotFacts DEF States
      <3> QED
        BY <2>1, <3>1, <3>2, StateChange
    <2>3. CASE r # s
      BY <1>1, <2>1, <2>3 DEF BusInv, Shapes
    <2> QED
      BY <2>2, <2>3
  <1>3. Shapes' /\ WindowRuns'
    <2>1. lsq' \in [Slots -> Entries \cup {FreeSlot}]
      <3>1. lsq' = [r \in Slots |-> lsq'[r]]
        BY <1>1 DEF BusInv, Shapes
      <3> QED
        BY <1>2, <3>1
    <2> QED
      BY <1>1, <2>1 DEF BusInv, Shapes, WindowRuns, robVars, unitVars, busVars
  <1>4. UnitBeatsAreOwn' /\ UnitBeatsDiffer' /\ UnitTagsAreHeld' /\ ResultsAreOwn'
    BY <1>1 DEF BusInv, UnitBeatsAreOwn, UnitBeatsDiffer, UnitTagsAreHeld,
                ResultsAreOwn, robVars, unitVars, busVars
  <1>5. LoadsAreHeld'
    BY <1>1, <1>2 DEF BusInv, LoadsAreHeld, robVars
  <1>6. PendingIsHeld' /\ LanesAreHeld'
    BY <1>1, <1>2
    DEF BusInv, PendingIsHeld, LanesAreHeld, IsLoadBeat, robVars, unitVars, busVars
  <1>7. QED
    BY <1>3, <1>4, <1>5, <1>6 DEF BusInv

(* A change of phase outside the arbiter changes nothing else.             *)
LEMMA PhaseInv ==
  ASSUME BusInv, EndDispatch \/ EndTick
  PROVE  BusInv'
  <1>1. /\ phase' \in {"rename", "commit"} /\ phase \in {"dispatch", "rename"}
        /\ UNCHANGED <<robVars, rs, unitVars, lsq, busVars>>
    BY DEF EndDispatch, EndTick
  <1>2. UNCHANGED <<window, tail, work, id, result, rs, unit, lane_ready, lsq,
                    pending, rr_ptr, lanes, granted>>
    BY <1>1 DEF robVars, unitVars, busVars
  <1>3. Shapes' /\ WindowRuns' /\ UnitBeatsAreOwn' /\ UnitBeatsDiffer'
    BY <1>1, <1>2 DEF BusInv, Shapes, WindowRuns, UnitBeatsAreOwn, UnitBeatsDiffer, Live
  <1>4. UnitTagsAreHeld' /\ LoadsAreHeld' /\ ResultsAreOwn'
    BY <1>2 DEF BusInv, UnitTagsAreHeld, LoadsAreHeld, ResultsAreOwn, Live
  <1>5. PendingIsHeld' /\ LanesAreHeld'
    BY <1>1, <1>2 DEF BusInv, PendingIsHeld, LanesAreHeld, IsLoadBeat
  <1>6. QED
    BY <1>3, <1>4, <1>5 DEF BusInv

(* A new owner of the tail's tag: nothing of an earlier owner is left.     *)
LEMMA RenameInv ==
  ASSUME BusInv, NEW w \in {"unit", "load", "quiet"}, Rename(w)
  PROVE  BusInv'
  <1>1. /\ granted = {} /\ granted' = {} /\ phase = "rename" /\ phase' = "rename"
        /\ Len(window) < Capacity /\ tail \in Tags
        /\ unit' = unit /\ lane_ready' = lane_ready /\ pending' = pending
        /\ lanes' = lanes /\ rr_ptr' = rr_ptr
    BY DEF BusInv, Shapes, Rename, LanesAreHeld, unitVars, busVars
  <1>2. WindowOK' /\ tail \notin Live /\ Live' = Live \cup {tail}
    BY RenameWindow DEF BusInv, Shapes, WindowOK, Rename
  <1>3. Live \subseteq Tags
    BY LiveTags DEF BusInv, Shapes
  <1>4. /\ work' \in [Tags -> {"unit", "load", "quiet"}]
        /\ id' \in [Tags -> 0 .. Ids - 1]
        /\ result' \in [Tags -> (0 .. Ids - 1) \cup {NoResult}]
        /\ work'[tail] = w /\ result'[tail] = NoResult
        /\ \A t \in Tags \ {tail} : work'[t] = work[t] /\ id'[t] = id[t] /\ result'[t] = result[t]
    <2>1. (id[tail] + 1) % Ids \in 0 .. Ids - 1
      BY <1>1, ConstantsArePositive DEF BusInv, Shapes
    <2> QED
      BY <1>1, <2>1 DEF BusInv, Shapes, Rename
  <1>5. /\ tail \notin rs
        /\ w = "unit" => rs' = rs \cup {tail}
        /\ w # "unit" => rs' = rs
    BY <1>2 DEF BusInv, UnitTagsAreHeld, Rename
  <1>6. \A u \in Units, i \in Stages : unit[u][i].tag # tail
    BY <1>1, <1>2, BeatFacts DEF BusInv, Shapes, UnitBeatsAreOwn
  <1>7. \A s \in Slots : lsq[s].tag # tail
    <2> TAKE s \in Slots
    <2>1. CASE lsq[s] = FreeSlot
      BY <1>1, <2>1, SlotFacts, BeatFacts
    <2>2. CASE lsq[s] # FreeSlot
      BY <1>2, <2>2 DEF BusInv, LoadsAreHeld
    <2> QED
      BY <2>1, <2>2
  <1>8. PICK new \in SUBSET Slots :
          /\ \A s \in Slots : lsq'[s] = IF s \in new THEN [tag |-> tail, state |-> "waiting"]
                                                     ELSE lsq[s]
          /\ \A s \in new : lsq[s] = FreeSlot
          /\ \A s, r \in new : s = r
          /\ w = "load" <=> new # {}
          /\ lsq' \in [Slots -> Entries \cup {FreeSlot}]
    <2>1. [tag |-> tail, state |-> "waiting"] \in Entries
      BY <1>1 DEF Entries, States
    <2>2. CASE w = "load"
      <3>1. FreeSlots \in SUBSET Nat /\ FreeSlots # {}
        BY <2>2, LaneFacts DEF FreeSlots, Rename
      <3>2. PICK s \in FreeSlots : s = CHOOSE m \in FreeSlots : \A r \in FreeSlots : m <= r
        BY <3>1, MinimumExists
      <3>3. s \in Slots /\ lsq[s] = FreeSlot
        BY <3>2 DEF FreeSlots
      <3>4. lsq' = [lsq EXCEPT ![s] = [tag |-> tail, state |-> "waiting"]]
        BY <2>2, <3>2 DEF Rename
      <3>5. lsq \in [Slots -> Entries \cup {FreeSlot}]
        BY DEF BusInv, Shapes
      <3> DEFINE one == {s}
      <3>6. /\ \A r \in Slots : lsq'[r] = IF r \in one THEN [tag |-> tail, state |-> "waiting"]
                                                       ELSE lsq[r]
            /\ lsq' \in [Slots -> Entries \cup {FreeSlot}]
        BY <2>1, <3>3, <3>4, <3>5
      <3>7. one \in SUBSET Slots /\ one # {} /\ \A r, q \in one : r = q /\ lsq[r] = FreeSlot
        BY <3>3
      <3> HIDE DEF one
      <3> QED
        BY <2>2, <3>6, <3>7
    <2>3. CASE w # "load"
      <3>1. lsq' = lsq /\ lsq \in [Slots -> Entries \cup {FreeSlot}]
        BY <2>3 DEF Rename, BusInv, Shapes
      <3> DEFINE none == {s \in Slots : FALSE}
      <3>2. none \in SUBSET Slots /\ none = {}
        OBVIOUS
      <3> HIDE DEF none
      <3> QED
        BY <2>3, <3>1, <3>2
    <2> QED
      BY <2>2, <2>3
  <1>9. Shapes' /\ WindowRuns'
    BY <1>1, <1>2, <1>4, <1>8 DEF BusInv, Shapes, WindowOK
  <1>10. UnitBeatsAreOwn' /\ UnitBeatsDiffer'
    <2>1. UnitBeatsAreOwn'
      <3> SUFFICES ASSUME NEW u \in Units, NEW i \in Stages, unit[u][i] # NoBeat
                   PROVE  /\ unit[u][i].tag \in Live' \ rs'
                          /\ work'[unit[u][i].tag] = "unit"
                          /\ unit[u][i].id = id'[unit[u][i].tag]
                          /\ result'[unit[u][i].tag] = NoResult
        BY <1>1 DEF UnitBeatsAreOwn
      <3>1. /\ unit[u][i].tag \in Live \ rs /\ work[unit[u][i].tag] = "unit"
            /\ unit[u][i].id = id[unit[u][i].tag] /\ result[unit[u][i].tag] = NoResult
        BY <1>1 DEF BusInv, UnitBeatsAreOwn
      <3> QED
        BY <1>2, <1>3, <1>4, <1>5, <1>6, <3>1
    <2> QED
      BY <1>1, <2>1 DEF BusInv, UnitBeatsDiffer
  <1>11. UnitTagsAreHeld'
    <2>1. rs' \subseteq Live' /\ \A t \in rs' : work'[t] = "unit" /\ result'[t] = NoResult
      BY <1>2, <1>3, <1>4, <1>5 DEF BusInv, UnitTagsAreHeld
    <2>2. ASSUME NEW t \in Live' \ rs', work'[t] = "unit", result'[t] = NoResult
          PROVE  \E u \in Units, i \in Stages : unit'[u][i].tag = t
      <3>1. t # tail
        BY <1>4, <1>5, <2>2
      <3>2. t \in Live \ rs /\ work[t] = "unit" /\ result[t] = NoResult
        BY <1>2, <1>3, <1>4, <1>5, <2>2, <3>1
      <3> QED
        BY <1>1, <3>2 DEF BusInv, UnitTagsAreHeld
    <2> QED
      BY <2>1, <2>2 DEF UnitTagsAreHeld
  <1>12. LoadsAreHeld'
    <2> DEFINE e == [tag |-> tail, state |-> "waiting"]
    <2>1. e.tag = tail /\ e.state = "waiting"
      OBVIOUS
    <2> HIDE DEF e
    <2>2. \A s \in Slots : lsq'[s] = IF s \in new THEN e ELSE lsq[s]
      BY <1>8 DEF e
    <2>3. ASSUME NEW s \in Slots, lsq'[s] # FreeSlot
          PROVE  /\ lsq'[s].tag \in Live'
                 /\ work'[lsq'[s].tag] = "load"
                 /\ lsq'[s].state = "executed" <=> result'[lsq'[s].tag] # NoResult
      <3>1. CASE s \in new
        BY <1>2, <1>4, <1>8, <2>1, <2>2, <3>1
      <3>2. CASE s \notin new
        <4>1. lsq'[s] = lsq[s] /\ lsq[s].tag \in Tags \ {tail} /\ lsq[s].tag \in Live
          BY <1>3, <1>7, <2>2, <2>3, <3>2 DEF BusInv, LoadsAreHeld
        <4> QED
          BY <1>2, <1>4, <2>3, <4>1 DEF BusInv, LoadsAreHeld
      <3> QED
        BY <3>1, <3>2
    <2>4. \A s, r \in Slots : lsq'[s] # FreeSlot /\ lsq'[s].tag = lsq'[r].tag => s = r
      BY <1>7, <1>8, <2>1, <2>2 DEF BusInv, LoadsAreHeld
    <2>5. ASSUME NEW t \in Live', work'[t] = "load"
          PROVE  \E s \in Slots : lsq'[s].tag = t
      <3>1. CASE t = tail
        BY <1>4, <1>8, <2>1, <2>2, <2>5, <3>1
      <3>2. CASE t # tail
        <4>1. PICK s \in Slots : lsq[s].tag = t
          BY <1>2, <1>3, <1>4, <2>5, <3>2 DEF BusInv, LoadsAreHeld
        <4>2. t \in Tags
          BY <1>2, <1>3, <2>5, <3>2
        <4>3. s \notin new
          BY <1>8, <4>1, <4>2, SlotFacts, BeatFacts
        <4> QED
          BY <2>2, <4>1, <4>3
      <3> QED
        BY <3>1, <3>2
    <2> QED
      BY <2>3, <2>4, <2>5 DEF LoadsAreHeld
  <1>13. PendingIsHeld'
    <2>1. ASSUME NEW l \in LoadLanes, pending[l] # NoBeat
          PROVE  IsLoadBeat(l, pending[l])'
      <3>1. IsLoadBeat(l, pending[l]) /\ pending[l].slot \in Slots
        BY <2>1 DEF BusInv, PendingIsHeld, IsLoadBeat
      <3>2. lsq[pending[l].slot] # FreeSlot
        BY <1>1, <3>1, SlotFacts DEF IsLoadBeat
      <3>3. lsq'[pending[l].slot] = lsq[pending[l].slot] /\ pending[l].tag \in Tags \ {tail}
        BY <1>3, <1>7, <1>8, <3>1, <3>2 DEF IsLoadBeat, BusInv, LoadsAreHeld
      <3> QED
        BY <1>1, <1>4, <3>1, <3>3 DEF IsLoadBeat
    <2> QED
      BY <1>1, <2>1 DEF BusInv, PendingIsHeld
  <1>14. LanesAreHeld'
    BY <1>1 DEF LanesAreHeld
  <1>15. ResultsAreOwn'
    BY <1>2, <1>3, <1>4 DEF BusInv, ResultsAreOwn
  <1>16. QED
    BY <1>9, <1>10, <1>11, <1>12, <1>13, <1>14, <1>15 DEF BusInv

(* The invariant is inductive, with one load lane.                         *)
LEMMA BusNextInv ==
  NumLsq = 1 /\ BusInv /\ [BusNext]_vars => BusInv'
  <1> SUFFICES ASSUME NumLsq = 1, BusInv, [BusNext]_vars
               PROVE  BusInv'
    OBVIOUS
  <1>1. CASE Retire
    BY <1>1, RetireInv
  <1>2. ASSUME NEW arrived \in SUBSET Slots, EndCommit(arrived)
        PROVE  BusInv'
    BY <1>2, EndCommitInv
  <1>3. ASSUME NEW t \in Tags, NEW recover \in BOOLEAN, ResolveQuiet(t, recover)
        PROVE  BusInv'
    BY <1>3, ResolveInv
  <1>4. CASE EndResolve
    BY <1>4, EndResolveInv
  <1>5. CASE Grant
    BY <1>5, GrantInv
  <1>6. CASE EndGrant
    BY <1>6, EndGrantInv
  <1>7. ASSUME NEW t \in Tags, IssueToUnit(t)
        PROVE  BusInv'
    BY <1>7, IssueToUnitInv
  <1>8. ASSUME NEW s \in Slots, StartLoad(s)
        PROVE  BusInv'
    BY <1>8, StartLoadInv
  <1>9. CASE EndDispatch \/ EndTick
    BY <1>9, PhaseInv
  <1>10. ASSUME NEW w \in {"unit", "load", "quiet"}, Rename(w)
         PROVE  BusInv'
    BY <1>10, RenameInv
  <1>11. CASE UNCHANGED vars
    <2>1. UNCHANGED <<phase, window, tail, work, id, result, rs, unit, lane_ready, lsq,
                      pending, rr_ptr, lanes, granted>>
      BY <1>11 DEF vars, robVars, unitVars, busVars
    <2>2. Live' = Live
      BY <2>1 DEF Live
    <2>3. Shapes' /\ WindowRuns' /\ UnitBeatsAreOwn' /\ UnitBeatsDiffer'
      BY <2>1, <2>2 DEF BusInv, Shapes, WindowRuns, UnitBeatsAreOwn, UnitBeatsDiffer
    <2>4. UnitTagsAreHeld' /\ LoadsAreHeld' /\ ResultsAreOwn'
      BY <2>1, <2>2 DEF BusInv, UnitTagsAreHeld, LoadsAreHeld, ResultsAreOwn
    <2>5. PendingIsHeld' /\ LanesAreHeld'
      BY <2>1 DEF BusInv, PendingIsHeld, LanesAreHeld, IsLoadBeat
    <2> QED
      BY <2>3, <2>4, <2>5 DEF BusInv
  <1>12. QED
    BY <1>1, <1>2, <1>3, <1>4, <1>5, <1>6, <1>7, <1>8, <1>9, <1>10, <1>11 DEF BusNext

-------------------------------------------------------------------------------
(* The theorems.  With two load lanes the invariant is false (the run      *)
(* two_load_lanes): a load changes lanes and is granted twice.             *)

(* With one load lane the invariant holds in every behaviour of the bus.   *)
THEOREM BusInvariant ==
  ASSUME NumLsq = 1
  PROVE  BusSpec => []BusInv
  <1>1. BusInv /\ [BusNext]_vars => BusInv'
    BY BusNextInv
  <1>2. QED
    BY BusInitInv, <1>1, PTL DEF BusSpec

(* The window holds distinct live tags, the arbiter's counters are in      *)
(* range and never more than CdbWidth lanes are granted.                   *)
THEOREM BusTypes ==
  ASSUME NumLsq = 1
  PROVE  BusSpec => []BusTypeOK
  <1>1. BusInv => BusTypeOK
    <2> SUFFICES ASSUME BusInv PROVE BusTypeOK
      OBVIOUS
    <2>1. WindowOK
      BY DEF BusInv, Shapes, WindowOK
    <2>2. IsInjective(window) /\ Live \subseteq Tags
      <3>1. DOMAIN window = 1 .. Len(window) /\ Len(window) \in Nat
        BY <2>1, LiveTags DEF WindowOK
      <3>2. \A i, j \in 1 .. Len(window) : window[i] = window[j] => i = j
        BY <2>1, <3>1, WindowIsInjective
      <3> QED
        BY <2>1, <3>1, <3>2, LiveTags DEF WindowOK, IsInjective
    <2>3. \A l \in Lanes : pending[l].tag \in Tags \cup {-1}
      BY BeatFacts DEF BusInv, Shapes
    <2> QED
      BY <2>2, <2>3 DEF BusInv, Shapes, UnitTagsAreHeld, BusTypeOK
  <1>2. QED
    BY <1>1, BusInvariant, PTL

(* broadcastCDB's check of the tag is enough: the result an instruction    *)
(* gets is never that of an earlier owner of its tag.                      *)
THEOREM BusResultsAreOwn ==
  ASSUME NumLsq = 1
  PROVE  BusSpec => []ResultsAreOwn
  BY BusInvariant, PTL DEF BusInv

(* commitPending keeps what the arbiter did not grant: an instruction that *)
(* waits for its result is in exactly one stage of one unit or in the      *)
(* load/store queue.                                                       *)
THEOREM BusLosesNoResult ==
  ASSUME NumLsq = 1
  PROVE  BusSpec => []NoResultIsLost
  <1>1. BusInv => NoResultIsLost
    <2> SUFFICES ASSUME BusInv, NEW t \in Live, result[t] = NoResult
                 PROVE  /\ work[t] = "unit" /\ t \notin rs => Cardinality(InUnits(t)) = 1
                        /\ work[t] = "load" =>
                             \E s \in Slots : lsq[s].tag = t /\ lsq[s].state # "executed"
      BY DEF NoResultIsLost
    <2>1. t \in Tags /\ t # -1
      BY LiveTags, BeatFacts DEF BusInv, Shapes
    <2>2. ASSUME work[t] = "unit", t \notin rs
          PROVE  Cardinality(InUnits(t)) = 1
      <3>1. PICK u \in Units, i \in Stages : unit[u][i].tag = t
        BY <2>2 DEF BusInv, UnitTagsAreHeld
      <3>2. unit[u][i] # NoBeat
        BY <2>1, <3>1, BeatFacts
      <3>3. \A v \in Units, j \in Stages : unit[v][j].tag = t => v = u /\ j = i
        BY <3>1, <3>2 DEF BusInv, UnitBeatsDiffer
      <3>4. InUnits(t) = {<<u, i>>}
        BY <3>1, <3>3 DEF InUnits, Stages
      <3> QED
        BY <3>4, FS_Singleton
    <2>3. ASSUME work[t] = "load"
          PROVE  \E s \in Slots : lsq[s].tag = t /\ lsq[s].state # "executed"
      <3>1. PICK s \in Slots : lsq[s].tag = t
        BY <2>3 DEF BusInv, LoadsAreHeld
      <3>2. lsq[s] # FreeSlot
        BY <2>1, <3>1, SlotFacts
      <3> QED
        BY <3>1, <3>2 DEF BusInv, LoadsAreHeld
    <2> QED
      BY <2>2, <2>3
  <1>2. QED
    BY <1>1, BusInvariant, PTL

-------------------------------------------------------------------------------
(* What a pending lane of a unit freezes, for any number of load lanes.    *)

OutputInv ==
  /\ unit = [u \in Units |-> [i \in Stages |-> unit[u][i]]]
  /\ \A u \in Units : pending[u] # NoBeat => unit[u][UnitLatency] = pending[u]

(* A unit that was not granted does not advance.                           *)
LEMMA OutputIsFrozen ==
  ASSUME OutputInv, EndGrant
  PROVE  OutputInv'
  <1>1. unit' = [u \in Units |-> Advanced(u)]
    BY DEF EndGrant
  <1>2. ASSUME NEW u \in Units
        PROVE  Advanced(u) = [i \in Stages |-> Advanced(u)[i]]
    <2>1. unit[u] = [i \in Stages |-> unit[u][i]]
      BY DEF OutputInv
    <2> DEFINE pipe == IF u \in granted THEN [unit[u] EXCEPT ![UnitLatency] = NoBeat]
                                        ELSE unit[u]
    <2>2. pipe = [i \in Stages |-> pipe[i]]
      BY <2>1
    <2>3. Advanced(u) = IF LaneReady(u) /\ pipe[UnitLatency] = NoBeat THEN Shifted(pipe)
                                                                     ELSE pipe
      BY DEF Advanced
    <2> HIDE DEF pipe
    <2>4. Shifted(pipe) = [i \in Stages |-> Shifted(pipe)[i]]
      BY DEF Shifted, Stages
    <2> QED
      BY <2>2, <2>3, <2>4
  <1>3. ASSUME NEW u \in Units, pending'[u] # NoBeat
        PROVE  unit'[u][UnitLatency] = pending'[u]
    <2>1. pending'[u] = PendingAfter(u, unit'[u][UnitLatency])
      BY LaneFacts DEF EndGrant, Producers
    <2>2. CASE pending[u] # NoBeat /\ u \notin granted
      <3>1. unit'[u] = unit[u]
        BY <1>1, <2>2 DEF Advanced, LaneReady
      <3> QED
        BY <2>1, <2>2, <3>1 DEF PendingAfter, OutputInv
    <2>3. CASE ~(pending[u] # NoBeat /\ u \notin granted)
      BY <1>3, <2>1, <2>3 DEF PendingAfter
    <2> QED
      BY <2>2, <2>3
  <1>4. unit' = [u \in Units |-> [i \in Stages |-> unit'[u][i]]]
    BY <1>1, <1>2
  <1>5. QED
    BY <1>3, <1>4 DEF OutputInv

(* A squash takes the last stage and the pending beat alike.               *)
LEMMA OutputIsSquashed ==
  ASSUME OutputInv, NEW t \in Tags, NEW recover \in BOOLEAN, ResolveQuiet(t, recover)
  PROVE  OutputInv'
  <1>1. CASE recover
    <2> DEFINE dead == {window[i] : i \in AgeOf(t) + 1 .. Len(window)}
    <2>1. /\ unit' = [u \in Units |-> [i \in 1 .. UnitLatency |->
                       IF unit[u][i].tag \in dead THEN NoBeat ELSE unit[u][i]]]
          /\ pending' = [l \in Lanes |-> IF pending[l].tag \in dead THEN NoBeat
                                                                ELSE pending[l]]
      BY <1>1 DEF ResolveQuiet, InvalidateTags
    <2> HIDE DEF dead
    <2> QED
      BY <2>1, LaneFacts DEF OutputInv, Stages
  <1>2. CASE ~recover
    BY <1>2 DEF ResolveQuiet, OutputInv
  <1>3. QED
    BY <1>1, <1>2

(* Issuing to a unit leaves its last stage alone.                          *)
LEMMA OutputIsKept ==
  ASSUME OutputInv, NEW t \in Tags, IssueToUnit(t)
  PROVE  OutputInv'
  <1>1. pending' = pending
    BY DEF IssueToUnit, busVars
  <1>2. FreeUnits \in SUBSET Nat /\ FreeUnits # {}
    BY LaneFacts DEF FreeUnits, IssueToUnit
  <1>3. PICK u \in FreeUnits : u = CHOOSE m \in FreeUnits : \A v \in FreeUnits : m <= v
    BY <1>2, MinimumExists
  <1>4. unit' = [unit EXCEPT ![u][1] = Beat(t, u)]
    BY <1>3 DEF IssueToUnit
  <1>5. unit[u][1] = NoBeat
    BY DEF FreeUnits
  <1>6. \A v \in Units, i \in Stages : ~(v = u /\ i = 1) => unit'[v][i] = unit[v][i]
    BY <1>4 DEF OutputInv
  <1>7. unit' = [v \in Units |-> [i \in Stages |-> unit'[v][i]]]
    BY <1>4 DEF OutputInv
  <1>8. QED
    BY <1>1, <1>5, <1>6, <1>7, LaneFacts DEF OutputInv

(* A unit whose lane is pending does not move: its output register holds   *)
(* the pending beat, so granting the one frees the other.  This needs no   *)
(* bound on the number of load lanes.                                      *)
THEOREM PendingFreezesItsUnit == BusSpec => []PendingIsOutput
  <1>1. BusInit => OutputInv
    BY LaneFacts DEF BusInit, OutputInv, EmptyPipe, Stages
  <1>2. OutputInv /\ [BusNext]_vars => OutputInv'
    <2> SUFFICES ASSUME OutputInv, [BusNext]_vars
                 PROVE  OutputInv'
      OBVIOUS
    <2>1. ASSUME unit' = unit, pending' = pending
          PROVE  OutputInv'
      BY <2>1 DEF OutputInv
    <2>2. CASE Retire \/ Grant \/ EndResolve \/ EndDispatch \/ EndTick
      BY <2>1, <2>2 DEF Retire, Grant, EndResolve, EndDispatch, EndTick, unitVars, busVars
    <2>3. ASSUME NEW arrived \in SUBSET Slots, EndCommit(arrived)
          PROVE  OutputInv'
      BY <2>1, <2>3 DEF EndCommit, unitVars, busVars
    <2>4. ASSUME NEW s \in Slots, StartLoad(s)
          PROVE  OutputInv'
      BY <2>1, <2>4 DEF StartLoad, unitVars, busVars
    <2>5. ASSUME NEW w \in {"unit", "load", "quiet"}, Rename(w)
          PROVE  OutputInv'
      BY <2>1, <2>5 DEF Rename, unitVars, busVars
    <2>6. CASE UNCHANGED vars
      BY <2>1, <2>6 DEF vars, unitVars, busVars
    <2>7. QED
      BY <2>2, <2>3, <2>4, <2>5, <2>6, OutputIsFrozen, OutputIsSquashed, OutputIsKept
      DEF BusNext
  <1>3. OutputInv => PendingIsOutput
    BY DEF OutputInv, PendingIsOutput
  <1>4. QED
    BY <1>1, <1>2, <1>3, PTL DEF BusSpec
================================================================================
