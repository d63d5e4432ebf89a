---------------------------- MODULE DataCacheProofs ----------------------------
(***************************************************************************)
(* Proofs about the data cache, for any memory and any geometry.           *)
(***************************************************************************)
EXTENDS DataCache, FiniteSetTheorems, SequenceTheorems, WellFoundedInduction, TLAPS

(* What the variables hold.                                                *)
Reqs == [valid : BOOLEAN, write : BOOLEAN, addr : Words, val : Val,
         id : Nat, cookie : Nat]
WayStates == [valid : BOOLEAN, dirty : BOOLEAN, reserved : BOOLEAN,
              line : Lines \cup {NoLine}, data : LineData]
WbStates   == {"none", "wanted", "sent", "done"}
FillStates == {"wanted", "sent", "ready", "draining"}
MshrStates == [valid : BOOLEAN, line : Lines \cup {NoLine}, way : WayIds,
               wb : WbStates, wb_line : Lines \cup {NoLine}, wb_data : LineData,
               fill : FillStates, data : LineData, waiters : Seq(Reqs)]
DramStates == [busy : BOOLEAN, write : BOOLEAN, line : Lines \cup {NoLine},
               data : LineData, mshr : MshrIds \cup {NoMshr}]
SbStates   == [valid : BOOLEAN, sent : BOOLEAN, addr : Words, val : Val]
LoadStates == [busy : BOOLEAN, sent : BOOLEAN, addr : Words, gen : Nat]

Shapes ==
  /\ phase \in Phases /\ port \in Nat
  /\ sb \in [SbIds -> SbStates]
  /\ sb_head \in SbIds /\ sb_count \in 0 .. SbDepth
  /\ load \in [LoadIds -> LoadStates]
  /\ cache \in [SetIds -> [WayIds -> WayStates]]
  /\ lru \in [SetIds -> [WayIds -> WayIds]]
  /\ mshr \in [MshrIds -> MshrStates]
  /\ pipe \in [PortIds -> Reqs]
  /\ hit_pend \in [PortIds -> Reqs]
  /\ resp_q \in Seq(Reqs)
  /\ drain_mshr \in MshrIds \cup {NoMshr}
  /\ dram \in DramStates
  /\ memory \in [Lines -> LineData]
  /\ committed \in [Words -> Val]

(* The lru times of a set differ, and a register in use has a request that *)
(* waits for it.                                                           *)
Ranks   == \A s \in SetIds, w, v \in WayIds : lru[s][w] = lru[s][v] => w = v
Waiters == \A m \in MshrIds : /\ Len(mshr[m].waiters) <= MaxWaiters
                              /\ mshr[m].valid <=> mshr[m].waiters # <<>>
                              /\ ~mshr[m].valid => mshr[m] = FreeMshr

(* The way w of the set s has the line and may be hit.                     *)
Holds(s, w, line) == /\ cache[s][w].valid /\ ~cache[s][w].reserved
                     /\ cache[s][w].line = line
Fetching(m) == mshr[m].valid /\ mshr[m].fill # "draining"
Evicting(m, line) == /\ mshr[m].valid /\ mshr[m].wb \in {"wanted", "sent"}
                     /\ mshr[m].wb_line = line

(* A register in use has a line of its own and writes back before it       *)
(* fetches.                                                                *)
MissesDiffer ==
  \A m \in MshrIds : mshr[m].valid =>
    /\ mshr[m].line \in Lines
    /\ \A n \in MshrIds : mshr[n].valid /\ mshr[n].line = mshr[m].line => n = m
    /\ mshr[m].wb \in {"wanted", "sent"} => mshr[m].fill = "wanted"

(* While it fetches, no way has its line and its way is reserved for it.   *)
FetchesReserve ==
  \A m \in MshrIds : Fetching(m) =>
    /\ cache[SetOf(mshr[m].line)][mshr[m].way].reserved
    /\ \A w \in WayIds : ~Holds(SetOf(mshr[m].line), w, mshr[m].line)
    /\ \A n \in MshrIds : /\ Fetching(n)
                          /\ SetOf(mshr[n].line) = SetOf(mshr[m].line)
                          /\ mshr[n].way = mshr[m].way
                          => n = m

(* A line is in its own set, and in one way only.                          *)
LinesAreHome ==
  \A s \in SetIds, w \in WayIds : cache[s][w].valid =>
    /\ cache[s][w].line \in Lines /\ SetOf(cache[s][w].line) = s
    /\ ~cache[s][w].reserved =>
         \A v \in WayIds : Holds(s, v, cache[s][w].line) => v = w

(* DRAM works for the one register that has sent it a request.             *)
DramServes ==
  /\ dram.busy =>
       /\ dram.mshr \in MshrIds /\ mshr[dram.mshr].valid
       /\ dram.write  => mshr[dram.mshr].wb = "sent"
       /\ ~dram.write => mshr[dram.mshr].fill = "sent"
  /\ \A m \in MshrIds : mshr[m].valid =>
       /\ mshr[m].wb = "sent"   => dram.busy /\ dram.write /\ dram.mshr = m
       /\ mshr[m].fill = "sent" => dram.busy /\ ~dram.write /\ dram.mshr = m

(* What is read from memory is not on its way back to it.                  *)
FetchesAreHome ==
  \A m, n \in MshrIds : mshr[m].valid /\ mshr[m].fill \in {"sent", "ready"} =>
    ~Evicting(n, mshr[m].line)

DrainIsOn ==
  drain_mshr # NoMshr => mshr[drain_mshr].valid /\ mshr[drain_mshr].fill = "draining"

OwnerInv ==
  /\ Shapes /\ Ranks /\ Waiters
  /\ MissesDiffer /\ FetchesReserve /\ LinesAreHome
  /\ DramServes /\ FetchesAreHome /\ DrainIsOn

-------------------------------------------------------------------------------
(* Constants, addresses and minima.                                        *)

(* The sizes are positive numbers.                                         *)
LEMMA ConstantsArePositive ==
  /\ NumLines \in Nat /\ NumLines > 0 /\ LineWords \in Nat /\ LineWords > 0
  /\ Sets \in Nat /\ Sets > 0 /\ Ways \in Nat /\ Ways > 0
  /\ Mshrs \in Nat /\ Mshrs > 0 /\ MaxWaiters \in Nat /\ MaxWaiters > 0
  /\ Ports \in Nat /\ Ports > 0 /\ RespLanes \in Nat /\ RespLanes > 0
  /\ SbDepth \in Nat /\ SbDepth > 0 /\ NumLoads \in Nat /\ NumLoads > 0
  /\ 0 \in Val
  BY CacheAssumption

(* An address has a line, a word and a set.                                *)
LEMMA AddressFacts ==
  /\ \A a \in Words : LineOf(a) \in Lines /\ WordOf(a) \in 0 .. LineWords - 1
  /\ \A l \in Lines : SetOf(l) \in SetIds
  /\ 0 \in Words /\ NoLine \notin Lines /\ NoMshr \notin MshrIds
  <1>1. ASSUME NEW a \in Words
        PROVE  LineOf(a) \in Lines /\ WordOf(a) \in 0 .. LineWords - 1
    <2> DEFINE q == a \div LineWords
               r == a % LineWords
    <2>1. a \in Nat /\ a < NumLines * LineWords
      BY ConstantsArePositive DEF Words
    <2>2. q \in Nat /\ r \in 0 .. LineWords - 1 /\ a = LineWords * q + r
      BY <2>1, ConstantsArePositive
    <2>3. q < NumLines
      <3>1. SUFFICES ASSUME q >= NumLines PROVE FALSE
        BY <2>2, ConstantsArePositive
      <3>2. LineWords * q >= LineWords * NumLines
        <4> HIDE DEF q
        <4>1. PICK d \in Nat : q = NumLines + d
          BY <2>2, <3>1, ConstantsArePositive
        <4>2. LineWords * (NumLines + d) = LineWords * NumLines + LineWords * d
          BY ConstantsArePositive
        <4>3. LineWords * d \in Nat /\ LineWords * NumLines \in Nat
          BY ConstantsArePositive
        <4> QED
          BY <4>1, <4>2, <4>3
      <3>3. QED
        BY <2>1, <2>2, <3>2, ConstantsArePositive
    <2>4. QED
      BY <2>2, <2>3, ConstantsArePositive DEF LineOf, WordOf, Lines
  <1>2. 0 \in Words
    BY ConstantsArePositive DEF Words
  <1>3. \A l \in Lines : SetOf(l) \in SetIds
    BY ConstantsArePositive DEF Lines, SetOf, SetIds
  <1>4. QED
    BY <1>1, <1>2, <1>3 DEF NoLine, NoMshr, Lines, MshrIds

(* The lowest of some numbers, which the scans of the code find.           *)
LEMMA MinimumExists ==
  ASSUME NEW S \in SUBSET Nat, S # {}
  PROVE  \E m \in S : \A k \in S : m <= k
  <1>1. PICK m \in S : \A k \in S : ~(<<k, m>> \in OpToRel(<, Nat))
    BY NatLessThanWellFounded, WFMin
  <1>2. \A k \in S : ~(k < m)
    BY <1>1 DEF OpToRel
  <1>3. QED
    BY <1>2

(* The lowest member of a set of numbers is a member.                      *)
LEMMA LowestIsIn ==
  ASSUME NEW S \in SUBSET Nat, S # {}
  PROVE  Lowest(S) \in S
  BY MinimumExists DEF Lowest

(* Miss registers, ways, ports and entries are counted from 0.             *)
LEMMA IdsAreNumbers ==
  /\ MshrIds \subseteq Nat /\ WayIds \subseteq Nat /\ PortIds \subseteq Nat
  /\ 0 \in WayIds /\ 0 \in SbIds /\ 0 \in MshrIds /\ 0 \in LoadIds
  BY ConstantsArePositive DEF MshrIds, WayIds, PortIds, SbIds, LoadIds

(* The empty entries are entries.                                          *)
LEMMA EmptyStates ==
  /\ ZeroLine \in LineData /\ NoReq \in Reqs /\ NoWay \in WayStates
  /\ FreeMshr \in MshrStates /\ DramIdle \in DramStates
  /\ FreeSb \in SbStates /\ FreeLoad \in LoadStates
  <1>1. ZeroLine \in LineData
    BY ConstantsArePositive DEF ZeroLine, LineData
  <1>2. NoReq \in Reqs /\ FreeSb \in SbStates /\ FreeLoad \in LoadStates
    BY ConstantsArePositive, AddressFacts
    DEF NoReq, Reqs, FreeSb, SbStates, FreeLoad, LoadStates
  <1>3. NoWay \in WayStates /\ DramIdle \in DramStates
    BY <1>1 DEF NoWay, WayStates, DramIdle, DramStates
  <1>4. FreeMshr \in MshrStates
    BY <1>1, IdsAreNumbers DEF FreeMshr, MshrStates, WbStates, FillStates
  <1>5. QED
    BY <1>1, <1>2, <1>3, <1>4

(* The victim of a set is a way that is not reserved.                      *)
LEMMA VictimIsFree ==
  ASSUME lru \in [SetIds -> [WayIds -> WayIds]], NEW s \in SetIds, Victims(s) # {}
  PROVE  Victim(s) \in Victims(s)
  <1> DEFINE empty == {w \in Victims(s) : ~cache[s][w].valid}
             times == {lru[s][w] : w \in Victims(s)}
  <1>1. Victims(s) \subseteq WayIds
    BY DEF Victims
  <1>2. CASE empty # {}
    <2>1. Lowest(empty) \in empty
      BY <1>1, <1>2, LowestIsIn, IdsAreNumbers
    <2> QED
      BY <1>2, <2>1 DEF Victim
  <1>3. CASE empty = {}
    <2>1. times \in SUBSET Nat /\ times # {}
      BY <1>1, IdsAreNumbers
    <2>2. PICK t \in times : \A k \in times : t <= k
      BY <2>1, MinimumExists
    <2>3. \E w \in Victims(s) : \A u \in Victims(s) : lru[s][w] <= lru[s][u]
      BY <2>2
    <2>4. Victim(s) = CHOOSE w \in Victims(s) : \A u \in Victims(s) : lru[s][w] <= lru[s][u]
      BY <1>3 DEF Victim
    <2> QED
      BY <2>3, <2>4
  <1>4. QED
    BY <1>2, <1>3

(* Touching the way of rank c makes it the youngest; those above it move   *)
(* down.                                                                   *)
LEMMA RankArithmetic ==
  ASSUME NEW n \in Nat, NEW a \in 0 .. n - 1, NEW b \in 0 .. n - 1, NEW c \in 0 .. n - 1
  PROVE  /\ a # c /\ b # c /\ a # b =>
              (IF a > c THEN a - 1 ELSE a) # (IF b > c THEN b - 1 ELSE b)
         /\ a # c => (IF a > c THEN a - 1 ELSE a) # n - 1
         /\ (IF a > c THEN a - 1 ELSE a) \in 0 .. n - 1
         /\ n - 1 \in 0 .. n - 1
  OBVIOUS

(* Touching a way keeps the lru times of its set different.                *)
LEMMA UsedKeepsRanks ==
  ASSUME lru \in [SetIds -> [WayIds -> WayIds]], Ranks,
         NEW s \in SetIds, NEW w \in WayIds
  PROVE  /\ Used(s, w) \in [SetIds -> [WayIds -> WayIds]]
         /\ \A q \in SetIds, u, v \in WayIds : Used(s, w)[q][u] = Used(s, w)[q][v] => u = v
  <1> DEFINE g(u) == IF lru[s][u] > lru[s][w] THEN lru[s][u] - 1 ELSE lru[s][u]
             f == [u \in WayIds |-> IF u = w THEN Ways - 1 ELSE g(u)]
  <1>1. Used(s, w) = [lru EXCEPT ![s] = f]
    BY DEF Used
  <1>2. \A u \in WayIds : lru[s][u] \in 0 .. Ways - 1
    BY DEF WayIds
  <1>3. \A u, v \in WayIds : lru[s][u] = lru[s][v] => u = v
    BY DEF Ranks
  <1>4. Ways - 1 \in WayIds /\ WayIds = 0 .. Ways - 1 /\ Ways \in Nat
    BY ConstantsArePositive DEF WayIds
  <1>5. \A u \in WayIds : g(u) \in WayIds /\ (u # w => g(u) # Ways - 1)
    BY <1>2, <1>3, <1>4, RankArithmetic
  <1>6. \A u, v \in WayIds : u # w /\ v # w /\ u # v => g(u) # g(v)
    <2> SUFFICES ASSUME NEW u \in WayIds, NEW v \in WayIds, u # w, v # w, u # v
                 PROVE  g(u) # g(v)
      OBVIOUS
    <2>1. PICK a \in 0 .. Ways - 1, b \in 0 .. Ways - 1, c \in 0 .. Ways - 1 :
            a = lru[s][u] /\ b = lru[s][v] /\ c = lru[s][w]
      BY <1>2
    <2>2. a # c /\ b # c /\ a # b
      BY <1>3, <2>1
    <2>3. (IF a > c THEN a - 1 ELSE a) # (IF b > c THEN b - 1 ELSE b)
      BY <1>4, <2>2, RankArithmetic
    <2> QED
      BY <2>1, <2>3
  <1> HIDE DEF g
  <1>7. f \in [WayIds -> WayIds] /\ \A u, v \in WayIds : f[u] = f[v] => u = v
    BY <1>4, <1>5, <1>6
  <1> HIDE DEF f
  <1>8. QED
    BY <1>1, <1>3, <1>7 DEF Ranks

-------------------------------------------------------------------------------
(* The owners hold at first and after every step.                          *)

(* The empty cache satisfies the invariant.                                *)
LEMMA OwnerInit == CacheInit => OwnerInv
  <1> SUFFICES ASSUME CacheInit PROVE OwnerInv
    OBVIOUS
  <1>1. Shapes
    <2>1. \A w \in WayIds : w \in WayIds
      OBVIOUS
    <2>2. <<>> \in Seq(Reqs) /\ NoMshr = NoMshr
      BY EmptySeq
    <2>3. sb_head \in SbIds /\ sb_count \in 0 .. SbDepth
      BY IdsAreNumbers, ConstantsArePositive DEF CacheInit
    <2>4. committed \in [Words -> Val]
      BY ConstantsArePositive DEF CacheInit
    <2> QED
      BY <2>2, <2>3, <2>4, EmptyStates DEF CacheInit, Shapes, Phases
  <1>2. Ranks
    BY DEF CacheInit, Ranks
  <1>3. \A m \in MshrIds : /\ ~mshr[m].valid /\ mshr[m].waiters = <<>>
                           /\ Len(mshr[m].waiters) = 0 /\ mshr[m] = FreeMshr
    BY DEF CacheInit, FreeMshr
  <1>4. Waiters
    BY <1>3, ConstantsArePositive DEF Waiters
  <1>5. MissesDiffer /\ FetchesReserve /\ FetchesAreHome
    BY <1>3 DEF MissesDiffer, FetchesReserve, FetchesAreHome, Fetching
  <1>6. LinesAreHome
    BY DEF CacheInit, NoWay, LinesAreHome
  <1>7. DramServes /\ DrainIsOn
    BY <1>3 DEF CacheInit, DramIdle, DramServes, DrainIsOn
  <1>8. QED
    BY <1>1, <1>2, <1>4, <1>5, <1>6, <1>7 DEF OwnerInv

(* Where requests come from and go to, the owners are unchanged.           *)
LEMMA OwnersKeep ==
  OwnerInv /\ Shapes' /\ UNCHANGED <<cache, lru, mshr, drain_mshr, dram>> => OwnerInv'
  <1> SUFFICES ASSUME OwnerInv, Shapes', UNCHANGED <<cache, lru, mshr, drain_mshr, dram>>
               PROVE  OwnerInv'
    OBVIOUS
  <1>1. Ranks' /\ Waiters' /\ MissesDiffer' /\ DrainIsOn' /\ DramServes'
    BY DEF OwnerInv, Ranks, Waiters, MissesDiffer, DrainIsOn, DramServes
  <1>2. FetchesReserve' /\ LinesAreHome' /\ FetchesAreHome'
    BY DEF OwnerInv, FetchesReserve, LinesAreHome, FetchesAreHome, Fetching, Holds, Evicting
  <1>3. QED
    BY <1>1, <1>2 DEF OwnerInv

(* The ring of the store buffer has a slot for each position.              *)
LEMMA SbAtIsSlot ==
  ASSUME sb_head \in SbIds, NEW k \in Nat
  PROVE  SbAt(k) \in SbIds
  BY ConstantsArePositive DEF SbIds, SbAt

(* A port that is picked for a request is free.                            *)
LEMMA FreePortIsFree ==
  ASSUME CanAccept
  PROVE  FreePipePort \in FreePorts /\ FreePipePort \in PortIds
  <1>1. FreePorts \in SUBSET Nat /\ FreePorts # {}
    BY IdsAreNumbers DEF FreePorts, CanAccept
  <1>2. FreePipePort \in FreePorts
    BY <1>1, MinimumExists DEF FreePipePort
  <1>3. QED
    BY <1>2 DEF FreePorts

(* The next store to send, and where the holes at the head end.            *)
LEMMA UnsentIsOrdered ==
  ASSUME sb_count \in 0 .. SbDepth, Unsent # {}
  PROVE  (CHOOSE k \in Unsent : \A j \in Unsent : k <= j) \in Unsent
  <1>1. Unsent \in SUBSET Nat
    BY DEF Unsent
  <1>2. QED
    BY <1>1, MinimumExists

Kept == {k \in 0 .. sb_count - 1 : sb[SbAt(k)].valid}
Holes == IF Kept = {} THEN sb_count ELSE CHOOSE k \in Kept : \A j \in Kept : k <= j

(* The slots freed at the head of the ring are those before the first      *)
(* store.                                                                  *)
LEMMA HolesAreCounted ==
  ASSUME sb_count \in 0 .. SbDepth
  PROVE  /\ Holes \in 0 .. sb_count
         /\ \A k \in 0 .. sb_count - 1 : sb[SbAt(k)].valid => k >= Holes
  <1>1. Kept \in SUBSET Nat /\ \A k \in Kept : k \in 0 .. sb_count
    BY ConstantsArePositive DEF Kept
  <1>2. CASE Kept = {}
    BY <1>2 DEF Holes, Kept
  <1>3. CASE Kept # {}
    <2>1. Holes \in Kept /\ \A j \in Kept : Holes <= j
      BY <1>1, <1>3, MinimumExists DEF Holes
    <2> QED
      BY <1>1, <2>1 DEF Kept
  <1>4. QED
    BY <1>2, <1>3

(* The core's steps keep the types.                                        *)
LEMMA CoreShapes ==
  ASSUME Shapes
  PROVE  /\ \A a \in Words, v \in Val : NewStore(a, v) => Shapes'
         /\ \A l \in LoadIds, a \in Words : NewLoad(l, a) => Shapes'
         /\ \A l \in LoadIds : SquashLoad(l) => Shapes'
  <1>1. ASSUME NEW a \in Words, NEW v \in Val, NewStore(a, v)
        PROVE  Shapes'
    <2>1. sb_count' \in 0 .. SbDepth
      BY <1>1, ConstantsArePositive DEF NewStore, HasRoom, Shapes
    <2>2. [valid |-> TRUE, sent |-> FALSE, addr |-> a, val |-> v] \in SbStates
      BY DEF SbStates
    <2>3. sb' \in [SbIds -> SbStates]
      BY <1>1, <2>2 DEF NewStore, Shapes
    <2>4. committed' \in [Words -> Val]
      BY <1>1 DEF NewStore, Shapes
    <2> QED
      BY <1>1, <2>1, <2>3, <2>4 DEF NewStore, Shapes, tableVars, portVars
  <1>2. ASSUME NEW l \in LoadIds, NEW a \in Words, NewLoad(l, a)
        PROVE  Shapes'
    <2>1. load[l].gen + 1 \in Nat
      BY DEF Shapes, LoadStates
    <2>2. load' \in [LoadIds -> LoadStates]
      BY <1>2, <2>1 DEF NewLoad, Shapes, LoadStates
    <2> QED
      BY <1>2, <2>2 DEF NewLoad, Shapes, tableVars, portVars
  <1>3. ASSUME NEW l \in LoadIds, SquashLoad(l)
        PROVE  Shapes'
    <2>1. load' \in [LoadIds -> LoadStates]
      BY <1>3 DEF SquashLoad, Shapes, LoadStates
    <2> QED
      BY <1>3, <2>1 DEF SquashLoad, Shapes, tableVars, portVars
  <1>4. QED
    BY <1>1, <1>2, <1>3

(* Sending requests keeps the types.                                       *)
LEMMA IssueShapes ==
  ASSUME Shapes
  PROVE  /\ IssueStore => Shapes'
         /\ \A l \in LoadIds : IssueLoad(l) => Shapes'
         /\ EndIssue => Shapes'
  <1>1. ASSUME IssueStore
        PROVE  Shapes'
    <2>1. PICK k \in Unsent : k = CHOOSE n \in Unsent : \A j \in Unsent : n <= j
      BY <1>1, UnsentIsOrdered DEF IssueStore, Shapes
    <2>2. PICK i \in SbIds : i = SbAt(k)
      BY SbAtIsSlot DEF Shapes, Unsent
    <2> DEFINE req == [valid |-> TRUE, write |-> TRUE, addr |-> sb[i].addr,
                       val |-> sb[i].val, id |-> i, cookie |-> 0]
    <2>3. req \in Reqs
      <3>1. sb[i] \in SbStates /\ i \in Nat
        BY ConstantsArePositive DEF Shapes, SbIds
      <3>2. sb[i].addr \in Words /\ sb[i].val \in Val
        BY <3>1 DEF SbStates
      <3> QED
        BY <3>1, <3>2 DEF Reqs
    <2>4. pipe' = [pipe EXCEPT ![FreePipePort] = req] /\ port' = port + 1
          /\ sb' = [sb EXCEPT ![i].sent = TRUE]
      BY <1>1, <2>1, <2>2 DEF IssueStore, Accept
    <2>5. pipe' \in [PortIds -> Reqs]
      BY <1>1, <2>3, <2>4, FreePortIsFree DEF Shapes, IssueStore
    <2>6. sb' \in [SbIds -> SbStates]
      BY <2>4 DEF Shapes, SbStates
    <2> QED
      BY <1>1, <2>4, <2>5, <2>6 DEF Shapes, IssueStore, tableVars
  <1>2. ASSUME NEW l \in LoadIds, IssueLoad(l)
        PROVE  Shapes'
    <2> DEFINE req == [valid |-> TRUE, write |-> FALSE, addr |-> load[l].addr, val |-> 0,
                       id |-> l, cookie |-> load[l].gen]
    <2>1. req \in Reqs
      BY ConstantsArePositive DEF Shapes, LoadStates, Reqs, LoadIds
    <2>2. pipe' = [pipe EXCEPT ![FreePipePort] = req] /\ port' = port + 1
          /\ load' = [load EXCEPT ![l].sent = TRUE]
      BY <1>2 DEF IssueLoad, Accept
    <2>3. pipe' \in [PortIds -> Reqs]
      BY <1>2, <2>1, <2>2, FreePortIsFree DEF Shapes, IssueLoad
    <2>4. load' \in [LoadIds -> LoadStates]
      BY <2>2 DEF Shapes, LoadStates
    <2> QED
      BY <1>2, <2>2, <2>3, <2>4 DEF Shapes, IssueLoad, tableVars
  <1>3. ASSUME EndIssue
        PROVE  Shapes'
    <2>1. sb_head' = SbAt(Holes) /\ sb_count' = sb_count - Holes
      BY <1>3 DEF EndIssue, Holes, Kept
    <2>2. Holes \in Nat /\ sb_count' \in 0 .. SbDepth
      BY <2>1, HolesAreCounted, ConstantsArePositive DEF Shapes
    <2>3. sb_head' \in SbIds
      BY <2>1, <2>2, SbAtIsSlot DEF Shapes
    <2> QED
      BY <1>3, <2>2, <2>3 DEF Shapes, EndIssue, tableVars, portVars, Phases
  <1>4. QED
    BY <1>1, <1>2, <1>3

(* Applying an answer keeps the types.                                     *)
LEMMA RespShapes ==
  ASSUME Shapes, ApplyResp
  PROVE  Shapes'
  <1>1. PICK r \in Reqs : r = Head(resp_q)
    BY HeadTailProperties DEF Shapes, ApplyResp
  <1>2. resp_q' \in Seq(Reqs)
    BY HeadTailProperties DEF Shapes, ApplyResp
  <1>3. sb' \in [SbIds -> SbStates]
    BY <1>1, EmptyStates DEF Shapes, ApplyResp
  <1>4. load' \in [LoadIds -> LoadStates]
    <2> DEFINE f == [load EXCEPT ![r.id].busy = FALSE]
    <2>1. f \in [LoadIds -> LoadStates]
      BY DEF Shapes, LoadStates
    <2>2. [f EXCEPT ![r.id].sent = FALSE] \in [LoadIds -> LoadStates]
      <3> HIDE DEF f
      <3> QED
        BY <2>1 DEF LoadStates
    <2>3. load' = load \/ load' = [f EXCEPT ![r.id].sent = FALSE]
      BY <1>1 DEF ApplyResp
    <2> QED
      BY <2>2, <2>3 DEF Shapes
  <1>5. QED
    BY <1>2, <1>3, <1>4 DEF Shapes, ApplyResp, tableVars, portVars

(* What the core, the store buffer and the load slots do.                  *)
LEMMA ClientOwners ==
  ASSUME OwnerInv,
         \/ \E a \in Words, v \in Val : NewStore(a, v)
         \/ \E l \in LoadIds, a \in Words : NewLoad(l, a)
         \/ \E l \in LoadIds : SquashLoad(l) \/ IssueLoad(l)
         \/ IssueStore \/ EndIssue \/ ApplyResp
         \/ BeginTick \/ NoDramAccept \/ EndPipes \/ EndResps
  PROVE  OwnerInv'
  <1>1. Shapes'
    <2>1. ASSUME BeginTick \/ NoDramAccept \/ EndPipes \/ EndResps
          PROVE  Shapes'
      BY <2>1 DEF OwnerInv, Shapes, BeginTick, NoDramAccept, EndPipes, EndResps, Phases,
                  clientVars, tableVars, portVars
    <2> QED
      BY <2>1, CoreShapes, IssueShapes, RespShapes DEF OwnerInv
  <1>2. UNCHANGED <<cache, lru, mshr, drain_mshr, dram>>
    BY DEF NewStore, NewLoad, SquashLoad, IssueStore, IssueLoad, EndIssue, ApplyResp,
           BeginTick, NoDramAccept, EndPipes, EndResps, tableVars
  <1>3. QED
    BY <1>1, <1>2, OwnersKeep

-------------------------------------------------------------------------------
(* DRAM.                                                                   *)

(* There is a port for each answer.                                        *)
LEMMA NthPortExists ==
  ASSUME NEW S \in SUBSET PortIds
  PROVE  \A i \in 1 .. Cardinality(S) :
           NthPort(S, i) \in S /\ Cardinality({q \in S : q < NthPort(S, i)}) = i - 1
  <1> DEFINE Below(p) == {q \in S : q < p}
             Bad == {i \in 1 .. Cardinality(S) : ~\E p \in S : Cardinality(Below(p)) = i - 1}
  <1>1. IsFiniteSet(S) /\ S \in SUBSET Nat /\ Cardinality(S) \in Nat
    <2>1. IsFiniteSet(PortIds)
      BY FS_Interval, ConstantsArePositive DEF PortIds
    <2> QED
      BY <2>1, FS_Subset, FS_CardinalityType, IdsAreNumbers
  <1>2. \A p, q \in S : q \in Below(p) <=> q < p
    OBVIOUS
  <1>3. \A p \in S : Below(p) \subseteq S /\ IsFiniteSet(Below(p))
    <2>1. \A p \in S : Below(p) \in SUBSET S
      OBVIOUS
    <2> HIDE DEF Below
    <2> QED
      BY <1>1, <2>1, FS_Subset
  <1>4. Bad \in SUBSET Nat
    BY <1>1
  <1>5. \A i \in 1 .. Cardinality(S) :
          i \in Bad <=> ~\E p \in S : Cardinality(Below(p)) = i - 1
    OBVIOUS
  <1>6. Bad \subseteq 1 .. Cardinality(S)
    OBVIOUS
  <1>7. Bad = {}
    <2> HIDE DEF Below, Bad
    <2>1. SUFFICES ASSUME Bad # {} PROVE FALSE
      OBVIOUS
    <2>2. PICK m \in Bad : \A k \in Bad : m <= k
      BY <1>4, <2>1, MinimumExists
    <2>3. m \in 1 .. Cardinality(S) /\ ~\E p \in S : Cardinality(Below(p)) = m - 1
      BY <1>5, <1>6
    <2>4. CASE m = 1
      <3>1. S # {}
        BY <1>1, <2>3, FS_EmptySet
      <3>2. PICK p \in S : \A q \in S : p <= q
        BY <1>1, <3>1, MinimumExists
      <3>3. \A q \in S : p \in Nat /\ q \in Nat /\ ~(q < p)
        BY <1>1, <3>2
      <3>4. Below(p) = {}
        BY <1>2, <1>3, <3>3
      <3> QED
        BY <2>3, <2>4, <3>4, FS_EmptySet
    <2>5. CASE m # 1
      <3>1. m - 1 \in 1 .. Cardinality(S) /\ m - 1 \notin Bad /\ m \in Nat
        BY <1>1, <2>2, <2>3, <2>5
      <3>2. PICK p \in S : Cardinality(Below(p)) = m - 2
        BY <1>5, <3>1
      <3>3. IsFiniteSet(Below(p)) /\ p \notin Below(p) /\ p \in Nat
        BY <1>1, <1>2, <1>3
      <3>4. Cardinality(Below(p) \cup {p}) = m - 1
        <4>1. Cardinality(Below(p) \cup {p}) = Cardinality(Below(p)) + 1
          BY <3>3, FS_AddElement
        <4> QED
          BY <3>1, <3>2, <4>1
      <3> DEFINE up == {q \in S : q > p}
      <3>5. up # {}
        <4>1. SUFFICES ASSUME up = {} PROVE FALSE
          OBVIOUS
        <4>2. \A q \in S : q \in Nat /\ ~(q > p)
          BY <1>1, <4>1
        <4>3. \A q \in S : q \in Below(p) \cup {p}
          BY <1>2, <3>3, <4>2
        <4>4. S = Below(p) \cup {p}
          BY <1>3, <4>3
        <4> QED
          BY <1>1, <2>3, <3>4, <4>4
      <3>6. PICK q \in S : q > p /\ \A r \in S : r > p => q <= r
        <4>1. PICK q \in up : \A r \in up : q <= r
          BY <1>1, <3>5, MinimumExists
        <4> QED
          BY <4>1
      <3>7. \A r \in S : r \in Below(q) <=> r \in Below(p) \cup {p}
        <4>1. q \in Nat /\ \A r \in S : r \in Nat
          BY <1>1
        <4>2. \A r \in S : r < q <=> r < p \/ r = p
          BY <3>3, <3>6, <4>1
        <4> QED
          BY <1>2, <4>2
      <3>8. Below(q) = Below(p) \cup {p}
        BY <1>3, <3>7
      <3> QED
        BY <2>3, <3>4, <3>8
    <2>6. QED
      BY <2>4, <2>5
  <1>8. QED
    BY <1>7 DEF NthPort

(* The answers of the load hits.                                           *)
HitAnswers(hits) == [i \in 1 .. Cardinality(hits) |-> hit_pend[NthPort(hits, i)]]

(* The answers of hits are requests.                                       *)
LEMMA HitAnswersAreRequests ==
  ASSUME hit_pend \in [PortIds -> Reqs], NEW hits \in SUBSET PortIds
  PROVE  HitAnswers(hits) \in Seq(Reqs)
  <1>1. Cardinality(hits) \in Nat
    <2>1. IsFiniteSet(PortIds)
      BY FS_Interval, ConstantsArePositive DEF PortIds
    <2> QED
      BY <2>1, FS_Subset, FS_CardinalityType
  <1>2. \A i \in 1 .. Cardinality(hits) : hit_pend[NthPort(hits, i)] \in Reqs
    BY NthPortExists
  <1>3. QED
    BY <1>1, <1>2, IsASeq DEF HitAnswers

(* A change of one field of a register.                                    *)
LEMMA MshrChange ==
  ASSUME NEW e \in MshrStates
  PROVE  /\ \A x \in WbStates :
              /\ [e EXCEPT !.wb = x] \in MshrStates
              /\ [e EXCEPT !.wb = x].wb = x
              /\ [e EXCEPT !.wb = x].fill = e.fill
              /\ [e EXCEPT !.wb = x].valid = e.valid
              /\ [e EXCEPT !.wb = x].line = e.line
              /\ [e EXCEPT !.wb = x].way = e.way
              /\ [e EXCEPT !.wb = x].wb_line = e.wb_line
              /\ [e EXCEPT !.wb = x].waiters = e.waiters
         /\ \A x \in FillStates :
              /\ [e EXCEPT !.fill = x] \in MshrStates
              /\ [e EXCEPT !.fill = x].wb = e.wb
              /\ [e EXCEPT !.fill = x].fill = x
              /\ [e EXCEPT !.fill = x].valid = e.valid
              /\ [e EXCEPT !.fill = x].line = e.line
              /\ [e EXCEPT !.fill = x].way = e.way
              /\ [e EXCEPT !.fill = x].wb_line = e.wb_line
              /\ [e EXCEPT !.fill = x].waiters = e.waiters
         /\ \A x \in LineData :
              /\ [e EXCEPT !.data = x] \in MshrStates
              /\ [e EXCEPT !.data = x].wb = e.wb
              /\ [e EXCEPT !.data = x].fill = e.fill
              /\ [e EXCEPT !.data = x].valid = e.valid
              /\ [e EXCEPT !.data = x].line = e.line
              /\ [e EXCEPT !.data = x].way = e.way
              /\ [e EXCEPT !.data = x].wb_line = e.wb_line
              /\ [e EXCEPT !.data = x].waiters = e.waiters
  BY DEF MshrStates

(* A miss register with other waiters is a miss register with the same     *)
(* state.                                                                  *)
LEMMA WaitersChange ==
  ASSUME NEW e \in MshrStates, NEW q \in Seq(Reqs)
  PROVE  /\ [e EXCEPT !.waiters = q] \in MshrStates
         /\ [e EXCEPT !.waiters = q].waiters = q
         /\ [e EXCEPT !.waiters = q].wb = e.wb
         /\ [e EXCEPT !.waiters = q].fill = e.fill
         /\ [e EXCEPT !.waiters = q].valid = e.valid
         /\ [e EXCEPT !.waiters = q].line = e.line
         /\ [e EXCEPT !.waiters = q].way = e.way
         /\ [e EXCEPT !.waiters = q].wb_line = e.wb_line
  BY DEF MshrStates

(* What a change of the register d leaves as it was.                       *)
SameMiss(m) ==
  /\ mshr'[m].valid = mshr[m].valid /\ mshr'[m].line = mshr[m].line
  /\ mshr'[m].way = mshr[m].way /\ mshr'[m].wb_line = mshr[m].wb_line

(* What DRAM finishes is in the miss register it was asked by, and keeps   *)
(* the invariant.                                                          *)
LEMMA DramTickOwners ==
  ASSUME OwnerInv, NEW finished \in BOOLEAN, NEW hits \in SUBSET PortIds,
         DramTick(finished, hits)
  PROVE  OwnerInv'
  <1>1. resp_q' \in Seq(Reqs) /\ hit_pend' \in [PortIds -> Reqs]
    <2>1. resp_q' = resp_q \o HitAnswers(hits)
      BY DEF DramTick, HitAnswers
    <2>2. HitAnswers(hits) \in Seq(Reqs)
      BY HitAnswersAreRequests DEF OwnerInv, Shapes
    <2>3. hit_pend' \in [PortIds -> Reqs]
      BY EmptyStates DEF OwnerInv, Shapes, DramTick
    <2> QED
      BY <2>1, <2>2, <2>3, ConcatProperties DEF OwnerInv, Shapes
  <1>2. /\ UNCHANGED <<port, sb, sb_head, sb_count, load, cache, lru, drain_mshr,
                       pipe, committed>>
        /\ phase' = "arbitrate"
    BY DEF DramTick, clientVars
  <1>3. CASE ~finished
    <2>1. UNCHANGED <<mshr, memory, dram>>
      BY <1>3 DEF DramTick
    <2>2. Shapes'
      BY <1>1, <1>2, <2>1 DEF OwnerInv, Shapes, Phases
    <2> QED
      BY <1>2, <2>1, <2>2, OwnersKeep
  <1>4. CASE finished
    <2>1. PICK d \in MshrIds : d = dram.mshr /\ mshr[d].valid /\ dram.busy
      BY <1>4 DEF DramTick, OwnerInv, DramServes
    <2>2. dram.write \in BOOLEAN /\ dram.data \in LineData /\ mshr \in [MshrIds -> MshrStates]
      BY DEF OwnerInv, Shapes, DramStates
    <2>3. mshr' \in [MshrIds -> MshrStates] /\ \A m \in MshrIds :
            /\ SameMiss(m) /\ mshr'[m].waiters = mshr[m].waiters
            /\ mshr'[m].wb = IF m = d /\ dram.write THEN "done" ELSE mshr[m].wb
            /\ mshr'[m].fill = IF m = d /\ ~dram.write THEN "ready" ELSE mshr[m].fill
      <3>1. CASE dram.write
        <4>1. mshr' = [mshr EXCEPT ![d] = [mshr[d] EXCEPT !.wb = "done"]]
          BY <1>4, <2>1, <3>1 DEF DramTick, MshrAfterDram
        <4>2. "done" \in WbStates
          BY DEF WbStates
        <4> QED
          BY <2>2, <3>1, <4>1, <4>2, MshrChange DEF SameMiss
      <3>2. CASE ~dram.write
        <4> DEFINE e == [mshr[d] EXCEPT !.fill = "ready"]
        <4>1. mshr' = [mshr EXCEPT ![d] = [e EXCEPT !.data = dram.data]]
          BY <1>4, <2>1, <3>2 DEF DramTick, MshrAfterDram
        <4>2. "ready" \in FillStates
          BY DEF FillStates
        <4>3. /\ e \in MshrStates /\ e.wb = mshr[d].wb /\ e.fill = "ready"
              /\ e.valid = mshr[d].valid /\ e.line = mshr[d].line /\ e.way = mshr[d].way
              /\ e.wb_line = mshr[d].wb_line /\ e.waiters = mshr[d].waiters
          BY <2>2, <4>2, MshrChange
        <4> HIDE DEF e
        <4> QED
          BY <2>2, <3>2, <4>1, <4>3, MshrChange DEF SameMiss
      <3> QED
        BY <2>2, <3>1, <3>2
    <2>4. /\ dram.write => mshr[d].wb = "sent"
          /\ ~dram.write => mshr[d].fill = "sent"
          /\ \A m \in MshrIds : mshr[m].valid =>
               /\ mshr[m].wb = "sent" => m = d /\ dram.write
               /\ mshr[m].fill = "sent" => m = d /\ ~dram.write
      BY <2>1, <2>2 DEF OwnerInv, DramServes
    <2>5. Shapes'
      <3>1. memory' \in [Lines -> LineData]
        BY <1>4, <2>2 DEF DramTick, OwnerInv, Shapes
      <3>2. dram' = DramIdle /\ dram' \in DramStates
        BY <1>4, EmptyStates DEF DramTick
      <3> QED
        BY <1>1, <1>2, <2>3, <3>1, <3>2 DEF OwnerInv, Shapes, Phases
    <2>6. Ranks' /\ Waiters'
      <3>1. \A m \in MshrIds : ~mshr[m].valid => mshr'[m] = mshr[m]
        BY <1>4, <2>1, <2>2 DEF DramTick, MshrAfterDram
      <3> QED
        BY <1>2, <2>3, <3>1 DEF OwnerInv, Ranks, Waiters, SameMiss
    <2>7. MissesDiffer'
      BY <2>3, <2>4 DEF OwnerInv, MissesDiffer, SameMiss
    <2>8. \A m \in MshrIds : Fetching(m)' <=> Fetching(m)
      BY <2>1, <2>3, <2>4 DEF Fetching, SameMiss
    <2>9. FetchesReserve' /\ LinesAreHome'
      BY <1>2, <2>3, <2>8 DEF OwnerInv, FetchesReserve, LinesAreHome, Holds, SameMiss
    <2>10. DramServes'
      <3>1. dram' = DramIdle /\ ~dram'.busy
        BY <1>4 DEF DramTick, DramIdle
      <3>2. \A m \in MshrIds : mshr'[m].valid => mshr'[m].wb # "sent" /\ mshr'[m].fill # "sent"
        BY <2>3, <2>4 DEF SameMiss
      <3> QED
        BY <3>1, <3>2 DEF DramServes
    <2>11. FetchesAreHome'
      <3>1. \A m \in MshrIds : mshr'[m].valid /\ mshr'[m].fill \in {"sent", "ready"} =>
              mshr[m].valid /\ mshr[m].fill \in {"sent", "ready"} /\ mshr'[m].line = mshr[m].line
        BY <2>3, <2>4 DEF SameMiss
      <3>2. \A m \in MshrIds, l \in Lines : Evicting(m, l)' => Evicting(m, l)
        BY <2>3 DEF Evicting, SameMiss
      <3>3. \A m \in MshrIds : mshr[m].valid => mshr[m].line \in Lines
        BY DEF OwnerInv, MissesDiffer
      <3> QED
        BY <3>1, <3>2, <3>3 DEF OwnerInv, FetchesAreHome
    <2>12. DrainIsOn'
      BY <1>2, <2>3, <2>4 DEF OwnerInv, Shapes, DrainIsOn, SameMiss
    <2> QED
      BY <2>5, <2>6, <2>7, <2>9, <2>10, <2>11, <2>12 DEF OwnerInv
  <1>5. QED
    BY <1>3, <1>4

(* A write-back is chosen before any fill.                                 *)
LEMMA DramPickFacts ==
  ASSUME DramPick # NoMshr
  PROVE  /\ DramPick \in MshrIds /\ mshr[DramPick].valid
         /\ \/ mshr[DramPick].wb = "wanted"
            \/ /\ mshr[DramPick].wb \in {"none", "done"} /\ mshr[DramPick].fill = "wanted"
               /\ \A m \in MshrIds : mshr[m].valid => mshr[m].wb # "wanted"
  <1>1. WantsWb \in SUBSET Nat /\ WantsFill \in SUBSET Nat
    BY IdsAreNumbers DEF WantsWb, WantsFill
  <1>2. CASE WantsWb # {}
    <2>1. DramPick \in WantsWb
      BY <1>1, <1>2, LowestIsIn DEF DramPick
    <2> QED
      BY <2>1 DEF WantsWb
  <1>3. CASE WantsWb = {}
    <2>1. DramPick \in WantsFill
      BY <1>1, <1>3, LowestIsIn DEF DramPick
    <2> QED
      BY <1>3, <2>1 DEF WantsWb, WantsFill
  <1>4. QED
    BY <1>2, <1>3

(* Accepting a request keeps the invariant: it is that of a miss register  *)
(* that waits.                                                             *)
LEMMA DramAcceptOwners ==
  ASSUME OwnerInv, DramAccept
  PROVE  OwnerInv'
  <1>1. PICK m \in MshrIds : m = DramPick
    BY DramPickFacts DEF DramAccept
  <1>2. /\ mshr[m].valid /\ mshr[m] \in MshrStates /\ ~dram.busy
        /\ \/ mshr[m].wb = "wanted"
           \/ /\ mshr[m].wb \in {"none", "done"} /\ mshr[m].fill = "wanted"
              /\ \A n \in MshrIds : mshr[n].valid => mshr[n].wb # "wanted"
    BY <1>1, DramPickFacts DEF DramAccept, OwnerInv, Shapes
  <1> DEFINE wb == mshr[m].wb = "wanted"
  <1>3. \A n \in MshrIds : mshr[n].valid => mshr[n].wb # "sent" /\ mshr[n].fill # "sent"
    BY <1>2 DEF OwnerInv, DramServes
  <1>4. /\ UNCHANGED <<port, sb, sb_head, sb_count, load, cache, lru, drain_mshr, pipe,
                       hit_pend, resp_q, memory, committed>>
        /\ phase' = "pipes"
    BY DEF DramAccept, clientVars, portVars
  <1>5. mshr' \in [MshrIds -> MshrStates] /\ \A n \in MshrIds :
          /\ SameMiss(n) /\ mshr'[n].waiters = mshr[n].waiters
          /\ mshr'[n].wb = IF n = m /\ wb THEN "sent" ELSE mshr[n].wb
          /\ mshr'[n].fill = IF n = m /\ ~wb THEN "sent" ELSE mshr[n].fill
    <2>1. mshr' = [mshr EXCEPT ![m] = IF wb THEN [mshr[m] EXCEPT !.wb = "sent"]
                                            ELSE [mshr[m] EXCEPT !.fill = "sent"]]
      BY <1>1 DEF DramAccept
    <2>2. "sent" \in WbStates /\ "sent" \in FillStates
      BY DEF WbStates, FillStates
    <2> QED
      BY <1>2, <2>1, <2>2, MshrChange DEF OwnerInv, Shapes, SameMiss
  <1>6. dram' \in DramStates /\ dram'.busy /\ dram'.write = wb /\ dram'.mshr = m
    <2> DEFINE line == IF wb THEN mshr[m].wb_line ELSE mshr[m].line
    <2>1. dram' = [busy |-> TRUE, write |-> wb, line |-> line, mshr |-> m,
                   data |-> IF wb THEN mshr[m].wb_data ELSE memory[line]]
      BY <1>1 DEF DramAccept
    <2>2. line \in Lines \cup {NoLine} /\ (~wb => line \in Lines) /\ wb \in BOOLEAN
      BY <1>2 DEF MshrStates, OwnerInv, MissesDiffer
    <2>3. mshr[m].wb_data \in LineData /\ (~wb => memory[line] \in LineData)
      BY <1>2, <2>2 DEF MshrStates, OwnerInv, Shapes
    <2> HIDE DEF wb, line
    <2> QED
      BY <2>1, <2>2, <2>3 DEF DramStates
  <1>7. Shapes' /\ Ranks' /\ Waiters'
    <2>1. \A n \in MshrIds : ~mshr[n].valid => mshr'[n] = mshr[n]
      BY <1>1, <1>2 DEF DramAccept, OwnerInv, Shapes
    <2>2. Shapes'
      BY <1>4, <1>5, <1>6 DEF OwnerInv, Shapes, Phases
    <2>3. Ranks'
      BY <1>4 DEF OwnerInv, Ranks
    <2>4. Waiters'
      BY <1>5, <2>1 DEF OwnerInv, Waiters, SameMiss
    <2> QED
      BY <2>2, <2>3, <2>4
  <1>8. MissesDiffer'
    BY <1>2, <1>5 DEF OwnerInv, MissesDiffer, SameMiss
  <1>9. \A n \in MshrIds : Fetching(n)' <=> Fetching(n)
    BY <1>2, <1>5 DEF Fetching, SameMiss
  <1>10. FetchesReserve' /\ LinesAreHome'
    BY <1>4, <1>5, <1>9 DEF OwnerInv, FetchesReserve, LinesAreHome, Holds, SameMiss
  <1>11. DramServes'
    <2>1. /\ mshr'[m].valid /\ (wb => mshr'[m].wb = "sent") /\ (~wb => mshr'[m].fill = "sent")
      BY <1>2, <1>5 DEF SameMiss
    <2>2. \A n \in MshrIds : mshr'[n].valid /\ (mshr'[n].wb = "sent" \/ mshr'[n].fill = "sent")
                               => n = m
      BY <1>3, <1>5 DEF SameMiss
    <2>3. (wb => mshr'[m].fill # "sent") /\ (~wb => mshr'[m].wb # "sent")
      BY <1>2, <1>3, <1>5
    <2> HIDE DEF wb
    <2> QED
      BY <1>6, <2>1, <2>2, <2>3 DEF DramServes
  <1>12. FetchesAreHome'
    <2>1. \A n \in MshrIds : mshr[n].valid => mshr[n].line \in Lines
      BY DEF OwnerInv, MissesDiffer
    <2>2. CASE wb
      <3>1. \A n \in MshrIds, l \in Lines : Evicting(n, l)' => Evicting(n, l)
        BY <1>5, <2>2 DEF Evicting, SameMiss
      <3>2. \A n \in MshrIds : mshr'[n].valid /\ mshr'[n].fill \in {"sent", "ready"} =>
              mshr[n].valid /\ mshr[n].fill \in {"sent", "ready"} /\ mshr'[n].line = mshr[n].line
        BY <1>5, <2>2 DEF SameMiss
      <3> QED
        BY <2>1, <3>1, <3>2 DEF OwnerInv, FetchesAreHome
    <2>3. CASE ~wb
      <3>1. \A n \in MshrIds : mshr'[n].valid => mshr'[n].wb \notin {"wanted", "sent"}
        BY <1>2, <1>3, <1>5, <2>3 DEF SameMiss
      <3> QED
        BY <3>1 DEF FetchesAreHome, Evicting
    <2> QED
      BY <2>2, <2>3
  <1>13. DrainIsOn'
    BY <1>2, <1>4, <1>5 DEF OwnerInv, MissesDiffer, Shapes, DrainIsOn, SameMiss
  <1>14. QED
    BY <1>7, <1>8, <1>10, <1>11, <1>12, <1>13 DEF OwnerInv

-------------------------------------------------------------------------------
(* The compare pipes.                                                      *)

(* What a register fetches and a way holds are as they were.               *)
SameOwners ==
  /\ \A m \in MshrIds : /\ mshr'[m].valid = mshr[m].valid /\ mshr'[m].line = mshr[m].line
                        /\ mshr'[m].way = mshr[m].way /\ mshr'[m].wb_line = mshr[m].wb_line
                        /\ mshr'[m].wb = mshr[m].wb /\ mshr'[m].fill = mshr[m].fill
  /\ \A s \in SetIds, w \in WayIds : /\ cache'[s][w].valid = cache[s][w].valid
                                     /\ cache'[s][w].reserved = cache[s][w].reserved
                                     /\ cache'[s][w].line = cache[s][w].line

(* Where no way, miss register or DRAM request changes hands, the          *)
(* invariant stays.                                                        *)
LEMMA OwnersStay ==
  ASSUME OwnerInv, SameOwners, UNCHANGED dram, Shapes', Ranks', Waiters', DrainIsOn'
  PROVE  OwnerInv'
  <1>1. MissesDiffer'
    BY DEF OwnerInv, MissesDiffer, SameOwners
  <1>2. \A m \in MshrIds : mshr[m].valid =>
          /\ mshr[m].line \in Lines /\ SetOf(mshr[m].line) \in SetIds
          /\ mshr[m].way \in WayIds
    BY AddressFacts DEF OwnerInv, MissesDiffer, Shapes, MshrStates
  <1>3. \A s \in SetIds, w \in WayIds, l \in Lines : Holds(s, w, l)' <=> Holds(s, w, l)
    BY DEF SameOwners, Holds
  <1>4. \A m \in MshrIds : Fetching(m)' <=> Fetching(m)
    BY DEF SameOwners, Fetching
  <1>5. \A m \in MshrIds, l \in Lines : Evicting(m, l)' <=> Evicting(m, l)
    BY DEF SameOwners, Evicting
  <1>6. FetchesReserve'
    <2>1. SUFFICES ASSUME NEW m \in MshrIds, Fetching(m)'
                   PROVE  /\ cache'[SetOf(mshr'[m].line)][mshr'[m].way].reserved
                          /\ \A w \in WayIds : ~Holds(SetOf(mshr[m].line), w, mshr[m].line)'
                          /\ \A n \in MshrIds :
                               /\ Fetching(n)'
                               /\ SetOf(mshr'[n].line) = SetOf(mshr'[m].line)
                               /\ mshr'[n].way = mshr'[m].way
                               => n = m
      BY DEF FetchesReserve, Holds
    <2>2. Fetching(m) /\ mshr[m].valid
      BY <1>4, <2>1 DEF Fetching
    <2>3. mshr'[m].line = mshr[m].line /\ mshr'[m].way = mshr[m].way
      BY DEF SameOwners
    <2>4. cache'[SetOf(mshr'[m].line)][mshr'[m].way].reserved
      BY <1>2, <2>2, <2>3 DEF OwnerInv, FetchesReserve, SameOwners
    <2>5. \A w \in WayIds : ~Holds(SetOf(mshr[m].line), w, mshr[m].line)'
      <3>1. \A w \in WayIds : ~Holds(SetOf(mshr[m].line), w, mshr[m].line)
        BY <2>2 DEF OwnerInv, FetchesReserve
      <3> QED
        BY <1>2, <2>2, <3>1 DEF SameOwners, Holds
    <2>6. \A n \in MshrIds : /\ Fetching(n)' /\ SetOf(mshr'[n].line) = SetOf(mshr'[m].line)
                             /\ mshr'[n].way = mshr'[m].way
                             => n = m
      BY <1>4, <2>2 DEF OwnerInv, FetchesReserve, SameOwners
    <2> QED
      BY <2>4, <2>5, <2>6
  <1>7. LinesAreHome'
    <2>1. SUFFICES ASSUME NEW s \in SetIds, NEW w \in WayIds, cache'[s][w].valid
                   PROVE  /\ cache'[s][w].line \in Lines /\ SetOf(cache'[s][w].line) = s
                          /\ ~cache'[s][w].reserved =>
                               \A v \in WayIds : /\ cache'[s][v].valid /\ ~cache'[s][v].reserved
                                                 /\ cache'[s][v].line = cache'[s][w].line
                                                 => v = w
      BY DEF LinesAreHome, Holds
    <2> QED
      BY <2>1 DEF OwnerInv, LinesAreHome, Holds, SameOwners
  <1>8. DramServes'
    <2>1. dram.busy => dram.mshr \in MshrIds
      BY DEF OwnerInv, DramServes
    <2> QED
      BY <2>1 DEF OwnerInv, DramServes, SameOwners
  <1>9. FetchesAreHome'
    <2>1. SUFFICES ASSUME NEW m \in MshrIds, NEW n \in MshrIds, mshr'[m].valid,
                          mshr'[m].fill \in {"sent", "ready"}
                   PROVE  /\ mshr'[m].line = mshr[m].line
                          /\ ~Evicting(n, mshr[m].line)'
      BY DEF FetchesAreHome, Evicting
    <2>2. mshr[m].valid /\ mshr[m].fill \in {"sent", "ready"}
      BY <2>1 DEF SameOwners
    <2>3. ~Evicting(n, mshr[m].line)
      BY <2>2 DEF OwnerInv, FetchesAreHome
    <2> QED
      BY <2>3 DEF SameOwners, Evicting
  <1>10. QED
    BY <1>1, <1>6, <1>7, <1>8, <1>9 DEF OwnerInv

(* A request waits for the line that its register fetches.                 *)
LEMMA JoinOwners ==
  ASSUME OwnerInv, NEW p \in PortIds, NEW m \in MshrIds, mshr[m].valid,
         JoinMshr(p, m), port' \in Nat,
         UNCHANGED <<phase, clientVars, dram, memory, committed, cache, lru, drain_mshr,
                     hit_pend, resp_q>>
  PROVE  OwnerInv'
  <1>1. CASE MustHold(m)
    <2>1. UNCHANGED <<mshr, pipe>>
      BY <1>1 DEF JoinMshr
    <2>2. Shapes'
      BY <2>1 DEF OwnerInv, Shapes, clientVars
    <2> QED
      BY <2>1, <2>2, OwnersKeep
  <1>2. CASE ~MustHold(m)
    <2> DEFINE q == Append(mshr[m].waiters, pipe[p])
               e == [mshr[m] EXCEPT !.waiters = q]
    <2>1. /\ mshr' = [mshr EXCEPT ![m] = e]
          /\ pipe' = [pipe EXCEPT ![p] = NoReq]
          /\ Len(mshr[m].waiters) # MaxWaiters
      BY <1>2 DEF JoinMshr, LeavePipe, MustHold
    <2>2. /\ mshr[m].waiters \in Seq(Reqs) /\ pipe[p] \in Reqs /\ mshr[m] \in MshrStates
          /\ Len(mshr[m].waiters) <= MaxWaiters /\ mshr \in [MshrIds -> MshrStates]
      BY DEF OwnerInv, Shapes, MshrStates, Waiters
    <2>3. q \in Seq(Reqs) /\ q # <<>> /\ Len(q) <= MaxWaiters
      <3>1. Len(mshr[m].waiters) \in Nat
        BY <2>2, LenProperties
      <3>2. Len(q) = Len(mshr[m].waiters) + 1
        BY <2>2, AppendProperties
      <3> QED
        BY <2>1, <2>2, <3>1, <3>2, AppendProperties, ConstantsArePositive
    <2>4. /\ e \in MshrStates /\ e.waiters = q /\ e.valid = mshr[m].valid
          /\ e.line = mshr[m].line /\ e.way = mshr[m].way /\ e.wb = mshr[m].wb
          /\ e.wb_line = mshr[m].wb_line /\ e.fill = mshr[m].fill
      <3> HIDE DEF q
      <3> QED
        BY <2>2, <2>3, WaitersChange
    <2> HIDE DEF e, q
    <2>5. /\ mshr' \in [MshrIds -> MshrStates] /\ mshr'[m] = e
          /\ \A n \in MshrIds : n # m => mshr'[n] = mshr[n]
      BY <2>1, <2>2, <2>4
    <2>6. Shapes'
      <3>1. pipe' \in [PortIds -> Reqs]
        BY <2>1, EmptyStates DEF OwnerInv, Shapes
      <3> QED
        BY <2>5, <3>1 DEF OwnerInv, Shapes, clientVars
    <2>7. SameOwners
      BY <2>4, <2>5 DEF SameOwners
    <2>8. Ranks' /\ Waiters' /\ DrainIsOn'
      <3>1. Waiters'
        <4>1. \A n \in MshrIds : /\ Len(mshr'[n].waiters) <= MaxWaiters
                                 /\ mshr'[n].valid <=> mshr'[n].waiters # <<>>
                                 /\ ~mshr'[n].valid => mshr'[n] = FreeMshr
          BY <2>3, <2>4, <2>5 DEF OwnerInv, Waiters
        <4> QED
          BY <4>1 DEF Waiters
      <3>2. DrainIsOn'
        BY <2>7 DEF OwnerInv, DrainIsOn, Shapes, SameOwners
      <3> QED
        BY <3>1, <3>2 DEF OwnerInv, Ranks
    <2> QED
      BY <2>6, <2>7, <2>8, OwnersStay
  <1>3. QED
    BY <1>1, <1>2

(* A hit changes the data of its way, nothing of who owns it.              *)
LEMMA HitOwners ==
  ASSUME OwnerInv, NEW p \in PortIds, NEW s \in SetIds, NEW w \in WayIds,
         HitLine(p, s, w), port' \in Nat,
         UNCHANGED <<phase, clientVars, dram, memory, committed, mshr, drain_mshr>>
  PROVE  OwnerInv'
  <1>1. pipe[p] \in Reqs /\ cache[s][w] \in WayStates
    BY DEF OwnerInv, Shapes
  <1>2. /\ pipe[p].addr \in Words /\ pipe[p].val \in Val
        /\ WordOf(pipe[p].addr) \in 0 .. LineWords - 1 /\ cache[s][w].data \in LineData
    BY <1>1, AddressFacts DEF Reqs, WayStates
  <1>3. \A v \in Val : Resp(pipe[p], v) \in Reqs
    BY <1>1 DEF Resp, Reqs
  <1>4. cache' \in [SetIds -> [WayIds -> WayStates]] /\ \A q \in SetIds, v \in WayIds :
          /\ cache'[q][v].valid = cache[q][v].valid
          /\ cache'[q][v].reserved = cache[q][v].reserved
          /\ cache'[q][v].line = cache[q][v].line
    <2>1. CASE pipe[p].write
      <3> DEFINE d == Stored(cache[s][w].data, pipe[p])
      <3>1. d \in LineData
        BY <1>2 DEF Stored, LineData
      <3> DEFINE e == [cache[s][w] EXCEPT !.data = d, !.dirty = TRUE]
      <3>2. /\ e \in WayStates /\ e.valid = cache[s][w].valid
            /\ e.reserved = cache[s][w].reserved /\ e.line = cache[s][w].line
        <4> HIDE DEF d
        <4> QED
          BY <1>1, <3>1 DEF WayStates
      <3>3. cache' = [cache EXCEPT ![s][w] = e]
        BY <2>1 DEF HitLine, OwnerInv, Shapes
      <3> HIDE DEF e, d
      <3> QED
        BY <3>2, <3>3 DEF OwnerInv, Shapes
    <2>2. CASE ~pipe[p].write
      BY <2>2 DEF HitLine, OwnerInv, Shapes
    <2> QED
      BY <1>1, <2>1, <2>2 DEF Reqs
  <1>5. hit_pend' \in [PortIds -> Reqs] /\ resp_q' \in Seq(Reqs)
    <2>1. CASE pipe[p].write
      <3>1. Resp(pipe[p], 0) \in Reqs /\ resp_q \in Seq(Reqs)
        BY <1>3, ConstantsArePositive DEF OwnerInv, Shapes
      <3>2. resp_q' = Append(resp_q, Resp(pipe[p], 0)) /\ hit_pend' = hit_pend
        BY <2>1 DEF HitLine
      <3> QED
        BY <3>1, <3>2, AppendProperties DEF OwnerInv, Shapes
    <2>2. CASE ~pipe[p].write
      <3>1. cache[s][w].data[WordOf(pipe[p].addr)] \in Val
        BY <1>2 DEF LineData
      <3> QED
        BY <1>3, <2>2, <3>1 DEF HitLine, OwnerInv, Shapes
    <2> QED
      BY <2>1, <2>2
  <1>6. Shapes' /\ Ranks'
    <2>1. lru' \in [SetIds -> [WayIds -> WayIds]] /\ Ranks'
      BY UsedKeepsRanks DEF OwnerInv, Shapes, HitLine, Ranks
    <2>2. pipe' \in [PortIds -> Reqs]
      BY EmptyStates DEF HitLine, LeavePipe, OwnerInv, Shapes
    <2> QED
      BY <1>4, <1>5, <2>1, <2>2 DEF OwnerInv, Shapes, clientVars
  <1>7. Waiters' /\ DrainIsOn'
    BY DEF OwnerInv, Waiters, DrainIsOn
  <1>8. SameOwners
    BY <1>4 DEF SameOwners
  <1>9. QED
    BY <1>6, <1>7, <1>8, OwnersStay

(* Holds and Evicting after a step, of values before it.                   *)
HoldsNext(s, w, line) == /\ cache'[s][w].valid /\ ~cache'[s][w].reserved
                         /\ cache'[s][w].line = line
EvictingNext(m, line) == /\ mshr'[m].valid /\ mshr'[m].wb \in {"wanted", "sent"}
                         /\ mshr'[m].wb_line = line

(* The register m takes a request that misses in every way and every       *)
(* register, and reserves the way w.                                       *)
TakeWay(p, s, m, w) ==
  /\ mshr' = [mshr EXCEPT ![m] =
       [FreeMshr EXCEPT
          !.valid = TRUE,
          !.line = LineOf(pipe[p].addr),
          !.way = w,
          !.wb = IF NeedsWb(cache[s][w]) THEN "wanted" ELSE "none",
          !.wb_line = IF NeedsWb(cache[s][w]) THEN cache[s][w].line ELSE NoLine,
          !.wb_data = IF NeedsWb(cache[s][w]) THEN cache[s][w].data ELSE ZeroLine,
          !.waiters = <<pipe[p]>>]]
  /\ cache' = [cache EXCEPT ![s][w].reserved = TRUE]
  /\ pipe' = [pipe EXCEPT ![p] = NoReq]

(* A miss takes a way nobody has reserved, for a line nobody has.          *)
LEMMA TakeWayOwners ==
  ASSUME OwnerInv, NEW p \in PortIds, NEW s \in SetIds, NEW m \in MshrIds, NEW w \in WayIds,
         NEW line \in Lines, line = LineOf(pipe[p].addr), s = SetOf(line),
         MshrOf(line) = {}, HitWays(s, line) = {},
         ~mshr[m].valid, ~cache[s][w].reserved, TakeWay(p, s, m, w), port' \in Nat,
         UNCHANGED <<phase, clientVars, dram, memory, committed, lru, drain_mshr,
                     hit_pend, resp_q>>
  PROVE  OwnerInv'
  <1> DEFINE way == cache[s][w]
             nwb == NeedsWb(way)
             q == <<pipe[p]>>
             e == [FreeMshr EXCEPT
                     !.valid = TRUE, !.line = line, !.way = w,
                     !.wb = IF nwb THEN "wanted" ELSE "none",
                     !.wb_line = IF nwb THEN way.line ELSE NoLine,
                     !.wb_data = IF nwb THEN way.data ELSE ZeroLine,
                     !.waiters = q]
             c == [way EXCEPT !.reserved = TRUE]
  <1>1. /\ mshr' = [mshr EXCEPT ![m] = e] /\ pipe' = [pipe EXCEPT ![p] = NoReq]
        /\ cache' = [cache EXCEPT ![s][w] = c]
    BY DEF TakeWay, OwnerInv, Shapes
  <1>2. /\ mshr \in [MshrIds -> MshrStates] /\ cache \in [SetIds -> [WayIds -> WayStates]]
        /\ way \in WayStates /\ pipe[p] \in Reqs
    BY DEF OwnerInv, Shapes
  <1>3. q \in Seq(Reqs) /\ q # <<>> /\ Len(q) = 1
    <2>1. PICK r \in Reqs : r = pipe[p]
      BY <1>2
    <2> QED
      BY <2>1
  <1>4. nwb \in BOOLEAN /\ (nwb => way.line \in Lines /\ SetOf(way.line) = s)
    BY <1>2 DEF NeedsWb, WayStates, OwnerInv, LinesAreHome
  <1>5. /\ e \in MshrStates /\ e.valid = TRUE /\ e.line = line /\ e.way = w
        /\ e.wb = (IF nwb THEN "wanted" ELSE "none") /\ e.fill = "wanted"
        /\ (nwb => e.wb_line = way.line) /\ e.waiters = q
    <2>1. /\ (IF nwb THEN way.line ELSE NoLine) \in Lines \cup {NoLine}
          /\ (IF nwb THEN way.data ELSE ZeroLine) \in LineData
          /\ (IF nwb THEN "wanted" ELSE "none") \in WbStates
      BY <1>2, <1>4, EmptyStates DEF WayStates, WbStates
    <2> HIDE DEF nwb, way, q
    <2> QED
      BY <1>3, <1>4, <2>1, EmptyStates DEF MshrStates, FreeMshr, FillStates
  <1>6. /\ c \in WayStates /\ c.valid = way.valid /\ c.line = way.line /\ c.reserved = TRUE
    BY <1>2 DEF WayStates
  <1>7. nwb => way.valid
    BY DEF NeedsWb
  <1> HIDE DEF c, e, q, nwb
  <1>8. /\ mshr' \in [MshrIds -> MshrStates] /\ mshr'[m] = e
        /\ \A n \in MshrIds : n # m => mshr'[n] = mshr[n]
    BY <1>1, <1>2, <1>5
  <1>9. /\ cache' \in [SetIds -> [WayIds -> WayStates]] /\ cache'[s][w] = c
        /\ \A r \in SetIds, v \in WayIds : r # s \/ v # w => cache'[r][v] = cache[r][v]
    BY <1>1, <1>2, <1>6
  <1>10. Shapes'
    <2>1. pipe' \in [PortIds -> Reqs]
      BY <1>1, EmptyStates DEF OwnerInv, Shapes
    <2> QED
      BY <1>8, <1>9, <2>1 DEF OwnerInv, Shapes, clientVars
  <1>11. Ranks'
    BY DEF OwnerInv, Ranks
  <1>12. Waiters'
    <2>1. \A n \in MshrIds : /\ Len(mshr'[n].waiters) <= MaxWaiters
                             /\ mshr'[n].valid <=> mshr'[n].waiters # <<>>
                             /\ ~mshr'[n].valid => mshr'[n] = FreeMshr
      <3>1. \A n \in MshrIds : n # m => /\ Len(mshr'[n].waiters) <= MaxWaiters
                                        /\ mshr'[n].valid <=> mshr'[n].waiters # <<>>
                                        /\ ~mshr'[n].valid => mshr'[n] = FreeMshr
        BY <1>8 DEF OwnerInv, Waiters
      <3>2. Len(mshr'[m].waiters) <= MaxWaiters /\ mshr'[m].waiters # <<>> /\ mshr'[m].valid
        <4>1. mshr'[m].waiters = q /\ mshr'[m].valid = TRUE
          BY <1>5, <1>8
        <4>2. Len(q) <= MaxWaiters
          BY <1>3, ConstantsArePositive
        <4> QED
          BY <1>3, <4>1, <4>2
      <3> QED
        BY <3>1, <3>2
    <2> QED
      BY <2>1 DEF Waiters
  <1>13. \A n \in MshrIds : mshr[n].valid =>
           mshr[n].line # line /\ n # m /\ mshr[n].line \in Lines
    BY DEF MshrOf, OwnerInv, MissesDiffer
  <1>14. MissesDiffer'
    BY <1>5, <1>8, <1>13 DEF OwnerInv, MissesDiffer
  <1>15. \A r \in SetIds, v \in WayIds, l \in Lines : HoldsNext(r, v, l) =>
           Holds(r, v, l) /\ ~(r = s /\ v = w)
    BY <1>6, <1>9 DEF Holds, HoldsNext
  <1>16. \A n \in MshrIds : n # m => (Fetching(n)' <=> Fetching(n))
    BY <1>8 DEF Fetching
  <1>17. FetchesReserve'
    <2>1. \A n \in MshrIds : Fetching(n) =>
            /\ cache[SetOf(mshr[n].line)][mshr[n].way].reserved
            /\ SetOf(mshr[n].line) \in SetIds /\ mshr[n].way \in WayIds /\ n # m
            /\ mshr[n].line \in Lines
      BY <1>13, AddressFacts DEF OwnerInv, FetchesReserve, Fetching, Shapes, MshrStates
    <2>2. \A n \in MshrIds : Fetching(n) =>
            /\ cache'[SetOf(mshr[n].line)][mshr[n].way].reserved
            /\ ~(SetOf(mshr[n].line) = s /\ mshr[n].way = w)
      BY <1>9, <2>1
    <2>3. \A n \in MshrIds : Fetching(n)' =>
            /\ cache'[SetOf(mshr'[n].line)][mshr'[n].way].reserved
            /\ \A v \in WayIds : ~HoldsNext(SetOf(mshr'[n].line), v, mshr'[n].line)
      <3>1. ASSUME NEW n \in MshrIds, Fetching(n)', n # m
            PROVE  /\ cache'[SetOf(mshr'[n].line)][mshr'[n].way].reserved
                   /\ \A v \in WayIds : ~HoldsNext(SetOf(mshr'[n].line), v, mshr'[n].line)
        <4>1. Fetching(n) /\ mshr'[n] = mshr[n]
          BY <1>8, <1>16, <3>1
        <4>2. PICK l \in Lines : l = mshr[n].line
          BY <2>1, <4>1
        <4>3. \A v \in WayIds : ~Holds(SetOf(l), v, l)
          BY <4>1, <4>2 DEF OwnerInv, FetchesReserve
        <4>4. \A v \in WayIds : ~HoldsNext(SetOf(l), v, l)
          BY <1>15, <4>3, AddressFacts
        <4> QED
          BY <2>2, <4>1, <4>2, <4>4
      <3>2. /\ cache'[SetOf(mshr'[m].line)][mshr'[m].way].reserved
            /\ \A v \in WayIds : ~HoldsNext(SetOf(mshr'[m].line), v, mshr'[m].line)
        <4>1. \A v \in WayIds : ~Holds(s, v, line)
          BY DEF HitWays, Holds
        <4>2. \A v \in WayIds : ~HoldsNext(s, v, line)
          BY <1>15, <4>1
        <4>3. mshr'[m].line = line /\ mshr'[m].way = w /\ cache'[s][w].reserved
          BY <1>5, <1>6, <1>8, <1>9
        <4> QED
          BY <4>2, <4>3
      <3> QED
        BY <3>1, <3>2
    <2>4. \A a, b \in MshrIds : /\ Fetching(a)' /\ Fetching(b)'
                                /\ SetOf(mshr'[b].line) = SetOf(mshr'[a].line)
                                /\ mshr'[b].way = mshr'[a].way
                                => b = a
      <3>1. \A a, b \in MshrIds : a # m /\ b # m /\ Fetching(a)' /\ Fetching(b)'
              /\ SetOf(mshr'[b].line) = SetOf(mshr'[a].line) /\ mshr'[b].way = mshr'[a].way
              => b = a
        BY <1>8, <1>16 DEF OwnerInv, FetchesReserve
      <3>2. \A a \in MshrIds : a # m /\ Fetching(a)' =>
              ~(SetOf(mshr'[a].line) = s /\ mshr'[a].way = w)
        BY <1>8, <1>16, <2>2
      <3>3. SetOf(mshr'[m].line) = s /\ mshr'[m].way = w
        BY <1>5, <1>8
      <3> QED
        BY <3>1, <3>2, <3>3
    <2> QED
      BY <2>3, <2>4 DEF FetchesReserve, Holds, HoldsNext
  <1>18. LinesAreHome'
    <2>1. SUFFICES ASSUME NEW r \in SetIds, NEW v \in WayIds, cache'[r][v].valid
                   PROVE  /\ cache'[r][v].line \in Lines /\ SetOf(cache'[r][v].line) = r
                          /\ ~cache'[r][v].reserved =>
                               \A u \in WayIds : /\ cache'[r][u].valid /\ ~cache'[r][u].reserved
                                                 /\ cache'[r][u].line = cache'[r][v].line
                                                 => u = v
      BY DEF LinesAreHome, Holds
    <2>2. /\ cache'[r][v].line = cache[r][v].line /\ cache[r][v].valid
          /\ ~cache'[r][v].reserved => ~cache[r][v].reserved
      BY <1>6, <1>9, <2>1
    <2>3. \A u \in WayIds : cache'[r][u].valid /\ ~cache'[r][u].reserved =>
            cache'[r][u] = cache[r][u]
      BY <1>6, <1>9
    <2> QED
      BY <2>2, <2>3 DEF OwnerInv, LinesAreHome, Holds
  <1>19. DramServes'
    <2>1. dram.busy => dram.mshr \in MshrIds /\ dram.mshr # m
      BY <1>13 DEF OwnerInv, DramServes
    <2>2. mshr'[m].wb # "sent" /\ mshr'[m].fill # "sent"
      BY <1>5, <1>8
    <2> QED
      BY <1>8, <2>1, <2>2 DEF OwnerInv, DramServes
  <1>20. FetchesAreHome'
    <2>1. SUFFICES ASSUME NEW a \in MshrIds, NEW b \in MshrIds, mshr'[a].valid,
                          mshr'[a].fill \in {"sent", "ready"}
                   PROVE  ~EvictingNext(b, mshr'[a].line)
      BY DEF FetchesAreHome, Evicting, EvictingNext
    <2>2. a # m /\ mshr'[a] = mshr[a]
      BY <1>5, <1>8, <2>1
    <2>3. CASE b # m
      BY <1>8, <2>1, <2>2, <2>3 DEF OwnerInv, FetchesAreHome, Evicting, EvictingNext
    <2>4. CASE b = m
      <3>1. SUFFICES ASSUME EvictingNext(m, mshr'[a].line) PROVE FALSE
        BY <2>4
      <3>2. nwb /\ mshr[a].line = way.line
        BY <1>5, <1>8, <2>2, <3>1 DEF EvictingNext
      <3>3. Holds(s, w, mshr[a].line)
        BY <1>7, <3>2 DEF Holds
      <3>4. Fetching(a) /\ SetOf(mshr[a].line) = s
        BY <1>4, <2>1, <2>2, <3>2 DEF Fetching
      <3> QED
        BY <3>3, <3>4 DEF OwnerInv, FetchesReserve
    <2> QED
      BY <2>3, <2>4
  <1>21. DrainIsOn'
    BY <1>8, <1>13 DEF OwnerInv, DrainIsOn, Shapes
  <1>22. QED
    BY <1>10, <1>11, <1>12, <1>14, <1>17, <1>18, <1>19, <1>20, <1>21 DEF OwnerInv

(* The compare stage keeps the invariant, for hits, merged misses and new  *)
(* misses.                                                                 *)
LEMMA ProcessPipeOwners ==
  ASSUME OwnerInv, ProcessPipe
  PROVE  OwnerInv'
  <1>1. PICK p \in PortIds : p = port
    BY ConstantsArePositive DEF ProcessPipe, PortIds, OwnerInv, Shapes
  <1>2. PICK line \in Lines : line = LineOf(pipe[p].addr)
    BY AddressFacts DEF OwnerInv, Shapes, Reqs
  <1>3. PICK s \in SetIds : s = SetOf(line)
    BY AddressFacts
  <1>4. /\ UNCHANGED <<phase, clientVars, dram, memory, committed>>
        /\ port' \in Nat
    BY DEF ProcessPipe, OwnerInv, Shapes
  <1>5. CASE ~pipe[p].valid
    <2>1. UNCHANGED <<cache, lru, mshr, drain_mshr, pipe, hit_pend, resp_q>>
      BY <1>1, <1>5 DEF ProcessPipe, tableVars, portVars
    <2>2. Shapes'
      BY <1>4, <2>1 DEF OwnerInv, Shapes, clientVars
    <2> QED
      BY <1>4, <2>1, <2>2, OwnersKeep
  <1>6. CASE pipe[p].valid /\ MshrOf(line) # {}
    <2>1. PICK m \in MshrIds : m = Lowest(MshrOf(line)) /\ mshr[m].valid
      <3>1. MshrOf(line) \in SUBSET Nat
        BY IdsAreNumbers DEF MshrOf
      <3> QED
        BY <1>6, <3>1, LowestIsIn DEF MshrOf
    <2>2. /\ JoinMshr(p, m)
          /\ UNCHANGED <<cache, lru, drain_mshr, hit_pend, resp_q>>
      BY <1>1, <1>2, <1>6, <2>1 DEF ProcessPipe
    <2> QED
      BY <1>4, <2>1, <2>2, JoinOwners
  <1>7. CASE pipe[p].valid /\ MshrOf(line) = {} /\ HitWays(s, line) # {}
    <2>1. PICK w \in WayIds : w = Lowest(HitWays(s, line))
      <3>1. HitWays(s, line) \in SUBSET Nat
        BY IdsAreNumbers DEF HitWays
      <3> QED
        BY <1>7, <3>1, LowestIsIn DEF HitWays
    <2>2. HitLine(p, s, w) /\ UNCHANGED <<mshr, drain_mshr>>
      BY <1>1, <1>2, <1>3, <1>7, <2>1 DEF ProcessPipe
    <2> QED
      BY <1>4, <2>2, HitOwners
  <1>8. CASE pipe[p].valid /\ MshrOf(line) = {} /\ HitWays(s, line) = {}
    <2> DEFINE free == {m \in MshrIds : ~mshr[m].valid}
    <2>1. Miss(p, s) /\ UNCHANGED <<lru, drain_mshr, hit_pend, resp_q>>
      BY <1>1, <1>2, <1>3, <1>8 DEF ProcessPipe
    <2>2. CASE free = {} \/ Victims(s) = {}
      <3>1. UNCHANGED <<mshr, cache, pipe>>
        BY <2>1, <2>2 DEF Miss
      <3>2. Shapes'
        BY <1>4, <2>1, <3>1 DEF OwnerInv, Shapes, clientVars
      <3> QED
        BY <1>4, <2>1, <3>1, <3>2, OwnersKeep
    <2>3. CASE free # {} /\ Victims(s) # {}
      <3>1. PICK m \in MshrIds : m = Lowest(free) /\ ~mshr[m].valid
        <4>1. free \in SUBSET Nat
          BY IdsAreNumbers
        <4> QED
          BY <2>3, <4>1, LowestIsIn
      <3>2. PICK w \in WayIds : w = Victim(s) /\ ~cache[s][w].reserved
        BY <2>3, VictimIsFree DEF Victims, OwnerInv, Shapes
      <3>3. TakeWay(p, s, m, w)
        BY <2>1, <2>3, <3>1, <3>2 DEF Miss, TakeWay, LeavePipe
      <3> QED
        BY <1>2, <1>3, <1>4, <1>8, <2>1, <3>1, <3>2, <3>3, TakeWayOwners
    <2> QED
      BY <2>2, <2>3
  <1>9. QED
    BY <1>5, <1>6, <1>7, <1>8

-------------------------------------------------------------------------------
(* Fills.                                                                  *)

(* A line with the waiting stores is a line: the last store to a word is   *)
(* one of those that wait.                                                 *)
LEMMA FilledIsALine ==
  ASSUME Shapes, NEW m \in MshrIds
  PROVE  Filled(m) \in LineData
  <1> DEFINE ws == mshr[m].waiters
  <1>1. mshr[m].data \in LineData /\ ws \in Seq(Reqs)
    BY DEF Shapes, MshrStates
  <1>2. Len(ws) \in Nat /\ DOMAIN ws = 1 .. Len(ws) /\ \A i \in DOMAIN ws : ws[i] \in Reqs
    BY <1>1, LenProperties, ElementOfSeq
  <1>3. ASSUME NEW w \in 0 .. LineWords - 1, StoresTo(m, w) # {}
        PROVE  \E i \in StoresTo(m, w) : \A j \in StoresTo(m, w) : j <= i
    <2> DEFINE S == StoresTo(m, w)
               back == {Len(ws) - i : i \in S}
    <2>1. S \subseteq 1 .. Len(ws)
      BY <1>2 DEF StoresTo
    <2>2. \A i \in S : Len(ws) - i \in Nat /\ i \in Nat
      BY <1>2, <2>1
    <2>3. back \in SUBSET Nat /\ back # {}
      BY <1>3, <2>2
    <2>4. PICK t \in back : \A k \in back : t <= k
      BY <2>3, MinimumExists
    <2> HIDE DEF S
    <2>5. PICK i \in S : t = Len(ws) - i
      BY <2>4
    <2>6. \A j \in S : Len(ws) - i <= Len(ws) - j
      BY <2>4, <2>5
    <2>7. \A j \in S : j <= i
      BY <1>2, <2>2, <2>6
    <2> QED
      BY <2>7 DEF S
  <1>4. \A w \in 0 .. LineWords - 1 : Filled(m)[w] \in Val
    <2> SUFFICES ASSUME NEW w \in 0 .. LineWords - 1 PROVE Filled(m)[w] \in Val
      OBVIOUS
    <2>1. CASE StoresTo(m, w) = {}
      BY <1>1, <2>1 DEF Filled, LineData
    <2>2. CASE StoresTo(m, w) # {}
      <3> DEFINE last == CHOOSE i \in StoresTo(m, w) : \A j \in StoresTo(m, w) : j <= i
      <3>1. last \in StoresTo(m, w)
        BY <1>3, <2>2
      <3>2. last \in DOMAIN ws
        BY <3>1 DEF StoresTo
      <3>3. Filled(m)[w] = ws[last].val
        BY <2>2 DEF Filled
      <3> HIDE DEF last
      <3>4. ws[last] \in Reqs
        BY <1>2, <3>2
      <3> QED
        BY <3>3, <3>4 DEF Reqs
    <2> QED
      BY <2>1, <2>2
  <1>5. QED
    BY <1>4 DEF Filled, LineData

(* A fill puts its line in the way it reserved.                            *)
LEMMA CompleteFillOwners ==
  ASSUME OwnerInv, CompleteFill
  PROVE  OwnerInv'
  <1>1. PICK m \in MshrIds : /\ m = Lowest(FillReady) /\ mshr[m].valid
                             /\ mshr[m].fill = "ready"
    <2>1. FillReady \in SUBSET Nat
      BY IdsAreNumbers DEF FillReady
    <2>2. Lowest(FillReady) \in FillReady
      BY <2>1, LowestIsIn DEF CompleteFill
    <2> QED
      BY <2>2 DEF FillReady
  <1>2. PICK line \in Lines, s \in SetIds, w \in WayIds :
          line = mshr[m].line /\ s = SetOf(line) /\ w = mshr[m].way
    BY <1>1, AddressFacts DEF OwnerInv, MissesDiffer, Shapes, MshrStates
  <1>3. PICK data \in LineData : data = Filled(m)
    BY FilledIsALine DEF OwnerInv
  <1>4. PICK dirty \in BOOLEAN :
          dirty = \E i \in DOMAIN mshr[m].waiters : mshr[m].waiters[i].write
    OBVIOUS
  <1> DEFINE c == [valid |-> TRUE, reserved |-> FALSE, line |-> line, data |-> data,
                   dirty |-> dirty]
             f == [mshr[m] EXCEPT !.fill = "draining"]
             e == [f EXCEPT !.data = data]
  <1>5. /\ cache' = [cache EXCEPT ![s][w] = c] /\ lru' = Used(s, w)
        /\ mshr' = [mshr EXCEPT ![m] = e]
        /\ drain_mshr' = IF drain_mshr = NoMshr THEN m ELSE drain_mshr
    <2>1. /\ cache' = [cache EXCEPT ![s][w] = c] /\ lru' = Used(s, w)
          /\ drain_mshr' = IF drain_mshr = NoMshr THEN m ELSE drain_mshr
      BY <1>1, <1>2, <1>3, <1>4 DEF CompleteFill
    <2>2. mshr' = [mshr EXCEPT ![m] = e]
      BY <1>1, <1>3 DEF CompleteFill
    <2> QED
      BY <2>1, <2>2
  <1>6. /\ mshr \in [MshrIds -> MshrStates] /\ cache \in [SetIds -> [WayIds -> WayStates]]
        /\ mshr[m] \in MshrStates
    BY DEF OwnerInv, Shapes
  <1>7. /\ e \in MshrStates /\ e.valid = TRUE /\ e.line = line /\ e.way = w
        /\ e.wb = mshr[m].wb /\ e.fill = "draining" /\ e.wb_line = mshr[m].wb_line
        /\ e.waiters = mshr[m].waiters
    <2>1. "draining" \in FillStates
      BY DEF FillStates
    <2>2. /\ f \in MshrStates /\ f.valid = mshr[m].valid /\ f.line = line /\ f.way = w
          /\ f.wb = mshr[m].wb /\ f.fill = "draining" /\ f.wb_line = mshr[m].wb_line
          /\ f.waiters = mshr[m].waiters
      BY <1>2, <1>6, <2>1, MshrChange
    <2>3. mshr[m].valid = TRUE
      BY <1>1, <1>6 DEF MshrStates
    <2> HIDE DEF f
    <2> QED
      BY <2>2, <2>3, MshrChange
  <1>8. /\ c \in WayStates /\ c.valid = TRUE /\ c.line = line /\ c.reserved = FALSE
    BY DEF WayStates
  <1> HIDE DEF c, e, f
  <1>9. /\ mshr' \in [MshrIds -> MshrStates] /\ mshr'[m] = e
        /\ \A n \in MshrIds : n # m => mshr'[n] = mshr[n]
    BY <1>5, <1>6, <1>7
  <1>10. /\ cache' \in [SetIds -> [WayIds -> WayStates]] /\ cache'[s][w] = c
         /\ \A r \in SetIds, v \in WayIds : r # s \/ v # w => cache'[r][v] = cache[r][v]
    BY <1>5, <1>6, <1>8
  <1>11. lru' \in [SetIds -> [WayIds -> WayIds]] /\ Ranks'
    BY <1>5, UsedKeepsRanks DEF OwnerInv, Shapes, Ranks
  <1>12. UNCHANGED <<phase, port, sb, sb_head, sb_count, load, pipe, hit_pend, resp_q,
                     dram, memory, committed>>
    BY DEF CompleteFill, clientVars, portVars
  <1>13. Shapes'
    <2>1. drain_mshr' \in MshrIds \cup {NoMshr}
      BY <1>5 DEF OwnerInv, Shapes
    <2> QED
      BY <1>9, <1>10, <1>11, <1>12, <2>1 DEF OwnerInv, Shapes
  <1>14. Waiters'
    <2>1. \A n \in MshrIds : /\ Len(mshr'[n].waiters) <= MaxWaiters
                             /\ mshr'[n].valid <=> mshr'[n].waiters # <<>>
                             /\ ~mshr'[n].valid => mshr'[n] = FreeMshr
      BY <1>1, <1>7, <1>9 DEF OwnerInv, Waiters
    <2> QED
      BY <2>1 DEF Waiters
  <1>15. \A n \in MshrIds : /\ mshr'[n].valid = mshr[n].valid /\ mshr'[n].line = mshr[n].line
                            /\ mshr'[n].way = mshr[n].way /\ mshr'[n].wb = mshr[n].wb
                            /\ mshr'[n].wb_line = mshr[n].wb_line
                            /\ mshr'[n].fill = IF n = m THEN "draining" ELSE mshr[n].fill
    <2>1. mshr[m].valid = TRUE
      BY <1>1, <1>6 DEF MshrStates
    <2> QED
      BY <1>2, <1>7, <1>9, <2>1
  <1>16. mshr[m].wb \notin {"wanted", "sent"}
    BY <1>1 DEF OwnerInv, MissesDiffer
  <1>17. MissesDiffer'
    BY <1>15, <1>16 DEF OwnerInv, MissesDiffer
  (* What the register fetched is nowhere else: it may be installed.       *)
  <1>18. \A n \in MshrIds : Fetching(n) /\ n # m =>
           /\ mshr[n].line # line /\ mshr[n].line \in Lines
           /\ ~(SetOf(mshr[n].line) = s /\ mshr[n].way = w)
    BY <1>1, <1>2 DEF OwnerInv, MissesDiffer, FetchesReserve, Fetching
  <1>19. \A v \in WayIds : ~Holds(s, v, line)
    BY <1>1, <1>2 DEF OwnerInv, FetchesReserve, Fetching
  <1>20. \A n \in MshrIds : Fetching(n)' <=> Fetching(n) /\ n # m
    BY <1>15 DEF Fetching
  <1>21. FetchesReserve'
    <2>1. \A n \in MshrIds : Fetching(n) =>
            SetOf(mshr[n].line) \in SetIds /\ mshr[n].way \in WayIds /\ mshr[n].line \in Lines
      BY AddressFacts DEF OwnerInv, MissesDiffer, Fetching, Shapes, MshrStates
    <2>2. ASSUME NEW n \in MshrIds, Fetching(n), n # m
          PROVE  /\ cache'[SetOf(mshr'[n].line)][mshr'[n].way].reserved
                 /\ \A v \in WayIds : ~HoldsNext(SetOf(mshr'[n].line), v, mshr'[n].line)
      <3>1. cache[SetOf(mshr[n].line)][mshr[n].way].reserved
        BY <2>2 DEF OwnerInv, FetchesReserve
      <3>2. cache'[SetOf(mshr'[n].line)][mshr'[n].way].reserved
        BY <1>10, <1>15, <1>18, <2>1, <2>2, <3>1
      <3>3. PICK l \in Lines : l = mshr[n].line /\ l # line
        BY <1>18, <2>2
      <3>4. \A v \in WayIds : ~Holds(SetOf(l), v, l)
        BY <2>2, <3>3 DEF OwnerInv, FetchesReserve
      <3>5. \A v \in WayIds : ~HoldsNext(SetOf(l), v, l)
        BY <1>8, <1>10, <3>3, <3>4, AddressFacts DEF Holds, HoldsNext
      <3> QED
        BY <1>15, <3>2, <3>3, <3>5
    <2>3. \A a, b \in MshrIds : /\ Fetching(a) /\ Fetching(b) /\ a # m /\ b # m
                                /\ SetOf(mshr'[b].line) = SetOf(mshr'[a].line)
                                /\ mshr'[b].way = mshr'[a].way
                                => b = a
      BY <1>15 DEF OwnerInv, FetchesReserve
    <2> QED
      BY <1>20, <2>2, <2>3 DEF FetchesReserve, Holds, HoldsNext
  <1>22. LinesAreHome'
    <2>1. SUFFICES ASSUME NEW r \in SetIds, NEW v \in WayIds, cache'[r][v].valid
                   PROVE  /\ cache'[r][v].line \in Lines /\ SetOf(cache'[r][v].line) = r
                          /\ ~cache'[r][v].reserved =>
                               \A u \in WayIds : /\ cache'[r][u].valid /\ ~cache'[r][u].reserved
                                                 /\ cache'[r][u].line = cache'[r][v].line
                                                 => u = v
      BY DEF LinesAreHome, Holds
    <2>2. CASE r = s /\ v = w
      <3>1. cache'[r][v].line = line
        BY <1>8, <1>10, <2>2
      <3>2. \A u \in WayIds : u # w => cache'[r][u] = cache[r][u]
        BY <1>10, <2>2
      <3> QED
        BY <1>2, <1>19, <2>2, <3>1, <3>2 DEF Holds
    <2>3. CASE ~(r = s /\ v = w)
      <3>1. cache'[r][v] = cache[r][v]
        BY <1>10, <2>3
      <3>2. \A u \in WayIds : ~(r = s /\ u = w) => cache'[r][u] = cache[r][u]
        BY <1>10
      <3>3. r = s /\ ~cache[r][v].reserved => cache[r][v].line # line
        BY <1>19, <2>1, <3>1 DEF Holds
      <3>4. r = s => cache'[r][w].line = line
        BY <1>8, <1>10
      <3> QED
        BY <2>1, <3>1, <3>2, <3>3, <3>4 DEF OwnerInv, LinesAreHome, Holds
    <2> QED
      BY <2>2, <2>3
  <1>23. DramServes'
    <2>1. dram.busy => dram.mshr \in MshrIds /\ dram.mshr # m
      BY <1>1, <1>16 DEF OwnerInv, DramServes
    <2> QED
      BY <1>12, <1>15, <2>1 DEF OwnerInv, DramServes
  <1>24. FetchesAreHome'
    <2>1. SUFFICES ASSUME NEW a \in MshrIds, NEW b \in MshrIds, mshr'[a].valid,
                          mshr'[a].fill \in {"sent", "ready"}
                   PROVE  ~EvictingNext(b, mshr'[a].line)
      BY DEF FetchesAreHome, Evicting, EvictingNext
    <2> QED
      BY <1>15, <2>1 DEF OwnerInv, FetchesAreHome, Evicting, EvictingNext
  <1>25. DrainIsOn'
    <2>1. mshr'[m].valid /\ mshr'[m].fill = "draining"
      BY <1>1, <1>15
    <2>2. drain_mshr # NoMshr => /\ mshr'[drain_mshr].valid
                                 /\ mshr'[drain_mshr].fill = "draining"
      BY <1>15 DEF OwnerInv, DrainIsOn, Shapes
    <2> QED
      BY <1>5, <2>1, <2>2 DEF DrainIsOn
  <1>26. QED
    BY <1>11, <1>13, <1>14, <1>17, <1>21, <1>22, <1>23, <1>24, <1>25 DEF OwnerInv

(* The register that drains has an answer for the first that waits.        *)
Draining == {m \in MshrIds : mshr[m].valid /\ mshr[m].fill = "draining"}

(* Answering a waiter keeps the invariant.                                 *)
LEMMA StepDrainOwners ==
  ASSUME OwnerInv, StepDrain
  PROVE  OwnerInv'
  <1>1. /\ UNCHANGED <<sb, sb_head, sb_count, load, cache, lru, pipe, hit_pend, dram,
                       memory, committed>>
        /\ phase' = "resps" /\ port' = 0
    BY DEF StepDrain, clientVars, portVars
  <1>2. CASE Draining = {}
    <2>1. UNCHANGED <<mshr, drain_mshr, resp_q>>
      BY <1>2 DEF StepDrain, Draining
    <2>2. Shapes'
      BY <1>1, <2>1 DEF OwnerInv, Shapes, Phases
    <2> QED
      BY <1>1, <2>1, <2>2, OwnersKeep
  <1>3. CASE Draining # {}
    <2>1. PICK m \in Draining : m = IF drain_mshr # NoMshr THEN drain_mshr
                                                            ELSE Lowest(Draining)
      <3>1. Draining \in SUBSET Nat
        BY IdsAreNumbers DEF Draining
      <3>2. drain_mshr # NoMshr => drain_mshr \in Draining
        BY DEF OwnerInv, DrainIsOn, Shapes, Draining
      <3> QED
        BY <1>3, <3>1, <3>2, LowestIsIn
    <2>2. m \in MshrIds /\ mshr[m].valid /\ mshr[m].fill = "draining"
      BY DEF Draining
    <2> DEFINE ws == mshr[m].waiters
               r == Head(ws)
               v == IF r.write THEN 0 ELSE mshr[m].data[WordOf(r.addr)]
               e == IF MoreToDrain(m) THEN [mshr[m] EXCEPT !.waiters = Tail(ws)] ELSE FreeMshr
    <2>3. /\ resp_q' = Append(resp_q, Resp(r, v))
          /\ mshr' = [mshr EXCEPT ![m] = e]
          /\ drain_mshr' = IF MoreToDrain(m) THEN m ELSE NoMshr
      BY <1>3, <2>1 DEF StepDrain, Draining
    <2>4. /\ mshr \in [MshrIds -> MshrStates] /\ mshr[m] \in MshrStates
          /\ ws \in Seq(Reqs) /\ ws # <<>> /\ Len(ws) <= MaxWaiters
          /\ mshr[m].data \in LineData /\ resp_q \in Seq(Reqs)
      BY <2>2 DEF OwnerInv, Shapes, MshrStates, Waiters
    <2>5. r \in Reqs /\ Tail(ws) \in Seq(Reqs) /\ Len(Tail(ws)) = Len(ws) - 1 /\ Len(ws) \in Nat
      BY <2>4, HeadTailProperties, LenProperties
    <2>6. v \in Val
      <3>1. r.addr \in Words
        BY <2>5 DEF Reqs
      <3>2. mshr[m].data[WordOf(r.addr)] \in Val
        BY <2>4, <3>1, AddressFacts DEF LineData
      <3> QED
        BY <3>2, ConstantsArePositive
    <2>7. Resp(r, v) \in Reqs
      <3> HIDE DEF r, v
      <3> QED
        BY <2>5, <2>6 DEF Resp, Reqs
    <2>8. resp_q' \in Seq(Reqs)
      BY <2>3, <2>4, <2>7, AppendProperties
    <2>9. CASE MoreToDrain(m)
      <3>1. /\ e \in MshrStates /\ e.wb = mshr[m].wb /\ e.fill = mshr[m].fill
            /\ e.valid = mshr[m].valid /\ e.line = mshr[m].line /\ e.way = mshr[m].way
            /\ e.wb_line = mshr[m].wb_line /\ e.waiters = Tail(ws)
        <4>1. e = [mshr[m] EXCEPT !.waiters = Tail(ws)]
          BY <2>9
        <4> HIDE DEF e
        <4> QED
          BY <2>4, <2>5, <4>1, WaitersChange
      <3>2. Tail(ws) # <<>> /\ Len(Tail(ws)) <= MaxWaiters
        <4>1. Len(ws) > 1
          BY <2>9 DEF MoreToDrain
        <4> DEFINE n == Len(ws)
                   k == Len(Tail(ws))
        <4>2. n \in Nat /\ n > 1 /\ k = n - 1 /\ n <= MaxWaiters
          BY <2>4, <2>5, <4>1
        <4>3. Tail(ws) = <<>> => k = 0
          BY EmptySeq
        <4> HIDE DEF n, k
        <4>4. k # 0 /\ k <= MaxWaiters
          BY <4>2, ConstantsArePositive
        <4> QED
          BY <4>3, <4>4 DEF k
      <3> HIDE DEF e, ws
      <3>3. /\ mshr' \in [MshrIds -> MshrStates] /\ mshr'[m] = e
            /\ \A n \in MshrIds : n # m => mshr'[n] = mshr[n]
        BY <2>2, <2>3, <2>4, <3>1
      <3>4. drain_mshr' = m
        BY <2>3, <2>9
      <3>5. Shapes'
        BY <1>1, <2>2, <2>8, <3>3, <3>4 DEF OwnerInv, Shapes, Phases
      <3>6. SameOwners
        BY <1>1, <3>1, <3>3 DEF SameOwners
      <3>7. Waiters'
        <4>1. \A n \in MshrIds : /\ Len(mshr'[n].waiters) <= MaxWaiters
                                 /\ mshr'[n].valid <=> mshr'[n].waiters # <<>>
                                 /\ ~mshr'[n].valid => mshr'[n] = FreeMshr
          BY <2>2, <3>1, <3>2, <3>3 DEF OwnerInv, Waiters
        <4> QED
          BY <4>1 DEF Waiters
      <3>8. DrainIsOn'
        BY <2>2, <3>1, <3>3, <3>4 DEF DrainIsOn
      <3>9. Ranks'
        BY <1>1 DEF OwnerInv, Ranks
      <3> QED
        BY <1>1, <3>5, <3>6, <3>7, <3>8, <3>9, OwnersStay
    <2>10. CASE ~MoreToDrain(m)
      <3>1. mshr' = [mshr EXCEPT ![m] = FreeMshr] /\ drain_mshr' = NoMshr
        BY <2>3, <2>10
      <3>2. /\ mshr' \in [MshrIds -> MshrStates] /\ mshr'[m] = FreeMshr
            /\ \A n \in MshrIds : n # m => mshr'[n] = mshr[n]
        BY <2>2, <2>4, <3>1, EmptyStates
      <3>3. /\ FreeMshr.valid = FALSE /\ FreeMshr.waiters = <<>>
            /\ Len(FreeMshr.waiters) = 0
        BY DEF FreeMshr
      <3>4. Shapes' /\ Ranks'
        <4>1. Shapes'
          BY <1>1, <2>8, <3>1, <3>2 DEF OwnerInv, Shapes, Phases
        <4> QED
          BY <1>1, <4>1 DEF OwnerInv, Ranks
      <3>5. Waiters'
        <4>1. \A n \in MshrIds : /\ Len(mshr'[n].waiters) <= MaxWaiters
                                 /\ mshr'[n].valid <=> mshr'[n].waiters # <<>>
                                 /\ ~mshr'[n].valid => mshr'[n] = FreeMshr
          BY <3>2, <3>3, ConstantsArePositive DEF OwnerInv, Waiters
        <4> QED
          BY <4>1 DEF Waiters
      <3>6. \A n \in MshrIds : mshr'[n].valid => n # m /\ mshr'[n] = mshr[n]
        BY <3>2, <3>3
      <3>7. MissesDiffer'
        BY <3>6 DEF OwnerInv, MissesDiffer
      <3>8. \A n \in MshrIds : Fetching(n)' => Fetching(n) /\ mshr'[n] = mshr[n]
        BY <3>6 DEF Fetching
      <3>9. FetchesReserve' /\ LinesAreHome'
        BY <1>1, <3>8 DEF OwnerInv, FetchesReserve, LinesAreHome, Holds
      <3>10. DramServes'
        <4>1. dram.busy => dram.mshr \in MshrIds /\ dram.mshr # m
          BY <2>2 DEF OwnerInv, DramServes, MissesDiffer
        <4> QED
          BY <1>1, <3>2, <3>6, <4>1 DEF OwnerInv, DramServes
      <3>11. FetchesAreHome'
        <4>1. SUFFICES ASSUME NEW a \in MshrIds, NEW b \in MshrIds, mshr'[a].valid,
                              mshr'[a].fill \in {"sent", "ready"}
                       PROVE  ~EvictingNext(b, mshr'[a].line)
          BY DEF FetchesAreHome, Evicting, EvictingNext
        <4>2. EvictingNext(b, mshr'[a].line) => Evicting(b, mshr[a].line)
          BY <3>6, <4>1 DEF Evicting, EvictingNext
        <4> QED
          BY <3>6, <4>1, <4>2 DEF OwnerInv, FetchesAreHome
      <3>12. DrainIsOn'
        BY <3>1 DEF DrainIsOn
      <3> QED
        BY <3>4, <3>5, <3>7, <3>9, <3>10, <3>11, <3>12 DEF OwnerInv
    <2> QED
      BY <2>9, <2>10
  <1>4. QED
    BY <1>2, <1>3

-------------------------------------------------------------------------------
(* Every step.                                                             *)

(* The invariant is inductive.                                             *)
LEMMA OwnerNext == OwnerInv /\ [CacheNext]_vars => OwnerInv'
  <1> SUFFICES ASSUME OwnerInv, [CacheNext]_vars PROVE OwnerInv'
    OBVIOUS
  <1>1. ASSUME \/ \E a \in Words, v \in Val : NewStore(a, v)
               \/ \E l \in LoadIds, a \in Words : NewLoad(l, a)
               \/ \E l \in LoadIds : SquashLoad(l)
               \/ IssueStore
               \/ \E l \in LoadIds : IssueLoad(l)
               \/ EndIssue \/ ApplyResp
               \/ BeginTick \/ NoDramAccept \/ EndPipes \/ EndResps
        PROVE  OwnerInv'
    BY <1>1, ClientOwners
  <1>2. ASSUME NEW finished \in BOOLEAN, NEW hits \in SUBSET PortIds, DramTick(finished, hits)
        PROVE  OwnerInv'
    BY <1>2, DramTickOwners
  <1>3. CASE DramAccept
    BY <1>3, DramAcceptOwners
  <1>4. CASE ProcessPipe
    BY <1>4, ProcessPipeOwners
  <1>5. CASE CompleteFill
    BY <1>5, CompleteFillOwners
  <1>6. CASE StepDrain
    BY <1>6, StepDrainOwners
  <1>7. CASE UNCHANGED vars
    <2>1. Shapes'
      BY <1>7 DEF OwnerInv, Shapes, vars, clientVars, tableVars, portVars
    <2> QED
      BY <1>7, <2>1, OwnersKeep DEF vars, tableVars
  <1>8. QED
    BY <1>1, <1>2, <1>3, <1>4, <1>5, <1>6, <1>7 DEF CacheNext

(* In every state of the cache, every line has one owner at most, every    *)
(* register in use its line and, while it fetches, a way reserved for it.  *)
THEOREM CacheInvariant == CacheSpec => []OwnerInv
  <1> QED
    BY OwnerInit, OwnerNext, PTL DEF CacheSpec

(* The variables hold what they should: words in lines, the lru times of a *)
(* set all different, no waiting list longer than its bound, and none      *)
(* empty of a register in use.                                             *)
THEOREM CacheTypes == CacheSpec => []CacheTypeOK
  <1>1. OwnerInv => CacheTypeOK
    <2> SUFFICES ASSUME OwnerInv PROVE CacheTypeOK
      OBVIOUS
    <2>1. \A s \in SetIds, w \in WayIds : cache[s][w].data \in LineData
      BY DEF OwnerInv, Shapes, WayStates
    <2>2. \A s \in SetIds : lru[s] \in [WayIds -> WayIds] /\ IsInjective(lru[s])
      BY DEF OwnerInv, Shapes, Ranks, IsInjective
    <2>3. \A m \in MshrIds : /\ mshr[m].line \in Lines \cup {NoLine}
                             /\ mshr[m].valid <=> mshr[m].waiters # <<>>
                             /\ Len(mshr[m].waiters) <= MaxWaiters
      BY DEF OwnerInv, Shapes, MshrStates, Waiters
    <2> QED
      BY <2>1, <2>2, <2>3 DEF CacheTypeOK, OwnerInv, Shapes
  <1>2. QED
    BY <1>1, CacheInvariant, PTL

(* Two registers never fill the same way: the victim of a miss is never a  *)
(* way that findVictim has given to another.                               *)
THEOREM FillsGoToTheirOwnWays == CacheSpec => []ReservedWaysAreDistinct
  <1>1. OwnerInv => ReservedWaysAreDistinct
    BY DEF OwnerInv, FetchesReserve, Fetching, ReservedWaysAreDistinct
  <1>2. QED
    BY <1>1, CacheInvariant, PTL

(* A line is in one place: in one way at most, and in none while a         *)
(* register fetches it; it is not fetched twice at a time, nor read from   *)
(* memory while its write-back is on the way.                              *)
THEOREM LinesHaveOneOwner == CacheSpec => []LineHasOneOwner
  <1>1. OwnerInv => LineHasOneOwner
    <2> SUFFICES ASSUME OwnerInv, NEW line \in Lines
                 PROVE  /\ Cardinality(HitWays(SetOf(line), line))
                             + Cardinality({m \in MshrOf(line) : mshr[m].fill # "draining"}) <= 1
                        /\ \A m \in MshrOf(line) :
                             mshr[m].fill # "draining" /\ mshr[m].fill = "sent"
                             => WritingBack(line) = {}
      BY DEF LineHasOneOwner
    <2> DEFINE s == SetOf(line)
               holders == HitWays(s, line)
               fetches == {m \in MshrOf(line) : mshr[m].fill # "draining"}
    <2>1. s \in SetIds
      BY AddressFacts
    <2>2. \A v, w \in holders : v = w
      BY <2>1 DEF HitWays, OwnerInv, LinesAreHome, Holds
    <2>3. \A m, n \in fetches : m = n
      BY DEF MshrOf, OwnerInv, MissesDiffer
    <2>4. holders # {} => fetches = {}
      BY DEF HitWays, MshrOf, OwnerInv, FetchesReserve, Fetching, Holds
    <2>5. \A m \in fetches : mshr[m].fill = "sent" => WritingBack(line) = {}
      BY DEF MshrOf, WritingBack, OwnerInv, FetchesAreHome, Evicting
    <2> HIDE DEF holders, fetches
    <2>6. holders = {} \/ \E w : holders = {w}
      BY <2>2
    <2>7. fetches = {} \/ \E m : fetches = {m}
      BY <2>3
    <2>8. Cardinality({}) = 0 /\ \A x : Cardinality({x}) = 1
      BY FS_EmptySet, FS_Singleton
    <2>9. Cardinality(holders) + Cardinality(fetches) <= 1
      <3>1. CASE holders = {} /\ fetches = {}
        BY <2>8, <3>1
      <3>2. CASE holders = {} /\ fetches # {}
        BY <2>7, <2>8, <3>2
      <3>3. CASE holders # {} /\ fetches = {}
        BY <2>6, <2>8, <3>3
      <3> QED
        BY <2>4, <3>1, <3>2, <3>3
    <2> QED
      BY <2>5, <2>9 DEF holders, fetches
  <1>2. QED
    BY <1>1, CacheInvariant, PTL

-------------------------------------------------------------------------------
(* Every request is answered once: it is in exactly one place on its way,  *)
(* whatever holds it up, as long as the load/store queue waits for its     *)
(* answer.                                                                 *)

(* What the load/store queue tells answers apart by.                       *)
Key(r) == <<r.write, r.id, r.cookie>>

(* A port has one request at most, in its pipe or about to answer.         *)
PortsHaveOne == \A p \in PortIds : ~(pipe[p].valid /\ hit_pend[p].valid)

(* No request is in two places.                                            *)
RequestsDiffer == \A x, y \in InFlight : Key(x[4]) = Key(y[4]) => x = y

(* A store on its way has been sent and not been acknowledged; a load may  *)
(* be of an instruction that is gone, but never of one still to come.      *)
RequestsAreKnown ==
  \A x \in InFlight :
    IF x[4].write
      THEN x[4].id \in SbIds /\ x[4].cookie = 0 /\ sb[x[4].id].sent
      ELSE /\ x[4].id \in LoadIds /\ x[4].cookie <= load[x[4].id].gen
           /\ load[x[4].id].busy /\ ~load[x[4].id].sent =>
                x[4].cookie < load[x[4].id].gen

(* What the queue waits for is on its way.                                 *)
SentAreInFlight ==
  /\ \A i \in SbIds : sb[i].sent => \E x \in InFlight : Key(x[4]) = <<TRUE, i, 0>>
  /\ \A l \in LoadIds : load[l].busy /\ load[l].sent =>
       \E x \in InFlight : Key(x[4]) = <<FALSE, l, load[l].gen>>

(* The slots of the store buffer outside the ring are free.                *)
SlotsAreFree ==
  /\ \A i \in SbIds : sb[i].sent => sb[i].valid
  /\ \A i \in SbIds : sb[i].valid => \E k \in 0 .. sb_count - 1 : i = SbAt(k)

RequestInv ==
  /\ PortsHaveOne /\ RequestsDiffer /\ RequestsAreKnown /\ SentAreInFlight
  /\ SlotsAreFree

-------------------------------------------------------------------------------
(* Where requests are.                                                     *)

(* The places a request can be in.                                         *)
LEMMA InFlightCases ==
  \A x : x \in InFlight <=>
    \/ \E p \in PortIds : pipe[p].valid /\ x = <<"pipe", p, 0, pipe[p]>>
    \/ \E p \in PortIds : hit_pend[p].valid /\ x = <<"hit", p, 0, hit_pend[p]>>
    \/ \E i \in DOMAIN resp_q : x = <<"resp", 0, i, resp_q[i]>>
    \/ \E m \in MshrIds : \E i \in DOMAIN mshr[m].waiters :
         x = <<"miss", m, i, mshr[m].waiters[i]>>
  <1>1. \A x : x \in UNION {Waiting(m) : m \in MshrIds} <=>
          \E m \in MshrIds : \E i \in DOMAIN mshr[m].waiters :
            x = <<"miss", m, i, mshr[m].waiters[i]>>
    BY DEF Waiting
  <1>2. QED
    BY <1>1 DEF InFlight

(* The same after a step.                                                  *)
LEMMA InFlightCasesNext ==
  \A x : x \in InFlight' <=>
    \/ \E p \in PortIds : pipe'[p].valid /\ x = <<"pipe", p, 0, pipe'[p]>>
    \/ \E p \in PortIds : hit_pend'[p].valid /\ x = <<"hit", p, 0, hit_pend'[p]>>
    \/ \E i \in DOMAIN resp_q' : x = <<"resp", 0, i, resp_q'[i]>>
    \/ \E m \in MshrIds : \E i \in DOMAIN mshr'[m].waiters :
         x = <<"miss", m, i, mshr'[m].waiters[i]>>
  <1>1. \A x : x \in (UNION {Waiting(m) : m \in MshrIds})' <=>
          \E m \in MshrIds : \E i \in DOMAIN mshr'[m].waiters :
            x = <<"miss", m, i, mshr'[m].waiters[i]>>
    BY DEF Waiting
  <1>2. QED
    BY <1>1 DEF InFlight

(* What is in the cache are requests.                                      *)
LEMMA InFlightAreRequests ==
  ASSUME OwnerInv
  PROVE  \A x \in InFlight : x[4] \in Reqs
  <1> SUFFICES ASSUME NEW x \in InFlight PROVE x[4] \in Reqs
    OBVIOUS
  <1>1. ASSUME NEW p \in PortIds, x = <<"pipe", p, 0, pipe[p]>>
        PROVE  x[4] \in Reqs
    BY <1>1 DEF OwnerInv, Shapes
  <1>2. ASSUME NEW p \in PortIds, x = <<"hit", p, 0, hit_pend[p]>>
        PROVE  x[4] \in Reqs
    BY <1>2 DEF OwnerInv, Shapes
  <1>3. ASSUME NEW i \in DOMAIN resp_q, x = <<"resp", 0, i, resp_q[i]>>
        PROVE  x[4] \in Reqs
    <2>1. resp_q[i] \in Reqs
      BY ElementOfSeq, LenProperties DEF OwnerInv, Shapes
    <2> QED
      BY <1>3, <2>1
  <1>4. ASSUME NEW m \in MshrIds, NEW i \in DOMAIN mshr[m].waiters,
               x = <<"miss", m, i, mshr[m].waiters[i]>>
        PROVE  x[4] \in Reqs
    <2>1. mshr[m].waiters \in Seq(Reqs)
      BY DEF OwnerInv, Shapes, MshrStates
    <2>2. mshr[m].waiters[i] \in Reqs
      BY <2>1, ElementOfSeq, LenProperties
    <2> QED
      BY <1>4, <2>2
  <1>5. QED
    BY <1>1, <1>2, <1>3, <1>4, InFlightCases

(* Requests are where they were if no place has changed.                   *)
LEMMA RequestsStay ==
  ASSUME UNCHANGED <<pipe, hit_pend, resp_q>>,
         \A m \in MshrIds : mshr'[m].waiters = mshr[m].waiters
  PROVE  InFlight' = InFlight
  <1>1. \A x : x \in InFlight' <=> x \in InFlight
    BY InFlightCases, InFlightCasesNext
  <1>2. QED
    BY <1>1

(* They have moved if each is where one with its key has been, different   *)
(* ones from different places.                                             *)
Moved(g, old) ==
  /\ g \in [InFlight' -> old]
  /\ \A x \in InFlight' : Key(x[4]) = Key(g[x][4])
  /\ \A x, y \in InFlight' : g[x] = g[y] => x = y
  /\ \A y \in old : \E x \in InFlight' : Key(x[4]) = Key(y[4])

(* Requests that only move stay different.                                 *)
LEMMA MovedDiffer ==
  ASSUME RequestsDiffer, NEW old \in SUBSET InFlight, NEW g, Moved(g, old)
  PROVE  RequestsDiffer'
  <1>1. SUFFICES ASSUME NEW x \in InFlight', NEW y \in InFlight', Key(x[4]) = Key(y[4])
                 PROVE  x = y
    BY DEF RequestsDiffer, Key
  <1>2. g[x] \in InFlight /\ g[y] \in InFlight
    BY DEF Moved
  <1>3. Key(g[x][4]) = Key(g[y][4])
    BY <1>1 DEF Moved
  <1>4. g[x] = g[y]
    BY <1>2, <1>3 DEF RequestsDiffer
  <1>5. QED
    BY <1>4 DEF Moved

(* Requests with equal keys are of the same store, or of the same owner    *)
(* of a load entry.                                                        *)
LEMMA KeyFields ==
  ASSUME NEW r, NEW q, Key(r) = Key(q)
  PROVE  r.write = q.write /\ r.id = q.id /\ r.cookie = q.cookie
  BY DEF Key

(* When requests only move, the queue's side is unchanged.                 *)
LEMMA MovesKeepRequests ==
  ASSUME RequestInv, NEW g, Moved(g, InFlight), PortsHaveOne',
         UNCHANGED <<sb, sb_head, sb_count, load>>
  PROVE  RequestInv'
  <1>1. RequestsDiffer'
    BY MovedDiffer DEF RequestInv
  <1>2. RequestsAreKnown'
    <2>1. SUFFICES ASSUME NEW x \in InFlight'
                   PROVE  IF x[4].write
                            THEN x[4].id \in SbIds /\ x[4].cookie = 0 /\ sb[x[4].id].sent
                            ELSE /\ x[4].id \in LoadIds /\ x[4].cookie <= load[x[4].id].gen
                                 /\ load[x[4].id].busy /\ ~load[x[4].id].sent =>
                                      x[4].cookie < load[x[4].id].gen
      BY DEF RequestsAreKnown
    <2>2. g[x] \in InFlight /\ Key(x[4]) = Key(g[x][4])
      BY DEF Moved
    <2>3. /\ x[4].write = g[x][4].write /\ x[4].id = g[x][4].id
          /\ x[4].cookie = g[x][4].cookie
      BY <2>2, KeyFields
    <2> QED
      BY <2>2, <2>3 DEF RequestInv, RequestsAreKnown
  <1>3. SentAreInFlight'
    <2>1. \A k : (\E y \in InFlight : Key(y[4]) = k) => \E x \in InFlight' : Key(x[4]) = k
      BY DEF Moved
    <2>2. \A i \in SbIds : sb'[i].sent => \E x \in InFlight' : Key(x[4]) = <<TRUE, i, 0>>
      BY <2>1 DEF RequestInv, SentAreInFlight
    <2>3. \A l \in LoadIds : load'[l].busy /\ load'[l].sent =>
            \E x \in InFlight' : Key(x[4]) = <<FALSE, l, load'[l].gen>>
      BY <2>1 DEF RequestInv, SentAreInFlight
    <2> QED
      BY <2>2, <2>3 DEF SentAreInFlight, Key
  <1>4. SlotsAreFree'
    BY DEF RequestInv, SlotsAreFree, SbAt
  <1>5. QED
    BY <1>1, <1>2, <1>3, <1>4 DEF RequestInv

(* One request has moved from a to b.                                      *)
LEMMA OneMoves ==
  ASSUME RequestInv, NEW a \in InFlight, NEW b, b \notin InFlight \ {a},
         Key(a[4]) = Key(b[4]), InFlight' = (InFlight \ {a}) \cup {b}, PortsHaveOne',
         UNCHANGED <<sb, sb_head, sb_count, load>>
  PROVE  RequestInv'
  <1>1. PICK g \in [InFlight' -> InFlight] : g = [x \in InFlight' |-> IF x = b THEN a ELSE x]
    OBVIOUS
  <1>2. \A x \in InFlight' : Key(x[4]) = Key(g[x][4])
    BY <1>1
  <1>3. \A x, y \in InFlight' : g[x] = g[y] => x = y
    BY <1>1
  <1>4. \A y \in InFlight : \E x \in InFlight' : Key(x[4]) = Key(y[4])
    OBVIOUS
  <1>5. Moved(g, InFlight)
    BY <1>2, <1>3, <1>4 DEF Moved
  <1>6. QED
    BY <1>5, MovesKeepRequests

(* Steps that touch neither the places nor the queue.                      *)
LEMMA NothingMoves ==
  ASSUME RequestInv, UNCHANGED <<sb, sb_head, sb_count, load, pipe, hit_pend, resp_q>>,
         \A m \in MshrIds : mshr'[m].waiters = mshr[m].waiters
  PROVE  RequestInv'
  <1>1. InFlight' = InFlight
    BY RequestsStay
  <1>2. PortsHaveOne' /\ RequestsDiffer'
    BY <1>1 DEF RequestInv, PortsHaveOne, RequestsDiffer, Key
  <1>3. RequestsAreKnown'
    BY <1>1 DEF RequestInv, RequestsAreKnown
  <1>4. SentAreInFlight'
    BY <1>1 DEF RequestInv, SentAreInFlight, Key
  <1>5. SlotsAreFree'
    BY DEF RequestInv, SlotsAreFree, SbAt
  <1>6. QED
    BY <1>2, <1>3, <1>4, <1>5 DEF RequestInv

-------------------------------------------------------------------------------
(* At first, and in the steps of the cache.                                *)

(* The empty cache satisfies the invariant.                                *)
LEMMA RequestInit == CacheInit => RequestInv
  <1> SUFFICES ASSUME CacheInit PROVE RequestInv
    OBVIOUS
  <1>1. \A p \in PortIds : ~pipe[p].valid /\ ~hit_pend[p].valid
    BY DEF CacheInit, NoReq
  <1>2. resp_q = <<>> /\ \A m \in MshrIds : mshr[m].waiters = <<>>
    BY DEF CacheInit, FreeMshr
  <1>3. \A x : x \notin InFlight
    BY <1>1, <1>2, InFlightCases
  <1>4. \A i \in SbIds : ~sb[i].sent /\ ~sb[i].valid
    BY DEF CacheInit, FreeSb
  <1>5. \A l \in LoadIds : ~load[l].busy
    BY DEF CacheInit, FreeLoad
  <1>6. PortsHaveOne /\ RequestsDiffer /\ RequestsAreKnown
    BY <1>1, <1>3 DEF PortsHaveOne, RequestsDiffer, RequestsAreKnown
  <1>7. SentAreInFlight /\ SlotsAreFree
    BY <1>4, <1>5 DEF SentAreInFlight, SlotsAreFree
  <1>8. QED
    BY <1>6, <1>7 DEF RequestInv

(* Steps that move no request keep the invariant.                          *)
LEMMA QuietRequests ==
  ASSUME OwnerInv, RequestInv,
         \/ BeginTick \/ DramAccept \/ NoDramAccept \/ EndPipes \/ CompleteFill
         \/ EndResps \/ UNCHANGED vars
  PROVE  RequestInv'
  <1>1. UNCHANGED <<sb, sb_head, sb_count, load, pipe, hit_pend, resp_q>>
    BY DEF BeginTick, DramAccept, NoDramAccept, EndPipes, CompleteFill, EndResps, vars,
           clientVars, portVars
  <1>2. mshr \in [MshrIds -> MshrStates]
    BY DEF OwnerInv, Shapes
  <1>3. \A m \in MshrIds : mshr'[m].waiters = mshr[m].waiters
    <2>1. CASE DramAccept
      <3>1. PICK d \in MshrIds : d = DramPick
        BY <2>1, DramPickFacts DEF DramAccept
      <3>2. \/ mshr' = [mshr EXCEPT ![d] = [mshr[d] EXCEPT !.wb = "sent"]]
            \/ mshr' = [mshr EXCEPT ![d] = [mshr[d] EXCEPT !.fill = "sent"]]
        BY <2>1, <3>1 DEF DramAccept
      <3>3. "sent" \in WbStates /\ "sent" \in FillStates
        BY DEF WbStates, FillStates
      <3>4. /\ [mshr[d] EXCEPT !.wb = "sent"].waiters = mshr[d].waiters
            /\ [mshr[d] EXCEPT !.fill = "sent"].waiters = mshr[d].waiters
        BY <1>2, <3>3, MshrChange
      <3>5. mshr'[d].waiters = mshr[d].waiters /\ \A m \in MshrIds : m # d => mshr'[m] = mshr[m]
        BY <1>2, <3>2, <3>4
      <3> QED
        BY <3>5
    <2>2. CASE CompleteFill
      <3>1. PICK d \in MshrIds : d = Lowest(FillReady)
        <4>1. FillReady \in SUBSET Nat
          BY IdsAreNumbers DEF FillReady
        <4> QED
          BY <2>2, <4>1, LowestIsIn DEF CompleteFill, FillReady
      <3> DEFINE f == [mshr[d] EXCEPT !.fill = "draining"]
                 e == [f EXCEPT !.data = Filled(d)]
      <3>2. mshr' = [mshr EXCEPT ![d] = e]
        BY <2>2, <3>1 DEF CompleteFill
      <3>3. Filled(d) \in LineData /\ "draining" \in FillStates
        BY FilledIsALine DEF OwnerInv, FillStates
      <3>4. f \in MshrStates /\ f.waiters = mshr[d].waiters
        BY <1>2, <3>3, MshrChange
      <3>5. e.waiters = mshr[d].waiters
        <4> HIDE DEF f
        <4> QED
          BY <3>3, <3>4, MshrChange
      <3> HIDE DEF e, f
      <3> QED
        BY <1>2, <3>2, <3>5
    <2>3. CASE ~DramAccept /\ ~CompleteFill
      BY <2>3 DEF BeginTick, NoDramAccept, EndPipes, EndResps, vars, tableVars
    <2> QED
      BY <2>1, <2>2, <2>3
  <1>4. QED
    BY <1>1, <1>3, NothingMoves

(* Every port of hits has its place among the answers.                     *)
LEMMA EveryPortAnswers ==
  ASSUME NEW S \in SUBSET PortIds
  PROVE  /\ Cardinality(S) \in Nat
         /\ \A i, j \in 1 .. Cardinality(S) : NthPort(S, i) = NthPort(S, j) => i = j
         /\ \A p \in S : \E i \in 1 .. Cardinality(S) : NthPort(S, i) = p
  <1> DEFINE Below(p) == {q \in S : q < p}
  <1>1. IsFiniteSet(S) /\ Cardinality(S) \in Nat /\ S \subseteq Nat
    <2>1. IsFiniteSet(PortIds)
      BY FS_Interval, ConstantsArePositive DEF PortIds
    <2> QED
      BY <2>1, FS_Subset, FS_CardinalityType, IdsAreNumbers
  <1>2. \A i \in 1 .. Cardinality(S) :
          NthPort(S, i) \in S /\ Cardinality(Below(NthPort(S, i))) = i - 1
    BY NthPortExists
  <1>3. \A p, q \in S : q \in Below(p) <=> q < p
    OBVIOUS
  <1>4. \A p \in S : Below(p) \in SUBSET S
    OBVIOUS
  <1> HIDE DEF Below
  <1>5. \A p \in S : /\ IsFiniteSet(Below(p)) /\ Cardinality(Below(p)) \in Nat
                     /\ Cardinality(Below(p)) < Cardinality(S)
    <2> SUFFICES ASSUME NEW p \in S
                 PROVE  /\ IsFiniteSet(Below(p)) /\ Cardinality(Below(p)) \in Nat
                        /\ Cardinality(Below(p)) < Cardinality(S)
      OBVIOUS
    <2>1. /\ IsFiniteSet(Below(p)) /\ Cardinality(Below(p)) <= Cardinality(S)
          /\ Cardinality(S) = Cardinality(Below(p)) => S = Below(p)
      BY <1>1, <1>4, FS_Subset
    <2>2. p \notin Below(p)
      BY <1>1, <1>3
    <2>3. Cardinality(Below(p)) \in Nat
      BY <2>1, FS_CardinalityType
    <2> QED
      BY <1>1, <2>1, <2>2, <2>3
  <1>6. \A p, q \in S : Cardinality(Below(p)) = Cardinality(Below(q)) => p = q
    <2>1. ASSUME NEW p \in S, NEW q \in S, p < q
          PROVE  Cardinality(Below(p)) # Cardinality(Below(q))
      <3>1. \A r \in S : r < p => r < q
        BY <1>1, <2>1
      <3>2. Below(p) \in SUBSET Below(q)
        BY <1>3, <1>4, <3>1
      <3>3. p \in Below(q) /\ p \notin Below(p)
        BY <1>1, <1>3, <2>1
      <3> QED
        BY <1>5, <3>2, <3>3, FS_Subset
    <2>2. \A p, q \in S : p = q \/ p < q \/ q < p
      BY <1>1
    <2> QED
      BY <2>1, <2>2
  <1>7. \A p \in S : \E i \in 1 .. Cardinality(S) : NthPort(S, i) = p
    <2> SUFFICES ASSUME NEW p \in S
                 PROVE  \E i \in 1 .. Cardinality(S) : NthPort(S, i) = p
      OBVIOUS
    <2>1. PICK k \in Nat : k = Cardinality(Below(p)) /\ k < Cardinality(S)
      BY <1>5
    <2>2. PICK i \in 1 .. Cardinality(S) : i = k + 1
      BY <1>1, <2>1
    <2>3. i - 1 = Cardinality(Below(p))
      BY <2>1, <2>2
    <2> QED
      BY <1>2, <1>6, <2>3
  <1>8. \A i, j \in 1 .. Cardinality(S) : NthPort(S, i) = NthPort(S, j) => i = j
    <2> SUFFICES ASSUME NEW i \in 1 .. Cardinality(S), NEW j \in 1 .. Cardinality(S),
                        NthPort(S, i) = NthPort(S, j)
                 PROVE  i = j
      OBVIOUS
    <2>1. i - 1 = j - 1
      BY <1>2
    <2> QED
      BY <1>1, <2>1
  <1>9. QED
    BY <1>1, <1>7, <1>8

(* Load hits that have waited long enough answer.                          *)
LEMMA DramTickRequests ==
  ASSUME OwnerInv, RequestInv, NEW finished \in BOOLEAN, NEW hits \in SUBSET PortIds,
         DramTick(finished, hits)
  PROVE  RequestInv'
  <1> DEFINE n == Len(resp_q)
             c == Cardinality(hits)
  <1>1. UNCHANGED <<sb, sb_head, sb_count, load, pipe>>
    BY DEF DramTick, clientVars
  <1>2. \A m \in MshrIds : mshr'[m].waiters = mshr[m].waiters
    <2>1. mshr \in [MshrIds -> MshrStates] /\ (finished => dram.mshr \in MshrIds)
      BY DEF OwnerInv, Shapes, DramServes, DramTick
    <2>2. CASE ~finished
      BY <2>2 DEF DramTick
    <2>3. CASE finished
      <3>1. PICK d \in MshrIds : d = dram.mshr
        BY <2>1, <2>3
      <3>2. mshr[d] \in MshrStates
        BY <2>1
      <3>3. \/ mshr' = [mshr EXCEPT ![d].wb = "done"]
            \/ mshr' = [mshr EXCEPT ![d].fill = "ready", ![d].data = dram.data]
        BY <2>3, <3>1 DEF DramTick, MshrAfterDram
      <3>4. CASE mshr' = [mshr EXCEPT ![d].wb = "done"]
        BY <2>1, <3>2, <3>4 DEF MshrStates
      <3>5. CASE mshr' = [mshr EXCEPT ![d].fill = "ready", ![d].data = dram.data]
        BY <2>1, <3>2, <3>5 DEF MshrStates
      <3> QED
        BY <3>3, <3>4, <3>5
    <2> QED
      BY <2>2, <2>3
  <1>3. /\ resp_q \in Seq(Reqs) /\ HitAnswers(hits) \in Seq(Reqs)
        /\ resp_q' = resp_q \o HitAnswers(hits)
    BY HitAnswersAreRequests DEF OwnerInv, Shapes, DramTick, HitAnswers
  <1>4. n \in Nat /\ c \in Nat /\ DOMAIN resp_q = 1 .. n
    BY <1>3, LenProperties, EveryPortAnswers
  <1>5. /\ Len(HitAnswers(hits)) = c
        /\ \A i \in 1 .. c : HitAnswers(hits)[i] = hit_pend[NthPort(hits, i)]
    BY <1>4 DEF HitAnswers
  <1>6. DOMAIN resp_q' = 1 .. n + c /\ \A i \in 1 .. n + c :
          resp_q'[i] = IF i <= n THEN resp_q[i] ELSE hit_pend[NthPort(hits, i - n)]
    <2>1. Len(resp_q') = n + c /\ resp_q' \in Seq(Reqs)
      BY <1>3, <1>5, ConcatProperties
    <2>2. DOMAIN resp_q' = 1 .. n + c
      BY <2>1, LenProperties
    <2>3. \A i \in 1 .. n + c :
            resp_q'[i] = IF i <= n THEN resp_q[i] ELSE HitAnswers(hits)[i - n]
      BY <1>3, <1>5, ConcatProperties
    <2>4. \A i \in 1 .. n + c : ~(i <= n) => i - n \in 1 .. c
      BY <1>4
    <2> QED
      BY <1>5, <2>2, <2>3, <2>4
  <1>7. \A p \in PortIds : hit_pend'[p] = IF p \in hits THEN NoReq ELSE hit_pend[p]
    BY DEF DramTick
  <1>8. \A p \in hits : hit_pend[p].valid
    BY DEF DramTick
  <1>9. ~NoReq.valid
    BY DEF NoReq
  <1> DEFINE F(x) == IF x[1] = "resp" /\ x[3] > n
                       THEN <<"hit", NthPort(hits, x[3] - n), 0, x[4]>> ELSE x
  <1>10. \A i \in 1 .. n + c : i > n =>
           /\ i - n \in 1 .. c /\ NthPort(hits, i - n) \in hits
           /\ resp_q'[i] = hit_pend[NthPort(hits, i - n)]
    <2>1. \A i \in 1 .. n + c : i > n => i - n \in 1 .. c /\ ~(i <= n)
      BY <1>4
    <2> QED
      BY <1>6, <2>1, NthPortExists
  <1>11. \A x \in InFlight' :
           \/ F(x) = x /\ x \in InFlight /\ (x[1] = "hit" => x[2] \notin hits)
           \/ \E i \in 1 .. n + c :
                /\ i > n /\ x = <<"resp", 0, i, hit_pend[NthPort(hits, i - n)]>>
                /\ F(x) = <<"hit", NthPort(hits, i - n), 0, hit_pend[NthPort(hits, i - n)]>>
    <2> SUFFICES ASSUME NEW x \in InFlight'
                 PROVE  \/ F(x) = x /\ x \in InFlight /\ (x[1] = "hit" => x[2] \notin hits)
                        \/ \E i \in 1 .. n + c :
                             /\ i > n /\ x = <<"resp", 0, i, hit_pend[NthPort(hits, i - n)]>>
                             /\ F(x) = <<"hit", NthPort(hits, i - n), 0,
                                         hit_pend[NthPort(hits, i - n)]>>
      OBVIOUS
    <2>1. CASE \E p \in PortIds : pipe'[p].valid /\ x = <<"pipe", p, 0, pipe'[p]>>
      BY <1>1, <2>1, InFlightCases
    <2>2. CASE \E p \in PortIds : hit_pend'[p].valid /\ x = <<"hit", p, 0, hit_pend'[p]>>
      BY <1>7, <1>9, <2>2, InFlightCases
    <2>3. CASE \E i \in DOMAIN resp_q' : x = <<"resp", 0, i, resp_q'[i]>>
      <3>1. PICK i \in 1 .. n + c : x = <<"resp", 0, i, resp_q'[i]>>
        BY <1>6, <2>3
      <3>2. CASE i > n
        BY <1>10, <3>1, <3>2
      <3>3. CASE ~(i > n)
        <4>1. i \in DOMAIN resp_q /\ resp_q'[i] = resp_q[i]
          BY <1>4, <1>6, <3>3
        <4> QED
          BY <3>1, <3>3, <4>1, InFlightCases
      <3> QED
        BY <3>2, <3>3
    <2>4. CASE \E m \in MshrIds : \E i \in DOMAIN mshr'[m].waiters :
                 x = <<"miss", m, i, mshr'[m].waiters[i]>>
      <3>1. \E m \in MshrIds : \E i \in DOMAIN mshr[m].waiters :
              x = <<"miss", m, i, mshr[m].waiters[i]>>
        BY <1>2, <2>4
      <3> QED
        BY <3>1, InFlightCases
    <2> QED
      BY <2>1, <2>2, <2>3, <2>4, InFlightCasesNext
  <1>12. \A i \in 1 .. n + c : i > n =>
           <<"hit", NthPort(hits, i - n), 0, hit_pend[NthPort(hits, i - n)]>> \in InFlight
    BY <1>8, <1>10, InFlightCases
  <1>13. \A i, j \in 1 .. n + c : i > n /\ j > n /\ NthPort(hits, i - n) = NthPort(hits, j - n)
           => i = j
    <2> SUFFICES ASSUME NEW i \in 1 .. n + c, NEW j \in 1 .. n + c, i > n, j > n,
                        NthPort(hits, i - n) = NthPort(hits, j - n)
                 PROVE  i = j
      OBVIOUS
    <2>1. i - n = j - n
      BY <1>10, EveryPortAnswers
    <2> QED
      BY <1>4, <2>1
  <1> HIDE DEF F
  <1>14. \A x \in InFlight' : F(x) \in InFlight /\ Key(x[4]) = Key(F(x)[4])
    BY <1>11, <1>12
  <1>15. \A x, y \in InFlight' : F(x) = F(y) => x = y
    <2> SUFFICES ASSUME NEW x \in InFlight', NEW y \in InFlight', F(x) = F(y)
                 PROVE  x = y
      OBVIOUS
    <2> DEFINE Stays(z) == F(z) = z /\ z \in InFlight /\ (z[1] = "hit" => z[2] \notin hits)
               Answered(z, i) ==
                 /\ i > n /\ z = <<"resp", 0, i, hit_pend[NthPort(hits, i - n)]>>
                 /\ F(z) = <<"hit", NthPort(hits, i - n), 0, hit_pend[NthPort(hits, i - n)]>>
    <2>1. CASE Stays(x) /\ Stays(y)
      BY <2>1
    <2>2. ASSUME NEW i \in 1 .. n + c, Answered(x, i), Stays(y) PROVE FALSE
      BY <1>10, <2>2
    <2>3. ASSUME NEW i \in 1 .. n + c, Answered(y, i), Stays(x) PROVE FALSE
      BY <1>10, <2>3
    <2>4. ASSUME NEW i \in 1 .. n + c, NEW j \in 1 .. n + c, Answered(x, i), Answered(y, j)
          PROVE  x = y
      <3>1. NthPort(hits, i - n) = NthPort(hits, j - n)
        BY <2>4
      <3> QED
        BY <1>13, <2>4, <3>1
    <2> QED
      BY <1>11, <2>1, <2>2, <2>3, <2>4
  <1>16. \A y \in InFlight : \E x \in InFlight' : Key(x[4]) = Key(y[4])
    <2> SUFFICES ASSUME NEW y \in InFlight PROVE \E x \in InFlight' : x[4] = y[4]
      OBVIOUS
    <2>1. CASE \E p \in PortIds : pipe[p].valid /\ y = <<"pipe", p, 0, pipe[p]>>
      <3>1. y \in InFlight'
        BY <1>1, <2>1, InFlightCasesNext
      <3> QED
        BY <3>1
    <2>2. CASE \E p \in PortIds : hit_pend[p].valid /\ y = <<"hit", p, 0, hit_pend[p]>>
      <3>1. PICK p \in PortIds : hit_pend[p].valid /\ y = <<"hit", p, 0, hit_pend[p]>>
        BY <2>2
      <3>2. CASE p \in hits
        <4>1. PICK k \in 1 .. c : NthPort(hits, k) = p
          BY <3>2, EveryPortAnswers
        <4>2. n + k \in 1 .. n + c /\ n + k > n /\ (n + k) - n = k
          BY <1>4
        <4>3. resp_q'[n + k] = hit_pend[p]
          BY <1>10, <4>1, <4>2
        <4>4. <<"resp", 0, n + k, resp_q'[n + k]>> \in InFlight'
          BY <1>6, <4>2, InFlightCasesNext
        <4> QED
          BY <3>1, <4>3, <4>4
      <3>3. CASE p \notin hits
        <4>1. y \in InFlight'
          BY <1>7, <3>1, <3>3, InFlightCasesNext
        <4> QED
          BY <4>1
      <3> QED
        BY <3>2, <3>3
    <2>3. CASE \E i \in DOMAIN resp_q : y = <<"resp", 0, i, resp_q[i]>>
      <3>1. PICK i \in 1 .. n : y = <<"resp", 0, i, resp_q[i]>>
        BY <1>4, <2>3
      <3>2. i \in 1 .. n + c /\ i <= n
        BY <1>4
      <3>3. resp_q'[i] = resp_q[i]
        BY <1>6, <3>2
      <3>4. y \in InFlight'
        BY <1>6, <3>1, <3>2, <3>3, InFlightCasesNext
      <3> QED
        BY <3>4
    <2>4. CASE \E m \in MshrIds : \E i \in DOMAIN mshr[m].waiters :
                 y = <<"miss", m, i, mshr[m].waiters[i]>>
      <3>1. \E m \in MshrIds : \E i \in DOMAIN mshr'[m].waiters :
              y = <<"miss", m, i, mshr'[m].waiters[i]>>
        BY <1>2, <2>4
      <3>2. y \in InFlight'
        BY <3>1, InFlightCasesNext
      <3> QED
        BY <3>2
    <2> QED
      BY <2>1, <2>2, <2>3, <2>4, InFlightCases
  <1>17. PICK g \in [InFlight' -> InFlight] : g = [x \in InFlight' |-> F(x)]
    BY <1>14
  <1>18. Moved(g, InFlight)
    BY <1>14, <1>15, <1>16, <1>17 DEF Moved
  <1>19. PortsHaveOne'
    BY <1>1, <1>7, <1>9 DEF RequestInv, PortsHaveOne
  <1>20. QED
    BY <1>1, <1>18, <1>19, MovesKeepRequests

(* The request of a port goes to the end of a register's list.             *)
LEMMA PipeToMshr ==
  ASSUME OwnerInv, RequestInv, NEW p \in PortIds, NEW m \in MshrIds, pipe[p].valid,
         pipe' = [pipe EXCEPT ![p] = NoReq],
         mshr'[m].waiters = Append(mshr[m].waiters, pipe[p]),
         \A k \in MshrIds : k # m => mshr'[k].waiters = mshr[k].waiters,
         UNCHANGED <<hit_pend, resp_q, sb, sb_head, sb_count, load>>
  PROVE  RequestInv'
  <1> DEFINE n == Len(mshr[m].waiters)
             a == <<"pipe", p, 0, pipe[p]>>
             b == <<"miss", m, n + 1, pipe[p]>>
  <1>1. mshr[m].waiters \in Seq(Reqs) /\ pipe[p] \in Reqs /\ pipe \in [PortIds -> Reqs]
    BY DEF OwnerInv, Shapes, MshrStates
  <1>2. /\ n \in Nat /\ DOMAIN mshr[m].waiters = 1 .. n /\ DOMAIN mshr'[m].waiters = 1 .. n + 1
        /\ mshr'[m].waiters[n + 1] = pipe[p]
        /\ \A i \in 1 .. n : mshr'[m].waiters[i] = mshr[m].waiters[i]
    <2>1. /\ Append(mshr[m].waiters, pipe[p]) \in Seq(Reqs)
          /\ Len(Append(mshr[m].waiters, pipe[p])) = n + 1
      BY <1>1, AppendProperties
    <2> QED
      BY <1>1, <2>1, AppendProperties, LenProperties
  <1>3. \A i \in 1 .. n + 1 : i \in 1 .. n \/ i = n + 1
    BY <1>2
  <1>4. ~NoReq.valid /\ \A q \in PortIds : pipe'[q] = IF q = p THEN NoReq ELSE pipe[q]
    BY <1>1 DEF NoReq
  <1>5. a \in InFlight
    BY InFlightCases
  <1>6. n + 1 \notin 1 .. n /\ n + 1 \in 1 .. n + 1 /\ 1 .. n \subseteq 1 .. n + 1
    BY <1>2
  <1> HIDE DEF n
  <1>7. b \notin InFlight
    BY <1>2, <1>6, InFlightCases
  <1>8. \A x : x \in InFlight' => x \in (InFlight \ {a}) \cup {b}
    <2> SUFFICES ASSUME NEW x \in InFlight' PROVE x = b \/ (x \in InFlight /\ x # a)
      OBVIOUS
    <2>1. CASE \E q \in PortIds : pipe'[q].valid /\ x = <<"pipe", q, 0, pipe'[q]>>
      BY <1>4, <2>1, InFlightCases
    <2>2. CASE \E q \in PortIds : hit_pend'[q].valid /\ x = <<"hit", q, 0, hit_pend'[q]>>
      BY <2>2, InFlightCases
    <2>3. CASE \E i \in DOMAIN resp_q' : x = <<"resp", 0, i, resp_q'[i]>>
      BY <2>3, InFlightCases
    <2>4. CASE \E k \in MshrIds : \E i \in DOMAIN mshr'[k].waiters :
                 x = <<"miss", k, i, mshr'[k].waiters[i]>>
      <3>1. PICK k \in MshrIds : \E i \in DOMAIN mshr'[k].waiters :
                 x = <<"miss", k, i, mshr'[k].waiters[i]>>
        BY <2>4
      <3>2. CASE k # m
        BY <3>1, <3>2, InFlightCases
      <3>3. CASE k = m
        <4>1. PICK i \in 1 .. n + 1 : x = <<"miss", m, i, mshr'[m].waiters[i]>>
          BY <1>2, <3>1, <3>3
        <4> QED
          BY <1>2, <1>3, <4>1, InFlightCases
      <3> QED
        BY <3>2, <3>3
    <2> QED
      BY <2>1, <2>2, <2>3, <2>4, InFlightCasesNext
  <1>9. \A x : x \in (InFlight \ {a}) \cup {b} => x \in InFlight'
    <2>1. b \in InFlight'
      BY <1>2, <1>6, InFlightCasesNext
    <2> SUFFICES ASSUME NEW x \in InFlight, x # a PROVE x \in InFlight'
      BY <2>1
    <2>2. CASE \E q \in PortIds : pipe[q].valid /\ x = <<"pipe", q, 0, pipe[q]>>
      BY <1>4, <2>2, InFlightCasesNext
    <2>3. CASE \E q \in PortIds : hit_pend[q].valid /\ x = <<"hit", q, 0, hit_pend[q]>>
      BY <2>3, InFlightCasesNext
    <2>4. CASE \E i \in DOMAIN resp_q : x = <<"resp", 0, i, resp_q[i]>>
      BY <2>4, InFlightCasesNext
    <2>5. CASE \E k \in MshrIds : \E i \in DOMAIN mshr[k].waiters :
                 x = <<"miss", k, i, mshr[k].waiters[i]>>
      BY <1>2, <1>6, <2>5, InFlightCasesNext
    <2> QED
      BY <2>2, <2>3, <2>4, <2>5, InFlightCases
  <1>10. InFlight' = (InFlight \ {a}) \cup {b}
    BY <1>8, <1>9
  <1>11. PortsHaveOne'
    BY <1>4 DEF RequestInv, PortsHaveOne
  <1>12. Key(a[4]) = Key(b[4])
    OBVIOUS
  <1> HIDE DEF a, b
  <1>13. QED
    BY <1>5, <1>7, <1>10, <1>11, <1>12, OneMoves

(* A store that hits is answered at once.                                  *)
LEMMA PipeToResp ==
  ASSUME OwnerInv, RequestInv, NEW p \in PortIds, pipe[p].valid,
         pipe' = [pipe EXCEPT ![p] = NoReq],
         resp_q' = Append(resp_q, Resp(pipe[p], 0)),
         UNCHANGED <<hit_pend, mshr, sb, sb_head, sb_count, load>>
  PROVE  RequestInv'
  <1> DEFINE n == Len(resp_q)
             r == Resp(pipe[p], 0)
             a == <<"pipe", p, 0, pipe[p]>>
             b == <<"resp", 0, n + 1, r>>
  <1>1. resp_q \in Seq(Reqs) /\ pipe[p] \in Reqs /\ pipe \in [PortIds -> Reqs]
    BY DEF OwnerInv, Shapes
  <1>2. r \in Reqs /\ Key(r) = Key(pipe[p])
    BY <1>1, ConstantsArePositive DEF Resp, Reqs, Key
  <1> HIDE DEF r
  <1>3. /\ n \in Nat /\ DOMAIN resp_q = 1 .. n /\ DOMAIN resp_q' = 1 .. n + 1
        /\ resp_q'[n + 1] = r
        /\ \A i \in 1 .. n : resp_q'[i] = resp_q[i]
    <2>1. resp_q' = Append(resp_q, r) /\ resp_q' \in Seq(Reqs) /\ Len(resp_q') = n + 1
      BY <1>1, <1>2, AppendProperties DEF r
    <2> QED
      BY <1>1, <1>2, <2>1, AppendProperties, LenProperties
  <1>4. \A i \in 1 .. n + 1 : i \in 1 .. n \/ i = n + 1
    BY <1>3
  <1>5. ~NoReq.valid /\ \A q \in PortIds : pipe'[q] = IF q = p THEN NoReq ELSE pipe[q]
    BY <1>1 DEF NoReq
  <1>6. a \in InFlight
    BY InFlightCases
  <1>7. n + 1 \notin 1 .. n /\ n + 1 \in 1 .. n + 1 /\ 1 .. n \subseteq 1 .. n + 1
    BY <1>3
  <1> HIDE DEF n
  <1>8. b \notin InFlight
    BY <1>3, <1>7, InFlightCases
  <1>9. \A x : x \in InFlight' => x \in (InFlight \ {a}) \cup {b}
    <2> SUFFICES ASSUME NEW x \in InFlight' PROVE x = b \/ (x \in InFlight /\ x # a)
      OBVIOUS
    <2>1. CASE \E q \in PortIds : pipe'[q].valid /\ x = <<"pipe", q, 0, pipe'[q]>>
      BY <1>5, <2>1, InFlightCases
    <2>2. CASE \E q \in PortIds : hit_pend'[q].valid /\ x = <<"hit", q, 0, hit_pend'[q]>>
      BY <2>2, InFlightCases
    <2>3. CASE \E i \in DOMAIN resp_q' : x = <<"resp", 0, i, resp_q'[i]>>
      BY <1>3, <1>4, <2>3, InFlightCases
    <2>4. CASE \E k \in MshrIds : \E i \in DOMAIN mshr'[k].waiters :
                 x = <<"miss", k, i, mshr'[k].waiters[i]>>
      BY <2>4, InFlightCases
    <2> QED
      BY <2>1, <2>2, <2>3, <2>4, InFlightCasesNext
  <1>10. \A x : x \in (InFlight \ {a}) \cup {b} => x \in InFlight'
    <2>1. b \in InFlight'
      BY <1>3, <1>7, InFlightCasesNext
    <2> SUFFICES ASSUME NEW x \in InFlight, x # a PROVE x \in InFlight'
      BY <2>1
    <2>2. CASE \E q \in PortIds : pipe[q].valid /\ x = <<"pipe", q, 0, pipe[q]>>
      BY <1>5, <2>2, InFlightCasesNext
    <2>3. CASE \E q \in PortIds : hit_pend[q].valid /\ x = <<"hit", q, 0, hit_pend[q]>>
      BY <2>3, InFlightCasesNext
    <2>4. CASE \E i \in DOMAIN resp_q : x = <<"resp", 0, i, resp_q[i]>>
      BY <1>3, <1>7, <2>4, InFlightCasesNext
    <2>5. CASE \E k \in MshrIds : \E i \in DOMAIN mshr[k].waiters :
                 x = <<"miss", k, i, mshr[k].waiters[i]>>
      BY <2>5, InFlightCasesNext
    <2> QED
      BY <2>2, <2>3, <2>4, <2>5, InFlightCases
  <1>11. InFlight' = (InFlight \ {a}) \cup {b}
    BY <1>9, <1>10
  <1>12. PortsHaveOne'
    BY <1>5 DEF RequestInv, PortsHaveOne
  <1>13. Key(a[4]) = Key(b[4])
    BY <1>2
  <1> HIDE DEF a, b
  <1>14. QED
    BY <1>6, <1>8, <1>11, <1>12, <1>13, OneMoves

(* A load that hits answers after a while.                                 *)
LEMMA PipeToHit ==
  ASSUME OwnerInv, RequestInv, NEW p \in PortIds, pipe[p].valid, NEW v \in Val,
         pipe' = [pipe EXCEPT ![p] = NoReq],
         hit_pend' = [hit_pend EXCEPT ![p] = Resp(pipe[p], v)],
         UNCHANGED <<resp_q, mshr, sb, sb_head, sb_count, load>>
  PROVE  RequestInv'
  <1> DEFINE r == Resp(pipe[p], v)
             a == <<"pipe", p, 0, pipe[p]>>
             b == <<"hit", p, 0, r>>
  <1>1. /\ pipe[p] \in Reqs /\ pipe \in [PortIds -> Reqs]
        /\ hit_pend \in [PortIds -> Reqs]
    BY DEF OwnerInv, Shapes
  <1>2. r \in Reqs /\ Key(r) = Key(pipe[p]) /\ r.valid = pipe[p].valid
    BY <1>1 DEF Resp, Reqs, Key
  <1>3. ~hit_pend[p].valid
    BY DEF RequestInv, PortsHaveOne
  <1>4. \A q \in PortIds : hit_pend'[q] = IF q = p THEN r ELSE hit_pend[q]
    BY <1>1
  <1> HIDE DEF r
  <1>5. ~NoReq.valid /\ \A q \in PortIds : pipe'[q] = IF q = p THEN NoReq ELSE pipe[q]
    BY <1>1 DEF NoReq
  <1>6. a \in InFlight
    BY InFlightCases
  <1>7. b \notin InFlight
    BY <1>3, InFlightCases
  <1>8. \A x : x \in InFlight' => x \in (InFlight \ {a}) \cup {b}
    <2> SUFFICES ASSUME NEW x \in InFlight' PROVE x = b \/ (x \in InFlight /\ x # a)
      OBVIOUS
    <2>1. CASE \E q \in PortIds : pipe'[q].valid /\ x = <<"pipe", q, 0, pipe'[q]>>
      BY <1>5, <2>1, InFlightCases
    <2>2. CASE \E q \in PortIds : hit_pend'[q].valid /\ x = <<"hit", q, 0, hit_pend'[q]>>
      BY <1>4, <2>2, InFlightCases
    <2>3. CASE \E i \in DOMAIN resp_q' : x = <<"resp", 0, i, resp_q'[i]>>
      BY <2>3, InFlightCases
    <2>4. CASE \E k \in MshrIds : \E i \in DOMAIN mshr'[k].waiters :
                 x = <<"miss", k, i, mshr'[k].waiters[i]>>
      BY <2>4, InFlightCases
    <2> QED
      BY <2>1, <2>2, <2>3, <2>4, InFlightCasesNext
  <1>9. \A x : x \in (InFlight \ {a}) \cup {b} => x \in InFlight'
    <2>1. b \in InFlight'
      BY <1>2, <1>4, InFlightCasesNext
    <2> SUFFICES ASSUME NEW x \in InFlight, x # a PROVE x \in InFlight'
      BY <2>1
    <2>2. CASE \E q \in PortIds : pipe[q].valid /\ x = <<"pipe", q, 0, pipe[q]>>
      BY <1>5, <2>2, InFlightCasesNext
    <2>3. CASE \E q \in PortIds : hit_pend[q].valid /\ x = <<"hit", q, 0, hit_pend[q]>>
      BY <1>3, <1>4, <2>3, InFlightCasesNext
    <2>4. CASE \E i \in DOMAIN resp_q : x = <<"resp", 0, i, resp_q[i]>>
      BY <2>4, InFlightCasesNext
    <2>5. CASE \E k \in MshrIds : \E i \in DOMAIN mshr[k].waiters :
                 x = <<"miss", k, i, mshr[k].waiters[i]>>
      BY <2>5, InFlightCasesNext
    <2> QED
      BY <2>2, <2>3, <2>4, <2>5, InFlightCases
  <1>10. InFlight' = (InFlight \ {a}) \cup {b}
    BY <1>8, <1>9
  <1>11. PortsHaveOne'
    BY <1>4, <1>5 DEF RequestInv, PortsHaveOne
  <1>12. Key(a[4]) = Key(b[4])
    BY <1>2
  <1> HIDE DEF a, b
  <1>13. QED
    BY <1>6, <1>7, <1>10, <1>11, <1>12, OneMoves

(* The compare stage moves a request on, or leaves it in its port.         *)
LEMMA ProcessPipeRequests ==
  ASSUME OwnerInv, RequestInv, ProcessPipe
  PROVE  RequestInv'
  <1>1. PICK p \in PortIds : p = port
    BY ConstantsArePositive DEF ProcessPipe, PortIds, OwnerInv, Shapes
  <1>2. PICK line \in Lines, s \in SetIds : line = LineOf(pipe[p].addr) /\ s = SetOf(line)
    BY AddressFacts DEF OwnerInv, Shapes, Reqs
  <1>3. UNCHANGED <<sb, sb_head, sb_count, load>>
    BY DEF ProcessPipe, clientVars
  <1>4. /\ mshr \in [MshrIds -> MshrStates] /\ pipe[p] \in Reqs
        /\ cache \in [SetIds -> [WayIds -> WayStates]]
    BY DEF OwnerInv, Shapes
  <1>5. CASE ~pipe[p].valid
    <2>1. UNCHANGED <<pipe, hit_pend, resp_q, mshr>>
      BY <1>1, <1>5 DEF ProcessPipe, tableVars, portVars
    <2> QED
      BY <1>3, <2>1, NothingMoves
  <1>6. CASE pipe[p].valid /\ MshrOf(line) # {}
    <2>1. PICK m \in MshrIds : m = Lowest(MshrOf(line))
      <3>1. MshrOf(line) \in SUBSET Nat
        BY IdsAreNumbers DEF MshrOf
      <3> QED
        BY <1>6, <3>1, LowestIsIn DEF MshrOf
    <2>2. JoinMshr(p, m) /\ UNCHANGED <<hit_pend, resp_q>>
      BY <1>1, <1>2, <1>6, <2>1 DEF ProcessPipe
    <2>3. CASE MustHold(m)
      <3>1. UNCHANGED <<mshr, pipe>>
        BY <2>2, <2>3 DEF JoinMshr
      <3> QED
        BY <1>3, <2>2, <3>1, NothingMoves
    <2>4. CASE ~MustHold(m)
      <3>1. /\ mshr' = [mshr EXCEPT ![m].waiters = Append(mshr[m].waiters, pipe[p])]
            /\ pipe' = [pipe EXCEPT ![p] = NoReq]
        BY <2>2, <2>4 DEF JoinMshr, LeavePipe
      <3>2. /\ mshr'[m].waiters = Append(mshr[m].waiters, pipe[p])
            /\ \A k \in MshrIds : k # m => mshr'[k].waiters = mshr[k].waiters
        BY <1>4, <3>1 DEF MshrStates
      <3> QED
        BY <1>3, <1>6, <2>2, <3>1, <3>2, PipeToMshr
    <2> QED
      BY <2>3, <2>4
  <1>7. CASE pipe[p].valid /\ MshrOf(line) = {} /\ HitWays(s, line) # {}
    <2>1. PICK w \in WayIds : w = Lowest(HitWays(s, line))
      <3>1. HitWays(s, line) \in SUBSET Nat
        BY IdsAreNumbers DEF HitWays
      <3> QED
        BY <1>7, <3>1, LowestIsIn DEF HitWays
    <2>2. HitLine(p, s, w) /\ UNCHANGED mshr
      BY <1>1, <1>2, <1>7, <2>1 DEF ProcessPipe
    <2>3. pipe' = [pipe EXCEPT ![p] = NoReq]
      BY <2>2 DEF HitLine, LeavePipe
    <2>4. CASE pipe[p].write
      <3>1. resp_q' = Append(resp_q, Resp(pipe[p], 0)) /\ UNCHANGED hit_pend
        BY <2>2, <2>4 DEF HitLine
      <3> QED
        BY <1>3, <1>7, <2>2, <2>3, <3>1, PipeToResp
    <2>5. CASE ~pipe[p].write
      <3>1. WordOf(pipe[p].addr) \in 0 .. LineWords - 1 /\ cache[s][w].data \in LineData
        BY <1>4, AddressFacts DEF Reqs, WayStates
      <3>2. PICK v \in Val : v = cache[s][w].data[WordOf(pipe[p].addr)]
        BY <3>1 DEF LineData
      <3>3. hit_pend' = [hit_pend EXCEPT ![p] = Resp(pipe[p], v)] /\ UNCHANGED resp_q
        BY <2>2, <2>5, <3>2 DEF HitLine
      <3> QED
        BY <1>3, <1>7, <2>2, <2>3, <3>3, PipeToHit
    <2> QED
      BY <2>4, <2>5
  <1>8. CASE pipe[p].valid /\ MshrOf(line) = {} /\ HitWays(s, line) = {}
    <2> DEFINE free == {m \in MshrIds : ~mshr[m].valid}
    <2>1. Miss(p, s) /\ UNCHANGED <<hit_pend, resp_q>>
      BY <1>1, <1>2, <1>8 DEF ProcessPipe
    <2>2. CASE free = {} \/ Victims(s) = {}
      <3>1. UNCHANGED <<mshr, pipe>>
        BY <2>1, <2>2 DEF Miss
      <3> QED
        BY <1>3, <2>1, <3>1, NothingMoves
    <2>3. CASE free # {} /\ Victims(s) # {}
      <3>1. PICK m \in MshrIds : m = Lowest(free) /\ ~mshr[m].valid
        <4>1. free \in SUBSET Nat
          BY IdsAreNumbers
        <4> QED
          BY <2>3, <4>1, LowestIsIn
      <3>2. PICK w : w = Victim(s)
        OBVIOUS
      <3>3. TakeWay(p, s, m, w)
        BY <2>1, <2>3, <3>1, <3>2 DEF Miss, TakeWay, LeavePipe
      <3>4. mshr[m].waiters = <<>>
        BY <3>1 DEF OwnerInv, Waiters
      <3>5. mshr'[m].waiters = <<pipe[p]>> /\ \A k \in MshrIds : k # m => mshr'[k] = mshr[k]
        BY <1>4, <3>3 DEF TakeWay, FreeMshr
      <3>6. <<pipe[p]>> = Append(<<>>, pipe[p])
        OBVIOUS
      <3>7. pipe' = [pipe EXCEPT ![p] = NoReq]
        BY <3>3 DEF TakeWay
      <3> QED
        BY <1>3, <1>8, <2>1, <3>4, <3>5, <3>6, <3>7, PipeToMshr
    <2> QED
      BY <2>2, <2>3
  <1>9. QED
    BY <1>5, <1>6, <1>7, <1>8

(* The first that waits is answered; the others move up.                   *)
LEMMA StepDrainRequests ==
  ASSUME OwnerInv, RequestInv, StepDrain
  PROVE  RequestInv'
  <1>1. UNCHANGED <<sb, sb_head, sb_count, load, pipe, hit_pend>>
    BY DEF StepDrain, clientVars, portVars
  <1>2. CASE Draining = {}
    <2>1. UNCHANGED <<mshr, resp_q>>
      BY <1>2 DEF StepDrain, Draining
    <2> QED
      BY <1>1, <2>1, NothingMoves
  <1>3. CASE Draining # {}
    <2>1. PICK m \in Draining : m = IF drain_mshr # NoMshr THEN drain_mshr
                                                            ELSE Lowest(Draining)
      <3>1. Draining \in SUBSET Nat
        BY IdsAreNumbers DEF Draining
      <3>2. drain_mshr # NoMshr => drain_mshr \in Draining
        BY DEF OwnerInv, DrainIsOn, Shapes, Draining
      <3> QED
        BY <1>3, <3>1, <3>2, LowestIsIn
    <2>2. m \in MshrIds /\ mshr[m].valid
      BY DEF Draining
    <2> DEFINE ws == mshr[m].waiters
               n == Len(ws)
               c == Len(resp_q)
               v == IF Head(ws).write THEN 0 ELSE mshr[m].data[WordOf(Head(ws).addr)]
               r == Resp(Head(ws), v)
    <2>3. /\ mshr \in [MshrIds -> MshrStates] /\ ws \in Seq(Reqs) /\ ws # <<>>
          /\ resp_q \in Seq(Reqs) /\ mshr[m].data \in LineData
      BY <2>2 DEF OwnerInv, Shapes, MshrStates, Waiters
    <2>4. /\ n \in Nat /\ n > 0 /\ DOMAIN ws = 1 .. n /\ Head(ws) = ws[1] /\ ws[1] \in Reqs
          /\ c \in Nat /\ DOMAIN resp_q = 1 .. c
      BY <2>3, LenProperties, HeadTailProperties
    <2>5. r \in Reqs /\ Key(r) = Key(ws[1])
      <3>1. v \in Val
        <4>1. mshr[m].data[WordOf(Head(ws).addr)] \in Val
          BY <2>3, <2>4, AddressFacts DEF LineData, Reqs
        <4> QED
          BY <4>1, ConstantsArePositive
      <3> HIDE DEF v
      <3> QED
        BY <2>4, <3>1 DEF Resp, Reqs, Key
    <2>6. resp_q' = Append(resp_q, r)
      BY <1>3, <2>1 DEF StepDrain, Draining
    <2>7. mshr' = [mshr EXCEPT ![m] =
            IF MoreToDrain(m) THEN [mshr[m] EXCEPT !.waiters = Tail(ws)] ELSE FreeMshr]
      BY <1>3, <2>1 DEF StepDrain, Draining
    <2>8. /\ DOMAIN mshr'[m].waiters = 1 .. n - 1
          /\ \A i \in 1 .. n - 1 : mshr'[m].waiters[i] = ws[i + 1]
      <3>1. CASE MoreToDrain(m)
        <4>1. mshr'[m].waiters = Tail(ws)
          BY <2>2, <2>3, <2>7, <3>1 DEF MshrStates
        <4> QED
          BY <2>3, <2>4, <4>1, HeadTailProperties, LenProperties
      <3>2. CASE ~MoreToDrain(m)
        <4>1. n = 1 /\ 1 .. n - 1 = {}
          <5>1. ~(n > 1)
            BY <3>2 DEF MoreToDrain
          <5> HIDE DEF n
          <5>2. n = 1
            BY <2>4, <5>1
          <5> QED
            BY <5>2
        <4>2. mshr'[m].waiters = <<>>
          BY <2>2, <2>3, <2>7, <3>2 DEF FreeMshr
        <4> QED
          BY <4>1, <4>2
      <3> QED
        BY <3>1, <3>2
    <2>9. \A k \in MshrIds : k # m => mshr'[k] = mshr[k]
      BY <2>3, <2>7
    <2>10. /\ DOMAIN resp_q' = 1 .. c + 1 /\ resp_q'[c + 1] = r
           /\ \A i \in 1 .. c : resp_q'[i] = resp_q[i]
      <3>1. resp_q' \in Seq(Reqs) /\ Len(resp_q') = c + 1
        BY <2>3, <2>5, <2>6, AppendProperties
      <3> HIDE DEF r, c
      <3>2. DOMAIN resp_q' = 1 .. c + 1
        BY <3>1, LenProperties
      <3> QED
        BY <2>3, <2>5, <2>6, <3>2, AppendProperties DEF c
    <2> HIDE DEF r, v, c, n, ws
    <2>11. /\ c + 1 \notin 1 .. c /\ c + 1 \in 1 .. c + 1 /\ 1 .. c \subseteq 1 .. c + 1
           /\ \A i \in 1 .. c + 1 : i \in 1 .. c \/ i = c + 1
           /\ 1 \in 1 .. n /\ \A i \in 1 .. n - 1 : i + 1 \in 1 .. n /\ i + 1 # 1
           /\ \A i \in 1 .. n : i = 1 \/ (i - 1 \in 1 .. n - 1 /\ (i - 1) + 1 = i)
           /\ \A i, j \in 1 .. n - 1 : i + 1 = j + 1 => i = j
      BY <2>4
    <2> DEFINE F(x) == IF x[1] = "resp" /\ x[3] = c + 1 THEN <<"miss", m, 1, ws[1]>>
                       ELSE IF x[1] = "miss" /\ x[2] = m
                         THEN <<"miss", m, x[3] + 1, x[4]>> ELSE x
               Still(x) == /\ F(x) = x /\ x \in InFlight
                           /\ ~(x[1] = "miss" /\ x[2] = m)
               Up(x, i) == x = <<"miss", m, i, ws[i + 1]>> /\ F(x) = <<"miss", m, i + 1, ws[i + 1]>>
               Out(x) == x = <<"resp", 0, c + 1, r>> /\ F(x) = <<"miss", m, 1, ws[1]>>
    <2>12. \A x \in InFlight' : Still(x) \/ (\E i \in 1 .. n - 1 : Up(x, i)) \/ Out(x)
      <3> SUFFICES ASSUME NEW x \in InFlight'
                   PROVE  Still(x) \/ (\E i \in 1 .. n - 1 : Up(x, i)) \/ Out(x)
        OBVIOUS
      <3>1. CASE \E p \in PortIds : pipe'[p].valid /\ x = <<"pipe", p, 0, pipe'[p]>>
        BY <1>1, <3>1, InFlightCases
      <3>2. CASE \E p \in PortIds : hit_pend'[p].valid /\ x = <<"hit", p, 0, hit_pend'[p]>>
        BY <1>1, <3>2, InFlightCases
      <3>3. CASE \E i \in DOMAIN resp_q' : x = <<"resp", 0, i, resp_q'[i]>>
        <4>1. PICK i \in 1 .. c + 1 : x = <<"resp", 0, i, resp_q'[i]>>
          BY <2>10, <3>3
        <4>2. CASE i = c + 1
          BY <2>10, <4>1, <4>2
        <4>3. CASE i \in 1 .. c
          <5>1. x \in InFlight /\ i # c + 1
            BY <2>4, <2>10, <2>11, <4>1, <4>3, InFlightCases
          <5> QED
            BY <4>1, <5>1
        <4> QED
          BY <2>11, <4>2, <4>3
      <3>4. CASE \E k \in MshrIds : \E i \in DOMAIN mshr'[k].waiters :
                   x = <<"miss", k, i, mshr'[k].waiters[i]>>
        <4>1. PICK k \in MshrIds : \E i \in DOMAIN mshr'[k].waiters :
                   x = <<"miss", k, i, mshr'[k].waiters[i]>>
          BY <3>4
        <4>2. CASE k # m
          <5>1. x \in InFlight
            BY <2>9, <4>1, <4>2, InFlightCases
          <5> QED
            BY <4>1, <4>2, <5>1
        <4>3. CASE k = m
          <5>1. PICK i \in 1 .. n - 1 : x = <<"miss", m, i, ws[i + 1]>>
            BY <2>8, <4>1, <4>3
          <5>2. F(x) = <<"miss", m, i + 1, ws[i + 1]>>
            BY <5>1
          <5> QED
            BY <5>1, <5>2
        <4> QED
          BY <4>2, <4>3
      <3> QED
        BY <3>1, <3>2, <3>3, <3>4, InFlightCasesNext
    <2> HIDE DEF F
    <2>13. \A i \in 1 .. n : <<"miss", m, i, ws[i]>> \in InFlight
      BY <2>2, <2>4, InFlightCases DEF ws
    <2>14. \A x \in InFlight' : F(x) \in InFlight /\ Key(x[4]) = Key(F(x)[4])
      <3> SUFFICES ASSUME NEW x \in InFlight'
                   PROVE  F(x) \in InFlight /\ Key(x[4]) = Key(F(x)[4])
        OBVIOUS
      <3>1. CASE Still(x)
        BY <3>1
      <3>2. ASSUME NEW i \in 1 .. n - 1, Up(x, i)
            PROVE  F(x) \in InFlight /\ Key(x[4]) = Key(F(x)[4])
        BY <2>11, <2>13, <3>2
      <3>3. CASE Out(x)
        BY <2>5, <2>11, <2>13, <3>3
      <3> QED
        BY <2>12, <3>1, <3>2, <3>3
    <2>15. \A x, y \in InFlight' : F(x) = F(y) => x = y
      <3> SUFFICES ASSUME NEW x \in InFlight', NEW y \in InFlight', F(x) = F(y)
                   PROVE  x = y
        OBVIOUS
      <3>1. \A z \in {x, y} : ~Still(z) =>
              \E i \in 1 .. n : F(z) = <<"miss", m, i, ws[i]>>
        BY <2>11, <2>12
      <3>2. CASE Still(x) \/ Still(y)
        BY <3>1, <3>2
      <3>3. ASSUME NEW i \in 1 .. n - 1, NEW j \in 1 .. n - 1, Up(x, i), Up(y, j)
            PROVE  x = y
        BY <2>11, <3>3
      <3>4. ASSUME NEW i \in 1 .. n - 1, (Up(x, i) /\ Out(y)) \/ (Up(y, i) /\ Out(x))
            PROVE  FALSE
        BY <2>11, <3>4
      <3>5. CASE Out(x) /\ Out(y)
        BY <3>5
      <3> QED
        BY <2>12, <3>2, <3>3, <3>4, <3>5
    <2>16. \A y \in InFlight : \E x \in InFlight' : Key(x[4]) = Key(y[4])
      <3> SUFFICES ASSUME NEW y \in InFlight PROVE \E x \in InFlight' : Key(x[4]) = Key(y[4])
        OBVIOUS
      <3>1. CASE \E p \in PortIds : pipe[p].valid /\ y = <<"pipe", p, 0, pipe[p]>>
        <4>1. y \in InFlight'
          BY <1>1, <3>1, InFlightCasesNext
        <4> QED
          BY <4>1
      <3>2. CASE \E p \in PortIds : hit_pend[p].valid /\ y = <<"hit", p, 0, hit_pend[p]>>
        <4>1. y \in InFlight'
          BY <1>1, <3>2, InFlightCasesNext
        <4> QED
          BY <4>1
      <3>3. CASE \E i \in DOMAIN resp_q : y = <<"resp", 0, i, resp_q[i]>>
        <4>1. y \in InFlight'
          BY <2>4, <2>10, <2>11, <3>3, InFlightCasesNext
        <4> QED
          BY <4>1
      <3>4. CASE \E k \in MshrIds : \E i \in DOMAIN mshr[k].waiters :
                   y = <<"miss", k, i, mshr[k].waiters[i]>>
        <4>1. PICK k \in MshrIds : \E i \in DOMAIN mshr[k].waiters :
                   y = <<"miss", k, i, mshr[k].waiters[i]>>
          BY <3>4
        <4>2. CASE k # m
          <5>1. y \in InFlight'
            BY <2>9, <4>1, <4>2, InFlightCasesNext
          <5> QED
            BY <5>1
        <4>3. CASE k = m
          <5>1. PICK i \in 1 .. n : y = <<"miss", m, i, ws[i]>>
            BY <2>4, <4>1, <4>3 DEF ws
          <5>2. CASE i = 1
            <6>1. <<"resp", 0, c + 1, r>> \in InFlight'
              BY <2>10, <2>11, InFlightCasesNext
            <6> QED
              BY <2>5, <5>1, <5>2, <6>1
          <5>3. CASE i # 1
            <6>1. PICK j \in 1 .. n - 1 : j + 1 = i
              BY <2>11, <5>3
            <6>2. <<"miss", m, j, ws[j + 1]>> \in InFlight'
              BY <2>2, <2>8, InFlightCasesNext
            <6> QED
              BY <5>1, <6>1, <6>2
          <5> QED
            BY <5>2, <5>3
        <4> QED
          BY <4>2, <4>3
      <3> QED
        BY <3>1, <3>2, <3>3, <3>4, InFlightCases
    <2>17. PICK g \in [InFlight' -> InFlight] : g = [x \in InFlight' |-> F(x)]
      BY <2>14
    <2>18. Moved(g, InFlight)
      BY <2>14, <2>15, <2>16, <2>17 DEF Moved
    <2>19. PortsHaveOne'
      BY <1>1 DEF RequestInv, PortsHaveOne
    <2> QED
      BY <1>1, <2>18, <2>19, MovesKeepRequests
  <1>4. QED
    BY <1>2, <1>3

-------------------------------------------------------------------------------
(* In the steps of the store buffer and the load slots.                    *)

(* Different positions of the ring are different slots.                    *)
LEMMA SbAtDiffers ==
  ASSUME sb_head \in SbIds
  PROVE  \A k, n \in 0 .. SbDepth - 1 : SbAt(k) = SbAt(n) => k = n
  <1>1. \A k \in 0 .. SbDepth - 1 :
          SbAt(k) = IF sb_head + k < SbDepth THEN sb_head + k ELSE sb_head + k - SbDepth
    BY ConstantsArePositive DEF SbAt, SbIds
  <1>2. QED
    BY <1>1, ConstantsArePositive DEF SbIds

(* A store retires into a slot that is free.                               *)
LEMMA NewStoreRequests ==
  ASSUME OwnerInv, RequestInv, NEW a \in Words, NEW v \in Val, NewStore(a, v)
  PROVE  RequestInv'
  <1>1. sb_head \in SbIds /\ sb_count \in 0 .. SbDepth - 1 /\ sb \in [SbIds -> SbStates]
    BY ConstantsArePositive DEF OwnerInv, Shapes, NewStore, HasRoom
  <1>2. PICK j \in SbIds : j = SbAt(sb_count)
    BY <1>1, SbAtIsSlot
  <1>3. ~sb[j].valid /\ ~sb[j].sent
    <2>1. SUFFICES ASSUME sb[j].valid PROVE FALSE
      BY DEF RequestInv, SlotsAreFree
    <2>2. PICK k \in 0 .. sb_count - 1 : j = SbAt(k)
      BY <2>1 DEF RequestInv, SlotsAreFree
    <2>3. k \in 0 .. SbDepth - 1 /\ k # sb_count
      BY <1>1, ConstantsArePositive
    <2> QED
      BY <1>1, <1>2, <2>2, <2>3, SbAtDiffers
  <1>4. /\ UNCHANGED <<pipe, hit_pend, resp_q, mshr, load, sb_head>>
        /\ sb_count' = sb_count + 1
    BY DEF NewStore, portVars, tableVars
  <1>5. /\ sb'[j].valid /\ ~sb'[j].sent
        /\ \A i \in SbIds : i # j => sb'[i] = sb[i]
    BY <1>1, <1>2 DEF NewStore
  <1>6. InFlight' = InFlight
    BY <1>4, RequestsStay
  <1>7. PortsHaveOne' /\ RequestsDiffer'
    BY <1>4, <1>6 DEF RequestInv, PortsHaveOne, RequestsDiffer, Key
  <1>8. \A i \in SbIds : sb'[i].sent <=> sb[i].sent
    BY <1>3, <1>5
  <1>9. RequestsAreKnown' /\ SentAreInFlight'
    <2>1. RequestsAreKnown'
      BY <1>4, <1>6, <1>8 DEF RequestInv, RequestsAreKnown
    <2>2. \A i \in SbIds : sb'[i].sent => \E x \in InFlight' : Key(x[4]) = <<TRUE, i, 0>>
      BY <1>6, <1>8 DEF RequestInv, SentAreInFlight
    <2>3. \A l \in LoadIds : load'[l].busy /\ load'[l].sent =>
            \E x \in InFlight' : Key(x[4]) = <<FALSE, l, load'[l].gen>>
      BY <1>4, <1>6 DEF RequestInv, SentAreInFlight
    <2>4. SentAreInFlight'
      BY <2>2, <2>3 DEF SentAreInFlight, Key
    <2> QED
      BY <2>1, <2>4
  <1>10. SlotsAreFree'
    <2>1. \A i \in SbIds : sb'[i].sent => sb'[i].valid
      BY <1>5 DEF RequestInv, SlotsAreFree
    <2>2. \A i \in SbIds : sb'[i].valid => \E k \in 0 .. sb_count' - 1 : i = SbAt(k)
      <3>1. \A k \in 0 .. sb_count - 1 : k \in 0 .. sb_count' - 1
        BY <1>1, <1>4, ConstantsArePositive
      <3>2. sb_count \in 0 .. sb_count' - 1
        BY <1>1, <1>4, ConstantsArePositive
      <3> QED
        BY <1>2, <1>5, <3>1, <3>2 DEF RequestInv, SlotsAreFree
    <2> QED
      BY <1>4, <2>1, <2>2 DEF SlotsAreFree, SbAt
  <1>11. QED
    BY <1>7, <1>9, <1>10 DEF RequestInv

(* A load slot is given to another load, or the load is squashed.          *)
LEMMA LoadSlotRequests ==
  ASSUME OwnerInv, RequestInv,
         \/ \E l \in LoadIds, a \in Words : NewLoad(l, a)
         \/ \E l \in LoadIds : SquashLoad(l)
  PROVE  RequestInv'
  <1>1. load \in [LoadIds -> LoadStates]
    BY DEF OwnerInv, Shapes
  <1>2. UNCHANGED <<pipe, hit_pend, resp_q, mshr, sb, sb_head, sb_count>>
    BY DEF NewLoad, SquashLoad, portVars, tableVars
  <1>3. PICK l \in LoadIds :
          /\ ~load'[l].sent
          /\ \/ load'[l].gen = load[l].gen + 1
             \/ load'[l].gen = load[l].gen /\ ~load'[l].busy
          /\ \A k \in LoadIds : k # l => load'[k] = load[k]
    <2>1. ASSUME NEW l \in LoadIds, NEW a \in Words, NewLoad(l, a)
          PROVE  /\ ~load'[l].sent /\ load'[l].gen = load[l].gen + 1
                 /\ \A k \in LoadIds : k # l => load'[k] = load[k]
      BY <1>1, <2>1 DEF NewLoad
    <2>2. ASSUME NEW l \in LoadIds, SquashLoad(l)
          PROVE  /\ ~load'[l].sent /\ load'[l].gen = load[l].gen /\ ~load'[l].busy
                 /\ \A k \in LoadIds : k # l => load'[k] = load[k]
      BY <1>1, <2>2 DEF SquashLoad, LoadStates
    <2> QED
      BY <2>1, <2>2
  <1>4. InFlight' = InFlight
    BY <1>2, RequestsStay
  <1>5. PortsHaveOne' /\ RequestsDiffer' /\ SlotsAreFree'
    BY <1>2, <1>4 DEF RequestInv, PortsHaveOne, RequestsDiffer, Key, SlotsAreFree, SbAt
  <1>6. RequestsAreKnown'
    <2>1. SUFFICES ASSUME NEW x \in InFlight
                   PROVE  IF x[4].write
                            THEN x[4].id \in SbIds /\ x[4].cookie = 0 /\ sb[x[4].id].sent
                            ELSE /\ x[4].id \in LoadIds /\ x[4].cookie <= load'[x[4].id].gen
                                 /\ load'[x[4].id].busy /\ ~load'[x[4].id].sent =>
                                      x[4].cookie < load'[x[4].id].gen
      BY <1>2, <1>4 DEF RequestsAreKnown
    <2>2. IF x[4].write
            THEN x[4].id \in SbIds /\ x[4].cookie = 0 /\ sb[x[4].id].sent
            ELSE /\ x[4].id \in LoadIds /\ x[4].cookie <= load[x[4].id].gen
                 /\ load[x[4].id].busy /\ ~load[x[4].id].sent =>
                      x[4].cookie < load[x[4].id].gen
      BY DEF RequestInv, RequestsAreKnown
    <2>3. x[4].cookie \in Nat
      BY InFlightAreRequests DEF Reqs
    <2>4. \A k \in LoadIds : load[k].gen \in Nat
      BY <1>1 DEF LoadStates
    <2>5. CASE x[4].write
      BY <2>2, <2>5
    <2>6. CASE ~x[4].write
      <3>1. PICK k \in LoadIds : k = x[4].id
        BY <2>2, <2>6
      <3>2. PICK e \in Nat, f \in Nat : e = x[4].cookie /\ f = load[k].gen /\ e <= f
        BY <2>2, <2>3, <2>4, <2>6, <3>1
      <3>3. e < f + 1 /\ e <= f + 1
        BY <3>2
      <3>4. CASE k = l /\ load'[l].gen = load[l].gen + 1
        BY <2>6, <3>1, <3>2, <3>3, <3>4
      <3>5. CASE k = l /\ load'[l].gen = load[l].gen /\ ~load'[l].busy
        BY <2>6, <3>1, <3>2, <3>5
      <3>6. CASE k # l
        BY <1>3, <2>2, <2>6, <3>1, <3>6
      <3> QED
        BY <1>3, <3>4, <3>5, <3>6
    <2> QED
      BY <2>5, <2>6
  <1>7. SentAreInFlight'
    <2>1. \A k \in LoadIds : load'[k].busy /\ load'[k].sent => load'[k] = load[k]
      BY <1>3
    <2>2. \A k \in LoadIds : load'[k].busy /\ load'[k].sent =>
            \E x \in InFlight : Key(x[4]) = <<FALSE, k, load'[k].gen>>
      BY <2>1 DEF RequestInv, SentAreInFlight
    <2>3. \A i \in SbIds : sb[i].sent => \E x \in InFlight : Key(x[4]) = <<TRUE, i, 0>>
      BY DEF RequestInv, SentAreInFlight
    <2> QED
      BY <1>2, <1>4, <2>2, <2>3 DEF SentAreInFlight, Key
  <1>8. QED
    BY <1>5, <1>6, <1>7 DEF RequestInv

(* A request that is not on its way yet is put into a free port.           *)
LEMMA PortIsTaken ==
  ASSUME OwnerInv, RequestInv, CanAccept, NEW req \in Reqs, req.valid, Accept(req),
         \A x \in InFlight : Key(x[4]) # Key(req),
         UNCHANGED <<hit_pend, resp_q, mshr>>
  PROVE  /\ PortsHaveOne' /\ RequestsDiffer'
         /\ \E b : b[4] = req /\ InFlight' = InFlight \cup {b}
  <1>1. PICK p \in PortIds : p = FreePipePort
    BY FreePortIsFree
  <1>2. ~pipe[p].valid /\ ~hit_pend[p].valid
    BY <1>1, FreePortIsFree DEF FreePorts
  <1>3. pipe'[p] = req /\ \A q \in PortIds : q # p => pipe'[q] = pipe[q]
    BY <1>1 DEF Accept, OwnerInv, Shapes
  <1>4. PortsHaveOne'
    BY <1>2, <1>3 DEF RequestInv, PortsHaveOne
  <1> DEFINE b == <<"pipe", p, 0, req>>
  <1>5. b[4] = req
    OBVIOUS
  <1>6. \A x : x \in InFlight' <=> x \in InFlight \/ x = b
    <2>1. \A x : (\E q \in PortIds : pipe'[q].valid /\ x = <<"pipe", q, 0, pipe'[q]>>) <=>
            \/ \E q \in PortIds : pipe[q].valid /\ x = <<"pipe", q, 0, pipe[q]>>
            \/ x = b
      BY <1>2, <1>3
    <2> HIDE DEF b
    <2> QED
      BY <2>1, InFlightCases, InFlightCasesNext
  <1> HIDE DEF b
  <1>7. InFlight' = InFlight \cup {b}
    BY <1>6
  <1>8. RequestsDiffer'
    <2> SUFFICES ASSUME NEW x \in InFlight', NEW y \in InFlight', Key(x[4]) = Key(y[4])
                 PROVE  x = y
      BY DEF RequestsDiffer, Key
    <2>1. x \in InFlight \/ x = b
      BY <1>7
    <2>2. y \in InFlight \/ y = b
      BY <1>7
    <2> QED
      BY <1>5, <2>1, <2>2 DEF RequestInv, RequestsDiffer
  <1>9. QED
    BY <1>4, <1>5, <1>7, <1>8

(* A store is sent once: it is marked when it enters the pipe.             *)
LEMMA IssueStoreRequests ==
  ASSUME OwnerInv, RequestInv, IssueStore
  PROVE  RequestInv'
  <1>1. sb_head \in SbIds /\ sb_count \in 0 .. SbDepth /\ sb \in [SbIds -> SbStates]
    BY DEF OwnerInv, Shapes
  <1>2. PICK k \in Unsent : k = CHOOSE n \in Unsent : \A j \in Unsent : n <= j
    BY <1>1, UnsentIsOrdered DEF IssueStore
  <1>3. PICK i \in SbIds : i = SbAt(k)
    BY <1>1, SbAtIsSlot DEF Unsent
  <1>4. sb[i].valid /\ ~sb[i].sent /\ sb[i].addr \in Words /\ sb[i].val \in Val
    BY <1>1, <1>3 DEF Unsent, SbStates
  <1>5. i \in Nat
    BY ConstantsArePositive DEF SbIds
  <1>6. PICK req \in Reqs :
          req = [valid |-> TRUE, write |-> TRUE, addr |-> sb[i].addr, val |-> sb[i].val,
                 id |-> i, cookie |-> 0]
    BY <1>4, <1>5 DEF Reqs
  <1>7. /\ CanAccept /\ Accept(req) /\ sb' = [sb EXCEPT ![i].sent = TRUE]
        /\ UNCHANGED <<sb_head, sb_count, load, mshr, hit_pend, resp_q>>
    BY <1>2, <1>3, <1>6 DEF IssueStore, tableVars
  <1>8. req.valid /\ req.write /\ req.id = i /\ req.cookie = 0 /\ Key(req) = <<TRUE, i, 0>>
    BY <1>6 DEF Key
  <1>9. \A x \in InFlight : Key(x[4]) # Key(req)
    <2> SUFFICES ASSUME NEW x \in InFlight, Key(x[4]) = Key(req)
                 PROVE  FALSE
      OBVIOUS
    <2>1. x[4].write /\ x[4].id = i
      BY <1>8, KeyFields
    <2>2. sb[x[4].id].sent
      BY <2>1 DEF RequestInv, RequestsAreKnown
    <2> QED
      BY <1>4, <2>1, <2>2
  <1>10. PortsHaveOne' /\ RequestsDiffer'
    BY <1>7, <1>8, <1>9, PortIsTaken
  <1>11. PICK b : b[4] = req /\ InFlight' = InFlight \cup {b}
    BY <1>7, <1>8, <1>9, PortIsTaken
  <1>12. /\ sb'[i].sent /\ sb'[i].valid
         /\ \A j \in SbIds : j # i => sb'[j] = sb[j]
    BY <1>1, <1>4, <1>7 DEF SbStates
  <1>13. RequestsAreKnown'
    <2> SUFFICES ASSUME NEW x \in InFlight'
                 PROVE  IF x[4].write
                          THEN x[4].id \in SbIds /\ x[4].cookie = 0 /\ sb'[x[4].id].sent
                          ELSE /\ x[4].id \in LoadIds /\ x[4].cookie <= load[x[4].id].gen
                               /\ load[x[4].id].busy /\ ~load[x[4].id].sent =>
                                    x[4].cookie < load[x[4].id].gen
      BY <1>7 DEF RequestsAreKnown
    <2>1. CASE x = b
      BY <1>8, <1>11, <1>12, <2>1
    <2>2. CASE x \in InFlight
      <3>1. \A j \in SbIds : sb[j].sent => sb'[j].sent
        BY <1>12
      <3> QED
        BY <2>2, <3>1 DEF RequestInv, RequestsAreKnown
    <2> QED
      BY <1>11, <2>1, <2>2
  <1>14. SentAreInFlight'
    <2>1. \A j \in SbIds : sb'[j].sent => \E x \in InFlight' : Key(x[4]) = <<TRUE, j, 0>>
      BY <1>8, <1>11, <1>12 DEF RequestInv, SentAreInFlight
    <2>2. \A l \in LoadIds : load'[l].busy /\ load'[l].sent =>
            \E x \in InFlight' : Key(x[4]) = <<FALSE, l, load'[l].gen>>
      BY <1>7, <1>11 DEF RequestInv, SentAreInFlight
    <2> QED
      BY <2>1, <2>2 DEF SentAreInFlight, Key
  <1>15. SlotsAreFree'
    <2>1. \A j \in SbIds : sb'[j].sent => sb'[j].valid
      BY <1>12 DEF RequestInv, SlotsAreFree
    <2>2. \A j \in SbIds : sb'[j].valid => sb[j].valid
      BY <1>4, <1>12
    <2> QED
      BY <1>7, <2>1, <2>2 DEF RequestInv, SlotsAreFree, SbAt
  <1>16. QED
    BY <1>10, <1>13, <1>14, <1>15 DEF RequestInv

(* A load is sent once for each owner of its entry.                        *)
LEMMA IssueLoadRequests ==
  ASSUME OwnerInv, RequestInv, NEW l \in LoadIds, IssueLoad(l)
  PROVE  RequestInv'
  <1>1. load \in [LoadIds -> LoadStates] /\ l \in Nat /\ 0 \in Val
    BY ConstantsArePositive DEF OwnerInv, Shapes, LoadIds
  <1>2. PICK gen \in Nat : gen = load[l].gen
    BY <1>1 DEF LoadStates
  <1>3. load[l].busy /\ ~load[l].sent /\ load[l].addr \in Words
    BY <1>1 DEF IssueLoad, LoadStates
  <1>4. PICK req \in Reqs :
          req = [valid |-> TRUE, write |-> FALSE, addr |-> load[l].addr, val |-> 0,
                 id |-> l, cookie |-> gen]
    BY <1>1, <1>3 DEF Reqs
  <1>5. /\ CanAccept /\ Accept(req) /\ load' = [load EXCEPT ![l].sent = TRUE]
        /\ UNCHANGED <<sb, sb_head, sb_count, mshr, hit_pend, resp_q>>
    BY <1>2, <1>4 DEF IssueLoad, tableVars
  <1>6. /\ req.valid /\ ~req.write /\ req.id = l /\ req.cookie = gen
        /\ Key(req) = <<FALSE, l, gen>>
    BY <1>4 DEF Key
  <1>7. \A x \in InFlight : Key(x[4]) # Key(req)
    <2> SUFFICES ASSUME NEW x \in InFlight, Key(x[4]) = Key(req) PROVE FALSE
      OBVIOUS
    <2>1. ~x[4].write /\ x[4].id = l /\ x[4].cookie = gen
      BY <1>6, KeyFields
    <2>2. gen < gen
      BY <1>2, <1>3, <2>1 DEF RequestInv, RequestsAreKnown
    <2> QED
      BY <2>2
  <1>8. PortsHaveOne' /\ RequestsDiffer'
    BY <1>5, <1>6, <1>7, PortIsTaken
  <1>9. PICK b : b[4] = req /\ InFlight' = InFlight \cup {b}
    BY <1>5, <1>6, <1>7, PortIsTaken
  <1>10. /\ load'[l].sent /\ load'[l].gen = gen /\ load'[l].busy
         /\ \A k \in LoadIds : k # l => load'[k] = load[k]
    BY <1>1, <1>2, <1>3, <1>5 DEF LoadStates
  <1>11. RequestsAreKnown'
    <2> SUFFICES ASSUME NEW x \in InFlight'
                 PROVE  IF x[4].write
                          THEN x[4].id \in SbIds /\ x[4].cookie = 0 /\ sb[x[4].id].sent
                          ELSE /\ x[4].id \in LoadIds /\ x[4].cookie <= load'[x[4].id].gen
                               /\ load'[x[4].id].busy /\ ~load'[x[4].id].sent =>
                                    x[4].cookie < load'[x[4].id].gen
      BY <1>5 DEF RequestsAreKnown
    <2>1. CASE x = b
      BY <1>6, <1>9, <1>10, <2>1
    <2>2. CASE x \in InFlight
      <3>1. IF x[4].write
              THEN x[4].id \in SbIds /\ x[4].cookie = 0 /\ sb[x[4].id].sent
              ELSE /\ x[4].id \in LoadIds /\ x[4].cookie <= load[x[4].id].gen
                   /\ load[x[4].id].busy /\ ~load[x[4].id].sent =>
                        x[4].cookie < load[x[4].id].gen
        BY <2>2 DEF RequestInv, RequestsAreKnown
      <3>2. CASE x[4].id = l
        BY <1>2, <1>10, <3>1, <3>2
      <3>3. CASE x[4].id # l
        BY <1>10, <3>1, <3>3
      <3> QED
        BY <3>2, <3>3
    <2> QED
      BY <1>9, <2>1, <2>2
  <1>12. SentAreInFlight'
    <2>1. \A j \in SbIds : sb[j].sent => \E x \in InFlight' : Key(x[4]) = <<TRUE, j, 0>>
      BY <1>9 DEF RequestInv, SentAreInFlight
    <2>2. \A k \in LoadIds : load'[k].busy /\ load'[k].sent =>
            \E x \in InFlight' : Key(x[4]) = <<FALSE, k, load'[k].gen>>
      BY <1>6, <1>9, <1>10 DEF RequestInv, SentAreInFlight
    <2> QED
      BY <1>5, <2>1, <2>2 DEF SentAreInFlight, Key
  <1>13. SlotsAreFree'
    BY <1>5 DEF RequestInv, SlotsAreFree, SbAt
  <1>14. QED
    BY <1>8, <1>11, <1>12, <1>13 DEF RequestInv

(* The first answer is taken: it was the one request of its store, or of   *)
(* the load that waits for it, or nobody waits for it.                     *)
LEMMA ApplyRespRequests ==
  ASSUME OwnerInv, RequestInv, ApplyResp
  PROVE  RequestInv'
  <1>1. /\ resp_q \in Seq(Reqs) /\ resp_q # <<>>
        /\ sb \in [SbIds -> SbStates] /\ load \in [LoadIds -> LoadStates]
    BY DEF OwnerInv, Shapes, ApplyResp
  <1>2. PICK c \in Nat : c = Len(resp_q)
    BY <1>1, LenProperties
  <1>3. PICK r \in Reqs : r = Head(resp_q)
    BY <1>1, HeadTailProperties
  <1>4. /\ c >= 1 /\ DOMAIN resp_q = 1 .. c /\ resp_q[1] = r
        /\ DOMAIN resp_q' = 1 .. c - 1
        /\ \A i \in 1 .. c - 1 : i + 1 \in 1 .. c /\ resp_q'[i] = resp_q[i + 1]
    <2>1. resp_q' = Tail(resp_q)
      BY DEF ApplyResp
    <2> QED
      BY <1>1, <1>2, <1>3, <2>1, HeadTailProperties, LenProperties, EmptySeq
  <1>5. UNCHANGED <<pipe, hit_pend, mshr, sb_head, sb_count>>
    BY DEF ApplyResp, tableVars, portVars
  <1> DEFINE a == <<"resp", 0, 1, r>>
             Old == InFlight \ {a}
             Still(x) == x \in InFlight /\ \A i \in 1 .. c : x # <<"resp", 0, i, resp_q[i]>>
             Up(x, i) == x = <<"resp", 0, i, resp_q'[i]>>
  <1>6. a \in InFlight /\ a[4] = r
    BY <1>4, InFlightCases
  <1>7. \A x \in InFlight' : Still(x) \/ \E i \in 1 .. c - 1 : Up(x, i)
    <2> SUFFICES ASSUME NEW x \in InFlight'
                 PROVE  Still(x) \/ \E i \in 1 .. c - 1 : Up(x, i)
      OBVIOUS
    <2>1. CASE \E p \in PortIds : pipe'[p].valid /\ x = <<"pipe", p, 0, pipe'[p]>>
      BY <1>5, <2>1, InFlightCases
    <2>2. CASE \E p \in PortIds : hit_pend'[p].valid /\ x = <<"hit", p, 0, hit_pend'[p]>>
      BY <1>5, <2>2, InFlightCases
    <2>3. CASE \E i \in DOMAIN resp_q' : x = <<"resp", 0, i, resp_q'[i]>>
      BY <1>4, <2>3
    <2>4. CASE \E m \in MshrIds : \E i \in DOMAIN mshr'[m].waiters :
                 x = <<"miss", m, i, mshr'[m].waiters[i]>>
      BY <1>5, <2>4, InFlightCases
    <2> QED
      BY <2>1, <2>2, <2>3, <2>4, InFlightCasesNext
  <1>8. \A x \in InFlight : Still(x) => x \in InFlight'
    <2> SUFFICES ASSUME NEW x \in InFlight, Still(x) PROVE x \in InFlight'
      OBVIOUS
    <2>1. CASE \E p \in PortIds : pipe[p].valid /\ x = <<"pipe", p, 0, pipe[p]>>
      BY <1>5, <2>1, InFlightCasesNext
    <2>2. CASE \E p \in PortIds : hit_pend[p].valid /\ x = <<"hit", p, 0, hit_pend[p]>>
      BY <1>5, <2>2, InFlightCasesNext
    <2>3. CASE \E m \in MshrIds : \E i \in DOMAIN mshr[m].waiters :
                 x = <<"miss", m, i, mshr[m].waiters[i]>>
      BY <1>5, <2>3, InFlightCasesNext
    <2> QED
      BY <1>4, <2>1, <2>2, <2>3, InFlightCases
  <1>9. \A i \in 1 .. c - 1 : <<"resp", 0, i + 1, resp_q[i + 1]>> \in Old
    <2> SUFFICES ASSUME NEW i \in 1 .. c - 1
                 PROVE  <<"resp", 0, i + 1, resp_q[i + 1]>> \in Old
      OBVIOUS
    <2>1. <<"resp", 0, i + 1, resp_q[i + 1]>> \in InFlight
      BY <1>4, InFlightCases
    <2>2. i + 1 # 1
      OBVIOUS
    <2> QED
      BY <2>1, <2>2
  <1>10. \A x : Still(x) => x \in Old
    BY <1>4
  <1> DEFINE F(x) == IF Still(x) THEN x ELSE <<"resp", 0, x[3] + 1, x[4]>>
  <1>11. \A x, i : i \in 1 .. c - 1 /\ Up(x, i) /\ ~Still(x) =>
           F(x) = <<"resp", 0, i + 1, resp_q[i + 1]>> /\ x[4] = resp_q[i + 1]
    BY <1>4
  <1>12. \A x \in InFlight' : F(x) \in Old /\ Key(x[4]) = Key(F(x)[4])
    <2> SUFFICES ASSUME NEW x \in InFlight'
                 PROVE  F(x) \in Old /\ Key(x[4]) = Key(F(x)[4])
      OBVIOUS
    <2>1. CASE Still(x)
      BY <1>10, <2>1
    <2>2. CASE ~Still(x)
      <3>1. PICK i \in 1 .. c - 1 : Up(x, i)
        BY <1>7, <2>2
      <3>2. F(x) = <<"resp", 0, i + 1, resp_q[i + 1]>> /\ x[4] = resp_q[i + 1]
        BY <1>11, <2>2, <3>1
      <3> HIDE DEF F, Old
      <3> QED
        BY <1>9, <3>2
    <2> QED
      BY <2>1, <2>2
  <1>13. \A x, y \in InFlight' : F(x) = F(y) => x = y
    <2> SUFFICES ASSUME NEW x \in InFlight', NEW y \in InFlight', F(x) = F(y)
                 PROVE  x = y
      OBVIOUS
    <2>1. CASE Still(x) /\ Still(y)
      BY <2>1
    <2>2. ASSUME NEW z \in InFlight', NEW u \in InFlight', Still(z), ~Still(u), F(z) = F(u)
          PROVE  FALSE
      <3>1. PICK i \in 1 .. c - 1 : Up(u, i)
        BY <1>7, <2>2
      <3>2. z = <<"resp", 0, i + 1, resp_q[i + 1]>>
        BY <1>11, <2>2, <3>1
      <3> QED
        BY <1>4, <2>2, <3>2
    <2>3. CASE ~Still(x) /\ ~Still(y)
      <3>1. PICK i \in 1 .. c - 1, j \in 1 .. c - 1 : Up(x, i) /\ Up(y, j)
        BY <1>7, <2>3
      <3>2. /\ F(x) = <<"resp", 0, i + 1, resp_q[i + 1]>>
            /\ F(y) = <<"resp", 0, j + 1, resp_q[j + 1]>>
        BY <1>11, <2>3, <3>1
      <3>3. PICK k \in 1 .. c, n \in 1 .. c : k = i + 1 /\ n = j + 1
        BY <1>4
      <3>4. /\ F(x) = <<"resp", 0, k, resp_q[k]>> /\ F(y) = <<"resp", 0, n, resp_q[n]>>
        BY <3>2, <3>3
      <3>5. k = n
        <4> HIDE DEF F, Still, Up, Old, a
        <4>1. <<"resp", 0, k, resp_q[k]>> = <<"resp", 0, n, resp_q[n]>>
          BY <3>4, Zenon
        <4>2. \A i1, i2, u, v : <<"resp", 0, i1, u>> = <<"resp", 0, i2, v>> => i1 = i2
          OBVIOUS
        <4> QED
          BY <4>1, <4>2, Zenon
      <3>6. i = j
        BY <3>3, <3>5
      <3> QED
        BY <3>1, <3>6
    <2> QED
      BY <2>1, <2>2, <2>3
  <1>14. \A y \in Old : \E x \in InFlight' : Key(x[4]) = Key(y[4])
    <2> SUFFICES ASSUME NEW y \in Old PROVE \E x \in InFlight' : Key(x[4]) = Key(y[4])
      OBVIOUS
    <2>1. CASE Still(y)
      <3>1. y \in InFlight'
        BY <1>8, <2>1
      <3> QED
        BY <3>1
    <2>2. ASSUME NEW i \in 1 .. c, y = <<"resp", 0, i, resp_q[i]>>
          PROVE  \E x \in InFlight' : Key(x[4]) = Key(y[4])
      <3>1. i # 1
        BY <1>4, <2>2
      <3>2. PICK j \in 1 .. c - 1 : j + 1 = i
        BY <3>1
      <3>3. <<"resp", 0, j, resp_q'[j]>> \in InFlight'
        BY <1>4, InFlightCasesNext
      <3>4. <<"resp", 0, j, resp_q'[j]>>[4] = y[4]
        BY <1>4, <2>2, <3>2
      <3> QED
        BY <3>3, <3>4
    <2> QED
      BY <2>1, <2>2
  <1> HIDE DEF F, Still, Up
  <1>15. PICK g \in [InFlight' -> Old] : g = [x \in InFlight' |-> F(x)]
    BY <1>12
  <1>16. Moved(g, Old)
    BY <1>12, <1>13, <1>14, <1>15 DEF Moved
  <1>17. RequestsDiffer'
    BY <1>16, MovedDiffer DEF RequestInv
  <1>18. PortsHaveOne'
    BY <1>5 DEF RequestInv, PortsHaveOne
  <1>19. \A y \in Old : Key(y[4]) # Key(r)
    BY <1>6 DEF RequestInv, RequestsDiffer
  <1>20. /\ \A x \in InFlight' : g[x] \in InFlight /\ g[x] \in Old /\ Key(x[4]) = Key(g[x][4])
         /\ \A k : (\E y \in InFlight : Key(y[4]) = k) /\ k # Key(r) =>
              \E x \in InFlight' : Key(x[4]) = k
    BY <1>6, <1>16 DEF Moved
  <1> HIDE DEF Old, a
  <1>21. \A x \in InFlight' :
           /\ Key(x[4]) # Key(r)
           /\ IF x[4].write
                THEN x[4].id \in SbIds /\ x[4].cookie = 0 /\ sb[x[4].id].sent
                ELSE /\ x[4].id \in LoadIds /\ x[4].cookie <= load[x[4].id].gen
                     /\ load[x[4].id].busy /\ ~load[x[4].id].sent =>
                          x[4].cookie < load[x[4].id].gen
    <2> SUFFICES ASSUME NEW x \in InFlight'
                 PROVE  /\ Key(x[4]) # Key(r)
                        /\ IF x[4].write
                             THEN x[4].id \in SbIds /\ x[4].cookie = 0 /\ sb[x[4].id].sent
                             ELSE /\ x[4].id \in LoadIds
                                  /\ x[4].cookie <= load[x[4].id].gen
                                  /\ load[x[4].id].busy /\ ~load[x[4].id].sent =>
                                       x[4].cookie < load[x[4].id].gen
      OBVIOUS
    <2>1. /\ x[4].write = g[x][4].write /\ x[4].id = g[x][4].id
          /\ x[4].cookie = g[x][4].cookie
      BY <1>20, KeyFields
    <2> QED
      BY <1>19, <1>20, <2>1 DEF RequestInv, RequestsAreKnown
  <1>22. CASE r.write
    <2>1. r.id \in SbIds /\ r.cookie = 0
      BY <1>6, <1>22 DEF RequestInv, RequestsAreKnown
    <2>2. sb' = [sb EXCEPT ![r.id] = FreeSb] /\ load' = load
      BY <1>3, <1>22 DEF ApplyResp
    <2>3. /\ ~sb'[r.id].sent /\ ~sb'[r.id].valid
          /\ \A i \in SbIds : i # r.id => sb'[i] = sb[i]
      BY <1>1, <2>1, <2>2 DEF FreeSb
    <2>4. RequestsAreKnown'
      <3> SUFFICES ASSUME NEW x \in InFlight'
                   PROVE  IF x[4].write
                            THEN x[4].id \in SbIds /\ x[4].cookie = 0 /\ sb'[x[4].id].sent
                            ELSE /\ x[4].id \in LoadIds /\ x[4].cookie <= load[x[4].id].gen
                                 /\ load[x[4].id].busy /\ ~load[x[4].id].sent =>
                                      x[4].cookie < load[x[4].id].gen
        BY <2>2 DEF RequestsAreKnown
      <3>1. CASE x[4].write
        <4>1. r.write \in BOOLEAN /\ x[4].write \in BOOLEAN
          <5>1. g[x][4] \in Reqs
            BY <1>20, InFlightAreRequests
          <5> QED
            BY <1>20, <5>1, KeyFields DEF Reqs
        <4>2. x[4].id # r.id
          BY <1>21, <1>22, <2>1, <3>1, <4>1 DEF Key
        <4> QED
          BY <1>21, <2>3, <3>1, <4>2
      <3>2. CASE ~x[4].write
        BY <1>21, <3>2
      <3> QED
        BY <3>1, <3>2
    <2>5. SentAreInFlight'
      <3>1. \A i \in SbIds : sb'[i].sent => \E x \in InFlight' : Key(x[4]) = <<TRUE, i, 0>>
        <4> SUFFICES ASSUME NEW i \in SbIds, sb'[i].sent
                     PROVE  \E x \in InFlight' : Key(x[4]) = <<TRUE, i, 0>>
          OBVIOUS
        <4>1. i # r.id /\ sb[i].sent
          BY <2>3
        <4>2. \E y \in InFlight : Key(y[4]) = <<TRUE, i, 0>>
          BY <4>1 DEF RequestInv, SentAreInFlight
        <4>3. <<TRUE, i, 0>> # Key(r)
          BY <4>1 DEF Key
        <4> QED
          BY <1>20, <4>2, <4>3
      <3>2. \A l \in LoadIds : load'[l].busy /\ load'[l].sent =>
              \E x \in InFlight' : Key(x[4]) = <<FALSE, l, load'[l].gen>>
        <4> SUFFICES ASSUME NEW l \in LoadIds, load[l].busy, load[l].sent
                     PROVE  \E x \in InFlight' : Key(x[4]) = <<FALSE, l, load[l].gen>>
          BY <2>2
        <4>1. \E y \in InFlight : Key(y[4]) = <<FALSE, l, load[l].gen>>
          BY DEF RequestInv, SentAreInFlight
        <4>2. <<FALSE, l, load[l].gen>> # Key(r)
          BY <1>22 DEF Key
        <4> QED
          BY <1>20, <4>1, <4>2
      <3> QED
        BY <3>1, <3>2 DEF SentAreInFlight, Key
    <2>6. SlotsAreFree'
      <3>1. \A i \in SbIds : sb'[i].sent => sb'[i].valid
        BY <2>3 DEF RequestInv, SlotsAreFree
      <3>2. \A i \in SbIds : sb'[i].valid => sb[i].valid
        BY <2>3
      <3> QED
        BY <1>5, <3>1, <3>2 DEF RequestInv, SlotsAreFree, SbAt
    <2> QED
      BY <1>17, <1>18, <2>4, <2>5, <2>6 DEF RequestInv
  <1>23. CASE ~r.write
    <2>1. PICK l \in LoadIds : l = r.id
      BY <1>6, <1>23 DEF RequestInv, RequestsAreKnown
    <2>2. /\ sb' = sb
          /\ load' = IF Answers(r) THEN [load EXCEPT ![l].busy = FALSE, ![l].sent = FALSE]
                     ELSE load
      BY <1>3, <1>23, <2>1 DEF ApplyResp
    <2>3. /\ load'[l].gen = load[l].gen
          /\ load'[l].busy => ~Answers(r) /\ load' = load
          /\ \A k \in LoadIds : k # l => load'[k] = load[k]
      <3>1. CASE ~Answers(r)
        BY <2>2, <3>1
      <3>2. CASE Answers(r)
        <4> DEFINE f == [load EXCEPT ![l].busy = FALSE]
        <4>1. /\ f \in [LoadIds -> LoadStates] /\ ~f[l].busy /\ f[l].gen = load[l].gen
              /\ \A k \in LoadIds : k # l => f[k] = load[k]
          BY <1>1 DEF LoadStates
        <4>2. load' = [f EXCEPT ![l].sent = FALSE]
          BY <2>2, <3>2
        <4> HIDE DEF f
        <4>3. /\ ~load'[l].busy /\ load'[l].gen = load[l].gen
              /\ \A k \in LoadIds : k # l => load'[k] = load[k]
          BY <4>1, <4>2 DEF LoadStates
        <4> QED
          BY <4>3
      <3> QED
        BY <3>1, <3>2
    <2>4. \A k \in LoadIds : load'[k].gen = load[k].gen /\ (load'[k].busy => load'[k] = load[k])
      BY <2>3
    <2>5. RequestsAreKnown'
      <3> SUFFICES ASSUME NEW x \in InFlight'
                   PROVE  IF x[4].write
                            THEN x[4].id \in SbIds /\ x[4].cookie = 0 /\ sb[x[4].id].sent
                            ELSE /\ x[4].id \in LoadIds /\ x[4].cookie <= load'[x[4].id].gen
                                 /\ load'[x[4].id].busy /\ ~load'[x[4].id].sent =>
                                      x[4].cookie < load'[x[4].id].gen
        BY <2>2 DEF RequestsAreKnown
      <3>1. CASE x[4].write
        BY <1>21, <3>1
      <3>2. CASE ~x[4].write
        BY <1>21, <2>4, <3>2
      <3> QED
        BY <3>1, <3>2
    <2>6. SentAreInFlight'
      <3>1. \A i \in SbIds : sb'[i].sent => \E x \in InFlight' : Key(x[4]) = <<TRUE, i, 0>>
        <4> SUFFICES ASSUME NEW i \in SbIds, sb[i].sent
                     PROVE  \E x \in InFlight' : Key(x[4]) = <<TRUE, i, 0>>
          BY <2>2
        <4>1. \E y \in InFlight : Key(y[4]) = <<TRUE, i, 0>>
          BY DEF RequestInv, SentAreInFlight
        <4>2. <<TRUE, i, 0>> # Key(r)
          BY <1>23 DEF Key
        <4> QED
          BY <1>20, <4>1, <4>2
      <3>2. \A k \in LoadIds : load'[k].busy /\ load'[k].sent =>
              \E x \in InFlight' : Key(x[4]) = <<FALSE, k, load'[k].gen>>
        <4> SUFFICES ASSUME NEW k \in LoadIds, load'[k].busy, load'[k].sent
                     PROVE  \E x \in InFlight' : Key(x[4]) = <<FALSE, k, load'[k].gen>>
          OBVIOUS
        <4>1. load'[k] = load[k]
          BY <2>4
        <4>2. \E y \in InFlight : Key(y[4]) = <<FALSE, k, load[k].gen>>
          BY <4>1 DEF RequestInv, SentAreInFlight
        <4>3. <<FALSE, k, load[k].gen>> # Key(r)
          BY <2>1, <2>3, <4>1 DEF Key, Answers
        <4> QED
          BY <1>20, <4>1, <4>2, <4>3
      <3> QED
        BY <3>1, <3>2 DEF SentAreInFlight, Key
    <2>7. SlotsAreFree'
      BY <1>5, <2>2 DEF RequestInv, SlotsAreFree, SbAt
    <2> QED
      BY <1>17, <1>18, <2>5, <2>6, <2>7 DEF RequestInv
  <1>24. QED
    BY <1>22, <1>23

(* Moving the head of the ring moves the positions.                        *)
LEMMA RingShift ==
  ASSUME NEW d \in Nat \ {0}, NEW h \in 0 .. d - 1, NEW n \in 0 .. d, NEW j \in 0 .. d - 1,
         n + j <= d
  PROVE  (((h + n) % d) + j) % d = (h + (n + j)) % d
  <1>1. \A x \in 0 .. 2 * d - 1 : x % d = IF x < d THEN x ELSE x - d
    OBVIOUS
  <1>2. h + n \in 0 .. 2 * d - 1 /\ h + (n + j) \in 0 .. 2 * d - 1
    OBVIOUS
  <1>3. CASE h + n < d
    <2>1. (h + n) % d = h + n
      BY <1>1, <1>2, <1>3
    <2>2. h + n + j = h + (n + j)
      OBVIOUS
    <2> QED
      BY <2>1, <2>2
  <1>4. CASE h + n >= d
    <2>1. (h + n) % d = h + n - d
      BY <1>1, <1>2, <1>4
    <2>2. (h + (n + j)) % d = h + (n + j) - d
      BY <1>1, <1>2, <1>4
    <2>3. h + n - d + j \in 0 .. 2 * d - 1 /\ h + n - d + j < d
          /\ h + n - d + j = h + (n + j) - d
      BY <1>4
    <2>4. (h + n - d + j) % d = h + n - d + j
      BY <1>1, <2>3
    <2> QED
      BY <2>1, <2>2, <2>3, <2>4
  <1>5. QED
    BY <1>3, <1>4

(* The holes at the head of the store buffer go: the stores behind them    *)
(* keep their slots.                                                       *)
LEMMA EndIssueRequests ==
  ASSUME OwnerInv, RequestInv, EndIssue
  PROVE  RequestInv'
  <1>1. sb_head \in SbIds /\ sb_count \in 0 .. SbDepth
    BY DEF OwnerInv, Shapes
  <1>2. PICK n \in 0 .. SbDepth : n = Holes /\ n <= sb_count
    BY <1>1, HolesAreCounted, ConstantsArePositive
  <1>3. /\ UNCHANGED <<pipe, hit_pend, resp_q, mshr, load, sb>>
        /\ sb_head' = (sb_head + n) % SbDepth /\ sb_count' = sb_count - n
    <2>1. sb_head' = SbAt(Holes) /\ sb_count' = sb_count - Holes
      BY DEF EndIssue, Holes, Kept
    <2>2. UNCHANGED <<pipe, hit_pend, resp_q, mshr, load, sb>>
      BY DEF EndIssue, tableVars, portVars
    <2> QED
      BY <1>2, <2>1, <2>2 DEF SbAt
  <1>4. InFlight' = InFlight
    BY <1>3, RequestsStay
  <1>5. PortsHaveOne' /\ RequestsDiffer' /\ RequestsAreKnown'
    BY <1>3, <1>4 DEF RequestInv, PortsHaveOne, RequestsDiffer, Key, RequestsAreKnown
  <1>6. SentAreInFlight'
    <2>1. \A i \in SbIds : sb'[i].sent => \E x \in InFlight' : Key(x[4]) = <<TRUE, i, 0>>
      BY <1>3, <1>4 DEF RequestInv, SentAreInFlight
    <2>2. \A l \in LoadIds : load'[l].busy /\ load'[l].sent =>
            \E x \in InFlight' : Key(x[4]) = <<FALSE, l, load'[l].gen>>
      BY <1>3, <1>4 DEF RequestInv, SentAreInFlight
    <2> QED
      BY <2>1, <2>2 DEF SentAreInFlight, Key
  <1>7. \A i \in SbIds : sb[i].valid =>
          \E k \in 0 .. sb_count' - 1 : i = (sb_head' + k) % SbDepth
    <2> SUFFICES ASSUME NEW i \in SbIds, sb[i].valid
                 PROVE  \E k \in 0 .. sb_count' - 1 : i = (sb_head' + k) % SbDepth
      OBVIOUS
    <2>1. PICK k \in 0 .. sb_count - 1 : i = SbAt(k)
      BY DEF RequestInv, SlotsAreFree
    <2>2. k >= n
      BY <1>1, <1>2, <2>1, HolesAreCounted
    <2>3. PICK j \in 0 .. SbDepth, h \in Nat, d \in Nat \ {0}, t \in 0 .. SbDepth :
            j = k - n /\ h = sb_head /\ d = SbDepth /\ h < d /\ t = sb_count /\ k < t
      BY <1>1, <2>1, <2>2, ConstantsArePositive DEF SbIds
    <2>4. j \in 0 .. sb_count' - 1
      BY <1>3, <2>1, <2>3
    <2>5. h \in 0 .. d - 1 /\ n \in 0 .. d /\ j \in 0 .. d - 1 /\ n + j <= d /\ k = n + j
      BY <1>2, <2>1, <2>2, <2>3
    <2>6. (((h + n) % d) + j) % d = (h + k) % d
      BY <2>5, RingShift
    <2> QED
      BY <1>3, <2>1, <2>3, <2>4, <2>6 DEF SbAt
  <1>8. SlotsAreFree'
    BY <1>3, <1>7 DEF RequestInv, SlotsAreFree, SbAt
  <1>9. QED
    BY <1>5, <1>6, <1>8 DEF RequestInv

-------------------------------------------------------------------------------
(* Every step.                                                             *)

(* The invariant is inductive.                                             *)
LEMMA RequestNext == OwnerInv /\ RequestInv /\ [CacheNext]_vars => RequestInv'
  <1> SUFFICES ASSUME OwnerInv, RequestInv, [CacheNext]_vars PROVE RequestInv'
    OBVIOUS
  <1>1. ASSUME NEW a \in Words, NEW v \in Val, NewStore(a, v)
        PROVE  RequestInv'
    BY <1>1, NewStoreRequests
  <1>2. ASSUME \/ \E l \in LoadIds, a \in Words : NewLoad(l, a)
               \/ \E l \in LoadIds : SquashLoad(l)
        PROVE  RequestInv'
    BY <1>2, LoadSlotRequests
  <1>3. CASE IssueStore
    BY <1>3, IssueStoreRequests
  <1>4. ASSUME NEW l \in LoadIds, IssueLoad(l)
        PROVE  RequestInv'
    BY <1>4, IssueLoadRequests
  <1>5. CASE EndIssue
    BY <1>5, EndIssueRequests
  <1>6. CASE ApplyResp
    BY <1>6, ApplyRespRequests
  <1>7. ASSUME NEW finished \in BOOLEAN, NEW hits \in SUBSET PortIds, DramTick(finished, hits)
        PROVE  RequestInv'
    BY <1>7, DramTickRequests
  <1>8. CASE ProcessPipe
    BY <1>8, ProcessPipeRequests
  <1>9. CASE StepDrain
    BY <1>9, StepDrainRequests
  <1>10. CASE \/ BeginTick \/ DramAccept \/ NoDramAccept \/ EndPipes \/ CompleteFill
              \/ EndResps \/ UNCHANGED vars
    BY <1>10, QuietRequests
  <1>11. QED
    BY <1>1, <1>2, <1>3, <1>4, <1>5, <1>6, <1>7, <1>8, <1>9, <1>10 DEF CacheNext

(* In every state, the requests on their way are different ones, and those *)
(* the load/store queue waits for are among them.                          *)
THEOREM RequestInvariant == CacheSpec => []RequestInv
  <1> QED
    BY RequestInit, RequestNext, CacheInvariant, PTL DEF CacheSpec

(* As long as the queue waits for an answer there is exactly one request   *)
(* on its way to give it, through held pipes, waiting lists, the drain and *)
(* the hits that answer late.                                              *)
THEOREM RequestsAreAnsweredOnce == CacheSpec => []EachRequestOnce
  <1>1. OwnerInv /\ RequestInv => EachRequestOnce
    <2> SUFFICES ASSUME OwnerInv, RequestInv PROVE EachRequestOnce
      OBVIOUS
    <2>1. Cardinality({}) = 0 /\ \A x : Cardinality({x}) = 1
      BY FS_EmptySet, FS_Singleton
    <2>2. \A x \in InFlight : x[4].write \in BOOLEAN
      BY InFlightAreRequests DEF Reqs
    <2>3. ASSUME NEW i \in SbIds
          PROVE  Cardinality(StoresOf(i)) = IF sb[i].sent THEN 1 ELSE 0
      <3>1. \A x \in InFlight : x \in StoresOf(i) <=> Key(x[4]) = <<TRUE, i, 0>>
        BY <2>2 DEF StoresOf, Key, RequestInv, RequestsAreKnown
      <3>2. CASE sb[i].sent
        <4>1. PICK x \in InFlight : Key(x[4]) = <<TRUE, i, 0>>
          BY <3>2 DEF RequestInv, SentAreInFlight
        <4>2. StoresOf(i) = {x}
          BY <3>1, <4>1 DEF RequestInv, RequestsDiffer, StoresOf
        <4> QED
          BY <2>1, <3>2, <4>2
      <3>3. CASE ~sb[i].sent
        <4>1. StoresOf(i) = {}
          BY <3>3 DEF StoresOf, RequestInv, RequestsAreKnown
        <4> QED
          BY <2>1, <3>3, <4>1
      <3> QED
        BY <3>2, <3>3
    <2>4. ASSUME NEW l \in LoadIds, load[l].busy
          PROVE  Cardinality(LoadsOf(l)) = IF load[l].sent THEN 1 ELSE 0
      <3>1. \A x \in InFlight : x \in LoadsOf(l) <=> Key(x[4]) = <<FALSE, l, load[l].gen>>
        BY <2>2 DEF LoadsOf, Key
      <3>2. CASE load[l].sent
        <4>1. PICK x \in InFlight : Key(x[4]) = <<FALSE, l, load[l].gen>>
          BY <2>4, <3>2 DEF RequestInv, SentAreInFlight
        <4>2. LoadsOf(l) = {x}
          BY <3>1, <4>1 DEF RequestInv, RequestsDiffer, LoadsOf
        <4> QED
          BY <2>1, <3>2, <4>2
      <3>3. CASE ~load[l].sent
        <4>1. load[l].gen \in Nat
          BY DEF OwnerInv, Shapes, LoadStates
        <4>2. LoadsOf(l) = {}
          BY <2>4, <3>3, <4>1 DEF LoadsOf, RequestInv, RequestsAreKnown
        <4> QED
          BY <2>1, <3>3, <4>2
      <3> QED
        BY <3>2, <3>3
    <2> QED
      BY <2>3, <2>4 DEF EachRequestOnce
  <1>2. QED
    BY <1>1, CacheInvariant, RequestInvariant, PTL
================================================================================
