--------------------------- MODULE CachedFetchProofs ---------------------------
(***************************************************************************)
(* Proofs about the instruction cache and fetch on top of it, for any      *)
(* program, width and geometry.                                            *)
(***************************************************************************)
EXTENDS CachedFetch, FiniteSetTheorems, SequenceTheorems, WellFoundedInduction, TLAPS

(* What the members of the cache hold.                                     *)
Answer(pc) == BuildResp(pc, LineOf(pc))

WayStates  == [valid : BOOLEAN, reserved : BOOLEAN, tag : Nat, data : Nat]
MshrStates == [st : {"free", "wanted", "sent", "ready"}, line : Nat, pc : Nat,
               way : WayIds, waiter : BOOLEAN, drop : BOOLEAN, data : Nat]
HitStates  == [valid : BOOLEAN, drop : BOOLEAN, left : 0 .. HitLatency, pc : Nat,
               data : Nat]
RespStates == {NoResp} \cup {Answer(pc) : pc \in Nat}
DramStates == [mshr : 0 .. Mshrs, line : Nat]
Caches ==
  [way : [WayIds -> WayStates], mshr : [MshrIds -> MshrStates], pipe : Nat \cup {NoPc},
   hit : HitStates, resp : RespStates, dram : DramStates]

CanHit(c, w) == c.way[w].valid /\ ~c.way[w].reserved
LineIn(c, w) == c.way[w].tag * Sets + w[1]
Busy(c, i)   == c.mshr[i].st # "free"

(* A way that can be hit has its line's data, and no other one has that    *)
(* line; a register in use has a line of its own, in no way, and a         *)
(* reserved way of its own in that line's set.                             *)
LinesOk(c) ==
  /\ \A w \in WayIds : CanHit(c, w) => c.way[w].data = LineIn(c, w)
  /\ \A v, w \in WayIds :
       CanHit(c, v) /\ CanHit(c, w) /\ LineIn(c, v) = LineIn(c, w) => v = w
  /\ \A i \in MshrIds : Busy(c, i) =>
       /\ c.way[c.mshr[i].way].reserved
       /\ c.mshr[i].way[1] = SetOf(c.mshr[i].line)
       /\ \A w \in WayIds : CanHit(c, w) => LineIn(c, w) # c.mshr[i].line
  /\ \A i, j \in MshrIds : Busy(c, i) /\ Busy(c, j) /\ i # j =>
       c.mshr[i].way # c.mshr[j].way /\ c.mshr[i].line # c.mshr[j].line

(* What is going to be answered is the line of the pc that asked for it.   *)
DataOk(c) ==
  /\ c.hit.valid => c.hit.data = LineOf(c.hit.pc)
  /\ \A i \in MshrIds :
       /\ c.mshr[i].waiter => /\ Busy(c, i) /\ ~c.mshr[i].drop
                              /\ LineOf(c.mshr[i].pc) = c.mshr[i].line
       /\ c.mshr[i].st = "ready" => c.mshr[i].data = c.mshr[i].line
  /\ c.dram # NoDram => /\ c.dram.mshr \in MshrIds
                        /\ c.mshr[c.dram.mshr].st = "sent"
                        /\ c.dram.line = c.mshr[c.dram.mshr].line

(* A request is in one place.                                              *)
NoWaiter(c) == \A i \in MshrIds : ~c.mshr[i].waiter
OneAsked(c) ==
  /\ c.pipe # NoPc => ~c.hit.valid /\ c.resp = NoResp /\ NoWaiter(c)
  /\ c.hit.valid => c.resp = NoResp /\ NoWaiter(c)
  /\ c.resp # NoResp => NoWaiter(c)
  /\ \A i, j \in MshrIds : c.mshr[i].waiter /\ c.mshr[j].waiter => i = j

(* The cache is working on the request for q, or on none.                  *)
Idle(c) == /\ c.pipe = NoPc /\ (c.hit.valid => c.hit.drop)
           /\ c.resp = NoResp /\ NoWaiter(c)
Asked(c, q) == \/ c.pipe = q
               \/ c.hit.valid /\ ~c.hit.drop /\ c.hit.pc = q
               \/ c.resp # NoResp /\ c.resp.pc = q
               \/ \E i \in MshrIds : c.mshr[i].waiter /\ c.mshr[i].pc = q
Serves(c, q) == (q = NoPc => Idle(c)) /\ (q # NoPc => Asked(c, q))

GoodCache(c, q) ==
  c \in Caches /\ LinesOk(c) /\ DataOk(c) /\ OneAsked(c) /\ Serves(c, q)

-------------------------------------------------------------------------------
(* Constants, addresses and minima.                                        *)

(* The sizes of the cache are positive numbers.                            *)
LEMMA ConstantsArePositive ==
  /\ LineWords \in Nat /\ LineWords > 0 /\ Sets \in Nat /\ Sets > 0
  /\ Ways \in Nat /\ Ways > 0 /\ Mshrs \in Nat /\ Mshrs > 0
  /\ HitLatency \in Nat /\ HitLatency > 0 /\ Width \in Nat /\ Width > 0
  BY InstructionCacheAssumption

(* A quotient and a remainder by a positive number.                        *)
LEMMA DivisionFacts ==
  ASSUME NEW n \in Nat, NEW d \in Nat, d > 0
  PROVE  n \div d \in Nat /\ n % d \in 0 .. d - 1 /\ n = (n \div d) * d + (n % d)
  <1> DEFINE q == n \div d
             r == n % d
  <1>1. q \in Nat /\ r \in 0 .. d - 1 /\ n = d * q + r
    OBVIOUS
  <1> HIDE DEF q, r
  <1>2. d * q = q * d
    BY <1>1
  <1>3. n = q * d + r
    BY <1>1, <1>2
  <1> QED
    BY <1>1, <1>3 DEF q, r

(* They are determined by what they are the quotient and remainder of.     *)
LEMMA DivisionIsUnique ==
  ASSUME NEW d \in Nat, d > 0, NEW p \in Nat, NEW q \in Nat,
         NEW r \in 0 .. d - 1, NEW s \in 0 .. d - 1, p * d + r = q * d + s
  PROVE  p = q /\ r = s
  <1>1. ASSUME NEW x \in Nat, NEW y \in Nat, x < y,
               NEW u \in 0 .. d - 1, NEW v \in 0 .. d - 1
        PROVE  x * d + u # y * d + v
    <2>1. PICK k \in Nat : y = x + k + 1
      <3>1. y - x - 1 \in Nat /\ y = x + (y - x - 1) + 1
        BY <1>1
      <3> QED
        BY <3>1
    <2>2. (x + k + 1) * d = x * d + k * d + d
      OBVIOUS
    <2>3. x * d \in Nat /\ k * d \in Nat /\ y * d \in Nat
      OBVIOUS
    <2> QED
      BY <2>1, <2>2, <2>3
  <1>2. ~(p < q) /\ ~(q < p)
    BY <1>1
  <1>3. p = q
    BY <1>2
  <1>4. p * d \in Nat
    OBVIOUS
  <1> QED
    BY <1>3, <1>4

(* A line is named by its tag and its set.                                 *)
LEMMA LineNames ==
  ASSUME NEW line \in Nat
  PROVE  /\ TagOf(line) \in Nat /\ SetOf(line) \in 0 .. Sets - 1
         /\ TagOf(line) * Sets + SetOf(line) = line
         /\ \A t \in Nat, s \in 0 .. Sets - 1 :
              t * Sets + s = line => t = TagOf(line) /\ s = SetOf(line)
  <1>1. /\ TagOf(line) \in Nat /\ SetOf(line) \in 0 .. Sets - 1
        /\ TagOf(line) * Sets + SetOf(line) = line
    BY ConstantsArePositive, DivisionFacts DEF TagOf, SetOf
  <1>2. ASSUME NEW t \in Nat, NEW s \in 0 .. Sets - 1, t * Sets + s = line
        PROVE  t = TagOf(line) /\ s = SetOf(line)
    <2>1. t * Sets + s = TagOf(line) * Sets + SetOf(line)
      BY <1>1, <1>2
    <2> QED
      BY <1>1, <2>1, DivisionIsUnique, ConstantsArePositive
  <1> QED
    BY <1>1, <1>2

(* A way is in a set and has a place in it.                                *)
LEMMA WayFacts ==
  /\ \A w \in WayIds : w[1] \in 0 .. Sets - 1 /\ w[2] \in 1 .. Ways
  /\ <<0, 1>> \in WayIds
  BY ConstantsArePositive DEF WayIds

(* The lowest of some numbers.                                             *)
LEMMA MinimumExists ==
  ASSUME NEW S \in SUBSET Nat, S # {}
  PROVE  \E m \in S : \A k \in S : m <= k
  <1>1. PICK m \in S : \A k \in S : ~(<<k, m>> \in OpToRel(<, Nat))
    BY NatLessThanWellFounded, WFMin
  <1>2. \A k \in S : ~(k < m)
    BY <1>1 DEF OpToRel
  <1>3. QED
    BY <1>2

(* An answer holds the words from its pc on, at least one and at most the  *)
(* fetch width.                                                            *)
LEMMA AnswerFacts ==
  ASSUME NEW pc \in Nat
  PROVE  /\ LineOf(pc) \in Nat
         /\ Answer(pc) # NoResp /\ Answer(pc).pc = pc
         /\ \E n \in 1 .. Width : Answer(pc).words = [i \in 1 .. n |-> pc + i - 1]
  <1> DEFINE q   == LineOf(pc)
             off == pc - q * LineWords
             n   == IF LineWords - off < Width THEN LineWords - off ELSE Width
  <1>1. q \in Nat /\ off \in 0 .. LineWords - 1 /\ q * LineWords \in Nat
        /\ pc = q * LineWords + off
    <2>1. q \in Nat /\ pc % LineWords \in 0 .. LineWords - 1
          /\ pc = q * LineWords + (pc % LineWords)
      BY DivisionFacts, ConstantsArePositive DEF LineOf
    <2> HIDE DEF q
    <2>2. q * LineWords \in Nat
      BY <2>1, ConstantsArePositive
    <2> QED
      BY <2>1, <2>2, ConstantsArePositive
  <1>2. n \in 1 .. Width
    BY <1>1, ConstantsArePositive
  <1>3. Answer(pc) = [pc |-> pc, words |-> [i \in 1 .. n |-> q * LineWords + off + i - 1]]
    BY DEF Answer, BuildResp
  <1> HIDE DEF q, off, n
  <1>4. [i \in 1 .. n |-> q * LineWords + off + i - 1] = [i \in 1 .. n |-> pc + i - 1]
    BY <1>1
  <1>5. Answer(pc).pc = pc /\ NoResp.pc = -1
    BY <1>3 DEF NoResp, NoPc
  <1> QED
    BY <1>1, <1>2, <1>3, <1>4, <1>5 DEF q

-------------------------------------------------------------------------------
(* The first cache.                                                        *)

(* Before the first request the cache is empty and waits for none.         *)
LEMMA GoodInit == IcInit => GoodCache(ic, NoPc)
  <1> SUFFICES ASSUME IcInit PROVE GoodCache(ic, NoPc)
    OBVIOUS
  <1>1. NoWay \in WayStates /\ NoMshr \in MshrStates /\ NoHit \in HitStates
        /\ NoResp \in RespStates /\ NoDram \in DramStates
    BY WayFacts, ConstantsArePositive
       DEF NoWay, NoMshr, NoHit, NoDram, WayStates, MshrStates, HitStates, RespStates,
           DramStates
  <1>2. /\ ic.way = [w \in WayIds |-> NoWay] /\ ic.mshr = [i \in MshrIds |-> NoMshr]
        /\ ic.pipe = NoPc /\ ic.hit = NoHit /\ ic.resp = NoResp /\ ic.dram = NoDram
        /\ ic = [way |-> ic.way, mshr |-> ic.mshr, pipe |-> ic.pipe, hit |-> ic.hit,
                 resp |-> ic.resp, dram |-> ic.dram]
    BY DEF IcInit
  <1>3. ic \in Caches
    BY <1>1, <1>2 DEF Caches
  <1>4. /\ \A w \in WayIds : ~CanHit(ic, w)
        /\ \A i \in MshrIds : ~Busy(ic, i) /\ ~ic.mshr[i].waiter
        /\ ~ic.hit.valid
    BY <1>2 DEF CanHit, Busy, NoWay, NoMshr, NoHit
  <1>5. LinesOk(ic)
    BY <1>4 DEF LinesOk
  <1>6. DataOk(ic)
    BY <1>2, <1>4 DEF DataOk, Busy
  <1>7. OneAsked(ic) /\ Serves(ic, NoPc)
    BY <1>2, <1>4 DEF OneAsked, Serves, Idle, NoWaiter
  <1> QED
    BY <1>3, <1>5, <1>6, <1>7 DEF GoodCache



-------------------------------------------------------------------------------
(* Caches that differ in some members.                                     *)

(* A cache is its members.                                                 *)
LEMMA CacheFields ==
  ASSUME NEW c \in Caches
  PROVE  /\ c.way \in [WayIds -> WayStates] /\ c.mshr \in [MshrIds -> MshrStates]
         /\ c.pipe \in Nat \cup {NoPc} /\ c.hit \in HitStates
         /\ c.resp \in RespStates /\ c.dram \in DramStates
         /\ c = [way |-> c.way, mshr |-> c.mshr, pipe |-> c.pipe, hit |-> c.hit,
                 resp |-> c.resp, dram |-> c.dram]
  BY DEF Caches

(* The state of the lines is that of ways and registers.                   *)
LEMMA LinesSame ==
  ASSUME NEW c, NEW d, d.way = c.way, d.mshr = c.mshr, LinesOk(c)
  PROVE  LinesOk(d)
  BY DEF LinesOk, CanHit, LineIn, Busy

(* The hit found earlier counts its latency down and answers, unless a     *)
(* redirect has come in between.                                           *)
LEMMA EmitHitGood ==
  ASSUME NEW c, NEW q, GoodCache(c, q)
  PROVE  GoodCache(EmitHit(c), q)
  <1> DEFINE left == IF c.hit.left > 0 THEN c.hit.left - 1 ELSE 0
  <1>1. /\ c \in Caches /\ LinesOk(c) /\ DataOk(c) /\ OneAsked(c) /\ Serves(c, q)
        /\ c.hit \in HitStates /\ c.resp \in RespStates /\ c.pipe \in Nat \cup {NoPc}
    BY CacheFields DEF GoodCache
  <1>2. /\ c.hit.valid \in BOOLEAN /\ c.hit.drop \in BOOLEAN /\ c.hit.left \in 0 .. HitLatency
        /\ c.hit.pc \in Nat /\ c.hit.data \in Nat
    BY <1>1 DEF HitStates
  <1>3. left \in 0 .. HitLatency
    BY <1>2, ConstantsArePositive
  <1>4. NoHit \in HitStates /\ ~NoHit.valid
    BY ConstantsArePositive DEF NoHit, HitStates
  <1> HIDE DEF left
  <1>5. CASE ~c.hit.valid
    <2>1. EmitHit(c) = c
      BY <1>5 DEF EmitHit
    <2> QED
      BY <2>1
  <1>6. CASE c.hit.valid /\ left > 0
    <2> DEFINE h == [c.hit EXCEPT !.left = left]
               d == [c EXCEPT !.hit.left = left]
    <2>1. /\ h \in HitStates /\ h.valid = c.hit.valid /\ h.drop = c.hit.drop
          /\ h.pc = c.hit.pc /\ h.data = c.hit.data
      BY <1>1, <1>3 DEF HitStates
    <2> HIDE DEF h
    <2>2. /\ d \in Caches /\ d.way = c.way /\ d.mshr = c.mshr /\ d.dram = c.dram
          /\ d.pipe = c.pipe /\ d.hit = h /\ d.resp = c.resp
      BY <1>1, <2>1 DEF Caches, h
    <2>3. EmitHit(c) = d
      BY <1>6 DEF EmitHit, left
    <2> HIDE DEF d
    <2>4. LinesOk(d)
      BY <1>1, <2>2, LinesSame
    <2>5. DataOk(d) /\ OneAsked(d) /\ Serves(d, q)
      BY <1>1, <2>1, <2>2 DEF DataOk, OneAsked, Serves, Idle, Asked, NoWaiter, Busy
    <2> QED
      BY <2>2, <2>3, <2>4, <2>5 DEF GoodCache
  <1>7. CASE c.hit.valid /\ left = 0 /\ c.hit.drop
    <2> DEFINE d == [c EXCEPT !.hit = NoHit]
    <2>2. /\ d \in Caches /\ d.way = c.way /\ d.mshr = c.mshr /\ d.dram = c.dram
          /\ d.pipe = c.pipe /\ d.hit = NoHit /\ d.resp = c.resp
      BY <1>1, <1>4 DEF Caches
    <2>3. EmitHit(c) = d
      BY <1>7 DEF EmitHit, left
    <2> HIDE DEF d
    <2>4. LinesOk(d)
      BY <1>1, <2>2, LinesSame
    <2>5. DataOk(d) /\ OneAsked(d) /\ Serves(d, q)
      BY <1>1, <1>4, <1>7, <2>2 DEF DataOk, OneAsked, Serves, Idle, Asked, NoWaiter, Busy
    <2> QED
      BY <2>2, <2>3, <2>4, <2>5 DEF GoodCache
  <1>8. CASE c.hit.valid /\ left = 0 /\ ~c.hit.drop
    <2> DEFINE r == BuildResp(c.hit.pc, c.hit.data)
               d == [c EXCEPT !.resp = r, !.hit = NoHit]
    <2>1. c.resp = NoResp /\ NoWaiter(c) /\ c.pipe = NoPc /\ c.hit.data = LineOf(c.hit.pc)
      BY <1>1, <1>8 DEF OneAsked, DataOk
    <2>2. r = Answer(c.hit.pc) /\ r \in RespStates /\ r.pc = c.hit.pc /\ r # NoResp
      <3>1. r = Answer(c.hit.pc)
        BY <2>1 DEF Answer
      <3> QED
        BY <1>2, <3>1, AnswerFacts DEF RespStates
    <2>4. EmitHit(c) = d
      BY <1>8, <2>1 DEF EmitHit, left
    <2> HIDE DEF r
    <2>3. /\ d \in Caches /\ d.way = c.way /\ d.mshr = c.mshr /\ d.dram = c.dram
          /\ d.pipe = c.pipe /\ d.hit = NoHit /\ d.resp = r
      BY <1>1, <1>4, <2>2 DEF Caches
    <2> HIDE DEF d
    <2>5. LinesOk(d)
      BY <1>1, <2>3, LinesSame
    <2>6. DataOk(d)
      BY <1>1, <1>4, <2>3 DEF DataOk, Busy
    <2>7. OneAsked(d)
      BY <1>1, <1>4, <2>1, <2>3 DEF OneAsked, NoWaiter
    <2>8. Serves(d, q)
      <3>1. q = c.hit.pc /\ q # NoPc
        BY <1>1, <1>2, <1>8, <2>1 DEF Serves, Asked, Idle, NoWaiter, NoPc
      <3> QED
        BY <2>2, <2>3, <3>1 DEF Serves, Asked
    <2> QED
      BY <2>3, <2>4, <2>5, <2>6, <2>7, <2>8 DEF GoodCache
  <1> QED
    BY <1>2, <1>3, <1>5, <1>6, <1>7, <1>8

(* A register that stays in use keeps its line and its way.                *)
MissesStay(c, d) ==
  \A i \in MshrIds : Busy(d, i) => /\ Busy(c, i)
                                   /\ d.mshr[i].line = c.mshr[i].line
                                   /\ d.mshr[i].way = c.mshr[i].way

(* That is enough for the lines.                                           *)
LEMMA LinesKept ==
  ASSUME NEW c, NEW d, d.way = c.way, LinesOk(c), MissesStay(c, d)
  PROVE  LinesOk(d)
  BY DEF LinesOk, CanHit, LineIn, MissesStay

(* The parts of a cache and of one of its registers.                       *)
LEMMA MshrFields ==
  ASSUME NEW c \in Caches, NEW i \in MshrIds
  PROVE  /\ c.mshr[i] \in MshrStates /\ c.mshr[i].line \in Nat /\ c.mshr[i].pc \in Nat
         /\ c.mshr[i].way \in WayIds /\ c.mshr[i].data \in Nat
         /\ c.mshr[i].waiter \in BOOLEAN /\ c.mshr[i].drop \in BOOLEAN
         /\ c.mshr[i].st \in {"free", "wanted", "sent", "ready"}
  <1>1. c.mshr[i] \in MshrStates
    BY DEF Caches
  <1> QED
    BY <1>1 DEF MshrStates

(* The parts of a way.                                                     *)
LEMMA WayFields ==
  ASSUME NEW c \in Caches, NEW w \in WayIds
  PROVE  /\ c.way[w] \in WayStates /\ c.way[w].tag \in Nat /\ c.way[w].data \in Nat
         /\ c.way[w].valid \in BOOLEAN /\ c.way[w].reserved \in BOOLEAN
  <1>1. c.way[w] \in WayStates
    BY DEF Caches
  <1> QED
    BY <1>1 DEF WayStates

(* A request in the compare pipe is the one the cache is working on.       *)
LEMMA PipeIsAsked ==
  ASSUME NEW c, NEW q, GoodCache(c, q), c.pipe # NoPc
  PROVE  q = c.pipe /\ c.pipe \in Nat /\ ~c.hit.valid /\ c.resp = NoResp /\ NoWaiter(c)
  <1>1. ~c.hit.valid /\ c.resp = NoResp /\ NoWaiter(c)
    BY DEF GoodCache, OneAsked
  <1>2. c.pipe \in Nat
    BY CacheFields DEF GoodCache
  <1>3. q = c.pipe
    BY <1>1 DEF GoodCache, Serves, Idle, Asked, NoWaiter
  <1> QED
    BY <1>1, <1>2, <1>3

(* The line of the request is in a way that can be hit.                    *)
LEMMA LookupHits ==
  ASSUME NEW c, NEW q, GoodCache(c, q), c.pipe # NoPc,
         NEW w \in Hits(c, LineOf(c.pipe)), NEW d,
         d = [c EXCEPT !.pipe = NoPc,
                       !.hit = [valid |-> TRUE, drop |-> FALSE, left |-> HitLatency,
                                pc |-> c.pipe, data |-> c.way[w].data]]
  PROVE  GoodCache(d, q)
  <1> DEFINE line == LineOf(c.pipe)
             h == [valid |-> TRUE, drop |-> FALSE, left |-> HitLatency,
                   pc |-> c.pipe, data |-> c.way[w].data]
  <1>1. /\ c \in Caches /\ LinesOk(c) /\ DataOk(c) /\ OneAsked(c)
        /\ q = c.pipe /\ c.pipe \in Nat /\ c.resp = NoResp /\ NoWaiter(c)
    BY PipeIsAsked DEF GoodCache
  <1>2. /\ w \in WayIds /\ w[1] = SetOf(line) /\ CanHit(c, w) /\ c.way[w].tag = TagOf(line)
    BY DEF Hits, CanHit
  <1>3. line \in Nat
    BY <1>1, AnswerFacts
  <1>4. c.way[w].data = line
    <2>1. c.way[w].data = LineIn(c, w)
      BY <1>1, <1>2 DEF LinesOk
    <2>2. LineIn(c, w) = line
      BY <1>2, <1>3, LineNames DEF LineIn
    <2> QED
      BY <2>1, <2>2
  <1>5. h \in HitStates /\ h.valid /\ ~h.drop /\ h.pc = c.pipe /\ h.data = line
    BY <1>1, <1>3, <1>4, ConstantsArePositive DEF HitStates
  <1>6. d = [c EXCEPT !.pipe = NoPc, !.hit = h]
    OBVIOUS
  <1> HIDE DEF h
  <1>7. /\ d \in Caches /\ d.way = c.way /\ d.mshr = c.mshr /\ d.dram = c.dram
        /\ d.pipe = NoPc /\ d.hit = h /\ d.resp = c.resp
    BY <1>1, <1>5, <1>6 DEF Caches
  <1>8. LinesOk(d)
    BY <1>1, <1>7, LinesSame
  <1>9. DataOk(d) /\ OneAsked(d)
    BY <1>1, <1>5, <1>7 DEF DataOk, OneAsked, NoWaiter, Busy
  <1>10. Serves(d, q)
    BY <1>1, <1>5, <1>7 DEF Serves, Asked, NoPc
  <1> QED
    BY <1>7, <1>8, <1>9, <1>10 DEF GoodCache

(* The line of the request is on its way: it joins the register.           *)
LEMMA LookupJoins ==
  ASSUME NEW c, NEW q, GoodCache(c, q), c.pipe # NoPc, NEW i \in MshrIds,
         Busy(c, i), c.mshr[i].line = LineOf(c.pipe), c.mshr[i].st # "ready", NEW d,
         d = [c EXCEPT !.pipe = NoPc, !.mshr[i] = Joined(@, c.pipe)]
  PROVE  GoodCache(d, q)
  <1> DEFINE m == Joined(c.mshr[i], c.pipe)
  <1>1. /\ c \in Caches /\ LinesOk(c) /\ DataOk(c) /\ OneAsked(c)
        /\ q = c.pipe /\ c.pipe \in Nat /\ ~c.hit.valid /\ c.resp = NoResp /\ NoWaiter(c)
    BY PipeIsAsked DEF GoodCache
  <1>2. /\ m \in MshrStates /\ m.st = c.mshr[i].st /\ m.line = c.mshr[i].line
        /\ m.way = c.mshr[i].way /\ m.data = c.mshr[i].data
        /\ m.pc = c.pipe /\ m.waiter /\ ~m.drop
    <2>1. c.mshr[i] \in MshrStates
      BY <1>1, MshrFields
    <2> QED
      BY <1>1, <2>1 DEF Joined, MshrStates
  <1> DEFINE ms == [c.mshr EXCEPT ![i] = m]
  <1>3. d = [c EXCEPT !.pipe = NoPc, !.mshr = ms]
    BY <1>1 DEF Caches
  <1> HIDE DEF m
  <1>4. /\ ms \in [MshrIds -> MshrStates] /\ ms[i] = m
        /\ \A j \in MshrIds : j # i => ms[j] = c.mshr[j]
    BY <1>1, <1>2, CacheFields
  <1> HIDE DEF ms
  <1>5. /\ d \in Caches /\ d.way = c.way /\ d.mshr = ms
        /\ d.dram = c.dram /\ d.pipe = NoPc /\ d.hit = c.hit /\ d.resp = c.resp
    BY <1>1, <1>3, <1>4 DEF Caches
  <1>6. LinesOk(d)
    <2>1. MissesStay(c, d)
      BY <1>2, <1>4, <1>5 DEF Busy, MissesStay
    <2> QED
      BY <1>1, <1>5, <2>1, LinesKept
  <1>7. DataOk(d)
    BY <1>1, <1>2, <1>4, <1>5 DEF DataOk, Busy
  <1>8. OneAsked(d)
    BY <1>1, <1>4, <1>5 DEF OneAsked, NoWaiter
  <1>9. Serves(d, q)
    BY <1>1, <1>2, <1>4, <1>5 DEF Serves, Asked, NoPc
  <1> QED
    BY <1>5, <1>6, <1>7, <1>8, <1>9 DEF GoodCache

(* The line of the request is nowhere: a register of its own and a way     *)
(* that is not reserved are taken for it.                                  *)
LEMMA LookupMisses ==
  ASSUME NEW c, NEW q, GoodCache(c, q), c.pipe # NoPc,
         Hits(c, LineOf(c.pipe)) = {},
         \A k \in MshrIds : Busy(c, k) => c.mshr[k].line # LineOf(c.pipe),
         NEW i \in MshrIds, ~Busy(c, i),
         NEW v \in WayIds, v[1] = SetOf(LineOf(c.pipe)), ~c.way[v].reserved, NEW d,
         d = [c EXCEPT !.pipe = NoPc,
                       !.way[v].reserved = TRUE,
                       !.mshr[i] = [NoMshr EXCEPT !.st = "wanted", !.line = LineOf(c.pipe),
                                      !.pc = c.pipe, !.way = v, !.waiter = TRUE]]
  PROVE  GoodCache(d, q)
  <1> DEFINE line == LineOf(c.pipe)
             m == [NoMshr EXCEPT !.st = "wanted", !.line = LineOf(c.pipe),
                      !.pc = c.pipe, !.way = v, !.waiter = TRUE]
             u == [c.way[v] EXCEPT !.reserved = TRUE]
  <1>1. /\ c \in Caches /\ LinesOk(c) /\ DataOk(c) /\ OneAsked(c)
        /\ q = c.pipe /\ c.pipe \in Nat /\ ~c.hit.valid /\ c.resp = NoResp /\ NoWaiter(c)
    BY PipeIsAsked DEF GoodCache
  <1>2. line \in Nat
    BY <1>1, AnswerFacts
  <1>3. /\ m \in MshrStates /\ m.st = "wanted" /\ m.line = line /\ m.way = v
        /\ m.pc = c.pipe /\ m.waiter /\ ~m.drop
    BY <1>1, <1>2 DEF NoMshr, MshrStates
  <1>4. u \in WayStates /\ u.reserved
    <2>1. c.way[v] \in WayStates
      BY <1>1, WayFields
    <2> QED
      BY <2>1 DEF WayStates
  <1> DEFINE ms == [c.mshr EXCEPT ![i] = m]
             ws == [c.way EXCEPT ![v] = u]
  <1>5. d = [c EXCEPT !.pipe = NoPc, !.way = ws, !.mshr = ms]
    BY <1>1 DEF Caches
  <1> HIDE DEF m, u
  <1>12. /\ ms \in [MshrIds -> MshrStates] /\ ms[i] = m
         /\ \A j \in MshrIds : j # i => ms[j] = c.mshr[j]
    BY <1>1, <1>3, CacheFields
  <1>13. /\ ws \in [WayIds -> WayStates] /\ ws[v] = u
         /\ \A w \in WayIds : w # v => ws[w] = c.way[w]
    BY <1>1, <1>4, CacheFields
  <1> HIDE DEF ms, ws
  <1>6. /\ d \in Caches /\ d.way = ws /\ d.mshr = ms
        /\ d.dram = c.dram /\ d.pipe = NoPc /\ d.hit = c.hit /\ d.resp = c.resp
    BY <1>1, <1>5, <1>12, <1>13 DEF Caches
  <1>7. /\ d.mshr[i] = m /\ d.way[v] = u
        /\ \A j \in MshrIds : j # i => d.mshr[j] = c.mshr[j]
        /\ \A w \in WayIds : w # v => d.way[w] = c.way[w]
    BY <1>6, <1>12, <1>13
  <1>8. LinesOk(d)
    <2>1. \A w \in WayIds : CanHit(d, w) =>
            CanHit(c, w) /\ w # v /\ d.way[w] = c.way[w] /\ LineIn(d, w) = LineIn(c, w)
      BY <1>4, <1>7 DEF CanHit, LineIn
    <2>2. \A w \in WayIds : CanHit(c, w) => LineIn(c, w) # line
      <3>1. ASSUME NEW w \in WayIds, CanHit(c, w), LineIn(c, w) = line PROVE FALSE
        <4>1. c.way[w].tag \in Nat /\ w[1] \in 0 .. Sets - 1
          BY <1>1, WayFields, WayFacts
        <4>2. c.way[w].tag = TagOf(line) /\ w[1] = SetOf(line)
          BY <1>2, <3>1, <4>1, LineNames DEF LineIn
        <4>3. w \in Hits(c, line)
          BY <3>1, <4>2 DEF Hits, CanHit
        <4> QED
          BY <4>3
      <3> QED
        BY <3>1
    <2>3. \A j \in MshrIds : j # i /\ Busy(d, j) =>
            /\ Busy(c, j) /\ d.mshr[j] = c.mshr[j] /\ c.mshr[j].way # v
            /\ c.mshr[j].line # line /\ c.mshr[j].way \in WayIds
      BY <1>1, <1>7, MshrFields DEF Busy, LinesOk
    <2>4. \A w \in WayIds : CanHit(d, w) => d.way[w].data = LineIn(d, w)
      BY <1>1, <2>1 DEF LinesOk
    <2>5. \A w, x \in WayIds :
            CanHit(d, w) /\ CanHit(d, x) /\ LineIn(d, w) = LineIn(d, x) => w = x
      BY <1>1, <2>1 DEF LinesOk
    <2>6. ASSUME NEW j \in MshrIds, Busy(d, j)
          PROVE  /\ d.way[d.mshr[j].way].reserved
                 /\ d.mshr[j].way[1] = SetOf(d.mshr[j].line)
                 /\ \A w \in WayIds : CanHit(d, w) => LineIn(d, w) # d.mshr[j].line
      <3>1. CASE j = i
        BY <1>3, <1>4, <1>7, <2>1, <2>2, <3>1
      <3>2. CASE j # i
        BY <1>1, <1>7, <2>1, <2>3, <2>6, <3>2 DEF LinesOk
      <3> QED
        BY <3>1, <3>2
    <2>7. \A j, k \in MshrIds : Busy(d, j) /\ Busy(d, k) /\ j # k =>
            d.mshr[j].way # d.mshr[k].way /\ d.mshr[j].line # d.mshr[k].line
      BY <1>1, <1>3, <1>7, <2>3 DEF LinesOk
    <2> QED
      BY <2>4, <2>5, <2>6, <2>7 DEF LinesOk
  <1>9. DataOk(d)
    <2>1. \A j \in MshrIds :
            /\ d.mshr[j].waiter => /\ Busy(d, j) /\ ~d.mshr[j].drop
                                   /\ LineOf(d.mshr[j].pc) = d.mshr[j].line
            /\ d.mshr[j].st = "ready" => d.mshr[j].data = d.mshr[j].line
      <3>1. d.mshr[i].waiter /\ ~d.mshr[i].drop /\ d.mshr[i].st = "wanted"
            /\ LineOf(d.mshr[i].pc) = d.mshr[i].line
        BY <1>3, <1>7
      <3>2. \A j \in MshrIds \ {i} : d.mshr[j] = c.mshr[j]
        BY <1>7
      <3> QED
        BY <1>1, <3>1, <3>2 DEF DataOk, Busy
    <2>2. d.dram # NoDram => /\ d.dram.mshr \in MshrIds
                             /\ d.mshr[d.dram.mshr].st = "sent"
                             /\ d.dram.line = d.mshr[d.dram.mshr].line
      BY <1>1, <1>6, <1>7 DEF DataOk, Busy
    <2> QED
      BY <1>1, <1>6, <2>1, <2>2 DEF DataOk
  <1>10. OneAsked(d)
    BY <1>1, <1>6, <1>7 DEF OneAsked, NoWaiter
  <1>11. Serves(d, q)
    BY <1>1, <1>3, <1>7 DEF Serves, Asked, NoPc
  <1> QED
    BY <1>6, <1>8, <1>9, <1>10, <1>11 DEF GoodCache

(* A way that is taken for a line is in the line's set and not reserved.   *)
LEMMA VictimsAreFree ==
  ASSUME NEW c, NEW line, NEW v \in Victims(c, line)
  PROVE  v \in WayIds /\ v[1] = SetOf(line) /\ ~c.way[v].reserved
  BY DEF Victims

(* The lowest free register, which a miss takes, is free.                  *)
LEMMA FirstFreeIsFree ==
  ASSUME NEW c, FreeMshrs(c) # {}, NEW i,
         i = CHOOSE j \in FreeMshrs(c) : \A k \in FreeMshrs(c) : j <= k
  PROVE  i \in MshrIds /\ ~Busy(c, i)
  <1>1. FreeMshrs(c) \in SUBSET Nat
    BY ConstantsArePositive DEF FreeMshrs, MshrIds
  <1>2. \E j \in FreeMshrs(c) : \A k \in FreeMshrs(c) : j <= k
    BY <1>1, MinimumExists
  <1>3. i \in FreeMshrs(c)
    BY <1>2
  <1> QED
    BY <1>3 DEF FreeMshrs, Busy

(* processPipe.                                                            *)
LEMMA LookedGood ==
  ASSUME NEW c, NEW q, GoodCache(c, q), NEW d \in Looked(c)
  PROVE  GoodCache(d, q)
  <1> DEFINE line == LineOf(c.pipe)
             same == {i \in MshrIds : c.mshr[i].st # "free" /\ c.mshr[i].line = line}
             vics == Victims(c, line)
             i == CHOOSE j \in FreeMshrs(c) : \A k \in FreeMshrs(c) : j <= k
  <1>1. CASE d = c
    BY <1>1
  <1>2. CASE c.pipe # NoPc /\ Hits(c, line) # {}
    BY <1>2, LookupHits DEF Looked
  <1>3. CASE c.pipe # NoPc /\ Hits(c, line) = {} /\ same # {} /\ d # c
    <2>1. PICK j \in same : d = IF c.mshr[j].st = "ready" THEN c
                                ELSE [c EXCEPT !.pipe = NoPc, !.mshr[j] = Joined(@, c.pipe)]
      BY <1>3 DEF Looked
    <2>2. /\ j \in MshrIds /\ Busy(c, j) /\ c.mshr[j].line = line /\ c.mshr[j].st # "ready"
          /\ d = [c EXCEPT !.pipe = NoPc, !.mshr[j] = Joined(@, c.pipe)]
      BY <1>3, <2>1 DEF Busy
    <2> QED
      BY <1>3, <2>2, LookupJoins
  <1>4. CASE c.pipe # NoPc /\ Hits(c, line) = {} /\ same = {} /\ d # c
    <2>1. FreeMshrs(c) # {} /\ vics # {}
      BY <1>4 DEF Looked
    <2>2. PICK v \in vics :
            d = [c EXCEPT !.pipe = NoPc,
                          !.way[v].reserved = TRUE,
                          !.mshr[i] = [NoMshr EXCEPT !.st = "wanted", !.line = line,
                                         !.pc = c.pipe, !.way = v, !.waiter = TRUE]]
      BY <1>4, <2>1 DEF Looked
    <2>3. i \in MshrIds /\ ~Busy(c, i)
      BY <2>1, FirstFreeIsFree
    <2>4. v \in WayIds /\ v[1] = SetOf(line) /\ ~c.way[v].reserved
      BY VictimsAreFree
    <2>5. \A k \in MshrIds : Busy(c, k) => c.mshr[k].line # line
      BY <1>4 DEF Busy
    <2> HIDE DEF i
    <2> QED
      BY <1>4, <2>2, <2>3, <2>4, <2>5, LookupMisses
  <1> QED
    BY <1>1, <1>2, <1>3, <1>4 DEF Looked

-------------------------------------------------------------------------------
(* Lines that come back.                                                   *)

(* The cache d has the ways ws and, but for register i, the registers of c. *)
OthersStay(c, d, ws, i) ==
  /\ d.way = ws
  /\ \A j \in MshrIds \ {i} : d.mshr[j] = c.mshr[j]
  /\ ~Busy(d, i)

WaysAfter(c, i) ==
  [c.way EXCEPT ![c.mshr[i].way] =
     [valid |-> TRUE, reserved |-> FALSE,
      tag |-> TagOf(c.mshr[i].line), data |-> c.mshr[i].data]]

(* A line that has come back goes into the way that is reserved for it.    *)
LEMMA InstallingPlaces ==
  ASSUME NEW c, NEW q, GoodCache(c, q), NEW i \in MshrIds, c.mshr[i].st = "ready",
         NEW ws, ws = WaysAfter(c, i)
  PROVE  /\ Installed(c, c.mshr[i]) = [c EXCEPT !.way = ws]
         /\ ws \in [WayIds -> WayStates]
         /\ \A d : OthersStay(c, d, ws, i) => LinesOk(d)
  <1> DEFINE m == c.mshr[i]
             v == m.way
             new == [valid |-> TRUE, reserved |-> FALSE, tag |-> TagOf(m.line),
                     data |-> m.data]
  <1>1. c \in Caches /\ LinesOk(c) /\ DataOk(c)
    BY DEF GoodCache
  <1>2. /\ m \in MshrStates /\ m.line \in Nat /\ v \in WayIds /\ m.data = m.line
        /\ Busy(c, i) /\ c.way[v].reserved /\ v[1] = SetOf(m.line)
        /\ \A w \in WayIds : CanHit(c, w) => LineIn(c, w) # m.line
    BY <1>1, MshrFields DEF Busy, LinesOk, DataOk
  <1>3. new \in WayStates
    BY <1>2, LineNames DEF WayStates
  <1>4. Installed(c, m) = [c EXCEPT !.way = ws]
    BY <1>1, <1>2 DEF Installed, Caches, WaysAfter
  <1>5. /\ ws \in [WayIds -> WayStates] /\ ws[v] = new
        /\ \A w \in WayIds : w # v => ws[w] = c.way[w]
    BY <1>1, <1>2, <1>3, CacheFields DEF WaysAfter
  <1>6. ASSUME NEW d, d.way = ws, \A j \in MshrIds \ {i} : d.mshr[j] = c.mshr[j],
               ~Busy(d, i)
        PROVE  LinesOk(d)
    <2>0. d.way[v] = new
      BY <1>5, <1>6
    <2>1. CanHit(d, v) /\ LineIn(d, v) = m.line /\ d.way[v].data = m.line
      <3>1. TagOf(m.line) * Sets + SetOf(m.line) = m.line
        BY <1>2, LineNames
      <3> QED
        BY <1>2, <2>0, <3>1 DEF CanHit, LineIn
    <2>2. \A w \in WayIds : w # v /\ CanHit(d, w) =>
            /\ CanHit(c, w) /\ LineIn(d, w) = LineIn(c, w) /\ d.way[w] = c.way[w]
            /\ LineIn(d, w) # m.line
      BY <1>2, <1>5, <1>6 DEF CanHit, LineIn
    <2>3. \A j \in MshrIds : Busy(d, j) =>
            /\ Busy(c, j) /\ d.mshr[j] = c.mshr[j] /\ c.mshr[j].way # v
            /\ c.mshr[j].line # m.line /\ c.mshr[j].way \in WayIds
      BY <1>1, <1>2, <1>6, MshrFields DEF Busy, LinesOk
    <2>4. \A w \in WayIds : CanHit(d, w) => d.way[w].data = LineIn(d, w)
      BY <1>1, <2>1, <2>2 DEF LinesOk
    <2>5. \A w, x \in WayIds :
            CanHit(d, w) /\ CanHit(d, x) /\ LineIn(d, w) = LineIn(d, x) => w = x
      BY <1>1, <2>1, <2>2 DEF LinesOk
    <2>6. \A j \in MshrIds : Busy(d, j) =>
            /\ d.way[d.mshr[j].way].reserved
            /\ d.mshr[j].way[1] = SetOf(d.mshr[j].line)
            /\ \A w \in WayIds : CanHit(d, w) => LineIn(d, w) # d.mshr[j].line
      <3>1. ASSUME NEW j \in MshrIds, Busy(d, j)
            PROVE  /\ d.way[d.mshr[j].way].reserved
                   /\ d.mshr[j].way[1] = SetOf(d.mshr[j].line)
        BY <1>1, <1>5, <1>6, <2>3, <3>1 DEF LinesOk
      <3>2. ASSUME NEW j \in MshrIds, Busy(d, j), NEW w \in WayIds, CanHit(d, w)
            PROVE  LineIn(d, w) # d.mshr[j].line
        BY <1>1, <2>1, <2>2, <2>3, <3>2 DEF LinesOk
      <3> QED
        BY <3>1, <3>2
    <2>7. \A j, k \in MshrIds : Busy(d, j) /\ Busy(d, k) /\ j # k =>
            d.mshr[j].way # d.mshr[k].way /\ d.mshr[j].line # d.mshr[k].line
      BY <1>1, <2>3 DEF LinesOk
    <2> QED
      BY <2>4, <2>5, <2>6, <2>7 DEF LinesOk
  <1> QED
    BY <1>4, <1>5, <1>6 DEF OthersStay

(* A register whose line has come back is free afterwards, its way can be  *)
(* hit, and the request that waits for it is answered; a register that     *)
(* waits for no one answers no one.                                        *)
LEMMA CompleteMshrGood ==
  ASSUME NEW c, NEW q, GoodCache(c, q), NEW i \in MshrIds
  PROVE  GoodCache(CompleteMshr(c, i), q)
  <1> DEFINE m == c.mshr[i]
             ws == WaysAfter(c, i)
             ms == [c.mshr EXCEPT ![i] = NoMshr]
             r  == BuildResp(m.pc, m.data)
  <1>1. c \in Caches /\ DataOk(c) /\ OneAsked(c) /\ Serves(c, q)
    BY DEF GoodCache
  <1>2. CASE m.st # "ready"
    BY <1>2 DEF CompleteMshr
  <1>3. CASE m.st = "ready"
    <2>1. /\ Installed(c, m) = [c EXCEPT !.way = ws] /\ ws \in [WayIds -> WayStates]
          /\ \A d : OthersStay(c, d, ws, i) => LinesOk(d)
      BY <1>3, InstallingPlaces
    <2> HIDE DEF ws
    <2>2. NoMshr \in MshrStates /\ NoMshr.st = "free" /\ ~NoMshr.waiter
      BY WayFacts DEF NoMshr, MshrStates
    <2>3. /\ ms \in [MshrIds -> MshrStates] /\ ms[i] = NoMshr
          /\ \A j \in MshrIds : j # i => ms[j] = c.mshr[j]
      BY <1>1, <2>2, CacheFields
    <2> HIDE DEF ms
    <2>4. ~(c.dram # NoDram /\ c.dram.mshr = i)
      BY <1>1, <1>3 DEF DataOk
    <2>5. CASE m.drop \/ ~m.waiter
      <3> DEFINE d == CompleteMshr(c, i)
      <3>1. d = [c EXCEPT !.way = ws, !.mshr = ms]
        BY <1>1, <1>3, <2>1, <2>5 DEF CompleteMshr, ms, Caches
      <3> HIDE DEF d
      <3>2. /\ d \in Caches /\ d.way = ws /\ d.mshr = ms /\ d.pipe = c.pipe
            /\ d.hit = c.hit /\ d.resp = c.resp /\ d.dram = c.dram
        BY <1>1, <2>1, <2>3, <3>1 DEF Caches
      <3>3. LinesOk(d)
        BY <2>1, <2>2, <2>3, <3>2 DEF Busy, OthersStay
      <3>4. DataOk(d)
        BY <1>1, <2>2, <2>3, <2>4, <3>2 DEF DataOk, Busy
      <3>5. OneAsked(d)
        BY <1>1, <2>2, <2>3, <3>2 DEF OneAsked, NoWaiter
      <3>6. ~c.mshr[i].waiter
        BY <1>1, <2>5 DEF DataOk
      <3>7. Serves(d, q)
        BY <1>1, <2>2, <2>3, <3>2, <3>6 DEF Serves, Idle, Asked, NoWaiter
      <3> QED
        BY <3>2, <3>3, <3>4, <3>5, <3>7 DEF GoodCache, d
    <2>6. CASE ~m.drop /\ m.waiter
      <3> DEFINE d == CompleteMshr(c, i)
      <3>1. /\ c.resp = NoResp /\ ~c.hit.valid /\ c.pipe = NoPc
            /\ \A j \in MshrIds : c.mshr[j].waiter => j = i
            /\ m.data = LineOf(m.pc) /\ m.pc \in Nat
        <4>1. c.resp = NoResp /\ ~c.hit.valid /\ c.pipe = NoPc
          BY <1>1, <2>6 DEF OneAsked, NoWaiter
        <4>2. \A j \in MshrIds : c.mshr[j].waiter => j = i
          BY <1>1, <2>6 DEF OneAsked
        <4>3. m.data = LineOf(m.pc) /\ m.pc \in Nat
          BY <1>1, <1>3, <2>6, MshrFields DEF DataOk
        <4> QED
          BY <4>1, <4>2, <4>3
      <3>2. r = Answer(m.pc)
        BY <3>1 DEF Answer
      <3>3. r \in RespStates /\ r.pc = m.pc /\ r # NoResp
        BY <3>1, <3>2, AnswerFacts DEF RespStates
      <3>4. d = [c EXCEPT !.way = ws, !.mshr = ms, !.resp = r]
        <4>1. d = [[c EXCEPT !.way = ws] EXCEPT !.mshr[i] = NoMshr, !.resp = r]
          BY <1>3, <2>1, <2>6, <3>1 DEF CompleteMshr, Caches
        <4> HIDE DEF d, r
        <4> QED
          BY <1>1, <4>1 DEF ms, Caches
      <3> HIDE DEF d, r
      <3>5. /\ d \in Caches /\ d.way = ws /\ d.mshr = ms /\ d.pipe = c.pipe
            /\ d.hit = c.hit /\ d.resp = r /\ d.dram = c.dram
        BY <1>1, <2>1, <2>3, <3>3, <3>4 DEF Caches
      <3>6. LinesOk(d)
        BY <2>1, <2>2, <2>3, <3>5 DEF Busy, OthersStay
      <3>7. DataOk(d)
        BY <1>1, <2>2, <2>3, <2>4, <3>5 DEF DataOk, Busy
      <3>8. OneAsked(d)
        BY <2>2, <2>3, <3>1, <3>5 DEF OneAsked, NoWaiter
      <3>9. Serves(d, q)
        <4>1. q = m.pc /\ q # NoPc
          BY <1>1, <2>6, <3>1 DEF Serves, Idle, Asked, NoWaiter, NoPc
        <4> QED
          BY <3>3, <3>5, <4>1 DEF Serves, Asked
      <3> QED
        BY <3>5, <3>6, <3>7, <3>8, <3>9 DEF GoodCache, d
    <2> QED
      BY <2>5, <2>6
  <1> QED
    BY <1>2, <1>3

(* The turns of the loop over the registers exist.                         *)
LEMMA TurnsOfCompletion ==
  ASSUME NEW c
  PROVE  \E after :
           after = [i \in 0 .. Mshrs |->
                      IF i = 0 THEN c ELSE CompleteMshr(after[i - 1], i)]
  <1> DEFINE Turns(f, n) ==
               f = [i \in 0 .. n |-> IF i = 0 THEN c ELSE CompleteMshr(f[i - 1], i)]
             S == {n \in 0 .. Mshrs : ~ \E f : Turns(f, n)}
  <1> HIDE DEF Turns
  <1>1. SUFFICES ASSUME S # {} PROVE FALSE
    <2>1. SUFFICES ASSUME S = {} PROVE \E f : Turns(f, Mshrs)
      BY DEF Turns
    <2>2. Mshrs \in 0 .. Mshrs
      BY ConstantsArePositive
    <2> QED
      BY <2>1, <2>2
  <1>0. S \in SUBSET Nat
    BY ConstantsArePositive
  <1>2. PICK n \in S : \A k \in S : n <= k
    BY <1>0, <1>1, MinimumExists
  <1>3. n # 0
    <2>1. Turns([i \in 0 .. 0 |-> c], 0)
      BY DEF Turns
    <2> QED
      BY <1>2, <2>1
  <1>4. n - 1 \in 0 .. Mshrs /\ n - 1 \notin S /\ n \in 0 .. Mshrs
    <2>1. n \in 0 .. Mshrs
      BY <1>2
    <2>2. n - 1 \in 0 .. Mshrs /\ ~(n <= n - 1)
      BY <1>3, <2>1, ConstantsArePositive
    <2> QED
      BY <1>2, <2>1, <2>2
  <1>5. PICK f : Turns(f, n - 1)
    BY <1>4
  <1>7. /\ \A i \in 1 .. n - 1 : f[i] = CompleteMshr(f[i - 1], i)
        /\ f[0] = c
    BY <1>3, <1>4, <1>5, ConstantsArePositive DEF Turns
  <1> DEFINE g == [i \in 0 .. n |-> IF i = n THEN CompleteMshr(f[n - 1], n) ELSE f[i]]
  <1>6. Turns(g, n)
    <2>1. \A i \in 0 .. n : g[i] = IF i = 0 THEN c ELSE CompleteMshr(g[i - 1], i)
      <3>1. g[0] = c
        BY <1>3, <1>4, <1>7
      <3>2. g[n] = CompleteMshr(g[n - 1], n)
        BY <1>3, <1>4
      <3>3. ASSUME NEW i \in 1 .. n - 1 PROVE g[i] = CompleteMshr(g[i - 1], i)
        <4>1. g[i] = f[i] /\ g[i - 1] = f[i - 1]
          BY <1>4, <3>3
        <4> QED
          BY <1>7, <4>1
      <3> HIDE DEF g
      <3>4. \A i \in 0 .. n : i = 0 \/ i = n \/ i \in 1 .. n - 1
        BY <1>4
      <3> QED
        BY <1>3, <3>1, <3>2, <3>3, <3>4
    <2>2. g = [i \in 0 .. n |-> g[i]]
      OBVIOUS
    <2> HIDE DEF g
    <2> QED
      BY <2>1, <2>2 DEF Turns
  <1> QED
    BY <1>2, <1>6

(* All registers, one after the other.                                     *)
LEMMA CompletedGood ==
  ASSUME NEW c, NEW q, GoodCache(c, q)
  PROVE  GoodCache(Completed(c), q)
  <1> DEFINE Turns(f) == f = [i \in 0 .. Mshrs |->
                                IF i = 0 THEN c ELSE CompleteMshr(f[i - 1], i)]
             after == CHOOSE f : Turns(f)
             S == {n \in 0 .. Mshrs : ~GoodCache(after[n], q)}
  <1>1. Turns(after)
    BY TurnsOfCompletion
  <1>2. Completed(c) = after[Mshrs]
    BY DEF Completed
  <1> HIDE DEF after
  <1>3. ASSUME S # {} PROVE FALSE
    <2>0. S \in SUBSET Nat
      BY ConstantsArePositive
    <2>1. PICK n \in S : \A k \in S : n <= k
      BY <1>3, <2>0, MinimumExists
    <2>2. n # 0
      BY <1>1, <2>1, ConstantsArePositive
    <2>3. n - 1 \in 0 .. Mshrs /\ n - 1 \notin S /\ n \in MshrIds /\ n \in 0 .. Mshrs
      BY <2>1, <2>2, ConstantsArePositive DEF MshrIds
    <2>4. GoodCache(after[n - 1], q)
      BY <2>3
    <2>5. after[n] = CompleteMshr(after[n - 1], n)
      BY <1>1, <2>2, <2>3
    <2> QED
      BY <2>1, <2>3, <2>4, <2>5, CompleteMshrGood
  <1>4. Mshrs \in 0 .. Mshrs
    BY ConstantsArePositive
  <1> QED
    BY <1>2, <1>3, <1>4

(* The end of the cache's tick.                                            *)
LEMMA TickEndGood ==
  ASSUME NEW c, NEW q, GoodCache(c, q), NEW d \in TickEnd(c)
  PROVE  GoodCache(d, q)
  <1>1. PICK e \in Looked(EmitHit(c)) : d = Completed(e)
    BY DEF TickEnd
  <1>2. GoodCache(EmitHit(c), q)
    BY EmitHitGood
  <1>3. GoodCache(e, q)
    BY <1>2, LookedGood
  <1> QED
    BY <1>1, <1>3, CompletedGood

-------------------------------------------------------------------------------
(* DRAM.                                                                   *)

Moved(c, d, i, m, r) ==
  d = [c EXCEPT !.mshr = [c.mshr EXCEPT ![i] = m], !.dram = r]

(* A register moves on from one state to another one in which it is in use.*)
LEMMA MshrMoves ==
  ASSUME NEW c, NEW q, GoodCache(c, q), NEW i \in MshrIds, Busy(c, i),
         NEW m \in MshrStates, m.st # "free", m.line = c.mshr[i].line,
         m.way = c.mshr[i].way, m.pc = c.mshr[i].pc, m.waiter = c.mshr[i].waiter,
         m.drop = c.mshr[i].drop, m.st = "ready" => m.data = m.line,
         NEW r \in DramStates,
         \/ r = NoDram
         \/ r.mshr = i /\ m.st = "sent" /\ r.line = m.line,
         NEW d, Moved(c, d, i, m, r)
  PROVE  GoodCache(d, q)
  <1> DEFINE ms == [c.mshr EXCEPT ![i] = m]
  <1>1. c \in Caches /\ LinesOk(c) /\ DataOk(c) /\ OneAsked(c) /\ Serves(c, q)
    BY DEF GoodCache
  <1>2. /\ ms \in [MshrIds -> MshrStates] /\ ms[i] = m
        /\ \A j \in MshrIds : j # i => ms[j] = c.mshr[j]
    BY <1>1, CacheFields
  <1>0. d = [c EXCEPT !.mshr = ms, !.dram = r]
    BY DEF Moved
  <1> HIDE DEF ms
  <1>3. /\ d \in Caches /\ d.way = c.way /\ d.mshr = ms /\ d.pipe = c.pipe
        /\ d.hit = c.hit /\ d.resp = c.resp /\ d.dram = r
    BY <1>0, <1>1, <1>2 DEF Caches
  <1>4. LinesOk(d)
    <2>1. MissesStay(c, d)
      BY <1>2, <1>3 DEF MissesStay, Busy
    <2> QED
      BY <1>1, <1>3, <2>1, LinesKept
  <1>5. DataOk(d)
    <2>1. \A j \in MshrIds :
            /\ d.mshr[j].waiter => /\ Busy(d, j) /\ ~d.mshr[j].drop
                                   /\ LineOf(d.mshr[j].pc) = d.mshr[j].line
            /\ d.mshr[j].st = "ready" => d.mshr[j].data = d.mshr[j].line
      <3>1. CASE TRUE
        <4>1. d.mshr[i] = m /\ \A j \in MshrIds \ {i} : d.mshr[j] = c.mshr[j]
          BY <1>2, <1>3
        <4>2. m.waiter => ~m.drop /\ LineOf(m.pc) = m.line
          BY <1>1 DEF DataOk
        <4>3. ASSUME NEW j \in MshrIds \ {i}
              PROVE  /\ d.mshr[j].waiter => /\ Busy(d, j) /\ ~d.mshr[j].drop
                                            /\ LineOf(d.mshr[j].pc) = d.mshr[j].line
                     /\ d.mshr[j].st = "ready" => d.mshr[j].data = d.mshr[j].line
          BY <1>1, <4>1 DEF DataOk, Busy
        <4> QED
          BY <4>1, <4>2, <4>3 DEF Busy
      <3> QED
        BY <3>1
    <2>2. d.dram # NoDram => /\ d.dram.mshr \in MshrIds
                             /\ d.mshr[d.dram.mshr].st = "sent"
                             /\ d.dram.line = d.mshr[d.dram.mshr].line
      BY <1>2, <1>3
    <2> QED
      BY <1>1, <1>3, <2>1, <2>2 DEF DataOk
  <1>6. \A j \in MshrIds : d.mshr[j].waiter = c.mshr[j].waiter /\ d.mshr[j].pc = c.mshr[j].pc
    BY <1>2, <1>3
  <1>7. OneAsked(d)
    BY <1>1, <1>3, <1>6 DEF OneAsked, NoWaiter
  <1>8. Serves(d, q)
    BY <1>1, <1>3, <1>6 DEF Serves, Idle, Asked, NoWaiter
  <1> QED
    BY <1>3, <1>4, <1>5, <1>7, <1>8 DEF GoodCache

(* DRAM answers the register whose request it has.                         *)
LEMMA DramRespGood ==
  ASSUME NEW c, NEW q, GoodCache(c, q), c.dram # NoDram
  PROVE  GoodCache(DramResp(c), q)
  <1> DEFINE i == c.dram.mshr
             m == [c.mshr[i] EXCEPT !.st = "ready", !.data = c.dram.line]
             ms == [c.mshr EXCEPT ![i] = m]
             d == DramResp(c)
  <1>1. c \in Caches /\ DataOk(c)
    BY DEF GoodCache
  <1>2. i \in MshrIds /\ c.mshr[i].st = "sent" /\ c.dram.line = c.mshr[i].line
    BY <1>1 DEF DataOk
  <1>3. c.mshr[i] \in MshrStates /\ c.mshr[i].line \in Nat
    BY <1>1, <1>2, MshrFields
  <1>4. /\ m \in MshrStates /\ m.st = "ready" /\ m.line = c.mshr[i].line
        /\ m.way = c.mshr[i].way /\ m.pc = c.mshr[i].pc /\ m.waiter = c.mshr[i].waiter
        /\ m.drop = c.mshr[i].drop /\ m.data = m.line
    BY <1>2, <1>3 DEF MshrStates
  <1>5. NoDram \in DramStates
    BY ConstantsArePositive DEF NoDram, DramStates
  <1>6. Moved(c, d, i, m, NoDram)
    <2>1. d = [c EXCEPT !.mshr = ms, !.dram = NoDram]
      BY <1>1, <1>2, <1>3 DEF DramResp, Caches
    <2> QED
      BY <2>1 DEF Moved
  <1>7. Busy(c, i)
    BY <1>2 DEF Busy
  <1> HIDE DEF m, d, i
  <1> QED
    BY <1>2, <1>4, <1>5, <1>6, <1>7, MshrMoves DEF d

(* DRAM accepts the request of the first register that wants one.          *)
LEMMA DramReqAcceptedGood ==
  ASSUME NEW c, NEW q, GoodCache(c, q), HasDramReq(c)
  PROVE  GoodCache(DramReqAccepted(c), q)
  <1> DEFINE wanted == {j \in MshrIds : c.mshr[j].st = "wanted"}
             i == CHOOSE j \in wanted : \A k \in wanted : j <= k
             m == [c.mshr[i] EXCEPT !.st = "sent"]
             ms == [c.mshr EXCEPT ![i] = m]
             r == [mshr |-> i, line |-> c.mshr[i].line]
             d == DramReqAccepted(c)
  <1>1. c \in Caches /\ DataOk(c)
    BY DEF GoodCache
  <1>2. i \in wanted
    <2>1. wanted # {} /\ wanted \in SUBSET Nat
      BY ConstantsArePositive DEF HasDramReq, MshrIds
    <2>2. \E j \in wanted : \A k \in wanted : j <= k
      BY <2>1, MinimumExists
    <2> QED
      BY <2>2
  <1>3. d = [c EXCEPT !.mshr[i].st = "sent", !.dram = [mshr |-> i, line |-> c.mshr[i].line]]
    BY DEF DramReqAccepted
  <1> HIDE DEF i
  <1>4. i \in MshrIds /\ i \in 0 .. Mshrs /\ c.mshr[i].st = "wanted"
    BY <1>2, ConstantsArePositive DEF MshrIds
  <1>5. c.mshr[i] \in MshrStates /\ c.mshr[i].line \in Nat
    BY <1>1, <1>4, MshrFields
  <1>6. /\ m \in MshrStates /\ m.st = "sent" /\ m.line = c.mshr[i].line
        /\ m.way = c.mshr[i].way /\ m.pc = c.mshr[i].pc /\ m.waiter = c.mshr[i].waiter
        /\ m.drop = c.mshr[i].drop
    BY <1>5 DEF MshrStates
  <1>7. r \in DramStates /\ r.mshr = i /\ r.line = m.line
    BY <1>4, <1>5, <1>6 DEF DramStates
  <1> HIDE DEF d
  <1>8. Moved(c, d, i, m, r)
    <2>1. d = [c EXCEPT !.mshr = ms, !.dram = r]
      BY <1>1, <1>3, <1>4, <1>5 DEF Caches
    <2> QED
      BY <2>1 DEF Moved
  <1>9. Busy(c, i)
    BY <1>4 DEF Busy
  <1> HIDE DEF m, r
  <1> QED
    BY <1>4, <1>6, <1>7, <1>8, <1>9, MshrMoves DEF d

(* The memory system's tick.                                               *)
LEMMA MemoryTickGood ==
  ASSUME NEW c, NEW q, GoodCache(c, q), NEW finished \in BOOLEAN, NEW accepts \in BOOLEAN,
         NEW e \in MemoryTick(c, finished, accepts)
  PROVE  GoodCache(e, q)
  <1> DEFINE d == IF finished /\ c.dram # NoDram THEN DramResp(c) ELSE c
             f == IF accepts /\ HasDramReq(d) THEN DramReqAccepted(d) ELSE d
  <1>1. GoodCache(d, q)
    BY DramRespGood
  <1> HIDE DEF d
  <1>2. GoodCache(f, q)
    BY <1>1, DramReqAcceptedGood
  <1>3. e \in TickEnd(f)
    BY DEF MemoryTick, d
  <1> HIDE DEF f
  <1> QED
    BY <1>2, <1>3, TickEndGood

-------------------------------------------------------------------------------
(* The processor's calls.                                                  *)

(* After a redirect the cache works for no one.                            *)
LEMMA FlushedGood ==
  ASSUME NEW c, NEW q, GoodCache(c, q)
  PROVE  GoodCache(Flushed(c), NoPc)
  <1> DEFINE h == [c.hit EXCEPT !.drop = c.hit.valid]
             ms == [i \in MshrIds |-> IF c.mshr[i].st = "free" THEN c.mshr[i]
                                      ELSE [c.mshr[i] EXCEPT !.drop = TRUE, !.waiter = FALSE]]
             d == Flushed(c)
  <1>1. c \in Caches /\ LinesOk(c) /\ DataOk(c) /\ OneAsked(c) /\ c.hit \in HitStates
    BY CacheFields DEF GoodCache
  <1>2. /\ h \in HitStates /\ h.valid = c.hit.valid /\ h.drop = c.hit.valid
        /\ h.pc = c.hit.pc /\ h.data = c.hit.data
    BY <1>1 DEF HitStates
  <1>3. ASSUME NEW i \in MshrIds
        PROVE  /\ ms[i] \in MshrStates /\ ms[i].st = c.mshr[i].st
               /\ ms[i].line = c.mshr[i].line /\ ms[i].way = c.mshr[i].way
               /\ ms[i].data = c.mshr[i].data /\ ~ms[i].waiter
    <2>1. c.mshr[i] \in MshrStates
      BY <1>1, MshrFields
    <2>2. CASE c.mshr[i].st = "free"
      <3>1. ~c.mshr[i].waiter
        BY <1>1, <2>2 DEF DataOk, Busy
      <3> QED
        BY <2>1, <2>2, <3>1
    <2>3. CASE c.mshr[i].st # "free"
      <3>1. ms[i] = [c.mshr[i] EXCEPT !.drop = TRUE, !.waiter = FALSE]
        BY <2>3
      <3> QED
        BY <2>1, <3>1 DEF MshrStates
    <2> QED
      BY <2>2, <2>3
  <1>4. ms \in [MshrIds -> MshrStates]
    BY <1>3
  <1>5. d = [c EXCEPT !.hit = h, !.pipe = NoPc, !.resp = NoResp, !.mshr = ms]
    BY <1>1 DEF Flushed, Caches
  <1> HIDE DEF h, ms, d
  <1>6. /\ d \in Caches /\ d.way = c.way /\ d.mshr = ms /\ d.pipe = NoPc
        /\ d.hit = h /\ d.resp = NoResp /\ d.dram = c.dram
    BY <1>1, <1>2, <1>4, <1>5 DEF Caches, RespStates
  <1>7. LinesOk(d)
    <2>1. MissesStay(c, d)
      BY <1>3, <1>6 DEF MissesStay, Busy
    <2> QED
      BY <1>1, <1>6, <2>1, LinesKept
  <1>8. DataOk(d)
    BY <1>1, <1>2, <1>3, <1>6 DEF DataOk
  <1>9. OneAsked(d) /\ Serves(d, NoPc)
    BY <1>2, <1>3, <1>6 DEF OneAsked, Serves, Idle, NoWaiter
  <1> QED
    BY <1>6, <1>7, <1>8, <1>9 DEF GoodCache, d

(* A cache that accepts a request works on it.                             *)
LEMMA CpuReqGood ==
  ASSUME NEW c, GoodCache(c, NoPc), CanAccept(c), NEW pc \in Nat
  PROVE  GoodCache(CpuReq(c, pc), pc)
  <1> DEFINE d == CpuReq(c, pc)
  <1>1. c \in Caches /\ LinesOk(c) /\ DataOk(c) /\ OneAsked(c) /\ Idle(c)
    BY DEF GoodCache, Serves
  <1>2. d = [c EXCEPT !.pipe = pc]
    BY DEF CpuReq
  <1> HIDE DEF d
  <1>3. /\ d \in Caches /\ d.way = c.way /\ d.mshr = c.mshr /\ d.pipe = pc
        /\ d.hit = c.hit /\ d.resp = c.resp /\ d.dram = c.dram
    BY <1>1, <1>2 DEF Caches
  <1>4. LinesOk(d)
    BY <1>1, <1>3, LinesSame
  <1>5. DataOk(d)
    BY <1>1, <1>3 DEF DataOk, Busy
  <1>6. OneAsked(d) /\ Serves(d, pc)
    BY <1>1, <1>3 DEF OneAsked, Serves, Idle, Asked, NoWaiter, CanAccept, NoPc
  <1> QED
    BY <1>3, <1>4, <1>5, <1>6 DEF GoodCache, d

(* The answer is that to the request, and when it is taken none is left.   *)
LEMMA TakenGood ==
  ASSUME NEW c, NEW q, GoodCache(c, q), c.resp # NoResp, NEW d, d = [c EXCEPT !.resp = NoResp]
  PROVE  q \in Nat /\ c.resp = Answer(q) /\ GoodCache(d, NoPc)
  <1>1. c \in Caches /\ LinesOk(c) /\ DataOk(c) /\ OneAsked(c) /\ Serves(c, q)
    BY DEF GoodCache
  <1>2. c.pipe = NoPc /\ ~c.hit.valid /\ NoWaiter(c)
    BY <1>1 DEF OneAsked
  <1>3. PICK pc \in Nat : c.resp = Answer(pc)
    BY <1>1, CacheFields DEF RespStates
  <1>4. c.resp.pc = pc
    BY <1>3, AnswerFacts
  <1>5. q = pc
    BY <1>1, <1>2, <1>4 DEF Serves, Idle, Asked, NoWaiter
  <1>6. /\ d \in Caches /\ d.way = c.way /\ d.mshr = c.mshr /\ d.pipe = c.pipe
        /\ d.hit = c.hit /\ d.resp = NoResp /\ d.dram = c.dram
    BY <1>1 DEF Caches, RespStates
  <1>7. LinesOk(d)
    BY <1>1, <1>6, LinesSame
  <1>8. DataOk(d)
    BY <1>1, <1>6 DEF DataOk, Busy
  <1>9. OneAsked(d) /\ Serves(d, NoPc)
    BY <1>2, <1>6 DEF OneAsked, Serves, Idle, NoWaiter
  <1> QED
    BY <1>3, <1>5, <1>6, <1>7, <1>8, <1>9 DEF GoodCache

-------------------------------------------------------------------------------
(* Fetch.                                                                  *)

Entries == [pc : Nat, at : Nat, taken : BOOLEAN, target : Nat]
Buffers == [valid : BOOLEAN, eop : BOOLEAN, q : Seq(Entries)]

CfShapes ==
  /\ prog \in Programs /\ bp_mode \in BpModes /\ memory \in Memories
  /\ stage \in {"memory", "core", "redirected", "fetch"}
  /\ fetch_pc \in Nat /\ ideal_fetch_pc \in Nat
  /\ fetch_halted \in BOOLEAN /\ fetch_redirect_hold \in BOOLEAN
  /\ imem_req_outstanding \in BOOLEAN
  /\ fetch_req_pred \in [slot : 0 .. Width, target : Nat]
  /\ fetch_buf \in Buffers /\ Len(fetch_buf.q) <= Width
  /\ ifq \in Seq(Entries) /\ Len(ifq) <= IfqSize
  /\ ras \in Seq(Nat) /\ Len(ras) <= RasSize

(* The pc that fetch waits for in the cache.                               *)
AwaitedPc == IF imem_req_outstanding /\ memory = "cached" THEN fetch_pc ELSE NoPc
CacheServes == GoodCache(ic, AwaitedPc)

(* In always-taken mode the predictions recorded with a request are those  *)
(* of all words up to the first one predicted taken.                       *)
Predicts(r, pc) ==
  bp_mode = "always_taken" =>
    \A i \in 1 .. Width :
      InImage(pc + i - 1) /\ (r.slot = 0 \/ i <= r.slot) =>
        IF i = r.slot
          THEN AlwaysTaken(pc + i - 1, ras) = [taken |-> TRUE, target |-> r.target]
          ELSE AlwaysTaken(pc + i - 1, ras) = [taken |-> FALSE, target |-> pc + i]

(* While a request is on its way the buffer is empty, and the predictions  *)
(* recorded with it are those the stack still makes.                       *)
RequestIsPredicted ==
  imem_req_outstanding /\ memory = "cached" =>
    ~fetch_buf.valid /\ Predicts(fetch_req_pred, fetch_pc)

(* The buffer holds consecutive words of the image, only the last one      *)
(* predicted taken, and fetch has gone on to where that leads, or has seen *)
(* the end of the image.                                                   *)
GoodBuffer(buf, pc) ==
  LET q == buf.q
      n == Len(q)
  IN  /\ \A i \in 1 .. n :
           /\ q[i].at = q[i].pc /\ q[i].pc \in DOMAIN prog
           /\ q[i].taken => i = n
           /\ bp_mode = "always_taken" =>
                [taken |-> q[i].taken, target |-> q[i].target] = AlwaysTaken(q[i].pc, ras)
      /\ \A i \in 1 .. n - 1 : q[i + 1].pc = q[i].pc + 1
      /\ buf.eop =>
           /\ n = 0 => pc \notin DOMAIN prog
           /\ n > 0 => ~q[n].taken /\ q[n].pc + 1 \notin DOMAIN prog
      /\ ~buf.eop => n > 0 /\ pc = Path!After(q[n])
BufferIsPath ==
  fetch_buf.valid => memory = "cached" /\ GoodBuffer(fetch_buf, fetch_pc)

(* The ideal memory has been asked for the word fetch goes on with.        *)
IdealAsks ==
  imem_req_outstanding /\ memory = "ideal" =>
    ideal_fetch_pc = fetch_pc /\ fetch_pc \in DOMAIN prog

RedirectRestarts == stage = "redirected" => ~fetch_halted

CfInv == /\ CfShapes /\ CacheServes /\ RequestIsPredicted
         /\ BufferIsPath /\ IdealAsks /\ RedirectRestarts

(* The sizes of fetch are positive, and what programs hold are numbers.    *)
LEMMA FetchConstants ==
  /\ IfqSize \in Nat /\ IfqSize > 0 /\ RasSize \in Nat /\ RasSize > 0
  /\ Recoveries \subseteq Nat
  /\ BpModes \subseteq {"gshare", "always_taken"} /\ Memories \subseteq {"cached", "ideal"}
  /\ \A p \in Programs : /\ DOMAIN p \subseteq Nat
                         /\ \A pc \in DOMAIN p : p[pc].target \in Nat
  BY CachedFetchAssumption

(* Return addresses are numbers, a stack to put back is a stack.           *)
LEMMA RasStatesFacts ==
  ASSUME NEW s \in RasStates
  PROVE  s \in Seq(Nat) /\ Len(s) <= RasSize
  <1>1. ReturnPcs \subseteq Nat
    <2>1. ASSUME NEW p \in Programs,
                 NEW pc \in {q \in DOMAIN p : p[q].op \in {"link", "call"}}
          PROVE  pc + 1 \in Nat
      BY FetchConstants
    <2> QED
      BY <2>1 DEF ReturnPcs
  <1>2. PICK n \in 0 .. RasSize : s \in [1 .. n -> ReturnPcs]
    BY DEF RasStates
  <1>3. n \in Nat /\ n <= RasSize
    BY FetchConstants
  <1>4. s \in [1 .. n -> Nat]
    BY <1>1, <1>2
  <1>5. s \in Seq(Nat) /\ Len(s) = n
    BY <1>3, <1>4
  <1> QED
    BY <1>3, <1>5

(* What always-taken prediction says of a word.                            *)
LEMMA AlwaysTakenFacts ==
  ASSUME prog \in Programs, NEW pc \in DOMAIN prog, NEW s \in Seq(Nat)
  PROVE  /\ pc \in Nat
         /\ AlwaysTaken(pc, s) \in [taken : BOOLEAN, target : Nat]
         /\ ~AlwaysTaken(pc, s).taken =>
              AlwaysTaken(pc, s) = [taken |-> FALSE, target |-> pc + 1]
  <1>1. pc \in Nat /\ prog[pc].target \in Nat
    BY FetchConstants
  <1>2. s # <<>> => Last(s) \in Nat
    BY DEF Last
  <1> QED
    BY <1>1, <1>2 DEF AlwaysTaken, NotTaken

(* What a word does to the stack, which only calls and words predicted     *)
(* taken change.                                                           *)
LEMMA RasAfterFacts ==
  ASSUME prog \in Programs, NEW pc \in DOMAIN prog, NEW s \in Seq(Nat), Len(s) <= RasSize
  PROVE  /\ RasAfter(pc, s) \in Seq(Nat) /\ Len(RasAfter(pc, s)) <= RasSize
         /\ ~AlwaysTaken(pc, s).taken /\ prog[pc].op # "call" => RasAfter(pc, s) = s
  <1>1. pc \in Nat
    BY FetchConstants
  <1>2. Pushed(s, pc + 1) \in Seq(Nat) /\ Len(Pushed(s, pc + 1)) <= RasSize
    <2> DEFINE t == Append(s, pc + 1)
    <2>1. t \in Seq(Nat) /\ Len(t) = Len(s) + 1 /\ Len(s) \in Nat
      BY <1>1
    <2>2. t # <<>>
      BY <2>1
    <2> HIDE DEF t
    <2>3. Tail(t) \in Seq(Nat) /\ Len(Tail(t)) = Len(t) - 1
      BY <2>1, <2>2
    <2> QED
      BY <2>1, <2>3, FetchConstants DEF Pushed, t
  <1>3. s # <<>> => Front(s) \in Seq(Nat) /\ Len(Front(s)) <= RasSize
    <2> DEFINE l == Len(s) - 1
               t == SubSeq(s, 1, l)
    <2>1. ASSUME s # <<>> PROVE t \in Seq(Nat) /\ Len(t) <= RasSize
      <3>1. l \in Nat /\ Len(s) = l + 1
        BY <2>1
      <3>2. \A i \in 1 .. l : s[i] \in Nat
        BY <3>1
      <3> HIDE DEF l
      <3>3. t \in Seq(Nat) /\ Len(t) = IF 1 <= l THEN l - 1 + 1 ELSE 0
        BY <3>1, <3>2, SubSeqProperties
      <3> HIDE DEF t
      <3> QED
        BY <3>1, <3>3, FetchConstants
    <2>2. Front(s) = t
      BY DEF Front
    <2> QED
      BY <2>1, <2>2
  <1>4. RasAfter(pc, s) \in Seq(Nat) /\ Len(RasAfter(pc, s)) <= RasSize
    BY <1>2, <1>3 DEF RasAfter
  <1>5. ~AlwaysTaken(pc, s).taken /\ prog[pc].op # "call" => RasAfter(pc, s) = s
    BY DEF RasAfter, AlwaysTaken
  <1> QED
    BY <1>4, <1>5

(* Numbers with which all lower ones are are an interval.                  *)
LEMMA PrefixIsInterval ==
  ASSUME NEW n \in Nat, NEW S \in SUBSET (1 .. n),
         \A i \in S, j \in 1 .. n : j < i => j \in S
  PROVE  \E k \in 0 .. n : S = 1 .. k /\ Cardinality(S) = k
  <1> DEFINE T == {i \in 1 .. n + 1 : i \notin S}
  <1>1. T # {} /\ T \in SUBSET Nat
    <2>1. n + 1 \in T
      OBVIOUS
    <2> QED
      BY <2>1
  <1>2. PICK m \in T : \A k \in T : m <= k
    BY <1>1, MinimumExists
  <1>3. S = 1 .. m - 1 /\ m - 1 \in 0 .. n
    <2>1. m \in 1 .. n + 1 /\ m \notin S
      BY <1>2
    <2>2. ASSUME NEW i \in S PROVE i \in 1 .. m - 1
      <3>1. i \in 1 .. n
        OBVIOUS
      <3>2. ~(m < i)
        BY <2>1, <3>1
      <3>3. m # i
        BY <2>1
      <3> QED
        BY <2>1, <3>1, <3>2, <3>3
    <2>3. ASSUME NEW i \in 1 .. m - 1 PROVE i \in S
      <3>1. i \notin T /\ i \in 1 .. n + 1
        BY <1>2, <2>1
      <3> QED
        BY <3>1
    <2>4. S = 1 .. m - 1
      BY <2>2, <2>3
    <2>5. m \in Int /\ m - 1 \in 0 .. n
      BY <2>1
    <2> QED
      BY <2>4, <2>5
  <1>4. Cardinality(1 .. m - 1) = m - 1
    BY <1>3, FS_Interval
  <1> QED
    BY <1>3, <1>4

-------------------------------------------------------------------------------
(* The loops of fetch.                                                     *)

Unstopped == [s |-> ifq, ras |-> ras, stop |-> FALSE]

(* The turns of the loop that empties the buffer exist.                    *)
LEMMA TurnsOfEmptying ==
  ASSUME NEW N \in Nat
  PROVE  \E after :
           after = [i \in 0 .. N |->
                      IF i = 0 THEN Unstopped ELSE Enqueued(after[i - 1], fetch_buf.q[i])]
  <1> DEFINE Turns(f, n) ==
               f = [i \in 0 .. n |->
                      IF i = 0 THEN Unstopped ELSE Enqueued(f[i - 1], fetch_buf.q[i])]
             S == {n \in 0 .. N : ~ \E f : Turns(f, n)}
  <1> HIDE DEF Turns
  <1>1. SUFFICES ASSUME S # {} PROVE FALSE
    <2>1. SUFFICES ASSUME S = {} PROVE \E f : Turns(f, N)
      BY DEF Turns
    <2>2. N \in 0 .. N
      OBVIOUS
    <2> QED
      BY <2>1, <2>2
  <1>0. S \in SUBSET Nat
    OBVIOUS
  <1>2. PICK n \in S : \A k \in S : n <= k
    BY <1>0, <1>1, MinimumExists
  <1>3. n # 0
    <2>1. Turns([i \in 0 .. 0 |-> Unstopped], 0)
      BY DEF Turns
    <2> QED
      BY <1>2, <2>1
  <1>4. n - 1 \in 0 .. N /\ n - 1 \notin S /\ n \in 0 .. N
    <2>1. n \in 0 .. N
      BY <1>2
    <2>2. n - 1 \in 0 .. N /\ ~(n <= n - 1)
      BY <1>3, <2>1
    <2> QED
      BY <1>2, <2>1, <2>2
  <1>5. PICK f : Turns(f, n - 1)
    BY <1>4
  <1>7. /\ \A i \in 1 .. n - 1 : f[i] = Enqueued(f[i - 1], fetch_buf.q[i])
        /\ f[0] = Unstopped
    BY <1>3, <1>4, <1>5 DEF Turns
  <1> DEFINE g == [i \in 0 .. n |->
                     IF i = n THEN Enqueued(f[n - 1], fetch_buf.q[n]) ELSE f[i]]
  <1>6. Turns(g, n)
    <2>1. \A i \in 0 .. n :
              g[i] = IF i = 0 THEN Unstopped ELSE Enqueued(g[i - 1], fetch_buf.q[i])
      <3>1. g[0] = Unstopped
        BY <1>3, <1>4, <1>7
      <3>2. g[n] = Enqueued(g[n - 1], fetch_buf.q[n])
        BY <1>3, <1>4
      <3>3. ASSUME NEW i \in 1 .. n - 1 PROVE g[i] = Enqueued(g[i - 1], fetch_buf.q[i])
        <4>1. g[i] = f[i] /\ g[i - 1] = f[i - 1]
          BY <1>4, <3>3
        <4> QED
          BY <1>7, <4>1
      <3> HIDE DEF g
      <3>4. \A i \in 0 .. n : i = 0 \/ i = n \/ i \in 1 .. n - 1
        BY <1>4
      <3> QED
        BY <1>3, <3>1, <3>2, <3>3, <3>4
    <2>2. g = [i \in 0 .. n |-> g[i]]
      OBVIOUS
    <2> HIDE DEF g
    <2> QED
      BY <2>1, <2>2 DEF Turns
  <1> QED
    BY <1>2, <1>6

IdealStart == [s |-> ifq, ras |-> ras, pc |-> fetch_pc, stop |-> FALSE, halted |-> FALSE]

(* The turns of the loop over the words of the ideal memory exist.         *)
LEMMA TurnsOfBundles ==
  \E after :
      after = [i \in 0 .. Width |->
                      IF i = 0 THEN {IdealStart} ELSE IdealWords(after[i - 1], i)]
  <1> DEFINE Turns(f, n) ==
               f = [i \in 0 .. n |->
                      IF i = 0 THEN {IdealStart} ELSE IdealWords(f[i - 1], i)]
             S == {n \in 0 .. Width : ~ \E f : Turns(f, n)}
  <1> HIDE DEF Turns
  <1>1. SUFFICES ASSUME S # {} PROVE FALSE
    <2>1. SUFFICES ASSUME S = {} PROVE \E f : Turns(f, Width)
      BY DEF Turns
    <2>2. Width \in 0 .. Width
      BY ConstantsArePositive
    <2> QED
      BY <2>1, <2>2
  <1>0. S \in SUBSET Nat
    BY ConstantsArePositive
  <1>2. PICK n \in S : \A k \in S : n <= k
    BY <1>0, <1>1, MinimumExists
  <1>3. n # 0
    <2>1. Turns([i \in 0 .. 0 |-> {IdealStart}], 0)
      BY DEF Turns
    <2> QED
      BY <1>2, <2>1
  <1>4. n - 1 \in 0 .. Width /\ n - 1 \notin S /\ n \in 0 .. Width
    <2>1. n \in 0 .. Width
      BY <1>2
    <2>2. n - 1 \in 0 .. Width /\ ~(n <= n - 1)
      BY <1>3, <2>1, ConstantsArePositive
    <2> QED
      BY <1>2, <2>1, <2>2
  <1>5. PICK f : Turns(f, n - 1)
    BY <1>4
  <1>7. /\ \A i \in 1 .. n - 1 : f[i] = IdealWords(f[i - 1], i)
        /\ f[0] = {IdealStart}
    <2> DEFINE start == {IdealStart}
    <2>1. f = [i \in 0 .. n - 1 |-> IF i = 0 THEN start ELSE IdealWords(f[i - 1], i)]
      BY <1>5 DEF Turns
    <2> HIDE DEF start
    <2>2. n - 1 \in Nat
      BY <1>4
    <2>3. \A i \in 1 .. n - 1 : f[i] = IdealWords(f[i - 1], i)
      BY <2>1, <2>2
    <2>4. f[0] = start
      BY <2>1, <2>2
    <2> QED
      BY <2>3, <2>4 DEF start
  <1> DEFINE g == [i \in 0 .. n |->
                     IF i = n THEN IdealWords(f[n - 1], n) ELSE f[i]]
  <1>6. Turns(g, n)
    <2>1. \A i \in 0 .. n :
              g[i] = IF i = 0 THEN {IdealStart} ELSE IdealWords(g[i - 1], i)
      <3>1. g[0] = {IdealStart}
        BY <1>3, <1>4, <1>7
      <3>2. g[n] = IdealWords(g[n - 1], n)
        BY <1>3, <1>4
      <3>3. ASSUME NEW i \in 1 .. n - 1 PROVE g[i] = IdealWords(g[i - 1], i)
        <4>1. g[i] = f[i] /\ g[i - 1] = f[i - 1]
          BY <1>4, <3>3
        <4> QED
          BY <1>7, <4>1
      <3> HIDE DEF g
      <3>4. \A i \in 0 .. n : i = 0 \/ i = n \/ i \in 1 .. n - 1
        BY <1>4
      <3> QED
        BY <1>3, <3>1, <3>2, <3>3, <3>4
    <2>2. g = [i \in 0 .. n |-> g[i]]
      OBVIOUS
    <2> HIDE DEF g
    <2> QED
      BY <2>1, <2>2 DEF Turns
  <1> QED
    BY <1>2, <1>6

(* What the first i turns of the loop that empties the buffer have put     *)
(* into the queue.  The code predicts the words again, and as long as no   *)
(* call through a register has pushed its return address the predictions   *)
(* are those recorded in the buffer.                                       *)
Calls(t) == \E j \in 1 .. Len(t) : prog[t[j].pc].op = "call"
EmptiedInto(a, t, i) ==
  LET q == fetch_buf.q
      k == Len(t)
  IN  /\ a.s = ifq \o t /\ t \in Seq(Entries) /\ k <= i
      /\ \A j \in 1 .. k : t[j].pc = q[j].pc /\ t[j].at = q[j].at
      /\ \A j \in 1 .. k : j < k => ~t[j].taken
      /\ ~a.stop => k = i /\ (k > 0 => ~t[k].taken)
      /\ a.stop => k > 0 /\ t[k].taken
      /\ a.stop \in BOOLEAN
      /\ a.ras \in Seq(Nat) /\ Len(a.ras) <= RasSize
      /\ \/ Calls(t)
         \/ /\ \A j \in 1 .. k : t[j].taken = q[j].taken /\ t[j].target = q[j].target
            /\ ~a.stop => a.ras = ras
EmptiedTo(a, i) == \E t : EmptiedInto(a, t, i)

(* A word appended to what has been appended.                              *)
LEMMA AppendToConcat ==
  ASSUME NEW s \in Seq(Entries), NEW t \in Seq(Entries), NEW x \in Entries
  PROVE  Append(s \o t, x) = s \o Append(t, x)
  <1>1. s \o t \in Seq(Entries) /\ <<x>> \in Seq(Entries)
    BY ConcatProperties
  <1>2. Append(s \o t, x) = (s \o t) \o <<x>>
    BY <1>1, AppendIsConcat
  <1>3. Append(t, x) = t \o <<x>>
    BY AppendIsConcat
  <1>4. (s \o t) \o <<x>> = s \o (t \o <<x>>)
    BY <1>1, ConcatAssociative
  <1> QED
    BY <1>2, <1>3, <1>4

(* One turn.                                                               *)
LEMMA EnqueuedFacts ==
  ASSUME CfShapes, BufferIsPath, fetch_buf.valid, NEW i \in 1 .. Len(fetch_buf.q),
         NEW a, EmptiedTo(a, i - 1)
  PROVE  EmptiedTo(Enqueued(a, fetch_buf.q[i]), i)
  <1> DEFINE q == fetch_buf.q
             e == q[i]
             p == IF bp_mode = "always_taken" THEN AlwaysTaken(e.pc, a.ras)
                  ELSE [taken |-> e.taken, target |-> e.target]
             x == [pc |-> e.pc, at |-> e.at, taken |-> p.taken, target |-> p.target]
             r == IF bp_mode = "always_taken" THEN RasAfter(e.pc, a.ras) ELSE a.ras
  <1>1. PICK t : EmptiedInto(a, t, i - 1)
    BY DEF EmptiedTo
  <1>2. q \in Seq(Entries) /\ Len(q) \in Nat /\ i \in Nat /\ e \in Entries
    BY DEF CfShapes, Buffers
  <1>3. CASE a.stop
    <2>1. Enqueued(a, e) = a
      BY <1>3 DEF Enqueued
    <2>2. EmptiedInto(a, t, i)
      <3>1. Len(t) \in Nat
        BY <1>1 DEF EmptiedInto
      <3> QED
        BY <1>1, <1>2, <1>3, <3>1 DEF EmptiedInto
    <2> QED
      BY <2>1, <2>2 DEF EmptiedTo
  <1>4. CASE ~a.stop
    <2> DEFINE u == Append(t, x)
               b == [s |-> Append(a.s, x), ras |-> r, stop |-> p.taken]
    <2>1. Enqueued(a, e) = b
      BY <1>4 DEF Enqueued
    <2>2. /\ a.s = ifq \o t /\ t \in Seq(Entries) /\ Len(t) = i - 1
          /\ a.ras \in Seq(Nat) /\ Len(a.ras) <= RasSize
      BY <1>1, <1>4 DEF EmptiedInto
    <2>3. prog \in Programs /\ ifq \in Seq(Entries) /\ bp_mode \in {"gshare", "always_taken"}
      BY FetchConstants DEF CfShapes
    <2>4. /\ e.pc \in DOMAIN prog
          /\ bp_mode = "always_taken" =>
               [taken |-> e.taken, target |-> e.target] = AlwaysTaken(e.pc, ras)
      BY DEF BufferIsPath, GoodBuffer
    <2>5. e.pc \in Nat /\ e.at \in Nat /\ e.taken \in BOOLEAN /\ e.target \in Nat
      BY <1>2 DEF Entries
    <2>6. p \in [taken : BOOLEAN, target : Nat]
      BY <2>2, <2>3, <2>4, <2>5, AlwaysTakenFacts
    <2>7. r \in Seq(Nat) /\ Len(r) <= RasSize
      BY <2>2, <2>3, <2>4, RasAfterFacts
    <2>8. \/ Calls(t)
          \/ /\ \A j \in 1 .. Len(t) : t[j].taken = q[j].taken /\ t[j].target = q[j].target
             /\ a.ras = ras
      BY <1>1, <1>4 DEF EmptiedInto
    <2>9. a.ras = ras => /\ p = [taken |-> e.taken, target |-> e.target]
                         /\ ~p.taken /\ prog[e.pc].op # "call" => r = ras
      <3>1. ras \in Seq(Nat) /\ Len(ras) <= RasSize
        BY DEF CfShapes
      <3> QED
        BY <2>3, <2>4, <3>1, RasAfterFacts
    <2> HIDE DEF p, r, e, q
    <2>10. x \in Entries /\ x.pc = e.pc /\ x.at = e.at /\ x.taken = p.taken
           /\ x.target = p.target
      BY <2>5, <2>6 DEF Entries
    <2> HIDE DEF x
    <2>11. /\ b.s = ifq \o u /\ u \in Seq(Entries) /\ Len(u) = i
           /\ \A j \in 1 .. i - 1 : u[j] = t[j]
           /\ u[i] = x
      <3>1. /\ Append(ifq \o t, x) = ifq \o u /\ u \in Seq(Entries) /\ Len(u) = Len(t) + 1
            /\ \A j \in 1 .. Len(t) : u[j] = t[j]
            /\ u[Len(t) + 1] = x
        <4>1. x \in Entries /\ t \in Seq(Entries) /\ ifq \in Seq(Entries)
          BY <2>2, <2>3, <2>10
        <4>2. Append(ifq \o t, x) = ifq \o u
          BY <4>1, AppendToConcat
        <4>3. /\ u \in Seq(Entries) /\ Len(u) = Len(t) + 1
              /\ \A j \in 1 .. Len(t) : u[j] = t[j]
              /\ u[Len(t) + 1] = x
          BY <4>1, AppendProperties
        <4> QED
          BY <4>2, <4>3
      <3> HIDE DEF u
      <3>2. Len(t) + 1 = i
        BY <1>2, <2>2
      <3> QED
        BY <2>2, <3>1, <3>2
    <2>12. b.ras = r /\ b.stop = p.taken
      OBVIOUS
    <2> HIDE DEF b, u
    <2>13. EmptiedInto(b, u, i)
      <3>1. \A j \in 1 .. i : j = i \/ j \in 1 .. i - 1
        BY <1>2
      <3>2. \A j \in 1 .. i : u[j].pc = q[j].pc /\ u[j].at = q[j].at
        <4>1. \A j \in 1 .. i - 1 : t[j].pc = q[j].pc /\ t[j].at = q[j].at
          BY <1>1, <2>2 DEF EmptiedInto, q
        <4> QED
          BY <2>10, <2>11, <3>1, <4>1 DEF e
      <3>3. \A j \in 1 .. i : j < i => ~u[j].taken
        <4>1. \A j \in 1 .. i - 1 : ~t[j].taken
          <5>1. \A j \in 1 .. i - 1 : j < i - 1 \/ j = i - 1
            BY <1>2
          <5>2. i - 1 > 0 => ~t[i - 1].taken
            BY <1>1, <1>4, <2>2 DEF EmptiedInto
          <5>3. \A j \in 1 .. i - 1 : j < i - 1 => ~t[j].taken
            BY <1>1, <2>2 DEF EmptiedInto
          <5> QED
            BY <1>2, <5>1, <5>2, <5>3
        <4> QED
          BY <1>2, <2>11, <3>1, <4>1
      <3>4. u[i].taken = b.stop /\ b.stop \in BOOLEAN /\ i > 0
        BY <1>2, <2>6, <2>10, <2>11, <2>12
      <3>5. Calls(t) => Calls(u)
        <4>1. \A j \in 1 .. Len(t) : j \in 1 .. Len(u) /\ u[j] = t[j]
          BY <1>2, <2>2, <2>11
        <4> QED
          BY <4>1 DEF Calls
      <3>6. ASSUME ~Calls(u)
            PROVE  /\ \A j \in 1 .. i : u[j].taken = q[j].taken /\ u[j].target = q[j].target
                   /\ ~b.stop => b.ras = ras
        <4>1. /\ \A j \in 1 .. i - 1 : t[j].taken = q[j].taken /\ t[j].target = q[j].target
              /\ a.ras = ras
          BY <2>2, <2>8, <3>5, <3>6
        <4>2. i \in 1 .. Len(u) /\ u[i].pc = e.pc
          BY <1>2, <2>10, <2>11
        <4>3. prog[e.pc].op # "call"
          BY <3>6, <4>2 DEF Calls
        <4>4. p.taken = e.taken /\ p.target = e.target
          BY <2>9, <4>1
        <4>5. u[i].taken = q[i].taken /\ u[i].target = q[i].target
          BY <2>10, <2>11, <4>4 DEF e
        <4> QED
          BY <2>9, <2>11, <2>12, <3>1, <4>1, <4>3, <4>5
      <3> QED
        BY <1>2, <2>7, <2>11, <2>12, <3>2, <3>3, <3>4, <3>6 DEF EmptiedInto, q
    <2> QED
      BY <2>1, <2>13 DEF EmptiedTo, e, q
  <1>5. a.stop \in BOOLEAN
    BY <1>1 DEF EmptiedInto
  <1> QED
    BY <1>3, <1>4

(* All turns.                                                              *)
LEMMA EmptiedFacts ==
  ASSUME CfShapes, BufferIsPath, fetch_buf.valid
  PROVE  EmptiedTo(Emptied, Len(fetch_buf.q))
  <1> DEFINE N == Len(fetch_buf.q)
             Turns(f) == f = [i \in 0 .. N |->
                                IF i = 0 THEN Unstopped
                                ELSE Enqueued(f[i - 1], fetch_buf.q[i])]
             after == CHOOSE f : Turns(f)
             S == {n \in 0 .. N : ~EmptiedTo(after[n], n)}
  <1>0. N \in Nat
    BY DEF CfShapes, Buffers
  <1>1. Turns(after)
    BY <1>0, TurnsOfEmptying
  <1>2. Emptied = after[N]
    BY DEF Emptied, Unstopped
  <1> HIDE DEF after
  <1>3. ASSUME S # {} PROVE FALSE
    <2>0. S \in SUBSET Nat
      BY <1>0
    <2>1. PICK n \in S : \A k \in S : n <= k
      BY <1>3, <2>0, MinimumExists
    <2>2. n # 0
      <3>1. after[0] = Unstopped
        BY <1>0, <1>1
      <3>2. EmptiedInto(Unstopped, <<>>, 0)
        <4>1. /\ Unstopped.s = ifq /\ Unstopped.ras = ras /\ Unstopped.stop = FALSE
              /\ ifq \in Seq(Entries) /\ ras \in Seq(Nat) /\ Len(ras) <= RasSize
          BY DEF Unstopped, CfShapes
        <4>2. ifq \o <<>> = ifq
          BY <4>1, ConcatEmptySeq
        <4>3. <<>> \in Seq(Entries) /\ Len(<<>>) = 0
          OBVIOUS
        <4> DEFINE e == <<>>
        <4>5. e \in Seq(Entries) /\ Len(e) = 0 /\ Unstopped.s = ifq \o e
          BY <4>1, <4>2, <4>3
        <4>7. /\ \A j \in 1 .. Len(e) : FALSE
              /\ ~(Len(e) > 0) /\ Len(e) <= 0
          BY <4>5
        <4> HIDE DEF e
        <4>8. \A j \in 1 .. Len(e) : /\ e[j].taken = fetch_buf.q[j].taken
                                     /\ e[j].target = fetch_buf.q[j].target
          BY <4>7
        <4>9. \A j \in 1 .. Len(e) : /\ e[j].pc = fetch_buf.q[j].pc
                                     /\ e[j].at = fetch_buf.q[j].at
          BY <4>7
        <4>10. \A j \in 1 .. Len(e) : j < Len(e) => ~e[j].taken
          BY <4>7
        <4>6. EmptiedInto(Unstopped, e, 0)
          BY <4>1, <4>5, <4>7, <4>8, <4>9, <4>10 DEF EmptiedInto
        <4> QED
          BY <4>6 DEF e
      <3> QED
        BY <2>1, <3>1, <3>2 DEF EmptiedTo
    <2>3. n - 1 \in 0 .. N /\ n - 1 \notin S /\ n \in 1 .. N
      BY <1>0, <2>1, <2>2
    <2>4. EmptiedTo(after[n - 1], n - 1)
      BY <2>3
    <2>5. after[n] = Enqueued(after[n - 1], fetch_buf.q[n])
      BY <1>0, <1>1, <2>2, <2>3
    <2>6. EmptiedTo(after[n], n)
      BY <2>3, <2>4, <2>5, EnqueuedFacts
    <2> QED
      BY <2>1, <2>6
  <1>4. N \in 0 .. N
    BY <1>0
  <1> QED
    BY <1>2, <1>3, <1>4

(* Where the buffer goes on from.                                          *)
NextOf(buf, pc) == IF buf.valid /\ buf.q # <<>> THEN buf.q[1].pc ELSE pc

(* What the buffer puts into the queue is a path; unless it has a call,    *)
(* it is what the buffer recorded.                                         *)
LEMMA EmptiedIsPath ==
  ASSUME CfShapes, BufferIsPath, fetch_buf.valid
  PROVE  /\ Emptied.ras \in Seq(Nat) /\ Len(Emptied.ras) <= RasSize
         /\ \E t \in Seq(Entries) :
              /\ Emptied.s = ifq \o t /\ Len(t) <= Len(fetch_buf.q)
              /\ Path!IsPath(t, NextOf(fetch_buf, fetch_pc))
              /\ Calls(t) \/ t = fetch_buf.q
  <1> DEFINE q == fetch_buf.q
             N == Len(q)
  <1>1. PICK t : EmptiedInto(Emptied, t, N)
    BY EmptiedFacts DEF EmptiedTo
  <1>2. /\ Emptied.s = ifq \o t /\ t \in Seq(Entries) /\ Len(t) <= N
        /\ Emptied.ras \in Seq(Nat) /\ Len(Emptied.ras) <= RasSize
    BY <1>1 DEF EmptiedInto
  <1>3. /\ \A j \in 1 .. Len(t) : t[j].pc = q[j].pc /\ t[j].at = q[j].at
        /\ \A j \in 1 .. Len(t) : j < Len(t) => ~t[j].taken
    BY <1>1 DEF EmptiedInto
  <1>4. q \in Seq(Entries) /\ N \in Nat /\ Len(t) \in Nat /\ DOMAIN t = 1 .. Len(t)
    BY <1>2 DEF CfShapes, Buffers
  <1>5. /\ \A j \in 1 .. N : /\ q[j].at = q[j].pc /\ q[j].pc \in DOMAIN prog
                             /\ q[j].taken => j = N
        /\ \A j \in 1 .. N - 1 : q[j + 1].pc = q[j].pc + 1
    BY DEF BufferIsPath, GoodBuffer
  <1>6. Path!IsPath(t, NextOf(fetch_buf, fetch_pc))
    <2>1. \A j \in 1 .. Len(t) : t[j].at = t[j].pc /\ t[j].pc \in DOMAIN prog
      <3>1. \A j \in 1 .. Len(t) : j \in 1 .. N
        BY <1>2, <1>4
      <3> QED
        BY <1>3, <1>5, <3>1
    <2>2. t # <<>> => t[1].pc = NextOf(fetch_buf, fetch_pc)
      <3>1. ASSUME t # <<>> PROVE t[1].pc = NextOf(fetch_buf, fetch_pc)
        <4>1. 1 \in 1 .. Len(t) /\ N > 0
          BY <1>2, <1>4, <3>1
        <4>2. q # <<>>
          BY <4>1
        <4> QED
          BY <1>3, <4>1, <4>2 DEF NextOf
      <3> QED
        BY <3>1
    <2>3. ASSUME NEW j \in 1 .. Len(t) - 1 PROVE t[j + 1].pc = Path!After(t[j])
      <3>1. j \in 1 .. Len(t) /\ j + 1 \in 1 .. Len(t) /\ j \in 1 .. N - 1 /\ j < Len(t)
        BY <1>2, <1>4, <2>3
      <3>2. t[j + 1].pc = q[j].pc + 1 /\ t[j].pc = q[j].pc /\ ~t[j].taken
        BY <1>3, <1>5, <3>1
      <3> QED
        BY <3>2 DEF Path!After
    <2> QED
      BY <1>4, <2>1, <2>2, <2>3 DEF Path!IsPath
  <1>7. ASSUME ~Calls(t) PROVE t = q
    <2>1. \A j \in 1 .. Len(t) : t[j].taken = q[j].taken /\ t[j].target = q[j].target
      BY <1>1, <1>7 DEF EmptiedInto
    <2>2. Len(t) = N
      <3>1. CASE Emptied.stop
        <4>1. Len(t) > 0 /\ t[Len(t)].taken
          BY <1>1, <3>1 DEF EmptiedInto
        <4>2. Len(t) \in 1 .. Len(t) /\ Len(t) \in 1 .. N
          BY <1>2, <1>4, <4>1
        <4> QED
          BY <1>5, <2>1, <4>1, <4>2
      <3>2. CASE ~Emptied.stop
        BY <1>1, <3>2 DEF EmptiedInto
      <3> QED
        BY <3>1, <3>2
    <2>3. ASSUME NEW j \in 1 .. N PROVE t[j] = q[j]
      <3>1. t[j] \in Entries /\ q[j] \in Entries
        BY <1>2, <1>4, <2>2
      <3>2. /\ t[j].pc = q[j].pc /\ t[j].at = q[j].at
            /\ t[j].taken = q[j].taken /\ t[j].target = q[j].target
        BY <1>3, <2>1, <2>2
      <3> QED
        BY <3>1, <3>2 DEF Entries
    <2> QED
      BY <1>2, <1>4, <2>2, <2>3, SeqEqual
  <1> QED
    BY <1>2, <1>6, <1>7

(* The pc a path from pc leads to.                                         *)
EndOf(t, pc) == IF t = <<>> THEN pc ELSE Path!After(t[Len(t)])

(* The word a path leads to can be appended to it.                         *)
LEMMA PathGrows ==
  ASSUME NEW t \in Seq(Entries), NEW x \in Entries, NEW pc, Path!IsPath(t, pc),
         x.at = x.pc, x.pc \in DOMAIN prog, x.pc = EndOf(t, pc)
  PROVE  Path!IsPath(Append(t, x), pc) /\ EndOf(Append(t, x), pc) = Path!After(x)
  <1> DEFINE u == Append(t, x)
             n == Len(t)
  <1>1. /\ u \in Seq(Entries) /\ u # <<>> /\ Len(u) = n + 1 /\ n \in Nat
        /\ \A j \in 1 .. n : u[j] = t[j]
        /\ u[n + 1] = x
    BY AppendProperties
  <1>2. DOMAIN u = 1 .. n + 1 /\ DOMAIN t = 1 .. n
    BY <1>1
  <1> HIDE DEF u
  <1>3. /\ \A j \in 1 .. n : t[j].at = t[j].pc /\ t[j].pc \in DOMAIN prog
        /\ t # <<>> => t[1].pc = pc
        /\ \A j \in 1 .. n - 1 : t[j + 1].pc = Path!After(t[j])
    BY <1>2 DEF Path!IsPath
  <1>4. \A j \in 1 .. n + 1 : u[j].at = u[j].pc /\ u[j].pc \in DOMAIN prog
    <2>1. \A j \in 1 .. n + 1 : j = n + 1 \/ j \in 1 .. n
      BY <1>1
    <2> QED
      BY <1>1, <1>3, <2>1
  <1>5. u[1].pc = pc
    <2>1. CASE t = <<>>
      <3>1. n = 0
        BY <2>1
      <3>2. u[1] = x
        BY <1>1, <3>1
      <3> QED
        BY <2>1, <3>2 DEF EndOf
    <2>2. CASE t # <<>>
      <3>1. 1 \in 1 .. n
        BY <2>2
      <3> QED
        BY <1>1, <1>3, <2>2, <3>1
    <2> QED
      BY <2>1, <2>2
  <1>6. ASSUME NEW j \in 1 .. n PROVE u[j + 1].pc = Path!After(u[j])
    <2>1. CASE j = n
      <3>1. t # <<>>
        BY <1>1, <2>1
      <3>2. x.pc = Path!After(t[n])
        BY <3>1 DEF EndOf
      <3> QED
        BY <1>1, <2>1, <3>2
    <2>2. CASE j # n
      <3>1. j \in 1 .. n - 1 /\ j + 1 \in 1 .. n
        BY <1>1, <1>6, <2>2
      <3> QED
        BY <1>1, <1>3, <3>1
    <2> QED
      BY <2>1, <2>2
  <1>7. (n + 1) - 1 = n
    BY <1>1
  <1>8. Path!IsPath(u, pc)
    BY <1>1, <1>2, <1>4, <1>5, <1>6, <1>7 DEF Path!IsPath
  <1>9. EndOf(u, pc) = Path!After(x)
    BY <1>1 DEF EndOf
  <1> QED
    BY <1>8, <1>9 DEF u

(* What the first i turns over the words of the ideal memory have put into *)
(* the queue: a path from where fetch stood to where it stands.            *)
BundleInto(q, t, i) ==
  /\ q.s = ifq \o t /\ t \in Seq(Entries) /\ Len(q.s) <= IfqSize
  /\ Path!IsPath(t, fetch_pc)
  /\ q.pc \in Nat /\ q.pc = EndOf(t, fetch_pc)
  /\ q.stop \in BOOLEAN /\ q.halted \in BOOLEAN
  /\ ~q.stop => q.pc = fetch_pc + i
  /\ q.halted => q.stop /\ q.pc \notin DOMAIN prog
  /\ q.ras \in Seq(Nat) /\ Len(q.ras) <= RasSize
BundleTo(Q, i) == \A q \in Q : \E t : BundleInto(q, t, i)

(* One word.                                                               *)
LEMMA IdealWordFacts ==
  ASSUME CfShapes, ideal_fetch_pc = fetch_pc, NEW i \in 1 .. Width,
         NEW q, NEW t, BundleInto(q, t, i - 1), NEW b \in IdealWord(q, i)
  PROVE  \E u : BundleInto(b, u, i)
  <1> DEFINE pc == ideal_fetch_pc + i - 1
             ps == IF bp_mode = "always_taken" THEN {AlwaysTaken(pc, q.ras)}
                   ELSE {NotTaken(pc)} \cup (IF prog[pc].op = "plain" THEN {}
                                             ELSE [taken : {TRUE}, target : Recoveries])
             stopped == [q EXCEPT !.stop = TRUE]
             left == [q EXCEPT !.stop = TRUE, !.halted = TRUE]
             word(p) ==
               [s    |-> Append(q.s, [pc |-> pc, at |-> pc,
                                      taken |-> p.taken, target |-> p.target]),
                ras  |-> IF bp_mode = "always_taken" THEN RasAfter(pc, q.ras) ELSE q.ras,
                pc   |-> IF p.taken THEN p.target ELSE pc + 1,
                stop |-> p.taken, halted |-> FALSE]
  <1>1. /\ q.s = ifq \o t /\ t \in Seq(Entries) /\ Len(q.s) <= IfqSize
        /\ Path!IsPath(t, fetch_pc)
        /\ q.pc \in Nat /\ q.pc = EndOf(t, fetch_pc)
        /\ q.stop \in BOOLEAN /\ q.halted \in BOOLEAN
        /\ ~q.stop => q.pc = fetch_pc + (i - 1) /\ ~q.halted
        /\ q.halted => q.stop /\ q.pc \notin DOMAIN prog
        /\ q.ras \in Seq(Nat) /\ Len(q.ras) <= RasSize
    BY DEF BundleInto
  <1>2. /\ prog \in Programs /\ ifq \in Seq(Entries) /\ fetch_pc \in Nat
        /\ bp_mode \in {"gshare", "always_taken"} /\ i \in Nat
        /\ IfqSize \in Nat
    BY FetchConstants, ConstantsArePositive DEF CfShapes
  <1>3. CASE q.stop
    <2>1. b = q
      BY <1>3 DEF IdealWord
    <2>2. BundleInto(b, t, i)
      BY <1>1, <1>3, <2>1 DEF BundleInto
    <2> QED
      BY <2>2
  <1>4. CASE ~q.stop
    <2>1. pc = q.pc /\ pc \in Nat /\ ~q.halted
      BY <1>1, <1>2, <1>4
    <2>2. CASE ~InImage(pc)
      <3>1. b = left
        BY <1>4, <2>2 DEF IdealWord
      <3>2. /\ b.s = q.s /\ b.pc = q.pc /\ b.stop = TRUE /\ b.halted = TRUE /\ b.ras = q.ras
        BY <3>1
      <3>3. q.pc \notin DOMAIN prog
        BY <2>1, <2>2 DEF InImage
      <3>4. BundleInto(b, t, i)
        BY <1>1, <3>2, <3>3 DEF BundleInto
      <3> QED
        BY <3>4
    <2>3. CASE InImage(pc) /\ Len(q.s) = IfqSize
      <3>1. b = stopped
        BY <1>4, <2>3 DEF IdealWord
      <3>2. /\ b.s = q.s /\ b.pc = q.pc /\ b.stop = TRUE /\ b.halted = q.halted
            /\ b.ras = q.ras
        BY <3>1
      <3>4. BundleInto(b, t, i)
        BY <1>1, <2>1, <3>2 DEF BundleInto
      <3> QED
        BY <3>4
    <2>4. CASE InImage(pc) /\ Len(q.s) # IfqSize
      <3>1. pc \in DOMAIN prog
        BY <2>4 DEF InImage
      <3>2. PICK p \in ps : b = word(p)
        BY <1>4, <2>4 DEF IdealWord
      <3>3. p \in [taken : BOOLEAN, target : Nat] /\ (~p.taken => p.target = pc + 1)
        <4>1. CASE bp_mode = "always_taken"
          <5>1. p = AlwaysTaken(pc, q.ras)
            BY <3>2, <4>1
          <5> QED
            BY <1>1, <1>2, <3>1, <5>1, AlwaysTakenFacts
        <4>2. CASE bp_mode # "always_taken"
          <5>1. p = NotTaken(pc) \/ p \in [taken : {TRUE}, target : Recoveries]
            BY <3>2, <4>2
          <5>2. pc + 1 \in Nat /\ Recoveries \subseteq Nat
            BY <2>1, FetchConstants
          <5>3. ASSUME p = NotTaken(pc)
                PROVE  /\ p \in [taken : BOOLEAN, target : Nat]
                       /\ ~p.taken => p.target = pc + 1
            BY <5>2, <5>3 DEF NotTaken
          <5>4. ASSUME p \in [taken : {TRUE}, target : Recoveries]
                PROVE  p \in [taken : BOOLEAN, target : Nat] /\ p.taken
            BY <5>2, <5>4
          <5> QED
            BY <5>1, <5>3, <5>4
        <4> QED
          BY <4>1, <4>2
      <3> DEFINE x == [pc |-> pc, at |-> pc, taken |-> p.taken, target |-> p.target]
                 u == Append(t, x)
                 r == IF bp_mode = "always_taken" THEN RasAfter(pc, q.ras) ELSE q.ras
      <3>4. r \in Seq(Nat) /\ Len(r) <= RasSize
        BY <1>1, <1>2, <3>1, RasAfterFacts
      <3>5. /\ b.s = Append(q.s, x) /\ b.ras = r /\ b.stop = p.taken /\ b.halted = FALSE
            /\ b.pc = IF p.taken THEN p.target ELSE pc + 1
        BY <3>2
      <3> HIDE DEF r, word, ps, stopped, left, pc
      <3>6. /\ x \in Entries /\ x.pc = pc /\ x.at = pc /\ x.taken = p.taken
            /\ x.target = p.target
        BY <2>1, <3>3 DEF Entries
      <3> HIDE DEF x
      <3>7. Append(q.s, x) = ifq \o u
        BY <1>1, <1>2, <3>6, AppendToConcat
      <3>8. u \in Seq(Entries)
        BY <1>1, <3>6, AppendProperties
      <3>9. Path!IsPath(u, fetch_pc) /\ EndOf(u, fetch_pc) = Path!After(x)
        BY <1>1, <2>1, <3>1, <3>6, PathGrows
      <3>10. Len(b.s) <= IfqSize
        <4>1. q.s \in Seq(Entries)
          BY <1>1, <1>2, ConcatProperties
        <4>2. Len(b.s) = Len(q.s) + 1 /\ Len(q.s) \in Nat
          BY <3>5, <3>6, <4>1, AppendProperties
        <4>3. Len(q.s) <= IfqSize /\ Len(q.s) # IfqSize /\ IfqSize \in Nat
          BY <1>1, <1>2, <2>4
        <4> QED
          BY <4>2, <4>3
      <3>11. b.pc = Path!After(x) /\ b.pc \in Nat
        BY <2>1, <3>3, <3>5, <3>6 DEF Path!After
      <3>12. ~b.stop => b.pc = fetch_pc + i
        BY <1>1, <1>2, <1>4, <2>1, <3>5
      <3> HIDE DEF u
      <3>13. BundleInto(b, u, i)
        BY <3>3, <3>4, <3>5, <3>7, <3>8, <3>9, <3>10, <3>11, <3>12 DEF BundleInto
      <3> QED
        BY <3>13
    <2> QED
      BY <2>2, <2>3, <2>4
  <1> QED
    BY <1>1, <1>3, <1>4

(* All words.                                                              *)
LEMMA BundleFacts ==
  ASSUME CfShapes, ideal_fetch_pc = fetch_pc
  PROVE  BundleTo(IdealBundles, Width)
  <1> DEFINE Turns(f) == f = [i \in 0 .. Width |->
                                IF i = 0 THEN {IdealStart} ELSE IdealWords(f[i - 1], i)]
             after == CHOOSE f : Turns(f)
             S == {n \in 0 .. Width : ~BundleTo(after[n], n)}
  <1>1. Turns(after)
    BY TurnsOfBundles
  <1>2. IdealBundles = after[Width]
    BY DEF IdealBundles, IdealStart
  <1> HIDE DEF after
  <1>3. ASSUME S # {} PROVE FALSE
    <2>0. S \in SUBSET Nat
      BY ConstantsArePositive
    <2>1. PICK n \in S : \A k \in S : n <= k
      BY <1>3, <2>0, MinimumExists
    <2>2. n # 0
      <3>1. after[0] = {IdealStart}
        <4> DEFINE start == {IdealStart}
        <4>1. after = [i \in 0 .. Width |->
                         IF i = 0 THEN start ELSE IdealWords(after[i - 1], i)]
          BY <1>1
        <4> HIDE DEF start
        <4>2. after[0] = start
          BY <4>1, ConstantsArePositive
        <4> QED
          BY <4>2 DEF start
      <3>2. BundleInto(IdealStart, <<>>, 0)
        <4>1. /\ IdealStart.s = ifq /\ IdealStart.ras = ras /\ IdealStart.pc = fetch_pc
              /\ IdealStart.stop = FALSE /\ IdealStart.halted = FALSE
              /\ ifq \in Seq(Entries) /\ Len(ifq) <= IfqSize
              /\ ras \in Seq(Nat) /\ Len(ras) <= RasSize /\ fetch_pc \in Nat
          BY DEF IdealStart, CfShapes
        <4> DEFINE e == <<>>
        <4>2. e \in Seq(Entries) /\ Len(e) = 0 /\ IdealStart.s = ifq \o e
          BY <4>1, ConcatEmptySeq
        <4>3. DOMAIN e = {} /\ e = <<>> /\ \A j \in 1 .. Len(e) - 1 : FALSE
          OBVIOUS
        <4> HIDE DEF e
        <4>4. EndOf(e, fetch_pc) = fetch_pc
          BY <4>3 DEF EndOf
        <4>5. Path!IsPath(e, fetch_pc)
          BY <4>3 DEF Path!IsPath
        <4>6. fetch_pc = fetch_pc + 0
          BY <4>1
        <4>7. BundleInto(IdealStart, e, 0)
          BY <4>1, <4>2, <4>4, <4>5, <4>6 DEF BundleInto
        <4> QED
          BY <4>7 DEF e
      <3> QED
        BY <2>1, <3>1, <3>2 DEF BundleTo
    <2>3. n - 1 \in 0 .. Width /\ n - 1 \notin S /\ n \in 1 .. Width
      BY <2>1, <2>2, ConstantsArePositive
    <2>4. BundleTo(after[n - 1], n - 1)
      BY <2>3
    <2>5. after[n] = IdealWords(after[n - 1], n)
      BY <1>1, <2>2, <2>3, ConstantsArePositive
    <2>6. ASSUME NEW b \in after[n] PROVE \E u : BundleInto(b, u, n)
      <3>1. PICK q \in after[n - 1] : b \in IdealWord(q, n)
        BY <2>5, <2>6 DEF IdealWords
      <3>2. PICK t : BundleInto(q, t, n - 1)
        BY <2>4 DEF BundleTo
      <3> QED
        BY <2>3, <3>1, <3>2, IdealWordFacts
    <2>7. BundleTo(after[n], n)
      BY <2>6 DEF BundleTo
    <2> QED
      BY <2>1, <2>7
  <1>4. Width \in 0 .. Width
    BY ConstantsArePositive
  <1> QED
    BY <1>2, <1>3, <1>4

-------------------------------------------------------------------------------
(* Requests and their answers.                                             *)

(* The predictions recorded with a request are those.                      *)
LEMMA PredictionFacts ==
  ASSUME CfShapes, NEW pc \in Nat, NEW r \in RequestPredictions(pc)
  PROVE  /\ r \in [slot : 0 .. Width, target : Nat]
         /\ Predicts(r, pc)
  <1> DEFINE slots == {i \in 1 .. Width : InImage(pc + i - 1)}
             tk == {i \in slots : AlwaysTaken(pc + i - 1, ras).taken}
             first == CHOOSE i \in tk : \A j \in tk : i <= j
             control == {i \in slots : prog[pc + i - 1].op # "plain"}
  <1>1. prog \in Programs /\ ras \in Seq(Nat) /\ bp_mode \in {"gshare", "always_taken"}
    BY FetchConstants DEF CfShapes
  <1>2. Width \in Nat /\ Recoveries \subseteq Nat
    BY FetchConstants, ConstantsArePositive
  <1>3. CASE bp_mode = "gshare"
    <2>1. r \in {NoPred} \cup [slot : control, target : Recoveries]
      BY <1>3 DEF RequestPredictions
    <2>2. \A i \in control : i \in 0 .. Width
      BY <1>2
    <2> HIDE DEF control
    <2>3. r \in [slot : 0 .. Width, target : Nat]
      <3>1. ASSUME r = NoPred PROVE r \in [slot : 0 .. Width, target : Nat]
        BY <1>2, <3>1 DEF NoPred
      <3>2. ASSUME r \in [slot : control, target : Recoveries]
            PROVE  r \in [slot : 0 .. Width, target : Nat]
        BY <1>2, <2>2, <3>2
      <3> QED
        BY <2>1, <3>1, <3>2
    <2> QED
      BY <1>3, <2>3 DEF Predicts
  <1>4. CASE bp_mode = "always_taken"
    <2>1. r = IF tk = {} THEN NoPred
              ELSE [slot |-> first, target |-> AlwaysTaken(pc + first - 1, ras).target]
      BY <1>4 DEF RequestPredictions
    <2>2. ASSUME NEW i \in 1 .. Width, InImage(pc + i - 1)
          PROVE  /\ AlwaysTaken(pc + i - 1, ras) \in [taken : BOOLEAN, target : Nat]
                 /\ ~AlwaysTaken(pc + i - 1, ras).taken =>
                      AlwaysTaken(pc + i - 1, ras) = [taken |-> FALSE, target |-> pc + i]
      <3>1. pc + i - 1 \in DOMAIN prog /\ (pc + i - 1) + 1 = pc + i
        BY <1>2, <2>2 DEF InImage
      <3> QED
        BY <1>1, <3>1, AlwaysTakenFacts
    <2>3. CASE tk = {}
      <3>1. r = [slot |-> 0, target |-> 0]
        BY <2>1, <2>3 DEF NoPred
      <3>2. r \in [slot : 0 .. Width, target : Nat] /\ r.slot = 0
        BY <1>2, <3>1
      <3>3. ASSUME NEW i \in 1 .. Width, InImage(pc + i - 1)
            PROVE  AlwaysTaken(pc + i - 1, ras) = [taken |-> FALSE, target |-> pc + i]
        <4>1. ~AlwaysTaken(pc + i - 1, ras).taken
          BY <2>3, <3>3
        <4> QED
          BY <2>2, <3>3, <4>1
      <3> QED
        BY <1>2, <3>2, <3>3 DEF Predicts
    <2>4. CASE tk # {}
      <3>0. tk \in SUBSET Nat
        BY <1>2
      <3>1. first \in tk /\ \A j \in tk : first <= j
        BY <2>4, <3>0, MinimumExists
      <3> HIDE DEF first
      <3>2. /\ first \in 1 .. Width /\ InImage(pc + first - 1)
            /\ AlwaysTaken(pc + first - 1, ras).taken
        BY <3>1
      <3> DEFINE a == AlwaysTaken(pc + first - 1, ras)
      <3>3. a \in [taken : BOOLEAN, target : Nat] /\ a.taken
        BY <2>2, <3>2
      <3> HIDE DEF a
      <3>4. r = [slot |-> first, target |-> a.target]
        BY <2>1, <2>4 DEF a
      <3>5. r \in [slot : 0 .. Width, target : Nat] /\ r.slot = first /\ r.target = a.target
        BY <1>2, <3>2, <3>3, <3>4
      <3>6. a = [taken |-> TRUE, target |-> r.target]
        BY <3>3, <3>5
      <3>7. ASSUME NEW i \in 1 .. Width, InImage(pc + i - 1), i <= first, i # first
            PROVE  AlwaysTaken(pc + i - 1, ras) = [taken |-> FALSE, target |-> pc + i]
        <4>1. i \notin tk
          BY <1>2, <3>1, <3>2, <3>7
        <4>2. ~AlwaysTaken(pc + i - 1, ras).taken
          BY <3>7, <4>1
        <4> QED
          BY <2>2, <3>7, <4>2
      <3>8. first # 0
        BY <1>2, <3>2
      <3> QED
        BY <3>5, <3>6, <3>7, <3>8 DEF a, Predicts
    <2> QED
      BY <2>3, <2>4
  <1> QED
    BY <1>1, <1>3, <1>4

(* What an answer leaves in the buffer: consecutive words of the image up  *)
(* to the first one predicted taken, and where fetch goes on.              *)
LEMMA CapturedFacts ==
  ASSUME CfShapes, Predicts(fetch_req_pred, fetch_pc),
         NEW buf, buf = CapturedBuf(Answer(fetch_pc))
  PROVE  /\ buf \in Buffers /\ Len(buf.q) <= Width /\ buf.valid
         /\ PcAfter(buf) \in Nat
         /\ GoodBuffer(buf, PcAfter(buf))
         /\ NextOf(buf, PcAfter(buf)) = fetch_pc
  <1> DEFINE pc    == fetch_pc
             slot  == fetch_req_pred.slot
             words == Answer(pc).words
             ends  == {i \in DOMAIN words : ~InImage(words[i])}
             valid == {i \in DOMAIN words : \A j \in ends : i < j}
             kept  == {i \in valid : slot \in valid => i <= slot}
             taken == slot \in valid
             entry(i) == IF i = slot
                           THEN [pc |-> pc + i - 1, at |-> words[i],
                                 taken |-> TRUE, target |-> fetch_req_pred.target]
                           ELSE [pc |-> pc + i - 1, at |-> words[i],
                                 taken |-> FALSE, target |-> (pc + i - 1) + 1]
             q == [i \in 1 .. Cardinality(kept) |-> entry(i)]
  <1>1. pc \in Nat /\ Width \in Nat /\ Answer(pc).pc = pc
    BY AnswerFacts, ConstantsArePositive DEF CfShapes
  <1>2. buf = [valid |-> TRUE, eop |-> ends # {} /\ ~taken, q |-> q]
    BY <1>1 DEF CapturedBuf
  <1>3. PICK c \in 1 .. Width : words = [i \in 1 .. c |-> pc + i - 1]
    BY <1>1, AnswerFacts
  <1>4. c \in Nat /\ c > 0 /\ c <= Width /\ DOMAIN words = 1 .. c
    BY <1>1, <1>3
  <1>5. \A i \in 1 .. c : words[i] = pc + i - 1
    BY <1>3
  <1>6. /\ fetch_req_pred \in [slot : 0 .. Width, target : Nat]
        /\ slot \in 0 .. Width /\ fetch_req_pred.target \in Nat
    BY DEF CfShapes
  <1> HIDE DEF words
  <1>7. /\ ends = {i \in 1 .. c : pc + i - 1 \notin DOMAIN prog}
        /\ valid = {i \in 1 .. c : \A j \in ends : i < j}
    BY <1>4, <1>5 DEF InImage
  <1> HIDE DEF ends, valid
  <1>8. valid \in SUBSET (1 .. c) /\ ends \in SUBSET (1 .. c)
    BY <1>7
  <1>9. \A i \in valid, j \in 1 .. c : j < i => j \in valid
    <2>1. ASSUME NEW i \in valid, NEW j \in 1 .. c, j < i, NEW m \in ends PROVE j < m
      <3>1. i < m /\ i \in Nat /\ j \in Nat /\ m \in Nat
        BY <1>4, <1>7, <1>8, <2>1
      <3> QED
        BY <2>1, <3>1
    <2> QED
      BY <1>7, <2>1
  <1>10. kept \in SUBSET (1 .. c)
    BY <1>8
  <1>11. \A i \in kept, j \in 1 .. c : j < i => j \in kept
    <2>1. ASSUME NEW i \in kept, NEW j \in 1 .. c, j < i PROVE j \in kept
      <3>1. i \in valid /\ (slot \in valid => i <= slot) /\ i \in 1 .. c
        BY <1>10
      <3>2. j \in valid
        BY <1>9, <2>1, <3>1
      <3>3. slot \in valid => j <= slot
        BY <1>1, <1>6, <2>1, <3>1
      <3> QED
        BY <3>2, <3>3
    <2> QED
      BY <2>1
  <1>12. PICK n \in 0 .. c : kept = 1 .. n /\ Cardinality(kept) = n
    BY <1>4, <1>10, <1>11, PrefixIsInterval
  <1>13. n \in Nat /\ n <= c /\ n <= Width
    <2>1. n \in 0 .. c
      BY <1>12
    <2> QED
      BY <1>1, <1>4, <2>1
  <1>14. \A i \in 1 .. n : /\ i \in valid /\ i \in 1 .. c /\ i \in 1 .. Width
                           /\ slot \in valid => i <= slot
    BY <1>1, <1>4, <1>8, <1>12, <1>13
  <1>15. q = [i \in 1 .. n |-> entry(i)]
    BY <1>12
  <1> DEFINE en(i, x) == /\ x \in Entries /\ x.pc = pc + i - 1 /\ x.at = pc + i - 1
                         /\ x.taken = (i = slot)
                         /\ x.target = IF i = slot THEN fetch_req_pred.target ELSE pc + i
  <1>16. ASSUME NEW i \in 1 .. n PROVE en(i, entry(i))
    <2>1. words[i] = pc + i - 1 /\ pc + i - 1 \in Nat /\ (pc + i - 1) + 1 = pc + i
          /\ pc + i \in Nat
      BY <1>1, <1>5, <1>13, <1>14
    <2>2. CASE i = slot
      BY <1>6, <2>1, <2>2 DEF Entries
    <2>3. CASE i # slot
      BY <2>1, <2>3 DEF Entries
    <2> QED
      BY <2>2, <2>3
  <1> HIDE DEF entry, en
  <1>17. \A i \in 1 .. n : q[i] = entry(i)
    BY <1>15
  <1>18. \A i \in 1 .. n : en(i, q[i])
    BY <1>16, <1>17
  <1>19. q \in Seq(Entries) /\ Len(q) = n
    <2>1. \A i \in 1 .. n : entry(i) \in Entries
      BY <1>16 DEF en
    <2>2. q \in [1 .. n -> Entries]
      BY <1>15, <2>1
    <2> HIDE DEF q
    <2> QED
      BY <1>13, <2>2
  <1> HIDE DEF q
  <1>20. /\ buf.valid = TRUE /\ buf.eop = (ends # {} /\ ~taken) /\ buf.q = q
         /\ buf \in Buffers
    <2>1. (ends # {} /\ ~taken) \in BOOLEAN
      OBVIOUS
    <2> QED
      BY <1>2, <1>19, <2>1 DEF Buffers
  <1>21. \A i \in 1 .. n : /\ q[i].at = q[i].pc /\ q[i].pc \in DOMAIN prog
                           /\ q[i].taken => i = n
    <2>1. ASSUME NEW i \in 1 .. n
          PROVE  /\ q[i].at = q[i].pc /\ q[i].pc \in DOMAIN prog
                 /\ q[i].taken => i = n
      <3>1. q[i].at = pc + i - 1 /\ q[i].pc = pc + i - 1 /\ q[i].taken = (i = slot)
        BY <1>18 DEF en
      <3>2. i \notin ends
        <4>1. i \in valid /\ i \in Nat
          BY <1>13, <1>14
        <4>2. ~(i < i)
          BY <4>1
        <4> QED
          BY <1>7, <4>1, <4>2
      <3>3. pc + i - 1 \in DOMAIN prog
        BY <1>7, <1>14, <3>2
      <3>4. ASSUME i = slot PROVE i = n
        <4>1. slot \in valid
          BY <1>14, <3>4
        <4>2. n \in 1 .. n
          BY <1>13
        <4>3. n <= slot
          BY <1>14, <4>1, <4>2
        <4> QED
          BY <1>13, <3>4, <4>3
      <3> QED
        BY <3>1, <3>3, <3>4
    <2> QED
      BY <2>1
  <1>22. ASSUME NEW i \in 1 .. n, bp_mode = "always_taken"
         PROVE  [taken |-> q[i].taken, target |-> q[i].target] = AlwaysTaken(q[i].pc, ras)
    <2>1. /\ q[i].pc = pc + i - 1 /\ q[i].taken = (i = slot)
          /\ q[i].target = IF i = slot THEN fetch_req_pred.target ELSE pc + i
      BY <1>18 DEF en
    <2>2. InImage(pc + i - 1) /\ i \in 1 .. Width
      BY <1>14, <1>21, <2>1 DEF InImage
    <2>3. slot = 0 \/ i <= slot
      <3>1. ASSUME slot # 0, ~(i <= slot) PROVE FALSE
        <4>1. slot \in 1 .. c /\ slot < i
          BY <1>4, <1>6, <1>13, <1>14, <3>1
        <4>2. slot \in valid
          BY <1>9, <1>14, <4>1
        <4> QED
          BY <1>14, <3>1, <4>2
      <3> QED
        BY <3>1
    <2>4. IF i = slot
            THEN AlwaysTaken(pc + i - 1, ras) =
                   [taken |-> TRUE, target |-> fetch_req_pred.target]
            ELSE AlwaysTaken(pc + i - 1, ras) = [taken |-> FALSE, target |-> pc + i]
      BY <1>22, <2>2, <2>3 DEF Predicts
    <2> HIDE DEF pc, slot
    <2>5. CASE i = slot
      BY <2>1, <2>4, <2>5
    <2>6. CASE i # slot
      BY <2>1, <2>4, <2>6
    <2> QED
      BY <2>5, <2>6
  <1>23. \A i \in 1 .. n - 1 : q[i + 1].pc = q[i].pc + 1
    <2>1. ASSUME NEW i \in 1 .. n - 1 PROVE q[i + 1].pc = q[i].pc + 1
      <3>1. i \in 1 .. n /\ i + 1 \in 1 .. n /\ i \in Nat
        BY <1>13
      <3>2. q[i].pc = pc + i - 1 /\ q[i + 1].pc = pc + (i + 1) - 1
        BY <1>18, <3>1 DEF en
      <3> QED
        BY <1>1, <3>1, <3>2
    <2> QED
      BY <2>1
  <1>24. ASSUME ~buf.eop PROVE n > 0
    <2>1. CASE taken
      <3>1. slot \in kept
        BY <1>6, <2>1
      <3> QED
        BY <1>12, <1>13, <3>1
    <2>2. CASE ends = {}
      <3>1. 1 \in valid
        BY <1>4, <1>7, <2>2
      <3>2. slot \in valid => 1 <= slot
        <4>1. \A i \in 1 .. c : 1 <= i
          BY <1>4
        <4> QED
          BY <1>8, <4>1
      <3> QED
        BY <1>12, <1>13, <3>1, <3>2
    <2> QED
      BY <1>20, <1>24, <2>1, <2>2
  <1>25. ASSUME buf.eop
         PROVE  pc + n \notin DOMAIN prog /\ (n > 0 => ~q[n].taken)
    <2>1. ends # {} /\ slot \notin valid
      BY <1>20, <1>25
    <2>2. valid = 1 .. n
      BY <1>12, <2>1
    <2>3. PICK e \in ends : TRUE
      BY <2>1
    <2>4. e \in 1 .. c /\ e \notin valid
      <3>1. e \in 1 .. c /\ e \in Nat
        BY <1>4, <1>8
      <3> QED
        BY <1>7, <3>1
    <2>5. n + 1 \in 1 .. c /\ n + 1 \notin valid
      BY <1>4, <1>13, <2>2, <2>4
    <2>6. PICK j \in ends : ~(n + 1 < j)
      BY <1>7, <2>5
    <2>7. j \in 1 .. c /\ j \notin valid
      <3>1. j \in 1 .. c /\ j \in Nat
        BY <1>4, <1>8
      <3> QED
        BY <1>7, <3>1
    <2>8. j = n + 1
      BY <1>4, <1>13, <2>2, <2>6, <2>7
    <2>9. pc + (n + 1) - 1 \notin DOMAIN prog
      BY <1>7, <2>6, <2>8
    <2>10. pc + (n + 1) - 1 = pc + n
      BY <1>1, <1>13
    <2>11. ASSUME n > 0 PROVE ~q[n].taken
      <3>1. n \in 1 .. n
        BY <1>13, <2>11
      <3>2. q[n].taken = (n = slot)
        BY <1>18, <3>1 DEF en
      <3> QED
        BY <2>1, <2>2, <3>1, <3>2
    <2> QED
      BY <2>9, <2>10, <2>11
  <1>26. n > 0 => /\ Last(q) = q[n] /\ q[n] \in Entries /\ q[n].pc + 1 = pc + n
                  /\ q # <<>> /\ q[1].pc = pc
    <2>1. ASSUME n > 0
          PROVE  /\ Last(q) = q[n] /\ q[n] \in Entries /\ q[n].pc + 1 = pc + n
                 /\ q # <<>> /\ q[1].pc = pc
      <3>1. n \in 1 .. n /\ 1 \in 1 .. n
        BY <1>13, <2>1
      <3>2. q[n].pc = pc + n - 1 /\ q[1].pc = pc + 1 - 1 /\ q[n] \in Entries
        BY <1>18, <3>1 DEF en
      <3>3. q # <<>>
        BY <1>19, <2>1
      <3> QED
        BY <1>1, <1>13, <1>19, <3>2, <3>3 DEF Last
    <2> QED
      BY <2>1
  <1>27. PcAfter(buf) = IF buf.eop THEN pc ELSE Path!After(q[n])
    <2>1. CASE buf.eop
      BY <2>1 DEF PcAfter
    <2>2. CASE ~buf.eop
      BY <1>20, <1>24, <1>26, <2>2 DEF PcAfter, Path!After
    <2> QED
      BY <2>1, <2>2
  <1>28. PcAfter(buf) \in Nat
    <2>1. CASE buf.eop
      BY <1>1, <1>27, <2>1
    <2>2. CASE ~buf.eop
      BY <1>24, <1>26, <1>27, <2>2 DEF Path!After, Entries
    <2> QED
      BY <2>1, <2>2
  <1>29. buf.eop => /\ n = 0 => PcAfter(buf) \notin DOMAIN prog
                    /\ n > 0 => ~q[n].taken /\ q[n].pc + 1 \notin DOMAIN prog
    <2>1. n = 0 => pc + n = pc
      BY <1>1
    <2> QED
      BY <1>25, <1>26, <1>27, <2>1
  <1>30. ~buf.eop => n > 0 /\ PcAfter(buf) = Path!After(q[n])
    BY <1>24, <1>27
  <1>31. GoodBuffer(buf, PcAfter(buf))
    <2> HIDE DEF pc, slot, taken, kept
    <2> DEFINE new == PcAfter(buf)
    <2>1. /\ buf.eop => /\ n = 0 => new \notin DOMAIN prog
                        /\ n > 0 => ~q[n].taken /\ q[n].pc + 1 \notin DOMAIN prog
          /\ ~buf.eop => n > 0 /\ new = Path!After(q[n])
      BY <1>29, <1>30
    <2> HIDE DEF new
    <2>2. GoodBuffer(buf, new)
      BY <1>19, <1>20, <1>21, <1>22, <1>23, <2>1 DEF GoodBuffer
    <2> QED
      BY <2>2 DEF new
  <1>32. NextOf(buf, PcAfter(buf)) = fetch_pc
    <2>1. CASE n > 0
      BY <1>20, <1>26, <2>1 DEF NextOf
    <2>2. CASE n = 0
      <3>1. buf.eop /\ q = <<>>
        BY <1>19, <1>24, <2>2
      <3> QED
        BY <1>20, <1>27, <3>1 DEF NextOf
    <2> QED
      BY <1>13, <2>1, <2>2
  <1> QED
    BY <1>13, <1>19, <1>20, <1>28, <1>31, <1>32

-------------------------------------------------------------------------------
(* The invariant of fetch.                                                 *)

(* It holds at the start.                                                  *)
LEMMA FetchStartsGood == CfInit => CfInv
  <1> SUFFICES ASSUME CfInit PROVE CfInv
    OBVIOUS
  <1> USE DEF CfInit
  <1>1. CfShapes
    <2>1. /\ NoPred \in [slot : 0 .. Width, target : Nat]
          /\ 0 <= Width /\ 0 <= IfqSize /\ 0 <= RasSize
      BY FetchConstants, ConstantsArePositive DEF NoPred
    <2>2. NoBuf \in Buffers /\ NoBuf.q = <<>> /\ Len(NoBuf.q) = 0
      BY DEF NoBuf, Buffers
    <2>3. ifq \in Seq(Entries) /\ Len(ifq) = 0 /\ ras \in Seq(Nat) /\ Len(ras) = 0
      OBVIOUS
    <2> QED
      BY <2>1, <2>2, <2>3 DEF CfShapes
  <1>2. CacheServes
    BY GoodInit DEF CacheServes, AwaitedPc
  <1>3. RequestIsPredicted /\ IdealAsks /\ RedirectRestarts
    BY DEF RequestIsPredicted, IdealAsks, RedirectRestarts
  <1>4. BufferIsPath
    BY DEF BufferIsPath, NoBuf
  <1> QED
    BY <1>1, <1>2, <1>3, <1>4 DEF CfInv

(* What a step keeps that leaves the path alone.                           *)
LEMMA PathIsKept ==
  ASSUME RequestIsPredicted, BufferIsPath, IdealAsks,
         UNCHANGED <<prog, bp_mode, memory, fetch_pc, imem_req_outstanding, ideal_fetch_pc,
                     fetch_req_pred, fetch_buf, ras>>
  PROVE  RequestIsPredicted' /\ BufferIsPath' /\ IdealAsks' /\ AwaitedPc' = AwaitedPc
  <1>1. RequestIsPredicted'
    BY DEF RequestIsPredicted, Predicts, AlwaysTaken, NotTaken, InImage
  <1>2. BufferIsPath'
    BY DEF BufferIsPath, GoodBuffer, AlwaysTaken, NotTaken, Path!After
  <1>3. IdealAsks' /\ AwaitedPc' = AwaitedPc
    BY DEF IdealAsks, AwaitedPc
  <1> QED
    BY <1>1, <1>2, <1>3

(* The tick of the memory system.                                          *)
LEMMA MemoryKeepsGood ==
  ASSUME CfInv, NEW finished \in BOOLEAN, NEW accepts \in BOOLEAN, Memory(finished, accepts)
  PROVE  CfInv'
  <1>0. CfShapes /\ CacheServes /\ RequestIsPredicted /\ BufferIsPath /\ IdealAsks
    BY DEF CfInv
  <1>1. /\ stage' = "core" /\ UNCHANGED <<prog, bp_mode, memory, ifq, ras>>
        /\ UNCHANGED <<fetch_pc, fetch_halted, fetch_redirect_hold, imem_req_outstanding,
                       ideal_fetch_pc, fetch_req_pred, fetch_buf>>
    BY DEF Memory, fetchState
  <1>2. CfShapes'
    BY <1>0, <1>1 DEF CfShapes
  <1>3. RequestIsPredicted' /\ BufferIsPath' /\ IdealAsks' /\ AwaitedPc' = AwaitedPc
    BY <1>0, <1>1, PathIsKept
  <1>4. GoodCache(ic, AwaitedPc)
    BY <1>0 DEF CacheServes
  <1>5. GoodCache(ic', AwaitedPc)
    <2>1. CASE memory = "cached"
      <3>1. ic' \in MemoryTick(ic, finished, accepts)
        BY <2>1 DEF Memory
      <3> QED
        BY <1>4, <3>1, MemoryTickGood
    <2>2. CASE memory # "cached"
      <3>1. ic' = ic
        BY <2>2 DEF Memory
      <3> QED
        BY <1>4, <3>1
    <2> QED
      BY <2>1, <2>2
  <1>6. CacheServes'
    <2>1. GoodCache(ic', AwaitedPc')
      BY <1>3, <1>5
    <2> QED
      BY <2>1 DEF CacheServes
  <1>7. RedirectRestarts'
    BY <1>1 DEF RedirectRestarts
  <1> QED
    BY <1>2, <1>3, <1>6, <1>7 DEF CfInv

(* A recovery.                                                             *)
LEMMA RecoverKeepsGood ==
  ASSUME CfInv, NEW pc \in Recoveries, NEW snapshot \in RasStates, Recover(pc, snapshot)
  PROVE  CfInv'
  <1>0. CfShapes /\ CacheServes
    BY DEF CfInv
  <1>1. /\ stage' = "redirected" /\ UNCHANGED <<prog, bp_mode, memory, ideal_fetch_pc>>
        /\ ifq' = <<>> /\ fetch_pc' = pc /\ fetch_halted' = FALSE
        /\ imem_req_outstanding' = FALSE /\ fetch_buf' = NoBuf /\ fetch_req_pred' = NoPred
        /\ fetch_redirect_hold' = TRUE /\ ras' = snapshot
        /\ ic' = IF memory = "cached" THEN Flushed(ic) ELSE ic
    BY DEF Recover, BufAfterRecovery
  <1>2. CfShapes'
    <2>1. NoPred \in [slot : 0 .. Width, target : Nat]
      BY ConstantsArePositive DEF NoPred
    <2>2. NoBuf \in Buffers /\ NoBuf.q = <<>> /\ Len(NoBuf.q) = 0 /\ 0 <= Width /\ 0 <= IfqSize
      BY FetchConstants, ConstantsArePositive DEF NoBuf, Buffers
    <2>3. snapshot \in Seq(Nat) /\ Len(snapshot) <= RasSize
      BY RasStatesFacts
    <2>4. pc \in Nat
      BY FetchConstants
    <2>5. ifq' \in Seq(Entries) /\ Len(ifq') = 0
      BY <1>1
    <2> QED
      BY <1>0, <1>1, <2>1, <2>2, <2>3, <2>4, <2>5 DEF CfShapes
  <1>3. CacheServes'
    <2>1. GoodCache(ic, AwaitedPc) /\ AwaitedPc' = NoPc
      BY <1>0, <1>1 DEF CacheServes, AwaitedPc
    <2>2. GoodCache(ic', NoPc)
      <3>1. CASE memory = "cached"
        <4>1. ic' = Flushed(ic)
          BY <1>1, <3>1
        <4> QED
          BY <2>1, <4>1, FlushedGood
      <3>2. CASE memory # "cached"
        <4>1. ic' = ic /\ AwaitedPc = NoPc
          BY <1>1, <3>2 DEF AwaitedPc
        <4> QED
          BY <2>1, <4>1
      <3> QED
        BY <3>1, <3>2
    <2>3. GoodCache(ic', AwaitedPc')
      BY <2>1, <2>2
    <2> QED
      BY <2>3 DEF CacheServes
  <1>4. BufferIsPath'
    BY <1>1 DEF BufferIsPath, NoBuf
  <1>5. RequestIsPredicted' /\ IdealAsks' /\ RedirectRestarts'
    BY <1>1 DEF RequestIsPredicted, IdealAsks, RedirectRestarts
  <1> QED
    BY <1>2, <1>3, <1>4, <1>5 DEF CfInv

(* What decode leaves of the queue.                                        *)
LEMMA QueueAfterDecode ==
  ASSUME CfShapes, NEW n \in {0, BundleSize}
  PROVE  /\ SubSeq(ifq, n + 1, Len(ifq)) \in Seq(Entries)
         /\ Len(SubSeq(ifq, n + 1, Len(ifq))) <= IfqSize
         /\ n = 0 => SubSeq(ifq, n + 1, Len(ifq)) = ifq
         /\ n # 0 => n \in 1 .. Len(ifq)
  <1> DEFINE l == Len(ifq)
             t == SubSeq(ifq, n + 1, l)
  <1>1. ifq \in Seq(Entries) /\ l \in Nat /\ l <= IfqSize
    BY DEF CfShapes
  <1>2. n \in Nat /\ n <= l /\ (n # 0 => n \in 1 .. l)
    BY <1>1, ConstantsArePositive DEF BundleSize
  <1>3. n + 1 \in Int /\ l \in Int /\ \A i \in n + 1 .. l : ifq[i] \in Entries
    BY <1>1, <1>2
  <1>4. t \in Seq(Entries) /\ Len(t) = IF n + 1 <= l THEN l - (n + 1) + 1 ELSE 0
    BY <1>3, SubSeqProperties
  <1>5. n = 0 => t = ifq
    <2>1. SubSeq(ifq, 1, Len(ifq)) = ifq
      BY <1>1, SubSeqFull
    <2>2. n = 0 => n + 1 = 1
      OBVIOUS
    <2> QED
      BY <2>1, <2>2
  <1> HIDE DEF t
  <1>6. Len(t) <= IfqSize
    BY <1>1, <1>2, <1>4, FetchConstants
  <1> QED
    BY <1>2, <1>4, <1>5, <1>6 DEF t

(* Decode.                                                                 *)
LEMMA DecodeKeepsGood ==
  ASSUME CfInv, NEW n \in {0, BundleSize}, Decode(n)
  PROVE  CfInv'
  <1>0. CfShapes /\ CacheServes /\ RequestIsPredicted /\ BufferIsPath /\ IdealAsks
    BY DEF CfInv
  <1>1. /\ stage' = "fetch" /\ UNCHANGED <<prog, bp_mode, memory, ic, ras>>
        /\ UNCHANGED <<fetch_pc, fetch_halted, fetch_redirect_hold, imem_req_outstanding,
                       ideal_fetch_pc, fetch_req_pred, fetch_buf>>
        /\ ifq' = SubSeq(ifq, n + 1, Len(ifq))
    BY DEF Decode, fetchState
  <1>2. ifq' \in Seq(Entries) /\ Len(ifq') <= IfqSize
    BY <1>0, <1>1, QueueAfterDecode
  <1>3. CfShapes'
    BY <1>0, <1>1, <1>2 DEF CfShapes
  <1>4. RequestIsPredicted' /\ BufferIsPath' /\ IdealAsks' /\ AwaitedPc' = AwaitedPc
    BY <1>0, <1>1, PathIsKept
  <1>5. CacheServes' /\ RedirectRestarts'
    BY <1>0, <1>1, <1>4 DEF CacheServes, RedirectRestarts
  <1> QED
    BY <1>3, <1>4, <1>5 DEF CfInv

(* Fetch has halted, or waits.                                             *)
LEMMA WaitingKeepsGood ==
  ASSUME CfInv, EntersFetch,
         UNCHANGED <<ic, fetch_pc, fetch_halted, imem_req_outstanding, ideal_fetch_pc,
                     fetch_req_pred, fetch_buf, ifq, ras>>,
         fetch_redirect_hold' \in BOOLEAN
  PROVE  CfInv'
  <1>0. CfShapes /\ CacheServes /\ RequestIsPredicted /\ BufferIsPath /\ IdealAsks
    BY DEF CfInv
  <1>1. stage' = "memory" /\ UNCHANGED <<prog, bp_mode, memory>>
    BY DEF EntersFetch
  <1>2. CfShapes'
    BY <1>0, <1>1 DEF CfShapes
  <1>3. RequestIsPredicted' /\ BufferIsPath' /\ IdealAsks' /\ AwaitedPc' = AwaitedPc
    BY <1>0, <1>1, PathIsKept
  <1>4. CacheServes' /\ RedirectRestarts'
    BY <1>0, <1>1, <1>3 DEF CacheServes, RedirectRestarts
  <1> QED
    BY <1>2, <1>3, <1>4 DEF CfInv

EntersCached == /\ EntersFetch /\ memory = "cached" /\ ~fetch_halted
                /\ fetch_redirect_hold' = FALSE

(* An answer goes into the buffer.                                         *)
LEMMA CaptureKeepsGood ==
  ASSUME CfInv, EntersCached, Capture
  PROVE  CfInv'
  <1>0. CfShapes /\ CacheServes /\ RequestIsPredicted
    BY DEF CfInv
  <1>1. /\ stage' = "memory" /\ UNCHANGED <<prog, bp_mode, memory>>
        /\ imem_req_outstanding /\ ~fetch_buf.valid /\ ic.resp # NoResp
        /\ memory = "cached" /\ ~fetch_halted /\ fetch_redirect_hold' = FALSE
        /\ ic' = [ic EXCEPT !.resp = NoResp]
        /\ imem_req_outstanding' = FALSE
        /\ fetch_buf' = CapturedBuf(ic.resp)
        /\ fetch_pc' = PcAfter(fetch_buf')
        /\ fetch_req_pred' = NoPred
        /\ UNCHANGED <<fetch_halted, ideal_fetch_pc, ifq, ras>>
    BY DEF EntersCached, EntersFetch, Capture
  <1>2. GoodCache(ic, fetch_pc)
    BY <1>0, <1>1 DEF CacheServes, AwaitedPc
  <1>3. ic.resp = Answer(fetch_pc) /\ GoodCache(ic', NoPc)
    BY <1>1, <1>2, TakenGood
  <1>4. fetch_buf' = CapturedBuf(Answer(fetch_pc))
    BY <1>1, <1>3
  <1>5. Predicts(fetch_req_pred, fetch_pc)
    BY <1>0, <1>1 DEF RequestIsPredicted
  <1>6. /\ fetch_buf' \in Buffers /\ Len(fetch_buf'.q) <= Width
        /\ fetch_pc' \in Nat /\ GoodBuffer(fetch_buf', fetch_pc')
    BY <1>0, <1>1, <1>4, <1>5, CapturedFacts
  <1>7. CfShapes'
    <2>1. NoPred \in [slot : 0 .. Width, target : Nat]
      BY ConstantsArePositive DEF NoPred
    <2> QED
      BY <1>0, <1>1, <1>6, <2>1 DEF CfShapes
  <1>8. CacheServes'
    <2>1. GoodCache(ic', AwaitedPc')
      BY <1>1, <1>3 DEF AwaitedPc
    <2> QED
      BY <2>1 DEF CacheServes
  <1>9. BufferIsPath'
    BY <1>1, <1>6 DEF BufferIsPath, GoodBuffer, AlwaysTaken, NotTaken, Path!After
  <1>10. RequestIsPredicted' /\ IdealAsks' /\ RedirectRestarts'
    BY <1>1 DEF RequestIsPredicted, IdealAsks, RedirectRestarts
  <1> QED
    BY <1>7, <1>8, <1>9, <1>10 DEF CfInv

(* The buffer goes into the queue.                                         *)
LEMMA DrainKeepsGood ==
  ASSUME CfInv, EntersCached, Drain
  PROVE  CfInv'
  <1>0. CfShapes /\ CacheServes /\ RequestIsPredicted /\ BufferIsPath /\ IdealAsks
    BY DEF CfInv
  <1>1. /\ stage' = "memory" /\ UNCHANGED <<prog, bp_mode, memory>>
        /\ fetch_buf.valid /\ BufFits
        /\ memory = "cached" /\ ~fetch_halted /\ fetch_redirect_hold' = FALSE
        /\ ifq' = Emptied.s /\ ras' = Emptied.ras
        /\ fetch_halted' = fetch_buf.eop
        /\ fetch_buf' = NoBuf
        /\ UNCHANGED <<ic, fetch_pc, imem_req_outstanding, ideal_fetch_pc, fetch_req_pred>>
    BY DEF EntersCached, EntersFetch, Drain
  <1>2. ~imem_req_outstanding
    BY <1>0, <1>1 DEF RequestIsPredicted
  <1>3. PICK t \in Seq(Entries) : Emptied.s = ifq \o t /\ Len(t) <= Len(fetch_buf.q)
    BY <1>0, <1>1, EmptiedIsPath
  <1>4. ras' \in Seq(Nat) /\ Len(ras') <= RasSize
    BY <1>0, <1>1, EmptiedIsPath
  <1>5. ifq' \in Seq(Entries) /\ Len(ifq') <= IfqSize
    <2>1. ifq \in Seq(Entries) /\ Len(ifq) <= IfqSize /\ fetch_buf.q \in Seq(Entries)
      BY <1>0 DEF CfShapes, Buffers
    <2>2. ifq' \in Seq(Entries) /\ Len(ifq') = Len(ifq) + Len(t)
      BY <1>1, <1>3, <2>1, ConcatProperties
    <2>3. fetch_buf.q = <<>> => Len(fetch_buf.q) = 0
      OBVIOUS
    <2>4. Len(ifq) + Len(t) <= IfqSize
      <3>1. /\ Len(ifq) \in Nat /\ Len(t) \in Nat /\ Len(fetch_buf.q) \in Nat
            /\ IfqSize \in Nat
        BY <2>1, FetchConstants
      <3>2. Len(fetch_buf.q) = 0 \/ Len(ifq) + Len(fetch_buf.q) <= IfqSize
        BY <1>1, <2>3 DEF BufFits
      <3> QED
        BY <1>3, <2>1, <3>1, <3>2
    <2> QED
      BY <2>2, <2>4
  <1>6. CfShapes'
    <2>1. NoBuf \in Buffers /\ NoBuf.q = <<>> /\ Len(NoBuf.q) = 0 /\ 0 <= Width
      BY ConstantsArePositive DEF NoBuf, Buffers
    <2>2. fetch_halted' \in BOOLEAN
      BY <1>0, <1>1 DEF CfShapes, Buffers
    <2> QED
      BY <1>0, <1>1, <1>4, <1>5, <2>1, <2>2 DEF CfShapes
  <1>7. CacheServes'
    <2>1. GoodCache(ic', AwaitedPc')
      BY <1>0, <1>1 DEF CacheServes, AwaitedPc
    <2> QED
      BY <2>1 DEF CacheServes
  <1>8. BufferIsPath'
    BY <1>1 DEF BufferIsPath, NoBuf
  <1>9. RequestIsPredicted' /\ IdealAsks' /\ RedirectRestarts'
    BY <1>1, <1>2 DEF RequestIsPredicted, IdealAsks, RedirectRestarts
  <1> QED
    BY <1>6, <1>7, <1>8, <1>9 DEF CfInv

(* A request.                                                              *)
LEMMA RequestKeepsGood ==
  ASSUME CfInv, EntersCached, Request
  PROVE  CfInv'
  <1>0. CfShapes /\ CacheServes
    BY DEF CfInv
  <1>1. /\ stage' = "memory" /\ UNCHANGED <<prog, bp_mode, memory>>
        /\ ~imem_req_outstanding /\ ~fetch_buf.valid /\ CanAccept(ic)
        /\ memory = "cached" /\ ~fetch_halted /\ fetch_redirect_hold' = FALSE
        /\ ic' = CpuReq(ic, fetch_pc)
        /\ imem_req_outstanding' = TRUE
        /\ fetch_req_pred' \in RequestPredictions(fetch_pc)
        /\ UNCHANGED <<fetch_pc, fetch_halted, ideal_fetch_pc, fetch_buf, ifq, ras>>
    BY DEF EntersCached, EntersFetch, Request, MayRequest
  <1>2. fetch_pc \in Nat
    BY <1>0 DEF CfShapes
  <1>3. /\ fetch_req_pred' \in [slot : 0 .. Width, target : Nat]
        /\ Predicts(fetch_req_pred', fetch_pc)
    BY <1>0, <1>1, <1>2, PredictionFacts
  <1>4. CfShapes'
    BY <1>0, <1>1, <1>3 DEF CfShapes
  <1>5. CacheServes'
    <2>1. GoodCache(ic, NoPc)
      BY <1>0, <1>1 DEF CacheServes, AwaitedPc
    <2>2. GoodCache(ic', fetch_pc)
      BY <1>1, <1>2, <2>1, CpuReqGood
    <2>3. GoodCache(ic', AwaitedPc')
      BY <1>1, <2>2 DEF AwaitedPc
    <2> QED
      BY <2>3 DEF CacheServes
  <1>6. RequestIsPredicted'
    BY <1>1, <1>3 DEF RequestIsPredicted, Predicts, AlwaysTaken, NotTaken, InImage
  <1>7. BufferIsPath' /\ IdealAsks' /\ RedirectRestarts'
    BY <1>1 DEF BufferIsPath, IdealAsks, RedirectRestarts
  <1> QED
    BY <1>4, <1>5, <1>6, <1>7 DEF CfInv

(* The bundle asked for in the last tick, or none.                         *)
FetchedBundles ==
  IF imem_req_outstanding THEN IdealBundles
  ELSE {[s |-> ifq, ras |-> ras, pc |-> fetch_pc, halted |-> FALSE]}

(* What it puts into the queue is a path from where fetch stands to where  *)
(* it goes on, or to the end of the image.                                 *)
LEMMA FetchedIsPath ==
  ASSUME CfInv, memory = "ideal", NEW q \in FetchedBundles
  PROVE  /\ q.pc \in Nat /\ q.halted \in BOOLEAN
         /\ q.ras \in Seq(Nat) /\ Len(q.ras) <= RasSize
         /\ q.s \in Seq(Entries) /\ Len(q.s) <= IfqSize
         /\ q.halted => q.pc \notin DOMAIN prog
         /\ \E t \in Seq(Entries) : /\ q.s = ifq \o t /\ Path!IsPath(t, fetch_pc)
                                    /\ q.pc = EndOf(t, fetch_pc)
  <1>0. CfShapes /\ IdealAsks
    BY DEF CfInv
  <1>1. /\ ifq \in Seq(Entries) /\ Len(ifq) <= IfqSize /\ fetch_pc \in Nat
        /\ ras \in Seq(Nat) /\ Len(ras) <= RasSize
    BY <1>0 DEF CfShapes
  <1>2. CASE imem_req_outstanding
    <2>1. ideal_fetch_pc = fetch_pc
      BY <1>0, <1>2 DEF IdealAsks
    <2>2. PICK t : BundleInto(q, t, Width)
      BY <1>0, <1>2, <2>1, BundleFacts DEF FetchedBundles, BundleTo
    <2>3. q.s = ifq \o t /\ t \in Seq(Entries)
      BY <2>2 DEF BundleInto
    <2>4. q.s \in Seq(Entries)
      BY <1>1, <2>3, ConcatProperties
    <2> QED
      BY <2>2, <2>4 DEF BundleInto
  <1>3. CASE ~imem_req_outstanding
    <2>1. q = [s |-> ifq, ras |-> ras, pc |-> fetch_pc, halted |-> FALSE]
      BY <1>3 DEF FetchedBundles
    <2>2. q.s = ifq /\ q.ras = ras /\ q.pc = fetch_pc /\ q.halted = FALSE
      BY <2>1
    <2> DEFINE e == <<>>
    <2>3. e \in Seq(Entries) /\ ifq \o e = ifq /\ Len(e) = 0
      BY <1>1, ConcatEmptySeq
    <2>4. DOMAIN e = {} /\ e = <<>> /\ \A j \in 1 .. Len(e) - 1 : FALSE
      OBVIOUS
    <2> HIDE DEF e
    <2>5. Path!IsPath(e, fetch_pc) /\ EndOf(e, fetch_pc) = fetch_pc
      BY <2>4 DEF Path!IsPath, EndOf
    <2>6. q.s = ifq \o e /\ q.pc = EndOf(e, fetch_pc)
      BY <2>2, <2>3, <2>5
    <2>7. \E t \in Seq(Entries) : /\ q.s = ifq \o t /\ Path!IsPath(t, fetch_pc)
                                  /\ q.pc = EndOf(t, fetch_pc)
      <3>1. e \in Seq(Entries)
        BY <2>3
      <3> WITNESS e \in Seq(Entries)
      <3> QED
        BY <2>5, <2>6
    <2>8. q.pc \in Nat /\ q.halted \in BOOLEAN /\ ~q.halted
      BY <1>1, <2>2
    <2>9. /\ q.ras \in Seq(Nat) /\ Len(q.ras) <= RasSize
          /\ q.s \in Seq(Entries) /\ Len(q.s) <= IfqSize
      BY <1>1, <2>2
    <2> QED
      BY <2>7, <2>8, <2>9
  <1> QED
    BY <1>2, <1>3

(* What a step of fetch with the ideal memory assigns.                     *)
IdealStep(q, asks) ==
  /\ ifq' = q.s /\ ras' = q.ras /\ fetch_pc' = q.pc
  /\ fetch_halted' = (q.halted \/ (asks /\ ~InImage(q.pc)))
  /\ imem_req_outstanding' = (asks /\ InImage(q.pc))
  /\ ideal_fetch_pc' = IF asks /\ InImage(q.pc) THEN q.pc ELSE ideal_fetch_pc

(* Fetch with the ideal memory.                                            *)
LEMMA IdealKeepsGood ==
  ASSUME CfInv, FetchIdeal
  PROVE  CfInv'
  <1>0. CfShapes /\ CacheServes /\ RequestIsPredicted /\ BufferIsPath
    BY DEF CfInv
  <1>1. PICK q \in FetchedBundles : IdealStep(q, ~q.halted /\ IdealRoom(q))
    BY DEF FetchIdeal, FetchedBundles, IdealStep
  <1>2. /\ stage' = "memory" /\ memory = "ideal" /\ UNCHANGED <<prog, bp_mode, memory>>
        /\ UNCHANGED <<ic, fetch_redirect_hold, fetch_req_pred, fetch_buf>>
    BY DEF FetchIdeal, EntersFetch
  <1>3. /\ q.pc \in Nat /\ q.halted \in BOOLEAN
        /\ q.ras \in Seq(Nat) /\ Len(q.ras) <= RasSize
        /\ q.s \in Seq(Entries) /\ Len(q.s) <= IfqSize
    BY <1>2, FetchedIsPath
  <1> DEFINE asks == ~q.halted /\ IdealRoom(q)
             in == InImage(q.pc)
  <1>4. asks \in BOOLEAN /\ in \in BOOLEAN
    BY DEF InImage, IdealRoom
  <1> HIDE DEF asks
  <1>5. /\ ifq' = q.s /\ ras' = q.ras /\ fetch_pc' = q.pc
        /\ fetch_halted' = (q.halted \/ (asks /\ ~in))
        /\ imem_req_outstanding' = (asks /\ in)
        /\ ideal_fetch_pc' = IF asks /\ in THEN q.pc ELSE ideal_fetch_pc
    BY <1>1 DEF IdealStep, asks
  <1>6. fetch_halted' \in BOOLEAN /\ imem_req_outstanding' \in BOOLEAN
    BY <1>5
  <1>7. imem_req_outstanding' => ideal_fetch_pc' = fetch_pc' /\ fetch_pc' \in DOMAIN prog
    BY <1>5 DEF InImage
  <1> HIDE DEF in
  <1>8. ideal_fetch_pc' \in Nat
    BY <1>0, <1>3, <1>5 DEF CfShapes
  <1>9. CfShapes'
    <2>1. /\ ifq' \in Seq(Entries) /\ Len(ifq') <= IfqSize
          /\ ras' \in Seq(Nat) /\ Len(ras') <= RasSize /\ fetch_pc' \in Nat
      BY <1>3, <1>5
    <2> QED
      BY <1>0, <1>2, <1>6, <1>8, <2>1 DEF CfShapes
  <1>10. CacheServes'
    <2>1. GoodCache(ic', AwaitedPc')
      BY <1>0, <1>2 DEF CacheServes, AwaitedPc
    <2> QED
      BY <2>1 DEF CacheServes
  <1>11. RequestIsPredicted' /\ BufferIsPath' /\ RedirectRestarts'
    BY <1>0, <1>2 DEF RequestIsPredicted, BufferIsPath, RedirectRestarts
  <1>12. IdealAsks'
    BY <1>2, <1>7 DEF IdealAsks
  <1> QED
    BY <1>9, <1>10, <1>11, <1>12 DEF CfInv

(* Every step keeps it.                                                    *)
LEMMA StepKeepsGood ==
  ASSUME CfInv, [CfNext]_cfVars
  PROVE  CfInv'
  <1>1. CASE UNCHANGED cfVars
    <2>1. /\ UNCHANGED <<prog, bp_mode, memory, stage, ic, ifq, ras>>
          /\ UNCHANGED <<fetch_pc, fetch_halted, fetch_redirect_hold, imem_req_outstanding,
                         ideal_fetch_pc, fetch_req_pred, fetch_buf>>
      BY <1>1 DEF cfVars, fetchState
    <2>2. CfShapes /\ CacheServes /\ RequestIsPredicted /\ BufferIsPath /\ IdealAsks
          /\ RedirectRestarts
      BY DEF CfInv
    <2>3. CfShapes'
      BY <2>1, <2>2 DEF CfShapes
    <2>4. RequestIsPredicted' /\ BufferIsPath' /\ IdealAsks' /\ AwaitedPc' = AwaitedPc
      BY <2>1, <2>2, PathIsKept
    <2>5. CacheServes' /\ RedirectRestarts'
      BY <2>1, <2>2, <2>4 DEF CacheServes, RedirectRestarts
    <2> QED
      BY <2>3, <2>4, <2>5 DEF CfInv
  <1>2. ASSUME NEW finished \in BOOLEAN, NEW accepts \in BOOLEAN, Memory(finished, accepts)
        PROVE  CfInv'
    BY <1>2, MemoryKeepsGood
  <1>3. ASSUME NEW pc \in Recoveries, NEW s \in RasStates, Recover(pc, s)
        PROVE  CfInv'
    BY <1>3, RecoverKeepsGood
  <1>4. ASSUME NEW n \in {0, BundleSize}, Decode(n)
        PROVE  CfInv'
    BY <1>4, DecodeKeepsGood
  <1>5. CASE FetchCached
    <2>1. EntersCached
      BY <1>5 DEF FetchCached, EntersCached
    <2>2. CASE Capture
      BY <2>1, <2>2, CaptureKeepsGood
    <2>3. CASE Drain
      BY <2>1, <2>3, DrainKeepsGood
    <2>4. CASE Request
      BY <2>1, <2>4, RequestKeepsGood
    <2>5. CASE Wait
      <3>1. UNCHANGED <<ic, fetch_pc, fetch_halted, imem_req_outstanding, ideal_fetch_pc,
                        fetch_req_pred, fetch_buf, ifq, ras>>
        BY <2>5 DEF Wait
      <3> QED
        BY <2>1, <3>1, WaitingKeepsGood DEF EntersCached
    <2> QED
      BY <1>5, <2>2, <2>3, <2>4, <2>5 DEF FetchCached
  <1>6. CASE FetchIdeal
    BY <1>6, IdealKeepsGood
  <1>7. CASE FetchHalted
    <2>1. EntersFetch /\ UNCHANGED <<ic, fetch_pc, fetch_halted, imem_req_outstanding,
                                     ideal_fetch_pc, fetch_req_pred, fetch_buf, ifq, ras>>
      BY <1>7 DEF FetchHalted, fetchState
    <2>2. fetch_redirect_hold' \in BOOLEAN
      BY <1>7 DEF FetchHalted, fetchState, CfInv, CfShapes
    <2> QED
      BY <2>1, <2>2, WaitingKeepsGood
  <1> QED
    BY <1>1, <1>2, <1>3, <1>4, <1>5, <1>6, <1>7 DEF CfNext

(* What fetch and its cache are in every state of any run.                 *)
THEOREM FetchInvariant == CfSpec => []CfInv
  <1>1. CfInv /\ [CfNext]_cfVars => CfInv'
    BY StepKeepsGood
  <1> QED
    BY <1>1, FetchStartsGood, PTL DEF CfSpec

-------------------------------------------------------------------------------
(* The properties of fetch and its cache.                                  *)

(* What the invariant says of the cache.                                   *)
LEMMA CacheIsGood ==
  ASSUME CfInv
  PROVE  /\ ic \in Caches /\ LinesOk(ic) /\ DataOk(ic) /\ OneAsked(ic)
         /\ Serves(ic, AwaitedPc)
  BY DEF CfInv, CacheServes, GoodCache

(* The members of the fetch unit and of the cache have their types, the    *)
(* queue, the buffer and the stack are never longer than they may be, and  *)
(* a recorded prediction is for a word of the request.                     *)
THEOREM FetchTypes == CfSpec => []CfTypeOK
  <1>1. CfInv => CfTypeOK
    <2> SUFFICES ASSUME CfInv PROVE CfTypeOK
      OBVIOUS
    <2>1. CfShapes
      BY DEF CfInv
    <2>2. /\ ic.pipe \in Nat \cup {NoPc} /\ ic.hit \in HitStates
          /\ \A i \in MshrIds : ic.mshr[i] \in MshrStates
      BY CacheIsGood DEF Caches
    <2>3. ic.hit.left \in 0 .. HitLatency
      BY <2>2 DEF HitStates
    <2>4. \A i \in MshrIds : ic.mshr[i].st \in {"free", "wanted", "sent", "ready"}
      BY <2>2 DEF MshrStates
    <2>5. fetch_req_pred.slot \in 0 .. Width
      BY <2>1 DEF CfShapes
    <2> QED
      BY <2>1, <2>2, <2>3, <2>4, <2>5 DEF CfTypeOK, CfShapes
  <1> QED
    BY <1>1, FetchInvariant, PTL

(* A line is in one way at most, or on its way in one miss register; a way *)
(* that can hit holds the data of its line; and a miss register in use     *)
(* owns the reserved way its line will be installed in.                    *)
THEOREM LinesStayTheirs == CfSpec => []LinesAreTheirs
  <1>1. CfInv => LinesAreTheirs
    <2> SUFFICES ASSUME CfInv PROVE LinesAreTheirs
      OBVIOUS
    <2>1. LinesOk(ic)
      BY CacheIsGood
    <2>2. /\ \A w \in WayIds : ic.way[w].valid /\ ~ic.way[w].reserved =>
               ic.way[w].data = ic.way[w].tag * Sets + w[1]
          /\ \A v, w \in WayIds :
               /\ ic.way[v].valid /\ ~ic.way[v].reserved
               /\ ic.way[w].valid /\ ~ic.way[w].reserved
               /\ ic.way[v].tag * Sets + v[1] = ic.way[w].tag * Sets + w[1]
               => v = w
      BY <2>1 DEF LinesOk, CanHit, LineIn
    <2>3. /\ \A i \in MshrIds : ic.mshr[i].st # "free" =>
               /\ ic.way[ic.mshr[i].way].reserved
               /\ \A w \in WayIds : ic.way[w].valid /\ ~ic.way[w].reserved =>
                    ic.mshr[i].line # ic.way[w].tag * Sets + w[1]
          /\ \A i, j \in MshrIds :
               ic.mshr[i].st # "free" /\ ic.mshr[j].st # "free" /\ i # j =>
                 ic.mshr[i].way # ic.mshr[j].way /\ ic.mshr[i].line # ic.mshr[j].line
      BY <2>1 DEF LinesOk, CanHit, LineIn, Busy
    <2> QED
      BY <2>2, <2>3 DEF LinesAreTheirs
  <1> QED
    BY <1>1, FetchInvariant, PTL

(* The sequences of no element and of one.                                 *)
LEMMA ShortSetToSeq ==
  ASSUME NEW x
  PROVE  SetToSeq({}) = <<>> /\ SetToSeq({x}) = <<x>>
  <1>1. Cardinality({}) = 0 /\ Cardinality({x}) = 1
    BY FS_EmptySet, FS_Singleton
  <1>2. SetToSeq({}) = <<>>
    <2> DEFINE F == [1 .. 0 -> {}]
               f == CHOOSE g \in F : IsInjective(g)
    <2>1. SetToSeq({}) = f
      BY <1>1 DEF SetToSeq
    <2>2. <<>> \in F /\ IsInjective(<<>>)
      BY DEF IsInjective
    <2>3. f \in F
      BY <2>2
    <2> HIDE DEF f
    <2>4. f = <<>>
      BY <2>3
    <2> QED
      BY <2>1, <2>4
  <1>3. SetToSeq({x}) = <<x>>
    <2> DEFINE F == [1 .. 1 -> {x}]
               f == CHOOSE g \in F : IsInjective(g)
    <2>1. SetToSeq({x}) = f
      BY <1>1 DEF SetToSeq
    <2>2. <<x>> \in F /\ IsInjective(<<x>>)
      <3>1. <<x>> \in F
        OBVIOUS
      <3>2. DOMAIN <<x>> = {1}
        OBVIOUS
      <3>3. IsInjective(<<x>>)
        BY <3>2 DEF IsInjective
      <3> QED
        BY <3>1, <3>3
    <2>3. f \in F
      BY <2>2
    <2> HIDE DEF f
    <2>4. f[1] = x /\ f = [i \in 1 .. 1 |-> f[i]]
      BY <2>3
    <2>5. f = <<x>>
      BY <2>3, <2>4
    <2> QED
      BY <2>1, <2>5
  <1> QED
    BY <1>2, <1>3

(* The request fetch waits for is in exactly one place of the cache, and   *)
(* no place holds an answer for a request that fetch has given up.         *)
THEOREM AnswerStaysAwaited == CfSpec => []AnswerIsAwaited
  <1>1. CfInv => AnswerIsAwaited
    <2> SUFFICES ASSUME CfInv PROVE AnswerIsAwaited
      OBVIOUS
    <2> DEFINE waiting == {i \in MshrIds : ic.mshr[i].waiter}
               asked == {ic.mshr[i].pc : i \in waiting}
               inPipe == IF ic.pipe # NoPc THEN <<ic.pipe>> ELSE <<>>
               inHit == IF ic.hit.valid /\ ~ic.hit.drop THEN <<ic.hit.pc>> ELSE <<>>
               inResp == IF ic.resp # NoResp THEN <<ic.resp.pc>> ELSE <<>>
               inMshr == SetToSeq(asked)
               pcs == inPipe \o inHit \o inResp \o inMshr
               awaited == IF imem_req_outstanding /\ memory = "cached"
                            THEN <<fetch_pc>> ELSE <<>>
    <2>1. SUFFICES Cardinality(waiting) <= 1 /\ pcs = awaited
      BY DEF AnswerIsAwaited
    <2>2. ic \in Caches /\ OneAsked(ic) /\ Serves(ic, AwaitedPc)
      BY CacheIsGood
    <2>3. /\ ic.pipe # NoPc => ~ic.hit.valid /\ ic.resp = NoResp /\ NoWaiter(ic)
          /\ ic.hit.valid => ic.resp = NoResp /\ NoWaiter(ic)
          /\ ic.resp # NoResp => NoWaiter(ic)
          /\ \A i, j \in MshrIds : ic.mshr[i].waiter /\ ic.mshr[j].waiter => i = j
      BY <2>2 DEF OneAsked
    <2>4. NoWaiter(ic) => waiting = {} /\ asked = {}
      BY DEF NoWaiter
    <2>5. \A i \in MshrIds : ic.mshr[i].waiter => waiting = {i} /\ asked = {ic.mshr[i].pc}
      BY <2>3
    <2>6. Cardinality(waiting) <= 1
      <3>1. CASE waiting = {}
        <4>1. Cardinality(waiting) = 0
          BY <3>1, FS_EmptySet
        <4> QED
          BY <4>1
      <3>2. CASE waiting # {}
        <4>1. PICK i \in waiting : TRUE
          BY <3>2
        <4>2. waiting = {i}
          BY <2>5, <4>1
        <4>3. Cardinality(waiting) = 1
          BY <4>2, FS_Singleton
        <4> QED
          BY <4>3
      <3> QED
        BY <3>1, <3>2
    <2>7. awaited = IF AwaitedPc = NoPc THEN <<>> ELSE <<AwaitedPc>>
      <3>1. fetch_pc \in Nat
        BY DEF CfInv, CfShapes
      <3>2. fetch_pc # NoPc
        BY <3>1 DEF NoPc
      <3> QED
        BY <3>2 DEF AwaitedPc
    <2> HIDE DEF waiting, asked, awaited
    <2>8. CASE AwaitedPc = NoPc
      <3>1. Idle(ic)
        BY <2>2, <2>8 DEF Serves
      <3>2. inPipe = <<>> /\ inHit = <<>> /\ inResp = <<>> /\ asked = {}
        BY <2>4, <3>1 DEF Idle
      <3>3. inMshr = <<>>
        BY <3>2, ShortSetToSeq
      <3> HIDE DEF inPipe, inHit, inResp, inMshr
      <3>4. pcs = <<>>
        BY <3>2, <3>3
      <3> QED
        BY <2>6, <2>7, <2>8, <3>4
    <2>9. CASE AwaitedPc # NoPc
      <3>1. Asked(ic, AwaitedPc)
        BY <2>2, <2>9 DEF Serves
      <3>2. asked = {} => inMshr = <<>>
        BY ShortSetToSeq
      <3>3. CASE ic.pipe = AwaitedPc
        <4>1. inPipe = <<AwaitedPc>> /\ inHit = <<>> /\ inResp = <<>> /\ asked = {}
          BY <2>3, <2>4, <2>9, <3>3
        <4>2. inMshr = <<>>
          BY <3>2, <4>1
        <4> HIDE DEF inPipe, inHit, inResp, inMshr
        <4>3. pcs = <<AwaitedPc>>
          BY <4>1, <4>2
        <4> QED
          BY <2>6, <2>7, <2>9, <4>3
      <3>4. CASE ic.hit.valid /\ ~ic.hit.drop /\ ic.hit.pc = AwaitedPc
        <4>1. inPipe = <<>> /\ inHit = <<AwaitedPc>> /\ inResp = <<>> /\ asked = {}
          BY <2>3, <2>4, <3>4
        <4>2. inMshr = <<>>
          BY <3>2, <4>1
        <4> HIDE DEF inPipe, inHit, inResp, inMshr
        <4>3. pcs = <<AwaitedPc>>
          BY <4>1, <4>2
        <4> QED
          BY <2>6, <2>7, <2>9, <4>3
      <3>5. CASE ic.resp # NoResp /\ ic.resp.pc = AwaitedPc
        <4>1. inPipe = <<>> /\ inHit = <<>> /\ inResp = <<AwaitedPc>> /\ asked = {}
          BY <2>3, <2>4, <3>5
        <4>2. inMshr = <<>>
          BY <3>2, <4>1
        <4> HIDE DEF inPipe, inHit, inResp, inMshr
        <4>3. pcs = <<AwaitedPc>>
          BY <4>1, <4>2
        <4> QED
          BY <2>6, <2>7, <2>9, <4>3
      <3>6. CASE \E i \in MshrIds : ic.mshr[i].waiter /\ ic.mshr[i].pc = AwaitedPc
        <4>0. PICK i \in MshrIds : ic.mshr[i].waiter /\ ic.mshr[i].pc = AwaitedPc
          BY <3>6
        <4>1. ~NoWaiter(ic) /\ asked = {AwaitedPc}
          BY <2>5, <4>0 DEF NoWaiter
        <4>2. inPipe = <<>> /\ inHit = <<>> /\ inResp = <<>>
          BY <2>3, <4>1
        <4>3. inMshr = <<AwaitedPc>>
          BY <4>1, ShortSetToSeq
        <4> HIDE DEF inPipe, inHit, inResp, inMshr
        <4>4. pcs = <<AwaitedPc>>
          BY <4>2, <4>3
        <4> QED
          BY <2>6, <2>7, <2>9, <4>4
      <3> QED
        BY <3>1, <3>3, <3>4, <3>5, <3>6 DEF Asked
    <2> QED
      BY <2>8, <2>9
  <1> QED
    BY <1>1, FetchInvariant, PTL

-------------------------------------------------------------------------------
(* Fetch implements the path it predicts.                                  *)

PathPc == NextOf(fetch_buf, fetch_pc)

(* What appending a path to the queue delivers.                            *)
LEMMA DeliversPath ==
  ASSUME ifq \in Seq(Entries), NEW t \in Seq(Entries), ifq' = ifq \o t,
         ~fetch_halted, prog' = prog, stage' = "memory", Path!IsPath(t, PathPc),
         Calls(t) \/ IF fetch_halted' THEN EndOf(t, PathPc) \notin DOMAIN prog
                     ELSE PathPc' = EndOf(t, PathPc)
  PROVE  Path!Deliver
  <1>1. Len(ifq) \in Nat /\ Len(t) \in Nat /\ Len(ifq') = Len(ifq) + Len(t)
    BY ConcatProperties
  <1>2. SubSeq(ifq', Len(ifq) + 1, Len(ifq')) = t
    <2>1. CASE t = <<>>
      <3>1. Len(ifq') < Len(ifq) + 1 /\ Len(ifq') \in Int /\ Len(ifq) + 1 \in Int
        BY <1>1, <2>1
      <3> QED
        BY <2>1, <3>1, SubSeqEmpty
    <2>2. CASE t # <<>>
      <3> DEFINE m == Len(ifq) + 1
                 n == Len(ifq) + Len(t)
      <3>1. Len(t) > 0
        BY <1>1, <2>2
      <3>2. /\ m \in Len(ifq) + 1 .. Len(ifq) + Len(t)
            /\ n \in Len(ifq) + 1 .. Len(ifq) + Len(t)
            /\ m - Len(ifq) = 1 /\ n - Len(ifq) = Len(t)
        BY <1>1, <3>1
      <3> HIDE DEF m, n
      <3>3. SubSeq(ifq \o t, m, n) = SubSeq(t, m - Len(ifq), n - Len(ifq))
        BY <3>2, SubSeqOfConcat2
      <3>4. SubSeq(t, 1, Len(t)) = t
        BY SubSeqFull
      <3> QED
        BY <1>1, <3>2, <3>3, <3>4 DEF m, n
    <2> QED
      BY <2>1, <2>2
  <1>3. (IF t = <<>> THEN PathPc ELSE Path!After(Path!Last(t))) = EndOf(t, PathPc)
    BY DEF EndOf, Path!Last
  <1>4. Calls(t) => Path!HasCall(t)
    <2>1. DOMAIN t = 1 .. Len(t)
      OBVIOUS
    <2> QED
      BY <2>1 DEF Calls, Path!HasCall
  <1> DEFINE s == SubSeq(ifq', Len(ifq) + 1, Len(ifq'))
             end == IF s = <<>> THEN PathPc ELSE Path!After(Path!Last(s))
  <1>5. s = t /\ end = EndOf(t, PathPc)
    BY <1>2, <1>3
  <1> HIDE DEF end, s
  <1>6. /\ ifq' = ifq \o s /\ Path!IsPath(s, PathPc)
        /\ \/ Path!HasCall(s)
           \/ IF fetch_halted' THEN end \notin DOMAIN prog ELSE PathPc' = end
    BY <1>4, <1>5
  <1> QED
    <2>1. stage' # "redirected"
      OBVIOUS
    <2> QED
      BY <1>6, <2>1 DEF Path!Deliver, s, end, PathPc, NextOf

(* A step that appends nothing delivers nothing: it is a stuttering step,  *)
(* or fetch goes on where the last redirect led.                           *)
LEMMA DeliversNothing ==
  ASSUME ifq \in Seq(Entries), ifq' = ifq, ~fetch_halted, ~fetch_halted', prog' = prog,
         stage' = "memory", PathPc' = PathPc
  PROVE  Path!Deliver
  <1> DEFINE e == <<>>
  <1>1. e \in Seq(Entries) /\ ifq' = ifq \o e
    BY ConcatEmptySeq
  <1>2. DOMAIN e = {} /\ e = <<>> /\ \A j \in 1 .. Len(e) - 1 : FALSE
    OBVIOUS
  <1> HIDE DEF e
  <1>3. Path!IsPath(e, PathPc) /\ EndOf(e, PathPc) = PathPc
    BY <1>2 DEF Path!IsPath, EndOf
  <1> QED
    BY <1>1, <1>3, DeliversPath

(* A step that moves neither the queue nor the path is a stuttering step.  *)
LEMMA PathStutters ==
  ASSUME UNCHANGED <<prog, ifq, fetch_buf, fetch_pc, fetch_halted>>,
         stage' = "redirected" <=> stage = "redirected"
  PROVE  UNCHANGED Path!ppVars
  <1>1. UNCHANGED (stage = "redirected")
    OBVIOUS
  <1> QED
    BY <1>1 DEF Path!ppVars

(* The buffer delivers what it has recorded.                               *)
LEMMA DrainDelivers ==
  ASSUME CfInv, EntersCached, Drain
  PROVE  Path!Deliver
  <1> DEFINE q == fetch_buf.q
             n == Len(q)
  <1>0. CfShapes /\ BufferIsPath
    BY DEF CfInv
  <1>1. /\ stage' = "memory" /\ prog' = prog /\ ~fetch_halted
        /\ fetch_buf.valid /\ ifq' = Emptied.s /\ fetch_halted' = fetch_buf.eop
        /\ fetch_buf' = NoBuf /\ fetch_pc' = fetch_pc
    BY DEF EntersCached, EntersFetch, Drain
  <1>2. PICK t \in Seq(Entries) :
          /\ Emptied.s = ifq \o t
          /\ Path!IsPath(t, NextOf(fetch_buf, fetch_pc))
          /\ Calls(t) \/ t = fetch_buf.q
    BY <1>0, <1>1, EmptiedIsPath
  <1>3. /\ ifq \in Seq(Entries) /\ q \in Seq(Entries) /\ n \in Nat
        /\ fetch_halted' \in BOOLEAN
    BY <1>0, <1>1 DEF CfShapes, Buffers
  <1>4. /\ fetch_buf.eop => /\ n = 0 => fetch_pc \notin DOMAIN prog
                            /\ n > 0 => ~q[n].taken /\ q[n].pc + 1 \notin DOMAIN prog
        /\ ~fetch_buf.eop => n > 0 /\ fetch_pc = Path!After(q[n])
    BY <1>0, <1>1 DEF BufferIsPath, GoodBuffer
  <1>5. PathPc' = fetch_pc
    BY <1>1 DEF PathPc, NextOf, NoBuf
  <1>6. EndOf(q, PathPc) = IF n = 0 THEN fetch_pc ELSE Path!After(q[n])
    <2>1. q = <<>> <=> n = 0
      BY <1>3
    <2> QED
      BY <1>1, <2>1 DEF EndOf, PathPc, NextOf
  <1>7. IF fetch_halted' THEN EndOf(q, PathPc) \notin DOMAIN prog
        ELSE PathPc' = EndOf(q, PathPc)
    <2>1. CASE n = 0
      BY <1>1, <1>4, <1>6, <2>1
    <2>2. CASE n # 0
      BY <1>1, <1>3, <1>4, <1>5, <1>6, <2>2 DEF Path!After
    <2> QED
      BY <2>1, <2>2
  <1>8. ifq' = ifq \o t /\ Path!IsPath(t, PathPc)
    BY <1>1, <1>2 DEF PathPc
  <1>9. Calls(t) \/ IF fetch_halted' THEN EndOf(t, PathPc) \notin DOMAIN prog
                    ELSE PathPc' = EndOf(t, PathPc)
    BY <1>2, <1>7
  <1> QED
    BY <1>1, <1>3, <1>8, <1>9, DeliversPath

(* So does the bundle of the ideal memory.                                 *)
LEMMA IdealDelivers ==
  ASSUME CfInv, FetchIdeal
  PROVE  Path!Deliver
  <1>0. CfShapes /\ BufferIsPath
    BY DEF CfInv
  <1>1. PICK q \in FetchedBundles : IdealStep(q, ~q.halted /\ IdealRoom(q))
    BY DEF FetchIdeal, FetchedBundles, IdealStep
  <1>2. /\ stage' = "memory" /\ memory = "ideal" /\ prog' = prog /\ ~fetch_halted
        /\ fetch_buf' = fetch_buf
    BY DEF FetchIdeal, EntersFetch
  <1>3. PICK t \in Seq(Entries) : /\ q.s = ifq \o t /\ Path!IsPath(t, fetch_pc)
                                  /\ q.pc = EndOf(t, fetch_pc)
    BY <1>2, FetchedIsPath
  <1>4. q.halted => q.pc \notin DOMAIN prog
    BY <1>2, FetchedIsPath
  <1>5. PathPc = fetch_pc /\ PathPc' = fetch_pc'
    <2>1. ~fetch_buf.valid
      BY <1>0, <1>2 DEF BufferIsPath
    <2> QED
      BY <1>2, <2>1 DEF PathPc, NextOf
  <1>6. ifq' = q.s /\ fetch_pc' = q.pc /\ (fetch_halted' => q.pc \notin DOMAIN prog)
    BY <1>1, <1>4 DEF IdealStep, InImage
  <1>7. ifq' = ifq \o t /\ Path!IsPath(t, PathPc)
    BY <1>3, <1>5, <1>6
  <1>8. IF fetch_halted' THEN EndOf(t, PathPc) \notin DOMAIN prog
        ELSE PathPc' = EndOf(t, PathPc)
    BY <1>3, <1>5, <1>6
  <1>9. ifq \in Seq(Entries)
    BY <1>0 DEF CfShapes
  <1> QED
    BY <1>2, <1>7, <1>8, <1>9, DeliversPath

(* Decode consumes what it takes.                                          *)
LEMMA DecodeConsumes ==
  ASSUME CfInv, NEW n \in {0, BundleSize}, Decode(n)
  PROVE  [Path!PpNext]_(Path!ppVars)
  <1>0. CfShapes
    BY DEF CfInv
  <1>1. /\ stage = "core" /\ stage' = "fetch"
        /\ UNCHANGED <<prog, fetch_buf, fetch_pc, fetch_halted>>
        /\ ifq' = SubSeq(ifq, n + 1, Len(ifq))
    BY DEF Decode, fetchState
  <1>2. CASE n = 0
    <2>1. ifq' = ifq
      BY <1>0, <1>1, <1>2, QueueAfterDecode
    <2>2. UNCHANGED Path!ppVars
      BY <1>1, <2>1, PathStutters
    <2> QED
      BY <2>2
  <1>3. CASE n # 0
    <2>1. n \in 1 .. Len(ifq)
      BY <1>0, <1>3, QueueAfterDecode
    <2>2. \E k \in 1 .. Len(ifq) : ifq' = SubSeq(ifq, k + 1, Len(ifq))
      BY <1>1, <2>1
    <2>3. UNCHANGED (stage = "redirected")
      BY <1>1
    <2>4. Path!Consume
      BY <1>1, <2>2, <2>3 DEF Path!Consume
    <2> QED
      BY <2>4 DEF Path!PpNext
  <1> QED
    BY <1>2, <1>3

(* Every step of fetch is one of the path, or none.                        *)
LEMMA StepFollowsPath ==
  ASSUME CfInv, [CfNext]_cfVars
  PROVE  [Path!PpNext]_(Path!ppVars)
  <1>0. CfShapes /\ RequestIsPredicted /\ RedirectRestarts
    BY DEF CfInv
  <1>1. CASE UNCHANGED cfVars
    <2>1. UNCHANGED <<prog, ifq, fetch_buf, fetch_pc, fetch_halted, stage>>
      BY <1>1 DEF cfVars, fetchState
    <2>2. UNCHANGED Path!ppVars
      BY <2>1, PathStutters
    <2> QED
      BY <2>2
  <1>2. ASSUME NEW finished \in BOOLEAN, NEW accepts \in BOOLEAN, Memory(finished, accepts)
        PROVE  [Path!PpNext]_(Path!ppVars)
    <2>1. /\ stage = "memory" /\ stage' = "core"
          /\ UNCHANGED <<prog, ifq, fetch_buf, fetch_pc, fetch_halted>>
      BY <1>2 DEF Memory, fetchState
    <2>2. UNCHANGED Path!ppVars
      BY <2>1, PathStutters
    <2> QED
      BY <2>2
  <1>3. ASSUME NEW pc \in Recoveries, NEW s \in RasStates, Recover(pc, s)
        PROVE  [Path!PpNext]_(Path!ppVars)
    <2>1. /\ stage = "core" /\ stage' = "redirected" /\ prog' = prog
          /\ ifq' = <<>> /\ fetch_halted' = FALSE
      BY <1>3 DEF Recover
    <2>2. ~(stage = "redirected") /\ (stage = "redirected")'
      BY <2>1
    <2>3. Path!Redirect
      BY <2>1, <2>2 DEF Path!Redirect
    <2> QED
      BY <2>3 DEF Path!PpNext
  <1>4. ASSUME NEW n \in {0, BundleSize}, Decode(n)
        PROVE  [Path!PpNext]_(Path!ppVars)
    BY <1>4, DecodeConsumes
  <1>5. CASE FetchCached
    <2>0. EntersCached
      BY <1>5 DEF FetchCached, EntersCached
    <2>1. stage' = "memory" /\ prog' = prog /\ ~fetch_halted /\ memory = "cached"
      BY <2>0 DEF EntersCached, EntersFetch
    <2>2. ifq \in Seq(Entries)
      BY <1>0 DEF CfShapes
    <2>3. CASE Capture
      <3>1. /\ imem_req_outstanding /\ ~fetch_buf.valid /\ ic.resp # NoResp
            /\ fetch_buf' = CapturedBuf(ic.resp) /\ fetch_pc' = PcAfter(fetch_buf')
            /\ fetch_halted' = fetch_halted /\ ifq' = ifq
        BY <2>3 DEF Capture
      <3>2. GoodCache(ic, fetch_pc)
        BY <2>1, <3>1 DEF CfInv, CacheServes, AwaitedPc
      <3>3. ic.resp = Answer(fetch_pc)
        <4>1. \E d : d = [ic EXCEPT !.resp = NoResp]
          OBVIOUS
        <4> QED
          BY <3>1, <3>2, <4>1, TakenGood
      <3>4. Predicts(fetch_req_pred, fetch_pc)
        BY <1>0, <2>1, <3>1 DEF RequestIsPredicted
      <3>5. fetch_buf' = CapturedBuf(Answer(fetch_pc))
        BY <3>1, <3>3
      <3>6. NextOf(fetch_buf', fetch_pc') = fetch_pc
        BY <1>0, <3>1, <3>4, <3>5, CapturedFacts
      <3>7. PathPc' = PathPc
        BY <3>1, <3>6 DEF PathPc, NextOf
      <3>8. Path!Deliver
        BY <2>1, <2>2, <3>1, <3>7, DeliversNothing
      <3> QED
        BY <3>8 DEF Path!PpNext
    <2>4. CASE Drain
      <3>1. Path!Deliver
        BY <2>0, <2>4, DrainDelivers
      <3> QED
        BY <3>1 DEF Path!PpNext
    <2>5. CASE Request \/ Wait
      <3>1. UNCHANGED <<fetch_pc, fetch_halted, fetch_buf, ifq>>
        BY <2>5 DEF Request, Wait
      <3>2. PathPc' = PathPc
        BY <3>1 DEF PathPc, NextOf
      <3>3. Path!Deliver
        BY <2>1, <2>2, <3>1, <3>2, DeliversNothing
      <3> QED
        BY <3>3 DEF Path!PpNext
    <2> QED
      BY <1>5, <2>3, <2>4, <2>5 DEF FetchCached
  <1>6. CASE FetchIdeal
    <2>1. Path!Deliver
      BY <1>6, IdealDelivers
    <2> QED
      BY <2>1 DEF Path!PpNext
  <1>7. CASE FetchHalted
    <2>1. /\ stage \in {"fetch", "redirected"} /\ stage' = "memory" /\ fetch_halted
          /\ UNCHANGED <<prog, ifq, fetch_buf, fetch_pc, fetch_halted>>
      BY <1>7 DEF FetchHalted, EntersFetch, fetchState
    <2>2. stage # "redirected"
      BY <1>0, <2>1 DEF RedirectRestarts
    <2>3. UNCHANGED Path!ppVars
      BY <2>1, <2>2, PathStutters
    <2> QED
      BY <2>3
  <1> QED
    BY <1>1, <1>2, <1>3, <1>4, <1>5, <1>6, <1>7 DEF CfNext

(* Fetch delivers the words of the path it predicts, from the last         *)
(* redirect on: no word of an older path, none skipped or repeated.        *)
THEOREM FetchFollowsPrediction == CfSpec => FollowsPrediction
  <1>1. CfInit => Path!PpInit
    <2> SUFFICES ASSUME CfInit PROVE Path!PpInit
      OBVIOUS
    <2>1. /\ ifq = <<>> /\ fetch_pc = 0 /\ fetch_halted = FALSE /\ stage = "memory"
          /\ fetch_buf = NoBuf
      BY DEF CfInit
    <2>2. ~fetch_buf.valid /\ stage # "redirected"
      BY <2>1 DEF NoBuf
    <2> QED
      BY <2>1, <2>2 DEF Path!PpInit
  <1>2. CfInv /\ [CfNext]_cfVars => [Path!PpNext]_(Path!ppVars)
    BY StepFollowsPath
  <1> QED
    BY <1>1, <1>2, FetchInvariant, PTL DEF CfSpec, FollowsPrediction, Path!PpSpec

===============================================================================
