------------------------ MODULE StoreForwardingProofs ------------------------
(***************************************************************************)
(* Proofs about loads and stores by bytes, for every memory, queue and     *)
(* buffer: what is still in the store buffer leads memory to the program's *)
(* order, and a load returns the bytes of that order.                      *)
(***************************************************************************)
EXTENDS StoreForwarding, FiniteSetTheorems, SequenceTheorems, WellFoundedInduction, TLAPS

Words   == [Lanes -> Int]
Memory  == [MemWords -> Words]
Entries == [id : Nat \ {0}, acc : Accesses, word : Int, addr_ready : BOOLEAN,
            data_ready : BOOLEAN, st : {"waiting", "memory", "done"}, bytes : Words]
Stores  == [word : MemWords, wdata : [Lanes -> Int \ {NoByte}],
            wstrb : SUBSET Lanes, st : {"pending", "written", "free"}]

SfTypes ==
  /\ store_forwarding \in BOOLEAN
  /\ lsq \in Seq(Entries) /\ sb \in Seq(Stores)
  /\ next_inst_id \in Nat \ {0}
  /\ mem \in Memory /\ arch \in Memory
  /\ \A i \in 1 .. Len(lsq) : lsq[i].addr_ready => lsq[i].word \in MemWords

(* The queue is in program order.                                          *)
QueueInOrder ==
  /\ \A i \in 1 .. Len(lsq) : lsq[i].id < next_inst_id
  /\ \A i, j \in 1 .. Len(lsq) : i < j => lsq[i].id < lsq[j].id

(* v is what the stores ws[k], k in S, leave at byte b of word w.          *)
IsLast(m, ws, S, w, b, v) ==
  LET T == {k \in S : ws[k].word = w /\ b \in ws[k].wstrb}
  IN  IF T = {} THEN v = m[w][b]
      ELSE \E k \in T : v = ws[k].wdata[b] /\ \A l \in T : l <= k

PendingIn(q) == {s \in 1 .. Len(q) : q[s].st = "pending"}
HeldIn(q)    == {s \in 1 .. Len(q) : q[s].st # "free"}

(* StoresReachMemory, by bytes, for memory m, buffer q and program's       *)
(* memory a.                                                               *)
BytesReach(m, q, a) ==
  \A w \in MemWords, b \in Lanes : IsLast(m, q, PendingIn(q), w, b, a[w][b])

(* The buffer's newest store to a byte is the program's.                   *)
BufferIsNewest(q, a) ==
  \A s \in HeldIn(q) : \A b \in q[s].wstrb :
     (\A t \in HeldIn(q) : s < t /\ q[t].word = q[s].word => b \notin q[t].wstrb)
        => a[q[s].word][b] = q[s].wdata[b]

(* v is byte b of word w in the program's order before entry i of queue l. *)
Writes(e, w, b) == ~e.acc.load /\ e.word = w /\ b \in AccessMask(e.acc)
IsByteFor(l, a, i, w, b, v) ==
  IF \A j \in 1 .. i - 1 : ~Writes(l[j], w, b) THEN v = a[w][b]
  ELSE \E j \in 1 .. i - 1 :
         /\ Writes(l[j], w, b) /\ v = DataByte(l[j].id, b - l[j].acc.low)
         /\ \A k \in 1 .. i - 1 : Writes(l[k], w, b) => k <= j

(* A byte that load i has got is the one of the program's order, and one   *)
(* that it waits for no store on its way writes.                           *)
ByteIsRight(l, q, a, i, w, b, v) ==
  IF v # NoByte THEN IsByteFor(l, a, i, w, b, v)
  ELSE /\ \A j \in 1 .. i - 1 : ~Writes(l[j], w, b)
       /\ \A s \in PendingIn(q) : ~(q[s].word = w /\ b \in q[s].wstrb)
PartIsRight(l, q, a, i) ==
  /\ \A j \in 1 .. i - 1 : ~l[j].acc.load => l[j].addr_ready
  /\ \A b \in AccessMask(l[i].acc) :
        ByteIsRight(l, q, a, i, l[i].word, b, l[i].bytes[b])

PartsAreRight ==
  \A i \in 1 .. Len(lsq) : lsq[i].st = "memory" => PartIsRight(lsq, sb, arch, i)

SfInv ==
  /\ SfTypes /\ SfTypeOK /\ QueueInOrder
  /\ BytesReach(mem, sb, arch) /\ BufferIsNewest(sb, arch) /\ PartsAreRight

-------------------------------------------------------------------------------
(* Numbers, sequences.                                                     *)

(* A set of positive numbers has a smallest member.                        *)
LEMMA MinimumExists ==
  ASSUME NEW S \in SUBSET Nat, S # {}
  PROVE  \E m \in S : \A k \in S : m <= k
  <1>1. PICK m \in S : \A k \in S : ~(<<k, m>> \in OpToRel(<, Nat))
    BY NatLessThanWellFounded, WFMin
  <1>2. \A k \in S : ~(k < m)
    BY <1>1 DEF OpToRel
  <1>3. QED
    BY <1>2

(* Newest is the largest position.                                         *)
LEMMA NewestIs ==
  ASSUME NEW n \in Nat, NEW S \in SUBSET (1 .. n), S # {}
  PROVE  Newest(S) \in S /\ \A k \in S : k <= Newest(S)
  <1> DEFINE back == {n - i : i \in S}
  <1>1. back \in SUBSET Nat /\ back # {}
    <2>1. \A i \in S : n - i \in Nat
      OBVIOUS
    <2> QED
      BY <2>1
  <1>2. PICK m \in back : \A k \in back : m <= k
    BY <1>1, MinimumExists
  <1> HIDE DEF back
  <1>4. PICK i \in S : m = n - i
    BY <1>2 DEF back
  <1>5. \A k \in S : n - k \in back
    BY DEF back
  <1>6. \A k \in S : k <= i
    BY <1>2, <1>4, <1>5
  <1>7. QED
    BY <1>6 DEF Newest

(* Taking one element out of the queue.                                    *)
LEMMA RemoveAtIs ==
  ASSUME NEW T, NEW q \in Seq(T), NEW i \in 1 .. Len(q)
  PROVE  /\ RemoveAt(q, i) \in Seq(T)
         /\ Len(RemoveAt(q, i)) = Len(q) - 1
         /\ \A j \in 1 .. Len(q) - 1 :
               RemoveAt(q, i)[j] = IF j < i THEN q[j] ELSE q[j + 1]
  <1> DEFINE a == SubSeq(q, 1, i - 1)
             b == SubSeq(q, i + 1, Len(q))
  <1>0. Len(q) \in Nat /\ \A j \in 1 .. Len(q) : q[j] \in T
    BY LenProperties, ElementOfSeq
  <1>1. /\ a \in Seq(T) /\ Len(a) = i - 1
        /\ \A j \in 1 .. i - 1 : a[j] = q[j]
    <2>1. /\ a \in Seq(T) /\ Len(a) = IF 1 <= i - 1 THEN (i - 1) - 1 + 1 ELSE 0
          /\ \A j \in 1 .. (i - 1) - 1 + 1 : a[j] = q[1 + j - 1]
      BY <1>0, SubSeqProperties
    <2> QED
      BY <1>0, <2>1
  <1>2. /\ b \in Seq(T) /\ Len(b) = Len(q) - i
        /\ \A j \in 1 .. Len(q) - i : b[j] = q[i + j]
    <2>1. /\ b \in Seq(T)
          /\ Len(b) = IF i + 1 <= Len(q) THEN Len(q) - (i + 1) + 1 ELSE 0
          /\ \A j \in 1 .. Len(q) - (i + 1) + 1 : b[j] = q[(i + 1) + j - 1]
      BY <1>0, SubSeqProperties
    <2> QED
      BY <1>0, <2>1
  <1> HIDE DEF a, b
  <1>3. /\ a \o b \in Seq(T) /\ Len(a \o b) = Len(a) + Len(b)
        /\ \A j \in 1 .. Len(a) + Len(b) :
              (a \o b)[j] = IF j <= Len(a) THEN a[j] ELSE b[j - Len(a)]
    BY <1>1, <1>2, ConcatProperties
  <1>4. RemoveAt(q, i) = a \o b
    BY DEF RemoveAt, a, b
  <1>5. ASSUME NEW j \in 1 .. Len(q) - 1
        PROVE  (a \o b)[j] = IF j < i THEN q[j] ELSE q[j + 1]
    <2>1. CASE j < i
      BY <1>0, <1>1, <1>2, <1>3, <2>1
    <2>2. CASE ~(j < i)
      <3>1. j - (i - 1) \in 1 .. Len(q) - i /\ j \in 1 .. Len(a) + Len(b)
            /\ ~(j <= Len(a)) /\ i + (j - (i - 1)) = j + 1
        BY <1>0, <1>1, <1>2, <2>2
      <3>2. (a \o b)[j] = b[j - (i - 1)]
        BY <1>1, <1>3, <3>1
      <3> QED
        BY <1>2, <2>2, <3>1, <3>2
    <2> QED
      BY <2>1, <2>2
  <1>6. QED
    BY <1>0, <1>1, <1>2, <1>3, <1>4, <1>5

(* The free entries at the head are dropped, the others keep their order.  *)
LEMMA WithoutHolesIs ==
  ASSUME NEW q \in Seq(Stores)
  PROVE  \E h \in 0 .. Len(q) :
           /\ WithoutHoles(q) \in Seq(Stores)
           /\ Len(WithoutHoles(q)) = Len(q) - h
           /\ \A k \in 1 .. h : q[k].st = "free"
           /\ \A k \in 1 .. Len(q) - h : WithoutHoles(q)[k] = q[k + h]
           /\ h < Len(q) => q[h + 1].st # "free"
  <1> DEFINE held == {k \in 1 .. Len(q) : q[k].st # "free"}
  <1>0. Len(q) \in Nat /\ DOMAIN q = 1 .. Len(q) /\ \A j \in 1 .. Len(q) : q[j] \in Stores
    BY LenProperties, ElementOfSeq
  <1>1. CASE held = {}
    <2>1. WithoutHoles(q) = <<>>
      BY <1>0, <1>1 DEF WithoutHoles
    <2>2. <<>> \in Seq(Stores) /\ Len(<<>>) = 0
      BY EmptySeq
    <2>3. \A k \in 1 .. Len(q) : q[k].st = "free"
      BY <1>1
    <2>4. Len(q) \in 0 .. Len(q) /\ 1 .. Len(q) - Len(q) = {} /\ Len(q) - Len(q) = 0
      BY <1>0
    <2> QED
      BY <1>0, <2>1, <2>2, <2>3, <2>4
  <1>2. CASE held # {}
    <2>1. held \in SUBSET Nat
      BY <1>0
    <2> DEFINE first == CHOOSE k \in held : \A l \in held : k <= l
    <2>2. first \in held /\ \A l \in held : first <= l
      BY <1>2, <2>1, MinimumExists
    <2>3. WithoutHoles(q) = SubSeq(q, first, Len(q))
      BY <1>0, <1>2 DEF WithoutHoles
    <2> HIDE DEF first
    <2>4. first \in 1 .. Len(q) /\ q[first].st # "free"
      BY <2>2
    <2>5. /\ SubSeq(q, first, Len(q)) \in Seq(Stores)
          /\ Len(SubSeq(q, first, Len(q))) = IF first <= Len(q) THEN Len(q) - first + 1 ELSE 0
          /\ \A i \in 1 .. Len(q) - first + 1 :
                SubSeq(q, first, Len(q))[i] = q[first + i - 1]
      BY <1>0, <2>4, SubSeqProperties
    <2>6. \A k \in 1 .. first - 1 : q[k].st = "free"
      BY <1>0, <2>2, <2>4
    <2> DEFINE h == first - 1
    <2>7. h \in 0 .. Len(q) /\ h + 1 = first /\ Len(q) - h = Len(q) - first + 1
      BY <1>0, <2>4
    <2>8. \A k \in 1 .. Len(q) - h : WithoutHoles(q)[k] = q[k + h]
      BY <1>0, <2>3, <2>4, <2>5
    <2>9. Len(WithoutHoles(q)) = Len(q) - h
      BY <1>0, <2>3, <2>4, <2>5
    <2> QED
      BY <2>3, <2>4, <2>5, <2>6, <2>7, <2>8, <2>9
  <1>3. QED
    BY <1>1, <1>2

-------------------------------------------------------------------------------
(* Bytes.                                                                  *)

(* The mask of an access is what the program accesses within the word.     *)
LEMMA MaskIsAccess ==
  ASSUME NEW a \in Accesses
  PROVE  /\ {b \in Lanes : b - a.low \in 0 .. NumBytes(a) - 1} = AccessMask(a)
         /\ AccessMask(a) \subseteq Lanes
         /\ NumBytes(a) \in {1, 2, 4} /\ a.low \in Lanes
         /\ a.load \in BOOLEAN
  <1>1. a \in [load : BOOLEAN, size : {"B", "H", "W"}, uns : BOOLEAN, low : 0 .. 3]
    BY StoreForwardingAssumption
  <1>2. a.size = "W" => a.low = 0
    BY StoreForwardingAssumption
  <1>3. a.size \in {"B", "H", "W"} /\ a.low \in 0 .. 3 /\ a.load \in BOOLEAN
    BY <1>1
  <1>4. CASE a.size = "B"
    BY <1>3, <1>4 DEF AccessMask, NumBytes, Lanes
  <1>5. CASE a.size = "H"
    <2>1. AccessMask(a) = {a.low, a.low + 1} \cap Lanes /\ NumBytes(a) = 2
      BY <1>5 DEF AccessMask, NumBytes
    <2>2. \A b \in Lanes : b - a.low \in 0 .. 1 <=> b \in {a.low, a.low + 1}
      BY <1>3 DEF Lanes
    <2>3. {b \in Lanes : b - a.low \in 0 .. 1} = {a.low, a.low + 1} \cap Lanes
      BY <2>2
    <2> QED
      BY <1>3, <2>1, <2>3 DEF Lanes
  <1>6. CASE a.size = "W"
    <2>1. AccessMask(a) = Lanes /\ NumBytes(a) = 4
      BY <1>6 DEF AccessMask, NumBytes
    <2>2. \A b \in Lanes : b - a.low \in 0 .. 3
      BY <1>2, <1>6 DEF Lanes
    <2> QED
      BY <1>3, <2>1, <2>2 DEF Lanes
  <1>7. QED
    BY <1>3, <1>4, <1>5, <1>6

(* What the program stores.                                                *)
LEMMA ProgramStoreIs ==
  ASSUME NEW e \in Entries
  PROVE  /\ ProgramStore(e).word = e.word
         /\ ProgramStore(e).wstrb = AccessMask(e.acc)
         /\ ProgramStore(e).wstrb \in SUBSET Lanes
         /\ ProgramStore(e).wdata \in [Lanes -> Int \ {NoByte}]
         /\ \A b \in AccessMask(e.acc) :
               ProgramStore(e).wdata[b] = DataByte(e.id, b - e.acc.low)
  <1>1. e.acc \in Accesses /\ e.id \in Nat \ {0}
    BY DEF Entries
  <1>2. AccessMask(e.acc) \subseteq Lanes /\ e.acc.low \in Lanes
        /\ ProgramStore(e).wstrb = AccessMask(e.acc)
    BY <1>1, MaskIsAccess DEF ProgramStore
  <1>3. \A b \in Lanes : DataByte(e.id, b - e.acc.low) \in Int \ {NoByte}
    BY <1>1, <1>2 DEF DataByte, NoByte, Lanes
  <1>4. QED
    BY <1>2, <1>3 DEF ProgramStore

(* What the buffer gets is what the program stores, where it writes.       *)
LEMMA StoreWdataIs ==
  ASSUME NEW e \in Entries
  PROVE  /\ StoreWdata(e) \in [Lanes -> Int \ {NoByte}]
         /\ e.data_ready => \A b \in AccessMask(e.acc) :
               StoreWdata(e)[b] = DataByte(e.id, b - e.acc.low)
  <1>1. e.acc \in Accesses /\ e.id \in Nat \ {0}
    BY DEF Entries
  <1>2. AccessMask(e.acc) \subseteq Lanes /\ e.acc.low \in Lanes
        /\ (e.acc.size = "W" => e.acc.low = 0)
    BY <1>1, MaskIsAccess, StoreForwardingAssumption
  <1> DEFINE data(k) == IF e.data_ready THEN DataByte(e.id, k) ELSE ZeroByte
             byte(b) == IF e.acc.size = "W" THEN data(b)
                        ELSE IF b \in AccessMask(e.acc) THEN data(b - e.acc.low)
                        ELSE ZeroByte
  <1>3. StoreWdata(e) = [b \in Lanes |-> byte(b)]
    BY DEF StoreWdata
  <1>4. ASSUME NEW k \in -3 .. 3 PROVE data(k) \in Int \ {NoByte}
    BY <1>1 DEF DataByte, NoByte, ZeroByte
  <1>5. ZeroByte \in Int \ {NoByte}
    BY DEF ZeroByte, NoByte
  <1>6. ASSUME NEW b \in Lanes PROVE byte(b) \in Int \ {NoByte}
    <2>1. b \in -3 .. 3 /\ b - e.acc.low \in -3 .. 3
      BY <1>2 DEF Lanes
    <2> HIDE DEF data
    <2> QED
      BY <1>4, <1>5, <2>1
  <1>7. ASSUME e.data_ready, NEW b \in AccessMask(e.acc)
        PROVE  byte(b) = DataByte(e.id, b - e.acc.low)
    <2>1. e.acc.size = "W" => b - e.acc.low = b
      BY <1>2 DEF Lanes
    <2> QED
      BY <1>7, <2>1
  <1> HIDE DEF byte
  <1>8. QED
    BY <1>2, <1>3, <1>6, <1>7

(* A masked write.                                                         *)
LEMMA WriteMaskedIs ==
  ASSUME NEW m \in Memory, NEW s, s.word \in MemWords,
         s.wdata \in Words, s.wstrb \in SUBSET Lanes
  PROVE  /\ WriteMasked(m, s) \in Memory
         /\ \A w \in MemWords, b \in Lanes :
               WriteMasked(m, s)[w][b] = IF w = s.word /\ b \in s.wstrb THEN s.wdata[b]
                                                                      ELSE m[w][b]
  <1>1. MergeBytes(m[s.word], s.wdata, s.wstrb) \in Words
    BY DEF MergeBytes, Memory, Words
  <1>2. \A b \in Lanes : MergeBytes(m[s.word], s.wdata, s.wstrb)[b]
                           = IF b \in s.wstrb THEN s.wdata[b] ELSE m[s.word][b]
    BY DEF MergeBytes
  <1>3. WriteMasked(m, s) = [m EXCEPT ![s.word] = MergeBytes(m[s.word], s.wdata, s.wstrb)]
    BY DEF WriteMasked, Memory
  <1>4. QED
    BY <1>1, <1>2, <1>3 DEF Memory

(* The stores in order leave at each byte what the last of them wrote.     *)
LEMMA TurnsOfStores ==
  ASSUME NEW n \in Nat, NEW m, NEW ws, NEW S
  PROVE  \E after : after = [k \in 0 .. n |->
                 IF k = 0 THEN m
                 ELSE IF k \in S THEN WriteMasked(after[k - 1], ws[k]) ELSE after[k - 1]]
  <1> DEFINE Step(g, k) == IF k \in S THEN WriteMasked(g, ws[k]) ELSE g
             Turns(f, i) == f = [k \in 0 .. i |-> IF k = 0 THEN m ELSE Step(f[k - 1], k)]
             bad == {i \in 0 .. n : ~ \E f : Turns(f, i)}
  <1> HIDE DEF Turns
  <1>1. SUFFICES ASSUME bad # {} PROVE FALSE
    <2>1. SUFFICES ASSUME bad = {} PROVE \E f : Turns(f, n)
      BY DEF Turns
    <2> QED
      BY <2>1
  <1>2. PICK i \in bad : \A k \in bad : i <= k
    <2>1. bad \in SUBSET Nat
      OBVIOUS
    <2> QED
      BY <1>1, <2>1, MinimumExists
  <1>3. i # 0
    <2>1. Turns([k \in 0 .. 0 |-> m], 0)
      BY DEF Turns
    <2> QED
      BY <1>2, <2>1
  <1>4. i - 1 \in 0 .. n /\ i - 1 \notin bad /\ i \in 1 .. n
    BY <1>2, <1>3
  <1>5. PICK f : Turns(f, i - 1)
    BY <1>4
  <1> HIDE DEF Step
  <1>6. /\ \A k \in 1 .. i - 1 : f[k] = Step(f[k - 1], k)
        /\ f[0] = m
    BY <1>4, <1>5 DEF Turns
  <1> DEFINE g == [k \in 0 .. i |-> IF k = i THEN Step(f[i - 1], i) ELSE f[k]]
  <1>7. Turns(g, i)
    <2>1. g[0] = m
      BY <1>4, <1>6
    <2>2. g[i] = Step(g[i - 1], i)
      BY <1>4
    <2>3. ASSUME NEW k \in 1 .. i - 1 PROVE g[k] = Step(g[k - 1], k)
      <3>1. g[k] = f[k] /\ g[k - 1] = f[k - 1]
        BY <1>4, <2>3
      <3> QED
        BY <1>6, <3>1
    <2>4. g = [k \in 0 .. i |-> g[k]]
      OBVIOUS
    <2> HIDE DEF g
    <2>5. \A k \in 0 .. i : k = 0 \/ k = i \/ k \in 1 .. i - 1
      BY <1>4
    <2>6. \A k \in 0 .. i : g[k] = IF k = 0 THEN m ELSE Step(g[k - 1], k)
      BY <1>3, <2>1, <2>2, <2>3, <2>5
    <2> QED
      BY <2>4, <2>6 DEF Turns
  <1>8. QED
    BY <1>2, <1>7

(* Two values of one byte are the same.                                    *)
LEMMA LastIsUnique ==
  ASSUME NEW m, NEW ws, NEW S \in SUBSET Nat, NEW w, NEW b, NEW u, NEW v,
         IsLast(m, ws, S, w, b, u), IsLast(m, ws, S, w, b, v)
  PROVE  u = v
  <1> DEFINE T == {k \in S : ws[k].word = w /\ b \in ws[k].wstrb}
  <1>1. CASE T = {}
    BY <1>1 DEF IsLast
  <1>2. CASE T # {}
    <2>1. PICK k \in T : u = ws[k].wdata[b] /\ \A l \in T : l <= k
      BY <1>2 DEF IsLast
    <2>2. PICK j \in T : v = ws[j].wdata[b] /\ \A l \in T : l <= j
      BY <1>2 DEF IsLast
    <2>3. j \in Nat /\ k \in Nat /\ j <= k /\ k <= j
      BY <2>1, <2>2
    <2>4. j = k
      BY <2>3
    <2> QED
      BY <2>1, <2>2, <2>4
  <1>3. QED
    BY <1>1, <1>2

(* The memory after stores is given by the last store to each byte.        *)
LEMMA OverwrittenIsLast ==
  ASSUME NEW m \in Memory, NEW ws, NEW S, Len(ws) \in Nat,
         S \subseteq 1 .. Len(ws),
         \A k \in S : /\ ws[k].word \in MemWords /\ ws[k].wdata \in Words
                      /\ ws[k].wstrb \in SUBSET Lanes
  PROVE  /\ Overwritten(m, ws, S) \in Memory
         /\ \A w \in MemWords, b \in Lanes :
               IsLast(m, ws, S, w, b, Overwritten(m, ws, S)[w][b])
  <1> DEFINE n == Len(ws)
             Turns(f) == f = [k \in 0 .. n |->
                           IF k = 0 THEN m
                           ELSE IF k \in S THEN WriteMasked(f[k - 1], ws[k]) ELSE f[k - 1]]
             after == CHOOSE f : Turns(f)
             Good(k) == /\ after[k] \in Memory
                        /\ \A w \in MemWords, b \in Lanes :
                              IsLast(m, ws, S \cap (1 .. k), w, b, after[k][w][b])
             bad == {k \in 0 .. n : ~Good(k)}
  <1>1. Turns(after)
    BY TurnsOfStores
  <1>2. Overwritten(m, ws, S) = after[n]
    BY DEF Overwritten
  <1> HIDE DEF after
  <1>3. after[0] = m
    BY <1>1
  <1>4. \A k \in 1 .. n : after[k] = IF k \in S THEN WriteMasked(after[k - 1], ws[k])
                                                ELSE after[k - 1]
    BY <1>1
  <1> HIDE DEF Good
  <1>5. ASSUME bad # {} PROVE FALSE
    <2>1. bad \in SUBSET Nat
      OBVIOUS
    <2>2. PICK k \in bad : \A j \in bad : k <= j
      BY <1>5, <2>1, MinimumExists
    <2>3. Good(0)
      <3>1. S \cap (1 .. 0) = {}
        OBVIOUS
      <3> QED
        BY <1>3, <3>1 DEF Good, IsLast
    <2>4. k - 1 \in 0 .. n /\ k \in 1 .. n /\ k - 1 \notin bad
      BY <2>2, <2>3
    <2>5. Good(k - 1)
      BY <2>4
    <2> DEFINE g == after[k - 1]
               Wrote(U, w, b) == {j \in U : ws[j].word = w /\ b \in ws[j].wstrb}
    <2>6. /\ g \in Memory
          /\ \A w \in MemWords, b \in Lanes : IsLast(m, ws, S \cap (1 .. k - 1), w, b, g[w][b])
      BY <2>5 DEF Good
    <2> HIDE DEF g
    <2>7. CASE k \notin S
      <3>1. S \cap (1 .. k) = S \cap (1 .. k - 1)
        BY <2>4, <2>7
      <3>2. after[k] = g
        BY <1>4, <2>4, <2>7 DEF g
      <3> QED
        BY <2>2, <2>6, <3>1, <3>2 DEF Good
    <2>8. CASE k \in S
      <3>1. after[k] = WriteMasked(g, ws[k])
        BY <1>4, <2>4, <2>8 DEF g
      <3>2. /\ after[k] \in Memory
            /\ \A w \in MemWords, b \in Lanes :
                 after[k][w][b] = IF w = ws[k].word /\ b \in ws[k].wstrb THEN ws[k].wdata[b]
                                                                       ELSE g[w][b]
        BY <2>6, <2>8, <3>1, WriteMaskedIs
      <3>3. S \cap (1 .. k) = (S \cap (1 .. k - 1)) \cup {k} /\ k \notin S \cap (1 .. k - 1)
        BY <2>4, <2>8
      <3>4. ASSUME NEW w \in MemWords, NEW b \in Lanes
            PROVE  IsLast(m, ws, S \cap (1 .. k), w, b, after[k][w][b])
        <4>1. CASE w = ws[k].word /\ b \in ws[k].wstrb
          <5>1. k \in Wrote(S \cap (1 .. k), w, b)
            BY <3>3, <4>1
          <5>2. \A j \in Wrote(S \cap (1 .. k), w, b) : j <= k
            BY <2>4
          <5>3. after[k][w][b] = ws[k].wdata[b]
            BY <3>2, <4>1
          <5> QED
            BY <5>1, <5>2, <5>3 DEF IsLast
        <4>2. CASE ~(w = ws[k].word /\ b \in ws[k].wstrb)
          <5>1. Wrote(S \cap (1 .. k), w, b) = Wrote(S \cap (1 .. k - 1), w, b)
            BY <3>3, <4>2
          <5>2. after[k][w][b] = g[w][b]
            BY <3>2, <4>2
          <5>3. IsLast(m, ws, S \cap (1 .. k - 1), w, b, g[w][b])
            BY <2>6
          <5> QED
            BY <5>1, <5>2, <5>3 DEF IsLast
        <4> QED
          BY <4>1, <4>2
      <3> QED
        BY <2>2, <3>2, <3>4 DEF Good
    <2> QED
      BY <2>7, <2>8
  <1>6. Good(n)
    BY <1>5
  <1>7. S \cap (1 .. n) = S
    OBVIOUS
  <1>8. QED
    BY <1>2, <1>6, <1>7 DEF Good

-------------------------------------------------------------------------------
(* The invariant.                                                          *)

LEMMA Shapes ==
  ASSUME SfTypes
  PROVE  /\ Len(lsq) \in Nat /\ DOMAIN lsq = 1 .. Len(lsq)
         /\ \A i \in 1 .. Len(lsq) : lsq[i] \in Entries
         /\ lsq \in [1 .. Len(lsq) -> Entries] /\ sb \in [1 .. Len(sb) -> Stores]
         /\ Len(sb) \in Nat /\ DOMAIN sb = 1 .. Len(sb)
         /\ \A s \in 1 .. Len(sb) : sb[s] \in Stores
  BY LenProperties, ElementOfSeq DEF SfTypes

(* A byte stays the one of the program's order when no older entry changes *)
(* what it writes.                                                         *)
LEMMA ByteKept ==
  ASSUME NEW l, NEW n, NEW a, NEW i \in Nat, NEW w, NEW b, NEW v,
         \A j \in 1 .. i - 1 : /\ n[j].id = l[j].id /\ n[j].acc = l[j].acc
                               /\ ~l[j].acc.load => n[j].word = l[j].word
  PROVE  /\ \A j \in 1 .. i - 1 : Writes(n[j], w, b) <=> Writes(l[j], w, b)
         /\ IsByteFor(l, a, i, w, b, v) => IsByteFor(n, a, i, w, b, v)
  <1>1. \A j \in 1 .. i - 1 : Writes(n[j], w, b) <=> Writes(l[j], w, b)
    BY DEF Writes
  <1>2. \A j \in 1 .. i - 1 : DataByte(n[j].id, b - n[j].acc.low)
                                = DataByte(l[j].id, b - l[j].acc.low)
    OBVIOUS
  <1>3. QED
    BY <1>1, <1>2 DEF IsByteFor

LEMMA PartKept ==
  ASSUME NEW l, NEW n, NEW q, NEW a, NEW i \in Nat,
         PartIsRight(l, q, a, i),
         \A j \in 1 .. i - 1 : /\ n[j].id = l[j].id /\ n[j].acc = l[j].acc
                               /\ ~l[j].acc.load => /\ n[j].word = l[j].word
                                                    /\ n[j].addr_ready = l[j].addr_ready,
         n[i].acc = l[i].acc, n[i].word = l[i].word, n[i].bytes = l[i].bytes
  PROVE  PartIsRight(n, q, a, i)
  <1>1. \A j \in 1 .. i - 1 : ~n[j].acc.load => n[j].addr_ready
    BY DEF PartIsRight
  <1>2. ASSUME NEW b \in AccessMask(n[i].acc)
        PROVE  ByteIsRight(n, q, a, i, n[i].word, b, n[i].bytes[b])
    <2>1. ByteIsRight(l, q, a, i, l[i].word, b, l[i].bytes[b])
      BY <1>2 DEF PartIsRight
    <2> DEFINE w == l[i].word
               v == l[i].bytes[b]
    <2>2. n[i].word = w /\ n[i].bytes[b] = v /\ ByteIsRight(l, q, a, i, w, b, v)
      BY <2>1
    <2> HIDE DEF w, v
    <2>3. /\ \A j \in 1 .. i - 1 : Writes(n[j], w, b) <=> Writes(l[j], w, b)
          /\ IsByteFor(l, a, i, w, b, v) => IsByteFor(n, a, i, w, b, v)
      BY ByteKept
    <2>4. ByteIsRight(n, q, a, i, w, b, v)
      BY <2>2, <2>3 DEF ByteIsRight
    <2> QED
      BY <2>2, <2>4
  <1>3. QED
    BY <1>1, <1>2 DEF PartIsRight

(* The steps that change one entry of the queue.                           *)
LEMMA EntryUpdate ==
  ASSUME SfInv, NEW i \in 1 .. Len(lsq), NEW e \in Entries,
         lsq' = [lsq EXCEPT ![i] = e],
         UNCHANGED <<store_forwarding, next_inst_id, sb, mem, arch>>,
         e.id = lsq[i].id, e.acc = lsq[i].acc,
         e.addr_ready => e.word \in MemWords,
         lsq[i].addr_ready => e.addr_ready /\ e.word = lsq[i].word,
         e.st # "waiting" => e.acc.load /\ e.addr_ready,
         e.st = "memory" => PartIsRight([lsq EXCEPT ![i] = e], sb, arch, i)
  PROVE  SfInv'
  <1>0. SfTypes /\ SfTypeOK /\ QueueInOrder
    BY DEF SfInv
  <1>1. /\ lsq' \in Seq(Entries) /\ Len(lsq') = Len(lsq)
        /\ \A j \in 1 .. Len(lsq) : lsq'[j] = IF j = i THEN e ELSE lsq[j]
    BY <1>0, ExceptSeq DEF SfTypes
  <1>2. /\ Len(lsq) \in Nat /\ DOMAIN lsq = 1 .. Len(lsq) /\ DOMAIN lsq' = 1 .. Len(lsq)
        /\ \A j \in 1 .. Len(lsq) : lsq[j] \in Entries
    BY <1>0, <1>1, Shapes, LenProperties
  <1>3. SfTypes'
    BY <1>0, <1>1 DEF SfTypes
  <1>4. SfTypeOK'
    <2>1. e.st \in {"waiting", "memory", "done"}
      BY DEF Entries
    <2>2. /\ Len(lsq) <= LsqSize /\ Len(sb) <= SbDepth
          /\ \A j \in 1 .. Len(lsq) : /\ lsq[j].st \in {"waiting", "memory", "done"}
                                      /\ lsq[j].st # "waiting" => lsq[j].acc.load /\ lsq[j].addr_ready
          /\ \A j, k \in 1 .. Len(lsq) : j < k => lsq[j].id < lsq[k].id
          /\ sb # <<>> => Head(sb).st # "free"
      BY <1>0, <1>2 DEF SfTypeOK
    <2>3. \A j \in 1 .. Len(lsq) : /\ lsq'[j].st \in {"waiting", "memory", "done"}
                                   /\ lsq'[j].st # "waiting" => lsq'[j].acc.load /\ lsq'[j].addr_ready
                                   /\ lsq'[j].id = lsq[j].id
      BY <1>1, <2>1, <2>2
    <2> QED
      BY <1>1, <1>2, <2>2, <2>3 DEF SfTypeOK
  <1>5. QueueInOrder'
    <2>1. \A j \in 1 .. Len(lsq) : lsq'[j].id = lsq[j].id
      BY <1>1
    <2> QED
      BY <1>0, <1>1, <2>1 DEF QueueInOrder
  <1>6. BytesReach(mem, sb, arch)' /\ BufferIsNewest(sb, arch)'
    BY DEF SfInv
  <1>7. ASSUME NEW k \in 1 .. Len(lsq), lsq'[k].st = "memory"
        PROVE  PartIsRight(lsq', sb, arch, k)
    <2>1. CASE k = i
      BY <1>1, <1>7, <2>1
    <2>2. CASE k # i
      <3>1. lsq'[k] = lsq[k] /\ PartIsRight(lsq, sb, arch, k)
        BY <1>1, <1>7, <2>2 DEF SfInv, PartsAreRight
      <3>2. \A j \in 1 .. k - 1 : j \in 1 .. Len(lsq) /\ (~lsq[j].acc.load => lsq[j].addr_ready)
        BY <1>2, <3>1 DEF PartIsRight
      <3>3. ASSUME NEW j \in 1 .. k - 1
            PROVE  /\ lsq'[j].id = lsq[j].id /\ lsq'[j].acc = lsq[j].acc
                   /\ ~lsq[j].acc.load => /\ lsq'[j].word = lsq[j].word
                                          /\ lsq'[j].addr_ready = lsq[j].addr_ready
        <4>1. CASE j = i
          BY <1>1, <3>2, <4>1, <1>2 DEF Entries
        <4>2. CASE j # i
          BY <1>1, <3>2, <4>2
        <4> QED
          BY <4>1, <4>2
      <3>4. k \in Nat
        BY <1>2
      <3> QED
        BY <3>1, <3>3, <3>4, PartKept
    <2> QED
      BY <2>1, <2>2
  <1>8. PartsAreRight'
    BY <1>1, <1>7 DEF PartsAreRight
  <1>9. QED
    BY <1>3, <1>4, <1>5, <1>6, <1>8 DEF SfInv

-------------------------------------------------------------------------------
(* Loads.                                                                  *)

(* The bytes of a load depend on what it accesses only.                    *)
LEMMA LoadExtendIs ==
  ASSUME NEW a \in Accesses, NEW u \in Words
  PROVE  /\ LoadExtend(u, a) \in Words
         /\ \A v \in Words : (\A b \in AccessMask(a) : u[b] = v[b])
               => LoadExtend(u, a) = LoadExtend(v, a)
  <1> DEFINE n == NumBytes(a)
             shifted(w, k) == IF a.size = "W" THEN w[k]
                              ELSE IF a.low + k \in Lanes THEN w[a.low + k] ELSE ZeroByte
             byte(w, k) == IF k < n THEN shifted(w, k)
                           ELSE IF a.uns THEN ZeroByte ELSE Sign(shifted(w, n - 1))
  <1>1. \A w : LoadExtend(w, a) = [k \in Lanes |-> byte(w, k)]
    BY DEF LoadExtend
  <1>2. n \in {1, 2, 4} /\ a.low \in Lanes
    BY MaskIsAccess
  <1>3. ASSUME NEW w \in Words, NEW k \in Lanes PROVE shifted(w, k) \in Int
    BY <1>2 DEF Words, Lanes, ZeroByte
  <1>4. ASSUME NEW k \in Lanes PROVE byte(u, k) \in Int
    <2>1. n - 1 \in Lanes
      BY <1>2 DEF Lanes
    <2>2. shifted(u, k) \in Int /\ shifted(u, n - 1) \in Int
      BY <1>3, <2>1
    <2> HIDE DEF shifted
    <2> QED
      BY <2>2 DEF Sign, ZeroByte
  <1>5. ASSUME NEW v \in Words, \A b \in AccessMask(a) : u[b] = v[b], NEW k \in Lanes, k < n
        PROVE  shifted(u, k) = shifted(v, k)
    <2>1. AccessMask(a) = {b \in Lanes : b - a.low \in 0 .. n - 1}
      BY MaskIsAccess
    <2>2. CASE a.size = "W"
      <3>1. AccessMask(a) = Lanes
        BY <2>2 DEF AccessMask
      <3> QED
        BY <1>5, <2>2, <3>1
    <2>3. CASE a.size # "W"
      <3>1. a.low + k \in Lanes => a.low + k \in AccessMask(a)
        BY <1>2, <1>5, <2>1 DEF Lanes
      <3> QED
        BY <1>5, <2>3, <3>1
    <2> QED
      BY <2>2, <2>3
  <1>6. ASSUME NEW v \in Words, \A b \in AccessMask(a) : u[b] = v[b], NEW k \in Lanes
        PROVE  byte(u, k) = byte(v, k)
    <2>1. n - 1 \in Lanes /\ n - 1 < n
      BY <1>2 DEF Lanes
    <2>2. shifted(u, n - 1) = shifted(v, n - 1)
      BY <1>5, <1>6, <2>1
    <2>3. k < n => shifted(u, k) = shifted(v, k)
      BY <1>5, <1>6
    <2> HIDE DEF shifted
    <2> QED
      BY <2>2, <2>3
  <1> HIDE DEF byte
  <1>7. LoadExtend(u, a) \in Words
    BY <1>1, <1>4 DEF Words
  <1>8. QED
    BY <1>1, <1>6, <1>7

(* What dispatchLoad puts together is right byte by byte.                  *)
LEMMA ForwardIsRight ==
  ASSUME SfInv, NEW i \in 1 .. Len(lsq), MayStart(i)
  PROVE  /\ Forward(i) \in Words
         /\ \A j \in 1 .. i - 1 : ~lsq[j].acc.load => lsq[j].addr_ready
         /\ \A b \in AccessMask(lsq[i].acc) :
               ByteIsRight(lsq, sb, arch, i, lsq[i].word, b, Forward(i)[b])
  <1> DEFINE w == lsq[i].word
  <1>0. SfTypes
    BY DEF SfInv
  <1>1. /\ Len(lsq) \in Nat /\ \A j \in 1 .. Len(lsq) : lsq[j] \in Entries
        /\ Len(sb) \in Nat /\ DOMAIN sb = 1 .. Len(sb) /\ \A s \in 1 .. Len(sb) : sb[s] \in Stores
    BY <1>0, Shapes
  <1>2. \A j \in 1 .. i - 1 : ~lsq[j].acc.load =>
           lsq[j].addr_ready /\ lsq[j].data_ready
    BY DEF MayStart, QueuedStores
  <1>3. \A j \in 1 .. i - 1 : lsq[j] \in Entries /\ lsq[j].acc \in Accesses
    BY <1>1 DEF Entries
  <1> DEFINE Q(b) == {j \in 1 .. i - 1 : Writes(lsq[j], w, b)}
             B(b) == {s \in HeldIn(sb) : sb[s].word = w /\ b \in sb[s].wstrb}
  <1>4. ASSUME NEW b \in Lanes
        PROVE  /\ Q(b) = {} => QueuedByte(i, b) = NoByte
               /\ Q(b) # {} => /\ QueuedByte(i, b) \in Int \ {NoByte}
                               /\ IsByteFor(lsq, arch, i, w, b, QueuedByte(i, b))
    <2>1. Q(b) = {j \in QueuedStores(i) : lsq[j].word = lsq[i].word /\ b \in AccessMask(lsq[j].acc)}
      BY DEF Writes, QueuedStores
    <2>2. QueuedByte(i, b) = IF Q(b) = {} THEN NoByte ELSE StoreWdata(lsq[Newest(Q(b))])[b]
      BY <2>1 DEF QueuedByte
    <2>3. ASSUME Q(b) # {}
          PROVE  /\ QueuedByte(i, b) \in Int \ {NoByte}
                 /\ IsByteFor(lsq, arch, i, w, b, QueuedByte(i, b))
      <3>1. i - 1 \in Nat /\ Q(b) \in SUBSET (1 .. i - 1)
        BY <1>1
      <3> DEFINE j == Newest(Q(b))
      <3>2. j \in Q(b) /\ \A k \in Q(b) : k <= j
        BY <2>3, <3>1, NewestIs
      <3> HIDE DEF j
      <3>3. j \in 1 .. i - 1 /\ Writes(lsq[j], w, b)
        BY <3>2
      <3>4. lsq[j] \in Entries /\ lsq[j].data_ready /\ b \in AccessMask(lsq[j].acc)
        BY <1>2, <1>3, <3>3 DEF Writes
      <3>5. QueuedByte(i, b) = StoreWdata(lsq[j])[b]
        BY <2>2, <2>3 DEF j
      <3>6. /\ StoreWdata(lsq[j]) \in [Lanes -> Int \ {NoByte}]
            /\ StoreWdata(lsq[j])[b] = DataByte(lsq[j].id, b - lsq[j].acc.low)
        BY <3>4, StoreWdataIs
      <3>7. \A k \in 1 .. i - 1 : Writes(lsq[k], w, b) => k <= j
        BY <3>2
      <3>8. IsByteFor(lsq, arch, i, w, b, QueuedByte(i, b))
        BY <3>3, <3>5, <3>6, <3>7 DEF IsByteFor
      <3> QED
        BY <3>5, <3>6, <3>8
    <2> QED
      BY <2>2, <2>3
  <1>5. ASSUME NEW b \in Lanes
        PROVE  /\ B(b) = {} => BufferedByte(i, b) = NoByte
               /\ B(b) # {} => /\ BufferedByte(i, b) \in Int \ {NoByte}
                               /\ BufferedByte(i, b) = arch[w][b]
    <2>1. B(b) = {s \in DOMAIN sb : /\ sb[s].st # "free"
                                    /\ sb[s].word = lsq[i].word /\ b \in sb[s].wstrb}
      BY <1>1 DEF HeldIn
    <2>2. BufferedByte(i, b) = IF B(b) = {} THEN NoByte ELSE sb[Newest(B(b))].wdata[b]
      BY <2>1 DEF BufferedByte
    <2>3. ASSUME B(b) # {}
          PROVE  /\ BufferedByte(i, b) \in Int \ {NoByte}
                 /\ BufferedByte(i, b) = arch[w][b]
      <3>1. B(b) \in SUBSET (1 .. Len(sb))
        BY DEF HeldIn
      <3> DEFINE s == Newest(B(b))
      <3>2. s \in B(b) /\ \A t \in B(b) : t <= s
        BY <1>1, <2>3, <3>1, NewestIs
      <3> HIDE DEF s
      <3>3. s \in HeldIn(sb) /\ s \in 1 .. Len(sb) /\ sb[s].word = w /\ b \in sb[s].wstrb
        BY <3>1, <3>2
      <3>4. BufferedByte(i, b) = sb[s].wdata[b]
        BY <2>2, <2>3 DEF s
      <3>5. \A t \in HeldIn(sb) : s < t /\ sb[t].word = sb[s].word => b \notin sb[t].wstrb
        <4>1. \A t \in HeldIn(sb) : t \in 1 .. Len(sb)
          BY DEF HeldIn
        <4>2. \A t \in HeldIn(sb) : sb[t].word = w /\ b \in sb[t].wstrb => t <= s
          BY <3>2
        <4> QED
          BY <1>1, <3>3, <4>1, <4>2
      <3>6. arch[sb[s].word][b] = sb[s].wdata[b]
        BY <3>3, <3>5 DEF SfInv, BufferIsNewest
      <3>7. sb[s].wdata[b] \in Int \ {NoByte}
        BY <1>1, <3>3 DEF Stores
      <3> QED
        BY <3>3, <3>4, <3>6, <3>7
    <2> QED
      BY <2>2, <2>3
  <1>6. AccessMask(lsq[i].acc) \subseteq Lanes
    BY <1>1, MaskIsAccess DEF Entries
  <1>7. \A b \in Lanes : Forward(i)[b] =
           IF b \notin AccessMask(lsq[i].acc) THEN NoByte
           ELSE IF QueuedByte(i, b) # NoByte THEN QueuedByte(i, b) ELSE BufferedByte(i, b)
    BY DEF Forward
  <1>8. Forward(i) \in Words
    <2>1. NoByte \in Int
      BY DEF NoByte
    <2>2. \A b \in Lanes : QueuedByte(i, b) \in Int /\ BufferedByte(i, b) \in Int
      BY <1>4, <1>5, <2>1
    <2> QED
      BY <2>1, <2>2 DEF Forward, Words
  <1>9. ASSUME NEW b \in AccessMask(lsq[i].acc)
        PROVE  ByteIsRight(lsq, sb, arch, i, lsq[i].word, b, Forward(i)[b])
    <2>1. CASE Q(b) # {}
      BY <1>4, <1>6, <1>7, <1>9, <2>1 DEF ByteIsRight
    <2>2. CASE Q(b) = {} /\ B(b) # {}
      <3>1. Forward(i)[b] = arch[w][b] /\ Forward(i)[b] # NoByte
        BY <1>4, <1>5, <1>6, <1>7, <1>9, <2>2
      <3>2. \A j \in 1 .. i - 1 : ~Writes(lsq[j], w, b)
        BY <2>2
      <3> QED
        BY <3>1, <3>2 DEF ByteIsRight, IsByteFor
    <2>3. CASE Q(b) = {} /\ B(b) = {}
      <3>1. Forward(i)[b] = NoByte
        BY <1>4, <1>5, <1>6, <1>7, <1>9, <2>3
      <3>2. \A j \in 1 .. i - 1 : ~Writes(lsq[j], w, b)
        BY <2>3
      <3>3. PendingIn(sb) \subseteq HeldIn(sb)
        BY DEF PendingIn, HeldIn
      <3>4. \A s \in PendingIn(sb) : ~(sb[s].word = w /\ b \in sb[s].wstrb)
        BY <2>3, <3>3
      <3> QED
        BY <3>1, <3>2, <3>4 DEF ByteIsRight
    <2> QED
      BY <2>1, <2>2, <2>3
  <1>10. QED
    BY <1>2, <1>8, <1>9

(* The word that memory answers, under the bytes got before, is right in   *)
(* every byte the load accesses.                                           *)
LEMMA FilledIsRight ==
  ASSUME SfInv, NEW i \in 1 .. Len(lsq), lsq[i].st = "memory"
  PROVE  /\ FilledWord(lsq[i]) \in Words
         /\ lsq[i].word \in MemWords
         /\ \A b \in AccessMask(lsq[i].acc) :
               IsByteFor(lsq, arch, i, lsq[i].word, b, FilledWord(lsq[i])[b])
  <1> DEFINE w == lsq[i].word
  <1>0. SfTypes /\ SfTypeOK
    BY DEF SfInv
  <1>1. lsq[i] \in Entries /\ DOMAIN lsq = 1 .. Len(lsq)
    BY <1>0, Shapes
  <1>2. w \in MemWords
    BY <1>0, <1>1 DEF SfTypes, SfTypeOK
  <1>3. mem[w] \in Words /\ lsq[i].bytes \in Words
    BY <1>0, <1>1, <1>2 DEF SfTypes, Memory, Entries
  <1>4. \A b \in Lanes : FilledWord(lsq[i])[b] = IF lsq[i].bytes[b] # NoByte THEN lsq[i].bytes[b]
                                                                         ELSE mem[w][b]
    BY DEF FilledWord, MergeBytes
  <1>5. FilledWord(lsq[i]) \in Words
    BY <1>3 DEF FilledWord, MergeBytes, Words
  <1>6. PartIsRight(lsq, sb, arch, i)
    BY DEF SfInv, PartsAreRight
  <1>7. ASSUME NEW b \in AccessMask(lsq[i].acc)
        PROVE  IsByteFor(lsq, arch, i, lsq[i].word, b, FilledWord(lsq[i])[b])
    <2>0. b \in Lanes
      BY <1>1, MaskIsAccess DEF Entries
    <2>1. ByteIsRight(lsq, sb, arch, i, w, b, lsq[i].bytes[b])
      BY <1>6 DEF PartIsRight
    <2>2. CASE lsq[i].bytes[b] # NoByte
      BY <1>4, <2>0, <2>1, <2>2 DEF ByteIsRight
    <2>3. CASE lsq[i].bytes[b] = NoByte
      <3>1. /\ \A j \in 1 .. i - 1 : ~Writes(lsq[j], w, b)
            /\ \A s \in PendingIn(sb) : ~(sb[s].word = w /\ b \in sb[s].wstrb)
        BY <2>1, <2>3 DEF ByteIsRight
      <3>2. IsLast(mem, sb, PendingIn(sb), w, b, arch[w][b])
        BY <1>2, <2>0 DEF SfInv, BytesReach
      <3>3. {s \in PendingIn(sb) : sb[s].word = w /\ b \in sb[s].wstrb} = {}
        BY <3>1
      <3>4. arch[w][b] = mem[w][b]
        BY <3>2, <3>3 DEF IsLast
      <3> QED
        BY <1>4, <2>0, <2>3, <3>1, <3>4 DEF IsByteFor
    <2> QED
      BY <2>2, <2>3
  <1>8. QED
    BY <1>2, <1>5, <1>7

(* Right bytes make the value of the program's order.                      *)
LEMMA RightBytesAreExpected ==
  ASSUME SfInv, NEW i \in 1 .. Len(lsq), lsq[i].word \in MemWords,
         NEW u \in Words,
         \A j \in 1 .. i - 1 : ~lsq[j].acc.load => lsq[j].addr_ready,
         \A b \in AccessMask(lsq[i].acc) : IsByteFor(lsq, arch, i, lsq[i].word, b, u[b])
  PROVE  LoadExtend(u, lsq[i].acc) = Expected(i)
  <1> DEFINE w == lsq[i].word
             a == lsq[i].acc
             older == [j \in 1 .. i - 1 |-> ProgramStore(lsq[j])]
             S == QueuedStores(i)
             m == Overwritten(arch, older, S)
  <1>0. SfTypes
    BY DEF SfInv
  <1>1. /\ Len(lsq) \in Nat /\ \A j \in 1 .. Len(lsq) : lsq[j] \in Entries
    BY <1>0, Shapes
  <1>2. i - 1 \in Nat /\ Len(older) = i - 1
    BY <1>1
  <1>3. a \in Accesses /\ AccessMask(a) \subseteq Lanes
    BY <1>1, MaskIsAccess DEF Entries
  <1>4. S \subseteq 1 .. i - 1 /\ \A j \in S : j \in 1 .. Len(lsq) /\ ~lsq[j].acc.load
    BY <1>1 DEF QueuedStores
  <1>5. ASSUME NEW j \in S
        PROVE  /\ older[j].word = lsq[j].word /\ older[j].word \in MemWords
               /\ older[j].wdata \in Words /\ older[j].wstrb \in SUBSET Lanes
               /\ older[j].wstrb = AccessMask(lsq[j].acc)
               /\ \A b \in AccessMask(lsq[j].acc) :
                     older[j].wdata[b] = DataByte(lsq[j].id, b - lsq[j].acc.low)
    <2>1. older[j] = ProgramStore(lsq[j]) /\ lsq[j] \in Entries
      BY <1>1, <1>4
    <2>2. lsq[j].addr_ready /\ lsq[j].word \in MemWords
      BY <1>0, <1>4 DEF SfTypes
    <2> HIDE DEF older
    <2>3. older[j].wdata \in Words
      BY <2>1, ProgramStoreIs DEF Words
    <2> QED
      BY <2>1, <2>2, <2>3, ProgramStoreIs
  <1> HIDE DEF older
  <1>6. arch \in Memory
    BY <1>0 DEF SfTypes
  <1>7. /\ m \in Memory
        /\ \A x \in MemWords, b \in Lanes : IsLast(arch, older, S, x, b, m[x][b])
    <2>1. Len(older) \in Nat /\ S \subseteq 1 .. Len(older)
      BY <1>2, <1>4
    <2>2. \A j \in S : /\ older[j].word \in MemWords /\ older[j].wdata \in Words
                       /\ older[j].wstrb \in SUBSET Lanes
      BY <1>5
    <2> QED
      BY <1>6, <2>1, <2>2, OverwrittenIsLast
  <1> HIDE DEF m, S
  <1>8. ASSUME NEW b \in AccessMask(a) PROVE u[b] = m[w][b]
    <2> DEFINE T == {j \in S : older[j].word = w /\ b \in older[j].wstrb}
               v == u[b]
    <2>1. T = {j \in 1 .. i - 1 : Writes(lsq[j], w, b)}
      <3>1. \A j \in S : older[j].word = lsq[j].word /\ older[j].wstrb = AccessMask(lsq[j].acc)
        BY <1>5
      <3>2. S = {j \in 1 .. i - 1 : ~lsq[j].acc.load}
        BY DEF S, QueuedStores
      <3> QED
        BY <3>1, <3>2 DEF Writes
    <2>2. IsByteFor(lsq, arch, i, w, b, v)
      OBVIOUS
    <2>3. T \subseteq S
      OBVIOUS
    <2> HIDE DEF v
    <2>4. IsLast(arch, older, S, w, b, v)
      <3>1. CASE T = {}
        <4>1. \A j \in 1 .. i - 1 : ~Writes(lsq[j], w, b)
          BY <2>1, <3>1
        <4> QED
          BY <2>2, <3>1, <4>1 DEF IsByteFor, IsLast
      <3>2. CASE T # {}
        <4>1. PICK j \in 1 .. i - 1 :
                 /\ Writes(lsq[j], w, b) /\ v = DataByte(lsq[j].id, b - lsq[j].acc.low)
                 /\ \A k \in 1 .. i - 1 : Writes(lsq[k], w, b) => k <= j
          BY <2>1, <2>2, <3>2 DEF IsByteFor
        <4>2. j \in T /\ \A k \in T : k <= j
          BY <2>1, <4>1
        <4>3. v = older[j].wdata[b]
          BY <1>5, <2>3, <4>1, <4>2 DEF Writes
        <4> QED
          BY <3>2, <4>2, <4>3 DEF IsLast
      <3> QED
        BY <3>1, <3>2
    <2>5. IsLast(arch, older, S, w, b, m[w][b])
      BY <1>3, <1>7
    <2>6. S \in SUBSET Nat
      BY <1>2, <1>4
    <2>7. v = m[w][b]
      BY <2>4, <2>5, <2>6, LastIsUnique
    <2> QED
      BY <2>7 DEF v
  <1>9. m[w] \in Words
    BY <1>7 DEF Memory
  <1>10. LoadExtend(u, a) = LoadExtend(m[w], a)
    BY <1>3, <1>8, <1>9, LoadExtendIs
  <1>11. LoadExtend(m[w], a) = Expected(i)
    <2> DEFINE n == NumBytes(a)
               shifted(k) == IF a.size = "W" THEN m[w][k]
                             ELSE IF a.low + k \in Lanes THEN m[w][a.low + k] ELSE ZeroByte
               byte(k) == IF a.low + k \in Lanes THEN m[w][a.low + k] ELSE ZeroByte
    <2>1. LoadExtend(m[w], a) = [k \in Lanes |-> IF k < n THEN shifted(k)
                                   ELSE IF a.uns THEN ZeroByte ELSE Sign(shifted(n - 1))]
      BY DEF LoadExtend
    <2>2. Expected(i) = [k \in Lanes |-> IF k < n THEN byte(k)
                                   ELSE IF a.uns THEN ZeroByte ELSE Sign(byte(n - 1))]
      BY DEF Expected, m, older, S
    <2>3. n \in {1, 2, 4} /\ (a.size = "W" => a.low = 0)
      BY <1>3, MaskIsAccess, StoreForwardingAssumption
    <2>4. \A k \in Lanes : shifted(k) = byte(k)
      BY <2>3 DEF Lanes
    <2>5. n - 1 \in Lanes
      BY <2>3 DEF Lanes
    <2> HIDE DEF shifted, byte
    <2>6. shifted(n - 1) = byte(n - 1)
      BY <2>4, <2>5
    <2> QED
      BY <2>1, <2>2, <2>4, <2>6
  <1>12. QED
    BY <1>10, <1>11

-------------------------------------------------------------------------------
(* The steps.                                                              *)

LEMMA SfInitInv == SfInit => SfInv
  <1> SUFFICES ASSUME SfInit PROVE SfInv
    OBVIOUS
  <1>1. lsq = <<>> /\ sb = <<>> /\ next_inst_id = 1 /\ arch = mem
        /\ store_forwarding \in BOOLEAN
    BY StoreForwardingAssumption DEF SfInit
  <1>2. mem \in Memory
    <2>1. \A w \in MemWords, b \in Lanes : FirstByte(w, b) \in Int
      BY StoreForwardingAssumption DEF FirstByte, Lanes
    <2> QED
      BY <2>1 DEF SfInit, Memory, Words
  <1>3. SfTypes
    BY <1>1, <1>2, EmptySeq DEF SfTypes
  <1>4. SfTypeOK
    BY <1>1, StoreForwardingAssumption DEF SfTypeOK
  <1>5. QueueInOrder /\ PartsAreRight
    BY <1>1 DEF QueueInOrder, PartsAreRight
  <1>6. PendingIn(sb) = {} /\ HeldIn(sb) = {}
    BY <1>1 DEF PendingIn, HeldIn
  <1>7. BytesReach(mem, sb, arch) /\ BufferIsNewest(sb, arch)
    BY <1>1, <1>6 DEF BytesReach, BufferIsNewest, IsLast
  <1>8. QED
    BY <1>3, <1>4, <1>5, <1>7 DEF SfInv

LEMMA AllocateInv ==
  ASSUME SfInv, NEW a \in Accesses, Allocate(a)
  PROVE  SfInv'
  <1> DEFINE e == [id |-> next_inst_id, acc |-> a, word |-> 0,
                   addr_ready |-> FALSE, data_ready |-> FALSE,
                   st |-> "waiting", bytes |-> NoBytes]
  <1>0. SfTypes /\ SfTypeOK /\ QueueInOrder
    BY DEF SfInv
  <1>1. e \in Entries
    <2>1. NoBytes \in Words
      BY DEF NoBytes, Words, NoByte
    <2> QED
      BY <1>0, <2>1 DEF Entries, SfTypes
  <1>2. /\ lsq' = Append(lsq, e) /\ Len(lsq) < LsqSize
        /\ next_inst_id' = next_inst_id + 1
        /\ UNCHANGED <<store_forwarding, sb, mem, arch>>
    BY DEF Allocate
  <1>e. e.id = next_inst_id /\ e.st = "waiting" /\ ~e.addr_ready
    OBVIOUS
  <1> HIDE DEF e
  <1>3. /\ Len(lsq) \in Nat /\ DOMAIN lsq = 1 .. Len(lsq)
        /\ \A j \in 1 .. Len(lsq) : lsq[j] \in Entries
    BY <1>0, Shapes
  <1>4. /\ lsq' \in Seq(Entries) /\ Len(lsq') = Len(lsq) + 1
        /\ DOMAIN lsq' = 1 .. Len(lsq) + 1
        /\ \A j \in 1 .. Len(lsq) : lsq'[j] = lsq[j]
        /\ lsq'[Len(lsq) + 1] = e
    BY <1>0, <1>1, <1>2, AppendProperties, LenProperties DEF SfTypes
  <1>5. \A j \in 1 .. Len(lsq') : j \in 1 .. Len(lsq) \/ j = Len(lsq) + 1
    BY <1>3, <1>4
  <1>6. SfTypes'
    BY <1>0, <1>2, <1>4, <1>5, <1>e DEF SfTypes
  <1>7. QueueInOrder'
    <2>1. \A j \in 1 .. Len(lsq) : lsq[j].id < next_inst_id /\ lsq[j].id \in Nat
      BY <1>0, <1>3 DEF QueueInOrder, Entries
    <2>2. next_inst_id \in Nat
      BY <1>0 DEF SfTypes
    <2>3. \A j \in 1 .. Len(lsq') : lsq'[j].id < next_inst_id'
      BY <1>2, <1>4, <1>5, <1>e, <2>1, <2>2
    <2>4. ASSUME NEW j \in 1 .. Len(lsq'), NEW k \in 1 .. Len(lsq'), j < k
          PROVE  lsq'[j].id < lsq'[k].id
      <3>1. j \in 1 .. Len(lsq)
        BY <1>3, <1>4, <2>4
      <3>2. CASE k \in 1 .. Len(lsq)
        BY <1>0, <1>4, <2>4, <3>1, <3>2 DEF QueueInOrder
      <3>3. CASE k = Len(lsq) + 1
        BY <1>4, <1>e, <2>1, <3>1, <3>3
      <3> QED
        BY <1>5, <3>2, <3>3
    <2> QED
      BY <2>3, <2>4 DEF QueueInOrder
  <1>8. SfTypeOK'
    <2>1. Len(lsq') <= LsqSize
      BY <1>2, <1>3, <1>4, StoreForwardingAssumption
    <2>2. \A j \in DOMAIN lsq' : /\ lsq'[j].st \in {"waiting", "memory", "done"}
                                 /\ lsq'[j].st # "waiting" => lsq'[j].acc.load /\ lsq'[j].addr_ready
      BY <1>0, <1>3, <1>4, <1>5, <1>e DEF SfTypeOK
    <2>3. \A j, k \in DOMAIN lsq' : j < k => lsq'[j].id < lsq'[k].id
      BY <1>4, <1>7 DEF QueueInOrder
    <2> QED
      BY <1>0, <1>2, <2>1, <2>2, <2>3 DEF SfTypeOK
  <1>9. BytesReach(mem, sb, arch)' /\ BufferIsNewest(sb, arch)'
    BY <1>2 DEF SfInv
  <1>10. ASSUME NEW k \in 1 .. Len(lsq'), lsq'[k].st = "memory"
         PROVE  PartIsRight(lsq', sb, arch, k)
    <2>1. k \in 1 .. Len(lsq) /\ k \in Nat
      BY <1>4, <1>5, <1>e, <1>10
    <2>2. PartIsRight(lsq, sb, arch, k) /\ lsq'[k] = lsq[k]
      BY <1>4, <1>10, <2>1 DEF SfInv, PartsAreRight
    <2>3. \A j \in 1 .. k - 1 : lsq'[j] = lsq[j]
      BY <1>3, <1>4, <2>1
    <2> QED
      BY <2>1, <2>2, <2>3, PartKept
  <1>11. PartsAreRight'
    BY <1>2, <1>10 DEF PartsAreRight
  <1>12. QED
    BY <1>6, <1>7, <1>8, <1>9, <1>11 DEF SfInv

(* The operands: an address for an entry without one, the data of a store. *)
LEMMA OperandsInv ==
  ASSUME SfInv, NEW i \in DOMAIN lsq,
         (\E w \in MemWords : SetAddress(i, w)) \/ SetStoreData(i)
  PROVE  SfInv'
  <1>0. SfTypes /\ SfTypeOK
    BY DEF SfInv
  <1>1. /\ i \in 1 .. Len(lsq) /\ lsq[i] \in Entries
        /\ lsq \in [1 .. Len(lsq) -> Entries]
    BY <1>0, Shapes
  <1>2. lsq[i].st # "waiting" => lsq[i].acc.load /\ lsq[i].addr_ready
    BY <1>0 DEF SfTypeOK
  <1>3. lsq[i].st = "memory" => PartIsRight(lsq, sb, arch, i)
    BY <1>1 DEF SfInv, PartsAreRight
  <1>4. lsq[i].addr_ready => lsq[i].word \in MemWords
    BY <1>0, <1>1 DEF SfTypes
  <1>5. ASSUME NEW w \in MemWords, SetAddress(i, w) PROVE SfInv'
    <2> DEFINE e == [lsq[i] EXCEPT !.addr_ready = TRUE, !.word = w]
    <2>1. /\ lsq' = [lsq EXCEPT ![i] = e] /\ ~lsq[i].addr_ready
          /\ UNCHANGED <<store_forwarding, next_inst_id, sb, mem, arch>>
      BY <1>1, <1>5 DEF SetAddress
    <2>w. w \in Int
      BY StoreForwardingAssumption
    <2>2. /\ e \in Entries /\ e.id = lsq[i].id /\ e.acc = lsq[i].acc
          /\ e.word = w /\ e.st = lsq[i].st
      BY <1>1, <2>w DEF Entries
    <2>3. e.st = "waiting"
      BY <1>2, <2>1, <2>2
    <2> HIDE DEF e
    <2> QED
      BY <1>1, <2>1, <2>2, <2>3, EntryUpdate
  <1>6. ASSUME SetStoreData(i) PROVE SfInv'
    <2> DEFINE e == [lsq[i] EXCEPT !.data_ready = TRUE]
    <2>1. /\ lsq' = [lsq EXCEPT ![i] = e] /\ ~lsq[i].acc.load
          /\ UNCHANGED <<store_forwarding, next_inst_id, sb, mem, arch>>
      BY <1>1, <1>6 DEF SetStoreData
    <2>2. /\ e \in Entries /\ e.id = lsq[i].id /\ e.acc = lsq[i].acc
          /\ e.word = lsq[i].word /\ e.st = lsq[i].st
          /\ e.addr_ready = lsq[i].addr_ready
      BY <1>1 DEF Entries
    <2>3. e.st = "waiting"
      BY <1>2, <2>1, <2>2
    <2> HIDE DEF e
    <2> QED
      BY <1>1, <1>4, <2>1, <2>2, <2>3, EntryUpdate
  <1>7. QED
    BY <1>5, <1>6

LEMMA DispatchLoadInv ==
  ASSUME SfInv, NEW i \in DOMAIN lsq, DispatchLoad(i)
  PROVE  SfInv'
  <1>0. SfTypes
    BY DEF SfInv
  <1>1. /\ i \in 1 .. Len(lsq) /\ lsq[i] \in Entries /\ Len(lsq) \in Nat
        /\ lsq \in [1 .. Len(lsq) -> Entries] /\ lsq[i].acc \in Accesses
    BY <1>0, Shapes DEF Entries
  <1>2. lsq[i].addr_ready /\ lsq[i].acc.load /\ lsq[i].word \in MemWords
    BY <1>0, <1>1 DEF DispatchLoad, SfTypes
  <1>3. /\ Forward(i) \in Words
        /\ \A j \in 1 .. i - 1 : ~lsq[j].acc.load => lsq[j].addr_ready
        /\ \A b \in AccessMask(lsq[i].acc) :
              ByteIsRight(lsq, sb, arch, i, lsq[i].word, b, Forward(i)[b])
    BY <1>1, ForwardIsRight DEF DispatchLoad
  <1>4. LoadExtend(Forward(i), lsq[i].acc) \in Words
    BY <1>1, <1>3, LoadExtendIs
  <1> DEFINE update(st, bytes) == [lsq[i] EXCEPT !.st = st, !.bytes = bytes]
  <1>5. UNCHANGED <<store_forwarding, next_inst_id, sb, mem, arch>>
    BY DEF DispatchLoad
  <1>6. \A st, bytes : [lsq EXCEPT ![i].st = st, ![i].bytes = bytes]
                         = [lsq EXCEPT ![i] = update(st, bytes)]
    BY <1>1
  <1>7. \/ lsq' = [lsq EXCEPT ![i].st = "done",
                              ![i].bytes = LoadExtend(Forward(i), lsq[i].acc)]
        \/ lsq' = [lsq EXCEPT ![i].st = "memory", ![i].bytes = Forward(i)]
    BY DEF DispatchLoad
  <1>8. ASSUME NEW st \in {"memory", "done"}, NEW bytes \in Words
        PROVE  /\ update(st, bytes) \in Entries
               /\ update(st, bytes).id = lsq[i].id /\ update(st, bytes).acc = lsq[i].acc
               /\ update(st, bytes).word = lsq[i].word
               /\ update(st, bytes).addr_ready = lsq[i].addr_ready
               /\ update(st, bytes).st = st /\ update(st, bytes).bytes = bytes
    BY <1>1 DEF Entries
  <1> HIDE DEF update
  <1>9. CASE lsq' = [lsq EXCEPT ![i].st = "done",
                                ![i].bytes = LoadExtend(Forward(i), lsq[i].acc)]
    <2> DEFINE e == update("done", LoadExtend(Forward(i), lsq[i].acc))
    <2>1. lsq' = [lsq EXCEPT ![i] = e]
      BY <1>6, <1>9
    <2>2. /\ e \in Entries /\ e.id = lsq[i].id /\ e.acc = lsq[i].acc
          /\ e.word = lsq[i].word /\ e.addr_ready = lsq[i].addr_ready /\ e.st = "done"
      BY <1>4, <1>8
    <2> HIDE DEF e
    <2> QED
      BY <1>1, <1>2, <1>5, <2>1, <2>2, EntryUpdate
  <1>10. CASE lsq' = [lsq EXCEPT ![i].st = "memory", ![i].bytes = Forward(i)]
    <2> DEFINE e == update("memory", Forward(i))
               n == [lsq EXCEPT ![i] = e]
    <2>1. lsq' = [lsq EXCEPT ![i] = e]
      BY <1>6, <1>10
    <2>2. /\ e \in Entries /\ e.id = lsq[i].id /\ e.acc = lsq[i].acc
          /\ e.word = lsq[i].word /\ e.addr_ready = lsq[i].addr_ready
          /\ e.bytes = Forward(i)
      BY <1>3, <1>8
    <2> HIDE DEF e
    <2>3. n[i] = e /\ \A j \in 1 .. i - 1 : n[j] = lsq[j]
      BY <1>1
    <2> HIDE DEF n
    <2>4. ASSUME NEW b \in AccessMask(lsq[i].acc)
          PROVE  ByteIsRight(n, sb, arch, i, lsq[i].word, b, Forward(i)[b])
      <3> DEFINE w == lsq[i].word
                 v == Forward(i)[b]
      <3>1. ByteIsRight(lsq, sb, arch, i, w, b, v)
        BY <1>3
      <3> HIDE DEF w, v
      <3>2. i \in Nat
        BY <1>1
      <3>3. /\ \A j \in 1 .. i - 1 : Writes(n[j], w, b) <=> Writes(lsq[j], w, b)
            /\ IsByteFor(lsq, arch, i, w, b, v) => IsByteFor(n, arch, i, w, b, v)
        BY <2>3, <3>2, ByteKept
      <3>4. ByteIsRight(n, sb, arch, i, w, b, v)
        BY <3>1, <3>3 DEF ByteIsRight
      <3> QED
        BY <3>4 DEF w, v
    <2>5. PartIsRight(n, sb, arch, i)
      BY <1>3, <2>2, <2>3, <2>4 DEF PartIsRight
    <2> QED
      BY <1>1, <1>2, <1>5, <2>1, <2>2, <2>5, EntryUpdate DEF n
  <1>11. QED
    BY <1>7, <1>9, <1>10

LEMMA FinishLoadInv ==
  ASSUME SfInv, NEW i \in DOMAIN lsq, FinishLoad(i)
  PROVE  SfInv'
  <1>0. SfTypes /\ SfTypeOK
    BY DEF SfInv
  <1>1. /\ i \in 1 .. Len(lsq) /\ lsq[i] \in Entries
        /\ lsq \in [1 .. Len(lsq) -> Entries] /\ lsq[i].acc \in Accesses
    BY <1>0, Shapes DEF Entries
  <1>2. lsq[i].st = "memory" /\ lsq[i].addr_ready /\ lsq[i].acc.load
    BY <1>0 DEF FinishLoad, SfTypeOK
  <1>3. FilledWord(lsq[i]) \in Words /\ lsq[i].word \in MemWords
    BY <1>1, <1>2, FilledIsRight
  <1> DEFINE bytes == LoadExtend(FilledWord(lsq[i]), lsq[i].acc)
             e == [lsq[i] EXCEPT !.st = "done", !.bytes = bytes]
  <1>4. bytes \in Words
    BY <1>1, <1>3, LoadExtendIs
  <1>5. /\ lsq' = [lsq EXCEPT ![i] = e]
        /\ UNCHANGED <<store_forwarding, next_inst_id, sb, mem, arch>>
    BY <1>1 DEF FinishLoad
  <1> HIDE DEF bytes
  <1>6. /\ e \in Entries /\ e.id = lsq[i].id /\ e.acc = lsq[i].acc
        /\ e.word = lsq[i].word /\ e.addr_ready = lsq[i].addr_ready /\ e.st = "done"
    BY <1>1, <1>4 DEF Entries
  <1> HIDE DEF e
  <1>7. QED
    BY <1>1, <1>2, <1>3, <1>5, <1>6, EntryUpdate

LEMMA SquashFromInv ==
  ASSUME SfInv, NEW i \in DOMAIN lsq, SquashFrom(i)
  PROVE  SfInv'
  <1>0. SfTypes /\ SfTypeOK /\ QueueInOrder
    BY DEF SfInv
  <1>1. /\ i \in 1 .. Len(lsq) /\ Len(lsq) \in Nat /\ DOMAIN lsq = 1 .. Len(lsq)
        /\ \A j \in 1 .. Len(lsq) : lsq[j] \in Entries
    BY <1>0, Shapes
  <1>2. lsq' = SubSeq(lsq, 1, i - 1) /\ UNCHANGED <<store_forwarding, next_inst_id, sb, mem, arch>>
    BY DEF SquashFrom
  <1>3. /\ lsq' \in Seq(Entries) /\ Len(lsq') = i - 1
        /\ \A j \in 1 .. i - 1 : lsq'[j] = lsq[j]
    <2>1. \A j \in 1 .. i - 1 : lsq[j] \in Entries
      BY <1>1
    <2>2. /\ SubSeq(lsq, 1, i - 1) \in Seq(Entries)
          /\ Len(SubSeq(lsq, 1, i - 1)) = IF 1 <= i - 1 THEN (i - 1) - 1 + 1 ELSE 0
          /\ \A j \in 1 .. (i - 1) - 1 + 1 : SubSeq(lsq, 1, i - 1)[j] = lsq[1 + j - 1]
      BY <1>1, <2>1, SubSeqProperties
    <2> QED
      BY <1>1, <1>2, <2>2
  <1>4. DOMAIN lsq' = 1 .. i - 1 /\ \A j \in 1 .. i - 1 : j \in 1 .. Len(lsq)
    BY <1>1, <1>3, LenProperties
  <1>5. SfTypes'
    BY <1>0, <1>2, <1>3, <1>4 DEF SfTypes
  <1>6. SfTypeOK'
    BY <1>0, <1>1, <1>2, <1>3, <1>4, StoreForwardingAssumption DEF SfTypeOK
  <1>7. QueueInOrder'
    BY <1>0, <1>2, <1>3, <1>4 DEF QueueInOrder
  <1>8. BytesReach(mem, sb, arch)' /\ BufferIsNewest(sb, arch)'
    BY <1>2 DEF SfInv
  <1>9. ASSUME NEW k \in 1 .. Len(lsq'), lsq'[k].st = "memory"
        PROVE  PartIsRight(lsq', sb, arch, k)
    <2>1. k \in 1 .. i - 1 /\ k \in 1 .. Len(lsq) /\ k \in Nat
      BY <1>3, <1>4
    <2>2. PartIsRight(lsq, sb, arch, k) /\ lsq'[k] = lsq[k]
      BY <1>3, <1>9, <2>1 DEF SfInv, PartsAreRight
    <2>3. \A j \in 1 .. k - 1 : lsq'[j] = lsq[j]
      BY <1>1, <1>3, <2>1
    <2> QED
      BY <2>1, <2>2, <2>3, PartKept
  <1>10. PartsAreRight'
    BY <1>2, <1>9 DEF PartsAreRight
  <1>11. QED
    BY <1>5, <1>6, <1>7, <1>8, <1>10 DEF SfInv

(* An entry leaves the queue: a byte that it writes is the program's        *)
(* memory's now, and no entry before it wrote it.                          *)
LEMMA ByteAfterRemoval ==
  ASSUME NEW l, NEW n, NEW a, NEW c, NEW k \in Nat, NEW i \in 1 .. k - 1,
         NEW w, NEW b, NEW v,
         \A j \in 1 .. k - 2 : n[j] = IF j < i THEN l[j] ELSE l[j + 1],
         \/ ~Writes(l[i], w, b) /\ c[w][b] = a[w][b]
         \/ /\ Writes(l[i], w, b) /\ c[w][b] = DataByte(l[i].id, b - l[i].acc.low)
            /\ \A j \in 1 .. i - 1 : ~Writes(l[j], w, b),
         IsByteFor(l, a, k, w, b, v)
  PROVE  IsByteFor(n, c, k - 1, w, b, v)
  <1> DEFINE New(j) == IF j < i THEN j ELSE j - 1
  <1>0. (k - 1) - 1 = k - 2 /\ k - 1 \in Nat
    OBVIOUS
  <1>1. ASSUME NEW j \in 1 .. k - 1, j # i
        PROVE  New(j) \in 1 .. k - 2 /\ n[New(j)] = l[j]
    <2>1. New(j) \in 1 .. k - 2
      BY <1>1
    <2>2. (IF New(j) < i THEN New(j) ELSE New(j) + 1) = j
      BY <1>1
    <2> QED
      BY <2>1, <2>2
  <1>2. ASSUME NEW j \in 1 .. k - 2
        PROVE  \E o \in 1 .. k - 1 : o # i /\ New(o) = j /\ n[j] = l[o]
    <2> DEFINE o == IF j < i THEN j ELSE j + 1
    <2>1. o \in 1 .. k - 1 /\ o # i /\ New(o) = j
      OBVIOUS
    <2>2. n[j] = l[o]
      OBVIOUS
    <2> QED
      BY <2>1, <2>2
  <1>m. ASSUME NEW o \in 1 .. k - 1, NEW j \in 1 .. k - 1, o # i, j # i, o <= j
        PROVE  New(o) <= New(j)
    BY <1>m
  <1>3. CASE \E j \in 1 .. k - 1 : /\ j # i
                                   /\ Writes(l[j], w, b) /\ v = DataByte(l[j].id, b - l[j].acc.low)
                                   /\ \A o \in 1 .. k - 1 : Writes(l[o], w, b) => o <= j
    <2>1. PICK j \in 1 .. k - 1 : /\ j # i
                                  /\ Writes(l[j], w, b) /\ v = DataByte(l[j].id, b - l[j].acc.low)
                                  /\ \A o \in 1 .. k - 1 : Writes(l[o], w, b) => o <= j
      BY <1>3
    <2>2. New(j) \in 1 .. k - 2 /\ n[New(j)] = l[j]
      BY <1>1, <2>1
    <2>3. ASSUME NEW x \in 1 .. k - 2, Writes(n[x], w, b) PROVE x <= New(j)
      <3>1. PICK o \in 1 .. k - 1 : o # i /\ New(o) = x /\ n[x] = l[o]
        BY <1>2
      <3>2. o <= j
        BY <2>1, <2>3, <3>1
      <3> QED
        BY <1>m, <2>1, <3>1, <3>2
    <2> HIDE DEF New
    <2> QED
      BY <1>0, <2>1, <2>2, <2>3 DEF IsByteFor
  <1>4. CASE /\ \A j \in 1 .. k - 1 : Writes(l[j], w, b) => j = i
             /\ v = c[w][b]
    <2>1. ASSUME NEW x \in 1 .. k - 2 PROVE ~Writes(n[x], w, b)
      BY <1>2, <1>4
    <2> QED
      BY <1>0, <1>4, <2>1 DEF IsByteFor
  <1>5. CASE \A j \in 1 .. k - 1 : ~Writes(l[j], w, b)
    <2>1. v = a[w][b] /\ ~Writes(l[i], w, b)
      BY <1>5 DEF IsByteFor
    <2> QED
      BY <1>4, <1>5, <2>1
  <1>6. CASE ~ \A j \in 1 .. k - 1 : ~Writes(l[j], w, b)
    <2>1. PICK j \in 1 .. k - 1 :
             /\ Writes(l[j], w, b) /\ v = DataByte(l[j].id, b - l[j].acc.low)
             /\ \A o \in 1 .. k - 1 : Writes(l[o], w, b) => o <= j
      BY <1>6 DEF IsByteFor
    <2>2. CASE j # i
      BY <1>3, <2>1, <2>2
    <2>3. CASE j = i
      <3>1. v = c[w][b] /\ \A o \in 1 .. i - 1 : ~Writes(l[o], w, b)
        BY <2>1, <2>3
      <3>2. \A o \in 1 .. k - 1 : Writes(l[o], w, b) => o = i
        <4>1. \A o \in 1 .. k - 1 : o <= i => o = i \/ o \in 1 .. i - 1
          OBVIOUS
        <4> QED
          BY <2>1, <2>3, <3>1, <4>1
      <3> QED
        BY <1>4, <3>1, <3>2
    <2> QED
      BY <2>2, <2>3
  <1>7. QED
    BY <1>5, <1>6

LEMMA PartAfterRemoval ==
  ASSUME NEW l, NEW n, NEW q, NEW p, NEW a, NEW c, NEW k \in Nat, NEW i \in 1 .. k - 1,
         \A j \in 1 .. k - 1 : n[j] = IF j < i THEN l[j] ELSE l[j + 1],
         \A b \in AccessMask(l[k].acc) :
            \/ ~Writes(l[i], l[k].word, b) /\ c[l[k].word][b] = a[l[k].word][b]
            \/ /\ Writes(l[i], l[k].word, b)
               /\ c[l[k].word][b] = DataByte(l[i].id, b - l[i].acc.low)
               /\ \A j \in 1 .. i - 1 : ~Writes(l[j], l[k].word, b),
         \A s \in PendingIn(p) : \A b \in p[s].wstrb :
            \/ Writes(l[i], p[s].word, b)
            \/ \E t \in PendingIn(q) : q[t].word = p[s].word /\ b \in q[t].wstrb,
         PartIsRight(l, q, a, k)
  PROVE  PartIsRight(n, p, c, k - 1)
  <1>0. n[k - 1] = l[k] /\ (k - 1) - 1 = k - 2 /\ k - 1 \in Nat
    OBVIOUS
  <1>1. \A j \in 1 .. k - 2 : j \in 1 .. k - 1 /\ j + 1 \in 1 .. k - 1
    OBVIOUS
  <1>2. \A j \in 1 .. k - 2 : ~n[j].acc.load => n[j].addr_ready
    BY <1>1 DEF PartIsRight
  <1>3. ASSUME NEW b \in AccessMask(l[k].acc)
        PROVE  ByteIsRight(n, p, c, k - 1, l[k].word, b, l[k].bytes[b])
    <2> DEFINE w == l[k].word
               v == l[k].bytes[b]
    <2>1. ByteIsRight(l, q, a, k, w, b, v)
      BY DEF PartIsRight
    <2>2. \/ ~Writes(l[i], w, b) /\ c[w][b] = a[w][b]
          \/ /\ Writes(l[i], w, b) /\ c[w][b] = DataByte(l[i].id, b - l[i].acc.low)
             /\ \A j \in 1 .. i - 1 : ~Writes(l[j], w, b)
      OBVIOUS
    <2> HIDE DEF w, v
    <2>3. CASE v # NoByte
      <3>1. IsByteFor(l, a, k, w, b, v)
        BY <2>1, <2>3 DEF ByteIsRight
      <3>2. \A j \in 1 .. k - 2 : n[j] = IF j < i THEN l[j] ELSE l[j + 1]
        BY <1>1
      <3>3. IsByteFor(n, c, k - 1, w, b, v)
        BY <2>2, <3>1, <3>2, ByteAfterRemoval
      <3> QED
        BY <2>3, <3>3 DEF ByteIsRight, w, v
    <2>4. CASE v = NoByte
      <3>1. /\ \A j \in 1 .. k - 1 : ~Writes(l[j], w, b)
            /\ \A s \in PendingIn(q) : ~(q[s].word = w /\ b \in q[s].wstrb)
        BY <2>1, <2>4 DEF ByteIsRight
      <3>2. \A j \in 1 .. k - 2 : ~Writes(n[j], w, b)
        BY <1>1, <3>1
      <3>3. \A s \in PendingIn(p) : ~(p[s].word = w /\ b \in p[s].wstrb)
        BY <3>1
      <3> QED
        BY <1>0, <2>4, <3>2, <3>3 DEF ByteIsRight, w, v
    <2> QED
      BY <2>3, <2>4
  <1>4. QED
    BY <1>0, <1>2, <1>3 DEF PartIsRight

(* What the rest of the queue looks like.                                  *)
LEMMA QueueAfterRemoval ==
  ASSUME SfInv, NEW i \in 1 .. Len(lsq), next_inst_id' = next_inst_id,
         lsq' \in Seq(Entries), Len(lsq') = Len(lsq) - 1,
         \A j \in 1 .. Len(lsq) - 1 : lsq'[j] = IF j < i THEN lsq[j] ELSE lsq[j + 1]
  PROVE  /\ QueueInOrder'
         /\ \A j \in 1 .. Len(lsq') : lsq'[j].addr_ready => lsq'[j].word \in MemWords
         /\ Len(lsq') <= LsqSize /\ DOMAIN lsq' = 1 .. Len(lsq) - 1
         /\ \A j \in DOMAIN lsq' : /\ lsq'[j].st \in {"waiting", "memory", "done"}
                                   /\ lsq'[j].st # "waiting" => lsq'[j].acc.load /\ lsq'[j].addr_ready
         /\ \A j, k \in DOMAIN lsq' : j < k => lsq'[j].id < lsq'[k].id
  <1>0. SfTypes /\ SfTypeOK /\ QueueInOrder
    BY DEF SfInv
  <1>1. Len(lsq) \in Nat /\ DOMAIN lsq = 1 .. Len(lsq)
    BY <1>0, Shapes
  <1>2. DOMAIN lsq' = 1 .. Len(lsq) - 1
    BY LenProperties
  <1> DEFINE Old(j) == IF j < i THEN j ELSE j + 1
  <1>3. \A j \in 1 .. Len(lsq) - 1 : Old(j) \in 1 .. Len(lsq) /\ lsq'[j] = lsq[Old(j)]
    BY <1>1
  <1>4. \A j, k \in 1 .. Len(lsq) - 1 : j < k => Old(j) < Old(k)
    BY <1>1
  <1> HIDE DEF Old
  <1>5. QueueInOrder'
    BY <1>0, <1>3, <1>4 DEF QueueInOrder
  <1>6. \A j \in 1 .. Len(lsq') : lsq'[j].addr_ready => lsq'[j].word \in MemWords
    BY <1>0, <1>3 DEF SfTypes
  <1>7. Len(lsq') <= LsqSize
    BY <1>0, <1>1, StoreForwardingAssumption DEF SfTypeOK
  <1>8. \A j \in DOMAIN lsq' : /\ lsq'[j].st \in {"waiting", "memory", "done"}
                               /\ lsq'[j].st # "waiting" => lsq'[j].acc.load /\ lsq'[j].addr_ready
    BY <1>0, <1>1, <1>2, <1>3 DEF SfTypeOK
  <1>9. \A j, k \in DOMAIN lsq' : j < k => lsq'[j].id < lsq'[k].id
    BY <1>2, <1>5 DEF QueueInOrder
  <1>10. QED
    BY <1>2, <1>5, <1>6, <1>7, <1>8, <1>9

LEMMA FreeLoadInv ==
  ASSUME SfInv, FreeLoad
  PROVE  SfInv'
  <1>0. SfTypes /\ SfTypeOK
    BY DEF SfInv
  <1>1. /\ lsq # <<>> /\ lsq[1].st = "done" /\ lsq' = Tail(lsq)
        /\ UNCHANGED <<store_forwarding, next_inst_id, sb, mem, arch>>
    BY DEF FreeLoad
  <1>2. /\ lsq \in Seq(Entries) /\ Len(lsq) \in Nat /\ DOMAIN lsq = 1 .. Len(lsq)
    BY <1>0, Shapes DEF SfTypes
  <1>3. 1 \in 1 .. Len(lsq) /\ lsq[1].acc.load
    <2>1. Len(lsq) \in Nat \ {0}
      BY <1>1, <1>2, EmptySeq
    <2>2. 1 \in 1 .. Len(lsq)
      BY <2>1
    <2> QED
      BY <1>0, <1>1, <1>2, <2>2 DEF SfTypeOK
  <1>4. /\ lsq' \in Seq(Entries) /\ Len(lsq') = Len(lsq) - 1
        /\ \A j \in 1 .. Len(lsq) - 1 : lsq'[j] = lsq[j + 1]
    BY <1>1, <1>2, HeadTailProperties
  <1>5. \A j \in 1 .. Len(lsq) - 1 : lsq'[j] = IF j < 1 THEN lsq[j] ELSE lsq[j + 1]
    BY <1>2, <1>4
  <1>6. /\ QueueInOrder'
        /\ \A j \in 1 .. Len(lsq') : lsq'[j].addr_ready => lsq'[j].word \in MemWords
        /\ Len(lsq') <= LsqSize /\ DOMAIN lsq' = 1 .. Len(lsq) - 1
        /\ \A j \in DOMAIN lsq' : /\ lsq'[j].st \in {"waiting", "memory", "done"}
                                  /\ lsq'[j].st # "waiting" => lsq'[j].acc.load /\ lsq'[j].addr_ready
        /\ \A j, k \in DOMAIN lsq' : j < k => lsq'[j].id < lsq'[k].id
    BY <1>1, <1>3, <1>4, <1>5, QueueAfterRemoval
  <1>7. SfTypes'
    BY <1>0, <1>1, <1>4, <1>6 DEF SfTypes
  <1>8. SfTypeOK'
    BY <1>0, <1>1, <1>6 DEF SfTypeOK
  <1>9. BytesReach(mem, sb, arch)' /\ BufferIsNewest(sb, arch)'
    BY <1>1 DEF SfInv
  <1>10. ASSUME NEW x \in 1 .. Len(lsq'), lsq'[x].st = "memory"
         PROVE  PartIsRight(lsq', sb, arch, x)
    <2> DEFINE k == x + 1
    <2>1. /\ k \in 1 .. Len(lsq) /\ k \in Nat /\ 1 \in 1 .. k - 1 /\ k - 1 = x
          /\ \A j \in 1 .. k - 1 : j \in 1 .. Len(lsq) - 1
      BY <1>2, <1>4
    <2> HIDE DEF k
    <2>2. lsq'[x] = lsq[k] /\ PartIsRight(lsq, sb, arch, k)
      BY <1>4, <1>10, <2>1 DEF SfInv, PartsAreRight, k
    <2>3. \A j \in 1 .. k - 1 : lsq'[j] = IF j < 1 THEN lsq[j] ELSE lsq[j + 1]
      BY <1>5, <2>1
    <2>4. \A b : ~Writes(lsq[1], lsq[k].word, b)
      BY <1>3 DEF Writes
    <2>5. PartIsRight(lsq', sb, arch, k - 1)
      BY <2>1, <2>2, <2>3, <2>4, PartAfterRemoval
    <2> QED
      BY <2>1, <2>5
  <1>11. PartsAreRight'
    BY <1>1, <1>10 DEF PartsAreRight
  <1>12. QED
    BY <1>6, <1>7, <1>8, <1>9, <1>11 DEF SfInv

-------------------------------------------------------------------------------
(* The store buffer.                                                       *)

(* A store enters: it is the last one to each of its bytes.                *)
LEMMA StoreEnters ==
  ASSUME NEW m, NEW q \in Seq(Stores), NEW e \in Stores, NEW a, NEW c,
         e.st = "pending",
         \A w \in MemWords, b \in Lanes :
            c[w][b] = IF w = e.word /\ b \in e.wstrb THEN e.wdata[b] ELSE a[w][b],
         BytesReach(m, q, a), BufferIsNewest(q, a)
  PROVE  BytesReach(m, Append(q, e), c) /\ BufferIsNewest(Append(q, e), c)
  <1> DEFINE r == Append(q, e)
             n == Len(q)
             P == PendingIn(r)
  <1>1. /\ n \in Nat /\ Len(r) = n + 1 /\ r[n + 1] = e
        /\ \A k \in 1 .. n : r[k] = q[k] /\ q[k] \in Stores
    BY AppendProperties, LenProperties, ElementOfSeq
  <1> HIDE DEF r
  <1>2. \A k \in 1 .. n + 1 : k \in 1 .. n \/ k = n + 1
    BY <1>1
  <1>3. /\ PendingIn(r) = PendingIn(q) \cup {n + 1}
        /\ HeldIn(r) = HeldIn(q) \cup {n + 1}
    BY <1>1, <1>2 DEF PendingIn, HeldIn
  <1>4. PendingIn(q) \subseteq 1 .. n /\ HeldIn(q) \subseteq 1 .. n
    BY DEF PendingIn, HeldIn
  <1>5. ASSUME NEW w \in MemWords, NEW b \in Lanes
        PROVE  IsLast(m, r, P, w, b, c[w][b])
    <2> DEFINE T == {k \in P : r[k].word = w /\ b \in r[k].wstrb}
               O == {k \in PendingIn(q) : q[k].word = w /\ b \in q[k].wstrb}
    <2>1. \A k \in PendingIn(q) : r[k] = q[k] /\ k \in 1 .. n
      BY <1>1, <1>4
    <2>2. CASE w = e.word /\ b \in e.wstrb
      <3>1. n + 1 \in T /\ \A k \in T : k <= n + 1
        BY <1>1, <1>3, <1>4, <2>2
      <3>2. c[w][b] = r[n + 1].wdata[b]
        BY <1>1, <2>2
      <3> QED
        BY <3>1, <3>2 DEF IsLast
    <2>3. CASE ~(w = e.word /\ b \in e.wstrb)
      <3>1. T = O
        BY <1>1, <1>3, <2>1, <2>3
      <3>2. c[w][b] = a[w][b]
        BY <2>3
      <3>3. IsLast(m, q, PendingIn(q), w, b, a[w][b])
        BY DEF BytesReach
      <3>4. CASE O = {}
        <4>1. a[w][b] = m[w][b]
          BY <3>3, <3>4 DEF IsLast
        <4> QED
          BY <3>1, <3>2, <3>4, <4>1 DEF IsLast
      <3>5. CASE O # {}
        <4>1. PICK k \in O : a[w][b] = q[k].wdata[b] /\ \A l \in O : l <= k
          BY <3>3, <3>5 DEF IsLast
        <4>2. k \in T /\ c[w][b] = r[k].wdata[b] /\ \A l \in T : l <= k
          BY <2>1, <3>1, <3>2, <4>1
        <4> QED
          BY <4>2 DEF IsLast
      <3> QED
        BY <3>4, <3>5
    <2> QED
      BY <2>2, <2>3
  <1>6. ASSUME NEW s \in HeldIn(r), NEW b \in r[s].wstrb,
               \A t \in HeldIn(r) : s < t /\ r[t].word = r[s].word => b \notin r[t].wstrb
        PROVE  c[r[s].word][b] = r[s].wdata[b]
    <2>1. CASE s = n + 1
      <3>1. r[s] = e /\ e.word \in MemWords /\ b \in Lanes
        BY <1>1, <1>6, <2>1 DEF Stores
      <3> QED
        BY <1>6, <3>1
    <2>2. CASE s \in HeldIn(q)
      <3>1. r[s] = q[s] /\ s < n + 1 /\ s \in 1 .. n
        BY <1>1, <1>4, <2>2
      <3>2. ~(e.word = q[s].word /\ b \in e.wstrb)
        BY <1>1, <1>3, <1>6, <3>1
      <3>3. \A t \in HeldIn(q) : s < t /\ q[t].word = q[s].word => b \notin q[t].wstrb
        BY <1>1, <1>3, <1>4, <1>6, <3>1
      <3>4. a[q[s].word][b] = q[s].wdata[b]
        BY <1>6, <2>2, <3>1, <3>3 DEF BufferIsNewest
      <3>5. q[s].word \in MemWords /\ b \in Lanes
        BY <1>1, <1>6, <3>1 DEF Stores
      <3> QED
        BY <3>1, <3>2, <3>4, <3>5
    <2> QED
      BY <1>3, <2>1, <2>2
  <1>7. QED
    BY <1>3, <1>5, <1>6 DEF BytesReach, BufferIsNewest, r

(* An entry of the buffer changes its state only.                          *)
LEMMA StateChanges ==
  ASSUME NEW q \in Seq(Stores), NEW s \in 1 .. Len(q),
         NEW st \in {"pending", "written", "free"},
         NEW r, r = [q EXCEPT ![s].st = st]
  PROVE  /\ r \in Seq(Stores) /\ Len(r) = Len(q)
         /\ \A k \in 1 .. Len(q) : /\ r[k].word = q[k].word /\ r[k].wstrb = q[k].wstrb
                                   /\ r[k].wdata = q[k].wdata
                                   /\ r[k].st = IF k = s THEN st ELSE q[k].st
  <1> DEFINE e == [q[s] EXCEPT !.st = st]
  <1>1. q \in [1 .. Len(q) -> Stores] /\ \A k \in 1 .. Len(q) : q[k] \in Stores
    BY LenProperties, ElementOfSeq
  <1>2. e \in Stores /\ r = [q EXCEPT ![s] = e]
        /\ e.word = q[s].word /\ e.wstrb = q[s].wstrb /\ e.wdata = q[s].wdata /\ e.st = st
    BY <1>1 DEF Stores
  <1> HIDE DEF e
  <1>3. /\ r \in Seq(Stores) /\ Len(r) = Len(q)
        /\ \A k \in 1 .. Len(q) : r[k] = IF k = s THEN e ELSE q[k]
    BY <1>2, ExceptSeq
  <1>4. QED
    BY <1>2, <1>3

(* The changed queue is a queue of stores.                                 *)
LEMMA ChangedStaysSeq ==
  \A q \in Seq(Stores) : \A s \in 1 .. Len(q) :
     \A st \in {"pending", "written", "free"} : [q EXCEPT ![s].st = st] \in Seq(Stores)
  <1> SUFFICES ASSUME NEW q \in Seq(Stores), NEW s \in 1 .. Len(q),
                      NEW st \in {"pending", "written", "free"}
               PROVE  [q EXCEPT ![s].st = st] \in Seq(Stores)
    OBVIOUS
  <1> DEFINE e == [q[s] EXCEPT !.st = st]
  <1>1. q[s] \in Stores
    BY ElementOfSeq
  <1>2. e \in Stores
    BY <1>1 DEF Stores
  <1> HIDE DEF e
  <1>3. [q EXCEPT ![s] = e] \in Seq(Stores)
    BY <1>2, ExceptSeq
  <1> QED
    BY <1>3 DEF e

(* A store reaches memory, the first one of its word to do so.             *)
LEMMA StoreReachesMemory ==
  ASSUME NEW m \in Memory, NEW q \in Seq(Stores), NEW r, NEW a, NEW s \in 1 .. Len(q),
         q[s].st = "pending",
         \A k \in 1 .. s - 1 : q[k].word = q[s].word => q[k].st # "pending",
         r = [q EXCEPT ![s].st = "written"],
         BytesReach(m, q, a), BufferIsNewest(q, a)
  PROVE  /\ WriteMasked(m, q[s]) \in Memory
         /\ BytesReach(WriteMasked(m, q[s]), r, a) /\ BufferIsNewest(r, a)
  <1> DEFINE n == Len(q)
             o == WriteMasked(m, q[s])
  <1>1. n \in Nat /\ q \in [1 .. n -> Stores] /\ \A k \in 1 .. n : q[k] \in Stores
    BY LenProperties, ElementOfSeq
  <1>3. Len(r) = n
    BY StateChanges
  <1>4. \A k \in 1 .. n : /\ r[k].word = q[k].word /\ r[k].wstrb = q[k].wstrb
                          /\ r[k].wdata = q[k].wdata
                          /\ r[k].st = IF k = s THEN "written" ELSE q[k].st
    BY StateChanges
  <1>5. PendingIn(r) = PendingIn(q) \ {s} /\ HeldIn(r) = HeldIn(q)
        /\ PendingIn(q) \subseteq 1 .. n /\ HeldIn(q) \subseteq 1 .. n /\ s \in PendingIn(q)
    BY <1>3, <1>4 DEF PendingIn, HeldIn
  <1>6. /\ o \in Memory
        /\ \A w \in MemWords, b \in Lanes :
              o[w][b] = IF w = q[s].word /\ b \in q[s].wstrb THEN q[s].wdata[b] ELSE m[w][b]
    <2>1. q[s].word \in MemWords /\ q[s].wdata \in Words /\ q[s].wstrb \in SUBSET Lanes
      BY <1>1 DEF Stores, Words
    <2> QED
      BY <2>1, WriteMaskedIs
  <1> HIDE DEF o
  <1>7. ASSUME NEW w \in MemWords, NEW b \in Lanes
        PROVE  IsLast(o, r, PendingIn(r), w, b, a[w][b])
    <2> DEFINE T == {k \in PendingIn(q) : q[k].word = w /\ b \in q[k].wstrb}
               U == {k \in PendingIn(r) : r[k].word = w /\ b \in r[k].wstrb}
    <2>1. U = T \ {s}
      BY <1>4, <1>5
    <2>2. IsLast(m, q, PendingIn(q), w, b, a[w][b])
      BY DEF BytesReach
    <2>3. CASE s \notin T
      <3>1. U = T /\ ~(w = q[s].word /\ b \in q[s].wstrb)
        BY <1>5, <2>1, <2>3
      <3>2. o[w][b] = m[w][b]
        BY <1>6, <3>1
      <3>3. \A k \in T : r[k].wdata = q[k].wdata
        BY <1>4, <1>5
      <3>4. CASE T = {}
        BY <2>2, <3>1, <3>2, <3>4 DEF IsLast
      <3>5. CASE T # {}
        <4>1. PICK k \in T : a[w][b] = q[k].wdata[b] /\ \A l \in T : l <= k
          BY <2>2, <3>5 DEF IsLast
        <4>2. k \in U /\ a[w][b] = r[k].wdata[b] /\ \A l \in U : l <= k
          BY <3>1, <3>3, <4>1
        <4> QED
          BY <4>2 DEF IsLast
      <3> QED
        BY <3>4, <3>5
    <2>4. CASE s \in T
      <3>1. PICK k \in T : a[w][b] = q[k].wdata[b] /\ \A l \in T : l <= k
        BY <2>2, <2>4 DEF IsLast
      <3>2. \A l \in T : s <= l
        <4>1. \A l \in T : l \in 1 .. n /\ q[l].st = "pending" /\ q[l].word = q[s].word
          BY <1>5, <2>4 DEF PendingIn
        <4> QED
          BY <1>1, <4>1
      <3>3. CASE k = s
        <4>1. U = {}
          <5>1. \A l \in T : l = s
            <6>1. \A l \in T : l \in Nat /\ l <= s /\ s <= l
              BY <1>5, <3>1, <3>2, <3>3
            <6> QED
              BY <6>1
          <5> QED
            BY <2>1, <5>1
        <4>2. o[w][b] = q[s].wdata[b]
          BY <1>6, <2>4
        <4> QED
          BY <3>1, <3>3, <4>1, <4>2 DEF IsLast
      <3>4. CASE k # s
        <4>1. k \in U /\ \A l \in U : l <= k
          BY <2>1, <3>1, <3>4
        <4>2. a[w][b] = r[k].wdata[b]
          BY <1>4, <1>5, <3>1
        <4> QED
          BY <4>1, <4>2 DEF IsLast
      <3> QED
        BY <3>3, <3>4
    <2> QED
      BY <2>3, <2>4
  <1>8. BufferIsNewest(r, a)
    <2>1. \A k \in HeldIn(q) : /\ r[k].word = q[k].word /\ r[k].wstrb = q[k].wstrb
                               /\ r[k].wdata = q[k].wdata
      BY <1>4, <1>5
    <2>2. ASSUME NEW x \in HeldIn(r), NEW b \in r[x].wstrb,
                 \A t \in HeldIn(r) : x < t /\ r[t].word = r[x].word => b \notin r[t].wstrb
          PROVE  a[r[x].word][b] = r[x].wdata[b]
      <3>1. x \in HeldIn(q) /\ b \in q[x].wstrb
        BY <1>5, <2>1, <2>2
      <3>2. \A t \in HeldIn(q) : x < t /\ q[t].word = q[x].word => b \notin q[t].wstrb
        BY <1>5, <2>1, <2>2, <3>1
      <3>3. a[q[x].word][b] = q[x].wdata[b]
        BY <3>1, <3>2 DEF BufferIsNewest
      <3> QED
        BY <2>1, <3>1, <3>3
    <2> QED
      BY <2>2 DEF BufferIsNewest
  <1>9. QED
    BY <1>6, <1>7, <1>8 DEF BytesReach, o

(* A written store is freed, the first one of its word to be.              *)
LEMMA StoreIsFreed ==
  ASSUME NEW m, NEW q \in Seq(Stores), NEW r, NEW a, NEW s \in 1 .. Len(q),
         q[s].st = "written",
         \A k \in 1 .. s - 1 : q[k].word = q[s].word => q[k].st = "free",
         r = [q EXCEPT ![s].st = "free"],
         BytesReach(m, q, a), BufferIsNewest(q, a)
  PROVE  BytesReach(m, r, a) /\ BufferIsNewest(r, a)
  <1> DEFINE n == Len(q)
  <1>1. n \in Nat /\ q \in [1 .. n -> Stores] /\ \A k \in 1 .. n : q[k] \in Stores
    BY LenProperties, ElementOfSeq
  <1>3. Len(r) = n
    BY StateChanges
  <1>4. \A k \in 1 .. n : /\ r[k].word = q[k].word /\ r[k].wstrb = q[k].wstrb
                          /\ r[k].wdata = q[k].wdata
                          /\ r[k].st = IF k = s THEN "free" ELSE q[k].st
    BY StateChanges
  <1>5. /\ PendingIn(r) = PendingIn(q) /\ HeldIn(r) = HeldIn(q) \ {s}
        /\ PendingIn(q) \subseteq 1 .. n /\ HeldIn(q) \subseteq 1 .. n
    BY <1>3, <1>4 DEF PendingIn, HeldIn
  <1>6. BytesReach(m, r, a)
    <2>1. \A k \in PendingIn(q) : /\ r[k].word = q[k].word /\ r[k].wstrb = q[k].wstrb
                                  /\ r[k].wdata = q[k].wdata
      BY <1>4, <1>5
    <2>2. ASSUME NEW w \in MemWords, NEW b \in Lanes
          PROVE  IsLast(m, r, PendingIn(r), w, b, a[w][b])
      <3> DEFINE T == {k \in PendingIn(q) : q[k].word = w /\ b \in q[k].wstrb}
                 U == {k \in PendingIn(r) : r[k].word = w /\ b \in r[k].wstrb}
      <3>1. U = T
        BY <1>5, <2>1
      <3>2. IsLast(m, q, PendingIn(q), w, b, a[w][b])
        BY DEF BytesReach
      <3>3. CASE T = {}
        BY <3>1, <3>2, <3>3 DEF IsLast
      <3>4. CASE T # {}
        <4>1. PICK k \in T : a[w][b] = q[k].wdata[b] /\ \A l \in T : l <= k
          BY <3>2, <3>4 DEF IsLast
        <4>2. a[w][b] = r[k].wdata[b] /\ k \in U /\ \A l \in U : l <= k
          BY <2>1, <3>1, <4>1
        <4> QED
          BY <4>2 DEF IsLast
      <3> QED
        BY <3>3, <3>4
    <2> QED
      BY <2>2 DEF BytesReach
  <1>7. ASSUME NEW x \in HeldIn(r), NEW b \in r[x].wstrb,
               \A t \in HeldIn(r) : x < t /\ r[t].word = r[x].word => b \notin r[t].wstrb
        PROVE  a[r[x].word][b] = r[x].wdata[b]
    <2>1. x \in HeldIn(q) /\ x # s /\ x \in 1 .. n
      BY <1>5
    <2>2. ASSUME NEW t \in HeldIn(q), x < t, q[t].word = q[x].word
          PROVE  b \notin q[t].wstrb
      <3>1. t \in 1 .. n
        BY <1>5
      <3>2. CASE t = s
        <4>1. x \in 1 .. s - 1 /\ q[x].word = q[s].word
          BY <1>1, <2>1, <2>2, <3>2
        <4>2. q[x].st = "free"
          BY <4>1
        <4> QED
          BY <2>1, <4>2 DEF HeldIn
      <3>3. CASE t # s
        BY <1>4, <1>5, <1>7, <2>1, <2>2, <3>1, <3>3
      <3> QED
        BY <3>2, <3>3
    <2>3. b \in q[x].wstrb
      BY <1>4, <1>7, <2>1
    <2>4. a[q[x].word][b] = q[x].wdata[b]
      BY <2>1, <2>2, <2>3 DEF BufferIsNewest
    <2> QED
      BY <1>4, <2>1, <2>4
  <1>8. QED
    BY <1>6, <1>7 DEF BufferIsNewest

(* The free entries at the head leave.                                     *)
LEMMA HolesLeave ==
  ASSUME NEW m, NEW q, NEW r, NEW a, NEW h \in Nat,
         Len(q) \in Nat, h <= Len(q), Len(r) = Len(q) - h,
         \A k \in 1 .. h : q[k].st = "free",
         \A k \in 1 .. Len(q) - h : r[k] = q[k + h],
         BytesReach(m, q, a), BufferIsNewest(q, a)
  PROVE  BytesReach(m, r, a) /\ BufferIsNewest(r, a)
  <1> DEFINE n == Len(q)
  <1>1. /\ \A k \in PendingIn(r) : k \in 1 .. n - h /\ k + h \in PendingIn(q) /\ r[k] = q[k + h]
        /\ \A k \in HeldIn(r) : k \in 1 .. n - h /\ k + h \in HeldIn(q) /\ r[k] = q[k + h]
    <2>1. \A k \in 1 .. n - h : k + h \in 1 .. n
      OBVIOUS
    <2> QED
      BY <2>1 DEF PendingIn, HeldIn
  <1>2. /\ \A k \in PendingIn(q) : k - h \in PendingIn(r) /\ (k - h) + h = k /\ k \in Nat
        /\ \A k \in HeldIn(q) : k - h \in HeldIn(r) /\ (k - h) + h = k /\ k \in Nat
    <2>1. \A k \in 1 .. n : q[k].st # "free" => k - h \in 1 .. n - h /\ (k - h) + h = k
      OBVIOUS
    <2> QED
      BY <2>1 DEF PendingIn, HeldIn
  <1>3. ASSUME NEW w \in MemWords, NEW b \in Lanes
        PROVE  IsLast(m, r, PendingIn(r), w, b, a[w][b])
    <2> DEFINE T == {k \in PendingIn(q) : q[k].word = w /\ b \in q[k].wstrb}
               U == {k \in PendingIn(r) : r[k].word = w /\ b \in r[k].wstrb}
    <2>1. IsLast(m, q, PendingIn(q), w, b, a[w][b])
      BY DEF BytesReach
    <2>2. \A k \in T : k - h \in U /\ r[k - h] = q[k] /\ k \in Nat
      BY <1>1, <1>2
    <2>3. \A k \in U : k + h \in T /\ k \in Nat
      BY <1>1
    <2>4. CASE T = {}
      BY <2>1, <2>3, <2>4 DEF IsLast
    <2>5. CASE T # {}
      <3>1. PICK k \in T : a[w][b] = q[k].wdata[b] /\ \A l \in T : l <= k
        BY <2>1, <2>5 DEF IsLast
      <3>2. k - h \in U /\ a[w][b] = r[k - h].wdata[b]
        BY <2>2, <3>1
      <3>3. \A l \in U : l <= k - h
        BY <2>2, <2>3, <3>1
      <3> QED
        BY <3>2, <3>3 DEF IsLast
    <2> QED
      BY <2>4, <2>5
  <1>4. ASSUME NEW x \in HeldIn(r), NEW b \in r[x].wstrb,
               \A t \in HeldIn(r) : x < t /\ r[t].word = r[x].word => b \notin r[t].wstrb
        PROVE  a[r[x].word][b] = r[x].wdata[b]
    <2>1. x + h \in HeldIn(q) /\ r[x] = q[x + h] /\ x \in Nat
      BY <1>1
    <2>2. ASSUME NEW t \in HeldIn(q), x + h < t, q[t].word = q[x + h].word
          PROVE  b \notin q[t].wstrb
      <3>1. t - h \in HeldIn(r) /\ (t - h) + h = t /\ x < t - h
        BY <1>2, <2>1, <2>2
      <3>2. r[t - h] = q[t]
        BY <1>1, <3>1
      <3> QED
        BY <1>4, <2>1, <2>2, <3>1, <3>2
    <2> QED
      BY <1>4, <2>1, <2>2 DEF BufferIsNewest
  <1>5. QED
    BY <1>3, <1>4 DEF BytesReach, BufferIsNewest

(* The bytes loads wait for stay unwritten when no store is added.         *)
LEMMA PartFewerPending ==
  ASSUME NEW l, NEW q, NEW p, NEW a, NEW i,
         PartIsRight(l, q, a, i),
         \A s \in PendingIn(p) : \E t \in PendingIn(q) :
            q[t].word = p[s].word /\ q[t].wstrb = p[s].wstrb
  PROVE  PartIsRight(l, p, a, i)
  <1>1. \A w, b : (\A s \in PendingIn(q) : ~(q[s].word = w /\ b \in q[s].wstrb))
                     => (\A s \in PendingIn(p) : ~(p[s].word = w /\ b \in p[s].wstrb))
    OBVIOUS
  <1>2. QED
    BY <1>1 DEF PartIsRight, ByteIsRight

LEMMA EnqueueStoreInv ==
  ASSUME SfInv, NEW i \in DOMAIN lsq, EnqueueStore(i)
  PROVE  SfInv'
  <1> DEFINE e == lsq[i]
             d == [word |-> e.word, wdata |-> StoreWdata(e),
                   wstrb |-> AccessMask(e.acc), st |-> "pending"]
  <1>0. SfTypes /\ SfTypeOK
    BY DEF SfInv
  <1>1. /\ i \in 1 .. Len(lsq) /\ e \in Entries /\ e.acc \in Accesses
        /\ lsq \in Seq(Entries) /\ Len(lsq) \in Nat /\ DOMAIN lsq = 1 .. Len(lsq)
        /\ sb \in Seq(Stores) /\ Len(sb) \in Nat
    BY <1>0, Shapes DEF SfTypes, Entries
  <1>2. /\ ~e.acc.load /\ e.addr_ready /\ e.data_ready
        /\ \A j \in 1 .. i - 1 : lsq[j].st = "done"
        /\ Len(sb) < SbDepth /\ sb' = Append(sb, d) /\ lsq' = RemoveAt(lsq, i)
        /\ arch' = WriteMasked(arch, ProgramStore(e))
        /\ UNCHANGED <<store_forwarding, next_inst_id, mem>>
    BY DEF EnqueueStore
  <1>3. e.word \in MemWords /\ e.acc.low \in Lanes
    BY <1>0, <1>1, <1>2, MaskIsAccess DEF SfTypes
  <1>4. /\ d \in Stores /\ d.st = "pending" /\ d.word = e.word /\ d.wstrb = AccessMask(e.acc)
        /\ \A b \in AccessMask(e.acc) : d.wdata[b] = DataByte(e.id, b - e.acc.low)
    <2>1. AccessMask(e.acc) \in SUBSET Lanes /\ StoreWdata(e) \in [Lanes -> Int \ {NoByte}]
      BY <1>1, MaskIsAccess, StoreWdataIs
    <2>2. \A b \in AccessMask(e.acc) : StoreWdata(e)[b] = DataByte(e.id, b - e.acc.low)
      BY <1>1, <1>2, StoreWdataIs
    <2> QED
      BY <1>3, <2>1, <2>2 DEF Stores
  <1> HIDE DEF d
  <1>5. /\ arch' \in Memory
        /\ \A w \in MemWords, b \in Lanes :
              arch'[w][b] = IF w = d.word /\ b \in d.wstrb THEN d.wdata[b] ELSE arch[w][b]
    <2> DEFINE p == ProgramStore(e)
    <2>1. /\ p.word = e.word /\ p.wstrb = AccessMask(e.acc) /\ p.wstrb \in SUBSET Lanes
          /\ p.wdata \in Words
          /\ \A b \in AccessMask(e.acc) : p.wdata[b] = DataByte(e.id, b - e.acc.low)
      BY <1>1, ProgramStoreIs DEF Words
    <2> HIDE DEF p
    <2>2. arch \in Memory
      BY <1>0 DEF SfTypes
    <2>3. /\ WriteMasked(arch, p) \in Memory
          /\ \A w \in MemWords, b \in Lanes :
               WriteMasked(arch, p)[w][b] = IF w = p.word /\ b \in p.wstrb THEN p.wdata[b]
                                                                           ELSE arch[w][b]
      BY <1>3, <2>1, <2>2, WriteMaskedIs
    <2>4. arch' = WriteMasked(arch, p)
      BY <1>2 DEF p
    <2> QED
      BY <1>4, <2>1, <2>3, <2>4
  <1>6. /\ lsq' \in Seq(Entries) /\ Len(lsq') = Len(lsq) - 1
        /\ \A j \in 1 .. Len(lsq) - 1 : lsq'[j] = IF j < i THEN lsq[j] ELSE lsq[j + 1]
    BY <1>1, <1>2, RemoveAtIs
  <1>7. /\ QueueInOrder'
        /\ \A j \in 1 .. Len(lsq') : lsq'[j].addr_ready => lsq'[j].word \in MemWords
        /\ Len(lsq') <= LsqSize /\ DOMAIN lsq' = 1 .. Len(lsq) - 1
        /\ \A j \in DOMAIN lsq' : /\ lsq'[j].st \in {"waiting", "memory", "done"}
                                  /\ lsq'[j].st # "waiting" => lsq'[j].acc.load /\ lsq'[j].addr_ready
        /\ \A j, k \in DOMAIN lsq' : j < k => lsq'[j].id < lsq'[k].id
    BY <1>1, <1>2, <1>6, QueueAfterRemoval
  <1>8. /\ sb' \in Seq(Stores) /\ Len(sb') = Len(sb) + 1
        /\ \A s \in 1 .. Len(sb) : sb'[s] = sb[s]
        /\ sb'[Len(sb) + 1] = d
    BY <1>1, <1>2, <1>4, AppendProperties
  <1>9. BytesReach(mem, Append(sb, d), arch') /\ BufferIsNewest(Append(sb, d), arch')
    <2>1. BytesReach(mem, sb, arch) /\ BufferIsNewest(sb, arch)
      BY DEF SfInv
    <2>2. sb \in Seq(Stores) /\ d \in Stores /\ d.st = "pending"
      BY <1>1, <1>4
    <2>3. \A w \in MemWords, b \in Lanes :
             arch'[w][b] = IF w = d.word /\ b \in d.wstrb THEN d.wdata[b] ELSE arch[w][b]
      BY <1>5
    <2>4. BytesReach(mem, Append(sb, d), arch')
      BY <2>1, <2>2, <2>3, StoreEnters
    <2>5. BufferIsNewest(Append(sb, d), arch')
      BY <2>1, <2>2, <2>3, StoreEnters
    <2> QED
      BY <2>4, <2>5
  <1>10. SfTypes'
    BY <1>0, <1>2, <1>5, <1>6, <1>7, <1>8 DEF SfTypes
  <1>11. SfTypeOK'
    <2>1. Len(sb') <= SbDepth
      BY <1>1, <1>2, <1>8, StoreForwardingAssumption
    <2>2. Head(sb').st # "free"
      <3>1. CASE sb = <<>>
        <4>1. Head(sb') = d
          BY <1>1, <1>2, <1>4, <3>1, HeadTailAppend
        <4> QED
          BY <1>4, <4>1
      <3>2. CASE sb # <<>>
        <4>1. Head(sb') = Head(sb)
          BY <1>1, <1>2, <1>4, <3>2, HeadTailAppend
        <4> QED
          BY <1>0, <3>2, <4>1 DEF SfTypeOK
      <3> QED
        BY <3>1, <3>2
    <2> QED
      BY <1>7, <2>1, <2>2 DEF SfTypeOK
  <1>12. BytesReach(mem, sb, arch)' /\ BufferIsNewest(sb, arch)'
    BY <1>2, <1>9
  <1>13. ASSUME NEW x \in 1 .. Len(lsq'), lsq'[x].st = "memory"
         PROVE  PartIsRight(lsq', sb', arch', x)
    <2> DEFINE k == x + 1
    <2>1. ~(x < i)
      <3>1. SUFFICES ASSUME x < i PROVE FALSE
        OBVIOUS
      <3>2. x \in 1 .. i - 1 /\ lsq'[x] = lsq[x]
        BY <1>1, <1>6, <3>1
      <3> QED
        BY <1>2, <1>13, <3>2
    <2>2. /\ k \in 1 .. Len(lsq) /\ k \in Nat /\ i \in 1 .. k - 1 /\ k - 1 = x
          /\ \A j \in 1 .. k - 1 : j \in 1 .. Len(lsq) - 1
      BY <1>1, <1>6, <2>1
    <2>3. lsq'[x] = lsq[k]
      BY <1>6, <2>1, <2>2
    <2> HIDE DEF k
    <2>4. PartIsRight(lsq, sb, arch, k)
      BY <1>13, <2>2, <2>3 DEF SfInv, PartsAreRight
    <2>5. \A j \in 1 .. k - 1 : lsq'[j] = IF j < i THEN lsq[j] ELSE lsq[j + 1]
      BY <1>6, <2>2
    <2>6. ASSUME NEW b \in AccessMask(lsq[k].acc)
          PROVE  \/ ~Writes(lsq[i], lsq[k].word, b) /\ arch'[lsq[k].word][b] = arch[lsq[k].word][b]
                 \/ /\ Writes(lsq[i], lsq[k].word, b)
                    /\ arch'[lsq[k].word][b] = DataByte(lsq[i].id, b - lsq[i].acc.low)
                    /\ \A j \in 1 .. i - 1 : ~Writes(lsq[j], lsq[k].word, b)
      <3>1. lsq[k] \in Entries /\ lsq[k].acc \in Accesses
        BY <1>0, <2>2, Shapes DEF Entries
      <3>2. lsq[k].word \in MemWords /\ b \in Lanes
        <4>1. lsq[k].addr_ready
          BY <1>0, <1>1, <1>13, <2>2, <2>3 DEF SfTypeOK
        <4> QED
          BY <1>0, <2>2, <3>1, <4>1, MaskIsAccess DEF SfTypes
      <3>3. \A j \in 1 .. i - 1 : lsq[j].acc.load
        BY <1>0, <1>1, <1>2 DEF SfTypeOK
      <3>4. Writes(lsq[i], lsq[k].word, b) <=> lsq[k].word = d.word /\ b \in d.wstrb
        BY <1>2, <1>4 DEF Writes
      <3> QED
        BY <1>4, <1>5, <3>2, <3>3, <3>4 DEF Writes
    <2>7. ASSUME NEW s \in PendingIn(sb'), NEW b \in sb'[s].wstrb
          PROVE  \/ Writes(lsq[i], sb'[s].word, b)
                 \/ \E t \in PendingIn(sb) : sb[t].word = sb'[s].word /\ b \in sb[t].wstrb
      <3>1. CASE s = Len(sb) + 1
        BY <1>2, <1>4, <1>8, <2>7, <3>1 DEF Writes
      <3>2. CASE s \in PendingIn(sb)
        <4>1. sb'[s] = sb[s]
          BY <1>8, <3>2 DEF PendingIn
        <4> QED
          BY <2>7, <3>2, <4>1
      <3>3. s \in 1 .. Len(sb) + 1 /\ sb'[s].st = "pending"
        BY <1>8 DEF PendingIn
      <3>4. s = Len(sb) + 1 \/ s \in PendingIn(sb)
        BY <1>1, <1>8, <3>3 DEF PendingIn
      <3> QED
        BY <3>1, <3>2, <3>4
    <2>8. PartIsRight(lsq', sb', arch', k - 1)
      BY <2>2, <2>4, <2>5, <2>6, <2>7, PartAfterRemoval
    <2> QED
      BY <2>2, <2>8
  <1>14. PartsAreRight'
    BY <1>13 DEF PartsAreRight
  <1>15. QED
    BY <1>7, <1>10, <1>11, <1>12, <1>14 DEF SfInv

LEMMA WriteStoreInv ==
  ASSUME SfInv, NEW s \in DOMAIN sb, WriteStore(s)
  PROVE  SfInv'
  <1>0. SfTypes /\ SfTypeOK
    BY DEF SfInv
  <1>1. s \in 1 .. Len(sb) /\ sb \in Seq(Stores) /\ mem \in Memory /\ Len(sb) \in Nat
    BY <1>0, Shapes DEF SfTypes
  <1>2. /\ sb[s].st = "pending"
        /\ \A k \in 1 .. s - 1 : sb[k].word = sb[s].word => sb[k].st # "pending"
        /\ mem' = WriteMasked(mem, sb[s]) /\ sb' = [sb EXCEPT ![s].st = "written"]
        /\ UNCHANGED <<store_forwarding, lsq, next_inst_id, arch>>
    BY DEF WriteStore, FirstOfWord
  <1>3. BytesReach(mem, sb, arch) /\ BufferIsNewest(sb, arch)
    BY DEF SfInv
  <1>4. /\ sb' \in Seq(Stores) /\ Len(sb') = Len(sb)
        /\ \A k \in 1 .. Len(sb) : /\ sb'[k].word = sb[k].word /\ sb'[k].wstrb = sb[k].wstrb
                                   /\ sb'[k].st = IF k = s THEN "written" ELSE sb[k].st
        /\ mem' \in Memory
        /\ BytesReach(mem', sb', arch) /\ BufferIsNewest(sb', arch)
    <2> DEFINE r == [sb EXCEPT ![s].st = "written"]
    <2>1. /\ mem \in Memory /\ sb \in Seq(Stores) /\ s \in 1 .. Len(sb)
          /\ sb[s].st = "pending"
          /\ \A k \in 1 .. s - 1 : sb[k].word = sb[s].word => sb[k].st # "pending"
      BY <1>1, <1>2
    <2>2. r \in Seq(Stores)
      BY <2>1, ChangedStaysSeq
    <2>5. Len(r) = Len(sb)
      BY <2>1, StateChanges
    <2>4. \A k \in 1 .. Len(sb) : /\ r[k].word = sb[k].word /\ r[k].wstrb = sb[k].wstrb
                                  /\ r[k].st = IF k = s THEN "written" ELSE sb[k].st
      BY <2>1, StateChanges
    <2>7. WriteMasked(mem, sb[s]) \in Memory
      BY <1>3, <2>1, StoreReachesMemory
    <2>8. BytesReach(WriteMasked(mem, sb[s]), r, arch)
      BY <1>3, <2>1, StoreReachesMemory
    <2>9. BufferIsNewest(r, arch)
      BY <1>3, <2>1, StoreReachesMemory
    <2>3. sb' = r /\ mem' = WriteMasked(mem, sb[s])
      BY <1>2
    <2> HIDE DEF r
    <2> QED
      BY <2>2, <2>3, <2>4, <2>5, <2>7, <2>8, <2>9
  <1>5. SfTypes'
    BY <1>0, <1>2, <1>4 DEF SfTypes
  <1>6. SfTypeOK'
    <2>1. sb # <<>> /\ sb' # <<>>
      BY <1>1, <1>4, EmptySeq
    <2>2. Head(sb).st # "free"
      BY <1>0, <2>1 DEF SfTypeOK
    <2>3. Head(sb') = sb'[1] /\ Head(sb) = sb[1]
      BY <1>1, <1>4, <2>1
    <2>4. Head(sb').st # "free"
      BY <1>1, <1>4, <2>2, <2>3
    <2> QED
      BY <1>0, <1>2, <1>4, <2>4 DEF SfTypeOK
  <1>7. QueueInOrder'
    BY <1>2 DEF SfInv, QueueInOrder
  <1>8. ASSUME NEW k \in 1 .. Len(lsq), lsq[k].st = "memory"
        PROVE  PartIsRight(lsq, sb', arch, k)
    <2>1. PartIsRight(lsq, sb, arch, k)
      BY <1>8 DEF SfInv, PartsAreRight
    <2>2. \A x \in PendingIn(sb') : x \in PendingIn(sb) /\ sb[x].word = sb'[x].word
                                    /\ sb[x].wstrb = sb'[x].wstrb
      BY <1>4 DEF PendingIn
    <2> QED
      BY <2>1, <2>2, PartFewerPending
  <1>9. PartsAreRight'
    BY <1>2, <1>8 DEF PartsAreRight
  <1>10. QED
    BY <1>2, <1>4, <1>5, <1>6, <1>7, <1>9 DEF SfInv

LEMMA FreeStoreInv ==
  ASSUME SfInv, NEW s \in DOMAIN sb, FreeStore(s)
  PROVE  SfInv'
  <1> DEFINE r == [sb EXCEPT ![s].st = "free"]
  <1>0. SfTypes /\ SfTypeOK
    BY DEF SfInv
  <1>1. /\ s \in 1 .. Len(sb) /\ sb \in Seq(Stores) /\ Len(sb) \in Nat
        /\ \A k \in 1 .. Len(sb) : sb[k] \in Stores
    BY <1>0, Shapes DEF SfTypes
  <1>2. /\ sb[s].st = "written"
        /\ \A k \in 1 .. s - 1 : sb[k].word = sb[s].word => sb[k].st \notin {"pending", "written"}
        /\ sb' = WithoutHoles(r)
        /\ UNCHANGED <<store_forwarding, lsq, next_inst_id, mem, arch>>
    BY DEF FreeStore, FirstOfWord
  <1>3. \A k \in 1 .. s - 1 : sb[k].word = sb[s].word => sb[k].st = "free"
    <2>1. \A k \in 1 .. s - 1 : k \in 1 .. Len(sb)
      BY <1>1
    <2> QED
      BY <1>1, <1>2, <2>1 DEF Stores
  <1>4. BytesReach(mem, sb, arch) /\ BufferIsNewest(sb, arch)
    BY DEF SfInv
  <1>5. /\ r \in Seq(Stores) /\ Len(r) = Len(sb)
        /\ \A k \in 1 .. Len(sb) : /\ r[k].word = sb[k].word /\ r[k].wstrb = sb[k].wstrb
                                   /\ r[k].st = IF k = s THEN "free" ELSE sb[k].st
        /\ BytesReach(mem, r, arch) /\ BufferIsNewest(r, arch)
    <2>1. r \in Seq(Stores)
      BY <1>1, ChangedStaysSeq
    <2>5. Len(r) = Len(sb)
      BY <1>1, StateChanges
    <2>2. \A k \in 1 .. Len(sb) : /\ r[k].word = sb[k].word /\ r[k].wstrb = sb[k].wstrb
                                  /\ r[k].st = IF k = s THEN "free" ELSE sb[k].st
      BY <1>1, StateChanges
    <2>3. BytesReach(mem, r, arch)
      BY <1>1, <1>2, <1>3, <1>4, StoreIsFreed
    <2>4. BufferIsNewest(r, arch)
      BY <1>1, <1>2, <1>3, <1>4, StoreIsFreed
    <2> HIDE DEF r
    <2> QED
      BY <2>1, <2>2, <2>3, <2>4, <2>5
  <1> HIDE DEF r
  <1>6. PICK h \in 0 .. Len(r) :
           /\ sb' \in Seq(Stores) /\ Len(sb') = Len(r) - h
           /\ \A k \in 1 .. h : r[k].st = "free"
           /\ \A k \in 1 .. Len(r) - h : sb'[k] = r[k + h]
           /\ h < Len(r) => r[h + 1].st # "free"
    BY <1>2, <1>5, WithoutHolesIs
  <1>7. /\ BytesReach(mem, sb', arch) /\ BufferIsNewest(sb', arch)
        /\ \A k \in PendingIn(sb') : k + h \in PendingIn(r) /\ sb'[k] = r[k + h]
    <2>1. h \in Nat /\ h <= Len(r) /\ Len(r) \in Nat
      BY <1>1, <1>5, <1>6
    <2>2. /\ h \in Nat /\ Len(r) \in Nat /\ h <= Len(r) /\ Len(sb') = Len(r) - h
          /\ \A k \in 1 .. h : r[k].st = "free"
          /\ \A k \in 1 .. Len(r) - h : sb'[k] = r[k + h]
          /\ BytesReach(mem, r, arch) /\ BufferIsNewest(r, arch)
      BY <1>5, <1>6, <2>1
    <2>3. BytesReach(mem, sb', arch)
      BY <2>2, HolesLeave
    <2>4. BufferIsNewest(sb', arch)
      BY <2>2, HolesLeave
    <2>5. \A k \in PendingIn(sb') : k + h \in PendingIn(r) /\ sb'[k] = r[k + h]
      <3>1. \A k \in 1 .. Len(r) - h : k + h \in 1 .. Len(r)
        BY <2>2
      <3> QED
        BY <2>2, <3>1 DEF PendingIn
    <2> QED
      BY <2>3, <2>4, <2>5
  <1>8. SfTypes'
    BY <1>0, <1>2, <1>6 DEF SfTypes
  <1>9. SfTypeOK'
    <2>1. Len(sb') <= SbDepth
      BY <1>0, <1>1, <1>5, <1>6, StoreForwardingAssumption DEF SfTypeOK
    <2>2. ASSUME sb' # <<>> PROVE Head(sb').st # "free"
      <3>1. Len(sb') \in Nat \ {0}
        BY <1>6, <2>2, EmptySeq
      <3>2. h < Len(r) /\ 1 \in 1 .. Len(r) - h /\ 1 + h = h + 1
        BY <1>1, <1>5, <1>6, <3>1
      <3>3. sb'[1] = r[h + 1] /\ Head(sb') = sb'[1]
        BY <1>6, <2>2, <3>2
      <3> QED
        BY <1>6, <3>2, <3>3
    <2> QED
      BY <1>0, <1>2, <2>1, <2>2 DEF SfTypeOK
  <1>10. QueueInOrder'
    BY <1>2 DEF SfInv, QueueInOrder
  <1>11. ASSUME NEW k \in 1 .. Len(lsq), lsq[k].st = "memory"
         PROVE  PartIsRight(lsq, sb', arch, k)
    <2>1. PartIsRight(lsq, sb, arch, k)
      BY <1>11 DEF SfInv, PartsAreRight
    <2>2. \A x \in PendingIn(sb') : x + h \in PendingIn(sb) /\ sb[x + h].word = sb'[x].word
                                    /\ sb[x + h].wstrb = sb'[x].wstrb
      BY <1>5, <1>7 DEF PendingIn
    <2> QED
      BY <2>1, <2>2, PartFewerPending
  <1>12. PartsAreRight'
    BY <1>2, <1>11 DEF PartsAreRight
  <1>13. QED
    BY <1>2, <1>7, <1>8, <1>9, <1>10, <1>12 DEF SfInv

-------------------------------------------------------------------------------
(* The theorems.                                                           *)

LEMMA SfNextInv == SfInv /\ [SfNext]_sfVars => SfInv'
  <1> SUFFICES ASSUME SfInv, [SfNext]_sfVars PROVE SfInv'
    OBVIOUS
  <1>1. CASE UNCHANGED sfVars
    BY <1>1 DEF sfVars, SfInv, SfTypes, SfTypeOK, QueueInOrder, PartsAreRight
  <1>2. CASE \E a \in Accesses : Allocate(a)
    BY <1>2, AllocateInv
  <1>3. CASE \E i \in DOMAIN lsq, w \in MemWords : SetAddress(i, w)
    BY <1>3, OperandsInv
  <1>4. CASE \E i \in DOMAIN lsq : SetStoreData(i)
    BY <1>4, OperandsInv
  <1>5. CASE \E i \in DOMAIN lsq : DispatchLoad(i)
    BY <1>5, DispatchLoadInv
  <1>6. CASE \E i \in DOMAIN lsq : FinishLoad(i)
    BY <1>6, FinishLoadInv
  <1>7. CASE \E i \in DOMAIN lsq : EnqueueStore(i)
    BY <1>7, EnqueueStoreInv
  <1>8. CASE FreeLoad
    BY <1>8, FreeLoadInv
  <1>9. CASE \E i \in DOMAIN lsq : SquashFrom(i)
    BY <1>9, SquashFromInv
  <1>10. CASE \E s \in DOMAIN sb : WriteStore(s)
    BY <1>10, WriteStoreInv
  <1>11. CASE \E s \in DOMAIN sb : FreeStore(s)
    BY <1>11, FreeStoreInv
  <1>12. QED
    BY <1>1, <1>2, <1>3, <1>4, <1>5, <1>6, <1>7, <1>8, <1>9, <1>10, <1>11 DEF SfNext

LEMMA SfInvariant == SfSpec => []SfInv
  BY SfInitInv, SfNextInv, PTL DEF SfSpec

(* The queue is in program order and within its size, only loads with an   *)
(* address are under way, and the buffer starts with a store it holds.     *)
THEOREM ForwardingTypes == SfSpec => []SfTypeOK
  <1>1. SfInv => SfTypeOK
    BY DEF SfInv
  <1>2. QED
    BY <1>1, SfInvariant, PTL

(* For every set of accesses and every size: memory with what waits in the *)
(* store buffer is the memory of the program's order (loadStoreQueue's     *)
(* tick and memWriteMasked lose no byte and overwrite none).               *)
THEOREM MemoryFollowsProgram == SfSpec => []StoresReachMemory
  <1>1. ASSUME SfInv PROVE StoresReachMemory
    <2> DEFINE P == {s \in DOMAIN sb : sb[s].st = "pending"}
               m == Overwritten(mem, sb, P)
    <2>0. SfTypes
      BY <1>1 DEF SfInv
    <2>1. /\ Len(sb) \in Nat /\ DOMAIN sb = 1 .. Len(sb) /\ mem \in Memory /\ arch \in Memory
          /\ \A s \in 1 .. Len(sb) : sb[s] \in Stores
      BY <2>0, Shapes DEF SfTypes
    <2>2. P = PendingIn(sb) /\ P \subseteq 1 .. Len(sb) /\ P \in SUBSET Nat
      BY <2>1 DEF PendingIn
    <2>3. \A s \in P : /\ sb[s].word \in MemWords /\ sb[s].wdata \in Words
                       /\ sb[s].wstrb \in SUBSET Lanes
      BY <2>1, <2>2 DEF Stores, Words
    <2> HIDE DEF P
    <2>4. /\ m \in Memory
          /\ \A w \in MemWords, b \in Lanes : IsLast(mem, sb, P, w, b, m[w][b])
      BY <2>1, <2>2, <2>3, OverwrittenIsLast
    <2> HIDE DEF m
    <2>5. \A w \in MemWords, b \in Lanes : IsLast(mem, sb, P, w, b, arch[w][b])
      BY <1>1, <2>2 DEF SfInv, BytesReach
    <2>6. \A w \in MemWords, b \in Lanes : m[w][b] = arch[w][b]
      BY <2>2, <2>4, <2>5, LastIsUnique
    <2>7. m = arch
      BY <2>1, <2>4, <2>6 DEF Memory, Words
    <2> QED
      BY <2>7 DEF StoresReachMemory, m, P
  <1>2. QED
    BY <1>1, SfInvariant, PTL

(* For every set of accesses and every size: a load that gets its value    *)
(* gets the bytes that the older stores and memory hold in program order,  *)
(* whether dispatchLoad forwards them all or memory answers some later.    *)
THEOREM LoadsFollowProgram == SfSpec => LoadsSeeOlderStores
  <1> DEFINE Gets(i) == (lsq[i].id = lsq'[i].id /\ lsq[i].st # "done" /\ lsq'[i].st = "done")
                          => lsq'[i].bytes = Expected(i)
  <1>1. ASSUME SfInv, [SfNext]_sfVars, NEW i \in DOMAIN lsq \cap DOMAIN lsq',
               lsq[i].id = lsq'[i].id, lsq[i].st # "done", lsq'[i].st = "done"
        PROVE  lsq'[i].bytes = Expected(i)
    <2>0. SfTypes /\ SfTypeOK /\ QueueInOrder
      BY <1>1 DEF SfInv
    <2>1. /\ i \in 1 .. Len(lsq) /\ Len(lsq) \in Nat /\ DOMAIN lsq = 1 .. Len(lsq)
          /\ lsq \in Seq(Entries)
          /\ \A j \in 1 .. Len(lsq) : lsq[j] \in Entries
          /\ lsq \in [1 .. Len(lsq) -> Entries]
      BY <2>0, Shapes DEF SfTypes
    <2>2. \A j \in 1 .. Len(lsq) : j # i => lsq[j].id # lsq[i].id
      <3>1. \A j \in 1 .. Len(lsq) : lsq[j].id \in Nat
        BY <2>1 DEF Entries
      <3> QED
        BY <2>0, <2>1, <3>1 DEF QueueInOrder
    <2>3. lsq'[i] # lsq[i]
      BY <1>1
    <2>4. CASE \E k \in DOMAIN lsq : DispatchLoad(k)
      <3>1. PICK k \in DOMAIN lsq : DispatchLoad(k)
        BY <2>4
      <3>2. k = i /\ lsq'[i].bytes = LoadExtend(Forward(i), lsq[i].acc)
            /\ AccessMask(lsq[i].acc) \subseteq {b \in Lanes : Forward(i)[b] # NoByte}
            /\ lsq[i].addr_ready /\ MayStart(i)
        <4> DEFINE all == AccessMask(lsq[k].acc) \subseteq {b \in Lanes : Forward(k)[b] # NoByte}
        <4>1. /\ all => lsq' = [lsq EXCEPT ![k].st = "done",
                                           ![k].bytes = LoadExtend(Forward(k), lsq[k].acc)]
              /\ ~all => lsq' = [lsq EXCEPT ![k].st = "memory", ![k].bytes = Forward(k)]
              /\ lsq[k].addr_ready /\ MayStart(k)
          BY <3>1 DEF DispatchLoad
        <4> HIDE DEF all
        <4>2. k = i
          BY <2>1, <2>3, <4>1
        <4>3. lsq[i] \in Entries
          BY <2>1
        <4>4. all
          BY <1>1, <2>1, <4>1, <4>2, <4>3 DEF Entries
        <4>5. lsq'[i].bytes = LoadExtend(Forward(i), lsq[i].acc)
          BY <2>1, <4>1, <4>2, <4>3, <4>4 DEF Entries
        <4> QED
          BY <4>1, <4>2, <4>4, <4>5 DEF all
      <3>3. /\ Forward(i) \in Words
            /\ \A j \in 1 .. i - 1 : ~lsq[j].acc.load => lsq[j].addr_ready
            /\ \A b \in AccessMask(lsq[i].acc) :
                  ByteIsRight(lsq, sb, arch, i, lsq[i].word, b, Forward(i)[b])
        BY <1>1, <2>1, <3>2, ForwardIsRight
      <3>4. \A b \in AccessMask(lsq[i].acc) :
               IsByteFor(lsq, arch, i, lsq[i].word, b, Forward(i)[b])
        BY <3>2, <3>3 DEF ByteIsRight
      <3>5. lsq[i].word \in MemWords
        BY <2>0, <2>1, <3>2 DEF SfTypes
      <3> QED
        BY <1>1, <2>1, <3>2, <3>3, <3>4, <3>5, RightBytesAreExpected
    <2>5. CASE \E k \in DOMAIN lsq : FinishLoad(k)
      <3>1. PICK k \in DOMAIN lsq : FinishLoad(k)
        BY <2>5
      <3>2. lsq' = [lsq EXCEPT ![k].st = "done",
                               ![k].bytes = LoadExtend(FilledWord(lsq[k]), lsq[k].acc)]
            /\ lsq[k].st = "memory"
        BY <3>1 DEF FinishLoad
      <3>3. k = i
        BY <2>1, <2>3, <3>2
      <3>4. lsq'[i].bytes = LoadExtend(FilledWord(lsq[i]), lsq[i].acc)
        BY <2>1, <3>2, <3>3 DEF Entries
      <3>5. PartIsRight(lsq, sb, arch, i)
        BY <1>1, <2>1, <3>2, <3>3 DEF SfInv, PartsAreRight
      <3>6. \A j \in 1 .. i - 1 : ~lsq[j].acc.load => lsq[j].addr_ready
        BY <3>5 DEF PartIsRight
      <3>7. /\ FilledWord(lsq[i]) \in Words /\ lsq[i].word \in MemWords
            /\ \A b \in AccessMask(lsq[i].acc) :
                  IsByteFor(lsq, arch, i, lsq[i].word, b, FilledWord(lsq[i])[b])
        BY <1>1, <2>1, <3>2, <3>3, FilledIsRight
      <3> QED
        BY <1>1, <2>1, <3>4, <3>6, <3>7, RightBytesAreExpected
    <2>6. CASE \E k \in DOMAIN lsq : (\E w \in MemWords : SetAddress(k, w)) \/ SetStoreData(k)
      <3>1. PICK k \in DOMAIN lsq : (\E w \in MemWords : SetAddress(k, w)) \/ SetStoreData(k)
        BY <2>6
      <3>2. lsq'[i].st = lsq[i].st
        <4>1. lsq[k] \in Entries /\ lsq[i] \in Entries
          BY <2>1
        <4>2. \/ \E w : lsq' = [lsq EXCEPT ![k].addr_ready = TRUE, ![k].word = w]
              \/ lsq' = [lsq EXCEPT ![k].data_ready = TRUE]
          BY <3>1 DEF SetAddress, SetStoreData
        <4>3. CASE k # i
          BY <2>1, <2>3, <4>2, <4>3
        <4>4. ASSUME k = i, NEW w, lsq' = [lsq EXCEPT ![k].addr_ready = TRUE, ![k].word = w]
              PROVE  lsq'[i].st = lsq[i].st
          BY <2>1, <4>1, <4>4 DEF Entries
        <4>5. ASSUME k = i, lsq' = [lsq EXCEPT ![k].data_ready = TRUE]
              PROVE  lsq'[i].st = lsq[i].st
          BY <2>1, <4>1, <4>5 DEF Entries
        <4> QED
          BY <4>2, <4>3, <4>4, <4>5
      <3> QED
        BY <1>1, <3>2
    <2>7. CASE \E a \in Accesses : Allocate(a)
      <3>1. \E e : lsq' = Append(lsq, e)
        BY <2>7 DEF Allocate
      <3>2. lsq'[i] = lsq[i]
        BY <2>1, <3>1
      <3> QED
        BY <2>3, <3>2
    <2>8. CASE \E k \in DOMAIN lsq : SquashFrom(k)
      <3>1. PICK k \in DOMAIN lsq : lsq' = SubSeq(lsq, 1, k - 1)
        BY <2>8 DEF SquashFrom
      <3>2. \A j \in 1 .. k - 1 : lsq[j] \in Entries
        BY <2>1
      <3>3. /\ lsq' \in Seq(Entries)
            /\ Len(lsq') = IF 1 <= k - 1 THEN (k - 1) - 1 + 1 ELSE 0
            /\ \A j \in 1 .. (k - 1) - 1 + 1 : lsq'[j] = lsq[1 + j - 1]
        BY <2>1, <3>1, <3>2, SubSeqProperties
      <3>4. DOMAIN lsq' = 1 .. Len(lsq')
        BY <3>3, LenProperties
      <3>5. lsq'[i] = lsq[i]
        BY <2>1, <3>3, <3>4
      <3> QED
        BY <2>3, <3>5
    <2>9. CASE FreeLoad \/ \E k \in DOMAIN lsq : EnqueueStore(k)
      <3>1. \E k \in 1 .. Len(lsq) :
               /\ lsq' \in Seq(Entries) /\ Len(lsq') = Len(lsq) - 1
               /\ \A j \in 1 .. Len(lsq) - 1 : lsq'[j] = IF j < k THEN lsq[j] ELSE lsq[j + 1]
        <4>1. CASE FreeLoad
          <5>1. lsq' = Tail(lsq) /\ lsq # <<>>
            BY <4>1 DEF FreeLoad
          <5>2. /\ lsq' \in Seq(Entries) /\ Len(lsq') = Len(lsq) - 1
                /\ \A j \in 1 .. Len(lsq) - 1 : lsq'[j] = lsq[j + 1]
            BY <2>1, <5>1, HeadTailProperties
          <5>3. 1 \in 1 .. Len(lsq) /\ \A j \in 1 .. Len(lsq) - 1 : ~(j < 1)
            BY <2>1
          <5> QED
            BY <5>2, <5>3
        <4>2. ASSUME NEW k \in DOMAIN lsq, EnqueueStore(k)
              PROVE  /\ lsq' \in Seq(Entries) /\ Len(lsq') = Len(lsq) - 1
                     /\ \A j \in 1 .. Len(lsq) - 1 : lsq'[j] = IF j < k THEN lsq[j] ELSE lsq[j + 1]
          BY <2>1, <4>2, RemoveAtIs DEF EnqueueStore
        <4> QED
          BY <2>1, <2>9, <4>1, <4>2
      <3>2. PICK k \in 1 .. Len(lsq) :
               /\ lsq' \in Seq(Entries) /\ Len(lsq') = Len(lsq) - 1
               /\ \A j \in 1 .. Len(lsq) - 1 : lsq'[j] = IF j < k THEN lsq[j] ELSE lsq[j + 1]
        BY <3>1
      <3>3. i \in 1 .. Len(lsq) - 1
        BY <3>2, LenProperties
      <3>4. lsq'[i] = lsq[i + 1] /\ i + 1 \in 1 .. Len(lsq) /\ i + 1 # i
        BY <2>1, <2>3, <3>2, <3>3
      <3> QED
        BY <1>1, <2>2, <3>4
    <2>10. CASE UNCHANGED lsq
      BY <2>3, <2>10
    <2> QED
      BY <1>1, <2>4, <2>5, <2>6, <2>7, <2>8, <2>9, <2>10
         DEF SfNext, sfVars, WriteStore, FreeStore
  <1>2. SfInv /\ [SfNext]_sfVars => [\A i \in DOMAIN lsq \cap DOMAIN lsq' : Gets(i)]_sfVars
    BY <1>1
  <1>3. QED
    BY <1>2, SfInvariant, PTL DEF SfSpec, LoadsSeeOlderStores
===============================================================================
