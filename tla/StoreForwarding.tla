--------------------------- MODULE StoreForwarding ---------------------------
(***************************************************************************)
(* Loads among older stores, by bytes (load_store_queue.cpp): the queue,   *)
(* the committed store buffer and the memory, with accesses of one, two    *)
(* and four bytes.                                                         *)
(*                                                                         *)
(* A byte is a token that says where it comes from: byte k of the data of  *)
(* an instruction, or the byte that was in memory at first.  The queue is  *)
(* the sequence of its valid entries by inst_id, oldest first.  Latencies  *)
(* are choices; with the cached memory system an entry's bytes are written *)
(* before the entry is freed, with the ideal one in the same step.  Stores *)
(* to one word are written and freed in order here: that this is so in the *)
(* cache is what module DataCache is about (and the run store_order shows  *)
(* where it is not).  A trace program's words are the accesses "W".        *)
(***************************************************************************)
EXTENDS Integers, Sequences, FiniteSets, SequencesExt

CONSTANTS MemWords,        \* words of the memory
          Accesses,        \* [load, size, uns, low] of the instructions
          LsqSize,         \* lsq_size
          SbDepth,         \* store_buffer_depth
          MaxOps,          \* bound on the instructions of a behaviour
          ForwardingModes  \* of store_forwarding: subset of BOOLEAN

ASSUME StoreForwardingAssumption ==
  /\ {LsqSize, SbDepth, MaxOps} \subseteq Nat \ {0}
  /\ MemWords \subseteq Nat
  /\ ForwardingModes \subseteq BOOLEAN
  /\ Accesses \subseteq [load : BOOLEAN, size : {"B", "H", "W"}, uns : BOOLEAN, low : 0 .. 3]
  /\ \A a \in Accesses : a.size = "W" => a.low = 0

VARIABLES
  store_forwarding,
  lsq,           \* [id, acc, word, addr_ready, data_ready, st, bytes]
  next_inst_id,
  sb,            \* [word, wdata, wstrb, st], oldest first
  mem,           \* MainMemory: word -> byte lane -> byte
  arch           \* memory as the stores that have retired leave it (ghost)

sfVars == <<store_forwarding, lsq, next_inst_id, sb, mem, arch>>

Lanes      == 0 .. 3
ZeroByte   == -1
NoByte     == -2
DataByte(id, k)   == 10 * id + k
FirstByte(w, b)   == 1000 + 10 * w + b
Sign(byte) == IF byte = ZeroByte THEN ZeroByte ELSE 2000 + byte
NoBytes    == [b \in Lanes |-> NoByte]

SfInit ==
  /\ store_forwarding \in ForwardingModes
  /\ lsq = <<>> /\ sb = <<>>
  /\ next_inst_id = 1
  /\ mem = [w \in MemWords |-> [b \in Lanes |-> FirstByte(w, b)]]
  /\ arch = mem

-------------------------------------------------------------------------------
(* Byte lanes.                                                             *)

(* A halfword at the last byte of a word loses its second byte.            *)
AccessMask_Word(a) == Lanes                                      \* mutant
AccessMask(a) ==
  CASE a.size = "B" -> {a.low}
    [] a.size = "H" -> {a.low, a.low + 1} \cap Lanes
    [] a.size = "W" -> Lanes

(* The data of an entry is 0 until it is set.                              *)
StoreWdata(e) ==
  LET data(k) == IF e.data_ready THEN DataByte(e.id, k) ELSE ZeroByte
  IN  [b \in Lanes |-> IF e.acc.size = "W" THEN data(b)
                       ELSE IF b \in AccessMask(e.acc) THEN data(b - e.acc.low)
                       ELSE ZeroByte]

NumBytes(a) == CASE a.size = "B" -> 1 [] a.size = "H" -> 2 [] a.size = "W" -> 4

LoadExtend(w, a) ==
  LET n == NumBytes(a)
      shifted(k) == IF a.size = "W" THEN w[k]
                    ELSE IF a.low + k \in Lanes THEN w[a.low + k] ELSE ZeroByte
  IN  [k \in Lanes |-> IF k < n THEN shifted(k)
                       ELSE IF a.uns THEN ZeroByte ELSE Sign(shifted(n - 1))]

MergeBytes(base, overlay, mask) ==
  [b \in Lanes |-> IF b \in mask THEN overlay[b] ELSE base[b]]

(* memWriteMasked                                                          *)
WriteMasked(m, store) ==
  [m EXCEPT ![store.word] = MergeBytes(@, store.wdata, store.wstrb)]

-------------------------------------------------------------------------------
(* The queue's entries, filled in from rename and the operands.            *)

Allocate(a) ==
  /\ Len(lsq) < LsqSize
  /\ next_inst_id <= MaxOps
  /\ lsq' = Append(lsq, [id |-> next_inst_id, acc |-> a, word |-> 0,
                         addr_ready |-> FALSE, data_ready |-> FALSE,
                         st |-> "waiting", bytes |-> NoBytes])
  /\ next_inst_id' = next_inst_id + 1
  /\ UNCHANGED <<store_forwarding, sb, mem, arch>>

SetAddress(i, w) ==
  /\ ~lsq[i].addr_ready
  /\ lsq' = [lsq EXCEPT ![i].addr_ready = TRUE, ![i].word = w]
  /\ UNCHANGED <<store_forwarding, next_inst_id, sb, mem, arch>>

SetStoreData(i) ==
  /\ ~lsq[i].acc.load /\ ~lsq[i].data_ready
  /\ lsq' = [lsq EXCEPT ![i].data_ready = TRUE]
  /\ UNCHANGED <<store_forwarding, next_inst_id, sb, mem, arch>>

-------------------------------------------------------------------------------
(* dispatchLoad: each byte from the youngest older store that writes it,   *)
(* in the queue before in the buffer, else from memory.                    *)

QueuedStores(i) == {j \in 1 .. i - 1 : ~lsq[j].acc.load}

Newest(S) == CHOOSE x \in S : \A y \in S : y <= x

QueuedByte(i, b) ==
  LET S == {j \in QueuedStores(i) : lsq[j].word = lsq[i].word /\ b \in AccessMask(lsq[j].acc)}
  IN  IF S = {} THEN NoByte ELSE StoreWdata(lsq[Newest(S)])[b]

BufferedByte(i, b) ==
  LET S == {s \in DOMAIN sb : /\ sb[s].st # "free"
                              /\ sb[s].word = lsq[i].word /\ b \in sb[s].wstrb}
  IN  IF S = {} THEN NoByte ELSE sb[Newest(S)].wdata[b]

Forward(i) ==
  [b \in Lanes |->
     IF b \notin AccessMask(lsq[i].acc) THEN NoByte
     ELSE IF QueuedByte(i, b) # NoByte THEN QueuedByte(i, b)
     ELSE BufferedByte(i, b)]

(* An older store without its address or its data blocks; so does one to   *)
(* the same word when stores are not forwarded.                            *)
MayStart_AddressOnly(i) == \A j \in QueuedStores(i) : lsq[j].addr_ready   \* mutant
MayStart(i) ==
  \A j \in QueuedStores(i) :
     /\ lsq[j].addr_ready /\ lsq[j].data_ready
     /\ store_forwarding \/ lsq[j].word # lsq[i].word

DispatchLoad(i) ==
  LET covered == {b \in Lanes : Forward(i)[b] # NoByte}
  IN  /\ lsq[i].acc.load /\ lsq[i].addr_ready /\ lsq[i].st = "waiting"
      /\ MayStart(i)
      /\ lsq' = IF AccessMask(lsq[i].acc) \subseteq covered
                  THEN [lsq EXCEPT ![i].st = "done",
                                   ![i].bytes = LoadExtend(Forward(i), lsq[i].acc)]
                  ELSE [lsq EXCEPT ![i].st = "memory", ![i].bytes = Forward(i)]
      /\ UNCHANGED <<store_forwarding, next_inst_id, sb, mem, arch>>

(* The word comes from memory; the bytes forwarded earlier replace its own.*)
FilledWord(e) == MergeBytes(mem[e.word], e.bytes, {b \in Lanes : e.bytes[b] # NoByte})

FinishLoad(i) ==
  /\ lsq[i].st = "memory"
  /\ lsq' = [lsq EXCEPT ![i].st = "done",
                        ![i].bytes = LoadExtend(FilledWord(lsq[i]), lsq[i].acc)]
  /\ UNCHANGED <<store_forwarding, next_inst_id, sb, mem, arch>>

-------------------------------------------------------------------------------
(* Leaving the queue, in program order but for done loads, which commit    *)
(* after the stores of the same tick have entered the buffer.              *)

(* What the program means by a store.                                      *)
ProgramStore(e) ==
  [word  |-> e.word,
   wdata |-> [b \in Lanes |-> DataByte(e.id, b - e.acc.low)],
   wstrb |-> {b \in Lanes : b - e.acc.low \in 0 .. NumBytes(e.acc) - 1}]

EnqueueStore(i) ==
  LET e == lsq[i]
  IN  /\ ~e.acc.load /\ e.addr_ready /\ e.data_ready
      /\ \A j \in 1 .. i - 1 : lsq[j].st = "done"
      /\ Len(sb) < SbDepth
      /\ sb' = Append(sb, [word |-> e.word, wdata |-> StoreWdata(e),
                           wstrb |-> AccessMask(e.acc), st |-> "pending"])
      /\ lsq' = RemoveAt(lsq, i)
      /\ arch' = WriteMasked(arch, ProgramStore(e))
      /\ UNCHANGED <<store_forwarding, next_inst_id, mem>>

FreeLoad ==
  /\ lsq # <<>> /\ lsq[1].st = "done"
  /\ lsq' = Tail(lsq)
  /\ UNCHANGED <<store_forwarding, next_inst_id, sb, mem, arch>>

(* squashInstIds: everything younger than an instruction; what has retired *)
(* stays.                                                                  *)
SquashFrom(i) ==
  /\ lsq' = SubSeq(lsq, 1, i - 1)
  /\ UNCHANGED <<store_forwarding, next_inst_id, sb, mem, arch>>

-------------------------------------------------------------------------------
(* The store buffer.                                                       *)

FirstOfWord(s, states) ==
  \A r \in 1 .. s - 1 : sb[r].word = sb[s].word => sb[r].st \notin states

WriteStore(s) ==
  /\ sb[s].st = "pending" /\ FirstOfWord(s, {"pending"})
  /\ mem' = WriteMasked(mem, sb[s])
  /\ sb' = [sb EXCEPT ![s].st = "written"]
  /\ UNCHANGED <<store_forwarding, lsq, next_inst_id, arch>>

(* A freed entry leaves the ring when it is at its head.                   *)
WithoutHoles(s) ==
  LET held == {k \in DOMAIN s : s[k].st # "free"}
  IN  IF held = {} THEN <<>>
      ELSE SubSeq(s, CHOOSE k \in held : \A l \in held : k <= l, Len(s))

FreeStore(s) ==
  /\ sb[s].st = "written" /\ FirstOfWord(s, {"pending", "written"})
  /\ sb' = WithoutHoles([sb EXCEPT ![s].st = "free"])
  /\ UNCHANGED <<store_forwarding, lsq, next_inst_id, mem, arch>>

SfNext ==
  \/ \E a \in Accesses : Allocate(a)
  \/ \E i \in DOMAIN lsq, w \in MemWords : SetAddress(i, w)
  \/ \E i \in DOMAIN lsq : SetStoreData(i)
  \/ \E i \in DOMAIN lsq : DispatchLoad(i)
  \/ \E i \in DOMAIN lsq : FinishLoad(i)
  \/ \E i \in DOMAIN lsq : EnqueueStore(i)
  \/ FreeLoad
  \/ \E i \in DOMAIN lsq : SquashFrom(i)
  \/ \E s \in DOMAIN sb : WriteStore(s)
  \/ \E s \in DOMAIN sb : FreeStore(s)

SfSpec == SfInit /\ [][SfNext]_sfVars

-------------------------------------------------------------------------------
(* Properties.                                                             *)

(* m after the stores ws[k], k in S, one after the other.                  *)
Overwritten(m, ws, S) ==
  LET after[k \in 0 .. Len(ws)] ==
        IF k = 0 THEN m
        ELSE IF k \in S THEN WriteMasked(after[k - 1], ws[k]) ELSE after[k - 1]
  IN  after[Len(ws)]

(* What load i has to return: the bytes at its address after the stores    *)
(* that have retired and the older ones in the queue, extended.            *)
Expected(i) ==
  LET older == [j \in 1 .. i - 1 |-> ProgramStore(lsq[j])]
      m == Overwritten(arch, older, QueuedStores(i))[lsq[i].word]
      a == lsq[i].acc
      n == NumBytes(a)
      byte(k) == IF a.low + k \in Lanes THEN m[a.low + k] ELSE ZeroByte
  IN  [k \in Lanes |-> IF k < n THEN byte(k)
                       ELSE IF a.uns THEN ZeroByte ELSE Sign(byte(n - 1))]

(* However the bytes of a load are put together from stores of other sizes *)
(* in the queue, from the store buffer and from the memory read later,     *)
(* while stores move from one to the other, its value is the one of the    *)
(* program's order.                                                        *)
LoadsSeeOlderStores ==
  [][\A i \in DOMAIN lsq \cap DOMAIN lsq' :
       (lsq[i].id = lsq'[i].id /\ lsq[i].st # "done" /\ lsq'[i].st = "done")
         => lsq'[i].bytes = Expected(i)]_sfVars

(* Memory with what is still in the store buffer over it is the memory of  *)
(* the program's order: masked writes of different sizes lose no byte and  *)
(* overwrite none.                                                         *)
StoresReachMemory ==
  Overwritten(mem, sb, {s \in DOMAIN sb : sb[s].st = "pending"}) = arch

SfTypeOK ==
  /\ Len(lsq) <= LsqSize /\ Len(sb) <= SbDepth
  /\ \A i \in DOMAIN lsq : /\ lsq[i].st \in {"waiting", "memory", "done"}
                           /\ lsq[i].st # "waiting" => lsq[i].acc.load /\ lsq[i].addr_ready
  /\ \A i, j \in DOMAIN lsq : i < j => lsq[i].id < lsq[j].id
  /\ sb # <<>> => Head(sb).st # "free"
===============================================================================
