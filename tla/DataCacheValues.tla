---------------------------- MODULE DataCacheValues ----------------------------
(***************************************************************************)
(* Proof that the data cache keeps what the retired stores wrote and that  *)
(* loads get it, for every geometry in which stores reach the tables in    *)
(* the order in which they were issued: one port, or one store at a time.  *)
(*                                                                         *)
(* The newest value of a word is in the first of these places that has     *)
(* one: the youngest store still to be sent, the store in a compare pipe,  *)
(* the youngest store that waits for the line's fill, and then what a      *)
(* lookup finds: a way, a write-back on its way, memory.                   *)
(***************************************************************************)
EXTENDS DataCacheProofs

(* The code keeps the order of stores in these configurations.             *)
StoresKeepOrder == Ports = 1 \/ SbDepth = 1

-------------------------------------------------------------------------------
(* Lines: ways, fills and write-backs against memory.                      *)

(* What waits for a miss is for a word of its line.                        *)
WaitersAreHome ==
  \A m \in MshrIds : \A i \in DOMAIN mshr[m].waiters :
    LineOf(mshr[m].waiters[i].addr) = mshr[m].line

(* A line that can be hit is not on its way back to memory.                *)
HeldIsHome ==
  \A s \in SetIds, w \in WayIds, m \in MshrIds :
    cache[s][w].valid /\ ~cache[s][w].reserved => ~Evicting(m, cache[s][w].line)

(* A clean line is as it is in memory.                                     *)
CleanIsMemory ==
  \A s \in SetIds, w \in WayIds :
    cache[s][w].valid /\ ~cache[s][w].dirty /\ ~cache[s][w].reserved =>
      cache[s][w].data = memory[cache[s][w].line]

(* What DRAM writes is the line of the register it serves, what it reads   *)
(* is what memory has.                                                     *)
DramCarries ==
  dram.busy =>
    IF dram.write
      THEN dram.line = mshr[dram.mshr].wb_line /\ dram.data = mshr[dram.mshr].wb_data
      ELSE dram.data = memory[mshr[dram.mshr].line]

(* A line that has arrived is as it is in memory until it is installed.    *)
FetchedIsMemory ==
  \A m \in MshrIds : mshr[m].valid /\ mshr[m].fill = "ready" =>
    mshr[m].data = memory[mshr[m].line]

EvictedIsALine ==
  \A m \in MshrIds : mshr[m].valid /\ mshr[m].wb \in {"wanted", "sent"} =>
    mshr[m].wb_line \in Lines

LineInv == /\ WaitersAreHome /\ HeldIsHome /\ CleanIsMemory
           /\ DramCarries /\ FetchedIsMemory /\ EvictedIsALine

-------------------------------------------------------------------------------
(* Requests: which word they are for.                                      *)

(* A request is for the word of the entry that asked.                      *)
Fits(r) == IF r.write THEN sb[r.id].addr = r.addr
                      ELSE Answers(r) => load[r.id].addr = r.addr
RequestsFit == \A x \in InFlight : Fits(x[4])

(* While a load is outstanding no store to its word is buffered.           *)
Buffered(a) == \E i \in SbIds : sb[i].valid /\ sb[i].addr = a
LoadsWaitForStores == \A l \in LoadIds : load[l].busy => ~Buffered(load[l].addr)

FitInv == RequestsFit /\ LoadsWaitForStores

-------------------------------------------------------------------------------
(* Values.                                                                 *)

ToSend(a)  == \E i \in SbIds : sb[i].valid /\ ~sb[i].sent /\ sb[i].addr = a
Piped(a)   == \E p \in PortIds : pipe[p].valid /\ pipe[p].write /\ pipe[p].addr = a
WaitsFor(r, a) == r.write /\ r.addr = a
Awaited(a) == \E m \in MshrIds : Fetching(m) /\
                \E i \in DOMAIN mshr[m].waiters : WaitsFor(mshr[m].waiters[i], a)

(* The youngest store to be sent to a word is the last that retired.       *)
ToSendIsNewest ==
  \A k \in Unsent :
    (\A j \in Unsent : sb[SbAt(j)].addr = sb[SbAt(k)].addr => j <= k) =>
      sb[SbAt(k)].val = committed[sb[SbAt(k)].addr]

(* With none to be sent it is the one in a pipe,                           *)
PipedHas(a, v) ==
  \A p \in PortIds : pipe[p].valid /\ pipe[p].write /\ pipe[p].addr = a => pipe[p].val = v

(* else the youngest that waits for the line,                              *)
LastHas(ws, a, v) ==
  \A i \in DOMAIN ws :
    WaitsFor(ws[i], a) /\ (\A j \in DOMAIN ws : WaitsFor(ws[j], a) => j <= i) => ws[i].val = v
AwaitedHas(a, v) == \A m \in MshrIds : Fetching(m) => LastHas(mshr[m].waiters, a, v)

(* and without any such store it is what a lookup finds of the line.       *)
Found(line, w, v) ==
  /\ \A u \in WayIds : Holds(SetOf(line), u, line) => cache[SetOf(line)][u].data[w] = v
  /\ (\A u \in WayIds : ~Holds(SetOf(line), u, line)) =>
       /\ \A m \in MshrIds : Evicting(m, line) => mshr[m].wb_data[w] = v
       /\ (\A m \in MshrIds : ~Evicting(m, line)) => memory[line][w] = v

IsNewest(a) ==
  ~ToSend(a) =>
    /\ PipedHas(a, committed[a])
    /\ ~Piped(a) =>
         /\ AwaitedHas(a, committed[a])
         /\ ~Awaited(a) => Found(LineOf(a), WordOf(a), committed[a])

ValueInv == ToSendIsNewest /\ \A a \in Words : IsNewest(a)

-------------------------------------------------------------------------------
(* Answers.                                                                *)

HitsAreCommitted ==
  \A p \in PortIds :
    hit_pend[p].valid /\ ~hit_pend[p].write /\ Answers(hit_pend[p]) =>
      hit_pend[p].val = committed[hit_pend[p].addr]
RespsAreCommitted ==
  \A i \in DOMAIN resp_q :
    ~resp_q[i].write /\ Answers(resp_q[i]) => resp_q[i].val = committed[resp_q[i].addr]
(* A load that waits for the drain will get what was committed.            *)
DrainsAreCommitted ==
  \A m \in MshrIds : \A i \in DOMAIN mshr[m].waiters :
    LET r == mshr[m].waiters[i]
    IN  mshr[m].valid /\ ~Fetching(m) /\ ~r.write /\ Answers(r) =>
          mshr[m].data[WordOf(r.addr)] = committed[r.addr]

AnswerInv == HitsAreCommitted /\ RespsAreCommitted /\ DrainsAreCommitted

StoreInv == LineInv /\ FitInv /\ ValueInv /\ AnswerInv

-------------------------------------------------------------------------------
(* The steps, by what they change.                                         *)

(* Apart from who waits for it, the register m is as before.               *)
SameFetch(m) ==
  /\ mshr'[m].valid = mshr[m].valid /\ mshr'[m].line = mshr[m].line
  /\ mshr'[m].wb = mshr[m].wb /\ mshr'[m].wb_line = mshr[m].wb_line
  /\ mshr'[m].wb_data = mshr[m].wb_data
  /\ mshr'[m].fill = mshr[m].fill /\ mshr'[m].data = mshr[m].data

SameLines == UNCHANGED <<cache, dram, memory>> /\ \A m \in MshrIds : SameFetch(m)
SameWaiters == \A m \in MshrIds : mshr'[m].waiters = mshr[m].waiters
SameClient == UNCHANGED <<sb, sb_head, sb_count, load, committed>>

(* The port p has handed its request over.                                 *)
Leaves(p) == /\ pipe[p].valid /\ ~pipe'[p].valid
             /\ \A q \in PortIds : q # p => pipe'[q] = pipe[q]

(* The request in the port p waits for the register m, which has its line. *)
Joins(p, m) ==
  /\ SameLines /\ SameClient /\ UNCHANGED <<hit_pend, resp_q>>
  /\ Leaves(p)
  /\ mshr[m].valid /\ mshr[m].line = LineOf(pipe[p].addr)
  /\ mshr[m].fill \notin {"ready", "draining"}
  /\ mshr'[m].waiters = Append(mshr[m].waiters, pipe[p])
  /\ \A n \in MshrIds : n # m => mshr'[n].waiters = mshr[n].waiters

(* It is a store that hits the way w,                                      *)
HitsStore(p, s, w) ==
  /\ UNCHANGED <<dram, memory, mshr, hit_pend>> /\ SameClient
  /\ Leaves(p) /\ pipe[p].write
  /\ s = SetOf(LineOf(pipe[p].addr)) /\ Holds(s, w, LineOf(pipe[p].addr))
  /\ MshrOf(LineOf(pipe[p].addr)) = {}
  /\ resp_q' = Append(resp_q, Resp(pipe[p], 0))
  /\ cache'[s][w].valid /\ ~cache'[s][w].reserved /\ cache'[s][w].dirty
  /\ cache'[s][w].line = cache[s][w].line
  /\ cache'[s][w].data = Stored(cache[s][w].data, pipe[p])
  /\ \A r \in SetIds, v \in WayIds : r # s \/ v # w => cache'[r][v] = cache[r][v]

(* or a load.                                                              *)
HitsLoad(p, s, w) ==
  /\ SameLines /\ SameWaiters /\ SameClient /\ UNCHANGED resp_q
  /\ Leaves(p) /\ ~pipe[p].write
  /\ s = SetOf(LineOf(pipe[p].addr)) /\ Holds(s, w, LineOf(pipe[p].addr))
  /\ MshrOf(LineOf(pipe[p].addr)) = {}
  /\ hit_pend'[p] = Resp(pipe[p], cache[s][w].data[WordOf(pipe[p].addr)])
  /\ \A q \in PortIds : q # p => hit_pend'[q] = hit_pend[q]

(* It misses; the register m evicts the way w for it.                      *)
Evicts(p, s, m, w) ==
  /\ SameClient /\ UNCHANGED <<dram, memory, hit_pend, resp_q>>
  /\ Leaves(p) /\ s = SetOf(LineOf(pipe[p].addr))
  /\ MshrOf(LineOf(pipe[p].addr)) = {}
  /\ \A u \in WayIds : ~Holds(s, u, LineOf(pipe[p].addr))
  /\ ~mshr[m].valid /\ ~cache[s][w].reserved
  /\ cache'[s][w].reserved
  /\ \A r \in SetIds, v \in WayIds : r # s \/ v # w => cache'[r][v] = cache[r][v]
  /\ \A n \in MshrIds : n # m => mshr'[n] = mshr[n]
  /\ mshr'[m].valid /\ mshr'[m].line = LineOf(pipe[p].addr)
  /\ mshr'[m].fill = "wanted" /\ mshr'[m].waiters = <<pipe[p]>>
  /\ IF NeedsWb(cache[s][w])
       THEN /\ mshr'[m].wb = "wanted" /\ mshr'[m].wb_line = cache[s][w].line
            /\ mshr'[m].wb_data = cache[s][w].data
       ELSE mshr'[m].wb = "none"

(* The line of the register m is installed in the way w.                   *)
Installs(m, s, w) ==
  /\ SameClient /\ SameWaiters /\ UNCHANGED <<dram, memory, pipe, hit_pend, resp_q>>
  /\ mshr[m].valid /\ mshr[m].fill = "ready" /\ s = SetOf(mshr[m].line)
  /\ cache[s][w].reserved
  /\ \A n \in MshrIds : n # m => mshr'[n] = mshr[n]
  /\ mshr'[m].valid /\ mshr'[m].line = mshr[m].line /\ mshr'[m].fill = "draining"
  /\ mshr'[m].wb = mshr[m].wb /\ mshr'[m].data = Filled(m)
  /\ cache'[s][w].valid /\ ~cache'[s][w].reserved /\ cache'[s][w].line = mshr[m].line
  /\ cache'[s][w].data = Filled(m)
  /\ cache'[s][w].dirty = \E i \in DOMAIN mshr[m].waiters : mshr[m].waiters[i].write
  /\ \A r \in SetIds, v \in WayIds : r # s \/ v # w => cache'[r][v] = cache[r][v]

(* The first request that waits for the register m is answered.            *)
Drains(m) ==
  /\ SameClient /\ UNCHANGED <<cache, dram, memory, pipe, hit_pend>>
  /\ mshr[m].valid /\ mshr[m].fill = "draining" /\ mshr[m].waiters # <<>>
  /\ \A n \in MshrIds : n # m => mshr'[n] = mshr[n]
  /\ \/ SameFetch(m) /\ mshr'[m].waiters = Tail(mshr[m].waiters)
     \/ ~mshr'[m].valid /\ mshr'[m].waiters = <<>>
  /\ LET r == Head(mshr[m].waiters)
     IN  resp_q' = Append(resp_q,
                     Resp(r, IF r.write THEN 0 ELSE mshr[m].data[WordOf(r.addr)]))

(* The request of the register m goes to DRAM.                             *)
Sends(m) ==
  /\ SameClient /\ SameWaiters /\ UNCHANGED <<cache, memory, pipe, hit_pend, resp_q>>
  /\ mshr[m].valid
  /\ \A n \in MshrIds : n # m => mshr'[n] = mshr[n]
  /\ mshr'[m].valid /\ mshr'[m].line = mshr[m].line /\ mshr'[m].data = mshr[m].data
  /\ mshr'[m].wb_line = mshr[m].wb_line /\ mshr'[m].wb_data = mshr[m].wb_data
  /\ dram'.mshr = m
  /\ \/ /\ mshr[m].wb = "wanted" /\ mshr'[m].wb = "sent" /\ mshr'[m].fill = mshr[m].fill
        /\ dram'.write /\ dram'.line = mshr[m].wb_line /\ dram'.data = mshr[m].wb_data
     \/ /\ mshr'[m].wb = mshr[m].wb /\ mshr[m].wb \in {"none", "done"}
        /\ mshr[m].fill = "wanted" /\ mshr'[m].fill = "sent"
        /\ ~dram'.write /\ dram'.data = memory[mshr[m].line]

(* DRAM has done what the register m asked for.                            *)
Finishes(m) ==
  /\ UNCHANGED cache /\ SameWaiters
  /\ dram.busy /\ dram.mshr = m /\ mshr[m].valid /\ ~dram'.busy
  /\ \A n \in MshrIds : n # m => mshr'[n] = mshr[n]
  /\ mshr'[m].valid /\ mshr'[m].line = mshr[m].line
  /\ mshr'[m].wb_line = mshr[m].wb_line /\ mshr'[m].wb_data = mshr[m].wb_data
  /\ IF dram.write
       THEN /\ mshr[m].wb = "sent" /\ mshr'[m].wb = "done" /\ mshr'[m].fill = mshr[m].fill
            /\ mshr'[m].data = mshr[m].data
            /\ memory' = [memory EXCEPT ![dram.line] = dram.data]
       ELSE /\ mshr[m].fill = "sent" /\ mshr'[m].fill = "ready" /\ mshr'[m].wb = mshr[m].wb
            /\ mshr'[m].data = dram.data /\ memory' = memory

(* The load hits of some ports answer.                                     *)
HitsAnswer(hits) ==
  /\ SameClient /\ UNCHANGED pipe
  /\ \A p \in hits : hit_pend[p].valid
  /\ resp_q' = resp_q \o HitAnswers(hits)
  /\ \A p \in PortIds : IF p \in hits THEN ~hit_pend'[p].valid ELSE hit_pend'[p] = hit_pend[p]

(* The rest of a record when one field changes.                            *)
LEMMA MshrRest ==
  ASSUME NEW e \in MshrStates
  PROVE  /\ \A x \in WbStates :
              /\ [e EXCEPT !.wb = x].wb_data = e.wb_data /\ [e EXCEPT !.wb = x].data = e.data
         /\ \A x \in FillStates :
              /\ [e EXCEPT !.fill = x].wb_data = e.wb_data
              /\ [e EXCEPT !.fill = x].data = e.data
         /\ \A x \in LineData :
              /\ [e EXCEPT !.data = x].wb_data = e.wb_data /\ [e EXCEPT !.data = x].data = x
         /\ \A x \in Seq(Reqs) :
              /\ [e EXCEPT !.waiters = x].wb_data = e.wb_data
              /\ [e EXCEPT !.waiters = x].data = e.data
  BY DEF MshrStates

(* DRAM's tick.                                                            *)
LEMMA DramTickEffect ==
  ASSUME OwnerInv, NEW finished \in BOOLEAN, NEW hits \in SUBSET PortIds,
         DramTick(finished, hits)
  PROVE  /\ HitsAnswer(hits)
         /\ (SameLines /\ SameWaiters) \/ \E m \in MshrIds : Finishes(m)
  <1>1. HitsAnswer(hits)
    <2>1. \A p \in PortIds : hit_pend'[p] = IF p \in hits THEN NoReq ELSE hit_pend[p]
      BY DEF DramTick
    <2>2. resp_q' = resp_q \o HitAnswers(hits)
      BY DEF DramTick, HitAnswers
    <2>3. SameClient /\ UNCHANGED pipe /\ \A p \in hits : hit_pend[p].valid
      BY DEF DramTick, SameClient, clientVars
    <2> QED
      BY <2>1, <2>2, <2>3 DEF HitsAnswer, NoReq
  <1>2. CASE ~finished
    <2>1. UNCHANGED <<mshr, memory, dram, cache>>
      BY <1>2 DEF DramTick
    <2> QED
      BY <1>1, <2>1 DEF SameLines, SameWaiters, SameFetch
  <1>3. CASE finished
    <2>1. PICK d \in MshrIds : d = dram.mshr /\ mshr[d].valid /\ dram.busy
      BY <1>3 DEF DramTick, OwnerInv, DramServes
    <2>2. dram.write \in BOOLEAN /\ dram.data \in LineData /\ mshr \in [MshrIds -> MshrStates]
      BY DEF OwnerInv, Shapes, DramStates
    <2>3. /\ UNCHANGED cache /\ dram' = DramIdle /\ ~dram'.busy
          /\ mshr' = MshrAfterDram
          /\ memory' = IF dram.write THEN [memory EXCEPT ![dram.line] = dram.data]
                                     ELSE memory
      BY <1>3 DEF DramTick, DramIdle
    <2>4. /\ dram.write => mshr[d].wb = "sent"
          /\ ~dram.write => mshr[d].fill = "sent"
      BY <2>1, <2>2 DEF OwnerInv, DramServes
    <2>5. CASE dram.write
      <3> DEFINE e == [mshr[d] EXCEPT !.wb = "done"]
      <3>1. mshr' = [mshr EXCEPT ![d] = e]
        BY <2>1, <2>3, <2>5 DEF MshrAfterDram
      <3>2. "done" \in WbStates
        BY DEF WbStates
      <3>3. /\ e.valid = mshr[d].valid /\ e.line = mshr[d].line /\ e.wb_line = mshr[d].wb_line
            /\ e.wb_data = mshr[d].wb_data /\ e.wb = "done" /\ e.fill = mshr[d].fill
            /\ e.data = mshr[d].data /\ e.waiters = mshr[d].waiters
        BY <2>2, <3>2, MshrChange, MshrRest
      <3> HIDE DEF e
      <3>4. mshr'[d] = e /\ \A n \in MshrIds : n # d => mshr'[n] = mshr[n]
        BY <2>2, <3>1
      <3>5. SameWaiters
        BY <3>3, <3>4 DEF SameWaiters
      <3> QED
        BY <1>1, <2>1, <2>3, <2>4, <2>5, <3>3, <3>4, <3>5 DEF Finishes
    <2>6. CASE ~dram.write
      <3> DEFINE f == [mshr[d] EXCEPT !.fill = "ready"]
                 e == [f EXCEPT !.data = dram.data]
      <3>1. mshr' = [mshr EXCEPT ![d] = e]
        BY <2>1, <2>3, <2>6 DEF MshrAfterDram
      <3>2. "ready" \in FillStates
        BY DEF FillStates
      <3>3. /\ f.valid = mshr[d].valid /\ f.line = mshr[d].line /\ f.wb_line = mshr[d].wb_line
            /\ f.wb_data = mshr[d].wb_data /\ f.wb = mshr[d].wb /\ f.fill = "ready"
            /\ f \in MshrStates /\ f.waiters = mshr[d].waiters
        BY <2>2, <3>2, MshrChange, MshrRest
      <3>4. /\ e.valid = mshr[d].valid /\ e.line = mshr[d].line /\ e.wb_line = mshr[d].wb_line
            /\ e.wb_data = mshr[d].wb_data /\ e.wb = mshr[d].wb /\ e.fill = "ready"
            /\ e.data = dram.data /\ e.waiters = mshr[d].waiters
        <4> HIDE DEF f
        <4> QED
          BY <2>2, <3>3, MshrChange, MshrRest
      <3> HIDE DEF e, f
      <3>5. mshr'[d] = e /\ \A n \in MshrIds : n # d => mshr'[n] = mshr[n]
        BY <2>2, <3>1
      <3>6. SameWaiters
        BY <3>4, <3>5 DEF SameWaiters
      <3> QED
        BY <1>1, <2>1, <2>3, <2>4, <2>6, <3>4, <3>5, <3>6 DEF Finishes
    <2> QED
      BY <2>5, <2>6
  <1>4. QED
    BY <1>1, <1>2, <1>3

(* The cache's next request goes to DRAM.                                  *)
LEMMA DramAcceptEffect ==
  ASSUME OwnerInv, DramAccept
  PROVE  \E m \in MshrIds : Sends(m)
  <1>1. PICK m \in MshrIds : m = DramPick
    BY DramPickFacts DEF DramAccept
  <1>2. /\ mshr[m].valid /\ mshr[m] \in MshrStates /\ mshr \in [MshrIds -> MshrStates]
        /\ \/ mshr[m].wb = "wanted"
           \/ mshr[m].wb \in {"none", "done"} /\ mshr[m].fill = "wanted"
    BY <1>1, DramPickFacts DEF DramAccept, OwnerInv, Shapes
  <1> DEFINE wb == mshr[m].wb = "wanted"
             e == IF wb THEN [mshr[m] EXCEPT !.wb = "sent"] ELSE [mshr[m] EXCEPT !.fill = "sent"]
  <1>3. SameClient /\ UNCHANGED <<cache, memory, pipe, hit_pend, resp_q>>
    BY DEF DramAccept, clientVars, portVars, SameClient
  <1>4. mshr' = [mshr EXCEPT ![m] = e]
    BY <1>1 DEF DramAccept
  <1>5. "sent" \in WbStates /\ "sent" \in FillStates
    BY DEF WbStates, FillStates
  <1>6. /\ e.valid = mshr[m].valid /\ e.line = mshr[m].line /\ e.data = mshr[m].data
        /\ e.wb_line = mshr[m].wb_line /\ e.wb_data = mshr[m].wb_data
        /\ e.waiters = mshr[m].waiters
        /\ wb => e.wb = "sent" /\ e.fill = mshr[m].fill
        /\ ~wb => e.wb = mshr[m].wb /\ e.fill = "sent"
    <2>1. CASE wb
      BY <1>2, <1>5, <2>1, MshrChange, MshrRest
    <2>2. CASE ~wb
      BY <1>2, <1>5, <2>2, MshrChange, MshrRest
    <2> QED
      BY <2>1, <2>2
  <1>7. mshr'[m] = e /\ \A n \in MshrIds : n # m => mshr'[n] = mshr[n]
    BY <1>2, <1>4
  <1>8. /\ dram'.mshr = m
        /\ wb => dram'.write /\ dram'.line = mshr[m].wb_line /\ dram'.data = mshr[m].wb_data
        /\ ~wb => ~dram'.write /\ dram'.data = memory[mshr[m].line]
    <2>1. dram' = [busy |-> TRUE, write |-> wb,
                   line |-> IF wb THEN mshr[m].wb_line ELSE mshr[m].line, mshr |-> m,
                   data |-> IF wb THEN mshr[m].wb_data
                            ELSE memory[IF wb THEN mshr[m].wb_line ELSE mshr[m].line]]
      BY <1>1 DEF DramAccept
    <2> QED
      BY <2>1
  <1> HIDE DEF e
  <1>9. SameWaiters
    BY <1>6, <1>7 DEF SameWaiters
  <1>10. QED
    BY <1>2, <1>3, <1>6, <1>7, <1>8, <1>9 DEF Sends

(* A compare pipe: one of the four outcomes, or nothing moves.             *)
LEMMA ProcessPipeEffect ==
  ASSUME OwnerInv, ProcessPipe
  PROVE  \/ SameLines /\ SameWaiters /\ SameClient /\ UNCHANGED portVars /\ UNCHANGED resp_q
         \/ \E p \in PortIds, m \in MshrIds : Joins(p, m)
         \/ \E p \in PortIds, s \in SetIds, w \in WayIds : HitsStore(p, s, w) \/ HitsLoad(p, s, w)
         \/ \E p \in PortIds, s \in SetIds, m \in MshrIds, w \in WayIds : Evicts(p, s, m, w)
  <1>1. PICK p \in PortIds : p = port
    BY ConstantsArePositive DEF ProcessPipe, PortIds, OwnerInv, Shapes
  <1>2. PICK line \in Lines : line = LineOf(pipe[p].addr)
    BY AddressFacts DEF OwnerInv, Shapes, Reqs
  <1>3. PICK s \in SetIds : s = SetOf(line)
    BY AddressFacts
  <1>4. SameClient /\ UNCHANGED <<dram, memory>>
    BY DEF ProcessPipe, SameClient, clientVars
  <1>5. /\ mshr \in [MshrIds -> MshrStates] /\ cache \in [SetIds -> [WayIds -> WayStates]]
        /\ pipe \in [PortIds -> Reqs] /\ pipe[p] \in Reqs /\ hit_pend \in [PortIds -> Reqs]
    BY DEF OwnerInv, Shapes
  <1>6. pipe[p].valid /\ LeavePipe(p) => Leaves(p)
    <2>1. ~NoReq.valid
      BY DEF NoReq
    <2> QED
      BY <1>5, <2>1 DEF LeavePipe, Leaves
  <1>7. CASE ~pipe[p].valid
    <2>1. UNCHANGED <<cache, lru, mshr, drain_mshr, pipe, hit_pend, resp_q>>
      BY <1>1, <1>7 DEF ProcessPipe, tableVars, portVars
    <2>2. SameLines /\ SameWaiters
      BY <1>4, <2>1 DEF SameLines, SameWaiters, SameFetch
    <2> QED
      BY <1>4, <2>1, <2>2 DEF portVars
  <1>8. CASE pipe[p].valid /\ MshrOf(line) # {}
    <2>1. PICK m \in MshrIds : m = Lowest(MshrOf(line)) /\ mshr[m].valid /\ mshr[m].line = line
      <3>1. MshrOf(line) \in SUBSET Nat
        BY IdsAreNumbers DEF MshrOf
      <3> QED
        BY <1>8, <3>1, LowestIsIn DEF MshrOf
    <2>2. JoinMshr(p, m) /\ UNCHANGED <<cache, hit_pend, resp_q>>
      BY <1>1, <1>2, <1>8, <2>1 DEF ProcessPipe
    <2>3. CASE MustHold(m)
      <3>1. UNCHANGED <<mshr, pipe>>
        BY <2>2, <2>3 DEF JoinMshr
      <3>2. SameLines /\ SameWaiters
        BY <1>4, <2>2, <3>1 DEF SameLines, SameWaiters, SameFetch
      <3> QED
        BY <1>4, <2>2, <3>1, <3>2 DEF portVars
    <2>4. CASE ~MustHold(m)
      <3> DEFINE q == Append(mshr[m].waiters, pipe[p])
                 e == [mshr[m] EXCEPT !.waiters = q]
      <3>1. mshr' = [mshr EXCEPT ![m] = e] /\ LeavePipe(p)
        BY <2>2, <2>4 DEF JoinMshr
      <3>2. mshr[m] \in MshrStates /\ q \in Seq(Reqs)
        BY <1>5, AppendProperties DEF MshrStates
      <3>3. /\ e.valid = mshr[m].valid /\ e.line = mshr[m].line /\ e.wb = mshr[m].wb
            /\ e.wb_line = mshr[m].wb_line /\ e.wb_data = mshr[m].wb_data
            /\ e.fill = mshr[m].fill /\ e.data = mshr[m].data /\ e.waiters = q
        <4> HIDE DEF q
        <4> QED
          BY <3>2, WaitersChange, MshrRest
      <3> HIDE DEF e
      <3>4. mshr'[m] = e /\ \A n \in MshrIds : n # m => mshr'[n] = mshr[n]
        BY <1>5, <3>1
      <3>5. SameLines
        BY <1>4, <2>2, <3>3, <3>4 DEF SameLines, SameFetch
      <3>6. mshr[m].fill \notin {"ready", "draining"}
        BY <2>4 DEF MustHold
      <3>7. Joins(p, m)
        BY <1>2, <1>4, <1>6, <1>8, <2>1, <2>2, <3>1, <3>3, <3>4, <3>5, <3>6 DEF Joins
      <3> QED
        BY <3>7
    <2> QED
      BY <2>3, <2>4
  <1>9. CASE pipe[p].valid /\ MshrOf(line) = {} /\ HitWays(s, line) # {}
    <2>1. PICK w \in WayIds : w = Lowest(HitWays(s, line)) /\ Holds(s, w, line)
      <3>1. HitWays(s, line) \in SUBSET Nat
        BY IdsAreNumbers DEF HitWays
      <3> QED
        BY <1>9, <3>1, LowestIsIn DEF HitWays, Holds
    <2>2. HitLine(p, s, w) /\ UNCHANGED mshr
      BY <1>1, <1>2, <1>3, <1>9, <2>1 DEF ProcessPipe
    <2>3. Leaves(p)
      BY <1>6, <1>9, <2>2 DEF HitLine
    <2>4. CASE pipe[p].write
      <3> DEFINE d == Stored(cache[s][w].data, pipe[p])
                 c == [cache[s][w] EXCEPT !.data = d, !.dirty = TRUE]
      <3>1. cache' = [cache EXCEPT ![s][w] = c]
        BY <2>2, <2>4 DEF HitLine
      <3>2. cache[s][w] \in WayStates
        BY <1>5
      <3>3. /\ c.valid = cache[s][w].valid /\ c.reserved = cache[s][w].reserved
            /\ c.line = cache[s][w].line /\ c.data = d /\ c.dirty = TRUE
        <4> HIDE DEF d
        <4> QED
          BY <3>2 DEF WayStates
      <3> HIDE DEF c
      <3>4. /\ cache'[s][w] = c
            /\ \A r \in SetIds, v \in WayIds : r # s \/ v # w => cache'[r][v] = cache[r][v]
        BY <1>5, <3>1
      <3>5. resp_q' = Append(resp_q, Resp(pipe[p], 0)) /\ UNCHANGED hit_pend
        BY <2>2, <2>4 DEF HitLine
      <3>6. HitsStore(p, s, w)
        BY <1>2, <1>3, <1>4, <1>9, <2>1, <2>2, <2>3, <2>4, <3>3, <3>4, <3>5 DEF HitsStore, Holds
      <3> QED
        BY <3>6
    <2>5. CASE ~pipe[p].write
      <3>1. /\ UNCHANGED <<cache, resp_q>>
            /\ hit_pend' = [hit_pend EXCEPT ![p] =
                              Resp(pipe[p], cache[s][w].data[WordOf(pipe[p].addr)])]
        BY <2>2, <2>5 DEF HitLine
      <3>2. SameLines /\ SameWaiters
        BY <1>4, <2>2, <3>1 DEF SameLines, SameWaiters, SameFetch
      <3>3. /\ hit_pend'[p] = Resp(pipe[p], cache[s][w].data[WordOf(pipe[p].addr)])
            /\ \A q \in PortIds : q # p => hit_pend'[q] = hit_pend[q]
        BY <1>5, <3>1
      <3>4. HitsLoad(p, s, w)
        BY <1>2, <1>3, <1>4, <1>9, <2>1, <2>3, <2>5, <3>1, <3>2, <3>3 DEF HitsLoad
      <3> QED
        BY <3>4
    <2> QED
      BY <2>4, <2>5
  <1>10. CASE pipe[p].valid /\ MshrOf(line) = {} /\ HitWays(s, line) = {}
    <2> DEFINE free == {m \in MshrIds : ~mshr[m].valid}
    <2>1. Miss(p, s) /\ UNCHANGED <<lru, drain_mshr, hit_pend, resp_q>>
      BY <1>1, <1>2, <1>3, <1>10 DEF ProcessPipe
    <2>2. CASE free = {} \/ Victims(s) = {}
      <3>1. UNCHANGED <<mshr, cache, pipe>>
        BY <2>1, <2>2 DEF Miss
      <3>2. SameLines /\ SameWaiters
        BY <1>4, <3>1 DEF SameLines, SameWaiters, SameFetch
      <3> QED
        BY <1>4, <2>1, <3>1, <3>2 DEF portVars
    <2>3. CASE free # {} /\ Victims(s) # {}
      <3>1. PICK m \in MshrIds : m = Lowest(free) /\ ~mshr[m].valid
        <4>1. free \in SUBSET Nat
          BY IdsAreNumbers
        <4> QED
          BY <2>3, <4>1, LowestIsIn
      <3>2. PICK w \in WayIds : w = Victim(s) /\ ~cache[s][w].reserved
        BY <2>3, VictimIsFree DEF Victims, OwnerInv, Shapes
      <3>3. TakeWay(p, s, m, w)
        BY <2>1, <2>3, <3>1, <3>2 DEF Miss, TakeWay, LeavePipe
      <3> DEFINE way == cache[s][w]
                 nwb == NeedsWb(way)
                 wbl == IF nwb THEN way.line ELSE NoLine
                 wbd == IF nwb THEN way.data ELSE ZeroLine
                 q == <<pipe[p]>>
                 e == [FreeMshr EXCEPT
                         !.valid = TRUE, !.line = line, !.way = w,
                         !.wb = IF nwb THEN "wanted" ELSE "none",
                         !.wb_line = wbl, !.wb_data = wbd, !.waiters = q]
                 c == [way EXCEPT !.reserved = TRUE]
      <3>4. mshr' = [mshr EXCEPT ![m] = e] /\ cache' = [cache EXCEPT ![s][w] = c] /\ LeavePipe(p)
        BY <1>2, <3>3 DEF TakeWay, LeavePipe
      <3>5. /\ e.valid = TRUE /\ e.line = line /\ e.fill = "wanted" /\ e.waiters = q
            /\ e.wb = (IF nwb THEN "wanted" ELSE "none") /\ e.wb_line = wbl /\ e.wb_data = wbd
        <4> HIDE DEF nwb, wbl, wbd, q
        <4> QED
          BY DEF FreeMshr
      <3>6. c.reserved = TRUE
        <4>1. way \in WayStates
          BY <1>5
        <4> HIDE DEF way
        <4> QED
          BY <4>1 DEF WayStates
      <3> HIDE DEF e, c
      <3>7. /\ mshr'[m] = e /\ \A n \in MshrIds : n # m => mshr'[n] = mshr[n]
            /\ cache'[s][w] = c
            /\ \A r \in SetIds, v \in WayIds : r # s \/ v # w => cache'[r][v] = cache[r][v]
        BY <1>5, <3>4
      <3>8. \A u \in WayIds : ~Holds(s, u, line)
        BY <1>10 DEF HitWays, Holds
      <3>9. Leaves(p)
        BY <1>6, <1>10, <3>4
      <3>10. IF nwb THEN /\ mshr'[m].wb = "wanted" /\ mshr'[m].wb_line = way.line
                         /\ mshr'[m].wb_data = way.data
                    ELSE mshr'[m].wb = "none"
        <4>1. mshr'[m] = e
          BY <3>7
        <4> QED
          BY <3>5, <4>1
      <3>11. Evicts(p, s, m, w)
        BY <1>2, <1>3, <1>4, <1>10, <2>1, <3>1, <3>2, <3>5, <3>6, <3>7, <3>8, <3>9, <3>10
        DEF Evicts
      <3> QED
        BY <3>11
    <2> QED
      BY <2>2, <2>3
  <1>11. QED
    BY <1>7, <1>8, <1>9, <1>10

(* The fill of a line that has arrived.                                    *)
LEMMA CompleteFillEffect ==
  ASSUME OwnerInv, CompleteFill
  PROVE  \E m \in MshrIds, s \in SetIds, w \in WayIds : Installs(m, s, w)
  <1>1. PICK m \in MshrIds : /\ m = Lowest(FillReady) /\ mshr[m].valid
                             /\ mshr[m].fill = "ready"
    <2>1. FillReady \in SUBSET Nat
      BY IdsAreNumbers DEF FillReady
    <2>2. Lowest(FillReady) \in FillReady
      BY <2>1, LowestIsIn DEF CompleteFill
    <2> QED
      BY <2>2 DEF FillReady
  <1>2. PICK line \in Lines, s \in SetIds, w \in WayIds :
          line = mshr[m].line /\ s = SetOf(line) /\ w = mshr[m].way
    BY <1>1, AddressFacts DEF OwnerInv, MissesDiffer, Shapes, MshrStates
  <1>3. PICK data \in LineData : data = Filled(m)
    BY FilledIsALine DEF OwnerInv
  <1>4. PICK dirty \in BOOLEAN :
          dirty = \E i \in DOMAIN mshr[m].waiters : mshr[m].waiters[i].write
    OBVIOUS
  <1> DEFINE c == [valid |-> TRUE, reserved |-> FALSE, line |-> line, data |-> data,
                   dirty |-> dirty]
             f == [mshr[m] EXCEPT !.fill = "draining"]
             e == [f EXCEPT !.data = data]
  <1>5. cache' = [cache EXCEPT ![s][w] = c] /\ mshr' = [mshr EXCEPT ![m] = e]
    <2>1. cache' = [cache EXCEPT ![s][w] = c]
      BY <1>1, <1>2, <1>3, <1>4 DEF CompleteFill
    <2>2. mshr' = [mshr EXCEPT ![m] = e]
      BY <1>1, <1>3 DEF CompleteFill
    <2> QED
      BY <2>1, <2>2
  <1>6. /\ mshr \in [MshrIds -> MshrStates] /\ cache \in [SetIds -> [WayIds -> WayStates]]
        /\ mshr[m] \in MshrStates /\ "draining" \in FillStates
    BY DEF OwnerInv, Shapes, FillStates
  <1>7. /\ f \in MshrStates /\ f.valid = mshr[m].valid /\ f.line = mshr[m].line
        /\ f.wb = mshr[m].wb /\ f.fill = "draining" /\ f.waiters = mshr[m].waiters
    BY <1>6, MshrChange
  <1>8. /\ e.valid = mshr[m].valid /\ e.line = mshr[m].line /\ e.wb = mshr[m].wb
        /\ e.fill = "draining" /\ e.waiters = mshr[m].waiters /\ e.data = data
    <2> HIDE DEF f
    <2> QED
      BY <1>7, MshrChange, MshrRest
  <1>9. c.valid /\ ~c.reserved /\ c.line = line /\ c.data = data /\ c.dirty = dirty
    OBVIOUS
  <1> HIDE DEF c, e, f
  <1>10. /\ mshr'[m] = e /\ \A n \in MshrIds : n # m => mshr'[n] = mshr[n]
         /\ cache'[s][w] = c
         /\ \A r \in SetIds, v \in WayIds : r # s \/ v # w => cache'[r][v] = cache[r][v]
    BY <1>5, <1>6
  <1>11. SameClient /\ SameWaiters /\ UNCHANGED <<dram, memory, pipe, hit_pend, resp_q>>
    BY <1>8, <1>10 DEF CompleteFill, SameClient, SameWaiters, clientVars, portVars
  <1>12. cache[s][w].reserved
    BY <1>1, <1>2 DEF OwnerInv, FetchesReserve, Fetching
  <1>13. Installs(m, s, w)
    BY <1>1, <1>2, <1>3, <1>4, <1>8, <1>9, <1>10, <1>11, <1>12 DEF Installs
  <1>14. QED
    BY <1>13

(* One answer of the drain.                                                *)
LEMMA StepDrainEffect ==
  ASSUME OwnerInv, StepDrain
  PROVE  \/ SameLines /\ SameWaiters /\ SameClient /\ UNCHANGED portVars /\ UNCHANGED resp_q
         \/ \E m \in MshrIds : Drains(m)
  <1>1. SameClient /\ UNCHANGED <<cache, dram, memory, pipe, hit_pend>>
    BY DEF StepDrain, SameClient, clientVars, portVars
  <1>2. CASE Draining = {}
    <2>1. UNCHANGED <<mshr, resp_q>>
      BY <1>2 DEF StepDrain, Draining
    <2>2. SameLines /\ SameWaiters
      BY <1>1, <2>1 DEF SameLines, SameWaiters, SameFetch
    <2> QED
      BY <1>1, <2>1, <2>2 DEF portVars
  <1>3. CASE Draining # {}
    <2>1. PICK m \in Draining : m = IF drain_mshr # NoMshr THEN drain_mshr
                                                            ELSE Lowest(Draining)
      <3>1. Draining \in SUBSET Nat
        BY IdsAreNumbers DEF Draining
      <3>2. drain_mshr # NoMshr => drain_mshr \in Draining
        BY DEF OwnerInv, DrainIsOn, Shapes, Draining
      <3> QED
        BY <1>3, <3>1, <3>2, LowestIsIn
    <2>2. m \in MshrIds /\ mshr[m].valid /\ mshr[m].fill = "draining"
      BY DEF Draining
    <2> DEFINE ws == mshr[m].waiters
               r == Head(ws)
               v == IF r.write THEN 0 ELSE mshr[m].data[WordOf(r.addr)]
               t == Tail(ws)
               e == IF MoreToDrain(m) THEN [mshr[m] EXCEPT !.waiters = t] ELSE FreeMshr
    <2>3. resp_q' = Append(resp_q, Resp(r, v)) /\ mshr' = [mshr EXCEPT ![m] = e]
      BY <1>3, <2>1 DEF StepDrain, Draining
    <2>4. /\ mshr \in [MshrIds -> MshrStates] /\ mshr[m] \in MshrStates
          /\ ws \in Seq(Reqs) /\ ws # <<>>
      BY <2>2 DEF OwnerInv, Shapes, MshrStates, Waiters
    <2>5. t \in Seq(Reqs)
      BY <2>4, HeadTailProperties
    <2>6. \/ /\ e.valid = mshr[m].valid /\ e.line = mshr[m].line /\ e.wb = mshr[m].wb
             /\ e.wb_line = mshr[m].wb_line /\ e.wb_data = mshr[m].wb_data
             /\ e.fill = mshr[m].fill /\ e.data = mshr[m].data /\ e.waiters = t
          \/ ~e.valid /\ e.waiters = <<>>
      <3>1. CASE MoreToDrain(m)
        <4>1. e = [mshr[m] EXCEPT !.waiters = t]
          BY <3>1
        <4> HIDE DEF e, t
        <4> QED
          BY <2>4, <2>5, <4>1, WaitersChange, MshrRest
      <3>2. CASE ~MoreToDrain(m)
        BY <3>2 DEF FreeMshr
      <3> QED
        BY <3>1, <3>2
    <2> HIDE DEF e
    <2>7. mshr'[m] = e /\ \A n \in MshrIds : n # m => mshr'[n] = mshr[n]
      BY <2>2, <2>3, <2>4
    <2>8. \/ SameFetch(m) /\ mshr'[m].waiters = t
          \/ ~mshr'[m].valid /\ mshr'[m].waiters = <<>>
      BY <2>6, <2>7 DEF SameFetch
    <2>9. Drains(m)
      BY <1>1, <2>2, <2>3, <2>4, <2>7, <2>8 DEF Drains
    <2> QED
      BY <2>2, <2>9
  <1>4. QED
    BY <1>2, <1>3

-------------------------------------------------------------------------------
(* Lines.                                                                  *)

(* Every waiting request is a request.                                     *)
LEMMA WaitersAreRequests ==
  ASSUME OwnerInv, NEW m \in MshrIds
  PROVE  /\ mshr[m].waiters \in Seq(Reqs) /\ Len(mshr[m].waiters) \in Nat
         /\ DOMAIN mshr[m].waiters = 1 .. Len(mshr[m].waiters)
         /\ \A i \in DOMAIN mshr[m].waiters : mshr[m].waiters[i] \in Reqs
  <1>1. mshr[m].waiters \in Seq(Reqs)
    BY DEF OwnerInv, Shapes, MshrStates
  <1>2. QED
    BY <1>1, LenProperties, ElementOfSeq

(* The empty cache.                                                        *)
LEMMA LineInit == CacheInit => LineInv
  <1> SUFFICES ASSUME CacheInit PROVE LineInv
    OBVIOUS
  <1>1. \A m \in MshrIds : ~mshr[m].valid /\ mshr[m].waiters = <<>>
    BY DEF CacheInit, FreeMshr
  <1>2. \A s \in SetIds, w \in WayIds : ~cache[s][w].valid
    BY DEF CacheInit, NoWay
  <1>3. ~dram.busy
    BY DEF CacheInit, DramIdle
  <1>4. QED
    BY <1>1, <1>2, <1>3
    DEF LineInv, WaitersAreHome, HeldIsHome, CleanIsMemory, DramCarries, FetchedIsMemory,
        EvictedIsALine

(* Steps that leave the lines alone.                                       *)
LEMMA LinesStay ==
  ASSUME OwnerInv, LineInv, SameLines, WaitersAreHome'
  PROVE  LineInv'
  <1>1. HeldIsHome' /\ CleanIsMemory' /\ FetchedIsMemory' /\ EvictedIsALine'
    BY DEF SameLines, SameFetch, LineInv, HeldIsHome, CleanIsMemory, FetchedIsMemory,
           EvictedIsALine, Evicting
  <1>2. DramCarries'
    BY DEF SameLines, SameFetch, LineInv, DramCarries, OwnerInv, DramServes
  <1>3. QED
    BY <1>1, <1>2 DEF LineInv

(* Who waits stays at the line.                                            *)
LEMMA WaitersStayHome ==
  ASSUME LineInv, SameWaiters, \A m \in MshrIds : mshr'[m].line = mshr[m].line
  PROVE  WaitersAreHome'
  BY DEF SameWaiters, LineInv, WaitersAreHome

(* A request joins those that wait for its line.                           *)
LEMMA JoinLines ==
  ASSUME OwnerInv, LineInv, NEW p \in PortIds, NEW m \in MshrIds, Joins(p, m)
  PROVE  LineInv'
  <1>1. \A n \in MshrIds : mshr'[n].line = mshr[n].line
    BY DEF Joins, SameLines, SameFetch
  <1>2. \A i \in DOMAIN mshr'[m].waiters : LineOf(mshr'[m].waiters[i].addr) = mshr[m].line
    <2> DEFINE ws == mshr[m].waiters
    <2>1. ws \in Seq(Reqs) /\ pipe[p] \in Reqs /\ Len(ws) \in Nat /\ DOMAIN ws = 1 .. Len(ws)
      BY WaitersAreRequests DEF OwnerInv, Shapes
    <2>2. mshr'[m].waiters = Append(ws, pipe[p])
      BY DEF Joins
    <2>3. /\ DOMAIN Append(ws, pipe[p]) = 1 .. Len(ws) + 1
          /\ \A i \in 1 .. Len(ws) + 1 :
               Append(ws, pipe[p])[i] = IF i <= Len(ws) THEN ws[i] ELSE pipe[p]
      <3> HIDE DEF ws
      <3> QED
        BY <2>1
    <2>4. \A i \in 1 .. Len(ws) : LineOf(ws[i].addr) = mshr[m].line
      BY <2>1 DEF LineInv, WaitersAreHome
    <2>5. LineOf(pipe[p].addr) = mshr[m].line
      BY DEF Joins
    <2>6. SUFFICES ASSUME NEW i \in 1 .. Len(ws) + 1
                   PROVE  LineOf(mshr'[m].waiters[i].addr) = mshr[m].line
      BY <2>2, <2>3
    <2>7. CASE i <= Len(ws)
      <3>1. i \in 1 .. Len(ws) /\ mshr'[m].waiters[i] = ws[i]
        BY <2>1, <2>2, <2>3, <2>7
      <3> QED
        BY <2>4, <3>1
    <2>8. CASE ~(i <= Len(ws))
      BY <2>2, <2>3, <2>5, <2>8
    <2> QED
      BY <2>7, <2>8
  <1>3. \A n \in MshrIds : n # m => mshr'[n].waiters = mshr[n].waiters
    BY DEF Joins
  <1>4. WaitersAreHome'
    BY <1>1, <1>2, <1>3 DEF LineInv, WaitersAreHome
  <1>5. QED
    BY <1>4, LinesStay DEF Joins

(* A store hits.                                                           *)
LEMMA HitStoreLines ==
  ASSUME OwnerInv, LineInv, NEW p \in PortIds, NEW s \in SetIds, NEW w \in WayIds,
         HitsStore(p, s, w)
  PROVE  LineInv'
  <1>1. UNCHANGED <<dram, memory, mshr>>
    BY DEF HitsStore
  <1>2. \A r \in SetIds, v \in WayIds :
          cache'[r][v].valid /\ ~cache'[r][v].reserved =>
            /\ cache[r][v].valid /\ ~cache[r][v].reserved
            /\ cache'[r][v].line = cache[r][v].line
            /\ ~cache'[r][v].dirty => cache'[r][v] = cache[r][v]
    BY DEF HitsStore, Holds
  <1>3. WaitersAreHome' /\ DramCarries' /\ FetchedIsMemory' /\ EvictedIsALine'
    BY <1>1 DEF LineInv, WaitersAreHome, DramCarries, FetchedIsMemory, EvictedIsALine
  <1>4. HeldIsHome'
    BY <1>1, <1>2 DEF LineInv, HeldIsHome, Evicting
  <1>5. CleanIsMemory'
    BY <1>1, <1>2 DEF LineInv, CleanIsMemory
  <1>6. QED
    BY <1>3, <1>4, <1>5 DEF LineInv

(* A miss evicts a way: its line is nowhere else.                          *)
LEMMA EvictLines ==
  ASSUME OwnerInv, LineInv, NEW p \in PortIds, NEW s \in SetIds, NEW m \in MshrIds,
         NEW w \in WayIds, Evicts(p, s, m, w)
  PROVE  LineInv'
  <1>1. \A n \in MshrIds : n # m => mshr'[n] = mshr[n]
    BY DEF Evicts
  <1>2. \A r \in SetIds, v \in WayIds :
          cache'[r][v].valid /\ ~cache'[r][v].reserved =>
            (r # s \/ v # w) /\ cache'[r][v] = cache[r][v]
    BY DEF Evicts
  <1>3. dram.busy => dram.mshr \in MshrIds /\ dram.mshr # m
    BY DEF OwnerInv, DramServes, Evicts
  <1>4. UNCHANGED <<dram, memory>> /\ ~mshr[m].valid /\ mshr'[m].fill = "wanted"
    BY DEF Evicts
  <1>5. WaitersAreHome'
    <2>1. mshr'[m].waiters = <<pipe[p]>> /\ mshr'[m].line = LineOf(pipe[p].addr)
      BY DEF Evicts
    <2>2. \A i \in DOMAIN mshr'[m].waiters : mshr'[m].waiters[i] = pipe[p]
      BY <2>1
    <2> QED
      BY <1>1, <2>1, <2>2 DEF LineInv, WaitersAreHome
  <1>6. DramCarries' /\ FetchedIsMemory'
    BY <1>1, <1>3, <1>4 DEF LineInv, DramCarries, FetchedIsMemory
  <1>7. mshr'[m].wb \in {"wanted", "sent"} =>
          cache[s][w].valid /\ ~cache[s][w].reserved /\ mshr'[m].wb_line = cache[s][w].line
    BY DEF Evicts, NeedsWb
  <1>8. EvictedIsALine'
    BY <1>1, <1>7 DEF LineInv, EvictedIsALine, OwnerInv, LinesAreHome
  <1>9. HeldIsHome'
    <2> SUFFICES ASSUME NEW r \in SetIds, NEW v \in WayIds, NEW n \in MshrIds,
                        cache'[r][v].valid, ~cache'[r][v].reserved,
                        mshr'[n].valid, mshr'[n].wb \in {"wanted", "sent"},
                        mshr'[n].wb_line = cache'[r][v].line
                 PROVE  FALSE
      BY DEF HeldIsHome, Evicting
    <2>1. /\ r # s \/ v # w
          /\ cache'[r][v] = cache[r][v] /\ cache[r][v].valid /\ ~cache[r][v].reserved
      BY <1>2
    <2>2. CASE n # m
      BY <1>1, <2>1, <2>2 DEF LineInv, HeldIsHome, Evicting
    <2>3. CASE n = m
      <3>1. /\ cache[s][w].valid /\ ~cache[s][w].reserved
            /\ cache[r][v].line = cache[s][w].line
        BY <1>7, <2>1, <2>3
      <3>2. r = s
        BY <2>1, <3>1 DEF OwnerInv, LinesAreHome
      <3>3. v = w
        BY <2>1, <3>1, <3>2 DEF OwnerInv, LinesAreHome, Holds
      <3> QED
        BY <2>1, <3>2, <3>3
    <2> QED
      BY <2>2, <2>3
  <1>10. CleanIsMemory'
    BY <1>2, <1>4 DEF LineInv, CleanIsMemory
  <1>11. QED
    BY <1>5, <1>6, <1>8, <1>9, <1>10 DEF LineInv

(* Stores that wait are all that a fill adds to the line that has arrived. *)
LEMMA FilledWithoutStores ==
  ASSUME OwnerInv, NEW m \in MshrIds,
         \A i \in DOMAIN mshr[m].waiters : ~mshr[m].waiters[i].write
  PROVE  Filled(m) = mshr[m].data
  <1>1. mshr[m].data \in [0 .. LineWords - 1 -> Val]
    BY DEF OwnerInv, Shapes, MshrStates, LineData
  <1>2. \A w \in 0 .. LineWords - 1 : StoresTo(m, w) = {}
    BY DEF StoresTo
  <1>3. Filled(m) = [w \in 0 .. LineWords - 1 |-> mshr[m].data[w]]
    BY <1>2 DEF Filled
  <1>4. QED
    BY <1>1, <1>3

(* A fill: the line is neither on its way back nor anywhere else.          *)
LEMMA InstallLines ==
  ASSUME OwnerInv, LineInv, NEW m \in MshrIds, NEW s \in SetIds, NEW w \in WayIds,
         Installs(m, s, w)
  PROVE  LineInv'
  <1>1. \A n \in MshrIds : n # m => mshr'[n] = mshr[n]
    BY DEF Installs
  <1>2. UNCHANGED <<dram, memory>> /\ mshr[m].valid /\ mshr[m].fill = "ready"
    BY DEF Installs
  <1>3. mshr[m].wb \notin {"wanted", "sent"} /\ mshr[m].line \in Lines
    BY <1>2 DEF OwnerInv, MissesDiffer
  <1>4. dram.busy => dram.mshr \in MshrIds /\ dram.mshr # m
    <2>1. dram.write \in BOOLEAN
      BY DEF OwnerInv, Shapes, DramStates
    <2> QED
      BY <1>2, <1>3, <2>1 DEF OwnerInv, DramServes
  <1>5. \A n \in MshrIds, l \in Lines : Evicting(n, l)' <=> Evicting(n, l)
    BY <1>1, <1>3 DEF Evicting, Installs
  <1>6. WaitersAreHome'
    BY <1>1, WaitersStayHome DEF Installs
  <1>7. DramCarries' /\ FetchedIsMemory' /\ EvictedIsALine'
    BY <1>1, <1>2, <1>3, <1>4
    DEF LineInv, DramCarries, FetchedIsMemory, EvictedIsALine, Installs
  <1>8. \A r \in SetIds, v \in WayIds :
          r # s \/ v # w => cache'[r][v] = cache[r][v]
    BY DEF Installs
  <1>9. HeldIsHome'
    <2> SUFFICES ASSUME NEW r \in SetIds, NEW v \in WayIds, NEW n \in MshrIds,
                        cache'[r][v].valid, ~cache'[r][v].reserved,
                        Evicting(n, cache[r][v].line)'
                 PROVE  FALSE
      <3>1. \A r \in SetIds, v \in WayIds, n \in MshrIds :
              Evicting(n, cache[r][v].line)' =
                /\ mshr'[n].valid /\ mshr'[n].wb \in {"wanted", "sent"}
                /\ mshr'[n].wb_line = cache'[r][v].line
        BY DEF Evicting
      <3> QED
        BY <3>1 DEF HeldIsHome
    <2>1. /\ mshr'[n].valid /\ mshr'[n].wb \in {"wanted", "sent"}
          /\ mshr'[n].wb_line = cache'[r][v].line
      BY DEF Evicting
    <2>2. n # m
      BY <1>3, <2>1 DEF Installs
    <2>3. mshr'[n] = mshr[n]
      BY <1>1, <2>2
    <2>4. CASE r # s \/ v # w
      BY <1>8, <2>1, <2>3, <2>4 DEF LineInv, HeldIsHome, Evicting
    <2>5. CASE r = s /\ v = w
      <3>1. cache'[r][v].line = mshr[m].line
        BY <2>5 DEF Installs
      <3> QED
        BY <1>2, <2>1, <2>3, <3>1 DEF OwnerInv, FetchesAreHome, Evicting
    <2> QED
      BY <2>4, <2>5
  <1>10. CleanIsMemory'
    <2> SUFFICES ASSUME NEW r \in SetIds, NEW v \in WayIds, cache'[r][v].valid,
                        ~cache'[r][v].dirty, ~cache'[r][v].reserved
                 PROVE  cache'[r][v].data = memory[cache'[r][v].line]
      BY <1>2 DEF CleanIsMemory
    <2>1. CASE r # s \/ v # w
      BY <1>8, <2>1 DEF LineInv, CleanIsMemory
    <2>2. CASE r = s /\ v = w
      <3>1. \A i \in DOMAIN mshr[m].waiters : ~mshr[m].waiters[i].write
        BY <2>2 DEF Installs
      <3>2. cache'[r][v].data = mshr[m].data /\ cache'[r][v].line = mshr[m].line
        BY <2>2, <3>1, FilledWithoutStores DEF Installs
      <3> QED
        BY <1>2, <3>2 DEF LineInv, FetchedIsMemory
    <2> QED
      BY <2>1, <2>2
  <1>11. QED
    BY <1>6, <1>7, <1>9, <1>10 DEF LineInv

(* The drain answers who waits, the line is in its way already.            *)
LEMMA DrainLines ==
  ASSUME OwnerInv, LineInv, NEW m \in MshrIds, Drains(m)
  PROVE  LineInv'
  <1>1. \A n \in MshrIds : n # m => mshr'[n] = mshr[n]
    BY DEF Drains
  <1>2. UNCHANGED <<cache, dram, memory>> /\ mshr[m].valid /\ mshr[m].fill = "draining"
    BY DEF Drains
  <1>3. mshr[m].wb \notin {"wanted", "sent"}
    BY <1>2 DEF OwnerInv, MissesDiffer
  <1>4. dram.busy => dram.mshr \in MshrIds /\ dram.mshr # m
    <2>1. dram.write \in BOOLEAN
      BY DEF OwnerInv, Shapes, DramStates
    <2> QED
      BY <1>2, <1>3, <2>1 DEF OwnerInv, DramServes
  <1>5. \/ /\ mshr'[m].valid = mshr[m].valid /\ mshr'[m].line = mshr[m].line
           /\ mshr'[m].wb = mshr[m].wb /\ mshr'[m].fill = mshr[m].fill
           /\ mshr'[m].waiters = Tail(mshr[m].waiters)
        \/ ~mshr'[m].valid /\ mshr'[m].waiters = <<>>
    BY DEF Drains, SameFetch
  <1>6. WaitersAreHome'
    <2>1. CASE mshr'[m].waiters = <<>>
      <3>1. \A i \in DOMAIN mshr'[m].waiters : FALSE
        BY <2>1
      <3> QED
        BY <1>1, <3>1 DEF LineInv, WaitersAreHome
    <2>2. CASE mshr'[m].waiters # <<>>
      <3> DEFINE ws == mshr[m].waiters
      <3>1. ws \in Seq(Reqs) /\ ws # <<>> /\ Len(ws) \in Nat /\ DOMAIN ws = 1 .. Len(ws)
        BY WaitersAreRequests DEF Drains
      <3>2. mshr'[m].line = mshr[m].line /\ mshr'[m].waiters = Tail(ws)
        BY <1>5, <2>2
      <3>3. /\ DOMAIN Tail(ws) = 1 .. Len(ws) - 1
            /\ \A i \in 1 .. Len(ws) - 1 : Tail(ws)[i] = ws[i + 1] /\ i + 1 \in DOMAIN ws
        <4> HIDE DEF ws
        <4> QED
          BY <3>1, HeadTailProperties
      <3>4. \A i \in DOMAIN mshr'[m].waiters :
              LineOf(mshr'[m].waiters[i].addr) = mshr'[m].line
        BY <3>2, <3>3 DEF LineInv, WaitersAreHome
      <3> QED
        BY <1>1, <3>4 DEF LineInv, WaitersAreHome
    <2> QED
      BY <2>1, <2>2
  <1>7. DramCarries'
    BY <1>1, <1>2, <1>4 DEF LineInv, DramCarries
  <1>8. FetchedIsMemory' /\ EvictedIsALine' /\ CleanIsMemory'
    BY <1>1, <1>2, <1>3, <1>5 DEF LineInv, FetchedIsMemory, EvictedIsALine, CleanIsMemory
  <1>9. HeldIsHome'
    BY <1>1, <1>2, <1>3, <1>5 DEF LineInv, HeldIsHome, Evicting
  <1>10. QED
    BY <1>6, <1>7, <1>8, <1>9 DEF LineInv

(* A request to DRAM takes the line with it, or what memory has of it.     *)
LEMMA SendLines ==
  ASSUME OwnerInv, LineInv, NEW m \in MshrIds, Sends(m)
  PROVE  LineInv'
  <1>1. \A n \in MshrIds : n # m => mshr'[n] = mshr[n]
    BY DEF Sends
  <1>2. /\ UNCHANGED <<cache, memory>> /\ mshr[m].valid /\ mshr'[m].valid
        /\ mshr'[m].line = mshr[m].line /\ mshr'[m].wb_line = mshr[m].wb_line
        /\ mshr'[m].data = mshr[m].data /\ mshr'[m].wb_data = mshr[m].wb_data
        /\ mshr'[m].wb \in {"wanted", "sent"} => mshr[m].wb \in {"wanted", "sent"}
        /\ mshr'[m].fill = "ready" => mshr[m].fill = "ready"
    BY DEF Sends
  <1>3. WaitersAreHome'
    BY <1>1, <1>2, WaitersStayHome DEF Sends
  <1>4. DramCarries'
    BY DEF Sends, DramCarries
  <1>5. CleanIsMemory' /\ FetchedIsMemory' /\ EvictedIsALine'
    BY <1>1, <1>2 DEF LineInv, CleanIsMemory, FetchedIsMemory, EvictedIsALine
  <1>6. HeldIsHome'
    BY <1>1, <1>2 DEF LineInv, HeldIsHome, Evicting
  <1>7. QED
    BY <1>3, <1>4, <1>5, <1>6 DEF LineInv

(* A line that is written back is held nowhere and nobody has read it; one *)
(* that is read is as it is in memory.                                     *)
LEMMA FinishLines ==
  ASSUME OwnerInv, LineInv, NEW m \in MshrIds, Finishes(m)
  PROVE  LineInv'
  <1>1. \A n \in MshrIds : n # m => mshr'[n] = mshr[n]
    BY DEF Finishes
  <1>2. /\ UNCHANGED cache /\ dram.busy /\ dram.mshr = m /\ mshr[m].valid /\ ~dram'.busy
        /\ mshr'[m].valid /\ mshr'[m].line = mshr[m].line
        /\ mshr'[m].wb_line = mshr[m].wb_line /\ memory \in [Lines -> LineData]
        /\ mshr[m].line \in Lines
    BY DEF Finishes, OwnerInv, Shapes, MissesDiffer
  <1>3. WaitersAreHome'
    BY <1>1, <1>2, WaitersStayHome DEF Finishes
  <1>4. DramCarries'
    BY <1>2 DEF DramCarries
  <1>5. mshr'[m].wb \in {"wanted", "sent"} => mshr[m].wb \in {"wanted", "sent"}
    BY DEF Finishes
  <1>6. HeldIsHome' /\ EvictedIsALine'
    BY <1>1, <1>2, <1>5 DEF LineInv, HeldIsHome, EvictedIsALine, Evicting
  <1>7. CASE dram.write
    <2>1. /\ mshr[m].wb = "sent" /\ mshr'[m].fill = mshr[m].fill
          /\ mshr'[m].data = mshr[m].data
          /\ memory' = [memory EXCEPT ![mshr[m].wb_line] = dram.data]
      BY <1>2, <1>7 DEF Finishes, LineInv, DramCarries
    <2>2. Evicting(m, mshr[m].wb_line)
      BY <1>2, <2>1 DEF Evicting
    <2>3. \A l \in Lines : l # mshr[m].wb_line => memory'[l] = memory[l]
      BY <1>2, <2>1
    <2>4. CleanIsMemory'
      <3> SUFFICES ASSUME NEW r \in SetIds, NEW v \in WayIds, cache[r][v].valid,
                          ~cache[r][v].dirty, ~cache[r][v].reserved
                   PROVE  cache[r][v].data = memory'[cache[r][v].line]
        BY <1>2 DEF CleanIsMemory
      <3>1. cache[r][v].line \in Lines
        BY DEF OwnerInv, LinesAreHome
      <3>2. cache[r][v].line # mshr[m].wb_line
        BY <2>2 DEF LineInv, HeldIsHome
      <3> QED
        BY <2>3, <3>1, <3>2 DEF LineInv, CleanIsMemory
    <2>5. FetchedIsMemory'
      <3> SUFFICES ASSUME NEW n \in MshrIds, mshr'[n].valid, mshr'[n].fill = "ready"
                   PROVE  mshr'[n].data = memory'[mshr'[n].line]
        BY DEF FetchedIsMemory
      <3>1. /\ mshr[n].valid /\ mshr[n].fill = "ready"
            /\ mshr'[n].data = mshr[n].data /\ mshr'[n].line = mshr[n].line
        BY <1>1, <1>2, <2>1
      <3>2. mshr[n].line \in Lines /\ mshr[n].line # mshr[m].wb_line
        BY <2>2, <3>1 DEF OwnerInv, MissesDiffer, FetchesAreHome
      <3> QED
        BY <2>3, <3>1, <3>2 DEF LineInv, FetchedIsMemory
    <2> QED
      BY <1>3, <1>4, <1>6, <2>4, <2>5 DEF LineInv
  <1>8. CASE ~dram.write
    <2>1. memory' = memory /\ mshr'[m].data = memory[mshr[m].line]
      BY <1>2, <1>8 DEF Finishes, LineInv, DramCarries
    <2>2. CleanIsMemory' /\ FetchedIsMemory'
      BY <1>1, <1>2, <2>1 DEF LineInv, CleanIsMemory, FetchedIsMemory
    <2> QED
      BY <1>3, <1>4, <1>6, <2>2 DEF LineInv
  <1>9. QED
    BY <1>7, <1>8

-------------------------------------------------------------------------------
(* The steps of the load/store queue, by what they change.                 *)

SameTables == SameLines /\ SameWaiters
SamePlaces == UNCHANGED <<pipe, hit_pend, resp_q>>
SameRing   == UNCHANGED <<sb_head, sb_count>>
OtherSlots(i) == \A j \in SbIds : j # i => sb'[j] = sb[j]
OtherLoads(l) == \A k \in LoadIds : k # l => load'[k] = load[k]

(* A store of v to a enters the ring at its end, in the free slot i.       *)
Retires(a, v, i) ==
  /\ SameTables /\ SamePlaces /\ UNCHANGED <<load, sb_head>>
  /\ sb_count < SbDepth /\ i = SbAt(sb_count) /\ sb_count' = sb_count + 1
  /\ ~sb[i].valid /\ ~sb[i].sent
  /\ sb'[i].valid /\ ~sb'[i].sent /\ sb'[i].addr = a /\ sb'[i].val = v
  /\ OtherSlots(i)
  /\ \A l \in LoadIds : ~(load[l].busy /\ load[l].addr = a)
  /\ committed' = [committed EXCEPT ![a] = v]

(* The entry l gets a new load of a, or loses its load.                    *)
Starts(l, a) ==
  /\ SameTables /\ SamePlaces /\ SameRing /\ UNCHANGED <<sb, committed>>
  /\ ~InSb(a) /\ load'[l].busy /\ ~load'[l].sent /\ load'[l].addr = a
  /\ OtherLoads(l)
Squashes(l) ==
  /\ SameTables /\ SamePlaces /\ SameRing /\ UNCHANGED <<sb, committed>>
  /\ ~load'[l].busy /\ OtherLoads(l)

(* The first store to be sent, at the place k of the ring, or the load l   *)
(* goes to the free port p.                                                *)
IssuesStore(p, k) ==
  /\ SameTables /\ SameRing /\ UNCHANGED <<hit_pend, resp_q, load, committed>>
  /\ k \in Unsent /\ \A j \in Unsent : k <= j
  /\ ~pipe[p].valid /\ \A q \in PortIds : q # p => pipe'[q] = pipe[q]
  /\ pipe'[p].valid /\ pipe'[p].write /\ pipe'[p].id = SbAt(k)
  /\ pipe'[p].addr = sb[SbAt(k)].addr /\ pipe'[p].val = sb[SbAt(k)].val
  /\ sb'[SbAt(k)].sent /\ sb'[SbAt(k)].valid = sb[SbAt(k)].valid
  /\ sb'[SbAt(k)].addr = sb[SbAt(k)].addr /\ sb'[SbAt(k)].val = sb[SbAt(k)].val
  /\ OtherSlots(SbAt(k))
IssuesLoad(p, l) ==
  /\ SameTables /\ SameRing /\ UNCHANGED <<hit_pend, resp_q, sb, committed>>
  /\ load[l].busy /\ ~load[l].sent
  /\ ~pipe[p].valid /\ \A q \in PortIds : q # p => pipe'[q] = pipe[q]
  /\ pipe'[p].valid /\ ~pipe'[p].write /\ pipe'[p].id = l
  /\ pipe'[p].addr = load[l].addr
  /\ load'[l].busy /\ load'[l].addr = load[l].addr /\ load'[l].gen = load[l].gen
  /\ OtherLoads(l)

(* The first answer is taken.                                              *)
Receives ==
  /\ SameTables /\ SameRing /\ UNCHANGED <<pipe, hit_pend, committed>>
  /\ resp_q # <<>> /\ resp_q' = Tail(resp_q)
  /\ \/ /\ Head(resp_q).write /\ Head(resp_q).id \in SbIds /\ UNCHANGED load
        /\ sb[Head(resp_q).id].sent
        /\ ~sb'[Head(resp_q).id].valid /\ OtherSlots(Head(resp_q).id)
     \/ ~Head(resp_q).write /\ UNCHANGED <<sb, load>>
     \/ /\ ~Head(resp_q).write /\ Head(resp_q).id \in LoadIds /\ UNCHANGED sb
        /\ ~load'[Head(resp_q).id].busy /\ OtherLoads(Head(resp_q).id)

(* The n holes at the head of the ring are freed.                          *)
Frees(n) ==
  /\ SameTables /\ SamePlaces /\ UNCHANGED <<sb, load, committed>>
  /\ n <= sb_count /\ sb_head' = SbAt(n) /\ sb_count' = sb_count - n
  /\ \A k \in 0 .. sb_count - 1 : sb[SbAt(k)].valid => k >= n

(* The tables are as they were if their variables are.                     *)
LEMMA TablesStay ==
  ASSUME UNCHANGED <<cache, mshr, dram, memory>>
  PROVE  SameTables
  BY DEF SameTables, SameLines, SameWaiters, SameFetch

(* A store retires.                                                        *)
LEMMA NewStoreEffect ==
  ASSUME OwnerInv, RequestInv, NEW a \in Words, NEW v \in Val, NewStore(a, v)
  PROVE  \E i \in SbIds : Retires(a, v, i)
  <1>1. sb_head \in SbIds /\ sb_count \in 0 .. SbDepth - 1 /\ sb \in [SbIds -> SbStates]
    BY ConstantsArePositive DEF OwnerInv, Shapes, NewStore, HasRoom
  <1>2. PICK i \in SbIds : i = SbAt(sb_count)
    BY <1>1, SbAtIsSlot, ConstantsArePositive
  <1>3. ~sb[i].valid /\ ~sb[i].sent
    <2>1. \A k \in 0 .. sb_count - 1 : SbAt(k) # i
      <3> SUFFICES ASSUME NEW k \in 0 .. sb_count - 1, SbAt(k) = SbAt(sb_count)
                   PROVE  FALSE
        BY <1>2
      <3>1. k \in 0 .. SbDepth - 1 /\ k # sb_count
        BY <1>1, ConstantsArePositive
      <3> QED
        BY <1>1, <3>1, SbAtDiffers
    <2> QED
      BY <2>1 DEF RequestInv, SlotsAreFree
  <1>4. sb' = [sb EXCEPT ![i] = [valid |-> TRUE, sent |-> FALSE, addr |-> a, val |-> v]]
    BY <1>2 DEF NewStore
  <1>5. sb'[i] = [valid |-> TRUE, sent |-> FALSE, addr |-> a, val |-> v] /\ OtherSlots(i)
    BY <1>1, <1>4 DEF OtherSlots
  <1>6. SameTables /\ SamePlaces /\ UNCHANGED <<load, sb_head>>
    BY TablesStay DEF NewStore, SamePlaces, tableVars, portVars
  <1>7. Retires(a, v, i)
    BY <1>2, <1>3, <1>5, <1>6 DEF NewStore, HasRoom, Retires
  <1>8. QED
    BY <1>7

(* The load slots change.                                                  *)
LEMMA LoadSlotEffect ==
  ASSUME OwnerInv
  PROVE  /\ \A l \in LoadIds, a \in Words : NewLoad(l, a) => Starts(l, a)
         /\ \A l \in LoadIds : SquashLoad(l) => Squashes(l)
  <1>1. load \in [LoadIds -> LoadStates]
    BY DEF OwnerInv, Shapes
  <1>2. ASSUME NEW l \in LoadIds, NEW a \in Words, NewLoad(l, a)
        PROVE  Starts(l, a)
    <2>1. load' = [load EXCEPT ![l] = [busy |-> TRUE, sent |-> FALSE, addr |-> a,
                                       gen |-> load[l].gen + 1]]
      BY <1>2 DEF NewLoad
    <2>2. load'[l].busy /\ ~load'[l].sent /\ load'[l].addr = a /\ OtherLoads(l)
      BY <1>1, <2>1 DEF OtherLoads
    <2>3. /\ SameTables /\ SamePlaces /\ SameRing /\ UNCHANGED <<sb, committed>>
          /\ ~InSb(a)
      BY <1>2, TablesStay DEF NewLoad, SamePlaces, SameRing, tableVars, portVars
    <2> QED
      BY <2>2, <2>3 DEF Starts
  <1>3. ASSUME NEW l \in LoadIds, SquashLoad(l)
        PROVE  Squashes(l)
    <2>1. load' = [load EXCEPT ![l].busy = FALSE, ![l].sent = FALSE]
      BY <1>3 DEF SquashLoad
    <2>2. ~load'[l].busy /\ OtherLoads(l)
      BY <1>1, <2>1 DEF OtherLoads, LoadStates
    <2>3. SameTables /\ SamePlaces /\ SameRing /\ UNCHANGED <<sb, committed>>
      BY <1>3, TablesStay DEF SquashLoad, SamePlaces, SameRing, tableVars, portVars
    <2> QED
      BY <2>2, <2>3 DEF Squashes
  <1>4. QED
    BY <1>2, <1>3

(* A request goes to a port.                                               *)
LEMMA IssueEffect ==
  ASSUME OwnerInv
  PROVE  /\ IssueStore => \E p \in PortIds, k \in Unsent : IssuesStore(p, k)
         /\ \A l \in LoadIds : IssueLoad(l) => \E p \in PortIds : IssuesLoad(p, l)
  <1>1. ASSUME IssueStore
        PROVE  \E p \in PortIds, k \in Unsent : IssuesStore(p, k)
    <2>1. PICK k \in Unsent : /\ k = CHOOSE n \in Unsent : \A j \in Unsent : n <= j
                              /\ \A j \in Unsent : k <= j
      <3>1. Unsent \in SUBSET Nat /\ Unsent # {}
        BY <1>1 DEF Unsent, IssueStore
      <3> QED
        BY <3>1, MinimumExists
    <2>2. PICK i \in SbIds : i = SbAt(k)
      BY SbAtIsSlot DEF OwnerInv, Shapes, Unsent
    <2>3. PICK p \in PortIds : p = FreePipePort /\ ~pipe[p].valid
      BY <1>1, FreePortIsFree DEF FreePorts, IssueStore
    <2> DEFINE req == [valid |-> TRUE, write |-> TRUE, addr |-> sb[i].addr,
                       val |-> sb[i].val, id |-> i, cookie |-> 0]
    <2>4. pipe' = [pipe EXCEPT ![p] = req] /\ sb' = [sb EXCEPT ![i].sent = TRUE]
      BY <1>1, <2>1, <2>2, <2>3 DEF IssueStore, Accept
    <2>5. pipe \in [PortIds -> Reqs] /\ sb \in [SbIds -> SbStates]
      BY DEF OwnerInv, Shapes
    <2>6. pipe'[p] = req /\ \A q \in PortIds : q # p => pipe'[q] = pipe[q]
      BY <2>4, <2>5
    <2>7. /\ sb'[i].sent /\ sb'[i].valid = sb[i].valid
          /\ sb'[i].addr = sb[i].addr /\ sb'[i].val = sb[i].val /\ OtherSlots(i)
      BY <2>4, <2>5 DEF OtherSlots, SbStates
    <2>8. SameTables /\ SameRing /\ UNCHANGED <<hit_pend, resp_q, load, committed>>
      BY <1>1, TablesStay DEF IssueStore, SameRing, tableVars
    <2>9. IssuesStore(p, k)
      BY <2>1, <2>2, <2>3, <2>6, <2>7, <2>8 DEF IssuesStore
    <2> QED
      BY <2>9
  <1>2. ASSUME NEW l \in LoadIds, IssueLoad(l)
        PROVE  \E p \in PortIds : IssuesLoad(p, l)
    <2>1. PICK p \in PortIds : p = FreePipePort /\ ~pipe[p].valid
      BY <1>2, FreePortIsFree DEF FreePorts, IssueLoad
    <2> DEFINE req == [valid |-> TRUE, write |-> FALSE, addr |-> load[l].addr, val |-> 0,
                       id |-> l, cookie |-> load[l].gen]
    <2>2. pipe' = [pipe EXCEPT ![p] = req] /\ load' = [load EXCEPT ![l].sent = TRUE]
      BY <1>2, <2>1 DEF IssueLoad, Accept
    <2>3. pipe \in [PortIds -> Reqs] /\ load \in [LoadIds -> LoadStates]
      BY DEF OwnerInv, Shapes
    <2>4. pipe'[p] = req /\ \A q \in PortIds : q # p => pipe'[q] = pipe[q]
      BY <2>2, <2>3
    <2>5. load[l].busy /\ ~load[l].sent
      BY <1>2 DEF IssueLoad
    <2>6. /\ load'[l].busy /\ load'[l].addr = load[l].addr /\ load'[l].gen = load[l].gen
          /\ OtherLoads(l)
      BY <2>2, <2>3, <2>5 DEF OtherLoads, LoadStates
    <2>7. SameTables /\ SameRing /\ UNCHANGED <<hit_pend, resp_q, sb, committed>>
      BY <1>2, TablesStay DEF IssueLoad, SameRing, tableVars
    <2>8. IssuesLoad(p, l)
      BY <2>1, <2>4, <2>5, <2>6, <2>7 DEF IssuesLoad
    <2> QED
      BY <2>8
  <1>3. QED
    BY <1>1, <1>2

(* An answer is taken.                                                     *)
LEMMA ApplyRespEffect ==
  ASSUME OwnerInv, RequestInv, ApplyResp
  PROVE  Receives
  <1>1. resp_q \in Seq(Reqs) /\ resp_q # <<>>
    BY DEF OwnerInv, Shapes, ApplyResp
  <1>2. Len(resp_q) \in Nat /\ 1 \in DOMAIN resp_q /\ Head(resp_q) = resp_q[1]
    BY <1>1, LenProperties, EmptySeq
  <1>3. PICK r \in Reqs : r = Head(resp_q)
    BY <1>1
  <1>4. <<"resp", 0, 1, r>> \in InFlight
    BY <1>2, <1>3, InFlightCases
  <1>5. IF r.write THEN r.id \in SbIds /\ sb[r.id].sent ELSE r.id \in LoadIds
    BY <1>4 DEF RequestInv, RequestsAreKnown
  <1>6. SameTables /\ SameRing /\ UNCHANGED <<pipe, hit_pend, committed>> /\ resp_q' = Tail(resp_q)
    BY TablesStay DEF ApplyResp, SameRing, tableVars, portVars
  <1>7. CASE r.write
    <2>1. sb' = [sb EXCEPT ![r.id] = FreeSb] /\ UNCHANGED load
      BY <1>3, <1>7 DEF ApplyResp
    <2>2. ~sb'[r.id].valid /\ OtherSlots(r.id)
      BY <1>5, <1>7, <2>1 DEF OtherSlots, FreeSb, OwnerInv, Shapes
    <2> QED
      BY <1>1, <1>3, <1>5, <1>6, <1>7, <2>1, <2>2 DEF Receives
  <1>8. CASE ~r.write
    <2>1. /\ load' = IF Answers(r) THEN [load EXCEPT ![r.id].busy = FALSE, ![r.id].sent = FALSE]
                                   ELSE load
          /\ UNCHANGED sb
      BY <1>3, <1>8 DEF ApplyResp
    <2>2. CASE Answers(r)
      <3>1. load \in [LoadIds -> LoadStates] /\ r.id \in LoadIds
        BY <1>5, <1>8 DEF OwnerInv, Shapes
      <3>2. ~load'[r.id].busy /\ OtherLoads(r.id)
        BY <2>1, <2>2, <3>1 DEF OtherLoads, LoadStates
      <3> QED
        BY <1>1, <1>3, <1>6, <1>8, <2>1, <3>1, <3>2 DEF Receives
    <2>3. CASE ~Answers(r)
      BY <1>1, <1>3, <1>6, <1>8, <2>1, <2>3 DEF Receives
    <2> QED
      BY <2>2, <2>3
  <1>9. QED
    BY <1>7, <1>8

(* The holes at the head of the ring are freed.                            *)
LEMMA EndIssueEffect ==
  ASSUME OwnerInv, EndIssue
  PROVE  \E n \in 0 .. SbDepth : Frees(n)
  <1>1. sb_head \in SbIds /\ sb_count \in 0 .. SbDepth
    BY DEF OwnerInv, Shapes
  <1>2. PICK n \in 0 .. SbDepth : /\ n = Holes /\ n <= sb_count
                                  /\ \A k \in 0 .. sb_count - 1 : sb[SbAt(k)].valid => k >= n
    BY <1>1, HolesAreCounted, ConstantsArePositive
  <1>3. sb_head' = SbAt(n) /\ sb_count' = sb_count - n
    BY <1>2 DEF EndIssue, Holes, Kept
  <1>4. SameTables /\ SamePlaces /\ UNCHANGED <<sb, load, committed>>
    BY TablesStay DEF EndIssue, SamePlaces, tableVars, portVars
  <1>5. Frees(n)
    BY <1>2, <1>3, <1>4 DEF Frees
  <1>6. QED
    BY <1>5

-------------------------------------------------------------------------------
(* All steps.                                                              *)

Quiet == SameTables /\ SamePlaces /\ SameClient

CacheStep ==
  \/ Quiet
  \/ \E p \in PortIds, m \in MshrIds : Joins(p, m)
  \/ \E p \in PortIds, s \in SetIds, w \in WayIds : HitsStore(p, s, w)
  \/ \E p \in PortIds, s \in SetIds, w \in WayIds : HitsLoad(p, s, w)
  \/ \E p \in PortIds, s \in SetIds, m \in MshrIds, w \in WayIds : Evicts(p, s, m, w)
  \/ \E m \in MshrIds, s \in SetIds, w \in WayIds : Installs(m, s, w)
  \/ \E m \in MshrIds : Drains(m)
  \/ \E m \in MshrIds : Sends(m)
  \/ \E hits \in SUBSET PortIds : HitsAnswer(hits) /\ SameTables
  \/ \E hits \in SUBSET PortIds, m \in MshrIds : HitsAnswer(hits) /\ Finishes(m)

ClientStep ==
  \/ \E a \in Words, v \in Val, i \in SbIds : Retires(a, v, i)
  \/ \E l \in LoadIds, a \in Words : Starts(l, a)
  \/ \E l \in LoadIds : Squashes(l)
  \/ \E p \in PortIds, k \in Unsent : IssuesStore(p, k)
  \/ \E p \in PortIds, l \in LoadIds : IssuesLoad(p, l)
  \/ Receives
  \/ \E n \in 0 .. SbDepth : Frees(n)

(* Every step of the specification is one of these.                        *)
LEMMA StepEffect ==
  ASSUME OwnerInv, RequestInv, [CacheNext]_vars
  PROVE  CacheStep \/ ClientStep
  <1>1. CASE \/ BeginTick \/ NoDramAccept \/ EndPipes \/ EndResps \/ UNCHANGED vars
    <2>1. UNCHANGED <<cache, mshr, dram, memory>> /\ SamePlaces /\ SameClient
      BY <1>1 DEF BeginTick, NoDramAccept, EndPipes, EndResps, vars, tableVars, clientVars,
                  portVars, SamePlaces, SameClient
    <2> QED
      BY <2>1, TablesStay DEF CacheStep, Quiet
  <1>2. CASE ProcessPipe
    BY <1>2, ProcessPipeEffect DEF CacheStep, Quiet, SameTables, SamePlaces, portVars
  <1>3. CASE CompleteFill
    BY <1>3, CompleteFillEffect DEF CacheStep
  <1>4. CASE StepDrain
    BY <1>4, StepDrainEffect DEF CacheStep, Quiet, SameTables, SamePlaces, portVars
  <1>5. CASE DramAccept
    BY <1>5, DramAcceptEffect DEF CacheStep
  <1>6. ASSUME NEW finished \in BOOLEAN, NEW hits \in SUBSET PortIds, DramTick(finished, hits)
        PROVE  CacheStep
    BY <1>6, DramTickEffect DEF CacheStep, SameTables
  <1>7. ASSUME NEW a \in Words, NEW v \in Val, NewStore(a, v)
        PROVE  ClientStep
    BY <1>7, NewStoreEffect DEF ClientStep
  <1>8. ASSUME \/ \E l \in LoadIds, a \in Words : NewLoad(l, a)
               \/ \E l \in LoadIds : SquashLoad(l)
        PROVE  ClientStep
    BY <1>8, LoadSlotEffect DEF ClientStep
  <1>9. ASSUME IssueStore \/ \E l \in LoadIds : IssueLoad(l)
        PROVE  ClientStep
    BY <1>9, IssueEffect DEF ClientStep
  <1>10. CASE ApplyResp
    BY <1>10, ApplyRespEffect DEF ClientStep
  <1>11. CASE EndIssue
    BY <1>11, EndIssueEffect DEF ClientStep
  <1>12. QED
    BY <1>1, <1>2, <1>3, <1>4, <1>5, <1>6, <1>7, <1>8, <1>9, <1>10, <1>11 DEF CacheNext

(* The lines and memory, in every step.                                    *)
LEMMA LineNext ==
  ASSUME OwnerInv, RequestInv, LineInv, [CacheNext]_vars
  PROVE  LineInv'
  <1>1. ASSUME SameTables
        PROVE  LineInv'
    <2>1. WaitersAreHome'
      BY <1>1, WaitersStayHome DEF SameTables, SameLines, SameFetch
    <2> QED
      BY <1>1, <2>1, LinesStay DEF SameTables
  <1>2. ASSUME ClientStep
        PROVE  SameTables
    BY <1>2 DEF ClientStep, Retires, Starts, Squashes, IssuesStore, IssuesLoad, Receives, Frees
  <1>3. ASSUME CacheStep
        PROVE  LineInv'
    <2>1. ASSUME NEW p \in PortIds, NEW s \in SetIds, NEW w \in WayIds, HitsLoad(p, s, w)
          PROVE  LineInv'
      BY <2>1, <1>1 DEF HitsLoad, SameTables
    <2>2. CASE Quiet \/ \E hits \in SUBSET PortIds : HitsAnswer(hits) /\ SameTables
      BY <2>2, <1>1 DEF Quiet
    <2>3. CASE \/ \E p \in PortIds, m \in MshrIds : Joins(p, m)
               \/ \E p \in PortIds, s \in SetIds, w \in WayIds : HitsStore(p, s, w)
               \/ \E p \in PortIds, s \in SetIds, m \in MshrIds, w \in WayIds :
                    Evicts(p, s, m, w)
      BY <2>3, JoinLines, HitStoreLines, EvictLines
    <2>4. CASE \/ \E m \in MshrIds, s \in SetIds, w \in WayIds : Installs(m, s, w)
               \/ \E m \in MshrIds : Drains(m) \/ Sends(m) \/ Finishes(m)
      BY <2>4, InstallLines, DrainLines, SendLines, FinishLines
    <2> QED
      BY <1>3, <2>1, <2>2, <2>3, <2>4 DEF CacheStep
  <1>4. QED
    BY <1>1, <1>2, <1>3, StepEffect

-------------------------------------------------------------------------------
(* Requests and the words they are for.                                    *)

(* r asks for what q asks for, for the same entry.                         *)
SameAsk(r, q) == /\ r.write = q.write /\ r.id = q.id /\ r.cookie = q.cookie
                 /\ r.addr = q.addr
NoneIsNew == \A x \in InFlight' : \E y \in InFlight : SameAsk(x[4], y[4])

(* An answer asks for what its request asks for.                           *)
LEMMA RespAsks ==
  ASSUME NEW r \in Reqs, NEW v
  PROVE  /\ SameAsk(Resp(r, v), r) /\ Resp(r, v).val = v /\ Resp(r, v).valid = r.valid
  BY DEF SameAsk, Resp, Reqs

(* What is in the places of the cache.                                     *)
LEMMA PlacesAreRequests ==
  ASSUME OwnerInv
  PROVE  /\ pipe \in [PortIds -> Reqs] /\ hit_pend \in [PortIds -> Reqs]
         /\ resp_q \in Seq(Reqs) /\ Len(resp_q) \in Nat /\ DOMAIN resp_q = 1 .. Len(resp_q)
         /\ \A i \in DOMAIN resp_q : resp_q[i] \in Reqs
  <1>1. resp_q \in Seq(Reqs)
    BY DEF OwnerInv, Shapes
  <1>2. QED
    BY <1>1, LenProperties, ElementOfSeq DEF OwnerInv, Shapes

(* The elements of a queue with one more.                                  *)
LEMMA AppendedElements ==
  ASSUME NEW S, NEW q \in Seq(S), NEW e \in S
  PROVE  /\ DOMAIN Append(q, e) = 1 .. Len(q) + 1 /\ Len(q) \in Nat /\ DOMAIN q = 1 .. Len(q)
         /\ Append(q, e)[Len(q) + 1] = e
         /\ \A i \in DOMAIN q : i \in DOMAIN Append(q, e) /\ Append(q, e)[i] = q[i]
         /\ \A i \in DOMAIN Append(q, e) : i = Len(q) + 1 \/ i \in DOMAIN q
  OBVIOUS

(* Those of a queue without its first.                                     *)
LEMMA TailElements ==
  ASSUME NEW S, NEW q \in Seq(S), q # <<>>
  PROVE  /\ DOMAIN Tail(q) = 1 .. Len(q) - 1 /\ Len(q) \in Nat /\ DOMAIN q = 1 .. Len(q)
         /\ \A i \in DOMAIN Tail(q) : Tail(q)[i] = q[i + 1] /\ i + 1 \in DOMAIN q
         /\ Head(q) = q[1] /\ 1 \in DOMAIN q
  BY HeadTailProperties, LenProperties, EmptySeq

(* r asks for what one of the requests on their way asks for.              *)
OldAsk(r) == \E y \in InFlight : SameAsk(r, y[4])

(* Where requests are found,                                               *)
LEMMA PlacesAsk ==
  /\ \A p \in PortIds : pipe[p].valid => OldAsk(pipe[p])
  /\ \A p \in PortIds : hit_pend[p].valid => OldAsk(hit_pend[p])
  /\ \A i \in DOMAIN resp_q : OldAsk(resp_q[i])
  /\ \A m \in MshrIds : \A i \in DOMAIN mshr[m].waiters : OldAsk(mshr[m].waiters[i])
  <1>1. \A x \in InFlight : OldAsk(x[4])
    BY DEF OldAsk, SameAsk
  <1>2. \A p \in PortIds : pipe[p].valid => OldAsk(pipe[p])
    <2> SUFFICES ASSUME NEW p \in PortIds, pipe[p].valid PROVE OldAsk(pipe[p])
      OBVIOUS
    <2>1. PICK x \in InFlight : x = <<"pipe", p, 0, pipe[p]>>
      BY InFlightCases
    <2> QED
      BY <1>1, <2>1
  <1>3. \A p \in PortIds : hit_pend[p].valid => OldAsk(hit_pend[p])
    <2> SUFFICES ASSUME NEW p \in PortIds, hit_pend[p].valid PROVE OldAsk(hit_pend[p])
      OBVIOUS
    <2>1. PICK x \in InFlight : x = <<"hit", p, 0, hit_pend[p]>>
      BY InFlightCases
    <2> QED
      BY <1>1, <2>1
  <1>4. \A i \in DOMAIN resp_q : OldAsk(resp_q[i])
    <2> SUFFICES ASSUME NEW i \in DOMAIN resp_q PROVE OldAsk(resp_q[i])
      OBVIOUS
    <2>1. PICK x \in InFlight : x = <<"resp", 0, i, resp_q[i]>>
      BY InFlightCases
    <2> QED
      BY <1>1, <2>1
  <1>5. \A m \in MshrIds : \A i \in DOMAIN mshr[m].waiters : OldAsk(mshr[m].waiters[i])
    <2> SUFFICES ASSUME NEW m \in MshrIds, NEW i \in DOMAIN mshr[m].waiters
                 PROVE  OldAsk(mshr[m].waiters[i])
      OBVIOUS
    <2>1. PICK x \in InFlight : x = <<"miss", m, i, mshr[m].waiters[i]>>
      BY InFlightCases
    <2> QED
      BY <1>1, <2>1
  <1>6. QED
    BY <1>2, <1>3, <1>4, <1>5

(* and where they are after a step that brings none.                       *)
LEMMA PlacesKeep ==
  ASSUME \A p \in PortIds : pipe'[p].valid => OldAsk(pipe'[p]),
         \A p \in PortIds : hit_pend'[p].valid => OldAsk(hit_pend'[p]),
         \A i \in DOMAIN resp_q' : OldAsk(resp_q'[i]),
         \A m \in MshrIds : \A i \in DOMAIN mshr'[m].waiters : OldAsk(mshr'[m].waiters[i])
  PROVE  NoneIsNew
  <1> SUFFICES ASSUME NEW x \in InFlight' PROVE OldAsk(x[4])
    BY DEF NoneIsNew, OldAsk
  <1>1. QED
    BY InFlightCasesNext

(* A request that has been given a value asks as before.                   *)
LEMMA RespIsOld ==
  ASSUME NEW r \in Reqs, NEW v, OldAsk(r)
  PROVE  OldAsk(Resp(r, v))
  BY RespAsks DEF OldAsk, SameAsk

(* No step of the cache brings a request.                                  *)
LEMMA JoinsBringsNone ==
  ASSUME OwnerInv, NEW p \in PortIds, NEW m \in MshrIds, Joins(p, m)
  PROVE  NoneIsNew
  <1>1. UNCHANGED <<hit_pend, resp_q>> /\ OldAsk(pipe[p])
    BY PlacesAsk DEF Joins, Leaves
  <1>2. \A q \in PortIds : pipe'[q].valid => OldAsk(pipe'[q])
    BY PlacesAsk DEF Joins, Leaves
  <1>3. \A i \in DOMAIN mshr'[m].waiters : OldAsk(mshr'[m].waiters[i])
    <2> DEFINE ws == mshr[m].waiters
               e  == pipe[p]
    <2>1. ws \in Seq(Reqs) /\ e \in Reqs /\ mshr'[m].waiters = Append(ws, e)
      BY WaitersAreRequests, PlacesAreRequests DEF Joins
    <2>2. \A i \in DOMAIN ws : OldAsk(ws[i])
      BY PlacesAsk
    <2>3. OldAsk(e)
      BY <1>1
    <2> HIDE DEF ws, e
    <2> QED
      BY <2>1, <2>2, <2>3, AppendedElements
  <1>4. \A n \in MshrIds : n # m => mshr'[n].waiters = mshr[n].waiters
    BY DEF Joins
  <1>5. \A n \in MshrIds : \A i \in DOMAIN mshr'[n].waiters : OldAsk(mshr'[n].waiters[i])
    BY <1>3, <1>4, PlacesAsk
  <1>6. \A q \in PortIds : hit_pend'[q].valid => OldAsk(hit_pend'[q])
    BY <1>1, PlacesAsk
  <1>7. \A i \in DOMAIN resp_q' : OldAsk(resp_q'[i])
    BY <1>1, PlacesAsk
  <1>8. QED
    BY <1>2, <1>5, <1>6, <1>7, PlacesKeep

(* not a hit,                                                              *)
LEMMA HitsBringNone ==
  ASSUME OwnerInv, NEW p \in PortIds, NEW s \in SetIds, NEW w \in WayIds,
         HitsStore(p, s, w) \/ HitsLoad(p, s, w)
  PROVE  NoneIsNew
  <1>1. /\ pipe[p] \in Reqs /\ hit_pend \in [PortIds -> Reqs]
        /\ resp_q \in Seq(Reqs) /\ OldAsk(pipe[p])
    BY PlacesAreRequests, PlacesAsk DEF HitsStore, HitsLoad, Leaves
  <1>2. \A q \in PortIds : pipe'[q].valid => OldAsk(pipe'[q])
    BY PlacesAsk DEF HitsStore, HitsLoad, Leaves
  <1>3. \A n \in MshrIds : mshr'[n].waiters = mshr[n].waiters
    BY DEF HitsStore, HitsLoad, SameWaiters
  <1>4. \A n \in MshrIds : \A i \in DOMAIN mshr'[n].waiters : OldAsk(mshr'[n].waiters[i])
    BY <1>3, PlacesAsk
  <1>5. CASE HitsStore(p, s, w)
    <2> DEFINE e == Resp(pipe[p], 0)
    <2>1. e \in Reqs
      BY <1>1, ConstantsArePositive DEF Resp, Reqs
    <2>2. OldAsk(e)
      BY <1>1, RespIsOld
    <2>3. resp_q' = Append(resp_q, e) /\ UNCHANGED hit_pend
      BY <1>5 DEF HitsStore
    <2> HIDE DEF e
    <2>4. \A i \in DOMAIN resp_q : OldAsk(resp_q[i])
      BY PlacesAsk
    <2>5. \A i \in DOMAIN resp_q' : OldAsk(resp_q'[i])
      BY <1>1, <2>1, <2>2, <2>3, <2>4, AppendedElements
    <2>6. \A q \in PortIds : hit_pend'[q].valid => OldAsk(hit_pend'[q])
      BY <2>3, PlacesAsk
    <2> QED
      BY <1>2, <1>4, <2>5, <2>6, PlacesKeep
  <1>6. CASE HitsLoad(p, s, w)
    <2>1. /\ UNCHANGED resp_q
          /\ hit_pend'[p] = Resp(pipe[p], cache[s][w].data[WordOf(pipe[p].addr)])
          /\ \A q \in PortIds : q # p => hit_pend'[q] = hit_pend[q]
      BY <1>6 DEF HitsLoad
    <2>2. OldAsk(hit_pend'[p])
      BY <1>1, <2>1, RespIsOld
    <2>3. \A q \in PortIds : hit_pend'[q].valid => OldAsk(hit_pend'[q])
      BY <2>1, <2>2, PlacesAsk
    <2>4. \A i \in DOMAIN resp_q' : OldAsk(resp_q'[i])
      BY <2>1, PlacesAsk
    <2> QED
      BY <1>2, <1>4, <2>3, <2>4, PlacesKeep
  <1>7. QED
    BY <1>5, <1>6

(* not a miss,                                                             *)
LEMMA EvictsBringsNone ==
  ASSUME OwnerInv, NEW p \in PortIds, NEW s \in SetIds, NEW m \in MshrIds, NEW w \in WayIds,
         Evicts(p, s, m, w)
  PROVE  NoneIsNew
  <1>1. UNCHANGED <<hit_pend, resp_q>> /\ OldAsk(pipe[p])
    BY PlacesAsk DEF Evicts, Leaves
  <1>2. \A q \in PortIds : pipe'[q].valid => OldAsk(pipe'[q])
    BY PlacesAsk DEF Evicts, Leaves
  <1>3. mshr'[m].waiters = <<pipe[p]>>
    BY DEF Evicts
  <1>4. \A i \in DOMAIN mshr'[m].waiters : OldAsk(mshr'[m].waiters[i])
    BY <1>1, <1>3
  <1>5. \A n \in MshrIds : n # m => mshr'[n] = mshr[n]
    BY DEF Evicts
  <1>6. \A n \in MshrIds : \A i \in DOMAIN mshr'[n].waiters : OldAsk(mshr'[n].waiters[i])
    BY <1>4, <1>5, PlacesAsk
  <1>7. \A q \in PortIds : hit_pend'[q].valid => OldAsk(hit_pend'[q])
    BY <1>1, PlacesAsk
  <1>8. \A i \in DOMAIN resp_q' : OldAsk(resp_q'[i])
    BY <1>1, PlacesAsk
  <1>9. QED
    BY <1>2, <1>6, <1>7, <1>8, PlacesKeep

(* not the drain.                                                          *)
LEMMA DrainsBringsNone ==
  ASSUME OwnerInv, NEW m \in MshrIds, Drains(m)
  PROVE  NoneIsNew
  <1> DEFINE ws == mshr[m].waiters
             r  == Head(ws)
             v  == IF r.write THEN 0 ELSE mshr[m].data[WordOf(r.addr)]
             e  == Resp(r, v)
  <1>1. ws \in Seq(Reqs) /\ ws # <<>> /\ resp_q \in Seq(Reqs)
    BY WaitersAreRequests, PlacesAreRequests DEF Drains
  <1>2. r = ws[1] /\ 1 \in DOMAIN ws /\ r \in Reqs
    <2> HIDE DEF ws
    <2> QED
      BY <1>1, TailElements, ElementOfSeq
  <1>3. \A i \in DOMAIN ws : OldAsk(ws[i])
    BY PlacesAsk
  <1>4. OldAsk(r)
    BY <1>2, <1>3
  <1>5. OldAsk(e)
    <2> HIDE DEF r, v
    <2> QED
      BY <1>2, <1>4, RespIsOld
  <1>6. v \in Val
    <2>1. mshr[m].data \in LineData
      BY DEF OwnerInv, Shapes, MshrStates
    <2>2. WordOf(r.addr) \in 0 .. LineWords - 1
      BY <1>2, AddressFacts DEF Reqs
    <2> QED
      BY <2>1, <2>2, ConstantsArePositive DEF LineData
  <1>7. e \in Reqs
    <2> HIDE DEF r, v
    <2> QED
      BY <1>2, <1>6 DEF Resp, Reqs
  <1>8. resp_q' = Append(resp_q, e)
    BY DEF Drains
  <1>9. \A i \in DOMAIN resp_q' : OldAsk(resp_q'[i])
    <2>1. \A i \in DOMAIN resp_q : OldAsk(resp_q[i])
      BY PlacesAsk
    <2> HIDE DEF e
    <2> QED
      BY <1>1, <1>5, <1>7, <1>8, <2>1, AppendedElements
  <1>10. \A i \in DOMAIN mshr'[m].waiters : OldAsk(mshr'[m].waiters[i])
    <2>1. mshr'[m].waiters = Tail(ws) \/ mshr'[m].waiters = <<>>
      BY DEF Drains
    <2> HIDE DEF ws
    <2>2. CASE mshr'[m].waiters = Tail(ws)
      BY <1>1, <1>3, <2>2, TailElements
    <2>3. CASE mshr'[m].waiters = <<>>
      BY <2>3
    <2> QED
      BY <2>1, <2>2, <2>3
  <1>11. UNCHANGED <<pipe, hit_pend>> /\ \A n \in MshrIds : n # m => mshr'[n] = mshr[n]
    BY DEF Drains
  <1>12. \A n \in MshrIds : \A i \in DOMAIN mshr'[n].waiters : OldAsk(mshr'[n].waiters[i])
    BY <1>10, <1>11, PlacesAsk
  <1>13. /\ \A q \in PortIds : hit_pend'[q].valid => OldAsk(hit_pend'[q])
         /\ \A q \in PortIds : pipe'[q].valid => OldAsk(pipe'[q])
    BY <1>11, PlacesAsk
  <1>14. QED
    BY <1>9, <1>12, <1>13, PlacesKeep

(* The queue after load hits have answered.                                *)
LEMMA AnsweredElements ==
  ASSUME OwnerInv, NEW hits \in SUBSET PortIds, HitsAnswer(hits)
  PROVE  \A i \in DOMAIN resp_q' :
           \/ i \in DOMAIN resp_q /\ resp_q'[i] = resp_q[i]
           \/ \E p \in hits : resp_q'[i] = hit_pend[p]
  <1> DEFINE n == Len(resp_q)
             c == Cardinality(hits)
  <1>1. /\ resp_q \in Seq(Reqs) /\ HitAnswers(hits) \in Seq(Reqs)
        /\ resp_q' = resp_q \o HitAnswers(hits)
    BY HitAnswersAreRequests DEF OwnerInv, Shapes, HitsAnswer
  <1>2. n \in Nat /\ c \in Nat /\ DOMAIN resp_q = 1 .. n
    BY <1>1, LenProperties, EveryPortAnswers
  <1>3. /\ Len(HitAnswers(hits)) = c
        /\ \A i \in 1 .. c : HitAnswers(hits)[i] = hit_pend[NthPort(hits, i)]
    BY <1>2 DEF HitAnswers
  <1>4. Len(resp_q') = n + c /\ resp_q' \in Seq(Reqs)
    BY <1>1, <1>3, ConcatProperties
  <1>5. DOMAIN resp_q' = 1 .. n + c
    BY <1>4, LenProperties
  <1>6. \A i \in 1 .. n + c :
          resp_q'[i] = IF i <= n THEN resp_q[i] ELSE HitAnswers(hits)[i - n]
    BY <1>1, <1>3, ConcatProperties
  <1>7. SUFFICES ASSUME NEW i \in 1 .. n + c
                 PROVE  \/ i \in DOMAIN resp_q /\ resp_q'[i] = resp_q[i]
                        \/ \E p \in hits : resp_q'[i] = hit_pend[p]
    BY <1>5
  <1>8. CASE i <= n
    BY <1>2, <1>6, <1>8
  <1>9. CASE ~(i <= n)
    <2>1. i - n \in 1 .. c
      BY <1>2, <1>9
    <2>2. resp_q'[i] = hit_pend[NthPort(hits, i - n)] /\ NthPort(hits, i - n) \in hits
      BY <1>3, <1>6, <1>9, <2>1, NthPortExists
    <2> QED
      BY <2>2
  <1>10. QED
    BY <1>8, <1>9

(* Load hits that answer are no new requests,                              *)
LEMMA AnswersBringNone ==
  ASSUME OwnerInv, NEW hits \in SUBSET PortIds, HitsAnswer(hits), SameWaiters
  PROVE  NoneIsNew
  <1>1. UNCHANGED pipe /\ \A p \in hits : p \in PortIds /\ OldAsk(hit_pend[p])
    BY PlacesAsk DEF HitsAnswer
  <1>2. \A i \in DOMAIN resp_q' : OldAsk(resp_q'[i])
    BY <1>1, PlacesAsk, AnsweredElements
  <1>3. \A q \in PortIds : hit_pend'[q].valid => OldAsk(hit_pend'[q])
    BY PlacesAsk DEF HitsAnswer
  <1>4. \A n \in MshrIds : \A i \in DOMAIN mshr'[n].waiters : OldAsk(mshr'[n].waiters[i])
    BY PlacesAsk DEF SameWaiters
  <1>5. \A q \in PortIds : pipe'[q].valid => OldAsk(pipe'[q])
    BY <1>1, PlacesAsk
  <1>6. QED
    BY <1>2, <1>3, <1>4, <1>5, PlacesKeep

(* nor are those of any other step of the cache.                           *)
LEMMA CacheBringsNone ==
  ASSUME OwnerInv, CacheStep
  PROVE  NoneIsNew /\ SameClient
  <1>1. ASSUME SamePlaces, SameWaiters
        PROVE  NoneIsNew
    <2>1. \A p \in PortIds : pipe'[p].valid => OldAsk(pipe'[p])
      BY <1>1, PlacesAsk DEF SamePlaces
    <2>2. \A p \in PortIds : hit_pend'[p].valid => OldAsk(hit_pend'[p])
      BY <1>1, PlacesAsk DEF SamePlaces
    <2>3. \A i \in DOMAIN resp_q' : OldAsk(resp_q'[i])
      BY <1>1, PlacesAsk DEF SamePlaces
    <2>4. \A m \in MshrIds : \A i \in DOMAIN mshr'[m].waiters : OldAsk(mshr'[m].waiters[i])
      BY <1>1, PlacesAsk DEF SameWaiters
    <2> QED
      BY <2>1, <2>2, <2>3, <2>4, PlacesKeep
  <1>2. CASE Quiet \/ \E hits \in SUBSET PortIds : HitsAnswer(hits) /\ SameTables
    BY <1>1, <1>2, AnswersBringNone DEF Quiet, SameTables, HitsAnswer
  <1>3. CASE \E p \in PortIds, m \in MshrIds : Joins(p, m)
    BY <1>3, JoinsBringsNone DEF Joins
  <1>4. CASE \E p \in PortIds, s \in SetIds, w \in WayIds : HitsStore(p, s, w)
    BY <1>4, HitsBringNone DEF HitsStore
  <1>5. CASE \E p \in PortIds, s \in SetIds, w \in WayIds : HitsLoad(p, s, w)
    BY <1>5, HitsBringNone DEF HitsLoad
  <1>6. CASE \E p \in PortIds, s \in SetIds, m \in MshrIds, w \in WayIds : Evicts(p, s, m, w)
    BY <1>6, EvictsBringsNone DEF Evicts
  <1>7. CASE \E m \in MshrIds, s \in SetIds, w \in WayIds : Installs(m, s, w)
    BY <1>1, <1>7 DEF Installs, SamePlaces
  <1>8. CASE \E m \in MshrIds : Drains(m)
    BY <1>8, DrainsBringsNone DEF Drains
  <1>9. CASE \E m \in MshrIds : Sends(m)
    BY <1>1, <1>9 DEF Sends, SamePlaces
  <1>10. CASE \E hits \in SUBSET PortIds, m \in MshrIds : HitsAnswer(hits) /\ Finishes(m)
    BY <1>10, AnswersBringNone DEF Finishes, HitsAnswer
  <1>11. QED
    BY <1>2, <1>3, <1>4, <1>5, <1>6, <1>7, <1>8, <1>9, <1>10 DEF CacheStep

(* An empty cache has no requests.                                         *)
LEMMA FitInit == CacheInit => FitInv
  <1> SUFFICES ASSUME CacheInit PROVE FitInv
    OBVIOUS
  <1>1. \A m \in MshrIds : mshr[m].waiters = <<>>
    BY DEF CacheInit, FreeMshr
  <1>2. \A p \in PortIds : ~pipe[p].valid /\ ~hit_pend[p].valid
    BY DEF CacheInit, NoReq
  <1>3. resp_q = <<>>
    BY DEF CacheInit
  <1>4. \A x : x \notin InFlight
    BY <1>1, <1>2, <1>3, InFlightCases
  <1>5. \A l \in LoadIds : ~load[l].busy
    BY DEF CacheInit, FreeLoad
  <1>6. QED
    BY <1>4, <1>5 DEF FitInv, RequestsFit, LoadsWaitForStores

(* The requests fit after a step of the cache.                             *)
LEMMA FitCache ==
  ASSUME OwnerInv, FitInv, CacheStep
  PROVE  FitInv'
  <1>1. NoneIsNew /\ SameClient
    BY CacheBringsNone
  <1>2. RequestsFit'
    <2> SUFFICES ASSUME NEW x \in InFlight' PROVE Fits(x[4])'
      BY DEF RequestsFit
    <2>1. PICK y \in InFlight : SameAsk(x[4], y[4])
      BY <1>1 DEF NoneIsNew
    <2>2. Fits(y[4])
      BY DEF FitInv, RequestsFit
    <2> QED
      BY <1>1, <2>1, <2>2 DEF Fits, SameAsk, SameClient, Answers
  <1>3. LoadsWaitForStores'
    BY <1>1 DEF FitInv, LoadsWaitForStores, SameClient, Buffered
  <1>4. QED
    BY <1>2, <1>3 DEF FitInv

(* Where nothing moves no request is new.                                  *)
LEMMA StillPlaces ==
  ASSUME SamePlaces, SameTables
  PROVE  NoneIsNew
  <1>1. InFlight' = InFlight
    BY RequestsStay DEF SamePlaces, SameTables, SameWaiters
  <1>2. QED
    BY <1>1 DEF NoneIsNew, SameAsk

(* Nor when an answer is taken.                                            *)
LEMMA ReceivesBringsNone ==
  ASSUME OwnerInv, Receives
  PROVE  NoneIsNew
  <1>1. resp_q \in Seq(Reqs) /\ resp_q # <<>> /\ resp_q' = Tail(resp_q)
    BY PlacesAreRequests DEF Receives
  <1>2. \A i \in DOMAIN resp_q' : OldAsk(resp_q'[i])
    BY <1>1, PlacesAsk, TailElements
  <1>3. UNCHANGED <<pipe, hit_pend>> /\ SameWaiters
    BY DEF Receives, SameTables
  <1>4. \A p \in PortIds : pipe'[p].valid => OldAsk(pipe'[p])
    BY <1>3, PlacesAsk
  <1>5. \A p \in PortIds : hit_pend'[p].valid => OldAsk(hit_pend'[p])
    BY <1>3, PlacesAsk
  <1>6. \A m \in MshrIds : \A i \in DOMAIN mshr'[m].waiters : OldAsk(mshr'[m].waiters[i])
    BY <1>3, PlacesAsk DEF SameWaiters
  <1>7. QED
    BY <1>2, <1>4, <1>5, <1>6, PlacesKeep

(* The one new request is the one that has been issued.                    *)
LEMMA IssueBringsOne ==
  ASSUME NEW p \in PortIds, UNCHANGED <<hit_pend, resp_q>>, SameTables,
         \A q \in PortIds : q # p => pipe'[q] = pipe[q]
  PROVE  \A x \in InFlight' : x[4] = pipe'[p] \/ OldAsk(x[4])
  <1>1. \A q \in PortIds : pipe'[q].valid => q = p \/ OldAsk(pipe'[q])
    BY PlacesAsk
  <1>2. \A q \in PortIds : hit_pend'[q].valid => OldAsk(hit_pend'[q])
    BY PlacesAsk
  <1>3. \A i \in DOMAIN resp_q' : OldAsk(resp_q'[i])
    BY PlacesAsk
  <1>4. \A m \in MshrIds : \A i \in DOMAIN mshr'[m].waiters : OldAsk(mshr'[m].waiters[i])
    BY PlacesAsk DEF SameTables, SameWaiters
  <1>5. QED
    BY <1>1, <1>2, <1>3, <1>4, InFlightCasesNext

(* A request that is known: of a store that has been sent, or not of a     *)
(* load still to be sent.                                                  *)
LEMMA KnownRequests ==
  ASSUME OwnerInv, RequestInv, FitInv, NEW r, OldAsk(r)
  PROVE  /\ r.write \in BOOLEAN
         /\ r.write => /\ r.id \in SbIds /\ sb[r.id].sent /\ sb[r.id].valid
                       /\ sb[r.id].addr = r.addr
         /\ ~r.write => /\ r.id \in LoadIds /\ r.cookie \in Nat
                        /\ Answers(r) => load[r.id].addr = r.addr
                        /\ load[r.id].busy /\ ~load[r.id].sent =>
                             r.cookie # load[r.id].gen
  <1>1. PICK y \in InFlight : SameAsk(r, y[4])
    BY DEF OldAsk
  <1>2. y[4] \in Reqs
    BY InFlightAreRequests
  <1>3. Fits(y[4])
    BY DEF FitInv, RequestsFit
  <1>4. IF y[4].write
          THEN y[4].id \in SbIds /\ y[4].cookie = 0 /\ sb[y[4].id].sent
          ELSE /\ y[4].id \in LoadIds /\ y[4].cookie <= load[y[4].id].gen
               /\ load[y[4].id].busy /\ ~load[y[4].id].sent =>
                    y[4].cookie < load[y[4].id].gen
    BY DEF RequestInv, RequestsAreKnown
  <1>5. y[4].write \in BOOLEAN /\ y[4].cookie \in Nat
    BY <1>2 DEF Reqs
  <1>6. r.write = y[4].write /\ r.id = y[4].id /\ r.cookie = y[4].cookie /\ r.addr = y[4].addr
    BY <1>1 DEF SameAsk
  <1>7. CASE r.write
    <2>1. r.id \in SbIds /\ sb[r.id].sent /\ sb[r.id].addr = r.addr
      BY <1>3, <1>4, <1>6, <1>7 DEF Fits
    <2> QED
      BY <1>5, <1>6, <1>7, <2>1 DEF RequestInv, SlotsAreFree
  <1>8. CASE ~r.write
    <2>1. r.id \in LoadIds /\ (Answers(r) => load[r.id].addr = r.addr)
      BY <1>3, <1>4, <1>6, <1>8 DEF Fits, Answers
    <2>2. load[r.id].gen \in Nat
      BY <2>1 DEF OwnerInv, Shapes, LoadStates
    <2>3. load[r.id].busy /\ ~load[r.id].sent => r.cookie < load[r.id].gen
      BY <1>4, <1>6, <1>8
    <2>4. load[r.id].busy /\ ~load[r.id].sent => r.cookie # load[r.id].gen
      BY <1>5, <1>6, <2>2, <2>3
    <2> QED
      BY <1>5, <1>6, <1>8, <2>1, <2>4
  <1>9. QED
    BY <1>7, <1>8

(* The requests fit after a step of the load/store queue.                  *)
LEMMA FitClient ==
  ASSUME OwnerInv, RequestInv, RequestInv', FitInv, ClientStep
  PROVE  FitInv'
  <1>1. ASSUME NEW a \in Words, NEW v \in Val, NEW i \in SbIds, Retires(a, v, i)
        PROVE  FitInv'
    <2>1. NoneIsNew
      BY <1>1, StillPlaces DEF Retires
    <2>2. /\ ~sb[i].sent /\ OtherSlots(i) /\ UNCHANGED load /\ sb'[i].addr = a
          /\ \A l \in LoadIds : ~(load[l].busy /\ load[l].addr = a)
      BY <1>1 DEF Retires
    <2>3. RequestsFit'
      <3> SUFFICES ASSUME NEW x \in InFlight' PROVE Fits(x[4])'
        BY DEF RequestsFit
      <3>1. OldAsk(x[4])
        BY <2>1 DEF NoneIsNew, OldAsk
      <3> QED
        BY <2>2, <3>1, KnownRequests DEF Fits, OtherSlots, Answers
    <2>4. LoadsWaitForStores'
      BY <2>2 DEF FitInv, LoadsWaitForStores, Buffered, OtherSlots
    <2> QED
      BY <2>3, <2>4 DEF FitInv
  <1>2. ASSUME NEW l \in LoadIds, ~load'[l].busy \/ ~load'[l].sent, OtherLoads(l),
               NoneIsNew, UNCHANGED sb
        PROVE  RequestsFit'
    <2> SUFFICES ASSUME NEW x \in InFlight' PROVE Fits(x[4])'
      BY DEF RequestsFit
    <2>1. OldAsk(x[4])
      BY <1>2 DEF NoneIsNew, OldAsk
    <2> QED
      BY <1>2, <2>1, KnownRequests DEF Fits, OtherLoads, Answers
  <1>3. ASSUME NEW l \in LoadIds, NEW a \in Words, Starts(l, a)
        PROVE  FitInv'
    <2>1. RequestsFit'
      BY <1>2, <1>3, StillPlaces DEF Starts
    <2>2. ~Buffered(a)
      BY <1>3 DEF Starts, InSb, SbLive, Buffered, RequestInv, SlotsAreFree
    <2>3. /\ UNCHANGED sb /\ load'[l].addr = a
          /\ \A k \in LoadIds : k # l => load'[k] = load[k]
      BY <1>3 DEF Starts, OtherLoads
    <2>4. LoadsWaitForStores'
      BY <2>2, <2>3 DEF FitInv, LoadsWaitForStores, Buffered
    <2> QED
      BY <2>1, <2>4 DEF FitInv
  <1>4. ASSUME NEW l \in LoadIds, ~load'[l].busy, OtherLoads(l), UNCHANGED sb
        PROVE  LoadsWaitForStores'
    BY <1>4 DEF FitInv, LoadsWaitForStores, OtherLoads, Buffered
  <1>5. ASSUME NEW l \in LoadIds, Squashes(l)
        PROVE  FitInv'
    BY <1>2, <1>4, <1>5, StillPlaces DEF Squashes, FitInv
  <1>6. ASSUME NEW p \in PortIds, NEW k \in Unsent, IssuesStore(p, k)
        PROVE  FitInv'
    <2>1. PICK i \in SbIds : i = SbAt(k)
      BY SbAtIsSlot DEF OwnerInv, Shapes, Unsent
    <2>2. /\ pipe'[p].write /\ pipe'[p].id = i /\ pipe'[p].addr = sb[i].addr
          /\ sb'[i].addr = sb[i].addr /\ sb'[i].valid = sb[i].valid
          /\ \A j \in SbIds : j # i => sb'[j] = sb[j]
          /\ UNCHANGED load
      BY <1>6, <2>1 DEF IssuesStore, OtherSlots
    <2>3. \A x \in InFlight' : x[4] = pipe'[p] \/ OldAsk(x[4])
      BY <1>6, IssueBringsOne DEF IssuesStore
    <2>4. RequestsFit'
      <3> SUFFICES ASSUME NEW x \in InFlight' PROVE Fits(x[4])'
        BY DEF RequestsFit
      <3>1. CASE x[4] = pipe'[p]
        BY <2>2, <3>1 DEF Fits
      <3>2. CASE OldAsk(x[4])
        BY <2>2, <3>2, KnownRequests DEF Fits, Answers
      <3> QED
        BY <2>3, <3>1, <3>2
    <2>5. LoadsWaitForStores'
      BY <2>2 DEF FitInv, LoadsWaitForStores, Buffered
    <2> QED
      BY <2>4, <2>5 DEF FitInv
  <1>7. ASSUME NEW p \in PortIds, NEW l \in LoadIds, IssuesLoad(p, l)
        PROVE  FitInv'
    <2>1. /\ ~pipe'[p].write /\ pipe'[p].id = l /\ pipe'[p].addr = load[l].addr
          /\ load[l].busy /\ ~load[l].sent /\ load'[l].gen = load[l].gen
          /\ load'[l].busy /\ load'[l].addr = load[l].addr
          /\ \A k \in LoadIds : k # l => load'[k] = load[k]
          /\ UNCHANGED sb
      BY <1>7 DEF IssuesLoad, OtherLoads
    <2>2. \A x \in InFlight' : x[4] = pipe'[p] \/ OldAsk(x[4])
      BY <1>7, IssueBringsOne DEF IssuesLoad
    <2>3. RequestsFit'
      <3> SUFFICES ASSUME NEW x \in InFlight' PROVE Fits(x[4])'
        BY DEF RequestsFit
      <3>1. CASE x[4] = pipe'[p]
        BY <2>1, <3>1 DEF Fits
      <3>2. CASE OldAsk(x[4])
        BY <2>1, <3>2, KnownRequests DEF Fits, Answers
      <3> QED
        BY <2>2, <3>1, <3>2
    <2>4. LoadsWaitForStores'
      BY <2>1 DEF FitInv, LoadsWaitForStores, Buffered
    <2> QED
      BY <2>3, <2>4 DEF FitInv
  <1>8. CASE Receives
    <2>1. NoneIsNew
      BY <1>8, ReceivesBringsNone
    <2>2. PICK r : r = Head(resp_q)
      OBVIOUS
    <2>3. CASE r.write
      <3>1. /\ r.id \in SbIds /\ UNCHANGED load /\ ~sb'[r.id].valid
            /\ \A j \in SbIds : j # r.id => sb'[j] = sb[j]
        BY <1>8, <2>2, <2>3 DEF Receives, OtherSlots
      <3>2. \A x \in InFlight' : x[4].write => x[4].id # r.id
        BY <3>1 DEF RequestInv, RequestsAreKnown, SlotsAreFree
      <3>3. RequestsFit'
        <4> SUFFICES ASSUME NEW x \in InFlight' PROVE Fits(x[4])'
          BY DEF RequestsFit
        <4>1. OldAsk(x[4])
          BY <2>1 DEF NoneIsNew, OldAsk
        <4> QED
          BY <3>1, <3>2, <4>1, KnownRequests DEF Fits, Answers
      <3>4. LoadsWaitForStores'
        BY <3>1 DEF FitInv, LoadsWaitForStores, Buffered
      <3> QED
        BY <3>3, <3>4 DEF FitInv
    <2>4. CASE ~r.write /\ UNCHANGED <<sb, load>>
      <3>1. RequestsFit'
        <4> SUFFICES ASSUME NEW x \in InFlight' PROVE Fits(x[4])'
          BY DEF RequestsFit
        <4>1. OldAsk(x[4])
          BY <2>1 DEF NoneIsNew, OldAsk
        <4> QED
          BY <2>4, <4>1, KnownRequests DEF Fits, Answers
      <3>2. LoadsWaitForStores'
        BY <2>4 DEF FitInv, LoadsWaitForStores, Buffered
      <3> QED
        BY <3>1, <3>2 DEF FitInv
    <2>5. CASE r.id \in LoadIds /\ UNCHANGED sb /\ ~load'[r.id].busy /\ OtherLoads(r.id)
      BY <1>2, <1>4, <2>1, <2>5 DEF FitInv
    <2> QED
      BY <1>8, <2>2, <2>3, <2>4, <2>5 DEF Receives
  <1>9. ASSUME NEW n \in 0 .. SbDepth, Frees(n)
        PROVE  FitInv'
    <2>1. NoneIsNew /\ UNCHANGED <<sb, load>>
      BY <1>9, StillPlaces DEF Frees
    <2>2. RequestsFit'
      <3> SUFFICES ASSUME NEW x \in InFlight' PROVE Fits(x[4])'
        BY DEF RequestsFit
      <3>1. OldAsk(x[4])
        BY <2>1 DEF NoneIsNew, OldAsk
      <3> QED
        BY <2>1, <3>1, KnownRequests DEF Fits, Answers
    <2>3. LoadsWaitForStores'
      BY <2>1 DEF FitInv, LoadsWaitForStores, Buffered
    <2> QED
      BY <2>2, <2>3 DEF FitInv
  <1>10. QED
    BY <1>1, <1>3, <1>5, <1>6, <1>7, <1>8, <1>9 DEF ClientStep

(* In every step.                                                          *)
LEMMA FitNext ==
  ASSUME OwnerInv, RequestInv, RequestInv', FitInv, [CacheNext]_vars
  PROVE  FitInv'
  BY FitCache, FitClient, StepEffect

-------------------------------------------------------------------------------
(* The newest value of a word, in the steps of the cache.                  *)

StoreFor(r, a) == r.valid /\ r.write /\ r.addr = a
SamePiped(a) ==
  \A p \in PortIds : /\ StoreFor(pipe'[p], a) <=> StoreFor(pipe[p], a)
                     /\ StoreFor(pipe[p], a) => pipe'[p].val = pipe[p].val
(* Those that wait for a are as they were, or not for a.                   *)
SameAwaited(a) ==
  \A m \in MshrIds :
    \/ /\ mshr'[m].waiters = mshr[m].waiters /\ (mshr'[m].valid <=> mshr[m].valid)
       /\ mshr'[m].fill = "draining" <=> mshr[m].fill = "draining"
    \/ /\ \A i \in DOMAIN mshr[m].waiters : ~WaitsFor(mshr[m].waiters[i], a)
       /\ \A i \in DOMAIN mshr'[m].waiters : ~WaitsFor(mshr'[m].waiters[i], a)
    \/ ~mshr[m].valid /\ \A i \in DOMAIN mshr'[m].waiters : ~WaitsFor(mshr'[m].waiters[i], a)
    \/ mshr[m].fill = "draining" /\ (mshr'[m].valid => mshr'[m].fill = "draining")
SameFound(line, x) ==
  /\ \A u \in WayIds :
       /\ HoldsNext(SetOf(line), u, line) <=> Holds(SetOf(line), u, line)
       /\ Holds(SetOf(line), u, line) =>
            cache'[SetOf(line)][u].data[x] = cache[SetOf(line)][u].data[x]
  /\ \A m \in MshrIds : /\ EvictingNext(m, line) <=> Evicting(m, line)
                        /\ Evicting(m, line) => mshr'[m].wb_data[x] = mshr[m].wb_data[x]
  /\ memory'[line][x] = memory[line][x]

(* What is found stays.                                                    *)
LEMMA FoundStays ==
  ASSUME NEW line, NEW x, SameFound(line, x), NEW v, Found(line, x, v)
  PROVE  Found(line, x, v)'
  <1>1. /\ \A u \in WayIds : /\ Holds(SetOf(line), u, line)' <=> HoldsNext(SetOf(line), u, line)
        /\ \A m \in MshrIds : Evicting(m, line)' <=> EvictingNext(m, line)
    BY DEF Holds, HoldsNext, Evicting, EvictingNext
  <1>2. \A u \in WayIds : Holds(SetOf(line), u, line)' => cache'[SetOf(line)][u].data[x] = v
    BY <1>1 DEF SameFound, Found
  <1>3. ASSUME \A u \in WayIds : ~Holds(SetOf(line), u, line)'
        PROVE  /\ \A m \in MshrIds : Evicting(m, line)' => mshr'[m].wb_data[x] = v
               /\ (\A m \in MshrIds : ~Evicting(m, line)') => memory'[line][x] = v
    <2>1. \A u \in WayIds : ~Holds(SetOf(line), u, line)
      BY <1>1, <1>3 DEF SameFound
    <2> QED
      BY <1>1, <2>1 DEF SameFound, Found
  <1>4. QED
    BY <1>2, <1>3 DEF Found

(* What is in the pipes stays.                                             *)
LEMMA PipedStays ==
  ASSUME NEW a, SamePiped(a)
  PROVE  /\ Piped(a)' <=> Piped(a)
         /\ \A v : PipedHas(a, v) => PipedHas(a, v)'
  <1>1. Piped(a)' <=> Piped(a)
    BY DEF SamePiped, Piped, StoreFor
  <1>2. ASSUME NEW v, PipedHas(a, v)
        PROVE  PipedHas(a, v)'
    BY <1>2 DEF SamePiped, PipedHas, StoreFor
  <1>3. QED
    BY <1>1, <1>2

(* What is awaited stays.                                                  *)
LEMMA AwaitedStays ==
  ASSUME NEW a, SameAwaited(a)
  PROVE  /\ Awaited(a)' <=> Awaited(a)
         /\ \A v : AwaitedHas(a, v) => AwaitedHas(a, v)'
  <1>1. Awaited(a)' <=> Awaited(a)
    BY DEF SameAwaited, Awaited, Fetching
  <1>2. ASSUME NEW v, AwaitedHas(a, v), NEW m \in MshrIds, Fetching(m)'
        PROVE  LastHas(mshr[m].waiters, a, v)'
    <2>1. CASE mshr'[m].waiters = mshr[m].waiters /\ Fetching(m)
      BY <1>2, <2>1 DEF AwaitedHas, LastHas
    <2>2. CASE \A i \in DOMAIN mshr'[m].waiters : ~WaitsFor(mshr'[m].waiters[i], a)
      BY <2>2 DEF LastHas
    <2>3. \/ mshr'[m].waiters = mshr[m].waiters /\ Fetching(m)
          \/ \A i \in DOMAIN mshr'[m].waiters : ~WaitsFor(mshr'[m].waiters[i], a)
      BY <1>2 DEF SameAwaited, Fetching
    <2> QED
      BY <2>1, <2>2, <2>3
  <1>3. QED
    BY <1>1, <1>2 DEF AwaitedHas

(* The newest value stays where it is,                                     *)
LEMMA NewestStays ==
  ASSUME NEW a, IsNewest(a), committed'[a] = committed[a], ToSend(a)' => ToSend(a),
         ToSend(a) => ToSend(a)',
         SamePiped(a), SameAwaited(a), SameFound(LineOf(a), WordOf(a))
  PROVE  IsNewest(a)'
  <1>1. PICK c : c = committed[a]
    OBVIOUS
  <1>2. SUFFICES ASSUME ~ToSend(a)'
                 PROVE  /\ PipedHas(a, c)'
                        /\ ~Piped(a)' => /\ AwaitedHas(a, c)'
                                         /\ ~Awaited(a)' => Found(LineOf(a), WordOf(a), c)'
    BY <1>1 DEF IsNewest, PipedHas, AwaitedHas, LastHas, Found
  <1>3. /\ PipedHas(a, c)
        /\ ~Piped(a) => AwaitedHas(a, c) /\ (~Awaited(a) => Found(LineOf(a), WordOf(a), c))
    BY <1>1, <1>2 DEF IsNewest
  <1>4. QED
    BY <1>3, PipedStays, AwaitedStays, FoundStays

(* or is shown to be there.                                                *)
LEMMA NewestShown ==
  ASSUME NEW a, NEW c, committed'[a] = c,
         ~ToSend(a)' => /\ PipedHas(a, c)'
                        /\ ~Piped(a)' => /\ AwaitedHas(a, c)'
                                         /\ ~Awaited(a)' => Found(LineOf(a), WordOf(a), c)'
  PROVE  IsNewest(a)'
  BY DEF IsNewest, PipedHas, AwaitedHas, LastHas, Found

(* The client's stores to be sent.                                         *)
LEMMA ToSendStays ==
  ASSUME SameClient
  PROVE  /\ \A a : (ToSend(a)' => ToSend(a)) /\ (ToSend(a) => ToSend(a)')
         /\ ToSendIsNewest => ToSendIsNewest'
         /\ \A a : committed'[a] = committed[a]
  <1>1. UNCHANGED <<sb, sb_head, sb_count, committed>>
    BY DEF SameClient
  <1>2. Unsent' = Unsent /\ \A k : SbAt(k)' = SbAt(k)
    BY <1>1 DEF Unsent, SbAt
  <1>3. ToSendIsNewest => ToSendIsNewest'
    BY <1>1 DEF ToSendIsNewest, Unsent, SbAt
  <1>4. QED
    BY <1>1, <1>3 DEF ToSend

(* Line and word determine the address.                                    *)
LEMMA AddressesDiffer ==
  \A a, b \in Words : LineOf(a) = LineOf(b) /\ WordOf(a) = WordOf(b) => a = b
  <1> SUFFICES ASSUME NEW a \in Words, NEW b \in Words,
                      LineOf(a) = LineOf(b), WordOf(a) = WordOf(b)
               PROVE  a = b
    OBVIOUS
  <1>1. a \in Nat /\ b \in Nat
    BY ConstantsArePositive DEF Words
  <1>2. \A c \in Nat : c = LineWords * (c \div LineWords) + (c % LineWords)
    BY ConstantsArePositive
  <1>3. a = LineWords * (a \div LineWords) + (a % LineWords)
    BY <1>1, <1>2
  <1>4. b = LineWords * (b \div LineWords) + (b % LineWords)
    BY <1>1, <1>2
  <1>5. a \div LineWords = b \div LineWords /\ a % LineWords = b % LineWords
    BY DEF LineOf, WordOf
  <1>6. QED
    BY <1>3, <1>4, <1>5

(* A request that leaves its pipe and is no store of the word a.           *)
LEMMA OtherLeaves ==
  ASSUME NEW p \in PortIds, Leaves(p), NEW a, ~StoreFor(pipe[p], a)
  PROVE  SamePiped(a)
  BY DEF Leaves, SamePiped, StoreFor

(* A store that leaves its pipe: those in other pipes stay.                *)
LEMMA StoreLeaves ==
  ASSUME NEW p \in PortIds, Leaves(p), NEW a, NEW v, PipedHas(a, v)
  PROVE  PipedHas(a, v)'
  BY DEF Leaves, PipedHas

(* The lines are as before.                                                *)
LEMMA SameLinesFound ==
  ASSUME SameLines, NEW line, NEW x
  PROVE  SameFound(line, x)
  BY DEF SameLines, SameFetch, SameFound, Holds, HoldsNext, Evicting, EvictingNext

(* Who waits for another line waits for no word of this.                   *)
LEMMA OthersWait ==
  ASSUME OwnerInv, LineInv, NEW m \in MshrIds, NEW a, mshr[m].line # LineOf(a)
  PROVE  \A i \in DOMAIN mshr[m].waiters : ~WaitsFor(mshr[m].waiters[i], a)
  BY DEF LineInv, WaitersAreHome, WaitsFor

(* No one waits for a line that no register has.                           *)
LEMMA NobodyWaits ==
  ASSUME OwnerInv, LineInv, NEW a, MshrOf(LineOf(a)) = {}, NEW m \in MshrIds
  PROVE  \A i \in DOMAIN mshr[m].waiters : ~WaitsFor(mshr[m].waiters[i], a)
  <1>1. CASE mshr[m].valid
    BY <1>1, OthersWait DEF MshrOf
  <1>2. CASE ~mshr[m].valid
    BY <1>2 DEF OwnerInv, Waiters
  <1>3. mshr[m].valid \in BOOLEAN
    BY DEF OwnerInv, Shapes, MshrStates
  <1>4. QED
    BY <1>1, <1>2

(* The newest of a list with one more.                                     *)
LEMMA AppendHas ==
  ASSUME NEW ws \in Seq(Reqs), NEW e \in Reqs, NEW a, NEW v
  PROVE  /\ WaitsFor(e, a) /\ e.val = v => LastHas(Append(ws, e), a, v)
         /\ ~WaitsFor(e, a) /\ LastHas(ws, a, v) => LastHas(Append(ws, e), a, v)
  <1> DEFINE n == Len(ws)
             t == Append(ws, e)
  <1>1. /\ DOMAIN t = 1 .. n + 1 /\ n \in Nat /\ DOMAIN ws = 1 .. n /\ t[n + 1] = e
        /\ \A i \in DOMAIN ws : i \in DOMAIN t /\ t[i] = ws[i]
        /\ \A i \in DOMAIN t : i = n + 1 \/ i \in DOMAIN ws
    BY AppendedElements
  <1> HIDE DEF n, t
  <1>2. ASSUME WaitsFor(e, a), e.val = v
        PROVE  LastHas(t, a, v)
    <2> SUFFICES ASSUME NEW i \in DOMAIN t, \A j \in DOMAIN t : WaitsFor(t[j], a) => j <= i
                 PROVE  t[i].val = v
      BY DEF LastHas
    <2>1. n + 1 \in DOMAIN t /\ n + 1 <= i
      BY <1>1, <1>2
    <2>2. i = n + 1
      BY <1>1, <2>1
    <2> QED
      BY <1>1, <1>2, <2>2
  <1>3. ASSUME ~WaitsFor(e, a), LastHas(ws, a, v)
        PROVE  LastHas(t, a, v)
    <2> SUFFICES ASSUME NEW i \in DOMAIN t, WaitsFor(t[i], a),
                        \A j \in DOMAIN t : WaitsFor(t[j], a) => j <= i
                 PROVE  t[i].val = v
      BY DEF LastHas
    <2>1. i \in DOMAIN ws /\ t[i] = ws[i]
      BY <1>1, <1>3
    <2>2. \A j \in DOMAIN ws : WaitsFor(ws[j], a) => j <= i
      BY <1>1
    <2> QED
      BY <1>3, <2>1, <2>2 DEF LastHas
  <1>4. QED
    BY <1>2, <1>3 DEF t

(* A request joins those that wait: a store is the newest of them.         *)
LEMMA JoinNewest ==
  ASSUME OwnerInv, LineInv, NEW p \in PortIds, NEW m \in MshrIds, Joins(p, m),
         NEW a \in Words, IsNewest(a)
  PROVE  IsNewest(a)'
  <1>1. SameClient /\ Leaves(p) /\ SameLines
    BY DEF Joins
  <1>2. PICK ws \in Seq(Reqs) : ws = mshr[m].waiters
    BY WaitersAreRequests
  <1>3. PICK e \in Reqs : e = pipe[p]
    BY PlacesAreRequests
  <1>4. /\ mshr'[m].waiters = Append(ws, e) /\ e.valid
        /\ mshr[m].line = LineOf(e.addr) /\ Fetching(m) /\ Fetching(m)'
        /\ \A n \in MshrIds : n # m => mshr'[n].waiters = mshr[n].waiters
        /\ \A n \in MshrIds : mshr'[n].valid = mshr[n].valid /\ mshr'[n].fill = mshr[n].fill
    BY <1>2, <1>3 DEF Joins, Leaves, Fetching, SameLines, SameFetch
  <1>5. PICK c : c = committed[a]
    OBVIOUS
  <1>6. CASE WaitsFor(e, a)
    <2>1. e.addr = a /\ e.write
      BY <1>6 DEF WaitsFor
    <2>2. SUFFICES ASSUME ~ToSend(a)
                   PROVE  PipedHas(a, c)' /\ AwaitedHas(a, c)' /\ Awaited(a)'
      <3>1. committed'[a] = c /\ (~ToSend(a)' => ~ToSend(a))
        BY <1>1, <1>5, ToSendStays
      <3> QED
        BY <2>2, <3>1, NewestShown
    <2>3. PipedHas(a, c)
      BY <1>5, <2>2 DEF IsNewest
    <2>4. PipedHas(a, c)'
      BY <1>1, <2>3, StoreLeaves
    <2>5. e.val = c
      BY <1>3, <1>4, <2>1, <2>3 DEF PipedHas
    <2>6. LastHas(Append(ws, e), a, c)
      BY <1>6, <2>5, AppendHas
    <2>7. AwaitedHas(a, c)'
      <3> SUFFICES ASSUME NEW n \in MshrIds, Fetching(n)'
                   PROVE  LastHas(mshr[n].waiters, a, c)'
        BY DEF AwaitedHas
      <3>1. CASE n = m
        BY <1>4, <2>6, <3>1 DEF LastHas
      <3>2. CASE n # m
        <4>1. mshr[n].valid /\ mshr'[n].waiters = mshr[n].waiters
          BY <1>4, <3>2 DEF Fetching
        <4>2. mshr[n].line # LineOf(a)
          BY <1>4, <2>1, <3>2, <4>1 DEF OwnerInv, MissesDiffer, Fetching
        <4> QED
          BY <4>1, <4>2, OthersWait DEF LastHas
      <3> QED
        BY <3>1, <3>2
    <2>8. Awaited(a)'
      <3>1. Len(ws) + 1 \in DOMAIN mshr'[m].waiters /\ mshr'[m].waiters[Len(ws) + 1] = e
        BY <1>4, AppendedElements
      <3> QED
        BY <1>4, <1>6, <3>1 DEF Awaited
    <2> QED
      BY <2>4, <2>7, <2>8
  <1>7. CASE ~WaitsFor(e, a)
    <2>1. SamePiped(a)
      BY <1>1, <1>3, <1>7, OtherLeaves DEF StoreFor, WaitsFor
    <2>2. Found(LineOf(a), WordOf(a), c) => Found(LineOf(a), WordOf(a), c)'
      BY <1>1, SameLinesFound, FoundStays
    <2>3. AwaitedHas(a, c) => AwaitedHas(a, c)'
      <3> SUFFICES ASSUME AwaitedHas(a, c), NEW n \in MshrIds, Fetching(n)'
                   PROVE  LastHas(mshr[n].waiters, a, c)'
        BY DEF AwaitedHas
      <3>1. Fetching(n)
        BY <1>4 DEF Fetching
      <3>2. CASE n = m
        <4>1. LastHas(ws, a, c)
          BY <1>2, <3>1, <3>2 DEF AwaitedHas
        <4>2. LastHas(Append(ws, e), a, c)
          BY <1>7, <4>1, AppendHas
        <4> QED
          BY <1>4, <3>2, <4>2 DEF LastHas
      <3>3. CASE n # m
        BY <1>4, <3>1, <3>3 DEF AwaitedHas, LastHas
      <3> QED
        BY <3>2, <3>3
    <2>4. Awaited(a) => Awaited(a)'
      <3> SUFFICES ASSUME NEW n \in MshrIds, Fetching(n), NEW i \in DOMAIN mshr[n].waiters,
                          WaitsFor(mshr[n].waiters[i], a)
                   PROVE  Awaited(a)'
        BY DEF Awaited
      <3>1. Fetching(n)'
        BY <1>4 DEF Fetching
      <3>2. i \in DOMAIN mshr'[n].waiters /\ mshr'[n].waiters[i] = mshr[n].waiters[i]
        BY <1>2, <1>4, AppendedElements
      <3> QED
        BY <3>1, <3>2 DEF Awaited
    <2>5. committed'[a] = c /\ (~ToSend(a)' => ~ToSend(a))
      BY <1>1, <1>5, ToSendStays
    <2>6. ASSUME ~ToSend(a)
          PROVE  /\ PipedHas(a, c)'
                 /\ ~Piped(a)' => /\ AwaitedHas(a, c)'
                                  /\ ~Awaited(a)' => Found(LineOf(a), WordOf(a), c)'
      <3>1. /\ PipedHas(a, c)
            /\ ~Piped(a) => AwaitedHas(a, c) /\ (~Awaited(a) => Found(LineOf(a), WordOf(a), c))
        BY <1>5, <2>6 DEF IsNewest
      <3> QED
        BY <2>1, <2>2, <2>3, <2>4, <3>1, PipedStays
    <2> QED
      BY <2>5, <2>6, NewestShown
  <1>8. QED
    BY <1>6, <1>7

(* A store hits: it is in the way now.                                     *)
LEMMA HitStoreNewest ==
  ASSUME OwnerInv, LineInv, NEW p \in PortIds, NEW s \in SetIds, NEW w \in WayIds,
         HitsStore(p, s, w), NEW a \in Words, IsNewest(a)
  PROVE  IsNewest(a)'
  <1>1. SameClient /\ Leaves(p) /\ UNCHANGED <<dram, memory, mshr>> /\ pipe[p].write
    BY DEF HitsStore
  <1>2. PICK e \in Reqs : e = pipe[p]
    BY PlacesAreRequests
  <1>3. PICK b \in Words : b = e.addr
    BY DEF Reqs
  <1>4. PICK line \in Lines : line = LineOf(b)
    BY AddressFacts
  <1>5. /\ s = SetOf(line) /\ Holds(s, w, line) /\ MshrOf(line) = {}
        /\ cache'[s][w].valid /\ ~cache'[s][w].reserved /\ cache'[s][w].line = line
        /\ cache'[s][w].data = Stored(cache[s][w].data, e)
        /\ \A r \in SetIds, v \in WayIds : r # s \/ v # w => cache'[r][v] = cache[r][v]
    BY <1>2, <1>3, <1>4 DEF HitsStore, Holds
  <1>6. PICK d \in LineData : d = cache[s][w].data
    BY DEF OwnerInv, Shapes, WayStates
  <1>7. \A x \in 0 .. LineWords - 1 :
          Stored(d, e)[x] = IF x = WordOf(b) THEN e.val ELSE d[x]
    BY <1>3 DEF Stored, LineData
  <1>8. SameAwaited(a)
    BY <1>1 DEF SameAwaited
  <1>9. \A u \in WayIds : u # w => ~Holds(s, u, line)
    BY <1>5 DEF OwnerInv, LinesAreHome, Holds
  <1>10. WordOf(a) \in 0 .. LineWords - 1 /\ LineOf(a) \in Lines /\ SetOf(LineOf(a)) \in SetIds
    BY AddressFacts
  <1>11. CASE a = b
    <2>1. PICK c : c = committed[a]
      OBVIOUS
    <2>2. SUFFICES ASSUME ~ToSend(a)
                   PROVE  PipedHas(a, c)' /\ AwaitedHas(a, c)' /\ Found(LineOf(a), WordOf(a), c)'
      <3>1. committed'[a] = c /\ (~ToSend(a)' => ~ToSend(a))
        BY <1>1, <2>1, ToSendStays
      <3> QED
        BY <2>2, <3>1, NewestShown
    <2>3. PipedHas(a, c)
      BY <2>1, <2>2 DEF IsNewest
    <2>4. e.val = c
      BY <1>1, <1>2, <1>3, <1>11, <2>3 DEF PipedHas, Leaves
    <2>5. AwaitedHas(a, c)
      BY <1>4, <1>5, <1>11, NobodyWaits DEF AwaitedHas, LastHas
    <2>6. \A u \in WayIds : HoldsNext(s, u, line) <=> u = w
      BY <1>5, <1>9 DEF HoldsNext, Holds
    <2>7. cache'[s][w].data[WordOf(a)] = c
      BY <1>5, <1>6, <1>7, <1>10, <1>11, <2>4
    <2>8. Found(line, WordOf(a), c)'
      BY <1>5, <2>6, <2>7 DEF Found, Holds, HoldsNext
    <2> QED
      BY <1>1, <1>4, <1>8, <1>11, <2>3, <2>5, <2>8, StoreLeaves, AwaitedStays
  <1>12. CASE a # b
    <2>1. SamePiped(a)
      BY <1>1, <1>2, <1>3, <1>12, OtherLeaves DEF StoreFor
    <2>2. CASE LineOf(a) = line
      <3>1. WordOf(a) # WordOf(b)
        BY <1>4, <1>12, <2>2, AddressesDiffer
      <3>2. cache'[s][w].data[WordOf(a)] = cache[s][w].data[WordOf(a)]
        BY <1>5, <1>6, <1>7, <1>10, <3>1
      <3>3. \A u \in WayIds : HoldsNext(s, u, line) <=> Holds(s, u, line)
        BY <1>5 DEF HoldsNext, Holds
      <3>4. \A u \in WayIds : Holds(s, u, line) =>
              cache'[s][u].data[WordOf(a)] = cache[s][u].data[WordOf(a)]
        BY <1>9, <3>2
      <3>5. SameFound(line, WordOf(a))
        BY <1>1, <1>5, <3>3, <3>4 DEF SameFound, Evicting, EvictingNext
      <3> QED
        BY <1>1, <1>8, <2>1, <2>2, <3>5, NewestStays, ToSendStays
    <2>3. CASE LineOf(a) # line
      <3>1. SameFound(LineOf(a), WordOf(a))
        BY <1>1, <1>5, <1>10, <2>3 DEF SameFound, Evicting, EvictingNext, Holds, HoldsNext
      <3> QED
        BY <1>1, <1>8, <2>1, <3>1, NewestStays, ToSendStays
    <2> QED
      BY <2>2, <2>3
  <1>13. QED
    BY <1>11, <1>12

(* Steps that leave the lines and who waits as they are.                   *)
LEMMA TablesNewest ==
  ASSUME SameTables, SameClient, NEW a \in Words, SamePiped(a), IsNewest(a)
  PROVE  IsNewest(a)'
  <1>1. SameAwaited(a)
    BY DEF SameTables, SameLines, SameWaiters, SameFetch, SameAwaited
  <1>2. SameFound(LineOf(a), WordOf(a))
    BY SameLinesFound DEF SameTables
  <1>3. QED
    BY <1>1, <1>2, NewestStays, ToSendStays

(* A miss evicts a way: the write-back has what the way had.               *)
LEMMA EvictNewest ==
  ASSUME OwnerInv, LineInv, NEW p \in PortIds, NEW s \in SetIds, NEW m \in MshrIds,
         NEW w \in WayIds, Evicts(p, s, m, w), NEW a \in Words, IsNewest(a)
  PROVE  IsNewest(a)'
  <1>1. SameClient /\ Leaves(p) /\ UNCHANGED <<dram, memory>>
    BY DEF Evicts
  <1>2. PICK e \in Reqs : e = pipe[p]
    BY PlacesAreRequests
  <1>3. PICK c : c = committed[a]
    OBVIOUS
  <1>4. /\ \A n \in MshrIds : n # m => mshr'[n] = mshr[n]
        /\ ~mshr[m].valid /\ mshr'[m].valid /\ mshr'[m].fill = "wanted"
        /\ mshr'[m].waiters = <<e>> /\ MshrOf(LineOf(e.addr)) = {}
    BY <1>2 DEF Evicts
  <1>5. DOMAIN <<e>> = {1} /\ <<e>>[1] = e
    OBVIOUS
  <1>6. CASE WaitsFor(e, a)
    <2>1. e.addr = a /\ e.write
      BY <1>6 DEF WaitsFor
    <2>2. SUFFICES ASSUME ~ToSend(a)
                   PROVE  PipedHas(a, c)' /\ AwaitedHas(a, c)' /\ Awaited(a)'
      <3>1. committed'[a] = c /\ (~ToSend(a)' => ~ToSend(a))
        BY <1>1, <1>3, ToSendStays
      <3> QED
        BY <2>2, <3>1, NewestShown
    <2>3. PipedHas(a, c)
      BY <1>3, <2>2 DEF IsNewest
    <2>4. e.val = c
      BY <1>1, <1>2, <2>1, <2>3 DEF PipedHas, Leaves
    <2>5. AwaitedHas(a, c)'
      <3> SUFFICES ASSUME NEW n \in MshrIds, Fetching(n)'
                   PROVE  LastHas(mshr[n].waiters, a, c)'
        BY DEF AwaitedHas
      <3>1. CASE n = m
        BY <1>4, <1>5, <2>4, <3>1 DEF LastHas
      <3>2. CASE n # m
        BY <1>4, <2>1, <3>2, NobodyWaits DEF LastHas
      <3> QED
        BY <3>1, <3>2
    <2>6. Awaited(a)'
      BY <1>4, <1>5, <1>6 DEF Awaited, Fetching
    <2> QED
      BY <1>1, <2>3, <2>5, <2>6, StoreLeaves
  <1>7. CASE ~WaitsFor(e, a)
    <2>1. SamePiped(a)
      BY <1>1, <1>2, <1>7, OtherLeaves DEF StoreFor, WaitsFor
    <2>2. SameAwaited(a)
      <3>1. \A i \in DOMAIN mshr'[m].waiters : ~WaitsFor(mshr'[m].waiters[i], a)
        BY <1>4, <1>5, <1>7
      <3> QED
        BY <1>4, <3>1 DEF SameAwaited
    <2>3. PICK line \in Lines, x \in 0 .. LineWords - 1 : line = LineOf(a) /\ x = WordOf(a)
      BY AddressFacts
    <2>4. /\ ~cache[s][w].reserved /\ cache'[s][w].reserved
          /\ \A r \in SetIds, v \in WayIds : r # s \/ v # w => cache'[r][v] = cache[r][v]
          /\ SetOf(line) \in SetIds
      BY AddressFacts DEF Evicts
    <2>5. CASE Holds(SetOf(line), w, line) /\ s = SetOf(line)
      <3>1. Found(line, x, c) => Found(line, x, c)'
        <4> SUFFICES ASSUME Found(line, x, c) PROVE Found(line, x, c)'
          OBVIOUS
        <4>1. cache[s][w].line = line /\ cache[s][w].valid /\ cache[s][w].data[x] = c
          BY <2>5 DEF Holds, Found
        <4>2. \A u \in WayIds : ~HoldsNext(s, u, line)
          BY <2>4, <2>5 DEF HoldsNext, Holds, OwnerInv, LinesAreHome
        <4>3. \A n \in MshrIds : ~Evicting(n, line)
          BY <2>4, <4>1 DEF LineInv, HeldIsHome
        <4>4. \A n \in MshrIds : EvictingNext(n, line) => n = m
          BY <1>4, <4>3 DEF Evicting, EvictingNext
        <4>5. CASE cache[s][w].dirty
          <5>1. EvictingNext(m, line) /\ mshr'[m].wb_data = cache[s][w].data
            BY <1>4, <4>1, <4>5 DEF Evicts, NeedsWb, EvictingNext
          <5> QED
            BY <2>5, <4>1, <4>2, <4>4, <5>1 DEF Found, Holds, HoldsNext, Evicting, EvictingNext
        <4>6. CASE ~cache[s][w].dirty
          <5>1. ~EvictingNext(m, line)
            BY <4>6 DEF Evicts, NeedsWb, EvictingNext
          <5>2. memory[line][x] = c
            BY <2>4, <4>1, <4>6 DEF LineInv, CleanIsMemory
          <5> QED
            BY <1>1, <2>5, <4>2, <4>4, <5>1, <5>2
            DEF Found, Holds, HoldsNext, Evicting, EvictingNext
        <4> QED
          BY <4>5, <4>6
      <3>2. committed'[a] = c /\ (~ToSend(a)' => ~ToSend(a))
        BY <1>1, <1>3, ToSendStays
      <3>3. ASSUME ~ToSend(a)
            PROVE  /\ PipedHas(a, c)'
                   /\ ~Piped(a)' => /\ AwaitedHas(a, c)'
                                    /\ ~Awaited(a)' => Found(line, x, c)'
        <4>1. /\ PipedHas(a, c)
              /\ ~Piped(a) => AwaitedHas(a, c) /\ (~Awaited(a) => Found(line, x, c))
          BY <1>3, <2>3, <3>3 DEF IsNewest
        <4> QED
          BY <2>1, <2>2, <3>1, <4>1, PipedStays, AwaitedStays
      <3> QED
        BY <2>3, <3>2, <3>3, NewestShown
    <2>6. CASE ~(Holds(SetOf(line), w, line) /\ s = SetOf(line))
      <3>1. \A u \in WayIds : /\ HoldsNext(SetOf(line), u, line) <=> Holds(SetOf(line), u, line)
                              /\ Holds(SetOf(line), u, line) =>
                                   cache'[SetOf(line)][u] = cache[SetOf(line)][u]
        BY <2>4, <2>6 DEF Holds, HoldsNext
      <3>2. ~EvictingNext(m, line)
        <4> SUFFICES ASSUME EvictingNext(m, line) PROVE FALSE
          OBVIOUS
        <4>1. cache[s][w].valid /\ cache[s][w].line = line
          BY DEF Evicts, NeedsWb, EvictingNext
        <4>2. Holds(s, w, line) /\ SetOf(line) = s
          BY <2>4, <4>1 DEF Holds, OwnerInv, LinesAreHome
        <4> QED
          BY <2>6, <4>2
      <3>3. SameFound(line, x)
        BY <1>1, <1>4, <3>1, <3>2 DEF SameFound, Evicting, EvictingNext
      <3> QED
        BY <1>1, <2>1, <2>2, <2>3, <3>3, NewestStays, ToSendStays
    <2> QED
      BY <2>5, <2>6
  <1>8. QED
    BY <1>6, <1>7

(* The last of some positions.                                             *)
LEMMA LastExists ==
  ASSUME NEW n \in Nat, NEW S \in SUBSET (1 .. n), S # {}
  PROVE  \E i \in S : \A j \in S : j <= i
  <1> DEFINE back == {n - i : i \in S}
  <1>1. \A i \in S : n - i \in Nat /\ i \in Nat
    OBVIOUS
  <1>2. back \in SUBSET Nat /\ back # {}
    BY <1>1
  <1>3. PICK t \in back : \A k \in back : t <= k
    BY <1>2, MinimumExists
  <1>4. PICK i \in S : t = n - i
    BY <1>3
  <1>5. \A j \in S : n - i <= n - j
    BY <1>3, <1>4
  <1>6. \A j \in S : j <= i
    BY <1>1, <1>5
  <1>7. QED
    BY <1>6

(* What a fill puts into the word of a.                                    *)
LEMMA FilledHas ==
  ASSUME OwnerInv, LineInv, NEW m \in MshrIds, mshr[m].valid,
         NEW a \in Words, mshr[m].line = LineOf(a), NEW v,
         LastHas(mshr[m].waiters, a, v),
         (\A i \in DOMAIN mshr[m].waiters : ~WaitsFor(mshr[m].waiters[i], a)) =>
           mshr[m].data[WordOf(a)] = v
  PROVE  Filled(m)[WordOf(a)] = v
  <1>1. PICK ws \in Seq(Reqs) : /\ ws = mshr[m].waiters /\ DOMAIN ws = 1 .. Len(ws)
                                /\ Len(ws) \in Nat /\ \A i \in DOMAIN ws : ws[i] \in Reqs
    BY WaitersAreRequests
  <1>2. PICK x \in 0 .. LineWords - 1 : x = WordOf(a)
    BY AddressFacts
  <1>3. \A i \in DOMAIN ws : i \in StoresTo(m, x) <=> WaitsFor(ws[i], a)
    <2> SUFFICES ASSUME NEW i \in DOMAIN ws
                 PROVE  i \in StoresTo(m, x) <=> WaitsFor(ws[i], a)
      OBVIOUS
    <2>1. ws[i].addr \in Words /\ LineOf(ws[i].addr) = LineOf(a)
      BY <1>1 DEF LineInv, WaitersAreHome, Reqs
    <2>2. WordOf(ws[i].addr) = x <=> ws[i].addr = a
      BY <1>2, <2>1, AddressesDiffer
    <2> QED
      BY <1>1, <2>2 DEF StoresTo, WaitsFor
  <1>4. StoresTo(m, x) \subseteq DOMAIN ws
    BY <1>1 DEF StoresTo
  <1>5. Filled(m)[x] = IF StoresTo(m, x) = {} THEN mshr[m].data[x]
                       ELSE ws[CHOOSE i \in StoresTo(m, x) : \A j \in StoresTo(m, x) : j <= i].val
    BY <1>1 DEF Filled
  <1>6. CASE StoresTo(m, x) = {}
    BY <1>1, <1>2, <1>3, <1>5, <1>6
  <1>7. CASE StoresTo(m, x) # {}
    <2>1. PICK i \in StoresTo(m, x) :
            /\ i = CHOOSE k \in StoresTo(m, x) : \A j \in StoresTo(m, x) : j <= k
            /\ \A j \in StoresTo(m, x) : j <= i
      <3>1. StoresTo(m, x) \in SUBSET (1 .. Len(ws))
        BY <1>1, <1>4
      <3>2. \E i \in StoresTo(m, x) : \A j \in StoresTo(m, x) : j <= i
        BY <1>1, <1>7, <3>1, LastExists
      <3> QED
        BY <3>2
    <2>2. i \in DOMAIN ws /\ WaitsFor(ws[i], a)
      BY <1>3, <1>4, <2>1
    <2>3. \A j \in DOMAIN ws : WaitsFor(ws[j], a) => j <= i
      BY <1>3, <2>1
    <2>4. ws[i].val = v
      BY <1>1, <2>2, <2>3 DEF LastHas
    <2> QED
      BY <1>2, <1>5, <1>7, <2>1, <2>4
  <1>8. QED
    BY <1>6, <1>7

(* What is installed is the newest value of a word with no store before.   *)
LEMMA InstalledHas ==
  ASSUME OwnerInv, LineInv, NEW m \in MshrIds, mshr[m].valid, mshr[m].fill = "ready",
         NEW a \in Words, mshr[m].line = LineOf(a), NEW c,
         AwaitedHas(a, c), ~Awaited(a) => Found(LineOf(a), WordOf(a), c)
  PROVE  Filled(m)[WordOf(a)] = c
  <1>1. Fetching(m)
    BY DEF Fetching
  <1>2. LastHas(mshr[m].waiters, a, c)
    BY <1>1 DEF AwaitedHas
  <1>3. \A u \in WayIds : ~Holds(SetOf(LineOf(a)), u, LineOf(a))
    BY <1>1 DEF OwnerInv, FetchesReserve
  <1>4. \A n \in MshrIds : ~Evicting(n, LineOf(a))
    BY DEF OwnerInv, FetchesAreHome
  <1>5. ASSUME \A i \in DOMAIN mshr[m].waiters : ~WaitsFor(mshr[m].waiters[i], a)
        PROVE  mshr[m].data[WordOf(a)] = c
    <2>1. ~Awaited(a)
      <3> SUFFICES ASSUME NEW n \in MshrIds, Fetching(n),
                          NEW i \in DOMAIN mshr[n].waiters, WaitsFor(mshr[n].waiters[i], a)
                   PROVE  FALSE
        BY DEF Awaited
      <3>1. n # m
        BY <1>5
      <3>2. mshr[n].line # LineOf(a)
        BY <3>1 DEF OwnerInv, MissesDiffer, Fetching
      <3> QED
        BY <3>2, OthersWait
    <2>2. memory[LineOf(a)][WordOf(a)] = c
      BY <1>3, <1>4, <2>1 DEF Found
    <2> QED
      BY <2>2 DEF LineInv, FetchedIsMemory
  <1>6. QED
    BY <1>2, <1>5, FilledHas

(* A fill: the line is in the way now, with the stores that waited.        *)
LEMMA InstallNewest ==
  ASSUME OwnerInv, LineInv, NEW m \in MshrIds, NEW s \in SetIds, NEW w \in WayIds,
         Installs(m, s, w), NEW a \in Words, IsNewest(a)
  PROVE  IsNewest(a)'
  <1>1. SameClient /\ SameWaiters /\ UNCHANGED <<dram, memory, pipe>>
    BY DEF Installs
  <1>2. PICK line \in Lines, x \in 0 .. LineWords - 1 : line = LineOf(a) /\ x = WordOf(a)
    BY AddressFacts
  <1>3. /\ mshr[m].valid /\ mshr[m].fill = "ready" /\ s = SetOf(mshr[m].line)
        /\ cache[s][w].reserved
        /\ \A n \in MshrIds : n # m => mshr'[n] = mshr[n]
        /\ mshr'[m].valid /\ mshr'[m].line = mshr[m].line /\ mshr'[m].fill = "draining"
        /\ mshr'[m].wb = mshr[m].wb /\ mshr'[m].waiters = mshr[m].waiters
        /\ cache'[s][w].valid /\ ~cache'[s][w].reserved /\ cache'[s][w].line = mshr[m].line
        /\ cache'[s][w].data = Filled(m)
        /\ \A r \in SetIds, v \in WayIds : r # s \/ v # w => cache'[r][v] = cache[r][v]
    BY DEF Installs, SameWaiters
  <1>4. mshr[m].wb \notin {"wanted", "sent"}
    BY <1>3 DEF OwnerInv, MissesDiffer
  <1>5. SamePiped(a)
    BY <1>1 DEF SamePiped
  <1>6. \A n \in MshrIds : EvictingNext(n, line) <=> Evicting(n, line)
    BY <1>3, <1>4 DEF Evicting, EvictingNext
  <1>7. SetOf(line) \in SetIds
    BY AddressFacts
  <1>8. CASE mshr[m].line = line
    <2>1. PICK c : c = committed[a]
      OBVIOUS
    <2>2. \A n \in MshrIds : n # m /\ mshr[n].valid => mshr[n].line # LineOf(a)
      BY <1>2, <1>3, <1>8 DEF OwnerInv, MissesDiffer
    <2>3. \A n \in MshrIds : Fetching(n)' => /\ n # m /\ mshr[n].valid
                                             /\ mshr'[n].waiters = mshr[n].waiters
      BY <1>3 DEF Fetching
    <2>4. \A n \in MshrIds : Fetching(n)' =>
            \A i \in DOMAIN mshr'[n].waiters : ~WaitsFor(mshr'[n].waiters[i], a)
      BY <2>2, <2>3, OthersWait
    <2>5. AwaitedHas(a, c)'
      BY <2>4 DEF AwaitedHas, LastHas
    <2>6. ASSUME ~ToSend(a), ~Piped(a)
          PROVE  Found(line, x, c)'
      <3>1. AwaitedHas(a, c) /\ (~Awaited(a) => Found(line, x, c))
        BY <1>2, <2>1, <2>6 DEF IsNewest
      <3>2. Fetching(m)
        BY <1>3 DEF Fetching
      <3>3. \A u \in WayIds : ~Holds(s, u, line)
        BY <1>3, <1>8, <3>2 DEF OwnerInv, FetchesReserve
      <3>4. Filled(m)[x] = c
        BY <1>2, <1>3, <1>8, <3>1, InstalledHas
      <3>5. \A u \in WayIds : HoldsNext(s, u, line) <=> u = w
        BY <1>3, <1>8, <3>3 DEF HoldsNext, Holds
      <3> QED
        BY <1>3, <1>8, <3>4, <3>5 DEF Found, Holds, HoldsNext
    <2>7. committed'[a] = c /\ (~ToSend(a)' => ~ToSend(a))
      BY <1>1, <2>1, ToSendStays
    <2>8. ASSUME ~ToSend(a)
          PROVE  PipedHas(a, c)' /\ (~Piped(a)' => Found(line, x, c)')
      <3>1. PipedHas(a, c)
        BY <2>1, <2>8 DEF IsNewest
      <3> QED
        BY <1>5, <2>6, <2>8, <3>1, PipedStays
    <2> QED
      BY <1>2, <2>5, <2>7, <2>8, NewestShown
  <1>9. CASE mshr[m].line # line
    <2>1. \A i \in DOMAIN mshr[m].waiters : ~WaitsFor(mshr[m].waiters[i], a)
      BY <1>2, <1>9, OthersWait
    <2>2. SameAwaited(a)
      BY <1>3, <2>1 DEF SameAwaited
    <2>3. \A u \in WayIds : /\ HoldsNext(SetOf(line), u, line) <=> Holds(SetOf(line), u, line)
                            /\ Holds(SetOf(line), u, line) =>
                                 cache'[SetOf(line)][u] = cache[SetOf(line)][u]
      BY <1>3, <1>7, <1>9 DEF Holds, HoldsNext
    <2>4. \A n \in MshrIds : Evicting(n, line) => mshr'[n] = mshr[n]
      BY <1>3, <1>4 DEF Evicting
    <2>5. SameFound(line, x)
      BY <1>1, <1>6, <2>3, <2>4 DEF SameFound
    <2> QED
      BY <1>1, <1>2, <1>5, <2>2, <2>5, NewestStays, ToSendStays
  <1>10. QED
    BY <1>8, <1>9

(* The drain, a request to DRAM and one that DRAM has done.                *)
LEMMA DrainNewest ==
  ASSUME OwnerInv, NEW m \in MshrIds, Drains(m), NEW a \in Words, IsNewest(a)
  PROVE  IsNewest(a)'
  <1>1. /\ SameClient /\ UNCHANGED <<cache, dram, memory, pipe>>
        /\ \A n \in MshrIds : n # m => mshr'[n] = mshr[n]
        /\ mshr[m].valid /\ mshr[m].fill = "draining"
        /\ \/ mshr'[m].fill = mshr[m].fill /\ mshr'[m].wb = mshr[m].wb
           \/ ~mshr'[m].valid
    BY DEF Drains, SameFetch
  <1>2. mshr[m].wb \notin {"wanted", "sent"}
    BY <1>1 DEF OwnerInv, MissesDiffer
  <1>3. SamePiped(a) /\ SameAwaited(a)
    BY <1>1 DEF SamePiped, SameAwaited
  <1>4. \A line : \A n \in MshrIds : /\ EvictingNext(n, line) <=> Evicting(n, line)
                                     /\ Evicting(n, line) => mshr'[n] = mshr[n]
    BY <1>1, <1>2 DEF Evicting, EvictingNext
  <1>5. SameFound(LineOf(a), WordOf(a))
    BY <1>1, <1>4 DEF SameFound, Holds, HoldsNext
  <1>6. QED
    BY <1>1, <1>3, <1>5, NewestStays, ToSendStays

(* The line stays where it is while DRAM has not written it,               *)
LEMMA SendNewest ==
  ASSUME OwnerInv, NEW m \in MshrIds, Sends(m), NEW a \in Words, IsNewest(a)
  PROVE  IsNewest(a)'
  <1>1. /\ SameClient /\ SameWaiters /\ UNCHANGED <<cache, memory, pipe>>
        /\ \A n \in MshrIds : n # m => mshr'[n] = mshr[n]
        /\ mshr[m].valid /\ mshr'[m].valid
        /\ mshr'[m].wb_line = mshr[m].wb_line /\ mshr'[m].wb_data = mshr[m].wb_data
        /\ mshr'[m].wb \in {"wanted", "sent"} <=> mshr[m].wb \in {"wanted", "sent"}
        /\ mshr'[m].fill = "draining" <=> mshr[m].fill = "draining"
    BY DEF Sends
  <1>2. SamePiped(a) /\ SameAwaited(a)
    BY <1>1 DEF SamePiped, SameAwaited, SameWaiters
  <1>3. \A line : \A n \in MshrIds : /\ EvictingNext(n, line) <=> Evicting(n, line)
                                     /\ mshr'[n].wb_data = mshr[n].wb_data
    BY <1>1 DEF Evicting, EvictingNext
  <1>4. SameFound(LineOf(a), WordOf(a))
    BY <1>1, <1>3 DEF SameFound, Holds, HoldsNext
  <1>5. QED
    BY <1>1, <1>2, <1>4, NewestStays, ToSendStays

(* and is in memory when it has.                                           *)
LEMMA FinishNewest ==
  ASSUME OwnerInv, LineInv, NEW m \in MshrIds, Finishes(m), SameClient, UNCHANGED pipe,
         NEW a \in Words, IsNewest(a)
  PROVE  IsNewest(a)'
  <1>1. /\ UNCHANGED cache /\ SameWaiters /\ dram.busy /\ dram.mshr = m
        /\ \A n \in MshrIds : n # m => mshr'[n] = mshr[n]
        /\ mshr[m].valid /\ mshr'[m].valid
        /\ mshr'[m].wb_line = mshr[m].wb_line /\ mshr'[m].wb_data = mshr[m].wb_data
        /\ mshr'[m].fill = "draining" <=> mshr[m].fill = "draining"
    BY DEF Finishes
  <1>2. SamePiped(a) /\ SameAwaited(a)
    BY <1>1 DEF SamePiped, SameAwaited, SameWaiters
  <1>3. PICK line \in Lines, x \in 0 .. LineWords - 1 : line = LineOf(a) /\ x = WordOf(a)
    BY AddressFacts
  <1>4. CASE ~dram.write
    <2>1. UNCHANGED memory /\ mshr'[m].wb = mshr[m].wb
      BY <1>4 DEF Finishes
    <2>2. \A n \in MshrIds : /\ EvictingNext(n, line) <=> Evicting(n, line)
                             /\ mshr'[n].wb_data = mshr[n].wb_data
      BY <1>1, <2>1 DEF Evicting, EvictingNext
    <2>3. SameFound(line, x)
      BY <1>1, <2>1, <2>2 DEF SameFound, Holds, HoldsNext
    <2> QED
      BY <1>2, <1>3, <2>3, NewestStays, ToSendStays
  <1>5. CASE dram.write
    <2>1. /\ mshr[m].wb = "sent" /\ mshr'[m].wb = "done" /\ memory \in [Lines -> LineData]
          /\ memory' = [memory EXCEPT ![mshr[m].wb_line] = mshr[m].wb_data]
      BY <1>1, <1>5 DEF Finishes, LineInv, DramCarries, OwnerInv, Shapes
    <2>2. CASE mshr[m].wb_line = line
      <3>1. memory'[line] = mshr[m].wb_data
        BY <2>1, <2>2
      <3>2. Evicting(m, line)
        BY <1>1, <2>1, <2>2 DEF Evicting
      <3>3. SetOf(line) \in SetIds
        BY AddressFacts
      <3>4. \A u \in WayIds : ~Holds(SetOf(line), u, line)
        BY <3>2, <3>3 DEF LineInv, HeldIsHome, Holds
      <3>5. \A c : Found(line, x, c) => Found(line, x, c)'
        <4> SUFFICES ASSUME NEW c, Found(line, x, c) PROVE Found(line, x, c)'
          OBVIOUS
        <4>1. \A n \in MshrIds : Evicting(n, line) => mshr[n].wb_data[x] = c
          BY <3>4 DEF Found
        <4>2. memory'[line][x] = c
          BY <3>1, <3>2, <4>1
        <4>3. \A n \in MshrIds : EvictingNext(n, line) => Evicting(n, line) /\ mshr'[n] = mshr[n]
          BY <1>1, <2>1 DEF Evicting, EvictingNext
        <4>4. \A u \in WayIds : ~HoldsNext(SetOf(line), u, line)
          BY <1>1, <3>4 DEF Holds, HoldsNext
        <4> QED
          BY <4>1, <4>2, <4>3, <4>4 DEF Found, Holds, HoldsNext, Evicting, EvictingNext
      <3>6. PICK c : c = committed[a]
        OBVIOUS
      <3>7. committed'[a] = c /\ (~ToSend(a)' => ~ToSend(a))
        BY <3>6, ToSendStays
      <3>8. ASSUME ~ToSend(a)
            PROVE  /\ PipedHas(a, c)'
                   /\ ~Piped(a)' => /\ AwaitedHas(a, c)'
                                    /\ ~Awaited(a)' => Found(line, x, c)'
        <4>1. /\ PipedHas(a, c)
              /\ ~Piped(a) => AwaitedHas(a, c) /\ (~Awaited(a) => Found(line, x, c))
          BY <1>3, <3>6, <3>8 DEF IsNewest
        <4> QED
          BY <1>2, <3>5, <4>1, PipedStays, AwaitedStays
      <3> QED
        BY <1>3, <3>7, <3>8, NewestShown
    <2>3. CASE mshr[m].wb_line # line
      <3>1. memory'[line] = memory[line]
        BY <2>1, <2>3
      <3>2. \A n \in MshrIds : /\ EvictingNext(n, line) <=> Evicting(n, line)
                               /\ mshr'[n].wb_data = mshr[n].wb_data
        BY <1>1, <2>3 DEF Evicting, EvictingNext
      <3>3. SameFound(line, x)
        BY <1>1, <3>1, <3>2 DEF SameFound, Holds, HoldsNext
      <3> QED
        BY <1>2, <1>3, <3>3, NewestStays, ToSendStays
    <2> QED
      BY <2>2, <2>3
  <1>6. dram.write \in BOOLEAN
    BY DEF OwnerInv, Shapes, DramStates
  <1>7. QED
    BY <1>4, <1>5, <1>6

(* In every step of the cache.                                             *)
LEMMA ValueCache ==
  ASSUME OwnerInv, LineInv, ValueInv, CacheStep
  PROVE  ValueInv'
  <1>1. SameClient
    BY CacheBringsNone
  <1>2. ToSendIsNewest'
    BY <1>1, ToSendStays DEF ValueInv
  <1>3. SUFFICES ASSUME NEW a \in Words, IsNewest(a)
                 PROVE  IsNewest(a)'
    BY <1>2 DEF ValueInv
  <1>4. UNCHANGED pipe => SamePiped(a)
    BY DEF SamePiped
  <1>5. CASE Quiet \/ \E hits \in SUBSET PortIds : HitsAnswer(hits) /\ SameTables
    BY <1>1, <1>3, <1>4, <1>5, TablesNewest DEF Quiet, SamePlaces, HitsAnswer
  <1>6. CASE \E p \in PortIds, m \in MshrIds : Joins(p, m)
    BY <1>3, <1>6, JoinNewest
  <1>7. CASE \E p \in PortIds, s \in SetIds, w \in WayIds : HitsStore(p, s, w)
    BY <1>3, <1>7, HitStoreNewest
  <1>8. ASSUME NEW p \in PortIds, NEW s \in SetIds, NEW w \in WayIds, HitsLoad(p, s, w)
        PROVE  IsNewest(a)'
    <2>1. Leaves(p) /\ ~StoreFor(pipe[p], a) /\ SameTables
      BY <1>8 DEF HitsLoad, StoreFor, SameTables
    <2> QED
      BY <1>1, <1>3, <2>1, OtherLeaves, TablesNewest
  <1>9. CASE \E p \in PortIds, s \in SetIds, m \in MshrIds, w \in WayIds : Evicts(p, s, m, w)
    BY <1>3, <1>9, EvictNewest
  <1>10. CASE \E m \in MshrIds, s \in SetIds, w \in WayIds : Installs(m, s, w)
    BY <1>3, <1>10, InstallNewest
  <1>11. CASE \E m \in MshrIds : Drains(m)
    BY <1>3, <1>11, DrainNewest
  <1>12. CASE \E m \in MshrIds : Sends(m)
    BY <1>3, <1>12, SendNewest
  <1>13. CASE \E hits \in SUBSET PortIds, m \in MshrIds : HitsAnswer(hits) /\ Finishes(m)
    BY <1>1, <1>3, <1>13, FinishNewest DEF HitsAnswer
  <1>14. QED
    BY <1>5, <1>6, <1>7, <1>8, <1>9, <1>10, <1>11, <1>12, <1>13 DEF CacheStep

-------------------------------------------------------------------------------
(* In the steps of the load/store queue.                                   *)

(* No cache step: what is not in the queue or the pipes stays.             *)
LEMMA QueueNewest ==
  ASSUME SameTables, NEW a \in Words, SamePiped(a), IsNewest(a),
         committed'[a] = committed[a], ToSend(a)' <=> ToSend(a)
  PROVE  IsNewest(a)'
  <1>1. SameAwaited(a)
    BY DEF SameTables, SameLines, SameWaiters, SameFetch, SameAwaited
  <1>2. SameFound(LineOf(a), WordOf(a))
    BY SameLinesFound DEF SameTables
  <1>3. QED
    BY <1>1, <1>2, NewestStays

(* The positions of the ring that are to be sent.                          *)
LEMMA UnsentSlots ==
  ASSUME OwnerInv, RequestInv
  PROVE  /\ \A k \in Unsent : /\ k \in Nat /\ k < sb_count /\ SbAt(k) \in SbIds
                              /\ sb[SbAt(k)].valid /\ ~sb[SbAt(k)].sent
         /\ \A k, j \in Unsent : SbAt(k) = SbAt(j) => k = j
         /\ \A i \in SbIds : sb[i].valid /\ ~sb[i].sent => \E k \in Unsent : i = SbAt(k)
  <1>1. sb_head \in SbIds /\ sb_count \in 0 .. SbDepth
    BY DEF OwnerInv, Shapes
  <1>2. PICK n \in 0 .. SbDepth : n = sb_count
    BY <1>1
  <1>3. \A k \in 0 .. n - 1 : k \in Nat /\ k < n /\ k \in 0 .. SbDepth - 1
    BY ConstantsArePositive
  <1>4. \A k \in Unsent : k \in 0 .. n - 1 /\ sb[SbAt(k)].valid /\ ~sb[SbAt(k)].sent
    BY <1>2 DEF Unsent
  <1>5. \A k \in Unsent : SbAt(k) \in SbIds
    BY <1>1, <1>3, <1>4, SbAtIsSlot
  <1>6. \A k, j \in Unsent : SbAt(k) = SbAt(j) => k = j
    BY <1>1, <1>3, <1>4, SbAtDiffers
  <1>7. \A i \in SbIds : sb[i].valid /\ ~sb[i].sent => \E k \in Unsent : i = SbAt(k)
    BY DEF RequestInv, SlotsAreFree, Unsent
  <1>8. QED
    BY <1>2, <1>3, <1>4, <1>5, <1>6, <1>7

(* A store retires: it is the youngest to be sent.                         *)
LEMMA RetireValues ==
  ASSUME OwnerInv, RequestInv, ValueInv, NEW b \in Words, NEW v \in Val, NEW i \in SbIds,
         Retires(b, v, i)
  PROVE  ValueInv'
  <1>1. /\ SameTables /\ UNCHANGED <<pipe, sb_head>> /\ i = SbAt(sb_count)
        /\ sb_count' = sb_count + 1 /\ ~sb[i].valid
        /\ sb'[i].valid /\ ~sb'[i].sent /\ sb'[i].addr = b /\ sb'[i].val = v
        /\ \A j \in SbIds : j # i => sb'[j] = sb[j]
        /\ committed' = [committed EXCEPT ![b] = v] /\ committed \in [Words -> Val]
    BY DEF Retires, SamePlaces, OtherSlots, OwnerInv, Shapes
  <1>2. PICK n \in Nat : n = sb_count
    BY ConstantsArePositive DEF OwnerInv, Shapes
  <1>3. \A k : SbAt(k)' = SbAt(k)
    BY <1>1 DEF SbAt
  <1>4. \A k : k \in Unsent' <=> k \in Unsent \/ k = n
    <2>1. \A k \in 0 .. n - 1 : SbAt(k) \in SbIds
      BY <1>2, SbAtIsSlot, ConstantsArePositive DEF OwnerInv, Shapes
    <2>2. Unsent' = {k \in 0 .. n : sb'[SbAt(k)].valid /\ ~sb'[SbAt(k)].sent}
      BY <1>1, <1>2, <1>3 DEF Unsent, SbAt
    <2>3. n \in Unsent'
      BY <1>1, <1>2, <2>2
    <2>4. n \notin Unsent
      BY <1>2 DEF Unsent
    <2>5. \A k : k \in 0 .. n <=> k \in 0 .. n - 1 \/ k = n
      BY <1>2
    <2>6. \A k \in 0 .. n - 1 : k \in Unsent' <=> k \in Unsent
      <3> SUFFICES ASSUME NEW k \in 0 .. n - 1 PROVE k \in Unsent' <=> k \in Unsent
        OBVIOUS
      <3>1. k \in Unsent <=> sb[SbAt(k)].valid /\ ~sb[SbAt(k)].sent
        BY <1>2 DEF Unsent
      <3>2. k \in Unsent' <=> sb'[SbAt(k)].valid /\ ~sb'[SbAt(k)].sent
        BY <2>2, <2>5
      <3>3. k # n
        BY <1>2
      <3>4. CASE SbAt(k) # i
        BY <1>1, <2>1, <3>1, <3>2, <3>4
      <3>5. SbAt(k) # i
        <4> SUFFICES ASSUME SbAt(k) = i PROVE FALSE
          OBVIOUS
        <4>1. n < SbDepth /\ sb_head \in SbIds
          BY <1>2 DEF Retires, OwnerInv, Shapes
        <4>2. k \in 0 .. SbDepth - 1 /\ n \in 0 .. SbDepth - 1
          BY <1>2, <4>1, ConstantsArePositive
        <4> QED
          BY <1>1, <1>2, <3>3, <4>1, <4>2, SbAtDiffers
      <3> QED
        BY <3>4, <3>5
    <2> QED
      BY <2>2, <2>3, <2>5, <2>6, <1>2 DEF Unsent
  <1>5. \A k \in Unsent : SbAt(k) \in SbIds /\ SbAt(k) # i /\ k \in Nat /\ k < n
    BY <1>1, <1>2, UnsentSlots
  <1>6. ToSendIsNewest'
    <2> SUFFICES ASSUME NEW k \in Unsent',
                        \A j \in Unsent' : sb'[SbAt(j)].addr = sb'[SbAt(k)].addr => j <= k
                 PROVE  sb'[SbAt(k)].val = committed'[sb'[SbAt(k)].addr]
      BY <1>1 DEF ToSendIsNewest, SbAt
    <2>1. CASE k = n
      BY <1>1, <1>2, <2>1
    <2>2. CASE k \in Unsent
      <3>1. sb'[SbAt(k)] = sb[SbAt(k)] /\ \A j \in Unsent : sb'[SbAt(j)] = sb[SbAt(j)]
        BY <1>1, <1>5, <2>2
      <3>2. sb[SbAt(k)].addr # b
        <4> SUFFICES ASSUME sb[SbAt(k)].addr = b PROVE FALSE
          OBVIOUS
        <4>1. n <= k
          BY <1>1, <1>2, <1>4, <3>1
        <4> QED
          BY <1>2, <1>5, <2>2, <4>1
      <3>3. sb[SbAt(k)].val = committed[sb[SbAt(k)].addr]
        BY <1>4, <2>2, <3>1 DEF ValueInv, ToSendIsNewest
      <3>4. sb[SbAt(k)].addr \in Words
        BY <1>5, <2>2 DEF OwnerInv, Shapes, SbStates
      <3> QED
        BY <1>1, <3>1, <3>2, <3>3, <3>4
    <2> QED
      BY <1>4, <2>1, <2>2
  <1>7. \A a \in Words : IsNewest(a)'
    <2> SUFFICES ASSUME NEW a \in Words PROVE IsNewest(a)'
      OBVIOUS
    <2>1. CASE a = b
      <3>1. ToSend(a)'
        BY <1>1, <2>1 DEF ToSend
      <3> QED
        BY <3>1 DEF IsNewest
    <2>2. CASE a # b
      <3>1. committed'[a] = committed[a]
        BY <1>1, <2>2
      <3>2. ToSend(a)' <=> ToSend(a)
        BY <1>1, <2>2 DEF ToSend
      <3>3. SamePiped(a)
        BY <1>1 DEF SamePiped
      <3> QED
        BY <1>1, <3>1, <3>2, <3>3, QueueNewest DEF ValueInv
    <2> QED
      BY <2>1, <2>2
  <1>8. QED
    BY <1>6, <1>7 DEF ValueInv

(* While a store waits to be sent none is in a pipe that it could pass: it *)
(* goes to the only port, or is the only store.                            *)
LEMMA NoStoreIsPassed ==
  ASSUME OwnerInv, RequestInv, StoresKeepOrder, NEW p \in PortIds, ~pipe[p].valid,
         NEW k \in Unsent
  PROVE  \A q \in PortIds : ~(pipe[q].valid /\ pipe[q].write)
  <1> SUFFICES ASSUME NEW q \in PortIds, pipe[q].valid, pipe[q].write PROVE FALSE
    OBVIOUS
  <1>1. CASE Ports = 1
    BY <1>1 DEF PortIds
  <1>2. CASE SbDepth = 1
    <2>1. PICK x \in InFlight : x = <<"pipe", q, 0, pipe[q]>>
      BY InFlightCases
    <2>2. pipe[q].id \in SbIds /\ sb[pipe[q].id].sent
      BY <2>1 DEF RequestInv, RequestsAreKnown
    <2>3. SbAt(k) \in SbIds /\ ~sb[SbAt(k)].sent
      BY UnsentSlots
    <2> QED
      BY <1>2, <2>2, <2>3 DEF SbIds
  <1>3. QED
    BY <1>1, <1>2 DEF StoresKeepOrder

(* The oldest store to be sent goes to a pipe.                             *)
LEMMA IssueStoreValues ==
  ASSUME OwnerInv, RequestInv, ValueInv, StoresKeepOrder, NEW p \in PortIds, NEW k \in Unsent,
         IssuesStore(p, k)
  PROVE  ValueInv'
  <1>1. PICK i \in SbIds : i = SbAt(k) /\ sb[i].valid /\ ~sb[i].sent
    BY UnsentSlots
  <1>2. PICK b \in Words, v \in Val : b = sb[i].addr /\ v = sb[i].val
    BY DEF OwnerInv, Shapes, SbStates
  <1>3. /\ SameTables /\ UNCHANGED <<sb_head, sb_count, committed>>
        /\ \A j \in Unsent : k <= j
        /\ ~pipe[p].valid /\ \A q \in PortIds : q # p => pipe'[q] = pipe[q]
        /\ pipe'[p].valid /\ pipe'[p].write /\ pipe'[p].addr = b /\ pipe'[p].val = v
        /\ sb'[i].sent /\ sb'[i].valid = sb[i].valid
        /\ \A j \in SbIds : j # i => sb'[j] = sb[j]
    BY <1>1, <1>2 DEF IssuesStore, SameRing, OtherSlots
  <1>4. \A j : SbAt(j)' = SbAt(j)
    BY <1>3 DEF SbAt
  <1>5. \A j \in Unsent : SbAt(j) \in SbIds /\ (j # k => SbAt(j) # i) /\ j \in Nat
    BY <1>1, UnsentSlots
  <1>6. \A j : j \in Unsent' <=> j \in Unsent /\ j # k
    <2>1. PICK n \in 0 .. SbDepth : n = sb_count
      BY DEF OwnerInv, Shapes
    <2>2. \A j \in 0 .. n - 1 : SbAt(j) \in SbIds
      BY <2>1, SbAtIsSlot, ConstantsArePositive DEF OwnerInv, Shapes
    <2>3. Unsent' = {j \in 0 .. n - 1 : sb'[SbAt(j)].valid /\ ~sb'[SbAt(j)].sent}
      BY <1>3, <1>4, <2>1 DEF Unsent, SbAt
    <2>4. Unsent = {j \in 0 .. n - 1 : sb[SbAt(j)].valid /\ ~sb[SbAt(j)].sent}
      BY <2>1 DEF Unsent
    <2>5. \A j \in 0 .. n - 1 : SbAt(j) # i => sb'[SbAt(j)] = sb[SbAt(j)]
      BY <1>3, <2>2
    <2>6. \A j \in 0 .. n - 1 : SbAt(j) = i => j \notin Unsent'
      BY <1>3, <2>3
    <2>7. \A j \in 0 .. n - 1 : SbAt(j) = i /\ j \in Unsent => j = k
      BY <1>5
    <2>8. k \notin Unsent'
      BY <1>1, <2>4, <2>6
    <2> QED
      BY <1>5, <2>3, <2>4, <2>5, <2>6, <2>7, <2>8
  <1>7. \A j \in Unsent : j # k => sb'[SbAt(j)] = sb[SbAt(j)]
    BY <1>3, <1>5
  <1>8. ToSendIsNewest'
    <2> SUFFICES ASSUME NEW l \in Unsent',
                        \A j \in Unsent' : sb'[SbAt(j)].addr = sb'[SbAt(l)].addr => j <= l
                 PROVE  sb'[SbAt(l)].val = committed'[sb'[SbAt(l)].addr]
      BY <1>3 DEF ToSendIsNewest, SbAt
    <2>1. l \in Unsent /\ l # k /\ sb'[SbAt(l)] = sb[SbAt(l)]
      BY <1>6, <1>7
    <2>2. \A j \in Unsent : sb[SbAt(j)].addr = sb[SbAt(l)].addr => j <= l
      BY <1>3, <1>6, <1>7, <2>1
    <2> QED
      BY <1>3, <2>1, <2>2 DEF ValueInv, ToSendIsNewest
  <1>9. \A a \in Words : IsNewest(a)'
    <2> SUFFICES ASSUME NEW a \in Words PROVE IsNewest(a)'
      OBVIOUS
    <2>1. CASE a = b
      <3>1. PICK c : c = committed[a] /\ committed'[a] = c
        BY <1>3
      <3>2. Piped(a)'
        BY <1>3, <2>1 DEF Piped
      <3>3. ASSUME ~ToSend(a)'
            PROVE  PipedHas(a, c)'
        <4>1. \A q \in PortIds : ~(pipe[q].valid /\ pipe[q].write)
          BY <1>3, NoStoreIsPassed
        <4>2. \A j \in Unsent : sb[SbAt(j)].addr = b => j = k
          <5> SUFFICES ASSUME NEW j \in Unsent, sb[SbAt(j)].addr = b, j # k
                       PROVE  ToSend(a)'
            BY <3>3
          <5>1. sb'[SbAt(j)] = sb[SbAt(j)] /\ SbAt(j) \in SbIds
            BY <1>5, <1>7
          <5>2. sb[SbAt(j)].valid /\ ~sb[SbAt(j)].sent
            BY UnsentSlots
          <5> QED
            BY <2>1, <5>1, <5>2 DEF ToSend
        <4>3. k <= k
          BY <1>5
        <4>4. v = c
          BY <1>1, <1>2, <2>1, <3>1, <4>2, <4>3 DEF ValueInv, ToSendIsNewest
        <4> QED
          BY <1>3, <4>1, <4>4 DEF PipedHas
      <3> QED
        BY <3>1, <3>2, <3>3, NewestShown
    <2>2. CASE a # b
      <3>1. ToSend(a)' <=> ToSend(a)
        <4>1. ASSUME ToSend(a) PROVE ToSend(a)'
          BY <1>2, <1>3, <2>2, <4>1 DEF ToSend
        <4>2. ASSUME ToSend(a)' PROVE ToSend(a)
          BY <1>2, <1>3, <2>2, <4>2 DEF ToSend
        <4> QED
          BY <4>1, <4>2
      <3>2. SamePiped(a)
        BY <1>3, <2>2 DEF SamePiped, StoreFor
      <3> QED
        BY <1>3, <3>1, <3>2, QueueNewest DEF ValueInv
    <2> QED
      BY <2>1, <2>2
  <1>10. QED
    BY <1>8, <1>9 DEF ValueInv

(* An answer is taken: the slot it frees had been sent.                    *)
LEMMA ReceiveValues ==
  ASSUME OwnerInv, RequestInv, ValueInv, Receives
  PROVE  ValueInv'
  <1>1. SameTables /\ UNCHANGED <<pipe, sb_head, sb_count, committed>>
    BY DEF Receives, SameRing
  <1>2. \A i \in SbIds : \/ sb'[i] = sb[i]
                         \/ sb[i].sent /\ ~sb'[i].valid
    BY DEF Receives, OtherSlots
  <1>3. \A k : SbAt(k)' = SbAt(k)
    BY <1>1 DEF SbAt
  <1>4. Unsent' = Unsent /\ \A k \in Unsent : sb'[SbAt(k)] = sb[SbAt(k)]
    <2>1. PICK n \in 0 .. SbDepth : n = sb_count
      BY DEF OwnerInv, Shapes
    <2>2. \A j \in 0 .. n - 1 : SbAt(j) \in SbIds
      BY <2>1, SbAtIsSlot, ConstantsArePositive DEF OwnerInv, Shapes
    <2>3. Unsent' = {j \in 0 .. n - 1 : sb'[SbAt(j)].valid /\ ~sb'[SbAt(j)].sent}
      BY <1>1, <1>3, <2>1 DEF Unsent, SbAt
    <2>4. Unsent = {j \in 0 .. n - 1 : sb[SbAt(j)].valid /\ ~sb[SbAt(j)].sent}
      BY <2>1 DEF Unsent
    <2>5. \A j \in 0 .. n - 1 : j \in Unsent => sb'[SbAt(j)] = sb[SbAt(j)]
      BY <1>2, <2>2, <2>4
    <2>6. \A j \in 0 .. n - 1 : j \in Unsent' <=> j \in Unsent
      BY <1>2, <2>2, <2>3, <2>4
    <2> QED
      BY <2>3, <2>4, <2>5, <2>6
  <1>5. ToSendIsNewest'
    BY <1>1, <1>3, <1>4 DEF ValueInv, ToSendIsNewest, SbAt
  <1>6. \A a \in Words : IsNewest(a)'
    <2> SUFFICES ASSUME NEW a \in Words PROVE IsNewest(a)'
      OBVIOUS
    <2>1. ToSend(a)' <=> ToSend(a)
      BY <1>2 DEF ToSend
    <2>2. SamePiped(a)
      BY <1>1 DEF SamePiped
    <2> QED
      BY <1>1, <2>1, <2>2, QueueNewest DEF ValueInv
  <1>7. QED
    BY <1>5, <1>6 DEF ValueInv

(* The holes at the head go: the positions of the others move.             *)
LEMMA FreeValues ==
  ASSUME OwnerInv, RequestInv, ValueInv, NEW n \in 0 .. SbDepth, Frees(n)
  PROVE  ValueInv'
  <1>1. /\ SameTables /\ UNCHANGED <<pipe, sb, committed>>
        /\ n <= sb_count /\ sb_head' = SbAt(n) /\ sb_count' = sb_count - n
        /\ \A k \in 0 .. sb_count - 1 : sb[SbAt(k)].valid => k >= n
    BY DEF Frees, SamePlaces
  <1>2. PICK d \in Nat \ {0}, h \in 0 .. SbDepth - 1, t \in 0 .. SbDepth :
          d = SbDepth /\ h = sb_head /\ t = sb_count
    BY ConstantsArePositive DEF OwnerInv, Shapes, SbIds
  <1>3. \A j \in 0 .. (t - n) - 1 : n + j \in 0 .. t - 1 /\ SbAt(j)' = SbAt(n + j)
    <2> SUFFICES ASSUME NEW j \in 0 .. (t - n) - 1
                 PROVE  n + j \in 0 .. t - 1 /\ SbAt(j)' = SbAt(n + j)
      OBVIOUS
    <2>1. h \in 0 .. d - 1 /\ n \in 0 .. d /\ j \in 0 .. d - 1 /\ n + j <= d /\ n + j \in 0 .. t - 1
      BY <1>2, ConstantsArePositive
    <2>2. (((h + n) % d) + j) % d = (h + (n + j)) % d
      BY <2>1, RingShift
    <2>3. SbAt(j)' = (sb_head' + j) % SbDepth /\ sb_head' = (h + n) % d
      BY <1>1, <1>2 DEF SbAt
    <2>4. SbAt(n + j) = (h + (n + j)) % d
      BY <1>2 DEF SbAt
    <2> QED
      BY <1>2, <2>1, <2>2, <2>3, <2>4
  <1>4. \A j \in Unsent' : j \in 0 .. (t - n) - 1 /\ n + j \in Unsent /\ SbAt(j)' = SbAt(n + j)
    <2>1. \A j \in Unsent' : j \in 0 .. (t - n) - 1 /\ sb[SbAt(j)'].valid /\ ~sb[SbAt(j)'].sent
      BY <1>1, <1>2 DEF Unsent
    <2> QED
      BY <1>2, <1>3, <2>1 DEF Unsent
  <1>5. \A k \in Unsent : k - n \in Unsent' /\ n + (k - n) = k
    <2> SUFFICES ASSUME NEW k \in Unsent PROVE k - n \in Unsent' /\ n + (k - n) = k
      OBVIOUS
    <2>1. k \in 0 .. t - 1 /\ k >= n /\ sb[SbAt(k)].valid /\ ~sb[SbAt(k)].sent
      BY <1>1, <1>2 DEF Unsent
    <2>2. PICK j \in 0 .. (t - n) - 1 : j = k - n /\ n + j = k
      BY <1>2, <2>1
    <2>3. SbAt(j)' = SbAt(k)
      BY <1>3, <2>2
    <2>4. j \in 0 .. sb_count' - 1 /\ sb'[SbAt(j)'].valid /\ ~sb'[SbAt(j)'].sent
      BY <1>1, <1>2, <2>1, <2>2, <2>3
    <2>5. j \in Unsent'
      BY <2>4 DEF Unsent
    <2> QED
      BY <2>2, <2>5
  <1>6. ToSendIsNewest'
    <2> SUFFICES ASSUME NEW l \in Unsent',
                        \A j \in Unsent' : sb'[SbAt(j)'].addr = sb'[SbAt(l)'].addr => j <= l
                 PROVE  sb'[SbAt(l)'].val = committed'[sb'[SbAt(l)'].addr]
      BY DEF ToSendIsNewest
    <2>1. PICK k \in Unsent : k = n + l /\ SbAt(l)' = SbAt(k) /\ l \in Nat
      BY <1>2, <1>4
    <2>2. \A j \in Unsent : sb[SbAt(j)].addr = sb[SbAt(k)].addr => j <= k
      <3> SUFFICES ASSUME NEW j \in Unsent, sb[SbAt(j)].addr = sb[SbAt(k)].addr PROVE j <= k
        OBVIOUS
      <3>1. PICK i \in Unsent' : i = j - n /\ n + i = j /\ i \in Nat
        BY <1>2, <1>4, <1>5
      <3>2. SbAt(i)' = SbAt(j)
        BY <1>4, <3>1
      <3>3. i <= l
        BY <1>1, <2>1, <3>2
      <3> QED
        BY <2>1, <3>1, <3>3
    <2>3. sb[SbAt(k)].val = committed[sb[SbAt(k)].addr]
      BY <2>2 DEF ValueInv, ToSendIsNewest
    <2> QED
      BY <1>1, <2>1, <2>3
  <1>7. \A a \in Words : IsNewest(a)'
    <2> SUFFICES ASSUME NEW a \in Words PROVE IsNewest(a)'
      OBVIOUS
    <2>1. ToSend(a)' <=> ToSend(a)
      BY <1>1 DEF ToSend
    <2>2. SamePiped(a)
      BY <1>1 DEF SamePiped
    <2> QED
      BY <1>1, <2>1, <2>2, QueueNewest DEF ValueInv
  <1>8. QED
    BY <1>6, <1>7 DEF ValueInv

(* In every step of the load/store queue.                                  *)
LEMMA ValueClient ==
  ASSUME OwnerInv, RequestInv, ValueInv, StoresKeepOrder, ClientStep
  PROVE  ValueInv'
  <1>1. ASSUME SameTables, UNCHANGED <<sb, sb_head, sb_count, committed>>,
               \A a : SamePiped(a)
        PROVE  ValueInv'
    <2>1. ToSendIsNewest'
      BY <1>1 DEF ValueInv, ToSendIsNewest, Unsent, SbAt
    <2>2. ASSUME NEW a \in Words
          PROVE  IsNewest(a)'
      <3>1. ToSend(a)' <=> ToSend(a)
        BY <1>1 DEF ToSend
      <3> QED
        BY <1>1, <3>1, QueueNewest DEF ValueInv
    <2> QED
      BY <2>1, <2>2 DEF ValueInv
  <1>2. UNCHANGED pipe => \A a : SamePiped(a)
    BY DEF SamePiped
  <1>3. ASSUME NEW a \in Words, NEW v \in Val, NEW i \in SbIds, Retires(a, v, i)
        PROVE  ValueInv'
    BY <1>3, RetireValues
  <1>4. ASSUME NEW l \in LoadIds, (\E a \in Words : Starts(l, a)) \/ Squashes(l)
        PROVE  ValueInv'
    BY <1>1, <1>2, <1>4 DEF Starts, Squashes, SamePlaces, SameRing
  <1>5. ASSUME NEW p \in PortIds, NEW k \in Unsent, IssuesStore(p, k)
        PROVE  ValueInv'
    BY <1>5, IssueStoreValues
  <1>6. ASSUME NEW p \in PortIds, NEW l \in LoadIds, IssuesLoad(p, l)
        PROVE  ValueInv'
    <2>1. \A a : SamePiped(a)
      BY <1>6 DEF IssuesLoad, SamePiped, StoreFor
    <2> QED
      BY <1>1, <1>6, <2>1 DEF IssuesLoad, SameRing
  <1>7. CASE Receives
    BY <1>7, ReceiveValues
  <1>8. ASSUME NEW n \in 0 .. SbDepth, Frees(n)
        PROVE  ValueInv'
    BY <1>8, FreeValues
  <1>9. QED
    BY <1>3, <1>4, <1>5, <1>6, <1>7, <1>8 DEF ClientStep

(* In every step.                                                          *)
LEMMA ValueNext ==
  ASSUME OwnerInv, RequestInv, LineInv, ValueInv, StoresKeepOrder, [CacheNext]_vars
  PROVE  ValueInv'
  BY StepEffect, ValueCache, ValueClient

(* Memory starts with what nobody has written yet.                         *)
LEMMA ValueInit == CacheInit => ValueInv
  <1> SUFFICES ASSUME CacheInit PROVE ValueInv
    OBVIOUS
  <1>1. \A m \in MshrIds : ~mshr[m].valid
    BY DEF CacheInit, FreeMshr
  <1>2. \A p \in PortIds : ~pipe[p].valid
    BY DEF CacheInit, NoReq
  <1>3. \A s \in SetIds, w \in WayIds : ~cache[s][w].valid
    BY DEF CacheInit, NoWay
  <1>4. ToSendIsNewest
    <2>1. Unsent = {}
      BY DEF CacheInit, Unsent
    <2> QED
      BY <2>1 DEF ToSendIsNewest
  <1>5. ASSUME NEW a \in Words
        PROVE  IsNewest(a)
    <2>1. LineOf(a) \in Lines /\ WordOf(a) \in 0 .. LineWords - 1 /\ SetOf(LineOf(a)) \in SetIds
      BY AddressFacts
    <2>2. committed[a] = 0 /\ memory[LineOf(a)][WordOf(a)] = 0
      BY <2>1 DEF CacheInit, ZeroLine
    <2>3. Found(LineOf(a), WordOf(a), committed[a])
      BY <1>1, <1>3, <2>1, <2>2 DEF Found, Holds, Evicting
    <2>4. PipedHas(a, committed[a]) /\ AwaitedHas(a, committed[a])
      BY <1>1, <1>2 DEF PipedHas, AwaitedHas, Fetching
    <2> QED
      BY <2>3, <2>4 DEF IsNewest
  <1>6. QED
    BY <1>4, <1>5 DEF ValueInv

-------------------------------------------------------------------------------
(* Answers.                                                                *)

(* A word with no store in the buffer has none on its way: it is found.    *)
LEMMA UnbufferedIsFound ==
  ASSUME OwnerInv, RequestInv, FitInv, ValueInv, NEW a \in Words, ~Buffered(a)
  PROVE  /\ AwaitedHas(a, committed[a]) /\ ~Awaited(a)
         /\ Found(LineOf(a), WordOf(a), committed[a])
  <1>1. ~ToSend(a)
    BY DEF ToSend, Buffered
  <1>2. \A r : OldAsk(r) /\ r.write => r.addr # a
    BY KnownRequests DEF Buffered
  <1>3. ~Piped(a)
    BY <1>2, PlacesAsk DEF Piped
  <1>4. ~Awaited(a)
    BY <1>2, PlacesAsk DEF Awaited, WaitsFor
  <1>5. QED
    BY <1>1, <1>3, <1>4 DEF ValueInv, IsNewest

(* The load that r asks for waits: its word is found.                      *)
LEMMA LiveIsFound ==
  ASSUME OwnerInv, RequestInv, FitInv, ValueInv, NEW r \in Reqs, OldAsk(r), ~r.write, Answers(r)
  PROVE  /\ AwaitedHas(r.addr, committed[r.addr]) /\ ~Awaited(r.addr)
         /\ Found(LineOf(r.addr), WordOf(r.addr), committed[r.addr])
  <1>1. r.id \in LoadIds /\ load[r.id].addr = r.addr /\ load[r.id].busy
    BY KnownRequests DEF Answers
  <1>2. ~Buffered(r.addr) /\ r.addr \in Words
    BY <1>1 DEF FitInv, LoadsWaitForStores, Reqs
  <1>3. QED
    BY <1>2, UnbufferedIsFound

(* The answers that were right are while their loads wait.                 *)
StillRight(r) == OldAsk(r) /\ ~r.write /\ Answers(r)' =>
                   Answers(r) /\ committed'[r.addr] = committed[r.addr]

(* A step of the load/store queue brings no answer.                        *)
LEMMA QueueAnswers ==
  ASSUME OwnerInv, AnswerInv, SameTables, UNCHANGED hit_pend, \A r : StillRight(r),
         resp_q' = resp_q \/ (resp_q # <<>> /\ resp_q' = Tail(resp_q))
  PROVE  AnswerInv'
  <1>1. HitsAreCommitted'
    <2> SUFFICES ASSUME NEW p \in PortIds, hit_pend[p].valid, ~hit_pend[p].write,
                        Answers(hit_pend[p])'
                 PROVE  hit_pend[p].val = committed'[hit_pend[p].addr]
      BY DEF HitsAreCommitted, Answers
    <2>1. PICK r : r = hit_pend[p]
      OBVIOUS
    <2>2. OldAsk(r) /\ Answers(r)'
      BY <2>1, PlacesAsk DEF Answers
    <2>3. Answers(r) /\ committed'[r.addr] = committed[r.addr]
      BY <2>1, <2>2 DEF StillRight
    <2> QED
      BY <2>1, <2>3 DEF AnswerInv, HitsAreCommitted
  <1>2. \A i \in DOMAIN resp_q' : \E j \in DOMAIN resp_q : resp_q'[i] = resp_q[j]
    BY PlacesAreRequests, TailElements
  <1>3. RespsAreCommitted'
    <2> SUFFICES ASSUME NEW i \in DOMAIN resp_q', ~resp_q'[i].write, Answers(resp_q[i])'
                 PROVE  resp_q'[i].val = committed'[resp_q'[i].addr]
      BY DEF RespsAreCommitted
    <2>1. PICK j \in DOMAIN resp_q : resp_q'[i] = resp_q[j]
      BY <1>2
    <2>2. PICK r : r = resp_q[j] /\ r = resp_q'[i]
      BY <2>1
    <2>3. OldAsk(r) /\ Answers(r)'
      BY <2>2, PlacesAsk DEF Answers
    <2>4. Answers(r) /\ committed'[r.addr] = committed[r.addr]
      BY <2>2, <2>3 DEF StillRight
    <2> QED
      BY <2>2, <2>4 DEF AnswerInv, RespsAreCommitted
  <1>4. DrainsAreCommitted'
    <2> SUFFICES ASSUME NEW m \in MshrIds, NEW i \in DOMAIN mshr'[m].waiters,
                        mshr'[m].valid, ~Fetching(m)', ~mshr'[m].waiters[i].write,
                        Answers(mshr[m].waiters[i])'
                 PROVE  mshr'[m].data[WordOf(mshr'[m].waiters[i].addr)] =
                          committed'[mshr'[m].waiters[i].addr]
      BY DEF DrainsAreCommitted
    <2>1. mshr'[m].waiters = mshr[m].waiters /\ mshr'[m].valid = mshr[m].valid
          /\ mshr'[m].fill = mshr[m].fill /\ mshr'[m].data = mshr[m].data
      BY DEF SameTables, SameLines, SameFetch, SameWaiters
    <2>2. PICK r : r = mshr[m].waiters[i] /\ r = mshr'[m].waiters[i]
      BY <2>1
    <2>3. OldAsk(r) /\ Answers(r)'
      BY <2>1, <2>2, PlacesAsk DEF Answers
    <2>4. Answers(r) /\ committed'[r.addr] = committed[r.addr]
      BY <2>2, <2>3 DEF StillRight
    <2> QED
      BY <2>1, <2>2, <2>4 DEF AnswerInv, DrainsAreCommitted, Fetching
  <1>5. QED
    BY <1>1, <1>3, <1>4 DEF AnswerInv

(* What a step of the cache must show.                                     *)
RightAnswer(r)  == ~r.write /\ Answers(r) => r.val = committed[r.addr]
RightWait(r, d) == ~r.write /\ Answers(r) => d[WordOf(r.addr)] = committed[r.addr]
RightHits  == \A p \in PortIds : hit_pend'[p].valid => RightAnswer(hit_pend'[p])
RightResps == \A i \in DOMAIN resp_q' : RightAnswer(resp_q'[i])
RightDrain(m) ==
  mshr'[m].valid /\ mshr'[m].fill = "draining" =>
    \A i \in DOMAIN mshr'[m].waiters : RightWait(mshr'[m].waiters[i], mshr'[m].data)

(* That is enough.                                                         *)
LEMMA RightIsEnough ==
  ASSUME SameClient, RightHits, RightResps, \A m \in MshrIds : RightDrain(m)
  PROVE  AnswerInv'
  <1>1. \A r : Answers(r)' <=> Answers(r)
    BY DEF SameClient, Answers
  <1>2. UNCHANGED <<load, committed>>
    BY DEF SameClient
  <1>3. HitsAreCommitted'
    BY <1>2 DEF HitsAreCommitted, RightHits, RightAnswer, Answers
  <1>4. RespsAreCommitted'
    BY <1>2 DEF RespsAreCommitted, RightResps, RightAnswer, Answers
  <1>5. DrainsAreCommitted'
    BY <1>2 DEF DrainsAreCommitted, RightDrain, RightWait, Answers, Fetching
  <1>6. QED
    BY <1>3, <1>4, <1>5 DEF AnswerInv

(* What was right and stays is right.                                      *)
LEMMA RightStays ==
  ASSUME AnswerInv
  PROVE  /\ \A p \in PortIds : hit_pend[p].valid => RightAnswer(hit_pend[p])
         /\ \A i \in DOMAIN resp_q : RightAnswer(resp_q[i])
         /\ \A m \in MshrIds : mshr[m].valid /\ mshr[m].fill = "draining" =>
              \A i \in DOMAIN mshr[m].waiters : RightWait(mshr[m].waiters[i], mshr[m].data)
         /\ UNCHANGED hit_pend => RightHits
         /\ UNCHANGED resp_q => RightResps
         /\ \A m \in MshrIds : mshr'[m] = mshr[m] => RightDrain(m)
         /\ \A m \in MshrIds : SameFetch(m) /\ mshr'[m].waiters = mshr[m].waiters => RightDrain(m)
         /\ \A m \in MshrIds : mshr'[m].fill # "draining" => RightDrain(m)
  <1>1. \A p \in PortIds : hit_pend[p].valid => RightAnswer(hit_pend[p])
    BY DEF AnswerInv, HitsAreCommitted, RightAnswer
  <1>2. \A i \in DOMAIN resp_q : RightAnswer(resp_q[i])
    BY DEF AnswerInv, RespsAreCommitted, RightAnswer
  <1>3. \A m \in MshrIds : mshr[m].valid /\ mshr[m].fill = "draining" =>
          \A i \in DOMAIN mshr[m].waiters : RightWait(mshr[m].waiters[i], mshr[m].data)
    BY DEF AnswerInv, DrainsAreCommitted, RightWait, Fetching
  <1>4. \A m \in MshrIds : mshr'[m] = mshr[m] => RightDrain(m)
    BY <1>3 DEF RightDrain
  <1>5. \A m \in MshrIds : SameFetch(m) /\ mshr'[m].waiters = mshr[m].waiters => RightDrain(m)
    BY <1>3 DEF RightDrain, SameFetch
  <1>6. \A m \in MshrIds : mshr'[m].fill # "draining" => RightDrain(m)
    BY DEF RightDrain
  <1>7. /\ UNCHANGED hit_pend => RightHits
        /\ UNCHANGED resp_q => RightResps
    BY <1>1, <1>2 DEF RightHits, RightResps
  <1>8. QED
    BY <1>1, <1>2, <1>3, <1>4, <1>5, <1>6, <1>7

(* An answer counts for the same load as its request.                      *)
LEMMA RespCounts ==
  ASSUME NEW r \in Reqs, NEW v
  PROVE  /\ Answers(Resp(r, v)) <=> Answers(r)
         /\ Resp(r, v).write = r.write /\ Resp(r, v).addr = r.addr /\ Resp(r, v).val = v
  BY DEF Answers, Resp, Reqs

(* A load that hits gets what was committed.                               *)
LEMMA HitLoadAnswers ==
  ASSUME OwnerInv, RequestInv, FitInv, ValueInv, AnswerInv,
         NEW p \in PortIds, NEW s \in SetIds, NEW w \in WayIds, HitsLoad(p, s, w)
  PROVE  AnswerInv'
  <1>1. PICK r \in Reqs : r = pipe[p]
    BY PlacesAreRequests
  <1>2. PICK v : v = cache[s][w].data[WordOf(r.addr)]
    OBVIOUS
  <1>3. /\ ~r.write /\ OldAsk(r) /\ s = SetOf(LineOf(r.addr)) /\ Holds(s, w, LineOf(r.addr))
        /\ hit_pend'[p] = Resp(r, v) /\ UNCHANGED resp_q /\ SameClient
        /\ \A q \in PortIds : q # p => hit_pend'[q] = hit_pend[q]
        /\ \A m \in MshrIds : SameFetch(m) /\ mshr'[m].waiters = mshr[m].waiters
    BY <1>1, <1>2, PlacesAsk DEF HitsLoad, Leaves, SameLines, SameWaiters
  <1>4. RightAnswer(Resp(r, v))
    <2> SUFFICES ASSUME Answers(r) PROVE v = committed[r.addr]
      BY RespCounts DEF RightAnswer
    <2>1. Found(LineOf(r.addr), WordOf(r.addr), committed[r.addr])
      BY <1>3, LiveIsFound
    <2> QED
      BY <1>2, <1>3, <2>1 DEF Found
  <1>5. RightHits
    BY <1>3, <1>4, RightStays DEF RightHits
  <1>6. RightResps /\ \A m \in MshrIds : RightDrain(m)
    BY <1>3, RightStays
  <1>7. QED
    BY <1>3, <1>5, <1>6, RightIsEnough

(* A store's answer is none of a load.                                     *)
LEMMA HitStoreAnswers ==
  ASSUME OwnerInv, AnswerInv, NEW p \in PortIds, NEW s \in SetIds, NEW w \in WayIds,
         HitsStore(p, s, w)
  PROVE  AnswerInv'
  <1>1. pipe[p] \in Reqs /\ resp_q \in Seq(Reqs)
    BY PlacesAreRequests
  <1>2. PICK e \in Reqs : e = Resp(pipe[p], 0)
    BY <1>1, ConstantsArePositive DEF Resp, Reqs
  <1>3. /\ SameClient /\ UNCHANGED <<mshr, hit_pend>> /\ pipe[p].write
        /\ resp_q' = Append(resp_q, e)
    BY <1>2 DEF HitsStore
  <1>4. RightAnswer(e)
    BY <1>1, <1>2, <1>3, RespCounts DEF RightAnswer
  <1>5. RightResps
    BY <1>1, <1>3, <1>4, RightStays, AppendedElements DEF RightResps
  <1>6. RightHits /\ \A m \in MshrIds : RightDrain(m)
    BY <1>3, RightStays
  <1>7. QED
    BY <1>3, <1>5, <1>6, RightIsEnough

(* Loads that wait for a line get what is installed.                       *)
LEMMA InstallAnswers ==
  ASSUME OwnerInv, RequestInv, LineInv, FitInv, ValueInv, AnswerInv,
         NEW m \in MshrIds, NEW s \in SetIds, NEW w \in WayIds, Installs(m, s, w)
  PROVE  AnswerInv'
  <1>1. /\ SameClient /\ UNCHANGED <<hit_pend, resp_q>>
        /\ mshr[m].valid /\ mshr[m].fill = "ready" /\ mshr'[m].data = Filled(m)
        /\ mshr'[m].waiters = mshr[m].waiters
        /\ \A n \in MshrIds : n # m => mshr'[n] = mshr[n]
    BY DEF Installs, SameWaiters
  <1>2. ASSUME NEW i \in DOMAIN mshr[m].waiters
        PROVE  RightWait(mshr[m].waiters[i], Filled(m))
    <2>1. PICK r \in Reqs : r = mshr[m].waiters[i]
      BY WaitersAreRequests
    <2>2. SUFFICES ASSUME ~r.write, Answers(r)
                   PROVE  Filled(m)[WordOf(r.addr)] = committed[r.addr]
      BY <2>1 DEF RightWait
    <2>3. OldAsk(r) /\ LineOf(r.addr) = mshr[m].line /\ r.addr \in Words
      BY <2>1, PlacesAsk DEF LineInv, WaitersAreHome, Reqs
    <2>4. /\ AwaitedHas(r.addr, committed[r.addr])
          /\ Found(LineOf(r.addr), WordOf(r.addr), committed[r.addr])
      BY <2>2, <2>3, LiveIsFound
    <2> QED
      BY <1>1, <2>3, <2>4, InstalledHas
  <1>3. RightDrain(m)
    BY <1>1, <1>2 DEF RightDrain
  <1>4. RightHits /\ RightResps /\ \A n \in MshrIds : RightDrain(n)
    BY <1>1, <1>3, RightStays
  <1>5. QED
    BY <1>1, <1>4, RightIsEnough

(* The drain gives it to them.                                             *)
LEMMA DrainAnswers ==
  ASSUME OwnerInv, AnswerInv, NEW m \in MshrIds, Drains(m)
  PROVE  AnswerInv'
  <1> DEFINE ws == mshr[m].waiters
             r  == Head(ws)
             v  == IF r.write THEN 0 ELSE mshr[m].data[WordOf(r.addr)]
             e  == Resp(r, v)
  <1>1. ws \in Seq(Reqs) /\ ws # <<>> /\ resp_q \in Seq(Reqs)
    BY WaitersAreRequests, PlacesAreRequests DEF Drains
  <1>2. r = ws[1] /\ 1 \in DOMAIN ws /\ r \in Reqs
    <2> HIDE DEF ws
    <2> QED
      BY <1>1, TailElements, ElementOfSeq
  <1>3. /\ SameClient /\ UNCHANGED hit_pend /\ mshr[m].valid /\ mshr[m].fill = "draining"
        /\ \A n \in MshrIds : n # m => mshr'[n] = mshr[n]
        /\ resp_q' = Append(resp_q, e)
        /\ \/ SameFetch(m) /\ mshr'[m].waiters = Tail(ws)
           \/ ~mshr'[m].valid
    BY DEF Drains
  <1>4. \A i \in DOMAIN ws : RightWait(ws[i], mshr[m].data)
    BY <1>3, RightStays
  <1>5. RightWait(r, mshr[m].data)
    BY <1>2, <1>4
  <1>6. v \in Val
    <2>1. mshr[m].data \in LineData
      BY DEF OwnerInv, Shapes, MshrStates
    <2>2. WordOf(r.addr) \in 0 .. LineWords - 1
      BY <1>2, AddressFacts DEF Reqs
    <2> QED
      BY <2>1, <2>2, ConstantsArePositive DEF LineData
  <1>7. e \in Reqs
    <2> HIDE DEF r, v
    <2> QED
      BY <1>2, <1>6 DEF Resp, Reqs
  <1>8. RightAnswer(e)
    <2>1. ~r.write => v = mshr[m].data[WordOf(r.addr)]
      OBVIOUS
    <2> HIDE DEF r, v
    <2> QED
      BY <1>2, <1>5, <2>1, RespCounts DEF RightAnswer, RightWait
  <1>9. RightResps
    <2> HIDE DEF e
    <2> QED
      BY <1>1, <1>3, <1>7, <1>8, RightStays, AppendedElements DEF RightResps
  <1>10. RightDrain(m)
    <2>1. CASE SameFetch(m) /\ mshr'[m].waiters = Tail(ws)
      <3>1. mshr'[m].data = mshr[m].data
        BY <2>1 DEF SameFetch
      <3>2. \A i \in DOMAIN Tail(ws) : RightWait(Tail(ws)[i], mshr[m].data)
        <4> HIDE DEF ws
        <4> QED
          BY <1>1, <1>4, TailElements
      <3> QED
        BY <2>1, <3>1, <3>2 DEF RightDrain
    <2>2. CASE ~mshr'[m].valid
      BY <2>2 DEF RightDrain
    <2> QED
      BY <1>3, <2>1, <2>2
  <1>11. RightHits /\ \A n \in MshrIds : RightDrain(n)
    BY <1>3, <1>10, RightStays
  <1>12. QED
    BY <1>3, <1>9, <1>11, RightIsEnough

(* In every step of the cache.                                             *)
LEMMA AnswerCache ==
  ASSUME OwnerInv, RequestInv, LineInv, FitInv, ValueInv, AnswerInv, CacheStep
  PROVE  AnswerInv'
  <1>1. ASSUME SameClient, UNCHANGED <<hit_pend, resp_q>>, \A m \in MshrIds : RightDrain(m)
        PROVE  AnswerInv'
    BY <1>1, RightStays, RightIsEnough
  <1>2. SameTables => \A m \in MshrIds : RightDrain(m)
    BY RightStays DEF SameTables, SameLines, SameWaiters
  <1>3. ASSUME NEW hits \in SUBSET PortIds, HitsAnswer(hits), \A m \in MshrIds : RightDrain(m)
        PROVE  AnswerInv'
    <2>1. SameClient
      BY <1>3 DEF HitsAnswer
    <2>2. RightHits
      BY <1>3, RightStays DEF HitsAnswer, RightHits
    <2>3. \A p \in hits : RightAnswer(hit_pend[p])
      BY <1>3, RightStays DEF HitsAnswer
    <2>4. RightResps
      BY <1>3, <2>3, RightStays, AnsweredElements DEF RightResps
    <2> QED
      BY <1>3, <2>1, <2>2, <2>4, RightIsEnough
  <1>4. CASE Quiet \/ \E hits \in SUBSET PortIds : HitsAnswer(hits) /\ SameTables
    BY <1>1, <1>2, <1>3, <1>4 DEF Quiet, SamePlaces
  <1>5. ASSUME NEW p \in PortIds, NEW m \in MshrIds, Joins(p, m)
        PROVE  AnswerInv'
    <2>1. \A n \in MshrIds : /\ n # m => SameFetch(n) /\ mshr'[n].waiters = mshr[n].waiters
                             /\ mshr'[m].fill # "draining"
      BY <1>5 DEF Joins, SameLines, SameFetch
    <2>2. \A n \in MshrIds : RightDrain(n)
      BY <2>1, RightStays
    <2> QED
      BY <1>1, <1>5, <2>2 DEF Joins
  <1>6. CASE \E p \in PortIds, s \in SetIds, w \in WayIds : HitsStore(p, s, w)
    BY <1>6, HitStoreAnswers
  <1>7. CASE \E p \in PortIds, s \in SetIds, w \in WayIds : HitsLoad(p, s, w)
    BY <1>7, HitLoadAnswers
  <1>8. ASSUME NEW p \in PortIds, NEW s \in SetIds, NEW m \in MshrIds, NEW w \in WayIds,
               Evicts(p, s, m, w)
        PROVE  AnswerInv'
    <2>1. \A n \in MshrIds : /\ n # m => mshr'[n] = mshr[n]
                             /\ mshr'[m].fill # "draining"
      BY <1>8 DEF Evicts
    <2>2. \A n \in MshrIds : RightDrain(n)
      BY <2>1, RightStays
    <2> QED
      BY <1>1, <1>8, <2>2 DEF Evicts
  <1>9. CASE \E m \in MshrIds, s \in SetIds, w \in WayIds : Installs(m, s, w)
    BY <1>9, InstallAnswers
  <1>10. CASE \E m \in MshrIds : Drains(m)
    BY <1>10, DrainAnswers
  <1>11. ASSUME NEW m \in MshrIds, Sends(m)
         PROVE  AnswerInv'
    <2>1. \A n \in MshrIds : n # m => mshr'[n] = mshr[n]
      BY <1>11 DEF Sends
    <2>2. RightDrain(m)
      BY <1>11, RightStays DEF Sends, SameWaiters, RightDrain
    <2>3. \A n \in MshrIds : RightDrain(n)
      BY <2>1, <2>2, RightStays
    <2> QED
      BY <1>1, <1>11, <2>3 DEF Sends
  <1>12. ASSUME NEW hits \in SUBSET PortIds, NEW m \in MshrIds, HitsAnswer(hits), Finishes(m)
         PROVE  AnswerInv'
    <2>1. \A n \in MshrIds : n # m => mshr'[n] = mshr[n]
      BY <1>12 DEF Finishes
    <2>2. RightDrain(m)
      BY <1>12, RightStays DEF Finishes, SameWaiters, RightDrain
    <2>3. \A n \in MshrIds : RightDrain(n)
      BY <2>1, <2>2, RightStays
    <2> QED
      BY <1>3, <1>12, <2>3
  <1>13. QED
    BY <1>4, <1>5, <1>6, <1>7, <1>8, <1>9, <1>10, <1>11, <1>12 DEF CacheStep

(* In every step of the load/store queue: a load that goes on waiting has  *)
(* no store to its word that retires, and an entry's new load no answer.   *)
LEMMA AnswerClient ==
  ASSUME OwnerInv, RequestInv, FitInv, AnswerInv, ClientStep
  PROVE  AnswerInv'
  <1>1. ASSUME UNCHANGED <<load, committed>>
        PROVE  \A r : StillRight(r)
    BY <1>1 DEF StillRight, Answers
  <1>2. ASSUME NEW l \in LoadIds, OtherLoads(l), UNCHANGED committed,
               ~load'[l].busy \/ ~load'[l].sent
        PROVE  \A r : StillRight(r)
    <2> SUFFICES ASSUME NEW r, OldAsk(r), ~r.write, Answers(r)'
                 PROVE  Answers(r)
      BY <1>2 DEF StillRight
    <2>1. r.id \in LoadIds
      BY KnownRequests
    <2> QED
      BY <1>2, <2>1 DEF Answers, OtherLoads
  <1>3. ASSUME NEW a \in Words, NEW v \in Val, NEW i \in SbIds, Retires(a, v, i)
        PROVE  AnswerInv'
    <2>1. \A r : StillRight(r)
      <3> SUFFICES ASSUME NEW r, OldAsk(r), ~r.write, Answers(r)'
                   PROVE  Answers(r) /\ committed'[r.addr] = committed[r.addr]
        BY DEF StillRight
      <3>1. /\ UNCHANGED load /\ committed' = [committed EXCEPT ![a] = v]
            /\ \A l \in LoadIds : ~(load[l].busy /\ load[l].addr = a)
        BY <1>3 DEF Retires
      <3>2. Answers(r)
        BY <3>1 DEF Answers
      <3>3. r.id \in LoadIds /\ load[r.id].addr = r.addr /\ load[r.id].busy
        BY <3>2, KnownRequests DEF Answers
      <3>4. r.addr # a
        BY <3>1, <3>3
      <3>5. committed \in [Words -> Val] /\ r.addr \in Words
        BY <3>3 DEF OwnerInv, Shapes, LoadStates
      <3> QED
        BY <3>1, <3>2, <3>4, <3>5
    <2> QED
      BY <1>3, <2>1, QueueAnswers DEF Retires, SamePlaces
  <1>4. ASSUME NEW l \in LoadIds, Squashes(l) \/ \E a \in Words : Starts(l, a)
        PROVE  AnswerInv'
    <2>1. /\ OtherLoads(l) /\ UNCHANGED committed /\ SameTables /\ SamePlaces
          /\ ~load'[l].busy \/ ~load'[l].sent
      BY <1>4 DEF Squashes, Starts
    <2>2. \A r : StillRight(r)
      BY <1>2, <2>1
    <2> QED
      BY <2>1, <2>2, QueueAnswers DEF SamePlaces
  <1>5. ASSUME NEW p \in PortIds, NEW k \in Unsent, IssuesStore(p, k)
        PROVE  AnswerInv'
    <2>1. UNCHANGED <<hit_pend, resp_q, load, committed>> /\ SameTables
      BY <1>5 DEF IssuesStore
    <2>2. \A r : StillRight(r)
      BY <1>1, <2>1
    <2> QED
      BY <2>1, <2>2, QueueAnswers
  <1>6. ASSUME NEW p \in PortIds, NEW l \in LoadIds, IssuesLoad(p, l)
        PROVE  AnswerInv'
    <2>1. /\ UNCHANGED <<hit_pend, resp_q, committed>> /\ SameTables /\ OtherLoads(l)
          /\ load[l].busy /\ ~load[l].sent /\ load'[l].gen = load[l].gen
      BY <1>6 DEF IssuesLoad
    <2>2. \A r : StillRight(r)
      <3> SUFFICES ASSUME NEW r, OldAsk(r), ~r.write, Answers(r)'
                   PROVE  Answers(r)
        BY <2>1 DEF StillRight
      <3>1. /\ r.id \in LoadIds
            /\ load[r.id].busy /\ ~load[r.id].sent => r.cookie # load[r.id].gen
        BY KnownRequests
      <3>2. r.id # l
        BY <2>1, <3>1 DEF Answers
      <3> QED
        BY <2>1, <3>1, <3>2 DEF Answers, OtherLoads
    <2> QED
      BY <2>1, <2>2, QueueAnswers
  <1>7. CASE Receives
    <2>1. /\ UNCHANGED <<hit_pend, committed>> /\ SameTables
          /\ resp_q # <<>> /\ resp_q' = Tail(resp_q)
      BY <1>7 DEF Receives
    <2>2. \/ UNCHANGED load
          \/ \E l \in LoadIds : ~load'[l].busy /\ OtherLoads(l)
      BY <1>7 DEF Receives
    <2>3. \A r : StillRight(r)
      BY <1>1, <1>2, <2>1, <2>2
    <2> QED
      BY <2>1, <2>3, QueueAnswers
  <1>8. ASSUME NEW n \in 0 .. SbDepth, Frees(n)
        PROVE  AnswerInv'
    <2>1. UNCHANGED <<hit_pend, resp_q, load, committed>> /\ SameTables
      BY <1>8 DEF Frees, SamePlaces
    <2>2. \A r : StillRight(r)
      BY <1>1, <2>1
    <2> QED
      BY <2>1, <2>2, QueueAnswers
  <1>9. QED
    BY <1>3, <1>4, <1>5, <1>6, <1>7, <1>8 DEF ClientStep

(* In every step.                                                          *)
LEMMA AnswerNext ==
  ASSUME OwnerInv, RequestInv, LineInv, FitInv, ValueInv, AnswerInv, [CacheNext]_vars
  PROVE  AnswerInv'
  BY StepEffect, AnswerCache, AnswerClient

(* There are no answers at first.                                          *)
LEMMA AnswerInit == CacheInit => AnswerInv
  <1> SUFFICES ASSUME CacheInit PROVE AnswerInv
    OBVIOUS
  <1>1. (\A m \in MshrIds : ~mshr[m].valid) /\ (\A p \in PortIds : ~hit_pend[p].valid)
    BY DEF CacheInit, FreeMshr, NoReq
  <1>2. resp_q = <<>>
    BY DEF CacheInit
  <1>3. QED
    BY <1>1, <1>2 DEF AnswerInv, HitsAreCommitted, RespsAreCommitted, DrainsAreCommitted

-------------------------------------------------------------------------------
(* The theorems.                                                           *)

(* In every reachable state, where the ports keep the order of the stores, *)
(* lines agree with memory, requests are for the words of those who asked, *)
(* the newest value of every word is in the first place that has one, and  *)
(* the answers on their way are right.                                     *)
THEOREM StoreInvariant ==
  ASSUME StoresKeepOrder
  PROVE  CacheSpec => []StoreInv
  <1>1. CacheInit => StoreInv
    BY LineInit, FitInit, ValueInit, AnswerInit DEF StoreInv
  <1>2. OwnerInv /\ RequestInv /\ RequestInv' /\ StoreInv /\ [CacheNext]_vars => StoreInv'
    <2> SUFFICES ASSUME OwnerInv, RequestInv, RequestInv', StoreInv, [CacheNext]_vars
                 PROVE  StoreInv'
      OBVIOUS
    <2>1. LineInv /\ FitInv /\ ValueInv /\ AnswerInv
      BY DEF StoreInv
    <2>2. LineInv' /\ FitInv'
      BY <2>1, LineNext, FitNext
    <2>3. ValueInv'
      BY <2>1, ValueNext
    <2>4. AnswerInv'
      BY <2>1, AnswerNext
    <2> QED
      BY <2>2, <2>3, <2>4 DEF StoreInv
  <1>3. QED
    BY <1>1, <1>2, CacheInvariant, RequestInvariant, PTL DEF CacheSpec

(* No store is lost: a word that no store of the buffer is for is, to      *)
(* whoever looks it up next, what the last store to retire wrote.          *)
THEOREM StoresReachTheHierarchy ==
  ASSUME StoresKeepOrder
  PROVE  CacheSpec => []NoLostStore
  <1>1. OwnerInv /\ RequestInv /\ StoreInv => NoLostStore
    <2> SUFFICES ASSUME OwnerInv, RequestInv, StoreInv, NEW a \in Words, ~InSb(a)
                 PROVE  Visible(a) = committed[a]
      BY DEF NoLostStore
    <2> DEFINE line == LineOf(a)
               s    == SetOf(line)
               w    == WordOf(a)
    <2>1. ~Buffered(a)
      BY DEF InSb, SbLive, Buffered, RequestInv, SlotsAreFree
    <2>2. Found(line, w, committed[a])
      BY <2>1, UnbufferedIsFound DEF StoreInv
    <2>3. line \in Lines /\ s \in SetIds
      BY AddressFacts
    <2>4. CASE CachedIn(s, line) # {}
      <3>1. CachedIn(s, line) \in SUBSET Nat
        BY IdsAreNumbers DEF CachedIn, HitWays
      <3>2. PICK u \in CachedIn(s, line) : u = Lowest(CachedIn(s, line))
        BY <2>4, <3>1, LowestIsIn
      <3>3. u \in WayIds /\ Holds(s, u, line)
        BY DEF CachedIn, HitWays, Holds
      <3>4. cache[s][u].data[w] = committed[a]
        BY <2>2, <3>3 DEF Found
      <3> QED
        BY <2>4, <3>2, <3>4 DEF Visible
    <2>5. CASE CachedIn(s, line) = {} /\ WritingBack(line) # {}
      <3>1. WritingBack(line) \in SUBSET Nat
        BY IdsAreNumbers DEF WritingBack
      <3>2. PICK m \in WritingBack(line) : m = Lowest(WritingBack(line))
        BY <2>5, <3>1, LowestIsIn
      <3>3. m \in MshrIds /\ Evicting(m, line)
        BY DEF WritingBack, Evicting
      <3>4. \A u \in WayIds : ~Holds(s, u, line)
        BY <2>5 DEF CachedIn, HitWays, Holds
      <3>5. mshr[m].wb_data[w] = committed[a]
        BY <2>2, <3>3, <3>4 DEF Found
      <3> QED
        BY <2>5, <3>2, <3>5 DEF Visible
    <2>6. CASE CachedIn(s, line) = {} /\ WritingBack(line) = {}
      <3>1. \A m \in MshrIds : ~Evicting(m, line)
        BY <2>6 DEF WritingBack, Evicting
      <3>2. \A u \in WayIds : ~Holds(s, u, line)
        BY <2>6 DEF CachedIn, HitWays, Holds
      <3>3. memory[line][w] = committed[a]
        BY <2>2, <3>1, <3>2 DEF Found
      <3> QED
        BY <2>6, <3>3 DEF Visible
    <2> QED
      BY <2>4, <2>5, <2>6
  <1>2. QED
    BY <1>1, CacheInvariant, RequestInvariant, StoreInvariant, PTL

(* A load is answered with what the last retired store to its word wrote.  *)
THEOREM LoadsGetTheLastStore ==
  ASSUME StoresKeepOrder
  PROVE  CacheSpec => []LoadsReturnCommitted
  <1>1. OwnerInv /\ RequestInv /\ StoreInv => LoadsReturnCommitted
    <2> SUFFICES ASSUME OwnerInv, RequestInv, StoreInv, NEW i \in 1 .. Len(resp_q),
                        ~resp_q[i].write, Answers(resp_q[i])
                 PROVE  resp_q[i].val = committed[load[resp_q[i].id].addr]
      BY DEF LoadsReturnCommitted
    <2>1. PICK r : r = resp_q[i]
      OBVIOUS
    <2>2. i \in DOMAIN resp_q
      BY PlacesAreRequests
    <2>3. OldAsk(r)
      BY <2>1, <2>2, PlacesAsk
    <2>4. load[r.id].addr = r.addr
      BY <2>1, <2>3, KnownRequests DEF StoreInv, Answers
    <2>5. r.val = committed[r.addr]
      BY <2>1, <2>2 DEF StoreInv, AnswerInv, RespsAreCommitted
    <2> QED
      BY <2>1, <2>4, <2>5
  <1>2. QED
    BY <1>1, CacheInvariant, RequestInvariant, StoreInvariant, PTL

===============================================================================
