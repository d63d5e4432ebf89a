------------------------------ MODULE DataCache ------------------------------
(***************************************************************************)
(* The cached memory path: the store buffer and the load slots of the      *)
(* load/store queue (load_store_queue.cpp) as clients of the non-blocking, *)
(* write-back, write-allocate data cache (mem/dcache.cpp), which fills     *)
(* from and writes back to DRAM (mem/dram_simple.cpp) through the arbiter  *)
(* of mem/memory_system.cpp.                                               *)
(*                                                                         *)
(* A tick goes through the phases                                          *)
(*   commit      stores that retire enter the store buffer                 *)
(*   dram        DRAM finishes a request, load hits answer                 *)
(*   arbitrate   the cache's next request goes to DRAM                     *)
(*   pipes       the compare pipe of each port looks its request up        *)
(*   fills       a filled line is installed, one waiting request answered  *)
(*   resps       the load/store queue takes the answers                    *)
(*   issue       requests are put into free ports (the queue's own limit,  *)
(*               max_mem_ports, is the width of the core: at least Ports)  *)
(* Words are whole and addressed from 0.  DRAM latency (and so the traffic *)
(* of the instruction cache it is shared with) and the hit latency are     *)
(* choices.  What the core does is reduced to what the queue lets through: *)
(* a load asks the cache only if no store to its word is in the store      *)
(* buffer, else it is forwarded; a store retires, and so enters the store  *)
(* buffer, when no older load is outstanding.                              *)
(***************************************************************************)
EXTENDS Integers, Sequences, FiniteSets, Functions

CONSTANTS NumLines, LineWords,   \* the memory
          Sets, Ways,            \* the cache's geometry
          Mshrs, MaxWaiters,     \* misses in flight, requests waiting for each
          Ports,                 \* dcache_ufp_ports
          RespLanes,             \* answers taken per tick
          SbDepth,               \* store buffer entries
          NumLoads,              \* load/store queue entries that hold loads
          MaxGen,                \* bound on the loads given to one such entry
          Val                    \* values of words

ASSUME CacheAssumption ==
  /\ {NumLines, LineWords, Sets, Ways, Mshrs, MaxWaiters, Ports, RespLanes,
      SbDepth, NumLoads} \subseteq Nat \ {0}
  /\ 0 \in Val

VARIABLES
  phase,
  port,        \* pipes: the next port; issue: cpu_accepts_; resps: answers taken
  sb, sb_head, sb_count,     \* store buffer, a ring with holes
  load,        \* load slots
  cache,       \* cache_[set][way]
  lru,         \* rank of each way's lru time in its set, 0 the oldest
  mshr,        \* mshrs_
  pipe,        \* compare pipe of each port
  hit_pend,    \* load hit about to answer, by port
  resp_q,
  drain_mshr,
  dram,        \* the cache's request in DRAM (it has one at a time)
  memory,
  committed    \* what the stores that retired have written, in that order

clientVars == <<sb, sb_head, sb_count, load>>
tableVars  == <<cache, lru, mshr, drain_mshr>>
portVars   == <<pipe, hit_pend>>
vars == <<phase, port, clientVars, tableVars, portVars, resp_q, dram, memory,
          committed>>

Phases  == {"commit", "dram", "arbitrate", "pipes", "fills", "resps", "issue"}
Lines   == 0 .. NumLines - 1
Words   == 0 .. NumLines * LineWords - 1
MshrIds == 0 .. Mshrs - 1
PortIds == 0 .. Ports - 1
SbIds   == 0 .. SbDepth - 1
LoadIds == 0 .. NumLoads - 1
WayIds  == 0 .. Ways - 1
SetIds  == 0 .. Sets - 1

LineOf(a)   == a \div LineWords
WordOf(a)   == a % LineWords
SetOf(line) == line % Sets
NoLine      == -1
NoMshr      == -1
ZeroLine    == [w \in 0 .. LineWords - 1 |-> 0]

NoReq   == [valid |-> FALSE, write |-> FALSE, addr |-> 0, val |-> 0, id |-> 0,
            cookie |-> 0]
NoWay   == [valid |-> FALSE, dirty |-> FALSE, reserved |-> FALSE,
            line |-> NoLine, data |-> ZeroLine]
FreeMshr == [valid |-> FALSE, line |-> NoLine, way |-> 0, wb |-> "none",
             wb_line |-> NoLine, wb_data |-> ZeroLine, fill |-> "wanted",
             data |-> ZeroLine, waiters |-> <<>>]
FreeSb   == [valid |-> FALSE, sent |-> FALSE, addr |-> 0, val |-> 0]
FreeLoad == [busy |-> FALSE, sent |-> FALSE, addr |-> 0, gen |-> 0]
DramIdle == [busy |-> FALSE, write |-> FALSE, line |-> NoLine,
             data |-> ZeroLine, mshr |-> NoMshr]

CacheInit ==
  /\ phase = "commit" /\ port = 0
  /\ sb = [i \in SbIds |-> FreeSb] /\ sb_head = 0 /\ sb_count = 0
  /\ load = [l \in LoadIds |-> FreeLoad]
  /\ cache = [s \in SetIds |-> [w \in WayIds |-> NoWay]]
  /\ lru = [s \in SetIds |-> [w \in WayIds |-> w]]
  /\ mshr = [m \in MshrIds |-> FreeMshr]
  /\ pipe = [p \in PortIds |-> NoReq]
  /\ hit_pend = [p \in PortIds |-> NoReq]
  /\ resp_q = <<>>
  /\ drain_mshr = NoMshr
  /\ dram = DramIdle
  /\ memory = [l \in Lines |-> ZeroLine]
  /\ committed = [a \in Words |-> 0]

-------------------------------------------------------------------------------
(* The store buffer and the load slots.                                    *)

SbAt(k) == (sb_head + k) % SbDepth
SbLive  == {SbAt(k) : k \in 0 .. sb_count - 1}
InSb(a) == \E i \in SbLive : sb[i].valid /\ sb[i].addr = a

HasRoom_OneMore == sb_count <= SbDepth                           \* mutant
HasRoom == sb_count < SbDepth

(* enqueueStores.                                                          *)
NewStore(a, v) ==
  /\ phase = "commit"
  /\ HasRoom
  /\ \A l \in LoadIds : ~(load[l].busy /\ load[l].addr = a)
  /\ sb' = [sb EXCEPT ![SbAt(sb_count)] =
              [valid |-> TRUE, sent |-> FALSE, addr |-> a, val |-> v]]
  /\ sb_count' = sb_count + 1
  /\ committed' = [committed EXCEPT ![a] = v]
  /\ UNCHANGED <<phase, port, sb_head, load, tableVars, portVars, resp_q, dram,
                 memory>>

BeginTick ==
  /\ phase = "commit"
  /\ phase' = "dram"
  /\ UNCHANGED <<port, clientVars, tableVars, portVars, resp_q, dram, memory,
                 committed>>

(* dispatchLoad when nothing can be forwarded.                             *)
NewLoad(l, a) ==
  /\ phase = "issue"
  /\ ~load[l].busy
  /\ load[l].gen < MaxGen
  /\ ~InSb(a)
  /\ load' = [load EXCEPT ![l] = [busy |-> TRUE, sent |-> FALSE, addr |-> a,
                                  gen |-> @.gen + 1]]
  /\ UNCHANGED <<phase, port, sb, sb_head, sb_count, tableVars, portVars,
                 resp_q, dram, memory, committed>>

(* squashInstIds: the slot is free, its request stays in the cache.        *)
SquashLoad(l) ==
  /\ phase = "issue"
  /\ load[l].busy
  /\ load' = [load EXCEPT ![l].busy = FALSE, ![l].sent = FALSE]
  /\ UNCHANGED <<phase, port, sb, sb_head, sb_count, tableVars, portVars,
                 resp_q, dram, memory, committed>>

(* tryCpuReq: freePipePort is the first port with nothing in it, not even  *)
(* a load hit that has not answered.                                       *)
FreePorts == {p \in PortIds : ~pipe[p].valid /\ ~hit_pend[p].valid}
CanAccept == port < Ports /\ FreePorts # {}
FreePipePort == CHOOSE p \in FreePorts : \A q \in FreePorts : p <= q

Accept(req) ==
  /\ pipe' = [pipe EXCEPT ![FreePipePort] = req]
  /\ port' = port + 1

(* issueMemoryRequests: the stores of the buffer in order, then loads.     *)
Unsent == {k \in 0 .. sb_count - 1 : sb[SbAt(k)].valid /\ ~sb[SbAt(k)].sent}

IssueStore ==
  /\ phase = "issue"
  /\ CanAccept /\ Unsent # {}
  /\ LET i == SbAt(CHOOSE k \in Unsent : \A j \in Unsent : k <= j)
     IN  /\ Accept([valid |-> TRUE, write |-> TRUE, addr |-> sb[i].addr,
                    val |-> sb[i].val, id |-> i, cookie |-> 0])
         /\ sb' = [sb EXCEPT ![i].sent = TRUE]
  /\ UNCHANGED <<phase, sb_head, sb_count, load, tableVars, hit_pend, resp_q,
                 dram, memory, committed>>

IssueLoad(l) ==
  /\ phase = "issue"
  /\ CanAccept /\ Unsent = {}
  /\ load[l].busy /\ ~load[l].sent
  /\ Accept([valid |-> TRUE, write |-> FALSE, addr |-> load[l].addr, val |-> 0,
             id |-> l, cookie |-> load[l].gen])
  /\ load' = [load EXCEPT ![l].sent = TRUE]
  /\ UNCHANGED <<phase, sb, sb_head, sb_count, tableVars, hit_pend, resp_q,
                 dram, memory, committed>>

(* Requests are issued as long as a port takes them.  The end of           *)
(* LoadStoreQueue::tick frees the holes at the head of the store buffer.   *)
EndIssue ==
  /\ phase = "issue"
  /\ CanAccept => /\ Unsent = {}
                  /\ \A l \in LoadIds : load[l].busy => load[l].sent
  /\ phase' = "commit" /\ port' = 0
  /\ LET kept == {k \in 0 .. sb_count - 1 : sb[SbAt(k)].valid}
         n    == IF kept = {} THEN sb_count
                              ELSE CHOOSE k \in kept : \A j \in kept : k <= j
     IN  /\ sb_head' = SbAt(n)
         /\ sb_count' = sb_count - n
  /\ UNCHANGED <<sb, load, tableVars, portVars, resp_q, dram, memory, committed>>

(* applyDataResps: a load's answer counts only for the instruction that    *)
(* asked (the cookie); an acknowledged store leaves a hole.                *)
Answers_AnyCookie(r) == load[r.id].busy /\ load[r.id].sent      \* mutant
Answers(r) ==
  load[r.id].busy /\ load[r.id].sent /\ load[r.id].gen = r.cookie

ApplyResp ==
  /\ phase = "resps"
  /\ resp_q # <<>> /\ port < RespLanes
  /\ LET r == Head(resp_q)
     IN  IF r.write
           THEN /\ sb' = [sb EXCEPT ![r.id] = FreeSb]
                /\ UNCHANGED load
           ELSE /\ load' = IF Answers(r)
                             THEN [load EXCEPT ![r.id].busy = FALSE,
                                               ![r.id].sent = FALSE]
                             ELSE load
                /\ UNCHANGED sb
  /\ resp_q' = Tail(resp_q)
  /\ port' = port + 1
  /\ UNCHANGED <<phase, sb_head, sb_count, tableVars, portVars, dram, memory,
                 committed>>

EndResps ==
  /\ phase = "resps"
  /\ resp_q = <<>> \/ port = RespLanes
  /\ phase' = "issue" /\ port' = 0
  /\ UNCHANGED <<clientVars, tableVars, portVars, resp_q, dram, memory,
                 committed>>

-------------------------------------------------------------------------------
(* DRAM.                                                                   *)

(* DramSimple::tick and routeDramResps: a request that is finished is      *)
(* answered, a write having been done.  Load hits that have waited long    *)
(* enough answer.                                                          *)
MshrAfterDram ==
  IF dram.write
    THEN [mshr EXCEPT ![dram.mshr].wb = "done"]
    ELSE [mshr EXCEPT ![dram.mshr].fill = "ready", ![dram.mshr].data = dram.data]

(* Ports answer in the order of their numbers.                             *)
NthPort(S, i) == CHOOSE p \in S : Cardinality({q \in S : q < p}) = i - 1

DramTick(finished, hits) ==
  /\ phase = "dram"
  /\ finished => dram.busy
  /\ \A p \in hits : hit_pend[p].valid
  /\ IF finished
       THEN /\ mshr' = MshrAfterDram
            /\ memory' = IF dram.write THEN [memory EXCEPT ![dram.line] = dram.data]
                                       ELSE memory
            /\ dram' = DramIdle
       ELSE UNCHANGED <<mshr, memory, dram>>
  /\ resp_q' = resp_q \o [i \in 1 .. Cardinality(hits) |->
                            hit_pend[NthPort(hits, i)]]
  /\ hit_pend' = [p \in PortIds |-> IF p \in hits THEN NoReq ELSE hit_pend[p]]
  /\ phase' = "arbitrate"
  /\ UNCHANGED <<port, clientVars, cache, lru, drain_mshr, pipe, committed>>

(* pickDramMshr: write-backs first, so that no fill reads a line whose     *)
(* write-back is still to come.                                            *)
WantsWb   == {m \in MshrIds : mshr[m].valid /\ mshr[m].wb = "wanted"}
WantsFill_Clean ==                                               \* mutant
  {m \in MshrIds : mshr[m].valid /\ mshr[m].wb = "none" /\ mshr[m].fill = "wanted"}
WantsFill == {m \in MshrIds : /\ mshr[m].valid
                              /\ mshr[m].wb \in {"none", "done"}
                              /\ mshr[m].fill = "wanted"}
Lowest(S) == CHOOSE m \in S : \A n \in S : m <= n
DramPick ==
  IF WantsWb # {} THEN Lowest(WantsWb)
  ELSE IF WantsFill # {} THEN Lowest(WantsFill) ELSE NoMshr

(* arbitrateToDram, dramReqAccepted: a read takes the line as it is now.   *)
DramAccept ==
  /\ phase = "arbitrate"
  /\ ~dram.busy /\ DramPick # NoMshr
  /\ LET m  == DramPick
         wb == mshr[m].wb = "wanted"
         line == IF wb THEN mshr[m].wb_line ELSE mshr[m].line
     IN  /\ dram' = [busy |-> TRUE, write |-> wb, line |-> line, mshr |-> m,
                     data |-> IF wb THEN mshr[m].wb_data ELSE memory[line]]
         /\ mshr' = IF wb THEN [mshr EXCEPT ![m].wb = "sent"]
                          ELSE [mshr EXCEPT ![m].fill = "sent"]
  /\ phase' = "pipes"
  /\ UNCHANGED <<port, clientVars, cache, lru, drain_mshr, portVars, resp_q,
                 memory, committed>>

(* Nothing to send, or DRAM is full of the instruction cache's requests.   *)
NoDramAccept ==
  /\ phase = "arbitrate"
  /\ phase' = "pipes"
  /\ UNCHANGED <<port, clientVars, tableVars, portVars, resp_q, dram, memory,
                 committed>>

-------------------------------------------------------------------------------
(* The compare pipes: processPipes, one port.                              *)

Resp(req, v) == [req EXCEPT !.val = v]

MshrOf(line) == {m \in MshrIds : mshr[m].valid /\ mshr[m].line = line}

(* findHit: a way reserved for a fill no longer hits.                      *)
HitWays(s, line) ==
  {w \in WayIds : /\ cache[s][w].valid /\ ~cache[s][w].reserved
                  /\ cache[s][w].line = line}

(* findVictim: an empty way, else the least recently used one, and never   *)
(* one reserved.                                                           *)
Victims_Any(s) == WayIds                                         \* mutant
Victims(s) == {w \in WayIds : ~cache[s][w].reserved}
Victim(s) ==
  LET empty == {w \in Victims(s) : ~cache[s][w].valid}
  IN  IF empty # {} THEN Lowest(empty)
      ELSE CHOOSE w \in Victims(s) : \A u \in Victims(s) : lru[s][w] <= lru[s][u]

Used(s, w) ==
  [lru EXCEPT ![s] = [u \in WayIds |-> IF u = w THEN Ways - 1
                                       ELSE IF @[u] > @[w] THEN @[u] - 1
                                       ELSE @[u]]]

Stored(data, req) == [data EXCEPT ![WordOf(req.addr)] = req.val]

LeavePipe(p) == pipe' = [pipe EXCEPT ![p] = NoReq]

(* The line is being fetched: wait for it too.  A line that has arrived    *)
(* takes no more, nor a full list: the request stays in the pipe.          *)
MustHold(m) == \/ mshr[m].fill \in {"ready", "draining"}
               \/ Len(mshr[m].waiters) = MaxWaiters
JoinMshr(p, m) ==
  IF MustHold(m)
    THEN UNCHANGED <<mshr, pipe>>
    ELSE /\ mshr' = [mshr EXCEPT ![m].waiters = Append(@, pipe[p])]
         /\ LeavePipe(p)

HitLine(p, s, w) ==
  /\ lru' = Used(s, w)
  /\ LeavePipe(p)
  /\ IF pipe[p].write
       THEN /\ cache' = [cache EXCEPT ![s][w].data = Stored(@, pipe[p]),
                                      ![s][w].dirty = TRUE]
            /\ resp_q' = Append(resp_q, Resp(pipe[p], 0))
            /\ UNCHANGED hit_pend
       ELSE /\ hit_pend' = [hit_pend EXCEPT ![p] =
                              Resp(pipe[p], cache[s][w].data[WordOf(pipe[p].addr)])]
            /\ UNCHANGED <<cache, resp_q>>

NeedsWb(way) == way.valid /\ way.dirty

(* A miss takes a register and a way; without either it stays in the pipe. *)
Miss(p, s) ==
  LET free == {m \in MshrIds : ~mshr[m].valid}
  IN  IF free = {} \/ Victims(s) = {}
        THEN UNCHANGED <<mshr, cache, pipe>>
        ELSE LET w   == Victim(s)
                 way == cache[s][w]
             IN  /\ mshr' = [mshr EXCEPT ![Lowest(free)] =
                       [FreeMshr EXCEPT
                          !.valid = TRUE,
                          !.line = LineOf(pipe[p].addr),
                          !.way = w,
                          !.wb = IF NeedsWb(way) THEN "wanted" ELSE "none",
                          !.wb_line = IF NeedsWb(way) THEN way.line ELSE NoLine,
                          !.wb_data = IF NeedsWb(way) THEN way.data ELSE ZeroLine,
                          !.waiters = <<pipe[p]>>]]
                 /\ cache' = [cache EXCEPT ![s][w].reserved = TRUE]
                 /\ LeavePipe(p)

ProcessPipe ==
  /\ phase = "pipes" /\ port < Ports
  /\ port' = port + 1
  /\ LET line == LineOf(pipe[port].addr)
         s    == SetOf(line)
     IN  IF ~pipe[port].valid
           THEN UNCHANGED <<tableVars, portVars, resp_q>>
         ELSE IF MshrOf(line) # {}
           THEN /\ JoinMshr(port, Lowest(MshrOf(line)))
                /\ UNCHANGED <<cache, lru, drain_mshr, hit_pend, resp_q>>
         ELSE IF HitWays(s, line) # {}
           THEN /\ HitLine(port, s, Lowest(HitWays(s, line)))
                /\ UNCHANGED <<mshr, drain_mshr>>
           ELSE /\ Miss(port, s)
                /\ UNCHANGED <<lru, drain_mshr, hit_pend, resp_q>>
  /\ UNCHANGED <<phase, clientVars, dram, memory, committed>>

EndPipes ==
  /\ phase = "pipes" /\ port = Ports
  /\ phase' = "fills" /\ port' = 0
  /\ UNCHANGED <<clientVars, tableVars, portVars, resp_q, dram, memory,
                 committed>>

-------------------------------------------------------------------------------
(* Fills.                                                                  *)

FillReady_Early ==                                               \* mutant
  {m \in MshrIds : mshr[m].valid /\ mshr[m].fill \in {"sent", "ready"}}
FillReady == {m \in MshrIds : mshr[m].valid /\ mshr[m].fill = "ready"}

(* The waiting stores of the register m to the word w of its line.         *)
StoresTo(m, w) ==
  {i \in DOMAIN mshr[m].waiters : /\ mshr[m].waiters[i].write
                                  /\ WordOf(mshr[m].waiters[i].addr) = w}

Filled_NoMerge(m) == mshr[m].data                                \* mutant
Filled_OldestWins(m) ==                                          \* mutant
  [w \in 0 .. LineWords - 1 |->
     IF StoresTo(m, w) = {} THEN mshr[m].data[w]
     ELSE LET first == CHOOSE i \in StoresTo(m, w) : \A j \in StoresTo(m, w) : i <= j
          IN  mshr[m].waiters[first].val]
(* completeFill: the waiting stores are applied in their order, "younger   *)
(* later -> wins on overlap".                                              *)
Filled(m) ==
  [w \in 0 .. LineWords - 1 |->
     IF StoresTo(m, w) = {} THEN mshr[m].data[w]
     ELSE LET last == CHOOSE i \in StoresTo(m, w) : \A j \in StoresTo(m, w) : j <= i
          IN  mshr[m].waiters[last].val]

CompleteFill ==
  /\ phase = "fills" /\ FillReady # {}
  /\ LET m == Lowest(FillReady)
         s == SetOf(mshr[m].line)
     IN  /\ cache' = [cache EXCEPT ![s][mshr[m].way] =
               [valid |-> TRUE, reserved |-> FALSE, line |-> mshr[m].line,
                data |-> Filled(m),
                dirty |-> \E i \in DOMAIN mshr[m].waiters : mshr[m].waiters[i].write]]
         /\ lru' = Used(s, mshr[m].way)
         /\ mshr' = [mshr EXCEPT ![m].fill = "draining", ![m].data = Filled(m)]
         /\ drain_mshr' = IF drain_mshr = NoMshr THEN m ELSE drain_mshr
  /\ UNCHANGED <<phase, port, clientVars, portVars, resp_q, dram, memory,
                 committed>>

(* stepDrain: one answer per tick; the last one frees the register.        *)
MoreToDrain_OneLess(m) == Len(mshr[m].waiters) > 2               \* mutant
MoreToDrain(m) == Len(mshr[m].waiters) > 1
StepDrain ==
  /\ phase = "fills" /\ FillReady = {}
  /\ phase' = "resps" /\ port' = 0
  /\ LET draining == {m \in MshrIds : mshr[m].valid /\ mshr[m].fill = "draining"}
         m == IF drain_mshr # NoMshr THEN drain_mshr ELSE Lowest(draining)
         r == Head(mshr[m].waiters)
     IN  IF draining = {}
           THEN UNCHANGED <<mshr, drain_mshr, resp_q>>
           ELSE /\ resp_q' = Append(resp_q,
                     Resp(r, IF r.write THEN 0 ELSE mshr[m].data[WordOf(r.addr)]))
                /\ mshr' = [mshr EXCEPT ![m] =
                     IF MoreToDrain(m)
                       THEN [mshr[m] EXCEPT !.waiters = Tail(mshr[m].waiters)]
                       ELSE FreeMshr]
                /\ drain_mshr' = IF MoreToDrain(m) THEN m ELSE NoMshr
  /\ UNCHANGED <<clientVars, cache, lru, portVars, dram, memory, committed>>

-------------------------------------------------------------------------------
CacheNext ==
  \/ \E a \in Words, v \in Val : NewStore(a, v)
  \/ BeginTick
  \/ \E finished \in BOOLEAN, hits \in SUBSET PortIds : DramTick(finished, hits)
  \/ DramAccept
  \/ NoDramAccept
  \/ ProcessPipe
  \/ EndPipes
  \/ CompleteFill
  \/ StepDrain
  \/ ApplyResp
  \/ EndResps
  \/ \E l \in LoadIds, a \in Words : NewLoad(l, a)
  \/ \E l \in LoadIds : SquashLoad(l)
  \/ IssueStore
  \/ \E l \in LoadIds : IssueLoad(l)
  \/ EndIssue

CacheSpec == CacheInit /\ [][CacheNext]_vars

(* Ticks go on.  A request in DRAM counts its latency down, a load hit its *)
(* own, and DRAM has room again and again: the instruction cache has one   *)
(* request there at a time, and the data cache goes first.                 *)
FairCacheSpec ==
  /\ CacheSpec
  /\ WF_vars(CacheNext)
  /\ SF_vars(\E hits \in SUBSET PortIds : DramTick(TRUE, hits))
  /\ SF_vars(DramAccept)
  /\ \A p \in PortIds :
       SF_vars(\E finished \in BOOLEAN, hits \in SUBSET PortIds :
                 p \in hits /\ DramTick(finished, hits))

-------------------------------------------------------------------------------
(* Properties.                                                             *)

LineData == [0 .. LineWords - 1 -> Val]

CacheTypeOK ==
  /\ phase \in Phases
  /\ sb_head \in SbIds /\ sb_count \in 0 .. SbDepth
  /\ \A s \in SetIds, w \in WayIds : cache[s][w].data \in LineData
  /\ \A s \in SetIds : lru[s] \in [WayIds -> WayIds] /\ IsInjective(lru[s])
  /\ \A m \in MshrIds : /\ mshr[m].line \in Lines \cup {NoLine}
                        /\ mshr[m].valid <=> mshr[m].waiters # <<>>
                        /\ Len(mshr[m].waiters) <= MaxWaiters
  /\ memory \in [Lines -> LineData]

(* The requests on their way: in a compare pipe, waiting for a fill, about *)
(* to answer or answered.                                                  *)
Waiting(m) == {<<"miss", m, i, mshr[m].waiters[i]>> : i \in DOMAIN mshr[m].waiters}
InFlight ==
  {<<"pipe", p, 0, pipe[p]>> : p \in {q \in PortIds : pipe[q].valid}} \cup
  {<<"hit", p, 0, hit_pend[p]>> : p \in {q \in PortIds : hit_pend[q].valid}} \cup
  {<<"resp", 0, i, resp_q[i]>> : i \in DOMAIN resp_q} \cup
  UNION {Waiting(m) : m \in MshrIds}
StoresOf(i) == {x \in InFlight : x[4].write /\ x[4].id = i}
LoadsOf(l)  == {x \in InFlight : ~x[4].write /\ x[4].id = l
                                            /\ x[4].cookie = load[l].gen}

(* A request is neither dropped nor answered twice on its way through held *)
(* pipes, waiting lists and the drain: as long as the queue waits for an   *)
(* answer there is exactly one request to give it.                         *)
EachRequestOnce ==
  /\ \A i \in SbIds : Cardinality(StoresOf(i)) = IF sb[i].sent THEN 1 ELSE 0
  /\ \A l \in LoadIds :
       load[l].busy => Cardinality(LoadsOf(l)) = IF load[l].sent THEN 1 ELSE 0

(* The word a as whoever looks it up next will find it: in the cache, in   *)
(* the write-back of an evicted line, or in memory.                        *)
CachedIn(s, line) == HitWays(s, line)
WritingBack(line) ==
  {m \in MshrIds : mshr[m].valid /\ mshr[m].wb \in {"wanted", "sent"}
                                 /\ mshr[m].wb_line = line}
Visible(a) ==
  LET line == LineOf(a)
      s    == SetOf(line)
  IN  IF CachedIn(s, line) # {}
        THEN cache[s][Lowest(CachedIn(s, line))].data[WordOf(a)]
      ELSE IF WritingBack(line) # {}
        THEN mshr[Lowest(WritingBack(line))].wb_data[WordOf(a)]
      ELSE memory[line][WordOf(a)]

(* Once the store buffer has no store to a word left, the hierarchy holds  *)
(* what the last store to retire wrote: no store is lost or overtaken in   *)
(* the ports, the miss registers, an eviction or a write-back ("SB drains  *)
(* in order", ARCHITECTURE.md).                                            *)
NoLostStore == \A a \in Words : ~InSb(a) => Visible(a) = committed[a]

(* The answer a load is going to accept is what the last retired store to  *)
(* its word wrote, whatever stale answers, evictions and fills have passed.*)
LoadsReturnCommitted ==
  \A i \in 1 .. Len(resp_q) :
    LET r == resp_q[i]
    IN  ~r.write /\ Answers(r) => r.val = committed[load[r.id].addr]

(* A line is in one place: in at most one way, and not in any while a miss *)
(* register fetches it; a line is never fetched twice at a time, nor read  *)
(* from memory while its write-back is on the way.                         *)
LineHasOneOwner ==
  \A line \in Lines :
    LET s       == SetOf(line)
        holders == HitWays(s, line)
        fetches == {m \in MshrOf(line) : mshr[m].fill # "draining"}
    IN  /\ Cardinality(holders) + Cardinality(fetches) <= 1
        /\ \A m \in fetches : mshr[m].fill = "sent" => WritingBack(line) = {}

(* Two registers never fill the same way.                                  *)
ReservedWaysAreDistinct ==
  \A m, n \in MshrIds :
    /\ m # n /\ mshr[m].valid /\ mshr[n].valid
    /\ mshr[m].fill # "draining" /\ mshr[n].fill # "draining"
    /\ SetOf(mshr[m].line) = SetOf(mshr[n].line)
    => mshr[m].way # mshr[n].way

(* Nothing on the way (a held port, a full waiting list, reserved ways, a  *)
(* write-back that goes first) keeps a request for ever.  A store that has *)
(* retired leaves the store buffer: younger ones can pass it only until    *)
(* the ring is full.  A load that has asked gets its word or is squashed,  *)
(* unless stores retire for ever: the ways can go to them each time.  (In  *)
(* the core only older stores retire while a load waits.)                  *)
RequestsAreAnswered ==
  /\ \A i \in SbIds : []<>(~sb[i].valid)
  /\ \/ \A l \in LoadIds : []<>(~load[l].sent)
     \/ []<><<\E a \in Words, v \in Val : NewStore(a, v)>>_vars
===============================================================================
