--------------------------- MODULE InstructionCache ---------------------------
(***************************************************************************)
(* The non-blocking read-only instruction cache (mem/icache.cpp) with its  *)
(* side of the DRAM (mem/memory_system.cpp, mem/dram_simple.cpp).          *)
(*                                                                         *)
(* A pc counts words and a line is named by its number, so the words of    *)
(* line l are at l * LineWords and on.  Instruction memory is read only:   *)
(* the data of a line is the number of the line it was read from, and a    *)
(* word of an answer is the address it was read from.                      *)
(*                                                                         *)
(* `ic' is the object's members; the operators take a cache and return the *)
(* cache after the call, and the actions at the end of the fetch unit      *)
(* (CachedFetch) assign them.                                              *)
(***************************************************************************)
EXTENDS Integers, Sequences, FiniteSets, SequencesExt

CONSTANTS LineWords,    \* line_bytes / 4
          Sets, Ways,   \* icache_sets, icache_ways
          Mshrs,        \* icache_mshr
          HitLatency,   \* fetch_hit_latency
          Width         \* fetch_width, the width of the core

ASSUME InstructionCacheAssumption ==
  {LineWords, Sets, Ways, Mshrs, HitLatency, Width} \subseteq Nat \ {0}

VARIABLE ic

WayIds  == (0 .. Sets - 1) \X (1 .. Ways)
MshrIds == 1 .. Mshrs

LineOf(pc)  == pc \div LineWords
SetOf(line) == line % Sets
TagOf(line) == line \div Sets

NoWay  == [valid |-> FALSE, reserved |-> FALSE, tag |-> 0, data |-> 0]
NoMshr == [st |-> "free", line |-> 0, pc |-> 0, way |-> <<0, 1>>,
           waiter |-> FALSE, drop |-> FALSE, data |-> 0]
NoPc   == -1
NoHit  == [valid |-> FALSE, drop |-> FALSE, left |-> 0, pc |-> 0, data |-> 0]
NoResp == [pc |-> NoPc, words |-> <<>>]
NoDram == [mshr |-> 0, line |-> 0]

(* A miss register is wanted until the DRAM accepts it, sent until the     *)
(* line comes back, ready until the line is installed and answered.        *)
IcInit ==
  ic = [way  |-> [w \in WayIds |-> NoWay],
        mshr |-> [i \in MshrIds |-> NoMshr],
        pipe |-> NoPc, hit |-> NoHit, resp |-> NoResp, dram |-> NoDram]

-------------------------------------------------------------------------------
(* The processor's side.                                                   *)

CanAccept(c) == c.pipe = NoPc /\ ~c.hit.valid /\ c.resp = NoResp

CpuReq(c, pc) == [c EXCEPT !.pipe = pc]

(* From pc to the end of the line, at most the fetch width.                *)
BuildResp(pc, line) ==
  LET off   == pc - LineOf(pc) * LineWords
      count == IF LineWords - off < Width THEN LineWords - off ELSE Width
  IN  [pc |-> pc, words |-> [i \in 1 .. count |-> line * LineWords + off + i - 1]]

(* A redirect: the lines on their way are installed, and answer no one.    *)
Flushed_Waiting(c) ==
  [c EXCEPT !.hit.drop = c.hit.valid, !.pipe = NoPc, !.resp = NoResp] \* mutant
Flushed(c) ==
  [c EXCEPT !.hit.drop = c.hit.valid,
            !.pipe = NoPc,
            !.resp = NoResp,
            !.mshr = [i \in MshrIds |->
                        IF @[i].st = "free" THEN @[i]
                        ELSE [@[i] EXCEPT !.drop = TRUE, !.waiter = FALSE]]]

-------------------------------------------------------------------------------
(* tickEnd: the hit that was found earlier, the request in the compare     *)
(* pipe, the lines that came back.                                         *)

EmitHit(c) ==
  LET left == IF c.hit.left > 0 THEN c.hit.left - 1 ELSE 0
  IN  CASE ~c.hit.valid         -> c
        [] c.hit.valid /\ left > 0 -> [c EXCEPT !.hit.left = left]
        [] c.hit.valid /\ left = 0 /\ c.hit.drop -> [c EXCEPT !.hit = NoHit]
        [] c.hit.valid /\ left = 0 /\ ~c.hit.drop ->
             IF c.resp = NoResp
               THEN [c EXCEPT !.resp = BuildResp(c.hit.pc, c.hit.data), !.hit = NoHit]
               ELSE [c EXCEPT !.hit.left = 0]

Hits(c, line) ==
  {w \in WayIds : /\ w[1] = SetOf(line)
                  /\ c.way[w].valid /\ ~c.way[w].reserved
                  /\ c.way[w].tag = TagOf(line)}

(* An empty way, else any one that is not reserved (the code takes the     *)
(* least recently used).                                                   *)
Victims_Any(c, line) == {w \in WayIds : w[1] = SetOf(line)}      \* mutant
Victims(c, line) ==
  LET usable == {w \in WayIds : w[1] = SetOf(line) /\ ~c.way[w].reserved}
      empty  == {w \in usable : ~c.way[w].valid}
  IN  IF empty # {}
        THEN {w \in empty : \A v \in empty : w[2] <= v[2]}
        ELSE usable

(* A request joins the miss register of its line, the one a redirect       *)
(* orphaned included.                                                      *)
Joined_StillDropped(m, pc) == [m EXCEPT !.waiter = TRUE, !.pc = pc]  \* mutant
Joined(m, pc) == [m EXCEPT !.waiter = TRUE, !.pc = pc, !.drop = FALSE]

FreeMshrs(c) == {i \in MshrIds : c.mshr[i].st = "free"}

(* processPipe: the caches it may leave, one for each victim.              *)
Looked(c) ==
  LET line == LineOf(c.pipe)
      same == {i \in MshrIds : c.mshr[i].st # "free" /\ c.mshr[i].line = line}
      vics == Victims(c, line)
  IN  IF c.pipe = NoPc THEN {c}
      ELSE IF Hits(c, line) # {}
        THEN {[c EXCEPT !.pipe = NoPc,
                        !.hit = [valid |-> TRUE, drop |-> FALSE, left |-> HitLatency,
                                 pc |-> c.pipe, data |-> c.way[w].data]]
                : w \in Hits(c, line)}
      ELSE IF same # {}
        THEN {IF c.mshr[i].st = "ready" THEN c
              ELSE [c EXCEPT !.pipe = NoPc, !.mshr[i] = Joined(@, c.pipe)] : i \in same}
      ELSE IF FreeMshrs(c) = {} \/ vics = {} THEN {c}
      ELSE LET i == CHOOSE j \in FreeMshrs(c) : \A k \in FreeMshrs(c) : j <= k
           IN  {[c EXCEPT !.pipe = NoPc,
                          !.way[v].reserved = TRUE,
                          !.mshr[i] = [NoMshr EXCEPT !.st = "wanted", !.line = line,
                                         !.pc = c.pipe, !.way = v, !.waiter = TRUE]]
                  : v \in vics}

(* The line goes into its reserved way, once: an answer that has to wait   *)
(* comes back here.                                                        *)
Installed(c, m) ==
  LET w == c.way[m.way]
  IN  IF w.reserved \/ ~w.valid \/ w.tag # TagOf(m.line)
        THEN [c EXCEPT !.way[m.way] = [valid |-> TRUE, reserved |-> FALSE,
                                       tag |-> TagOf(m.line), data |-> m.data]]
        ELSE c

CompleteMshr(c, i) ==
  LET m == c.mshr[i]
      d == Installed(c, m)
  IN  IF m.st # "ready" THEN c
      ELSE IF m.drop \/ ~m.waiter THEN [d EXCEPT !.mshr[i] = NoMshr]
      ELSE IF c.resp # NoResp \/ c.hit.valid THEN d
      ELSE [d EXCEPT !.mshr[i] = NoMshr, !.resp = BuildResp(m.pc, m.data)]

(* One register after the other.                                           *)
Completed(c) ==
  LET after[i \in 0 .. Mshrs] == IF i = 0 THEN c ELSE CompleteMshr(after[i - 1], i)
  IN  after[Mshrs]

TickEnd(c) == {Completed(d) : d \in Looked(EmitHit(c))}

-------------------------------------------------------------------------------
(* The DRAM's side: one request of the instruction cache at a time.        *)

HasDramReq(c) ==
  c.dram = NoDram /\ \E i \in MshrIds : c.mshr[i].st = "wanted"

DramReqAccepted(c) ==
  LET wanted == {i \in MshrIds : c.mshr[i].st = "wanted"}
      i      == CHOOSE j \in wanted : \A k \in wanted : j <= k
  IN  [c EXCEPT !.mshr[i].st = "sent", !.dram = [mshr |-> i, line |-> c.mshr[i].line]]

DramResp(c) ==
  [c EXCEPT !.mshr[c.dram.mshr].st = "ready",
            !.mshr[c.dram.mshr].data = c.dram.line,
            !.dram = NoDram]

(* CachedMemorySystem::tick.  Whether the DRAM has finished, and whether   *)
(* it has a slot that the data cache does not take first, is a choice.     *)
MemoryTick(c, finished, accepts) ==
  LET d == IF finished /\ c.dram # NoDram THEN DramResp(c) ELSE c
  IN  TickEnd(IF accepts /\ HasDramReq(d) THEN DramReqAccepted(d) ELSE d)
===============================================================================
