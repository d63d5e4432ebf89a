----------------------------- MODULE CachedFetch -----------------------------
(***************************************************************************)
(* Fetch of hex programs (Processor::fetchStage, earlyRecover,             *)
(* predictHexControl) on top of the instruction cache, or of the ideal     *)
(* instruction memory that answers in the next tick.                       *)
(*                                                                         *)
(* A tick is the stages that concern fetch, in the order of                *)
(* Processor::tick: the memory system, a recovery (or none), decode taking *)
(* from the fetch queue, fetch.  Where a recovery leads and which snapshot *)
(* of the return stack it puts back are choices, and so is what gshare     *)
(* predicts; always-taken prediction is as in the code.                    *)
(*                                                                         *)
(* A word of a program is [op, target]: "plain", "branch", "jal" and       *)
(* "link" (JAL without and with a link register), "call" and "ret" (JALR), *)
(* "jalr" (any other JALR).  Outside the image a word is INSTR_INVALID.    *)
(***************************************************************************)
EXTENDS InstructionCache

CONSTANTS Programs,   \* pc -> [op, target]
          Recoveries, \* pcs a recovery can lead to
          BpModes,    \* bp_mode: subset of {"gshare", "always_taken"}
          Memories,   \* subset of {"cached", "ideal"}
          IfqSize,
          RasSize

ASSUME CachedFetchAssumption ==
  /\ {IfqSize, RasSize} \subseteq Nat \ {0}
  /\ BpModes \subseteq {"gshare", "always_taken"} /\ Memories \subseteq {"cached", "ideal"}
  /\ Recoveries \subseteq Nat
  /\ \A p \in Programs : /\ DOMAIN p \subseteq Nat
                         /\ \A pc \in DOMAIN p : p[pc].target \in Nat

VARIABLES
  prog, bp_mode, memory,       \* the configuration
  stage,
  fetch_pc, fetch_halted, fetch_redirect_hold,
  imem_req_outstanding,
  ideal_fetch_pc,
  fetch_req_pred,              \* [slot, target] of the first word predicted taken
  fetch_buf,                   \* the skid buffer
  ifq,
  ras

fetchState == <<fetch_pc, fetch_halted, fetch_redirect_hold,
                imem_req_outstanding, ideal_fetch_pc, fetch_req_pred, fetch_buf>>
cfVars == <<prog, bp_mode, memory, stage, ic, fetchState, ifq, ras>>

NoBuf  == [valid |-> FALSE, eop |-> FALSE, q |-> <<>>]
NoPred == [slot |-> 0, target |-> 0]

ReturnPcs == {pc + 1 : pc \in UNION {{q \in DOMAIN p : p[q].op \in {"link", "call"}}
                                       : p \in Programs}}
RasStates == UNION {[1 .. n -> ReturnPcs] : n \in 0 .. RasSize}

CfInit ==
  /\ IcInit
  /\ prog \in Programs /\ bp_mode \in BpModes /\ memory \in Memories
  /\ stage = "memory"
  /\ fetch_pc = 0 /\ fetch_halted = FALSE /\ fetch_redirect_hold = FALSE
  /\ imem_req_outstanding = FALSE
  /\ ideal_fetch_pc = 0
  /\ fetch_req_pred = NoPred
  /\ fetch_buf = NoBuf
  /\ ifq = <<>>
  /\ ras = <<>>

-------------------------------------------------------------------------------
(* Predictions.  The stack is a sequence, its top last; a push on a full   *)
(* one loses the oldest entry.                                             *)

InImage(pc) == pc \in DOMAIN prog

Pushed(s, a) == LET t == Append(s, a) IN IF Len(t) > RasSize THEN Tail(t) ELSE t

NotTaken(pc) == [taken |-> FALSE, target |-> pc + 1]

(* predictHexControl in always-taken mode.                                 *)
AlwaysTaken(pc, s) ==
  LET w == prog[pc]
  IN  CASE w.op \in {"branch", "jal", "link"} -> [taken |-> TRUE, target |-> w.target]
        [] w.op = "ret" /\ s # <<>>           -> [taken |-> TRUE, target |-> Last(s)]
        [] OTHER                              -> NotTaken(pc)

(* What it does to the stack when the word enters the queue.               *)
RasAfter(pc, s) ==
  CASE prog[pc].op \in {"link", "call"}    -> Pushed(s, pc + 1)
    [] prog[pc].op = "ret" /\ s # <<>>     -> Front(s)
    [] OTHER                               -> s

(* The predictions recorded with a request: the first of the next words    *)
(* that is predicted taken.  A return only looks at the stack.             *)
RequestPredictions(pc) ==
  LET slots == {i \in 1 .. Width : InImage(pc + i - 1)}
      taken == {i \in slots : AlwaysTaken(pc + i - 1, ras).taken}
      first == CHOOSE i \in taken : \A j \in taken : i <= j
      control == {i \in slots : prog[pc + i - 1].op # "plain"}
  IN  IF bp_mode = "gshare"
        THEN {NoPred} \cup [slot : control, target : Recoveries]
        ELSE {IF taken = {} THEN NoPred
              ELSE [slot |-> first, target |-> AlwaysTaken(pc + first - 1, ras).target]}

-------------------------------------------------------------------------------
(* The stages before fetch.                                                *)

(* The ideal memory of hex programs has no tick of its own.                *)
Memory(finished, accepts) ==
  /\ stage = "memory" /\ stage' = "core"
  /\ IF memory = "cached" THEN ic' \in MemoryTick(ic, finished, accepts)
                          ELSE UNCHANGED ic
  /\ UNCHANGED <<prog, bp_mode, memory, fetchState, ifq, ras>>

(* earlyRecover, the part that concerns fetch.                             *)
BufAfterRecovery_Kept == fetch_buf                               \* mutant
BufAfterRecovery == NoBuf

Recover(pc, snapshot) ==
  /\ stage = "core" /\ stage' = "redirected"
  /\ ifq' = <<>>
  /\ fetch_pc' = pc
  /\ fetch_halted' = FALSE
  /\ imem_req_outstanding' = FALSE
  /\ fetch_buf' = BufAfterRecovery
  /\ fetch_req_pred' = NoPred
  /\ fetch_redirect_hold' = TRUE
  /\ ic' = IF memory = "cached" THEN Flushed(ic) ELSE ic
  /\ ras' = snapshot
  /\ UNCHANGED <<prog, bp_mode, memory, ideal_fetch_pc>>

(* Without a recovery, decodeStage: a bundle, or nothing while the         *)
(* dispatch register is held.  (After one the queue is empty.)             *)
Decode(n) ==
  /\ stage = "core" /\ stage' = "fetch"
  /\ ifq' = SubSeq(ifq, n + 1, Len(ifq))
  /\ UNCHANGED <<prog, bp_mode, memory, ic, fetchState, ras>>

BundleSize == IF Len(ifq) < Width THEN Len(ifq) ELSE Width

-------------------------------------------------------------------------------
(* fetchStage with the caches.  The buffer at the start of the stage       *)
(* decides: with one it drains or waits, without one an answer is          *)
(* captured or a request is made.                                          *)

EntersFetch == /\ stage \in {"fetch", "redirected"} /\ stage' = "memory"
               /\ UNCHANGED <<prog, bp_mode, memory>>

(* The words of an answer up to the end of the image or the first one      *)
(* predicted taken.                                                        *)
CapturedBuf(resp) ==
  LET ends  == {i \in DOMAIN resp.words : ~InImage(resp.words[i])}
      valid == {i \in DOMAIN resp.words : \A j \in ends : i < j}
      kept  == {i \in valid : fetch_req_pred.slot \in valid => i <= fetch_req_pred.slot}
      taken == fetch_req_pred.slot \in valid
      entry(i) == LET pc == resp.pc + i - 1
                  IN  IF i = fetch_req_pred.slot
                        THEN [pc |-> pc, at |-> resp.words[i],
                              taken |-> TRUE, target |-> fetch_req_pred.target]
                        ELSE [pc |-> pc, at |-> resp.words[i],
                              taken |-> FALSE, target |-> pc + 1]
  IN  [valid |-> TRUE, eop |-> ends # {} /\ ~taken,
       q |-> [i \in 1 .. Cardinality(kept) |-> entry(i)]]

(* At the end of the image the pc stays.                                   *)
PcAfter(buf) ==
  IF buf.eop THEN fetch_pc
  ELSE IF Last(buf.q).taken THEN Last(buf.q).target ELSE Last(buf.q).pc + 1

Capture ==
  /\ imem_req_outstanding /\ ~fetch_buf.valid
  /\ ic.resp # NoResp
  /\ ic' = [ic EXCEPT !.resp = NoResp]
  /\ imem_req_outstanding' = FALSE
  /\ fetch_buf' = CapturedBuf(ic.resp)
  /\ fetch_pc' = PcAfter(fetch_buf')
  /\ fetch_req_pred' = NoPred
  /\ UNCHANGED <<fetch_halted, ideal_fetch_pc, ifq, ras>>

(* Into the queue.  In always-taken mode each word is predicted again with *)
(* the stack as the words before it have left it; one predicted taken ends *)
(* the bundle.                                                             *)
Enqueued(q, e) ==
  LET p == IF bp_mode = "always_taken" THEN AlwaysTaken(e.pc, q.ras)
           ELSE [taken |-> e.taken, target |-> e.target]
  IN  IF q.stop THEN q
      ELSE [s    |-> Append(q.s, [pc |-> e.pc, at |-> e.at,
                                  taken |-> p.taken, target |-> p.target]),
            ras  |-> IF bp_mode = "always_taken" THEN RasAfter(e.pc, q.ras) ELSE q.ras,
            stop |-> p.taken]

(* There is room for the whole bundle.                                     *)
BufFits_OneMore == Len(ifq) + Len(fetch_buf.q) <= IfqSize + 1    \* mutant
BufFits == fetch_buf.q = <<>> \/ Len(ifq) + Len(fetch_buf.q) <= IfqSize

(* The queue and the stack after all words of the buffer, one by one.      *)
Emptied ==
  LET after[i \in 0 .. Len(fetch_buf.q)] ==
        IF i = 0 THEN [s |-> ifq, ras |-> ras, stop |-> FALSE]
                 ELSE Enqueued(after[i - 1], fetch_buf.q[i])
  IN  after[Len(fetch_buf.q)]

Drain ==
  /\ fetch_buf.valid
  /\ BufFits
  /\ ifq' = Emptied.s /\ ras' = Emptied.ras
  /\ fetch_halted' = fetch_buf.eop
  /\ fetch_buf' = NoBuf
  /\ UNCHANGED <<ic, fetch_pc, imem_req_outstanding, ideal_fetch_pc, fetch_req_pred>>

(* A refused request leaves predictions that nobody reads.                 *)
MayRequest == ~fetch_redirect_hold /\ ~imem_req_outstanding /\ ~fetch_buf.valid

Request ==
  /\ MayRequest /\ CanAccept(ic)
  /\ ic' = CpuReq(ic, fetch_pc)
  /\ imem_req_outstanding' = TRUE
  /\ fetch_req_pred' \in RequestPredictions(fetch_pc)
  /\ UNCHANGED <<fetch_pc, fetch_halted, ideal_fetch_pc, fetch_buf, ifq, ras>>

Wait ==
  /\ ~ \/ imem_req_outstanding /\ ~fetch_buf.valid /\ ic.resp # NoResp
       \/ fetch_buf.valid /\ BufFits
       \/ MayRequest /\ CanAccept(ic)
  /\ UNCHANGED <<ic, fetch_pc, fetch_halted, imem_req_outstanding, ideal_fetch_pc,
                 fetch_req_pred, fetch_buf, ifq, ras>>

FetchCached ==
  /\ EntersFetch /\ memory = "cached" /\ ~fetch_halted
  /\ fetch_redirect_hold' = FALSE
  /\ Capture \/ Drain \/ Request \/ Wait

-------------------------------------------------------------------------------
(* fetchStage with the ideal memory: the bundle asked for in the last tick *)
(* goes into the queue, and the next one is asked for in the same call if  *)
(* a full bundle has room.                                                 *)

(* The turns of the loop: fetchEnqueueHexWord for each word.               *)
IdealWord(q, i) ==
  LET pc == ideal_fetch_pc + i - 1
      ps == IF bp_mode = "always_taken" THEN {AlwaysTaken(pc, q.ras)}
            ELSE {NotTaken(pc)} \cup (IF prog[pc].op = "plain" THEN {}
                                      ELSE [taken : {TRUE}, target : Recoveries])
  IN  IF q.stop THEN {q}
      ELSE IF ~InImage(pc) THEN {[q EXCEPT !.stop = TRUE, !.halted = TRUE]}
      ELSE IF Len(q.s) = IfqSize THEN {[q EXCEPT !.stop = TRUE]}
      ELSE {[s    |-> Append(q.s, [pc |-> pc, at |-> pc,
                                   taken |-> p.taken, target |-> p.target]),
             ras  |-> IF bp_mode = "always_taken" THEN RasAfter(pc, q.ras) ELSE q.ras,
             pc   |-> IF p.taken THEN p.target ELSE pc + 1,
             stop |-> p.taken, halted |-> FALSE] : p \in ps}

IdealWords(Q, i) == UNION {IdealWord(q, i) : q \in Q}

IdealBundles ==
  LET start == [s |-> ifq, ras |-> ras, pc |-> fetch_pc, stop |-> FALSE, halted |-> FALSE]
      after[i \in 0 .. Width] ==
        IF i = 0 THEN {start} ELSE IdealWords(after[i - 1], i)
  IN  after[Width]

IdealRoom(q) == Len(q.s) + Width <= IfqSize

FetchIdeal ==
  /\ EntersFetch /\ memory = "ideal" /\ ~fetch_halted
  /\ \E q \in IF imem_req_outstanding THEN IdealBundles
              ELSE {[s |-> ifq, ras |-> ras, pc |-> fetch_pc, halted |-> FALSE]} :
       LET asks == ~q.halted /\ IdealRoom(q)
       IN  /\ ifq' = q.s /\ ras' = q.ras /\ fetch_pc' = q.pc
           /\ fetch_halted' = (q.halted \/ (asks /\ ~InImage(q.pc)))
           /\ imem_req_outstanding' = (asks /\ InImage(q.pc))
           /\ ideal_fetch_pc' = IF asks /\ InImage(q.pc) THEN q.pc ELSE ideal_fetch_pc
  /\ UNCHANGED <<ic, fetch_redirect_hold, fetch_req_pred, fetch_buf>>

FetchHalted ==
  /\ EntersFetch /\ fetch_halted
  /\ UNCHANGED <<ic, fetchState, ifq, ras>>

CfNext ==
  \/ \E finished, accepts \in BOOLEAN : Memory(finished, accepts)
  \/ \E pc \in Recoveries, s \in RasStates : Recover(pc, s)
  \/ Decode(0)
  \/ Decode(BundleSize)
  \/ FetchCached \/ FetchIdeal \/ FetchHalted

CfSpec == CfInit /\ [][CfNext]_cfVars

(* Ticks go on; the DRAM counts the latency of a request down; the data    *)
(* cache, which goes first, does not take every turn of the DRAM for ever, *)
(* because the loads and stores in flight are finitely many.               *)
FairCfSpec ==
  /\ CfSpec
  /\ WF_cfVars(CfNext)
  /\ SF_cfVars(\E accepts \in BOOLEAN : Memory(TRUE, accepts) /\ ic.dram # NoDram)
  /\ SF_cfVars(\E finished \in BOOLEAN : Memory(finished, TRUE) /\ HasDramReq(ic))

-------------------------------------------------------------------------------
(* Properties.                                                             *)

(* The queue holds no more than ifq_size words, and the members of the     *)
(* fetch unit and of the cache have their types.                           *)
CfTypeOK ==
  /\ fetch_pc \in Nat /\ ideal_fetch_pc \in Nat
  /\ {fetch_halted, fetch_redirect_hold, imem_req_outstanding} \subseteq BOOLEAN
  /\ Len(ifq) <= IfqSize
  /\ Len(ras) <= RasSize
  /\ Len(fetch_buf.q) <= Width
  /\ fetch_req_pred.slot \in 0 .. Width
  /\ ic.pipe \in Nat \cup {NoPc}
  /\ \A i \in MshrIds : ic.mshr[i].st \in {"free", "wanted", "sent", "ready"}
  /\ ic.hit.left \in 0 .. HitLatency

(* The request fetch waits for is in exactly one place of the cache, and   *)
(* no place holds an answer for a request that fetch has given up: a       *)
(* redirect leaves nothing in tickEnd that can answer later.               *)
AnswerIsAwaited ==
  LET waiting == {i \in MshrIds : ic.mshr[i].waiter}
      pcs == (IF ic.pipe # NoPc THEN <<ic.pipe>> ELSE <<>>)
               \o (IF ic.hit.valid /\ ~ic.hit.drop THEN <<ic.hit.pc>> ELSE <<>>)
               \o (IF ic.resp # NoResp THEN <<ic.resp.pc>> ELSE <<>>)
               \o SetToSeq({ic.mshr[i].pc : i \in waiting})
  IN  /\ Cardinality(waiting) <= 1
      /\ pcs = IF imem_req_outstanding /\ memory = "cached" THEN <<fetch_pc>> ELSE <<>>

(* A line is in one way at most, or on its way in one miss register; a way *)
(* that can hit holds the data of its line; a miss register owns the way   *)
(* it will install into (completeMshr does not look for another).          *)
LinesAreTheirs ==
  LET busy   == {i \in MshrIds : ic.mshr[i].st # "free"}
      hits   == {w \in WayIds : ic.way[w].valid /\ ~ic.way[w].reserved}
      line(w) == ic.way[w].tag * Sets + w[1]
  IN  /\ \A w \in hits : ic.way[w].data = line(w)
      /\ \A v, w \in hits : line(v) = line(w) => v = w
      /\ \A i, j \in busy : i # j => /\ ic.mshr[i].way # ic.mshr[j].way
                                    /\ ic.mshr[i].line # ic.mshr[j].line
      /\ \A i \in busy : ic.way[ic.mshr[i].way].reserved
      /\ \A i \in busy, w \in hits : ic.mshr[i].line # line(w)

(* Fetch delivers the words of the path it predicts, from the last         *)
(* redirect on: no word of an older path, none skipped or repeated, and    *)
(* the prediction recorded with a word is the one fetch followed.          *)
Path == INSTANCE PredictedPath
          WITH next <- IF fetch_buf.valid /\ fetch_buf.q # <<>>
                         THEN fetch_buf.q[1].pc ELSE fetch_pc,
               halted <- fetch_halted,
               redirected <- stage = "redirected"
FollowsPrediction == Path!PpSpec

(* Unless recoveries never stop, fetch goes on delivering words until the  *)
(* end of the image: no request is lost in the cache, also when a redirect *)
(* has orphaned the line it needs, and no bundle waits for ever.           *)
FetchGoesOn ==
  \/ []<>(ifq # <<>> \/ fetch_halted)
  \/ []<><<\E pc \in Recoveries, s \in RasStates : Recover(pc, s)>>_cfVars
===============================================================================
