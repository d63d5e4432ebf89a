-------------------------- MODULE ReturnStackProofs --------------------------
(***************************************************************************)
(* Proofs about the return address stack, for every program, stack and     *)
(* window: calls return as in the golden model as long as the calls that   *)
(* have retired are nested no deeper than the stack is long.               *)
(***************************************************************************)
EXTENDS ReturnStack, SequenceTheorems, TLAPS

Ops == {"plain", "branch", "call", "ret"}

Stacks  == [stack : [0 .. RasSize - 1 -> Nat], tos : 0 .. RasSize - 1,
            count : 0 .. RasSize]
Flights == [pc : Nat, predicted : [taken : BOOLEAN, target : Nat], snapshot : Stacks,
            returns : BOOLEAN, ret_target : Nat, resolved : BOOLEAN]

RsTypes ==
  /\ prog \in Programs
  /\ ras \in Stacks /\ fetch_pc \in Nat
  /\ window \in Seq(Flights) /\ Len(window) <= WindowSize
  /\ calls \in Seq(Nat)
  /\ \A i \in 1 .. Len(window) : window[i].pc \in DOMAIN prog

(* The callers that a stack holds, the last one at its top.                *)
Slot(t, n, k) == IF t - n + k > 0 THEN t - n + k - 1 ELSE t - n + k - 1 + RasSize
CallersOf(r)  == [k \in 1 .. r.count |-> r.stack[Slot(r.tos, r.count, k)]]

(* The stack and the pc as instruction i was fetched, or as they are.      *)
StackAt(i) == IF i <= Len(window) THEN window[i].snapshot ELSE ras
PcAt(i)    == IF i <= Len(window) THEN window[i].pc ELSE fetch_pc
OpAt(i)    == prog[window[i].pc].op

(* A call that found the stack full; what is younger has lost a caller.    *)
Forgets(i) == OpAt(i) = "call" /\ window[i].snapshot.count = RasSize
IsExact(i) == \A j \in 1 .. i - 1 : ~Forgets(j)

(* Instruction in at pc takes the callers c to d, and may go on at next.   *)
Steps(in, pc, next, c, d) ==
  CASE in.op = "call" -> next = in.target /\ d = Append(c, pc + 1)
    [] in.op = "ret"  -> IF c = <<>> THEN next = pc + 1 /\ d = c
                                     ELSE next = Last(c) /\ d = Front(c)
    [] OTHER -> d = c /\ (next = pc + 1 \/ (in.op = "branch" /\ next = in.target))

(* What an instruction in flight has recorded of its fetch.                *)
RecordIsOwn(e) ==
  /\ e.resolved \/ prog[e.pc].op # "plain"
  /\ prog[e.pc].op = "call" => e.predicted = [taken |-> TRUE, target |-> prog[e.pc].target]
  /\ prog[e.pc].op = "ret"  => /\ e.predicted.taken = e.returns
                               /\ e.returns => e.predicted.target = e.ret_target

RsInv ==
  /\ RsTypes
  /\ calls = CallersOf(StackAt(1))
  /\ \A i \in 1 .. Len(window) :
        /\ RecordIsOwn(window[i])
        /\ IsExact(i + 1) => Steps(prog[window[i].pc], PcAt(i), PcAt(i + 1),
                                   CallersOf(StackAt(i)), CallersOf(StackAt(i + 1)))

-------------------------------------------------------------------------------
(* The ring.                                                               *)

LEMMA Sizes == RasSize \in Nat \ {0} /\ WindowSize \in Nat \ {0}
  BY ReturnStackAssumption

LEMMA StackFields ==
  ASSUME NEW r \in Stacks
  PROVE  /\ r.stack \in [0 .. RasSize - 1 -> Nat]
         /\ r.tos \in 0 .. RasSize - 1 /\ r.count \in 0 .. RasSize
         /\ r.tos \in Int /\ r.count \in Nat
         /\ r = [stack |-> r.stack, tos |-> r.tos, count |-> r.count]
  BY Sizes DEF Stacks

(* Positions, modulo the size of the ring.                                 *)
LEMMA NextSlot ==
  ASSUME NEW t \in 0 .. RasSize - 1
  PROVE  /\ (t + 1) % RasSize = IF t + 1 = RasSize THEN 0 ELSE t + 1
         /\ (t + 1) % RasSize \in 0 .. RasSize - 1
         /\ (t - 1 + RasSize) % RasSize = IF t = 0 THEN RasSize - 1 ELSE t - 1
         /\ (t - 1 + RasSize) % RasSize \in 0 .. RasSize - 1
  <1>1. RasSize \in Nat /\ RasSize > 0
    BY Sizes
  <1>2. (t + 1) % RasSize = IF t + 1 = RasSize THEN 0 ELSE t + 1
    BY <1>1
  <1>3. CASE t = 0
    <2>1. (t - 1 + RasSize) % RasSize = RasSize - 1
      BY <1>1, <1>3
    <2> QED
      BY <1>1, <1>2, <1>3, <2>1
  <1>4. CASE t # 0
    <2>1. t - 1 \in 0 .. RasSize - 1
      BY <1>1, <1>4
    <2>2. (t - 1 + RasSize) % RasSize = t - 1
      BY <1>1, <2>1
    <2> QED
      BY <1>1, <1>2, <1>4, <2>1, <2>2
  <1> QED
    BY <1>3, <1>4

LEMMA SlotIsPosition ==
  ASSUME NEW t \in 0 .. RasSize - 1, NEW n \in 0 .. RasSize, NEW k \in 1 .. n
  PROVE  Slot(t, n, k) \in 0 .. RasSize - 1
  BY Sizes DEF Slot

LEMMA SlotsAfterPush ==
  ASSUME NEW t \in 0 .. RasSize - 1, NEW n \in 0 .. RasSize - 1,
         NEW u, u = IF t + 1 = RasSize THEN 0 ELSE t + 1
  PROVE  /\ Slot(u, n + 1, n + 1) = t
         /\ \A k \in 1 .. n : Slot(u, n + 1, k) = Slot(t, n, k) /\ Slot(t, n, k) # t
  <1>1. CASE t + 1 = RasSize
    BY <1>1, Sizes DEF Slot
  <1>2. CASE t + 1 # RasSize
    BY <1>2, Sizes DEF Slot
  <1> QED
    BY <1>1, <1>2

LEMMA SlotsAfterPop ==
  ASSUME NEW t \in 0 .. RasSize - 1, NEW n \in 1 .. RasSize,
         NEW u, u = IF t = 0 THEN RasSize - 1 ELSE t - 1
  PROVE  /\ Slot(t, n, n) = u
         /\ \A k \in 1 .. n - 1 : Slot(u, n - 1, k) = Slot(t, n, k)
  <1>1. CASE t = 0
    <2>1. u = RasSize - 1
      BY <1>1
    <2> QED
      BY <1>1, <2>1, Sizes DEF Slot
  <1>2. CASE t # 0
    <2>1. u = t - 1
      BY <1>2
    <2> QED
      BY <1>2, <2>1, Sizes DEF Slot
  <1> QED
    BY <1>1, <1>2

(* The callers are a sequence as long as the count says.                   *)
LEMMA CallersAre ==
  ASSUME NEW r \in Stacks
  PROVE  /\ CallersOf(r) \in Seq(Nat) /\ Len(CallersOf(r)) = r.count
         /\ \A k \in 1 .. r.count : CallersOf(r)[k] = r.stack[Slot(r.tos, r.count, k)]
  <1>1. \A k \in 1 .. r.count : Slot(r.tos, r.count, k) \in 0 .. RasSize - 1
    BY StackFields, SlotIsPosition
  <1>2. \A k \in 1 .. r.count : r.stack[Slot(r.tos, r.count, k)] \in Nat
    BY <1>1, StackFields
  <1>3. CallersOf(r) \in Seq(Nat)
    BY <1>2, StackFields, IsASeq DEF CallersOf
  <1>4. DOMAIN CallersOf(r) = 1 .. r.count
    BY DEF CallersOf
  <1>5. Len(CallersOf(r)) = r.count
    BY <1>3, <1>4, StackFields, LenProperties
  <1> QED
    BY <1>3, <1>5 DEF CallersOf

(* push adds a caller, if there is a free slot.                            *)
LEMMA PushAppends ==
  ASSUME ras \in Stacks, NEW a \in Nat
  PROVE  /\ Pushed(a) \in Stacks
         /\ ras.count < RasSize => CallersOf(Pushed(a)) = Append(CallersOf(ras), a)
  <1> DEFINE p == Pushed(a)
             c == CallersOf(ras)
             d == CallersOf(p)
             n == ras.count
  <1>1. /\ p.stack = [ras.stack EXCEPT ![ras.tos] = a]
        /\ p.tos = (ras.tos + 1) % RasSize
        /\ p.count = IF n < RasSize THEN n + 1 ELSE n
        /\ p = [stack |-> p.stack, tos |-> p.tos, count |-> p.count]
    BY DEF Pushed
  <1>2. /\ ras.tos \in 0 .. RasSize - 1 /\ n \in 0 .. RasSize /\ n \in Nat
        /\ ras.stack \in [0 .. RasSize - 1 -> Nat] /\ RasSize \in Nat
    BY Sizes, StackFields
  <1>3. /\ p.tos = IF ras.tos + 1 = RasSize THEN 0 ELSE ras.tos + 1
        /\ p.tos \in 0 .. RasSize - 1
    BY <1>1, <1>2, NextSlot
  <1> HIDE DEF p, n
  <1>4. p \in Stacks
    <2>1. p.stack \in [0 .. RasSize - 1 -> Nat] /\ p.count \in 0 .. RasSize
      BY <1>1, <1>2
    <2> QED
      BY <1>1, <1>3, <2>1 DEF Stacks
  <1>5. ASSUME n < RasSize
        PROVE  d = Append(c, a)
    <2>1. c \in Seq(Nat) /\ Len(c) = n /\ \A k \in 1 .. n : c[k] = ras.stack[Slot(ras.tos, n, k)]
      BY CallersAre DEF n
    <2>2. n \in 0 .. RasSize - 1 /\ p.count = n + 1
      BY <1>1, <1>2, <1>5
    <2>3. /\ d \in Seq(Nat) /\ Len(d) = n + 1
          /\ \A k \in 1 .. n + 1 : d[k] = p.stack[Slot(p.tos, n + 1, k)]
      BY <1>4, <2>2, CallersAre
    <2>4. /\ Slot(p.tos, n + 1, n + 1) = ras.tos
          /\ \A k \in 1 .. n : /\ Slot(p.tos, n + 1, k) = Slot(ras.tos, n, k)
                               /\ Slot(ras.tos, n, k) # ras.tos
      <3> DEFINE t == ras.tos
                 u == p.tos
      <3>1. t \in 0 .. RasSize - 1 /\ u = IF t + 1 = RasSize THEN 0 ELSE t + 1
        BY <1>2, <1>3
      <3> HIDE DEF t, u
      <3>2. /\ Slot(u, n + 1, n + 1) = t
            /\ \A k \in 1 .. n : Slot(u, n + 1, k) = Slot(t, n, k) /\ Slot(t, n, k) # t
        BY <2>2, <3>1, SlotsAfterPush
      <3> QED
        BY <3>2 DEF t, u
    <2>8. \A k \in 1 .. n : Slot(ras.tos, n, k) \in 0 .. RasSize - 1
      BY <1>2, SlotIsPosition
    <2> HIDE DEF c, d
    <2>5. d[n + 1] = a /\ \A k \in 1 .. n : d[k] = c[k]
      <3>1. n + 1 \in 1 .. n + 1 /\ \A k \in 1 .. n : k \in 1 .. n + 1
        BY <1>2
      <3>2. d[n + 1] = a
        BY <1>1, <1>2, <2>3, <2>4, <3>1
      <3>3. \A k \in 1 .. n : d[k] = c[k]
        <4> SUFFICES ASSUME NEW k \in 1 .. n PROVE d[k] = c[k]
          OBVIOUS
        <4>1. d[k] = p.stack[Slot(ras.tos, n, k)]
          BY <2>3, <2>4, <3>1
        <4>2. p.stack[Slot(ras.tos, n, k)] = ras.stack[Slot(ras.tos, n, k)]
          BY <1>1, <1>2, <2>4, <2>8
        <4> QED
          BY <2>1, <4>1, <4>2
      <3> QED
        BY <3>2, <3>3
    <2>6. /\ Append(c, a) \in Seq(Nat) /\ Len(Append(c, a)) = n + 1
          /\ \A k \in 1 .. n + 1 : Append(c, a)[k] = IF k <= n THEN c[k] ELSE a
      BY <1>2, <2>1, AppendProperties
    <2>7. \A k \in 1 .. n + 1 : d[k] = Append(c, a)[k]
      BY <1>2, <2>5, <2>6
    <2> QED
      BY <2>3, <2>6, <2>7, SeqEqual
  <1> QED
    BY <1>4, <1>5 DEF p, n

(* pop gives the last caller back and takes it off.                        *)
LEMMA PopTakesLast ==
  ASSUME ras \in Stacks, ras.count > 0
  PROVE  /\ Popped \in Stacks /\ ras.stack[TopSlot] \in Nat
         /\ CallersOf(ras) # <<>>
         /\ ras.stack[TopSlot] = Last(CallersOf(ras))
         /\ CallersOf(Popped) = Front(CallersOf(ras))
  <1> DEFINE p == Popped
             c == CallersOf(ras)
             d == CallersOf(p)
             n == ras.count
  <1>1. /\ ras.tos \in 0 .. RasSize - 1 /\ n \in 1 .. RasSize /\ n \in Nat
        /\ ras.stack \in [0 .. RasSize - 1 -> Nat] /\ RasSize \in Nat
    BY Sizes, StackFields
  <1>2. TopSlot = (IF ras.tos = 0 THEN RasSize - 1 ELSE ras.tos - 1) /\ TopSlot \in 0 .. RasSize - 1
    BY <1>1, NextSlot DEF TopSlot
  <1>3. n - 1 \in 0 .. RasSize
    BY <1>1
  <1>4. p \in Stacks
    BY <1>2, <1>3 DEF Popped, Stacks
  <1>5. p.stack = ras.stack /\ p.tos = TopSlot /\ p.count = n - 1
    BY DEF Popped, Stacks
  <1>6. c \in Seq(Nat) /\ Len(c) = n /\ \A k \in 1 .. n : c[k] = ras.stack[Slot(ras.tos, n, k)]
    BY CallersAre
  <1> HIDE DEF p, n
  <1>7. /\ d \in Seq(Nat) /\ Len(d) = n - 1
        /\ \A k \in 1 .. n - 1 : d[k] = ras.stack[Slot(TopSlot, n - 1, k)]
    BY <1>4, <1>5, CallersAre
  <1>8. /\ Slot(ras.tos, n, n) = TopSlot
        /\ \A k \in 1 .. n - 1 : Slot(TopSlot, n - 1, k) = Slot(ras.tos, n, k)
    <2> DEFINE t == ras.tos
               u == TopSlot
    <2>1. t \in 0 .. RasSize - 1 /\ u = IF t = 0 THEN RasSize - 1 ELSE t - 1
      BY <1>1, <1>2
    <2> HIDE DEF t, u
    <2>2. /\ Slot(t, n, n) = u
          /\ \A k \in 1 .. n - 1 : Slot(u, n - 1, k) = Slot(t, n, k)
      BY <1>1, <2>1, SlotsAfterPop
    <2> QED
      BY <2>2 DEF t, u
  <1> HIDE DEF c, d
  <1>9. \A k \in 1 .. n - 1 : d[k] = c[k]
    <2>1. \A k \in 1 .. n - 1 : k \in 1 .. n
      BY <1>1
    <2> QED
      BY <1>6, <1>7, <1>8, <2>1
  <1>10. c # <<>> /\ c[n] = ras.stack[TopSlot]
    <2>1. n \in 1 .. n /\ n > 0
      BY <1>1
    <2>2. c # <<>>
      BY <1>6, <2>1, EmptySeq
    <2> QED
      BY <1>6, <1>8, <2>1, <2>2
  <1>11. /\ Front(c) \in Seq(Nat) /\ Len(Front(c)) = n - 1
         /\ \A k \in 1 .. n - 1 : Front(c)[k] = c[k]
    <2>1. \A k \in 1 .. n - 1 : c[k] \in Nat
      <3>1. \A k \in 1 .. n - 1 : k \in 1 .. Len(c)
        BY <1>1, <1>6
      <3> QED
        BY <1>6, <3>1, ElementOfSeq
    <2>2. n - 1 \in Int /\ 1 \in Int
      BY <1>1
    <2>3. Front(c) = SubSeq(c, 1, n - 1)
      BY <1>6 DEF Front
    <2>4. /\ SubSeq(c, 1, n - 1) \in Seq(Nat)
          /\ Len(SubSeq(c, 1, n - 1)) = IF 1 <= n - 1 THEN n - 1 - 1 + 1 ELSE 0
          /\ \A k \in 1 .. n - 1 - 1 + 1 : SubSeq(c, 1, n - 1)[k] = c[1 + k - 1]
      BY <2>1, <2>2, SubSeqProperties
    <2> QED
      BY <1>1, <2>3, <2>4
  <1>12. d = Front(c)
    BY <1>7, <1>9, <1>11, SeqEqual
  <1>13. ras.stack[TopSlot] \in Nat
    BY <1>1, <1>2
  <1>14. ras.stack[TopSlot] = Last(c)
    BY <1>6, <1>10 DEF Last
  <1> QED
    BY <1>4, <1>10, <1>12, <1>13, <1>14 DEF p, c, d

-------------------------------------------------------------------------------
(* What an action does to the window.                                      *)

LEMMA ProgramIs ==
  ASSUME RsTypes, NEW pc \in DOMAIN prog
  PROVE  pc \in Nat /\ prog[pc].op \in Ops /\ prog[pc].target \in Nat
  BY ReturnStackAssumption DEF RsTypes, Ops

LEMMA FlightIs ==
  ASSUME RsTypes, NEW i \in 1 .. Len(window)
  PROVE  /\ Len(window) \in Nat /\ window[i] \in Flights
         /\ window[i].pc \in DOMAIN prog /\ window[i].pc \in Nat
         /\ window[i].snapshot \in Stacks /\ window[i].ret_target \in Nat
         /\ window[i].predicted.target \in Nat /\ window[i].predicted.taken \in BOOLEAN
         /\ window[i].returns \in BOOLEAN
  <1>1. window[i] \in Flights
    BY ElementOfSeq DEF RsTypes
  <1>2. window[i].pc \in DOMAIN prog /\ Len(window) \in Nat
    BY LenProperties DEF RsTypes
  <1> QED
    BY <1>1, <1>2 DEF Flights

(* predictToyControl: what fetch records of an instruction, and that fetch *)
(* goes on where the golden model would if the stack has its callers.      *)
LEMMA PredictionIs ==
  ASSUME RsTypes, fetch_pc \in DOMAIN prog, NEW h \in BOOLEAN, h => ras.count > 0,
         NEW p \in Predictions(prog[fetch_pc], h)
  PROVE  /\ p \in [taken : BOOLEAN, target : Nat]
         /\ prog[fetch_pc].op = "call" =>
               p = [taken |-> TRUE, target |-> prog[fetch_pc].target]
         /\ prog[fetch_pc].op = "ret" =>
               p = IF h /\ AlwaysTaken THEN [taken |-> TRUE, target |-> ras.stack[TopSlot]]
                                       ELSE [taken |-> FALSE, target |-> fetch_pc + 1]
         /\ prog[fetch_pc].op = "branch" =>
               p.target \in {prog[fetch_pc].target, fetch_pc + 1}
         /\ prog[fetch_pc].op = "plain" => p.target = fetch_pc + 1
  <1> DEFINE in == prog[fetch_pc]
             fall  == [taken |-> FALSE, target |-> fetch_pc + 1]
             taken == [taken |-> TRUE, target |-> in.target]
             back  == [taken |-> TRUE, target |-> ras.stack[TopSlot]]
  <1>1. fetch_pc \in Nat /\ in.op \in Ops /\ in.target \in Nat
    BY ProgramIs
  <1>2. fall \in [taken : BOOLEAN, target : Nat] /\ taken \in [taken : BOOLEAN, target : Nat]
    BY <1>1
  <1>3. h => back \in [taken : BOOLEAN, target : Nat]
    BY PopTakesLast DEF RsTypes
  <1>4. CASE in.op = "call"
    <2>1. p = taken
      BY <1>4 DEF Predictions
    <2> QED
      BY <1>2, <1>4, <2>1
  <1>5. CASE in.op = "ret"
    <2>1. p = IF h /\ AlwaysTaken THEN back ELSE fall
      BY <1>5 DEF Predictions
    <2> QED
      BY <1>2, <1>3, <1>5, <2>1
  <1>6. CASE in.op = "branch"
    <2>1. p = taken \/ p = fall
      BY <1>6 DEF Predictions
    <2>2. p \in [taken : BOOLEAN, target : Nat]
      BY <1>2, <2>1
    <2>3. p.target \in {in.target, fetch_pc + 1}
      BY <2>1
    <2> HIDE DEF in, fall, taken, back
    <2>4. in.op # "call" /\ in.op # "ret" /\ in.op # "plain"
      BY <1>6
    <2> QED
      BY <2>2, <2>3, <2>4 DEF in
  <1>7. CASE in.op = "plain"
    <2>1. p = fall
      BY <1>7 DEF Predictions
    <2> QED
      BY <1>2, <1>7, <2>1
  <1> QED
    BY <1>1, <1>4, <1>5, <1>6, <1>7 DEF Ops

LEMMA FetchEffect ==
  ASSUME RsTypes, Fetch
  PROVE  \E e \in Flights :
           /\ window' = Append(window, e) /\ Len(window) < WindowSize
           /\ fetch_pc \in DOMAIN prog /\ e.pc = fetch_pc /\ e.snapshot = ras
           /\ ras' \in Stacks /\ fetch_pc' \in Nat /\ prog' = prog /\ calls' = calls
           /\ AlwaysTaken =>
                /\ RecordIsOwn(e)
                /\ ~(prog[fetch_pc].op = "call" /\ ras.count = RasSize) =>
                      Steps(prog[fetch_pc], fetch_pc, fetch_pc', CallersOf(ras), CallersOf(ras'))
  <1> DEFINE in == prog[fetch_pc]
             h  == in.op = "ret" /\ CanPop
             e(p) == [pc |-> fetch_pc, predicted |-> p, snapshot |-> ras, returns |-> h,
                      ret_target |-> IF h THEN ras.stack[TopSlot] ELSE 0,
                      resolved |-> in.op = "plain"]
  <1>1. /\ fetch_pc \in DOMAIN prog /\ Len(window) < WindowSize /\ prog' = prog /\ calls' = calls
        /\ fetch_pc \in Nat /\ in.op \in Ops /\ in.target \in Nat
    BY ProgramIs DEF Fetch
  <1>2. PICK p \in Predictions(in, h) :
           /\ window' = Append(window, e(p))
           /\ ras' = IF in.op = "call" THEN Pushed(fetch_pc + 1) ELSE IF h THEN Popped ELSE ras
           /\ fetch_pc' = p.target
    BY DEF Fetch
  <1>3. h \in BOOLEAN /\ (h => in.op = "ret" /\ ras.count > 0)
        /\ (in.op = "ret" /\ ~h => ~(ras.count > 0))
    BY DEF CanPop
  <1>4. ras \in Stacks /\ ras.count \in Nat /\ ras.count <= RasSize /\ RasSize \in Nat
    BY Sizes, StackFields DEF RsTypes
  <1> HIDE DEF h
  <1>5. /\ p \in [taken : BOOLEAN, target : Nat]
        /\ in.op = "call" => p = [taken |-> TRUE, target |-> in.target]
        /\ in.op = "ret" =>
               p = IF h /\ AlwaysTaken THEN [taken |-> TRUE, target |-> ras.stack[TopSlot]]
                                       ELSE [taken |-> FALSE, target |-> fetch_pc + 1]
        /\ in.op = "branch" => p.target \in {in.target, fetch_pc + 1}
        /\ in.op = "plain" => p.target = fetch_pc + 1
    BY <1>1, <1>2, <1>3, PredictionIs
  <1>6. h => /\ Popped \in Stacks /\ ras.stack[TopSlot] \in Nat /\ CallersOf(ras) # <<>>
             /\ ras.stack[TopSlot] = Last(CallersOf(ras))
             /\ CallersOf(Popped) = Front(CallersOf(ras))
    BY <1>3, <1>4, PopTakesLast
  <1>7. /\ Pushed(fetch_pc + 1) \in Stacks
        /\ ras.count < RasSize =>
              CallersOf(Pushed(fetch_pc + 1)) = Append(CallersOf(ras), fetch_pc + 1)
    <2>1. fetch_pc + 1 \in Nat
      BY <1>1
    <2> QED
      BY <1>4, <2>1, PushAppends
  <1>8. e(p) \in Flights
    BY <1>1, <1>4, <1>5, <1>6, <1>3 DEF Flights
  <1>9. ras' \in Stacks /\ fetch_pc' \in Nat
    BY <1>2, <1>4, <1>5, <1>6, <1>7
  <1>10. AlwaysTaken => RecordIsOwn(e(p))
    <2>1. /\ e(p).pc = fetch_pc /\ e(p).predicted = p /\ e(p).returns = h
          /\ h => e(p).ret_target = ras.stack[TopSlot]
          /\ in.op = "plain" => e(p).resolved
      OBVIOUS
    <2> DEFINE f == e(p)
    <2>2. f.pc = fetch_pc /\ f.predicted = p /\ f.returns = h
          /\ (h => f.ret_target = ras.stack[TopSlot])
          /\ (in.op = "plain" => f.resolved)
      BY <2>1
    <2> HIDE DEF e, f
    <2>7. (h => f.returns = TRUE) /\ (~h => f.returns = FALSE)
      BY <1>3, <2>2
    <2>3. in.op = "call" => f.predicted = [taken |-> TRUE, target |-> in.target]
      BY <1>5, <2>2
    <2>4. ASSUME AlwaysTaken, in.op = "ret"
          PROVE  f.predicted.taken = f.returns /\ (f.returns => f.predicted.target = f.ret_target)
      <3>1. CASE h
        <4>1. p = [taken |-> TRUE, target |-> ras.stack[TopSlot]]
          BY <1>5, <2>4, <3>1
        <4>2. f.predicted.taken = TRUE /\ f.predicted.target = ras.stack[TopSlot]
          BY <2>2, <4>1
        <4> QED
          BY <2>2, <2>7, <3>1, <4>2
      <3>2. CASE ~h
        <4>1. p = [taken |-> FALSE, target |-> fetch_pc + 1]
          BY <1>5, <2>4, <3>2
        <4>2. f.predicted.taken = FALSE
          BY <2>2, <4>1
        <4> QED
          BY <2>7, <3>2, <4>2
      <3> QED
        BY <3>1, <3>2
    <2>5. prog[f.pc] = in
      BY <2>2
    <2> HIDE DEF in
    <2>6. AlwaysTaken => RecordIsOwn(f)
      BY <2>2, <2>3, <2>4, <2>5 DEF RecordIsOwn
    <2> QED
      BY <2>6 DEF f
  <1>11. ASSUME AlwaysTaken, ~(in.op = "call" /\ ras.count = RasSize)
         PROVE  Steps(in, fetch_pc, fetch_pc', CallersOf(ras), CallersOf(ras'))
    <2>1. CASE in.op = "call"
      BY <1>2, <1>4, <1>5, <1>7, <1>11, <2>1 DEF Steps
    <2>2. CASE in.op = "ret" /\ h
      BY <1>2, <1>5, <1>6, <1>11, <2>2 DEF Steps
    <2>3. CASE in.op = "ret" /\ ~h
      <3>1. CallersOf(ras) = <<>>
        <4>1. Len(CallersOf(ras)) = 0 /\ CallersOf(ras) \in Seq(Nat)
          BY <1>3, <1>4, <2>3, CallersAre
        <4> QED
          BY <4>1, EmptySeq
      <3> QED
        BY <1>2, <1>5, <2>3, <3>1 DEF Steps
    <2>4. CASE in.op \in {"branch", "plain"}
      BY <1>2, <1>3, <1>5, <2>4 DEF Steps
    <2> QED
      BY <1>1, <2>1, <2>2, <2>3, <2>4 DEF Ops
  <1> QED
    <2>1. e(p).pc = fetch_pc /\ e(p).snapshot = ras
      OBVIOUS
    <2> HIDE DEF e
    <2> QED
      BY <1>1, <1>2, <1>8, <1>9, <1>10, <1>11, <2>1

(* Only a branch is ever mispredicted, and it leaves the stack as it was.  *)
LEMMA ResolveEffect ==
  ASSUME RsTypes, NEW i, NEW taken \in BOOLEAN, Resolve(i, taken)
  PROVE  /\ i \in 1 .. Len(window) /\ prog' = prog /\ calls' = calls
         /\ \E e \in Flights :
              /\ e.pc = window[i].pc /\ e.snapshot = window[i].snapshot
              /\ RecordIsOwn(window[i]) => RecordIsOwn(e)
              /\ \/ /\ window' = [window EXCEPT ![i] = e]
                    /\ ras' = ras /\ fetch_pc' = fetch_pc
                 \/ /\ window' = Append(SubSeq(window, 1, i - 1), e)
                    /\ ras' = window[i].snapshot /\ fetch_pc' \in Nat
                    /\ RecordIsOwn(window[i]) =>
                         /\ prog[window[i].pc].op = "branch"
                         /\ fetch_pc' \in {prog[window[i].pc].target, window[i].pc + 1}
  <1> DEFINE w == window[i]
             e == [w EXCEPT !.resolved = TRUE]
             o == Outcome(w, taken)
             in == prog[w.pc]
  <1>1. i \in 1 .. Len(window) /\ prog' = prog /\ calls' = calls /\ ~w.resolved
    <2>1. DOMAIN window = 1 .. Len(window)
      BY LenProperties DEF RsTypes
    <2> QED
      BY <2>1 DEF Resolve
  <1>2. /\ w \in Flights /\ w.pc \in DOMAIN prog /\ w.pc \in Nat /\ w.ret_target \in Nat
        /\ w.returns \in BOOLEAN
        /\ in.op \in Ops /\ in.target \in Nat
    BY <1>1, FlightIs, ProgramIs
  <1>3. /\ e \in Flights /\ e.pc = w.pc /\ e.snapshot = w.snapshot /\ e.predicted = w.predicted
        /\ e.returns = w.returns /\ e.ret_target = w.ret_target /\ e.resolved = TRUE
    BY <1>2 DEF Flights
  <1>4. \/ /\ Wrong(w, o) /\ window' = Append(SubSeq(window, 1, i - 1), e)
           /\ ras' = w.snapshot /\ fetch_pc' = IF o.taken THEN o.target ELSE w.pc + 1
        \/ /\ ~Wrong(w, o) /\ window' = [window EXCEPT ![i].resolved = TRUE]
           /\ ras' = ras /\ fetch_pc' = fetch_pc
    BY DEF Resolve, Restored
  <1>5. /\ in.op = "call" => o = [taken |-> TRUE, target |-> in.target]
        /\ in.op = "ret" => o = [taken |-> w.returns, target |-> w.ret_target]
        /\ in.op \in {"plain", "branch"} => o = [taken |-> taken, target |-> in.target]
    BY DEF Outcome
  <1>6. window' = [window EXCEPT ![i].resolved = TRUE] => window' = [window EXCEPT ![i] = e]
    OBVIOUS
  <1> HIDE DEF w, e, o, in
  <1>7. RecordIsOwn(w) => RecordIsOwn(e)
    BY <1>3 DEF RecordIsOwn
  <1>8. (IF o.taken THEN o.target ELSE w.pc + 1) \in Nat
    BY <1>2, <1>5 DEF Ops
  <1>9. ASSUME RecordIsOwn(w), Wrong(w, o)
        PROVE  in.op = "branch" /\ (IF o.taken THEN o.target ELSE w.pc + 1) \in {in.target, w.pc + 1}
    <2>1. in.op # "plain"
      BY <1>1, <1>9 DEF RecordIsOwn, in, w
    <2>2. in.op # "call"
      <3> SUFFICES ASSUME in.op = "call" PROVE FALSE
        OBVIOUS
      <3>1. w.predicted = [taken |-> TRUE, target |-> in.target] /\ o = [taken |-> TRUE, target |-> in.target]
        BY <1>5, <1>9 DEF RecordIsOwn, in
      <3> QED
        BY <1>9, <3>1 DEF Wrong
    <2>3. in.op # "ret"
      <3> SUFFICES ASSUME in.op = "ret" PROVE FALSE
        OBVIOUS
      <3>1. /\ w.predicted.taken = w.returns /\ (w.returns => w.predicted.target = w.ret_target)
            /\ o.taken = w.returns /\ o.target = w.ret_target
        BY <1>5, <1>9 DEF RecordIsOwn, in
      <3> QED
        BY <1>9, <3>1 DEF Wrong
    <2>4. in.op = "branch"
      BY <1>2, <2>1, <2>2, <2>3 DEF Ops
    <2> QED
      BY <1>5, <2>4
  <1> QED
    BY <1>1, <1>3, <1>4, <1>6, <1>7, <1>8, <1>9 DEF w, in

LEMMA RetireEffect ==
  ASSUME RsTypes, Retire
  PROVE  /\ Len(window) \in Nat /\ 1 \in 1 .. Len(window)
         /\ window' \in Seq(Flights) /\ Len(window') = Len(window) - 1
         /\ \A k \in 1 .. Len(window) - 1 : window'[k] = window[k + 1]
         /\ ras' = ras /\ fetch_pc' = fetch_pc /\ prog' = prog
         /\ calls' = CASE OpAt(1) = "call" -> Append(calls, window[1].pc + 1)
                       [] OpAt(1) = "ret" /\ calls # <<>> -> Front(calls)
                       [] OTHER -> calls
         /\ calls' \in Seq(Nat)
  <1>1. window \in Seq(Flights) /\ window # <<>> /\ window' = Tail(window)
    BY DEF RsTypes, Retire
  <1>2. Len(window) \in Nat /\ 1 \in 1 .. Len(window)
    BY <1>1, EmptySeq
  <1>3. /\ window' \in Seq(Flights) /\ Len(window') = Len(window) - 1
        /\ \A k \in 1 .. Len(window) - 1 : window'[k] = window[k + 1]
    BY <1>1, <1>2, HeadTailProperties
  <1>4. Head(window) = window[1]
    BY <1>1, <1>2
  <1>5. calls' = CASE OpAt(1) = "call" -> Append(calls, window[1].pc + 1)
                   [] OpAt(1) = "ret" /\ calls # <<>> -> Front(calls)
                   [] OTHER -> calls
    BY <1>4 DEF Retire, OpAt
  <1>6. calls' \in Seq(Nat)
    <2>1. calls \in Seq(Nat) /\ window[1].pc \in Nat
      BY <1>2, FlightIs DEF RsTypes
    <2>2. Append(calls, window[1].pc + 1) \in Seq(Nat)
      BY <2>1, AppendProperties
    <2>3. calls # <<>> => Front(calls) \in Seq(Nat)
      <3> SUFFICES ASSUME calls # <<>> PROVE Front(calls) \in Seq(Nat)
        OBVIOUS
      <3>1. Len(calls) \in Nat /\ Len(calls) - 1 \in Int /\ \A k \in 1 .. Len(calls) - 1 : calls[k] \in Nat
        BY <2>1, LenProperties, ElementOfSeq
      <3> QED
        BY <3>1, SubSeqProperties DEF Front
    <2> QED
      BY <1>5, <2>1, <2>2, <2>3
  <1> QED
    BY <1>1, <1>2, <1>3, <1>5, <1>6 DEF Retire

-------------------------------------------------------------------------------
(* The types.                                                              *)

LEMMA RsTypesInit == RsInit => RsTypes
  <1> SUFFICES ASSUME RsInit PROVE RsTypes
    OBVIOUS
  <1>1. ras \in Stacks
    BY Sizes DEF RsInit, Stacks
  <1>2. window = <<>> /\ calls = <<>> /\ Len(window) = 0 /\ fetch_pc \in Nat /\ prog \in Programs
    BY DEF RsInit
  <1>3. window \in Seq(Flights) /\ calls \in Seq(Nat) /\ Len(window) <= WindowSize
    BY <1>2, Sizes, EmptySeq
  <1> QED
    BY <1>1, <1>2, <1>3 DEF RsTypes

(* A resolved instruction in place, alone or with nothing behind it.       *)
LEMMA WindowAfterResolve ==
  ASSUME RsTypes, NEW i \in 1 .. Len(window), NEW e \in Flights, NEW q,
         \/ q = [window EXCEPT ![i] = e]
         \/ q = Append(SubSeq(window, 1, i - 1), e)
  PROVE  /\ q \in Seq(Flights) /\ Len(q) \in i .. Len(window) /\ Len(window) \in Nat
         /\ \A k \in 1 .. Len(q) : q[k] = IF k = i THEN e ELSE window[k]
         /\ IF q = [window EXCEPT ![i] = e] THEN Len(q) = Len(window) ELSE Len(q) = i
  <1>1. window \in Seq(Flights) /\ Len(window) \in Nat /\ \A k \in 1 .. Len(window) : window[k] \in Flights
    BY LenProperties, ElementOfSeq DEF RsTypes
  <1>2. CASE q = [window EXCEPT ![i] = e]
    <2>1. /\ q \in Seq(Flights) /\ Len(q) = Len(window)
          /\ \A k \in 1 .. Len(window) : q[k] = IF k = i THEN e ELSE window[k]
      BY <1>1, <1>2, ExceptSeq
    <2> QED
      BY <1>1, <1>2, <2>1
  <1>3. CASE q # [window EXCEPT ![i] = e] /\ q = Append(SubSeq(window, 1, i - 1), e)
    <2> DEFINE p == SubSeq(window, 1, i - 1)
    <2>1. i - 1 \in Int /\ 1 \in Int /\ \A k \in 1 .. i - 1 : window[k] \in Flights
      BY <1>1
    <2>2. /\ p \in Seq(Flights) /\ Len(p) = IF 1 <= i - 1 THEN i - 1 - 1 + 1 ELSE 0
          /\ \A k \in 1 .. i - 1 - 1 + 1 : p[k] = window[1 + k - 1]
      BY <2>1, SubSeqProperties
    <2> HIDE DEF p
    <2>3. Len(p) = i - 1 /\ \A k \in 1 .. i - 1 : p[k] = window[k]
      BY <1>1, <2>2
    <2>4. /\ q \in Seq(Flights) /\ Len(q) = Len(p) + 1
          /\ \A k \in 1 .. Len(p) + 1 : q[k] = IF k <= Len(p) THEN p[k] ELSE e
      BY <1>3, <2>2, AppendProperties DEF p
    <2>5. Len(q) = i
      BY <1>1, <2>3, <2>4
    <2>6. \A k \in 1 .. i : q[k] = IF k = i THEN e ELSE window[k]
      BY <1>1, <2>3, <2>4
    <2> QED
      BY <1>1, <1>3, <2>4, <2>5, <2>6
  <1> QED
    BY <1>2, <1>3

LEMMA WindowAfterFetch ==
  ASSUME RsTypes, NEW e \in Flights, NEW q, q = Append(window, e)
  PROVE  /\ q \in Seq(Flights) /\ Len(q) = Len(window) + 1 /\ Len(window) \in Nat
         /\ \A k \in 1 .. Len(window) + 1 : q[k] = IF k <= Len(window) THEN window[k] ELSE e
  BY AppendProperties, LenProperties DEF RsTypes

LEMMA RsTypesNext ==
  ASSUME RsTypes, [RsNext]_rsVars
  PROVE  RsTypes'
  <1>1. CASE Fetch
    <2>1. PICK e \in Flights :
             /\ window' = Append(window, e) /\ Len(window) < WindowSize
             /\ fetch_pc \in DOMAIN prog /\ e.pc = fetch_pc
             /\ ras' \in Stacks /\ fetch_pc' \in Nat /\ prog' = prog /\ calls' = calls
      BY <1>1, FetchEffect
    <2>2. /\ window' \in Seq(Flights) /\ Len(window') = Len(window) + 1 /\ Len(window) \in Nat
          /\ \A k \in 1 .. Len(window) + 1 : window'[k] = IF k <= Len(window) THEN window[k] ELSE e
      BY <2>1, WindowAfterFetch
    <2>3. Len(window') <= WindowSize
      BY <2>1, <2>2, Sizes
    <2>4. \A k \in 1 .. Len(window') : window'[k].pc \in DOMAIN prog
      BY <2>1, <2>2 DEF RsTypes
    <2> QED
      BY <2>1, <2>2, <2>3, <2>4 DEF RsTypes
  <1>2. ASSUME NEW i \in 1 .. WindowSize, NEW taken \in BOOLEAN, Resolve(i, taken)
        PROVE  RsTypes'
    <2>1. i \in 1 .. Len(window) /\ prog' = prog /\ calls' = calls
      BY <1>2, ResolveEffect
    <2>2. PICK e \in Flights :
              /\ e.pc = window[i].pc
              /\ \/ /\ window' = [window EXCEPT ![i] = e]
                    /\ ras' = ras /\ fetch_pc' = fetch_pc
                 \/ /\ window' = Append(SubSeq(window, 1, i - 1), e)
                    /\ ras' = window[i].snapshot /\ fetch_pc' \in Nat
      BY <1>2, ResolveEffect
    <2>3. /\ window' \in Seq(Flights) /\ Len(window') \in i .. Len(window) /\ Len(window) \in Nat
          /\ \A k \in 1 .. Len(window') : window'[k] = IF k = i THEN e ELSE window[k]
      BY <2>1, <2>2, WindowAfterResolve
    <2>4. ras' \in Stacks /\ fetch_pc' \in Nat
      BY <2>1, <2>2, FlightIs DEF RsTypes
    <2>5. Len(window') <= WindowSize
      BY <2>3, Sizes DEF RsTypes
    <2>6. \A k \in 1 .. Len(window') : window'[k].pc \in DOMAIN prog
      BY <2>1, <2>2, <2>3 DEF RsTypes
    <2> QED
      BY <2>1, <2>3, <2>4, <2>5, <2>6 DEF RsTypes
  <1>3. CASE Retire
    <2>1. /\ Len(window) \in Nat
          /\ window' \in Seq(Flights) /\ Len(window') = Len(window) - 1
          /\ \A k \in 1 .. Len(window) - 1 : window'[k] = window[k + 1]
          /\ ras' = ras /\ fetch_pc' = fetch_pc /\ prog' = prog /\ calls' \in Seq(Nat)
      BY <1>3, RetireEffect
    <2>2. \A k \in 1 .. Len(window') : window'[k].pc \in DOMAIN prog
      <3>1. \A k \in 1 .. Len(window) - 1 : k + 1 \in 1 .. Len(window)
        BY <2>1
      <3> QED
        BY <2>1, <3>1 DEF RsTypes
    <2>3. Len(window') <= WindowSize
      BY <2>1, Sizes DEF RsTypes
    <2> QED
      BY <2>1, <2>2, <2>3 DEF RsTypes
  <1>4. CASE UNCHANGED rsVars
    BY <1>4 DEF RsTypes, rsVars
  <1> QED
    BY <1>1, <1>2, <1>3, <1>4 DEF RsNext

LEMMA RsTypesHold == RsSpec => []RsTypes
  BY RsTypesInit, RsTypesNext, PTL DEF RsSpec

(* Whatever is fetched, recovered and forgotten, the stack's pointers stay *)
(* in the ring and the program counters stay addresses.                    *)
THEOREM StackTypes == RsSpec => []RsTypeOK
  <1>1. RsTypes => RsTypeOK
    BY DEF RsTypes, RsTypeOK, Stacks
  <1> QED
    BY <1>1, RsTypesHold, PTL

-------------------------------------------------------------------------------
(* The callers.                                                            *)

LEMMA RsInvInit == RsInit => RsInv
  <1> SUFFICES ASSUME RsInit PROVE RsInv
    OBVIOUS
  <1>1. RsTypes
    BY RsTypesInit
  <1>2. window = <<>> /\ Len(window) = 0 /\ calls = <<>> /\ ras.count = 0
    BY DEF RsInit
  <1>3. StackAt(1) = ras
    BY <1>2 DEF StackAt
  <1>4. CallersOf(ras) = <<>>
    <2>1. CallersOf(ras) \in Seq(Nat) /\ Len(CallersOf(ras)) = 0
      BY <1>1, <1>2, CallersAre DEF RsTypes
    <2> QED
      BY <2>1, EmptySeq
  <1> QED
    BY <1>1, <1>2, <1>3, <1>4 DEF RsInv

LEMMA FetchInv ==
  ASSUME AlwaysTaken, RsInv, Fetch
  PROVE  RsInv'
  <1>0. RsTypes /\ RsTypes'
    BY RsTypesNext DEF RsInv, RsNext
  <1>10. PICK n \in Nat : n = Len(window)
    BY <1>0, LenProperties DEF RsTypes
  <1>1. PICK e \in Flights :
           /\ window' = Append(window, e)
           /\ e.pc = fetch_pc /\ e.snapshot = ras
           /\ prog' = prog /\ calls' = calls
           /\ RecordIsOwn(e)
           /\ ~(prog[fetch_pc].op = "call" /\ ras.count = RasSize) =>
                 Steps(prog[fetch_pc], fetch_pc, fetch_pc', CallersOf(ras), CallersOf(ras'))
    BY <1>0, FetchEffect
  <1>2. /\ Len(window') = n + 1 /\ n \in Nat
        /\ \A k \in 1 .. n + 1 : window'[k] = IF k <= n THEN window[k] ELSE e
    BY <1>0, <1>1, <1>10, WindowAfterFetch
  <1>3. /\ \A k \in 1 .. n + 1 : StackAt(k)' = StackAt(k) /\ PcAt(k)' = PcAt(k)
        /\ StackAt(n + 2)' = ras' /\ PcAt(n + 2)' = fetch_pc'
    <2>1. \A k \in 1 .. n + 1 : StackAt(k)' = StackAt(k)
      BY <1>1, <1>2, <1>10 DEF StackAt
    <2>2. \A k \in 1 .. n + 1 : PcAt(k)' = PcAt(k)
      BY <1>1, <1>2, <1>10 DEF PcAt
    <2>3. StackAt(n + 2)' = ras' /\ PcAt(n + 2)' = fetch_pc'
      BY <1>2, <1>10 DEF StackAt, PcAt
    <2> QED
      BY <2>1, <2>2, <2>3
  <1>4. StackAt(n + 1) = ras /\ PcAt(n + 1) = fetch_pc
    BY <1>2, <1>10 DEF StackAt, PcAt
  <1>5. \A k \in 1 .. n : Forgets(k)' <=> Forgets(k)
    BY <1>1, <1>2, <1>10 DEF Forgets, OpAt
  <1>6. Forgets(n + 1)' <=> prog[fetch_pc].op = "call" /\ ras.count = RasSize
    <2>1. window'[n + 1] = e
      <3>1. n + 1 \in 1 .. n + 1 /\ ~(n + 1 <= n)
        BY <1>2
      <3> QED
        BY <1>2, <3>1
    <2>2. window'[n + 1].pc = fetch_pc /\ window'[n + 1].snapshot = ras
      BY <1>1, <2>1
    <2> QED
      BY <1>1, <2>2 DEF Forgets, OpAt
  <1>7. \A i \in 1 .. n + 1 : IsExact(i)' => IsExact(i)
    BY <1>2, <1>5 DEF IsExact
  <1>8. calls' = CallersOf(StackAt(1)')
    <2>1. 1 \in 1 .. n + 1
      BY <1>2
    <2> QED
      BY <1>1, <1>3, <2>1 DEF RsInv
  <1>9. ASSUME NEW i \in 1 .. n + 1
        PROVE  /\ RecordIsOwn(window[i])'
               /\ IsExact(i + 1)' => Steps(prog'[window'[i].pc], PcAt(i)', PcAt(i + 1)',
                                           CallersOf(StackAt(i)'), CallersOf(StackAt(i + 1)'))
    <2>1. CASE i <= n
      <3>1. i \in 1 .. n /\ i + 1 \in 1 .. n + 1 /\ window'[i] = window[i]
        BY <1>2, <2>1
      <3>2. /\ RecordIsOwn(window[i])
            /\ IsExact(i + 1) => Steps(prog[window[i].pc], PcAt(i), PcAt(i + 1),
                                       CallersOf(StackAt(i)), CallersOf(StackAt(i + 1)))
        BY <1>10, <3>1 DEF RsInv
      <3>3. RecordIsOwn(window[i])'
        BY <1>1, <3>1, <3>2 DEF RecordIsOwn
      <3> QED
        BY <1>1, <1>3, <1>7, <3>1, <3>2, <3>3
    <2>2. CASE i = n + 1
      <3>1. window'[i] = e /\ i + 1 = n + 2
        BY <1>2, <2>2
      <3>2. RecordIsOwn(window[i])'
        BY <1>1, <3>1 DEF RecordIsOwn
      <3>3. IsExact(i + 1)' => ~(Forgets(n + 1)')
        <4>1. n + 1 \in 1 .. (i + 1) - 1
          BY <1>2, <2>2
        <4> QED
          BY <4>1 DEF IsExact
      <3>4. IsExact(i + 1)' =>
               Steps(prog[fetch_pc], fetch_pc, fetch_pc', CallersOf(ras), CallersOf(ras'))
        BY <1>1, <1>6, <3>3
      <3>5. /\ StackAt(i)' = ras /\ PcAt(i)' = fetch_pc
            /\ StackAt(i + 1)' = ras' /\ PcAt(i + 1)' = fetch_pc'
            /\ prog'[window'[i].pc] = prog[fetch_pc]
        BY <1>1, <1>3, <1>4, <2>2, <3>1
      <3> QED
        BY <3>2, <3>4, <3>5
    <2> QED
      BY <1>2, <2>1, <2>2
  <1> QED
    BY <1>0, <1>2, <1>8, <1>9 DEF RsInv

LEMMA ResolveInv ==
  ASSUME RsInv, NEW i, NEW taken \in BOOLEAN, Resolve(i, taken), RsTypes'
  PROVE  RsInv'
  <1>0. RsTypes
    BY DEF RsInv
  <1>1. i \in 1 .. Len(window) /\ prog' = prog /\ calls' = calls
    BY <1>0, ResolveEffect
  <1>2. RecordIsOwn(window[i])
    BY <1>1 DEF RsInv
  <1>3. PICK e \in Flights :
           /\ e.pc = window[i].pc /\ e.snapshot = window[i].snapshot /\ RecordIsOwn(e)
           /\ \/ /\ window' = [window EXCEPT ![i] = e]
                 /\ ras' = ras /\ fetch_pc' = fetch_pc
              \/ /\ window' = Append(SubSeq(window, 1, i - 1), e)
                 /\ ras' = window[i].snapshot
                 /\ prog[window[i].pc].op = "branch"
                 /\ fetch_pc' \in {prog[window[i].pc].target, window[i].pc + 1}
    BY <1>0, <1>2, ResolveEffect
  <1>4. PICK n \in Nat : n = Len(window)
    BY <1>0, LenProperties DEF RsTypes
  <1>5. PICK m \in i .. n : m = Len(window')
    BY <1>0, <1>1, <1>3, <1>4, WindowAfterResolve
  <1>6. \A k \in 1 .. m : window'[k] = IF k = i THEN e ELSE window[k]
    BY <1>0, <1>1, <1>3, <1>5, WindowAfterResolve
  <1>7. \A k \in 1 .. m : /\ k \in 1 .. n /\ window'[k].pc = window[k].pc
                          /\ window'[k].snapshot = window[k].snapshot
                          /\ RecordIsOwn(window'[k])
    <2> SUFFICES ASSUME NEW k \in 1 .. m
                 PROVE  /\ k \in 1 .. n /\ window'[k].pc = window[k].pc
                        /\ window'[k].snapshot = window[k].snapshot
                        /\ RecordIsOwn(window'[k])
      OBVIOUS
    <2>1. k \in 1 .. n
      BY <1>1, <1>4, <1>5
    <2>2. RecordIsOwn(window[k])
      BY <1>4, <2>1 DEF RsInv
    <2>3. CASE k = i
      BY <1>3, <1>6, <2>1, <2>3
    <2>4. CASE k # i
      BY <1>6, <2>1, <2>2, <2>4
    <2> QED
      BY <2>3, <2>4
  <1>8. \A k \in 1 .. m : /\ StackAt(k)' = StackAt(k) /\ PcAt(k)' = PcAt(k)
                          /\ Forgets(k)' <=> Forgets(k)
                          /\ StackAt(k) = window[k].snapshot /\ PcAt(k) = window[k].pc
    <2>1. \A k \in 1 .. m : StackAt(k)' = StackAt(k) /\ StackAt(k) = window[k].snapshot
      BY <1>4, <1>5, <1>7 DEF StackAt
    <2>2. \A k \in 1 .. m : PcAt(k)' = PcAt(k) /\ PcAt(k) = window[k].pc
      BY <1>4, <1>5, <1>7 DEF PcAt
    <2>3. \A k \in 1 .. m : Forgets(k)' <=> Forgets(k)
      BY <1>1, <1>7 DEF Forgets, OpAt
    <2> QED
      BY <2>1, <2>2, <2>3
  <1>9. \A k \in 1 .. m + 1 : IsExact(k)' => IsExact(k)
    <2>1. \A k \in 1 .. m + 1 : \A j \in 1 .. k - 1 : j \in 1 .. m
      BY <1>1, <1>4, <1>5
    <2> QED
      BY <1>8, <2>1 DEF IsExact
  <1>10. calls' = CallersOf(StackAt(1)')
    <2>1. 1 \in 1 .. m
      BY <1>1, <1>4, <1>5
    <2> QED
      BY <1>1, <1>8, <2>1 DEF RsInv
  <1>11. StackAt(m + 1)' = ras' /\ PcAt(m + 1)' = fetch_pc'
    <2>1. m \in Nat /\ ~(m + 1 <= m)
      BY <1>1, <1>4, <1>5
    <2> QED
      BY <1>5, <2>1 DEF StackAt, PcAt
  <1>12. ASSUME NEW j \in 1 .. m, IsExact(j + 1)'
         PROVE  Steps(prog'[window'[j].pc], PcAt(j)', PcAt(j + 1)',
                      CallersOf(StackAt(j)'), CallersOf(StackAt(j + 1)'))
    <2>1. j + 1 \in 1 .. m + 1 /\ j \in 1 .. n /\ j \in Int
      BY <1>1, <1>4, <1>5
    <2>2. Steps(prog[window[j].pc], PcAt(j), PcAt(j + 1),
                CallersOf(StackAt(j)), CallersOf(StackAt(j + 1)))
      BY <1>4, <1>9, <1>12, <2>1 DEF RsInv
    <2>3. CASE j < m \/ window' = [window EXCEPT ![i] = e]
      <3>1. CASE j < m
        <4>1. j + 1 \in 1 .. m
          BY <1>1, <1>4, <1>5, <2>1, <3>1
        <4> QED
          BY <1>1, <1>7, <1>8, <2>2, <4>1
      <3>2. CASE j = m /\ window' = [window EXCEPT ![i] = e]
        <4>1. m = n
          BY <1>0, <1>1, <1>4, <1>5, <3>2, WindowAfterResolve
        <4>2. \/ ras' = ras /\ fetch_pc' = fetch_pc
              \/ window' = Append(SubSeq(window, 1, i - 1), e)
          BY <1>3
        <4>3. StackAt(n + 1) = ras /\ PcAt(n + 1) = fetch_pc
          <5>1. ~(n + 1 <= n)
            OBVIOUS
          <5> QED
            BY <1>4, <5>1 DEF StackAt, PcAt
        <4>4. CASE ras' = ras /\ fetch_pc' = fetch_pc
          BY <1>1, <1>7, <1>8, <1>11, <2>2, <3>2, <4>1, <4>3, <4>4
        <4>5. CASE ~(ras' = ras /\ fetch_pc' = fetch_pc)
          <5>1. /\ ras' = window[i].snapshot
                /\ prog[window[i].pc].op = "branch"
                /\ fetch_pc' \in {prog[window[i].pc].target, window[i].pc + 1}
                /\ window' = Append(SubSeq(window, 1, i - 1), e)
            BY <1>3, <4>5
          <5>2. j = i
            <6>1. Len(Append(SubSeq(window, 1, i - 1), e)) = i
              <7>1. i - 1 \in Nat /\ \A k \in 1 .. i - 1 : window[k] \in Flights
                BY <1>0, <1>1, <1>4, FlightIs
              <7>2. SubSeq(window, 1, i - 1) \in Seq(Flights) /\ Len(SubSeq(window, 1, i - 1)) = i - 1
                BY <7>1, SubSeqProperties
              <7> QED
                BY <1>1, <1>4, <7>2, AppendProperties
            <6> QED
              BY <1>5, <3>2, <5>1, <6>1
          <5>3. Steps(prog[window[i].pc], window[i].pc, fetch_pc',
                      CallersOf(window[i].snapshot), CallersOf(window[i].snapshot))
            BY <5>1 DEF Steps
          <5> QED
            BY <1>1, <1>7, <1>8, <1>11, <3>2, <5>1, <5>2, <5>3
        <4> QED
          BY <4>4, <4>5
      <3> QED
        BY <1>1, <1>4, <1>5, <2>1, <2>3, <3>1, <3>2
    <2>4. CASE j = m /\ window' # [window EXCEPT ![i] = e]
      <3>1. /\ ras' = window[i].snapshot
            /\ prog[window[i].pc].op = "branch"
            /\ fetch_pc' \in {prog[window[i].pc].target, window[i].pc + 1}
        BY <1>3, <2>4
      <3>2. j = i
        BY <1>0, <1>1, <1>3, <1>5, <2>4, WindowAfterResolve
      <3>3. Steps(prog[window[i].pc], window[i].pc, fetch_pc',
                  CallersOf(window[i].snapshot), CallersOf(window[i].snapshot))
        BY <3>1 DEF Steps
      <3> QED
        BY <1>1, <1>7, <1>8, <1>11, <2>4, <3>1, <3>2, <3>3
    <2> QED
      BY <1>1, <1>4, <1>5, <2>1, <2>3, <2>4
  <1>13. \A k \in 1 .. m : RecordIsOwn(window[k])'
    BY <1>1, <1>7 DEF RecordIsOwn
  <1> QED
    BY <1>5, <1>10, <1>12, <1>13 DEF RsInv

(* What retires does what the golden model does to the callers: a call     *)
(* that found the stack full would nest deeper than the stack is long.     *)
LEMMA RetireSteps ==
  ASSUME RsInv, Retire, Len(calls') <= RasSize
  PROVE  /\ Steps(prog[window[1].pc], PcAt(1), PcAt(2), calls, calls')
         /\ calls' = CallersOf(StackAt(2)) /\ ~Forgets(1)
  <1>0. RsTypes
    BY DEF RsInv
  <1>1. /\ Len(window) \in Nat /\ 1 \in 1 .. Len(window)
        /\ calls' = CASE OpAt(1) = "call" -> Append(calls, window[1].pc + 1)
                      [] OpAt(1) = "ret" /\ calls # <<>> -> Front(calls)
                      [] OTHER -> calls
    BY <1>0, RetireEffect
  <1>2. StackAt(1) = window[1].snapshot /\ PcAt(1) = window[1].pc
    BY <1>1 DEF StackAt, PcAt
  <1>3. /\ window[1].snapshot \in Stacks /\ calls = CallersOf(window[1].snapshot)
        /\ calls \in Seq(Nat) /\ Len(calls) = window[1].snapshot.count
    BY <1>0, <1>1, <1>2, FlightIs, CallersAre DEF RsInv
  <1>4. ~Forgets(1)
    <2> SUFFICES ASSUME Forgets(1) PROVE FALSE
      OBVIOUS
    <2>1. calls' = Append(calls, window[1].pc + 1) /\ Len(calls) = RasSize
      BY <1>1, <1>3 DEF Forgets, OpAt
    <2>2. Len(calls') = RasSize + 1
      BY <1>0, <1>1, <1>3, <2>1, FlightIs, AppendProperties
    <2> QED
      BY <2>2, Sizes
  <1>5. IsExact(2)
    BY <1>4 DEF IsExact
  <1>6. Steps(prog[window[1].pc], PcAt(1), PcAt(2), calls, CallersOf(StackAt(2)))
    BY <1>1, <1>2, <1>3, <1>5 DEF RsInv
  <1>7. prog[window[1].pc].op \in Ops
    BY <1>0, <1>1, FlightIs, ProgramIs
  <1>8. calls' = CallersOf(StackAt(2))
    BY <1>1, <1>2, <1>6, <1>7 DEF Steps, Ops, OpAt
  <1> QED
    BY <1>4, <1>6, <1>8

LEMMA RetireInv ==
  ASSUME RsInv, Retire, RsTypes', Len(calls') <= RasSize
  PROVE  RsInv'
  <1>0. RsTypes
    BY DEF RsInv
  <1>1. PICK n \in Nat : n = Len(window)
    BY <1>0, LenProperties DEF RsTypes
  <1>2. /\ 1 \in 1 .. n /\ Len(window') = n - 1
        /\ \A k \in 1 .. n - 1 : window'[k] = window[k + 1]
        /\ ras' = ras /\ fetch_pc' = fetch_pc /\ prog' = prog
    BY <1>0, <1>1, RetireEffect
  <1>3. calls' = CallersOf(StackAt(2)) /\ ~Forgets(1)
    BY RetireSteps
  <1>4. \A k \in 1 .. n : StackAt(k)' = StackAt(k + 1)
    BY <1>1, <1>2 DEF StackAt
  <1>5. \A k \in 1 .. n : PcAt(k)' = PcAt(k + 1)
    BY <1>1, <1>2 DEF PcAt
  <1>6. \A k \in 1 .. n - 1 : Forgets(k)' <=> Forgets(k + 1)
    BY <1>1, <1>2 DEF Forgets, OpAt
  <1>7. calls' = CallersOf(StackAt(1)')
    BY <1>2, <1>3, <1>4
  <1>8. ASSUME NEW i \in 1 .. n - 1
        PROVE  /\ RecordIsOwn(window[i])'
               /\ IsExact(i + 1)' => Steps(prog'[window'[i].pc], PcAt(i)', PcAt(i + 1)',
                                           CallersOf(StackAt(i)'), CallersOf(StackAt(i + 1)'))
    <2>1. i \in 1 .. n /\ i + 1 \in 1 .. n /\ i + 1 \in 1 .. Len(window) /\ window'[i] = window[i + 1]
      BY <1>1, <1>2
    <2>2. /\ RecordIsOwn(window[i + 1])
          /\ IsExact((i + 1) + 1) =>
                Steps(prog[window[i + 1].pc], PcAt(i + 1), PcAt((i + 1) + 1),
                      CallersOf(StackAt(i + 1)), CallersOf(StackAt((i + 1) + 1)))
      BY <2>1 DEF RsInv
    <2>3. RecordIsOwn(window[i])'
      BY <1>2, <2>1, <2>2 DEF RecordIsOwn
    <2>4. ASSUME IsExact(i + 1)'
          PROVE  IsExact((i + 1) + 1)
      <3> SUFFICES ASSUME NEW j \in 1 .. ((i + 1) + 1) - 1
                   PROVE  ~Forgets(j)
        BY DEF IsExact
      <3>1. CASE j = 1
        BY <1>3, <3>1
      <3>2. CASE j # 1
        <4>1. j - 1 \in 1 .. (i + 1) - 1 /\ j - 1 \in 1 .. n - 1 /\ (j - 1) + 1 = j
          BY <1>1, <2>1, <3>2
        <4>2. ~(Forgets(j - 1)')
          BY <2>4, <4>1 DEF IsExact
        <4> QED
          BY <1>6, <4>1, <4>2
      <3> QED
        BY <3>1, <3>2
    <2>5. /\ StackAt(i)' = StackAt(i + 1) /\ PcAt(i)' = PcAt(i + 1)
          /\ StackAt(i + 1)' = StackAt((i + 1) + 1) /\ PcAt(i + 1)' = PcAt((i + 1) + 1)
      BY <1>4, <1>5, <2>1
    <2> QED
      BY <1>2, <2>1, <2>2, <2>3, <2>4, <2>5
  <1> QED
    BY <1>2, <1>7, <1>8 DEF RsInv

-------------------------------------------------------------------------------
(* Against the golden model.                                               *)

(* The calls that have retired and not returned fit into the stack.        *)
NestingFits == Len(calls) <= RasSize

LEMMA RsInvNext ==
  ASSUME AlwaysTaken, RsInv, NestingFits', [RsNext]_rsVars
  PROVE  RsInv'
  <1>1. RsTypes /\ RsTypes'
    BY RsTypesNext DEF RsInv
  <1>2. CASE Fetch
    BY <1>2, FetchInv
  <1>3. ASSUME NEW i \in 1 .. WindowSize, NEW taken \in BOOLEAN, Resolve(i, taken)
        PROVE  RsInv'
    BY <1>1, <1>3, ResolveInv
  <1>4. CASE Retire
    BY <1>1, <1>4, RetireInv DEF NestingFits
  <1>5. CASE UNCHANGED rsVars
    BY <1>5 DEF RsInv, RsTypes, StackAt, PcAt, IsExact, Forgets, OpAt, RecordIsOwn, rsVars
  <1> QED
    BY <1>2, <1>3, <1>4, <1>5 DEF RsNext

(* The golden model's pc is where the oldest instruction was fetched.      *)
LEMMA GoldenPc ==
  ASSUME RsTypes
  PROVE  (IF window = <<>> THEN fetch_pc ELSE Head(window).pc) = PcAt(1)
  <1>1. CASE window = <<>>
    BY <1>1 DEF PcAt
  <1>2. CASE window # <<>>
    <2>1. window \in Seq(Flights) /\ Len(window) \in Nat \ {0}
      BY <1>2, EmptySeq DEF RsTypes
    <2>2. Head(window) = window[1]
      BY <2>1
    <2> QED
      BY <1>2, <2>1, <2>2 DEF PcAt
  <1> QED
    BY <1>1, <1>2

LEMMA StepIsGolden ==
  ASSUME AlwaysTaken, RsInv, NestingFits', [RsNext]_rsVars
  PROVE  [Golden!CallNext]_(Golden!callVars)
  <1> DEFINE pc == IF window = <<>> THEN fetch_pc ELSE Head(window).pc
  <1>1. RsTypes /\ RsTypes'
    BY RsTypesNext DEF RsInv
  <1>2. pc = PcAt(1) /\ pc' = PcAt(1)'
    <2>1. pc = PcAt(1)
      BY <1>1, GoldenPc
    <2>2. RsTypes => pc = PcAt(1)
      BY GoldenPc
    <2>3. (RsTypes => pc = PcAt(1))'
      BY GoldenPc, PTL
    <2> QED
      BY <1>1, <2>1, <2>3
  <1> HIDE DEF pc
  <1>3. CASE Fetch
    <2>1. PICK e \in Flights :
             /\ window' = Append(window, e) /\ e.pc = fetch_pc /\ prog' = prog /\ calls' = calls
      BY <1>1, <1>3, FetchEffect
    <2>2. PcAt(1)' = PcAt(1)
      <3>1. /\ Len(window') = Len(window) + 1 /\ Len(window) \in Nat
            /\ \A k \in 1 .. Len(window) + 1 : window'[k] = IF k <= Len(window) THEN window[k] ELSE e
        BY <1>1, <2>1, WindowAfterFetch
      <3>2. 1 \in 1 .. Len(window) + 1 /\ 1 <= Len(window')
        BY <3>1
      <3> QED
        BY <2>1, <3>1, <3>2 DEF PcAt
    <2> QED
      BY <1>2, <2>1, <2>2 DEF Golden!callVars, pc
  <1>4. ASSUME NEW i \in 1 .. WindowSize, NEW taken \in BOOLEAN, Resolve(i, taken)
        PROVE  UNCHANGED Golden!callVars
    <2>1. i \in 1 .. Len(window) /\ prog' = prog /\ calls' = calls
      BY <1>1, <1>4, ResolveEffect
    <2>2. PICK e \in Flights :
              /\ e.pc = window[i].pc
              /\ \/ window' = [window EXCEPT ![i] = e]
                 \/ window' = Append(SubSeq(window, 1, i - 1), e)
      BY <1>1, <1>4, ResolveEffect
    <2>3. /\ Len(window') \in i .. Len(window) /\ Len(window) \in Nat
          /\ \A k \in 1 .. Len(window') : window'[k] = IF k = i THEN e ELSE window[k]
      BY <1>1, <2>1, <2>2, WindowAfterResolve
    <2>4. PcAt(1)' = PcAt(1)
      <3>1. 1 \in 1 .. Len(window') /\ 1 <= Len(window') /\ 1 <= Len(window)
        BY <2>1, <2>3
      <3>2. window'[1].pc = window[1].pc
        BY <2>2, <2>3, <3>1
      <3> QED
        BY <3>1, <3>2 DEF PcAt
    <2> QED
      BY <1>2, <2>1, <2>4 DEF Golden!callVars, pc
  <1>5. CASE Retire
    <2>1. Steps(prog[window[1].pc], PcAt(1), PcAt(2), calls, calls')
      BY <1>5, RetireSteps DEF NestingFits
    <2>2. /\ Len(window) \in Nat /\ 1 \in 1 .. Len(window) /\ Len(window') = Len(window) - 1
          /\ \A k \in 1 .. Len(window) - 1 : window'[k] = window[k + 1]
          /\ fetch_pc' = fetch_pc /\ prog' = prog
      BY <1>1, <1>5, RetireEffect
    <2>3. PcAt(1)' = PcAt(2)
      BY <2>2 DEF PcAt
    <2>4. /\ PcAt(1) = window[1].pc /\ window[1].pc \in DOMAIN prog
          /\ prog[window[1].pc].op \in Ops
      BY <1>1, <2>2, FlightIs, ProgramIs DEF PcAt
    <2>5. pc \in DOMAIN prog /\ prog[pc].op \in Ops /\ Steps(prog[pc], pc, pc', calls, calls')
      BY <1>2, <2>1, <2>3, <2>4
    <2>6. Golden!Call \/ Golden!Ret \/ Golden!Other
      <3>1. CASE prog[pc].op = "call"
        BY <2>5, <3>1 DEF Steps, Golden!Call, pc
      <3>2. CASE prog[pc].op = "ret"
        <4>1. IF calls = <<>> THEN pc' = pc + 1 /\ calls' = calls
                              ELSE pc' = Last(calls) /\ calls' = Front(calls)
          BY <2>5, <3>2 DEF Steps
        <4>2. /\ prog[pc].op = "ret"
              /\ IF calls = <<>> THEN pc' = pc + 1 /\ UNCHANGED calls
                                 ELSE pc' = Last(calls) /\ calls' = Front(calls)
          BY <3>2, <4>1
        <4> QED
          BY <4>2 DEF Golden!Ret, Golden!Last, Golden!Front, Last, Front, pc
      <3>3. CASE prog[pc].op \in {"plain", "branch"}
        BY <2>5, <3>3 DEF Steps, Golden!Other, pc
      <3> QED
        BY <2>5, <3>1, <3>2, <3>3 DEF Ops
    <2> QED
      BY <2>2, <2>5, <2>6 DEF Golden!CallNext, pc
  <1>6. CASE UNCHANGED rsVars
    BY <1>6 DEF rsVars, Golden!callVars
  <1> QED
    BY <1>3, <1>4, <1>5, <1>6 DEF RsNext

(* For every program, in the always-taken mode and for every size of the   *)
(* stack: as long as the calls that have retired are nested no deeper than *)
(* the stack is long, CALL and RET retire as in the golden model, however  *)
(* many calls and returns on wrong paths the stack has seen, and however   *)
(* often it has overflowed on them.                                        *)
THEOREM CallsReturn ==
  ASSUME AlwaysTaken
  PROVE  RsSpec /\ []NestingFits => ImplementsCalls
  <1>1. RsInit => RsInv /\ Golden!CallInit
    BY RsInvInit DEF RsInit, Golden!CallInit
  <1>2. RsInv /\ NestingFits' /\ [RsNext]_rsVars => RsInv'
    BY RsInvNext
  <1>3. RsInv /\ NestingFits' /\ [RsNext]_rsVars => [Golden!CallNext]_(Golden!callVars)
    BY StepIsGolden
  <1> QED
    BY <1>1, <1>2, <1>3, PTL DEF RsSpec, ImplementsCalls, Golden!CallSpec
===============================================================================
