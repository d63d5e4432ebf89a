---------------------------- MODULE InFlightQueue ----------------------------
(***************************************************************************)
(* What the reorder buffer promises its users: a bounded first-in first-   *)
(* out queue of in-flight instructions.  Instructions enter at the back in *)
(* program order and leave from the front, and only once they are done;    *)
(* the youngest ones can be discarded; a result marks one entry done.      *)
(* ReorderBuffer implements this queue with a circular array.              *)
(***************************************************************************)
EXTENDS Integers, Sequences

CONSTANTS Capacity,   \* number of entries the queue may hold
          Reg,        \* logical registers an entry may have as destination
          Val         \* values a result may have

VARIABLE queue        \* the entries, oldest first

Entry == [dest : Reg, done : BOOLEAN, value : Val]

QueueInit == queue = << >>

Enter(d) ==
  /\ Len(queue) < Capacity
  /\ \E e \in Entry :
       /\ e.dest = d
       /\ ~e.done
       /\ queue' = Append(queue, e)

(* A result makes the entry done and fixes its value; a second result for  *)
(* the same entry replaces the value.                                      *)
Finish(i, v) ==
  /\ i \in DOMAIN queue
  /\ queue' = [queue EXCEPT ![i].done = TRUE, ![i].value = v]

Leave ==
  /\ queue # << >>
  /\ Head(queue).done
  /\ queue' = Tail(queue)

(* Only the n oldest entries survive.                                      *)
Keep(n) == queue' = SubSeq(queue, 1, n)

QueueNext ==
  \/ \E d \in Reg : Enter(d)
  \/ \E i \in 1 .. Capacity, v \in Val : Finish(i, v)
  \/ Leave
  \/ \E n \in 0 .. Len(queue) : Keep(n)

QueueSpec == QueueInit /\ [][QueueNext]_queue
==============================================================================
