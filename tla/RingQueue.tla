----------------------------- MODULE RingQueue ------------------------------
(***************************************************************************)
(* The byte queue of src/tools/dstruc.c: a ring with a write index, a read *)
(* index and a count, over a buffer its user provides.  The process        *)
(* manager keeps two of these as run queues, the network manager one of    *)
(* slots that hold a packet.                                               *)
(***************************************************************************)
EXTENDS Queues

CONSTANT Data  \* the bytes that are pushed

VARIABLES buffer, head, tail, count,  \* the fields of the struct
          got                         \* what the last pop returned

ringVars == <<buffer, head, tail, count, got>>

Slots == 0 .. Size - 1

(* queue_init resets the indices and keeps what is in the buffer.          *)
queue_init ==
    /\ buffer \in [Slots -> Data]
    /\ head = 0
    /\ tail = 0
    /\ count = 0

RingInit == queue_init /\ got = 0

(* An index that was just incremented, brought back into the buffer.       *)
Wrapped(i) == IF i >= Size THEN 0 ELSE i

(* Mutant of queue_push: no test for a full queue.                         *)
queue_push_Unguarded(d) ==
    /\ buffer' = [buffer EXCEPT ![head] = d]
    /\ head' = Wrapped(head + 1)
    /\ count' = count + 1
    /\ UNCHANGED <<tail, got>>

queue_push(d) ==
    \/ /\ count >= Size
       /\ UNCHANGED ringVars
    \/ /\ count < Size
       /\ buffer' = [buffer EXCEPT ![head] = d]
       /\ head' = Wrapped(head + 1)
       /\ count' = count + 1
       /\ UNCHANGED <<tail, got>>

queue_pop ==
    \/ /\ count = 0
       /\ got' = 0
       /\ UNCHANGED <<buffer, head, tail, count>>
    \/ /\ count # 0
       /\ got' = buffer[tail]
       /\ tail' = Wrapped(tail + 1)
       /\ count' = count - 1
       /\ UNCHANGED <<buffer, head>>

queue_empty == count = 0
queue_full == count >= Size

RingNext == (\E d \in Data : queue_push(d)) \/ queue_pop

RingSpec == RingInit /\ [][RingNext]_ringVars
-----------------------------------------------------------------------------
(* The slot i places after the read index.                                 *)
At(i) == IF tail + i < Size THEN tail + i ELSE tail + i - Size

(* The oldest element is at the read index, and count of them follow.      *)
Items == [i \in 1 .. count |-> buffer[At(i - 1)]]

(* The indices stay in the buffer, and the two and the count, which the    *)
(* code updates separately, always agree.                                  *)
RingTypeOK ==
    /\ buffer \in [Slots -> Data]
    /\ head \in Slots
    /\ tail \in Slots
    /\ count \in 0 .. Size
    /\ got \in Data \cup {0}
    /\ head = At(count)

Abstract == INSTANCE Fifo WITH items <- Items

(* However pushes, drops, pops and wrap-arounds alternate, the ring loses, *)
(* repeats and reorders nothing: it is the bounded queue.                  *)
ImplementsFifo == Abstract!Spec
=============================================================================
