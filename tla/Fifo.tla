-------------------------------- MODULE Fifo --------------------------------
(***************************************************************************)
(* What the byte queues of the kernel promise: a bounded first-in          *)
(* first-out queue.  RingQueue implements it, and the modules of the run   *)
(* queues and of the packet queue use the operators it is made of.         *)
(***************************************************************************)
EXTENDS Queues

CONSTANT Data  \* the bytes that are pushed

VARIABLES items,  \* what the queue holds, oldest first
          got     \* the answer of the last pop

Init == items = <<>> /\ got = 0

Push(d) == items' = Pushed(items, d) /\ got' = got

Pop == items' = Popped(items) /\ got' = Answer(items)

Next == (\E d \in Data : Push(d)) \/ Pop

Spec == Init /\ [][Next]_<<items, got>>
=============================================================================
