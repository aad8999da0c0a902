------------------------------- MODULE Queues -------------------------------
(***************************************************************************)
(* The byte queue of src/tools/dstruc.c as its users see it: a sequence of *)
(* at most Size bytes, oldest first.                                       *)
(***************************************************************************)
EXTENDS Naturals, Sequences

CONSTANT Size  \* the size given to queue_init

ASSUME SizeAssumption == Size \in Nat \ {0}

(* A full queue drops what is pushed.                                      *)
Pushed(s, d) == IF Len(s) < Size THEN Append(s, d) ELSE s

(* An empty queue stays as it is and answers 0.                            *)
Popped(s) == IF s = <<>> THEN s ELSE Tail(s)
Answer(s) == IF s = <<>> THEN 0 ELSE Head(s)
=============================================================================
