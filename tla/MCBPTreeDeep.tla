---------------------------- MODULE MCBPTreeDeep ----------------------------
(* The B+ tree from trees of three levels on, with names that come and go  *)
(* where they make these grow beyond their nodes, or shrink by a level.    *)
EXTENDS MCBPTree

VARIABLE start  \* how many names were inserted, and which come and go

Starts == {[grown |-> 12, keys |-> {1, 2, 7, 9, 11}],
           [grown |-> 14, keys |-> {1, 2, 7, 15, 16}]}

(* The tree that inserting the names 1, 2, 3... in this order gives.       *)
GrownInit ==
    /\ start \in Starts
    /\ mem = FoldLeft(LAMBDA t, k : bpt_insert(t, [fnv |-> k, djb |-> 0], 1).mem,
                      [a \in {root} |-> EmptyNode(TRUE)],
                      [i \in 1 .. start.grown |-> i])
    /\ ret = 1 /\ cut_short = FALSE

GrownNext ==
    /\ \E n \in Names : n.fnv \in start.keys /\ (Delete(n) \/ \E v \in Values : Insert(n, v))
    /\ UNCHANGED start

GrownSpec == GrownInit /\ [][GrownNext]_<<vars, start>>
=============================================================================
