------------------------------ MODULE MCBPTree ------------------------------
(* The B+ tree with small names, as it grows from the empty root.          *)
EXTENDS BPTree

CONSTANTS Keys,       \* the FNV hashes of names that come and go
          Colliding   \* those of them that two names have

MCNames == {[fnv |-> k, djb |-> 0] : k \in Keys} \cup
           {[fnv |-> k, djb |-> 1] : k \in Colliding}
=============================================================================
