----------------------------- MODULE KeyedStore -----------------------------
(***************************************************************************)
(* What the file manager relies on src/tools/fs.c for: a store of numbers, *)
(* each under the FNV and the DJB hash of a name, with at most one entry   *)
(* for an FNV hash.                                                        *)
(***************************************************************************)
CONSTANTS Names,   \* [fnv, djb]: a name, as its two hashes
          Values   \* what names are given

VARIABLES store,   \* a set of [fnv, djb, data]
          ret      \* what the last insertion or deletion returned

Init == store = {} /\ ret = 0

(* The entries that keep n out, and those that answer for n.               *)
SameFnv(n) == {e \in store : e.fnv = n.fnv}
Matching(n) == {e \in store : e.fnv = n.fnv /\ e.djb = n.djb}

Insert(n, v) ==
    \/ /\ ret' = 0
       /\ SameFnv(n) # {}
       /\ store' = store
    \/ /\ ret' = 1
       /\ SameFnv(n) = {}
       /\ store' = store \cup {[fnv |-> n.fnv, djb |-> n.djb, data |-> v]}

Delete(n) ==
    \/ /\ ret' = 0
       /\ Matching(n) = {}
       /\ store' = store
    \/ /\ ret' = 1
       /\ Matching(n) # {}
       /\ store' = store \ Matching(n)

Next == \E n \in Names : Delete(n) \/ \E v \in Values : Insert(n, v)

Spec == Init /\ [][Next]_<<store, ret>>
=============================================================================
