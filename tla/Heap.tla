-------------------------------- MODULE Heap --------------------------------
(***************************************************************************)
(* The kernel heap of src/global/alloc.c: a first-fit allocator over one   *)
(* static array, whose blocks form a doubly linked list of headers.        *)
(*                                                                         *)
(* An address is an offset into heap_mem.  `blk' maps the address of each  *)
(* header that is on the list to its four fields; a header that a merge    *)
(* takes off the list leaves the domain, since the code never reads it     *)
(* again.  The list walk of heap_alloc is modelled one node per step, so   *)
(* that what the walk relies on can be stated.                             *)
(***************************************************************************)
EXTENDS Integers, FiniteSets

CONSTANTS HeapSize,  \* HEAP_SIZE, in bytes (or in any unit)
          Hdr,       \* sizeof(heap_block_t), in the same unit
          Requests   \* the payload sizes the kernel asks for

ASSUME HeapAssumption ==
    /\ HeapSize \in Nat
    /\ Hdr \in Nat \ {0}
    /\ Hdr < HeapSize
    /\ Requests \subseteq Nat \ {0}

VARIABLES blk,      \* header address -> [size, is_alloc, next, prev]
          total,    \* total_size of the heap_alloc in progress, 0 if none
          current,  \* where that heap_alloc's walk stands
          owned     \* payload pointer -> payload size, for what callers hold

vars == <<blk, total, current, owned>>

NULL == -1
heap_head == 0

(* heap_block_t, with sizes in S and links in T.                           *)
Header(S, T) == [size : S, is_alloc : BOOLEAN, next : T, prev : T]

Blocks == DOMAIN blk
-----------------------------------------------------------------------------
(* heap_init: the whole array is one free block.                           *)
heap_init ==
    blk = [b \in {heap_head} |-> [size |-> HeapSize, is_alloc |-> FALSE,
                                  next |-> NULL, prev |-> NULL]]

(* get_header: the header lies just before the payload.                    *)
get_header(ptr) == ptr - Hdr

Init ==
    /\ heap_init
    /\ total = 0
    /\ current = NULL
    /\ owned = [p \in {} |-> 0]

-----------------------------------------------------------------------------
(* Mutant of Fits: a strict comparison, which wastes exact fits.           *)
Fits_Strict(b) == ~blk[b].is_alloc /\ blk[b].size > total

(* Block b is free and large enough for the request in progress.           *)
Fits(b) == ~blk[b].is_alloc /\ blk[b].size >= total

(* The remainder is split off only if it can hold a header and a byte.     *)
Splits(b) == blk[b].size > total + Hdr

(* Mutant of Split: b + t without room for b's header.                     *)
Split_NoHeader(h, b, t) ==
    LET n == b + t - Hdr
    IN  [x \in DOMAIN h \cup {n} |->
            IF x = b THEN [h[b] EXCEPT !.size = t - Hdr, !.next = n]
            ELSE IF x = n THEN [size |-> h[b].size - (t - Hdr), is_alloc |-> FALSE,
                                next |-> h[b].next, prev |-> b]
            ELSE IF x = h[b].next THEN [h[x] EXCEPT !.prev = n]
            ELSE h[x]]

(* The list after b was cut down to t units: the rest becomes block n.     *)
Split(h, b, t) ==
    LET n == b + t
    IN  [x \in DOMAIN h \cup {n} |->
            IF x = b THEN [h[b] EXCEPT !.size = t, !.next = n]
            ELSE IF x = n THEN [size |-> h[b].size - t, is_alloc |-> FALSE,
                                next |-> h[b].next, prev |-> b]
            ELSE IF x = h[b].next THEN [h[x] EXCEPT !.prev = n]
            ELSE h[x]]

Mark(h, b, a) == [h EXCEPT ![b].is_alloc = a]

(* heap_alloc(n): entry, one step per node passed over, the node taken,    *)
(* and the end of the list.                                                *)
AllocEnter(n) ==
    /\ total = 0
    /\ total' = n + Hdr
    /\ current' = heap_head
    /\ UNCHANGED <<blk, owned>>

(* Mutant of AllocSkip: the walk goes round.                               *)
AllocSkip_Round ==
    /\ total # 0
    /\ current # NULL
    /\ ~Fits(current)
    /\ current' = IF blk[current].next = NULL THEN heap_head ELSE blk[current].next
    /\ UNCHANGED <<blk, total, owned>>

AllocSkip ==
    /\ total # 0
    /\ current # NULL
    /\ ~Fits(current)
    /\ current' = blk[current].next
    /\ UNCHANGED <<blk, total, owned>>

AllocTake ==
    /\ total # 0
    /\ current # NULL
    /\ Fits(current)
    /\ LET h == IF Splits(current) THEN Split(blk, current, total) ELSE blk
           p == current + Hdr
       IN  /\ blk' = Mark(h, current, TRUE)
           /\ owned' = [q \in DOMAIN owned \cup {p} |->
                           IF q = p THEN total - Hdr ELSE owned[q]]
    /\ total' = 0
    /\ current' = NULL

AllocFail ==
    /\ total # 0
    /\ current = NULL
    /\ total' = 0
    /\ UNCHANGED <<blk, current, owned>>

(* Mutant of Absorb: the back link of the block after is not moved.        *)
Absorb_NoBackLink(h, b, n) ==
    [x \in DOMAIN h \ {n} |->
        IF x = b THEN [h[b] EXCEPT !.size = @ + h[n].size, !.next = h[n].next]
        ELSE h[x]]

(* Block n, the successor of b on the list, is merged into b.              *)
Absorb(h, b, n) ==
    [x \in DOMAIN h \ {n} |->
        IF x = b THEN [h[b] EXCEPT !.size = @ + h[n].size, !.next = h[n].next]
        ELSE IF x = h[n].next THEN [h[x] EXCEPT !.prev = b]
        ELSE h[x]]

(* Mutant of MergePrev: coalesces forwards only.                           *)
MergePrev_Skipped(h, b) == h

(* First the next block is merged into b, then b into the previous one.    *)
MergeNext(h, b) ==
    IF h[b].next # NULL /\ ~h[h[b].next].is_alloc
    THEN Absorb(h, b, h[b].next)
    ELSE h

MergePrev(h, b) ==
    IF h[b].prev # NULL /\ ~h[h[b].prev].is_alloc
    THEN Absorb(h, h[b].prev, b)
    ELSE h

(* heap_free(p): every caller frees a pointer it was given, once.          *)
Free(p) ==
    /\ total = 0
    /\ LET b == get_header(p)
       IN  blk' = MergePrev(MergeNext(Mark(blk, b, FALSE), b), b)
    /\ owned' = [q \in DOMAIN owned \ {p} |-> owned[q]]
    /\ UNCHANGED <<total, current>>

Next ==
    \/ \E n \in Requests : AllocEnter(n)
    \/ AllocSkip
    \/ AllocTake
    \/ AllocFail
    \/ \E p \in DOMAIN owned : Free(p)

Spec == Init /\ [][Next]_vars
FairSpec == Spec /\ WF_vars(AllocSkip) /\ WF_vars(AllocTake) /\ WF_vars(AllocFail)
-----------------------------------------------------------------------------
(* A list h of blocks is typed: each block has room for a payload.         *)
Typed(h) ==
    /\ heap_head \in DOMAIN h
    /\ DOMAIN h \subseteq 0 .. HeapSize - 1
    /\ h \in [DOMAIN h -> Header(Hdr + 1 .. HeapSize, DOMAIN h \cup {NULL})]

(* The blocks of h tile the array: each ends where the next one begins,    *)
(* the last ends with the array, and no header lies inside another block.  *)
Tiling(h) ==
    \A b \in DOMAIN h :
        /\ h[b].next = NULL => b + h[b].size = HeapSize
        /\ h[b].next # NULL => h[b].next = b + h[b].size
        /\ \A c \in DOMAIN h : c <= b \/ b + h[b].size <= c

(* The two directions of the list h agree.                                 *)
Linked(h) ==
    /\ h[heap_head].prev = NULL
    /\ \A b \in DOMAIN h : h[b].next # NULL => h[h[b].next].prev = b
    /\ \A b \in DOMAIN h \ {heap_head} : /\ h[b].prev # NULL
                                         /\ h[h[b].prev].next = b

(* Types of the variables; the walk, while there is one, is on a header.   *)
TypeOK ==
    /\ Typed(blk)
    /\ total \in {0} \cup {n + Hdr : n \in Requests}
    /\ current \in Blocks \cup {NULL}
    /\ total = 0 => current = NULL
    /\ DOMAIN owned \subseteq Nat
    /\ owned \in [DOMAIN owned -> Requests]

(* heap_alloc and heap_free, whatever the order they are called in, leave  *)
(* a list that tiles the array and can be walked both ways: heap_free      *)
(* trusts both links when it merges.                                       *)
WellFormed == Tiling(blk) /\ Linked(blk)

(* heap_free merges both ways, so two free blocks are never neighbours.    *)
Coalesced(h) ==
    \A b \in DOMAIN h :
        h[b].next # NULL => h[b].is_alloc \/ h[h[b].next].is_alloc

(* A pointer that was handed out and not freed lies in a block that is     *)
(* still marked allocated and still holds what was asked for.              *)
Backed ==
    \A p \in DOMAIN owned :
        /\ get_header(p) \in Blocks
        /\ blk[get_header(p)].is_alloc
        /\ blk[get_header(p)].size >= owned[p] + Hdr

(* Every allocated block was handed out: none is lost to the callers.      *)
NoLeak == \A b \in Blocks : blk[b].is_alloc => b + Hdr \in DOMAIN owned

(* Two live allocations never overlap, neither each other nor a header,    *)
(* and stay inside heap_mem, through every split and merge around them.    *)
PayloadsDisjoint ==
    \A p \in DOMAIN owned :
        /\ p + owned[p] <= HeapSize
        /\ \A b \in Blocks : b + Hdr <= p \/ p + owned[p] <= b

(* Once everything is freed, in any order, the heap is one block again:    *)
(* no fragmentation and no leak survive heap_free.                         *)
AllFreedIsOneBlock ==
    DOMAIN owned = {} => /\ Blocks = {heap_head}
                         /\ blk[heap_head].size = HeapSize

(* First fit: no block the walk has passed would have done, so heap_alloc  *)
(* returns NULL only when no free block holds the request.                 *)
WalkOK ==
    total # 0 =>
        \A b \in Blocks : (current = NULL \/ b < current)
            => blk[b].is_alloc \/ blk[b].size < total

(* The walk over the list ends: no merge or split closes a cycle in it.    *)
AllocTerminates == total # 0 ~> total = 0
=============================================================================
