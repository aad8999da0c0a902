----------------------------- MODULE HeapProofs -----------------------------
(***************************************************************************)
(* Proofs about the kernel heap, for every heap size, header size and set  *)
(* of request sizes.                                                       *)
(***************************************************************************)
EXTENDS Heap, TLAPS

(* The shape of a block list, apart from which blocks are allocated.       *)
WF(h) == Typed(h) /\ Tiling(h) /\ Linked(h)

(* The inductive invariant.                                                *)
IInv == TypeOK /\ WellFormed /\ Coalesced(blk) /\ Backed /\ NoLeak /\ WalkOK
-----------------------------------------------------------------------------
(* No block of a well-formed list reaches past the end of the array.       *)
LEMMA BlockInHeap ==
    ASSUME NEW h, WF(h), NEW b \in DOMAIN h
    PROVE  /\ b \in Nat
           /\ h[b].size \in Nat
           /\ h[b].size > Hdr
           /\ b + h[b].size <= HeapSize
  BY HeapAssumption DEF WF, Typed, Tiling, NULL, Header

(* What merging the block after b into b makes of list h.                  *)
AbsorbPost(h, b, g) ==
    LET n == h[b].next
    IN  /\ WF(g)
        /\ n \in DOMAIN h /\ n # b
        /\ DOMAIN g = DOMAIN h \ {n}
        /\ g[b].next = h[n].next
        /\ g[b].is_alloc = h[b].is_alloc
        /\ \A x \in DOMAIN g \ {b} : /\ g[x].size = h[x].size
                                     /\ g[x].next = h[x].next
                                     /\ g[x].is_alloc = h[x].is_alloc

(* What cutting block b at t units makes of list h.                        *)
SplitPost(h, b, t, g) ==
    /\ WF(g)
    /\ b + t \notin DOMAIN h
    /\ DOMAIN g = DOMAIN h \cup {b + t}
    /\ g[b].size = t /\ g[b].next = b + t
    /\ g[b].is_alloc = h[b].is_alloc
    /\ g[b + t].is_alloc = FALSE
    /\ g[b + t].next = h[b].next
    /\ \A x \in DOMAIN h \ {b} : /\ g[x].size = h[x].size
                                 /\ g[x].next = h[x].next
                                 /\ g[x].is_alloc = h[x].is_alloc

(* What setting the flag of block b makes of list h.                       *)
MarkPost(h, b, a, g) ==
    /\ WF(g)
    /\ DOMAIN g = DOMAIN h
    /\ g[b].is_alloc = a
    /\ \A x \in DOMAIN h : /\ g[x].size = h[x].size
                           /\ g[x].next = h[x].next
                           /\ x # b => g[x].is_alloc = h[x].is_alloc

(* Merging a block into its predecessor keeps the list well formed.        *)
LEMMA AbsorbWF ==
    ASSUME NEW h, WF(h), NEW b \in DOMAIN h, h[b].next # NULL
    PROVE  AbsorbPost(h, b, Absorb(h, b, h[b].next))
  <1> DEFINE n == h[b].next
             m == h[n].next
             g == Absorb(h, b, n)
  <1>1. /\ n \in DOMAIN h /\ n = b + h[b].size
        /\ b \in Nat /\ n \in Nat /\ n > b /\ n # heap_head
        /\ h[b].size \in Nat /\ h[n].size \in Nat
        /\ n + h[n].size <= HeapSize
    BY BlockInHeap, HeapAssumption DEF WF, Typed, Tiling, NULL, heap_head, Header
  <1>2. /\ m = NULL \/ (m \in DOMAIN h /\ m = n + h[n].size /\ m > n)
        /\ m = NULL => n + h[n].size = HeapSize
    BY <1>1, BlockInHeap, HeapAssumption DEF WF, Typed, Tiling, NULL, Header
  <1>3. /\ DOMAIN g = DOMAIN h \ {n}
        /\ b \in DOMAIN g
    BY <1>1 DEF Absorb
  <1> DEFINE U == Hdr + 1 .. HeapSize
             T == DOMAIN h \cup {NULL}
             V == DOMAIN g \cup {NULL}
  <1>4. \A x \in DOMAIN h : /\ h[x] \in Header(U, T)
                            /\ h[x].size \in U /\ h[x].next \in T /\ h[x].prev \in T
    BY DEF WF, Typed, Header
  <1>5. \A x \in DOMAIN h : /\ h[x].next = n => x = b
                            /\ h[x].prev = n => x = m
    BY <1>1 DEF WF, Linked, Typed, NULL, heap_head
  <1>6. /\ g[b] \in Header(U, V)
        /\ g[b].size = h[b].size + h[n].size /\ g[b].next = m
        /\ g[b].prev = h[b].prev /\ g[b].is_alloc = h[b].is_alloc
    <2>1. g[b] = [h[b] EXCEPT !.size = h[b].size + h[n].size, !.next = m]
      BY <1>1, <1>3 DEF Absorb
    <2>2. h[b].size + h[n].size \in U
      BY <1>1, BlockInHeap, HeapAssumption
    <2>3. m \in V
      BY <1>1, <1>2, <1>3
    <2>4. h[b].prev \in V
      BY <1>1, <1>2, <1>3, <1>4, <1>5 DEF NULL
    <2> HIDE DEF n, m, g, U, T, V
    <2> QED BY <1>4, <2>1, <2>2, <2>3, <2>4 DEF Header
  <1>7. ASSUME NEW x \in DOMAIN g, x # b, x = m
        PROVE  /\ g[x] \in Header(U, V)
               /\ g[x].prev = b
               /\ g[x].size = h[x].size /\ g[x].next = h[x].next
               /\ g[x].is_alloc = h[x].is_alloc
    <2>1. g[x] = [h[x] EXCEPT !.prev = b]
      BY <1>3, <1>7 DEF Absorb
    <2>2. h[x].next \in V /\ b \in V /\ h[x].size \in U /\ h[x] \in Header(U, T)
      BY <1>3, <1>4, <1>5, <1>7
    <2> HIDE DEF n, m, g, U, T, V
    <2> QED BY <2>1, <2>2 DEF Header
  <1>8. ASSUME NEW x \in DOMAIN g, x # b, x # m
        PROVE  /\ g[x] = h[x]
               /\ g[x] \in Header(U, V)
    <2>1. g[x] = h[x]
      BY <1>3, <1>8 DEF Absorb
    <2>2. /\ h[x].next \in V /\ h[x].prev \in V
          /\ h[x].size \in U /\ h[x] \in Header(U, T)
      BY <1>3, <1>4, <1>5, <1>8
    <2> HIDE DEF n, m, g, U, T, V
    <2> QED BY <2>1, <2>2 DEF Header
  <1>9. Typed(g)
    <2>1. heap_head \in DOMAIN g /\ DOMAIN g \subseteq 0 .. HeapSize - 1
      BY <1>1, <1>3 DEF WF, Typed
    <2>2. g = [x \in DOMAIN g |-> g[x]]
      BY DEF Absorb
    <2>3. \A x \in DOMAIN g : g[x] \in Header(U, V)
      BY <1>6, <1>7, <1>8
    <2> QED BY <2>1, <2>2, <2>3 DEF Typed
  <1>10. Tiling(g)
    <2>1. ASSUME NEW x \in DOMAIN g
          PROVE  /\ g[x].next = NULL => x + g[x].size = HeapSize
                 /\ g[x].next # NULL => g[x].next = x + g[x].size
                 /\ \A c \in DOMAIN g : c <= x \/ x + g[x].size <= c
      <3>1. x \in DOMAIN h /\ x # n
        BY <1>3
      <3>2. CASE x = b
        <4>1. ASSUME NEW c \in DOMAIN g
              PROVE  c <= b \/ b + (h[b].size + h[n].size) <= c
          <5>1. /\ c \in DOMAIN h /\ c # n /\ c \in Nat
                /\ c <= b \/ n <= c
                /\ c <= n \/ n + h[n].size <= c
            BY <1>1, <1>3, BlockInHeap DEF WF, Tiling
          <5> QED BY <1>1, <5>1
        <4> QED BY <1>1, <1>2, <1>6, <3>2, <4>1
      <3>3. CASE x # b
        <4>1. g[x].next = h[x].next /\ g[x].size = h[x].size
          BY <1>7, <1>8, <3>3
        <4> QED BY <1>3, <3>1, <4>1 DEF WF, Tiling
      <3> QED BY <3>2, <3>3
    <2> QED BY <2>1 DEF Tiling
  <1>11. Linked(g)
    <2>1. g[heap_head].prev = NULL
      <3>1. heap_head # m
        BY <1>1, <1>2 DEF heap_head, NULL
      <3>2. heap_head \in DOMAIN g
        BY <1>9 DEF Typed
      <3>3. h[heap_head].prev = NULL
        BY DEF WF, Linked
      <3> QED BY <1>6, <1>8, <3>1, <3>2, <3>3
    <2>2. ASSUME NEW x \in DOMAIN g, g[x].next # NULL
          PROVE  g[g[x].next].prev = x
      <3>1. CASE x = b
        BY <1>1, <1>2, <1>3, <1>6, <1>7, <2>2, <3>1
      <3>2. CASE x # b
        <4>1. g[x].next = h[x].next /\ x \in DOMAIN h /\ x # n
          BY <1>3, <1>7, <1>8, <3>2
        <4>2. /\ h[h[x].next].prev = x
              /\ h[x].next \in DOMAIN g
              /\ h[x].next # m
          <5>1. h[x].next \in DOMAIN h /\ h[h[x].next].prev = x
            BY <2>2, <4>1 DEF WF, Linked, Typed, Header
          <5>2. h[x].next # n
            BY <1>5, <3>2, <4>1
          <5>3. m # NULL => h[m].prev = n
            BY <1>1 DEF WF, Linked
          <5> QED BY <1>3, <2>2, <4>1, <5>1, <5>2, <5>3
        <4>3. CASE h[x].next = b
          BY <1>6, <4>1, <4>2, <4>3
        <4>4. CASE h[x].next # b
          BY <1>8, <4>1, <4>2, <4>4
        <4> QED BY <4>3, <4>4
      <3> QED BY <3>1, <3>2
    <2>3. ASSUME NEW x \in DOMAIN g \ {heap_head}
          PROVE  g[x].prev # NULL /\ g[g[x].prev].next = x
      <3>1. /\ x \in DOMAIN h /\ x # n
            /\ h[x].prev # NULL /\ h[x].prev \in DOMAIN h
            /\ h[h[x].prev].next = x
        BY <1>3, <2>3 DEF WF, Linked, Typed, Header
      <3>2. CASE x # b /\ x = m
        BY <1>1, <1>3, <1>6, <1>7, <3>2 DEF NULL
      <3>3. CASE x = b \/ x # m
        <4>1. g[x].prev = h[x].prev
          BY <1>6, <1>8, <2>3, <3>3
        <4>2. h[x].prev \in DOMAIN g /\ h[x].prev # b
          <5>1. h[x].prev # b
            BY <3>1
          <5>2. h[x].prev # n
            BY <1>1, <1>2, <1>5, <3>1, <3>3 DEF NULL
          <5> QED BY <1>3, <3>1, <5>1, <5>2
        <4>3. g[h[x].prev].next = h[h[x].prev].next
          BY <1>7, <1>8, <4>2
        <4> QED BY <3>1, <4>1, <4>3
      <3> QED BY <3>2, <3>3
    <2> QED BY <2>1, <2>2, <2>3 DEF Linked
  <1>12. \A x \in DOMAIN g \ {b} : /\ g[x].size = h[x].size
                                   /\ g[x].next = h[x].next
                                   /\ g[x].is_alloc = h[x].is_alloc
    BY <1>7, <1>8
  <1>13. AbsorbPost(h, b, g)
    <2> HIDE DEF g
    <2> QED BY <1>1, <1>3, <1>6, <1>9, <1>10, <1>11, <1>12 DEF WF, AbsorbPost
  <1> QED BY <1>13

(* Cutting a block in two keeps the list well formed.                      *)
LEMMA SplitWF ==
    ASSUME NEW h, WF(h), NEW b \in DOMAIN h, NEW t \in Nat,
           t > Hdr, h[b].size > t + Hdr
    PROVE  SplitPost(h, b, t, Split(h, b, t))
  <1> DEFINE n == b + t
             m == h[b].next
             g == Split(h, b, t)
             U == Hdr + 1 .. HeapSize
             T == DOMAIN h \cup {NULL}
             V == DOMAIN g \cup {NULL}
  <1>1. /\ b \in Nat /\ n \in Nat /\ n > b /\ n # heap_head
        /\ h[b].size \in Nat /\ b + h[b].size <= HeapSize /\ n < HeapSize
        /\ n \notin DOMAIN h
    BY BlockInHeap, HeapAssumption DEF WF, Tiling, heap_head
  <1>2. /\ m = NULL \/ (m \in DOMAIN h /\ m = b + h[b].size /\ m > n)
        /\ m = NULL => b + h[b].size = HeapSize
    BY <1>1, BlockInHeap, HeapAssumption DEF WF, Typed, Tiling, NULL, Header
  <1>3. DOMAIN g = DOMAIN h \cup {n}
    BY DEF Split
  <1>4. \A x \in DOMAIN h : /\ h[x] \in Header(U, T)
                            /\ h[x].size \in U /\ h[x].next \in T /\ h[x].prev \in T
    BY DEF WF, Typed, Header
  <1>5. /\ g[b] \in Header(U, V)
        /\ g[b].size = t /\ g[b].next = n
        /\ g[b].prev = h[b].prev /\ g[b].is_alloc = h[b].is_alloc
    <2>1. g[b] = [h[b] EXCEPT !.size = t, !.next = n]
      BY <1>1, <1>3 DEF Split
    <2>2. t \in U /\ n \in V /\ h[b].prev \in V
      BY <1>1, <1>3, <1>4, HeapAssumption
    <2> HIDE DEF n, m, g, U, T, V
    <2> QED BY <1>4, <2>1, <2>2 DEF Header
  <1>6. /\ g[n] \in Header(U, V)
        /\ g[n].size = h[b].size - t /\ g[n].next = m
        /\ g[n].prev = b /\ g[n].is_alloc = FALSE
    <2>1. g[n] = [size |-> h[b].size - t, is_alloc |-> FALSE, next |-> m, prev |-> b]
      BY <1>1, <1>3 DEF Split
    <2>2. h[b].size - t \in U
      BY <1>1, HeapAssumption
    <2>3. m \in V /\ b \in V
      BY <1>2, <1>3
    <2> HIDE DEF n, m, g, U, T, V
    <2> QED BY <2>1, <2>2, <2>3 DEF Header
  <1>7. ASSUME NEW x \in DOMAIN g, x # b, x # n, x = m
        PROVE  /\ g[x] \in Header(U, V)
               /\ g[x].prev = n
               /\ g[x].size = h[x].size /\ g[x].next = h[x].next
               /\ g[x].is_alloc = h[x].is_alloc
    <2>1. g[x] = [h[x] EXCEPT !.prev = n]
      BY <1>3, <1>7 DEF Split
    <2>2. h[x].next \in V /\ n \in V /\ h[x].size \in U /\ h[x] \in Header(U, T)
      BY <1>3, <1>4, <1>7
    <2> HIDE DEF n, m, g, U, T, V
    <2> QED BY <2>1, <2>2 DEF Header
  <1>8. ASSUME NEW x \in DOMAIN g, x # b, x # n, x # m
        PROVE  /\ g[x] = h[x]
               /\ g[x] \in Header(U, V)
    <2>1. g[x] = h[x]
      BY <1>3, <1>8 DEF Split
    <2>2. /\ h[x].next \in V /\ h[x].prev \in V
          /\ h[x].size \in U /\ h[x] \in Header(U, T)
      BY <1>3, <1>4, <1>8
    <2> HIDE DEF n, m, g, U, T, V
    <2> QED BY <2>1, <2>2 DEF Header
  <1>9. Typed(g)
    <2>1. heap_head \in DOMAIN g /\ DOMAIN g \subseteq 0 .. HeapSize - 1
      BY <1>1, <1>3, HeapAssumption DEF WF, Typed
    <2>2. g = [x \in DOMAIN g |-> g[x]]
      BY DEF Split
    <2>3. \A x \in DOMAIN g : g[x] \in Header(U, V)
      BY <1>5, <1>6, <1>7, <1>8
    <2> QED BY <2>1, <2>2, <2>3 DEF Typed
  <1>10. Tiling(g)
    <2>1. ASSUME NEW x \in DOMAIN g
          PROVE  /\ g[x].next = NULL => x + g[x].size = HeapSize
                 /\ g[x].next # NULL => g[x].next = x + g[x].size
                 /\ \A c \in DOMAIN g : c <= x \/ x + g[x].size <= c
      <3>1. \A c \in DOMAIN h : c \in Nat /\ (c <= b \/ b + h[b].size <= c)
        BY BlockInHeap DEF WF, Tiling
      <3>2. CASE x = b
        BY <1>1, <1>3, <1>5, <3>1, <3>2, HeapAssumption DEF NULL
      <3>3. CASE x = n
        BY <1>1, <1>2, <1>3, <1>6, <3>1, <3>3
      <3>4. CASE x # b /\ x # n
        <4>1. x \in DOMAIN h /\ g[x].next = h[x].next /\ g[x].size = h[x].size
          BY <1>3, <1>7, <1>8, <3>4
        <4>2. n <= x \/ x + h[x].size <= n
          <5>1. /\ b <= x \/ x + h[x].size <= b
                /\ x <= b \/ b + h[b].size <= x
            BY <4>1 DEF WF, Tiling
          <5>2. x \in Nat /\ h[x].size \in Nat
            BY <4>1, BlockInHeap
          <5> QED BY <1>1, <3>4, <5>1, <5>2, HeapAssumption
        <4> QED BY <1>3, <4>1, <4>2 DEF WF, Tiling
      <3> QED BY <3>2, <3>3, <3>4
    <2> QED BY <2>1 DEF Tiling
  <1>11. Linked(g)
    <2>1. g[heap_head].prev = NULL
      <3>1. heap_head # m
        BY <1>1, <1>2 DEF heap_head, NULL
      <3>2. heap_head \in DOMAIN g
        BY <1>9 DEF Typed
      <3>3. h[heap_head].prev = NULL
        BY DEF WF, Linked
      <3> QED BY <1>1, <1>5, <1>8, <3>1, <3>2, <3>3
    <2>2. ASSUME NEW x \in DOMAIN g, g[x].next # NULL
          PROVE  g[g[x].next].prev = x
      <3>1. CASE x = b
        BY <1>5, <1>6, <3>1
      <3>2. CASE x = n
        BY <1>1, <1>2, <1>3, <1>6, <1>7, <2>2, <3>2
      <3>3. CASE x # b /\ x # n
        <4>1. g[x].next = h[x].next /\ x \in DOMAIN h
          BY <1>3, <1>7, <1>8, <3>3
        <4>2. h[x].next \in DOMAIN h /\ h[h[x].next].prev = x
          BY <2>2, <4>1 DEF WF, Linked, Typed, Header
        <4>3. h[x].next # m
          BY <1>2, <2>2, <3>3, <4>1, <4>2 DEF WF, Linked
        <4>4. h[x].next # n
          BY <1>1, <4>2
        <4>5. CASE h[x].next = b
          BY <1>5, <4>1, <4>2, <4>5
        <4>6. CASE h[x].next # b
          BY <1>3, <1>8, <4>1, <4>2, <4>3, <4>4, <4>6
        <4> QED BY <4>5, <4>6
      <3> QED BY <3>1, <3>2, <3>3
    <2>3. ASSUME NEW x \in DOMAIN g \ {heap_head}
          PROVE  g[x].prev # NULL /\ g[g[x].prev].next = x
      <3>1. CASE x = n
        BY <1>1, <1>5, <1>6, <3>1 DEF NULL
      <3>2. CASE x # n
        <4>1. /\ x \in DOMAIN h
              /\ h[x].prev # NULL /\ h[x].prev \in DOMAIN h
              /\ h[h[x].prev].next = x
          BY <1>3, <2>3, <3>2 DEF WF, Linked, Typed, Header
        <4>2. CASE x # b /\ x = m
          BY <1>1, <1>6, <1>7, <2>3, <3>2, <4>2 DEF NULL
        <4>3. CASE x = b \/ x # m
          <5>1. g[x].prev = h[x].prev
            BY <1>5, <1>8, <2>3, <3>2, <4>3
          <5>2. h[x].prev # b /\ h[x].prev # n /\ h[x].prev \in DOMAIN g
            BY <1>1, <1>2, <1>3, <4>1, <4>3
          <5>3. g[h[x].prev].next = h[h[x].prev].next
            BY <1>7, <1>8, <5>2
          <5> QED BY <4>1, <5>1, <5>3
        <4> QED BY <4>2, <4>3
      <3> QED BY <3>1, <3>2
    <2> QED BY <2>1, <2>2, <2>3 DEF Linked
  <1>12. \A x \in DOMAIN h \ {b} : /\ g[x].size = h[x].size
                                   /\ g[x].next = h[x].next
                                   /\ g[x].is_alloc = h[x].is_alloc
    BY <1>1, <1>3, <1>7, <1>8
  <1>13. SplitPost(h, b, t, g)
    <2> HIDE DEF g
    <2> QED BY <1>1, <1>3, <1>5, <1>6, <1>9, <1>10, <1>11, <1>12 DEF WF, SplitPost
  <1> QED BY <1>13

(* Marking a block changes nothing but its flag.                           *)
LEMMA MarkWF ==
    ASSUME NEW h, WF(h), NEW b \in DOMAIN h, NEW a \in BOOLEAN
    PROVE  MarkPost(h, b, a, Mark(h, b, a))
  <1> DEFINE g == Mark(h, b, a)
             U == Hdr + 1 .. HeapSize
             T == DOMAIN h \cup {NULL}
  <1>1. DOMAIN g = DOMAIN h
    BY DEF Mark, WF, Typed
  <1>2. \A x \in DOMAIN h \ {b} : g[x] = h[x]
    BY DEF Mark, WF, Typed
  <1>3. \A x \in DOMAIN h : h[x] \in Header(U, T)
    BY DEF WF, Typed
  <1>4. /\ g[b] \in Header(U, T)
        /\ g[b].size = h[b].size /\ g[b].next = h[b].next
        /\ g[b].prev = h[b].prev /\ g[b].is_alloc = a
    <2>1. g[b] = [h[b] EXCEPT !.is_alloc = a]
      BY DEF Mark, WF, Typed
    <2> HIDE DEF g, U, T
    <2> QED BY <1>3, <2>1 DEF Header
  <1>5. \A x \in DOMAIN h : /\ g[x] \in Header(U, T)
                            /\ g[x].size = h[x].size
                            /\ g[x].next = h[x].next
                            /\ g[x].prev = h[x].prev
    BY <1>2, <1>3, <1>4
  <1>6. Typed(g)
    BY <1>1, <1>5 DEF Mark, Typed, WF
  <1>7. Tiling(g)
    BY <1>1, <1>5 DEF WF, Tiling
  <1>8. Linked(g)
    <2>1. \A x \in DOMAIN h : /\ h[x].next # NULL => h[x].next \in DOMAIN h
                              /\ h[x].prev # NULL => h[x].prev \in DOMAIN h
      BY DEF WF, Typed, Header
    <2>2. heap_head \in DOMAIN h
      BY DEF WF, Typed
    <2> QED BY <1>1, <1>5, <2>1, <2>2 DEF WF, Linked
  <1>9. MarkPost(h, b, a, g)
    <2> HIDE DEF g
    <2> QED BY <1>1, <1>2, <1>4, <1>5, <1>6, <1>7, <1>8 DEF WF, MarkPost
  <1> QED BY <1>9
-----------------------------------------------------------------------------
(* From list h to list g, no allocated block is lost, resized or added.    *)
SameAllocs(h, g) ==
    /\ \A x \in DOMAIN h : h[x].is_alloc => /\ x \in DOMAIN g
                                            /\ g[x].is_alloc
                                            /\ g[x].size = h[x].size
    /\ \A x \in DOMAIN g : x \in DOMAIN h /\ (g[x].is_alloc => h[x].is_alloc)

(* Two neighbours of h are both free only if one of them is b.             *)
CoalescedBut(h, b) ==
    \A x \in DOMAIN h :
        h[x].next # NULL /\ x # b /\ h[x].next # b
            => h[x].is_alloc \/ h[h[x].next].is_alloc

(* After the first merge of heap_free, only the block before b may still   *)
(* be a free neighbour of the free block b.                                *)
LEMMA MergeNextOK ==
    ASSUME NEW h, WF(h), NEW b \in DOMAIN h, ~h[b].is_alloc, CoalescedBut(h, b),
           NEW g, g = MergeNext(h, b)
    PROVE  /\ WF(g)
           /\ b \in DOMAIN g
           /\ ~g[b].is_alloc
           /\ SameAllocs(h, g)
           /\ CoalescedBut(g, b)
           /\ g[b].next # NULL => g[g[b].next].is_alloc
  <1>1. CASE h[b].next # NULL /\ ~h[h[b].next].is_alloc
    <2> DEFINE n == h[b].next
    <2>1. g = Absorb(h, b, n)
      BY <1>1 DEF MergeNext
    <2>2. /\ WF(g) /\ DOMAIN g = DOMAIN h \ {n} /\ b # n /\ n \in DOMAIN h
          /\ g[b].next = h[n].next /\ g[b].is_alloc = h[b].is_alloc
          /\ \A x \in DOMAIN g \ {b} : /\ g[x].size = h[x].size
                                       /\ g[x].next = h[x].next
                                       /\ g[x].is_alloc = h[x].is_alloc
      <3>1. AbsorbPost(h, b, Absorb(h, b, h[b].next))
        BY <1>1, AbsorbWF
      <3> QED BY <2>1, <3>1 DEF AbsorbPost
    <2>3. SameAllocs(h, g)
      BY <1>1, <2>2 DEF SameAllocs
    <2>4. \A x \in DOMAIN g : g[x].next # NULL => g[x].next \in DOMAIN g
      BY <2>2 DEF WF, Typed, Header
    <2>5. CoalescedBut(g, b)
      BY <2>2, <2>4 DEF CoalescedBut
    <2>6. g[b].next # NULL => g[g[b].next].is_alloc
      <3> SUFFICES ASSUME g[b].next # NULL PROVE g[g[b].next].is_alloc
        OBVIOUS
      <3>1. g[b].next \in DOMAIN g /\ g[b].next # b
        BY <2>2, <2>4, BlockInHeap, HeapAssumption DEF WF, Tiling
      <3>2. h[n].next # b
        BY <2>2, <3>1
      <3>3. h[h[n].next].is_alloc
        BY <1>1, <2>2, <3>2 DEF CoalescedBut
      <3> QED BY <2>2, <3>1, <3>3
    <2> QED BY <2>2, <2>3, <2>5, <2>6
  <1>2. CASE ~(h[b].next # NULL /\ ~h[h[b].next].is_alloc)
    BY <1>2 DEF MergeNext, SameAllocs
  <1> QED BY <1>1, <1>2

(* The second merge of heap_free leaves no two free neighbours.            *)
LEMMA MergePrevOK ==
    ASSUME NEW h, WF(h), NEW b \in DOMAIN h, ~h[b].is_alloc, CoalescedBut(h, b),
           h[b].next # NULL => h[h[b].next].is_alloc,
           NEW g, g = MergePrev(h, b)
    PROVE  /\ WF(g)
           /\ SameAllocs(h, g)
           /\ Coalesced(g)
  <1> DEFINE p == h[b].prev
  <1>1. /\ p # NULL => p \in DOMAIN h /\ h[p].next = b
        /\ \A x \in DOMAIN h : h[x].next = b => x = p /\ p # NULL
    BY BlockInHeap, HeapAssumption DEF WF, Typed, Linked, Header, NULL, heap_head
  <1>2. CASE p # NULL /\ ~h[p].is_alloc
    <2>1. b # NULL
      BY BlockInHeap DEF NULL
    <2>2. g = Absorb(h, p, h[p].next)
      BY <1>1, <1>2 DEF MergePrev
    <2>3. /\ WF(g) /\ DOMAIN g = DOMAIN h \ {b} /\ p # b
          /\ g[p].next = h[b].next /\ g[p].is_alloc = h[p].is_alloc
          /\ \A x \in DOMAIN g \ {p} : /\ g[x].size = h[x].size
                                       /\ g[x].next = h[x].next
                                       /\ g[x].is_alloc = h[x].is_alloc
      <3>1. AbsorbPost(h, p, Absorb(h, p, h[p].next))
        BY <1>1, <1>2, <2>1, AbsorbWF
      <3> QED BY <1>1, <1>2, <2>2, <3>1 DEF AbsorbPost
    <2>4. SameAllocs(h, g)
      BY <1>1, <1>2, <2>3 DEF SameAllocs
    <2>5. \A x \in DOMAIN g : g[x].next # NULL => g[x].next \in DOMAIN g
      BY <2>3 DEF WF, Typed, Header
    <2>6. ASSUME NEW x \in DOMAIN g, g[x].next # NULL
          PROVE  g[x].is_alloc \/ g[g[x].next].is_alloc
      <3>1. CASE x = p
        <4>1. g[x].next \in DOMAIN g /\ g[x].next # p
          BY <2>3, <2>5, <2>6, <3>1, BlockInHeap, HeapAssumption DEF WF, Tiling
        <4> QED BY <2>3, <2>6, <3>1, <4>1
      <3>2. CASE x # p
        <4>1. /\ x \in DOMAIN h /\ x # b
              /\ h[x].next # NULL /\ h[x].next # b
              /\ g[x].next = h[x].next /\ g[x].is_alloc = h[x].is_alloc
          BY <1>1, <2>3, <2>6, <3>2
        <4>2. h[x].is_alloc \/ h[h[x].next].is_alloc
          BY <4>1 DEF CoalescedBut
        <4>3. h[x].next \in DOMAIN g /\ g[h[x].next].is_alloc = h[h[x].next].is_alloc
          BY <2>3, <2>5, <2>6, <4>1
        <4> QED BY <4>1, <4>2, <4>3
      <3> QED BY <3>1, <3>2
    <2> QED BY <2>3, <2>4, <2>6 DEF Coalesced
  <1>3. CASE ~(p # NULL /\ ~h[p].is_alloc)
    <2>1. g = h
      BY <1>3 DEF MergePrev
    <2>2. Coalesced(h)
      BY <1>1, <1>3 DEF Coalesced, CoalescedBut
    <2> QED BY <2>1, <2>2 DEF SameAllocs
  <1> QED BY <1>2, <1>3
-----------------------------------------------------------------------------
LEMMA InitIInv == Init => IInv
  <1> SUFFICES ASSUME Init PROVE IInv
    OBVIOUS
  <1>1. /\ Blocks = {heap_head}
        /\ blk[heap_head] = [size |-> HeapSize, is_alloc |-> FALSE,
                             next |-> NULL, prev |-> NULL]
        /\ blk = [b \in DOMAIN blk |-> blk[b]]
    BY DEF Init, heap_init, Blocks
  <1>2. blk[heap_head] \in Header(Hdr + 1 .. HeapSize, Blocks \cup {NULL})
    BY <1>1, HeapAssumption DEF Header
  <1>3. Typed(blk)
    <2>1. heap_head \in 0 .. HeapSize - 1
      BY HeapAssumption DEF heap_head
    <2>2. \A b \in DOMAIN blk : blk[b] \in Header(Hdr + 1 .. HeapSize, Blocks \cup {NULL})
      BY <1>1, <1>2 DEF Blocks
    <2> QED BY <1>1, <2>1, <2>2 DEF Typed, Blocks
  <1>4. Tiling(blk) /\ Linked(blk) /\ Coalesced(blk) /\ NoLeak
    BY <1>1, HeapAssumption DEF Tiling, Linked, Coalesced, NoLeak, Blocks, heap_head
  <1>5. Backed /\ WalkOK /\ TypeOK
    BY <1>3 DEF Init, Backed, WalkOK, TypeOK
  <1> QED BY <1>4, <1>5 DEF IInv, WellFormed

(* The list part of the invariant, as the lemmas above state it.           *)
LEMMA IInvList == IInv => /\ WF(blk)
                          /\ Coalesced(blk)
                          /\ \A b \in Blocks : /\ b \in Nat
                                               /\ blk[b].size \in Nat
                                               /\ blk[b].size > Hdr
                                               /\ b + blk[b].size <= HeapSize
                                               /\ blk[b].is_alloc \in BOOLEAN
                                               /\ blk[b].next \in Blocks \cup {NULL}
  <1> HAVE IInv
  <1>1. WF(blk)
    BY DEF IInv, WellFormed, WF, TypeOK
  <1>2. \A b \in Blocks : /\ blk[b].is_alloc \in BOOLEAN
                          /\ blk[b].next \in Blocks \cup {NULL}
    BY <1>1 DEF WF, Typed, Header, Blocks
  <1> QED BY <1>1, <1>2, BlockInHeap DEF IInv, Blocks

(* heap_alloc's walk: entering it, passing a block over, finding nothing.  *)
LEMMA WalkIInv ==
    ASSUME IInv, (\E n \in Requests : AllocEnter(n)) \/ AllocSkip \/ AllocFail
    PROVE  IInv'
  <1>1. /\ WF(blk)
        /\ \A b \in Blocks : /\ b \in Nat
                             /\ blk[b].size \in Nat
                             /\ blk[b].size > Hdr
                             /\ b + blk[b].size <= HeapSize
                             /\ blk[b].next \in Blocks \cup {NULL}
    BY IInvList
  <1>2. blk' = blk /\ owned' = owned
    BY DEF AllocEnter, AllocSkip, AllocFail
  <1>3. TypeOK'
    <2>1. CASE \E n \in Requests : AllocEnter(n)
      <3>1. PICK n \in Requests : AllocEnter(n)
        BY <2>1
      <3>2. total' = n + Hdr /\ n + Hdr # 0 /\ current' = heap_head
        BY <3>1, HeapAssumption DEF AllocEnter
      <3>3. heap_head \in Blocks
        BY <1>1 DEF WF, Typed, Blocks
      <3> QED BY <1>1, <1>2, <3>2, <3>3 DEF IInv, TypeOK, Blocks, WF
    <2>2. CASE AllocSkip
      BY <1>1, <1>2, <2>2 DEF AllocSkip, IInv, TypeOK, Blocks
    <2>3. CASE AllocFail
      BY <1>2, <2>3 DEF AllocFail, IInv, TypeOK, Blocks
    <2> QED BY <2>1, <2>2, <2>3
  <1>4. WalkOK'
    <2>1. CASE \E n \in Requests : AllocEnter(n)
      BY <1>1, <1>2, <2>1 DEF AllocEnter, WalkOK, Blocks, heap_head, NULL
    <2>2. CASE AllocSkip
      <3> SUFFICES ASSUME NEW b \in Blocks, current' = NULL \/ b < current'
                   PROVE  blk[b].is_alloc \/ blk[b].size < total
        BY <1>2, <2>2 DEF AllocSkip, WalkOK, Blocks
      <3>1. /\ current \in Blocks /\ total \in Nat /\ ~Fits(current)
            /\ current' = blk[current].next
        BY <2>2, HeapAssumption DEF AllocSkip, IInv, TypeOK
      <3>2. b < current \/ b = current
        <4>1. b <= current \/ current + blk[current].size <= b
          BY <1>1, <3>1 DEF WF, Tiling, Blocks
        <4>2. ~(current + blk[current].size <= b)
          BY <1>1, <3>1, HeapAssumption DEF WF, Tiling, Blocks
        <4> QED BY <1>1, <3>1, <4>1, <4>2
      <3>3. CASE b < current
        BY <2>2, <3>3 DEF AllocSkip, IInv, WalkOK
      <3>4. CASE b = current
        BY <1>1, <3>1, <3>4 DEF Fits
      <3> QED BY <3>2, <3>3, <3>4
    <2>3. CASE AllocFail
      BY <2>3 DEF AllocFail, WalkOK
    <2> QED BY <2>1, <2>2, <2>3
  <1> QED BY <1>2, <1>3, <1>4 DEF IInv, WellFormed, Backed, NoLeak, Blocks

(* heap_alloc taking a block, whole or cut.                                *)
LEMMA TakeIInv ==
    ASSUME IInv, AllocTake
    PROVE  IInv'
  <1> DEFINE h == IF Splits(current) THEN Split(blk, current, total) ELSE blk
             p == current + Hdr
  <1>1. /\ WF(blk)
        /\ Coalesced(blk)
        /\ \A b \in Blocks : /\ b \in Nat
                             /\ blk[b].size \in Nat
                             /\ blk[b].next \in Blocks \cup {NULL}
                             /\ b + blk[b].size <= HeapSize
                             /\ blk[b].size > Hdr
    BY IInvList
  <1>2. /\ current \in Blocks /\ current \in Nat
        /\ ~blk[current].is_alloc /\ blk[current].size >= total
        /\ total \in Nat /\ total > Hdr /\ total - Hdr \in Requests
        /\ blk' = Mark(h, current, TRUE)
        /\ total' = 0 /\ current' = NULL
        /\ owned' = [q \in DOMAIN owned \cup {p} |->
                        IF q = p THEN total - Hdr ELSE owned[q]]
    BY <1>1, HeapAssumption DEF AllocTake, Fits, IInv, TypeOK
  <1>3. /\ WF(h) /\ current \in DOMAIN h /\ Blocks \subseteq DOMAIN h
        /\ h[current].size >= total
        /\ \A x \in Blocks \ {current} : /\ h[x].size = blk[x].size
                                         /\ h[x].is_alloc = blk[x].is_alloc
        /\ \A x \in DOMAIN h : h[x].is_alloc => x \in Blocks
        /\ CoalescedBut(h, current)
    <2>1. CASE Splits(current)
      <3>1. SplitPost(blk, current, total, h)
        BY <1>1, <1>2, <2>1, SplitWF DEF Splits, Blocks
      <3>2. CoalescedBut(h, current)
        <4>1. ASSUME NEW x \in DOMAIN h, h[x].next # NULL, x # current,
                     h[x].next # current
              PROVE  h[x].is_alloc \/ h[h[x].next].is_alloc
          <5>1. CASE x = current + total
            <6>1. h[x].next = blk[current].next
              BY <3>1, <5>1 DEF SplitPost
            <6>2. blk[blk[current].next].is_alloc
              BY <1>1, <1>2, <4>1, <6>1 DEF Coalesced, Blocks
            <6> QED BY <1>1, <1>2, <3>1, <4>1, <6>1, <6>2 DEF SplitPost, Blocks
          <5>2. CASE x # current + total
            <6>1. x \in Blocks /\ h[x].next = blk[x].next /\ h[x].is_alloc = blk[x].is_alloc
              BY <3>1, <4>1, <5>2 DEF SplitPost, Blocks
            <6>2. blk[x].next \in Blocks \ {current}
              BY <1>1, <4>1, <6>1
            <6> QED BY <1>1, <3>1, <4>1, <6>1, <6>2 DEF SplitPost, Coalesced, Blocks
          <5> QED BY <5>1, <5>2
        <4> QED BY <4>1 DEF CoalescedBut
      <3> HIDE DEF h
      <3> QED BY <1>2, <3>1, <3>2 DEF SplitPost, Blocks
    <2>2. CASE ~Splits(current)
      <3>1. h = blk
        BY <2>2
      <3> QED BY <1>1, <1>2, <3>1 DEF Blocks, Coalesced, CoalescedBut
    <2> QED BY <2>1, <2>2
  <1> HIDE DEF h
  <1>4. MarkPost(h, current, TRUE, blk')
    BY <1>2, <1>3, MarkWF
  <1>5. \A x \in DOMAIN h : h[x].next # NULL => h[x].next \in DOMAIN h
    BY <1>3 DEF WF, Typed, Header
  <1>6. WF(blk') /\ Coalesced(blk')
    <2>1. /\ WF(blk') /\ DOMAIN blk' = DOMAIN h
          /\ blk'[current].is_alloc
      BY <1>4 DEF MarkPost
    <2>2. \A x \in DOMAIN h : blk'[x].next = h[x].next
      BY <1>4 DEF MarkPost
    <2>3. \A x \in DOMAIN h \ {current} : blk'[x].is_alloc = h[x].is_alloc
      BY <1>4 DEF MarkPost
    <2>4. ASSUME NEW x \in DOMAIN h, h[x].next # NULL
          PROVE  blk'[x].is_alloc \/ blk'[h[x].next].is_alloc
      BY <1>3, <1>5, <2>1, <2>3, <2>4 DEF CoalescedBut
    <2> QED BY <2>1, <2>2, <2>4 DEF Coalesced
  <1>7. TypeOK'
    <2>1. p \in Nat
      BY <1>2, HeapAssumption
    <2>2. owned' \in [DOMAIN owned' -> Requests] /\ DOMAIN owned' \subseteq Nat
      BY <1>2, <2>1 DEF IInv, TypeOK
    <2> QED BY <1>2, <1>6, <2>2 DEF WF, TypeOK
  <1>8. Backed'
    <2>1. ASSUME NEW q \in DOMAIN owned'
          PROVE  /\ q - Hdr \in DOMAIN blk'
                 /\ blk'[q - Hdr].is_alloc
                 /\ blk'[q - Hdr].size >= owned'[q] + Hdr
      <3>1. CASE q = p
        <4>1. q - Hdr = current /\ owned'[q] = total - Hdr
          BY <1>2, <2>1, <3>1, HeapAssumption
        <4>2. /\ current \in DOMAIN blk' /\ blk'[current].is_alloc = TRUE
              /\ blk'[current].size >= total
          BY <1>3, <1>4 DEF MarkPost
        <4>3. (total - Hdr) + Hdr = total
          BY <1>2, HeapAssumption
        <4> HIDE DEF p
        <4> QED BY <4>1, <4>2, <4>3
      <3>2. CASE q # p
        <4>1. /\ q \in DOMAIN owned /\ owned'[q] = owned[q]
              /\ q - Hdr \in Blocks
              /\ blk[q - Hdr].is_alloc
              /\ blk[q - Hdr].size >= owned[q] + Hdr
          BY <1>2, <2>1, <3>2 DEF IInv, Backed, get_header
        <4> QED BY <1>2, <1>3, <1>4, <4>1 DEF MarkPost
      <3> QED BY <3>1, <3>2
    <2> QED BY <2>1 DEF Backed, get_header, Blocks
  <1>9. NoLeak'
    BY <1>2, <1>3, <1>4 DEF MarkPost, NoLeak, IInv, Blocks
  <1>10. WalkOK'
    BY <1>2 DEF WalkOK
  <1> QED BY <1>6, <1>7, <1>8, <1>9, <1>10 DEF IInv, WellFormed, WF

(* heap_free with its two merges.                                          *)
LEMMA FreeIInv ==
    ASSUME IInv, NEW p \in DOMAIN owned, Free(p)
    PROVE  IInv'
  <1> DEFINE b == get_header(p)
             h1 == Mark(blk, b, FALSE)
             h2 == MergeNext(h1, b)
  <1>1. /\ WF(blk) /\ Coalesced(blk)
        /\ \A x \in Blocks : blk[x].next \in Blocks \cup {NULL}
    BY IInvList
  <1>2. /\ b \in DOMAIN blk /\ blk[b].is_alloc
        /\ blk' = MergePrev(h2, b)
        /\ owned' = [q \in DOMAIN owned \ {p} |-> owned[q]]
        /\ total = 0 /\ total' = total /\ current' = current
    BY DEF Free, IInv, Backed, Blocks
  <1>3. MarkPost(blk, b, FALSE, h1)
    BY <1>1, <1>2, MarkWF
  <1> HIDE DEF b, h1
  <1>4. WF(h1) /\ b \in DOMAIN h1 /\ ~h1[b].is_alloc /\ CoalescedBut(h1, b)
    BY <1>1, <1>2, <1>3 DEF MarkPost, Coalesced, CoalescedBut, Blocks
  <1>5. /\ WF(h2) /\ b \in DOMAIN h2 /\ ~h2[b].is_alloc
        /\ SameAllocs(h1, h2)
        /\ CoalescedBut(h2, b)
        /\ h2[b].next # NULL => h2[h2[b].next].is_alloc
    BY <1>4, MergeNextOK
  <1> HIDE DEF h2
  <1>6. WF(blk') /\ SameAllocs(h2, blk') /\ Coalesced(blk')
    BY <1>2, <1>5, MergePrevOK
  <1>7. /\ \A x \in DOMAIN blk : blk[x].is_alloc /\ x # b =>
               x \in DOMAIN blk' /\ blk'[x].is_alloc /\ blk'[x].size = blk[x].size
        /\ \A x \in DOMAIN blk' : blk'[x].is_alloc => /\ x \in DOMAIN blk
                                                     /\ blk[x].is_alloc
                                                     /\ x # b
    BY <1>3, <1>4, <1>5, <1>6 DEF MarkPost, SameAllocs
  <1>8. TypeOK'
    <2>1. current = NULL
      BY <1>2 DEF IInv, TypeOK
    <2> QED BY <1>2, <1>6, <2>1 DEF WF, TypeOK, IInv
  <1>9. Backed'
    <2>1. ASSUME NEW q \in DOMAIN owned'
          PROVE  /\ q - Hdr \in DOMAIN blk'
                 /\ blk'[q - Hdr].is_alloc
                 /\ blk'[q - Hdr].size >= owned'[q] + Hdr
      <3>1. q \in DOMAIN owned /\ q # p /\ owned'[q] = owned[q]
        BY <1>2, <2>1
      <3>2. /\ q - Hdr \in DOMAIN blk /\ blk[q - Hdr].is_alloc
            /\ blk[q - Hdr].size >= owned[q] + Hdr
            /\ p - Hdr \in DOMAIN blk /\ q - Hdr \in Int /\ p - Hdr \in Int
        BY <3>1, <1>1, BlockInHeap DEF IInv, Backed, get_header, Blocks
      <3>3. q - Hdr # b
        <4>1. p \in Nat /\ q \in Nat
          BY <3>1 DEF IInv, TypeOK
        <4> QED BY <3>1, <4>1, HeapAssumption DEF b, get_header
      <3> QED BY <1>7, <3>1, <3>2, <3>3
    <2> QED BY <2>1 DEF Backed, get_header, Blocks
  <1>10. NoLeak'
    <2>1. ASSUME NEW x \in DOMAIN blk', blk'[x].is_alloc
          PROVE  x + Hdr \in DOMAIN owned'
      <3>1. x \in DOMAIN blk /\ blk[x].is_alloc /\ x # b
        BY <1>7, <2>1
      <3>2. x + Hdr \in DOMAIN owned
        BY <3>1 DEF IInv, NoLeak, Blocks
      <3>3. x + Hdr # p
        BY <1>1, <3>1, BlockInHeap, HeapAssumption DEF b, get_header
      <3> QED BY <1>2, <3>2, <3>3
    <2> QED BY <2>1 DEF NoLeak, Blocks
  <1>11. WalkOK'
    BY <1>2 DEF WalkOK
  <1> QED BY <1>6, <1>8, <1>9, <1>10, <1>11 DEF IInv, WellFormed, WF

(* No step of the heap breaks the invariant.                               *)
LEMMA NextIInv == IInv /\ [Next]_vars => IInv'
  <1> SUFFICES ASSUME IInv, [Next]_vars PROVE IInv'
    OBVIOUS
  <1>1. CASE \E n \in Requests : AllocEnter(n)
    BY <1>1, WalkIInv
  <1>2. CASE AllocSkip
    BY <1>2, WalkIInv
  <1>3. CASE AllocTake
    BY <1>3, TakeIInv
  <1>4. CASE AllocFail
    BY <1>4, WalkIInv
  <1>5. CASE \E p \in DOMAIN owned : Free(p)
    BY <1>5, FreeIInv
  <1>6. CASE UNCHANGED vars
    BY <1>6 DEF vars, IInv, TypeOK, WellFormed, Backed, NoLeak, WalkOK, Blocks
  <1> QED BY <1>1, <1>2, <1>3, <1>4, <1>5, <1>6 DEF Next

(* What callers hold lies inside the array and apart from all else.        *)
LEMMA IInvDisjoint == IInv => PayloadsDisjoint
  <1> SUFFICES ASSUME IInv, NEW p \in DOMAIN owned
               PROVE  /\ p + owned[p] <= HeapSize
                      /\ \A b \in Blocks : b + Hdr <= p \/ p + owned[p] <= b
    BY DEF PayloadsDisjoint
  <1> DEFINE a == p - Hdr
  <1>1. /\ a \in Blocks /\ blk[a].size >= owned[p] + Hdr
        /\ p \in Nat /\ owned[p] \in Nat
    BY HeapAssumption DEF IInv, Backed, TypeOK, get_header
  <1>2. /\ \A b \in Blocks : b \in Nat
        /\ blk[a].size \in Nat /\ a + blk[a].size <= HeapSize
    BY <1>1, IInvList
  <1>3. \A b \in Blocks : b <= a \/ a + blk[a].size <= b
    BY <1>1, IInvList DEF WF, Tiling, Blocks
  <1> QED BY <1>1, <1>2, <1>3, HeapAssumption

(* With nothing owned no block is allocated, no two free blocks are        *)
(* neighbours, and so the first block is the last.                         *)
LEMMA IInvOneBlock == IInv => AllFreedIsOneBlock
  <1> SUFFICES ASSUME IInv, DOMAIN owned = {}
               PROVE  Blocks = {heap_head} /\ blk[heap_head].size = HeapSize
    BY DEF AllFreedIsOneBlock
  <1>1. \A b \in Blocks : ~blk[b].is_alloc
    BY DEF IInv, NoLeak
  <1>2. \A b \in Blocks : blk[b].next = NULL
    BY <1>1, IInvList DEF Coalesced, Blocks
  <1>3. heap_head \in Blocks
    BY IInvList DEF WF, Typed, Blocks
  <1>4. ASSUME NEW b \in Blocks, b # heap_head PROVE FALSE
    <2>1. blk[b].prev # NULL /\ blk[blk[b].prev].next = b
      BY <1>4, IInvList DEF WF, Linked, Blocks
    <2>2. blk[b].prev \in Blocks
      BY <1>4, <2>1, IInvList DEF WF, Typed, Header, Blocks
    <2>3. b \in Nat
      BY <1>4, IInvList
    <2>4. b = NULL
      BY <1>2, <2>1, <2>2
    <2> QED BY <2>3, <2>4 DEF NULL
  <1>5. heap_head + blk[heap_head].size = HeapSize
    BY <1>2, <1>3, IInvList DEF WF, Tiling, Blocks
  <1> QED BY <1>3, <1>4, <1>5, IInvList DEF heap_head
-----------------------------------------------------------------------------
(* The invariant holds throughout, for every array size, header size and   *)
(* sequence of heap_alloc and heap_free calls.                             *)
THEOREM HeapInvariant == Spec => []IInv
  BY InitIInv, NextIInv, PTL DEF Spec

(* Headers, the walk's cursor and the callers' pointers keep their types,  *)
(* and every block has room for a payload.                                 *)
THEOREM TypeCorrect == Spec => []TypeOK
  <1>1. IInv => TypeOK
    BY DEF IInv
  <1> QED BY <1>1, HeapInvariant, PTL

(* Splits and merges always leave a list that tiles the array and can be   *)
(* walked both ways.                                                       *)
THEOREM ListWellFormed == Spec => []WellFormed
  <1>1. IInv => WellFormed
    BY DEF IInv
  <1> QED BY <1>1, HeapInvariant, PTL

(* Live allocations never overlap each other or a header.                  *)
THEOREM AllocationsDisjoint == Spec => []PayloadsDisjoint
  BY IInvDisjoint, HeapInvariant, PTL

(* heap_free, applied in any order to everything allocated, restores the   *)
(* single block heap_init made.                                            *)
THEOREM NoFragmentation == Spec => []AllFreedIsOneBlock
  BY IInvOneBlock, HeapInvariant, PTL

(* heap_alloc fails only when no free block holds the request.             *)
THEOREM FirstFit == Spec => []WalkOK
  <1>1. IInv => WalkOK
    BY DEF IInv
  <1> QED BY <1>1, HeapInvariant, PTL
=============================================================================
