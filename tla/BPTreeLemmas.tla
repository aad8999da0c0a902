---------------------------- MODULE BPTreeLemmas ----------------------------
(***************************************************************************)
(* What the proofs about BPTree rest on.  The inductive invariant says of  *)
(* the heap what the model's properties say by walking the tree, without a *)
(* walk: it is stated of the set T of the nodes in the tree, their heights *)
(* h and the sets E of the entries below each of them.  This module has    *)
(* the invariant, what follows from it, and what the changes the           *)
(* operations are made of do to a tree: an entry more or less, entries and *)
(* children that change sides, a node that is split, merged or lost, a     *)
(* root that grows or shrinks.                                             *)
(***************************************************************************)
EXTENDS BPTree, FiniteSetTheorems, SequenceTheorems, WellFoundedInduction, TLAPS

(* What the entries and the nodes are.                                     *)
Entry == [fnv : Nat, djb : Nat, data : Values]
Node == [leaf : BOOLEAN, item : Seq(Entry), key : Seq(Nat), child : Seq(Nat),
         parent : Nat, next : Nat]

(* The nodes that are allocated, those that were lost included.            *)
Heap(t) ==
    /\ IsFiniteSet(DOMAIN t)
    /\ root \in DOMAIN t
    /\ DOMAIN t \subseteq Pool \cup {root}
    /\ t \in [DOMAIN t -> Node]

(* All entries of A are less than all of B.                                *)
Less(A, B) == \A x \in A, y \in B : x.fnv < y.fnv

(* A list of sets of entries in ascending order, and all their entries.    *)
Row(L) == /\ \A i \in 1 .. Len(L) : L[i] # {}
          /\ \A i, j \in 1 .. Len(L) : i < j => Less(L[i], L[j])
Whole(L) == UNION {L[i] : i \in 1 .. Len(L)}

(* What a node consists of: each entry of a leaf, the entries below each   *)
(* child of an inner node.                                                 *)
Each(s) == [i \in 1 .. Len(s) |-> {s[i]}]
Under(E, s) == [i \in 1 .. Len(s) |-> E[s[i]]]
Parts(t, E, a) == IF t[a].leaf THEN Each(t[a].item) ELSE Under(E, t[a].child)

(* Node a is part of a tree: its children are one level below it and point *)
(* back to it, and what is below it is in order.                           *)
Kind(t, h, a) ==
    /\ t[a].leaf => h[a] = 0 /\ t[a].child = <<>>
    /\ ~t[a].leaf => h[a] # 0 /\ t[a].item = <<>> /\ t[a].child # <<>>
Downward(t, T, h, a) ==
    \A i \in 1 .. Len(t[a].child) :
        /\ t[a].child[i] \in T
        /\ h[t[a].child[i]] + 1 = h[a]
        /\ t[t[a].child[i]].parent = a
Upward(t, T, h, a) ==
    /\ a = root => t[a].parent = NULL
    /\ a # root => /\ h[a] < h[root]
                   /\ t[a].parent \in T
                   /\ \E i \in 1 .. Len(t[t[a].parent].child) : t[t[a].parent].child[i] = a
Ordered(t, E, a) == Row(Parts(t, E, a)) /\ E[a] = Whole(Parts(t, E, a))

Sound(t, T, h, E, a) == Kind(t, h, a) /\ Downward(t, T, h, a) /\ Ordered(t, E, a)

Shape(t, T, h, E) ==
    /\ T \subseteq DOMAIN t /\ root \in T
    /\ h \in [T -> Nat] /\ E \in [T -> SUBSET Entry]
    /\ \A a \in T : Sound(t, T, h, E, a) /\ Upward(t, T, h, a)

(* The keys of an inner node part what is below its children.              *)
KeyedAt(t, E, a) ==
    /\ Len(t[a].key) + 1 = Len(t[a].child)
    /\ \A i \in 1 .. Len(t[a].key) :
          /\ \A x \in E[t[a].child[i]] : x.fnv < t[a].key[i]
          /\ \A x \in E[t[a].child[i + 1]] : t[a].key[i] <= x.fnv
Keyed(t, T, E) == \A a \in T : ~t[a].leaf => KeyedAt(t, E, a)

(* Between an insertion's splits and a deletion's merges a node of X is    *)
(* out of bounds.                                                          *)
SizedAt(t, a) ==
    /\ t[a].leaf => /\ Len(t[a].item) < MAX_BPT_NODE_NUM
                    /\ a # root => Len(t[a].item) >= 2
    /\ ~t[a].leaf => Len(t[a].child) \in 2 .. MAX_BPT_NODE_NUM
Sized(t, T, X) == \A a \in T \ X : SizedAt(t, a)

(* A leaf is chained to the next one, to none if it is the last, or to one *)
(* that was lost.                                                          *)
LeavesOf(t, T) == {a \in T : t[a].leaf}
ChainedAt(t, T, E, a) ==
    /\ t[a].next \in DOMAIN t \cup {NULL}
    /\ t[a].next = NULL => \A b \in LeavesOf(t, T) \ {a} : Less(E[b], E[a])
    /\ t[a].next \in T =>
          /\ t[a].next \in LeavesOf(t, T) \ {a}
          /\ Less(E[a], E[t[a].next])
          /\ \A b \in LeavesOf(t, T) \ {a, t[a].next} : Less(E[b], E[a]) \/ Less(E[t[a].next], E[b])
Chained(t, T, E) == /\ \A a \in LeavesOf(t, T) : ChainedAt(t, T, E, a)
                    /\ \A a \in T : ~t[a].leaf => t[a].next = NULL

(* A tree in the heap.                                                     *)
Good(t, T, h, E, X) ==
    Heap(t) /\ Shape(t, T, h, E) /\ Keyed(t, T, E) /\ Sized(t, T, X) /\ Chained(t, T, E)

IInv ==
    /\ ret \in {0, 1} /\ cut_short \in BOOLEAN
    /\ \E T, h, E : Good(mem, T, h, E, {}) /\ (~cut_short => T = DOMAIN mem)
-----------------------------------------------------------------------------
NatLess == OpToRel(<, Nat)

(* A set of numbers has a least one.                                       *)
LEMMA LeastOf ==
    ASSUME NEW U, U \subseteq Nat, U # {}
    PROVE  \E x \in U : \A y \in U : x <= y
  <1>1. IsWellFoundedOn(NatLess, Nat)
    BY NatLessThanWellFounded DEF NatLess
  <1>2. PICK x \in U : \A y \in U : ~(<<y, x>> \in NatLess)
    BY <1>1, WFMin
  <1> SUFFICES ASSUME NEW y \in U PROVE x <= y
    BY <1>2
  <1>3. x \in Nat /\ y \in Nat
    OBVIOUS
  <1>4. y < x => <<y, x>> \in NatLess
    BY <1>3 DEF NatLess, OpToRel
  <1> QED
    BY <1>2, <1>3, <1>4

(* Induction over numbers, for a set instead of a predicate.               *)
LEMMA SetInduction ==
    ASSUME NEW T, 0 \in T, \A n \in Nat : n \in T => n + 1 \in T
    PROVE  \A n \in Nat : n \in T
  <1> SUFFICES ASSUME NEW k \in Nat, k \notin T PROVE FALSE
    OBVIOUS
  <1> DEFINE U == Nat \ T
  <1>1. U \subseteq Nat /\ U # {}
    OBVIOUS
  <1>2. PICK x \in U : \A y \in U : x <= y
    <2> HIDE DEF U
    <2> QED BY <1>1, LeastOf
  <1>3. x \in Nat /\ x # 0 /\ x - 1 \in Nat
    OBVIOUS
  <1>4. x - 1 \in U
    BY <1>3
  <1> QED
    BY <1>2, <1>3, <1>4

(* The least of a set of numbers.                                          *)
LEMMA MinOf ==
    ASSUME NEW S, S \subseteq Nat, S # {}
    PROVE  Min(S) \in S /\ \A y \in S : Min(S) <= y
  <1>1. \E x \in S : \A y \in S : x <= y
    BY LeastOf
  <1> QED BY <1>1, Zenon DEF Min
-----------------------------------------------------------------------------
(* The function that defines a loop of n rounds.                           *)
Rounding(g, f, x, n) == g = [m \in 0 .. n |-> IF m = 0 THEN x ELSE f[g[m - 1]]]

(* There is one, by induction over n.                                      *)
LEMMA RepeatedThere ==
    ASSUME NEW f, NEW x, NEW n \in Nat
    PROVE  \E g : Rounding(g, f, x, n)
  <1> DEFINE T == {i \in Nat : \E g : g = [m \in 0 .. i |->
                                              IF m = 0 THEN x ELSE f[g[m - 1]]]}
  <1>1. 0 \in T
    <2> DEFINE g == [m \in 0 .. 0 |-> x]
    <2>1. g = [m \in 0 .. 0 |-> IF m = 0 THEN x ELSE f[g[m - 1]]]
      OBVIOUS
    <2> QED BY <2>1
  <1>2. ASSUME NEW i \in Nat, i \in T PROVE i + 1 \in T
    <2>1. PICK g : g = [m \in 0 .. i |-> IF m = 0 THEN x ELSE f[g[m - 1]]]
      BY <1>2
    <2> DEFINE k == [m \in 0 .. i + 1 |-> IF m = 0 THEN x ELSE f[g[m - 1]]]
    <2>2. \A m \in 0 .. i : k[m] = g[m]
      BY <2>1
    <2>3. \A m \in 0 .. i + 1 : m = 0 \/ m - 1 \in 0 .. i
      OBVIOUS
    <2>4. \A m \in 0 .. i + 1 : k[m] = (IF m = 0 THEN x ELSE f[k[m - 1]])
      BY <2>2, <2>3
    <2>5. k = [m \in 0 .. i + 1 |-> IF m = 0 THEN x ELSE f[k[m - 1]]]
      <3> DEFINE l == [m \in 0 .. i + 1 |-> IF m = 0 THEN x ELSE f[k[m - 1]]]
      <3>1. \A m \in 0 .. i + 1 : l[m] = k[m]
        BY <2>4
      <3>2. DOMAIN l = 0 .. i + 1 /\ DOMAIN k = 0 .. i + 1
        OBVIOUS
      <3> QED BY <3>1, <3>2
    <2>6. \E l : l = [m \in 0 .. i + 1 |-> IF m = 0 THEN x ELSE f[l[m - 1]]]
      <3> HIDE DEF k
      <3> QED BY <2>5, Zenon
    <2>7. i + 1 \in Nat
      OBVIOUS
    <2> QED BY <2>6, <2>7, Zenon
  <1>3. n \in T
    <2> HIDE DEF T
    <2> QED BY <1>1, <1>2, SetInduction
  <1> QED BY <1>3, Zenon DEF Rounding

(* The loop as the function that defines it.                               *)
LEMMA RepeatedRun ==
    ASSUME NEW f, NEW x, NEW n \in Nat
    PROVE  \E g : /\ g[0] = x
                  /\ \A m \in 1 .. n : g[m] = f[g[m - 1]]
                  /\ g[n] = Repeated(f, x, n)
  <1> DEFINE g == CHOOSE g : g = [m \in 0 .. n |-> IF m = 0 THEN x ELSE f[g[m - 1]]]
  <1>1. g = [m \in 0 .. n |-> IF m = 0 THEN x ELSE f[g[m - 1]]]
    <2>1. \E k : Rounding(k, f, x, n)
      BY RepeatedThere
    <2>2. \E k : k = [m \in 0 .. n |-> IF m = 0 THEN x ELSE f[k[m - 1]]]
      BY <2>1, Zenon DEF Rounding
    <2> QED BY <2>2, Zenon
  <1>2. g[n] = Repeated(f, x, n)
    BY Zenon DEF Repeated
  <1> HIDE DEF g
  <1>3. \A m \in 0 .. n : g[m] = (IF m = 0 THEN x ELSE f[g[m - 1]])
    BY <1>1
  <1>4. 0 \in 0 .. n /\ 1 .. n \subseteq 0 .. n /\ 0 \notin 1 .. n
    OBVIOUS
  <1>5. g[0] = x /\ \A m \in 1 .. n : g[m] = f[g[m - 1]]
    BY <1>3, <1>4
  <1> QED BY <1>2, <1>5

(* One more round.                                                         *)
LEMMA RepeatedOf ==
    ASSUME NEW f, NEW x
    PROVE  /\ Repeated(f, x, 0) = x
           /\ \A n \in Nat : Repeated(f, x, n + 1) = f[Repeated(f, x, n)]
  <1>1. Repeated(f, x, 0) = x
    BY RepeatedRun
  <1>2. ASSUME NEW n \in Nat PROVE Repeated(f, x, n + 1) = f[Repeated(f, x, n)]
    <2>1. PICK g : g[0] = x /\ (\A m \in 1 .. n : g[m] = f[g[m - 1]]) /\ g[n] = Repeated(f, x, n)
      BY RepeatedRun
    <2>2. PICK k : /\ k[0] = x /\ (\A m \in 1 .. n + 1 : k[m] = f[k[m - 1]])
                   /\ k[n + 1] = Repeated(f, x, n + 1)
      <3>1. n + 1 \in Nat
        OBVIOUS
      <3> QED BY <3>1, RepeatedRun
    <2> DEFINE T == {m \in Nat : m <= n => g[m] = k[m]}
    <2>3. 0 \in T
      BY <2>1, <2>2
    <2>4. ASSUME NEW m \in Nat, m \in T PROVE m + 1 \in T
      <3> SUFFICES ASSUME m + 1 <= n PROVE g[m + 1] = k[m + 1]
        OBVIOUS
      <3>1. m + 1 \in 1 .. n /\ m + 1 \in 1 .. n + 1 /\ (m + 1) - 1 = m /\ m <= n
        OBVIOUS
      <3>2. g[m] = k[m]
        BY <2>4, <3>1
      <3>3. g[m + 1] = f[g[(m + 1) - 1]] /\ k[m + 1] = f[k[(m + 1) - 1]]
        BY <2>1, <2>2, <3>1
      <3> QED BY <3>1, <3>2, <3>3
    <2>5. n \in T
      <3> HIDE DEF T
      <3> QED BY <2>3, <2>4, SetInduction
    <2>6. n + 1 \in 1 .. n + 1 /\ (n + 1) - 1 = n
      OBVIOUS
    <2>7. k[n + 1] = f[k[(n + 1) - 1]]
      BY <2>2, <2>6
    <2> QED BY <2>1, <2>2, <2>5, <2>6, <2>7
  <1> QED BY <1>1, <1>2

(* What holds at the start and is kept by each round holds after each.     *)
LEMMA RepeatedInv ==
    ASSUME NEW f, NEW x, NEW R, <<0, x>> \in R,
           \A n \in Nat : \A y : <<n, y>> \in R => <<n + 1, f[y]>> \in R
    PROVE  \A n \in Nat : <<n, Repeated(f, x, n)>> \in R
  <1> DEFINE T == {n \in Nat : <<n, Repeated(f, x, n)>> \in R}
  <1>1. 0 \in T
    BY RepeatedOf
  <1>2. ASSUME NEW n \in Nat, n \in T PROVE n + 1 \in T
    BY <1>2, RepeatedOf
  <1>3. \A n \in Nat : n \in T
    <2> HIDE DEF T
    <2> QED BY <1>1, <1>2, SetInduction
  <1> QED BY <1>3

-----------------------------------------------------------------------------
(***************************************************************************)
(* Lists, and rows of sets of entries.                                     *)
(***************************************************************************)

(* Lists by their indices.                                                 *)
LEMMA SameList ==
    ASSUME NEW S, NEW s \in Seq(S), NEW r \in Seq(S), Len(s) = Len(r),
           \A i \in 1 .. Len(s) : s[i] = r[i]
    PROVE  s = r
  BY SeqEqual, SMTT(30)

(* Two lists, one after the other.                                         *)
LEMMA ConcatOf ==
    ASSUME NEW S, NEW s \in Seq(S), NEW r \in Seq(S)
    PROVE  /\ s \o r \in Seq(S) /\ Len(s \o r) = Len(s) + Len(r)
           /\ \A i \in 1 .. Len(s) : (s \o r)[i] = s[i]
           /\ \A i \in 1 .. Len(r) : (s \o r)[Len(s) + i] = r[i]
  OBVIOUS

(* The first n elements of a list, and the others.                         *)
LEMMA Slices ==
    ASSUME NEW S, NEW s \in Seq(S), NEW n \in 0 .. Len(s)
    PROVE  /\ SubSeq(s, 1, n) \in Seq(S) /\ Len(SubSeq(s, 1, n)) = n
           /\ \A i \in 1 .. n : SubSeq(s, 1, n)[i] = s[i]
           /\ SubSeq(s, n + 1, Len(s)) \in Seq(S) /\ Len(SubSeq(s, n + 1, Len(s))) = Len(s) - n
           /\ \A i \in 1 .. Len(s) - n : SubSeq(s, n + 1, Len(s))[i] = s[n + i]
  <1>1. SubSeq(s, 1, n) = [i \in 1 .. n |-> s[i]]
    OBVIOUS
  <1>2. SubSeq(s, n + 1, Len(s)) = [i \in 1 .. Len(s) - n |-> s[n + i]]
    OBVIOUS
  <1>3. Len(s) - n \in Nat /\ n \in Nat
    OBVIOUS
  <1>4. \A i \in 1 .. n : s[i] \in S
    OBVIOUS
  <1>5. \A i \in 1 .. Len(s) - n : s[n + i] \in S
    OBVIOUS
  <1>6. [i \in 1 .. n |-> s[i]] \in Seq(S) /\ Len([i \in 1 .. n |-> s[i]]) = n
    BY <1>3, <1>4
  <1>7. /\ [i \in 1 .. Len(s) - n |-> s[n + i]] \in Seq(S)
        /\ Len([i \in 1 .. Len(s) - n |-> s[n + i]]) = Len(s) - n
    BY <1>3, <1>5
  <1> QED BY <1>1, <1>2, <1>6, <1>7

(* A list is what comes before an element, the element, and what follows.  *)
LEMMA Parted ==
    ASSUME NEW S, NEW s \in Seq(S), NEW i \in 1 .. Len(s)
    PROVE  /\ SubSeq(s, 1, i - 1) \in Seq(S) /\ SubSeq(s, i + 1, Len(s)) \in Seq(S)
           /\ s = SubSeq(s, 1, i - 1) \o <<s[i]>> \o SubSeq(s, i + 1, Len(s))
  <1> DEFINE A == SubSeq(s, 1, i - 1)
             B == SubSeq(s, i + 1, Len(s))
  <1>1. /\ A \in Seq(S) /\ Len(A) = i - 1
        /\ \A j \in 1 .. i - 1 : A[j] = s[j]
    <2>1. i - 1 \in 0 .. Len(s)
      OBVIOUS
    <2> QED BY <2>1, Slices
  <1>2. /\ B \in Seq(S) /\ Len(B) = Len(s) - i
        /\ \A j \in 1 .. Len(s) - i : B[j] = s[i + j]
    <2>1. i \in 0 .. Len(s)
      OBVIOUS
    <2> QED BY <2>1, Slices
  <1> HIDE DEF A, B
  <1>3. s[i] \in S /\ <<s[i]>> \in Seq(S) /\ Len(<<s[i]>>) = 1
    OBVIOUS
  <1>4. A \o <<s[i]>> \o B \in Seq(S) /\ Len(A \o <<s[i]>> \o B) = Len(s)
    <2>1. A \o <<s[i]>> \in Seq(S) /\ Len(A \o <<s[i]>>) = (i - 1) + 1
      BY <1>1, <1>3
    <2>2. (i - 1) + 1 + (Len(s) - i) = Len(s)
      OBVIOUS
    <2>3. /\ (A \o <<s[i]>>) \o B \in Seq(S)
          /\ Len((A \o <<s[i]>>) \o B) = Len(A \o <<s[i]>>) + Len(B)
      BY <1>2, <2>1, ConcatOf
    <2> QED BY <1>2, <2>1, <2>2, <2>3
  <1>5. ASSUME NEW j \in 1 .. Len(s) PROVE (A \o <<s[i]>> \o B)[j] = s[j]
    <2>1. CASE j < i
      BY <1>1, <1>2, <1>3, <2>1
    <2>2. CASE j = i
      BY <1>1, <1>2, <1>3, <2>2
    <2>3. CASE j > i
      <3>1. j - i \in 1 .. Len(s) - i /\ i + (j - i) = j
        BY <2>3
      <3>2. (A \o <<s[i]>> \o B)[j] = B[j - i]
        BY <1>1, <1>2, <1>3, <2>3
      <3> QED BY <1>2, <3>1, <3>2
    <2>4. j < i \/ j = i \/ j > i
      OBVIOUS
    <2> QED BY <2>1, <2>2, <2>3, <2>4
  <1>6. A \o <<s[i]>> \o B = s
    BY <1>4, <1>5, SameList
  <1> QED BY <1>1, <1>2, <1>6 DEF A, B

(* A list with one element more, or one less.                              *)
Inserted(S, s, i, e, r) ==
    /\ r \in Seq(S) /\ Len(r) = Len(s) + 1
    /\ \A j \in 1 .. Len(r) : /\ j < i => r[j] = s[j]
                              /\ j = i => r[j] = e
                              /\ i < j => r[j] = s[j - 1]
(* The list r is s without what is at place i.                             *)
Removed(S, s, i, r) ==
    /\ r \in Seq(S) /\ Len(r) = Len(s) - 1
    /\ \A j \in 1 .. Len(r) : /\ j < i => r[j] = s[j]
                              /\ i <= j => r[j] = s[j + 1]

(* InsertAt puts e at place i.                                             *)
LEMMA InsertedList ==
    ASSUME NEW S, NEW s \in Seq(S), NEW i \in 1 .. Len(s) + 1, NEW e \in S,
           NEW r, r = InsertAt(s, i, e)
    PROVE  Inserted(S, s, i, e, r)
  <1> DEFINE A == SubSeq(s, 1, i - 1)
             B == SubSeq(s, i, Len(s))
  <1>1. /\ A \in Seq(S) /\ Len(A) = i - 1
        /\ \A j \in 1 .. i - 1 : A[j] = s[j]
    <2>1. i - 1 \in 0 .. Len(s)
      OBVIOUS
    <2> QED BY <2>1, Slices
  <1>2. /\ B \in Seq(S) /\ Len(B) = Len(s) - i + 1
        /\ \A j \in 1 .. Len(s) - i + 1 : B[j] = s[i + j - 1]
    <2>1. i - 1 \in 0 .. Len(s) /\ (i - 1) + 1 = i
      OBVIOUS
    <2>2. /\ SubSeq(s, (i - 1) + 1, Len(s)) \in Seq(S)
          /\ Len(SubSeq(s, (i - 1) + 1, Len(s))) = Len(s) - (i - 1)
          /\ \A j \in 1 .. Len(s) - (i - 1) : SubSeq(s, (i - 1) + 1, Len(s))[j] = s[(i - 1) + j]
      BY <2>1, Slices
    <2>3. Len(s) - (i - 1) = Len(s) - i + 1 /\ \A j \in 1 .. Len(s) - i + 1 : (i - 1) + j = i + j - 1
      OBVIOUS
    <2> QED BY <2>1, <2>2, <2>3
  <1> HIDE DEF A, B
  <1>3. r = A \o <<e>> \o B
    BY DEF InsertAt, A, B
  <1>4. A \o <<e>> \o B \in Seq(S) /\ Len(A \o <<e>> \o B) = Len(s) + 1
    BY <1>1, <1>2
  <1>5. \A j \in 1 .. i - 1 : (A \o <<e>> \o B)[j] = s[j]
    BY <1>1, <1>2
  <1>6. (A \o <<e>> \o B)[i] = e
    BY <1>1, <1>2
  <1>7. ASSUME NEW j \in i + 1 .. Len(s) + 1 PROVE (A \o <<e>> \o B)[j] = s[j - 1]
    <2>1. j - i \in 1 .. Len(s) - i + 1 /\ i + (j - i) - 1 = j - 1
      OBVIOUS
    <2>2. (A \o <<e>> \o B)[j] = B[j - i]
      BY <1>1, <1>2
    <2> QED BY <1>2, <2>1, <2>2
  <1>8. ASSUME NEW j \in 1 .. Len(r)
        PROVE  /\ j < i => r[j] = s[j]
               /\ j = i => r[j] = e
               /\ i < j => r[j] = s[j - 1]
    <2>1. Len(r) = Len(s) + 1
      BY <1>3, <1>4
    <2>2. ASSUME j < i PROVE r[j] = s[j]
      <3>1. j \in 1 .. i - 1
        BY <2>2
      <3> QED BY <1>3, <1>5, <3>1
    <2>3. ASSUME j = i PROVE r[j] = e
      BY <1>3, <1>6, <2>3
    <2>4. ASSUME i < j PROVE r[j] = s[j - 1]
      <3>1. j \in i + 1 .. Len(s) + 1
        BY <2>1, <2>4
      <3> QED BY <1>3, <1>7, <3>1
    <2> QED BY <2>2, <2>3, <2>4
  <1> QED BY <1>3, <1>4, <1>8 DEF Inserted

(* RemoveAt takes place i away.                                            *)
LEMMA RemovedList ==
    ASSUME NEW S, NEW s \in Seq(S), NEW i \in 1 .. Len(s), NEW r, r = RemoveAt(s, i)
    PROVE  Removed(S, s, i, r)
  <1> DEFINE A == SubSeq(s, 1, i - 1)
             B == SubSeq(s, i + 1, Len(s))
  <1>1. /\ A \in Seq(S) /\ Len(A) = i - 1
        /\ \A j \in 1 .. i - 1 : A[j] = s[j]
    <2>1. i - 1 \in 0 .. Len(s)
      OBVIOUS
    <2> QED BY <2>1, Slices
  <1>2. /\ B \in Seq(S) /\ Len(B) = Len(s) - i
        /\ \A j \in 1 .. Len(s) - i : B[j] = s[i + j]
    <2>1. i \in 0 .. Len(s)
      OBVIOUS
    <2> QED BY <2>1, Slices
  <1> HIDE DEF A, B
  <1>3. r = A \o B
    BY DEF RemoveAt, A, B
  <1>4. A \o B \in Seq(S) /\ Len(A \o B) = Len(s) - 1
    <2>1. A \o B \in Seq(S) /\ Len(A \o B) = Len(A) + Len(B)
      BY <1>1, <1>2, ConcatOf
    <2>2. (i - 1) + (Len(s) - i) = Len(s) - 1
      OBVIOUS
    <2> QED BY <1>1, <1>2, <2>1, <2>2
  <1>5. \A j \in 1 .. i - 1 : (A \o B)[j] = s[j]
    BY <1>1, <1>2
  <1>6. ASSUME NEW j \in i .. Len(s) - 1 PROVE (A \o B)[j] = s[j + 1]
    <2>1. j - (i - 1) \in 1 .. Len(s) - i /\ i + (j - (i - 1)) = j + 1
      OBVIOUS
    <2>2. (A \o B)[j] = B[j - (i - 1)]
      BY <1>1, <1>2
    <2> QED BY <1>2, <2>1, <2>2
  <1>7. ASSUME NEW j \in 1 .. Len(r)
        PROVE  (j < i => r[j] = s[j]) /\ (i <= j => r[j] = s[j + 1])
    <2>1. Len(r) = Len(s) - 1
      BY <1>3, <1>4
    <2>2. ASSUME j < i PROVE r[j] = s[j]
      <3>1. j \in 1 .. i - 1
        BY <2>2
      <3> QED BY <1>3, <1>5, <3>1
    <2>3. ASSUME i <= j PROVE r[j] = s[j + 1]
      <3>1. j \in i .. Len(s) - 1
        BY <2>1, <2>3
      <3> QED BY <1>3, <1>6, <3>1
    <2> QED BY <2>2, <2>3
  <1> QED BY <1>3, <1>4, <1>7 DEF Removed

(* A list around one element, around two, and how one becomes the other.   *)
LEMMA Around ==
    ASSUME NEW S, NEW s \in Seq(S), NEW i \in 1 .. Len(s), NEW e \in S
    PROVE  InsertAt(s, i + 1, e) = SubSeq(s, 1, i - 1) \o <<s[i], e>> \o SubSeq(s, i + 1, Len(s))
  <1> DEFINE A == SubSeq(s, 1, i - 1)
             B == SubSeq(s, i + 1, Len(s))
             C == SubSeq(s, 1, i)
  <1>1. /\ A \in Seq(S) /\ Len(A) = i - 1 /\ \A j \in 1 .. i - 1 : A[j] = s[j]
    <2>1. i - 1 \in 0 .. Len(s)
      OBVIOUS
    <2> QED BY <2>1, Slices
  <1>2. /\ C \in Seq(S) /\ Len(C) = i /\ \A j \in 1 .. i : C[j] = s[j]
    <2>1. i \in 0 .. Len(s)
      OBVIOUS
    <2> QED BY <2>1, Slices
  <1>3. B \in Seq(S)
    BY Parted
  <1> HIDE DEF A, B, C
  <1>4. C = A \o <<s[i]>>
    <2>1. A \o <<s[i]>> \in Seq(S) /\ Len(A \o <<s[i]>>) = i
      BY <1>1
    <2>2. \A j \in 1 .. i : C[j] = (A \o <<s[i]>>)[j]
      BY <1>1, <1>2
    <2> QED BY <1>2, <2>1, <2>2, SameList
  <1>5. InsertAt(s, i + 1, e) = C \o <<e>> \o B
    <2>1. (i + 1) - 1 = i
      OBVIOUS
    <2> QED BY <2>1 DEF InsertAt, B, C
  <1>6. <<s[i]>> \o <<e>> = <<s[i], e>>
    <2>1. <<s[i]>> \in Seq(S) /\ <<e>> \in Seq(S) /\ <<s[i], e>> \in Seq(S)
      OBVIOUS
    <2>2. <<s[i]>> \o <<e>> \in Seq(S) /\ Len(<<s[i]>> \o <<e>>) = 2 /\ Len(<<s[i], e>>) = 2
      BY <2>1
    <2>3. \A j \in 1 .. 2 : (<<s[i]>> \o <<e>>)[j] = <<s[i], e>>[j]
      OBVIOUS
    <2> QED BY <2>1, <2>2, <2>3, SameList
  <1>7. (A \o <<s[i]>>) \o <<e>> = A \o (<<s[i]>> \o <<e>>)
    BY <1>1, ConcatAssociative
  <1> QED BY <1>4, <1>5, <1>6, <1>7 DEF A, B

(* Where x is in s, if it is.                                              *)
LEMMA IndexOfIs ==
    ASSUME NEW S, NEW s \in Seq(S), NEW i \in 1 .. Len(s),
           \A j \in 1 .. Len(s) : s[j] = s[i] => j = i
    PROVE  IndexOf(s, s[i]) = i
  <1> DEFINE I == {j \in 1 .. Len(s) : s[j] = s[i]}
  <1>1. I = {i}
    OBVIOUS
  <1>2. Min({i}) = i
    <2>1. {i} \subseteq Nat /\ {i} # {}
      OBVIOUS
    <2>2. Min({i}) \in {i}
      BY <2>1, MinOf
    <2> QED BY <2>2
  <1>3. IndexOf(s, s[i]) = IF I # {} THEN Min(I) ELSE 0
    BY DEF IndexOf, SelectInSeq
  <1> QED BY <1>1, <1>2, <1>3
-----------------------------------------------------------------------------
(* Rows of sets of entries.                                                *)
LEMMA WholeConcat ==
    ASSUME NEW S, NEW L \in Seq(S), NEW M \in Seq(S)
    PROVE  Whole(L \o M) = Whole(L) \cup Whole(M)
  <1> DEFINE C == L \o M
  <1>1. /\ Len(C) = Len(L) + Len(M) /\ Len(L) \in Nat /\ Len(M) \in Nat
        /\ \A i \in 1 .. Len(L) : C[i] = L[i]
        /\ \A i \in 1 .. Len(M) : C[Len(L) + i] = M[i]
    OBVIOUS
  <1> HIDE DEF C
  <1>2. ASSUME NEW x, x \in Whole(C) PROVE x \in Whole(L) \cup Whole(M)
    <2>1. PICK i \in 1 .. Len(C) : x \in C[i]
      BY <1>2 DEF Whole
    <2>2. CASE i <= Len(L)
      BY <1>1, <2>1, <2>2 DEF Whole
    <2>3. CASE i > Len(L)
      <3>1. i - Len(L) \in 1 .. Len(M) /\ Len(L) + (i - Len(L)) = i
        BY <1>1, <2>3
      <3>2. x \in M[i - Len(L)]
        BY <1>1, <2>1, <3>1
      <3> QED BY <3>1, <3>2 DEF Whole
    <2> QED BY <1>1, <2>2, <2>3
  <1>3. ASSUME NEW x, x \in Whole(L) PROVE x \in Whole(C)
    <2>1. PICK i \in 1 .. Len(L) : x \in L[i]
      BY <1>3 DEF Whole
    <2>2. i \in 1 .. Len(C) /\ x \in C[i]
      BY <1>1, <2>1
    <2> QED BY <2>2 DEF Whole
  <1>4. ASSUME NEW x, x \in Whole(M) PROVE x \in Whole(C)
    <2>1. PICK i \in 1 .. Len(M) : x \in M[i]
      BY <1>4 DEF Whole
    <2>2. Len(L) + i \in 1 .. Len(C) /\ x \in C[Len(L) + i]
      BY <1>1, <2>1
    <2> QED BY <2>2 DEF Whole
  <1> QED BY <1>2, <1>3, <1>4 DEF C

(* Two rows make one if all of the first is less than all of the second.   *)
LEMMA RowConcat ==
    ASSUME NEW S, NEW L \in Seq(S), NEW M \in Seq(S)
    PROVE  Row(L \o M) <=> Row(L) /\ Row(M) /\ Less(Whole(L), Whole(M))
  <1> DEFINE C == L \o M
  <1>1. /\ Len(C) = Len(L) + Len(M) /\ Len(L) \in Nat /\ Len(M) \in Nat
        /\ \A i \in 1 .. Len(L) : C[i] = L[i]
        /\ \A i \in 1 .. Len(M) : C[Len(L) + i] = M[i]
    OBVIOUS
  <1> HIDE DEF C
  <1>2. \A i \in 1 .. Len(L) : i \in 1 .. Len(C)
    BY <1>1
  <1>3. \A i \in 1 .. Len(M) : Len(L) + i \in 1 .. Len(C)
    BY <1>1
  <1>4. ASSUME Row(C) PROVE Row(L)
    BY <1>1, <1>2, <1>4 DEF Row
  <1>5. ASSUME Row(C) PROVE Row(M)
    <2>1. \A i \in 1 .. Len(M) : M[i] # {}
      BY <1>1, <1>3, <1>5 DEF Row
    <2>2. ASSUME NEW i \in 1 .. Len(M), NEW j \in 1 .. Len(M), i < j PROVE Less(M[i], M[j])
      <3>1. Len(L) + i < Len(L) + j
        BY <1>1, <2>2
      <3>2. Less(C[Len(L) + i], C[Len(L) + j])
        BY <1>3, <1>5, <3>1 DEF Row
      <3> QED BY <1>1, <3>2
    <2> QED BY <2>1, <2>2 DEF Row
  <1>6. ASSUME Row(C) PROVE Less(Whole(L), Whole(M))
    <2> SUFFICES ASSUME NEW x \in Whole(L), NEW y \in Whole(M) PROVE x.fnv < y.fnv
      BY DEF Less
    <2>1. PICK i \in 1 .. Len(L) : x \in L[i]
      BY DEF Whole
    <2>2. PICK j \in 1 .. Len(M) : y \in M[j]
      BY DEF Whole
    <2>3. i < Len(L) + j
      BY <1>1
    <2>4. Less(C[i], C[Len(L) + j])
      BY <1>2, <1>3, <1>6, <2>3 DEF Row
    <2> QED BY <1>1, <2>1, <2>2, <2>4 DEF Less
  <1>7. ASSUME Row(L), Row(M), Less(Whole(L), Whole(M)) PROVE Row(C)
    <2>1. ASSUME NEW i \in 1 .. Len(C), ~(i <= Len(L))
          PROVE  i - Len(L) \in 1 .. Len(M) /\ C[i] = M[i - Len(L)]
      <3>1. i - Len(L) \in 1 .. Len(M) /\ Len(L) + (i - Len(L)) = i
        BY <1>1, <2>1
      <3> QED BY <1>1, <3>1
    <2>2. ASSUME NEW i \in 1 .. Len(C) PROVE C[i] # {}
      <3>1. CASE i <= Len(L)
        <4>1. i \in 1 .. Len(L)
          BY <1>1, <3>1
        <4> QED BY <1>1, <1>7, <4>1 DEF Row
      <3>2. CASE ~(i <= Len(L))
        BY <1>7, <2>1, <3>2 DEF Row
      <3> QED BY <3>1, <3>2
    <2>3. ASSUME NEW i \in 1 .. Len(C), NEW j \in 1 .. Len(C), i < j PROVE Less(C[i], C[j])
      <3>1. CASE j <= Len(L)
        BY <1>1, <1>7, <2>3, <3>1 DEF Row
      <3>2. CASE ~(i <= Len(L))
        <4>1. ~(j <= Len(L)) /\ i - Len(L) < j - Len(L)
          BY <1>1, <2>3, <3>2
        <4> QED BY <1>7, <2>1, <3>2, <4>1 DEF Row
      <3>3. CASE i <= Len(L) /\ ~(j <= Len(L))
        <4>1. C[i] \subseteq Whole(L)
          BY <1>1, <3>3 DEF Whole
        <4>2. C[j] \subseteq Whole(M)
          BY <2>1, <3>3 DEF Whole
        <4> QED BY <1>7, <4>1, <4>2 DEF Less
      <3> QED BY <1>1, <2>3, <3>1, <3>2, <3>3
    <2> QED BY <2>2, <2>3 DEF Row
  <1> QED BY <1>4, <1>5, <1>6, <1>7 DEF C

(* A row stays one when a part of it is replaced by another with the same  *)
(* entries.                                                                *)
LEMMA RowReplace ==
    ASSUME NEW S, NEW A \in Seq(S), NEW G \in Seq(S), NEW H \in Seq(S), NEW B \in Seq(S),
           Row(A \o G \o B), Row(H), Whole(H) = Whole(G)
    PROVE  Row(A \o H \o B) /\ Whole(A \o H \o B) = Whole(A \o G \o B)
  <1>1. A \o G \in Seq(S) /\ A \o H \in Seq(S)
    OBVIOUS
  <1>2. Row(A \o G) /\ Row(B) /\ Less(Whole(A \o G), Whole(B))
    BY <1>1, RowConcat
  <1>3. Row(A) /\ Less(Whole(A), Whole(G))
    BY <1>2, RowConcat
  <1>4. Whole(A \o H) = Whole(A \o G)
    <2>1. Whole(A \o H) = Whole(A) \cup Whole(H) /\ Whole(A \o G) = Whole(A) \cup Whole(G)
      BY WholeConcat
    <2> QED BY <2>1
  <1>5. Row(A \o H)
    BY <1>3, RowConcat
  <1>6. Row(A \o H \o B)
    BY <1>1, <1>2, <1>4, <1>5, RowConcat
  <1>7. /\ Whole(A \o H \o B) = Whole(A \o H) \cup Whole(B)
        /\ Whole(A \o G \o B) = Whole(A \o G) \cup Whole(B)
    <2> DEFINE P == A \o G
               Q == A \o H
    <2>1. P \in Seq(S) /\ Q \in Seq(S)
      BY <1>1
    <2> HIDE DEF P, Q
    <2>2. Whole(Q \o B) = Whole(Q) \cup Whole(B)
      BY <2>1, WholeConcat
    <2>3. Whole(P \o B) = Whole(P) \cup Whole(B)
      BY <2>1, WholeConcat
    <2> QED BY <2>2, <2>3 DEF P, Q
  <1> QED BY <1>4, <1>6, <1>7

(* Rows of one and of two sets.                                            *)
LEMMA RowTwo ==
    ASSUME NEW X, NEW Y
    PROVE  /\ X # {} => Row(<<X>>)
           /\ Row(<<X>>) => X # {}
           /\ Whole(<<X>>) = X
           /\ X # {} /\ Y # {} /\ Less(X, Y) => Row(<<X, Y>>)
           /\ Row(<<X, Y>>) => X # {} /\ Y # {} /\ Less(X, Y)
           /\ Whole(<<X, Y>>) = X \cup Y
  <1>1. Len(<<X>>) = 1 /\ Len(<<X, Y>>) = 2 /\ 1 .. 1 = {1} /\ 1 .. 2 = {1, 2}
    OBVIOUS
  <1>2. <<X>>[1] = X /\ <<X, Y>>[1] = X /\ <<X, Y>>[2] = Y
    OBVIOUS
  <1>3. Whole(<<X>>) = X /\ Whole(<<X, Y>>) = X \cup Y
    BY <1>1, <1>2 DEF Whole
  <1>4. Row(<<X>>) <=> X # {}
    BY <1>1, <1>2 DEF Row
  <1>5. Row(<<X, Y>>) <=> X # {} /\ Y # {} /\ Less(X, Y)
    BY <1>1, <1>2 DEF Row
  <1> QED BY <1>3, <1>4, <1>5

(* The parts of a list that is put together are put together.              *)
LEMMA EachConcat ==
    ASSUME NEW S, NEW s \in Seq(S), NEW r \in Seq(S)
    PROVE  /\ Each(s) \in Seq(SUBSET S) /\ Each(r) \in Seq(SUBSET S)
           /\ Each(s \o r) = Each(s) \o Each(r)
  <1>1. \A q \in Seq(S) : /\ Each(q) \in Seq(SUBSET S) /\ Len(Each(q)) = Len(q)
                          /\ \A i \in 1 .. Len(q) : Each(q)[i] = {q[i]}
    BY DEF Each
  <1>2. s \o r \in Seq(S) /\ Len(s \o r) = Len(s) + Len(r)
    OBVIOUS
  <1>3. Each(s) \in Seq(SUBSET S) /\ Each(r) \in Seq(SUBSET S)
    BY <1>1
  <1>4. Len(Each(s)) = Len(s) /\ Len(Each(r)) = Len(r)
    BY <1>1
  <1>5. Each(s) \o Each(r) \in Seq(SUBSET S) /\ Len(Each(s) \o Each(r)) = Len(s) + Len(r)
    <2> DEFINE P == Each(s)
               Q == Each(r)
    <2>1. P \in Seq(SUBSET S) /\ Q \in Seq(SUBSET S)
      BY <1>3
    <2> HIDE DEF P, Q
    <2>2. P \o Q \in Seq(SUBSET S) /\ Len(P \o Q) = Len(P) + Len(Q)
      BY <2>1, ConcatOf
    <2> QED BY <1>4, <2>2 DEF P, Q
  <1>6. ASSUME NEW i \in 1 .. Len(s) + Len(r) PROVE Each(s \o r)[i] = (Each(s) \o Each(r))[i]
    <2>1. Each(s \o r)[i] = {(s \o r)[i]}
      BY <1>1, <1>2
    <2>2. CASE i <= Len(s)
      BY <1>1, <2>1, <2>2
    <2>3. CASE ~(i <= Len(s))
      <3>1. i - Len(s) \in 1 .. Len(r) /\ (s \o r)[i] = r[i - Len(s)]
        BY <2>3
      <3>2. (Each(s) \o Each(r))[i] = Each(r)[i - Len(s)]
        BY <1>1, <2>3
      <3> QED BY <1>1, <2>1, <3>1, <3>2
    <2> QED BY <2>2, <2>3
  <1>7. Each(s \o r) \in Seq(SUBSET S) /\ Len(Each(s \o r)) = Len(s) + Len(r)
    BY <1>1, <1>2
  <1>8. Each(s \o r) = Each(s) \o Each(r)
    BY <1>5, <1>6, <1>7, SameList
  <1> QED BY <1>3, <1>8

(* What is below a list of nodes is a list of sets of entries.             *)
LEMMA UnderOf ==
    ASSUME NEW T, NEW E \in [T -> SUBSET Entry], NEW s \in Seq(T)
    PROVE  /\ Under(E, s) \in Seq(SUBSET Entry) /\ Len(Under(E, s)) = Len(s)
           /\ \A i \in 1 .. Len(s) : Under(E, s)[i] = E[s[i]]
  BY DEF Under

(* What is below two lists of nodes, one after the other.                  *)
LEMMA UnderConcat ==
    ASSUME NEW T, NEW E \in [T -> SUBSET Entry], NEW s \in Seq(T), NEW r \in Seq(T)
    PROVE  Under(E, s \o r) = Under(E, s) \o Under(E, r)
  <1> DEFINE P == Under(E, s)
             Q == Under(E, r)
             c == s \o r
             R == Under(E, c)
  <1>1. c \in Seq(T) /\ Len(c) = Len(s) + Len(r)
    OBVIOUS
  <1>2. P \in Seq(SUBSET Entry) /\ Len(P) = Len(s) /\ \A i \in 1 .. Len(s) : P[i] = E[s[i]]
    BY UnderOf
  <1>3. Q \in Seq(SUBSET Entry) /\ Len(Q) = Len(r) /\ \A i \in 1 .. Len(r) : Q[i] = E[r[i]]
    BY UnderOf
  <1>4. /\ R \in Seq(SUBSET Entry) /\ Len(R) = Len(s) + Len(r)
        /\ \A i \in 1 .. Len(s) + Len(r) : R[i] = E[c[i]]
    <2> HIDE DEF c
    <2>1. c \in Seq(T)
      BY <1>1
    <2>2. /\ Under(E, c) \in Seq(SUBSET Entry) /\ Len(Under(E, c)) = Len(c)
          /\ \A i \in 1 .. Len(c) : Under(E, c)[i] = E[c[i]]
      BY <2>1, UnderOf
    <2> QED BY <1>1, <2>2
  <1>5. /\ \A i \in 1 .. Len(s) : c[i] = s[i]
        /\ \A i \in 1 .. Len(r) : c[Len(s) + i] = r[i]
        /\ Len(s) \in Nat /\ Len(r) \in Nat
    OBVIOUS
  <1> HIDE DEF P, Q, R, c
  <1>6. P \o Q \in Seq(SUBSET Entry) /\ Len(P \o Q) = Len(s) + Len(r)
    <2>1. P \in Seq(SUBSET Entry) /\ Q \in Seq(SUBSET Entry)
      BY <1>2, <1>3
    <2>2. P \o Q \in Seq(SUBSET Entry) /\ Len(P \o Q) = Len(P) + Len(Q)
      BY <2>1, ConcatOf
    <2> QED BY <1>2, <1>3, <2>2
  <1>7. ASSUME NEW i \in 1 .. Len(s) + Len(r) PROVE R[i] = (P \o Q)[i]
    <2>1. R[i] = E[c[i]]
      BY <1>4
    <2>2. CASE i <= Len(s)
      <3>1. i \in 1 .. Len(s) /\ c[i] = s[i]
        BY <1>5, <2>2
      <3>2. (P \o Q)[i] = P[i]
        BY <1>2, <1>3, <3>1
      <3> QED BY <1>2, <2>1, <3>1, <3>2
    <2>3. CASE ~(i <= Len(s))
      <3>1. i - Len(s) \in 1 .. Len(r) /\ Len(s) + (i - Len(s)) = i
        BY <1>5, <2>3
      <3>2. c[i] = r[i - Len(s)]
        BY <1>5, <3>1
      <3>3. (P \o Q)[i] = Q[i - Len(s)]
        BY <1>2, <1>3, <2>3
      <3> QED BY <1>3, <2>1, <3>1, <3>2, <3>3
    <2> QED BY <2>2, <2>3
  <1>8. R = P \o Q
    BY <1>4, <1>6, <1>7, SameList
  <1> QED BY <1>8 DEF P, Q, R, c

-----------------------------------------------------------------------------
(***************************************************************************)
(* A part of a row of children is replaced by others that have the same    *)
(* entries below them.                                                     *)
(***************************************************************************)

(* The members of a list.                                                  *)
Members(s) == {s[i] : i \in 1 .. Len(s)}

(* The members of two lists, one after the other.                          *)
LEMMA MembersConcat ==
    ASSUME NEW S, NEW s \in Seq(S), NEW r \in Seq(S)
    PROVE  Members(s \o r) = Members(s) \cup Members(r)
  <1> DEFINE c == s \o r
  <1>1. /\ Len(c) = Len(s) + Len(r) /\ Len(s) \in Nat /\ Len(r) \in Nat
        /\ \A i \in 1 .. Len(s) : c[i] = s[i]
        /\ \A i \in 1 .. Len(r) : c[Len(s) + i] = r[i]
    OBVIOUS
  <1> HIDE DEF c
  <1>2. ASSUME NEW i \in 1 .. Len(c) PROVE c[i] \in Members(s) \cup Members(r)
    <2>1. CASE i <= Len(s)
      BY <1>1, <2>1 DEF Members
    <2>2. CASE ~(i <= Len(s))
      <3>1. i - Len(s) \in 1 .. Len(r) /\ Len(s) + (i - Len(s)) = i
        BY <1>1, <2>2
      <3>2. c[i] = r[i - Len(s)]
        BY <1>1, <3>1
      <3> QED BY <3>1, <3>2 DEF Members
    <2> QED BY <2>1, <2>2
  <1>3. \A i \in 1 .. Len(s) : i \in 1 .. Len(c) /\ c[i] = s[i]
    BY <1>1
  <1>4. \A i \in 1 .. Len(r) : Len(s) + i \in 1 .. Len(c) /\ c[Len(s) + i] = r[i]
    BY <1>1
  <1>5. Members(c) \subseteq Members(s) \cup Members(r)
    BY <1>2 DEF Members
  <1>6. Members(s) \subseteq Members(c) /\ Members(r) \subseteq Members(c)
    BY <1>3, <1>4 DEF Members
  <1> QED BY <1>5, <1>6 DEF c

(* No element of a list is there twice; then what it is put together from  *)
(* has nothing in common.                                                  *)
Distinct(c) == \A i, j \in 1 .. Len(c) : c[i] = c[j] => i = j

(* A list without repetition, cut in two: nothing is in both parts.        *)
LEMMA ApartConcat ==
    ASSUME NEW S, NEW s \in Seq(S), NEW r \in Seq(S), NEW c, c = s \o r, Distinct(c)
    PROVE  /\ \A x \in Members(s) : x \notin Members(r)
           /\ Distinct(s) /\ Distinct(r)
  <1> USE DEF Distinct
  <1>1. /\ Len(c) = Len(s) + Len(r) /\ Len(s) \in Nat /\ Len(r) \in Nat
        /\ \A i \in 1 .. Len(s) : c[i] = s[i]
        /\ \A i \in 1 .. Len(r) : c[Len(s) + i] = r[i]
    OBVIOUS
  <1>2. \A i \in 1 .. Len(s) : i \in 1 .. Len(c) /\ c[i] = s[i]
    BY <1>1
  <1>3. \A i \in 1 .. Len(r) : Len(s) + i \in 1 .. Len(c) /\ c[Len(s) + i] = r[i]
    BY <1>1
  <1>4. ASSUME NEW i \in 1 .. Len(s), NEW j \in 1 .. Len(r), s[i] = r[j] PROVE FALSE
    <2>1. i \in 1 .. Len(c) /\ Len(s) + j \in 1 .. Len(c) /\ c[i] = c[Len(s) + j]
      BY <1>2, <1>3, <1>4
    <2>2. i = Len(s) + j
      BY <2>1
    <2> QED BY <1>1, <2>2
  <1>5. \A x \in Members(s) : x \notin Members(r)
    <2> SUFFICES ASSUME NEW x \in Members(s), x \in Members(r) PROVE FALSE
      OBVIOUS
    <2>1. PICK i \in 1 .. Len(s) : x = s[i]
      BY DEF Members
    <2>2. PICK j \in 1 .. Len(r) : x = r[j]
      BY DEF Members
    <2> QED BY <1>4, <2>1, <2>2
  <1>6. \A i, j \in 1 .. Len(s) : s[i] = s[j] => i = j
    BY <1>2
  <1>7. ASSUME NEW i \in 1 .. Len(r), NEW j \in 1 .. Len(r), r[i] = r[j] PROVE i = j
    <2>1. /\ Len(s) + i \in 1 .. Len(c) /\ Len(s) + j \in 1 .. Len(c)
          /\ c[Len(s) + i] = c[Len(s) + j]
      BY <1>3, <1>7
    <2>2. Len(s) + i = Len(s) + j
      BY <2>1
    <2> QED BY <1>1, <2>2
  <1> QED BY <1>5, <1>6, <1>7

(* A list is one over every set that has its members.                      *)
LEMMA SeqOfMembers ==
    ASSUME NEW S, NEW s \in Seq(S), NEW T, Members(s) \subseteq T
    PROVE  s \in Seq(T)
  <1>1. \A i \in 1 .. Len(s) : s[i] \in T
    BY DEF Members
  <1> QED BY <1>1

(* The lists of a node, and what is below it.                              *)
LEMMA NodeTypes ==
    ASSUME NEW t, Heap(t), NEW a \in DOMAIN t
    PROVE  /\ t[a] \in Node
           /\ t[a].leaf \in BOOLEAN /\ t[a].item \in Seq(Entry) /\ t[a].key \in Seq(Nat)
           /\ t[a].child \in Seq(Nat) /\ t[a].parent \in Nat /\ t[a].next \in Nat
  BY DEF Heap, Node

(* Below each child of an inner node there is something, and in order.     *)
LEMMA Children ==
    ASSUME NEW t, NEW T, NEW h, NEW E, Heap(t), Shape(t, T, h, E), NEW a \in T
    PROVE  /\ t[a].child \in Seq(T)
           /\ Under(E, t[a].child) \in Seq(SUBSET Entry)
           /\ Len(Under(E, t[a].child)) = Len(t[a].child)
           /\ Row(Under(E, t[a].child))
           /\ \A i \in 1 .. Len(t[a].child) : E[t[a].child[i]] # {}
           /\ \A i, j \in 1 .. Len(t[a].child) :
                 i < j => Less(E[t[a].child[i]], E[t[a].child[j]])
           /\ \A i, j \in 1 .. Len(t[a].child) : t[a].child[i] = t[a].child[j] => i = j
           /\ ~t[a].leaf => E[a] = Whole(Under(E, t[a].child))
  <1>1. t[a].child \in Seq(Nat) /\ E \in [T -> SUBSET Entry]
    BY NodeTypes DEF Shape
  <1>2. Sound(t, T, h, E, a)
    BY DEF Shape
  <1>3. \A i \in 1 .. Len(t[a].child) : t[a].child[i] \in T
    BY <1>2 DEF Sound, Downward
  <1>4. t[a].child \in Seq(T)
    <2> DEFINE q == t[a].child
    <2> HIDE DEF q
    <2>1. q \in Seq(Nat) /\ \A i \in 1 .. Len(q) : q[i] \in T
      BY <1>1, <1>3 DEF q
    <2>2. q \in Seq(T)
      BY <2>1
    <2> QED BY <2>2 DEF q
  <1> DEFINE c == t[a].child
  <1> HIDE DEF c
  <1>5. c \in Seq(T) /\ \A i \in 1 .. Len(c) : E[c[i]] \in SUBSET Entry
    BY <1>1, <1>3, <1>4 DEF c
  <1>6. /\ Under(E, c) \in Seq(SUBSET Entry) /\ Len(Under(E, c)) = Len(c)
        /\ \A i \in 1 .. Len(c) : Under(E, c)[i] = E[c[i]]
    BY <1>1, <1>5, UnderOf
  <1>7. Row(Under(E, c)) /\ (~t[a].leaf => E[a] = Whole(Under(E, c)))
    <2>1. CASE t[a].leaf
      <3>1. c = <<>>
        BY <1>2, <2>1 DEF Sound, Kind, c
      <3>2. Len(Under(E, c)) = 0
        BY <1>6, <3>1
      <3> QED BY <2>1, <3>2 DEF Row
    <2>2. CASE ~t[a].leaf
      BY <1>2, <2>2 DEF Sound, Ordered, Parts, c
    <2> QED BY <2>1, <2>2
  <1>8. \A i \in 1 .. Len(c) : E[c[i]] # {}
    BY <1>6, <1>7 DEF Row
  <1>9. \A i, j \in 1 .. Len(c) : i < j => Less(E[c[i]], E[c[j]])
    BY <1>6, <1>7 DEF Row
  <1>10. ASSUME NEW i \in 1 .. Len(c), NEW j \in 1 .. Len(c), c[i] = c[j], i < j PROVE FALSE
    <2>1. PICK x \in E[c[i]] : TRUE
      BY <1>8
    <2>2. x \in Entry /\ x.fnv < x.fnv
      BY <1>5, <1>9, <1>10, <2>1 DEF Less
    <2> QED BY <2>2 DEF Entry
  <1>11. \A i, j \in 1 .. Len(c) : c[i] = c[j] => i = j
    <2> SUFFICES ASSUME NEW i \in 1 .. Len(c), NEW j \in 1 .. Len(c), c[i] = c[j] PROVE i = j
      OBVIOUS
    <2>1. ~(i < j) /\ ~(j < i)
      BY <1>10
    <2> QED BY <1>5, <2>1
  <1> QED BY <1>5, <1>6, <1>7, <1>8, <1>9, <1>11 DEF c

(* The bodies of the nodes of S are the same.                              *)
Kept(t, u, S) ==
    \A x \in S : u[x].leaf = t[x].leaf /\ u[x].item = t[x].item /\ u[x].child = t[x].child

(* x is a child of y.                                                      *)
ListedIn(u, y, x) == \E i \in 1 .. Len(u[y].child) : u[y].child[i] = x

(* The nodes outside G have the parents they had, those below G are below  *)
(* H.                                                                      *)
Reparented(t, u, S, G, H) ==
    \A x \in S : /\ t[x].parent \notin G => u[x].parent = t[x].parent
                 /\ t[x].parent \in G => u[x].parent \in H /\ ListedIn(u, u[x].parent, x)

(* Neighbours below p are replaced by others with the same below them.     *)
Ghosts(T, h, E, U, k, F, G, H) ==
    /\ U = (T \ G) \cup H
    /\ H \cap T \subseteq G
    /\ k \in [U -> Nat] /\ F \in [U -> SUBSET Entry]
    /\ \A x \in T \ G : k[x] = h[x] /\ F[x] = E[x]

(* What the new nodes H have below them, and above.                        *)
Below(u, U, h, k, F, H, p) ==
    \A x \in H : k[x] + 1 = h[p] /\ u[x].parent = p /\ Sound(u, U, k, F, x)

(* The list of p's children.                                               *)
Regrouped(T, E, U, F, A, G, B, H, c, d) ==
    /\ E \in [T -> SUBSET Entry] /\ F \in [U -> SUBSET Entry]
    /\ A \in Seq(T) /\ G \in Seq(T) /\ B \in Seq(T)
    /\ A \in Seq(U) /\ H \in Seq(U) /\ B \in Seq(U)
    /\ \A i \in 1 .. Len(A) : F[A[i]] = E[A[i]]
    /\ \A i \in 1 .. Len(B) : F[B[i]] = E[B[i]]
    /\ c = A \o G \o B /\ d = A \o H \o B
    /\ Row(Under(E, c)) /\ Row(Under(F, H)) /\ Whole(Under(F, H)) = Whole(Under(E, G))

(* Other children for the part G of a row of children, with the same       *)
(* entries below them: the row is still in order.                          *)
LEMMA RegroupRow ==
    ASSUME NEW T, NEW E, NEW U, NEW F, NEW A, NEW G, NEW B, NEW H, NEW c, NEW d,
           Regrouped(T, E, U, F, A, G, B, H, c, d)
    PROVE  Row(Under(F, d)) /\ Whole(Under(F, d)) = Whole(Under(E, c))
  <1> USE DEF Regrouped
  <1> DEFINE C == A \o G
             D == A \o H
             EA == Under(E, A)
             EB == Under(E, B)
             EG == Under(E, G)
             FH == Under(F, H)
  <1>1. Under(F, A) = EA /\ Under(F, B) = EB
    BY DEF Under
  <1>2. EA \in Seq(SUBSET Entry)
    BY UnderOf
  <1>3. EB \in Seq(SUBSET Entry)
    BY UnderOf
  <1>4. EG \in Seq(SUBSET Entry)
    BY UnderOf
  <1>5. FH \in Seq(SUBSET Entry)
    BY UnderOf
  <1>6. C \in Seq(T) /\ D \in Seq(U)
    OBVIOUS
  <1>7. Under(E, C) = EA \o EG
    BY UnderConcat
  <1>8. Under(F, D) = EA \o FH
    <2>1. Under(F, D) = Under(F, A) \o Under(F, H)
      BY UnderConcat
    <2> QED BY <1>1, <2>1
  <1> HIDE DEF C, D, EA, EB, EG, FH
  <1>9. Under(E, C \o B) = (EA \o EG) \o EB
    <2>1. Under(E, C \o B) = Under(E, C) \o Under(E, B)
      BY <1>6, UnderConcat, ZenonT(30)
    <2> QED BY <1>7, <2>1 DEF EB
  <1>10. Under(F, D \o B) = (EA \o FH) \o EB
    <2>1. Under(F, D \o B) = Under(F, D) \o Under(F, B)
      BY <1>6, UnderConcat, ZenonT(30)
    <2> QED BY <1>1, <1>8, <2>1
  <1>11. Row(EA \o EG \o EB)
    BY <1>9 DEF C
  <1>12. Row(FH) /\ Whole(FH) = Whole(EG)
    BY DEF FH, EG
  <1>13. Row(EA \o FH \o EB) /\ Whole(EA \o FH \o EB) = Whole(EA \o EG \o EB)
    BY <1>2, <1>3, <1>4, <1>5, <1>11, <1>12, RowReplace
  <1> QED BY <1>9, <1>10, <1>13 DEF C, D

(* The neighbours G below p are replaced by H.                              *)
Regrouping(t, u, T, h, E, U, k, F, p, A, G, H, B) ==
    /\ Heap(t) /\ Shape(t, T, h, E) /\ p \in T /\ ~t[p].leaf
    /\ A \in Seq(Nat) /\ G \in Seq(Nat) /\ H \in Seq(Nat) /\ B \in Seq(Nat)
    /\ t[p].child = A \o G \o B
    /\ ~u[p].leaf /\ u[p].item = <<>> /\ u[p].child = A \o H \o B /\ H # <<>>
    /\ U \subseteq DOMAIN u
    /\ Ghosts(T, h, E, U, k, F, Members(G), Members(H))
    /\ Kept(t, u, T \ (Members(G) \cup {p}))
    /\ Reparented(t, u, T \ Members(G), Members(G), Members(H))
    /\ Below(u, U, h, k, F, Members(H), p)
    /\ Row(Under(F, H)) /\ Whole(Under(F, H)) = Whole(Under(E, G))

(* The nodes G below p are replaced by H, which have the same entries in   *)
(* the same order below them: what was a tree is one.                      *)
LEMMA Regroup ==
    ASSUME NEW t, NEW u, NEW T, NEW h, NEW E, NEW U, NEW k, NEW F,
           NEW p, NEW A, NEW G, NEW H, NEW B,
           Regrouping(t, u, T, h, E, U, k, F, p, A, G, H, B)
    PROVE  Shape(u, U, k, F)
  <1>1. Heap(t) /\ Shape(t, T, h, E) /\ p \in T /\ ~t[p].leaf
    BY DEF Regrouping
  <1>2. A \in Seq(Nat) /\ G \in Seq(Nat) /\ H \in Seq(Nat) /\ B \in Seq(Nat) /\ H # <<>>
    BY DEF Regrouping
  <1>3. /\ t[p].child = A \o G \o B /\ u[p].child = A \o H \o B
        /\ ~u[p].leaf /\ u[p].item = <<>> /\ U \subseteq DOMAIN u
    BY DEF Regrouping
  <1>4. Ghosts(T, h, E, U, k, F, Members(G), Members(H))
    BY DEF Regrouping
  <1>5. /\ Kept(t, u, T \ (Members(G) \cup {p}))
        /\ Reparented(t, u, T \ Members(G), Members(G), Members(H))
        /\ Below(u, U, h, k, F, Members(H), p)
    BY DEF Regrouping
  <1>6. Row(Under(F, H)) /\ Whole(Under(F, H)) = Whole(Under(E, G))
    BY DEF Regrouping
  <1> DEFINE c == t[p].child
             d == u[p].child
             GG == Members(G)
             HH == Members(H)
             AB == Members(A) \cup Members(B)
  <1>7. T \subseteq DOMAIN t /\ root \in T /\ h \in [T -> Nat] /\ E \in [T -> SUBSET Entry]
    BY <1>1 DEF Shape
  <1>8. \A y \in T : y # NULL
    <2>1. NULL \notin Pool /\ root # NULL
      BY BPTreeAssumption DEF NULL, root
    <2> QED BY <1>1, <1>7, <2>1 DEF Heap
  <1>9. \A x \in T : Sound(t, T, h, E, x) /\ Upward(t, T, h, x)
    BY <1>1 DEF Shape
  <1>10. /\ c \in Seq(T) /\ Row(Under(E, c)) /\ E[p] = Whole(Under(E, c))
         /\ \A i, j \in 1 .. Len(c) : c[i] = c[j] => i = j
    <2> HIDE DEF c
    <2>1. t[p].child \in Seq(T)
      BY <1>1, Children
    <2>2. Row(Under(E, t[p].child))
      BY <1>1, Children
    <2>3. \A i, j \in 1 .. Len(t[p].child) : t[p].child[i] = t[p].child[j] => i = j
      BY <1>1, Children
    <2>4. ~t[p].leaf => E[p] = Whole(Under(E, t[p].child))
      BY <1>1, Children
    <2>5. E[p] = Whole(Under(E, t[p].child))
      BY <1>1, <2>4
    <2> QED BY <2>1, <2>2, <2>3, <2>5 DEF c
  <1>11. \A x \in Members(c) : x \in T /\ h[x] + 1 = h[p] /\ t[x].parent = p
    <2>1. Downward(t, T, h, p)
      BY <1>1, <1>9 DEF Sound
    <2>2. \A i \in 1 .. Len(c) : c[i] \in T /\ h[c[i]] + 1 = h[p] /\ t[c[i]].parent = p
      BY <2>1 DEF Downward
    <2> HIDE DEF c
    <2> QED BY <2>2 DEF Members
  <1> DEFINE C == A \o G
             D == A \o H
  <1>12. C \in Seq(Nat) /\ D \in Seq(Nat) /\ c = C \o B /\ d = D \o B
    BY <1>2, <1>3
  <1>13. Members(C) = Members(A) \cup GG /\ Members(D) = Members(A) \cup HH
    <2>1. Members(C) = Members(A) \cup GG
      BY <1>2, MembersConcat
    <2>2. Members(D) = Members(A) \cup HH
      BY <1>2, MembersConcat
    <2> QED BY <2>1, <2>2
  <1> HIDE DEF c, d, C, D, GG, HH
  <1>14. Members(c) = AB \cup GG
    <2>1. Members(C \o B) = Members(C) \cup Members(B)
      BY <1>2, <1>12, MembersConcat
    <2> QED BY <1>12, <1>13, <2>1
  <1>15. Members(d) = AB \cup HH
    <2>1. Members(D \o B) = Members(D) \cup Members(B)
      BY <1>2, <1>12, MembersConcat
    <2> QED BY <1>12, <1>13, <2>1
  <1>16. AB \cap GG = {}
    <2>1. (\A x \in Members(C) : x \notin Members(B)) /\ Distinct(C)
      <3>1. Distinct(c)
        BY <1>10 DEF Distinct
      <3>2. C \in Seq(Nat) /\ B \in Seq(Nat) /\ c = C \o B
        BY <1>2, <1>12
      <3>3. \A x \in Members(C) : x \notin Members(B)
        BY <3>1, <3>2, ApartConcat
      <3>4. Distinct(C)
        BY <3>1, <3>2, ApartConcat
      <3> QED BY <3>3, <3>4
    <2>2. \A x \in Members(A) : x \notin GG
      BY <1>2, <2>1, ApartConcat DEF C, GG
    <2> QED BY <1>13, <2>1, <2>2
  <1>17. \A x \in HH : \E i \in 1 .. Len(d) : d[i] = x
    BY <1>15 DEF Members
  <1>18. \A x \in AB : \E i \in 1 .. Len(d) : d[i] = x
    BY <1>15 DEF Members
  <1>19. \A i \in 1 .. Len(d) : d[i] \in AB \/ d[i] \in HH
    BY <1>15 DEF Members
  <1>20. /\ U = (T \ GG) \cup HH /\ HH \cap T \subseteq GG
         /\ k \in [U -> Nat] /\ F \in [U -> SUBSET Entry]
         /\ \A x \in T \ GG : k[x] = h[x] /\ F[x] = E[x]
    BY <1>4 DEF Ghosts, GG, HH
  <1>21. d # <<>>
    <2>1. Len(H) # 0 /\ Len(A) \in Nat /\ Len(B) \in Nat /\ Len(H) \in Nat
      BY <1>2
    <2>2. Len(d) = Len(A) + Len(H) + Len(B)
      BY <1>2, <1>3 DEF d
    <2>3. Len(d) # 0
      BY <2>1, <2>2
    <2> QED BY <2>3
  <1>22. \A x \in GG : x \in T /\ h[x] + 1 = h[p] /\ t[x].parent = p
    BY <1>11, <1>14
  <1>23. p \notin GG /\ root \notin GG
    <2>1. p \notin GG
      BY <1>7, <1>22
    <2>2. root \in GG => t[root].parent = p /\ t[root].parent = NULL
      BY <1>7, <1>9, <1>22 DEF Upward
    <2> QED BY <1>1, <1>7, <1>8, <2>1, <2>2
  <1>24. p \in U /\ root \in U /\ p \notin HH /\ root \notin HH
    BY <1>1, <1>7, <1>20, <1>23
  <1>25. \A x \in AB : x \in T \ GG /\ h[x] + 1 = h[p] /\ t[x].parent = p /\ x \in U
    BY <1>11, <1>14, <1>16, <1>20
  <1>26. Row(Under(F, d)) /\ Whole(Under(F, d)) = Whole(Under(E, c))
    <2>1. A \in Seq(T) /\ A \in Seq(U) /\ B \in Seq(T) /\ B \in Seq(U)
      <3>1. /\ Members(A) \subseteq T /\ Members(A) \subseteq U
            /\ Members(B) \subseteq T /\ Members(B) \subseteq U
        BY <1>25
      <3> QED BY <1>2, <3>1, SeqOfMembers
    <2>2. G \in Seq(T) /\ H \in Seq(U)
      <3>1. Members(G) \subseteq T /\ Members(H) \subseteq U
        BY <1>20, <1>22 DEF GG, HH
      <3> QED BY <1>2, <3>1, SeqOfMembers
    <2>3. /\ \A i \in 1 .. Len(A) : F[A[i]] = E[A[i]]
          /\ \A i \in 1 .. Len(B) : F[B[i]] = E[B[i]]
      <3>1. \A x \in AB : F[x] = E[x]
        BY <1>20, <1>25
      <3> QED BY <3>1 DEF Members
    <2>4. Row(Under(E, c))
      BY <1>10
    <2>5. c = A \o G \o B /\ d = A \o H \o B
      BY <1>3 DEF c, d
    <2>6. E \in [T -> SUBSET Entry] /\ F \in [U -> SUBSET Entry]
      BY <1>7, <1>20
    <2>7. Regrouped(T, E, U, F, A, G, B, H, c, d)
      BY <1>6, <2>1, <2>2, <2>3, <2>4, <2>5, <2>6 DEF Regrouped
    <2> QED BY <2>7, RegroupRow
  <1>27. Kept(t, u, T \ (GG \cup {p})) /\ Reparented(t, u, T \ GG, GG, HH)
         /\ Below(u, U, h, k, F, HH, p)
    BY <1>5 DEF GG, HH
  <1> HIDE DEF AB
  <1>28. Sound(u, U, k, F, p)
    <2>1. h[p] # 0 /\ k[p] = h[p]
      BY <1>1, <1>9, <1>20, <1>23 DEF Sound, Kind
    <2>2. Kind(u, k, p)
      BY <1>3, <1>21, <2>1 DEF Kind, d
    <2>3. Downward(u, U, k, p)
      <3> SUFFICES ASSUME NEW i \in 1 .. Len(d)
                   PROVE  d[i] \in U /\ k[d[i]] + 1 = k[p] /\ u[d[i]].parent = p
        BY DEF Downward, d
      <3>1. CASE d[i] \in HH
        BY <1>20, <1>27, <2>1, <3>1 DEF Below
      <3>2. CASE d[i] \in AB
        <4> DEFINE x == d[i]
        <4>1. x \in T \ GG /\ h[x] + 1 = h[p] /\ t[x].parent = p /\ x \in U
          BY <1>25, <3>2
        <4>2. k[x] = h[x]
          BY <1>20, <4>1
        <4>3. u[x].parent = t[x].parent
          BY <1>23, <1>27, <4>1 DEF Reparented
        <4> QED BY <2>1, <4>1, <4>2, <4>3
      <3> QED BY <1>19, <3>1, <3>2
    <2>4. Ordered(u, F, p)
      BY <1>1, <1>3, <1>10, <1>20, <1>23, <1>26 DEF Ordered, Parts, d
    <2> QED BY <2>2, <2>3, <2>4 DEF Sound
  <1>29. ASSUME NEW x \in T \ (GG \cup {p}) PROVE Sound(u, U, k, F, x)
    <2>1. u[x].leaf = t[x].leaf /\ u[x].item = t[x].item /\ u[x].child = t[x].child
      BY <1>27 DEF Kept
    <2>2. k[x] = h[x] /\ F[x] = E[x] /\ x \in U
      BY <1>20
    <2>3. Sound(t, T, h, E, x)
      BY <1>9
    <2>4. Kind(u, k, x)
      BY <2>1, <2>2, <2>3 DEF Sound, Kind
    <2>5. ASSUME NEW i \in 1 .. Len(t[x].child)
          PROVE  /\ t[x].child[i] \in T \ GG
                 /\ h[t[x].child[i]] + 1 = h[x] /\ t[t[x].child[i]].parent = x
      BY <1>22, <2>3 DEF Sound, Downward
    <2>6. ASSUME NEW i \in 1 .. Len(t[x].child)
          PROVE  /\ t[x].child[i] \in U
                 /\ k[t[x].child[i]] + 1 = k[x] /\ u[t[x].child[i]].parent = x
      <3> DEFINE y == t[x].child[i]
      <3>1. y \in T \ GG /\ h[y] + 1 = h[x] /\ t[y].parent = x
        BY <1>1, <2>5
      <3> HIDE DEF y
      <3>2. y \in U /\ k[y] = h[y]
        BY <1>20, <3>1
      <3>3. u[y].parent = x
        BY <1>27, <3>1 DEF Reparented
      <3> QED BY <2>2, <3>1, <3>2, <3>3 DEF y
    <2>7. Downward(u, U, k, x)
      BY <2>1, <2>6 DEF Downward
    <2>8. Under(F, t[x].child) = Under(E, t[x].child)
      BY <1>20, <2>5 DEF Under
    <2>9. Parts(u, F, x) = Parts(t, E, x)
      BY <2>1, <2>8 DEF Parts
    <2>10. Ordered(u, F, x)
      BY <2>2, <2>3, <2>9 DEF Sound, Ordered
    <2> QED BY <2>4, <2>7, <2>10 DEF Sound
  <1>30. ASSUME NEW x \in T \ GG PROVE Upward(u, U, k, x)
    <2>1. Upward(t, T, h, x) /\ x \in U /\ k[x] = h[x] /\ k[root] = h[root]
      BY <1>7, <1>9, <1>20, <1>23
    <2>2. CASE x = root
      <3>1. t[root].parent = NULL
        BY <2>1, <2>2 DEF Upward
      <3>2. NULL \notin GG
        BY <1>8, <1>22
      <3>3. u[root].parent = NULL
        BY <1>27, <2>2, <3>1, <3>2 DEF Reparented
      <3> QED BY <2>2, <3>3 DEF Upward
    <2>3. CASE x # root /\ t[x].parent \in GG
      <3>1. u[x].parent \in HH /\ ListedIn(u, u[x].parent, x)
        BY <1>27, <2>3 DEF Reparented
      <3>2. h[x] < h[root]
        BY <2>1, <2>3 DEF Upward
      <3> QED BY <1>20, <2>1, <2>3, <3>1, <3>2 DEF Upward, ListedIn
    <2>4. CASE x # root /\ t[x].parent \notin GG
      <3> DEFINE y == t[x].parent
      <3>1. y \in T \ GG /\ u[x].parent = y /\ h[x] < h[root] /\ ListedIn(t, y, x)
        BY <1>27, <2>1, <2>4 DEF Upward, Reparented, ListedIn
      <3> HIDE DEF y
      <3>2. ListedIn(u, y, x)
        <4>1. CASE y = p
          <5>1. x \in Members(c)
            BY <3>1, <4>1 DEF ListedIn, Members, c
          <5>2. x \in AB
            BY <1>14, <5>1
          <5> QED BY <1>18, <4>1, <5>2 DEF ListedIn, d
        <4>2. CASE y # p
          <5>1. u[y].child = t[y].child
            BY <1>27, <3>1, <4>2 DEF Kept
          <5> QED BY <3>1, <5>1 DEF ListedIn
        <4> QED BY <4>1, <4>2
      <3>3. y \in U
        BY <1>20, <3>1
      <3> QED BY <2>1, <2>4, <3>1, <3>2, <3>3 DEF Upward, ListedIn
    <2> QED BY <2>2, <2>3, <2>4
  <1>31. ASSUME NEW x \in HH PROVE Sound(u, U, k, F, x) /\ Upward(u, U, k, x)
    <2>1. k[x] + 1 = h[p] /\ u[x].parent = p /\ x # root /\ Sound(u, U, k, F, x)
      BY <1>24, <1>27 DEF Below
    <2>2. k[x] \in Nat
      BY <1>20
    <2>3. h[p] <= h[root] /\ k[root] = h[root] /\ h[p] \in Nat /\ h[root] \in Nat
      <3>1. p # root => h[p] < h[root]
        BY <1>1, <1>9 DEF Upward
      <3> QED BY <1>1, <1>7, <1>20, <1>23, <3>1
    <2>4. k[x] < k[root]
      BY <2>1, <2>2, <2>3
    <2> QED BY <1>17, <1>24, <2>1, <2>4 DEF Upward, d
  <1>32. \A x \in U : Sound(u, U, k, F, x) /\ Upward(u, U, k, x)
    BY <1>1, <1>20, <1>28, <1>29, <1>30, <1>31
  <1> QED BY <1>3, <1>20, <1>24, <1>32 DEF Shape

-----------------------------------------------------------------------------
(***************************************************************************)
(* Trees: parents, levels, and which entries are below which node.         *)
(***************************************************************************)

(* A heap with a tree in it.                                               *)
Tree(t, T, h, E) == Heap(t) /\ Shape(t, T, h, E)

(* What a tree has, each part by itself.                                   *)
LEMMA TreeTypes ==
    ASSUME NEW t, NEW T, NEW h, NEW E, Tree(t, T, h, E)
    PROVE  /\ Heap(t) /\ T \subseteq DOMAIN t /\ root \in T /\ root \in DOMAIN t
           /\ h \in [T -> Nat] /\ E \in [T -> SUBSET Entry]
           /\ DOMAIN t \subseteq Nat \ {NULL} /\ NULL \notin T
           /\ \A a \in T : Kind(t, h, a) /\ Downward(t, T, h, a) /\ Ordered(t, E, a)
           /\ \A a \in T : Upward(t, T, h, a)
  <1>1. DOMAIN t \subseteq Nat \ {NULL}
    <2>1. Pool \subseteq Nat \ {NULL} /\ root \in Nat \ {NULL}
      BY BPTreeAssumption DEF NULL, root
    <2> QED BY <2>1 DEF Tree, Heap
  <1> QED BY <1>1 DEF Tree, Shape, Sound, Heap

(* A node below another one.                                               *)
LEMMA ChildOf ==
    ASSUME NEW t, NEW T, NEW h, NEW E, Tree(t, T, h, E),
           NEW a \in T, NEW i \in 1 .. Len(t[a].child), NEW c, c = t[a].child[i]
    PROVE  /\ c \in T /\ c # root /\ h[c] \in Nat /\ h[c] + 1 = h[a] /\ t[c].parent = a
           /\ ~t[a].leaf /\ E[c] # {} /\ E[c] \subseteq E[a]
  <1>1. /\ T \subseteq DOMAIN t /\ root \in T /\ h \in [T -> Nat] /\ NULL \notin T
        /\ Kind(t, h, a) /\ Downward(t, T, h, a) /\ Upward(t, T, h, root)
    BY TreeTypes
  <1>2. c \in T /\ h[c] + 1 = h[a] /\ t[c].parent = a
    BY <1>1 DEF Downward
  <1>3. c # root
    BY <1>1, <1>2 DEF Upward
  <1>4. ~t[a].leaf
    <2>1. h[c] \in Nat /\ h[a] # 0
      BY <1>1, <1>2
    <2> QED BY <1>1, <2>1 DEF Kind
  <1>5. /\ Under(E, t[a].child) \in Seq(SUBSET Entry)
        /\ Len(Under(E, t[a].child)) = Len(t[a].child)
        /\ E[t[a].child[i]] # {}
        /\ E[a] = Whole(Under(E, t[a].child))
    <2>1. Heap(t) /\ Shape(t, T, h, E)
      BY DEF Tree
    <2>2. Under(E, t[a].child) \in Seq(SUBSET Entry)
      BY <2>1, Children
    <2>3. Len(Under(E, t[a].child)) = Len(t[a].child)
      BY <2>1, Children
    <2>4. \A j \in 1 .. Len(t[a].child) : E[t[a].child[j]] # {}
      BY <2>1, Children
    <2>5. ~t[a].leaf => E[a] = Whole(Under(E, t[a].child))
      BY <2>1, Children
    <2> QED BY <1>4, <2>2, <2>3, <2>4, <2>5
  <1>6. Under(E, t[a].child)[i] = E[c]
    BY DEF Under
  <1>7. E[c] \subseteq E[a]
    BY <1>5, <1>6 DEF Whole
  <1> QED BY <1>1, <1>2, <1>3, <1>4, <1>5, <1>7

(* The parent pointer of every node but the root leads one level up, to a  *)
(* node below which all its entries are.                                   *)
LEMMA ParentOf ==
    ASSUME NEW t, NEW T, NEW h, NEW E, Tree(t, T, h, E), NEW a \in T, a # root,
           NEW p, p = t[a].parent
    PROVE  /\ p \in T /\ p # NULL /\ ~t[p].leaf /\ h[a] + 1 = h[p] /\ h[a] < h[root]
           /\ h[a] \in Nat /\ h[p] \in Nat /\ h[root] \in Nat
           /\ E[a] # {} /\ E[a] \subseteq E[p]
           /\ \E i \in 1 .. Len(t[p].child) : t[p].child[i] = a
  <1>1. /\ root \in T /\ h \in [T -> Nat] /\ NULL \notin T /\ Upward(t, T, h, a)
    BY TreeTypes
  <1>2. p \in T /\ h[a] < h[root] /\ \E i \in 1 .. Len(t[p].child) : t[p].child[i] = a
    BY <1>1 DEF Upward
  <1>3. PICK i \in 1 .. Len(t[p].child) : t[p].child[i] = a
    BY <1>2
  <1>4. /\ h[a] + 1 = h[p] /\ ~t[p].leaf /\ E[a] # {} /\ E[a] \subseteq E[p]
    BY <1>2, <1>3, ChildOf
  <1> QED BY <1>1, <1>2, <1>4

(* What holds of the root, and of a node if of its parent, holds of all.   *)
LEMMA Downwards ==
    ASSUME NEW t, NEW T, NEW h, NEW E, Tree(t, T, h, E),
           NEW S, root \in S, \A a \in T : a # root /\ t[a].parent \in S => a \in S
    PROVE  T \subseteq S
  <1>1. root \in T /\ h \in [T -> Nat]
    BY TreeTypes
  <1> DEFINE N == {n \in Nat : \A a \in T : h[a] + n = h[root] => a \in S}
  <1>2. 0 \in N
    <2> SUFFICES ASSUME NEW a \in T, h[a] + 0 = h[root] PROVE a \in S
      OBVIOUS
    <2>1. h[a] \in Nat /\ h[root] \in Nat /\ ~(h[a] < h[root])
      BY <1>1
    <2>2. a # root => h[a] < h[root]
      BY ParentOf
    <2> QED BY <2>1, <2>2
  <1>3. ASSUME NEW n \in Nat, n \in N PROVE n + 1 \in N
    <2> SUFFICES ASSUME NEW a \in T, h[a] + (n + 1) = h[root] PROVE a \in S
      OBVIOUS
    <2>1. CASE a = root
      BY <2>1
    <2>2. CASE a # root
      <3> DEFINE p == t[a].parent
      <3>1. p \in T /\ h[a] + 1 = h[p] /\ h[a] \in Nat
        BY <2>2, ParentOf
      <3>2. h[p] + n = h[root]
        BY <1>1, <3>1
      <3>3. p \in S
        BY <1>3, <3>1, <3>2
      <3> QED BY <2>2, <3>3
    <2> QED BY <2>1, <2>2
  <1>4. \A n \in Nat : n \in N
    <2> HIDE DEF N
    <2> QED BY <1>2, <1>3, SetInduction
  <1>5. ASSUME NEW a \in T PROVE a \in S
    <2>1. h[a] \in Nat /\ h[root] \in Nat /\ h[a] <= h[root]
      <3>1. a # root => h[a] < h[root]
        BY ParentOf
      <3> QED BY <1>1, <3>1
    <2>2. h[root] - h[a] \in Nat /\ h[a] + (h[root] - h[a]) = h[root]
      BY <2>1
    <2> QED BY <1>4, <2>2
  <1> QED BY <1>5

(* All entries of the tree are below the root, which is the highest.       *)
LEMMA InRoot ==
    ASSUME NEW t, NEW T, NEW h, NEW E, Tree(t, T, h, E)
    PROVE  \A a \in T : E[a] \subseteq E[root] /\ h[a] <= h[root]
  <1>1. root \in T /\ h \in [T -> Nat]
    BY TreeTypes
  <1> DEFINE S == {a \in T : E[a] \subseteq E[root] /\ h[a] <= h[root]}
  <1>2. root \in S
    <2>1. h[root] \in Nat
      BY <1>1
    <2> QED BY <1>1, <2>1
  <1>3. ASSUME NEW a \in T, a # root, t[a].parent \in S PROVE a \in S
    BY <1>3, ParentOf
  <1>4. T \subseteq S
    <2> HIDE DEF S
    <2> QED BY <1>2, <1>3, Downwards
  <1> QED BY <1>4

(* Two nodes of one height are in order.                                   *)
Aside(E, a, b) == Less(E[a], E[b]) \/ Less(E[b], E[a])

(* Of two nodes of one level, one has the lesser entries.                  *)
LEMMA LevelOrder ==
    ASSUME NEW t, NEW T, NEW h, NEW E, Tree(t, T, h, E)
    PROVE  \A a, b \in T : h[a] = h[b] /\ a # b => Aside(E, a, b)
  <1>1. root \in T /\ h \in [T -> Nat]
    BY TreeTypes
  <1> DEFINE S == {a \in T : \A b \in T : h[a] = h[b] /\ a # b => Aside(E, a, b)}
  <1>2. root \in S
    <2> SUFFICES ASSUME NEW b \in T, h[root] = h[b] /\ root # b PROVE FALSE
      BY <1>1
    <2>1. h[b] < h[root] /\ h[root] \in Nat
      BY ParentOf
    <2> QED BY <2>1
  <1>3. ASSUME NEW a \in T, a # root, t[a].parent \in S PROVE a \in S
    <2> SUFFICES ASSUME NEW b \in T, h[a] = h[b] /\ a # b PROVE Aside(E, a, b)
      OBVIOUS
    <2> DEFINE p == t[a].parent
               q == t[b].parent
    <2>1. /\ p \in T /\ h[a] + 1 = h[p] /\ E[a] \subseteq E[p] /\ h[a] < h[root]
          /\ \E i \in 1 .. Len(t[p].child) : t[p].child[i] = a
      BY <1>3, ParentOf
    <2>2. b # root
      <3>1. h[root] \in Nat /\ h[b] < h[root]
        BY <1>1, <2>1
      <3> QED BY <3>1
    <2>3. /\ q \in T /\ h[b] + 1 = h[q] /\ E[b] \subseteq E[q]
          /\ \E i \in 1 .. Len(t[q].child) : t[q].child[i] = b
      BY <2>2, ParentOf
    <2>4. h[p] = h[q]
      BY <2>1, <2>3
    <2>5. p \in S
      BY <1>3
    <2> HIDE DEF p, q, S
    <2>6. CASE p = q
      <3>1. PICK i \in 1 .. Len(t[p].child) : t[p].child[i] = a
        BY <2>1
      <3>2. PICK j \in 1 .. Len(t[p].child) : t[p].child[j] = b
        BY <2>3, <2>6
      <3>3. \A m, n \in 1 .. Len(t[p].child) : m < n => Less(E[t[p].child[m]], E[t[p].child[n]])
        BY <2>1, Children DEF Tree
      <3>4. i < j \/ j < i
        <4>1. i # j /\ i \in Int /\ j \in Int
          BY <3>1, <3>2
        <4> QED BY <4>1
      <3> QED BY <3>1, <3>2, <3>3, <3>4 DEF Aside
    <2>7. CASE p # q
      <3>1. Aside(E, p, q)
        BY <2>3, <2>4, <2>5, <2>7 DEF S
      <3> QED BY <2>1, <2>3, <3>1 DEF Aside, Less
    <2> QED BY <2>6, <2>7
  <1>4. T \subseteq S
    <2> HIDE DEF S
    <2> QED BY <1>2, <1>3, Downwards
  <1> QED BY <1>4

(* A node is below another one of no less height, or aside of it.          *)
LEMMA Laminar ==
    ASSUME NEW t, NEW T, NEW h, NEW E, Tree(t, T, h, E)
    PROVE  \A a, b \in T : h[a] <= h[b] => E[a] \subseteq E[b] \/ Aside(E, a, b)
  <1>1. root \in T /\ h \in [T -> Nat]
    BY TreeTypes
  <1> DEFINE S == {a \in T : \A b \in T : h[a] <= h[b] => E[a] \subseteq E[b] \/ Aside(E, a, b)}
  <1>2. root \in S
    <2> SUFFICES ASSUME NEW b \in T, h[root] <= h[b] PROVE root = b
      BY <1>1
    <2>1. h[b] \in Nat /\ h[root] \in Nat
      BY <1>1
    <2>2. b # root => h[b] < h[root]
      BY ParentOf
    <2> QED BY <2>1, <2>2
  <1>3. ASSUME NEW a \in T, a # root, t[a].parent \in S PROVE a \in S
    <2> SUFFICES ASSUME NEW b \in T, h[a] <= h[b] PROVE E[a] \subseteq E[b] \/ Aside(E, a, b)
      OBVIOUS
    <2> DEFINE p == t[a].parent
    <2>1. /\ p \in T /\ h[a] + 1 = h[p] /\ E[a] \subseteq E[p] /\ h[a] \in Nat
      BY <1>3, ParentOf
    <2>2. p \in S
      BY <1>3
    <2> HIDE DEF p, S
    <2>3. CASE h[a] = h[b]
      BY <2>3, LevelOrder
    <2>4. CASE h[a] # h[b]
      <3>1. h[p] <= h[b]
        BY <1>1, <2>1, <2>4
      <3>2. E[p] \subseteq E[b] \/ Aside(E, p, b)
        BY <2>2, <3>1 DEF S
      <3> QED BY <2>1, <3>2 DEF Aside, Less
    <2> QED BY <2>3, <2>4
  <1>4. T \subseteq S
    <2> HIDE DEF S
    <2> QED BY <1>2, <1>3, Downwards
  <1> QED BY <1>4

-----------------------------------------------------------------------------
(***************************************************************************)
(* How the operators of the model walk through a tree: search_leaf,        *)
(* min_key, the levels.                                                    *)
(***************************************************************************)

(* A tree has more nodes than levels, so that a path down or up ends       *)
(* within Rounds(t) steps.                                                 *)
LEMMA Tall ==
    ASSUME NEW t, NEW T, NEW h, NEW E, Tree(t, T, h, E)
    PROVE  Rounds(t) \in Nat /\ h[root] < Rounds(t) /\ h[root] \in Nat
  <1>1. /\ root \in T /\ h \in [T -> Nat] /\ T \subseteq DOMAIN t /\ Heap(t)
        /\ \A a \in T : Kind(t, h, a)
    BY TreeTypes
  <1>2. IsFiniteSet(DOMAIN t)
    BY <1>1 DEF Heap
  <1>3. IsFiniteSet(T) /\ Cardinality(T) <= Rounds(t) /\ Rounds(t) \in Nat /\ Cardinality(T) \in Nat
    BY <1>1, <1>2, FS_Subset, FS_CardinalityType DEF Rounds
  <1> DEFINE N == {n \in Nat : n <= h[root] => \E a \in T : h[a] + n = h[root]}
  <1>4. 0 \in N
    <2>1. h[root] + 0 = h[root]
      BY <1>1
    <2> QED BY <1>1, <2>1
  <1>5. ASSUME NEW n \in Nat, n \in N PROVE n + 1 \in N
    <2> SUFFICES ASSUME n + 1 <= h[root] PROVE \E a \in T : h[a] + (n + 1) = h[root]
      OBVIOUS
    <2>1. n <= h[root]
      BY <1>1
    <2>2. PICK a \in T : h[a] + n = h[root]
      BY <1>5, <2>1
    <2>3. h[a] # 0
      BY <1>1, <2>2
    <2>4. t[a].child # <<>> /\ t[a].child \in Seq(T)
      BY <1>1, <2>3, Children DEF Kind, Tree
    <2> DEFINE q == t[a].child
               c == q[1]
    <2>5. 1 \in 1 .. Len(q)
      <3> HIDE DEF q
      <3>1. q # <<>> /\ q \in Seq(T)
        BY <2>4 DEF q
      <3> QED BY <3>1
    <2>6. c \in T /\ h[c] + 1 = h[a]
      BY <2>5, ChildOf
    <2>7. h[c] + (n + 1) = h[root]
      BY <1>1, <2>2, <2>6
    <2> QED BY <2>6, <2>7
  <1>6. \A n \in Nat : n \in N
    <2> HIDE DEF N
    <2> QED BY <1>4, <1>5, SetInduction
  <1> DEFINE R == {h[a] : a \in T}
  <1>7. h \in Surjection(T, R)
    BY <1>1 DEF Surjection
  <1>8. IsFiniteSet(R) /\ Cardinality(R) <= Cardinality(T)
    <2> HIDE DEF R
    <2> QED BY <1>3, <1>7, FS_Surjection
  <1>9. 0 .. h[root] \in SUBSET R
    <2> SUFFICES ASSUME NEW m \in 0 .. h[root] PROVE m \in R
      OBVIOUS
    <2>1. h[root] - m \in Nat /\ h[root] - m <= h[root]
      BY <1>1
    <2>2. PICK a \in T : h[a] + (h[root] - m) = h[root]
      BY <1>6, <2>1
    <2>3. h[a] = m
      BY <1>1, <2>2
    <2> QED BY <2>3
  <1> HIDE DEF R
  <1>10. Cardinality(0 .. h[root]) <= Cardinality(R) /\ Cardinality(R) \in Nat
    BY <1>8, <1>9, FS_Subset, FS_CardinalityType
  <1>11. Cardinality(0 .. h[root]) = h[root] + 1
    <2>1. 0 \in Int /\ h[root] \in Int /\ ~(0 > h[root])
      BY <1>1
    <2>2. Cardinality(0 .. h[root]) = h[root] - 0 + 1
      BY <2>1, FS_Interval
    <2> QED BY <1>1, <2>2
  <1>12. h[root] \in Nat
    BY <1>1
  <1> QED BY <1>3, <1>8, <1>10, <1>11, <1>12

(* Where a search for k goes on below a.                                   *)
TowardAt(t, E, a, k, i) ==
    /\ i \in 1 .. Len(t[a].child) /\ Toward(t, a, k) = t[a].child[i]
    /\ i > 1 => t[a].key[i - 1] <= k
    /\ i <= Len(t[a].key) => k < t[a].key[i]
    /\ \A j \in 1 .. Len(t[a].child) :
          /\ j < i => \A x \in E[t[a].child[j]] : x.fnv < k
          /\ i < j => \A x \in E[t[a].child[j]] : k < x.fnv

(* The first key that is larger than k, or 0.                              *)
LEMMA LargerOf ==
    ASSUME NEW s \in Seq(Nat), NEW k \in Nat, NEW n, n = SelectInSeq(s, LAMBDA x : k < x)
    PROVE  \/ n = 0 /\ \A j \in 1 .. Len(s) : s[j] <= k
           \/ n \in 1 .. Len(s) /\ k < s[n] /\ \A j \in 1 .. n - 1 : s[j] <= k
  <1> DEFINE I == {i \in 1 .. Len(s) : k < s[i]}
  <1>1. n = IF I # {} THEN Min(I) ELSE 0
    BY DEF SelectInSeq
  <1>2. CASE I = {}
    <2>1. n = 0
      BY <1>1, <1>2
    <2>2. \A j \in 1 .. Len(s) : s[j] \in Nat /\ ~(k < s[j])
      BY <1>2
    <2>3. \A j \in 1 .. Len(s) : s[j] <= k
      BY <2>2
    <2> QED BY <2>1, <2>3
  <1>3. CASE I # {}
    <2>1. I \subseteq Nat
      OBVIOUS
    <2>2. n \in I /\ \A y \in I : n <= y
      <3> HIDE DEF I
      <3> QED BY <1>1, <1>3, <2>1, MinOf
    <2>3. ASSUME NEW j \in 1 .. n - 1 PROVE s[j] <= k
      <3>1. j \in 1 .. Len(s) /\ ~(n <= j)
        BY <2>2
      <3>2. ~(k < s[j])
        BY <2>2, <3>1
      <3> QED BY <3>1, <3>2
    <2> QED BY <2>2, <2>3
  <1> QED BY <1>2, <1>3

(* The child search_leaf goes to is the one below which the hash belongs.  *)
LEMMA TowardOf ==
    ASSUME NEW t, NEW T, NEW h, NEW E, Tree(t, T, h, E), Keyed(t, T, E),
           NEW a \in T, ~t[a].leaf, NEW k \in Nat
    PROVE  \E i : TowardAt(t, E, a, k, i)
  <1>1. /\ t[a].key \in Seq(Nat) /\ t[a].child \in Seq(T) /\ KeyedAt(t, E, a)
        /\ E \in [T -> SUBSET Entry]
    <2>1. Heap(t) /\ a \in DOMAIN t /\ E \in [T -> SUBSET Entry]
      BY TreeTypes
    <2>2. t[a].key \in Seq(Nat)
      BY <2>1, NodeTypes
    <2>3. t[a].child \in Seq(T)
      BY Children DEF Tree
    <2> QED BY <2>1, <2>2, <2>3 DEF Keyed
  <1>2. /\ \A j \in 1 .. Len(t[a].child) : E[t[a].child[j]] # {}
        /\ \A i, j \in 1 .. Len(t[a].child) : i < j => Less(E[t[a].child[i]], E[t[a].child[j]])
    <2>1. Heap(t) /\ Shape(t, T, h, E)
      BY DEF Tree
    <2>2. \A j \in 1 .. Len(t[a].child) : E[t[a].child[j]] # {}
      BY ChildOf
    <2>3. \A i, j \in 1 .. Len(t[a].child) : i < j => Less(E[t[a].child[i]], E[t[a].child[j]])
      BY <2>1, Children
    <2> QED BY <2>2, <2>3
  <1> DEFINE q == t[a].child
             s == t[a].key
             larger == SelectInSeq(s, LAMBDA x : k < x)
             i == IF larger = 0 THEN Len(s) + 1 ELSE larger
  <1>3. Toward(t, a, k) = q[i]
    BY DEF Toward
  <1> HIDE DEF q, s
  <1>4. /\ s \in Seq(Nat) /\ q \in Seq(T) /\ Len(s) + 1 = Len(q)
        /\ \A j \in 1 .. Len(s) : /\ \A x \in E[q[j]] : x.fnv < s[j]
                                  /\ \A x \in E[q[j + 1]] : s[j] <= x.fnv
        /\ \A j \in 1 .. Len(q) : E[q[j]] # {} /\ E[q[j]] \subseteq Entry
        /\ \A m, j \in 1 .. Len(q) : m < j => Less(E[q[m]], E[q[j]])
    BY <1>1, <1>2 DEF KeyedAt, q, s
  <1>5. \/ larger = 0 /\ \A j \in 1 .. Len(s) : s[j] <= k
        \/ larger \in 1 .. Len(s) /\ k < s[larger] /\ \A j \in 1 .. larger - 1 : s[j] <= k
    <2> HIDE DEF larger
    <2>1. larger = SelectInSeq(s, LAMBDA x : k < x)
      BY DEF larger
    <2> QED BY <1>4, <2>1, LargerOf
  <1>6. /\ i \in 1 .. Len(q) /\ (i <= Len(s) => k < s[i])
        /\ \A j \in 1 .. i - 1 : j \in 1 .. Len(s) /\ s[j] <= k
    <2> HIDE DEF larger
    <2>1. Len(s) \in Nat
      BY <1>4
    <2> QED BY <1>4, <1>5, <2>1, SMTT(30)
  <1> HIDE DEF larger, i
  <1>7. ASSUME NEW j \in 1 .. Len(q), j < i, NEW x \in E[q[j]] PROVE x.fnv < k
    <2>1. j \in 1 .. i - 1
      BY <1>6, <1>7
    <2>2. j \in 1 .. Len(s) /\ s[j] <= k /\ s[j] \in Nat
      BY <1>4, <1>6, <2>1
    <2>3. x.fnv < s[j] /\ x \in Entry
      BY <1>4, <2>2
    <2>4. x.fnv \in Nat
      BY <2>3 DEF Entry
    <2> QED BY <2>2, <2>3, <2>4
  <1>8. ASSUME NEW j \in 1 .. Len(q), i < j, NEW x \in E[q[j]] PROVE k < x.fnv
    <2>1. i \in 1 .. Len(s) /\ i + 1 \in 1 .. Len(q) /\ k < s[i] /\ s[i] \in Nat /\ x.fnv \in Nat
      <3>1. i \in 1 .. Len(s) /\ i + 1 \in 1 .. Len(q)
        BY <1>4, <1>6, <1>8
      <3>2. x \in Entry
        BY <1>4
      <3> QED BY <1>4, <1>6, <3>1, <3>2 DEF Entry
    <2>2. PICK y \in E[q[i + 1]] : TRUE
      BY <1>4, <2>1
    <2>3. s[i] <= y.fnv /\ y \in Entry
      BY <1>4, <2>1
    <2>4. y.fnv \in Nat
      BY <2>3 DEF Entry
    <2>5. CASE j = i + 1
      BY <1>4, <2>1, <2>5, SMTT(30)
    <2>6. CASE j # i + 1
      <3>1. i + 1 < j
        BY <1>6, <1>8, <2>6
      <3>2. y.fnv < x.fnv
        BY <1>4, <2>1, <3>1 DEF Less
      <3> QED BY <2>1, <2>3, <2>4, <3>2
    <2> QED BY <2>5, <2>6
  <1>9. i > 1 => s[i - 1] <= k
    <2>1. i > 1 => i - 1 \in 1 .. i - 1
      BY <1>6
    <2> QED BY <1>6, <2>1
  <1>10. \A j \in 1 .. Len(q) : /\ j < i => \A x \in E[q[j]] : x.fnv < k
                                /\ i < j => \A x \in E[q[j]] : k < x.fnv
    BY <1>7, <1>8
  <1>11. TowardAt(t, E, a, k, i)
    BY <1>3, <1>6, <1>9, <1>10 DEF TowardAt, q, s
  <1> QED BY <1>11

(* Down from x to a leaf, which is where it stays.                         *)
Descends(t, T, f) ==
    \A a \in T : /\ t[a].leaf => f[a] = a
                 /\ ~t[a].leaf => \E i \in 1 .. Len(t[a].child) : f[a] = t[a].child[i]

(* The way w of such a loop from x: down by one level in each round, then  *)
(* at the leaf.                                                            *)
Descent(t, T, h, E, f, x, w) ==
    /\ w[0] = x
    /\ \A n \in Nat : /\ w[n + 1] = f[w[n]]
                      /\ w[n] \in T /\ E[w[n]] \subseteq E[x]
                      /\ E[x] # {} => E[w[n]] # {}
                      /\ n <= h[x] => h[w[n]] + n = h[x]
                      /\ h[x] <= n => h[w[n]] = 0 /\ t[w[n]].leaf /\ w[n] = w[h[x]]

(* A loop that goes from a node to one of its children reaches a leaf and  *)
(* stays there.                                                            *)
LEMMA DescentOf ==
    ASSUME NEW t, NEW T, NEW h, NEW E, Tree(t, T, h, E), NEW f, Descends(t, T, f),
           NEW x \in T, NEW w, w = [n \in Nat |-> Repeated(f, x, n)]
    PROVE  Descent(t, T, h, E, f, x, w)
  <1>1. w[0] = x /\ \A n \in Nat : w[n + 1] = f[w[n]]
    BY RepeatedOf
  <1>2. h \in [T -> Nat] /\ \A a \in T : Kind(t, h, a)
    BY TreeTypes
  <1>3. ASSUME NEW a \in T, h[a] # 0
        PROVE  f[a] \in T /\ h[f[a]] \in Nat /\ h[f[a]] + 1 = h[a] /\ E[f[a]] # {} /\ E[f[a]] \subseteq E[a]
    <2>1. PICK i \in 1 .. Len(t[a].child) : f[a] = t[a].child[i]
      BY <1>2, <1>3 DEF Descends, Kind
    <2> QED BY <2>1, ChildOf
  <1>4. ASSUME NEW a \in T, h[a] = 0 PROVE f[a] = a /\ t[a].leaf
    BY <1>2, <1>4 DEF Descends, Kind
  <1> DEFINE N == {n \in Nat : /\ w[n] \in T /\ E[w[n]] \subseteq E[x]
                               /\ E[x] # {} => E[w[n]] # {}
                               /\ n <= h[x] => h[w[n]] + n = h[x]
                               /\ h[x] <= n => h[w[n]] = 0 /\ w[n] = w[h[x]]}
  <1>5. 0 \in N
    BY <1>1, <1>2
  <1>6. ASSUME NEW n \in Nat, n \in N PROVE n + 1 \in N
    <2> DEFINE a == w[n]
               b == w[n + 1]
    <2>1. /\ a \in T /\ E[a] \subseteq E[x] /\ (E[x] # {} => E[a] # {}) /\ b = f[a]
          /\ n <= h[x] => h[a] + n = h[x]
          /\ h[x] <= n => h[a] = 0 /\ a = w[h[x]]
          /\ h[a] \in Nat /\ h[x] \in Nat
      BY <1>1, <1>2, <1>6
    <2>2. CASE n < h[x]
      <3>1. h[a] # 0 /\ h[a] + n = h[x]
        BY <2>1, <2>2
      <3>2. b \in T /\ h[b] \in Nat /\ h[b] + 1 = h[a] /\ E[b] # {} /\ E[b] \subseteq E[a]
        BY <1>3, <2>1, <3>1
      <3>3. h[b] + (n + 1) = h[x]
        BY <3>1, <3>2
      <3>4. h[x] <= n + 1 => n + 1 = h[x] /\ h[b] = 0
        BY <2>1, <3>2, <3>3
      <3>5. b \in T /\ E[b] \subseteq E[x] /\ (E[x] # {} => E[b] # {})
        BY <2>1, <3>2
      <3>6. h[x] <= n + 1 => b = w[h[x]]
        BY <3>4
      <3> QED BY <3>3, <3>4, <3>5, <3>6
    <2>3. CASE ~(n < h[x])
      <3>1. h[x] <= n
        BY <2>1, <2>3
      <3>2. b = a /\ h[b] = 0 /\ b = w[h[x]]
        BY <1>4, <2>1, <3>1
      <3>3. ~(n + 1 <= h[x])
        BY <2>1, <2>3
      <3> QED BY <2>1, <3>2, <3>3
    <2> QED BY <2>2, <2>3
  <1>7. \A n \in Nat : n \in N
    <2> HIDE DEF N
    <2> QED BY <1>5, <1>6, SetInduction
  <1> QED BY <1>1, <1>4, <1>7 DEF Descent

(* The nodes a search for k passes, of which l is the leaf.                *)
Path(t, T, E, k, P, l) ==
    /\ P \subseteq T /\ root \in P /\ l \in P /\ t[l].leaf
    /\ \A a \in P : t[a].leaf => a = l
    /\ \A a \in P : a # root => t[a].parent \in P
    /\ \A a \in P : ~t[a].leaf =>
          \E i : /\ TowardAt(t, E, a, k, i)
                 /\ t[a].child[i] \in P
                 /\ \A j \in 1 .. Len(t[a].child) : t[a].child[j] \in P => j = i
    /\ \A a \in P : \A e \in E[root] : e.fnv = k => e \in E[a]

(* search_leaf reaches the leaf where the hash belongs, and below every    *)
(* node on its way are all the entries with that hash.                     *)
LEMMA PathOf ==
    ASSUME NEW t, NEW T, NEW h, NEW E, Tree(t, T, h, E), Keyed(t, T, E), NEW k \in Nat
    PROVE  \E P : Path(t, T, E, k, P, search_leaf(t, k))
  <1> DEFINE f == [a \in DOMAIN t |-> Toward(t, a, k)]
             w == [n \in Nat |-> Repeated(f, root, n)]
             l == search_leaf(t, k)
             P == {w[n] : n \in 0 .. h[root]}
  <1>1. /\ root \in T /\ h \in [T -> Nat] /\ T \subseteq DOMAIN t /\ E \in [T -> SUBSET Entry]
        /\ \A a \in T : Kind(t, h, a) /\ Ordered(t, E, a)
    BY TreeTypes
  <1>2. \A a \in T : ~t[a].leaf => \E i : TowardAt(t, E, a, k, i)
    BY TowardOf
  <1>3. \A a \in T : f[a] = Toward(t, a, k)
    BY <1>1
  <1>4. Descends(t, T, f)
    <2>1. \A a \in T : t[a].leaf => Toward(t, a, k) = a
      BY DEF Toward
    <2> HIDE DEF f
    <2> QED BY <1>2, <1>3, <2>1 DEF Descends, TowardAt
  <1>5. Descent(t, T, h, E, f, root, w)
    <2> HIDE DEF f
    <2> QED BY <1>1, <1>4, DescentOf
  <1>6. Rounds(t) \in Nat /\ h[root] < Rounds(t) /\ h[root] \in Nat
    BY Tall
  <1>7. l = w[Rounds(t)]
    BY <1>6 DEF search_leaf
  <1> HIDE DEF f, w, l
  <1>8. /\ w[0] = root
        /\ \A n \in Nat : /\ w[n + 1] = f[w[n]] /\ w[n] \in T
                          /\ n <= h[root] => h[w[n]] + n = h[root]
                          /\ h[root] <= n => t[w[n]].leaf /\ w[n] = w[h[root]]
    BY <1>5 DEF Descent
  <1>9. l = w[h[root]] /\ t[l].leaf
    BY <1>6, <1>7, <1>8
  <1>10. P \subseteq T /\ root \in P /\ l \in P
    BY <1>6, <1>8, <1>9
  <1>11. ASSUME NEW a \in P, NEW b \in P, h[a] = h[b] PROVE a = b
    <2>1. PICK m \in 0 .. h[root] : a = w[m]
      OBVIOUS
    <2>2. PICK n \in 0 .. h[root] : b = w[n]
      OBVIOUS
    <2>3. h[a] + m = h[root] /\ h[b] + n = h[root] /\ h[a] \in Nat /\ h[b] \in Nat
      BY <1>1, <1>6, <1>8, <1>10, <2>1, <2>2
    <2>4. m = n
      BY <1>6, <1>11, <2>3
    <2> QED BY <2>1, <2>2, <2>4
  <1>12. \A a \in P : t[a].leaf => a = l
    <2>1. \A a \in P : t[a].leaf => h[a] = h[l]
      BY <1>1, <1>9, <1>10 DEF Kind
    <2> QED BY <1>10, <1>11, <2>1
  <1>13. ASSUME NEW a \in P, ~t[a].leaf PROVE f[a] \in P
    <2>1. PICK m \in 0 .. h[root] : a = w[m]
      OBVIOUS
    <2>2. m # h[root]
      BY <1>9, <1>13, <2>1
    <2>3. m + 1 \in 0 .. h[root] /\ m \in Nat
      BY <1>6, <2>2
    <2>4. f[a] = w[m + 1]
      BY <1>8, <2>1, <2>3
    <2> QED BY <2>3, <2>4
  <1>14. ASSUME NEW a \in P, a # root PROVE t[a].parent \in P
    <2>1. PICK m \in 0 .. h[root] : a = w[m]
      OBVIOUS
    <2>2. m # 0
      BY <1>8, <1>14, <2>1
    <2>3. m - 1 \in 0 .. h[root] /\ m - 1 \in Nat /\ (m - 1) + 1 = m /\ m - 1 < h[root]
      BY <1>6, <2>2
    <2> DEFINE b == w[m - 1]
    <2>4. b \in T /\ h[b] + (m - 1) = h[root] /\ a = f[b] /\ b \in P
      BY <1>8, <2>1, <2>3
    <2>5. h[b] # 0
      BY <1>1, <1>6, <2>3, <2>4
    <2> HIDE DEF b
    <2>6. PICK i \in 1 .. Len(t[b].child) : a = t[b].child[i]
      BY <1>1, <1>4, <2>4, <2>5 DEF Descends, Kind
    <2>7. t[a].parent = b
      BY <2>4, <2>6, ChildOf
    <2> QED BY <2>4, <2>7
  <1> HIDE DEF P
  <1>15. ASSUME NEW a \in P, ~t[a].leaf
         PROVE  \E i : /\ TowardAt(t, E, a, k, i)
                       /\ t[a].child[i] \in P
                       /\ \A j \in 1 .. Len(t[a].child) : t[a].child[j] \in P => j = i
    <2>1. a \in T
      BY <1>10
    <2>2. PICK i : TowardAt(t, E, a, k, i)
      BY <1>2, <1>15, <2>1
    <2>3. i \in 1 .. Len(t[a].child) /\ f[a] = t[a].child[i]
      BY <1>3, <2>1, <2>2 DEF TowardAt
    <2>4. t[a].child[i] \in P
      BY <1>13, <1>15, <2>3
    <2>5. ASSUME NEW j \in 1 .. Len(t[a].child), t[a].child[j] \in P PROVE j = i
      <3>1. h[t[a].child[j]] + 1 = h[a] /\ h[t[a].child[j]] \in Nat
        BY <2>1, ChildOf
      <3>2. h[t[a].child[i]] + 1 = h[a] /\ h[t[a].child[i]] \in Nat
        BY <2>1, <2>3, ChildOf
      <3>3. h[t[a].child[j]] = h[t[a].child[i]]
        BY <3>1, <3>2
      <3>4. t[a].child[j] = t[a].child[i]
        BY <1>11, <2>4, <2>5, <3>3
      <3>5. \A m, n \in 1 .. Len(t[a].child) : t[a].child[m] = t[a].child[n] => m = n
        BY <2>1, Children DEF Tree
      <3> QED BY <2>3, <3>4, <3>5
    <2> QED BY <2>2, <2>4, <2>5
  <1> DEFINE M == {n \in Nat : \A e \in E[root] : e.fnv = k => e \in E[w[n]]}
  <1>16. 0 \in M
    BY <1>8
  <1>17. ASSUME NEW n \in Nat, n \in M PROVE n + 1 \in M
    <2> SUFFICES ASSUME NEW e \in E[root], e.fnv = k PROVE e \in E[w[n + 1]]
      OBVIOUS
    <2> DEFINE a == w[n]
    <2>1. a \in T /\ e \in E[a] /\ w[n + 1] = f[a]
      BY <1>8, <1>17
    <2> HIDE DEF a
    <2>2. CASE t[a].leaf
      BY <1>4, <2>1, <2>2 DEF Descends
    <2>3. CASE ~t[a].leaf
      <3>1. PICK i : TowardAt(t, E, a, k, i)
        BY <1>2, <2>1, <2>3
      <3>2. f[a] = t[a].child[i]
        BY <1>3, <2>1, <3>1 DEF TowardAt
      <3>3. E[a] = Whole(Under(E, t[a].child))
        BY <1>1, <2>1, <2>3 DEF Ordered, Parts
      <3>4. PICK j \in 1 .. Len(t[a].child) : e \in E[t[a].child[j]]
        <4>1. PICK j \in 1 .. Len(Under(E, t[a].child)) : e \in Under(E, t[a].child)[j]
          BY <2>1, <3>3 DEF Whole
        <4>2. Len(Under(E, t[a].child)) = Len(t[a].child)
          BY <2>1, Children DEF Tree
        <4>3. j \in 1 .. Len(t[a].child)
          BY <4>1, <4>2
        <4>4. Under(E, t[a].child)[j] = E[t[a].child[j]]
          BY <4>3 DEF Under
        <4> QED BY <4>1, <4>3, <4>4
      <3>5. i \in 1 .. Len(t[a].child) /\ (j < i => e.fnv < k) /\ (i < j => k < e.fnv)
        BY <3>1, <3>4 DEF TowardAt
      <3>6. i \in Int /\ j \in Int
        BY <3>5
      <3>7. i = j
        BY <2>1, <3>5, <3>6
      <3> QED BY <2>1, <3>2, <3>4, <3>7
    <2> QED BY <2>2, <2>3
  <1>18. \A n \in Nat : n \in M
    <2> HIDE DEF M
    <2> QED BY <1>16, <1>17, SetInduction
  <1>19. \A a \in P : \A e \in E[root] : e.fnv = k => e \in E[a]
    <2> SUFFICES ASSUME NEW a \in P PROVE \A e \in E[root] : e.fnv = k => e \in E[a]
      OBVIOUS
    <2>1. PICK n \in 0 .. h[root] : a = w[n]
      BY DEF P
    <2>2. n \in Nat
      BY <1>6
    <2> QED BY <1>18, <2>1, <2>2
  <1>20. Path(t, T, E, k, P, l)
    BY <1>9, <1>10, <1>12, <1>14, <1>15, <1>19 DEF Path
  <1> QED BY <1>20 DEF l

(* The parts of a leaf are its entries.                                    *)
LEMMA WholeEach ==
    ASSUME NEW s \in Seq(Entry)
    PROVE  /\ Whole(Each(s)) = Members(s)
           /\ Row(Each(s)) <=> \A i, j \in 1 .. Len(s) : i < j => s[i].fnv < s[j].fnv
  <1>1. Len(Each(s)) = Len(s) /\ \A i \in 1 .. Len(s) : Each(s)[i] = {s[i]}
    BY DEF Each
  <1>2. Whole(Each(s)) = Members(s)
    BY <1>1 DEF Whole, Members
  <1>3. Row(Each(s)) <=> \A i, j \in 1 .. Len(s) : i < j => s[i].fnv < s[j].fnv
    <2> DEFINE L == Each(s)
    <2> HIDE DEF L
    <2>1. Len(L) = Len(s) /\ \A i \in 1 .. Len(s) : L[i] = {s[i]}
      BY <1>1 DEF L
    <2>2. (\A i \in 1 .. Len(L) : L[i] # {}) <=> TRUE
      BY <2>1
    <2>3. \A i, j \in 1 .. Len(s) : Less(L[i], L[j]) <=> s[i].fnv < s[j].fnv
      BY <2>1 DEF Less
    <2>4. Row(L) <=> \A i, j \in 1 .. Len(s) : i < j => s[i].fnv < s[j].fnv
      BY <2>1, <2>2, <2>3 DEF Row
    <2> QED BY <2>4 DEF L
  <1> QED BY <1>2, <1>3

(* The entries of a leaf.                                                  *)
LEMMA LeafOf ==
    ASSUME NEW t, NEW T, NEW h, NEW E, Tree(t, T, h, E), NEW a \in T, t[a].leaf
    PROVE  /\ t[a].item \in Seq(Entry) /\ E[a] = Members(t[a].item) /\ h[a] = 0
           /\ \A i, j \in 1 .. Len(t[a].item) : i < j => t[a].item[i].fnv < t[a].item[j].fnv
  <1>1. Kind(t, h, a) /\ Ordered(t, E, a) /\ Heap(t) /\ a \in DOMAIN t
    BY TreeTypes
  <1>2. t[a].item \in Seq(Entry)
    BY <1>1, NodeTypes
  <1>3. Row(Each(t[a].item)) /\ E[a] = Whole(Each(t[a].item)) /\ h[a] = 0
    BY <1>1 DEF Kind, Ordered, Parts
  <1>4. Whole(Each(t[a].item)) = Members(t[a].item)
    BY <1>2, WholeEach
  <1>5. \A i, j \in 1 .. Len(t[a].item) : i < j => t[a].item[i].fnv < t[a].item[j].fnv
    BY <1>2, <1>3, WholeEach
  <1> QED BY <1>2, <1>3, <1>4, <1>5

(* The entries below an inner node are those below its children.           *)
LEMMA InnerOf ==
    ASSUME NEW t, NEW T, NEW h, NEW E, Tree(t, T, h, E), NEW a \in T, ~t[a].leaf
    PROVE  /\ t[a].child \in Seq(T) /\ Len(t[a].child) \in Nat /\ 1 \in 1 .. Len(t[a].child)
           /\ \A e \in E[a] : \E i \in 1 .. Len(t[a].child) : e \in E[t[a].child[i]]
           /\ \A i, j \in 1 .. Len(t[a].child) :
                 i < j => Less(E[t[a].child[i]], E[t[a].child[j]])
  <1>1. Kind(t, h, a) /\ Heap(t) /\ Shape(t, T, h, E)
    BY TreeTypes DEF Tree
  <1> DEFINE q == t[a].child
  <1>2. q \in Seq(T)
    BY <1>1, Children
  <1>3. q # <<>>
    BY <1>1 DEF Kind
  <1>4. \A i, j \in 1 .. Len(q) : i < j => Less(E[q[i]], E[q[j]])
    BY <1>1, Children
  <1>5. E[a] = Whole(Under(E, q))
    BY <1>1, Children
  <1> HIDE DEF q
  <1>6. Len(Under(E, q)) = Len(q) /\ \A i \in 1 .. Len(q) : Under(E, q)[i] = E[q[i]]
    BY <1>2 DEF Under
  <1>7. \A e \in E[a] : \E i \in 1 .. Len(q) : e \in E[q[i]]
    BY <1>5, <1>6 DEF Whole
  <1>8. Len(q) \in Nat /\ 1 \in 1 .. Len(q)
    BY <1>2, <1>3
  <1> QED BY <1>2, <1>4, <1>7, <1>8 DEF q

(* The least key below a node.                                             *)
LEMMA MinKeyOf ==
    ASSUME NEW t, NEW T, NEW h, NEW E, Tree(t, T, h, E), NEW a \in T, E[a] # {}
    PROVE  /\ min_key(t, a) \in Nat
           /\ \E e \in E[a] : e.fnv = min_key(t, a)
           /\ \A e \in E[a] : min_key(t, a) <= e.fnv
  <1> DEFINE f == [x \in DOMAIN t |-> IF t[x].leaf THEN x ELSE t[x].child[1]]
             w == [n \in Nat |-> Repeated(f, a, n)]
  <1>1. /\ root \in T /\ h \in [T -> Nat] /\ T \subseteq DOMAIN t /\ E \in [T -> SUBSET Entry]
        /\ h[a] <= h[root]
    BY TreeTypes, InRoot
  <1>2. \A x \in T : ~t[x].leaf => 1 \in 1 .. Len(t[x].child) /\ f[x] = t[x].child[1]
    <2> SUFFICES ASSUME NEW x \in T, ~t[x].leaf
                 PROVE  1 \in 1 .. Len(t[x].child) /\ f[x] = t[x].child[1]
      OBVIOUS
    <2>1. 1 \in 1 .. Len(t[x].child)
      BY InnerOf
    <2>2. f[x] = t[x].child[1]
      BY <1>1
    <2> QED BY <2>1, <2>2
  <1>3. \A x \in T : t[x].leaf => f[x] = x
    BY <1>1
  <1>4. Descends(t, T, f)
    <2> HIDE DEF f
    <2> QED BY <1>2, <1>3 DEF Descends
  <1>5. Descent(t, T, h, E, f, a, w)
    <2> HIDE DEF f
    <2> QED BY <1>4, DescentOf
  <1>6. Rounds(t) \in Nat /\ h[a] <= Rounds(t)
    <2>1. Rounds(t) \in Nat /\ h[root] < Rounds(t) /\ h[root] \in Nat /\ h[a] \in Nat
      BY <1>1, Tall
    <2> QED BY <1>1, <2>1
  <1> DEFINE l == w[Rounds(t)]
  <1>7. min_key(t, a) = t[l].item[1].fnv
    BY <1>6 DEF min_key
  <1> HIDE DEF f, w
  <1> DEFINE N == {n \in Nat : \A e \in E[a] : e \in E[w[n]] \/ \A y \in E[w[n]] : y.fnv < e.fnv}
  <1>8. 0 \in N
    BY <1>5 DEF Descent
  <1>9. ASSUME NEW n \in Nat, n \in N PROVE n + 1 \in N
    <2> SUFFICES ASSUME NEW e \in E[a]
                 PROVE  e \in E[w[n + 1]] \/ \A y \in E[w[n + 1]] : y.fnv < e.fnv
      OBVIOUS
    <2> DEFINE x == w[n]
    <2>1. x \in T /\ w[n + 1] = f[x] /\ (e \in E[x] \/ \A y \in E[x] : y.fnv < e.fnv)
      BY <1>5, <1>9 DEF Descent
    <2> HIDE DEF x
    <2>2. CASE t[x].leaf
      BY <1>3, <2>1, <2>2
    <2>3. CASE ~t[x].leaf
      <3> DEFINE c == t[x].child[1]
      <3>1. 1 \in 1 .. Len(t[x].child) /\ f[x] = c
        BY <1>2, <2>1, <2>3
      <3>2. E[c] \subseteq E[x]
        BY <2>1, <3>1, ChildOf
      <3>3. ASSUME e \in E[x] PROVE e \in E[c] \/ \A y \in E[c] : y.fnv < e.fnv
        <4>1. PICK i \in 1 .. Len(t[x].child) : e \in E[t[x].child[i]]
          BY <2>1, <2>3, <3>3, InnerOf
        <4>2. CASE i = 1
          BY <4>1, <4>2
        <4>3. CASE i # 1
          <5>1. 1 < i
            BY <4>1, <4>3
          <5>2. Less(E[c], E[t[x].child[i]])
            BY <2>1, <2>3, <3>1, <5>1, InnerOf
          <5> QED BY <4>1, <5>2 DEF Less
        <4> QED BY <4>2, <4>3
      <3>4. e \in E[c] \/ \A y \in E[c] : y.fnv < e.fnv
        BY <2>1, <3>2, <3>3
      <3> QED BY <2>1, <3>1, <3>4
    <2> QED BY <2>2, <2>3
  <1>10. \A n \in Nat : n \in N
    <2> HIDE DEF N
    <2> QED BY <1>8, <1>9, SetInduction
  <1>11. l \in T /\ t[l].leaf /\ E[l] \subseteq E[a] /\ E[l] # {}
    BY <1>5, <1>6 DEF Descent
  <1>12. \A e \in E[a] : e \in E[l] \/ \A y \in E[l] : y.fnv < e.fnv
    BY <1>6, <1>10
  <1> HIDE DEF l
  <1> DEFINE s == t[l].item
             e1 == s[1]
  <1>13. /\ s \in Seq(Entry) /\ E[l] = Members(s)
         /\ \A i, j \in 1 .. Len(s) : i < j => s[i].fnv < s[j].fnv
    BY <1>11, LeafOf
  <1> HIDE DEF s
  <1>14. 1 \in 1 .. Len(s)
    <2>1. PICK i \in 1 .. Len(s) : TRUE
      BY <1>11, <1>13 DEF Members
    <2> QED BY <1>13, <2>1
  <1>15. e1 \in E[l] /\ e1 \in Entry /\ e1.fnv \in Nat
    <2>1. e1 \in E[l] /\ e1 \in Entry
      BY <1>13, <1>14 DEF Members
    <2> HIDE DEF e1
    <2> QED BY <2>1 DEF Entry
  <1>16. ASSUME NEW e \in E[l] PROVE e1.fnv <= e.fnv
    <2>1. PICK i \in 1 .. Len(s) : e = s[i]
      BY <1>13 DEF Members
    <2>2. e \in Entry
      BY <1>13, <2>1
    <2>3. e.fnv \in Nat
      BY <2>2 DEF Entry
    <2>4. i = 1 \/ 1 < i
      BY <1>13, <2>1
    <2> QED BY <1>13, <1>14, <1>15, <2>1, <2>3, <2>4
  <1>17. ASSUME NEW e \in E[a] PROVE e1.fnv <= e.fnv
    <2>1. e \in Entry
      BY <1>1
    <2>2. e.fnv \in Nat
      BY <2>1 DEF Entry
    <2> QED BY <1>12, <1>15, <1>16, <2>2
  <1>18. min_key(t, a) = e1.fnv
    BY <1>7 DEF s
  <1> QED BY <1>11, <1>15, <1>17, <1>18

(* What holds of a node if it holds of its children holds of all.          *)
LEMMA Upwards ==
    ASSUME NEW t, NEW T, NEW h, NEW E, Tree(t, T, h, E), NEW S,
           \A a \in T : (\A i \in 1 .. Len(t[a].child) : t[a].child[i] \in S) => a \in S
    PROVE  T \subseteq S
  <1>1. h \in [T -> Nat]
    BY TreeTypes
  <1> DEFINE N == {n \in Nat : \A a \in T : h[a] < n => a \in S}
  <1>2. 0 \in N
    BY <1>1
  <1>3. ASSUME NEW n \in Nat, n \in N PROVE n + 1 \in N
    <2> SUFFICES ASSUME NEW a \in T, h[a] < n + 1 PROVE a \in S
      OBVIOUS
    <2>1. ASSUME NEW i \in 1 .. Len(t[a].child) PROVE t[a].child[i] \in S
      <3> DEFINE c == t[a].child[i]
      <3>1. c \in T /\ h[c] \in Nat /\ h[c] + 1 = h[a]
        BY ChildOf
      <3>2. h[c] < n
        BY <1>1, <3>1
      <3> QED BY <1>3, <3>1, <3>2
    <2> QED BY <2>1
  <1>4. \A n \in Nat : n \in N
    <2> HIDE DEF N
    <2> QED BY <1>2, <1>3, SetInduction
  <1>5. ASSUME NEW a \in T PROVE a \in S
    <2>1. h[a] + 1 \in Nat /\ h[a] < h[a] + 1
      BY <1>1
    <2> QED BY <1>4, <2>1
  <1> QED BY <1>5
-----------------------------------------------------------------------------
(* The tree, walked level by level.                                        *)
LEMMA ToSetOf == ASSUME NEW S, NEW s \in Seq(S) PROVE ToSet(s) = Members(s)
  BY DEF ToSet, Members

(* The nodes n steps below the root are those n levels lower.              *)
LEMMA LevelOf ==
    ASSUME NEW t, NEW T, NEW h, NEW E, Tree(t, T, h, E)
    PROVE  \A n \in Nat : Level(t, n) = {x \in T : h[x] + n = h[root]}
  <1> DEFINE below == [S \in SUBSET DOMAIN t |->
                          DOMAIN t \cap UNION {ToSet(t[a].child) : a \in S}]
             N == {n \in Nat : Level(t, n) = {x \in T : h[x] + n = h[root]}}
  <1>1. /\ root \in T /\ h \in [T -> Nat] /\ T \subseteq DOMAIN t
    BY TreeTypes
  <1>2. Level(t, 0) = {root} /\ \A n \in Nat : Level(t, n + 1) = below[Level(t, n)]
    <2> HIDE DEF below
    <2>1. \A n : Level(t, n) = Repeated(below, {root}, n)
      BY DEF Level, below
    <2> QED BY <2>1, RepeatedOf
  <1>3. 0 \in N
    <2>1. \A x \in T : h[x] + 0 = h[root] <=> x = root
      <3> SUFFICES ASSUME NEW x \in T, h[x] = h[root] PROVE x = root
        BY <1>1
      <3>1. x # root => h[x] < h[root]
        BY ParentOf
      <3> QED BY <1>1, <3>1
    <2> QED BY <1>1, <1>2, <2>1
  <1>4. ASSUME NEW n \in Nat, n \in N PROVE n + 1 \in N
    <2> DEFINE S == {x \in T : h[x] + n = h[root]}
    <2>1. Level(t, n + 1) = below[S]
      BY <1>2, <1>4
    <2>2. below[S] = DOMAIN t \cap UNION {ToSet(t[a].child) : a \in S}
      BY <1>1
    <2> HIDE DEF below
    <2>3. ASSUME NEW a \in S, NEW x \in ToSet(t[a].child) PROVE x \in T /\ h[x] + (n + 1) = h[root]
      <3>1. t[a].child \in Seq(T)
        BY Children DEF Tree
      <3>2. PICK i \in 1 .. Len(t[a].child) : x = t[a].child[i]
        BY <3>1, ToSetOf DEF Members
      <3>3. x \in T /\ h[x] \in Nat /\ h[x] + 1 = h[a]
        BY <3>2, ChildOf
      <3>4. h[a] + n = h[root] /\ h[root] \in Nat
        BY <1>1
      <3> QED BY <3>3, <3>4
    <2>4. ASSUME NEW x \in T, h[x] + (n + 1) = h[root] PROVE \E a \in S : x \in ToSet(t[a].child)
      <3> DEFINE a == t[x].parent
      <3>1. x # root
        BY <1>1, <2>4
      <3>2. /\ a \in T /\ h[x] + 1 = h[a] /\ h[x] \in Nat
            /\ \E i \in 1 .. Len(t[a].child) : t[a].child[i] = x
        BY <3>1, ParentOf
      <3> HIDE DEF a
      <3>3. t[a].child \in Seq(T)
        BY <3>2, Children DEF Tree
      <3>4. x \in ToSet(t[a].child)
        BY <3>2, <3>3, ToSetOf DEF Members
      <3>5. h[a] + n = h[root]
        BY <2>4, <3>2
      <3> QED BY <3>2, <3>4, <3>5
    <2> HIDE DEF S
    <2>5. below[S] = {x \in T : h[x] + (n + 1) = h[root]}
      BY <1>1, <2>2, <2>3, <2>4
    <2> QED BY <2>1, <2>5
  <1>5. \A n \in Nat : n \in N
    <2> HIDE DEF N
    <2> QED BY <1>3, <1>4, SetInduction
  <1> QED BY <1>5

(* The nodes that can be reached from the root are T, and the entries of   *)
(* its leaves those below the root.                                        *)
LEMMA InTreeOf ==
    ASSUME NEW t, NEW T, NEW h, NEW E, Tree(t, T, h, E)
    PROVE  /\ InTree(t) = T /\ Leaves(t) = LeavesOf(t, T) /\ Entries(t) = E[root]
           /\ \A n \in 0 .. Rounds(t) : \A a, b \in Level(t, n) : t[a].leaf = t[b].leaf
  <1>1. /\ root \in T /\ h \in [T -> Nat] /\ T \subseteq DOMAIN t
        /\ Rounds(t) \in Nat /\ h[root] < Rounds(t) /\ Heap(t)
        /\ \A a \in T : Kind(t, h, a)
    BY TreeTypes, Tall
  <1>2. \A n \in 0 .. Rounds(t) : Level(t, n) = {x \in T : h[x] + n = h[root]}
    BY <1>1, LevelOf
  <1>3. \A x \in T : h[root] - h[x] \in 0 .. Rounds(t) /\ h[x] + (h[root] - h[x]) = h[root]
    <2> SUFFICES ASSUME NEW x \in T
                 PROVE  h[root] - h[x] \in 0 .. Rounds(t) /\ h[x] + (h[root] - h[x]) = h[root]
      OBVIOUS
    <2>1. h[x] <= h[root] /\ h[x] \in Nat /\ h[root] \in Nat
      BY <1>1, InRoot
    <2> QED BY <1>1, <2>1
  <1>4. InTree(t) = T
    <2>1. InTree(t) \subseteq T
      BY <1>2 DEF InTree
    <2>2. \A x \in T : x \in Level(t, h[root] - h[x])
      BY <1>2, <1>3
    <2>3. T \subseteq InTree(t)
      BY <1>3, <2>2 DEF InTree
    <2> QED BY <2>1, <2>3
  <1>5. Leaves(t) = LeavesOf(t, T)
    BY <1>4 DEF Leaves, LeavesOf
  <1>6. \A a \in LeavesOf(t, T) : ToSet(t[a].item) = E[a]
    <2> SUFFICES ASSUME NEW a \in LeavesOf(t, T) PROVE ToSet(t[a].item) = E[a]
      OBVIOUS
    <2>1. t[a].item \in Seq(Entry) /\ E[a] = Members(t[a].item)
      BY LeafOf DEF LeavesOf
    <2> QED BY <2>1, ToSetOf
  <1>7. Entries(t) = UNION {E[a] : a \in LeavesOf(t, T)}
    BY <1>5, <1>6 DEF Entries
  <1>8. Entries(t) \subseteq E[root]
    BY <1>7, InRoot DEF LeavesOf
  <1>9. E[root] \subseteq Entries(t)
    <2> DEFINE S == {a \in T : E[a] \subseteq Entries(t)}
    <2>1. ASSUME NEW a \in T, \A i \in 1 .. Len(t[a].child) : t[a].child[i] \in S PROVE a \in S
      <3>1. CASE t[a].leaf
        BY <1>7, <3>1 DEF LeavesOf
      <3>2. CASE ~t[a].leaf
        <4>1. \A e \in E[a] : \E i \in 1 .. Len(t[a].child) : e \in E[t[a].child[i]]
          BY <3>2, InnerOf
        <4> QED BY <2>1, <4>1
      <3> QED BY <3>1, <3>2
    <2>2. T \subseteq S
      <3> HIDE DEF S
      <3> QED BY <2>1, Upwards
    <2> QED BY <1>1, <2>2
  <1>10. ASSUME NEW n \in 0 .. Rounds(t), NEW a \in Level(t, n), NEW b \in Level(t, n)
         PROVE  t[a].leaf = t[b].leaf
    <2>1. a \in T /\ b \in T /\ h[a] = h[b]
      <3>1. a \in T /\ b \in T /\ h[a] + n = h[root] /\ h[b] + n = h[root]
        BY <1>2
      <3> QED BY <1>1, <3>1
    <2>2. t[a].leaf \in BOOLEAN /\ t[b].leaf \in BOOLEAN
      BY <1>1, <2>1, NodeTypes
    <2>3. (t[a].leaf <=> h[a] = 0) /\ (t[b].leaf <=> h[b] = 0)
      BY <1>1, <2>1 DEF Kind
    <2> QED BY <2>1, <2>2, <2>3
  <1> QED BY <1>4, <1>5, <1>8, <1>9, <1>10

-----------------------------------------------------------------------------
(***************************************************************************)
(* The properties of the runs, from the invariant.                         *)
(***************************************************************************)

(* What the invariant says of the tree.                                    *)
LEMMA GoodBalanced ==
    ASSUME NEW T, NEW h, NEW E, Good(mem, T, h, E, {}), ret \in {0, 1}, cut_short \in BOOLEAN
    PROVE  Balanced
  <1>1. Tree(mem, T, h, E) /\ Keyed(mem, T, E) /\ Sized(mem, T, {}) /\ Chained(mem, T, E)
    BY DEF Good, Tree
  <1>2. /\ Heap(mem) /\ root \in T /\ T \subseteq DOMAIN mem
        /\ \A a \in T : Kind(mem, h, a) /\ Downward(mem, T, h, a)
        /\ Upward(mem, T, h, root)
    BY <1>1, TreeTypes
  <1>3. /\ InTree(mem) = T
        /\ \A n \in 0 .. Rounds(mem) : \A a, b \in Level(mem, n) : mem[a].leaf = mem[b].leaf
    BY <1>1, InTreeOf
  <1>4. ASSUME NEW a \in T
        PROVE  /\ ToSet(mem[a].child) \subseteq Nodes
               /\ \A c \in ToSet(mem[a].child) : mem[c].parent = a
    <2>1. mem[a].child \in Seq(T)
      BY <1>1, Children DEF Tree
    <2>2. ToSet(mem[a].child) = Members(mem[a].child)
      BY <2>1, ToSetOf
    <2>3. \A i \in 1 .. Len(mem[a].child) : mem[a].child[i] \in T /\ mem[mem[a].child[i]].parent = a
      BY <1>2 DEF Downward
    <2> QED BY <1>2, <2>2, <2>3 DEF Members, Nodes
  <1>5. ASSUME NEW a \in T
        PROVE  /\ mem[a].leaf \in BOOLEAN
               /\ mem[a].parent \in Nodes \cup {NULL} /\ mem[a].next \in Nodes \cup {NULL}
    <2>1. mem[a].leaf \in BOOLEAN
      BY <1>2, NodeTypes
    <2>2. mem[a].parent \in Nodes \cup {NULL}
      <3>1. CASE a = root
        BY <1>2, <3>1 DEF Upward
      <3>2. CASE a # root
        BY <1>1, <1>2, <3>2, ParentOf DEF Nodes
      <3> QED BY <3>1, <3>2
    <2>3. mem[a].next \in Nodes \cup {NULL}
      BY <1>1 DEF Chained, ChainedAt, LeavesOf, Nodes
    <2> QED BY <2>1, <2>2, <2>3
  <1>6. TypeOK
    BY <1>2, <1>3, <1>4, <1>5 DEF TypeOK, Nodes, Heap
  <1>7. ASSUME NEW a \in T
        PROVE  /\ mem[a].leaf => /\ mem[a].child = <<>>
                                 /\ Len(mem[a].item) < MAX_BPT_NODE_NUM
                                 /\ a # root => Len(mem[a].item) >= 2
               /\ ~mem[a].leaf => /\ Len(mem[a].key) \in 1 .. MAX_BPT_NODE_NUM - 1
                                  /\ Len(mem[a].child) = Len(mem[a].key) + 1
    <2>1. SizedAt(mem, a) /\ Kind(mem, h, a)
      BY <1>1, <1>2 DEF Sized
    <2>2. CASE mem[a].leaf
      BY <2>1, <2>2 DEF SizedAt, Kind
    <2>3. CASE ~mem[a].leaf
      <3>1. Len(mem[a].key) + 1 = Len(mem[a].child) /\ mem[a].key \in Seq(Nat)
        BY <1>1, <1>2, <2>3, NodeTypes DEF Keyed, KeyedAt
      <3>2. Len(mem[a].child) \in 2 .. 4
        BY <2>1, <2>3 DEF SizedAt, MAX_BPT_NODE_NUM
      <3>3. Len(mem[a].key) \in Nat
        BY <3>1
      <3> DEFINE n == Len(mem[a].key)
                 m == Len(mem[a].child)
      <3>4. n \in 1 .. 3 /\ m = n + 1
        <4>1. n + 1 = m /\ m \in 2 .. 4 /\ n \in Nat
          BY <3>1, <3>2, <3>3
        <4> HIDE DEF n, m
        <4> QED BY <4>1
      <3> HIDE DEF n, m
      <3>5. n \in 1 .. MAX_BPT_NODE_NUM - 1 /\ m = n + 1
        BY <3>4 DEF MAX_BPT_NODE_NUM
      <3> QED BY <2>3, <3>5 DEF n, m
    <2> QED BY <2>2, <2>3
  <1>8. mem[root].parent = NULL
    BY <1>2 DEF Upward
  <1> QED BY <1>3, <1>4, <1>6, <1>7, <1>8 DEF Balanced

(* bpt_search finds an entry exactly if it is in some leaf.                *)
LEMMA GoodSearch ==
    ASSUME NEW t, NEW T, NEW h, NEW E, NEW X, Good(t, T, h, E, X), NEW n, n.fnv \in Nat
    PROVE  bpt_search(t, n) = {e \in Entries(t) : Matches(n, e)}
  <1>1. Tree(t, T, h, E) /\ Keyed(t, T, E)
    BY DEF Good, Tree
  <1> DEFINE l == search_leaf(t, n.fnv)
             s == t[l].item
  <1>2. PICK P : Path(t, T, E, n.fnv, P, l)
    BY <1>1, PathOf
  <1>3. l \in T /\ t[l].leaf /\ \A e \in E[root] : e.fnv = n.fnv => e \in E[l]
    BY <1>2 DEF Path
  <1>4. Entries(t) = E[root] /\ E[l] \subseteq E[root]
    BY <1>1, <1>3, InTreeOf, InRoot
  <1>5. E[l] = Members(s)
    BY <1>1, <1>3, LeafOf
  <1>6. bpt_search(t, n) = {s[i] : i \in {j \in 1 .. Len(s) : Matches(n, s[j])}}
    BY DEF bpt_search
  <1> HIDE DEF l, s
  <1>7. bpt_search(t, n) = {e \in E[l] : Matches(n, e)}
    BY <1>5, <1>6 DEF Members
  <1> QED BY <1>3, <1>4, <1>7 DEF Matches

(* The property of the runs, from the invariant.                           *)
LEMMA GoodSearchFinds ==
    ASSUME NEW T, NEW h, NEW E, Good(mem, T, h, E, {})
    PROVE  SearchFinds
  <1>1. Entries(mem) \subseteq Entry
    <2>1. Tree(mem, T, h, E)
      BY DEF Good, Tree
    <2> QED BY <2>1, InTreeOf, TreeTypes
  <1>2. \A n \in Names \cup Entries(mem) : n.fnv \in Nat
    BY <1>1, BPTreeAssumption DEF Entry
  <1> QED BY <1>2, GoodSearch DEF SearchFinds

(* The chain of the leaves, from the invariant.                            *)
LEMMA GoodChain ==
    ASSUME NEW h, NEW E, Good(mem, DOMAIN mem, h, E, {})
    PROVE  ChainOrdered
  <1> DEFINE T == DOMAIN mem
             Z == LeavesOf(mem, T)
  <1>1. Tree(mem, T, h, E) /\ Chained(mem, T, E)
    BY DEF Good, Tree
  <1> HIDE DEF T
  <1>2. /\ Leaves(mem) = Z /\ Heap(mem) /\ root \in T /\ T \subseteq DOMAIN mem
        /\ h \in [T -> Nat] /\ E \in [T -> SUBSET Entry]
    BY <1>1, InTreeOf, TreeTypes
  <1>3. ASSUME NEW a \in Z
        PROVE  /\ a \in T /\ h[a] = 0 /\ mem[a].leaf /\ ToSet(mem[a].item) = E[a]
               /\ \A i, j \in 1 .. Len(mem[a].item) : i < j => mem[a].item[i].fnv < mem[a].item[j].fnv
    <2>1. a \in T /\ mem[a].leaf
      BY DEF LeavesOf
    <2>2. /\ mem[a].item \in Seq(Entry) /\ E[a] = Members(mem[a].item) /\ h[a] = 0
          /\ \A i, j \in 1 .. Len(mem[a].item) : i < j => mem[a].item[i].fnv < mem[a].item[j].fnv
      BY <1>1, <2>1, LeafOf
    <2>3. ToSet(mem[a].item) = Members(mem[a].item)
      BY <2>2, ToSetOf
    <2> QED BY <2>1, <2>2, <2>3
  <1>4. \A a, b \in Z : Before(mem, a, b) <=> Less(E[a], E[b])
    BY <1>3 DEF Before, Less
  <1>5. ASSUME NEW a \in Z, NEW b \in Z, a # b PROVE E[a] # {} /\ E[b] # {} /\ Aside(E, a, b)
    <2>1. a \in T /\ b \in T /\ h[a] = 0 /\ h[b] = 0 /\ h[root] \in Nat
      BY <1>2, <1>3
    <2>2. Aside(E, a, b)
      BY <1>1, <1>5, <2>1, LevelOrder
    <2>3. a # root => h[a] < h[root] /\ E[a] # {}
      BY <1>1, <2>1, ParentOf
    <2>4. b # root => h[b] < h[root] /\ E[b] # {}
      BY <1>1, <2>1, ParentOf
    <2>5. a # root /\ b # root
      BY <1>5, <2>1, <2>3, <2>4
    <2> QED BY <2>2, <2>3, <2>4, <2>5
  <1>6. ASSUME NEW a \in Z, NEW b \in Z, a # b, Less(E[a], E[b]), Less(E[b], E[a]) PROVE FALSE
    <2>1. PICK x \in E[a] : TRUE
      BY <1>5, <1>6
    <2>2. PICK y \in E[b] : TRUE
      BY <1>5, <1>6
    <2>3. x \in Entry /\ y \in Entry /\ x.fnv < y.fnv /\ y.fnv < x.fnv
      BY <1>2, <1>3, <1>6, <2>1, <2>2 DEF Less
    <2>4. x.fnv \in Nat /\ y.fnv \in Nat
      BY <2>3 DEF Entry
    <2> QED BY <2>3, <2>4
  <1>7. ASSUME NEW a \in Z
        PROVE  \/ After(mem, a) = {} /\ mem[a].next = NULL
               \/ /\ mem[a].next \in After(mem, a)
                  /\ \A b \in After(mem, a) \ {mem[a].next} : Before(mem, mem[a].next, b)
    <2> DEFINE n == mem[a].next
    <2>1. ChainedAt(mem, T, E, a)
      BY <1>1 DEF Chained
    <2>2. \A b : b \in After(mem, a) <=> b \in Z \ {a} /\ Less(E[a], E[b])
      BY <1>2, <1>4 DEF After
    <2>3. CASE n = NULL
      <3>1. After(mem, a) = {}
        BY <1>6, <2>1, <2>2, <2>3 DEF ChainedAt
      <3> QED BY <2>3, <3>1
    <2>4. CASE n # NULL
      <3>1. /\ n \in Z \ {a} /\ Less(E[a], E[n])
            /\ \A b \in Z \ {a, n} : Less(E[b], E[a]) \/ Less(E[n], E[b])
        BY <2>1, <2>4 DEF ChainedAt, T
      <3>2. n \in After(mem, a)
        BY <2>2, <3>1
      <3>3. ASSUME NEW b \in After(mem, a) \ {n} PROVE Before(mem, n, b)
        <4>1. b \in Z \ {a, n} /\ Less(E[a], E[b])
          BY <2>2
        <4>2. ~Less(E[b], E[a])
          BY <1>6, <4>1
        <4> QED BY <1>4, <3>1, <4>1, <4>2
      <3> QED BY <3>2, <3>3
    <2> QED BY <2>3, <2>4
  <1>8. \A a \in Z : \A b \in Z \ {a} : Before(mem, a, b) \/ Before(mem, b, a)
    BY <1>4, <1>5 DEF Aside
  <1> QED BY <1>2, <1>3, <1>7, <1>8 DEF ChainOrdered

-----------------------------------------------------------------------------
(***************************************************************************)
(* The moves of entries and children between neighbours: splits, merges    *)
(* and borrowing have this in common.                                      *)
(***************************************************************************)

(* One node or two neighbours, and what they hold together.                *)
Pair(s) == s \in Seq(Nat) /\ (Len(s) = 1 \/ (Len(s) = 2 /\ s[1] # s[2]))
Items(t, s) == IF Len(s) = 1 THEN t[s[1]].item ELSE t[s[1]].item \o t[s[2]].item
Kids(t, s) == IF Len(s) = 1 THEN t[s[1]].child ELSE t[s[1]].child \o t[s[2]].child
(* What a list of nodes consists of.                                       *)
Content(t, E, s) ==
    IF Len(s) = 1 THEN Parts(t, E, s[1]) ELSE Parts(t, E, s[1]) \o Parts(t, E, s[2])

(* The members of a list of one or two nodes.                              *)
LEMMA PairMembers ==
    ASSUME NEW s, Pair(s)
    PROVE  /\ Len(s) = 1 => Members(s) = {s[1]}
           /\ Len(s) = 2 => Members(s) = {s[1], s[2]}
           /\ Len(s) \in {1, 2}
  <1>1. Len(s) \in {1, 2}
    BY DEF Pair
  <1>2. 1 .. 1 = {1} /\ 1 .. 2 = {1, 2}
    OBVIOUS
  <1> QED BY <1>1, <1>2 DEF Members

(* What is below a list of one or two nodes.                               *)
LEMMA UnderPair ==
    ASSUME NEW E, NEW s, Pair(s)
    PROVE  /\ Len(s) = 1 => Under(E, s) = <<E[s[1]]>>
           /\ Len(s) = 2 => Under(E, s) = <<E[s[1]], E[s[2]]>>
  <1>1. Len(Under(E, s)) = Len(s) /\ \A i \in 1 .. Len(s) : Under(E, s)[i] = E[s[i]]
    BY DEF Under, Pair
  <1>2. CASE Len(s) = 1
    BY <1>2 DEF Under
  <1>3. CASE Len(s) = 2
    BY <1>3 DEF Under
  <1>4. Len(s) \in {1, 2}
    BY PairMembers
  <1> QED BY <1>2, <1>3, <1>4

(* The parts of a node are sets of entries.                                *)
LEMMA PartsTypes ==
    ASSUME NEW t, NEW T, NEW h, NEW E, Tree(t, T, h, E), NEW a \in T
    PROVE  Parts(t, E, a) \in Seq(SUBSET Entry)
  <1>1. Heap(t) /\ Shape(t, T, h, E) /\ a \in DOMAIN t
    BY TreeTypes DEF Tree
  <1>2. CASE t[a].leaf
    <2>1. t[a].item \in Seq(Entry)
      BY <1>1, NodeTypes
    <2>2. Each(t[a].item) \in Seq(SUBSET Entry)
      BY <2>1, EachConcat
    <2> QED BY <1>2, <2>2 DEF Parts
  <1>3. CASE ~t[a].leaf
    <2>1. Under(E, t[a].child) \in Seq(SUBSET Entry)
      BY <1>1, Children
    <2> QED BY <1>3, <2>1 DEF Parts
  <1> QED BY <1>2, <1>3

(* The nodes G are neighbours below p, between A and B.                    *)
Neighbours(t, p, A, G, B) ==
    /\ ~t[p].leaf /\ t[p].child = A \o G \o B
    /\ A \in Seq(Nat) /\ Pair(G) /\ B \in Seq(Nat)

(* What the nodes G consist of is in order, and is what is below them.     *)
LEMMA ContentOld ==
    ASSUME NEW t, NEW T, NEW h, NEW E, Tree(t, T, h, E), NEW p \in T,
           NEW A, NEW G, NEW B, Neighbours(t, p, A, G, B)
    PROVE  /\ Row(Content(t, E, G)) /\ Whole(Content(t, E, G)) = Whole(Under(E, G))
           /\ G \in Seq(T)
           /\ \A x \in Members(G) : x \in T /\ h[x] + 1 = h[p] /\ t[x].parent = p
  <1> USE DEF Neighbours
  <1> DEFINE c == t[p].child
             n == Len(A)
  <1>1. /\ G \in Seq(Nat) /\ n \in Nat /\ Len(c) = n + Len(G) + Len(B)
        /\ \A i \in 1 .. Len(G) : n + i \in 1 .. Len(c) /\ c[n + i] = G[i]
    BY DEF Pair
  <1> HIDE DEF c, n
  <1>2. \A i \in 1 .. Len(G) : G[i] \in T /\ h[G[i]] + 1 = h[p] /\ t[G[i]].parent = p
    <2> SUFFICES ASSUME NEW i \in 1 .. Len(G)
                 PROVE  G[i] \in T /\ h[G[i]] + 1 = h[p] /\ t[G[i]].parent = p
      OBVIOUS
    <2>1. n + i \in 1 .. Len(t[p].child) /\ G[i] = t[p].child[n + i]
      BY <1>1 DEF c
    <2>2. \A j \in 1 .. Len(t[p].child) :
             /\ t[p].child[j] \in T /\ h[t[p].child[j]] + 1 = h[p]
             /\ t[t[p].child[j]].parent = p
      <3>1. Downward(t, T, h, p)
        BY TreeTypes
      <3> QED BY <3>1 DEF Downward
    <2> QED BY <2>1, <2>2
  <1>3. \A x \in Members(G) : x \in T /\ h[x] + 1 = h[p] /\ t[x].parent = p
    BY <1>2 DEF Members
  <1>4. G \in Seq(T)
    <2>1. G \in Seq(Nat) /\ Members(G) \subseteq T
      BY <1>1, <1>3
    <2> QED BY <2>1, SeqOfMembers
  <1>5. \A x \in T : /\ Row(Parts(t, E, x)) /\ E[x] = Whole(Parts(t, E, x))
                     /\ Parts(t, E, x) \in Seq(SUBSET Entry)
    BY TreeTypes, PartsTypes DEF Ordered
  <1>6. CASE Len(G) = 1
    <2>1. Under(E, G) = <<E[G[1]]>>
      BY <1>6, UnderPair
    <2>2. Whole(Under(E, G)) = E[G[1]]
      BY <2>1, RowTwo
    <2>3. G[1] \in T
      BY <1>2, <1>6
    <2>4. Content(t, E, G) = Parts(t, E, G[1])
      BY <1>6 DEF Content
    <2> QED BY <1>3, <1>4, <1>5, <2>2, <2>3, <2>4
  <1>7. CASE Len(G) = 2
    <2> DEFINE a == G[1]
               b == G[2]
               PA == Parts(t, E, a)
               PB == Parts(t, E, b)
    <2>1. a \in T /\ b \in T
      BY <1>2, <1>7
    <2>2. Under(E, G) = <<E[a], E[b]>>
      BY <1>7, UnderPair
    <2>3. Content(t, E, G) = PA \o PB
      BY <1>7 DEF Content
    <2>4. Less(E[a], E[b])
      <3>1. n + 1 \in 1 .. Len(t[p].child) /\ a = t[p].child[n + 1]
        BY <1>1, <1>7 DEF c
      <3>2. n + 2 \in 1 .. Len(t[p].child) /\ b = t[p].child[n + 2]
        BY <1>1, <1>7 DEF c
      <3>3. n + 1 < n + 2
        BY <1>1
      <3>4. \A i, j \in 1 .. Len(t[p].child) :
               i < j => Less(E[t[p].child[i]], E[t[p].child[j]])
        BY InnerOf
      <3> QED BY <3>1, <3>2, <3>3, <3>4
    <2>5. Row(PA) /\ Row(PB) /\ E[a] = Whole(PA) /\ E[b] = Whole(PB)
      BY <1>5, <2>1
    <2>6. PA \in Seq(SUBSET Entry) /\ PB \in Seq(SUBSET Entry)
      BY <1>5, <2>1
    <2> HIDE DEF a, b, PA, PB
    <2>7. Whole(<<E[a], E[b]>>) = E[a] \cup E[b]
      BY RowTwo
    <2>8. Whole(Under(E, G)) = E[a] \cup E[b]
      BY <2>2, <2>7
    <2>9. Whole(PA \o PB) = Whole(PA) \cup Whole(PB)
      BY <2>6, WholeConcat
    <2>10. Row(PA \o PB)
      BY <2>4, <2>5, <2>6, RowConcat
    <2> QED BY <1>3, <1>4, <2>3, <2>5, <2>8, <2>9, <2>10
  <1>8. Len(G) \in {1, 2}
    BY PairMembers
  <1> QED BY <1>6, <1>7, <1>8

(* What the new node x consists of.                                        *)
NewParts(u, F, x) ==
    /\ Parts(u, F, x) \in Seq(SUBSET Entry) /\ Parts(u, F, x) # <<>>
    /\ F[x] = Whole(Parts(u, F, x))

(* A row that is not empty has entries.                                    *)
LEMMA RowNotEmpty ==
    ASSUME NEW S, NEW L \in Seq(S), Row(L), L # <<>>
    PROVE  Whole(L) # {}
  <1>1. 1 \in 1 .. Len(L)
    OBVIOUS
  <1>2. L[1] # {}
    BY <1>1 DEF Row
  <1> QED BY <1>1, <1>2 DEF Whole

(* If what the nodes H consist of is in order, so is each of them, and     *)
(* they are with regard to each other.                                     *)
LEMMA ContentNew ==
    ASSUME NEW u, NEW F, NEW H, Pair(H), \A x \in Members(H) : NewParts(u, F, x),
           Row(Content(u, F, H))
    PROVE  /\ \A x \in Members(H) : Ordered(u, F, x) /\ F[x] # {}
           /\ Row(Under(F, H)) /\ Whole(Under(F, H)) = Whole(Content(u, F, H))
  <1>1. CASE Len(H) = 1
    <2> DEFINE a == H[1]
               PA == Parts(u, F, a)
    <2>1. Members(H) = {a}
      BY <1>1, PairMembers
    <2>2. Content(u, F, H) = PA
      BY <1>1 DEF Content
    <2>3. PA \in Seq(SUBSET Entry) /\ PA # <<>> /\ F[a] = Whole(PA) /\ Row(PA)
      BY <2>1, <2>2 DEF NewParts
    <2>4. Under(F, H) = <<F[a]>>
      BY <1>1, UnderPair
    <2>5. F[a] # {}
      <3> HIDE DEF PA
      <3> QED BY <2>3, RowNotEmpty
    <2>6. Row(<<F[a]>>) /\ Whole(<<F[a]>>) = F[a]
      BY <2>5, RowTwo
    <2> QED BY <2>1, <2>2, <2>3, <2>4, <2>5, <2>6 DEF Ordered
  <1>2. CASE Len(H) = 2
    <2> DEFINE a == H[1]
               b == H[2]
               PA == Parts(u, F, a)
               PB == Parts(u, F, b)
    <2>1. Members(H) = {a, b}
      BY <1>2, PairMembers
    <2>2. Content(u, F, H) = PA \o PB
      BY <1>2 DEF Content
    <2>3. PA \in Seq(SUBSET Entry) /\ PA # <<>> /\ F[a] = Whole(PA)
      BY <2>1 DEF NewParts
    <2>4. PB \in Seq(SUBSET Entry) /\ PB # <<>> /\ F[b] = Whole(PB)
      BY <2>1 DEF NewParts
    <2>5. Under(F, H) = <<F[a], F[b]>>
      BY <1>2, UnderPair
    <2>6. Row(PA) /\ Row(PB) /\ Less(Whole(PA), Whole(PB)) /\ Whole(PA \o PB) = Whole(PA) \cup Whole(PB)
      <3>1. Row(PA \o PB)
        BY <2>2
      <3> HIDE DEF PA, PB
      <3> QED BY <2>3, <2>4, <3>1, RowConcat, WholeConcat
    <2>7. F[a] # {} /\ F[b] # {}
      <3> HIDE DEF PA, PB
      <3> QED BY <2>3, <2>4, <2>6, RowNotEmpty
    <2>8. Row(<<F[a], F[b]>>) /\ Whole(<<F[a], F[b]>>) = F[a] \cup F[b]
      <3>1. Less(F[a], F[b])
        BY <2>3, <2>4, <2>6
      <3> QED BY <2>7, <3>1, RowTwo
    <2>9. Ordered(u, F, a) /\ Ordered(u, F, b)
      BY <2>3, <2>4, <2>6 DEF Ordered
    <2> HIDE DEF PA, PB
    <2> QED BY <2>1, <2>2, <2>3, <2>4, <2>5, <2>6, <2>7, <2>8, <2>9
  <1>3. Len(H) \in {1, 2}
    BY PairMembers
  <1> QED BY <1>1, <1>2, <1>3

(* One or two leaves consist of their entries.                             *)
LEMMA ContentLeaf ==
    ASSUME NEW t, NEW E, NEW s, Pair(s),
           \A x \in Members(s) : t[x].leaf /\ t[x].item \in Seq(Entry)
    PROVE  Content(t, E, s) = Each(Items(t, s))
  <1>1. CASE Len(s) = 1
    BY <1>1, PairMembers DEF Content, Items, Parts
  <1>2. CASE Len(s) = 2
    <2>1. Members(s) = {s[1], s[2]}
      BY <1>2, PairMembers
    <2>2. Parts(t, E, s[1]) = Each(t[s[1]].item) /\ Parts(t, E, s[2]) = Each(t[s[2]].item)
      BY <2>1 DEF Parts
    <2>3. Content(t, E, s) = Each(t[s[1]].item) \o Each(t[s[2]].item)
      BY <1>2, <2>2 DEF Content
    <2>4. Items(t, s) = t[s[1]].item \o t[s[2]].item
      BY <1>2 DEF Items
    <2>5. t[s[1]].item \in Seq(Entry) /\ t[s[2]].item \in Seq(Entry)
      BY <2>1
    <2> QED BY <2>3, <2>4, <2>5, EachConcat
  <1>3. Len(s) \in {1, 2}
    BY PairMembers
  <1> QED BY <1>1, <1>2, <1>3

(* One or two inner nodes consist of what is below their children.         *)
LEMMA ContentInner ==
    ASSUME NEW t, NEW T, NEW E \in [T -> SUBSET Entry], NEW s, Pair(s),
           \A x \in Members(s) : ~t[x].leaf /\ t[x].child \in Seq(T)
    PROVE  Content(t, E, s) = Under(E, Kids(t, s)) /\ Kids(t, s) \in Seq(T)
  <1>1. CASE Len(s) = 1
    BY <1>1, PairMembers DEF Content, Kids, Parts
  <1>2. CASE Len(s) = 2
    <2>1. Members(s) = {s[1], s[2]}
      BY <1>2, PairMembers
    <2>2. /\ Parts(t, E, s[1]) = Under(E, t[s[1]].child)
          /\ Parts(t, E, s[2]) = Under(E, t[s[2]].child)
      BY <2>1 DEF Parts
    <2>3. Content(t, E, s) = Under(E, t[s[1]].child) \o Under(E, t[s[2]].child)
      BY <1>2, <2>2 DEF Content
    <2>4. Kids(t, s) = t[s[1]].child \o t[s[2]].child
      BY <1>2 DEF Kids
    <2> DEFINE q == t[s[1]].child
               r == t[s[2]].child
    <2>5. q \in Seq(T) /\ r \in Seq(T)
      BY <2>1
    <2> HIDE DEF q, r
    <2>6. Under(E, q \o r) = Under(E, q) \o Under(E, r) /\ q \o r \in Seq(T)
      BY <2>5, UnderConcat
    <2> QED BY <2>3, <2>4, <2>6 DEF q, r
  <1>3. Len(s) \in {1, 2}
    BY PairMembers
  <1> QED BY <1>1, <1>2, <1>3

(* The children of one or two nodes.                                       *)
LEMMA MembersKids ==
    ASSUME NEW t, NEW s, Pair(s), \A x \in Members(s) : t[x].child \in Seq(Nat)
    PROVE  /\ Kids(t, s) \in Seq(Nat)
           /\ \A x \in Members(s) : \A i \in 1 .. Len(t[x].child) :
                 t[x].child[i] \in Members(Kids(t, s))
           /\ \A y \in Members(Kids(t, s)) : \E x \in Members(s) : ListedIn(t, x, y)
  <1>1. CASE Len(s) = 1
    <2>1. Members(s) = {s[1]} /\ Kids(t, s) = t[s[1]].child
      BY <1>1, PairMembers DEF Kids
    <2> QED BY <2>1 DEF Members, ListedIn
  <1>2. CASE Len(s) = 2
    <2> DEFINE q == t[s[1]].child
               r == t[s[2]].child
    <2>1. Members(s) = {s[1], s[2]} /\ Kids(t, s) = q \o r
      BY <1>2, PairMembers DEF Kids
    <2>2. q \in Seq(Nat) /\ r \in Seq(Nat)
      BY <2>1
    <2>3. Members(q \o r) = Members(q) \cup Members(r)
      <3> HIDE DEF q, r
      <3> QED BY <2>2, MembersConcat, SMTT(30)
    <2>4. \A x \in Members(s) : \A i \in 1 .. Len(t[x].child) :
             t[x].child[i] \in Members(Kids(t, s))
      BY <2>1, <2>3 DEF Members
    <2>5. /\ \A y \in Members(q) : ListedIn(t, s[1], y)
          /\ \A y \in Members(r) : ListedIn(t, s[2], y)
      BY DEF Members, ListedIn
    <2>6. \A y \in Members(Kids(t, s)) : \E x \in Members(s) : ListedIn(t, x, y)
      BY <2>1, <2>3, <2>5
    <2>7. Kids(t, s) \in Seq(Nat)
      BY <2>1, <2>2
    <2> QED BY <2>4, <2>6, <2>7
  <1>3. Len(s) \in {1, 2}
    BY PairMembers
  <1> QED BY <1>1, <1>2, <1>3

(* One or two neighbours G below p become one or two nodes H that hold the *)
(* same: a split, a merge or a borrowing.                                  *)
Bodies(u, h, H, p) ==
    \A x \in H :
       /\ u[x].parent = p /\ (u[x].leaf <=> h[p] = 1)
       /\ u[x].leaf => u[x].child = <<>> /\ u[x].item # <<>>
       /\ ~u[x].leaf => u[x].item = <<>> /\ u[x].child # <<>>
       /\ \A i \in 1 .. Len(u[x].child) : u[u[x].child[i]].parent = x

(* The nodes G below p give their content to H; t and T are the heap and   *)
(* the tree before, u and U after.                                         *)
Rearranging(t, u, T, h, E, U, p, A, G, H, B) ==
    /\ Tree(t, T, h, E) /\ Heap(u) /\ p \in T /\ ~t[p].leaf
    /\ A \in Seq(Nat) /\ B \in Seq(Nat) /\ Pair(G) /\ Pair(H)
    /\ t[p].child = A \o G \o B
    /\ ~u[p].leaf /\ u[p].item = <<>> /\ u[p].child = A \o H \o B
    /\ U = (T \ Members(G)) \cup Members(H) /\ U \subseteq DOMAIN u
    /\ Members(H) \cap T \subseteq Members(G)
    /\ Items(u, H) = Items(t, G) /\ Kids(u, H) = Kids(t, G)
    /\ Bodies(u, h, Members(H), p)
    /\ Kept(t, u, T \ (Members(G) \cup {p}))
    /\ \A x \in T \ Members(G) : t[x].parent \notin Members(G) => u[x].parent = t[x].parent

(* The heights and entries after that.                                     *)
Rearranged(u, T, h, E, U, p, G, H, k, F) ==
    /\ Shape(u, U, k, F)
    /\ \A x \in T \ Members(G) : k[x] = h[x] /\ F[x] = E[x]
    /\ \A x \in Members(H) : k[x] + 1 = h[p]

(* The nodes G below p give their content to the nodes H: a split, a       *)
(* merge, or the move of an entry or a child. What was a tree is one, with *)
(* heights and entries for the nodes H.                                    *)
LEMMA Rearrange ==
    ASSUME NEW t, NEW u, NEW T, NEW h, NEW E, NEW U, NEW p, NEW A, NEW G, NEW H, NEW B,
           Rearranging(t, u, T, h, E, U, p, A, G, H, B)
    PROVE  \E k, F : Rearranged(u, T, h, E, U, p, G, H, k, F)
  <1> DEFINE GG == Members(G)
             HH == Members(H)
             k == [x \in U |-> IF x \in HH THEN h[p] - 1 ELSE h[x]]
             F == [x \in U |-> IF x \in HH THEN Whole(Parts(u, E, x)) ELSE E[x]]
  <1>1. Tree(t, T, h, E) /\ Heap(u) /\ p \in T /\ ~t[p].leaf
    BY DEF Rearranging
  <1>2. A \in Seq(Nat) /\ B \in Seq(Nat) /\ Pair(G) /\ Pair(H)
    BY DEF Rearranging
  <1>3. /\ t[p].child = A \o G \o B
        /\ ~u[p].leaf /\ u[p].item = <<>> /\ u[p].child = A \o H \o B
    BY DEF Rearranging
  <1>4. U = (T \ GG) \cup HH /\ U \subseteq DOMAIN u /\ HH \cap T \subseteq GG
    BY DEF Rearranging
  <1>5. Items(u, H) = Items(t, G) /\ Kids(u, H) = Kids(t, G)
    BY DEF Rearranging
  <1>6. Bodies(u, h, HH, p)
    BY DEF Rearranging
  <1>7. /\ Kept(t, u, T \ (GG \cup {p}))
        /\ \A x \in T \ GG : t[x].parent \notin GG => u[x].parent = t[x].parent
    BY DEF Rearranging
  <1>8. /\ root \in T /\ h \in [T -> Nat] /\ E \in [T -> SUBSET Entry] /\ Heap(t)
        /\ T \subseteq DOMAIN t
        /\ \A a \in T : Kind(t, h, a)
    BY <1>1, TreeTypes
  <1>9. Neighbours(t, p, A, G, B)
    BY <1>1, <1>2, <1>3 DEF Neighbours
  <1>10. Row(Content(t, E, G)) /\ Whole(Content(t, E, G)) = Whole(Under(E, G))
    BY <1>1, <1>9, ContentOld
  <1>11. \A x \in GG : x \in T /\ h[x] + 1 = h[p] /\ t[x].parent = p
    BY <1>1, <1>9, ContentOld
  <1>12. GG # {} /\ HH # {}
    BY <1>2, PairMembers
  <1>13. h[p] \in Nat /\ h[p] # 0 /\ p \notin GG /\ p \notin HH
    <2>1. h[p] \in Nat /\ \A x \in GG : h[x] \in Nat
      BY <1>1, <1>8, <1>11
    <2>2. p \notin GG
      BY <1>11, <2>1
    <2> QED BY <1>1, <1>4, <1>11, <1>12, <2>1, <2>2
  <1> HIDE DEF GG, HH
  <1>14. \A x \in T \ GG : x \in U /\ x \notin HH
    BY <1>4
  <1> HIDE DEF k, F
  <1>15. /\ k \in [U -> Nat]
         /\ \A x \in HH : k[x] + 1 = h[p]
         /\ \A x \in T \ GG : k[x] = h[x] /\ F[x] = E[x]
    <2>1. h[p] - 1 \in Nat /\ (h[p] - 1) + 1 = h[p]
      BY <1>13
    <2>2. k \in [U -> Nat]
      BY <1>4, <1>8, <2>1 DEF k
    <2>3. \A x \in HH : k[x] = h[p] - 1
      BY <1>4 DEF k
    <2>4. \A x \in T \ GG : k[x] = h[x] /\ F[x] = E[x]
      BY <1>14 DEF k, F
    <2> QED BY <2>1, <2>2, <2>3, <2>4
  <1>16. /\ \A x \in GG : t[x].child \in Seq(T) /\ t[x].item \in Seq(Entry)
                          /\ (t[x].leaf <=> h[p] = 1)
         /\ \A x \in HH : u[x].child \in Seq(Nat) /\ u[x].item \in Seq(Entry)
    <2>1. ASSUME NEW x \in GG
          PROVE  t[x].child \in Seq(T) /\ t[x].item \in Seq(Entry) /\ (t[x].leaf <=> h[p] = 1)
      <3>1. x \in T /\ h[x] + 1 = h[p] /\ h[x] \in Nat /\ Kind(t, h, x)
        BY <1>8, <1>11
      <3>2. t[x].child \in Seq(T)
        BY <1>1, <3>1, Children DEF Tree
      <3>3. t[x].item \in Seq(Entry)
        BY <1>8, <3>1, NodeTypes
      <3>4. t[x].leaf <=> h[x] = 0
        BY <3>1 DEF Kind
      <3> QED BY <1>13, <3>1, <3>2, <3>3, <3>4
    <2>2. ASSUME NEW x \in HH
          PROVE  u[x].child \in Seq(Nat) /\ u[x].item \in Seq(Entry)
      <3>1. x \in DOMAIN u
        BY <1>4
      <3> QED BY <1>1, <3>1, NodeTypes
    <2> QED BY <2>1, <2>2
  <1>17. \A x \in GG : t[x].child \in Seq(Nat)
    <2>1. ASSUME NEW x \in GG PROVE t[x].child \in Seq(Nat)
      <3>1. x \in DOMAIN t
        BY <1>8, <1>11
      <3> QED BY <1>8, <3>1, NodeTypes
    <2> QED BY <2>1
  <1>18. ASSUME NEW y, y \in Members(Kids(t, G))
         PROVE  /\ y \in T \ GG /\ h[y] + 2 = h[p] /\ E[y] \subseteq Entry /\ E[y] # {}
                /\ \E x \in HH : ListedIn(u, x, y)
    <2>1. PICK x \in GG : ListedIn(t, x, y)
      BY <1>2, <1>17, <1>18, MembersKids DEF GG
    <2>2. PICK i \in 1 .. Len(t[x].child) : t[x].child[i] = y
      BY <2>1 DEF ListedIn
    <2>3. y \in T /\ h[y] \in Nat /\ h[y] + 1 = h[x] /\ E[y] # {}
      BY <1>1, <1>11, <2>2, ChildOf
    <2>4. h[x] + 1 = h[p] /\ h[x] \in Nat
      BY <1>8, <1>11
    <2>5. y \notin GG
      <3>1. y \in GG => h[y] + 1 = h[p]
        BY <1>11
      <3> QED BY <1>13, <2>3, <2>4, <3>1
    <2>6. \E z \in HH : ListedIn(u, z, y)
      <3>1. y \in Members(Kids(u, H))
        BY <1>5, <1>18
      <3> QED BY <1>2, <1>16, <3>1, MembersKids DEF HH
    <2> QED BY <1>8, <1>13, <2>3, <2>4, <2>5, <2>6
  <1>19. ASSUME NEW x \in HH, NEW i \in 1 .. Len(u[x].child)
         PROVE  u[x].child[i] \in Members(Kids(t, G))
    <2>1. u[x].child[i] \in Members(Kids(u, H))
      BY <1>2, <1>16, MembersKids DEF HH
    <2> QED BY <1>5, <2>1
  <1>20. ASSUME NEW x \in HH
         PROVE  /\ u[x].child \in Seq(T) /\ u[x].child \in Seq(U)
                /\ \A i \in 1 .. Len(u[x].child) : F[u[x].child[i]] = E[u[x].child[i]]
    <2> DEFINE q == u[x].child
    <2>1. q \in Seq(Nat)
      BY <1>16
    <2>2. \A i \in 1 .. Len(q) : q[i] \in T /\ q[i] \in U /\ F[q[i]] = E[q[i]]
      BY <1>14, <1>15, <1>18, <1>19
    <2> HIDE DEF q
    <2>3. Members(q) \subseteq T /\ Members(q) \subseteq U
      BY <2>2 DEF Members
    <2>4. q \in Seq(T) /\ q \in Seq(U)
      BY <2>1, <2>3, SeqOfMembers
    <2> QED BY <2>2, <2>4 DEF q
  <1>21. ASSUME NEW x \in HH
         PROVE  /\ Parts(u, E, x) \in Seq(SUBSET Entry) /\ Parts(u, E, x) # <<>>
                /\ Parts(u, F, x) = Parts(u, E, x) /\ F[x] = Whole(Parts(u, E, x))
    <2>1. F[x] = Whole(Parts(u, E, x))
      BY <1>4 DEF F
    <2>2. CASE u[x].leaf
      <3> DEFINE s == u[x].item
      <3>1. Parts(u, F, x) = Each(s) /\ Parts(u, E, x) = Each(s)
        BY <2>2 DEF Parts
      <3>2. s \in Seq(Entry) /\ s # <<>>
        BY <1>6, <1>16, <2>2 DEF Bodies
      <3> HIDE DEF s
      <3>3. Each(s) \in Seq(SUBSET Entry)
        BY <3>2, EachConcat
      <3>4. Len(Each(s)) = Len(s) /\ Len(s) # 0
        BY <3>2 DEF Each
      <3>5. Each(s) # <<>>
        BY <3>4
      <3> QED BY <2>1, <3>1, <3>3, <3>5
    <2>3. CASE ~u[x].leaf
      <3> DEFINE q == u[x].child
      <3>1. Parts(u, F, x) = Under(F, q) /\ Parts(u, E, x) = Under(E, q)
        BY <2>3 DEF Parts
      <3>2. q \in Seq(T) /\ q # <<>> /\ \A i \in 1 .. Len(q) : F[q[i]] = E[q[i]]
        BY <1>6, <1>20, <2>3 DEF Bodies
      <3> HIDE DEF q
      <3>3. Under(F, q) = Under(E, q)
        BY <3>2 DEF Under
      <3>4. Under(E, q) \in Seq(SUBSET Entry) /\ Len(Under(E, q)) = Len(q)
        BY <1>8, <3>2, UnderOf
      <3>5. Under(E, q) # <<>>
        BY <3>2, <3>4
      <3> QED BY <2>1, <3>1, <3>3, <3>4, <3>5
    <2> QED BY <2>2, <2>3
  <1>22. F \in [U -> SUBSET Entry]
    <2>1. ASSUME NEW x \in HH PROVE Whole(Parts(u, E, x)) \subseteq Entry
      <3> DEFINE L == Parts(u, E, x)
      <3>1. L \in Seq(SUBSET Entry)
        BY <1>21
      <3> HIDE DEF L
      <3>2. \A i \in 1 .. Len(L) : L[i] \in SUBSET Entry
        BY <3>1
      <3>3. Whole(L) \subseteq Entry
        BY <3>2 DEF Whole
      <3> QED BY <3>3 DEF L
    <2>2. \A x \in T \ GG : E[x] \in SUBSET Entry
      BY <1>8
    <2> QED BY <1>4, <2>1, <2>2 DEF F
  <1>23. Content(u, F, H) = Content(t, E, G)
    <2>1. CASE h[p] = 1
      <3>1. Content(t, E, G) = Each(Items(t, G))
        BY <1>2, <1>16, <2>1, ContentLeaf DEF GG
      <3>2. Content(u, F, H) = Each(Items(u, H))
        BY <1>2, <1>6, <1>16, <2>1, ContentLeaf DEF HH, Bodies
      <3> QED BY <1>5, <3>1, <3>2
    <2>2. CASE h[p] # 1
      <3> DEFINE q == Kids(t, G)
      <3>1. \A x \in Members(G) : ~t[x].leaf /\ t[x].child \in Seq(T)
        BY <1>16, <2>2 DEF GG
      <3>2. Content(t, E, G) = Under(E, q) /\ q \in Seq(T)
        BY <1>2, <1>8, <3>1, ContentInner
      <3>3. \A x \in Members(H) : ~u[x].leaf /\ u[x].child \in Seq(U)
        BY <1>6, <1>20, <2>2 DEF HH, Bodies
      <3>4. Content(u, F, H) = Under(F, Kids(u, H)) /\ Kids(u, H) \in Seq(U)
        BY <1>2, <1>22, <3>3, ContentInner
      <3>5. \A y \in Members(q) : F[y] = E[y]
        BY <1>15, <1>18
      <3> HIDE DEF q
      <3>6. Under(F, q) = Under(E, q)
        BY <3>2, <3>5 DEF Under, Members
      <3> QED BY <1>5, <3>2, <3>4, <3>6 DEF q
    <2> QED BY <2>1, <2>2
  <1>24. \A x \in HH : NewParts(u, F, x)
    BY <1>21 DEF NewParts
  <1>25. /\ \A x \in HH : Ordered(u, F, x) /\ F[x] # {}
         /\ Row(Under(F, H)) /\ Whole(Under(F, H)) = Whole(Under(E, G))
    <2>1. Row(Content(u, F, H))
      BY <1>10, <1>23
    <2>2. \A x \in Members(H) : NewParts(u, F, x)
      BY <1>24 DEF HH
    <2>3. \A x \in Members(H) : Ordered(u, F, x) /\ F[x] # {}
      BY <1>2, <2>1, <2>2, ContentNew
    <2>4. Row(Under(F, H)) /\ Whole(Under(F, H)) = Whole(Content(u, F, H))
      BY <1>2, <2>1, <2>2, ContentNew
    <2> QED BY <1>10, <1>23, <2>3, <2>4 DEF HH
  <1>26. ASSUME NEW x \in HH PROVE Sound(u, U, k, F, x)
    <2>1. k[x] + 1 = h[p] /\ k[x] \in Nat
      BY <1>4, <1>15
    <2>2. Kind(u, k, x)
      <3>1. k[x] = 0 <=> h[p] = 1
        BY <1>13, <2>1
      <3> QED BY <1>6, <3>1 DEF Bodies, Kind
    <2>3. ASSUME NEW i \in 1 .. Len(u[x].child)
          PROVE  u[x].child[i] \in U /\ k[u[x].child[i]] + 1 = k[x] /\ u[u[x].child[i]].parent = x
      <3> DEFINE y == u[x].child[i]
      <3>1. y \in Members(Kids(t, G)) /\ u[y].parent = x
        BY <1>6, <1>19 DEF Bodies
      <3> HIDE DEF y
      <3>2. y \in T \ GG /\ h[y] + 2 = h[p]
        BY <1>18, <3>1
      <3>3. k[y] = h[y] /\ y \in U /\ h[y] \in Nat
        BY <1>8, <1>14, <1>15, <3>2
      <3>4. k[y] + 1 = k[x]
        BY <1>13, <2>1, <3>2, <3>3
      <3> QED BY <3>1, <3>3, <3>4 DEF y
    <2> QED BY <1>25, <2>2, <2>3 DEF Sound, Downward
  <1>27. ASSUME NEW x \in T \ GG, t[x].parent \in GG
         PROVE  u[x].parent \in HH /\ ListedIn(u, u[x].parent, x)
    <2> DEFINE g == t[x].parent
    <2>1. x # root
      <3>1. Upward(t, T, h, root) /\ NULL \notin T
        BY <1>1, TreeTypes
      <3> QED BY <1>11, <1>27, <3>1 DEF Upward
    <2>2. PICK i \in 1 .. Len(t[g].child) : t[g].child[i] = x
      BY <1>1, <2>1, ParentOf
    <2>3. x \in Members(Kids(t, G))
      BY <1>2, <1>17, <1>27, <2>2, MembersKids DEF GG
    <2>4. PICK z \in HH : ListedIn(u, z, x)
      BY <1>18, <2>3
    <2>5. u[x].parent = z
      BY <1>6, <2>4 DEF Bodies, ListedIn
    <2> QED BY <2>4, <2>5
  <1>28. Reparented(t, u, T \ GG, GG, HH)
    BY <1>7, <1>27 DEF Reparented
  <1>29. Below(u, U, h, k, F, HH, p)
    BY <1>6, <1>15, <1>26 DEF Below, Bodies
  <1>30. Ghosts(T, h, E, U, k, F, GG, HH)
    BY <1>4, <1>15, <1>22 DEF Ghosts
  <1>31. G \in Seq(Nat) /\ H \in Seq(Nat) /\ H # <<>>
    BY <1>2 DEF Pair
  <1>32. Regrouping(t, u, T, h, E, U, k, F, p, A, G, H, B)
    BY <1>1, <1>2, <1>3, <1>4, <1>7, <1>25, <1>28, <1>29, <1>30, <1>31
       DEF Regrouping, Tree, GG, HH
  <1>33. Shape(u, U, k, F)
    BY <1>32, Regroup
  <1>34. Rearranged(u, T, h, E, U, p, G, H, k, F)
    BY <1>15, <1>33 DEF Rearranged, GG, HH
  <1> QED BY <1>34

-----------------------------------------------------------------------------
(***************************************************************************)
(* An entry more, an entry less, and the root growing and shrinking.       *)
(***************************************************************************)

(* The tree is the same but for the keys, and for nodes outside it.        *)
SameTree(t, u, T) ==
    /\ T \subseteq DOMAIN u
    /\ \A x \in T : /\ u[x].leaf = t[x].leaf /\ u[x].item = t[x].item /\ u[x].child = t[x].child
                    /\ u[x].parent = t[x].parent /\ u[x].next = t[x].next

(* A heap that differs only outside of the tree, or in its keys, has the   *)
(* same tree.                                                              *)
LEMMA SameShape ==
    ASSUME NEW t, NEW u, NEW T, NEW h, NEW E, Tree(t, T, h, E), Heap(u), SameTree(t, u, T)
    PROVE  /\ Tree(u, T, h, E)
           /\ \A X : Sized(t, T, X) => Sized(u, T, X)
           /\ DOMAIN t \subseteq DOMAIN u /\ Chained(t, T, E) => Chained(u, T, E)
           /\ (\A x \in T : u[x].key = t[x].key) /\ Keyed(t, T, E) => Keyed(u, T, E)
  <1>1. /\ T \subseteq DOMAIN u
        /\ \A x \in T : /\ u[x].leaf = t[x].leaf /\ u[x].item = t[x].item /\ u[x].child = t[x].child
                        /\ u[x].parent = t[x].parent /\ u[x].next = t[x].next
    BY DEF SameTree
  <1>2. /\ root \in T /\ h \in [T -> Nat] /\ E \in [T -> SUBSET Entry]
        /\ \A a \in T : Kind(t, h, a) /\ Downward(t, T, h, a) /\ Ordered(t, E, a)
        /\ \A a \in T : Upward(t, T, h, a)
    BY TreeTypes
  <1>3. ASSUME NEW a \in T PROVE Sound(u, T, h, E, a) /\ Upward(u, T, h, a)
    <2>1. Kind(u, h, a)
      BY <1>1, <1>2 DEF Kind
    <2>2. Downward(u, T, h, a)
      <3>1. Downward(t, T, h, a)
        BY <1>2
      <3> QED BY <1>1, <3>1 DEF Downward
    <2>3. Ordered(u, E, a)
      <3>1. Parts(u, E, a) = Parts(t, E, a)
        BY <1>1 DEF Parts
      <3> QED BY <1>2, <3>1 DEF Ordered
    <2>4. Upward(u, T, h, a)
      <3>1. Upward(t, T, h, a) /\ u[a].parent = t[a].parent
        BY <1>1, <1>2
      <3>2. t[a].parent \in T => u[t[a].parent].child = t[t[a].parent].child
        BY <1>1
      <3> QED BY <3>1, <3>2 DEF Upward
    <2> QED BY <2>1, <2>2, <2>3, <2>4 DEF Sound
  <1>4. Tree(u, T, h, E)
    BY <1>1, <1>2, <1>3 DEF Tree, Shape
  <1>5. \A X : Sized(t, T, X) => Sized(u, T, X)
    BY <1>1 DEF Sized, SizedAt
  <1>6. ASSUME DOMAIN t \subseteq DOMAIN u, Chained(t, T, E) PROVE Chained(u, T, E)
    <2>1. LeavesOf(u, T) = LeavesOf(t, T)
      BY <1>1 DEF LeavesOf
    <2>2. ASSUME NEW a \in LeavesOf(u, T) PROVE ChainedAt(u, T, E, a)
      <3>1. ChainedAt(t, T, E, a) /\ u[a].next = t[a].next
        BY <1>1, <1>6, <2>1 DEF Chained, LeavesOf
      <3> QED BY <1>6, <2>1, <3>1 DEF ChainedAt
    <2> QED BY <1>1, <1>6, <2>2 DEF Chained
  <1>7. ASSUME \A x \in T : u[x].key = t[x].key, Keyed(t, T, E) PROVE Keyed(u, T, E)
    BY <1>1, <1>7 DEF Keyed, KeyedAt
  <1> QED BY <1>4, <1>5, <1>6, <1>7
-----------------------------------------------------------------------------
(* The entry e is put into the leaf l, where the search for it ended.      *)
Adding(t, u, T, h, E, P, l, e) ==
    /\ Tree(t, T, h, E) /\ Heap(u) /\ T \subseteq DOMAIN u
    /\ Path(t, T, E, e.fnv, P, l) /\ e \in Entry
    /\ \A x \in T : /\ u[x].leaf = t[x].leaf /\ u[x].child = t[x].child
                    /\ u[x].parent = t[x].parent /\ u[x].key = t[x].key
                    /\ x # l => u[x].item = t[x].item
    /\ Row(Each(u[l].item)) /\ Whole(Each(u[l].item)) = E[l] \cup {e}

(* An entry is added to the leaf where its hash belongs: it is below all   *)
(* nodes on the way there, and the keys lead to it.                        *)
LEMMA EntryAdded ==
    ASSUME NEW t, NEW u, NEW T, NEW h, NEW E, NEW P, NEW l, NEW e,
           Adding(t, u, T, h, E, P, l, e),
           NEW F, F = [x \in T |-> IF x \in P THEN E[x] \cup {e} ELSE E[x]]
    PROVE  Tree(u, T, h, F) /\ F[root] = E[root] \cup {e} /\ (Keyed(t, T, E) => Keyed(u, T, F))
  <1>1. /\ Tree(t, T, h, E) /\ Heap(u) /\ T \subseteq DOMAIN u
        /\ e \in Entry
    BY DEF Adding
  <1>2. \A x \in T : /\ u[x].leaf = t[x].leaf /\ u[x].child = t[x].child
                     /\ u[x].parent = t[x].parent /\ u[x].key = t[x].key
                     /\ x # l => u[x].item = t[x].item
    BY DEF Adding
  <1>3. Row(Each(u[l].item)) /\ Whole(Each(u[l].item)) = E[l] \cup {e}
    BY DEF Adding
  <1>4. /\ P \subseteq T /\ root \in P /\ l \in P /\ t[l].leaf
        /\ \A a \in P : t[a].leaf => a = l
        /\ \A a \in P : a # root => t[a].parent \in P
        /\ \A a \in P : ~t[a].leaf =>
              \E i : /\ TowardAt(t, E, a, e.fnv, i)
                     /\ t[a].child[i] \in P
                     /\ \A j \in 1 .. Len(t[a].child) : t[a].child[j] \in P => j = i
    BY DEF Adding, Path
  <1>5. /\ root \in T /\ h \in [T -> Nat] /\ E \in [T -> SUBSET Entry]
        /\ \A a \in T : Kind(t, h, a) /\ Downward(t, T, h, a) /\ Ordered(t, E, a)
        /\ \A a \in T : Upward(t, T, h, a)
    BY <1>1, TreeTypes
  <1>6. /\ F \in [T -> SUBSET Entry]
        /\ \A x \in P : F[x] = E[x] \cup {e}
        /\ \A x \in T : x \notin P => F[x] = E[x]
    BY <1>1, <1>4, <1>5
  <1>7. ASSUME NEW a \in T PROVE Kind(u, h, a)
    <2>1. Kind(t, h, a)
      BY <1>5
    <2>2. ~t[a].leaf => a # l
      BY <1>4
    <2> QED BY <1>2, <2>1, <2>2 DEF Kind
  <1>8. ASSUME NEW a \in T PROVE Downward(u, T, h, a)
    <2>1. Downward(t, T, h, a)
      BY <1>5
    <2> QED BY <1>2, <2>1 DEF Downward
  <1>9. ASSUME NEW a \in T PROVE Upward(u, T, h, a)
    <2>1. Upward(t, T, h, a) /\ u[a].parent = t[a].parent
      BY <1>2, <1>5
    <2>2. t[a].parent \in T => u[t[a].parent].child = t[t[a].parent].child
      BY <1>2
    <2> QED BY <2>1, <2>2 DEF Upward
  <1>10. ASSUME NEW a \in T, t[a].leaf PROVE Ordered(u, F, a)
    <2>1. Ordered(t, E, a) /\ u[a].leaf
      BY <1>2, <1>5, <1>10
    <2>2. CASE a = l
      <3>1. Parts(u, F, a) = Each(u[l].item)
        BY <2>1, <2>2 DEF Parts
      <3> QED BY <1>3, <1>4, <1>6, <2>2, <3>1 DEF Ordered
    <2>3. CASE a # l
      <3>1. a \notin P
        BY <1>4, <1>10, <2>3
      <3>2. Parts(u, F, a) = Parts(t, E, a)
        BY <1>2, <1>10, <2>1, <2>3 DEF Parts
      <3> QED BY <1>6, <2>1, <3>1, <3>2 DEF Ordered
    <2> QED BY <2>2, <2>3
  <1>11. ASSUME NEW a \in T, ~t[a].leaf PROVE Ordered(u, F, a) /\ (KeyedAt(t, E, a) => KeyedAt(u, F, a))
    <2> DEFINE c == t[a].child
               L == Under(E, c)
               M == Under(F, c)
    <2>1. Row(L) /\ E[a] = Whole(L)
      BY <1>5, <1>11 DEF Ordered, Parts
    <2>2. Parts(u, F, a) = M
      BY <1>2, <1>11 DEF Parts
    <2>3. /\ Len(L) = Len(c) /\ Len(M) = Len(c)
          /\ \A i \in 1 .. Len(c) : L[i] = E[c[i]] /\ M[i] = F[c[i]]
      <3>1. t[a].child \in Seq(T)
        BY <1>1, Children DEF Tree
      <3> HIDE DEF c
      <3> QED BY <3>1 DEF Under, c
    <2> HIDE DEF L, M
    <2>4. \A i \in 1 .. Len(c) : c[i] \in T /\ t[c[i]].parent = a /\ c[i] # root
      <3> SUFFICES ASSUME NEW i \in 1 .. Len(c)
                   PROVE  c[i] \in T /\ t[c[i]].parent = a /\ c[i] # root
        OBVIOUS
      <3> QED BY <1>1, ChildOf
    <2>5. CASE a \notin P
      <3>1. \A i \in 1 .. Len(c) : F[c[i]] = E[c[i]]
        BY <1>4, <1>6, <2>4, <2>5
      <3>2. M = L
        BY <3>1 DEF M, L, Under
      <3>3. F[a] = E[a]
        BY <1>6, <2>5
      <3>4. KeyedAt(t, E, a) => KeyedAt(u, F, a)
        <4> SUFFICES ASSUME KeyedAt(t, E, a) PROVE KeyedAt(u, F, a)
          OBVIOUS
        <4>1. \A i \in 1 .. Len(t[a].key) : i \in 1 .. Len(c) /\ i + 1 \in 1 .. Len(c)
          <5>1. Len(t[a].key) + 1 = Len(c) /\ t[a].key \in Seq(Nat)
            <6>1. a \in DOMAIN t /\ Heap(t)
              BY <1>1, TreeTypes
            <6> QED BY <6>1, NodeTypes DEF KeyedAt
          <5> QED BY <5>1
        <4> QED BY <1>2, <3>1, <4>1 DEF KeyedAt
      <3> QED BY <2>1, <2>2, <3>2, <3>3, <3>4 DEF Ordered
    <2>6. CASE a \in P
      <3>1. PICK i : /\ TowardAt(t, E, a, e.fnv, i)
                     /\ c[i] \in P
                     /\ \A j \in 1 .. Len(c) : c[j] \in P => j = i
        BY <1>4, <1>11, <2>6
      <3>2. /\ i \in 1 .. Len(c)
            /\ i > 1 => t[a].key[i - 1] <= e.fnv
            /\ i <= Len(t[a].key) => e.fnv < t[a].key[i]
            /\ \A j \in 1 .. Len(c) : /\ j < i => \A x \in L[j] : x.fnv < e.fnv
                                      /\ i < j => \A x \in L[j] : e.fnv < x.fnv
        BY <2>3, <3>1 DEF TowardAt
      <3>3. M[i] = L[i] \cup {e} /\ \A j \in 1 .. Len(c) : j # i => M[j] = L[j]
        <4> HIDE DEF c
        <4>1. F[c[i]] = E[c[i]] \cup {e} /\ M[i] = F[c[i]] /\ L[i] = E[c[i]]
          BY <1>6, <2>3, <3>1, <3>2
        <4>2. ASSUME NEW j \in 1 .. Len(c), j # i PROVE M[j] = L[j]
          <5>1. c[j] \in T /\ c[j] \notin P
            BY <2>4, <3>1, <4>2
          <5> QED BY <1>6, <2>3, <5>1
        <4> QED BY <4>1, <4>2
      <3>4. Row(M)
        <4>1. \A j \in 1 .. Len(M) : M[j] # {}
          BY <2>1, <2>3, <3>3 DEF Row
        <4>2. ASSUME NEW m \in 1 .. Len(M), NEW n \in 1 .. Len(M), m < n PROVE Less(M[m], M[n])
          <5>1. Less(L[m], L[n]) /\ m \in 1 .. Len(c) /\ n \in 1 .. Len(c)
            BY <2>1, <2>3, <4>2 DEF Row
          <5>2. CASE m = i
            <6>1. n # i /\ i < n
              BY <4>2, <5>2
            <6> QED BY <3>2, <3>3, <5>1, <5>2, <6>1 DEF Less
          <5>3. CASE n = i
            <6>1. m # i /\ m < i
              BY <4>2, <5>3
            <6> QED BY <3>2, <3>3, <5>1, <5>3, <6>1 DEF Less
          <5>4. CASE m # i /\ n # i
            BY <3>3, <5>1, <5>4
          <5> QED BY <5>2, <5>3, <5>4
        <4> QED BY <4>1, <4>2 DEF Row
      <3>5. Whole(M) = Whole(L) \cup {e}
        <4>1. Whole(M) \subseteq Whole(L) \cup {e}
          BY <2>3, <3>3 DEF Whole
        <4>2. Whole(L) \cup {e} \subseteq Whole(M)
          BY <2>3, <3>2, <3>3 DEF Whole
        <4> QED BY <4>1, <4>2
      <3>6. Ordered(u, F, a)
        BY <1>6, <2>1, <2>2, <2>6, <3>4, <3>5 DEF Ordered
      <3>7. KeyedAt(t, E, a) => KeyedAt(u, F, a)
        <4> SUFFICES ASSUME KeyedAt(t, E, a) PROVE KeyedAt(u, F, a)
          OBVIOUS
        <4> DEFINE s == t[a].key
        <4>1. Len(s) + 1 = Len(c) /\ s \in Seq(Nat) /\ Len(c) \in Nat
          <5>1. a \in DOMAIN t /\ Heap(t)
            BY <1>1, TreeTypes
          <5> QED BY <5>1, NodeTypes DEF KeyedAt
        <4>2. \A j \in 1 .. Len(s) : /\ \A x \in E[c[j]] : x.fnv < s[j]
                                     /\ \A x \in E[c[j + 1]] : s[j] <= x.fnv
          BY DEF KeyedAt
        <4> HIDE DEF s
        <4>3. ASSUME NEW j \in 1 .. Len(s)
              PROVE  /\ \A x \in F[c[j]] : x.fnv < s[j]
                     /\ \A x \in F[c[j + 1]] : s[j] <= x.fnv
          <5>1. j \in 1 .. Len(c) /\ j + 1 \in 1 .. Len(c) /\ j + 1 > 1 /\ (j + 1) - 1 = j
            BY <4>1
          <5>2. \A x \in F[c[j]] : x.fnv < s[j]
            <6>1. CASE j = i
              BY <1>6, <3>1, <3>2, <4>2, <6>1 DEF s
            <6>2. CASE j # i
              BY <1>6, <2>4, <3>1, <4>2, <5>1, <6>2
            <6> QED BY <6>1, <6>2
          <5>3. \A x \in F[c[j + 1]] : s[j] <= x.fnv
            <6>1. CASE j + 1 = i
              <7>1. s[j] <= e.fnv
                BY <3>2, <5>1, <6>1 DEF s
              <7> QED BY <1>6, <3>1, <4>2, <6>1, <7>1
            <6>2. CASE j + 1 # i
              BY <1>6, <2>4, <3>1, <4>2, <5>1, <6>2
            <6> QED BY <6>1, <6>2
          <5> QED BY <5>2, <5>3
        <4> QED BY <1>2, <4>1, <4>3 DEF KeyedAt, s
      <3> QED BY <3>6, <3>7
    <2> QED BY <2>5, <2>6
  <1>12. \A a \in T : Sound(u, T, h, F, a)
    BY <1>7, <1>8, <1>10, <1>11 DEF Sound
  <1>13. Tree(u, T, h, F)
    BY <1>1, <1>5, <1>6, <1>9, <1>12 DEF Tree, Shape
  <1>14. Keyed(t, T, E) => Keyed(u, T, F)
    BY <1>2, <1>11 DEF Keyed
  <1> QED BY <1>4, <1>6, <1>13, <1>14

(* Entries are removed throughout.                                         *)
LEMMA RowMinus ==
    ASSUME NEW L, NEW M, NEW R, Row(L), Len(M) = Len(L),
           \A i \in 1 .. Len(L) : M[i] = L[i] \ R /\ M[i] # {}
    PROVE  Row(M) /\ Whole(M) = Whole(L) \ R
  <1>1. Row(M)
    BY DEF Row, Less
  <1>2. Whole(M) = Whole(L) \ R
    BY DEF Whole
  <1> QED BY <1>1, <1>2

(* The entry e is taken from the leaf l.                                   *)
Removing(t, u, T, h, E, l, e) ==
    /\ Tree(t, T, h, E) /\ Heap(u) /\ T \subseteq DOMAIN u
    /\ l \in T /\ t[l].leaf /\ e \in E[l]
    /\ \A x \in T : /\ u[x].leaf = t[x].leaf /\ u[x].child = t[x].child
                    /\ u[x].parent = t[x].parent /\ u[x].key = t[x].key
                    /\ x # l => u[x].item = t[x].item
    /\ Row(Each(u[l].item)) /\ Whole(Each(u[l].item)) = E[l] \ {e}
    /\ l # root => E[l] \ {e} # {}

(* An entry is taken out of its leaf, which keeps others: it is below no   *)
(* node any more.                                                          *)
LEMMA EntryRemoved ==
    ASSUME NEW t, NEW u, NEW T, NEW h, NEW E, NEW l, NEW e,
           Removing(t, u, T, h, E, l, e), NEW F, F = [x \in T |-> E[x] \ {e}]
    PROVE  Tree(u, T, h, F) /\ F[root] = E[root] \ {e} /\ (Keyed(t, T, E) => Keyed(u, T, F))
           /\ \A x \in T : x # root => F[x] # {}
  <1>1. /\ Tree(t, T, h, E) /\ Heap(u) /\ T \subseteq DOMAIN u
        /\ l \in T /\ t[l].leaf /\ e \in E[l] /\ (l # root => E[l] \ {e} # {})
    BY DEF Removing
  <1>2. \A x \in T : /\ u[x].leaf = t[x].leaf /\ u[x].child = t[x].child
                     /\ u[x].parent = t[x].parent /\ u[x].key = t[x].key
                     /\ x # l => u[x].item = t[x].item
    BY DEF Removing
  <1>3. Row(Each(u[l].item)) /\ Whole(Each(u[l].item)) = E[l] \ {e}
    BY DEF Removing
  <1>4. /\ root \in T /\ h \in [T -> Nat] /\ E \in [T -> SUBSET Entry]
        /\ \A a \in T : Kind(t, h, a) /\ Downward(t, T, h, a) /\ Ordered(t, E, a)
        /\ \A a \in T : Upward(t, T, h, a)
    BY <1>1, TreeTypes
  <1>5. F \in [T -> SUBSET Entry] /\ \A x \in T : F[x] = E[x] \ {e}
    BY <1>4
  <1>6. \A x \in T : t[x].leaf /\ x # l => E[x] \ {e} = E[x]
    <2> SUFFICES ASSUME NEW x \in T, t[x].leaf, x # l, e \in E[x] PROVE FALSE
      OBVIOUS
    <2>1. h[x] = h[l]
      BY <1>1, <1>4 DEF Kind
    <2>2. Aside(E, x, l)
      BY <1>1, <2>1, LevelOrder
    <2>3. e.fnv < e.fnv /\ e \in Entry
      BY <1>1, <1>4, <2>2 DEF Aside, Less
    <2>4. e.fnv \in Nat
      BY <2>3 DEF Entry
    <2> QED BY <2>3, <2>4
  <1>7. ASSUME NEW x \in T, x # root PROVE F[x] # {}
    <2> DEFINE S == {a \in T : a # root => F[a] # {}}
    <2>1. ASSUME NEW a \in T, \A i \in 1 .. Len(t[a].child) : t[a].child[i] \in S PROVE a \in S
      <3>1. CASE t[a].leaf
        <4>1. a = l => (a # root => F[a] # {})
          BY <1>1, <1>5
        <4>2. a # l /\ a # root => F[a] # {}
          <5>1. a # root => E[a] # {}
            BY <1>1, ParentOf
          <5> QED BY <1>5, <1>6, <3>1, <5>1
        <4> QED BY <4>1, <4>2
      <3>2. CASE ~t[a].leaf
        <4> DEFINE c == t[a].child[1]
        <4>1. 1 \in 1 .. Len(t[a].child)
          BY <1>1, <3>2, InnerOf
        <4>2. c \in T /\ c # root /\ E[c] \subseteq E[a]
          BY <1>1, <4>1, ChildOf
        <4>3. c \in S
          BY <2>1, <4>1
        <4> QED BY <1>5, <4>2, <4>3
      <3> QED BY <3>1, <3>2
    <2>2. T \subseteq S
      <3> HIDE DEF S
      <3> QED BY <1>1, <2>1, Upwards
    <2> QED BY <1>7, <2>2
  <1>8. ASSUME NEW a \in T PROVE Kind(u, h, a)
    <2>1. Kind(t, h, a)
      BY <1>4
    <2>2. ~t[a].leaf => a # l
      BY <1>1
    <2> QED BY <1>2, <2>1, <2>2 DEF Kind
  <1>9. ASSUME NEW a \in T PROVE Downward(u, T, h, a)
    <2>1. Downward(t, T, h, a)
      BY <1>4
    <2> QED BY <1>2, <2>1 DEF Downward
  <1>10. ASSUME NEW a \in T PROVE Upward(u, T, h, a)
    <2>1. Upward(t, T, h, a) /\ u[a].parent = t[a].parent
      BY <1>2, <1>4
    <2>2. t[a].parent \in T => u[t[a].parent].child = t[t[a].parent].child
      BY <1>2
    <2> QED BY <2>1, <2>2 DEF Upward
  <1>11. ASSUME NEW a \in T, t[a].leaf PROVE Ordered(u, F, a)
    <2>1. Ordered(t, E, a) /\ u[a].leaf
      BY <1>2, <1>4, <1>11
    <2>2. CASE a = l
      <3>1. Parts(u, F, a) = Each(u[l].item)
        BY <2>1, <2>2 DEF Parts
      <3> QED BY <1>1, <1>3, <1>5, <2>2, <3>1 DEF Ordered
    <2>3. CASE a # l
      <3>1. F[a] = E[a]
        BY <1>5, <1>6, <1>11, <2>3
      <3>2. Parts(u, F, a) = Parts(t, E, a)
        BY <1>2, <1>11, <2>1, <2>3 DEF Parts
      <3> QED BY <2>1, <3>1, <3>2 DEF Ordered
    <2> QED BY <2>2, <2>3
  <1>12. ASSUME NEW a \in T, ~t[a].leaf PROVE Ordered(u, F, a)
    <2> DEFINE c == t[a].child
               L == Under(E, c)
               M == Under(F, c)
    <2>1. Row(L) /\ E[a] = Whole(L)
      BY <1>4, <1>12 DEF Ordered, Parts
    <2>2. Parts(u, F, a) = M
      BY <1>2, <1>12 DEF Parts
    <2>3. /\ Len(L) = Len(c) /\ Len(M) = Len(c)
          /\ \A i \in 1 .. Len(c) : L[i] = E[c[i]] /\ M[i] = F[c[i]]
      <3>1. t[a].child \in Seq(T)
        BY <1>1, Children DEF Tree
      <3> HIDE DEF c
      <3> QED BY <3>1 DEF Under, c
    <2>4. \A i \in 1 .. Len(c) : c[i] \in T /\ c[i] # root
      <3> SUFFICES ASSUME NEW i \in 1 .. Len(c) PROVE c[i] \in T /\ c[i] # root
        OBVIOUS
      <3> QED BY <1>1, ChildOf
    <2>5. \A i \in 1 .. Len(L) : M[i] = L[i] \ {e} /\ M[i] # {}
      <3> HIDE DEF c, L, M
      <3> SUFFICES ASSUME NEW i \in 1 .. Len(L) PROVE M[i] = L[i] \ {e} /\ M[i] # {}
        OBVIOUS
      <3>1. i \in 1 .. Len(c) /\ M[i] = F[c[i]] /\ L[i] = E[c[i]]
        BY <2>3
      <3>2. c[i] \in T /\ F[c[i]] # {}
        BY <1>7, <2>4, <3>1
      <3>3. F[c[i]] = E[c[i]] \ {e}
        BY <1>5, <3>2
      <3> QED BY <3>1, <3>2, <3>3
    <2> HIDE DEF L, M
    <2>6. Row(M) /\ Whole(M) = Whole(L) \ {e}
      <3>1. Row(L) /\ Len(M) = Len(L)
        BY <2>1, <2>3
      <3> QED BY <2>5, <3>1, RowMinus
    <2> QED BY <1>5, <2>1, <2>2, <2>6 DEF Ordered
  <1>13. \A a \in T : Sound(u, T, h, F, a)
    BY <1>8, <1>9, <1>11, <1>12 DEF Sound
  <1>14. Tree(u, T, h, F)
    BY <1>1, <1>4, <1>5, <1>10, <1>13 DEF Tree, Shape
  <1>15. ASSUME Keyed(t, T, E) PROVE Keyed(u, T, F)
    <2> SUFFICES ASSUME NEW a \in T, ~u[a].leaf PROVE KeyedAt(u, F, a)
      BY DEF Keyed
    <2>1. KeyedAt(t, E, a) /\ u[a].key = t[a].key /\ u[a].child = t[a].child
      BY <1>2, <1>15 DEF Keyed
    <2>2. \A i \in 1 .. Len(t[a].key) : i \in 1 .. Len(t[a].child) /\ i + 1 \in 1 .. Len(t[a].child)
      <3>1. a \in DOMAIN t /\ Heap(t)
        BY <1>1, TreeTypes
      <3>2. t[a].key \in Seq(Nat) /\ Len(t[a].key) + 1 = Len(t[a].child)
        BY <2>1, <3>1, NodeTypes DEF KeyedAt
      <3> QED BY <3>2
    <2>3. \A i \in 1 .. Len(t[a].child) : F[t[a].child[i]] \subseteq E[t[a].child[i]]
      <3>1. \A i \in 1 .. Len(t[a].child) : t[a].child[i] \in T
        <4>1. Downward(t, T, h, a)
          BY <1>4
        <4> QED BY <4>1 DEF Downward
      <3> QED BY <1>5, <3>1
    <2> QED BY <2>1, <2>2, <2>3 DEF KeyedAt
  <1>16. F[root] = E[root] \ {e}
    BY <1>4, <1>5
  <1> QED BY <1>7, <1>14, <1>15, <1>16
-----------------------------------------------------------------------------
(* The root hands what it has to a new node, its only child.               *)
Growing(t, u, T, h, E, n) ==
    /\ Tree(t, T, h, E) /\ Heap(u) /\ T \subseteq DOMAIN u /\ n \in DOMAIN u /\ n \notin T
    /\ E[root] # {}
    /\ u[n].leaf = t[root].leaf /\ u[n].item = t[root].item /\ u[n].child = t[root].child
    /\ u[n].parent = root
    /\ ~u[root].leaf /\ u[root].item = <<>> /\ u[root].child = <<n>> /\ u[root].parent = NULL
    /\ \A x \in T \ {root} :
          /\ u[x].leaf = t[x].leaf /\ u[x].item = t[x].item /\ u[x].child = t[x].child
          /\ u[x].parent = IF t[x].parent = root THEN n ELSE t[x].parent

(* The root hands what it has to a new node, its only child: the tree is   *)
(* one level higher.                                                       *)
LEMMA GrowRoot ==
    ASSUME NEW t, NEW u, NEW T, NEW h, NEW E, NEW n, Growing(t, u, T, h, E, n),
           NEW U, U = T \cup {n},
           NEW k, k = [x \in U |-> IF x = root THEN h[root] + 1 ELSE IF x = n THEN h[root] ELSE h[x]],
           NEW F, F = [x \in U |-> IF x = n THEN E[root] ELSE E[x]]
    PROVE  Tree(u, U, k, F)
  <1>1. /\ Tree(t, T, h, E) /\ Heap(u) /\ T \subseteq DOMAIN u /\ n \in DOMAIN u /\ n \notin T
        /\ E[root] # {}
    BY DEF Growing
  <1>2. /\ u[n].leaf = t[root].leaf /\ u[n].item = t[root].item /\ u[n].child = t[root].child
        /\ u[n].parent = root
        /\ ~u[root].leaf /\ u[root].item = <<>> /\ u[root].child = <<n>> /\ u[root].parent = NULL
    BY DEF Growing
  <1>3. \A x \in T \ {root} :
          /\ u[x].leaf = t[x].leaf /\ u[x].item = t[x].item /\ u[x].child = t[x].child
          /\ t[x].parent = root => u[x].parent = n
          /\ t[x].parent # root => u[x].parent = t[x].parent
    BY DEF Growing
  <1>4. /\ root \in T /\ h \in [T -> Nat] /\ E \in [T -> SUBSET Entry]
        /\ \A a \in T : Kind(t, h, a) /\ Downward(t, T, h, a) /\ Ordered(t, E, a)
        /\ \A a \in T : Upward(t, T, h, a)
    BY <1>1, TreeTypes
  <1>5. /\ k \in [U -> Nat] /\ F \in [U -> SUBSET Entry]
        /\ k[root] = h[root] + 1 /\ k[n] = h[root] /\ F[n] = E[root] /\ F[root] = E[root]
        /\ \A x \in T \ {root} : k[x] = h[x]
        /\ \A x \in T : F[x] = E[x]
        /\ n # root /\ root \in U /\ n \in U
    <2>1. n # root /\ root \in U /\ n \in U
      BY <1>1, <1>4
    <2>2. k \in [U -> Nat]
      BY <1>4
    <2>3. F \in [U -> SUBSET Entry]
      BY <1>4
    <2> QED BY <1>1, <1>4, <2>1, <2>2, <2>3
  <1>6. \A a \in T : \A i \in 1 .. Len(t[a].child) :
           /\ t[a].child[i] \in T \ {root} /\ h[t[a].child[i]] + 1 = h[a]
           /\ t[t[a].child[i]].parent = a
    <2> SUFFICES ASSUME NEW a \in T, NEW i \in 1 .. Len(t[a].child)
                 PROVE  /\ t[a].child[i] \in T \ {root} /\ h[t[a].child[i]] + 1 = h[a]
                        /\ t[t[a].child[i]].parent = a
      OBVIOUS
    <2> QED BY <1>1, ChildOf
  <1>7. \A a \in T : Under(F, t[a].child) = Under(E, t[a].child)
    BY <1>5, <1>6 DEF Under
  <1>8. Sound(u, U, k, F, root)
    <2>1. Kind(u, k, root)
      BY <1>2, <1>4, <1>5 DEF Kind
    <2>2. Len(<<n>>) = 1 /\ <<n>>[1] = n /\ 1 .. 1 = {1}
      OBVIOUS
    <2>3. Downward(u, U, k, root)
      BY <1>2, <1>5, <2>2 DEF Downward
    <2>4. Under(F, <<n>>) = <<E[root]>>
      BY <1>5, <2>2 DEF Under
    <2>5. Row(<<E[root]>>) /\ Whole(<<E[root]>>) = E[root]
      BY <1>1, RowTwo
    <2>6. Ordered(u, F, root)
      BY <1>2, <1>5, <2>4, <2>5 DEF Ordered, Parts
    <2> QED BY <2>1, <2>3, <2>6 DEF Sound
  <1>9. Sound(u, U, k, F, n)
    <2>1. Kind(t, h, root) /\ Ordered(t, E, root)
      BY <1>4
    <2>2. Kind(u, k, n)
      BY <1>2, <1>5, <2>1 DEF Kind
    <2>3. Downward(u, U, k, n)
      <3> SUFFICES ASSUME NEW i \in 1 .. Len(t[root].child), NEW x, x = t[root].child[i]
                   PROVE  x \in U /\ k[x] + 1 = k[n] /\ u[x].parent = n
        BY <1>2 DEF Downward
      <3>1. x \in T \ {root} /\ h[x] + 1 = h[root] /\ t[x].parent = root
        BY <1>4, <1>6
      <3> QED BY <1>3, <1>5, <3>1
    <2>4. Parts(u, F, n) = Parts(t, E, root)
      BY <1>2, <1>4, <1>7 DEF Parts
    <2>5. Ordered(u, F, n)
      BY <1>5, <2>1, <2>4 DEF Ordered
    <2> QED BY <2>2, <2>3, <2>5 DEF Sound
  <1>10. ASSUME NEW a \in T \ {root} PROVE Sound(u, U, k, F, a)
    <2>1. Kind(t, h, a) /\ Ordered(t, E, a)
      BY <1>4
    <2>2. Kind(u, k, a)
      BY <1>3, <1>5, <2>1 DEF Kind
    <2>3. Downward(u, U, k, a)
      <3> SUFFICES ASSUME NEW i \in 1 .. Len(t[a].child), NEW x, x = t[a].child[i]
                   PROVE  x \in U /\ k[x] + 1 = k[a] /\ u[x].parent = a
        BY <1>3 DEF Downward
      <3>1. x \in T \ {root} /\ h[x] + 1 = h[a] /\ t[x].parent = a
        BY <1>6
      <3>2. k[x] = h[x] /\ k[a] = h[a] /\ u[x].parent = a
        BY <1>3, <1>5, <3>1
      <3> QED BY <3>1, <3>2
    <2>4. Parts(u, F, a) = Parts(t, E, a)
      BY <1>3, <1>7 DEF Parts
    <2>5. Ordered(u, F, a)
      BY <1>5, <2>1, <2>4 DEF Ordered
    <2> QED BY <2>2, <2>3, <2>5 DEF Sound
  <1>11. Upward(u, U, k, root)
    BY <1>2 DEF Upward
  <1>12. Upward(u, U, k, n)
    <2>1. k[n] < k[root]
      BY <1>4, <1>5
    <2>2. Len(<<n>>) = 1 /\ <<n>>[1] = n
      OBVIOUS
    <2>3. \E i \in 1 .. Len(<<n>>) : <<n>>[i] = n
      BY <2>2
    <2> QED BY <1>2, <1>5, <2>1, <2>3 DEF Upward
  <1>13. ASSUME NEW a \in T \ {root} PROVE Upward(u, U, k, a)
    <2> DEFINE p == t[a].parent
    <2>1. h[a] < h[root] /\ p \in T /\ \E i \in 1 .. Len(t[p].child) : t[p].child[i] = a
      BY <1>1, ParentOf
    <2>2. k[a] < k[root]
      BY <1>4, <1>5, <2>1
    <2>3. CASE p = root
      <3>1. u[a].parent = n /\ u[n].child = t[p].child
        BY <1>2, <1>3, <2>3
      <3> QED BY <1>5, <2>1, <2>2, <3>1 DEF Upward
    <2>4. CASE p # root
      <3>1. u[a].parent = p /\ u[p].child = t[p].child /\ p \in U
        BY <1>3, <2>1, <2>4
      <3> QED BY <1>5, <2>1, <2>2, <3>1 DEF Upward
    <2> QED BY <2>3, <2>4
  <1>14. \A a \in U : Sound(u, U, k, F, a) /\ Upward(u, U, k, a)
    BY <1>8, <1>9, <1>10, <1>11, <1>12, <1>13
  <1>15. U \subseteq DOMAIN u
    BY <1>1
  <1>16. Shape(u, U, k, F)
    BY <1>5, <1>14, <1>15 DEF Shape
  <1> QED BY <1>1, <1>16 DEF Tree

(* A root with one child takes over what the child has.                    *)
Collapsing(t, u, T, h, E, o) ==
    /\ Tree(t, T, h, E) /\ Heap(u) /\ ~t[root].leaf /\ t[root].child = <<o>>
    /\ DOMAIN u = DOMAIN t \ {o}
    /\ u[root].leaf = t[o].leaf /\ u[root].item = t[o].item /\ u[root].child = t[o].child
    /\ u[root].key = t[o].key /\ u[root].next = t[o].next /\ u[root].parent = NULL
    /\ \A x \in T \ {root, o} :
          /\ u[x].leaf = t[x].leaf /\ u[x].item = t[x].item /\ u[x].child = t[x].child
          /\ u[x].key = t[x].key /\ u[x].next = t[x].next
          /\ u[x].parent = IF t[x].parent = o THEN root ELSE t[x].parent

(* The root takes over its only child: the tree is one level lower, and    *)
(* all of the invariant holds of it.                                       *)
LEMMA CollapseRoot ==
    ASSUME NEW t, NEW u, NEW T, NEW h, NEW E, NEW o, Collapsing(t, u, T, h, E, o),
           Keyed(t, T, E), Sized(t, T, {root}), Chained(t, T, E),
           NEW U, U = T \ {o},
           NEW k, k = [x \in U |-> IF x = root THEN h[o] ELSE h[x]],
           NEW F, F = [x \in U |-> E[x]]
    PROVE  Good(u, U, k, F, {}) /\ F[root] = E[root] /\ o \in T
  <1>1. /\ Tree(t, T, h, E) /\ Heap(u) /\ ~t[root].leaf /\ t[root].child = <<o>>
        /\ DOMAIN u = DOMAIN t \ {o}
    BY DEF Collapsing
  <1>2. /\ u[root].leaf = t[o].leaf /\ u[root].item = t[o].item /\ u[root].child = t[o].child
        /\ u[root].key = t[o].key /\ u[root].next = t[o].next /\ u[root].parent = NULL
    BY DEF Collapsing
  <1>3. \A x \in T \ {root, o} :
          /\ u[x].leaf = t[x].leaf /\ u[x].item = t[x].item /\ u[x].child = t[x].child
          /\ u[x].key = t[x].key /\ u[x].next = t[x].next
          /\ t[x].parent = o => u[x].parent = root
          /\ t[x].parent # o => u[x].parent = t[x].parent
    BY DEF Collapsing
  <1>4. /\ root \in T /\ h \in [T -> Nat] /\ E \in [T -> SUBSET Entry] /\ T \subseteq DOMAIN t
        /\ \A a \in T : Kind(t, h, a) /\ Downward(t, T, h, a) /\ Ordered(t, E, a)
        /\ \A a \in T : Upward(t, T, h, a)
    BY <1>1, TreeTypes
  <1>5. /\ o \in T /\ o # root /\ h[o] + 1 = h[root] /\ h[o] \in Nat /\ h[root] \in Nat
        /\ E[root] = E[o] /\ t[o].parent = root
    <2>1. Len(<<o>>) = 1 /\ <<o>>[1] = o /\ 1 \in 1 .. 1
      OBVIOUS
    <2>2. 1 \in 1 .. Len(t[root].child) /\ o = t[root].child[1]
      BY <1>1, <2>1
    <2>3. o \in T /\ o # root /\ h[o] + 1 = h[root] /\ h[o] \in Nat /\ t[o].parent = root
      <3>1. Tree(t, T, h, E) /\ root \in T
        BY <1>1, <1>4
      <3> QED BY <2>2, <3>1, ChildOf
    <2>4. Under(E, <<o>>) = <<E[o]>>
      BY <2>1 DEF Under
    <2>5. E[root] = Whole(<<E[o]>>)
      BY <1>1, <1>4, <2>4 DEF Ordered, Parts
    <2> QED BY <1>4, <2>3, <2>5, RowTwo
  <1>6. /\ k \in [U -> Nat] /\ F \in [U -> SUBSET Entry] /\ root \in U
        /\ k[root] = h[o] /\ F[root] = E[o]
        /\ \A x \in U : F[x] = E[x]
        /\ \A x \in T \ {root, o} : k[x] = h[x] /\ x \in U
    BY <1>4, <1>5
  <1>7. U \subseteq DOMAIN u
    BY <1>1, <1>4
  <1>8. \A a \in T : \A i \in 1 .. Len(t[a].child) :
           /\ t[a].child[i] \in T \ {root} /\ h[t[a].child[i]] + 1 = h[a]
           /\ t[t[a].child[i]].parent = a
           /\ a # root => t[a].child[i] \in T \ {root, o}
    <2> SUFFICES ASSUME NEW a \in T, NEW i \in 1 .. Len(t[a].child)
                 PROVE  /\ t[a].child[i] \in T \ {root} /\ h[t[a].child[i]] + 1 = h[a]
                        /\ t[t[a].child[i]].parent = a
                        /\ a # root => t[a].child[i] \in T \ {root, o}
      OBVIOUS
    <2>1. t[a].child[i] \in T \ {root} /\ h[t[a].child[i]] + 1 = h[a] /\ t[t[a].child[i]].parent = a
      BY <1>1, ChildOf
    <2> QED BY <1>5, <2>1
  <1>9. \A a \in T \ {root} : Under(F, t[a].child) = Under(E, t[a].child)
    BY <1>6, <1>8 DEF Under
  <1>10. Sound(u, U, k, F, root)
    <2>1. Kind(t, h, o) /\ Ordered(t, E, o)
      BY <1>4, <1>5
    <2>2. Kind(u, k, root)
      BY <1>2, <1>6, <2>1 DEF Kind
    <2>3. Downward(u, U, k, root)
      <3> SUFFICES ASSUME NEW i \in 1 .. Len(t[o].child), NEW x, x = t[o].child[i]
                   PROVE  x \in U /\ k[x] + 1 = k[root] /\ u[x].parent = root
        BY <1>2 DEF Downward
      <3>1. x \in T \ {root, o} /\ h[x] + 1 = h[o] /\ t[x].parent = o
        BY <1>5, <1>8
      <3> QED BY <1>3, <1>6, <3>1
    <2>4. Parts(u, F, root) = Parts(t, E, o)
      BY <1>2, <1>5, <1>9 DEF Parts
    <2>5. Ordered(u, F, root)
      BY <1>6, <2>1, <2>4 DEF Ordered
    <2> QED BY <2>2, <2>3, <2>5 DEF Sound
  <1>11. ASSUME NEW a \in T \ {root, o} PROVE Sound(u, U, k, F, a)
    <2>1. Kind(t, h, a) /\ Ordered(t, E, a)
      BY <1>4
    <2>2. Kind(u, k, a)
      BY <1>3, <1>6, <2>1 DEF Kind
    <2>3. Downward(u, U, k, a)
      <3> SUFFICES ASSUME NEW i \in 1 .. Len(t[a].child), NEW x, x = t[a].child[i]
                   PROVE  x \in U /\ k[x] + 1 = k[a] /\ u[x].parent = a
        BY <1>3 DEF Downward
      <3>1. x \in T \ {root, o} /\ h[x] + 1 = h[a] /\ t[x].parent = a
        BY <1>8
      <3>2. k[x] = h[x] /\ k[a] = h[a] /\ u[x].parent = a /\ x \in U
        BY <1>3, <1>6, <3>1
      <3> QED BY <3>1, <3>2
    <2>4. Parts(u, F, a) = Parts(t, E, a)
      BY <1>3, <1>9 DEF Parts
    <2>5. Ordered(u, F, a)
      BY <1>6, <2>1, <2>4 DEF Ordered
    <2> QED BY <2>2, <2>3, <2>5 DEF Sound
  <1>12. Upward(u, U, k, root)
    BY <1>2 DEF Upward
  <1>13. ASSUME NEW a \in T \ {root, o} PROVE Upward(u, U, k, a)
    <2> DEFINE p == t[a].parent
    <2>1. /\ h[a] < h[root] /\ p \in T /\ h[a] + 1 = h[p] /\ h[a] \in Nat
          /\ \E i \in 1 .. Len(t[p].child) : t[p].child[i] = a
      BY <1>1, ParentOf
    <2>2. p # root
      <3>1. \A i \in 1 .. Len(<<o>>) : <<o>>[i] = o
        OBVIOUS
      <3> QED BY <1>1, <2>1, <3>1
    <2>3. k[a] < k[root]
      <3>1. h[p] < h[root]
        BY <1>1, <2>1, <2>2, ParentOf
      <3>2. h[p] \in Nat
        BY <1>4, <2>1
      <3> QED BY <1>5, <1>6, <2>1, <3>1, <3>2
    <2>4. CASE p = o
      <3>1. u[a].parent = root /\ u[root].child = t[p].child
        BY <1>2, <1>3, <2>4
      <3> QED BY <1>6, <2>1, <2>3, <3>1 DEF Upward
    <2>5. CASE p # o
      <3>1. u[a].parent = p /\ u[p].child = t[p].child /\ p \in U
        BY <1>3, <1>6, <2>1, <2>2, <2>5
      <3> QED BY <1>6, <2>1, <2>3, <3>1 DEF Upward
    <2> QED BY <2>4, <2>5
  <1>14. \A a \in U : Sound(u, U, k, F, a) /\ Upward(u, U, k, a)
    BY <1>10, <1>11, <1>12, <1>13
  <1>15. Shape(u, U, k, F)
    BY <1>6, <1>7, <1>14 DEF Shape
  <1>16. Keyed(u, U, F)
    <2>1. ASSUME NEW b \in T, NEW a \in U, b # root, ~t[b].leaf,
                 u[a].key = t[b].key, u[a].child = t[b].child
          PROVE  KeyedAt(u, F, a)
      <3>1. KeyedAt(t, E, b)
        BY <2>1 DEF Keyed
      <3>2. b \in DOMAIN t /\ Heap(t)
        BY <1>1, TreeTypes
      <3>3. t[b].key \in Seq(Nat) /\ Len(t[b].key) + 1 = Len(t[b].child)
        BY <3>1, <3>2, NodeTypes DEF KeyedAt
      <3>4. \A i \in 1 .. Len(t[b].key) : i \in 1 .. Len(t[b].child) /\ i + 1 \in 1 .. Len(t[b].child)
        BY <3>3
      <3>5. \A i \in 1 .. Len(t[b].child) : F[t[b].child[i]] = E[t[b].child[i]]
        BY <1>6, <1>8, <2>1
      <3> QED BY <2>1, <3>1, <3>4, <3>5 DEF KeyedAt
    <2>2. ASSUME NEW a \in U, ~u[a].leaf PROVE KeyedAt(u, F, a)
      <3>1. CASE a = root
        BY <1>2, <1>5, <1>6, <2>1, <2>2, <3>1
      <3>2. CASE a # root
        BY <1>3, <2>1, <2>2, <3>2
      <3> QED BY <3>1, <3>2
    <2> QED BY <2>2 DEF Keyed
  <1>17. Sized(u, U, {})
    <2>1. \A b \in T \ {root} : SizedAt(t, b)
      BY DEF Sized
    <2>2. SizedAt(u, root)
      BY <1>2, <1>5, <2>1 DEF SizedAt
    <2>3. \A a \in T \ {root, o} : SizedAt(u, a)
      BY <1>3, <2>1 DEF SizedAt
    <2> QED BY <2>2, <2>3 DEF Sized
  <1>18. Chained(u, U, F)
    <2>1. CASE t[o].leaf
      <3>1. h[o] = 0
        BY <1>4, <1>5, <2>1 DEF Kind
      <3>2. \A a \in U : a = root
        <4>1. \A a \in T \ {root, o} : FALSE
          <5> SUFFICES ASSUME NEW a \in T \ {root, o} PROVE FALSE
            OBVIOUS
          <5>1. k[a] < k[root] /\ k[a] \in Nat
            BY <1>6, <1>13 DEF Upward
          <5> QED BY <1>6, <3>1, <5>1
        <4> QED BY <4>1
      <3>3. ChainedAt(t, T, E, o)
        BY <1>5, <2>1 DEF Chained, LeavesOf
      <3>4. t[o].next \notin T
        <4>1. t[o].next \in T => t[o].next # o /\ t[t[o].next].leaf
          BY <3>3 DEF ChainedAt, LeavesOf
        <4> QED BY <1>1, <1>6, <3>2, <4>1
      <3>5. t[o].next \in DOMAIN u \cup {NULL}
        BY <1>1, <1>5, <3>3, <3>4 DEF ChainedAt
      <3>6. LeavesOf(u, U) = {root}
        BY <1>2, <1>6, <2>1, <3>2 DEF LeavesOf
      <3>7. ChainedAt(u, U, F, root)
        BY <1>2, <3>4, <3>5, <3>6 DEF ChainedAt
      <3> QED BY <3>2, <3>6, <3>7 DEF Chained, LeavesOf
    <2>2. CASE ~t[o].leaf
      <3>1. LeavesOf(u, U) = LeavesOf(t, T)
        BY <1>1, <1>2, <1>3, <2>2 DEF LeavesOf
      <3>2. ASSUME NEW a \in LeavesOf(t, T) PROVE ChainedAt(u, U, F, a)
        <4>1. a \in T \ {root, o} /\ u[a].next = t[a].next /\ ChainedAt(t, T, E, a)
          BY <1>1, <1>3, <2>2, <3>2 DEF LeavesOf, Chained
        <4>2. t[a].next # o
          BY <1>5, <2>2, <4>1 DEF ChainedAt, LeavesOf
        <4>3. \A b \in LeavesOf(t, T) : F[b] = E[b]
          BY <1>6, <2>2 DEF LeavesOf
        <4> QED BY <1>1, <3>1, <4>1, <4>2, <4>3 DEF ChainedAt
      <3>3. \A a \in U : ~u[a].leaf => u[a].next = NULL
        <4>1. \A a \in T : ~t[a].leaf => t[a].next = NULL
          BY DEF Chained
        <4>2. u[root].next = NULL
          BY <1>2, <1>5, <2>2, <4>1
        <4> QED BY <1>3, <4>1, <4>2
      <3> QED BY <3>1, <3>2, <3>3 DEF Chained
    <2> QED BY <2>1, <2>2
  <1>19. Good(u, U, k, F, {})
    BY <1>1, <1>15, <1>16, <1>17, <1>18 DEF Good
  <1> QED BY <1>5, <1>6, <1>19

-----------------------------------------------------------------------------
(***************************************************************************)
(* A node that is lost with all below it, when the heap is full.           *)
(***************************************************************************)

(* The child r of p, next to the i-th, is lost, with all below it.         *)
Losing(t, u, T, h, E, p, i, r, s) ==
    /\ Tree(t, T, h, E) /\ Heap(u) /\ DOMAIN u = DOMAIN t /\ p \in T /\ ~t[p].leaf
    /\ \A x \in T \ {p} : u[x] = t[x]
    /\ u[p].leaf = t[p].leaf /\ u[p].item = t[p].item
    /\ u[p].parent = t[p].parent /\ u[p].next = t[p].next
    /\ i \in 1 .. Len(u[p].child) /\ i \in 1 .. Len(u[p].key) + 1 /\ r \in Nat /\ s \in Nat
    /\ t[p].child = InsertAt(u[p].child, i + 1, r)
    /\ t[p].key = InsertAt(u[p].key, i, s)

(* The nodes from r on downward.                                           *)
LostBelow(T, h, E, r) == {a \in T : h[a] <= h[r] /\ E[a] \subseteq E[r]}

(* A list with r after its i-th element.                                   *)
LEMMA NextTo ==
    ASSUME NEW S, NEW d \in Seq(S), NEW i \in 1 .. Len(d), NEW r \in S,
           NEW c, c = InsertAt(d, i + 1, r)
    PROVE  /\ Len(c) = Len(d) + 1 /\ Len(d) \in Nat /\ i \in Nat /\ i + 1 \in 1 .. Len(c) /\ c[i + 1] = r
           /\ \A j \in 1 .. i : c[j] = d[j]
           /\ \A j \in i + 2 .. Len(d) + 1 : c[j] = d[j - 1]
  <1>1. PICK m : m = i + 1
    OBVIOUS
  <1>2. m \in 1 .. Len(d) + 1 /\ c = InsertAt(d, m, r)
    BY <1>1
  <1>3. /\ Len(c) = Len(d) + 1
        /\ \A j \in 1 .. Len(c) : (j < m => c[j] = d[j]) /\ (j = m => c[j] = r) /\ (m < j => c[j] = d[j - 1])
    <2>1. Inserted(S, d, m, r, c)
      BY <1>2, InsertedList
    <2> QED BY <2>1 DEF Inserted
  <1>4. i + 1 \in 1 .. Len(c) /\ c[i + 1] = r
    BY <1>1, <1>3
  <1>5. \A j \in 1 .. i : j \in 1 .. Len(c) /\ j < m
    BY <1>1, <1>3
  <1>6. \A j \in i + 2 .. Len(d) + 1 : j \in 1 .. Len(c) /\ m < j
    BY <1>1, <1>3
  <1> QED BY <1>3, <1>4, <1>5, <1>6

(* A child r of p is left out, and all that is below it is lost: the rest  *)
(* is a tree. So it is when add_parent finds no node for a parent it has   *)
(* to split.                                                               *)
LEMMA LoseShape ==
    ASSUME NEW t, NEW u, NEW T, NEW h, NEW E, NEW p, NEW i, NEW r, NEW s,
           Losing(t, u, T, h, E, p, i, r, s),
           NEW U, U = T \ LostBelow(T, h, E, r),
           NEW k, k = [x \in U |-> h[x]], NEW F, F = [x \in U |-> E[x] \ E[r]]
    PROVE  /\ Tree(u, U, k, F) /\ r \in T /\ p \in U /\ F[root] = E[root] \ E[r]
           /\ \A x \in U : t[x].leaf => F[x] = E[x]
           /\ \A x \in U : \A j \in 1 .. Len(u[x].child) : F[u[x].child[j]] = E[u[x].child[j]] \ E[r]
  <1> DEFINE D == LostBelow(T, h, E, r)
             c == t[p].child
             d == u[p].child
  <1>1. /\ Tree(t, T, h, E) /\ Heap(u) /\ DOMAIN u = DOMAIN t /\ p \in T /\ ~t[p].leaf
        /\ \A x \in T \ {p} : u[x] = t[x]
        /\ u[p].leaf = t[p].leaf /\ u[p].item = t[p].item /\ u[p].parent = t[p].parent
        /\ i \in 1 .. Len(d) /\ r \in Nat /\ c = InsertAt(d, i + 1, r)
    BY DEF Losing
  <1>2. /\ root \in T /\ h \in [T -> Nat] /\ E \in [T -> SUBSET Entry] /\ T \subseteq DOMAIN t
        /\ \A a \in T : Kind(t, h, a) /\ Downward(t, T, h, a) /\ Ordered(t, E, a)
        /\ \A a \in T : Upward(t, T, h, a)
    BY <1>1, TreeTypes
  <1>3. d \in Seq(Nat)
    <2>1. p \in DOMAIN u
      BY <1>1, <1>2
    <2> QED BY <1>1, <2>1, NodeTypes
  <1> HIDE DEF c, d
  <1>4. /\ Len(c) = Len(d) + 1 /\ Len(d) \in Nat /\ i \in Nat /\ i + 1 \in 1 .. Len(c) /\ c[i + 1] = r
        /\ \A j \in 1 .. i : c[j] = d[j]
        /\ \A j \in i + 2 .. Len(d) + 1 : c[j] = d[j - 1]
    <2>1. PICK S : S = Nat
      OBVIOUS
    <2>2. d \in Seq(S) /\ i \in 1 .. Len(d) /\ r \in S /\ c = InsertAt(d, i + 1, r)
      BY <1>1, <1>3, <2>1
    <2> QED BY <2>2, NextTo
  <1>5. \A j \in 1 .. Len(c) : /\ c[j] \in T /\ c[j] # root /\ h[c[j]] + 1 = h[p] /\ t[c[j]].parent = p
                               /\ E[c[j]] # {} /\ E[c[j]] \subseteq E[p]
    <2> SUFFICES ASSUME NEW j \in 1 .. Len(t[p].child)
                 PROVE  LET x == t[p].child[j]
                        IN  /\ x \in T /\ x # root /\ h[x] + 1 = h[p] /\ t[x].parent = p
                            /\ E[x] # {} /\ E[x] \subseteq E[p]
      BY DEF c
    <2> QED BY <1>1, ChildOf
  <1>6. /\ \A m, n \in 1 .. Len(c) : m < n => Less(E[c[m]], E[c[n]])
        /\ \A e \in E[p] : \E j \in 1 .. Len(c) : e \in E[c[j]]
    BY <1>1, InnerOf DEF c
  <1>7. /\ r \in T /\ r # root /\ h[r] + 1 = h[p] /\ h[r] \in Nat
        /\ h[p] \in Nat /\ E[r] # {} /\ E[r] \subseteq E[p]
    BY <1>1, <1>2, <1>4, <1>5
  <1>8. \A X, Y : X \subseteq Entry /\ Y \subseteq Entry /\ Less(X, Y) => \A e \in X : e \notin Y
    <2> SUFFICES ASSUME NEW X, NEW Y, X \subseteq Entry, Less(X, Y), NEW e \in X, e \in Y PROVE FALSE
      OBVIOUS
    <2>1. e \in Entry /\ e.fnv < e.fnv
      BY DEF Less
    <2>2. e.fnv \in Nat
      BY <2>1 DEF Entry
    <2> QED BY <2>1, <2>2
  <1>9. \A a, b \in T : Aside(E, a, b) => \A e \in E[a] : e \notin E[b]
    <2> SUFFICES ASSUME NEW a \in T, NEW b \in T, Aside(E, a, b), NEW e \in E[a], e \in E[b] PROVE FALSE
      OBVIOUS
    <2>1. E[a] \subseteq Entry /\ E[b] \subseteq Entry
      BY <1>2
    <2> QED BY <1>8, <2>1 DEF Aside
  <1>10. \A a \in T : a \in D <=> h[a] <= h[r] /\ E[a] \subseteq E[r]
    BY DEF LostBelow
  <1> HIDE DEF D
  <1>11. p \notin D /\ root \notin D /\ r \in D
    <2>1. h[r] < h[root] /\ h[root] \in Nat
      BY <1>1, <1>7, ParentOf
    <2> QED BY <1>1, <1>2, <1>7, <1>10, <2>1
  <1>12. /\ U = T \ D /\ root \in U /\ p \in U /\ k \in [U -> Nat] /\ F \in [U -> SUBSET Entry]
         /\ \A x \in U : k[x] = h[x] /\ F[x] = E[x] \ E[r] /\ x \in T /\ x \notin D
    BY <1>1, <1>2, <1>11 DEF D
  <1>13. ASSUME NEW x \in U, NEW j \in 1 .. Len(t[x].child), NEW y, y = t[x].child[j], y # r
         PROVE  y \in U
    <2>1. /\ x \in T /\ y \in T /\ h[y] + 1 = h[x] /\ h[y] \in Nat /\ E[y] # {} /\ E[y] \subseteq E[x]
          /\ h[x] \in Nat
      BY <1>1, <1>2, <1>12, <1>13, ChildOf, SMTT(30)
    <2> SUFFICES ASSUME y \in D PROVE FALSE
      BY <1>12, <2>1
    <2>2. h[y] <= h[r] /\ E[y] \subseteq E[r]
      BY <1>10, <2>1
    <2>3. PICK e \in E[y] : TRUE
      BY <2>1
    <2>4. CASE h[y] = h[r]
      <3>1. Aside(E, y, r)
        BY <1>1, <1>7, <1>13, <2>1, <2>4, LevelOrder
      <3> QED BY <1>7, <1>9, <2>1, <2>2, <2>3, <3>1
    <2>5. CASE h[y] # h[r]
      <3>1. h[x] <= h[r]
        BY <1>7, <2>1, <2>2, <2>5
      <3>2. E[x] \subseteq E[r] \/ Aside(E, x, r)
        BY <1>1, <1>7, <2>1, <3>1, Laminar
      <3>3. E[x] \subseteq E[r]
        BY <1>7, <1>9, <2>1, <2>2, <2>3, <3>2
      <3> QED BY <1>10, <1>12, <2>1, <3>1, <3>3
    <2> QED BY <2>4, <2>5
  <1>14. ASSUME NEW x \in U, x # root PROVE F[x] # {}
    <2>1. x \in T /\ x \notin D /\ F[x] = E[x] \ E[r] /\ h[x] \in Nat
      BY <1>2, <1>12
    <2>2. E[x] # {}
      BY <1>1, <1>14, <2>1, ParentOf
    <2>3. CASE h[x] <= h[r]
      BY <1>10, <2>1, <2>3
    <2>4. CASE ~(h[x] <= h[r])
      <3>1. h[p] <= h[x] /\ h[r] <= h[x]
        BY <1>7, <2>1, <2>4
      <3>2. E[r] \subseteq E[x] \/ Aside(E, r, x)
        BY <1>1, <1>7, <2>1, <3>1, Laminar
      <3>3. E[p] \subseteq E[x] \/ Aside(E, p, x)
        BY <1>1, <2>1, <3>1, Laminar
      <3>4. CASE Aside(E, r, x)
        BY <1>7, <1>9, <2>1, <2>2, <3>4
      <3>5. CASE E[r] \subseteq E[x]
        <4>1. PICK e \in E[r] : TRUE
          BY <1>7
        <4>2. E[p] \subseteq E[x]
          BY <1>1, <1>7, <1>9, <2>1, <3>3, <3>5, <4>1
        <4>3. i \in 1 .. Len(c) /\ i < i + 1
          BY <1>1, <1>4
        <4>4. Less(E[c[i]], E[r]) /\ E[c[i]] # {} /\ E[c[i]] \subseteq E[p] /\ c[i] \in T
          BY <1>4, <1>5, <1>6, <4>3
        <4>5. Aside(E, c[i], r)
          BY <4>4 DEF Aside
        <4> QED BY <1>7, <1>9, <2>1, <4>2, <4>4, <4>5
      <3> QED BY <3>2, <3>4, <3>5
    <2> QED BY <2>3, <2>4
  <1>15. \A j \in 1 .. Len(d) : \E m \in 1 .. Len(c) :
            /\ d[j] = c[m] /\ m # i + 1 /\ (j <= i => m = j) /\ (i < j => m = j + 1)
    <2> SUFFICES ASSUME NEW j \in 1 .. Len(d)
                 PROVE  \E m \in 1 .. Len(c) :
                           /\ d[j] = c[m] /\ m # i + 1 /\ (j <= i => m = j) /\ (i < j => m = j + 1)
      OBVIOUS
    <2>1. CASE j <= i
      <3>1. j \in 1 .. Len(c) /\ j \in 1 .. i /\ j # i + 1 /\ ~(i < j)
        BY <1>4, <2>1
      <3> QED BY <1>4, <3>1
    <2>2. CASE ~(j <= i)
      <3>1. j + 1 \in 1 .. Len(c) /\ j + 1 \in i + 2 .. Len(d) + 1 /\ (j + 1) - 1 = j /\ j + 1 # i + 1
        BY <1>4, <2>2
      <3>2. d[j] = c[j + 1]
        BY <1>4, <3>1
      <3> QED BY <2>2, <3>1, <3>2
    <2> QED BY <2>1, <2>2
  <1>16. \A m \in 1 .. Len(c) : m # i + 1 => \E j \in 1 .. Len(d) : d[j] = c[m]
    <2> SUFFICES ASSUME NEW m \in 1 .. Len(c), m # i + 1 PROVE \E j \in 1 .. Len(d) : d[j] = c[m]
      OBVIOUS
    <2>1. CASE m <= i
      <3>1. m \in 1 .. Len(d) /\ m \in 1 .. i
        BY <1>1, <1>4, <2>1
      <3> QED BY <1>4, <3>1
    <2>2. CASE ~(m <= i)
      <3>1. m - 1 \in 1 .. Len(d) /\ m \in i + 2 .. Len(d) + 1
        BY <1>4, <2>2
      <3> QED BY <1>4, <3>1
    <2> QED BY <2>1, <2>2
  <1>17. \A m, n \in 1 .. Len(c) : c[m] = c[n] => m = n
    BY <1>1, Children DEF c, Tree
  <1>18. \A j \in 1 .. Len(d) : /\ d[j] \in U /\ h[d[j]] + 1 = h[p] /\ t[d[j]].parent = p
                                /\ F[d[j]] = E[d[j]] /\ d[j] # root
    <2> SUFFICES ASSUME NEW j \in 1 .. Len(d)
                 PROVE  /\ d[j] \in U /\ h[d[j]] + 1 = h[p] /\ t[d[j]].parent = p
                        /\ F[d[j]] = E[d[j]] /\ d[j] # root
      OBVIOUS
    <2>1. PICK m \in 1 .. Len(c) : d[j] = c[m] /\ m # i + 1
      BY <1>15
    <2>2. c[m] # r
      BY <1>4, <1>17, <2>1
    <2>3. c[m] \in U
      BY <1>12, <1>13, <2>2 DEF c
    <2>4. h[c[m]] + 1 = h[p] /\ t[c[m]].parent = p /\ c[m] # root /\ c[m] \in T /\ h[c[m]] \in Nat
      BY <1>2, <1>5
    <2>5. Aside(E, c[m], r)
      <3>1. h[c[m]] = h[r]
        BY <1>7, <2>4
      <3> QED BY <1>1, <1>7, <2>2, <2>4, <3>1, LevelOrder
    <2>6. F[c[m]] = E[c[m]]
      BY <1>7, <1>9, <1>12, <2>3, <2>4, <2>5
    <2> QED BY <2>1, <2>3, <2>4, <2>6
  <1>19. ASSUME NEW x \in U PROVE Kind(u, k, x)
    <2>1. Kind(t, h, x) /\ k[x] = h[x] /\ x \in T
      BY <1>2, <1>12
    <2>2. CASE x = p
      <3>1. d # <<>>
        BY <1>1, <1>3
      <3> QED BY <1>1, <2>1, <2>2, <3>1 DEF Kind, d
    <2>3. CASE x # p
      <3>1. u[x] = t[x]
        BY <1>1, <2>1, <2>3
      <3> QED BY <2>1, <3>1 DEF Kind
    <2> QED BY <2>2, <2>3
  <1>20. \A x \in U : u[x].parent = t[x].parent
    BY <1>1, <1>12
  <1>21. ASSUME NEW x \in U, NEW j \in 1 .. Len(u[x].child), NEW y, y = u[x].child[j]
         PROVE  y \in U /\ h[y] + 1 = h[x] /\ u[y].parent = x /\ y # root
    <2>1. CASE x = p
      <3>1. y \in U /\ h[y] + 1 = h[p] /\ t[y].parent = p /\ y # root
        BY <1>18, <1>21, <2>1 DEF d
      <3> QED BY <1>20, <2>1, <3>1
    <2>2. CASE x # p
      <3>1. u[x] = t[x] /\ x \in T
        BY <1>1, <1>12, <2>2
      <3>2. y \in T /\ h[y] + 1 = h[x] /\ t[y].parent = x /\ y # root
        BY <1>1, <1>21, <3>1, ChildOf
      <3>3. y # r
        BY <1>4, <1>5, <2>2, <3>2
      <3>4. y \in U
        BY <1>13, <1>21, <3>1, <3>3
      <3> QED BY <1>20, <3>2, <3>4
    <2> QED BY <2>1, <2>2
  <1>22. ASSUME NEW x \in U PROVE Downward(u, U, k, x)
    <2> SUFFICES ASSUME NEW j \in 1 .. Len(u[x].child), NEW y, y = u[x].child[j]
                 PROVE  y \in U /\ k[y] + 1 = k[x] /\ u[y].parent = x
      BY DEF Downward
    <2>1. y \in U /\ h[y] + 1 = h[x] /\ u[y].parent = x
      BY <1>21
    <2> QED BY <1>12, <2>1
  <1>23. ASSUME NEW x \in U, t[x].leaf PROVE F[x] = E[x]
    <2>1. x \in T /\ x \notin D /\ h[x] = 0
      BY <1>2, <1>12, <1>23 DEF Kind
    <2>2. h[x] <= h[r]
      BY <1>7, <2>1
    <2>3. E[x] \subseteq E[r] \/ Aside(E, x, r)
      BY <1>1, <1>7, <2>1, <2>2, Laminar
    <2>4. Aside(E, x, r)
      BY <1>10, <2>1, <2>2, <2>3
    <2> QED BY <1>7, <1>9, <1>12, <2>1, <2>4
  <1>24. ASSUME NEW x \in U, t[x].leaf PROVE Ordered(u, F, x)
    <2>1. x \in T /\ x # p /\ u[x] = t[x] /\ Ordered(t, E, x) /\ F[x] = E[x]
      BY <1>1, <1>2, <1>12, <1>23, <1>24
    <2>2. Parts(u, F, x) = Parts(t, E, x)
      BY <1>24, <2>1 DEF Parts
    <2> QED BY <2>1, <2>2 DEF Ordered
  <1>25. ASSUME NEW x \in U, ~t[x].leaf, x # p PROVE Ordered(u, F, x)
    <2> DEFINE q == t[x].child
               L == Under(E, q)
               M == Under(F, q)
    <2>1. x \in T /\ u[x] = t[x] /\ Row(L) /\ E[x] = Whole(L) /\ F[x] = E[x] \ E[r]
      BY <1>1, <1>2, <1>12, <1>25 DEF Ordered, Parts
    <2>2. Parts(u, F, x) = M
      BY <1>25, <2>1 DEF Parts
    <2>3. /\ Len(L) = Len(q) /\ Len(M) = Len(q)
          /\ \A j \in 1 .. Len(q) : L[j] = E[q[j]] /\ M[j] = F[q[j]]
      <3>1. t[x].child \in Seq(T)
        BY <1>1, <2>1, Children DEF Tree
      <3> HIDE DEF q
      <3> QED BY <3>1 DEF Under, q
    <2>4. \A j \in 1 .. Len(q) : q[j] \in U /\ q[j] # root
      <3> SUFFICES ASSUME NEW j \in 1 .. Len(q) PROVE q[j] \in U /\ q[j] # root
        OBVIOUS
      <3>1. j \in 1 .. Len(u[x].child) /\ q[j] = u[x].child[j]
        BY <2>1
      <3> QED BY <1>21, <3>1
    <2>5. \A j \in 1 .. Len(L) : M[j] = L[j] \ E[r] /\ M[j] # {}
      <3> HIDE DEF q, L, M
      <3> SUFFICES ASSUME NEW j \in 1 .. Len(L) PROVE M[j] = L[j] \ E[r] /\ M[j] # {}
        OBVIOUS
      <3>1. j \in 1 .. Len(q) /\ M[j] = F[q[j]] /\ L[j] = E[q[j]]
        BY <2>3
      <3>2. q[j] \in U /\ F[q[j]] # {}
        BY <1>14, <2>4, <3>1
      <3>3. F[q[j]] = E[q[j]] \ E[r]
        BY <1>12, <3>2
      <3> QED BY <3>1, <3>2, <3>3
    <2> HIDE DEF L, M
    <2>6. Row(M) /\ Whole(M) = Whole(L) \ E[r]
      <3>1. Row(L) /\ Len(M) = Len(L)
        BY <2>1, <2>3
      <3> QED BY <2>5, <3>1, RowMinus
    <2> QED BY <2>1, <2>2, <2>6 DEF Ordered
  <1>26. Ordered(u, F, p)
    <2> DEFINE M == Under(F, d)
    <2>1. Parts(u, F, p) = M
      BY <1>1 DEF Parts, d
    <2>2. Len(M) = Len(d) /\ \A j \in 1 .. Len(d) : M[j] = F[d[j]]
      BY <1>3 DEF Under
    <2> HIDE DEF M
    <2>3. \A j \in 1 .. Len(M) : M[j] # {}
      <3> SUFFICES ASSUME NEW j \in 1 .. Len(M) PROVE M[j] # {}
        OBVIOUS
      <3>1. j \in 1 .. Len(d) /\ M[j] = F[d[j]]
        BY <2>2
      <3>2. d[j] \in U /\ d[j] # root
        BY <1>18, <3>1
      <3> QED BY <1>14, <3>1, <3>2
    <2>4. ASSUME NEW j \in 1 .. Len(M), NEW n \in 1 .. Len(M), j < n PROVE Less(M[j], M[n])
      <3>1. PICK a \in 1 .. Len(c) : d[j] = c[a] /\ (j <= i => a = j) /\ (i < j => a = j + 1)
        BY <1>15, <2>2
      <3>2. PICK b \in 1 .. Len(c) : d[n] = c[b] /\ (n <= i => b = n) /\ (i < n => b = n + 1)
        BY <1>15, <2>2
      <3>3. a < b
        <4>1. j \in Nat /\ n \in Nat /\ i \in Nat
          BY <1>4, <2>2
        <4> QED BY <2>4, <3>1, <3>2, <4>1
      <3>4. Less(E[c[a]], E[c[b]])
        BY <1>6, <3>3
      <3>5. M[j] = E[c[a]] /\ M[n] = E[c[b]]
        <4>1. j \in 1 .. Len(d) /\ n \in 1 .. Len(d) /\ M[j] = F[d[j]] /\ M[n] = F[d[n]]
          BY <2>2
        <4>2. F[d[j]] = E[d[j]] /\ F[d[n]] = E[d[n]]
          BY <1>18, <4>1
        <4> QED BY <3>1, <3>2, <4>1, <4>2
      <3> QED BY <3>4, <3>5
    <2>5. Row(M)
      BY <2>3, <2>4 DEF Row
    <2>6. Whole(M) = E[p] \ E[r]
      <3>1. ASSUME NEW e \in Whole(M) PROVE e \in E[p] \ E[r]
        <4>1. PICK j \in 1 .. Len(M) : e \in M[j]
          BY <3>1 DEF Whole
        <4>2. j \in 1 .. Len(d) /\ e \in F[d[j]]
          BY <2>2, <4>1
        <4>3. PICK m \in 1 .. Len(c) : d[j] = c[m]
          BY <1>15, <4>2
        <4>4. d[j] \in U /\ E[d[j]] \subseteq E[p]
          BY <1>5, <1>18, <4>2, <4>3
        <4>5. F[d[j]] = E[d[j]] \ E[r]
          BY <1>12, <4>4
        <4> QED BY <4>2, <4>4, <4>5
      <3>2. ASSUME NEW e \in E[p] \ E[r] PROVE e \in Whole(M)
        <4>1. PICK m \in 1 .. Len(c) : e \in E[c[m]]
          BY <1>6
        <4>2. m # i + 1
          BY <1>4, <4>1
        <4>3. PICK j \in 1 .. Len(d) : d[j] = c[m]
          BY <1>16, <4>2
        <4>4. e \in M[j] /\ j \in 1 .. Len(M)
          BY <1>18, <2>2, <4>1, <4>3
        <4> QED BY <4>4 DEF Whole
      <3> QED BY <3>1, <3>2
    <2>7. F[p] = E[p] \ E[r]
      BY <1>12
    <2> QED BY <2>1, <2>5, <2>6, <2>7 DEF Ordered
  <1>27. ASSUME NEW x \in U PROVE Sound(u, U, k, F, x)
    BY <1>19, <1>22, <1>24, <1>25, <1>26 DEF Sound
  <1>28. ASSUME NEW x \in U PROVE Upward(u, U, k, x)
    <2>1. CASE x = root
      <3>1. t[root].parent = NULL
        BY <1>2 DEF Upward
      <3> QED BY <1>20, <2>1, <3>1 DEF Upward
    <2>2. CASE x # root
      <3> DEFINE q == t[x].parent
      <3>1. x \in T
        BY <1>12
      <3>2. /\ q \in T /\ h[x] < h[root] /\ h[x] + 1 = h[q] /\ E[x] \subseteq E[q] /\ E[x] # {}
            /\ \E j \in 1 .. Len(t[q].child) : t[q].child[j] = x
        BY <1>1, <2>2, <3>1, ParentOf
      <3> HIDE DEF q
      <3>3. q \in U
        <4> SUFFICES ASSUME q \in D PROVE FALSE
          BY <1>12, <3>2
        <4>1. h[q] <= h[r] /\ E[q] \subseteq E[r]
          BY <1>10, <3>2
        <4>2. h[x] <= h[r] /\ E[x] \subseteq E[r]
          BY <1>2, <1>7, <1>12, <3>2, <4>1
        <4> QED BY <1>10, <1>12, <4>2
      <3>4. ListedIn(u, q, x)
        <4>1. CASE q = p
          <5>1. PICK m \in 1 .. Len(c) : c[m] = x
            BY <3>2, <4>1 DEF c
          <5>2. m # i + 1
            BY <1>4, <1>11, <1>12, <5>1
          <5>3. \E j \in 1 .. Len(d) : d[j] = x
            BY <1>16, <5>1, <5>2
          <5> QED BY <4>1, <5>3 DEF ListedIn, d
        <4>2. CASE q # p
          <5>1. u[q] = t[q]
            BY <1>1, <3>2, <4>2
          <5> QED BY <3>2, <5>1 DEF ListedIn
        <4> QED BY <4>1, <4>2
      <3>5. u[x].parent = q
        BY <1>20 DEF q
      <3>6. k[x] < k[root]
        BY <1>12, <3>2
      <3> QED BY <2>2, <3>3, <3>4, <3>5, <3>6 DEF Upward, ListedIn
    <2> QED BY <2>1, <2>2
  <1>29. U \subseteq DOMAIN u
    BY <1>1, <1>2, <1>12
  <1>30. Shape(u, U, k, F)
    BY <1>12, <1>27, <1>28, <1>29 DEF Shape
  <1>31. \A x \in U : \A j \in 1 .. Len(u[x].child) : F[u[x].child[j]] = E[u[x].child[j]] \ E[r]
    BY <1>12, <1>21
  <1> QED BY <1>1, <1>7, <1>12, <1>23, <1>30, <1>31 DEF Tree

-----------------------------------------------------------------------------
(***************************************************************************)
(* Keys, sizes and the chain after a change.                               *)
(***************************************************************************)

(* An inner node whose keys and children stay, with no more below them.    *)
LEMMA KeyedPart ==
    ASSUME NEW t, NEW u, NEW E, NEW F, NEW a, KeyedAt(t, E, a), t[a].key \in Seq(Nat),
           u[a].key = t[a].key, u[a].child = t[a].child,
           \A i \in 1 .. Len(t[a].child) : F[t[a].child[i]] \subseteq E[t[a].child[i]]
    PROVE  KeyedAt(u, F, a)
  <1>1. /\ Len(t[a].key) + 1 = Len(t[a].child) /\ Len(t[a].key) \in Nat
        /\ \A i \in 1 .. Len(t[a].key) :
              /\ \A x \in E[t[a].child[i]] : x.fnv < t[a].key[i]
              /\ \A x \in E[t[a].child[i + 1]] : t[a].key[i] <= x.fnv
    BY DEF KeyedAt
  <1>2. ASSUME NEW i \in 1 .. Len(t[a].key)
        PROVE  /\ F[t[a].child[i]] \subseteq E[t[a].child[i]]
               /\ F[t[a].child[i + 1]] \subseteq E[t[a].child[i + 1]]
    <2>1. i \in 1 .. Len(t[a].child) /\ i + 1 \in 1 .. Len(t[a].child)
      BY <1>1
    <2> QED BY <2>1
  <1>3. ASSUME NEW i \in 1 .. Len(t[a].key)
        PROVE  /\ \A x \in F[t[a].child[i]] : x.fnv < t[a].key[i]
               /\ \A x \in F[t[a].child[i + 1]] : t[a].key[i] <= x.fnv
    BY <1>1, <1>2
  <1> QED BY <1>1, <1>3 DEF KeyedAt

(* An inner node whose keys are the least of its children but the first.   *)
Least(F, a, n) == (\E e \in F[a] : e.fnv = n) /\ \A e \in F[a] : n <= e.fnv

(* The least entries of the children are keys that part them.              *)
LEMMA KeyedByMin ==
    ASSUME NEW u, NEW U, NEW k, NEW F, Tree(u, U, k, F), NEW a \in U, ~u[a].leaf,
           Len(u[a].key) + 1 = Len(u[a].child),
           \A i \in 1 .. Len(u[a].key) : Least(F, u[a].child[i + 1], u[a].key[i])
    PROVE  KeyedAt(u, F, a)
  <1>1. \A i, j \in 1 .. Len(u[a].child) : i < j => Less(F[u[a].child[i]], F[u[a].child[j]])
    BY InnerOf
  <1>2. Len(u[a].key) \in Nat
    <2>1. a \in DOMAIN u /\ Heap(u)
      BY TreeTypes
    <2>2. u[a].key \in Seq(Nat)
      BY <2>1, NodeTypes
    <2> QED BY <2>2
  <1>3. ASSUME NEW i \in 1 .. Len(u[a].key)
        PROVE  /\ \A x \in F[u[a].child[i]] : x.fnv < u[a].key[i]
               /\ \A x \in F[u[a].child[i + 1]] : u[a].key[i] <= x.fnv
    <2>1. i \in 1 .. Len(u[a].child) /\ i + 1 \in 1 .. Len(u[a].child) /\ i < i + 1
      BY <1>2
    <2>2. Less(F[u[a].child[i]], F[u[a].child[i + 1]])
      BY <1>1, <2>1
    <2>3. Least(F, u[a].child[i + 1], u[a].key[i])
      OBVIOUS
    <2> QED BY <2>2, <2>3 DEF Least, Less
  <1> QED BY <1>3 DEF KeyedAt

(* What of a leaf stays keeps it in order with the others.                 *)
LEMMA LessKept ==
    ASSUME NEW t, NEW T, NEW h, NEW E, Tree(t, T, h, E), NEW u, NEW U, NEW k, NEW F, Tree(u, U, k, F),
           NEW x \in LeavesOf(u, U), NEW y \in LeavesOf(u, U), x # y,
           x # root => E[x] \cap F[x] # {}, y # root => E[y] \cap F[y] # {},
           Less(E[x], E[y])
    PROVE  Less(F[x], F[y])
  <1>1. x \in U /\ y \in U /\ u[x].leaf /\ u[y].leaf
    BY DEF LeavesOf
  <1>2. k[x] = 0 /\ k[y] = 0 /\ k[root] \in Nat /\ F \in [U -> SUBSET Entry]
    BY <1>1, LeafOf, TreeTypes
  <1>3. x # root => k[x] < k[root]
    BY <1>1, ParentOf
  <1>4. y # root => k[y] < k[root]
    BY <1>1, ParentOf
  <1>5. x # root /\ y # root
    BY <1>2, <1>3, <1>4
  <1>6. Aside(F, x, y)
    BY <1>1, <1>2, LevelOrder
  <1>7. PICK a \in E[x] : a \in F[x]
    BY <1>5
  <1>8. PICK b \in E[y] : b \in F[y]
    BY <1>5
  <1>9. a.fnv < b.fnv
    BY <1>7, <1>8 DEF Less
  <1>10. a.fnv \in Nat /\ b.fnv \in Nat
    <2>1. a \in Entry /\ b \in Entry
      BY <1>1, <1>2, <1>7, <1>8
    <2> QED BY <2>1 DEF Entry
  <1>11. ~Less(F[y], F[x])
    BY <1>7, <1>8, <1>9, <1>10 DEF Less
  <1> QED BY <1>6, <1>11 DEF Aside

(* No leaf is new, and those that stay are chained as they were.           *)
Chaining(t, u, T, h, E, U, k, F) ==
    /\ Tree(t, T, h, E) /\ Tree(u, U, k, F) /\ Chained(t, T, E)
    /\ LeavesOf(u, U) = LeavesOf(t, T) \cap U
    /\ \A x \in LeavesOf(u, U) : /\ u[x].next = t[x].next
                                 /\ t[x].next # NULL => t[x].next \in DOMAIN u
                                 /\ t[x].next \in U => t[x].next \in T
                                 /\ x # root => E[x] \cap F[x] # {}
    /\ \A x \in U : ~u[x].leaf => u[x].next = NULL

(* The chain of the leaves when the leaves G give their entries to the     *)
(* leaves H.                                                               *)
LEMMA ChainKept ==
    ASSUME NEW t, NEW u, NEW T, NEW h, NEW E, NEW U, NEW k, NEW F, Chaining(t, u, T, h, E, U, k, F)
    PROVE  Chained(u, U, F)
  <1> DEFINE Z == LeavesOf(u, U)
  <1>1. Tree(t, T, h, E) /\ Tree(u, U, k, F) /\ Z = LeavesOf(t, T) \cap U
    BY DEF Chaining
  <1>2. \A x \in U : ~u[x].leaf => u[x].next = NULL
    BY DEF Chaining
  <1>3. ASSUME NEW x \in Z, NEW y \in Z, x # y, Less(E[x], E[y]) PROVE Less(F[x], F[y])
    <2>1. (x # root => E[x] \cap F[x] # {}) /\ (y # root => E[y] \cap F[y] # {})
      BY DEF Chaining
    <2> QED BY <1>1, <1>3, <2>1, LessKept
  <1>4. ASSUME NEW a \in Z PROVE ChainedAt(u, U, F, a)
    <2>1. /\ u[a].next = t[a].next
          /\ t[a].next # NULL => t[a].next \in DOMAIN u
          /\ t[a].next \in U => t[a].next \in T
      BY DEF Chaining
    <2>2. ChainedAt(t, T, E, a)
      BY <1>1 DEF Chaining, Chained
    <2> DEFINE n == t[a].next
    <2>3. n \in DOMAIN u \cup {NULL}
      BY <2>1
    <2>4. n = NULL => \A b \in Z \ {a} : Less(F[b], F[a])
      <3> SUFFICES ASSUME n = NULL, NEW b \in Z \ {a} PROVE Less(F[b], F[a])
        OBVIOUS
      <3>1. Less(E[b], E[a])
        BY <1>1, <2>2 DEF ChainedAt
      <3> QED BY <1>3, <3>1
    <2>5. ASSUME n \in U
          PROVE  /\ n \in Z \ {a} /\ Less(F[a], F[n])
                 /\ \A b \in Z \ {a, n} : Less(F[b], F[a]) \/ Less(F[n], F[b])
      <3>1. /\ n \in LeavesOf(t, T) \ {a} /\ Less(E[a], E[n])
            /\ \A b \in LeavesOf(t, T) \ {a, n} : Less(E[b], E[a]) \/ Less(E[n], E[b])
        BY <2>1, <2>2, <2>5 DEF ChainedAt
      <3>2. n \in Z \ {a}
        BY <1>1, <2>5, <3>1
      <3> HIDE DEF n
      <3>3. Less(F[a], F[n])
        BY <1>3, <3>1, <3>2
      <3>4. ASSUME NEW b \in Z \ {a, n} PROVE Less(F[b], F[a]) \/ Less(F[n], F[b])
        <4>1. Less(E[b], E[a]) \/ Less(E[n], E[b])
          BY <1>1, <3>1
        <4>2. b \in Z /\ b # a /\ b # n /\ n \in Z
          BY <3>2
        <4> QED BY <1>3, <4>1, <4>2
      <3> QED BY <3>2, <3>3, <3>4
    <2> QED BY <2>1, <2>3, <2>4, <2>5 DEF ChainedAt
  <1> QED BY <1>2, <1>4 DEF Chained

(* Keys that part the sets of a list.                                      *)
Keys(s, L) ==
    /\ s \in Seq(Nat) /\ Len(s) + 1 = Len(L)
    /\ \A i \in 1 .. Len(L) : L[i] \subseteq Entry
    /\ \A i \in 1 .. Len(s) : /\ \A x \in L[i] : x.fnv < s[i]
                              /\ \A x \in L[i + 1] : s[i] <= x.fnv

(* The keys of a node, as a list beside the list of what is below its      *)
(* children.                                                               *)
LEMMA KeysOf ==
    ASSUME NEW t, NEW T, NEW h, NEW E, Tree(t, T, h, E), NEW a \in T
    PROVE  KeyedAt(t, E, a) <=> Keys(t[a].key, Under(E, t[a].child))
  <1> DEFINE c == t[a].child
             L == Under(E, c)
  <1>1. a \in DOMAIN t /\ Heap(t) /\ E \in [T -> SUBSET Entry]
    BY TreeTypes
  <1>2. t[a].key \in Seq(Nat)
    BY <1>1, NodeTypes
  <1>3. c \in Seq(T)
    BY Children DEF Tree
  <1> HIDE DEF c
  <1>4. Len(L) = Len(c) /\ \A i \in 1 .. Len(c) : L[i] = E[c[i]] /\ L[i] \subseteq Entry
    BY <1>1, <1>3, UnderOf
  <1> HIDE DEF L
  <1>5. ASSUME Len(t[a].key) + 1 = Len(c), NEW i \in 1 .. Len(t[a].key)
        PROVE  L[i] = E[c[i]] /\ L[i + 1] = E[c[i + 1]]
    <2>1. i \in 1 .. Len(c) /\ i + 1 \in 1 .. Len(c)
      BY <1>2, <1>3, <1>5
    <2> QED BY <1>4, <2>1
  <1>6. ASSUME KeyedAt(t, E, a) PROVE Keys(t[a].key, L)
    <2>1. Len(t[a].key) + 1 = Len(c)
      BY <1>6 DEF KeyedAt, c
    <2>2. \A i \in 1 .. Len(t[a].key) : /\ \A x \in E[c[i]] : x.fnv < t[a].key[i]
                                        /\ \A x \in E[c[i + 1]] : t[a].key[i] <= x.fnv
      BY <1>6 DEF KeyedAt, c
    <2>3. \A i \in 1 .. Len(t[a].key) : /\ \A x \in L[i] : x.fnv < t[a].key[i]
                                        /\ \A x \in L[i + 1] : t[a].key[i] <= x.fnv
      BY <1>5, <2>1, <2>2
    <2> QED BY <1>2, <1>4, <2>1, <2>3 DEF Keys
  <1>7. ASSUME Keys(t[a].key, L) PROVE KeyedAt(t, E, a)
    <2>1. Len(t[a].key) + 1 = Len(c)
      BY <1>4, <1>7 DEF Keys
    <2>2. \A i \in 1 .. Len(t[a].key) : /\ \A x \in L[i] : x.fnv < t[a].key[i]
                                        /\ \A x \in L[i + 1] : t[a].key[i] <= x.fnv
      BY <1>7 DEF Keys
    <2>3. \A i \in 1 .. Len(t[a].key) : /\ \A x \in E[c[i]] : x.fnv < t[a].key[i]
                                        /\ \A x \in E[c[i + 1]] : t[a].key[i] <= x.fnv
      BY <1>5, <2>1, <2>2
    <2> QED BY <2>1, <2>3 DEF KeyedAt, c
  <1> QED BY <1>6, <1>7 DEF L, c

(* The i-th key is dropped, and what it parted is one, or less.            *)
Dropping(s, L, i, r, M) ==
    /\ Keys(s, L) /\ \A j \in 1 .. Len(L) : L[j] # {}
    /\ i \in 1 .. Len(s) /\ r = RemoveAt(s, i) /\ Len(M) = Len(s)
    /\ \A j \in 1 .. Len(M) : /\ j < i => M[j] \subseteq L[j]
                              /\ j = i => M[j] \subseteq L[i] \cup L[i + 1]
                              /\ i < j => M[j] \subseteq L[j + 1]

(* A child and a key beside it are dropped: the others part the rest.      *)
LEMMA KeyDropped ==
    ASSUME NEW s, NEW L, NEW i, NEW r, NEW M, Dropping(s, L, i, r, M)
    PROVE  Keys(r, M)
  <1>1. /\ s \in Seq(Nat) /\ Len(s) + 1 = Len(L) /\ Len(s) \in Nat /\ i \in 1 .. Len(s) /\ r = RemoveAt(s, i)
        /\ Len(M) = Len(s) /\ \A j \in 1 .. Len(L) : L[j] # {}
    BY DEF Dropping, Keys
  <1>2. /\ \A j \in 1 .. Len(L) : L[j] \subseteq Entry
        /\ \A j \in 1 .. Len(s) : /\ \A x \in L[j] : x.fnv < s[j]
                                  /\ \A x \in L[j + 1] : s[j] <= x.fnv
    BY DEF Dropping, Keys
  <1>3. \A j \in 1 .. Len(M) : /\ j < i => M[j] \subseteq L[j]
                               /\ j = i => M[j] \subseteq L[i] \cup L[i + 1]
                               /\ i < j => M[j] \subseteq L[j + 1]
    BY DEF Dropping
  <1>4. /\ r \in Seq(Nat) /\ Len(r) = Len(s) - 1
        /\ \A j \in 1 .. Len(r) : /\ j < i => r[j] = s[j]
                                  /\ i <= j => r[j] = s[j + 1]
    <2>1. Removed(Nat, s, i, r)
      BY <1>1, RemovedList
    <2> QED BY <2>1 DEF Removed
  <1>5. ASSUME NEW j \in 1 .. Len(M) PROVE M[j] \subseteq Entry
    <2>1. j \in 1 .. Len(L) /\ j + 1 \in 1 .. Len(L) /\ i \in 1 .. Len(L) /\ i + 1 \in 1 .. Len(L)
          /\ (j < i \/ j = i \/ i < j)
      BY <1>1
    <2> QED BY <1>2, <1>3, <2>1
  <1>6. ASSUME NEW j \in 1 .. Len(r), NEW x \in M[j] PROVE x.fnv < r[j]
    <2>1. /\ j \in Nat /\ i \in Nat /\ j \in 1 .. Len(M) /\ j \in 1 .. Len(s)
          /\ j + 1 \in 1 .. Len(s) /\ i + 1 \in Nat
      BY <1>1, <1>4
    <2>2. CASE j < i
      BY <1>2, <1>3, <1>4, <2>1, <2>2
    <2>3. CASE i < j
      <3>1. x \in L[j + 1] /\ r[j] = s[j + 1]
        BY <1>3, <1>4, <2>1, <2>3
      <3> QED BY <1>2, <2>1, <3>1
    <2>4. CASE j = i
      <3>1. i \in 1 .. Len(s) /\ i + 1 \in 1 .. Len(s) /\ i + 1 \in 1 .. Len(L) /\ r[j] = s[i + 1]
        BY <1>1, <1>4, <2>1, <2>4
      <3>2. CASE x \in L[i + 1]
        BY <1>2, <3>1, <3>2
      <3>3. CASE x \in L[i]
        <4>1. PICK y \in L[i + 1] : TRUE
          BY <1>1, <3>1
        <4>2. x.fnv < s[i] /\ s[i] <= y.fnv /\ y.fnv < s[i + 1]
          BY <1>2, <3>1, <3>3, <4>1
        <4>3. y.fnv \in Nat /\ x.fnv \in Nat
          <5>1. y \in Entry /\ x \in Entry
            BY <1>2, <1>5, <2>1, <3>1, <4>1
          <5> QED BY <5>1 DEF Entry
        <4>4. s[i] \in Nat /\ s[i + 1] \in Nat
          BY <1>1, <3>1
        <4>5. \A a, b, c, d \in Nat : a < b /\ b <= c /\ c < d => a < d
          OBVIOUS
        <4> QED BY <3>1, <4>2, <4>3, <4>4, <4>5
      <3> QED BY <1>3, <2>1, <2>4, <3>2, <3>3
    <2> QED BY <2>1, <2>2, <2>3, <2>4
  <1>7. ASSUME NEW j \in 1 .. Len(r), NEW x \in M[j + 1] PROVE r[j] <= x.fnv
    <2>1. /\ j \in Nat /\ i \in Nat /\ j + 1 \in 1 .. Len(M) /\ j \in 1 .. Len(s) /\ j + 1 \in 1 .. Len(s)
          /\ j + 1 \in Nat
      BY <1>1, <1>4
    <2>2. CASE j + 1 < i
      <3>1. x \in L[j + 1] /\ r[j] = s[j]
        BY <1>3, <1>4, <2>1, <2>2
      <3> QED BY <1>2, <2>1, <3>1
    <2>3. CASE i < j + 1
      <3>1. x \in L[(j + 1) + 1] /\ r[j] = s[j + 1]
        BY <1>3, <1>4, <2>1, <2>3
      <3> QED BY <1>2, <2>1, <3>1
    <2>4. CASE j + 1 = i
      <3>1. x \in L[i] \cup L[i + 1] /\ r[j] = s[j] /\ i \in 1 .. Len(s)
        BY <1>3, <1>4, <2>1, <2>4
      <3>2. CASE x \in L[i]
        BY <1>2, <2>1, <2>4, <3>1, <3>2
      <3>3. CASE x \in L[i + 1]
        <4>1. i \in 1 .. Len(L) /\ i + 1 \in 1 .. Len(L)
          BY <1>1, <3>1
        <4>2. PICK y \in L[i] : TRUE
          BY <1>1, <4>1
        <4>3. s[j] <= y.fnv /\ y.fnv < s[i] /\ s[i] <= x.fnv
          BY <1>2, <2>1, <2>4, <3>1, <3>3, <4>2
        <4>4. y.fnv \in Nat /\ x.fnv \in Nat
          <5>1. y \in Entry /\ x \in Entry
            BY <1>2, <3>3, <4>1, <4>2
          <5> QED BY <5>1 DEF Entry
        <4>5. s[i] \in Nat /\ s[j] \in Nat
          BY <1>1, <2>1, <3>1
        <4>6. \A a, b, c, d \in Nat : a <= b /\ b < c /\ c <= d => a <= d
          OBVIOUS
        <4> QED BY <3>1, <4>3, <4>4, <4>5, <4>6
      <3> QED BY <3>1, <3>2, <3>3
    <2> QED BY <2>1, <2>2, <2>3, <2>4
  <1>8. Len(r) + 1 = Len(M)
    BY <1>1, <1>4
  <1> QED BY <1>4, <1>5, <1>6, <1>7, <1>8 DEF Keys

(* The i-th set is parted in two by the new key n.                         *)
Parting(s, L, i, n, r, M) ==
    /\ Keys(s, L) /\ i \in 1 .. Len(L) /\ n \in Nat
    /\ r = InsertAt(s, i, n) /\ Len(M) = Len(L) + 1
    /\ \A j \in 1 .. Len(M) : /\ j <= i => M[j] \subseteq L[j]
                              /\ i < j => M[j] \subseteq L[j - 1]
    /\ \A x \in M[i] : x.fnv < n
    /\ \A x \in M[i + 1] : n <= x.fnv

(* A child and the key that parts it from its left neighbour are inserted. *)
LEMMA KeyInserted ==
    ASSUME NEW s, NEW L, NEW i, NEW n, NEW r, NEW M, Parting(s, L, i, n, r, M)
    PROVE  Keys(r, M)
  <1>1. /\ s \in Seq(Nat) /\ Len(s) + 1 = Len(L) /\ Len(s) \in Nat /\ i \in 1 .. Len(L) /\ i \in Nat
        /\ r = InsertAt(s, i, n) /\ n \in Nat /\ Len(M) = Len(L) + 1
    BY DEF Parting, Keys
  <1>2. /\ \A j \in 1 .. Len(L) : L[j] \subseteq Entry
        /\ \A j \in 1 .. Len(s) : /\ \A x \in L[j] : x.fnv < s[j]
                                  /\ \A x \in L[j + 1] : s[j] <= x.fnv
    BY DEF Parting, Keys
  <1>3. /\ \A j \in 1 .. Len(M) : /\ j <= i => M[j] \subseteq L[j]
                                  /\ i < j => M[j] \subseteq L[j - 1]
        /\ \A x \in M[i] : x.fnv < n
        /\ \A x \in M[i + 1] : n <= x.fnv
    BY DEF Parting
  <1>4. /\ r \in Seq(Nat) /\ Len(r) = Len(s) + 1
        /\ \A j \in 1 .. Len(r) : /\ j < i => r[j] = s[j]
                                  /\ j = i => r[j] = n
                                  /\ i < j => r[j] = s[j - 1]
    <2>1. PICK S : S = Nat
      OBVIOUS
    <2>2. s \in Seq(S) /\ n \in S /\ i \in 1 .. Len(s) + 1 /\ r = InsertAt(s, i, n)
      BY <1>1, <2>1
    <2>3. /\ r \in Seq(S) /\ Len(r) = Len(s) + 1
          /\ \A j \in 1 .. Len(r) : /\ j < i => r[j] = s[j]
                                    /\ j = i => r[j] = n
                                    /\ i < j => r[j] = s[j - 1]
      <3>1. Inserted(S, s, i, n, r)
        BY <2>2, InsertedList
      <3> QED BY <3>1 DEF Inserted
    <2> QED BY <2>1, <2>3
  <1>5. ASSUME NEW j \in 1 .. Len(M) PROVE M[j] \subseteq Entry
    <2>1. CASE j <= i
      <3>1. j \in 1 .. Len(L)
        BY <1>1, <2>1
      <3> QED BY <1>2, <1>3, <2>1, <3>1
    <2>2. CASE i < j
      <3>1. j - 1 \in 1 .. Len(L)
        BY <1>1, <2>2
      <3> QED BY <1>2, <1>3, <2>2, <3>1
    <2> QED BY <1>1, <2>1, <2>2
  <1>6. ASSUME NEW j \in 1 .. Len(r), NEW x \in M[j] PROVE x.fnv < r[j]
    <2>1. j \in 1 .. Len(M)
      BY <1>1, <1>4
    <2>2. CASE j < i
      <3>1. j <= i /\ j \in 1 .. Len(s)
        BY <1>1, <2>2
      <3>2. x \in L[j] /\ r[j] = s[j]
        BY <1>3, <1>4, <2>1, <2>2, <3>1
      <3> QED BY <1>2, <3>1, <3>2
    <2>3. CASE i < j
      <3>1. j - 1 \in 1 .. Len(s)
        BY <1>1, <1>4, <2>3
      <3>2. x \in L[j - 1] /\ r[j] = s[j - 1]
        BY <1>3, <1>4, <2>1, <2>3
      <3> QED BY <1>2, <3>1, <3>2
    <2>4. CASE j = i
      BY <1>3, <1>4, <2>4
    <2> QED BY <1>1, <2>2, <2>3, <2>4
  <1>7. ASSUME NEW j \in 1 .. Len(r), NEW x \in M[j + 1] PROVE r[j] <= x.fnv
    <2>1. j + 1 \in 1 .. Len(M) /\ j \in Nat /\ (j + 1) - 1 = j
      BY <1>1, <1>4
    <2>2. CASE j < i
      <3>1. j + 1 <= i /\ j \in 1 .. Len(s)
        BY <1>1, <2>2
      <3>2. x \in L[j + 1] /\ r[j] = s[j]
        BY <1>3, <1>4, <2>1, <2>2, <3>1
      <3> QED BY <1>2, <3>1, <3>2
    <2>3. CASE i < j
      <3>1. j - 1 \in 1 .. Len(s) /\ i < j + 1 /\ (j - 1) + 1 = j
        BY <1>1, <1>4, <2>3
      <3>2. x \in L[(j - 1) + 1] /\ r[j] = s[j - 1]
        BY <1>3, <1>4, <2>1, <2>3, <3>1
      <3> QED BY <1>2, <3>1, <3>2
    <2>4. CASE j = i
      BY <1>3, <1>4, <2>4
    <2> QED BY <1>1, <2>2, <2>3, <2>4
  <1>8. Len(r) + 1 = Len(M)
    BY <1>1, <1>4
  <1> QED BY <1>4, <1>5, <1>6, <1>7, <1>8 DEF Keys

(* What InsertAt has put in, RemoveAt takes out.                           *)
LEMMA InsertRemove ==
    ASSUME NEW S, NEW s \in Seq(S), NEW i \in 1 .. Len(s) + 1, NEW e \in S
    PROVE  s = RemoveAt(InsertAt(s, i, e), i)
  <1>1. PICK r : r = InsertAt(s, i, e)
    OBVIOUS
  <1>2. /\ r \in Seq(S) /\ Len(r) = Len(s) + 1
        /\ \A j \in 1 .. Len(r) : (j < i => r[j] = s[j]) /\ (j = i => r[j] = e) /\ (i < j => r[j] = s[j - 1])
    <2>1. s \in Seq(S) /\ i \in 1 .. Len(s) + 1 /\ e \in S /\ r = InsertAt(s, i, e)
      BY <1>1
    <2>2. Inserted(S, s, i, e, r)
      BY <2>1, InsertedList
    <2> QED BY <2>2 DEF Inserted
  <1>3. PICK q : q = RemoveAt(r, i)
    OBVIOUS
  <1>4. i \in 1 .. Len(r)
    BY <1>2
  <1>5. /\ q \in Seq(S) /\ Len(q) = Len(r) - 1
        /\ \A j \in 1 .. Len(q) : (j < i => q[j] = r[j]) /\ (i <= j => q[j] = r[j + 1])
    <2>1. Removed(S, r, i, q)
      BY <1>2, <1>3, <1>4, RemovedList
    <2> QED BY <2>1 DEF Removed
  <1>6. Len(q) = Len(s)
    BY <1>2, <1>5
  <1>7. ASSUME NEW j \in 1 .. Len(s) PROVE s[j] = q[j]
    <2>1. j \in 1 .. Len(q) /\ j \in 1 .. Len(r) /\ j + 1 \in 1 .. Len(r) /\ (j + 1) - 1 = j
      BY <1>2, <1>6
    <2>2. CASE j < i
      BY <1>2, <1>5, <2>1, <2>2
    <2>3. CASE i <= j
      <3>1. i < j + 1
        BY <2>3
      <3>2. q[j] = r[j + 1]
        BY <1>5, <2>1, <2>3
      <3>3. r[j + 1] = s[(j + 1) - 1]
        BY <1>2, <2>1, <3>1
      <3> QED BY <2>1, <3>2, <3>3
    <2> QED BY <2>2, <2>3
  <1>8. s = q
    BY <1>5, <1>6, <1>7, SameList
  <1> QED BY <1>1, <1>3, <1>8

(* What is left when a child is lost is a tree in order.                   *)
LEMMA LoseGood ==
    ASSUME NEW t, NEW u, NEW T, NEW h, NEW E, NEW p, NEW i, NEW r, NEW s,
           Losing(t, u, T, h, E, p, i, r, s),
           Keyed(t, T, E), Sized(t, T, {p}), SizedAt(u, p), Chained(t, T, E)
    PROVE  \E U, k, F : Good(u, U, k, F, {})
  <1> PICK U : U = T \ LostBelow(T, h, E, r)
    OBVIOUS
  <1> PICK k : k = [x \in U |-> h[x]]
    OBVIOUS
  <1> PICK F : F = [x \in U |-> E[x] \ E[r]]
    OBVIOUS
  <1>1. /\ Tree(t, T, h, E) /\ Heap(u) /\ DOMAIN u = DOMAIN t /\ p \in T /\ ~t[p].leaf
        /\ \A x \in T \ {p} : u[x] = t[x]
        /\ u[p].leaf = t[p].leaf /\ u[p].item = t[p].item /\ u[p].parent = t[p].parent
        /\ u[p].next = t[p].next
        /\ i \in 1 .. Len(u[p].child) /\ i \in 1 .. Len(u[p].key) + 1 /\ r \in Nat /\ s \in Nat
        /\ t[p].child = InsertAt(u[p].child, i + 1, r)
        /\ t[p].key = InsertAt(u[p].key, i, s)
    BY DEF Losing
  <1>2. /\ Tree(u, U, k, F) /\ r \in T /\ p \in U /\ F[root] = E[root] \ E[r]
        /\ \A x \in U : t[x].leaf => F[x] = E[x]
        /\ \A x \in U : \A j \in 1 .. Len(u[x].child) : F[u[x].child[j]] = E[u[x].child[j]] \ E[r]
    <2>1. Tree(u, U, k, F) /\ r \in T /\ p \in U /\ F[root] = E[root] \ E[r]
      BY LoseShape
    <2>2. \A x \in U : t[x].leaf => F[x] = E[x]
      BY LoseShape
    <2>3. \A x \in U : \A j \in 1 .. Len(u[x].child) : F[u[x].child[j]] = E[u[x].child[j]] \ E[r]
      BY LoseShape
    <2> QED BY <2>1, <2>2, <2>3
  <1>3. U \subseteq T /\ U \subseteq DOMAIN u /\ T \subseteq DOMAIN t
    BY <1>1, <1>2, TreeTypes
  <1>4. ASSUME NEW x \in U, x # p, ~u[x].leaf PROVE KeyedAt(u, F, x)
    <2>1. x \in T /\ u[x] = t[x] /\ t[x].key \in Seq(Nat)
      <3>1. x \in T /\ x \in DOMAIN t /\ Heap(t)
        BY <1>1, <1>3, TreeTypes
      <3> QED BY <1>1, <1>4, <3>1, NodeTypes
    <2>2. KeyedAt(t, E, x)
      BY <1>4, <2>1 DEF Keyed
    <2>3. \A j \in 1 .. Len(t[x].child) : F[t[x].child[j]] \subseteq E[t[x].child[j]]
      <3> SUFFICES ASSUME NEW j \in 1 .. Len(t[x].child)
                   PROVE  F[t[x].child[j]] \subseteq E[t[x].child[j]]
        OBVIOUS
      <3>1. j \in 1 .. Len(u[x].child) /\ u[x].child[j] = t[x].child[j]
        BY <2>1
      <3>2. F[u[x].child[j]] = E[u[x].child[j]] \ E[r]
        BY <1>2, <3>1
      <3> QED BY <3>1, <3>2
    <2>4. u[x].key = t[x].key /\ u[x].child = t[x].child
      BY <2>1
    <2> QED BY <2>1, <2>2, <2>3, <2>4, KeyedPart
  <1>5. KeyedAt(u, F, p)
    <2> DEFINE c == t[p].child
               d == u[p].child
               L == Under(E, c)
               M == Under(F, d)
    <2>1. KeyedAt(t, E, p)
      BY <1>1 DEF Keyed
    <2>2. Keys(t[p].key, L)
      BY <1>1, <2>1, KeysOf
    <2>3. p \in DOMAIN u /\ p \in DOMAIN t /\ Heap(t) /\ Heap(u)
      BY <1>1, <1>2, <1>3, TreeTypes
    <2>4. u[p].key \in Seq(Nat) /\ t[p].key \in Seq(Nat) /\ d \in Seq(Nat)
      BY <2>3, NodeTypes
    <2>5. u[p].key = RemoveAt(t[p].key, i) /\ Len(t[p].key) = Len(u[p].key) + 1
      <3>1. PICK S : S = Nat
        OBVIOUS
      <3>2. u[p].key \in Seq(S) /\ i \in 1 .. Len(u[p].key) + 1 /\ s \in S
        BY <1>1, <2>4, <3>1
      <3>3. PICK q : q = InsertAt(u[p].key, i, s)
        OBVIOUS
      <3>4. Len(q) = Len(u[p].key) + 1
        <4>1. Inserted(S, u[p].key, i, s, q)
          BY <3>2, <3>3, InsertedList
        <4> QED BY <4>1 DEF Inserted
      <3>5. u[p].key = RemoveAt(q, i)
        BY <3>2, <3>3, InsertRemove
      <3> QED BY <1>1, <3>3, <3>4, <3>5
    <2>6. c \in Seq(T) /\ d \in Seq(U)
      <3>1. c \in Seq(T)
        BY <1>1, Children DEF Tree
      <3>2. d \in Seq(U)
        BY <1>2, Children DEF Tree
      <3> QED BY <3>1, <3>2
    <2>7. /\ Len(c) = Len(d) + 1 /\ Len(d) \in Nat /\ i \in Nat /\ i + 1 \in 1 .. Len(c) /\ c[i + 1] = r
          /\ \A j \in 1 .. i : c[j] = d[j]
          /\ \A j \in i + 2 .. Len(d) + 1 : c[j] = d[j - 1]
      <3> HIDE DEF c, d
      <3>1. PICK S : S = Nat
        OBVIOUS
      <3>2. d \in Seq(S) /\ i \in 1 .. Len(d) /\ r \in S /\ c = InsertAt(d, i + 1, r)
        BY <1>1, <2>4, <3>1 DEF c, d
      <3> QED BY <3>2, NextTo
    <2> HIDE DEF c, d
    <2>8. /\ Len(L) = Len(c) /\ Len(M) = Len(d)
          /\ \A j \in 1 .. Len(c) : L[j] = E[c[j]]
          /\ \A j \in 1 .. Len(d) : M[j] = F[d[j]]
      BY <2>6 DEF Under
    <2>9. \A j \in 1 .. Len(L) : L[j] # {}
      <3>1. Row(L)
        BY <1>1, Children DEF Tree, c
      <3> QED BY <3>1 DEF Row
    <2> HIDE DEF L, M
    <2>10. \A j \in 1 .. Len(d) : M[j] \subseteq E[d[j]]
      <3> SUFFICES ASSUME NEW j \in 1 .. Len(u[p].child) PROVE F[u[p].child[j]] \subseteq E[u[p].child[j]]
        BY <2>8 DEF d
      <3>1. F[u[p].child[j]] = E[u[p].child[j]] \ E[r]
        BY <1>2
      <3> QED BY <3>1
    <2>11. Len(t[p].key) + 1 = Len(L) /\ i \in 1 .. Len(t[p].key) /\ Len(M) = Len(t[p].key)
      <3>1. Len(t[p].key) + 1 = Len(L)
        BY <2>2 DEF Keys
      <3> QED BY <1>1, <2>4, <2>5, <2>7, <2>8, <3>1
    <2>12. ASSUME NEW j \in 1 .. Len(M)
           PROVE  /\ j < i => M[j] \subseteq L[j]
                  /\ j = i => M[j] \subseteq L[i] \cup L[i + 1]
                  /\ i < j => M[j] \subseteq L[j + 1]
      <3>1. j \in 1 .. Len(d) /\ j \in Nat /\ j \in 1 .. Len(c) /\ j + 1 \in 1 .. Len(c)
        BY <2>7, <2>8
      <3>2. CASE j <= i
        <4>1. j \in 1 .. i
          BY <2>7, <3>1, <3>2
        <4>2. d[j] = c[j]
          BY <2>7, <4>1
        <4>3. M[j] \subseteq E[d[j]] /\ L[j] = E[c[j]]
          BY <2>8, <2>10, <3>1
        <4>4. M[j] \subseteq L[j] /\ ~(i < j)
          BY <2>7, <3>1, <3>2, <4>2, <4>3
        <4> QED BY <4>4
      <3>3. CASE i < j
        <4>1. j + 1 \in i + 2 .. Len(d) + 1 /\ (j + 1) - 1 = j /\ ~(j < i) /\ j # i
          BY <2>7, <3>1, <3>3
        <4>2. d[j] = c[j + 1]
          BY <2>7, <4>1
        <4> QED BY <2>8, <2>10, <3>1, <4>1, <4>2
      <3> QED BY <2>7, <3>1, <3>2, <3>3
    <2>13. Dropping(t[p].key, L, i, u[p].key, M)
      BY <2>2, <2>5, <2>9, <2>11, <2>12 DEF Dropping
    <2>14. Keys(u[p].key, M)
      BY <2>13, KeyDropped
    <2> QED BY <1>2, <2>14, KeysOf DEF M, d
  <1>6. Keyed(u, U, F)
    BY <1>4, <1>5 DEF Keyed
  <1>7. Sized(u, U, {})
    <2> SUFFICES ASSUME NEW x \in U, x # p PROVE SizedAt(u, x)
      BY DEF Sized
    <2>1. u[x] = t[x] /\ SizedAt(t, x)
      BY <1>1, <1>3 DEF Sized
    <2> QED BY <2>1 DEF SizedAt
  <1>8. \A x \in U : u[x].leaf = t[x].leaf /\ u[x].next = t[x].next
    BY <1>1, <1>3
  <1>9. Chained(u, U, F)
    <2>1. LeavesOf(u, U) = LeavesOf(t, T) \cap U
      BY <1>3, <1>8 DEF LeavesOf
    <2>2. ASSUME NEW x \in LeavesOf(u, U)
          PROVE  /\ u[x].next = t[x].next
                 /\ t[x].next # NULL => t[x].next \in DOMAIN u
                 /\ t[x].next \in U => t[x].next \in T
                 /\ x # root => E[x] \cap F[x] # {}
      <3>1. x \in U /\ x \in T /\ t[x].leaf
        BY <1>3, <1>8 DEF LeavesOf
      <3>2. ChainedAt(t, T, E, x)
        BY <3>1 DEF Chained, LeavesOf
      <3>3. F[x] = E[x]
        BY <1>2, <3>1
      <3>4. x # root => E[x] # {}
        BY <1>1, <3>1, ParentOf
      <3> QED BY <1>1, <1>3, <1>8, <3>1, <3>2, <3>3, <3>4 DEF ChainedAt
    <2>3. \A x \in U : ~u[x].leaf => u[x].next = NULL
      BY <1>3, <1>8 DEF Chained
    <2>4. Chaining(t, u, T, h, E, U, k, F)
      BY <1>1, <1>2, <2>1, <2>2, <2>3 DEF Chaining
    <2> QED BY <2>4, ChainKept
  <1> QED BY <1>2, <1>6, <1>7, <1>9 DEF Good, Tree

(* The nodes beside those that are rearranged stay in order.               *)
Beside(t, u, T, h, E, U, p, A, G, H, B, k, F, X) ==
    /\ Rearranging(t, u, T, h, E, U, p, A, G, H, B)
    /\ Rearranged(u, T, h, E, U, p, G, H, k, F)
    /\ Keyed(t, T, E) /\ Sized(t, T, X) /\ X \subseteq Members(G) \cup {p}
    /\ \A x \in T \ (Members(G) \cup {p}) : u[x].key = t[x].key

(* What a rearrangement leaves alone: the parent's place in the tree, and  *)
(* the nodes elsewhere, with their keys and sizes.                         *)
LEMMA RearrangeRest ==
    ASSUME NEW t, NEW u, NEW T, NEW h, NEW E, NEW U, NEW p, NEW A, NEW G, NEW H, NEW B,
           NEW k, NEW F, NEW X, Beside(t, u, T, h, E, U, p, A, G, H, B, k, F, X)
    PROVE  /\ Tree(u, U, k, F) /\ F[root] = E[root] /\ p \in U /\ F[p] = E[p] /\ p \notin Members(H)
           /\ \A x \in Members(H) : x \in U /\ x # root /\ u[x].parent = p
           /\ \A x \in U \ (Members(H) \cup {p}) : /\ x \in T \ (Members(G) \cup {p})
                                                   /\ u[x].leaf = t[x].leaf
                                                   /\ ~u[x].leaf => KeyedAt(u, F, x)
                                                   /\ SizedAt(u, x)
           /\ \A x \in Members(G) : x \in T /\ x # root /\ x # p /\ t[x].parent = p
  <1>1. /\ Tree(t, T, h, E) /\ Heap(u) /\ p \in T /\ ~t[p].leaf
        /\ A \in Seq(Nat) /\ B \in Seq(Nat) /\ Pair(G) /\ Pair(H)
        /\ t[p].child = A \o G \o B
        /\ U = (T \ Members(G)) \cup Members(H) /\ U \subseteq DOMAIN u
        /\ Members(H) \cap T \subseteq Members(G)
        /\ Bodies(u, h, Members(H), p)
        /\ Kept(t, u, T \ (Members(G) \cup {p}))
    BY DEF Beside, Rearranging
  <1>2. /\ Shape(u, U, k, F)
        /\ \A x \in T \ Members(G) : k[x] = h[x] /\ F[x] = E[x]
    BY DEF Beside, Rearranged
  <1>3. /\ Keyed(t, T, E) /\ Sized(t, T, X) /\ X \subseteq Members(G) \cup {p}
        /\ \A x \in T \ (Members(G) \cup {p}) : u[x].key = t[x].key
    BY DEF Beside
  <1>4. Tree(u, U, k, F)
    BY <1>1, <1>2 DEF Tree
  <1>5. Neighbours(t, p, A, G, B)
    BY <1>1 DEF Neighbours
  <1>6. \A x \in Members(G) : x \in T /\ h[x] + 1 = h[p] /\ t[x].parent = p
    BY <1>1, <1>5, ContentOld
  <1>7. root \in T /\ h \in [T -> Nat] /\ t[root].parent = NULL /\ p # NULL /\ T \subseteq DOMAIN t /\ Heap(t)
    BY <1>1, TreeTypes DEF Upward
  <1>8. \A x \in Members(G) : x # root /\ x # p
    <2> SUFFICES ASSUME NEW x \in Members(G) PROVE x # root /\ x # p
      OBVIOUS
    <2>1. h[x] + 1 = h[p] /\ h[p] \in Nat /\ t[x].parent = p
      BY <1>1, <1>6, <1>7
    <2> QED BY <1>7, <2>1
  <1>9. p \in U /\ p \notin Members(H) /\ F[root] = E[root] /\ F[p] = E[p]
    BY <1>1, <1>2, <1>7, <1>8
  <1>10. \A x \in Members(H) : x \in U /\ x # root /\ u[x].parent = p
    <2> SUFFICES ASSUME NEW x \in Members(H) PROVE x \in U /\ x # root /\ u[x].parent = p
      OBVIOUS
    <2>1. x \in U /\ u[x].parent = p
      BY <1>1 DEF Bodies
    <2>2. u[root].parent = NULL
      BY <1>4, TreeTypes DEF Upward
    <2> QED BY <1>7, <2>1, <2>2
  <1>11. ASSUME NEW x \in U \ (Members(H) \cup {p})
         PROVE  /\ x \in T \ (Members(G) \cup {p}) /\ u[x].leaf = t[x].leaf
                /\ ~u[x].leaf => KeyedAt(u, F, x)
                /\ SizedAt(u, x)
    <2>1. x \in T \ (Members(G) \cup {p}) /\ x \in T /\ x \notin X
      BY <1>1, <1>3
    <2>2. /\ u[x].leaf = t[x].leaf /\ u[x].item = t[x].item /\ u[x].child = t[x].child
          /\ u[x].key = t[x].key
      BY <1>1, <1>3, <2>1 DEF Kept
    <2>3. SizedAt(u, x)
      <3>1. SizedAt(t, x)
        BY <1>3, <2>1 DEF Sized
      <3> QED BY <2>2, <3>1 DEF SizedAt
    <2>4. ASSUME ~u[x].leaf PROVE KeyedAt(u, F, x)
      <3>1. KeyedAt(t, E, x)
        BY <1>3, <2>1, <2>2, <2>4 DEF Keyed
      <3>2. t[x].key \in Seq(Nat)
        <4>1. x \in DOMAIN t
          BY <1>7, <2>1
        <4> QED BY <1>7, <4>1, NodeTypes
      <3>3. \A i \in 1 .. Len(t[x].child) : F[t[x].child[i]] \subseteq E[t[x].child[i]]
        <4> SUFFICES ASSUME NEW i \in 1 .. Len(t[x].child), NEW y, y = t[x].child[i]
                     PROVE  F[y] \subseteq E[y]
          OBVIOUS
        <4>1. y \in T /\ t[y].parent = x
          BY <1>1, <2>1, ChildOf
        <4>2. y \notin Members(G)
          BY <1>6, <2>1, <4>1
        <4> QED BY <1>2, <4>1, <4>2
      <3> QED BY <2>2, <3>1, <3>2, <3>3, KeyedPart
    <2> QED BY <2>1, <2>2, <2>3, <2>4
  <1> QED BY <1>4, <1>6, <1>8, <1>9, <1>10, <1>11

-----------------------------------------------------------------------------
(***************************************************************************)
(* What fix_keys and fix_up compute.                                       *)
(***************************************************************************)

(* Up to height n, v has the nodes of the tree.                            *)
Agree(t, v, T, h, n) ==
    /\ Rounds(v) \in Nat /\ n <= Rounds(v)
    /\ \A y \in T : h[y] <= n => /\ y \in DOMAIN v
                                 /\ v[y].leaf = t[y].leaf /\ v[y].item = t[y].item
                                 /\ v[y].child = t[y].child

(* min_key reads a node and what is below it, and nothing else.            *)
LEMMA MinKeySame ==
    ASSUME NEW t, NEW T, NEW h, NEW E, Tree(t, T, h, E), NEW a \in T,
           NEW v, Agree(t, v, T, h, h[a])
    PROVE  min_key(v, a) = min_key(t, a)
  <1> DEFINE f == [x \in DOMAIN t |-> IF t[x].leaf THEN x ELSE t[x].child[1]]
             g == [x \in DOMAIN v |-> IF v[x].leaf THEN x ELSE v[x].child[1]]
             w == [n \in Nat |-> Repeated(f, a, n)]
  <1>1. /\ root \in T /\ h \in [T -> Nat] /\ T \subseteq DOMAIN t
        /\ h[a] <= h[root] /\ h[a] \in Nat /\ h[root] \in Nat
    BY TreeTypes, InRoot
  <1>2. Descends(t, T, f)
    <2>1. \A x \in T : t[x].leaf => f[x] = x
      BY <1>1
    <2>2. \A x \in T : ~t[x].leaf => 1 \in 1 .. Len(t[x].child) /\ f[x] = t[x].child[1]
      <3> SUFFICES ASSUME NEW x \in T, ~t[x].leaf
                   PROVE  1 \in 1 .. Len(t[x].child) /\ f[x] = t[x].child[1]
        OBVIOUS
      <3>1. 1 \in 1 .. Len(t[x].child)
        BY InnerOf
      <3>2. f[x] = t[x].child[1]
        BY <1>1
      <3> QED BY <3>1, <3>2
    <2> HIDE DEF f
    <2> QED BY <2>1, <2>2 DEF Descends
  <1>3. Descent(t, T, h, E, f, a, w)
    <2> HIDE DEF f
    <2> QED BY <1>2, DescentOf
  <1>4. Rounds(t) \in Nat /\ h[a] <= Rounds(t)
    <2>1. Rounds(t) \in Nat /\ h[root] < Rounds(t)
      BY Tall
    <2> QED BY <1>1, <2>1
  <1>5. /\ Rounds(v) \in Nat /\ h[a] <= Rounds(v)
        /\ \A y \in T : h[y] <= h[a] => /\ y \in DOMAIN v
                                        /\ v[y].leaf = t[y].leaf /\ v[y].item = t[y].item
                                        /\ v[y].child = t[y].child
    BY DEF Agree
  <1>6. \A y \in T : h[y] <= h[a] => g[y] = f[y]
    BY <1>1, <1>5
  <1>7. min_key(t, a) = t[Repeated(f, a, Rounds(t))].item[1].fnv
    BY DEF min_key
  <1>8. min_key(v, a) = v[Repeated(g, a, Rounds(v))].item[1].fnv
    BY DEF min_key
  <1> HIDE DEF f, g
  <1>9. \A n \in Nat : w[n] = Repeated(f, a, n)
    OBVIOUS
  <1> HIDE DEF w
  <1>10. \A n \in Nat : w[n] \in T /\ h[w[n]] <= h[a]
    <2> SUFFICES ASSUME NEW n \in Nat PROVE w[n] \in T /\ h[w[n]] <= h[a]
      OBVIOUS
    <2>1. w[n] \in T /\ h[w[n]] \in Nat
      BY <1>1, <1>3 DEF Descent
    <2>2. n <= h[a] => h[w[n]] + n = h[a]
      BY <1>3 DEF Descent
    <2>3. h[a] <= n => h[w[n]] = 0
      BY <1>3 DEF Descent
    <2> QED BY <1>1, <2>1, <2>2, <2>3
  <1> DEFINE N == {n \in Nat : Repeated(g, a, n) = w[n]}
  <1>11. 0 \in N
    BY <1>3, RepeatedOf DEF Descent
  <1>12. ASSUME NEW n \in Nat, n \in N PROVE n + 1 \in N
    <2>1. Repeated(g, a, n + 1) = g[w[n]]
      BY <1>12, RepeatedOf
    <2>2. w[n + 1] = f[w[n]]
      BY <1>3 DEF Descent
    <2> QED BY <1>6, <1>10, <2>1, <2>2
  <1>13. \A n \in Nat : Repeated(g, a, n) = w[n]
    <2>1. \A n \in Nat : n \in N
      <3> HIDE DEF N
      <3> QED BY <1>11, <1>12, SetInduction
    <2> QED BY <2>1
  <1>14. w[Rounds(t)] = w[h[a]] /\ w[Rounds(v)] = w[h[a]]
    BY <1>3, <1>4, <1>5 DEF Descent
  <1>15. v[w[h[a]]].item = t[w[h[a]]].item
    BY <1>1, <1>5, <1>10
  <1> QED BY <1>4, <1>5, <1>7, <1>8, <1>9, <1>13, <1>14, <1>15

(* The keys of a, as fix_keys recomputes them.                             *)
MinKeysOf(v, c) == [i \in 1 .. Len(c) - 1 |-> min_key(v, c[i + 1])]

(* The keys fix_keys computes for a node are the least entries of its      *)
(* children, also while nodes elsewhere are out of order.                  *)
LEMMA MinKeys ==
    ASSUME NEW t, NEW T, NEW h, NEW E, Tree(t, T, h, E), NEW a \in T, ~t[a].leaf,
           NEW v, Agree(t, v, T, h, h[a] - 1), NEW q, q = MinKeysOf(v, t[a].child)
    PROVE  /\ q \in Seq(Nat) /\ Len(q) + 1 = Len(t[a].child)
           /\ \A i \in 1 .. Len(q) : Least(E, t[a].child[i + 1], q[i])
  <1> DEFINE c == t[a].child
  <1>1. Len(c) \in Nat /\ 1 \in 1 .. Len(c)
    BY InnerOf
  <1>2. ASSUME NEW i \in 1 .. Len(c) - 1
        PROVE  min_key(v, c[i + 1]) \in Nat /\ Least(E, c[i + 1], min_key(v, c[i + 1]))
    <2>1. PICK y : y = c[i + 1]
      OBVIOUS
    <2>2. i + 1 \in 1 .. Len(t[a].child)
      BY <1>1
    <2>3. PICK j \in 1 .. Len(t[a].child) : j = i + 1
      BY <2>2
    <2>4. y = t[a].child[j]
      BY <2>1, <2>3
    <2>5. y \in T /\ h[y] + 1 = h[a] /\ h[y] \in Nat /\ E[y] # {}
      BY <2>4, ChildOf
    <2>6. h[y] = h[a] - 1
      <3>1. h[a] \in Nat
        BY TreeTypes
      <3> QED BY <2>5, <3>1
    <2>7. Agree(t, v, T, h, h[y])
      BY <2>6
    <2>8. min_key(v, y) = min_key(t, y)
      BY <2>5, <2>7, MinKeySame
    <2>9. /\ min_key(t, y) \in Nat
          /\ \E e \in E[y] : e.fnv = min_key(t, y)
          /\ \A e \in E[y] : min_key(t, y) <= e.fnv
      BY <2>5, MinKeyOf
    <2> QED BY <2>1, <2>8, <2>9 DEF Least
  <1>3. q = [i \in 1 .. Len(c) - 1 |-> min_key(v, c[i + 1])]
    BY DEF MinKeysOf
  <1> HIDE DEF c
  <1>4. Len(c) - 1 \in Nat
    BY <1>1
  <1>5. q \in Seq(Nat) /\ Len(q) = Len(c) - 1
    BY <1>2, <1>3, <1>4
  <1>6. \A i \in 1 .. Len(q) : q[i] = min_key(v, c[i + 1]) /\ i \in 1 .. Len(c) - 1
    BY <1>3, <1>5
  <1>7. \A i \in 1 .. Len(q) : Least(E, c[i + 1], q[i])
    BY <1>2, <1>6
  <1>8. Len(q) + 1 = Len(c)
    BY <1>1, <1>5
  <1> QED BY <1>5, <1>7, <1>8 DEF c

(* A heap agrees with itself.                                              *)
LEMMA AgreeSelf ==
    ASSUME NEW t, NEW T, NEW h, NEW E, Tree(t, T, h, E), NEW a \in T
    PROVE  Agree(t, t, T, h, h[a] - 1)
  <1>1. /\ Rounds(t) \in Nat /\ h[root] < Rounds(t) /\ h[root] \in Nat /\ h[a] <= h[root] /\ h[a] \in Nat
        /\ T \subseteq DOMAIN t
    BY Tall, InRoot, TreeTypes
  <1>2. h[a] - 1 <= Rounds(t)
    BY <1>1
  <1> QED BY <1>1, <1>2 DEF Agree

(* The keys of the inner nodes of Q are recomputed.                        *)
Rekeyed(t, u, Q) ==
    u = [x \in DOMAIN t |-> IF x \in Q THEN [t[x] EXCEPT !.key = MinKeysOf(t, t[x].child)]
                            ELSE t[x]]

(* Nodes that got the keys fix_keys computes: the tree, its sizes and its  *)
(* chain are as before, and the keys of these nodes lead right.            *)
LEMMA RekeyedTree ==
    ASSUME NEW t, NEW T, NEW h, NEW E, Tree(t, T, h, E), NEW Q, NEW u, Rekeyed(t, u, Q),
           \A x \in Q : x \in T /\ ~t[x].leaf
    PROVE  /\ Tree(u, T, h, E) /\ SameTree(t, u, T) /\ \A x \in Q : KeyedAt(u, E, x)
           /\ \A x \in T : x \notin Q /\ KeyedAt(t, E, x) => KeyedAt(u, E, x)
           /\ \A X : Sized(t, T, X) => Sized(u, T, X)
           /\ Chained(t, T, E) => Chained(u, T, E)
  <1>1. /\ Heap(t) /\ T \subseteq DOMAIN t
    BY TreeTypes
  <1>2. ASSUME NEW x \in Q
        PROVE  /\ u[x] \in Node /\ Len(u[x].key) + 1 = Len(t[x].child)
               /\ \A i \in 1 .. Len(u[x].key) : Least(E, t[x].child[i + 1], u[x].key[i])
               /\ u[x].leaf = t[x].leaf /\ u[x].item = t[x].item /\ u[x].child = t[x].child
               /\ u[x].parent = t[x].parent /\ u[x].next = t[x].next
    <2>1. x \in T /\ ~t[x].leaf /\ Agree(t, t, T, h, h[x] - 1)
      BY AgreeSelf
    <2>2. PICK q : q = MinKeysOf(t, t[x].child)
      OBVIOUS
    <2>3. /\ q \in Seq(Nat) /\ Len(q) + 1 = Len(t[x].child)
          /\ \A i \in 1 .. Len(q) : Least(E, t[x].child[i + 1], q[i])
      BY <2>1, <2>2, MinKeys
    <2>4. u[x] = [t[x] EXCEPT !.key = q]
      BY <1>1, <2>1, <2>2 DEF Rekeyed
    <2>5. t[x] \in Node
      BY <1>1, <2>1, NodeTypes
    <2>6. /\ u[x] \in Node /\ u[x].key = q
          /\ u[x].leaf = t[x].leaf /\ u[x].item = t[x].item /\ u[x].child = t[x].child
          /\ u[x].parent = t[x].parent /\ u[x].next = t[x].next
      BY <2>3, <2>4, <2>5 DEF Node
    <2> QED BY <2>3, <2>6
  <1>3. DOMAIN u = DOMAIN t /\ \A x \in DOMAIN t \ Q : u[x] = t[x]
    BY DEF Rekeyed
  <1>4. Heap(u) /\ DOMAIN u = DOMAIN t
    <2>1. \A x \in DOMAIN t : u[x] \in Node
      <3>1. \A x \in DOMAIN t : t[x] \in Node
        BY <1>1, NodeTypes
      <3> QED BY <1>2, <1>3, <3>1
    <2>2. u \in [DOMAIN t -> Node]
      <3>1. DOMAIN u = DOMAIN t /\ u = [x \in DOMAIN u |-> u[x]]
        BY DEF Rekeyed
      <3> QED BY <2>1, <3>1
    <2> QED BY <1>1, <1>3, <2>2 DEF Heap
  <1>5. SameTree(t, u, T)
    BY <1>1, <1>2, <1>3 DEF SameTree
  <1>6. /\ Tree(u, T, h, E)
        /\ \A X : Sized(t, T, X) => Sized(u, T, X)
        /\ Chained(t, T, E) => Chained(u, T, E)
    <2>1. DOMAIN t \subseteq DOMAIN u
      BY <1>4
    <2>2. Heap(u)
      BY <1>4
    <2>3. Tree(u, T, h, E)
      BY <1>5, <2>2, SameShape
    <2>4. \A X : Sized(t, T, X) => Sized(u, T, X)
      BY <1>5, <2>2, SameShape
    <2>5. Chained(t, T, E) => Chained(u, T, E)
      BY <1>5, <2>1, <2>2, SameShape
    <2> QED BY <2>3, <2>4, <2>5
  <1>7. ASSUME NEW x \in Q PROVE KeyedAt(u, E, x)
    <2>1. /\ x \in T /\ ~u[x].leaf /\ Len(u[x].key) + 1 = Len(u[x].child)
          /\ \A i \in 1 .. Len(u[x].key) : Least(E, u[x].child[i + 1], u[x].key[i])
      BY <1>2
    <2> QED BY <1>6, <2>1, KeyedByMin
  <1>8. \A x \in T : x \notin Q /\ KeyedAt(t, E, x) => KeyedAt(u, E, x)
    <2> SUFFICES ASSUME NEW x \in T, x \notin Q, KeyedAt(t, E, x) PROVE KeyedAt(u, E, x)
      OBVIOUS
    <2>1. u[x] = t[x]
      BY <1>1, <1>3
    <2> QED BY <2>1 DEF KeyedAt
  <1> QED BY <1>5, <1>6, <1>7, <1>8

(* fix_keys changes the keys of one node.                                  *)
LEMMA FixKeysOf ==
    ASSUME NEW t, NEW a \in DOMAIN t
    PROVE  Rekeyed(t, fix_keys(t, a), {a})
  <1>1. fix_keys(t, a) = [t EXCEPT ![a].key = MinKeysOf(t, t[a].child)]
    BY DEF fix_keys, MinKeysOf
  <1> QED BY <1>1 DEF Rekeyed

(* The parents above a node of the tree are nodes of the tree.             *)
LEMMA AncestorsOf ==
    ASSUME NEW t, NEW T, NEW h, NEW E, Tree(t, T, h, E), NEW a \in T
    PROVE  Ancestors(t, a) \subseteq T /\ a \in Ancestors(t, a)
  <1> DEFINE f == [x \in DOMAIN t \cup {NULL} |-> IF x = NULL THEN NULL ELSE t[x].parent]
             R == {<<n, y>> : n \in Nat, y \in T \cup {NULL}}
  <1>1. Ancestors(t, a) = {Repeated(f, a, n) : n \in 0 .. Rounds(t)} \ {NULL}
    BY DEF Ancestors
  <1>2. T \subseteq DOMAIN t /\ NULL \notin T /\ Rounds(t) \in Nat
    BY TreeTypes, Tall
  <1>3. \A y \in T \cup {NULL} : f[y] \in T \cup {NULL}
    <2>1. f[NULL] = NULL
      OBVIOUS
    <2>2. \A y \in T : f[y] = t[y].parent
      BY <1>2
    <2>3. \A y \in T : t[y].parent \in T \cup {NULL}
      BY TreeTypes DEF Upward
    <2> QED BY <2>1, <2>2, <2>3
  <1> HIDE DEF f
  <1>4. <<0, a>> \in R
    OBVIOUS
  <1>5. \A n \in Nat : \A y : <<n, y>> \in R => <<n + 1, f[y]>> \in R
    BY <1>3
  <1>6. \A n \in Nat : <<n, Repeated(f, a, n)>> \in R
    <2> HIDE DEF R
    <2> QED BY <1>4, <1>5, RepeatedInv
  <1>7. \A n \in Nat : Repeated(f, a, n) \in T \cup {NULL}
    BY <1>6
  <1>8. Ancestors(t, a) \subseteq T
    BY <1>1, <1>2, <1>7
  <1>9. Repeated(f, a, 0) = a /\ 0 \in 0 .. Rounds(t)
    BY <1>2, RepeatedOf
  <1>10. a # NULL
    BY <1>2
  <1> QED BY <1>1, <1>8, <1>9, <1>10

(* After fix_up the keys are right if they were but for those of a.        *)
LEMMA FixUpOf ==
    ASSUME NEW t, NEW T, NEW h, NEW E, Tree(t, T, h, E), NEW a \in T, NEW u, u = fix_up(t, a),
           \A x \in T : ~t[x].leaf /\ x # a => KeyedAt(t, E, x)
    PROVE  /\ Tree(u, T, h, E) /\ DOMAIN u = DOMAIN t /\ Keyed(u, T, E)
           /\ \A X : Sized(t, T, X) => Sized(u, T, X)
           /\ Chained(t, T, E) => Chained(u, T, E)
  <1> DEFINE Q == {x \in Ancestors(t, a) : ~t[x].leaf}
  <1>1. Ancestors(t, a) \subseteq T /\ a \in Ancestors(t, a) /\ T \subseteq DOMAIN t
    BY AncestorsOf, TreeTypes
  <1>2. \A x \in Q : x \in T /\ ~t[x].leaf
    BY <1>1
  <1>3. Rekeyed(t, u, Q)
    <2>1. u = [x \in DOMAIN t |-> IF x \in Ancestors(t, a) /\ ~t[x].leaf THEN fix_keys(t, x)[x]
                                  ELSE t[x]]
      BY DEF fix_up
    <2>2. ASSUME NEW x \in Q PROVE fix_keys(t, x)[x] = [t[x] EXCEPT !.key = MinKeysOf(t, t[x].child)]
      <3>1. x \in DOMAIN t
        BY <1>1
      <3>2. fix_keys(t, x) = [t EXCEPT ![x].key = MinKeysOf(t, t[x].child)]
        BY DEF fix_keys, MinKeysOf
      <3> QED BY <3>1, <3>2
    <2>3. \A x : x \in Q <=> x \in Ancestors(t, a) /\ ~t[x].leaf
      OBVIOUS
    <2> HIDE DEF Q
    <2> QED BY <2>1, <2>2, <2>3 DEF Rekeyed
  <1>4. a \in Q \/ t[a].leaf
    BY <1>1
  <1> HIDE DEF Q
  <1>5. /\ Tree(u, T, h, E) /\ SameTree(t, u, T) /\ \A x \in Q : KeyedAt(u, E, x)
    BY <1>2, <1>3, RekeyedTree
  <1>6. \A x \in T : x \notin Q /\ KeyedAt(t, E, x) => KeyedAt(u, E, x)
    BY <1>2, <1>3, RekeyedTree
  <1>7. /\ \A X : Sized(t, T, X) => Sized(u, T, X)
        /\ Chained(t, T, E) => Chained(u, T, E)
    BY <1>2, <1>3, RekeyedTree
  <1>8. Keyed(u, T, E)
    <2> SUFFICES ASSUME NEW x \in T, ~u[x].leaf PROVE KeyedAt(u, E, x)
      BY DEF Keyed
    <2>1. ~t[x].leaf
      BY <1>5 DEF SameTree
    <2> QED BY <1>4, <1>5, <1>6, <2>1
  <1>9. DOMAIN u = DOMAIN t
    BY <1>3 DEF Rekeyed
  <1> QED BY <1>5, <1>7, <1>8, <1>9

-----------------------------------------------------------------------------
(***************************************************************************)
(* Entries in a leaf.                                                      *)
(***************************************************************************)

(* Entries in order.                                                       *)
Ascending(s) == s \in Seq(Entry) /\ \A i, j \in 1 .. Len(s) : i < j => s[i].fnv < s[j].fnv

(* The first entry with a hash of k or more, and the one that matches n.   *)
LEMMA FirstFromOf ==
    ASSUME NEW s \in Seq(Entry), NEW k \in Nat, NEW n, n = FirstFrom(s, k)
    PROVE  \/ n = 0 /\ \A j \in 1 .. Len(s) : s[j].fnv < k
           \/ n \in 1 .. Len(s) /\ k <= s[n].fnv /\ \A j \in 1 .. n - 1 : s[j].fnv < k
  <1> DEFINE I == {i \in 1 .. Len(s) : s[i].fnv >= k}
  <1>1. n = IF I # {} THEN Min(I) ELSE 0
    BY DEF SelectInSeq, FirstFrom
  <1>2. \A j \in 1 .. Len(s) : s[j].fnv \in Nat
    <2>1. \A j \in 1 .. Len(s) : s[j] \in Entry
      OBVIOUS
    <2> QED BY <2>1 DEF Entry
  <1>3. CASE I = {}
    <2>1. n = 0
      BY <1>1, <1>3
    <2>2. \A j \in 1 .. Len(s) : s[j].fnv \in Nat /\ ~(s[j].fnv >= k)
      BY <1>2, <1>3
    <2>3. \A j \in 1 .. Len(s) : s[j].fnv < k
      BY <2>2
    <2> QED BY <2>1, <2>3
  <1>4. CASE I # {}
    <2>1. I \subseteq Nat
      OBVIOUS
    <2>2. n \in I /\ \A y \in I : n <= y
      <3> HIDE DEF I
      <3> QED BY <1>1, <1>4, <2>1, MinOf
    <2>3. ASSUME NEW j \in 1 .. n - 1 PROVE s[j].fnv < k
      <3>1. j \in 1 .. Len(s) /\ ~(n <= j)
        BY <2>2
      <3>2. ~(s[j].fnv >= k)
        BY <2>2, <3>1
      <3> QED BY <1>2, <3>1, <3>2
    <2>4. n \in 1 .. Len(s) /\ k <= s[n].fnv
      BY <1>2, <2>2
    <2> QED BY <2>3, <2>4
  <1> QED BY <1>3, <1>4

(* An entry is put where it belongs.                                       *)
Inserting(s, e, n, i, r) ==
    /\ Ascending(s) /\ e \in Entry /\ n = FirstFrom(s, e.fnv)
    /\ ~(n # 0 /\ s[n].fnv = e.fnv)
    /\ i = (IF n = 0 THEN Len(s) + 1 ELSE n) /\ r = InsertAt(s, i, e)

(* An entry inserted where FirstFrom says leaves the leaf in order.        *)
LEMMA ItemsInserted ==
    ASSUME NEW s, NEW e, NEW n, NEW i, NEW r, Inserting(s, e, n, i, r)
    PROVE  /\ Ascending(r) /\ Len(r) = Len(s) + 1 /\ Members(r) = Members(s) \cup {e}
           /\ \A j \in 1 .. Len(s) : s[j].fnv # e.fnv
  <1>1. /\ s \in Seq(Entry) /\ \A a, b \in 1 .. Len(s) : a < b => s[a].fnv < s[b].fnv
        /\ e \in Entry /\ n = FirstFrom(s, e.fnv) /\ ~(n # 0 /\ s[n].fnv = e.fnv)
        /\ i = (IF n = 0 THEN Len(s) + 1 ELSE n) /\ r = InsertAt(s, i, e)
    BY DEF Inserting, Ascending
  <1>2. e.fnv \in Nat /\ Len(s) \in Nat
    BY <1>1 DEF Entry
  <1>3. \A j \in 1 .. Len(s) : s[j].fnv \in Nat
    <2>1. \A j \in 1 .. Len(s) : s[j] \in Entry
      BY <1>1
    <2> QED BY <2>1 DEF Entry
  <1>4. \/ n = 0 /\ \A j \in 1 .. Len(s) : s[j].fnv < e.fnv
        \/ n \in 1 .. Len(s) /\ e.fnv <= s[n].fnv /\ \A j \in 1 .. n - 1 : s[j].fnv < e.fnv
    BY <1>1, <1>2, FirstFromOf
  <1>5. /\ i \in 1 .. Len(s) + 1 /\ i \in Nat
        /\ \A j \in 1 .. Len(s) : /\ j < i => s[j].fnv < e.fnv
                                  /\ i <= j => e.fnv < s[j].fnv
    <2>1. CASE n = 0
      BY <1>1, <1>2, <1>4, <2>1
    <2>2. CASE n # 0
      <3>1. i = n /\ n \in 1 .. Len(s) /\ e.fnv < s[n].fnv /\ \A j \in 1 .. n - 1 : s[j].fnv < e.fnv
        BY <1>1, <1>2, <1>3, <1>4, <2>2
      <3>2. ASSUME NEW j \in 1 .. Len(s), i <= j PROVE e.fnv < s[j].fnv
        <4>1. j = n \/ s[n].fnv < s[j].fnv
          BY <1>1, <3>1, <3>2
        <4> QED BY <1>2, <1>3, <3>1, <4>1
      <3>3. \A j \in 1 .. Len(s) : j < i => j \in 1 .. n - 1
        BY <3>1
      <3> QED BY <3>1, <3>2, <3>3
    <2> QED BY <2>1, <2>2
  <1>6. s \in Seq(Entry) /\ i \in 1 .. Len(s) + 1 /\ e \in Entry /\ r = InsertAt(s, i, e)
    BY <1>1, <1>5
  <1>7. r \in Seq(Entry) /\ Len(r) = Len(s) + 1
    <2>1. Inserted(Entry, s, i, e, r)
      BY <1>6, InsertedList
    <2> QED BY <2>1 DEF Inserted
  <1>8. \A j \in 1 .. Len(r) : /\ j < i => r[j] = s[j]
                               /\ j = i => r[j] = e
                               /\ i < j => r[j] = s[j - 1]
    <2>1. Inserted(Entry, s, i, e, r)
      BY <1>6, InsertedList
    <2> QED BY <2>1 DEF Inserted
  <1>9. ASSUME NEW a \in 1 .. Len(r), NEW b \in 1 .. Len(r), a < b PROVE r[a].fnv < r[b].fnv
    <2>1. a \in Nat /\ b \in Nat
      OBVIOUS
    <2>2. CASE b < i
      <3>1. a < i /\ a \in 1 .. Len(s) /\ b \in 1 .. Len(s)
        BY <1>5, <1>9, <2>2
      <3>2. r[a] = s[a] /\ r[b] = s[b]
        BY <1>8, <2>2, <3>1
      <3> QED BY <1>1, <1>9, <3>1, <3>2
    <2>3. CASE b = i
      <3>1. a < i /\ a \in 1 .. Len(s)
        BY <1>5, <1>9, <2>3
      <3>2. r[a] = s[a] /\ r[b] = e
        BY <1>8, <2>3, <3>1
      <3> QED BY <1>5, <3>1, <3>2
    <2>4. CASE i < b /\ a < i
      <3>1. a \in 1 .. Len(s) /\ b - 1 \in 1 .. Len(s) /\ i <= b - 1
        BY <1>5, <1>7, <2>4
      <3>2. r[a] = s[a] /\ r[b] = s[b - 1]
        BY <1>8, <2>4
      <3>3. s[a].fnv < e.fnv /\ e.fnv < s[b - 1].fnv
        BY <1>5, <2>4, <3>1
      <3>4. s[a].fnv \in Nat /\ s[b - 1].fnv \in Nat
        BY <1>3, <3>1
      <3> QED BY <1>2, <3>2, <3>3, <3>4
    <2>5. CASE i < b /\ a = i
      <3>1. b - 1 \in 1 .. Len(s) /\ i <= b - 1
        BY <1>5, <1>7, <2>5
      <3>2. r[a] = e /\ r[b] = s[b - 1]
        BY <1>8, <2>5
      <3> QED BY <1>5, <3>1, <3>2
    <2>6. CASE i < b /\ i < a
      <3>1. a - 1 \in 1 .. Len(s) /\ b - 1 \in 1 .. Len(s) /\ a - 1 < b - 1
        BY <1>5, <1>7, <1>9, <2>6
      <3>2. r[a] = s[a - 1] /\ r[b] = s[b - 1]
        BY <1>8, <2>6
      <3> QED BY <1>1, <3>1, <3>2
    <2> QED BY <1>5, <2>1, <2>2, <2>3, <2>4, <2>5, <2>6
  <1>10. Members(r) = Members(s) \cup {e}
    <2>1. ASSUME NEW x \in Members(r) PROVE x \in Members(s) \cup {e}
      <3>1. PICK j \in 1 .. Len(r) : x = r[j]
        BY DEF Members
      <3>2. CASE j < i
        <4>1. j \in 1 .. Len(s) /\ x = s[j]
          BY <1>5, <1>8, <3>1, <3>2
        <4> QED BY <4>1 DEF Members
      <3>3. CASE i < j
        <4>1. j - 1 \in 1 .. Len(s) /\ x = s[j - 1]
          BY <1>5, <1>7, <1>8, <3>1, <3>3
        <4> QED BY <4>1 DEF Members
      <3>4. CASE j = i
        BY <1>8, <3>1, <3>4
      <3> QED BY <1>5, <3>2, <3>3, <3>4
    <2>2. ASSUME NEW x \in Members(s) PROVE x \in Members(r)
      <3>1. PICK j \in 1 .. Len(s) : x = s[j]
        BY DEF Members
      <3>2. CASE j < i
        <4>1. j \in 1 .. Len(r) /\ x = r[j]
          BY <1>2, <1>7, <1>8, <3>1, <3>2
        <4> QED BY <4>1 DEF Members
      <3>3. CASE i <= j
        <4>1. j + 1 \in 1 .. Len(r) /\ i < j + 1 /\ (j + 1) - 1 = j
          BY <1>2, <1>5, <1>7, <3>3
        <4>2. r[j + 1] = s[(j + 1) - 1]
          BY <1>8, <4>1
        <4> QED BY <3>1, <4>1, <4>2 DEF Members
      <3> QED BY <1>5, <3>2, <3>3
    <2>3. e \in Members(r)
      <3>1. i \in 1 .. Len(r) /\ r[i] = e
        BY <1>2, <1>5, <1>7, <1>8
      <3> QED BY <3>1 DEF Members
    <2> QED BY <2>1, <2>2, <2>3
  <1>11. \A j \in 1 .. Len(s) : s[j].fnv # e.fnv
    BY <1>2, <1>3, <1>5
  <1> QED BY <1>7, <1>9, <1>10, <1>11 DEF Ascending

(* The i-th entry is taken out.                                            *)
LEMMA ItemRemoved ==
    ASSUME NEW s, Ascending(s), NEW i \in 1 .. Len(s), NEW r, r = RemoveAt(s, i)
    PROVE  Ascending(r) /\ Len(r) = Len(s) - 1 /\ Members(r) = Members(s) \ {s[i]}
  <1>1. s \in Seq(Entry) /\ \A a, b \in 1 .. Len(s) : a < b => s[a].fnv < s[b].fnv
    BY DEF Ascending
  <1>2. \A j \in 1 .. Len(s) : s[j].fnv \in Nat
    <2>1. \A j \in 1 .. Len(s) : s[j] \in Entry
      BY <1>1
    <2> QED BY <2>1 DEF Entry
  <1>3. \A a, b \in 1 .. Len(s) : s[a] = s[b] => a = b
    <2> SUFFICES ASSUME NEW a \in 1 .. Len(s), NEW b \in 1 .. Len(s), s[a] = s[b], a # b PROVE FALSE
      OBVIOUS
    <2>1. a < b \/ b < a
      OBVIOUS
    <2>2. s[a].fnv < s[b].fnv \/ s[b].fnv < s[a].fnv
      BY <1>1, <2>1
    <2> QED BY <1>2, <2>2
  <1>4. /\ r \in Seq(Entry) /\ Len(r) = Len(s) - 1 /\ Len(s) \in Nat
        /\ \A j \in 1 .. Len(r) : (j < i => r[j] = s[j]) /\ (i <= j => r[j] = s[j + 1])
    <2>1. Removed(Entry, s, i, r)
      BY <1>1, RemovedList
    <2> QED BY <2>1 DEF Removed
  <1>5. ASSUME NEW a \in 1 .. Len(r)
        PROVE  \E m \in 1 .. Len(s) : r[a] = s[m] /\ m # i /\ (a < i => m = a) /\ (i <= a => m = a + 1)
    <2>1. CASE a < i
      <3>1. a \in 1 .. Len(s) /\ r[a] = s[a] /\ a # i /\ ~(i <= a)
        BY <1>4, <2>1
      <3> QED BY <3>1
    <2>2. CASE i <= a
      <3>1. a + 1 \in 1 .. Len(s) /\ r[a] = s[a + 1] /\ a + 1 # i /\ ~(a < i)
        BY <1>4, <2>2
      <3> QED BY <3>1
    <2> QED BY <2>1, <2>2
  <1>6. ASSUME NEW a \in 1 .. Len(r), NEW b \in 1 .. Len(r), a < b PROVE r[a].fnv < r[b].fnv
    <2>1. PICK m \in 1 .. Len(s) : r[a] = s[m] /\ (a < i => m = a) /\ (i <= a => m = a + 1)
      BY <1>5
    <2>2. PICK n \in 1 .. Len(s) : r[b] = s[n] /\ (b < i => n = b) /\ (i <= b => n = b + 1)
      BY <1>5
    <2>3. m < n
      BY <1>6, <2>1, <2>2
    <2> QED BY <1>1, <2>1, <2>2, <2>3
  <1>7. Members(r) = Members(s) \ {s[i]}
    <2>1. ASSUME NEW x \in Members(r) PROVE x \in Members(s) \ {s[i]}
      <3>1. PICK j \in 1 .. Len(r) : x = r[j]
        BY DEF Members
      <3>2. PICK m \in 1 .. Len(s) : r[j] = s[m] /\ m # i
        BY <1>5
      <3>3. s[m] # s[i]
        BY <1>3, <3>2
      <3> QED BY <3>1, <3>2, <3>3 DEF Members
    <2>2. ASSUME NEW x \in Members(s) \ {s[i]} PROVE x \in Members(r)
      <3>1. PICK m \in 1 .. Len(s) : x = s[m]
        BY DEF Members
      <3>2. m # i
        BY <2>2, <3>1
      <3>3. CASE m < i
        <4>1. m \in 1 .. Len(r) /\ r[m] = s[m]
          BY <1>4, <3>3
        <4> QED BY <3>1, <4>1 DEF Members
      <3>4. CASE i < m
        <4>1. m - 1 \in 1 .. Len(r) /\ i <= m - 1 /\ (m - 1) + 1 = m
          BY <1>4, <3>4
        <4>2. r[m - 1] = s[(m - 1) + 1]
          BY <1>4, <4>1
        <4> QED BY <3>1, <4>1, <4>2 DEF Members
      <3> QED BY <3>2, <3>3, <3>4
    <2> QED BY <2>1, <2>2
  <1> QED BY <1>4, <1>6, <1>7 DEF Ascending

-----------------------------------------------------------------------------
(***************************************************************************)
(* Splits.                                                                 *)
(***************************************************************************)

(* A node is put between g and what follows it below q: a split.           *)
Splitting(W, u, U, k, F, q, g, n, i, s) ==
    /\ Tree(W, U, k, F) /\ Heap(u) /\ DOMAIN W \subseteq DOMAIN u
    /\ Keyed(W, U, F) /\ Sized(W, U, {g, q})
    /\ n \in DOMAIN u /\ n \notin DOMAIN W /\ s \in Nat
    /\ q \in U /\ i \in 1 .. Len(W[q].child) /\ W[q].child[i] = g
    /\ ~u[q].leaf /\ u[q].item = <<>> /\ u[q].parent = W[q].parent
    /\ u[q].child = InsertAt(W[q].child, i + 1, n) /\ u[q].key = InsertAt(W[q].key, i, s)
    /\ u[g].leaf = W[g].leaf /\ u[n].leaf = W[g].leaf /\ u[g].parent = q /\ u[n].parent = q
    /\ u[g].item \o u[n].item = W[g].item /\ u[g].child \o u[n].child = W[g].child
    /\ W[g].leaf => u[g].item # <<>> /\ u[n].item # <<>> /\ u[g].child = <<>> /\ u[n].child = <<>>
    /\ ~W[g].leaf => u[g].child # <<>> /\ u[n].child # <<>> /\ u[g].item = <<>> /\ u[n].item = <<>>
    /\ \A x \in Members(u[g].child) : u[x].parent = g
    /\ \A x \in Members(u[n].child) : u[x].parent = n
    /\ \A x \in U \ {g, q} :
          /\ u[x].leaf = W[x].leaf /\ u[x].item = W[x].item /\ u[x].child = W[x].child
          /\ u[x].key = W[x].key
          /\ W[x].parent # g => u[x].parent = W[x].parent

(* The tree after a split: n is next to g, and they have what g had.       *)
SplitInto(W, u, U, k, F, q, g, n, V, l, D) ==
    /\ V = U \cup {n} /\ Tree(u, V, l, D)
    /\ \A x \in U \ {g} : l[x] = k[x] /\ D[x] = F[x]
    /\ g # root /\ l[g] = k[g] /\ l[n] = k[g] /\ D[root] = F[root] /\ D[g] \cup D[n] = F[g]
    /\ g # q /\ g \in U /\ k[g] + 1 = k[q] /\ q \in V /\ n # q /\ n # g /\ n \notin U
    /\ \A x \in V \ {g, n, q} : (~u[x].leaf => KeyedAt(u, D, x)) /\ SizedAt(u, x)

(* Half of what node g has goes to a new node n, its right neighbour: what *)
(* was a tree is one.                                                      *)
LEMMA SplitShape ==
    ASSUME NEW W, NEW u, NEW U, NEW k, NEW F, NEW q, NEW g, NEW n, NEW i, NEW s,
           Splitting(W, u, U, k, F, q, g, n, i, s)
    PROVE  \E V, l, D : SplitInto(W, u, U, k, F, q, g, n, V, l, D)
  <1> DEFINE c == W[q].child
             A == SubSeq(c, 1, i - 1)
             B == SubSeq(c, i + 1, Len(c))
             G == <<g>>
             H == <<g, n>>
             V == U \cup {n}
  <1>1. /\ Tree(W, U, k, F) /\ Heap(u) /\ DOMAIN W \subseteq DOMAIN u
        /\ Keyed(W, U, F) /\ Sized(W, U, {g, q})
        /\ n \in DOMAIN u /\ n \notin DOMAIN W
        /\ q \in U /\ i \in 1 .. Len(W[q].child) /\ W[q].child[i] = g
    BY DEF Splitting
  <1>2. /\ ~u[q].leaf /\ u[q].item = <<>> /\ u[q].parent = W[q].parent
        /\ u[q].child = InsertAt(c, i + 1, n)
        /\ u[g].leaf = W[g].leaf /\ u[n].leaf = W[g].leaf /\ u[g].parent = q /\ u[n].parent = q
        /\ u[g].item \o u[n].item = W[g].item /\ u[g].child \o u[n].child = W[g].child
    BY DEF Splitting
  <1>3. /\ W[g].leaf => u[g].item # <<>> /\ u[n].item # <<>> /\ u[g].child = <<>> /\ u[n].child = <<>>
        /\ ~W[g].leaf => u[g].child # <<>> /\ u[n].child # <<>> /\ u[g].item = <<>> /\ u[n].item = <<>>
        /\ \A x \in Members(u[g].child) : u[x].parent = g
        /\ \A x \in Members(u[n].child) : u[x].parent = n
    BY DEF Splitting
  <1>4. \A x \in U \ {g, q} :
          /\ u[x].leaf = W[x].leaf /\ u[x].item = W[x].item /\ u[x].child = W[x].child
          /\ u[x].key = W[x].key
          /\ W[x].parent # g => u[x].parent = W[x].parent
    BY DEF Splitting
  <1>5. g \in U /\ g # root /\ k[g] \in Nat /\ k[g] + 1 = k[q] /\ W[g].parent = q /\ ~W[q].leaf
    BY <1>1, ChildOf
  <1>6. /\ U \subseteq DOMAIN W /\ root \in U /\ DOMAIN W \subseteq Nat /\ k \in [U -> Nat]
        /\ Heap(W) /\ DOMAIN u \subseteq Nat
        /\ Kind(W, k, g) /\ Kind(W, k, q)
    <2>1. DOMAIN u \subseteq Nat
      BY <1>1, BPTreeAssumption DEF Heap, root
    <2> QED BY <1>1, <1>5, <2>1, TreeTypes
  <1>7. g # q /\ n # g /\ n # q /\ n \notin U /\ g \in Nat /\ n \in Nat /\ q # g
    BY <1>1, <1>5, <1>6
  <1>8. c \in Seq(Nat)
    BY <1>1, <1>6, NodeTypes
  <1> HIDE DEF c
  <1>9. A \in Seq(Nat) /\ B \in Seq(Nat) /\ c = A \o G \o B
    <2>1. i \in 1 .. Len(c) /\ c[i] = g
      BY <1>1 DEF c
    <2> QED BY <1>8, <2>1, Parted
  <1>10. u[q].child = A \o H \o B
    <2>1. i \in 1 .. Len(c) /\ c[i] = g
      BY <1>1 DEF c
    <2>2. PICK S : S = Nat
      OBVIOUS
    <2>3. c \in Seq(S) /\ n \in S
      BY <1>7, <1>8, <2>2
    <2>4. InsertAt(c, i + 1, n) = SubSeq(c, 1, i - 1) \o <<c[i], n>> \o SubSeq(c, i + 1, Len(c))
      BY <2>1, <2>3, Around
    <2> QED BY <1>2, <2>1, <2>4
  <1> HIDE DEF A, B
  <1>11. /\ Pair(G) /\ Pair(H) /\ Len(G) = 1 /\ Len(H) = 2
         /\ G[1] = g /\ H[1] = g /\ H[2] = n
    <2>1. G \in Seq(Nat) /\ Len(G) = 1 /\ G[1] = g
      BY <1>7
    <2>2. H \in Seq(Nat) /\ Len(H) = 2 /\ H[1] = g /\ H[2] = n
      BY <1>7
    <2> HIDE DEF G, H
    <2>3. Pair(G)
      BY <2>1 DEF Pair
    <2>4. H[1] # H[2]
      BY <1>7, <2>2
    <2>5. Pair(H)
      BY <2>2, <2>4 DEF Pair
    <2> QED BY <2>1, <2>2, <2>3, <2>5
  <1> HIDE DEF G, H
  <1>12. Members(G) = {g} /\ Members(H) = {g, n}
    BY <1>11, PairMembers
  <1>13. /\ V = (U \ Members(G)) \cup Members(H) /\ V \subseteq DOMAIN u
         /\ Members(H) \cap U \subseteq Members(G)
    BY <1>1, <1>5, <1>6, <1>7, <1>12
  <1>14. Items(u, H) = Items(W, G) /\ Kids(u, H) = Kids(W, G)
    <2>1. Items(W, G) = W[g].item /\ Kids(W, G) = W[g].child
      BY <1>11 DEF Items, Kids
    <2>2. Len(H) # 1
      BY <1>11
    <2>3. Items(u, H) = u[g].item \o u[n].item /\ Kids(u, H) = u[g].child \o u[n].child
      BY <1>11, <2>2 DEF Items, Kids
    <2> QED BY <1>2, <2>1, <2>3
  <1>15. Bodies(u, k, Members(H), q)
    <2> SUFFICES ASSUME NEW x \in Members(H)
                 PROVE  /\ u[x].parent = q /\ (u[x].leaf <=> k[q] = 1)
                        /\ u[x].leaf => u[x].child = <<>> /\ u[x].item # <<>>
                        /\ ~u[x].leaf => u[x].item = <<>> /\ u[x].child # <<>>
                        /\ \A j \in 1 .. Len(u[x].child) : u[u[x].child[j]].parent = x
      BY DEF Bodies
    <2>1. x = g \/ x = n
      BY <1>12
    <2>2. u[x].parent = q /\ u[x].leaf = W[g].leaf
      BY <1>2, <2>1
    <2>3. (W[g].leaf <=> k[q] = 1)
      <3>1. W[g].leaf <=> k[g] = 0
        BY <1>6 DEF Kind
      <3> QED BY <1>5, <3>1
    <2>4. /\ u[x].leaf => u[x].child = <<>> /\ u[x].item # <<>>
          /\ ~u[x].leaf => u[x].item = <<>> /\ u[x].child # <<>>
      BY <1>3, <2>1, <2>2
    <2>5. \A j \in 1 .. Len(u[x].child) : u[u[x].child[j]].parent = x
      BY <1>3, <2>1 DEF Members
    <2>6. u[x].leaf <=> k[q] = 1
      BY <2>2, <2>3
    <2> QED BY <2>2, <2>4, <2>5, <2>6
  <1>16. Kept(W, u, U \ (Members(G) \cup {q}))
    BY <1>4, <1>12 DEF Kept
  <1>17. \A x \in U \ Members(G) : W[x].parent \notin Members(G) => u[x].parent = W[x].parent
    BY <1>2, <1>4, <1>12
  <1>18. Rearranging(W, u, U, k, F, V, q, A, G, H, B)
    BY <1>1, <1>2, <1>5, <1>9, <1>10, <1>11, <1>13, <1>14, <1>15, <1>16, <1>17 DEF Rearranging, c
  <1>19. PICK l, D : Rearranged(u, U, k, F, V, q, G, H, l, D)
    BY <1>18, Rearrange
  <1>20. Beside(W, u, U, k, F, V, q, A, G, H, B, l, D, {g, q})
    <2>1. {g, q} \subseteq Members(G) \cup {q}
      BY <1>12
    <2>2. \A x \in U \ (Members(G) \cup {q}) : u[x].key = W[x].key
      BY <1>4, <1>12
    <2> QED BY <1>1, <1>18, <1>19, <2>1, <2>2 DEF Beside
  <1>21. /\ Tree(u, V, l, D) /\ D[root] = F[root] /\ q \in V
         /\ \A x \in V \ (Members(H) \cup {q}) : (~u[x].leaf => KeyedAt(u, D, x)) /\ SizedAt(u, x)
    <2>1. Tree(u, V, l, D) /\ D[root] = F[root] /\ q \in V
      BY <1>20, RearrangeRest
    <2>2. \A x \in V \ (Members(H) \cup {q}) : /\ x \in U \ (Members(G) \cup {q})
                                               /\ u[x].leaf = W[x].leaf
                                               /\ ~u[x].leaf => KeyedAt(u, D, x)
                                               /\ SizedAt(u, x)
      BY <1>20, RearrangeRest
    <2> QED BY <2>1, <2>2
  <1>22. /\ \A x \in U \ {g} : l[x] = k[x] /\ D[x] = F[x]
         /\ l[g] + 1 = k[q] /\ l[n] + 1 = k[q]
    BY <1>12, <1>19 DEF Rearranged
  <1>23. l[g] = k[g] /\ l[n] = k[g]
    <2>1. l[g] \in Nat /\ l[n] \in Nat
      <3>1. l \in [V -> Nat] /\ g \in V /\ n \in V
        BY <1>5, <1>21, TreeTypes
      <3> QED BY <3>1
    <2> QED BY <1>5, <1>22, <2>1
  <1>24. D[g] \cup D[n] = F[g]
    <2>1. /\ D \in [V -> SUBSET Entry] /\ g \in V /\ n \in V /\ Ordered(u, D, g) /\ Ordered(u, D, n)
          /\ Ordered(W, F, g) /\ F \in [U -> SUBSET Entry]
      BY <1>1, <1>5, <1>21, TreeTypes
    <2>2. CASE W[g].leaf
      <3>1. W[g].item \in Seq(Entry) /\ F[g] = Members(W[g].item)
        BY <1>1, <1>5, <2>2, LeafOf
      <3>2. u[g].item \in Seq(Entry) /\ D[g] = Members(u[g].item)
        <4>1. g \in V /\ u[g].leaf
          BY <1>2, <2>1, <2>2
        <4> QED BY <1>21, <4>1, LeafOf
      <3>3. u[n].item \in Seq(Entry) /\ D[n] = Members(u[n].item)
        <4>1. n \in V /\ u[n].leaf
          BY <1>2, <2>1, <2>2
        <4> QED BY <1>21, <4>1, LeafOf
      <3>4. Members(W[g].item) = Members(u[g].item) \cup Members(u[n].item)
        <4>1. Members(u[g].item \o u[n].item) = Members(u[g].item) \cup Members(u[n].item)
          BY <3>2, <3>3, MembersConcat
        <4> QED BY <1>2, <4>1
      <3> QED BY <3>1, <3>2, <3>3, <3>4
    <2>3. CASE ~W[g].leaf
      <3>1. u[g].child \in Seq(V) /\ D[g] = Whole(Under(D, u[g].child))
        BY <1>2, <1>21, <2>1, <2>3, Children DEF Tree
      <3>2. u[n].child \in Seq(V) /\ D[n] = Whole(Under(D, u[n].child))
        BY <1>2, <1>21, <2>1, <2>3, Children DEF Tree
      <3>3. Under(D, u[g].child \o u[n].child) = Under(D, u[g].child) \o Under(D, u[n].child)
        BY <2>1, <3>1, <3>2, UnderConcat
      <3>4. Under(D, u[g].child) \in Seq(SUBSET Entry) /\ Under(D, u[n].child) \in Seq(SUBSET Entry)
        BY <2>1, <3>1, <3>2, UnderOf
      <3>5. Whole(Under(D, W[g].child)) = D[g] \cup D[n]
        BY <1>2, <3>1, <3>2, <3>3, <3>4, WholeConcat
      <3>6. W[g].child \in Seq(U) /\ F[g] = Whole(Under(F, W[g].child))
        BY <1>1, <1>5, <2>3, Children DEF Tree
      <3>7. \A j \in 1 .. Len(W[g].child) : D[W[g].child[j]] = F[W[g].child[j]]
        <4> SUFFICES ASSUME NEW j \in 1 .. Len(W[g].child), NEW y, y = W[g].child[j] PROVE D[y] = F[y]
          OBVIOUS
        <4>1. y \in U /\ W[y].parent = g
          BY <1>1, <1>5, ChildOf
        <4> QED BY <1>5, <1>7, <1>22, <4>1
      <3>8. Under(D, W[g].child) = Under(F, W[g].child)
        <4> DEFINE d == W[g].child
        <4>1. \A j \in 1 .. Len(d) : D[d[j]] = F[d[j]]
          BY <3>7
        <4> HIDE DEF d
        <4>2. Under(D, d) = Under(F, d)
          BY <4>1 DEF Under
        <4> QED BY <4>2 DEF d
      <3> QED BY <3>5, <3>6, <3>8
    <2> QED BY <2>2, <2>3
  <1>25. SplitInto(W, u, U, k, F, q, g, n, V, l, D)
    BY <1>5, <1>7, <1>12, <1>21, <1>22, <1>23, <1>24 DEF SplitInto
  <1> QED BY <1>25

(* Less is kept for subsets.                                               *)
LEMMA LessPart ==
    ASSUME NEW X, NEW Y, NEW A, NEW B, Less(X, Y), A \subseteq X, B \subseteq Y
    PROVE  Less(A, B)
  BY DEF Less

(* Each key of a node parts all that is below it.                          *)
LEMMA KeyBounds ==
    ASSUME NEW t, NEW T, NEW h, NEW E, Tree(t, T, h, E), NEW a \in T, KeyedAt(t, E, a), ~t[a].leaf,
           NEW i \in 1 .. Len(t[a].key), NEW j \in 1 .. Len(t[a].child), NEW e \in E[t[a].child[j]]
    PROVE  /\ j <= i => e.fnv < t[a].key[i]
           /\ i < j => t[a].key[i] <= e.fnv
  <1> DEFINE c == t[a].child
             K == t[a].key
  <1>1. /\ K \in Seq(Nat) /\ E \in [T -> SUBSET Entry]
    <2>1. a \in DOMAIN t /\ Heap(t) /\ E \in [T -> SUBSET Entry]
      BY TreeTypes
    <2> QED BY <2>1, NodeTypes
  <1>2. /\ Len(K) + 1 = Len(c)
        /\ \A m \in 1 .. Len(K) : /\ \A x \in E[c[m]] : x.fnv < K[m]
                                  /\ \A x \in E[c[m + 1]] : K[m] <= x.fnv
    BY DEF KeyedAt
  <1>3. \A m \in 1 .. Len(c) : E[c[m]] # {} /\ E[c[m]] \subseteq Entry
    <2> SUFFICES ASSUME NEW m \in 1 .. Len(t[a].child), NEW y, y = t[a].child[m]
                 PROVE  E[y] # {} /\ E[y] \subseteq Entry
      OBVIOUS
    <2>1. y \in T /\ E[y] # {}
      BY ChildOf
    <2> QED BY <1>1, <2>1
  <1>4. \A m, n \in 1 .. Len(c) : m < n => Less(E[c[m]], E[c[n]])
    BY InnerOf
  <1>5. i \in 1 .. Len(c) /\ i + 1 \in 1 .. Len(c) /\ K[i] \in Nat /\ Len(c) \in Nat
    <2>1. i \in 1 .. Len(K)
      OBVIOUS
    <2> HIDE DEF c, K
    <2>2. Len(K) \in Nat /\ K[i] \in Nat
      BY <1>1, <2>1
    <2> QED BY <1>2, <2>1, <2>2
  <1>6. \A x \in E[c[i]] : x.fnv < K[i]
    BY <1>2
  <1>7. \A x \in E[c[i + 1]] : K[i] <= x.fnv
    BY <1>2
  <1>8. j \in 1 .. Len(c) /\ e \in E[c[j]]
    OBVIOUS
  <1> HIDE DEF c, K
  <1>9. \A m \in 1 .. Len(c) : \A x \in E[c[m]] : x.fnv \in Nat
    BY <1>3 DEF Entry
  <1>10. ASSUME j < i PROVE e.fnv < K[i]
    <2>1. PICK y \in E[c[i]] : TRUE
      BY <1>3, <1>5
    <2>2. Less(E[c[j]], E[c[i]])
      BY <1>4, <1>5, <1>8, <1>10
    <2>3. e.fnv < y.fnv /\ y.fnv < K[i]
      BY <1>6, <1>8, <2>1, <2>2 DEF Less
    <2>4. e.fnv \in Nat /\ y.fnv \in Nat
      BY <1>5, <1>8, <1>9, <2>1
    <2>5. \A m, n, o \in Nat : m < n /\ n < o => m < o
      OBVIOUS
    <2> QED BY <1>5, <2>3, <2>4, <2>5
  <1>11. ASSUME i + 1 < j PROVE K[i] <= e.fnv
    <2>1. PICK y \in E[c[i + 1]] : TRUE
      BY <1>3, <1>5
    <2>2. Less(E[c[i + 1]], E[c[j]])
      BY <1>4, <1>5, <1>8, <1>11
    <2>3. y.fnv < e.fnv /\ K[i] <= y.fnv
      BY <1>7, <1>8, <2>1, <2>2 DEF Less
    <2>4. e.fnv \in Nat /\ y.fnv \in Nat
      BY <1>5, <1>8, <1>9, <2>1
    <2>5. \A m, n, o \in Nat : o <= m /\ m < n => o <= n
      OBVIOUS
    <2> QED BY <1>5, <2>3, <2>4, <2>5
  <1>12. j <= i => e.fnv < K[i]
    <2>1. j <= i => j < i \/ j = i
      BY <1>5, <1>8
    <2> QED BY <1>6, <1>8, <1>10, <2>1
  <1>13. i < j => K[i] <= e.fnv
    <2>1. i < j => i + 1 < j \/ j = i + 1
      BY <1>5, <1>8
    <2> QED BY <1>7, <1>8, <1>11, <2>1
  <1> QED BY <1>12, <1>13 DEF K

(* The new key parts the node that was split.                              *)
LEMMA SplitKeyed ==
    ASSUME NEW W, NEW u, NEW U, NEW k, NEW F, NEW q, NEW g, NEW n, NEW i, NEW s,
           Splitting(W, u, U, k, F, q, g, n, i, s),
           NEW V, NEW l, NEW D, SplitInto(W, u, U, k, F, q, g, n, V, l, D),
           \A e \in D[g] : e.fnv < s, \A e \in D[n] : s <= e.fnv
    PROVE  KeyedAt(u, D, q)
  <1> DEFINE c == W[q].child
             d == u[q].child
             L == Under(F, c)
             M == Under(D, d)
  <1>1. /\ Tree(W, U, k, F) /\ Heap(u) /\ Keyed(W, U, F) /\ s \in Nat /\ n \in DOMAIN u
        /\ q \in U /\ i \in 1 .. Len(c) /\ c[i] = g
        /\ d = InsertAt(c, i + 1, n) /\ u[q].key = InsertAt(W[q].key, i, s)
    BY DEF Splitting
  <1>2. /\ Tree(u, V, l, D) /\ V = U \cup {n} /\ q \in V
        /\ \A x \in U \ {g} : D[x] = F[x]
        /\ D[g] \cup D[n] = F[g]
    BY DEF SplitInto
  <1>3. ~W[q].leaf
    BY <1>1, ChildOf
  <1>4. Keys(W[q].key, L)
    <2>1. KeyedAt(W, F, q)
      BY <1>1, <1>3 DEF Keyed
    <2> QED BY <1>1, <2>1, KeysOf
  <1>5. c \in Seq(U) /\ d \in Seq(V)
    <2>1. c \in Seq(U)
      BY <1>1, Children DEF Tree
    <2>2. d \in Seq(V)
      BY <1>2, Children DEF Tree
    <2> QED BY <2>1, <2>2
  <1>6. \A a, b \in 1 .. Len(c) : c[a] = c[b] => a = b
    BY <1>1, Children DEF Tree
  <1> HIDE DEF c, d
  <1>7. /\ Len(d) = Len(c) + 1 /\ Len(c) \in Nat /\ i \in Nat /\ i + 1 \in 1 .. Len(d) /\ d[i + 1] = n
        /\ \A j \in 1 .. i : d[j] = c[j]
        /\ \A j \in i + 2 .. Len(c) + 1 : d[j] = c[j - 1]
    <2>1. U \subseteq V /\ n \in V
      BY <1>2
    <2>2. c \in Seq(V)
      BY <1>5, <2>1
    <2> QED BY <1>1, <2>1, <2>2, NextTo
  <1>8. /\ Len(L) = Len(c) /\ Len(M) = Len(d)
        /\ \A j \in 1 .. Len(c) : L[j] = F[c[j]]
        /\ \A j \in 1 .. Len(d) : M[j] = D[d[j]]
    BY <1>5 DEF Under
  <1> HIDE DEF L, M
  <1>9. ASSUME NEW j \in 1 .. Len(M)
        PROVE  /\ j <= i => M[j] \subseteq L[j]
               /\ i < j => M[j] \subseteq L[j - 1]
    <2>1. j \in 1 .. Len(d) /\ j \in Nat
      BY <1>7, <1>8
    <2>2. CASE j < i
      <3>1. j \in 1 .. i /\ j \in 1 .. Len(c) /\ j # i
        BY <1>1, <1>7, <2>1, <2>2
      <3>2. c[j] # g /\ c[j] \in U
        BY <1>1, <1>5, <1>6, <3>1
      <3>3. M[j] = L[j]
        BY <1>2, <1>7, <1>8, <2>1, <3>1, <3>2
      <3> QED BY <1>7, <2>1, <2>2, <3>3
    <2>3. CASE j = i
      <3>1. j \in 1 .. i /\ j \in 1 .. Len(c) /\ ~(i < j)
        BY <1>1, <1>7, <2>3
      <3>2. M[j] = D[g] /\ L[j] = F[g]
        BY <1>1, <1>7, <1>8, <2>1, <2>3, <3>1
      <3> QED BY <1>2, <3>1, <3>2
    <2>4. CASE j = i + 1
      <3>1. j - 1 = i /\ ~(j <= i) /\ i \in 1 .. Len(c)
        BY <1>1, <1>7, <2>4
      <3>2. M[j] = D[n] /\ L[j - 1] = F[g]
        BY <1>1, <1>7, <1>8, <2>1, <2>4, <3>1
      <3> QED BY <1>2, <3>1, <3>2
    <2>5. CASE i + 1 < j
      <3>1. j - 1 \in 1 .. Len(c) /\ j \in i + 2 .. Len(c) + 1 /\ j - 1 # i /\ ~(j <= i)
        BY <1>7, <2>1, <2>5
      <3>2. c[j - 1] # g /\ c[j - 1] \in U
        BY <1>1, <1>5, <1>6, <3>1
      <3>3. M[j] = L[j - 1]
        BY <1>2, <1>7, <1>8, <2>1, <3>1, <3>2
      <3> QED BY <3>1, <3>3
    <2>6. j < i \/ j = i \/ j = i + 1 \/ i + 1 < j
      BY <1>7, <2>1
    <2> QED BY <2>2, <2>3, <2>4, <2>5, <2>6
  <1>10. M[i] = D[g] /\ M[i + 1] = D[n]
    <2>1. i \in 1 .. i /\ i \in 1 .. Len(d)
      BY <1>1, <1>7
    <2> QED BY <1>1, <1>7, <1>8, <2>1
  <1>11. Parting(W[q].key, L, i, s, u[q].key, M)
    <2>1. i \in 1 .. Len(L) /\ Len(M) = Len(L) + 1
      BY <1>1, <1>7, <1>8
    <2>2. (\A e \in M[i] : e.fnv < s) /\ \A e \in M[i + 1] : s <= e.fnv
      BY <1>10
    <2> QED BY <1>1, <1>4, <1>9, <2>1, <2>2 DEF Parting
  <1>12. Keys(u[q].key, M)
    BY <1>11, KeyInserted
  <1> QED BY <1>2, <1>12, KeysOf DEF M, d

(* What a split leaves, but for q, which may be overfull.                  *)
SplitTo(W, u, U, k, F, q, g, n, V, l, D) ==
    /\ SplitInto(W, u, U, k, F, q, g, n, V, l, D)
    /\ Good(u, V, l, D, {q})

(* A full leaf is split.                                                   *)
LeafSplit(W, u, U, k, F, q, g, n, i, s) ==
    /\ Splitting(W, u, U, k, F, q, g, n, i, s) /\ Chained(W, U, F) /\ W[g].leaf
    /\ u[g].next = n /\ u[n].next = W[g].next
    /\ \A x \in U \ {g} : u[x].next = W[x].next
    /\ Len(u[g].item) = 2 /\ Len(u[n].item) = 2 /\ s = u[n].item[1].fnv

(* The same of a leaf, with keys, sizes and chain: only q, the parent, may *)
(* have become too large.                                                  *)
LEMMA LeafSplitGood ==
    ASSUME NEW W, NEW u, NEW U, NEW k, NEW F, NEW q, NEW g, NEW n, NEW i, NEW s,
           LeafSplit(W, u, U, k, F, q, g, n, i, s)
    PROVE  \E V, l, D : SplitTo(W, u, U, k, F, q, g, n, V, l, D)
  <1>1. /\ Splitting(W, u, U, k, F, q, g, n, i, s) /\ Chained(W, U, F) /\ W[g].leaf
        /\ u[g].next = n /\ u[n].next = W[g].next
        /\ \A x \in U \ {g} : u[x].next = W[x].next
        /\ Len(u[g].item) = 2 /\ Len(u[n].item) = 2 /\ s = u[n].item[1].fnv
    BY DEF LeafSplit
  <1>2. PICK V, l, D : SplitInto(W, u, U, k, F, q, g, n, V, l, D)
    BY <1>1, SplitShape
  <1>3. /\ Tree(W, U, k, F) /\ Heap(u) /\ DOMAIN W \subseteq DOMAIN u
        /\ n \in DOMAIN u /\ n \notin DOMAIN W /\ q \in U
        /\ u[g].leaf = W[g].leaf /\ u[n].leaf = W[g].leaf /\ ~u[q].leaf
        /\ u[g].item \o u[n].item = W[g].item
        /\ \A x \in U \ {g, q} : u[x].leaf = W[x].leaf
    BY <1>1 DEF Splitting
  <1>4. /\ V = U \cup {n} /\ Tree(u, V, l, D)
        /\ \A x \in U \ {g} : l[x] = k[x] /\ D[x] = F[x]
        /\ g # root /\ D[root] = F[root] /\ D[g] \cup D[n] = F[g]
        /\ g # q /\ g \in U /\ k[g] + 1 = k[q] /\ q \in V /\ n # q /\ n # g /\ n \notin U
        /\ \A x \in V \ {g, n, q} : (~u[x].leaf => KeyedAt(u, D, x)) /\ SizedAt(u, x)
    BY <1>2 DEF SplitInto
  <1>5. /\ W[g].item \in Seq(Entry)
        /\ \A a, b \in 1 .. Len(W[g].item) : a < b => W[g].item[a].fnv < W[g].item[b].fnv
    BY <1>1, <1>3, <1>4, LeafOf
  <1>6. u[g].item \in Seq(Entry) /\ D[g] = Members(u[g].item)
    <2>1. g \in V /\ u[g].leaf
      BY <1>1, <1>3, <1>4
    <2> QED BY <1>4, <2>1, LeafOf
  <1>7. /\ u[n].item \in Seq(Entry) /\ D[n] = Members(u[n].item)
        /\ \A a, b \in 1 .. Len(u[n].item) : a < b => u[n].item[a].fnv < u[n].item[b].fnv
    <2>1. n \in V /\ u[n].leaf
      BY <1>1, <1>3, <1>4
    <2> QED BY <1>4, <2>1, LeafOf
  <1>8. Less(D[g], D[n])
    <2> SUFFICES ASSUME NEW x \in D[g], NEW y \in D[n] PROVE x.fnv < y.fnv
      BY DEF Less
    <2> DEFINE I == u[g].item
               J == u[n].item
    <2>1. PICK a \in 1 .. Len(I) : x = I[a]
      BY <1>6 DEF Members
    <2>2. PICK b \in 1 .. Len(J) : y = J[b]
      BY <1>7 DEF Members
    <2>3. I \in Seq(Entry) /\ J \in Seq(Entry) /\ I \o J = W[g].item /\ Len(I) = 2 /\ Len(J) = 2
      BY <1>1, <1>3, <1>6, <1>7
    <2> HIDE DEF I, J
    <2>4. /\ Len(I \o J) = 4 /\ (I \o J)[a] = x
          /\ (I \o J)[2 + b] = y
      <3>1. Len(I \o J) = 4
        <4>1. Len(I \o J) = Len(I) + Len(J)
          BY <2>3, ConcatOf
        <4> QED BY <2>3, <4>1
      <3>2. (I \o J)[a] = I[a]
        BY <2>1, <2>3, ConcatOf
      <3>3. (I \o J)[Len(I) + b] = J[b]
        <4>1. I \in Seq(Entry) /\ J \in Seq(Entry)
          BY <2>3
        <4>2. \A j \in 1 .. Len(J) : (I \o J)[Len(I) + j] = J[j]
          BY <4>1, ConcatOf
        <4> QED BY <2>2, <4>2
      <3> QED BY <2>1, <2>2, <2>3, <3>1, <3>2, <3>3
    <2>5. a \in 1 .. 4 /\ 2 + b \in 1 .. 4 /\ a < 2 + b
      BY <2>1, <2>2, <2>3
    <2>6. a \in 1 .. Len(W[g].item) /\ 2 + b \in 1 .. Len(W[g].item)
          /\ W[g].item[a] = x /\ W[g].item[2 + b] = y
      BY <2>3, <2>4, <2>5
    <2> QED BY <1>5, <2>5, <2>6
  <1>9. s \in Nat /\ \A e \in D[n] : s <= e.fnv
    <2>1. 1 \in 1 .. Len(u[n].item)
      BY <1>1
    <2>2. u[n].item[1] \in Entry
      BY <1>7, <2>1
    <2>3. s \in Nat
      BY <1>1, <2>2 DEF Entry
    <2>4. ASSUME NEW e \in D[n] PROVE s <= e.fnv
      <3>1. PICK b \in 1 .. Len(u[n].item) : e = u[n].item[b]
        BY <1>7 DEF Members
      <3>2. b = 1 \/ 1 < b
        OBVIOUS
      <3>3. CASE b = 1
        BY <1>1, <2>3, <3>1, <3>3
      <3>4. CASE 1 < b
        <4>1. s < e.fnv
          BY <1>1, <1>7, <2>1, <3>1, <3>4
        <4>2. e.fnv \in Nat
          <5>1. e \in Entry
            BY <1>7, <3>1
          <5> QED BY <5>1 DEF Entry
        <4> QED BY <2>3, <4>1, <4>2
      <3> QED BY <3>2, <3>3, <3>4
    <2> QED BY <2>3, <2>4
  <1>10. \A e \in D[g] : e.fnv < s
    <2>1. 1 \in 1 .. Len(u[n].item)
      BY <1>1
    <2>2. u[n].item[1] \in D[n]
      BY <1>7, <2>1 DEF Members
    <2> QED BY <1>1, <1>8, <2>2 DEF Less
  <1>11. KeyedAt(u, D, q)
    BY <1>1, <1>2, <1>9, <1>10, SplitKeyed
  <1>12. u[g].leaf /\ u[n].leaf
    BY <1>1, <1>3
  <1>13. Keyed(u, V, D)
    <2> SUFFICES ASSUME NEW x \in V, ~u[x].leaf PROVE KeyedAt(u, D, x)
      BY DEF Keyed
    <2> QED BY <1>4, <1>11, <1>12
  <1>14. Sized(u, V, {q})
    <2> SUFFICES ASSUME NEW x \in V \ {q} PROVE SizedAt(u, x)
      BY DEF Sized
    <2>1. SizedAt(u, g) /\ SizedAt(u, n)
      BY <1>1, <1>12 DEF SizedAt, MAX_BPT_NODE_NUM
    <2> QED BY <1>4, <2>1
  <1> DEFINE Z == LeavesOf(W, U)
  <1>15. LeavesOf(u, V) = Z \cup {n} /\ g \in Z /\ n \notin Z /\ Z \subseteq U
    <2>1. ~W[q].leaf
      BY <1>1, <1>3, ChildOf DEF Splitting
    <2> QED BY <1>1, <1>3, <1>4, <1>12, <2>1 DEF LeavesOf
  <1>16. /\ \A x \in Z : D[x] \subseteq F[x]
         /\ D[n] \subseteq F[g]
    BY <1>4, <1>15
  <1>17. ASSUME NEW x \in Z PROVE ChainedAt(W, U, F, x)
    BY <1>1 DEF Chained
  <1>18. ASSUME NEW x \in Z, NEW y \in Z, Less(F[x], F[y])
         PROVE  /\ Less(D[x], D[y])
                /\ x = g => Less(D[n], D[y])
                /\ y = g => Less(D[x], D[n])
    BY <1>16, <1>18, LessPart
  <1>19. U \subseteq DOMAIN W /\ n # NULL
    <2>1. NULL \notin V /\ n \in V
      BY <1>4, TreeTypes
    <2> QED BY <1>3, <2>1, TreeTypes
  <1> HIDE DEF Z
  <1>20. ASSUME NEW x \in Z, x # g PROVE ChainedAt(u, V, D, x)
    <2> DEFINE y == W[x].next
    <2>1. /\ y \in DOMAIN W \cup {NULL}
          /\ y = NULL => \A b \in Z \ {x} : Less(F[b], F[x])
          /\ y \in U => /\ y \in Z \ {x} /\ Less(F[x], F[y])
                        /\ \A b \in Z \ {x, y} : Less(F[b], F[x]) \/ Less(F[y], F[b])
      BY <1>17 DEF ChainedAt, Z
    <2>2. u[x].next = y
      BY <1>1, <1>15, <1>20
    <2> HIDE DEF y
    <2>3. y = NULL => \A b \in (Z \cup {n}) \ {x} : Less(D[b], D[x])
      BY <1>15, <1>18, <1>20, <2>1
    <2>4. ASSUME y \in V
          PROVE  /\ y \in (Z \cup {n}) \ {x} /\ Less(D[x], D[y])
                 /\ \A b \in (Z \cup {n}) \ {x, y} : Less(D[b], D[x]) \/ Less(D[y], D[b])
      <3>1. y \in U /\ y # n
        BY <1>3, <1>4, <1>19, <2>1, <2>4
      <3>2. /\ y \in Z \ {x} /\ Less(F[x], F[y])
            /\ \A b \in Z \ {x, y} : Less(F[b], F[x]) \/ Less(F[y], F[b])
        BY <2>1, <3>1
      <3>3. Less(D[x], D[y])
        BY <1>18, <3>2
      <3>4. \A b \in Z \ {x, y} : Less(D[b], D[x]) \/ Less(D[y], D[b])
        BY <1>18, <3>2
      <3>5. Less(D[n], D[x]) \/ Less(D[y], D[n])
        <4>1. CASE y = g
          BY <1>8, <4>1
        <4>2. CASE y # g
          <5>1. Less(F[g], F[x]) \/ Less(F[y], F[g])
            BY <1>15, <1>20, <3>2, <4>2
          <5> QED BY <1>15, <1>18, <3>2, <5>1
        <4> QED BY <4>1, <4>2
      <3> QED BY <3>2, <3>3, <3>4, <3>5
    <2> QED BY <1>3, <1>15, <2>1, <2>2, <2>3, <2>4 DEF ChainedAt
  <1>21. ASSUME NEW b \in Z, b # g PROVE Less(D[b], D[g]) \/ Less(D[n], D[b])
    <2>1. b \in U /\ g \in U /\ k[b] = 0 /\ k[g] = 0
      <3>1. b \in U /\ g \in U /\ W[b].leaf
        BY <1>4, <1>15 DEF Z, LeavesOf
      <3> QED BY <1>1, <1>3, <3>1, LeafOf
    <2>2. Aside(F, b, g)
      BY <1>3, <1>21, <2>1, LevelOrder
    <2> QED BY <1>15, <1>18, <2>2 DEF Aside
  <1>22. ChainedAt(u, V, D, g)
    BY <1>1, <1>3, <1>4, <1>8, <1>15, <1>19, <1>21 DEF ChainedAt
  <1>23. ChainedAt(u, V, D, n)
    <2> DEFINE y == W[g].next
    <2>1. /\ y \in DOMAIN W \cup {NULL}
          /\ y = NULL => \A b \in Z \ {g} : Less(F[b], F[g])
          /\ y \in U => /\ y \in Z \ {g} /\ Less(F[g], F[y])
                        /\ \A b \in Z \ {g, y} : Less(F[b], F[g]) \/ Less(F[y], F[b])
      BY <1>15, <1>17 DEF ChainedAt, Z
    <2>2. u[n].next = y
      BY <1>1
    <2> HIDE DEF y
    <2>3. y = NULL => \A b \in (Z \cup {n}) \ {n} : Less(D[b], D[n])
      <3> SUFFICES ASSUME y = NULL, NEW b \in Z PROVE Less(D[b], D[n])
        OBVIOUS
      <3>1. CASE b = g
        BY <1>8, <3>1
      <3>2. CASE b # g
        <4>1. Less(F[b], F[g])
          BY <2>1, <3>2
        <4> QED BY <1>15, <1>18, <4>1
      <3> QED BY <3>1, <3>2
    <2>4. ASSUME y \in V
          PROVE  /\ y \in (Z \cup {n}) \ {n} /\ Less(D[n], D[y])
                 /\ \A b \in (Z \cup {n}) \ {n, y} : Less(D[b], D[n]) \/ Less(D[y], D[b])
      <3>1. y \in U /\ y # n
        BY <1>3, <1>4, <1>19, <2>1, <2>4
      <3>2. /\ y \in Z \ {g} /\ Less(F[g], F[y])
            /\ \A b \in Z \ {g, y} : Less(F[b], F[g]) \/ Less(F[y], F[b])
        BY <2>1, <3>1
      <3>3. Less(D[n], D[y])
        BY <1>15, <1>18, <3>2
      <3>4. ASSUME NEW b \in Z, b # y PROVE Less(D[b], D[n]) \/ Less(D[y], D[b])
        <4>1. CASE b = g
          BY <1>8, <4>1
        <4>2. CASE b # g
          <5>1. Less(F[b], F[g]) \/ Less(F[y], F[b])
            BY <3>2, <3>4, <4>2
          <5> QED BY <1>15, <1>18, <3>2, <5>1
        <4> QED BY <4>1, <4>2
      <3> QED BY <3>1, <3>2, <3>3, <3>4
    <2> QED BY <1>3, <1>15, <2>1, <2>2, <2>3, <2>4 DEF ChainedAt
  <1>24. \A x \in V : ~u[x].leaf => u[x].next = NULL
    <2> SUFFICES ASSUME NEW x \in V, ~u[x].leaf PROVE u[x].next = NULL
      OBVIOUS
    <2>1. x \in U /\ x # g
      BY <1>4, <1>12
    <2>2. ~W[x].leaf
      <3>1. ~W[q].leaf
        BY <1>1, <1>3, ChildOf DEF Splitting
      <3> QED BY <1>3, <2>1, <3>1
    <2> QED BY <1>1, <2>1, <2>2 DEF Chained
  <1>25. Chained(u, V, D)
    BY <1>15, <1>20, <1>22, <1>23, <1>24 DEF Chained
  <1>26. Good(u, V, l, D, {q})
    BY <1>4, <1>13, <1>14, <1>25 DEF Good, Tree
  <1> QED BY <1>2, <1>26 DEF SplitTo

(* A full inner node is split.                                             *)
InnerSplit(W, u, U, k, F, q, g, n, i, s) ==
    /\ Splitting(W, u, U, k, F, q, g, n, i, s) /\ Chained(W, U, F) /\ ~W[g].leaf
    /\ u[n].next = NULL /\ \A x \in U : u[x].next = W[x].next
    /\ Len(W[g].child) = 5 /\ Len(u[g].child) = 3 /\ Len(u[g].key) = 2 /\ Len(u[n].key) = 1
    /\ s = W[g].key[3] /\ u[g].key[1] = W[g].key[1] /\ u[g].key[2] = W[g].key[2]
    /\ u[n].key[1] = W[g].key[4]

(* The same of an inner node.                                              *)
LEMMA InnerSplitGood ==
    ASSUME NEW W, NEW u, NEW U, NEW k, NEW F, NEW q, NEW g, NEW n, NEW i, NEW s,
           InnerSplit(W, u, U, k, F, q, g, n, i, s)
    PROVE  \E V, l, D : SplitTo(W, u, U, k, F, q, g, n, V, l, D)
  <1> DEFINE c == W[g].child
             I == u[g].child
             J == u[n].child
             K == W[g].key
  <1>1. /\ Splitting(W, u, U, k, F, q, g, n, i, s) /\ Chained(W, U, F) /\ ~W[g].leaf
        /\ u[n].next = NULL /\ \A x \in U : u[x].next = W[x].next
        /\ Len(c) = 5 /\ Len(I) = 3 /\ Len(u[g].key) = 2 /\ Len(u[n].key) = 1
        /\ s = K[3] /\ u[g].key[1] = K[1] /\ u[g].key[2] = K[2]
        /\ u[n].key[1] = K[4]
    BY DEF InnerSplit
  <1>2. PICK V, l, D : SplitInto(W, u, U, k, F, q, g, n, V, l, D)
    BY <1>1, SplitShape
  <1>3. /\ Tree(W, U, k, F) /\ Keyed(W, U, F) /\ Heap(u) /\ DOMAIN W \subseteq DOMAIN u
        /\ n \in DOMAIN u /\ n \notin DOMAIN W /\ q \in U
        /\ u[g].leaf = W[g].leaf /\ u[n].leaf = W[g].leaf /\ ~u[q].leaf
        /\ I \o J = c
        /\ \A x \in U \ {g, q} : u[x].leaf = W[x].leaf
        /\ i \in 1 .. Len(W[q].child) /\ W[q].child[i] = g
    BY <1>1 DEF Splitting
  <1>4. /\ V = U \cup {n} /\ Tree(u, V, l, D)
        /\ \A x \in U \ {g} : l[x] = k[x] /\ D[x] = F[x]
        /\ g # root /\ D[root] = F[root] /\ D[g] \cup D[n] = F[g]
        /\ g # q /\ g \in U /\ k[g] + 1 = k[q] /\ q \in V /\ n # q /\ n # g /\ n \notin U
        /\ \A x \in V \ {g, n, q} : (~u[x].leaf => KeyedAt(u, D, x)) /\ SizedAt(u, x)
    BY <1>2 DEF SplitInto
  <1>5. ~u[g].leaf /\ ~u[n].leaf /\ g \in V /\ n \in V /\ ~W[q].leaf
    BY <1>1, <1>3, <1>4, ChildOf
  <1>6. KeyedAt(W, F, g) /\ Len(K) = 4
    <2>1. KeyedAt(W, F, g)
      BY <1>1, <1>3, <1>4 DEF Keyed
    <2>2. K \in Seq(Nat)
      <3>1. Heap(W) /\ g \in DOMAIN W
        BY <1>3, <1>4, TreeTypes
      <3> QED BY <3>1, NodeTypes
    <2>3. Len(W[g].key) + 1 = Len(W[g].child)
      BY <2>1 DEF KeyedAt
    <2>4. Len(K) + 1 = 5
      BY <1>1, <2>3
    <2>5. Len(K) \in Nat
      <3> HIDE DEF K
      <3> QED BY <2>2
    <2> HIDE DEF K
    <2>6. Len(K) = 4
      <3>1. \A a \in Nat : a + 1 = 5 => a = 4
        OBVIOUS
      <3> QED BY <2>4, <2>5, <3>1, Zenon
    <2> QED BY <2>1, <2>6
  <1>7. ASSUME NEW j \in 1 .. Len(c)
        PROVE  D[c[j]] = F[c[j]]
    <2>1. PICK y : y = W[g].child[j]
      OBVIOUS
    <2>2. y \in U /\ W[y].parent = g
      BY <1>3, <1>4, <2>1, ChildOf
    <2>3. W[g].parent = q
      BY <1>3, ChildOf
    <2>4. y # g
      BY <1>4, <2>2, <2>3
    <2> QED BY <1>4, <2>1, <2>2, <2>4
  <1>8. \A j \in 1 .. Len(c) : \A m \in 1 .. Len(K) : \A e \in D[c[j]] :
           (j <= m => e.fnv < K[m]) /\ (m < j => K[m] <= e.fnv)
    <2> SUFFICES ASSUME NEW j \in 1 .. Len(c), NEW m \in 1 .. Len(K), NEW e \in D[c[j]]
                 PROVE  (j <= m => e.fnv < K[m]) /\ (m < j => K[m] <= e.fnv)
      OBVIOUS
    <2>1. e \in F[W[g].child[j]]
      BY <1>7
    <2> QED BY <1>1, <1>3, <1>4, <1>6, <2>1, KeyBounds
  <1>9. I \in Seq(V) /\ J \in Seq(V) /\ D[g] = Whole(Under(D, I)) /\ D[n] = Whole(Under(D, J))
    <2>1. I \in Seq(V) /\ D[g] = Whole(Under(D, I))
      BY <1>4, <1>5, Children DEF Tree
    <2>2. J \in Seq(V) /\ D[n] = Whole(Under(D, J))
      BY <1>4, <1>5, Children DEF Tree
    <2> QED BY <2>1, <2>2
  <1> HIDE DEF I, J, c, K
  <1>10. /\ Len(J) = 2 /\ c[1] = I[1] /\ c[2] = I[2] /\ c[3] = I[3] /\ c[4] = J[1] /\ c[5] = J[2]
    <2>1. Len(I \o J) = Len(I) + Len(J)
      BY <1>9, ConcatOf
    <2>2. \A j \in 1 .. Len(I) : (I \o J)[j] = I[j]
      BY <1>9, ConcatOf
    <2>3. \A j \in 1 .. Len(J) : (I \o J)[Len(I) + j] = J[j]
      BY <1>9, ConcatOf
    <2>4. Len(J) \in Nat
      BY <1>9
    <2>5. Len(J) = 2
      <3>1. 5 = 3 + Len(J)
        BY <1>1, <1>3, <2>1
      <3>2. \A a \in Nat : 5 = 3 + a => a = 2
        OBVIOUS
      <3> QED BY <2>4, <3>1, <3>2, Zenon
    <2>6. 1 \in 1 .. Len(J) /\ 2 \in 1 .. Len(J) /\ Len(I) + 1 = 4 /\ Len(I) + 2 = 5
      BY <1>1, <2>5
    <2>7. c[4] = J[1] /\ c[5] = J[2]
      BY <1>3, <2>3, <2>6
    <2>8. 1 \in 1 .. Len(I) /\ 2 \in 1 .. Len(I) /\ 3 \in 1 .. Len(I)
      BY <1>1
    <2> QED BY <1>3, <2>2, <2>5, <2>7, <2>8
  <1>11. 1 \in 1 .. Len(c) /\ 2 \in 1 .. Len(c) /\ 3 \in 1 .. Len(c) /\ 4 \in 1 .. Len(c) /\ 5 \in 1 .. Len(c)
    BY <1>1
  <1>12. 1 \in 1 .. Len(K) /\ 2 \in 1 .. Len(K) /\ 3 \in 1 .. Len(K) /\ 4 \in 1 .. Len(K)
    BY <1>6
  <1>13. KeyedAt(u, D, g)
    <2>1. \A e \in D[I[1]] : e.fnv < K[1]
      BY <1>8, <1>10, <1>11, <1>12
    <2>2. \A e \in D[I[2]] : K[1] <= e.fnv /\ e.fnv < K[2]
      BY <1>8, <1>10, <1>11, <1>12
    <2>3. \A e \in D[I[3]] : K[2] <= e.fnv
      BY <1>8, <1>10, <1>11, <1>12
    <2>4. Len(u[g].key) + 1 = Len(I)
      BY <1>1
    <2>5. ASSUME NEW m \in 1 .. Len(u[g].key)
          PROVE  /\ \A x \in D[I[m]] : x.fnv < u[g].key[m]
                 /\ \A x \in D[I[m + 1]] : u[g].key[m] <= x.fnv
      <3>1. (m = 1 /\ m + 1 = 2) \/ (m = 2 /\ m + 1 = 3)
        BY <1>1
      <3>2. CASE m = 1 /\ m + 1 = 2
        BY <1>1, <2>1, <2>2, <3>2
      <3>3. CASE m = 2 /\ m + 1 = 3
        BY <1>1, <2>2, <2>3, <3>3
      <3> QED BY <3>1, <3>2, <3>3
    <2> QED BY <2>4, <2>5 DEF KeyedAt, I
  <1>14. KeyedAt(u, D, n)
    <2>1. \A e \in D[J[1]] : e.fnv < K[4]
      BY <1>8, <1>10, <1>11, <1>12
    <2>2. \A e \in D[J[2]] : K[4] <= e.fnv
      BY <1>8, <1>10, <1>11, <1>12
    <2>3. Len(u[n].key) + 1 = Len(J)
      BY <1>1, <1>10
    <2>4. ASSUME NEW m \in 1 .. Len(u[n].key)
          PROVE  /\ \A x \in D[J[m]] : x.fnv < u[n].key[m]
                 /\ \A x \in D[J[m + 1]] : u[n].key[m] <= x.fnv
      <3>1. m = 1 /\ m + 1 = 2
        BY <1>1
      <3> QED BY <1>1, <2>1, <2>2, <3>1
    <2> QED BY <2>3, <2>4 DEF KeyedAt, J
  <1>15. \A e \in D[g] : e.fnv < s
    <2> SUFFICES ASSUME NEW e \in D[g] PROVE e.fnv < s
      OBVIOUS
    <2>1. PICK j \in 1 .. Len(I) : e \in D[I[j]]
      <3>1. Len(Under(D, I)) = Len(I) /\ \A m \in 1 .. Len(I) : Under(D, I)[m] = D[I[m]]
        <4>1. D \in [V -> SUBSET Entry]
          BY <1>4, TreeTypes
        <4>2. Len(Under(D, I)) = Len(I)
          BY <1>9, <4>1, UnderOf
        <4>3. \A m \in 1 .. Len(I) : Under(D, I)[m] = D[I[m]]
          BY <1>9, <4>1, UnderOf
        <4> QED BY <4>2, <4>3
      <3>2. PICK m \in 1 .. Len(Under(D, I)) : e \in Under(D, I)[m]
        BY <1>9 DEF Whole
      <3> QED BY <3>1, <3>2
    <2>2. j \in 1 .. Len(c) /\ j <= 3 /\ I[j] = c[j]
      <3>1. j = 1 \/ j = 2 \/ j = 3
        BY <1>1, <2>1
      <3> QED BY <1>10, <1>11, <3>1
    <2> QED BY <1>1, <1>8, <1>12, <2>1, <2>2
  <1>16. \A e \in D[n] : s <= e.fnv
    <2> SUFFICES ASSUME NEW e \in D[n] PROVE s <= e.fnv
      OBVIOUS
    <2>1. PICK j \in 1 .. Len(J) : e \in D[J[j]]
      <3>1. Len(Under(D, J)) = Len(J) /\ \A m \in 1 .. Len(J) : Under(D, J)[m] = D[J[m]]
        <4>1. D \in [V -> SUBSET Entry]
          BY <1>4, TreeTypes
        <4>2. Len(Under(D, J)) = Len(J)
          BY <1>9, <4>1, UnderOf
        <4>3. \A m \in 1 .. Len(J) : Under(D, J)[m] = D[J[m]]
          BY <1>9, <4>1, UnderOf
        <4> QED BY <4>2, <4>3
      <3>2. PICK m \in 1 .. Len(Under(D, J)) : e \in Under(D, J)[m]
        BY <1>9 DEF Whole
      <3> QED BY <3>1, <3>2
    <2>2. \E m \in 1 .. Len(c) : 3 < m /\ J[j] = c[m]
      <3>1. j = 1 \/ j = 2
        BY <1>10, <2>1
      <3> QED BY <1>10, <1>11, <3>1
    <2> QED BY <1>1, <1>8, <1>12, <2>1, <2>2
  <1>17. KeyedAt(u, D, q)
    BY <1>1, <1>2, <1>15, <1>16, SplitKeyed
  <1>18. Keyed(u, V, D)
    BY <1>4, <1>13, <1>14, <1>17 DEF Keyed
  <1>19. Sized(u, V, {q})
    <2> SUFFICES ASSUME NEW x \in V \ {q} PROVE SizedAt(u, x)
      BY DEF Sized
    <2>1. SizedAt(u, g)
      <3>1. Len(u[g].child) = 3
        BY <1>1 DEF I
      <3> QED BY <1>5, <3>1 DEF SizedAt, MAX_BPT_NODE_NUM
    <2>2. SizedAt(u, n)
      <3>1. Len(u[n].child) = 2
        BY <1>10 DEF J
      <3> QED BY <1>5, <3>1 DEF SizedAt, MAX_BPT_NODE_NUM
    <2> QED BY <1>4, <2>1, <2>2
  <1>20. Chained(u, V, D)
    <2>1. LeavesOf(u, V) = LeavesOf(W, U) \cap V
      BY <1>1, <1>3, <1>4, <1>5 DEF LeavesOf
    <2>2. ASSUME NEW x \in LeavesOf(u, V)
          PROVE  /\ u[x].next = W[x].next
                 /\ W[x].next # NULL => W[x].next \in DOMAIN u
                 /\ W[x].next \in V => W[x].next \in U
                 /\ x # root => F[x] \cap D[x] # {}
      <3>1. x \in LeavesOf(W, U) /\ x \in U /\ W[x].leaf
        BY <2>1 DEF LeavesOf
      <3>2. ChainedAt(W, U, F, x)
        BY <1>1, <3>1 DEF Chained
      <3>3. W[x].next \in DOMAIN W \cup {NULL}
        BY <3>2 DEF ChainedAt
      <3>4. D[x] = F[x]
        BY <1>1, <1>4, <3>1
      <3>5. x # root => F[x] # {}
        BY <1>3, <3>1, ParentOf
      <3>6. NULL \notin V
        BY <1>4, TreeTypes
      <3> QED BY <1>1, <1>3, <1>4, <3>1, <3>3, <3>4, <3>5, <3>6
    <2>3. ASSUME NEW x \in V, ~u[x].leaf PROVE u[x].next = NULL
      <3>1. CASE x = n
        BY <1>1, <3>1
      <3>2. CASE x # n
        <4>1. x \in U /\ ~W[x].leaf
          BY <1>1, <1>3, <1>4, <1>5, <2>3, <3>2
        <4> QED BY <1>1, <4>1 DEF Chained
      <3> QED BY <3>1, <3>2
    <2>4. Chaining(W, u, U, k, F, V, l, D)
      BY <1>1, <1>3, <1>4, <2>1, <2>2, <2>3 DEF Chaining
    <2> QED BY <2>4, ChainKept
  <1>21. Good(u, V, l, D, {q})
    BY <1>4, <1>18, <1>19, <1>20 DEF Good, Tree
  <1> QED BY <1>2, <1>21 DEF SplitTo

(* A growing root: the new node has its keys, and no other node any new.   *)
Grown(t, u, T, h, E, n) ==
    /\ Growing(t, u, T, h, E, n) /\ DOMAIN t \subseteq DOMAIN u /\ n \notin DOMAIN t
    /\ Keyed(t, T, E) /\ Sized(t, T, {root}) /\ Chained(t, T, E)
    /\ u[n].key = t[root].key /\ u[n].next = NULL /\ u[root].key = <<>> /\ u[root].next = NULL
    /\ \A x \in T \ {root} : u[x].key = t[x].key /\ u[x].next = t[x].next

(* The tree that has grown.                                                *)
Higher(u, T, E, n, U, k, F) ==
    /\ U = T \cup {n} /\ Tree(u, U, k, F) /\ Keyed(u, U, F) /\ Sized(u, U, {n, root})
    /\ Chained(u, U, F) /\ F[root] = E[root]

(* The root hands what it has to a new node: all of the invariant, but for *)
(* the sizes of these two.                                                 *)
LEMMA GrowGood ==
    ASSUME NEW t, NEW u, NEW T, NEW h, NEW E, NEW n, Grown(t, u, T, h, E, n)
    PROVE  \E U, k, F : Higher(u, T, E, n, U, k, F)
  <1> PICK U : U = T \cup {n}
    OBVIOUS
  <1> PICK k : k = [x \in U |-> IF x = root THEN h[root] + 1 ELSE IF x = n THEN h[root] ELSE h[x]]
    OBVIOUS
  <1> PICK F : F = [x \in U |-> IF x = n THEN E[root] ELSE E[x]]
    OBVIOUS
  <1>1. /\ Growing(t, u, T, h, E, n) /\ DOMAIN t \subseteq DOMAIN u /\ n \notin DOMAIN t
        /\ Keyed(t, T, E) /\ Sized(t, T, {root}) /\ Chained(t, T, E)
        /\ u[n].key = t[root].key /\ u[n].next = NULL /\ u[root].key = <<>> /\ u[root].next = NULL
        /\ \A x \in T \ {root} : u[x].key = t[x].key /\ u[x].next = t[x].next
    BY DEF Grown
  <1>2. /\ Tree(t, T, h, E) /\ n \notin T
        /\ u[n].leaf = t[root].leaf /\ u[n].item = t[root].item /\ u[n].child = t[root].child
        /\ ~u[root].leaf /\ u[root].child = <<n>>
        /\ \A x \in T \ {root} :
              /\ u[x].leaf = t[x].leaf /\ u[x].item = t[x].item /\ u[x].child = t[x].child
    BY <1>1 DEF Growing
  <1>3. Tree(u, U, k, F)
    BY <1>1, GrowRoot
  <1>4. /\ T \subseteq DOMAIN t /\ root \in T /\ n # root /\ NULL \notin T
        /\ h \in [T -> Nat] /\ E \in [T -> SUBSET Entry]
    BY <1>2, TreeTypes
  <1>5. F[n] = E[root] /\ \A x \in T : F[x] = E[x]
    BY <1>2
  <1>6. F[root] = E[root]
    BY <1>4, <1>5
  <1>7. ASSUME NEW a \in T, NEW i \in 1 .. Len(t[a].child)
        PROVE  F[t[a].child[i]] \subseteq E[t[a].child[i]]
    <2>1. PICK c : c = t[a].child[i]
      OBVIOUS
    <2>2. c \in T
      BY <1>2, <2>1, ChildOf
    <2> QED BY <1>5, <2>1, <2>2
  <1>8. ASSUME NEW a \in U, ~u[a].leaf PROVE KeyedAt(u, F, a)
    <2>1. CASE a = root
      <3>1. u[a].key = <<>> /\ u[a].child = <<n>>
        BY <1>1, <1>2, <2>1
      <3>2. Len(u[a].key) = 0 /\ Len(u[a].child) = 1 /\ 0 + 1 = 1
        BY <3>1
      <3>3. \A i \in 1 .. Len(u[a].key) : FALSE
        BY <3>2
      <3> QED BY <3>2, <3>3 DEF KeyedAt
    <2>2. CASE a = n
      <3>1. KeyedAt(t, E, root) /\ t[root].key \in Seq(Nat)
        <4>1. KeyedAt(t, E, root)
          BY <1>1, <1>2, <1>4, <1>8, <2>2 DEF Keyed
        <4>2. Heap(t) /\ root \in DOMAIN t
          BY <1>2, TreeTypes
        <4> QED BY <4>1, <4>2, NodeTypes
      <3>2. /\ u[n].key = t[root].key /\ u[n].child = t[root].child
            /\ \A i \in 1 .. Len(t[root].child) : F[t[root].child[i]] \subseteq E[t[root].child[i]]
        BY <1>1, <1>2, <1>4, <1>7
      <3> DEFINE s == t[root].key
                 c == t[root].child
      <3>3. /\ Len(s) + 1 = Len(c)
            /\ \A i \in 1 .. Len(s) : /\ \A x \in E[c[i]] : x.fnv < s[i]
                                      /\ \A x \in E[c[i + 1]] : s[i] <= x.fnv
        BY <3>1 DEF KeyedAt
      <3>4. s \in Seq(Nat) /\ u[n].key = s /\ u[n].child = c
            /\ \A i \in 1 .. Len(c) : F[c[i]] \subseteq E[c[i]]
        BY <3>1, <3>2
      <3> HIDE DEF s, c
      <3>5. ASSUME NEW i \in 1 .. Len(s)
            PROVE  /\ \A x \in F[c[i]] : x.fnv < s[i]
                   /\ \A x \in F[c[i + 1]] : s[i] <= x.fnv
        <4>1. i \in 1 .. Len(c) /\ i + 1 \in 1 .. Len(c)
          BY <3>3, <3>4
        <4> QED BY <3>3, <3>4, <4>1
      <3> QED BY <2>2, <3>3, <3>4, <3>5 DEF KeyedAt
    <2>3. CASE a \in T \ {root}
      <3>1. KeyedAt(t, E, a) /\ t[a].key \in Seq(Nat)
        <4>1. KeyedAt(t, E, a)
          BY <1>1, <1>2, <1>8, <2>3 DEF Keyed
        <4>2. Heap(t) /\ a \in DOMAIN t
          BY <1>2, <1>4, <2>3, TreeTypes
        <4> QED BY <4>1, <4>2, NodeTypes
      <3>2. /\ u[a].key = t[a].key /\ u[a].child = t[a].child
            /\ \A i \in 1 .. Len(t[a].child) : F[t[a].child[i]] \subseteq E[t[a].child[i]]
        BY <1>1, <1>2, <1>7, <2>3
      <3> QED BY <3>1, <3>2, KeyedPart
    <2> QED BY <2>1, <2>2, <2>3
  <1>9. Sized(u, U, {n, root})
    <2> SUFFICES ASSUME NEW x \in U \ {n, root} PROVE SizedAt(u, x)
      BY DEF Sized
    <2>1. SizedAt(t, x)
      BY <1>1 DEF Sized
    <2> QED BY <1>2, <2>1 DEF SizedAt
  <1>10. Chained(u, U, F)
    <2>1. CASE ~t[root].leaf
      <3>1. LeavesOf(u, U) = LeavesOf(t, T) \cap U
        BY <1>2, <1>4, <2>1 DEF LeavesOf
      <3>2. ASSUME NEW x \in LeavesOf(u, U)
            PROVE  /\ u[x].next = t[x].next
                   /\ t[x].next # NULL => t[x].next \in DOMAIN u
                   /\ t[x].next \in U => t[x].next \in T
                   /\ x # root => E[x] \cap F[x] # {}
        <4>1. x \in LeavesOf(t, T) /\ x \in T \ {root}
          BY <1>2, <2>1, <3>1 DEF LeavesOf
        <4>2. t[x].next \in DOMAIN t \cup {NULL}
          BY <1>1, <4>1 DEF Chained, ChainedAt
        <4>3. E[x] # {} /\ F[x] = E[x]
          BY <1>2, <1>5, <4>1, ParentOf
        <4>4. NULL \notin U
          BY <1>3, TreeTypes
        <4> QED BY <1>1, <4>1, <4>2, <4>3, <4>4
      <3>3. \A x \in U : ~u[x].leaf => u[x].next = NULL
        BY <1>1, <1>2 DEF Chained
      <3>4. Tree(t, T, h, E) /\ Chained(t, T, E)
        BY <1>1, <1>2
      <3>5. Chaining(t, u, T, h, E, U, k, F)
        BY <1>3, <3>1, <3>2, <3>3, <3>4 DEF Chaining
      <3> QED BY <3>5, ChainKept
    <2>2. CASE t[root].leaf
      <3>1. T = {root}
        <4> SUFFICES ASSUME NEW x \in T, x # root PROVE FALSE
          BY <1>4
        <4>1. h[x] < h[root] /\ h[x] \in Nat
          BY <1>2, ParentOf
        <4>2. h[root] = 0
          BY <1>2, <1>4, <2>2, LeafOf
        <4> QED BY <4>1, <4>2
      <3>2. LeavesOf(u, U) = {n}
        BY <1>2, <2>2, <3>1 DEF LeavesOf
      <3>3. ChainedAt(u, U, F, n)
        <4>1. NULL \notin U
          BY <1>3, TreeTypes
        <4> QED BY <1>1, <3>2, <4>1 DEF ChainedAt
      <3>4. \A x \in U : ~u[x].leaf => u[x].next = NULL
        BY <1>1, <3>1
      <3> QED BY <3>2, <3>3, <3>4 DEF Chained
    <2> QED BY <2>1, <2>2
  <1> QED BY <1>3, <1>6, <1>8, <1>9, <1>10 DEF Keyed, Higher
=============================================================================
