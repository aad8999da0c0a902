---------------------------- MODULE BPTreeProofs ----------------------------
(***************************************************************************)
(* The B+ tree is right, for all names, values and addresses of nodes.     *)
(* Each operator of the model is shown to make a change of BPTreeLemmas;   *)
(* the loops that go up the tree, add_parent and balance_inner, are        *)
(* followed call by call, with what the next call is to repair.            *)
(***************************************************************************)
EXTENDS BPTreeLemmas

(* The node create_node gives.                                             *)
LEMMA EmptyNodeIs ==
    ASSUME NEW l \in BOOLEAN
    PROVE  /\ EmptyNode(l) \in Node /\ EmptyNode(l).leaf = l
           /\ EmptyNode(l).item = <<>> /\ EmptyNode(l).key = <<>> /\ EmptyNode(l).child = <<>>
           /\ EmptyNode(l).parent = NULL /\ EmptyNode(l).next = NULL
  BY DEF EmptyNode, Node, NULL

(* A node from the heap.                                                   *)
LEMMA FreshNode ==
    ASSUME NEW t, Heap(t), Available(t) # {}, NEW n, n = create_node(t)
    PROVE  n \in Pool /\ n \notin DOMAIN t /\ n # root /\ n # NULL /\ n \in Nat
  <1>1. Available(t) \subseteq Nat
    BY BPTreeAssumption DEF Available
  <1>2. n \in Available(t)
    <2> PICK S : S = Available(t)
      OBVIOUS
    <2>1. Min(S) \in S
      BY <1>1, MinOf
    <2> QED BY <2>1 DEF create_node
  <1> QED BY <1>2, BPTreeAssumption DEF Available, root, NULL

(* A heap with one node more, or another at a.                             *)
Added(t, u, a, w) ==
    /\ Heap(u) /\ DOMAIN u = DOMAIN t \cup {a} /\ u[a] = w
    /\ \A x \in DOMAIN t : x # a => u[x] = t[x]

(* A node is put at an address.                                            *)
LEMMA WithOf ==
    ASSUME NEW t, Heap(t), NEW a \in Pool \cup {root}, NEW w \in Node, NEW u, u = With(t, a, w)
    PROVE  Added(t, u, a, w)
  <1>1. /\ DOMAIN u = DOMAIN t \cup {a} /\ u[a] = w
        /\ \A x \in DOMAIN t : x # a => u[x] = t[x]
        /\ u = [x \in DOMAIN u |-> u[x]]
    BY DEF With
  <1>2. IsFiniteSet(DOMAIN u)
    BY <1>1, FS_AddElement DEF Heap
  <1>3. \A x \in DOMAIN u : u[x] \in Node
    BY <1>1 DEF Heap
  <1>4. u \in [DOMAIN u -> Node]
    BY <1>1, <1>3
  <1>5. Heap(u)
    BY <1>1, <1>2, <1>4 DEF Heap
  <1> QED BY <1>1, <1>5 DEF Added

(* What put_inner leaves.                                                  *)
Put(t, u, a, keys, children) ==
    /\ Heap(u) /\ DOMAIN u = DOMAIN t
    /\ ~u[a].leaf /\ u[a].item = <<>> /\ u[a].key = keys /\ u[a].child = children
    /\ \A x \in DOMAIN t :
          /\ u[x].next = t[x].next
          /\ x \in Members(children) => u[x].parent = a
          /\ x \notin Members(children) => u[x].parent = t[x].parent
          /\ x # a => /\ u[x].leaf = t[x].leaf /\ u[x].item = t[x].item
                      /\ u[x].key = t[x].key /\ u[x].child = t[x].child

(* SetParents changes the parent pointers of the nodes S.                  *)
LEMMA SetParentsOf ==
    ASSUME NEW t, Heap(t), NEW S, NEW p \in Nat, NEW u, u = SetParents(t, S, p)
    PROVE  /\ Heap(u) /\ DOMAIN u = DOMAIN t
           /\ \A x \in DOMAIN t :
                 /\ u[x].leaf = t[x].leaf /\ u[x].item = t[x].item /\ u[x].key = t[x].key
                 /\ u[x].child = t[x].child /\ u[x].next = t[x].next
                 /\ x \in S => u[x].parent = p
                 /\ x \notin S => u[x].parent = t[x].parent
  <1>1. DOMAIN u = DOMAIN t /\ u = [x \in DOMAIN t |-> u[x]]
    BY DEF SetParents
  <1>2. ASSUME NEW x \in DOMAIN t
        PROVE  /\ u[x] \in Node
               /\ u[x].leaf = t[x].leaf /\ u[x].item = t[x].item /\ u[x].key = t[x].key
               /\ u[x].child = t[x].child /\ u[x].next = t[x].next
               /\ x \in S => u[x].parent = p
               /\ x \notin S => u[x].parent = t[x].parent
    <2>1. t[x] \in Node
      BY DEF Heap
    <2>2. CASE x \in S
      <3>1. u[x] = [t[x] EXCEPT !.parent = p]
        BY <2>2 DEF SetParents
      <3> QED BY <2>1, <2>2, <3>1 DEF Node
    <2>3. CASE x \notin S
      <3>1. u[x] = t[x]
        BY <2>3 DEF SetParents
      <3> QED BY <2>1, <2>3, <3>1
    <2> QED BY <2>2, <2>3
  <1>3. u \in [DOMAIN t -> Node]
    BY <1>1, <1>2
  <1> QED BY <1>1, <1>2, <1>3 DEF Heap

(* A node is filled.                                                       *)
Filled(t, a, keys, children) ==
    [t EXCEPT ![a].leaf = FALSE, ![a].item = <<>>, ![a].key = keys, ![a].child = children]

(* An inner node is given keys and children.                               *)
LEMMA FilledOf ==
    ASSUME NEW t, Heap(t), NEW a \in DOMAIN t, NEW keys \in Seq(Nat), NEW children \in Seq(Nat),
           NEW u, u = Filled(t, a, keys, children)
    PROVE  /\ Heap(u) /\ DOMAIN u = DOMAIN t
           /\ ~u[a].leaf /\ u[a].item = <<>> /\ u[a].key = keys /\ u[a].child = children
           /\ u[a].parent = t[a].parent /\ u[a].next = t[a].next
           /\ \A x \in DOMAIN t : x # a => u[x] = t[x]
  <1>1. t[a] \in Node /\ t \in [DOMAIN t -> Node]
    BY DEF Heap
  <1>2. PICK w : w = [t[a] EXCEPT !.leaf = FALSE, !.item = <<>>, !.key = keys, !.child = children]
    OBVIOUS
  <1>3. /\ w \in Node /\ ~w.leaf /\ w.item = <<>> /\ w.key = keys /\ w.child = children
        /\ w.parent = t[a].parent /\ w.next = t[a].next
    <2>1. PICK z \in Node : z = t[a]
      BY <1>1
    <2>2. /\ ~w.leaf /\ w.item = <<>> /\ w.key = keys /\ w.child = children
          /\ w.parent = z.parent /\ w.next = z.next
      BY <1>2, <2>1 DEF Node
    <2>3. <<>> \in Seq(Entry) /\ FALSE \in BOOLEAN
      OBVIOUS
    <2>4. w = [leaf |-> FALSE, item |-> <<>>, key |-> keys, child |-> children,
               parent |-> z.parent, next |-> z.next]
      BY <1>2, <2>1 DEF Node
    <2>5. z.parent \in Nat /\ z.next \in Nat
      BY DEF Node
    <2>6. w \in Node
      BY <2>3, <2>4, <2>5 DEF Node
    <2> QED BY <2>1, <2>2, <2>6
  <1>4. u = [t EXCEPT ![a] = w]
    BY <1>1, <1>2 DEF Filled, Node
  <1>5. DOMAIN u = DOMAIN t /\ u[a] = w /\ \A x \in DOMAIN t : x # a => u[x] = t[x]
    BY <1>1, <1>4
  <1>6. u \in [DOMAIN t -> Node]
    BY <1>1, <1>3, <1>4
  <1> QED BY <1>3, <1>5, <1>6 DEF Heap

(* put_inner gives keys and children to a node, and the children their     *)
(* parent.                                                                 *)
LEMMA PutInnerOf ==
    ASSUME NEW t, Heap(t), NEW a \in DOMAIN t, NEW keys \in Seq(Nat), NEW children \in Seq(Nat),
           NEW u, u = put_inner(t, a, keys, children)
    PROVE  Put(t, u, a, keys, children)
  <1>1. PICK v : v = Filled(t, a, keys, children)
    OBVIOUS
  <1>2. /\ Heap(v) /\ DOMAIN v = DOMAIN t
        /\ ~v[a].leaf /\ v[a].item = <<>> /\ v[a].key = keys /\ v[a].child = children
        /\ v[a].parent = t[a].parent /\ v[a].next = t[a].next
        /\ \A x \in DOMAIN t : x # a => v[x] = t[x]
    BY <1>1, FilledOf
  <1>3. u = SetParents(v, ToSet(children), a)
    BY <1>1 DEF put_inner, Filled
  <1>4. ToSet(children) = Members(children)
    BY ToSetOf
  <1>5. a \in Nat
    BY BPTreeAssumption DEF Heap, root
  <1>6. /\ Heap(u) /\ DOMAIN u = DOMAIN v
        /\ \A x \in DOMAIN v :
              /\ u[x].leaf = v[x].leaf /\ u[x].item = v[x].item /\ u[x].key = v[x].key
              /\ u[x].child = v[x].child /\ u[x].next = v[x].next
              /\ x \in Members(children) => u[x].parent = a
              /\ x \notin Members(children) => u[x].parent = v[x].parent
    <2> PICK S : S = Members(children)
      OBVIOUS
    <2>1. u = SetParents(v, S, a)
      BY <1>3, <1>4
    <2> QED BY <1>2, <1>5, <2>1, SetParentsOf
  <1>7. ASSUME NEW x \in DOMAIN t
        PROVE  v[x].next = t[x].next /\ v[x].parent = t[x].parent
    BY <1>2
  <1> QED BY <1>2, <1>6, <1>7 DEF Put

(* A freed node.                                                           *)
LEMMA FreeOf ==
    ASSUME NEW t, Heap(t), NEW a, a # root, NEW u, u = heap_free(t, a)
    PROVE  /\ Heap(u) /\ DOMAIN u = DOMAIN t \ {a}
           /\ \A x \in DOMAIN t : x # a => u[x] = t[x]
  <1>1. /\ DOMAIN u = DOMAIN t \ {a} /\ u = [x \in DOMAIN u |-> u[x]]
        /\ \A x \in DOMAIN t : x # a => u[x] = t[x]
    BY DEF heap_free
  <1>2. IsFiniteSet(DOMAIN u)
    BY <1>1, FS_Subset DEF Heap
  <1>3. u \in [DOMAIN u -> Node]
    BY <1>1 DEF Heap
  <1> QED BY <1>1, <1>2, <1>3 DEF Heap

-----------------------------------------------------------------------------
(***************************************************************************)
(* Insertion: the halves of a node, and one call of add_parent.            *)
(***************************************************************************)

(* An overfull node's keys and children are cut.                           *)
Cut(keys, children, I, J, K, L) ==
    /\ I \in Seq(Nat) /\ J \in Seq(Nat) /\ K \in Seq(Nat) /\ L \in Seq(Nat)
    /\ I \o J = children /\ Len(I) = 3 /\ Len(J) = 2 /\ Len(K) = 2 /\ Len(L) = 1
    /\ K[1] = keys[1] /\ K[2] = keys[2] /\ L[1] = keys[4]

(* Four keys and five children are cut around the third key.               *)
LEMMA CutOf ==
    ASSUME NEW keys \in Seq(Nat), Len(keys) = 4, NEW children \in Seq(Nat), Len(children) = 5
    PROVE  /\ Cut(keys, children, Taken(children, Len(keys) \div 2 + 1),
                  Left(children, Len(keys) \div 2 + 1), LeftKeys(keys), RightKeys(keys))
           /\ Middle(keys) = keys[3] /\ keys[3] \in Nat
  <1>1. PICK S : S = Nat
    OBVIOUS
  <1>2. /\ Len(keys) \div 2 = 2 /\ 2 + 1 = 3 /\ 3 + 1 = 4 /\ 5 - 3 = 2 /\ 4 - 3 = 1 /\ 3 + 2 = 5
        /\ 2 \in 0 .. Len(keys) /\ 3 \in 0 .. Len(keys) /\ 3 \in 0 .. Len(children)
        /\ 1 \in 1 .. 2 /\ 2 \in 1 .. 2 /\ 1 \in 1 .. 1
    OBVIOUS
  <1>3. PICK I : I = SubSeq(children, 1, 3)
    OBVIOUS
  <1>4. PICK J : J = SubSeq(children, 3 + 1, Len(children))
    OBVIOUS
  <1>5. PICK K : K = SubSeq(keys, 1, 2)
    OBVIOUS
  <1>6. PICK L : L = SubSeq(keys, 3 + 1, Len(keys))
    OBVIOUS
  <1>7. /\ I \in Seq(S) /\ Len(I) = 3 /\ \A i \in 1 .. 3 : I[i] = children[i]
        /\ J \in Seq(S) /\ Len(J) = 5 - 3 /\ \A i \in 1 .. 5 - 3 : J[i] = children[3 + i]
    <2>1. children \in Seq(S)
      BY <1>1
    <2>2. I \in Seq(S) /\ Len(I) = 3 /\ \A i \in 1 .. 3 : I[i] = children[i]
      BY <1>2, <1>3, <2>1, Slices
    <2>3. J \in Seq(S)
      BY <1>2, <1>4, <2>1, Slices
    <2>4. Len(J) = Len(children) - 3
      BY <1>2, <1>4, <2>1, Slices
    <2>5. \A i \in 1 .. Len(children) - 3 : J[i] = children[3 + i]
      BY <1>2, <1>4, <2>1, Slices
    <2> QED BY <2>2, <2>3, <2>4, <2>5
  <1>8. /\ K \in Seq(S) /\ Len(K) = 2 /\ \A i \in 1 .. 2 : K[i] = keys[i]
        /\ L \in Seq(S) /\ Len(L) = 4 - 3 /\ \A i \in 1 .. 4 - 3 : L[i] = keys[3 + i]
    <2>1. keys \in Seq(S)
      BY <1>1
    <2>2. K \in Seq(S) /\ Len(K) = 2 /\ \A i \in 1 .. 2 : K[i] = keys[i]
      BY <1>2, <1>5, <2>1, Slices
    <2>3. L \in Seq(S)
      BY <1>2, <1>6, <2>1, Slices
    <2>4. Len(L) = Len(keys) - 3
      BY <1>2, <1>6, <2>1, Slices
    <2>5. \A i \in 1 .. Len(keys) - 3 : L[i] = keys[3 + i]
      BY <1>2, <1>6, <2>1, Slices
    <2> QED BY <2>2, <2>3, <2>4, <2>5
  <1>9. I \o J = children
    <2>1. I \in Seq(S) /\ J \in Seq(S)
      BY <1>7
    <2>2. I \o J \in Seq(S) /\ Len(I \o J) = Len(I) + Len(J)
      BY <2>1, ConcatOf
    <2>3. \A i \in 1 .. Len(I) : (I \o J)[i] = I[i]
      BY <2>1, ConcatOf
    <2>4. \A i \in 1 .. Len(J) : (I \o J)[Len(I) + i] = J[i]
      BY <2>1, ConcatOf
    <2>5. Len(I \o J) = 5
      BY <1>7, <2>2
    <2>6. ASSUME NEW i \in 1 .. 5 PROVE (I \o J)[i] = children[i]
      <3>1. i \in 1 .. 3 \/ i - 3 \in 1 .. 2
        OBVIOUS
      <3>2. CASE i \in 1 .. 3
        BY <1>7, <2>3, <3>2
      <3>3. CASE i - 3 \in 1 .. 2
        <4>1. PICK j \in 1 .. 2 : j = i - 3
          BY <3>3
        <4>2. i = 3 + j
          BY <4>1
        <4> QED BY <1>2, <1>7, <2>4, <4>2, ZenonT(30)
      <3> QED BY <3>1, <3>2, <3>3
    <2>7. children \in Seq(S)
      BY <1>1
    <2> QED BY <2>2, <2>5, <2>6, <2>7, SameList
  <1>10. K[1] = keys[1] /\ K[2] = keys[2] /\ L[1] = keys[4]
    BY <1>2, <1>8
  <1>11. Cut(keys, children, I, J, K, L)
    BY <1>1, <1>2, <1>7, <1>8, <1>9, <1>10 DEF Cut
  <1>12. /\ I = Taken(children, Len(keys) \div 2 + 1) /\ J = Left(children, Len(keys) \div 2 + 1)
         /\ K = LeftKeys(keys) /\ L = RightKeys(keys) /\ Middle(keys) = keys[3]
    <2>1. I = Taken(children, Len(keys) \div 2 + 1)
      BY <1>2, <1>3 DEF Taken
    <2>2. J = Left(children, Len(keys) \div 2 + 1)
      BY <1>2, <1>4 DEF Left
    <2>3. K = LeftKeys(keys)
      BY <1>2, <1>5 DEF LeftKeys, Taken
    <2>4. L = RightKeys(keys)
      BY <1>2, <1>6 DEF RightKeys, Left
    <2>5. Middle(keys) = keys[3]
      BY <1>2 DEF Middle
    <2> QED BY <2>1, <2>2, <2>3, <2>4, <2>5
  <1>13. keys[3] \in Nat
    <2>1. 3 \in 1 .. Len(keys)
      OBVIOUS
    <2>2. keys \in Seq(S)
      BY <1>1
    <2>3. keys[3] \in S
      BY <2>1, <2>2, ElementOfSeq
    <2> QED BY <1>1, <2>3
  <1> QED BY <1>11, <1>12, <1>13, Zenon

(* Two nodes take a half each.                                             *)
Halved(t, v, a, n, keys, children, I, J) ==
    /\ Heap(v) /\ DOMAIN v = DOMAIN t
    /\ ~v[a].leaf /\ v[a].item = <<>> /\ v[a].child = I
    /\ ~v[n].leaf /\ v[n].item = <<>> /\ v[n].child = J
    /\ Len(v[a].key) = 2 /\ v[a].key[1] = keys[1] /\ v[a].key[2] = keys[2]
    /\ Len(v[n].key) = 1 /\ v[n].key[1] = keys[4]
    /\ I \in Seq(Nat) /\ J \in Seq(Nat) /\ I \o J = children /\ Len(I) = 3 /\ Len(J) = 2
    /\ \A x \in DOMAIN t :
          /\ v[x].next = t[x].next
          /\ x \in Members(I) => v[x].parent = a
          /\ x \in Members(J) => v[x].parent = n
          /\ x \notin Members(children) => v[x].parent = t[x].parent
          /\ x \notin {a, n} => /\ v[x].leaf = t[x].leaf /\ v[x].item = t[x].item
                                /\ v[x].key = t[x].key /\ v[x].child = t[x].child

(* The halves of an overfull inner node in two nodes.                      *)
LEMMA HalvesOf ==
    ASSUME NEW t, Heap(t), NEW a \in DOMAIN t, NEW n \in DOMAIN t, a # n,
           NEW keys \in Seq(Nat), Len(keys) = 4, NEW children \in Seq(Nat), Len(children) = 5,
           Distinct(children), NEW cut, cut = Len(keys) \div 2 + 1,
           NEW v, v = put_inner(put_inner(t, a, LeftKeys(keys), Taken(children, cut)),
                                n, RightKeys(keys), Left(children, cut))
    PROVE  \E I, J : Halved(t, v, a, n, keys, children, I, J)
  <1>1. PICK I, J, K, L : /\ I = Taken(children, cut) /\ J = Left(children, cut)
                          /\ K = LeftKeys(keys) /\ L = RightKeys(keys)
    OBVIOUS
  <1>2. Cut(keys, children, I, J, K, L)
    BY <1>1, CutOf
  <1>3. /\ I \in Seq(Nat) /\ J \in Seq(Nat) /\ K \in Seq(Nat) /\ L \in Seq(Nat)
        /\ I \o J = children /\ Len(I) = 3 /\ Len(J) = 2 /\ Len(K) = 2 /\ Len(L) = 1
        /\ K[1] = keys[1] /\ K[2] = keys[2] /\ L[1] = keys[4]
    BY <1>2 DEF Cut
  <1>4. PICK w : w = put_inner(t, a, K, I)
    OBVIOUS
  <1>5. v = put_inner(w, n, L, J)
    BY <1>1, <1>4
  <1>6. Put(t, w, a, K, I)
    BY <1>3, <1>4, PutInnerOf
  <1>7. Heap(w) /\ DOMAIN w = DOMAIN t
    BY <1>6 DEF Put
  <1>8. Put(w, v, n, L, J)
    BY <1>3, <1>5, <1>7, PutInnerOf
  <1>9. /\ ~w[a].leaf /\ w[a].item = <<>> /\ w[a].key = K /\ w[a].child = I
        /\ \A x \in DOMAIN t :
              /\ w[x].next = t[x].next
              /\ x \in Members(I) => w[x].parent = a
              /\ x \notin Members(I) => w[x].parent = t[x].parent
              /\ x # a => /\ w[x].leaf = t[x].leaf /\ w[x].item = t[x].item
                          /\ w[x].key = t[x].key /\ w[x].child = t[x].child
    BY <1>6 DEF Put
  <1>10. /\ Heap(v) /\ DOMAIN v = DOMAIN t
         /\ ~v[n].leaf /\ v[n].item = <<>> /\ v[n].key = L /\ v[n].child = J
         /\ \A x \in DOMAIN t :
              /\ v[x].next = w[x].next
              /\ x \in Members(J) => v[x].parent = n
              /\ x \notin Members(J) => v[x].parent = w[x].parent
              /\ x # n => /\ v[x].leaf = w[x].leaf /\ v[x].item = w[x].item
                          /\ v[x].key = w[x].key /\ v[x].child = w[x].child
    BY <1>7, <1>8 DEF Put
  <1>11. \A x \in Members(I) : x \notin Members(J)
    <2> PICK S : S = Nat
      OBVIOUS
    <2>1. I \in Seq(S) /\ J \in Seq(S) /\ children = I \o J
      BY <1>3
    <2> QED BY <2>1, ApartConcat
  <1>12. Members(children) = Members(I) \cup Members(J)
    BY <1>3, MembersConcat, ZenonT(30)
  <1>13. /\ ~v[a].leaf /\ v[a].item = <<>> /\ v[a].key = K /\ v[a].child = I
    BY <1>9, <1>10
  <1>14. ASSUME NEW x \in DOMAIN t
         PROVE  /\ v[x].next = t[x].next
                /\ x \in Members(I) => v[x].parent = a
                /\ x \in Members(J) => v[x].parent = n
                /\ x \notin Members(children) => v[x].parent = t[x].parent
                /\ x \notin {a, n} => /\ v[x].leaf = t[x].leaf /\ v[x].item = t[x].item
                                      /\ v[x].key = t[x].key /\ v[x].child = t[x].child
    BY <1>9, <1>10, <1>11, <1>12
  <1>15. Halved(t, v, a, n, keys, children, I, J)
    BY <1>3, <1>10, <1>13, <1>14 DEF Halved
  <1> QED BY <1>15

(* A node was split: left has what it keeps, b what it does not, and b is  *)
(* not yet a child of their parent p.  In V it is.                         *)
Pending(m, left, sep, b, V, U, k, F, p, i) ==
    /\ Losing(V, m, U, k, F, p, i, b, sep)
    /\ Keyed(V, U, F) /\ Sized(V, U, {p}) /\ SizedAt(m, p) /\ Chained(V, U, F)
    /\ left # NULL /\ left = m[p].child[i]

(* How V differs from m.                                                   *)
PendingTo(m, left, V, U, k, F, p, i, keys, children) ==
    /\ Tree(V, U, k, F) /\ Heap(m) /\ DOMAIN m = DOMAIN V
    /\ p \in U /\ p \in DOMAIN m /\ p # NULL /\ ~m[p].leaf /\ ~V[p].leaf /\ V[p].item = <<>>
    /\ left \in U /\ left # p /\ m[left].parent = p /\ IndexOf(m[p].child, left) = i
    /\ k[left] + 1 = k[p] /\ k[left] \in Nat /\ k[left] < k[root]
    /\ V[p].key = keys /\ V[p].child = children /\ V[p].next = m[p].next
    /\ V[p].parent = m[p].parent /\ \A x \in U \ {p} : m[x] = V[x]
    /\ keys \in Seq(Nat) /\ children \in Seq(Nat) /\ Distinct(children)
    /\ Len(keys) \in 2 .. 4 /\ Len(keys) + 1 = Len(children)
    /\ \A x \in Members(children) : x \in U /\ x # root /\ x # p /\ V[x].parent = p

(* Keys and children of a parent that is to receive a node: in order, but  *)
(* too many.                                                               *)
LEMMA PendingOf ==
    ASSUME NEW m, NEW left, NEW sep, NEW b, NEW V, NEW U, NEW k, NEW F, NEW p, NEW i,
           Pending(m, left, sep, b, V, U, k, F, p, i),
           NEW keys, keys = InsertAt(m[p].key, i, sep),
           NEW children, children = InsertAt(m[p].child, i + 1, b)
    PROVE  PendingTo(m, left, V, U, k, F, p, i, keys, children)
  <1>1. /\ Losing(V, m, U, k, F, p, i, b, sep) /\ Keyed(V, U, F) /\ SizedAt(m, p)
        /\ left # NULL /\ left = m[p].child[i]
    BY DEF Pending
  <1>2. /\ Tree(V, U, k, F) /\ Heap(m) /\ DOMAIN m = DOMAIN V /\ p \in U /\ ~V[p].leaf
        /\ \A x \in U \ {p} : m[x] = V[x]
        /\ m[p].leaf = V[p].leaf /\ m[p].item = V[p].item
        /\ m[p].parent = V[p].parent /\ m[p].next = V[p].next
        /\ i \in 1 .. Len(m[p].child) /\ i \in 1 .. Len(m[p].key) + 1 /\ b \in Nat /\ sep \in Nat
        /\ V[p].child = children
        /\ V[p].key = keys
    BY <1>1 DEF Losing
  <1>3. U \subseteq DOMAIN V /\ NULL \notin U /\ p \in DOMAIN m
    BY <1>2, TreeTypes
  <1>4. V[p].item = <<>>
    <2>1. Kind(V, k, p)
      BY <1>2, TreeTypes
    <2> QED BY <1>2, <2>1 DEF Kind
  <1>5. PICK S : S = Nat
    OBVIOUS
  <1>6. m[p].child \in Seq(S) /\ m[p].key \in Seq(S) /\ b \in S /\ sep \in S
    BY <1>2, <1>3, <1>5, NodeTypes
  <1> DEFINE d == m[p].child
             q == m[p].key
  <1>7. /\ Len(children) = Len(d) + 1 /\ Len(d) \in Nat /\ i \in Nat
        /\ \A j \in 1 .. i : children[j] = d[j]
        /\ \A j \in i + 2 .. Len(d) + 1 : children[j] = d[j - 1]
    <2>1. d \in Seq(S) /\ i \in 1 .. Len(d) /\ b \in S
      BY <1>2, <1>6
    <2> HIDE DEF d
    <2>2. children = InsertAt(d, i + 1, b)
      BY DEF d
    <2>3. Len(children) = Len(d) + 1 /\ Len(d) \in Nat /\ i \in Nat
      BY <2>1, <2>2, NextTo
    <2>4. \A j \in 1 .. i : children[j] = d[j]
      BY <2>1, <2>2, NextTo
    <2>5. \A j \in i + 2 .. Len(d) + 1 : children[j] = d[j - 1]
      BY <2>1, <2>2, NextTo
    <2> QED BY <2>3, <2>4, <2>5
  <1>8. children \in Seq(S) /\ keys \in Seq(S)
    <2>1. V[p].child \in Seq(Nat) /\ V[p].key \in Seq(Nat)
      <3>1. Heap(V) /\ p \in DOMAIN V
        BY <1>2, <1>3, TreeTypes
      <3> QED BY <3>1, NodeTypes
    <2> QED BY <1>2, <1>5, <2>1
  <1>9. Len(keys) + 1 = Len(children)
    <2>1. KeyedAt(V, F, p)
      BY <1>1, <1>2 DEF Keyed
    <2> QED BY <1>2, <2>1 DEF KeyedAt
  <1>10. Len(d) \in 2 .. 4
    BY <1>1, <1>2 DEF SizedAt, MAX_BPT_NODE_NUM
  <1>11. Len(keys) \in 2 .. 4
    <2>1. Len(keys) \in Nat
      BY <1>8
    <2> QED BY <1>7, <1>9, <1>10, <2>1
  <1>12. Distinct(children)
    <2>1. \A j, l \in 1 .. Len(V[p].child) : V[p].child[j] = V[p].child[l] => j = l
      BY <1>2, Children DEF Tree
    <2> QED BY <1>2, <2>1 DEF Distinct
  <1>13. ASSUME NEW x \in Members(children)
         PROVE  x \in U /\ x # root /\ x # p /\ V[x].parent = p /\ k[x] + 1 = k[p] /\ k[x] \in Nat
    <2>1. PICK j \in 1 .. Len(V[p].child) : x = V[p].child[j]
      BY <1>2 DEF Members
    <2>2. x \in U /\ x # root /\ V[x].parent = p /\ k[x] + 1 = k[p] /\ k[x] \in Nat
      BY <1>2, <2>1, ChildOf
    <2>3. x # p
      BY <2>2
    <2> QED BY <2>2, <2>3
  <1>14. left = children[i] /\ i \in 1 .. Len(children)
    <2>1. left = d[i] /\ i \in 1 .. Len(d)
      BY <1>1, <1>2
    <2> HIDE DEF d
    <2>2. i \in 1 .. i /\ i \in 1 .. Len(children)
      BY <1>7, <2>1
    <2> QED BY <1>7, <2>1, <2>2
  <1>15. left \in U /\ left # p /\ left # root /\ V[left].parent = p /\ k[left] + 1 = k[p] /\ k[left] \in Nat
    <2>1. left \in Members(children)
      BY <1>14 DEF Members
    <2> QED BY <1>13, <2>1
  <1>16. k[left] < k[root]
    BY <1>2, <1>15, ParentOf
  <1>17. IndexOf(d, left) = i
    <2>1. \A j \in 1 .. Len(d) : d[j] = d[i] => j = i
      <3> SUFFICES ASSUME NEW j \in 1 .. Len(d), d[j] = d[i] PROVE j = i
        OBVIOUS
      <3>1. d[i] = children[i] /\ i \in 1 .. Len(children)
        BY <1>2, <1>7
      <3>2. CASE j <= i
        <4>1. children[j] = d[j] /\ j \in 1 .. Len(children)
          BY <1>7, <3>2
        <4> QED BY <1>12, <3>1, <4>1 DEF Distinct
      <3>3. CASE i < j
        <4>1. /\ j + 1 \in i + 2 .. Len(d) + 1 /\ j + 1 - 1 = j /\ j + 1 \in 1 .. Len(children)
              /\ j + 1 # i
          BY <1>7, <3>3
        <4>2. children[j + 1] = d[j]
          BY <1>7, <4>1
        <4> QED BY <1>12, <3>1, <4>1, <4>2 DEF Distinct
      <3>4. j <= i \/ i < j
        BY <1>7
      <3> QED BY <3>2, <3>3, <3>4
    <2>2. d \in Seq(S) /\ i \in 1 .. Len(d) /\ left = d[i]
      BY <1>1, <1>2, <1>6
    <2> HIDE DEF d
    <2> QED BY <2>1, <2>2, IndexOfIs
  <1>18. m[left] = V[left]
    BY <1>2, <1>15
  <1>19. children \in Seq(Nat) /\ keys \in Seq(Nat)
    BY <1>5, <1>8
  <1>20. /\ p # NULL /\ ~m[p].leaf /\ m[left].parent = p
    BY <1>2, <1>3, <1>15, <1>18
  <1> HIDE DEF d, q
  <1>21. /\ V[p].parent = m[p].parent /\ V[p].next = m[p].next
    BY <1>2
  <1>22. IndexOf(m[p].child, left) = i
    BY <1>17 DEF d
  <1>23. \A x \in Members(children) : x \in U /\ x # root /\ x # p /\ V[x].parent = p
    BY <1>13
  <1> QED BY <1>2, <1>3, <1>4, <1>9, <1>11, <1>12, <1>15, <1>16, <1>19, <1>20, <1>21, <1>22, <1>23
          DEF PendingTo

(* The parent has room.                                                    *)
LEMMA PendingFits ==
    ASSUME NEW m, NEW left, NEW sep, NEW b, NEW V, NEW U, NEW k, NEW F, NEW p, NEW i,
           Pending(m, left, sep, b, V, U, k, F, p, i),
           NEW keys, keys = InsertAt(m[p].key, i, sep), Len(keys) < MAX_BPT_NODE_NUM,
           NEW children, children = InsertAt(m[p].child, i + 1, b),
           NEW u, u = put_inner(m, p, keys, children)
    PROVE  Good(u, U, k, F, {}) /\ DOMAIN u = DOMAIN m
  <1>1. PendingTo(m, left, V, U, k, F, p, i, keys, children)
    BY PendingOf
  <1>2. /\ Tree(V, U, k, F) /\ Heap(m) /\ DOMAIN m = DOMAIN V
        /\ p \in U /\ p \in DOMAIN m /\ p # NULL /\ ~m[p].leaf /\ ~V[p].leaf /\ V[p].item = <<>>
        /\ V[p].key = keys /\ V[p].child = children /\ V[p].next = m[p].next
        /\ V[p].parent = m[p].parent /\ \A x \in U \ {p} : m[x] = V[x]
        /\ keys \in Seq(Nat) /\ children \in Seq(Nat)
        /\ Len(keys) \in 2 .. 4 /\ Len(keys) + 1 = Len(children)
        /\ \A x \in Members(children) : x \in U /\ x # root /\ x # p /\ V[x].parent = p
    BY <1>1 DEF PendingTo
  <1>3. Keyed(V, U, F) /\ Sized(V, U, {p}) /\ Chained(V, U, F)
    BY DEF Pending
  <1>4. Put(m, u, p, keys, children)
    BY <1>2, PutInnerOf, SMTT(30)
  <1>5. /\ Heap(u) /\ DOMAIN u = DOMAIN m
        /\ ~u[p].leaf /\ u[p].item = <<>> /\ u[p].key = keys /\ u[p].child = children
        /\ \A x \in DOMAIN m :
              /\ u[x].next = m[x].next
              /\ x \in Members(children) => u[x].parent = p
              /\ x \notin Members(children) => u[x].parent = m[x].parent
              /\ x # p => /\ u[x].leaf = m[x].leaf /\ u[x].item = m[x].item
                          /\ u[x].key = m[x].key /\ u[x].child = m[x].child
    BY <1>4 DEF Put
  <1>6. U \subseteq DOMAIN m
    BY <1>2, TreeTypes
  <1>7. V[p].leaf = FALSE /\ u[p].leaf = FALSE
    <2>1. Heap(V) /\ p \in DOMAIN V
      BY <1>2, TreeTypes
    <2>2. V[p].leaf \in BOOLEAN /\ u[p].leaf \in BOOLEAN
      BY <1>2, <1>5, <2>1, NodeTypes
    <2> QED BY <1>2, <1>5, <2>2
  <1>8. ASSUME NEW x \in U
        PROVE  /\ u[x].leaf = V[x].leaf /\ u[x].item = V[x].item /\ u[x].child = V[x].child
               /\ u[x].parent = V[x].parent /\ u[x].next = V[x].next /\ u[x].key = V[x].key
    <2>1. CASE x = p
      <3>1. p \notin Members(children)
        BY <1>2
      <3> QED BY <1>2, <1>5, <1>7, <2>1, <3>1
    <2>2. CASE x # p
      <3>1. m[x] = V[x] /\ x \in DOMAIN m
        BY <1>2, <1>6, <2>2
      <3>2. u[x].parent = V[x].parent
        <4>1. CASE x \in Members(children)
          BY <1>2, <1>5, <3>1, <4>1
        <4>2. CASE x \notin Members(children)
          BY <1>5, <3>1, <4>2
        <4> QED BY <4>1, <4>2
      <3> QED BY <1>5, <2>2, <3>1, <3>2
    <2> QED BY <2>1, <2>2
  <1>9. SameTree(V, u, U)
    BY <1>2, <1>5, <1>6, <1>8 DEF SameTree
  <1>10. /\ Tree(u, U, k, F) /\ Sized(u, U, {p}) /\ Chained(u, U, F) /\ Keyed(u, U, F)
    <2>1. Tree(u, U, k, F)
      BY <1>2, <1>5, <1>9, SameShape
    <2>2. Sized(u, U, {p})
      BY <1>2, <1>3, <1>5, <1>9, SameShape
    <2>3. Chained(u, U, F)
      BY <1>2, <1>3, <1>5, <1>9, SameShape
    <2>4. Keyed(u, U, F)
      <3>1. \A x \in U : u[x].key = V[x].key
        BY <1>8
      <3>2. Tree(V, U, k, F) /\ Heap(u) /\ Keyed(V, U, F)
        BY <1>2, <1>3, <1>5
      <3> QED BY <1>9, <3>1, <3>2, SameShape
    <2> QED BY <2>1, <2>2, <2>3, <2>4
  <1>11. Sized(u, U, {})
    <2>1. Len(u[p].child) \in 2 .. 4
      <3>1. \A n \in 2 .. 4 : n < 4 => n + 1 \in 2 .. 4
        OBVIOUS
      <3> QED BY <1>2, <1>5, <3>1, ZenonT(30) DEF MAX_BPT_NODE_NUM
    <2>2. SizedAt(u, p)
      BY <1>5, <2>1 DEF SizedAt, MAX_BPT_NODE_NUM
    <2> QED BY <1>10, <2>2 DEF Sized
  <1> QED BY <1>5, <1>10, <1>11 DEF Good, Tree

(* The parent has no room, and no node is left.                            *)
LEMMA PendingLost ==
    ASSUME NEW m, NEW left, NEW sep, NEW b, NEW V, NEW U, NEW k, NEW F, NEW p, NEW i,
           Pending(m, left, sep, b, V, U, k, F, p, i)
    PROVE  \E W, l, D : Good(m, W, l, D, {})
  <1>1. /\ Losing(V, m, U, k, F, p, i, b, sep)
        /\ Keyed(V, U, F) /\ Sized(V, U, {p}) /\ SizedAt(m, p) /\ Chained(V, U, F)
    BY DEF Pending
  <1> QED BY <1>1, LoseGood

(* A node outside the tree does not matter.                                *)
LEMMA GoodWith ==
    ASSUME NEW t, NEW T, NEW h, NEW E, NEW X, Good(t, T, h, E, X),
           NEW a \in Pool, a \notin DOMAIN t, NEW l \in BOOLEAN, NEW u, u = With(t, a, EmptyNode(l))
    PROVE  Good(u, T, h, E, X)
  <1>1. Tree(t, T, h, E) /\ Keyed(t, T, E) /\ Sized(t, T, X) /\ Chained(t, T, E) /\ Heap(t)
    BY DEF Good, Tree
  <1>2. /\ Heap(u) /\ DOMAIN u = DOMAIN t \cup {a}
        /\ \A x \in DOMAIN t : x # a => u[x] = t[x]
    <2>1. PICK w \in Node : w = EmptyNode(l)
      BY EmptyNodeIs
    <2>2. u = With(t, a, w)
      BY <2>1
    <2>3. Added(t, u, a, w)
      BY <1>1, <2>2, WithOf
    <2> QED BY <2>3 DEF Added
  <1>3. T \subseteq DOMAIN t
    BY <1>1, TreeTypes
  <1>4. \A x \in T : u[x] = t[x]
    BY <1>2, <1>3
  <1>5. SameTree(t, u, T) /\ DOMAIN t \subseteq DOMAIN u /\ \A x \in T : u[x].key = t[x].key
    BY <1>2, <1>3, <1>4 DEF SameTree
  <1>6. Tree(u, T, h, E)
    BY <1>1, <1>2, <1>5, SameShape
  <1>7. Sized(u, T, X)
    BY <1>1, <1>2, <1>5, SameShape
  <1>8. Chained(u, T, E)
    BY <1>1, <1>2, <1>5, SameShape
  <1>9. Keyed(u, T, E)
    BY <1>1, <1>2, <1>5, SameShape
  <1> QED BY <1>6, <1>7, <1>8, <1>9 DEF Good, Tree

(* A node becomes another one's child.                                     *)
ParentSet(t, u, a, p) ==
    /\ Heap(u) /\ DOMAIN u = DOMAIN t /\ \A x \in DOMAIN t : x # a => u[x] = t[x]
    /\ u[a].leaf = t[a].leaf /\ u[a].item = t[a].item /\ u[a].key = t[a].key
    /\ u[a].child = t[a].child /\ u[a].next = t[a].next /\ u[a].parent = p

(* One parent pointer is set.                                              *)
LEMMA ParentSetOf ==
    ASSUME NEW t, Heap(t), NEW a \in DOMAIN t, NEW p \in Nat, NEW u, u = [t EXCEPT ![a].parent = p]
    PROVE  ParentSet(t, u, a, p)
  <1>1. PICK w : w = [t[a] EXCEPT !.parent = p]
    OBVIOUS
  <1>2. t[a] \in Node /\ t \in [DOMAIN t -> Node]
    BY DEF Heap
  <1>3. /\ w \in Node
        /\ w.leaf = t[a].leaf /\ w.item = t[a].item /\ w.key = t[a].key
        /\ w.child = t[a].child /\ w.next = t[a].next /\ w.parent = p
    BY <1>1, <1>2 DEF Node
  <1>4. u = [t EXCEPT ![a] = w]
    BY <1>1
  <1>5. u \in [DOMAIN t -> Node]
    BY <1>2, <1>3, <1>4
  <1>6. DOMAIN u = DOMAIN t /\ u[a] = w /\ \A x \in DOMAIN t : x # a => u[x] = t[x]
    BY <1>2, <1>4
  <1>7. Heap(u)
    BY <1>5, <1>6 DEF Heap
  <1> QED BY <1>3, <1>6, <1>7 DEF ParentSet

(* The node n is entered into q, next to the j-th child.                   *)
Entering(w, q, j, s, n) ==
    [w EXCEPT ![q].key = InsertAt(@, j, s), ![q].child = InsertAt(@, j + 1, n)]
Entered(w, v, q, j, s, n) ==
    /\ Heap(v) /\ DOMAIN v = DOMAIN w /\ \A x \in DOMAIN w : x # q => v[x] = w[x]
    /\ v[q].leaf = w[q].leaf /\ v[q].item = w[q].item /\ v[q].parent = w[q].parent
    /\ v[q].next = w[q].next
    /\ v[q].key = InsertAt(w[q].key, j, s) /\ v[q].child = InsertAt(w[q].child, j + 1, n)

(* A node receives a child and a key.                                      *)
LEMMA EnteringOf ==
    ASSUME NEW w, Heap(w), NEW q \in DOMAIN w, NEW j \in 1 .. Len(w[q].child),
           j \in 1 .. Len(w[q].key) + 1, NEW s \in Nat, NEW n \in Nat,
           NEW v, v = Entering(w, q, j, s, n)
    PROVE  Entered(w, v, q, j, s, n)
  <1>1. w[q] \in Node /\ w \in [DOMAIN w -> Node]
    BY DEF Heap
  <1>2. w[q].key \in Seq(Nat) /\ w[q].child \in Seq(Nat)
    BY NodeTypes
  <1>3. PICK K : K = InsertAt(w[q].key, j, s)
    OBVIOUS
  <1>4. PICK C : C = InsertAt(w[q].child, j + 1, n)
    OBVIOUS
  <1>5. K \in Seq(Nat) /\ C \in Seq(Nat)
    <2>1. PICK S : S = Nat
      OBVIOUS
    <2>2. w[q].key \in Seq(S) /\ w[q].child \in Seq(S) /\ s \in S /\ n \in S
      BY <1>2, <2>1
    <2>3. Inserted(S, w[q].key, j, s, K)
      BY <1>3, <2>2, InsertedList
    <2>4. PICK m : m = j + 1
      OBVIOUS
    <2>5. m \in 1 .. Len(w[q].child) + 1 /\ C = InsertAt(w[q].child, m, n)
      <3>1. Len(w[q].child) \in Nat
        BY <2>2
      <3> QED BY <1>4, <2>4, <3>1
    <2>6. Inserted(S, w[q].child, m, n, C)
      BY <2>2, <2>5, InsertedList
    <2> QED BY <2>1, <2>3, <2>6 DEF Inserted
  <1>6. PICK y : y = [w[q] EXCEPT !.key = K, !.child = C]
    OBVIOUS
  <1>7. /\ y \in Node
        /\ y.leaf = w[q].leaf /\ y.item = w[q].item /\ y.parent = w[q].parent
        /\ y.next = w[q].next /\ y.key = K /\ y.child = C
    BY <1>1, <1>5, <1>6 DEF Node
  <1>8. v = [w EXCEPT ![q] = y]
    BY <1>1, <1>3, <1>4, <1>6 DEF Entering, Node
  <1>9. v \in [DOMAIN w -> Node]
    BY <1>1, <1>7, <1>8
  <1>10. DOMAIN v = DOMAIN w /\ v[q] = y /\ \A x \in DOMAIN w : x # q => v[x] = w[x]
    BY <1>1, <1>8
  <1>11. Heap(v)
    BY <1>9, <1>10 DEF Heap
  <1> QED BY <1>3, <1>4, <1>7, <1>10, <1>11 DEF Entered
-----------------------------------------------------------------------------
(* The parent has no room and is split, below its own parent q.            *)
Upper(m, p, keys, children, n, w) ==
    /\ Len(keys) = 4 /\ p # root /\ n \in Pool /\ n \notin DOMAIN m
    /\ \E t, v : /\ t = With(m, n, EmptyNode(FALSE))
                 /\ v = put_inner(put_inner(t, p, LeftKeys(keys), Taken(children, Len(keys) \div 2 + 1)),
                                  n, RightKeys(keys), Left(children, Len(keys) \div 2 + 1))
                 /\ w = [v EXCEPT ![n].parent = m[p].parent]

(* What that leaves.                                                       *)
UpperTo(m, p, keys, children, n, w, q, I, J) ==
    /\ Heap(w) /\ DOMAIN w = DOMAIN m \cup {n}
    /\ ~w[p].leaf /\ w[p].item = <<>> /\ w[p].child = I
    /\ ~w[n].leaf /\ w[n].item = <<>> /\ w[n].child = J /\ w[n].parent = q /\ w[n].next = NULL
    /\ Len(w[p].key) = 2 /\ w[p].key[1] = keys[1] /\ w[p].key[2] = keys[2]
    /\ Len(w[n].key) = 1 /\ w[n].key[1] = keys[4]
    /\ I \in Seq(Nat) /\ J \in Seq(Nat) /\ I \o J = children /\ Len(I) = 3 /\ Len(J) = 2
    /\ \A x \in DOMAIN m :
          /\ w[x].next = m[x].next
          /\ x \in Members(I) => w[x].parent = p
          /\ x \in Members(J) => w[x].parent = n
          /\ x \notin Members(children) => w[x].parent = m[x].parent
          /\ x # p => /\ w[x].leaf = m[x].leaf /\ w[x].item = m[x].item
                      /\ w[x].key = m[x].key /\ w[x].child = m[x].child

(* The heap that add_parent leaves when it splits a parent that is not the *)
(* root, in terms of a split.                                              *)
LEMMA UpperOf ==
    ASSUME NEW m, Heap(m), NEW p \in DOMAIN m, NEW keys \in Seq(Nat), NEW children \in Seq(Nat),
           Len(children) = 5, Distinct(children), \A x \in Members(children) : x \in DOMAIN m,
           NEW n, NEW w, Upper(m, p, keys, children, n, w), NEW q \in Nat, q = m[p].parent
    PROVE  \E I, J : UpperTo(m, p, keys, children, n, w, q, I, J)
  <1>1. Len(keys) = 4 /\ n \in Pool /\ n \notin DOMAIN m
    BY DEF Upper
  <1>2. PICK t, v : /\ t = With(m, n, EmptyNode(FALSE))
                    /\ v = put_inner(put_inner(t, p, LeftKeys(keys), Taken(children, Len(keys) \div 2 + 1)),
                                     n, RightKeys(keys), Left(children, Len(keys) \div 2 + 1))
                    /\ w = [v EXCEPT ![n].parent = q]
    BY DEF Upper
  <1>3. PICK e \in Node : e = EmptyNode(FALSE) /\ e.next = NULL
    BY EmptyNodeIs
  <1>4. Added(m, t, n, e)
    <2>1. t = With(m, n, e)
      BY <1>2, <1>3
    <2> QED BY <1>1, <2>1, WithOf
  <1>5. /\ Heap(t) /\ DOMAIN t = DOMAIN m \cup {n} /\ t[n] = e
        /\ \A x \in DOMAIN m : t[x] = m[x]
    BY <1>1, <1>4 DEF Added
  <1>6. PICK I, J : Halved(t, v, p, n, keys, children, I, J)
    <2>1. p \in DOMAIN t /\ n \in DOMAIN t /\ p # n
      BY <1>1, <1>5
    <2>2. PICK cut : cut = Len(keys) \div 2 + 1
      OBVIOUS
    <2>3. v = put_inner(put_inner(t, p, LeftKeys(keys), Taken(children, cut)),
                        n, RightKeys(keys), Left(children, cut))
      BY <1>2, <2>2
    <2> QED BY <1>1, <1>5, <2>1, <2>2, <2>3, HalvesOf
  <1>7. /\ Heap(v) /\ DOMAIN v = DOMAIN t
        /\ ~v[p].leaf /\ v[p].item = <<>> /\ v[p].child = I
        /\ ~v[n].leaf /\ v[n].item = <<>> /\ v[n].child = J
        /\ Len(v[p].key) = 2 /\ v[p].key[1] = keys[1] /\ v[p].key[2] = keys[2]
        /\ Len(v[n].key) = 1 /\ v[n].key[1] = keys[4]
        /\ I \in Seq(Nat) /\ J \in Seq(Nat) /\ I \o J = children /\ Len(I) = 3 /\ Len(J) = 2
    BY <1>6 DEF Halved
  <1>8. \A x \in DOMAIN t :
          /\ v[x].next = t[x].next
          /\ x \in Members(I) => v[x].parent = p
          /\ x \in Members(J) => v[x].parent = n
          /\ x \notin Members(children) => v[x].parent = t[x].parent
          /\ x \notin {p, n} => /\ v[x].leaf = t[x].leaf /\ v[x].item = t[x].item
                                /\ v[x].key = t[x].key /\ v[x].child = t[x].child
    BY <1>6 DEF Halved
  <1>9. n \in DOMAIN v /\ p # n
    BY <1>1, <1>5, <1>7
  <1>10. /\ Heap(w) /\ DOMAIN w = DOMAIN v /\ \A x \in DOMAIN v : x # n => w[x] = v[x]
         /\ w[n].leaf = v[n].leaf /\ w[n].item = v[n].item /\ w[n].key = v[n].key
         /\ w[n].child = v[n].child /\ w[n].next = v[n].next /\ w[n].parent = q
    <2>1. ParentSet(v, w, n, q)
      BY <1>2, <1>7, <1>9, ParentSetOf
    <2> QED BY <2>1 DEF ParentSet
  <1>11. w[p] = v[p]
    BY <1>5, <1>7, <1>9, <1>10
  <1>12. ASSUME NEW x \in DOMAIN m
         PROVE  /\ w[x].next = m[x].next
                /\ x \in Members(I) => w[x].parent = p
                /\ x \in Members(J) => w[x].parent = n
                /\ x \notin Members(children) => w[x].parent = m[x].parent
                /\ x # p => /\ w[x].leaf = m[x].leaf /\ w[x].item = m[x].item
                            /\ w[x].key = m[x].key /\ w[x].child = m[x].child
    <2>1. x \in DOMAIN t /\ x # n /\ w[x] = v[x] /\ t[x] = m[x]
      BY <1>1, <1>5, <1>7, <1>10
    <2> QED BY <1>8, <2>1
  <1>13. w[n].next = NULL
    <2>1. v[n].next = t[n].next
      BY <1>5, <1>8
    <2> QED BY <1>3, <1>5, <1>10, <2>1
  <1>14. DOMAIN w = DOMAIN m \cup {n}
    BY <1>5, <1>7, <1>10
  <1>15. UpperTo(m, p, keys, children, n, w, q, I, J)
    BY <1>7, <1>10, <1>11, <1>12, <1>13, <1>14 DEF UpperTo
  <1> QED BY <1>15

(* The half that is new is not yet a child of q: pending again, a level up. *)
Raised(m, w, p, s, n, W, l, D, q, j, U, k, F) ==
    /\ Pending(w, p, s, n, W, U \cup {n}, l, D, q, j)
    /\ l[p] = k[p] /\ l[root] = k[root] /\ D[root] = F[root]
    /\ DOMAIN w = DOMAIN m \cup {n}

(* That call of add_parent leaves a tree that lacks one node, the new      *)
(* right half, for which the next call looks for a place.                  *)
LEMMA PendingUp ==
    ASSUME NEW m, NEW left, NEW sep, NEW b, NEW V, NEW U, NEW k, NEW F, NEW p, NEW i,
           Pending(m, left, sep, b, V, U, k, F, p, i),
           NEW keys, keys = InsertAt(m[p].key, i, sep),
           NEW children, children = InsertAt(m[p].child, i + 1, b),
           NEW n, NEW w, Upper(m, p, keys, children, n, w)
    PROVE  \E W, l, D, q, j : Raised(m, w, p, Middle(keys), n, W, l, D, q, j, U, k, F)
  <1>1. PendingTo(m, left, V, U, k, F, p, i, keys, children)
    BY PendingOf
  <1>2. /\ Tree(V, U, k, F) /\ Heap(m) /\ DOMAIN m = DOMAIN V
        /\ p \in U /\ p \in DOMAIN m /\ p # NULL /\ ~m[p].leaf /\ ~V[p].leaf /\ V[p].item = <<>>
        /\ V[p].key = keys /\ V[p].child = children /\ V[p].next = m[p].next
        /\ V[p].parent = m[p].parent /\ \A x \in U \ {p} : m[x] = V[x]
        /\ keys \in Seq(Nat) /\ children \in Seq(Nat) /\ Distinct(children)
        /\ Len(keys) + 1 = Len(children)
        /\ \A x \in Members(children) : x \in U /\ x # root /\ x # p /\ V[x].parent = p
    BY <1>1 DEF PendingTo
  <1>3. Keyed(V, U, F) /\ Sized(V, U, {p}) /\ Chained(V, U, F)
    BY DEF Pending
  <1>4. Len(keys) = 4 /\ Len(children) = 5 /\ p # root /\ n \in Pool /\ n \notin DOMAIN m
    BY <1>2 DEF Upper
  <1>5. U \subseteq DOMAIN m /\ NULL \notin U
    BY <1>2, TreeTypes
  <1>6. PICK q : q = V[p].parent
    OBVIOUS
  <1>7. /\ q \in U /\ ~V[q].leaf /\ k[p] + 1 = k[q] /\ k[p] \in Nat /\ k[q] \in Nat
        /\ \E j \in 1 .. Len(V[q].child) : V[q].child[j] = p
    <2>1. q \in U /\ ~V[q].leaf /\ k[p] + 1 = k[q] /\ k[p] \in Nat /\ k[q] \in Nat
      BY <1>2, <1>4, <1>6, ParentOf
    <2>2. \E j \in 1 .. Len(V[q].child) : V[q].child[j] = p
      BY <1>2, <1>4, <1>6, ParentOf
    <2> QED BY <2>1, <2>2
  <1>8. PICK j \in 1 .. Len(V[q].child) : V[q].child[j] = p
    BY <1>7
  <1>9. q # p /\ q \notin Members(children) /\ p \notin Members(children)
    <2>1. q # p
      BY <1>7
    <2>2. ASSUME q \in Members(children) PROVE FALSE
      <3>1. q # root /\ V[q].parent = p
        BY <1>2, <2>2
      <3>2. k[q] + 1 = k[p]
        BY <1>2, <1>7, <3>1, ParentOf
      <3> QED BY <1>7, <3>2
    <2> QED BY <1>2, <2>1, <2>2
  <1>10. q \in Nat /\ n \in Nat /\ n # NULL
    <2>1. DOMAIN V \subseteq Nat \ {NULL}
      BY <1>2, TreeTypes
    <2>2. Pool \subseteq Nat \ {NULL}
      BY BPTreeAssumption DEF NULL
    <2> QED BY <1>2, <1>4, <1>5, <1>7, <2>1, <2>2
  <1>11. PICK I, J : UpperTo(m, p, keys, children, n, w, q, I, J)
    <2>1. \A x \in Members(children) : x \in DOMAIN m
      BY <1>2, <1>5
    <2>2. q = m[p].parent
      BY <1>2, <1>6
    <2> QED BY <1>2, <1>4, <1>10, <2>1, <2>2, UpperOf
  <1>12. /\ Heap(w) /\ DOMAIN w = DOMAIN m \cup {n}
         /\ ~w[p].leaf /\ w[p].item = <<>> /\ w[p].child = I
         /\ ~w[n].leaf /\ w[n].item = <<>> /\ w[n].child = J /\ w[n].parent = q /\ w[n].next = NULL
         /\ Len(w[p].key) = 2 /\ w[p].key[1] = keys[1] /\ w[p].key[2] = keys[2]
         /\ Len(w[n].key) = 1 /\ w[n].key[1] = keys[4]
         /\ I \in Seq(Nat) /\ J \in Seq(Nat) /\ I \o J = children /\ Len(I) = 3 /\ Len(J) = 2
    BY <1>11 DEF UpperTo
  <1>13. \A x \in DOMAIN m :
          /\ w[x].next = m[x].next
          /\ x \in Members(I) => w[x].parent = p
          /\ x \in Members(J) => w[x].parent = n
          /\ x \notin Members(children) => w[x].parent = m[x].parent
          /\ x # p => /\ w[x].leaf = m[x].leaf /\ w[x].item = m[x].item
                      /\ w[x].key = m[x].key /\ w[x].child = m[x].child
    BY <1>11 DEF UpperTo
  <1>14. Members(children) = Members(I) \cup Members(J)
    <2>1. I \in Seq(Nat) /\ J \in Seq(Nat) /\ I \o J = children
      BY <1>12
    <2>2. PICK S : S = Nat
      OBVIOUS
    <2>3. I \in Seq(S) /\ J \in Seq(S)
      BY <2>1, <2>2
    <2>4. Members(I \o J) = Members(I) \cup Members(J)
      BY <2>3, MembersConcat
    <2> QED BY <2>1, <2>4
  <1>15. /\ w[q].leaf = V[q].leaf /\ w[q].item = V[q].item /\ w[q].key = V[q].key
         /\ w[q].child = V[q].child /\ w[q].parent = V[q].parent /\ w[q].next = V[q].next
         /\ q \in DOMAIN w
    <2>1. m[q] = V[q] /\ q \in DOMAIN m
      BY <1>2, <1>5, <1>7, <1>9
    <2> QED BY <1>9, <1>12, <1>13, <2>1
  <1>16. KeyedAt(V, F, q) /\ Len(V[q].key) + 1 = Len(V[q].child)
    <2>1. KeyedAt(V, F, q)
      BY <1>3, <1>7 DEF Keyed
    <2> QED BY <2>1 DEF KeyedAt
  <1>17. PICK s : s = Middle(keys)
    OBVIOUS
  <1>18. s = keys[3] /\ s \in Nat
    BY <1>2, <1>4, <1>17, CutOf
  <1>19. PICK W : W = Entering(w, q, j, s, n)
    OBVIOUS
  <1>20. j \in 1 .. Len(w[q].child) /\ j \in 1 .. Len(w[q].key) + 1
    BY <1>15, <1>16
  <1>21. Entered(w, W, q, j, s, n)
    BY <1>10, <1>12, <1>15, <1>18, <1>19, <1>20, EnteringOf
  <1>22. /\ Heap(W) /\ DOMAIN W = DOMAIN w /\ \A x \in DOMAIN w : x # q => W[x] = w[x]
         /\ W[q].leaf = w[q].leaf /\ W[q].item = w[q].item /\ W[q].parent = w[q].parent
         /\ W[q].next = w[q].next
         /\ W[q].key = InsertAt(w[q].key, j, s) /\ W[q].child = InsertAt(w[q].child, j + 1, n)
    BY <1>21 DEF Entered
  <1>23. W[p] = w[p] /\ W[n] = w[n] /\ n # q /\ n # p /\ n \notin U
    BY <1>2, <1>4, <1>5, <1>7, <1>9, <1>12, <1>22
  <1>24. V[q].item = <<>> /\ V[p].leaf = FALSE /\ W[p].leaf = FALSE /\ W[n].leaf = FALSE
    <2>1. Kind(V, k, q) /\ Heap(V) /\ p \in DOMAIN V
      BY <1>2, <1>7, TreeTypes
    <2>2. V[p].leaf \in BOOLEAN
      BY <2>1, NodeTypes
    <2>3. p \in DOMAIN w /\ n \in DOMAIN w
      BY <1>2, <1>12
    <2>4. w[p].leaf \in BOOLEAN /\ w[n].leaf \in BOOLEAN
      BY <1>12, <2>3, NodeTypes
    <2> QED BY <1>2, <1>7, <1>12, <1>23, <2>1, <2>2, <2>4 DEF Kind
  <1>25. ASSUME NEW x \in U \ {p, q}
         PROVE  /\ W[x].leaf = V[x].leaf /\ W[x].item = V[x].item /\ W[x].child = V[x].child
                /\ W[x].key = V[x].key
                /\ V[x].parent # p => W[x].parent = V[x].parent
    <2>1. m[x] = V[x] /\ x \in DOMAIN m /\ W[x] = w[x]
      BY <1>2, <1>5, <1>12, <1>22
    <2>2. V[x].parent # p => x \notin Members(children)
      BY <1>2
    <2> QED BY <1>13, <2>1, <2>2
  <1>26. ASSUME NEW x \in U PROVE W[x].next = V[x].next
    <2>1. x \in DOMAIN m /\ x \in DOMAIN w /\ V[x].next = m[x].next
      BY <1>2, <1>5, <1>12
    <2>2. W[x].next = w[x].next
      BY <1>22, <2>1
    <2> QED BY <1>13, <2>1, <2>2
  <1>27. /\ \A x \in Members(W[p].child) : W[x].parent = p
         /\ \A x \in Members(W[n].child) : W[x].parent = n
    <2> SUFFICES ASSUME NEW x \in Members(children)
                 PROVE  /\ x \in Members(I) => W[x].parent = p
                        /\ x \in Members(J) => W[x].parent = n
      BY <1>12, <1>14, <1>23
    <2>1. x \in DOMAIN m /\ W[x] = w[x]
      BY <1>2, <1>5, <1>9, <1>12, <1>22
    <2> QED BY <1>13, <2>1
  <1>28. W[p].parent = q
    BY <1>2, <1>6, <1>9, <1>13, <1>23
  <1>29. Splitting(V, W, U, k, F, q, p, n, j, s)
    <2>1. /\ Tree(V, U, k, F) /\ Heap(W) /\ DOMAIN V \subseteq DOMAIN W
          /\ Keyed(V, U, F) /\ n \in DOMAIN W /\ n \notin DOMAIN V /\ s \in Nat
          /\ q \in U /\ j \in 1 .. Len(V[q].child) /\ V[q].child[j] = p
      BY <1>2, <1>3, <1>4, <1>7, <1>8, <1>12, <1>18, <1>22
    <2>2. Sized(V, U, {p, q})
      BY <1>3 DEF Sized
    <2>3. /\ ~W[q].leaf /\ W[q].item = <<>> /\ W[q].parent = V[q].parent
          /\ W[q].child = InsertAt(V[q].child, j + 1, n) /\ W[q].key = InsertAt(V[q].key, j, s)
      BY <1>7, <1>15, <1>22, <1>24
    <2>4. /\ W[p].leaf = V[p].leaf /\ W[n].leaf = V[p].leaf /\ W[p].parent = q /\ W[n].parent = q
          /\ W[p].child \o W[n].child = V[p].child
      BY <1>2, <1>12, <1>23, <1>24, <1>28
    <2>5. W[p].item = <<>> /\ W[n].item = <<>> /\ W[p].item \o W[n].item = V[p].item
      <3>1. W[p].item = <<>> /\ W[n].item = <<>> /\ V[p].item = <<>>
        BY <1>2, <1>12, <1>23
      <3>2. <<>> \o <<>> = <<>>
        OBVIOUS
      <3> QED BY <3>1, <3>2
    <2>6. W[p].child # <<>> /\ W[n].child # <<>>
      <3>1. Len(W[p].child) = 3 /\ Len(W[n].child) = 2
        BY <1>12, <1>23
      <3>2. I \in Seq(Nat) /\ J \in Seq(Nat) /\ W[p].child = I /\ W[n].child = J
        BY <1>12, <1>23
      <3>3. \A s1 \in Seq(Nat) : Len(s1) # 0 => s1 # <<>>
        OBVIOUS
      <3>4. Len(I) = 3 /\ Len(J) = 2 /\ 3 # 0 /\ 2 # 0
        BY <1>12
      <3>5. I # <<>>
        BY <3>2, <3>3, <3>4
      <3>6. J # <<>>
        BY <3>2, <3>3, <3>4
      <3> QED BY <3>2, <3>5, <3>6
    <2> QED BY <1>2, <1>25, <1>27, <2>1, <2>2, <2>3, <2>4, <2>5, <2>6 DEF Splitting
  <1>30. InnerSplit(V, W, U, k, F, q, p, n, j, s)
    <2>1. W[n].next = NULL /\ \A x \in U : W[x].next = V[x].next
      BY <1>12, <1>23, <1>26
    <2>2. /\ Len(V[p].child) = 5 /\ Len(W[p].child) = 3 /\ Len(W[p].key) = 2 /\ Len(W[n].key) = 1
          /\ s = V[p].key[3] /\ W[p].key[1] = V[p].key[1] /\ W[p].key[2] = V[p].key[2]
          /\ W[n].key[1] = V[p].key[4]
      BY <1>2, <1>4, <1>12, <1>18, <1>23
    <2> QED BY <1>2, <1>3, <1>29, <2>1, <2>2 DEF InnerSplit
  <1>31. PICK U2, l, D : SplitTo(V, W, U, k, F, q, p, n, U2, l, D)
    BY <1>30, InnerSplitGood
  <1>32. /\ U2 = U \cup {n} /\ Good(W, U2, l, D, {q})
         /\ l[p] = k[p] /\ D[root] = F[root] /\ \A x \in U \ {p} : l[x] = k[x]
    BY <1>31 DEF SplitTo, SplitInto
  <1>33. Tree(W, U2, l, D) /\ Keyed(W, U2, D) /\ Sized(W, U2, {q}) /\ Chained(W, U2, D)
    BY <1>32 DEF Good, Tree
  <1>34. Losing(W, w, U2, l, D, q, j, n, s)
    <2>1. \A x \in U2 \ {q} : w[x] = W[x]
      <3>1. U2 \subseteq DOMAIN W
        BY <1>33, TreeTypes
      <3> QED BY <1>22, <3>1
    <2>2. /\ w[q].leaf = W[q].leaf /\ w[q].item = W[q].item
          /\ w[q].parent = W[q].parent /\ w[q].next = W[q].next
          /\ W[q].child = InsertAt(w[q].child, j + 1, n)
          /\ W[q].key = InsertAt(w[q].key, j, s)
      BY <1>22
    <2>3. ~W[q].leaf /\ q \in U2
      BY <1>7, <1>15, <1>22, <1>32
    <2> QED BY <1>10, <1>12, <1>18, <1>20, <1>22, <1>33, <2>1, <2>2, <2>3 DEF Losing
  <1>35. SizedAt(w, q)
    <2>1. SizedAt(V, q)
      BY <1>3, <1>7, <1>9 DEF Sized
    <2> QED BY <1>7, <1>15, <2>1 DEF SizedAt
  <1>36. p = w[q].child[j]
    BY <1>8, <1>15, SMTT(30)
  <1>37. Pending(w, p, s, n, W, U2, l, D, q, j)
    BY <1>2, <1>33, <1>34, <1>35, <1>36 DEF Pending
  <1>38. l[root] = k[root]
    <2>1. root \in U
      BY <1>2, TreeTypes
    <2> QED BY <1>4, <1>32, <2>1
  <1>39. Raised(m, w, p, s, n, W, l, D, q, j, U, k, F)
    BY <1>12, <1>32, <1>37, <1>38 DEF Raised
  <1> QED BY <1>17, <1>39

(* The root as it is for a moment: its only child has what it had.         *)
Regrown(V, o) ==
    [x \in DOMAIN V \cup {o} |->
        IF x = root THEN [EmptyNode(FALSE) EXCEPT !.child = <<o>>]
        ELSE IF x = o THEN [V[root] EXCEPT !.parent = root, !.next = NULL]
        ELSE IF V[x].parent = root THEN [V[x] EXCEPT !.parent = o]
        ELSE V[x]]

(* The root, handed to a new node.                                         *)
LEMMA RegrownOf ==
    ASSUME NEW V, NEW U, NEW k, NEW F, Tree(V, U, k, F), Keyed(V, U, F), Sized(V, U, {root}),
           Chained(V, U, F), F[root] # {}, NEW o \in Pool, o \notin DOMAIN V,
           NEW W, W = Regrown(V, o)
    PROVE  Grown(V, W, U, k, F, o)
  <1>1. /\ Heap(V) /\ U \subseteq DOMAIN V /\ root \in U /\ root \in DOMAIN V
        /\ DOMAIN V \subseteq Nat \ {NULL}
    BY TreeTypes
  <1>2. o # root /\ o \in Nat /\ root \in Nat /\ NULL \in Nat
    BY <1>1, BPTreeAssumption DEF root, NULL
  <1>3. DOMAIN W = DOMAIN V \cup {o} /\ W = [x \in DOMAIN W |-> W[x]]
    BY DEF Regrown
  <1>4. PICK r : r = [EmptyNode(FALSE) EXCEPT !.child = <<o>>]
    OBVIOUS
  <1>5. /\ r \in Node /\ r.leaf = FALSE /\ r.item = <<>> /\ r.key = <<>> /\ r.child = <<o>>
        /\ r.parent = NULL /\ r.next = NULL
    <2>1. r = [leaf |-> FALSE, item |-> <<>>, key |-> <<>>, child |-> <<o>>, parent |-> NULL, next |-> NULL]
      BY <1>4 DEF EmptyNode
    <2>2. <<o>> \in Seq(Nat) /\ <<>> \in Seq(Nat) /\ <<>> \in Seq(Entry)
      BY <1>2
    <2> QED BY <1>2, <2>1, <2>2 DEF Node
  <1>6. PICK y : y = [V[root] EXCEPT !.parent = root, !.next = NULL]
    OBVIOUS
  <1>7. /\ y \in Node /\ y.leaf = V[root].leaf /\ y.item = V[root].item /\ y.key = V[root].key
        /\ y.child = V[root].child /\ y.parent = root /\ y.next = NULL
    <2>1. V[root] \in Node
      BY <1>1, NodeTypes
    <2> QED BY <1>2, <1>6, <2>1 DEF Node
  <1>8. W[root] = r /\ W[o] = y
    BY <1>1, <1>2, <1>4, <1>6 DEF Regrown
  <1>9. ASSUME NEW x \in DOMAIN V, x # root
        PROVE  /\ W[x] \in Node
               /\ W[x].leaf = V[x].leaf /\ W[x].item = V[x].item /\ W[x].child = V[x].child
               /\ W[x].key = V[x].key /\ W[x].next = V[x].next
               /\ W[x].parent = IF V[x].parent = root THEN o ELSE V[x].parent
    <2>1. x # o /\ V[x] \in Node
      BY <1>1, NodeTypes
    <2>2. CASE V[x].parent = root
      <3>1. W[x] = [V[x] EXCEPT !.parent = o]
        BY <1>9, <2>1, <2>2 DEF Regrown
      <3> QED BY <1>2, <2>1, <2>2, <3>1 DEF Node
    <2>3. CASE V[x].parent # root
      <3>1. W[x] = V[x]
        BY <1>9, <2>1, <2>3 DEF Regrown
      <3> QED BY <2>1, <2>3, <3>1
    <2> QED BY <2>2, <2>3
  <1>10. Heap(W)
    <2>1. IsFiniteSet(DOMAIN W)
      BY <1>1, <1>3, FS_AddElement DEF Heap
    <2>2. W \in [DOMAIN W -> Node]
      <3>1. \A x \in DOMAIN W : W[x] \in Node
        BY <1>3, <1>5, <1>7, <1>8, <1>9
      <3> QED BY <1>3, <3>1
    <2>3. DOMAIN W \subseteq Pool \cup {root}
      BY <1>1, <1>3 DEF Heap
    <2> QED BY <1>1, <1>3, <2>1, <2>2, <2>3 DEF Heap
  <1>11. Growing(V, W, U, k, F, o)
    <2>1. Tree(V, U, k, F) /\ Heap(W) /\ U \subseteq DOMAIN W /\ o \in DOMAIN W /\ o \notin U /\ F[root] # {}
      BY <1>1, <1>3, <1>10
    <2>2. /\ W[o].leaf = V[root].leaf /\ W[o].item = V[root].item /\ W[o].child = V[root].child
          /\ W[o].parent = root
      BY <1>7, <1>8
    <2>3. ~W[root].leaf /\ W[root].item = <<>> /\ W[root].child = <<o>> /\ W[root].parent = NULL
      BY <1>5, <1>8
    <2>4. \A x \in U \ {root} :
             /\ W[x].leaf = V[x].leaf /\ W[x].item = V[x].item /\ W[x].child = V[x].child
             /\ W[x].parent = IF V[x].parent = root THEN o ELSE V[x].parent
      BY <1>1, <1>9
    <2> QED BY <2>1, <2>2, <2>3, <2>4 DEF Growing
  <1>12. \A x \in U \ {root} : W[x].key = V[x].key /\ W[x].next = V[x].next
    BY <1>1, <1>9
  <1>13. W[o].key = V[root].key /\ W[o].next = NULL /\ W[root].key = <<>> /\ W[root].next = NULL
    BY <1>5, <1>7, <1>8
  <1> QED BY <1>3, <1>11, <1>12, <1>13 DEF Grown

(* The root as the parent of two nodes that have what it had.              *)
Rooted(v, u, o, s, n) ==
    /\ Heap(u) /\ DOMAIN u = DOMAIN v
    /\ ~u[root].leaf /\ u[root].item = <<>> /\ u[root].key = <<s>> /\ u[root].child = <<o, n>>
    /\ u[root].parent = NULL /\ u[root].next = NULL
    /\ u[o].parent = root /\ u[n].parent = root
    /\ \A x \in DOMAIN v \ {root} :
          /\ u[x].leaf = v[x].leaf /\ u[x].item = v[x].item /\ u[x].key = v[x].key
          /\ u[x].child = v[x].child /\ u[x].next = v[x].next
          /\ x \notin {o, n} => u[x].parent = v[x].parent

(* NewRoot gives the root two children.                                    *)
LEMMA NewRootOf ==
    ASSUME NEW v, Heap(v), NEW o \in DOMAIN v, NEW n \in DOMAIN v, o # root, n # root,
           NEW s \in Nat, NEW u, u = NewRoot(v, o, s, n)
    PROVE  Rooted(v, u, o, s, n)
  <1>1. PICK e \in Node : e = EmptyNode(FALSE) /\ e.parent = NULL /\ e.next = NULL
    BY EmptyNodeIs
  <1>2. PICK w : w = With(v, root, e)
    OBVIOUS
  <1>3. Added(v, w, root, e)
    BY <1>1, <1>2, WithOf
  <1>4. /\ Heap(w) /\ DOMAIN w = DOMAIN v /\ w[root] = e /\ root \in DOMAIN v
        /\ \A x \in DOMAIN v \ {root} : w[x] = v[x]
    <2>1. root \in DOMAIN v
      BY DEF Heap
    <2> QED BY <1>3, <2>1 DEF Added
  <1>5. <<o, n>> \in Seq(Nat) /\ <<s>> \in Seq(Nat) /\ Members(<<o, n>>) = {o, n}
    <2>1. o \in Nat /\ n \in Nat
      BY BPTreeAssumption DEF Heap, root
    <2>2. \A x : x \in Members(<<o, n>>) <=> x \in {o, n}
      BY DEF Members
    <2> QED BY <2>1, <2>2
  <1>6. u = put_inner(w, root, <<s>>, <<o, n>>)
    BY <1>1, <1>2 DEF NewRoot
  <1>7. PICK K \in Seq(Nat), C \in Seq(Nat) : K = <<s>> /\ C = <<o, n>>
    BY <1>5
  <1>8. Put(w, u, root, K, C)
    <2>1. u = put_inner(w, root, K, C) /\ root \in DOMAIN w
      BY <1>4, <1>6, <1>7
    <2> QED BY <1>4, <2>1, PutInnerOf
  <1>9. /\ Heap(u) /\ DOMAIN u = DOMAIN w
        /\ ~u[root].leaf /\ u[root].item = <<>> /\ u[root].key = K /\ u[root].child = C
        /\ \A x \in DOMAIN w :
              /\ u[x].next = w[x].next
              /\ x \in {o, n} => u[x].parent = root
              /\ x \notin {o, n} => u[x].parent = w[x].parent
              /\ x # root => /\ u[x].leaf = w[x].leaf /\ u[x].item = w[x].item
                             /\ u[x].key = w[x].key /\ u[x].child = w[x].child
    <2>1. Members(C) = {o, n}
      BY <1>5, <1>7
    <2> QED BY <1>8, <2>1 DEF Put
  <1>10. u[root].parent = NULL /\ u[root].next = NULL
    BY <1>1, <1>4, <1>9
  <1>11. ASSUME NEW x \in DOMAIN v \ {root}
         PROVE  /\ u[x].leaf = v[x].leaf /\ u[x].item = v[x].item /\ u[x].key = v[x].key
                /\ u[x].child = v[x].child /\ u[x].next = v[x].next
                /\ x \notin {o, n} => u[x].parent = v[x].parent
    BY <1>4, <1>9
  <1> QED BY <1>4, <1>7, <1>9, <1>10, <1>11 DEF Rooted

(* The root has no room and is split, below a new one.                     *)
Topping(m, keys, children, n, o, u) ==
    /\ Len(keys) = 4 /\ n \in Pool /\ n \notin DOMAIN m /\ o \in Pool /\ o \notin DOMAIN m /\ o # n
    /\ \E t1, t, v :
          /\ t1 = With(m, n, EmptyNode(FALSE)) /\ t = With(t1, o, EmptyNode(FALSE))
          /\ v = put_inner(put_inner(t, o, LeftKeys(keys), Taken(children, Len(keys) \div 2 + 1)),
                           n, RightKeys(keys), Left(children, Len(keys) \div 2 + 1))
          /\ u = NewRoot(v, o, Middle(keys), n)

(* What that leaves.                                                       *)
ToppingTo(m, keys, children, n, o, u, I, J) ==
    /\ Heap(u) /\ DOMAIN u = DOMAIN m \cup {n, o}
    /\ ~u[root].leaf /\ u[root].item = <<>> /\ u[root].key = <<keys[3]>> /\ u[root].child = <<o, n>>
    /\ u[root].parent = NULL /\ u[root].next = NULL
    /\ ~u[o].leaf /\ u[o].item = <<>> /\ u[o].child = I /\ u[o].parent = root /\ u[o].next = NULL
    /\ ~u[n].leaf /\ u[n].item = <<>> /\ u[n].child = J /\ u[n].parent = root /\ u[n].next = NULL
    /\ Len(u[o].key) = 2 /\ u[o].key[1] = keys[1] /\ u[o].key[2] = keys[2]
    /\ Len(u[n].key) = 1 /\ u[n].key[1] = keys[4]
    /\ I \in Seq(Nat) /\ J \in Seq(Nat) /\ I \o J = children /\ Len(I) = 3 /\ Len(J) = 2
    /\ \A x \in DOMAIN m \ {root} :
          /\ u[x].next = m[x].next
          /\ x \in Members(I) => u[x].parent = o
          /\ x \in Members(J) => u[x].parent = n
          /\ x \notin Members(children) => u[x].parent = m[x].parent
          /\ u[x].leaf = m[x].leaf /\ u[x].item = m[x].item
          /\ u[x].key = m[x].key /\ u[x].child = m[x].child

(* The heap that add_parent leaves when it splits the root, in terms of a  *)
(* split.                                                                  *)
LEMMA ToppingOf ==
    ASSUME NEW m, Heap(m), NEW keys \in Seq(Nat), NEW children \in Seq(Nat),
           Len(children) = 5, Distinct(children), \A x \in Members(children) : x \in DOMAIN m,
           NEW n, NEW o, NEW u, Topping(m, keys, children, n, o, u)
    PROVE  \E I, J : ToppingTo(m, keys, children, n, o, u, I, J)
  <1>1. /\ Len(keys) = 4 /\ n \in Pool /\ n \notin DOMAIN m /\ o \in Pool /\ o \notin DOMAIN m
        /\ o # n /\ root \in DOMAIN m
    BY DEF Topping, Heap
  <1>2. PICK t1, t, v :
          /\ t1 = With(m, n, EmptyNode(FALSE)) /\ t = With(t1, o, EmptyNode(FALSE))
          /\ v = put_inner(put_inner(t, o, LeftKeys(keys), Taken(children, Len(keys) \div 2 + 1)),
                           n, RightKeys(keys), Left(children, Len(keys) \div 2 + 1))
          /\ u = NewRoot(v, o, Middle(keys), n)
    BY DEF Topping
  <1>3. PICK e \in Node : e = EmptyNode(FALSE) /\ e.parent = NULL /\ e.next = NULL
    BY EmptyNodeIs
  <1>4. Added(m, t1, n, e)
    BY <1>1, <1>2, <1>3, WithOf
  <1>5. /\ Heap(t1) /\ DOMAIN t1 = DOMAIN m \cup {n} /\ t1[n] = e
        /\ \A x \in DOMAIN m : x # n => t1[x] = m[x]
    BY <1>4 DEF Added
  <1>6. Added(t1, t, o, e)
    BY <1>1, <1>2, <1>3, <1>5, WithOf
  <1>7. /\ Heap(t) /\ DOMAIN t = DOMAIN m \cup {n, o} /\ t[n] = e /\ t[o] = e
        /\ \A x \in DOMAIN m : t[x] = m[x]
    <2>1. /\ Heap(t) /\ DOMAIN t = DOMAIN t1 \cup {o} /\ t[o] = e
          /\ \A x \in DOMAIN t1 : x # o => t[x] = t1[x]
      BY <1>6 DEF Added
    <2> QED BY <1>1, <1>5, <2>1
  <1>8. \E I, J : Halved(t, v, o, n, keys, children, I, J)
    <2>1. PICK cut : cut = Len(keys) \div 2 + 1
      OBVIOUS
    <2>2. v = put_inner(put_inner(t, o, LeftKeys(keys), Taken(children, cut)),
                        n, RightKeys(keys), Left(children, cut))
      BY <1>2, <2>1
    <2>3. o \in DOMAIN t /\ n \in DOMAIN t
      BY <1>7
    <2> QED BY <1>1, <1>7, <2>1, <2>2, <2>3, HalvesOf
  <1>9. PICK I, J : Halved(t, v, o, n, keys, children, I, J)
    BY <1>8
  <1>10. /\ Heap(v) /\ DOMAIN v = DOMAIN t
         /\ ~v[o].leaf /\ v[o].item = <<>> /\ v[o].child = I
         /\ ~v[n].leaf /\ v[n].item = <<>> /\ v[n].child = J
         /\ Len(v[o].key) = 2 /\ v[o].key[1] = keys[1] /\ v[o].key[2] = keys[2]
         /\ Len(v[n].key) = 1 /\ v[n].key[1] = keys[4]
         /\ I \in Seq(Nat) /\ J \in Seq(Nat) /\ I \o J = children /\ Len(I) = 3 /\ Len(J) = 2
    BY <1>9 DEF Halved
  <1>11. \A x \in DOMAIN t :
          /\ v[x].next = t[x].next
          /\ x \in Members(I) => v[x].parent = o
          /\ x \in Members(J) => v[x].parent = n
          /\ x \notin Members(children) => v[x].parent = t[x].parent
          /\ x \notin {o, n} => /\ v[x].leaf = t[x].leaf /\ v[x].item = t[x].item
                                /\ v[x].key = t[x].key /\ v[x].child = t[x].child
    BY <1>9 DEF Halved
  <1>12. PICK s \in Nat : s = Middle(keys) /\ s = keys[3]
    BY <1>1, CutOf
  <1>13. Rooted(v, u, o, s, n)
    <2>1. o \in DOMAIN v /\ n \in DOMAIN v /\ o # root /\ n # root
      BY <1>1, <1>7, <1>10
    <2>2. u = NewRoot(v, o, s, n)
      BY <1>2, <1>12
    <2> QED BY <1>10, <2>1, <2>2, NewRootOf
  <1>14. /\ Heap(u) /\ DOMAIN u = DOMAIN v
         /\ ~u[root].leaf /\ u[root].item = <<>> /\ u[root].key = <<s>> /\ u[root].child = <<o, n>>
         /\ u[root].parent = NULL /\ u[root].next = NULL
         /\ u[o].parent = root /\ u[n].parent = root
         /\ \A x \in DOMAIN v \ {root} :
              /\ u[x].leaf = v[x].leaf /\ u[x].item = v[x].item /\ u[x].key = v[x].key
              /\ u[x].child = v[x].child /\ u[x].next = v[x].next
              /\ x \notin {o, n} => u[x].parent = v[x].parent
    BY <1>13 DEF Rooted
  <1>15. ASSUME NEW x \in DOMAIN m \ {root}
         PROVE  /\ u[x].next = m[x].next
                /\ x \in Members(I) => u[x].parent = o
                /\ x \in Members(J) => u[x].parent = n
                /\ x \notin Members(children) => u[x].parent = m[x].parent
                /\ u[x].leaf = m[x].leaf /\ u[x].item = m[x].item
                /\ u[x].key = m[x].key /\ u[x].child = m[x].child
    <2>1. x \notin {o, n} /\ x \in DOMAIN t /\ x \in DOMAIN v \ {root} /\ t[x] = m[x]
      BY <1>1, <1>7, <1>10
    <2>2. /\ u[x].leaf = v[x].leaf /\ u[x].item = v[x].item /\ u[x].key = v[x].key
          /\ u[x].child = v[x].child /\ u[x].next = v[x].next /\ u[x].parent = v[x].parent
      BY <1>14, <2>1
    <2> QED BY <1>11, <2>1, <2>2
  <1>16. ASSUME NEW x \in {o, n}
         PROVE  /\ u[x].leaf = v[x].leaf /\ u[x].item = v[x].item /\ u[x].key = v[x].key
                /\ u[x].child = v[x].child /\ u[x].next = NULL
    <2>1. x \in DOMAIN v \ {root} /\ x \in DOMAIN t /\ t[x].next = NULL
      BY <1>1, <1>3, <1>7, <1>10
    <2> QED BY <1>11, <1>14, <2>1
  <1>17. ToppingTo(m, keys, children, n, o, u, I, J)
    BY <1>7, <1>10, <1>12, <1>14, <1>15, <1>16 DEF ToppingTo
  <1> QED BY <1>17

(* The keys and the children of the new root.                              *)
LEMMA RootLists ==
    ASSUME NEW o \in Nat, NEW n \in Nat, NEW s \in Nat
    PROVE  InsertAt(<<o>>, 2, n) = <<o, n>> /\ InsertAt(<<>>, 1, s) = <<s>>
  <1>1. PICK S : S = Nat
    OBVIOUS
  <1>2. o \in S /\ n \in S /\ s \in S
    BY <1>1
  <1>3. InsertAt(<<o>>, 2, n) = <<o, n>>
    <2>1. PICK r : r = InsertAt(<<o>>, 2, n)
      OBVIOUS
    <2>2. <<o>> \in Seq(S) /\ 2 \in 1 .. Len(<<o>>) + 1
      BY <1>2
    <2>3. Inserted(S, <<o>>, 2, n, r)
      BY <1>2, <2>1, <2>2, InsertedList
    <2>4. r \in Seq(S) /\ Len(r) = 2 /\ r[1] = o /\ r[2] = n
      BY <2>3 DEF Inserted
    <2>5. r = <<o, n>>
      BY <2>4
    <2> QED BY <2>1, <2>5
  <1>4. InsertAt(<<>>, 1, s) = <<s>>
    <2>1. PICK r : r = InsertAt(<<>>, 1, s)
      OBVIOUS
    <2>2. <<>> \in Seq(S) /\ 1 \in 1 .. Len(<<>>) + 1
      OBVIOUS
    <2>3. Inserted(S, <<>>, 1, s, r)
      BY <1>2, <2>1, <2>2, InsertedList
    <2>4. r \in Seq(S) /\ Len(r) = 1 /\ r[1] = s
      BY <2>3 DEF Inserted
    <2>5. r = <<s>>
      BY <2>4
    <2> QED BY <2>1, <2>5
  <1> QED BY <1>3, <1>4

(* The tree is one level higher.                                           *)
Topped(m, u, W, l, D, U, F, n, o) ==
    /\ W = U \cup {o} \cup {n} /\ Good(u, W, l, D, {}) /\ D[root] = F[root]
    /\ DOMAIN u = DOMAIN m \cup {n, o}

(* That call of add_parent leaves a tree, one level higher.                *)
LEMMA PendingTop ==
    ASSUME NEW m, NEW left, NEW sep, NEW b, NEW V, NEW U, NEW k, NEW F, NEW i,
           Pending(m, left, sep, b, V, U, k, F, root, i),
           NEW keys, keys = InsertAt(m[root].key, i, sep),
           NEW children, children = InsertAt(m[root].child, i + 1, b),
           NEW n, NEW o, NEW u, Topping(m, keys, children, n, o, u)
    PROVE  \E W, l, D : Topped(m, u, W, l, D, U, F, n, o)
  <1>1. PendingTo(m, left, V, U, k, F, root, i, keys, children)
    BY PendingOf
  <1>2. /\ Tree(V, U, k, F) /\ Heap(m) /\ DOMAIN m = DOMAIN V
        /\ root \in U /\ root \in DOMAIN m /\ ~V[root].leaf /\ V[root].item = <<>>
        /\ V[root].key = keys /\ V[root].child = children
        /\ \A x \in U \ {root} : m[x] = V[x]
        /\ keys \in Seq(Nat) /\ children \in Seq(Nat) /\ Distinct(children)
        /\ Len(keys) + 1 = Len(children)
        /\ \A x \in Members(children) : x \in U /\ x # root /\ V[x].parent = root
    BY <1>1 DEF PendingTo
  <1>3. Keyed(V, U, F) /\ Sized(V, U, {root}) /\ Chained(V, U, F)
    BY DEF Pending
  <1>4. /\ Len(keys) = 4 /\ Len(children) = 5 /\ n \in Pool /\ n \notin DOMAIN m
        /\ o \in Pool /\ o \notin DOMAIN m /\ o # n
    BY <1>2 DEF Topping
  <1>5. U \subseteq DOMAIN m /\ o \notin U /\ n \notin U
    BY <1>2, <1>4, TreeTypes
  <1>6. PICK I, J : ToppingTo(m, keys, children, n, o, u, I, J)
    <2>1. \A x \in Members(children) : x \in DOMAIN m
      BY <1>2, <1>5
    <2> QED BY <1>2, <1>4, <2>1, ToppingOf
  <1>7. /\ Heap(u) /\ DOMAIN u = DOMAIN m \cup {n, o}
        /\ ~u[root].leaf /\ u[root].item = <<>> /\ u[root].key = <<keys[3]>> /\ u[root].child = <<o, n>>
        /\ u[root].parent = NULL /\ u[root].next = NULL
        /\ ~u[o].leaf /\ u[o].item = <<>> /\ u[o].child = I /\ u[o].parent = root /\ u[o].next = NULL
        /\ ~u[n].leaf /\ u[n].item = <<>> /\ u[n].child = J /\ u[n].parent = root /\ u[n].next = NULL
        /\ Len(u[o].key) = 2 /\ u[o].key[1] = keys[1] /\ u[o].key[2] = keys[2]
        /\ Len(u[n].key) = 1 /\ u[n].key[1] = keys[4]
        /\ I \in Seq(Nat) /\ J \in Seq(Nat) /\ I \o J = children /\ Len(I) = 3 /\ Len(J) = 2
    BY <1>6 DEF ToppingTo
  <1>8. \A x \in DOMAIN m \ {root} :
          /\ u[x].next = m[x].next
          /\ x \in Members(I) => u[x].parent = o
          /\ x \in Members(J) => u[x].parent = n
          /\ x \notin Members(children) => u[x].parent = m[x].parent
          /\ u[x].leaf = m[x].leaf /\ u[x].item = m[x].item
          /\ u[x].key = m[x].key /\ u[x].child = m[x].child
    BY <1>6 DEF ToppingTo
  <1>9. Members(children) = Members(I) \cup Members(J)
    <2>1. I \in Seq(Nat) /\ J \in Seq(Nat) /\ I \o J = children
      BY <1>7
    <2>2. PICK S : S = Nat
      OBVIOUS
    <2>3. I \in Seq(S) /\ J \in Seq(S)
      BY <2>1, <2>2
    <2>4. Members(I \o J) = Members(I) \cup Members(J)
      BY <2>3, MembersConcat
    <2> QED BY <2>1, <2>4
  <1>10. F[root] # {}
    <2>1. PICK c : c = V[root].child[1]
      OBVIOUS
    <2>2. 1 \in 1 .. Len(V[root].child)
      BY <1>2, <1>4
    <2>3. Tree(V, U, k, F) /\ root \in U
      BY <1>2
    <2>4. F[c] # {} /\ F[c] \subseteq F[root]
      BY <2>1, <2>2, <2>3, ChildOf
    <2> QED BY <2>4
  <1>11. PICK W : W = Regrown(V, o)
    OBVIOUS
  <1>12. Grown(V, W, U, k, F, o)
    <2>1. o \notin DOMAIN V
      BY <1>2, <1>4
    <2> QED BY <1>2, <1>3, <1>4, <1>10, <1>11, <2>1, RegrownOf
  <1>13. /\ W[o].leaf = V[root].leaf /\ W[o].item = V[root].item /\ W[o].child = V[root].child
         /\ W[o].parent = root
         /\ ~W[root].leaf /\ W[root].item = <<>> /\ W[root].child = <<o>> /\ W[root].parent = NULL
         /\ W[o].key = V[root].key /\ W[o].next = NULL /\ W[root].key = <<>> /\ W[root].next = NULL
         /\ \A x \in U \ {root} :
              /\ W[x].leaf = V[x].leaf /\ W[x].item = V[x].item /\ W[x].child = V[x].child
              /\ W[x].parent = IF V[x].parent = root THEN o ELSE V[x].parent
              /\ W[x].key = V[x].key /\ W[x].next = V[x].next
    BY <1>12 DEF Grown, Growing
  <1>14. DOMAIN W = DOMAIN V \cup {o}
    BY <1>11 DEF Regrown
  <1>15. PICK U2, k2, F2 : Higher(W, U, F, o, U2, k2, F2)
    BY <1>12, GrowGood
  <1>16. /\ U2 = U \cup {o} /\ Tree(W, U2, k2, F2) /\ Keyed(W, U2, F2) /\ Sized(W, U2, {o, root})
         /\ Chained(W, U2, F2) /\ F2[root] = F[root]
    BY <1>15 DEF Higher
  <1>17. PICK s \in Nat : s = keys[3]
    <2>1. keys \in Seq(Nat) /\ 3 \in 1 .. Len(keys)
      BY <1>2, <1>4
    <2> QED BY <2>1, ElementOfSeq
  <1>18. W[o].leaf = FALSE /\ u[o].leaf = FALSE /\ u[n].leaf = FALSE
    <2>1. Heap(V) /\ root \in DOMAIN V /\ o \in DOMAIN u /\ n \in DOMAIN u
      BY <1>2, <1>7, TreeTypes
    <2>2. V[root].leaf \in BOOLEAN
      BY <2>1, NodeTypes
    <2>3. u[o].leaf \in BOOLEAN /\ u[n].leaf \in BOOLEAN
      BY <1>7, <2>1, NodeTypes
    <2> QED BY <1>2, <1>7, <1>13, <2>2, <2>3
  <1>19. ASSUME NEW x \in U2 \ {o, root}
         PROVE  /\ u[x].leaf = W[x].leaf /\ u[x].item = W[x].item /\ u[x].child = W[x].child
                /\ u[x].key = W[x].key /\ u[x].next = W[x].next
                /\ W[x].parent # o => u[x].parent = W[x].parent
    <2>1. x \in U \ {root} /\ x \in DOMAIN m \ {root} /\ m[x] = V[x]
      BY <1>2, <1>5, <1>16
    <2>2. ASSUME W[x].parent # o PROVE u[x].parent = W[x].parent
      <3>1. V[x].parent # root /\ W[x].parent = V[x].parent
        BY <1>13, <2>1, <2>2
      <3>2. x \notin Members(children)
        BY <1>2, <3>1
      <3> QED BY <1>8, <2>1, <3>1, <3>2
    <2> QED BY <1>8, <1>13, <2>1, <2>2
  <1>20. o \in Nat /\ n \in Nat /\ o # root /\ n # root
    BY <1>2, <1>4, BPTreeAssumption
  <1>21. InsertAt(<<o>>, 2, n) = <<o, n>> /\ InsertAt(<<>>, 1, s) = <<s>>
    BY <1>17, <1>20, RootLists
  <1>22. Splitting(W, u, U2, k2, F2, root, o, n, 1, s)
    <2>1. /\ Tree(W, U2, k2, F2) /\ Heap(u) /\ DOMAIN W \subseteq DOMAIN u
          /\ Keyed(W, U2, F2) /\ Sized(W, U2, {o, root})
          /\ n \in DOMAIN u /\ n \notin DOMAIN W /\ s \in Nat /\ root \in U2
      BY <1>2, <1>4, <1>7, <1>14, <1>16
    <2>2. 1 \in 1 .. Len(W[root].child) /\ W[root].child[1] = o
      BY <1>13
    <2>3. /\ ~u[root].leaf /\ u[root].item = <<>> /\ u[root].parent = W[root].parent
          /\ u[root].child = InsertAt(W[root].child, 1 + 1, n)
          /\ u[root].key = InsertAt(W[root].key, 1, s)
      BY <1>7, <1>13, <1>17, <1>21
    <2>4. /\ u[o].leaf = W[o].leaf /\ u[n].leaf = W[o].leaf /\ u[o].parent = root /\ u[n].parent = root
          /\ u[o].child \o u[n].child = W[o].child
      BY <1>2, <1>7, <1>13, <1>18
    <2>5. u[o].item = <<>> /\ u[n].item = <<>> /\ u[o].item \o u[n].item = W[o].item
      <3>1. u[o].item = <<>> /\ u[n].item = <<>> /\ W[o].item = <<>>
        BY <1>2, <1>7, <1>13
      <3>2. <<>> \o <<>> = <<>>
        OBVIOUS
      <3> QED BY <3>1, <3>2
    <2>6. u[o].child # <<>> /\ u[n].child # <<>>
      <3>1. \A s1 \in Seq(Nat) : Len(s1) # 0 => s1 # <<>>
        OBVIOUS
      <3>2. Len(I) = 3 /\ Len(J) = 2 /\ 3 # 0 /\ 2 # 0 /\ I \in Seq(Nat) /\ J \in Seq(Nat)
        BY <1>7
      <3>3. I # <<>>
        BY <3>1, <3>2
      <3>4. J # <<>>
        BY <3>1, <3>2
      <3> QED BY <1>7, <3>3, <3>4
    <2>7. /\ \A x \in Members(u[o].child) : u[x].parent = o
          /\ \A x \in Members(u[n].child) : u[x].parent = n
      <3> SUFFICES ASSUME NEW x \in Members(children)
                   PROVE  /\ x \in Members(I) => u[x].parent = o
                          /\ x \in Members(J) => u[x].parent = n
        BY <1>7, <1>9
      <3>1. x \in DOMAIN m \ {root}
        BY <1>2, <1>5
      <3> QED BY <1>8, <3>1
    <2> QED BY <1>18, <1>19, <2>1, <2>2, <2>3, <2>4, <2>5, <2>6, <2>7 DEF Splitting
  <1>23. InnerSplit(W, u, U2, k2, F2, root, o, n, 1, s)
    <2>1. u[n].next = NULL /\ \A x \in U2 : u[x].next = W[x].next
      BY <1>7, <1>13, <1>19
    <2>2. /\ Len(W[o].child) = 5 /\ Len(u[o].child) = 3 /\ Len(u[o].key) = 2 /\ Len(u[n].key) = 1
          /\ s = W[o].key[3] /\ u[o].key[1] = W[o].key[1] /\ u[o].key[2] = W[o].key[2]
          /\ u[n].key[1] = W[o].key[4]
      BY <1>2, <1>4, <1>7, <1>13, <1>17
    <2> QED BY <1>16, <1>18, <1>22, <2>1, <2>2 DEF InnerSplit
  <1>24. PICK U3, l, D : SplitTo(W, u, U2, k2, F2, root, o, n, U3, l, D)
    BY <1>23, InnerSplitGood
  <1>25. U3 = U \cup {o} \cup {n} /\ Good(u, U3, l, D, {root}) /\ D[root] = F[root]
    BY <1>16, <1>24 DEF SplitTo, SplitInto
  <1>26. SizedAt(u, root)
    <2>1. Len(u[root].child) = 2
      BY <1>7
    <2> QED BY <1>7, <2>1 DEF SizedAt, MAX_BPT_NODE_NUM
  <1>27. Good(u, U3, l, D, {})
    <2>1. Sized(u, U3, {root})
      BY <1>25 DEF Good
    <2>2. Sized(u, U3, {})
      BY <1>26, <2>1 DEF Sized
    <2> QED BY <1>25, <2>2 DEF Good
  <1>28. Topped(m, u, U3, l, D, U, F, n, o)
    BY <1>7, <1>25, <1>27 DEF Topped
  <1> QED BY <1>28

-----------------------------------------------------------------------------
(***************************************************************************)
(* Insertion: all calls of add_parent.                                     *)
(***************************************************************************)

(* The last call of add_parent has returned: the tree is in order again,   *)
(* with the entries R, or what is left of them when no node was.           *)
Done(s, R, all) ==
    /\ s.left = NULL /\ s.ret \in {0, 1}
    /\ \E V, k, F : /\ Good(s.mem, V, k, F, {})
                    /\ s.ret = 1 => F[root] = R /\ (all => V = DOMAIN s.mem)
    /\ s.ret = 0 => Available(s.mem) = {}

(* The next call is for a node of height n, in a tree of height H.         *)
Awaits(s, R, all, H, n) ==
    \E V, U, k, F, p, i :
        /\ Pending(s.mem, s.left, s.separator, s.right, V, U, k, F, p, i)
        /\ F[root] = R /\ (all => U = DOMAIN s.mem)
        /\ k[s.left] = n /\ k[root] = H

(* The node that waits for a parent is below the root.                     *)
LEMMA AwaitsLow ==
    ASSUME NEW s, NEW R, NEW all, NEW H, NEW n, Awaits(s, R, all, H, n)
    PROVE  n \in Nat /\ n < H /\ H < Rounds(s.mem)
  <1>1. PICK V, U, k, F, p, i :
          /\ Pending(s.mem, s.left, s.separator, s.right, V, U, k, F, p, i)
          /\ k[s.left] = n /\ k[root] = H
    BY DEF Awaits
  <1>2. PICK keys, children :
          /\ keys = InsertAt(s.mem[p].key, i, s.separator)
          /\ children = InsertAt(s.mem[p].child, i + 1, s.right)
    OBVIOUS
  <1>3. PendingTo(s.mem, s.left, V, U, k, F, p, i, keys, children)
    BY <1>1, <1>2, PendingOf
  <1>4. /\ Tree(V, U, k, F) /\ DOMAIN s.mem = DOMAIN V
        /\ k[s.left] \in Nat /\ k[s.left] < k[root]
    BY <1>3 DEF PendingTo
  <1>5. k[root] < Rounds(V)
    BY <1>4, Tall
  <1>6. Rounds(V) = Rounds(s.mem)
    BY <1>4 DEF Rounds
  <1> QED BY <1>1, <1>4, <1>5, <1>6

(* What a record that returns, or calls again, says.                       *)
LEMMA ReturnIs ==
    ASSUME NEW t, NEW r, NEW s, s = Return(t, r)
    PROVE  s.mem = t /\ s.ret = r /\ s.left = NULL
  BY DEF Return, Call

(* The fields of a call.                                                   *)
LEMMA CallIs ==
    ASSUME NEW t, NEW a, NEW b, NEW c, NEW s, s = Call(t, a, b, c)
    PROVE  s.mem = t /\ s.left = a /\ s.separator = b /\ s.right = c
  BY DEF Call

(* One call of add_parent.                                                 *)
LEMMA AwaitsNext ==
    ASSUME NEW s, NEW R, NEW all, NEW H, NEW h, Awaits(s, R, all, H, h),
           NEW z, z = AddToParent(s)
    PROVE  Done(z, R, all) \/ Awaits(z, R, all, H, h + 1)
  <1>1. PICK V, U, k, F, p, i :
          /\ Pending(s.mem, s.left, s.separator, s.right, V, U, k, F, p, i)
          /\ F[root] = R /\ (all => U = DOMAIN s.mem)
          /\ k[s.left] = h /\ k[root] = H
    BY DEF Awaits
  <1>2. PICK m, left, sep, b : m = s.mem /\ left = s.left /\ sep = s.separator /\ b = s.right
    OBVIOUS
  <1>3. Pending(m, left, sep, b, V, U, k, F, p, i)
    BY <1>1, <1>2
  <1>4. PICK keys, children : /\ keys = InsertAt(m[p].key, i, sep)
                              /\ children = InsertAt(m[p].child, i + 1, b)
    OBVIOUS
  <1>5. PendingTo(m, left, V, U, k, F, p, i, keys, children)
    BY <1>3, <1>4, PendingOf
  <1>6. /\ Heap(m) /\ p \in DOMAIN m /\ p # NULL /\ m[left].parent = p /\ IndexOf(m[p].child, left) = i
        /\ k[left] + 1 = k[p] /\ k[left] \in Nat
        /\ keys \in Seq(Nat) /\ children \in Seq(Nat) /\ Len(keys) \in 2 .. 4
        /\ Tree(V, U, k, F) /\ p \in U /\ V[p].parent = m[p].parent
    BY <1>5 DEF PendingTo
  <1>7. left # NULL /\ i # 0
    <2>1. i \in 1 .. Len(m[p].child)
      BY <1>3 DEF Pending, Losing
    <2> QED BY <1>3, <2>1 DEF Pending
  <1>8. CASE Len(keys) < MAX_BPT_NODE_NUM
    <2>1. PICK u : u = put_inner(m, p, keys, children)
      OBVIOUS
    <2>2. z = Return(u, 1)
      BY <1>2, <1>4, <1>6, <1>7, <1>8, <2>1 DEF AddToParent
    <2>3. Good(u, U, k, F, {}) /\ DOMAIN u = DOMAIN m
      BY <1>3, <1>4, <1>8, <2>1, PendingFits
    <2>4. z.mem = u /\ z.ret = 1 /\ z.left = NULL
      BY <2>2, ReturnIs
    <2>5. /\ Good(z.mem, U, k, F, {})
          /\ z.ret = 1 => F[root] = R /\ (all => U = DOMAIN z.mem)
      BY <1>1, <1>2, <2>3, <2>4
    <2> QED BY <2>4, <2>5 DEF Done
  <1>9. CASE ~(Len(keys) < MAX_BPT_NODE_NUM) /\ Available(m) = {}
    <2>1. z = Return(m, 0)
      BY <1>2, <1>4, <1>6, <1>7, <1>9 DEF AddToParent
    <2>2. z.mem = m /\ z.ret = 0 /\ z.left = NULL
      BY <2>1, ReturnIs
    <2>3. \E W, l, D : Good(m, W, l, D, {})
      BY <1>3, PendingLost
    <2> QED BY <1>9, <2>2, <2>3 DEF Done
  <1>10. CASE ~(Len(keys) < MAX_BPT_NODE_NUM) /\ Available(m) # {}
    <2>1. Len(keys) = 4
      <3>1. \A a \in 2 .. 4 : ~(a < 4) => a = 4
        OBVIOUS
      <3> QED BY <1>6, <1>10, <3>1 DEF MAX_BPT_NODE_NUM
    <2>2. PICK n : n = create_node(m)
      OBVIOUS
    <2>3. n \in Pool /\ n \notin DOMAIN m
      BY <1>6, <1>10, <2>2, FreshNode
    <2>4. PICK t1 : t1 = With(m, n, EmptyNode(FALSE))
      OBVIOUS
    <2>5. Heap(t1) /\ DOMAIN t1 = DOMAIN m \cup {n}
      <3>1. PICK e \in Node : e = EmptyNode(FALSE)
        BY EmptyNodeIs
      <3>2. Added(m, t1, n, e)
        BY <1>6, <2>3, <2>4, <3>1, WithOf
      <3> QED BY <3>2 DEF Added
    <2>6. CASE p = root /\ Available(t1) = {}
      <3>1. z = Return(t1, 0)
        BY <1>2, <1>4, <1>6, <1>7, <1>10, <2>2, <2>4, <2>6 DEF AddToParent
      <3>2. z.mem = t1 /\ z.ret = 0 /\ z.left = NULL
        BY <3>1, ReturnIs
      <3>3. PICK W, l, D : Good(m, W, l, D, {})
        BY <1>3, PendingLost
      <3>4. Good(t1, W, l, D, {})
        BY <2>3, <2>4, <3>3, GoodWith
      <3> QED BY <2>6, <3>2, <3>4 DEF Done
    <2>7. CASE p = root /\ Available(t1) # {}
      <3>1. PICK o : o = create_node(t1)
        OBVIOUS
      <3>2. o \in Pool /\ o \notin DOMAIN m /\ o # n
        <4>1. o \in Pool /\ o \notin DOMAIN t1
          BY <2>5, <2>7, <3>1, FreshNode
        <4> QED BY <2>5, <4>1
      <3>3. PICK t, v, u :
              /\ t = With(t1, o, EmptyNode(FALSE))
              /\ v = Halve(t, o, n, keys, children)
              /\ u = NewRoot(v, o, Middle(keys), n)
        OBVIOUS
      <3>4. z = Return(u, 1)
        BY <1>2, <1>4, <1>6, <1>7, <1>10, <2>2, <2>4, <2>7, <3>1, <3>3 DEF AddToParent
      <3>5. Topping(m, keys, children, n, o, u)
        BY <2>1, <2>3, <2>4, <3>2, <3>3 DEF Topping, Halve
      <3>6. Pending(m, left, sep, b, V, U, k, F, root, i)
        BY <1>3, <2>7
      <3>7. keys = InsertAt(m[root].key, i, sep) /\ children = InsertAt(m[root].child, i + 1, b)
        BY <1>4, <2>7
      <3>8. PICK W, l, D : Topped(m, u, W, l, D, U, F, n, o)
        BY <3>5, <3>6, <3>7, PendingTop
      <3>9. /\ W = U \cup {o} \cup {n} /\ Good(u, W, l, D, {}) /\ D[root] = F[root]
            /\ DOMAIN u = DOMAIN m \cup {n, o}
        BY <3>8 DEF Topped
      <3>10. z.mem = u /\ z.ret = 1 /\ z.left = NULL
        BY <3>4, ReturnIs
      <3>11. all => W = DOMAIN z.mem
        BY <1>1, <1>2, <3>9, <3>10
      <3>12. Good(z.mem, W, l, D, {}) /\ D[root] = R
        BY <1>1, <3>9, <3>10
      <3> QED BY <3>10, <3>11, <3>12 DEF Done
    <2>8. CASE p # root
      <3>1. PICK v, w :
              /\ v = Halve(t1, p, n, keys, children)
              /\ w = [v EXCEPT ![n].parent = m[p].parent]
        OBVIOUS
      <3>2. z = Call(w, p, Middle(keys), n)
        <4>1. V[p].parent # NULL
          BY <1>6, <2>8, ParentOf
        <4>2. m[p].parent # NULL
          BY <1>6, <4>1
        <4> QED BY <1>2, <1>4, <1>6, <1>7, <1>10, <2>2, <2>4, <2>8, <3>1, <4>2 DEF AddToParent
      <3>3. Upper(m, p, keys, children, n, w)
        BY <2>1, <2>3, <2>4, <2>8, <3>1 DEF Upper, Halve
      <3>4. PICK W, l, D, q, j : Raised(m, w, p, Middle(keys), n, W, l, D, q, j, U, k, F)
        BY <1>3, <1>4, <3>3, PendingUp
      <3>5. /\ Pending(w, p, Middle(keys), n, W, U \cup {n}, l, D, q, j)
            /\ l[p] = k[p] /\ l[root] = k[root] /\ D[root] = F[root]
            /\ DOMAIN w = DOMAIN m \cup {n}
        BY <3>4 DEF Raised
      <3>6. z.mem = w /\ z.left = p /\ z.separator = Middle(keys) /\ z.right = n
        BY <3>2, CallIs
      <3>7. Pending(z.mem, z.left, z.separator, z.right, W, U \cup {n}, l, D, q, j)
        BY <3>5, <3>6
      <3>8. all => U \cup {n} = DOMAIN z.mem
        BY <1>1, <1>2, <3>5, <3>6
      <3>9. D[root] = R /\ l[z.left] = h + 1 /\ l[root] = H
        BY <1>1, <1>2, <1>6, <3>5, <3>6
      <3> QED BY <3>7, <3>8, <3>9 DEF Awaits
    <2> QED BY <2>6, <2>7, <2>8
  <1> QED BY <1>8, <1>9, <1>10

(* The calls of add_parent, one after the other.                           *)
Calling(g, s, n) == g = [m \in 0 .. n |-> IF m = 0 THEN s ELSE AddToParent(g[m - 1])]

(* The calls of add_parent, as a function of their number.                 *)
LEMMA CallingThere ==
    ASSUME NEW s, NEW n \in Nat
    PROVE  \E g : Calling(g, s, n)
  <1> DEFINE T == {i \in Nat : \E g : g = [m \in 0 .. i |->
                                              IF m = 0 THEN s ELSE AddToParent(g[m - 1])]}
  <1>1. 0 \in T
    <2> DEFINE g == [m \in 0 .. 0 |-> s]
    <2>1. g = [m \in 0 .. 0 |-> IF m = 0 THEN s ELSE AddToParent(g[m - 1])]
      OBVIOUS
    <2> QED BY <2>1
  <1>2. ASSUME NEW i \in Nat, i \in T PROVE i + 1 \in T
    <2>1. PICK g : g = [m \in 0 .. i |-> IF m = 0 THEN s ELSE AddToParent(g[m - 1])]
      BY <1>2
    <2> DEFINE k == [m \in 0 .. i + 1 |-> IF m = 0 THEN s ELSE AddToParent(g[m - 1])]
    <2>2. \A m \in 0 .. i : k[m] = g[m]
      BY <2>1
    <2>3. \A m \in 0 .. i + 1 : m = 0 \/ m - 1 \in 0 .. i
      OBVIOUS
    <2>4. \A m \in 0 .. i + 1 : k[m] = (IF m = 0 THEN s ELSE AddToParent(k[m - 1]))
      BY <2>2, <2>3
    <2>5. k = [m \in 0 .. i + 1 |-> IF m = 0 THEN s ELSE AddToParent(k[m - 1])]
      <3> DEFINE l == [m \in 0 .. i + 1 |-> IF m = 0 THEN s ELSE AddToParent(k[m - 1])]
      <3>1. \A m \in 0 .. i + 1 : l[m] = k[m]
        BY <2>4
      <3>2. DOMAIN l = 0 .. i + 1 /\ DOMAIN k = 0 .. i + 1
        OBVIOUS
      <3> QED BY <3>1, <3>2
    <2>6. \E l : l = [m \in 0 .. i + 1 |-> IF m = 0 THEN s ELSE AddToParent(l[m - 1])]
      <3> HIDE DEF k
      <3> QED BY <2>5, Zenon
    <2>7. i + 1 \in Nat
      OBVIOUS
    <2> QED BY <2>6, <2>7, Zenon
  <1>3. n \in T
    <2> HIDE DEF T
    <2> QED BY <1>1, <1>2, SetInduction
  <1> QED BY <1>3, Zenon DEF Calling

(* add_parent is the last of these calls.                                  *)
LEMMA CallingRun ==
    ASSUME NEW t, NEW left, NEW sep, NEW right, Rounds(t) \in Nat,
           NEW z, z = add_parent(t, left, sep, right)
    PROVE  \E g : /\ g[0] = Call(t, left, sep, right)
                  /\ \A m \in 1 .. Rounds(t) : g[m] = AddToParent(g[m - 1])
                  /\ g[Rounds(t)] = z
  <1> DEFINE s == Call(t, left, sep, right)
             n == Rounds(t)
             g == CHOOSE g : g = [m \in 0 .. n |-> IF m = 0 THEN s ELSE AddToParent(g[m - 1])]
  <1>1. g = [m \in 0 .. n |-> IF m = 0 THEN s ELSE AddToParent(g[m - 1])]
    <2>1. \E k : Calling(k, s, n)
      BY CallingThere
    <2>2. \E k : k = [m \in 0 .. n |-> IF m = 0 THEN s ELSE AddToParent(k[m - 1])]
      BY <2>1, Zenon DEF Calling
    <2> QED BY <2>2, Zenon
  <1>2. g[n] = z
    BY Zenon DEF add_parent
  <1> HIDE DEF g
  <1>3. \A m \in 0 .. n : g[m] = (IF m = 0 THEN s ELSE AddToParent(g[m - 1]))
    BY <1>1
  <1>4. 0 \in 0 .. n /\ 1 .. n \subseteq 0 .. n /\ 0 \notin 1 .. n
    OBVIOUS
  <1>5. g[0] = s /\ \A m \in 1 .. n : g[m] = AddToParent(g[m - 1])
    BY <1>3, <1>4
  <1> QED BY <1>2, <1>5

(* The last of them leaves the tree in order.                              *)
LEMMA AddParentDone ==
    ASSUME NEW t, NEW left, NEW sep, NEW right, NEW R, NEW all, NEW H,
           NEW s, s = Call(t, left, sep, right), Awaits(s, R, all, H, 0),
           NEW z, z = add_parent(t, left, sep, right)
    PROVE  Done(z, R, all)
  <1>1. H < Rounds(t) /\ s.mem = t /\ H \in Nat /\ Rounds(t) \in Nat
    <2>1. s.mem = t
      BY CallIs
    <2>2. H < Rounds(s.mem)
      BY AwaitsLow
    <2>3. H \in Nat /\ Rounds(t) \in Nat
      <3>1. PICK V, U, k, F, p, i :
              Pending(s.mem, s.left, s.separator, s.right, V, U, k, F, p, i) /\ k[root] = H
        BY DEF Awaits
      <3>2. Tree(V, U, k, F) /\ DOMAIN s.mem = DOMAIN V
        BY <3>1 DEF Pending, Losing
      <3>3. k[root] \in Nat /\ Rounds(V) \in Nat
        BY <3>2, Tall
      <3> QED BY <2>1, <3>1, <3>2, <3>3 DEF Rounds
    <2> QED BY <2>1, <2>2, <2>3
  <1>2. PICK g : /\ g[0] = Call(t, left, sep, right)
                 /\ \A m \in 1 .. Rounds(t) : g[m] = AddToParent(g[m - 1])
                 /\ g[Rounds(t)] = z
    BY <1>1, CallingRun
  <1>3. PICK N \in Nat : N = Rounds(t)
    BY <1>1
  <1> DEFINE Q == {m \in Nat : m <= N => Done(g[m], R, all) \/ Awaits(g[m], R, all, H, m)}
  <1>4. 0 \in Q
    BY <1>2
  <1>5. ASSUME NEW m \in Nat, m \in Q PROVE m + 1 \in Q
    <2> SUFFICES ASSUME m + 1 <= N
                 PROVE  Done(g[m + 1], R, all) \/ Awaits(g[m + 1], R, all, H, m + 1)
      OBVIOUS
    <2>1. m + 1 \in 1 .. N /\ (m + 1) - 1 = m /\ m <= N
      OBVIOUS
    <2>2. PICK a, b : a = g[m] /\ b = g[m + 1]
      OBVIOUS
    <2>3. b = AddToParent(a)
      BY <1>2, <1>3, <2>1, <2>2
    <2>4. Done(a, R, all) \/ Awaits(a, R, all, H, m)
      BY <1>5, <2>1, <2>2
    <2>5. CASE Done(a, R, all)
      <3>1. a.left = NULL
        BY <2>5 DEF Done
      <3>2. b = a
        BY <2>3, <3>1 DEF AddToParent
      <3> QED BY <2>2, <2>5, <3>2
    <2>6. CASE Awaits(a, R, all, H, m)
      <3>1. Done(b, R, all) \/ Awaits(b, R, all, H, m + 1)
        BY <2>3, <2>6, AwaitsNext
      <3> QED BY <2>2, <3>1
    <2> QED BY <2>4, <2>5, <2>6
  <1>6. N \in Q
    <2> HIDE DEF Q
    <2> QED BY <1>4, <1>5, SetInduction
  <1>7. Done(z, R, all) \/ Awaits(z, R, all, H, N)
    BY <1>2, <1>3, <1>6
  <1>8. ASSUME Awaits(z, R, all, H, N) PROVE FALSE
    <2>1. N < H
      BY <1>8, AwaitsLow
    <2> QED BY <1>1, <1>3, <2>1
  <1> QED BY <1>7, <1>8

-----------------------------------------------------------------------------
(***************************************************************************)
(* Insertion: the leaf, and bpt_insert.                                    *)
(***************************************************************************)

(* A leaf with other entries.                                              *)
WithItems(t, a, s) == [t EXCEPT ![a].item = s]
Refilled(t, u, a, s) ==
    /\ Heap(u) /\ DOMAIN u = DOMAIN t /\ \A x \in DOMAIN t : x # a => u[x] = t[x]
    /\ u[a].leaf = t[a].leaf /\ u[a].item = s /\ u[a].key = t[a].key
    /\ u[a].child = t[a].child /\ u[a].next = t[a].next /\ u[a].parent = t[a].parent

(* A leaf is given other entries.                                          *)
LEMMA WithItemsOf ==
    ASSUME NEW t, Heap(t), NEW a \in DOMAIN t, NEW s \in Seq(Entry), NEW u, u = WithItems(t, a, s)
    PROVE  Refilled(t, u, a, s)
  <1>1. t[a] \in Node
    BY NodeTypes
  <1>2. PICK y : y = [t[a] EXCEPT !.item = s]
    OBVIOUS
  <1>3. /\ y \in Node /\ y.leaf = t[a].leaf /\ y.item = s /\ y.key = t[a].key
        /\ y.child = t[a].child /\ y.next = t[a].next /\ y.parent = t[a].parent
    BY <1>1, <1>2 DEF Node
  <1>4. u = [x \in DOMAIN t |-> IF x = a THEN y ELSE t[x]]
    <2>1. t = [x \in DOMAIN t |-> t[x]]
      BY DEF Heap
    <2> QED BY <1>2, <2>1 DEF WithItems
  <1>5. DOMAIN u = DOMAIN t /\ u[a] = y /\ \A x \in DOMAIN t : x # a => u[x] = t[x]
    BY <1>4
  <1>6. u \in [DOMAIN u -> Node]
    <2>1. \A x \in DOMAIN u : u[x] \in Node
      BY <1>3, <1>5, NodeTypes
    <2> QED BY <1>4, <1>5, <2>1
  <1>7. Heap(u)
    BY <1>5, <1>6 DEF Heap
  <1> QED BY <1>3, <1>5, <1>7 DEF Refilled

(* A new entry is put into the leaf in which the search for it ends.       *)
Filling(t, T, h, E, n, v, leaf, old, larger, items, V) ==
    /\ Good(t, T, h, E, {}) /\ n \in Names /\ v \in Values
    /\ leaf = search_leaf(t, n.fnv) /\ old = t[leaf].item /\ larger = FirstFrom(old, n.fnv)
    /\ ~(larger # 0 /\ old[larger].fnv = n.fnv)
    /\ items = InsertAt(old, IF larger = 0 THEN Len(old) + 1 ELSE larger, Item(n, v))
    /\ V = WithItems(t, leaf, items)

(* The leaf may then be too full.                                          *)
Fuller(t, T, h, E, n, v, leaf, old, items, V, F) ==
    /\ Good(V, T, h, F, {leaf}) /\ F[root] = E[root] \cup {Item(n, v)} /\ F[root] # {}
    /\ leaf \in T /\ t[leaf].leaf /\ V[leaf].leaf /\ h[leaf] = 0 /\ SizedAt(t, leaf)
    /\ items \in Seq(Entry) /\ Len(items) = Len(old) + 1 /\ Len(old) \in 0 .. 3
    /\ Refilled(t, V, leaf, items) /\ \A e \in E[root] : e.fnv # n.fnv

(* The entry of a name.                                                    *)
LEMMA ItemIs ==
    ASSUME NEW n \in Names, NEW v \in Values
    PROVE  /\ Item(n, v) \in Entry /\ Item(n, v).fnv = n.fnv /\ Item(n, v).djb = n.djb
           /\ n.fnv \in Nat /\ n.djb \in Nat
  BY BPTreeAssumption DEF Item, Entry

(* bpt_insert into a leaf: the tree with the new entry in it, of which     *)
(* that leaf may be too large.                                             *)
LEMMA FillingGood ==
    ASSUME NEW t, NEW T, NEW h, NEW E, NEW n, NEW v, NEW leaf, NEW old, NEW larger, NEW items, NEW V,
           Filling(t, T, h, E, n, v, leaf, old, larger, items, V)
    PROVE  \E F : Fuller(t, T, h, E, n, v, leaf, old, items, V, F)
  <1>1. /\ Good(t, T, h, E, {}) /\ n \in Names /\ v \in Values
        /\ leaf = search_leaf(t, n.fnv) /\ old = t[leaf].item /\ larger = FirstFrom(old, n.fnv)
        /\ ~(larger # 0 /\ old[larger].fnv = n.fnv)
        /\ items = InsertAt(old, IF larger = 0 THEN Len(old) + 1 ELSE larger, Item(n, v))
        /\ V = WithItems(t, leaf, items)
    BY DEF Filling
  <1>2. /\ Tree(t, T, h, E) /\ Heap(t) /\ Keyed(t, T, E) /\ Sized(t, T, {}) /\ Chained(t, T, E)
    BY <1>1 DEF Good, Tree
  <1>3. PICK e \in Entry : e = Item(n, v) /\ e.fnv = n.fnv
    BY <1>1, ItemIs
  <1>4. n.fnv \in Nat
    BY <1>1, ItemIs
  <1>5. PICK P : Path(t, T, E, e.fnv, P, leaf)
    BY <1>1, <1>2, <1>3, <1>4, PathOf
  <1>6. /\ P \subseteq T /\ root \in P /\ leaf \in P /\ t[leaf].leaf /\ leaf \in T
        /\ \A x \in E[root] : x.fnv = e.fnv => x \in E[leaf]
    BY <1>5 DEF Path
  <1>7. T \subseteq DOMAIN t /\ h[leaf] \in Nat /\ root \in T
    BY <1>2, <1>6, TreeTypes
  <1>8. /\ old \in Seq(Entry) /\ E[leaf] = Members(old) /\ h[leaf] = 0
        /\ \A i, j \in 1 .. Len(old) : i < j => old[i].fnv < old[j].fnv
    BY <1>1, <1>2, <1>6, LeafOf
  <1>9. PICK i : i = (IF larger = 0 THEN Len(old) + 1 ELSE larger)
    OBVIOUS
  <1>10. Inserting(old, e, larger, i, items)
    <2>1. Ascending(old)
      BY <1>8 DEF Ascending
    <2>2. larger = FirstFrom(old, e.fnv) /\ ~(larger # 0 /\ old[larger].fnv = e.fnv)
      BY <1>1, <1>3
    <2>3. items = InsertAt(old, i, e)
      BY <1>1, <1>3, <1>9
    <2> QED BY <1>9, <2>1, <2>2, <2>3 DEF Inserting
  <1>11. /\ Ascending(items) /\ Len(items) = Len(old) + 1 /\ Members(items) = Members(old) \cup {e}
         /\ \A j \in 1 .. Len(old) : old[j].fnv # e.fnv
    BY <1>10, ItemsInserted
  <1>12. items \in Seq(Entry) /\ Row(Each(items)) /\ Whole(Each(items)) = E[leaf] \cup {e}
    <2>1. items \in Seq(Entry) /\ \A x, y \in 1 .. Len(items) : x < y => items[x].fnv < items[y].fnv
      BY <1>11 DEF Ascending
    <2> QED BY <1>8, <1>11, <2>1, WholeEach
  <1>13. Refilled(t, V, leaf, items)
    <2>1. leaf \in DOMAIN t
      BY <1>6, <1>7
    <2> QED BY <1>1, <1>2, <1>12, <2>1, WithItemsOf
  <1>14. /\ Heap(V) /\ DOMAIN V = DOMAIN t /\ \A x \in DOMAIN t : x # leaf => V[x] = t[x]
         /\ V[leaf].leaf = t[leaf].leaf /\ V[leaf].item = items /\ V[leaf].key = t[leaf].key
         /\ V[leaf].child = t[leaf].child /\ V[leaf].next = t[leaf].next
         /\ V[leaf].parent = t[leaf].parent
    BY <1>13 DEF Refilled
  <1>15. ASSUME NEW x \in T
         PROVE  /\ V[x].leaf = t[x].leaf /\ V[x].child = t[x].child /\ V[x].next = t[x].next
                /\ V[x].parent = t[x].parent /\ V[x].key = t[x].key
                /\ x # leaf => V[x].item = t[x].item
    <2>1. x \in DOMAIN t
      BY <1>7
    <2>2. CASE x = leaf
      BY <1>14, <2>2
    <2>3. CASE x # leaf
      BY <1>14, <2>1, <2>3
    <2> QED BY <2>2, <2>3
  <1>16. Adding(t, V, T, h, E, P, leaf, e)
    BY <1>2, <1>5, <1>7, <1>12, <1>14, <1>15 DEF Adding
  <1>17. PICK F : F = [x \in T |-> IF x \in P THEN E[x] \cup {e} ELSE E[x]]
    OBVIOUS
  <1>18. Tree(V, T, h, F)
    BY <1>16, <1>17, EntryAdded
  <1>19. F[root] = E[root] \cup {e}
    BY <1>16, <1>17, EntryAdded
  <1>20. Keyed(V, T, F)
    BY <1>2, <1>16, <1>17, EntryAdded
  <1>21. \A x \in T : E[x] \subseteq F[x]
    BY <1>17
  <1>22. Chaining(t, V, T, h, E, T, h, F)
    <2>1. LeavesOf(V, T) = LeavesOf(t, T) \cap T
      BY <1>15 DEF LeavesOf
    <2>2. ASSUME NEW x \in LeavesOf(V, T)
          PROVE  /\ V[x].next = t[x].next
                 /\ t[x].next # NULL => t[x].next \in DOMAIN V
                 /\ x # root => E[x] \cap F[x] # {}
      <3>1. x \in T /\ t[x].leaf /\ x \in LeavesOf(t, T)
        BY <1>15 DEF LeavesOf
      <3>2. ChainedAt(t, T, E, x)
        BY <1>2, <3>1 DEF Chained
      <3>3. x # root => E[x] # {}
        BY <1>2, <3>1, ParentOf
      <3> QED BY <1>14, <1>15, <1>21, <3>1, <3>2, <3>3 DEF ChainedAt
    <2>3. \A x \in T : ~V[x].leaf => V[x].next = NULL
      BY <1>2, <1>15 DEF Chained
    <2> QED BY <1>2, <1>18, <2>1, <2>2, <2>3 DEF Chaining
  <1>23. Chained(V, T, F)
    BY <1>22, ChainKept
  <1>24. Sized(V, T, {leaf})
    <2>1. ASSUME NEW x \in T \ {leaf} PROVE SizedAt(V, x)
      <3>1. SizedAt(t, x) /\ V[x] = t[x]
        BY <1>2, <1>7, <1>14 DEF Sized
      <3> QED BY <3>1 DEF SizedAt
    <2> QED BY <2>1 DEF Sized
  <1>25. Good(V, T, h, F, {leaf})
    BY <1>18, <1>20, <1>23, <1>24 DEF Good, Tree
  <1>26. SizedAt(t, leaf)
    BY <1>2, <1>6 DEF Sized
  <1>27. Len(old) \in 0 .. 3
    <2>1. Len(old) < MAX_BPT_NODE_NUM
      BY <1>1, <1>6, <1>26 DEF SizedAt
    <2>2. Len(old) \in Nat
      BY <1>8
    <2>3. \A a \in Nat : a < 4 => a \in 0 .. 3
      OBVIOUS
    <2> QED BY <2>1, <2>2, <2>3 DEF MAX_BPT_NODE_NUM
  <1>28. \A x \in E[root] : x.fnv # n.fnv
    <2> SUFFICES ASSUME NEW x \in E[root], x.fnv = n.fnv PROVE FALSE
      OBVIOUS
    <2>1. x \in Members(old)
      BY <1>3, <1>6, <1>8
    <2>2. PICK j \in 1 .. Len(old) : x = old[j]
      BY <2>1 DEF Members
    <2> QED BY <1>3, <1>11, <2>2
  <1>29. V[leaf].leaf
    BY <1>6, <1>14
  <1>30. F[root] # {}
    BY <1>19
  <1>31. Fuller(t, T, h, E, n, v, leaf, old, items, V, F)
    BY <1>3, <1>6, <1>8, <1>11, <1>12, <1>13, <1>19, <1>25, <1>26, <1>27, <1>28, <1>29, <1>30 DEF Fuller
  <1> QED BY <1>31

(* The entries of an overfull leaf are cut.                                *)
LEMMA CutItems ==
    ASSUME NEW items \in Seq(Entry), Len(items) = 4
    PROVE  \E I, J \in Seq(Entry) :
              /\ I = Taken(items, left_count) /\ J = Left(items, left_count)
              /\ I \o J = items /\ Len(I) = 2 /\ Len(J) = 2
              /\ J[1] = items[left_count + 1] /\ J[1] \in Entry /\ J[1].fnv \in Nat
  <1>1. left_count = 2
    BY DEF left_count, MAX_BPT_NODE_NUM
  <1>2. 2 \in 0 .. Len(items)
    OBVIOUS
  <1>3. PICK I, J : I = SubSeq(items, 1, 2) /\ J = SubSeq(items, 2 + 1, Len(items))
    OBVIOUS
  <1>4. /\ SubSeq(items, 1, 2) \in Seq(Entry) /\ Len(SubSeq(items, 1, 2)) = 2
        /\ \A i \in 1 .. 2 : SubSeq(items, 1, 2)[i] = items[i]
        /\ SubSeq(items, 2 + 1, Len(items)) \in Seq(Entry)
        /\ Len(SubSeq(items, 2 + 1, Len(items))) = Len(items) - 2
        /\ \A i \in 1 .. Len(items) - 2 : SubSeq(items, 2 + 1, Len(items))[i] = items[2 + i]
    BY <1>2, Slices
  <1>5. /\ I \in Seq(Entry) /\ J \in Seq(Entry) /\ Len(I) = 2 /\ Len(J) = 2
        /\ I[1] = items[1] /\ I[2] = items[2] /\ J[1] = items[3] /\ J[2] = items[4]
    BY <1>3, <1>4
  <1>6. /\ I \o J \in Seq(Entry) /\ Len(I \o J) = 4
        /\ (I \o J)[1] = items[1] /\ (I \o J)[2] = items[2]
        /\ (I \o J)[3] = items[3] /\ (I \o J)[4] = items[4]
    <2>1. /\ I \o J \in Seq(Entry) /\ Len(I \o J) = Len(I) + Len(J)
          /\ \A i \in 1 .. Len(I) : (I \o J)[i] = I[i]
          /\ \A i \in 1 .. Len(J) : (I \o J)[Len(I) + i] = J[i]
      <3>1. PICK S : S = Entry
        OBVIOUS
      <3>2. I \in Seq(S) /\ J \in Seq(S)
        BY <1>5, <3>1
      <3>3. I \o J \in Seq(S) /\ Len(I \o J) = Len(I) + Len(J)
        BY <3>2, ConcatOf
      <3>4. \A i \in 1 .. Len(I) : (I \o J)[i] = I[i]
        BY <3>2, ConcatOf
      <3>5. \A i \in 1 .. Len(J) : (I \o J)[Len(I) + i] = J[i]
        BY <3>2, ConcatOf
      <3> QED BY <3>1, <3>3, <3>4, <3>5
    <2>2. (I \o J)[1] = items[1] /\ (I \o J)[2] = items[2]
      BY <1>5, <2>1
    <2>3. 1 \in 1 .. Len(J) /\ 2 \in 1 .. Len(J) /\ Len(I) + 1 = 3 /\ Len(I) + 2 = 4
      BY <1>5
    <2>4. (I \o J)[Len(I) + 1] = J[1] /\ (I \o J)[Len(I) + 2] = J[2]
      BY <2>1, <2>3
    <2>5. (I \o J)[3] = items[3] /\ (I \o J)[4] = items[4]
      BY <1>5, <2>3, <2>4
    <2>6. Len(I \o J) = 4
      BY <1>5, <2>1
    <2> QED BY <2>1, <2>2, <2>5, <2>6
  <1>7. I \o J = items
    <2>1. \A i \in 1 .. 4 : i = 1 \/ i = 2 \/ i = 3 \/ i = 4
      OBVIOUS
    <2>2. \A i \in 1 .. Len(I \o J) : (I \o J)[i] = items[i]
      BY <1>6, <2>1
    <2> QED BY <1>6, <2>2, SameList
  <1>8. J[1] \in Entry
    BY <1>5, ElementOfSeq
  <1>9. J[1].fnv \in Nat
    BY <1>8 DEF Entry
  <1>10. I = Taken(items, left_count) /\ J = Left(items, left_count) /\ J[1] = items[left_count + 1]
    BY <1>1, <1>3, <1>5 DEF Taken, Left
  <1> QED BY <1>5, <1>7, <1>8, <1>9, <1>10

(* What SplitLeaf leaves: entries I in leaf a, J in the new leaf n.        *)
CutLeaf(t, m, a, n, I, J) ==
    /\ Heap(m) /\ DOMAIN m = DOMAIN t \cup {n} /\ \A x \in DOMAIN t : x # a => m[x] = t[x]
    /\ m[a].leaf = TRUE /\ m[a].item = I /\ m[a].key = t[a].key /\ m[a].child = t[a].child
    /\ m[a].parent = t[a].parent /\ m[a].next = n
    /\ m[n].leaf = TRUE /\ m[n].item = J /\ m[n].key = <<>> /\ m[n].child = <<>>
    /\ m[n].parent = t[a].parent /\ m[n].next = t[a].next

(* SplitLeaf, field by field.                                              *)
LEMMA SplitLeafOf ==
    ASSUME NEW t, Heap(t), NEW a \in DOMAIN t, NEW n \in Pool, n \notin DOMAIN t, n \in Nat,
           NEW items, NEW I \in Seq(Entry), NEW J \in Seq(Entry),
           I = Taken(items, left_count), J = Left(items, left_count),
           NEW m, m = SplitLeaf(t, a, items, n)
    PROVE  CutLeaf(t, m, a, n, I, J)
  <1>1. t[a] \in Node /\ a # n
    BY NodeTypes
  <1>2. PICK r : r = [EmptyNode(TRUE) EXCEPT !.item = J, !.next = t[a].next, !.parent = t[a].parent]
    OBVIOUS
  <1>3. /\ r \in Node /\ r.leaf = TRUE /\ r.item = J /\ r.key = <<>> /\ r.child = <<>>
        /\ r.parent = t[a].parent /\ r.next = t[a].next
    <2>1. r = [leaf |-> TRUE, item |-> J, key |-> <<>>, child |-> <<>>,
               parent |-> t[a].parent, next |-> t[a].next]
      BY <1>2 DEF EmptyNode
    <2>2. t[a].parent \in Nat /\ t[a].next \in Nat /\ <<>> \in Seq(Nat)
      BY NodeTypes
    <2> QED BY <2>1, <2>2 DEF Node
  <1>4. PICK y : y = [t[a] EXCEPT !.leaf = TRUE, !.item = I, !.next = n]
    OBVIOUS
  <1>5. /\ y \in Node /\ y.leaf = TRUE /\ y.item = I /\ y.key = t[a].key /\ y.child = t[a].child
        /\ y.parent = t[a].parent /\ y.next = n
    BY <1>1, <1>4 DEF Node
  <1>6. PICK w : w = [put_leaf(t, a, I) EXCEPT ![a].next = n]
    OBVIOUS
  <1>7. m = With(w, n, r)
    BY <1>2, <1>6 DEF SplitLeaf
  <1>8. w = [x \in DOMAIN t |-> IF x = a THEN y ELSE t[x]]
    <2>1. t = [x \in DOMAIN t |-> t[x]]
      BY DEF Heap
    <2>2. PICK y1 : y1 = [t[a] EXCEPT !.leaf = TRUE, !.item = I]
      OBVIOUS
    <2>3. y = [y1 EXCEPT !.next = n]
      BY <1>1, <1>4, <2>2 DEF Node
    <2>4. PICK w1 : w1 = put_leaf(t, a, I)
      OBVIOUS
    <2>5. w1 = [x \in DOMAIN t |-> IF x = a THEN y1 ELSE t[x]]
      BY <2>1, <2>2, <2>4 DEF put_leaf
    <2> QED BY <1>6, <2>3, <2>4, <2>5
  <1>9. Heap(w) /\ DOMAIN w = DOMAIN t /\ w[a] = y /\ \A x \in DOMAIN t : x # a => w[x] = t[x]
    <2>1. DOMAIN w = DOMAIN t /\ w[a] = y /\ \A x \in DOMAIN t : x # a => w[x] = t[x]
      BY <1>8
    <2>2. w \in [DOMAIN w -> Node]
      <3>1. \A x \in DOMAIN w : w[x] \in Node
        BY <1>5, <2>1, NodeTypes
      <3> QED BY <1>8, <2>1, <3>1
    <2>3. Heap(w)
      BY <2>1, <2>2 DEF Heap
    <2> QED BY <2>1, <2>3
  <1>10. Added(w, m, n, r)
    BY <1>3, <1>7, <1>9, WithOf
  <1>11. /\ Heap(m) /\ DOMAIN m = DOMAIN w \cup {n} /\ m[n] = r
         /\ \A x \in DOMAIN w : x # n => m[x] = w[x]
    BY <1>10 DEF Added
  <1>12. m[a] = y /\ \A x \in DOMAIN t : x # a => m[x] = t[x]
    BY <1>1, <1>9, <1>11
  <1> QED BY <1>3, <1>5, <1>9, <1>11, <1>12 DEF CutLeaf

(* A full leaf is split: its other half is pending.                        *)
LEMMA LeafPending ==
    ASSUME NEW t, NEW T, NEW h, NEW E, NEW n, NEW v, NEW leaf, NEW old, NEW items, NEW V, NEW F,
           Fuller(t, T, h, E, n, v, leaf, old, items, V, F), Heap(t),
           Len(old) = 3, leaf # root, NEW b \in Pool, b \notin DOMAIN t,
           NEW m, m = SplitLeaf(t, leaf, items, b),
           NEW s, s = items[left_count + 1].fnv, NEW z, z = Call(m, leaf, s, b),
           NEW all, all => T = DOMAIN t
    PROVE  Awaits(z, F[root], all, h[root], 0)
  <1>1. /\ Good(V, T, h, F, {leaf}) /\ leaf \in T /\ t[leaf].leaf /\ V[leaf].leaf /\ h[leaf] = 0
        /\ items \in Seq(Entry) /\ Len(items) = 4
    BY DEF Fuller
  <1>2. /\ Heap(V) /\ DOMAIN V = DOMAIN t /\ \A x \in DOMAIN t : x # leaf => V[x] = t[x]
        /\ V[leaf].leaf = t[leaf].leaf /\ V[leaf].item = items /\ V[leaf].key = t[leaf].key
        /\ V[leaf].child = t[leaf].child /\ V[leaf].next = t[leaf].next
        /\ V[leaf].parent = t[leaf].parent
    BY DEF Fuller, Refilled
  <1>3. Tree(V, T, h, F) /\ Keyed(V, T, F) /\ Sized(V, T, {leaf}) /\ Chained(V, T, F)
    BY <1>1 DEF Good, Tree
  <1>4. /\ T \subseteq DOMAIN V /\ root \in T /\ DOMAIN V \subseteq Nat \ {NULL}
        /\ Kind(V, h, leaf)
    BY <1>1, <1>3, TreeTypes
  <1>5. V[leaf].child = <<>> /\ leaf \in DOMAIN t /\ b \notin T /\ b # leaf
    BY <1>1, <1>2, <1>4 DEF Kind
  <1>6. b \in Nat
    BY BPTreeAssumption
  <1>7. PICK I \in Seq(Entry), J \in Seq(Entry) :
          /\ I = Taken(items, left_count) /\ J = Left(items, left_count)
          /\ I \o J = items /\ Len(I) = 2 /\ Len(J) = 2
          /\ J[1] = items[left_count + 1] /\ J[1] \in Entry /\ J[1].fnv \in Nat
    BY <1>1, CutItems
  <1>8. CutLeaf(t, m, leaf, b, I, J)
    BY <1>5, <1>6, <1>7, SplitLeafOf
  <1>9. /\ Heap(m) /\ DOMAIN m = DOMAIN t \cup {b} /\ \A x \in DOMAIN t : x # leaf => m[x] = t[x]
        /\ m[leaf].leaf = TRUE /\ m[leaf].item = I /\ m[leaf].key = t[leaf].key
        /\ m[leaf].child = t[leaf].child /\ m[leaf].parent = t[leaf].parent /\ m[leaf].next = b
        /\ m[b].leaf = TRUE /\ m[b].item = J /\ m[b].key = <<>> /\ m[b].child = <<>>
        /\ m[b].parent = t[leaf].parent /\ m[b].next = t[leaf].next
    BY <1>8 DEF CutLeaf
  <1>10. PICK p : p = V[leaf].parent
    OBVIOUS
  <1>11. /\ p \in T /\ ~V[p].leaf /\ h[leaf] + 1 = h[p] /\ p # NULL
         /\ \E i \in 1 .. Len(V[p].child) : V[p].child[i] = leaf
    <2>1. Tree(V, T, h, F) /\ leaf \in T
      BY <1>1, <1>3
    <2>2. p \in T /\ ~V[p].leaf /\ h[leaf] + 1 = h[p] /\ p # NULL
      BY <1>10, <2>1, ParentOf
    <2>3. \E i \in 1 .. Len(V[p].child) : V[p].child[i] = leaf
      BY <1>10, <2>1, ParentOf
    <2> QED BY <2>2, <2>3
  <1>12. PICK i \in 1 .. Len(V[p].child) : V[p].child[i] = leaf
    BY <1>11
  <1>13. /\ p # leaf /\ m[p] = V[p] /\ p \in DOMAIN m /\ p \in Nat /\ p # b /\ p \in DOMAIN t
    BY <1>1, <1>2, <1>4, <1>5, <1>9, <1>11
  <1>14. KeyedAt(V, F, p) /\ Len(V[p].key) + 1 = Len(V[p].child)
    <2>1. KeyedAt(V, F, p)
      BY <1>3, <1>11 DEF Keyed
    <2> QED BY <2>1 DEF KeyedAt
  <1>15. s \in Nat /\ s = J[1].fnv
    BY <1>7
  <1>16. PICK W : W = Entering(m, p, i, s, b)
    OBVIOUS
  <1>17. i \in 1 .. Len(m[p].child) /\ i \in 1 .. Len(m[p].key) + 1
    BY <1>13, <1>14
  <1>18. Entered(m, W, p, i, s, b)
    BY <1>6, <1>9, <1>13, <1>15, <1>16, <1>17, EnteringOf
  <1>19. /\ Heap(W) /\ DOMAIN W = DOMAIN m /\ \A x \in DOMAIN m : x # p => W[x] = m[x]
         /\ W[p].leaf = m[p].leaf /\ W[p].item = m[p].item /\ W[p].parent = m[p].parent
         /\ W[p].next = m[p].next
         /\ W[p].key = InsertAt(m[p].key, i, s) /\ W[p].child = InsertAt(m[p].child, i + 1, b)
    BY <1>18 DEF Entered
  <1>20. W[leaf] = m[leaf] /\ W[b] = m[b]
    BY <1>2, <1>5, <1>9, <1>13, <1>19
  <1>21. V[p].item = <<>> /\ V[leaf].leaf = TRUE
    <2>1. Kind(V, h, p)
      BY <1>3, <1>11, TreeTypes
    <2>2. V[leaf].leaf \in BOOLEAN
      BY <1>2, <1>5, NodeTypes
    <2> QED BY <1>1, <1>11, <2>1, <2>2 DEF Kind
  <1>22. ASSUME NEW x \in T \ {leaf, p} PROVE W[x] = V[x]
    <2>1. x \in DOMAIN t /\ x \in DOMAIN m
      BY <1>2, <1>4, <1>9
    <2> QED BY <1>2, <1>9, <1>19, <2>1
  <1>23. W[leaf].parent = p /\ W[b].parent = p
    BY <1>2, <1>9, <1>10, <1>20
  <1>24. Splitting(V, W, T, h, F, p, leaf, b, i, s)
    <2>1. /\ Tree(V, T, h, F) /\ Heap(W) /\ DOMAIN V \subseteq DOMAIN W
          /\ Keyed(V, T, F) /\ b \in DOMAIN W /\ b \notin DOMAIN V /\ s \in Nat
          /\ p \in T /\ i \in 1 .. Len(V[p].child) /\ V[p].child[i] = leaf
      BY <1>2, <1>3, <1>9, <1>11, <1>12, <1>15, <1>19
    <2>2. Sized(V, T, {leaf, p})
      BY <1>3 DEF Sized
    <2>3. /\ ~W[p].leaf /\ W[p].item = <<>> /\ W[p].parent = V[p].parent
          /\ W[p].child = InsertAt(V[p].child, i + 1, b) /\ W[p].key = InsertAt(V[p].key, i, s)
      BY <1>11, <1>13, <1>19, <1>21
    <2>4. /\ W[leaf].leaf = V[leaf].leaf /\ W[b].leaf = V[leaf].leaf
          /\ W[leaf].item \o W[b].item = V[leaf].item
      <3>1. W[leaf].leaf = TRUE /\ W[b].leaf = TRUE
        BY <1>9, <1>20
      <3>2. W[leaf].item = I /\ W[b].item = J
        BY <1>9, <1>20
      <3> QED BY <1>2, <1>7, <1>21, <3>1, <3>2
    <2>5. W[leaf].child = <<>> /\ W[b].child = <<>> /\ W[leaf].child \o W[b].child = V[leaf].child
      <3>1. W[leaf].child = <<>> /\ W[b].child = <<>> /\ V[leaf].child = <<>>
        BY <1>2, <1>5, <1>9, <1>20
      <3>2. <<>> \o <<>> = <<>>
        OBVIOUS
      <3> QED BY <3>1, <3>2
    <2>6. W[leaf].item # <<>> /\ W[b].item # <<>>
      <3>1. \A r \in Seq(Entry) : Len(r) # 0 => r # <<>>
        OBVIOUS
      <3>2. Len(I) # 0 /\ Len(J) # 0
        BY <1>7
      <3>3. I # <<>>
        BY <3>1, <3>2
      <3>4. J # <<>>
        BY <3>1, <3>2
      <3> QED BY <1>9, <1>20, <3>3, <3>4
    <2>7. \A x \in Members(<<>>) : FALSE
      BY DEF Members
    <2>8. /\ \A x \in Members(W[leaf].child) : W[x].parent = leaf
          /\ \A x \in Members(W[b].child) : W[x].parent = b
      BY <2>5, <2>7
    <2>9. \A x \in T \ {leaf, p} :
            /\ W[x].leaf = V[x].leaf /\ W[x].item = V[x].item /\ W[x].child = V[x].child
            /\ W[x].key = V[x].key /\ (V[x].parent # leaf => W[x].parent = V[x].parent)
      BY <1>22
    <2> QED BY <1>21, <1>23, <2>1, <2>2, <2>3, <2>4, <2>5, <2>6, <2>8, <2>9 DEF Splitting
  <1>25. LeafSplit(V, W, T, h, F, p, leaf, b, i, s)
    <2>1. W[leaf].next = b /\ W[b].next = V[leaf].next
      BY <1>2, <1>9, <1>20
    <2>2. \A x \in T \ {leaf} : W[x].next = V[x].next
      BY <1>13, <1>19, <1>22
    <2>3. Len(W[leaf].item) = 2 /\ Len(W[b].item) = 2 /\ s = W[b].item[1].fnv
      BY <1>7, <1>9, <1>15, <1>20
    <2> QED BY <1>1, <1>3, <1>24, <2>1, <2>2, <2>3 DEF LeafSplit
  <1>26. PICK U, l, D : SplitTo(V, W, T, h, F, p, leaf, b, U, l, D)
    BY <1>25, LeafSplitGood
  <1>27. /\ U = T \cup {b} /\ Good(W, U, l, D, {p})
         /\ l[leaf] = h[leaf] /\ D[root] = F[root] /\ \A x \in T \ {leaf} : l[x] = h[x]
    BY <1>26 DEF SplitTo, SplitInto
  <1>28. Tree(W, U, l, D) /\ Keyed(W, U, D) /\ Sized(W, U, {p}) /\ Chained(W, U, D)
    BY <1>27 DEF Good, Tree
  <1>29. Losing(W, m, U, l, D, p, i, b, s)
    <2>1. \A x \in U \ {p} : m[x] = W[x]
      <3>1. U \subseteq DOMAIN W
        BY <1>28, TreeTypes
      <3> QED BY <1>19, <3>1
    <2>2. /\ m[p].leaf = W[p].leaf /\ m[p].item = W[p].item
          /\ m[p].parent = W[p].parent /\ m[p].next = W[p].next
          /\ W[p].child = InsertAt(m[p].child, i + 1, b)
          /\ W[p].key = InsertAt(m[p].key, i, s)
      BY <1>19
    <2>3. ~W[p].leaf /\ p \in U
      BY <1>11, <1>13, <1>19, <1>27
    <2> QED BY <1>6, <1>9, <1>15, <1>17, <1>19, <1>28, <2>1, <2>2, <2>3 DEF Losing
  <1>30. SizedAt(m, p)
    <2>1. SizedAt(V, p)
      BY <1>3, <1>11, <1>13 DEF Sized
    <2> QED BY <1>13, <2>1 DEF SizedAt
  <1>31. leaf = m[p].child[i] /\ leaf # NULL
    BY <1>1, <1>4, <1>12, <1>13
  <1>32. Pending(m, leaf, s, b, W, U, l, D, p, i)
    BY <1>28, <1>29, <1>30, <1>31 DEF Pending
  <1>33. l[root] = h[root] /\ l[leaf] = 0
    BY <1>1, <1>4, <1>27
  <1>34. z.mem = m /\ z.left = leaf /\ z.separator = s /\ z.right = b
    BY CallIs
  <1>35. all => U = DOMAIN z.mem
    BY <1>9, <1>27, <1>34
  <1>36. Pending(z.mem, z.left, z.separator, z.right, W, U, l, D, p, i)
    BY <1>32, <1>34
  <1>37. D[root] = F[root] /\ l[z.left] = 0
    BY <1>27, <1>33, <1>34
  <1> QED BY <1>33, <1>35, <1>36, <1>37 DEF Awaits

(* A root that is a full leaf is split.                                    *)
CutRoot(t, u, o, n, I, J) ==
    /\ Heap(u) /\ DOMAIN u = DOMAIN t \cup {n, o}
    /\ ~u[root].leaf /\ u[root].item = <<>> /\ u[root].key = <<J[1].fnv>> /\ u[root].child = <<o, n>>
    /\ u[root].parent = NULL /\ u[root].next = NULL
    /\ u[o].leaf = TRUE /\ u[o].item = I /\ u[o].child = <<>> /\ u[o].parent = root /\ u[o].next = n
    /\ u[n].leaf = TRUE /\ u[n].item = J /\ u[n].child = <<>> /\ u[n].parent = root /\ u[n].next = NULL
    /\ \A x \in DOMAIN t \ {root} :
          /\ u[x].leaf = t[x].leaf /\ u[x].item = t[x].item /\ u[x].key = t[x].key
          /\ u[x].child = t[x].child /\ u[x].next = t[x].next /\ u[x].parent = t[x].parent

(* SplitRoot, field by field.                                              *)
LEMMA SplitRootOf ==
    ASSUME NEW t, Heap(t), NEW n \in Pool, n \notin DOMAIN t, NEW o \in Pool, o \notin DOMAIN t, o # n,
           NEW items, NEW I \in Seq(Entry), NEW J \in Seq(Entry), J[1].fnv \in Nat,
           I = Taken(items, left_count), J = Left(items, left_count),
           NEW m, m = With(t, n, EmptyNode(TRUE)), NEW u, u = SplitRoot(m, items, o, n)
    PROVE  CutRoot(t, u, o, n, I, J)
  <1>1. /\ o \in Nat /\ n \in Nat /\ o # root /\ n # root /\ root \in DOMAIN t
        /\ NULL \in Nat /\ <<>> \in Seq(Nat)
    BY BPTreeAssumption DEF Heap, NULL
  <1>2. PICK l, r : /\ l = [EmptyNode(TRUE) EXCEPT !.item = I, !.next = n]
                    /\ r = [EmptyNode(TRUE) EXCEPT !.item = J]
    OBVIOUS
  <1>3. /\ l \in Node /\ l.leaf = TRUE /\ l.item = I /\ l.child = <<>> /\ l.next = n
    <2>1. l = [leaf |-> TRUE, item |-> I, key |-> <<>>, child |-> <<>>, parent |-> NULL, next |-> n]
      BY <1>2 DEF EmptyNode
    <2> QED BY <1>1, <2>1 DEF Node
  <1>4. /\ r \in Node /\ r.leaf = TRUE /\ r.item = J /\ r.child = <<>> /\ r.next = NULL
    <2>1. r = [leaf |-> TRUE, item |-> J, key |-> <<>>, child |-> <<>>, parent |-> NULL, next |-> NULL]
      BY <1>2 DEF EmptyNode
    <2> QED BY <1>1, <2>1 DEF Node
  <1>5. PICK e \in Node : e = EmptyNode(TRUE)
    BY EmptyNodeIs
  <1>6. Added(t, m, n, e)
    BY <1>5, WithOf
  <1>7. Heap(m) /\ DOMAIN m = DOMAIN t \cup {n} /\ \A x \in DOMAIN t : x # n => m[x] = t[x]
    BY <1>6 DEF Added
  <1>8. PICK w : w = With(m, o, l)
    OBVIOUS
  <1>9. Added(m, w, o, l)
    BY <1>3, <1>7, <1>8, WithOf
  <1>10. /\ Heap(w) /\ DOMAIN w = DOMAIN m \cup {o} /\ w[o] = l
         /\ \A x \in DOMAIN m : x # o => w[x] = m[x]
    BY <1>9 DEF Added
  <1>11. PICK v : v = With(w, n, r)
    OBVIOUS
  <1>12. Added(w, v, n, r)
    BY <1>4, <1>10, <1>11, WithOf
  <1>13. /\ Heap(v) /\ DOMAIN v = DOMAIN w \cup {n} /\ v[n] = r
         /\ \A x \in DOMAIN w : x # n => v[x] = w[x]
    BY <1>12 DEF Added
  <1>14. /\ DOMAIN v = DOMAIN t \cup {n, o} /\ v[o] = l
         /\ \A x \in DOMAIN t : v[x] = t[x]
    BY <1>7, <1>10, <1>13
  <1>15. PICK s \in Nat : s = J[1].fnv
    OBVIOUS
  <1>16. u = NewRoot(v, o, s, n)
    <2>1. r.item[1].fnv = s
      BY <1>4, <1>15
    <2> QED BY <1>2, <1>8, <1>11, <2>1 DEF SplitRoot
  <1>17. Rooted(v, u, o, s, n)
    BY <1>1, <1>13, <1>14, <1>16, NewRootOf
  <1>18. /\ Heap(u) /\ DOMAIN u = DOMAIN v
         /\ ~u[root].leaf /\ u[root].item = <<>> /\ u[root].key = <<s>> /\ u[root].child = <<o, n>>
         /\ u[root].parent = NULL /\ u[root].next = NULL
         /\ u[o].parent = root /\ u[n].parent = root
         /\ \A x \in DOMAIN v \ {root} :
              /\ u[x].leaf = v[x].leaf /\ u[x].item = v[x].item /\ u[x].key = v[x].key
              /\ u[x].child = v[x].child /\ u[x].next = v[x].next
              /\ x \notin {o, n} => u[x].parent = v[x].parent
    BY <1>17 DEF Rooted
  <1>19. ASSUME NEW x \in DOMAIN t \ {root}
         PROVE  /\ u[x].leaf = t[x].leaf /\ u[x].item = t[x].item /\ u[x].key = t[x].key
                /\ u[x].child = t[x].child /\ u[x].next = t[x].next /\ u[x].parent = t[x].parent
    <2>1. x \in DOMAIN v \ {root} /\ x \notin {o, n} /\ v[x] = t[x]
      BY <1>14
    <2>2. /\ u[x].leaf = v[x].leaf /\ u[x].item = v[x].item /\ u[x].key = v[x].key
          /\ u[x].child = v[x].child /\ u[x].next = v[x].next /\ u[x].parent = v[x].parent
      BY <1>18, <2>1
    <2> QED BY <2>1, <2>2
  <1>20. /\ u[o].leaf = TRUE /\ u[o].item = I /\ u[o].child = <<>> /\ u[o].next = n
         /\ u[n].leaf = TRUE /\ u[n].item = J /\ u[n].child = <<>> /\ u[n].next = NULL
    <2>1. o \in DOMAIN v \ {root} /\ n \in DOMAIN v \ {root}
      BY <1>1, <1>14
    <2>2. /\ u[o].leaf = v[o].leaf /\ u[o].item = v[o].item
          /\ u[o].child = v[o].child /\ u[o].next = v[o].next
      BY <1>18, <2>1
    <2>3. /\ u[n].leaf = v[n].leaf /\ u[n].item = v[n].item
          /\ u[n].child = v[n].child /\ u[n].next = v[n].next
      BY <1>18, <2>1
    <2>4. v[n] = r /\ v[o] = l
      BY <1>13, <1>14
    <2> QED BY <1>3, <1>4, <2>2, <2>3, <2>4
  <1> QED BY <1>14, <1>15, <1>18, <1>19, <1>20 DEF CutRoot

(* The split of a root that is a leaf leaves a tree of two levels.         *)
LEMMA RootLeafSplit ==
    ASSUME NEW t, NEW T, NEW h, NEW E, NEW a, NEW v, NEW leaf, NEW old, NEW items, NEW V, NEW F,
           Fuller(t, T, h, E, a, v, leaf, old, items, V, F), Heap(t), Len(old) = 3, leaf = root,
           NEW n \in Pool, n \notin DOMAIN t, NEW o \in Pool, o \notin DOMAIN t, o # n,
           NEW m, m = With(t, n, EmptyNode(TRUE)), NEW u, u = SplitRoot(m, items, o, n)
    PROVE  \E U, l, D : Topped(t, u, U, l, D, T, F, n, o)
  <1>1. /\ Good(V, T, h, F, {root}) /\ root \in T /\ V[root].leaf /\ F[root] # {}
        /\ items \in Seq(Entry) /\ Len(items) = 4
    BY DEF Fuller
  <1>2. Refilled(t, V, root, items)
    BY DEF Fuller
  <1>3. DOMAIN V = DOMAIN t /\ V[root].item = items /\ \A x \in DOMAIN t : x # root => V[x] = t[x]
    BY <1>2 DEF Refilled
  <1>4. Tree(V, T, h, F) /\ Keyed(V, T, F) /\ Sized(V, T, {root}) /\ Chained(V, T, F)
    BY <1>1 DEF Good, Tree
  <1>5. T \subseteq DOMAIN V /\ Kind(V, h, root) /\ Heap(V) /\ root \in DOMAIN V
    BY <1>1, <1>4, TreeTypes
  <1>6. V[root].child = <<>> /\ V[root].leaf = TRUE
    <2>1. V[root].leaf \in BOOLEAN
      BY <1>5, NodeTypes
    <2> QED BY <1>1, <1>5, <2>1 DEF Kind
  <1>7. PICK I \in Seq(Entry), J \in Seq(Entry) :
          /\ I = Taken(items, left_count) /\ J = Left(items, left_count)
          /\ I \o J = items /\ Len(I) = 2 /\ Len(J) = 2
          /\ J[1] = items[left_count + 1] /\ J[1] \in Entry /\ J[1].fnv \in Nat
    BY <1>1, CutItems
  <1>8. CutRoot(t, u, o, n, I, J)
    BY <1>7, SplitRootOf
  <1>9. /\ Heap(u) /\ DOMAIN u = DOMAIN t \cup {n, o}
        /\ ~u[root].leaf /\ u[root].item = <<>> /\ u[root].key = <<J[1].fnv>> /\ u[root].child = <<o, n>>
        /\ u[root].parent = NULL /\ u[root].next = NULL
        /\ u[o].leaf = TRUE /\ u[o].item = I /\ u[o].child = <<>> /\ u[o].parent = root /\ u[o].next = n
        /\ u[n].leaf = TRUE /\ u[n].item = J /\ u[n].child = <<>> /\ u[n].parent = root /\ u[n].next = NULL
    BY <1>8 DEF CutRoot
  <1>10. \A x \in DOMAIN t \ {root} :
            /\ u[x].leaf = t[x].leaf /\ u[x].item = t[x].item /\ u[x].key = t[x].key
            /\ u[x].child = t[x].child /\ u[x].next = t[x].next /\ u[x].parent = t[x].parent
    BY <1>8 DEF CutRoot
  <1>11. PICK W : W = Regrown(V, o)
    OBVIOUS
  <1>12. Grown(V, W, T, h, F, o)
    BY <1>1, <1>3, <1>4, <1>11, RegrownOf
  <1>13. /\ W[o].leaf = V[root].leaf /\ W[o].item = V[root].item /\ W[o].child = V[root].child
         /\ ~W[root].leaf /\ W[root].item = <<>> /\ W[root].child = <<o>> /\ W[root].parent = NULL
         /\ W[o].next = NULL /\ W[root].key = <<>> /\ W[root].next = NULL
    BY <1>12 DEF Grown, Growing
  <1>14. \A x \in T \ {root} :
            /\ W[x].leaf = V[x].leaf /\ W[x].item = V[x].item /\ W[x].child = V[x].child
            /\ W[x].parent = (IF V[x].parent = root THEN o ELSE V[x].parent)
            /\ W[x].key = V[x].key /\ W[x].next = V[x].next
    BY <1>12 DEF Grown, Growing
  <1>15. DOMAIN W = DOMAIN V \cup {o}
    BY <1>11 DEF Regrown
  <1>16. PICK U, k, G : Higher(W, T, F, o, U, k, G)
    BY <1>12, GrowGood
  <1>17. /\ U = T \cup {o} /\ Tree(W, U, k, G) /\ Keyed(W, U, G) /\ Sized(W, U, {o, root})
         /\ Chained(W, U, G) /\ G[root] = F[root]
    BY <1>16 DEF Higher
  <1>18. PICK s \in Nat : s = J[1].fnv
    BY <1>7
  <1>19. ASSUME NEW x \in U \ {o, root}
         PROVE  /\ u[x].leaf = W[x].leaf /\ u[x].item = W[x].item /\ u[x].child = W[x].child
                /\ u[x].key = W[x].key /\ u[x].next = W[x].next
                /\ W[x].parent # o => u[x].parent = W[x].parent
    <2>1. x \in T \ {root} /\ x \in DOMAIN t \ {root} /\ V[x] = t[x]
      BY <1>3, <1>5, <1>17
    <2>2. W[x].parent # o => W[x].parent = V[x].parent
      BY <1>14, <2>1
    <2>3. /\ u[x].leaf = V[x].leaf /\ u[x].item = V[x].item /\ u[x].child = V[x].child
          /\ u[x].key = V[x].key /\ u[x].next = V[x].next /\ u[x].parent = V[x].parent
      <3>1. x \in DOMAIN t \ {root} /\ V[x] = t[x]
        BY <2>1
      <3>2. /\ u[x].leaf = t[x].leaf /\ u[x].item = t[x].item /\ u[x].key = t[x].key
            /\ u[x].child = t[x].child /\ u[x].next = t[x].next /\ u[x].parent = t[x].parent
        BY <1>10, <3>1
      <3> QED BY <3>1, <3>2
    <2>4. /\ W[x].leaf = V[x].leaf /\ W[x].item = V[x].item /\ W[x].child = V[x].child
          /\ W[x].key = V[x].key /\ W[x].next = V[x].next
      BY <1>14, <2>1
    <2> QED BY <2>2, <2>3, <2>4
  <1>20. o \in Nat /\ n \in Nat
    BY BPTreeAssumption
  <1>21. InsertAt(<<o>>, 2, n) = <<o, n>> /\ InsertAt(<<>>, 1, s) = <<s>>
    BY <1>18, <1>20, RootLists, SMTT(30)
  <1>22. Splitting(W, u, U, k, G, root, o, n, 1, s)
    <2>1. /\ Tree(W, U, k, G) /\ Heap(u) /\ DOMAIN W \subseteq DOMAIN u
          /\ Keyed(W, U, G) /\ Sized(W, U, {o, root})
          /\ n \in DOMAIN u /\ n \notin DOMAIN W /\ s \in Nat /\ root \in U
      BY <1>1, <1>3, <1>9, <1>15, <1>17
    <2>2. 1 \in 1 .. Len(W[root].child) /\ W[root].child[1] = o
      BY <1>13
    <2>3. /\ ~u[root].leaf /\ u[root].item = <<>> /\ u[root].parent = W[root].parent
          /\ u[root].child = InsertAt(W[root].child, 1 + 1, n)
          /\ u[root].key = InsertAt(W[root].key, 1, s)
      <3>1. u[root].child = InsertAt(W[root].child, 1 + 1, n)
        <4>1. u[root].child = <<o, n>>
          BY <1>9
        <4>2. W[root].child = <<o>>
          BY <1>13
        <4>3. 1 + 1 = 2
          OBVIOUS
        <4> QED BY <1>21, <4>1, <4>2, <4>3
      <3>2. u[root].key = InsertAt(W[root].key, 1, s)
        BY <1>9, <1>13, <1>18, <1>21
      <3> QED BY <1>9, <1>13, <3>1, <3>2
    <2>4. u[o].leaf = W[o].leaf /\ u[n].leaf = W[o].leaf /\ u[o].item \o u[n].item = W[o].item
      BY <1>3, <1>6, <1>7, <1>9, <1>13
    <2>5. u[o].child = <<>> /\ u[n].child = <<>> /\ u[o].child \o u[n].child = W[o].child
      <3>1. u[o].child = <<>> /\ u[n].child = <<>> /\ W[o].child = <<>>
        BY <1>6, <1>9, <1>13
      <3>2. <<>> \o <<>> = <<>>
        OBVIOUS
      <3> QED BY <3>1, <3>2
    <2>6. u[o].item # <<>> /\ u[n].item # <<>>
      <3>1. \A r \in Seq(Entry) : Len(r) # 0 => r # <<>>
        OBVIOUS
      <3>2. Len(I) # 0 /\ Len(J) # 0
        BY <1>7
      <3>3. I # <<>>
        BY <3>1, <3>2
      <3>4. J # <<>>
        BY <3>1, <3>2
      <3> QED BY <1>9, <3>3, <3>4
    <2>7. \A x \in Members(<<>>) : FALSE
      BY DEF Members
    <2>8. /\ \A x \in Members(u[o].child) : u[x].parent = o
          /\ \A x \in Members(u[n].child) : u[x].parent = n
      BY <2>5, <2>7
    <2>9. u[o].parent = root /\ u[n].parent = root /\ W[o].leaf = TRUE
      BY <1>6, <1>9, <1>13
    <2>10. \A x \in U \ {o, root} :
             /\ u[x].leaf = W[x].leaf /\ u[x].item = W[x].item /\ u[x].child = W[x].child
             /\ u[x].key = W[x].key /\ (W[x].parent # o => u[x].parent = W[x].parent)
      BY <1>19
    <2> QED BY <2>1, <2>2, <2>3, <2>4, <2>5, <2>6, <2>8, <2>9, <2>10 DEF Splitting
  <1>23. LeafSplit(W, u, U, k, G, root, o, n, 1, s)
    <2>1. u[o].next = n /\ u[n].next = W[o].next
      BY <1>9, <1>13
    <2>2. \A x \in U \ {o} : u[x].next = W[x].next
      <3>1. u[root].next = W[root].next
        BY <1>9, <1>13
      <3> QED BY <1>19, <3>1
    <2>3. Len(u[o].item) = 2 /\ Len(u[n].item) = 2 /\ s = u[n].item[1].fnv
      BY <1>7, <1>9, <1>18
    <2>4. W[o].leaf
      BY <1>6, <1>13
    <2> QED BY <1>17, <1>22, <2>1, <2>2, <2>3, <2>4 DEF LeafSplit
  <1>24. PICK U2, l, D : SplitTo(W, u, U, k, G, root, o, n, U2, l, D)
    BY <1>23, LeafSplitGood
  <1>25. U2 = T \cup {o} \cup {n} /\ Good(u, U2, l, D, {root}) /\ D[root] = F[root]
    BY <1>17, <1>24 DEF SplitTo, SplitInto
  <1>26. SizedAt(u, root)
    <2>1. Len(u[root].child) = 2 /\ ~u[root].leaf
      BY <1>9
    <2>2. 2 \in 2 .. 4
      OBVIOUS
    <2> QED BY <2>1, <2>2 DEF SizedAt, MAX_BPT_NODE_NUM
  <1>27. Good(u, U2, l, D, {})
    <2>1. Sized(u, U2, {root})
      BY <1>25 DEF Good
    <2>2. Sized(u, U2, {})
      BY <1>26, <2>1 DEF Sized
    <2> QED BY <1>25, <2>2 DEF Good
  <1>28. Topped(t, u, U2, l, D, T, F, n, o)
    BY <1>9, <1>25, <1>27 DEF Topped
  <1> QED BY <1>28

(* What an insertion leaves and returns.                                   *)
Bigger(t, T, E, n, v, r) ==
    /\ r.ret \in {0, 1}
    /\ \E V, k, F : /\ Good(r.mem, V, k, F, {})
                    /\ r.ret = 1 => /\ F[root] = E[root] \cup {Item(n, v)}
                                    /\ T = DOMAIN t => V = DOMAIN r.mem
    /\ r.ret = 1 => \A e \in E[root] : e.fnv # n.fnv
    /\ r.ret = 0 => \/ r.mem = t /\ \E e \in E[root] : e.fnv = n.fnv
                    \/ Available(r.mem) = {}

(* The fields of a result.                                                 *)
LEMMA ResultIs ==
    ASSUME NEW t, NEW c, NEW r, r = Result(t, c)
    PROVE  r.mem = t /\ r.ret = c
  BY DEF Result

(* bpt_insert of any name leaves the invariant; if it returns 1, with the  *)
(* entries the store has then, and if it returns 0, with the name there    *)
(* already or no node free.                                                *)
LEMMA InsertOf ==
    ASSUME NEW t, NEW T, NEW h, NEW E, Good(t, T, h, E, {}), NEW n \in Names, NEW v \in Values,
           NEW r, r = bpt_insert(t, n, v)
    PROVE  Bigger(t, T, E, n, v, r)
  <1>1. Tree(t, T, h, E) /\ Keyed(t, T, E) /\ Heap(t)
    BY DEF Good, Tree
  <1>2. PICK leaf : leaf = search_leaf(t, n.fnv)
    OBVIOUS
  <1>3. PICK old : old = t[leaf].item
    OBVIOUS
  <1>4. PICK larger : larger = FirstFrom(old, n.fnv)
    OBVIOUS
  <1>5. PICK items : items = InsertAt(old, IF larger = 0 THEN Len(old) + 1 ELSE larger, Item(n, v))
    OBVIOUS
  <1>6. CASE larger # 0 /\ old[larger].fnv = n.fnv
    <2>1. r = Result(t, 0)
      BY <1>2, <1>3, <1>4, <1>6 DEF bpt_insert
    <2>2. r.mem = t /\ r.ret = 0
      BY <2>1, ResultIs
    <2>3. n.fnv \in Nat
      BY ItemIs
    <2>4. PICK P : Path(t, T, E, n.fnv, P, leaf)
      BY <1>1, <1>2, <2>3, PathOf
    <2>5. leaf \in T /\ t[leaf].leaf
      BY <2>4 DEF Path
    <2>6. old \in Seq(Entry) /\ E[leaf] = Members(old)
      BY <1>1, <1>3, <2>5, LeafOf
    <2>7. larger \in 1 .. Len(old)
      BY <1>4, <1>6, <2>3, <2>6, FirstFromOf
    <2>8. PICK e : e = old[larger]
      OBVIOUS
    <2>9. e \in E[leaf] /\ e.fnv = n.fnv
      BY <1>6, <2>6, <2>7, <2>8 DEF Members
    <2>10. E[leaf] \subseteq E[root]
      BY <1>1, <2>5, InRoot
    <2>11. \E x \in E[root] : x.fnv = n.fnv
      BY <2>9, <2>10
    <2>12. Good(r.mem, T, h, E, {})
      BY <2>2
    <2>13. r.ret # 1 /\ r.ret \in {0, 1}
      BY <2>2
    <2> QED BY <2>2, <2>11, <2>12, <2>13 DEF Bigger
  <1>7. CASE ~(larger # 0 /\ old[larger].fnv = n.fnv)
    <2>1. PICK V : V = WithItems(t, leaf, items)
      OBVIOUS
    <2>2. Filling(t, T, h, E, n, v, leaf, old, larger, items, V)
      BY <1>2, <1>3, <1>4, <1>5, <1>7, <2>1 DEF Filling
    <2>3. PICK F : Fuller(t, T, h, E, n, v, leaf, old, items, V, F)
      BY <2>2, FillingGood
    <2>4. /\ Good(V, T, h, F, {leaf}) /\ F[root] = E[root] \cup {Item(n, v)}
          /\ leaf \in T /\ t[leaf].leaf /\ V[leaf].leaf /\ SizedAt(t, leaf)
          /\ Len(items) = Len(old) + 1 /\ Len(old) \in 0 .. 3
          /\ Refilled(t, V, leaf, items) /\ \A e \in E[root] : e.fnv # n.fnv
      BY <2>3 DEF Fuller
    <2>5. DOMAIN V = DOMAIN t /\ V[leaf].item = items
      BY <2>4 DEF Refilled
    <2>6. CASE Len(old) < MAX_BPT_NODE_NUM - 1
      <3>1. r = Result(V, 1)
        BY <1>2, <1>3, <1>4, <1>5, <1>7, <2>1, <2>6 DEF bpt_insert, WithItems
      <3>2. r.mem = V /\ r.ret = 1
        BY <3>1, ResultIs
      <3>3. SizedAt(V, leaf)
        <4>1. Len(items) < MAX_BPT_NODE_NUM
          <5>1. \A a \in 0 .. 3 : a < 4 - 1 => a + 1 < 4
            OBVIOUS
          <5> QED BY <2>4, <2>6, <5>1 DEF MAX_BPT_NODE_NUM
        <4>2. leaf # root => Len(items) >= 2
          <5>1. leaf # root => Len(old) >= 2
            BY <1>3, <2>4 DEF SizedAt
          <5>2. \A a \in 0 .. 3 : a >= 2 => a + 1 >= 2
            OBVIOUS
          <5> QED BY <2>4, <5>1, <5>2
        <4> QED BY <2>4, <2>5, <4>1, <4>2 DEF SizedAt
      <3>4. Good(V, T, h, F, {})
        <4>1. Sized(V, T, {leaf})
          BY <2>4 DEF Good
        <4>2. Sized(V, T, {})
          BY <3>3, <4>1 DEF Sized
        <4> QED BY <2>4, <4>2 DEF Good
      <3>5. r.ret # 0 /\ r.ret \in {0, 1}
        BY <3>2
      <3>6. T = DOMAIN t => T = DOMAIN r.mem
        BY <2>5, <3>2
      <3>7. Good(r.mem, T, h, F, {})
        BY <3>2, <3>4
      <3> QED BY <2>4, <3>5, <3>6, <3>7 DEF Bigger
    <2>7. CASE ~(Len(old) < MAX_BPT_NODE_NUM - 1)
      <3>1. Len(old) = 3
        <4>1. \A a \in 0 .. 3 : ~(a < 4 - 1) => a = 3
          OBVIOUS
        <4> QED BY <2>4, <2>7, <4>1 DEF MAX_BPT_NODE_NUM
      <3>2. CASE Available(t) = {}
        <4>1. r = Result(t, 0)
          BY <1>2, <1>3, <1>4, <1>7, <2>7, <3>2 DEF bpt_insert
        <4>2. r.mem = t /\ r.ret = 0
          BY <4>1, ResultIs
        <4>3. Good(r.mem, T, h, E, {}) /\ Available(r.mem) = {}
          BY <3>2, <4>2
        <4>4. r.ret # 1 /\ r.ret \in {0, 1}
          BY <4>2
        <4> QED BY <4>3, <4>4 DEF Bigger
      <3>3. CASE Available(t) # {}
        <4>1. PICK b : b = create_node(t)
          OBVIOUS
        <4>2. b \in Pool /\ b \notin DOMAIN t
          BY <1>1, <3>3, <4>1, FreshNode
        <4>3. PICK m : m = With(t, b, EmptyNode(TRUE))
          OBVIOUS
        <4>4. Good(m, T, h, E, {})
          BY <4>2, <4>3, GoodWith
        <4>5. Heap(m) /\ DOMAIN m = DOMAIN t \cup {b}
          <5>1. Heap(m)
            BY <4>4 DEF Good
          <5> QED BY <4>3, <5>1 DEF With
        <4>6. CASE leaf = root /\ Available(m) = {}
          <5>1. r = Result(m, 0)
            BY <1>2, <1>3, <1>4, <1>7, <2>7, <3>3, <4>1, <4>3, <4>6 DEF bpt_insert
          <5>2. r.mem = m /\ r.ret = 0
            BY <5>1, ResultIs
          <5>3. Good(r.mem, T, h, E, {}) /\ Available(r.mem) = {}
            BY <4>4, <4>6, <5>2
          <5>4. r.ret # 1 /\ r.ret \in {0, 1}
            BY <5>2
          <5> QED BY <5>3, <5>4 DEF Bigger
        <4>7. CASE leaf = root /\ Available(m) # {}
          <5>1. PICK o : o = create_node(m)
            OBVIOUS
          <5>2. o \in Pool /\ o \notin DOMAIN m
            BY <4>5, <4>7, <5>1, FreshNode
          <5>3. o \notin DOMAIN t /\ o # b
            BY <4>5, <5>2
          <5>4. PICK u : u = SplitRoot(m, items, o, b)
            OBVIOUS
          <5>5. r = Result(u, 1)
            BY <1>2, <1>3, <1>4, <1>5, <1>7, <2>7, <3>3, <4>1, <4>3, <4>7, <5>1, <5>4 DEF bpt_insert
          <5>6. r.mem = u /\ r.ret = 1
            BY <5>5, ResultIs
          <5>7. leaf = root
            BY <4>7
          <5>8. PICK U, l, D : Topped(t, u, U, l, D, T, F, b, o)
            BY <1>1, <2>3, <3>1, <4>2, <4>3, <5>2, <5>3, <5>4, <5>7, RootLeafSplit
          <5>9. /\ U = T \cup {o} \cup {b} /\ Good(u, U, l, D, {}) /\ D[root] = F[root]
                /\ DOMAIN u = DOMAIN t \cup {b, o}
            BY <5>8 DEF Topped
          <5>10. T = DOMAIN t => U = DOMAIN r.mem
            BY <5>6, <5>9
          <5>11. Good(r.mem, U, l, D, {}) /\ D[root] = E[root] \cup {Item(n, v)}
            BY <2>4, <5>6, <5>9
          <5>12. r.ret # 0 /\ r.ret \in {0, 1}
            BY <5>6
          <5> QED BY <2>4, <5>10, <5>11, <5>12 DEF Bigger
        <4>8. CASE leaf # root
          <5>1. t[leaf].parent # NULL
            BY <1>1, <2>4, <4>8, ParentOf
          <5>2. PICK q : q = SplitLeaf(t, leaf, items, b)
            OBVIOUS
          <5>3. PICK s : s = items[left_count + 1].fnv
            OBVIOUS
          <5>4. r = add_parent(q, leaf, s, b)
            BY <1>2, <1>3, <1>4, <1>5, <1>7, <2>7, <3>3, <4>1, <4>8, <5>1, <5>2, <5>3 DEF bpt_insert
          <5>5. PICK z : z = Call(q, leaf, s, b)
            OBVIOUS
          <5>6. PICK all : all <=> T = DOMAIN t
            OBVIOUS
          <5>7. all => T = DOMAIN t
            BY <5>6
          <5>8. Awaits(z, F[root], all, h[root], 0)
            BY <1>1, <2>3, <3>1, <4>2, <4>8, <5>2, <5>3, <5>5, <5>7, LeafPending
          <5>9. PICK R, H : R = F[root] /\ H = h[root]
            OBVIOUS
          <5>10. Awaits(z, R, all, H, 0)
            BY <5>8, <5>9
          <5>11. Done(r, R, all)
            BY <5>4, <5>5, <5>10, AddParentDone
          <5>12. r.ret \in {0, 1} /\ (r.ret = 0 => Available(r.mem) = {})
            BY <5>11 DEF Done
          <5>13. PICK U, l, D : /\ Good(r.mem, U, l, D, {})
                                /\ r.ret = 1 => D[root] = R /\ (all => U = DOMAIN r.mem)
            BY <5>11 DEF Done
          <5>14. r.ret = 1 => D[root] = E[root] \cup {Item(n, v)}
            BY <2>4, <5>9, <5>13
          <5>15. r.ret = 1 /\ T = DOMAIN t => U = DOMAIN r.mem
            BY <5>6, <5>13
          <5> QED BY <2>4, <5>12, <5>13, <5>14, <5>15 DEF Bigger
        <4> QED BY <4>6, <4>7, <4>8
      <3> QED BY <3>2, <3>3
    <2> QED BY <2>6, <2>7
  <1> QED BY <1>6, <1>7

-----------------------------------------------------------------------------
(***************************************************************************)
(* Deletion: the leaf.                                                     *)
(***************************************************************************)

(* The leaf in which the search for a name ends has the entries of its     *)
(* hash, of which there is one at most.                                    *)
Sought(t, T, h, E, n, leaf, old, position) ==
    /\ Good(t, T, h, E, {}) /\ n \in Names
    /\ leaf = search_leaf(t, n.fnv) /\ old = t[leaf].item
    /\ position = SelectInSeq(old, LAMBDA e : Matches(n, e))

(* What the search for a name met.                                         *)
Met(t, T, h, E, n, leaf, old, position) ==
    /\ leaf \in T /\ t[leaf].leaf /\ h[leaf] = 0 /\ Ascending(old) /\ E[leaf] = Members(old)
    /\ Len(old) \in 0 .. 3 /\ (leaf # root => Len(old) \in 2 .. 3)
    /\ \A x \in E[root] : Matches(n, x) => x \in Members(old)
    /\ position = 0 => \A x \in E[root] : ~Matches(n, x)
    /\ position # 0 => /\ position \in 1 .. Len(old) /\ Matches(n, old[position])
                       /\ \A x \in E[root] : Matches(n, x) <=> x = old[position]

(* The entry bpt_delete finds, and the leaf it is in.                      *)
LEMMA SoughtMet ==
    ASSUME NEW t, NEW T, NEW h, NEW E, NEW n, NEW leaf, NEW old, NEW position,
           Sought(t, T, h, E, n, leaf, old, position)
    PROVE  Met(t, T, h, E, n, leaf, old, position)
  <1>1. /\ Good(t, T, h, E, {}) /\ n \in Names
        /\ leaf = search_leaf(t, n.fnv) /\ old = t[leaf].item
        /\ position = SelectInSeq(old, LAMBDA e : Matches(n, e))
    BY DEF Sought
  <1>2. /\ Tree(t, T, h, E) /\ Heap(t) /\ Keyed(t, T, E) /\ Sized(t, T, {}) /\ Chained(t, T, E)
    BY <1>1 DEF Good, Tree
  <1>3. n.fnv \in Nat
    BY <1>1, BPTreeAssumption
  <1>4. PICK P : Path(t, T, E, n.fnv, P, leaf)
    BY <1>1, <1>2, <1>3, PathOf
  <1>5. /\ leaf \in T /\ t[leaf].leaf
        /\ \A x \in E[root] : x.fnv = n.fnv => x \in E[leaf]
    BY <1>4 DEF Path
  <1>6. /\ old \in Seq(Entry) /\ E[leaf] = Members(old) /\ h[leaf] = 0
        /\ \A i, j \in 1 .. Len(old) : i < j => old[i].fnv < old[j].fnv
    BY <1>1, <1>2, <1>5, LeafOf
  <1>7. Ascending(old)
    BY <1>6 DEF Ascending
  <1>8. SizedAt(t, leaf)
    BY <1>2, <1>5 DEF Sized
  <1>9. Len(old) \in 0 .. 3 /\ (leaf # root => Len(old) \in 2 .. 3)
    <2>1. Len(old) < MAX_BPT_NODE_NUM /\ (leaf # root => Len(old) >= 2)
      BY <1>1, <1>5, <1>8 DEF SizedAt
    <2>2. Len(old) \in Nat
      BY <1>6
    <2>3. \A a \in Nat : (a < 4 => a \in 0 .. 3) /\ (a < 4 /\ a >= 2 => a \in 2 .. 3)
      OBVIOUS
    <2> QED BY <2>1, <2>2, <2>3 DEF MAX_BPT_NODE_NUM
  <1>10. \A x \in E[root] : Matches(n, x) => x \in Members(old)
    BY <1>5, <1>6 DEF Matches
  <1>11. \/ position = 0 /\ \A j \in 1 .. Len(old) : ~Matches(n, old[j])
         \/ position \in 1 .. Len(old) /\ Matches(n, old[position])
    <2> DEFINE I == {j \in 1 .. Len(old) : Matches(n, old[j])}
    <2>1. position = IF I # {} THEN Min(I) ELSE 0
      BY <1>1 DEF SelectInSeq
    <2>2. CASE I = {}
      BY <2>1, <2>2
    <2>3. CASE I # {}
      <3>1. I \subseteq Nat
        BY <1>6
      <3>2. position \in I
        <4> HIDE DEF I
        <4> QED BY <2>1, <2>3, <3>1, MinOf
      <3> QED BY <3>2
    <2> QED BY <2>2, <2>3
  <1>12. ASSUME position = 0, NEW x \in E[root] PROVE ~Matches(n, x)
    <2>1. \A j \in 1 .. Len(old) : ~Matches(n, old[j])
      BY <1>11, <1>12
    <2> QED BY <1>10, <2>1 DEF Members
  <1>13. ASSUME position # 0
         PROVE  /\ position \in 1 .. Len(old) /\ Matches(n, old[position])
                /\ \A x \in E[root] : Matches(n, x) <=> x = old[position]
    <2>1. position \in 1 .. Len(old) /\ Matches(n, old[position])
      BY <1>11, <1>13
    <2>2. ASSUME NEW x \in E[root], Matches(n, x) PROVE x = old[position]
      <3>1. PICK j \in 1 .. Len(old) : x = old[j]
        BY <1>10, <2>2 DEF Members
      <3>2. old[j].fnv = n.fnv /\ old[position].fnv = n.fnv
        BY <2>1, <2>2, <3>1 DEF Matches
      <3>3. ~(j < position) /\ ~(position < j)
        BY <1>3, <1>6, <2>1, <3>2
      <3>4. j = position
        BY <2>1, <3>3
      <3> QED BY <3>1, <3>4
    <2> QED BY <2>1, <2>2
  <1> QED BY <1>5, <1>6, <1>7, <1>9, <1>10, <1>12, <1>13 DEF Met

(* Its entry is taken out; the leaf may then have too few.                 *)
Emptying(t, T, h, E, n, leaf, old, position, s, V) ==
    /\ Sought(t, T, h, E, n, leaf, old, position) /\ position # 0
    /\ s = RemoveAt(old, position) /\ V = WithItems(t, leaf, s)

(* The tree after the entry is taken out.                                  *)
Emptier(t, T, h, E, n, leaf, s, V, F) ==
    /\ Good(V, T, h, F, {leaf}) /\ F[root] = {x \in E[root] : ~Matches(n, x)}
    /\ leaf \in T /\ V[leaf].leaf /\ h[leaf] = 0 /\ DOMAIN V = DOMAIN t
    /\ V[leaf].item = s /\ s \in Seq(Entry) /\ Len(s) \in 0 .. 2
    /\ leaf # root => Len(s) \in 1 .. 2
    /\ \E x \in E[root] : Matches(n, x)

(* bpt_delete in a leaf: the tree without the entry, of which that leaf    *)
(* may be too small.                                                       *)
LEMMA EmptyingGood ==
    ASSUME NEW t, NEW T, NEW h, NEW E, NEW n, NEW leaf, NEW old, NEW position, NEW s, NEW V,
           Emptying(t, T, h, E, n, leaf, old, position, s, V)
    PROVE  \E F : Emptier(t, T, h, E, n, leaf, s, V, F)
  <1>1. /\ Sought(t, T, h, E, n, leaf, old, position) /\ position # 0
        /\ s = RemoveAt(old, position) /\ V = WithItems(t, leaf, s)
    BY DEF Emptying
  <1>2. Good(t, T, h, E, {}) /\ old = t[leaf].item
    BY <1>1 DEF Sought
  <1>3. Met(t, T, h, E, n, leaf, old, position)
    BY <1>1, SoughtMet
  <1>4. /\ Tree(t, T, h, E) /\ Heap(t) /\ Keyed(t, T, E) /\ Sized(t, T, {}) /\ Chained(t, T, E)
    BY <1>2 DEF Good, Tree
  <1>5. /\ leaf \in T /\ t[leaf].leaf /\ h[leaf] = 0 /\ Ascending(old) /\ E[leaf] = Members(old)
        /\ Len(old) \in 0 .. 3 /\ (leaf # root => Len(old) \in 2 .. 3)
    BY <1>3 DEF Met
  <1>6. /\ position \in 1 .. Len(old) /\ Matches(n, old[position])
        /\ \A x \in E[root] : Matches(n, x) <=> x = old[position]
    BY <1>1, <1>3 DEF Met
  <1>7. PICK e : e = old[position]
    OBVIOUS
  <1>8. e \in E[leaf] /\ e \in E[root] /\ Matches(n, e)
    <2>1. e \in E[leaf]
      BY <1>5, <1>6, <1>7 DEF Members
    <2>2. E[leaf] \subseteq E[root]
      BY <1>4, <1>5, InRoot
    <2> QED BY <1>6, <1>7, <2>1, <2>2
  <1>9. Ascending(s) /\ Len(s) = Len(old) - 1 /\ Members(s) = E[leaf] \ {e}
    BY <1>1, <1>5, <1>6, <1>7, ItemRemoved
  <1>10. s \in Seq(Entry) /\ Row(Each(s)) /\ Whole(Each(s)) = E[leaf] \ {e}
    <2>1. s \in Seq(Entry) /\ \A x, y \in 1 .. Len(s) : x < y => s[x].fnv < s[y].fnv
      BY <1>9 DEF Ascending
    <2> QED BY <1>9, <2>1, WholeEach
  <1>11. Len(s) \in 0 .. 2 /\ (leaf # root => Len(s) \in 1 .. 2)
    <2>1. Len(old) \in 1 .. 3
      BY <1>5, <1>6
    <2>2. \A a \in 1 .. 3 : a - 1 \in 0 .. 2
      OBVIOUS
    <2>3. \A a \in 2 .. 3 : a - 1 \in 1 .. 2
      OBVIOUS
    <2> QED BY <1>5, <1>9, <2>1, <2>2, <2>3
  <1>12. T \subseteq DOMAIN t /\ root \in T /\ leaf \in DOMAIN t
    BY <1>4, <1>5, TreeTypes
  <1>13. Refilled(t, V, leaf, s)
    BY <1>1, <1>4, <1>10, <1>12, WithItemsOf
  <1>14. /\ Heap(V) /\ DOMAIN V = DOMAIN t /\ \A x \in DOMAIN t : x # leaf => V[x] = t[x]
         /\ V[leaf].leaf = t[leaf].leaf /\ V[leaf].item = s /\ V[leaf].key = t[leaf].key
         /\ V[leaf].child = t[leaf].child /\ V[leaf].next = t[leaf].next
         /\ V[leaf].parent = t[leaf].parent
    BY <1>13 DEF Refilled
  <1>15. ASSUME NEW x \in T
         PROVE  /\ V[x].leaf = t[x].leaf /\ V[x].child = t[x].child /\ V[x].next = t[x].next
                /\ V[x].parent = t[x].parent /\ V[x].key = t[x].key
                /\ x # leaf => V[x].item = t[x].item
    <2>1. x \in DOMAIN t
      BY <1>12
    <2>2. CASE x = leaf
      BY <1>14, <2>2
    <2>3. CASE x # leaf
      BY <1>14, <2>1, <2>3
    <2> QED BY <2>2, <2>3
  <1>16. leaf # root => E[leaf] \ {e} # {}
    <2> SUFFICES ASSUME leaf # root PROVE Members(s) # {}
      BY <1>9
    <2>1. 1 \in 1 .. Len(s)
      BY <1>11
    <2> QED BY <2>1 DEF Members
  <1>17. Removing(t, V, T, h, E, leaf, e)
    BY <1>4, <1>5, <1>8, <1>10, <1>12, <1>14, <1>15, <1>16 DEF Removing
  <1>18. PICK F : F = [x \in T |-> E[x] \ {e}]
    OBVIOUS
  <1>19. Tree(V, T, h, F)
    BY <1>17, <1>18, EntryRemoved
  <1>20. F[root] = E[root] \ {e}
    BY <1>17, <1>18, EntryRemoved
  <1>21. Keyed(V, T, F)
    BY <1>4, <1>17, <1>18, EntryRemoved
  <1>22. \A x \in T : x # root => F[x] # {}
    BY <1>17, <1>18, EntryRemoved
  <1>23. \A x \in T : F[x] \subseteq E[x]
    BY <1>18
  <1>24. Chaining(t, V, T, h, E, T, h, F)
    <2>1. LeavesOf(V, T) = LeavesOf(t, T) \cap T
      BY <1>15 DEF LeavesOf
    <2>2. ASSUME NEW x \in LeavesOf(V, T)
          PROVE  /\ V[x].next = t[x].next
                 /\ t[x].next # NULL => t[x].next \in DOMAIN V
                 /\ x # root => E[x] \cap F[x] # {}
      <3>1. x \in T /\ t[x].leaf /\ x \in LeavesOf(t, T)
        BY <1>15 DEF LeavesOf
      <3>2. ChainedAt(t, T, E, x)
        BY <1>4, <3>1 DEF Chained
      <3> QED BY <1>14, <1>15, <1>22, <1>23, <3>1, <3>2 DEF ChainedAt
    <2>3. \A x \in T : ~V[x].leaf => V[x].next = NULL
      BY <1>4, <1>15 DEF Chained
    <2> QED BY <1>4, <1>19, <2>1, <2>2, <2>3 DEF Chaining
  <1>25. Chained(V, T, F)
    BY <1>24, ChainKept
  <1>26. Sized(V, T, {leaf})
    <2>1. ASSUME NEW x \in T \ {leaf} PROVE SizedAt(V, x)
      <3>1. SizedAt(t, x) /\ V[x] = t[x]
        BY <1>4, <1>12, <1>14 DEF Sized
      <3> QED BY <3>1 DEF SizedAt
    <2> QED BY <2>1 DEF Sized
  <1>27. Good(V, T, h, F, {leaf})
    BY <1>19, <1>21, <1>25, <1>26 DEF Good, Tree
  <1>28. F[root] = {x \in E[root] : ~Matches(n, x)}
    BY <1>6, <1>7, <1>20
  <1>29. V[leaf].leaf /\ V[leaf].item = s /\ DOMAIN V = DOMAIN t
    BY <1>5, <1>14
  <1>30. Emptier(t, T, h, E, n, leaf, s, V, F)
    BY <1>5, <1>8, <1>10, <1>11, <1>27, <1>28, <1>29 DEF Emptier
  <1> QED BY <1>30

-----------------------------------------------------------------------------
(***************************************************************************)
(* Deletion: neighbours.                                                   *)
(***************************************************************************)

(* A list around two neighbours, and without the second of them.           *)
AroundTwo(S, c, j, A, B) ==
    /\ A \in Seq(S) /\ B \in Seq(S)
    /\ c = A \o <<c[j], c[j + 1]>> \o B /\ RemoveAt(c, j + 1) = A \o <<c[j]>> \o B

(* A list around two neighbours in it.                                     *)
LEMMA TwoAround ==
    ASSUME NEW S, NEW c \in Seq(S), NEW j \in 1 .. Len(c), j + 1 \in 1 .. Len(c)
    PROVE  \E A, B : AroundTwo(S, c, j, A, B)
  <1>1. PICK d : d = RemoveAt(c, j + 1)
    OBVIOUS
  <1>2. PICK i : i = j + 1
    OBVIOUS
  <1>3. i \in 1 .. Len(c) /\ d = RemoveAt(c, i)
    BY <1>1, <1>2
  <1>4. /\ d \in Seq(S) /\ Len(d) = Len(c) - 1
        /\ \A m \in 1 .. Len(d) : (m < i => d[m] = c[m]) /\ (i <= m => d[m] = c[m + 1])
    <2>1. Removed(S, c, i, d)
      BY <1>3, RemovedList
    <2> QED BY <2>1 DEF Removed
  <1>5. j \in 1 .. Len(d) /\ i \in 1 .. Len(d) + 1
    BY <1>2, <1>3, <1>4
  <1>6. d[j] = c[j]
    BY <1>2, <1>4, <1>5
  <1>7. PICK y : y = c[i]
    OBVIOUS
  <1>8. y \in S
    BY <1>3, <1>7
  <1>9. PICK r : r = InsertAt(d, i, y)
    OBVIOUS
  <1>10. /\ r \in Seq(S) /\ Len(r) = Len(d) + 1
         /\ \A m \in 1 .. Len(r) : (m < i => r[m] = d[m]) /\ (m = i => r[m] = y) /\ (i < m => r[m] = d[m - 1])
    <2>1. Inserted(S, d, i, y, r)
      BY <1>4, <1>5, <1>8, <1>9, InsertedList
    <2> QED BY <2>1 DEF Inserted
  <1>11. Len(r) = Len(c)
    BY <1>4, <1>10
  <1>12. ASSUME NEW m \in 1 .. Len(r) PROVE r[m] = c[m]
    <2>1. CASE m < i
      <3>1. m \in 1 .. Len(d)
        BY <1>3, <1>4, <1>11, <2>1
      <3> QED BY <1>4, <1>10, <2>1, <3>1
    <2>2. CASE m = i
      BY <1>7, <1>10, <2>2
    <2>3. CASE i < m
      <3>1. m - 1 \in 1 .. Len(d) /\ i <= m - 1 /\ (m - 1) + 1 = m
        BY <1>3, <1>4, <1>11, <2>3
      <3>2. r[m] = d[m - 1]
        BY <1>10, <2>3
      <3>3. d[m - 1] = c[(m - 1) + 1]
        BY <1>4, <3>1
      <3> QED BY <3>1, <3>2, <3>3
    <2>4. m < i \/ m = i \/ i < m
      BY <1>3
    <2> QED BY <2>1, <2>2, <2>3, <2>4
  <1>13. r = c
    BY <1>10, <1>11, <1>12, SameList
  <1>14. PICK A, B : A = SubSeq(d, 1, j - 1) /\ B = SubSeq(d, j + 1, Len(d))
    OBVIOUS
  <1>15. A \in Seq(S) /\ B \in Seq(S) /\ d = A \o <<d[j]>> \o B
    BY <1>4, <1>5, <1>14, Parted
  <1>16. InsertAt(d, j + 1, y) = A \o <<d[j], y>> \o B
    BY <1>4, <1>5, <1>8, <1>14, Around
  <1>17. c = A \o <<c[j], c[j + 1]>> \o B
    BY <1>2, <1>6, <1>7, <1>9, <1>13, <1>16
  <1>18. RemoveAt(c, j + 1) = A \o <<c[j]>> \o B
    BY <1>1, <1>6, <1>15
  <1>19. AroundTwo(S, c, j, A, B)
    BY <1>15, <1>17, <1>18 DEF AroundTwo
  <1> QED BY <1>19

(* Neighbours below p, a to the left of b.                                 *)
Siblings(t, T, p, j, a, b) ==
    /\ p \in T /\ ~t[p].leaf
    /\ j \in 1 .. Len(t[p].child) /\ j + 1 \in 1 .. Len(t[p].child)
    /\ t[p].child[j] = a /\ t[p].child[j + 1] = b

(* Two neighbours below one parent.                                        *)
LEMMA SiblingsAre ==
    ASSUME NEW t, NEW T, NEW h, NEW E, Tree(t, T, h, E),
           NEW p, NEW j, NEW a, NEW b, Siblings(t, T, p, j, a, b)
    PROVE  /\ a \in T /\ b \in T /\ a # root /\ b # root /\ a # b /\ a # p /\ b # p /\ p # NULL
           /\ h[a] \in Nat /\ h[a] + 1 = h[p] /\ h[b] = h[a] /\ t[a].parent = p /\ t[b].parent = p
           /\ Less(E[a], E[b]) /\ E[a] # {} /\ E[b] # {} /\ t[a].leaf = t[b].leaf
  <1>1. /\ p \in T /\ ~t[p].leaf
        /\ j \in 1 .. Len(t[p].child) /\ j + 1 \in 1 .. Len(t[p].child)
        /\ t[p].child[j] = a /\ t[p].child[j + 1] = b
    BY DEF Siblings
  <1>2. a \in T /\ a # root /\ h[a] \in Nat /\ h[a] + 1 = h[p] /\ t[a].parent = p /\ E[a] # {}
    BY <1>1, ChildOf
  <1>3. b \in T /\ b # root /\ h[b] \in Nat /\ h[b] + 1 = h[p] /\ t[b].parent = p /\ E[b] # {}
    BY <1>1, ChildOf
  <1>4. \A i, m \in 1 .. Len(t[p].child) : i < m => Less(E[t[p].child[i]], E[t[p].child[m]])
    BY <1>1, InnerOf
  <1>5. j < j + 1
    BY <1>1
  <1>6. Less(E[a], E[b])
    BY <1>1, <1>4, <1>5
  <1>7. a # b
    <2>1. PICK e : e \in E[a]
      BY <1>2
    <2>2. e.fnv \in Nat
      <3>1. e \in Entry
        <4>1. E \in [T -> SUBSET Entry]
          BY TreeTypes
        <4> QED BY <1>2, <2>1, <4>1
      <3> QED BY <3>1 DEF Entry
    <2>3. a = b => e.fnv < e.fnv
      BY <1>6, <2>1 DEF Less
    <2> QED BY <2>2, <2>3
  <1>8. h[p] \in Nat /\ NULL \notin T
    <2>1. h \in [T -> Nat] /\ NULL \notin T
      BY TreeTypes
    <2> QED BY <1>1, <2>1
  <1>9. h[b] = h[a] /\ a # p /\ b # p
    BY <1>2, <1>3, <1>8
  <1>10. Kind(t, h, a) /\ Kind(t, h, b) /\ t[a].leaf \in BOOLEAN /\ t[b].leaf \in BOOLEAN
    <2>1. Kind(t, h, a) /\ Kind(t, h, b)
      BY <1>2, <1>3, TreeTypes
    <2>2. Heap(t) /\ a \in DOMAIN t /\ b \in DOMAIN t
      BY <1>2, <1>3, TreeTypes
    <2> QED BY <2>1, <2>2, NodeTypes
  <1>11. t[a].leaf = t[b].leaf
    BY <1>9, <1>10 DEF Kind
  <1> QED BY <1>1, <1>2, <1>3, <1>6, <1>7, <1>8, <1>9, <1>11

(* What the places of a node and of its neighbours are.                    *)
Placed(t, T, a, p, i) ==
    /\ p = t[a].parent /\ p \in T /\ ~t[p].leaf /\ i \in 1 .. Len(t[p].child) /\ t[p].child[i] = a
    /\ i = Place(t, a)
    /\ LeftOf(t, a) # NULL => Siblings(t, T, p, i - 1, LeftOf(t, a), a)
    /\ RightOf(t, a) # NULL => Siblings(t, T, p, i, a, RightOf(t, a))
    /\ LeftOf(t, a) = NULL => i = 1
    /\ RightOf(t, a) = NULL => i = Len(t[p].child)

(* child_idx finds every node but the root below its parent.               *)
LEMMA PlaceOf ==
    ASSUME NEW t, NEW T, NEW h, NEW E, Tree(t, T, h, E), NEW a \in T, a # root
    PROVE  \E p, i : Placed(t, T, a, p, i)
  <1>1. PICK p : p = t[a].parent
    OBVIOUS
  <1>2. p \in T /\ ~t[p].leaf /\ \E i \in 1 .. Len(t[p].child) : t[p].child[i] = a
    BY <1>1, ParentOf
  <1>3. PICK i \in 1 .. Len(t[p].child) : t[p].child[i] = a
    BY <1>2
  <1>4. PICK c : c = t[p].child
    OBVIOUS
  <1>5. /\ c \in Seq(T)
        /\ \A m, n \in 1 .. Len(c) : c[m] = c[n] => m = n
    <2>1. Heap(t) /\ Shape(t, T, h, E)
      BY DEF Tree
    <2>2. t[p].child \in Seq(T)
      BY <1>2, <2>1, Children
    <2>3. \A m, n \in 1 .. Len(t[p].child) : t[p].child[m] = t[p].child[n] => m = n
      BY <1>2, <2>1, Children
    <2> QED BY <1>4, <2>2, <2>3
  <1>6. i \in 1 .. Len(c) /\ c[i] = a
    BY <1>3, <1>4
  <1>7. IndexOf(c, c[i]) = i
    <2>1. \A m \in 1 .. Len(c) : c[m] = c[i] => m = i
      BY <1>5, <1>6
    <2> QED BY <1>5, <1>6, <2>1, IndexOfIs
  <1>8. Place(t, a) = i
    BY <1>1, <1>4, <1>6, <1>7 DEF Place
  <1>9. LeftOf(t, a) = (IF i > 1 THEN c[i - 1] ELSE NULL)
    BY <1>1, <1>4, <1>8 DEF LeftOf
  <1>10. RightOf(t, a) = (IF i < Len(c) THEN c[i + 1] ELSE NULL)
    BY <1>1, <1>4, <1>8 DEF RightOf
  <1>11. NULL \notin T
    BY TreeTypes
  <1>12. Len(c) \in Nat /\ i \in Nat
    BY <1>5, <1>6
  <1>13. ASSUME LeftOf(t, a) # NULL PROVE Siblings(t, T, p, i - 1, LeftOf(t, a), a)
    <2>1. i > 1 /\ LeftOf(t, a) = c[i - 1]
      BY <1>9, <1>13
    <2>2. i - 1 \in 1 .. Len(c) /\ (i - 1) + 1 = i
      BY <1>6, <1>12, <2>1
    <2> QED BY <1>2, <1>4, <1>6, <2>1, <2>2 DEF Siblings
  <1>14. ASSUME RightOf(t, a) # NULL PROVE Siblings(t, T, p, i, a, RightOf(t, a))
    <2>1. i < Len(c) /\ RightOf(t, a) = c[i + 1]
      BY <1>10, <1>14
    <2>2. i + 1 \in 1 .. Len(c)
      BY <1>6, <1>12, <2>1
    <2> QED BY <1>2, <1>4, <1>6, <2>1, <2>2 DEF Siblings
  <1>15. ASSUME LeftOf(t, a) = NULL PROVE i = 1
    <2> SUFFICES ASSUME i # 1 PROVE FALSE
      OBVIOUS
    <2>1. i > 1 /\ i - 1 \in 1 .. Len(c)
      BY <1>6, <1>12
    <2>2. c[i - 1] \in T
      BY <1>5, <2>1
    <2> QED BY <1>9, <1>11, <1>15, <2>1, <2>2
  <1>16. ASSUME RightOf(t, a) = NULL PROVE i = Len(c)
    <2> SUFFICES ASSUME i # Len(c) PROVE FALSE
      OBVIOUS
    <2>1. i < Len(c) /\ i + 1 \in 1 .. Len(c)
      BY <1>6, <1>12
    <2>2. c[i + 1] \in T
      BY <1>5, <2>1
    <2> QED BY <1>10, <1>11, <1>16, <2>1, <2>2
  <1>17. Placed(t, T, a, p, i)
    BY <1>1, <1>2, <1>3, <1>4, <1>8, <1>13, <1>14, <1>15, <1>16 DEF Placed
  <1> QED BY <1>17

(* A node that is balanced has a parent, and is found there.               *)
LEMMA PlaceIs ==
    ASSUME NEW t, NEW T, NEW h, NEW E, Tree(t, T, h, E), NEW a \in T, a # root
    PROVE  t[a].parent # NULL /\ Place(t, a) # 0
  <1>1. PICK p, i : Placed(t, T, a, p, i)
    BY PlaceOf
  <1>2. p = t[a].parent /\ p \in T /\ i \in 1 .. Len(t[p].child) /\ i = Place(t, a)
    BY <1>1 DEF Placed
  <1>3. NULL \notin T
    BY TreeTypes
  <1> QED BY <1>2, <1>3

(* The neighbours a and b are rearranged: they share what they have anew,  *)
(* or a has all of it.                                                     *)
Mixing(t, u, T, h, E, p, j, a, b, H, U, X) ==
    /\ Tree(t, T, h, E) /\ Keyed(t, T, E) /\ Sized(t, T, X) /\ X \subseteq {a, b, p}
    /\ Siblings(t, T, p, j, a, b) /\ Heap(u)
    /\ \/ H = <<a, b>> /\ U = T /\ u[p].child = t[p].child
       \/ H = <<a>> /\ U = T \ {b} /\ u[p].child = RemoveAt(t[p].child, j + 1)
    /\ U \subseteq DOMAIN u
    /\ ~u[p].leaf /\ u[p].item = <<>> /\ u[p].parent = t[p].parent
    /\ Items(u, H) = t[a].item \o t[b].item /\ Kids(u, H) = t[a].child \o t[b].child
    /\ \A x \in Members(H) :
          /\ u[x].leaf = t[a].leaf /\ u[x].parent = p
          /\ t[a].leaf => u[x].child = <<>> /\ u[x].item # <<>>
          /\ ~t[a].leaf => u[x].item = <<>> /\ u[x].child # <<>>
          /\ \A y \in Members(u[x].child) : u[y].parent = x
    /\ \A x \in T \ {a, b, p} :
          /\ u[x].leaf = t[x].leaf /\ u[x].item = t[x].item /\ u[x].child = t[x].child
          /\ u[x].key = t[x].key
          /\ t[x].parent \notin {a, b} => u[x].parent = t[x].parent

(* The tree after two neighbours gave what they have to H.                 *)
Mixed(t, u, T, h, E, p, a, b, H, U, k, F) ==
    /\ Tree(u, U, k, F) /\ F[root] = E[root] /\ p \in U /\ root \in U /\ F[p] = E[p]
    /\ \A x \in T \ {a, b} : x \in U /\ k[x] = h[x] /\ F[x] = E[x]
    /\ \A x \in Members(H) : x \in U /\ k[x] = h[a]
    /\ \A x \in U \ {a, b, p} : (~u[x].leaf => KeyedAt(u, F, x)) /\ SizedAt(u, x)
    /\ U \subseteq T

(* Two neighbours a and b give what they have to the nodes H.              *)
LEMMA Mix ==
    ASSUME NEW t, NEW u, NEW T, NEW h, NEW E, NEW p, NEW j, NEW a, NEW b, NEW H, NEW U, NEW X,
           Mixing(t, u, T, h, E, p, j, a, b, H, U, X)
    PROVE  \E k, F : Mixed(t, u, T, h, E, p, a, b, H, U, k, F)
  <1> DEFINE c == t[p].child
             G == <<a, b>>
  <1>1. /\ Tree(t, T, h, E) /\ Keyed(t, T, E) /\ Sized(t, T, X) /\ X \subseteq {a, b, p}
        /\ Siblings(t, T, p, j, a, b) /\ Heap(u) /\ U \subseteq DOMAIN u
        /\ ~u[p].leaf /\ u[p].item = <<>> /\ u[p].parent = t[p].parent
        /\ Items(u, H) = t[a].item \o t[b].item /\ Kids(u, H) = t[a].child \o t[b].child
    BY DEF Mixing
  <1>2. \/ H = <<a, b>> /\ U = T /\ u[p].child = t[p].child
        \/ H = <<a>> /\ U = T \ {b} /\ u[p].child = RemoveAt(t[p].child, j + 1)
    BY DEF Mixing
  <1>3. \A x \in Members(H) :
          /\ u[x].leaf = t[a].leaf /\ u[x].parent = p
          /\ t[a].leaf => u[x].child = <<>> /\ u[x].item # <<>>
          /\ ~t[a].leaf => u[x].item = <<>> /\ u[x].child # <<>>
          /\ \A y \in Members(u[x].child) : u[y].parent = x
    BY DEF Mixing
  <1>4. \A x \in T \ {a, b, p} :
          /\ u[x].leaf = t[x].leaf /\ u[x].item = t[x].item /\ u[x].child = t[x].child
          /\ u[x].key = t[x].key
          /\ t[x].parent \notin {a, b} => u[x].parent = t[x].parent
    BY DEF Mixing
  <1>5. /\ a \in T /\ b \in T /\ a # root /\ b # root /\ a # b /\ a # p /\ b # p /\ p # NULL
        /\ h[a] \in Nat /\ h[a] + 1 = h[p] /\ t[a].parent = p /\ t[b].parent = p
        /\ t[a].leaf = t[b].leaf
    BY <1>1, SiblingsAre
  <1>6. /\ p \in T /\ ~t[p].leaf
        /\ j \in 1 .. Len(t[p].child) /\ j + 1 \in 1 .. Len(t[p].child)
        /\ t[p].child[j] = a /\ t[p].child[j + 1] = b
    BY <1>1 DEF Siblings
  <1>7. /\ T \subseteq DOMAIN t /\ root \in T /\ DOMAIN t \subseteq Nat \ {NULL} /\ Heap(t)
        /\ Kind(t, h, a)
    BY <1>1, <1>5, TreeTypes
  <1>8. a \in Nat /\ b \in Nat
    BY <1>5, <1>7
  <1>9. PICK A, B : AroundTwo(Nat, c, j, A, B)
    <2>1. c \in Seq(Nat)
      BY <1>6, <1>7, NodeTypes
    <2>2. j \in 1 .. Len(c) /\ j + 1 \in 1 .. Len(c)
      BY <1>6
    <2> HIDE DEF c
    <2>3. \E A, B : AroundTwo(Nat, c, j, A, B)
      BY <2>1, <2>2, TwoAround
    <2> QED BY <2>3
  <1>10. /\ A \in Seq(Nat) /\ B \in Seq(Nat) /\ c = A \o <<a, b>> \o B
         /\ RemoveAt(c, j + 1) = A \o <<a>> \o B
    BY <1>6, <1>9 DEF AroundTwo
  <1>11. u[p].child = A \o H \o B
    BY <1>2, <1>10
  <1>12. Pair(G) /\ Len(G) = 2 /\ G[1] = a /\ G[2] = b
    <2>1. G \in Seq(Nat) /\ Len(G) = 2 /\ G[1] = a /\ G[2] = b
      BY <1>8
    <2> HIDE DEF G
    <2> QED BY <1>5, <2>1 DEF Pair
  <1>13. CASE H = <<a, b>> \/ H = <<a>>
    <2>1. Pair(H)
      <3>1. CASE H = <<a, b>>
        BY <1>12, <3>1
      <3>2. CASE H = <<a>>
        <4>1. H \in Seq(Nat) /\ Len(H) = 1
          BY <1>8, <3>2
        <4> QED BY <4>1 DEF Pair
      <3> QED BY <1>13, <3>1, <3>2
    <2>2. Members(G) = {a, b}
      BY <1>12, PairMembers
    <2>3. (H = <<a, b>> => Members(H) = {a, b}) /\ (H = <<a>> => Members(H) = {a})
      <3>1. ASSUME H = <<a>> PROVE Members(H) = {a}
        <4>1. Len(H) = 1 /\ H[1] = a
          BY <3>1
        <4> QED BY <2>1, <4>1, PairMembers
      <3> QED BY <2>2, <3>1
    <2>4. Members(H) \subseteq {a, b}
      BY <1>13, <2>3
    <2>5. U = (T \ Members(G)) \cup Members(H)
      <3>1. CASE H = <<a, b>> /\ U = T
        BY <1>5, <2>2, <2>3, <3>1
      <3>2. CASE H = <<a>> /\ U = T \ {b}
        BY <1>5, <2>2, <2>3, <3>2
      <3> QED BY <1>2, <3>1, <3>2
    <2>6. Items(t, G) = t[a].item \o t[b].item /\ Kids(t, G) = t[a].child \o t[b].child
      <3> HIDE DEF G
      <3>1. Len(G) # 1
        BY <1>12
      <3> QED BY <1>12, <3>1 DEF Items, Kids
    <2> HIDE DEF G
    <2>7. Bodies(u, h, Members(H), p)
      <3> SUFFICES ASSUME NEW x \in Members(H)
                   PROVE  /\ u[x].parent = p /\ (u[x].leaf <=> h[p] = 1)
                          /\ u[x].leaf => u[x].child = <<>> /\ u[x].item # <<>>
                          /\ ~u[x].leaf => u[x].item = <<>> /\ u[x].child # <<>>
                          /\ \A m \in 1 .. Len(u[x].child) : u[u[x].child[m]].parent = x
        BY DEF Bodies
      <3>1. t[a].leaf <=> h[p] = 1
        <4>1. t[a].leaf <=> h[a] = 0
          BY <1>7 DEF Kind
        <4> QED BY <1>5, <4>1
      <3>2. u[x].leaf <=> h[p] = 1
        BY <1>3, <3>1
      <3>3. \A m \in 1 .. Len(u[x].child) : u[u[x].child[m]].parent = x
        BY <1>3 DEF Members
      <3>4. /\ u[x].parent = p
            /\ u[x].leaf => u[x].child = <<>> /\ u[x].item # <<>>
            /\ ~u[x].leaf => u[x].item = <<>> /\ u[x].child # <<>>
        BY <1>3
      <3> QED BY <3>2, <3>3, <3>4
    <2>8. Kept(t, u, T \ (Members(G) \cup {p}))
      BY <1>4, <2>2 DEF Kept
    <2>9. \A x \in T \ Members(G) : t[x].parent \notin Members(G) => u[x].parent = t[x].parent
      BY <1>1, <1>4, <2>2
    <2>10. Members(H) \cap T \subseteq Members(G)
      BY <2>2, <2>4
    <2>11. t[p].child = A \o G \o B
      BY <1>10 DEF G
    <2>12. Items(u, H) = Items(t, G) /\ Kids(u, H) = Kids(t, G)
      BY <1>1, <2>6
    <2>13. Rearranging(t, u, T, h, E, U, p, A, G, H, B)
      BY <1>1, <1>6, <1>10, <1>11, <1>12, <2>1, <2>5, <2>7, <2>8, <2>9, <2>10, <2>11, <2>12 DEF Rearranging
    <2>14. PICK k, F : Rearranged(u, T, h, E, U, p, G, H, k, F)
      BY <2>13, Rearrange
    <2>15. Beside(t, u, T, h, E, U, p, A, G, H, B, k, F, X)
      <3>1. X \subseteq Members(G) \cup {p}
        BY <1>1, <2>2
      <3>2. \A x \in T \ (Members(G) \cup {p}) : u[x].key = t[x].key
        BY <1>4, <2>2
      <3> QED BY <1>1, <2>13, <2>14, <3>1, <3>2 DEF Beside
    <2>16. Tree(u, U, k, F) /\ F[root] = E[root] /\ p \in U /\ F[p] = E[p]
      BY <2>15, RearrangeRest
    <2>17. \A x \in U \ (Members(H) \cup {p}) : /\ x \in T \ (Members(G) \cup {p})
                                                /\ u[x].leaf = t[x].leaf
                                                /\ ~u[x].leaf => KeyedAt(u, F, x)
                                                /\ SizedAt(u, x)
      BY <2>15, RearrangeRest
    <2>18. \A x \in T \ {a, b} : x \in U /\ k[x] = h[x] /\ F[x] = E[x]
      BY <2>2, <2>5, <2>14 DEF Rearranged
    <2>19. \A x \in Members(H) : x \in U /\ k[x] = h[a]
      <3> SUFFICES ASSUME NEW x \in Members(H) PROVE x \in U /\ k[x] = h[a]
        OBVIOUS
      <3>1. x \in U
        BY <2>5
      <3>2. k[x] + 1 = h[p]
        BY <2>14 DEF Rearranged
      <3>3. k[x] \in Nat
        <4>1. k \in [U -> Nat]
          BY <2>16, TreeTypes
        <4> QED BY <3>1, <4>1
      <3> QED BY <1>5, <3>1, <3>2, <3>3
    <2>20. \A x \in U \ {a, b, p} : (~u[x].leaf => KeyedAt(u, F, x)) /\ SizedAt(u, x)
      BY <2>4, <2>17
    <2>21. U \subseteq T
      BY <1>2
    <2>22. root \in U
      BY <1>5, <1>7, <2>18
    <2>23. Mixed(t, u, T, h, E, p, a, b, H, U, k, F)
      BY <2>16, <2>18, <2>19, <2>20, <2>21, <2>22 DEF Mixed
    <2> QED BY <2>23
  <1> QED BY <1>2, <1>13

(* Two leaves get other entries.                                           *)
Shared(t, a, s, b, r) == [t EXCEPT ![a].item = s, ![b].item = r]
BothFilled(t, u, a, s, b, r) ==
    /\ Heap(u) /\ DOMAIN u = DOMAIN t
    /\ \A x \in DOMAIN t : /\ u[x].leaf = t[x].leaf /\ u[x].key = t[x].key /\ u[x].child = t[x].child
                           /\ u[x].next = t[x].next /\ u[x].parent = t[x].parent
                           /\ x \notin {a, b} => u[x].item = t[x].item
    /\ u[a].item = s /\ u[b].item = r

(* Two leaves are given other entries.                                     *)
LEMMA SharedOf ==
    ASSUME NEW t, Heap(t), NEW a \in DOMAIN t, NEW b \in DOMAIN t, a # b,
           NEW s \in Seq(Entry), NEW r \in Seq(Entry), NEW u, u = Shared(t, a, s, b, r)
    PROVE  BothFilled(t, u, a, s, b, r)
  <1>1. PICK v : v = WithItems(t, a, s)
    OBVIOUS
  <1>2. Refilled(t, v, a, s)
    BY <1>1, WithItemsOf
  <1>3. /\ Heap(v) /\ DOMAIN v = DOMAIN t /\ \A x \in DOMAIN t : x # a => v[x] = t[x]
        /\ v[a].leaf = t[a].leaf /\ v[a].item = s /\ v[a].key = t[a].key
        /\ v[a].child = t[a].child /\ v[a].next = t[a].next /\ v[a].parent = t[a].parent
    BY <1>2 DEF Refilled
  <1>4. u = WithItems(v, b, r)
    <2>1. u = [[t EXCEPT ![a].item = s] EXCEPT ![b].item = r]
      BY DEF Shared
    <2> QED BY <1>1, <2>1 DEF WithItems
  <1>5. Refilled(v, u, b, r)
    <2>1. b \in DOMAIN v
      BY <1>3
    <2> QED BY <1>3, <1>4, <2>1, WithItemsOf
  <1>6. /\ Heap(u) /\ DOMAIN u = DOMAIN t /\ \A x \in DOMAIN t : x # b => u[x] = v[x]
        /\ u[b].leaf = v[b].leaf /\ u[b].item = r /\ u[b].key = v[b].key
        /\ u[b].child = v[b].child /\ u[b].next = v[b].next /\ u[b].parent = v[b].parent
    BY <1>3, <1>5 DEF Refilled
  <1>7. ASSUME NEW x \in DOMAIN t
        PROVE  /\ u[x].leaf = t[x].leaf /\ u[x].key = t[x].key /\ u[x].child = t[x].child
               /\ u[x].next = t[x].next /\ u[x].parent = t[x].parent
               /\ x \notin {a, b} => u[x].item = t[x].item
    <2>1. CASE x = a
      BY <1>3, <1>6, <2>1
    <2>2. CASE x = b
      BY <1>3, <1>6, <2>2
    <2>3. CASE x # a /\ x # b
      BY <1>3, <1>6, <2>3
    <2> QED BY <2>1, <2>2, <2>3
  <1>8. u[a].item = s
    BY <1>3, <1>6
  <1> QED BY <1>6, <1>7, <1>8 DEF BothFilled

(* Neighbouring leaves share their entries anew.                           *)
Sharing(t, T, h, E, X, p, j, a, b, s, r, v) ==
    /\ Good(t, T, h, E, X) /\ X \subseteq {a, b} /\ Siblings(t, T, p, j, a, b) /\ t[a].leaf
    /\ s \in Seq(Entry) /\ r \in Seq(Entry) /\ s \o r = t[a].item \o t[b].item
    /\ Len(s) \in 2 .. 3 /\ Len(r) \in 2 .. 3 /\ v = Shared(t, a, s, b, r)

(* The tree of the same entries and nodes is in order.                     *)
Mended(t, T, E, u) ==
    \E U, k, F : /\ Good(u, U, k, F, {})
                 /\ F[root] = E[root] /\ (T = DOMAIN t => U = DOMAIN u)

(* An entry changes sides between two leaves, and fix_up renews the keys   *)
(* above: all of the invariant holds.                                      *)
LEMMA LeavesShare ==
    ASSUME NEW t, NEW T, NEW h, NEW E, NEW X, NEW p, NEW j, NEW a, NEW b, NEW s, NEW r, NEW v,
           Sharing(t, T, h, E, X, p, j, a, b, s, r, v), NEW u, u = fix_up(v, p)
    PROVE  Mended(t, T, E, u)
  <1>1. /\ Good(t, T, h, E, X) /\ X \subseteq {a, b} /\ Siblings(t, T, p, j, a, b) /\ t[a].leaf
        /\ s \in Seq(Entry) /\ r \in Seq(Entry) /\ s \o r = t[a].item \o t[b].item
        /\ Len(s) \in 2 .. 3 /\ Len(r) \in 2 .. 3 /\ v = Shared(t, a, s, b, r)
    BY DEF Sharing
  <1>2. s \in Seq(Entry) /\ r \in Seq(Entry) /\ Len(s) \in 2 .. 3 /\ Len(r) \in 2 .. 3
    BY DEF Sharing
  <1>3. /\ Len(s) # 0 /\ Len(r) # 0 /\ 1 \in 1 .. Len(s) /\ Len(r) \in 1 .. Len(r)
        /\ Len(s) < 4 /\ Len(s) >= 2 /\ Len(r) < 4 /\ Len(r) >= 2
    <2>1. \A x \in 2 .. 3 : x # 0 /\ 1 \in 1 .. x /\ x \in 1 .. x /\ x < 4 /\ x >= 2
      OBVIOUS
    <2> QED BY <1>2, <2>1
  <1>4. /\ Tree(t, T, h, E) /\ Heap(t) /\ Keyed(t, T, E) /\ Sized(t, T, X) /\ Chained(t, T, E)
    BY <1>1 DEF Good, Tree
  <1>5. /\ a \in T /\ b \in T /\ a # root /\ b # root /\ a # b /\ a # p /\ b # p /\ p # NULL
        /\ t[a].parent = p /\ t[b].parent = p /\ t[b].leaf /\ E[a] # {} /\ E[b] # {}
    BY <1>1, <1>4, SiblingsAre
  <1>6. T \subseteq DOMAIN t /\ a \in DOMAIN t /\ b \in DOMAIN t /\ p \in T /\ ~t[p].leaf /\ p \in DOMAIN t
    BY <1>1, <1>4, <1>5, TreeTypes DEF Siblings
  <1>7. BothFilled(t, v, a, s, b, r)
    BY <1>1, <1>4, <1>5, <1>6, SharedOf
  <1>8. /\ Heap(v) /\ DOMAIN v = DOMAIN t
        /\ \A x \in DOMAIN t : /\ v[x].leaf = t[x].leaf /\ v[x].key = t[x].key /\ v[x].child = t[x].child
                               /\ v[x].next = t[x].next /\ v[x].parent = t[x].parent
                               /\ x \notin {a, b} => v[x].item = t[x].item
        /\ v[a].item = s /\ v[b].item = r
    BY <1>7 DEF BothFilled
  <1>9. PICK H : H = <<a, b>>
    OBVIOUS
  <1>10. a \in Nat /\ b \in Nat
    BY <1>4, <1>5, TreeTypes
  <1>11. H \in Seq(Nat) /\ Len(H) = 2 /\ H[1] = a /\ H[2] = b
    BY <1>9, <1>10
  <1>12. Members(H) = {a, b}
    <2>1. Pair(H)
      BY <1>5, <1>11 DEF Pair
    <2> QED BY <1>11, <2>1, PairMembers
  <1>13. /\ t[a].child = <<>> /\ t[b].child = <<>> /\ t[p].item = <<>>
         /\ v[p].item = <<>> /\ ~v[p].leaf /\ v[p].child = t[p].child /\ v[p].parent = t[p].parent
         /\ v[p].key = t[p].key
    <2>1. Kind(t, h, a) /\ Kind(t, h, b) /\ Kind(t, h, p)
      BY <1>4, <1>5, <1>6, TreeTypes
    <2>2. v[p].item = t[p].item
      BY <1>5, <1>6, <1>8
    <2> QED BY <1>1, <1>5, <1>6, <1>8, <2>1, <2>2 DEF Kind
  <1>14. Items(v, H) = t[a].item \o t[b].item /\ Kids(v, H) = t[a].child \o t[b].child
    <2>1. Len(H) # 1
      BY <1>11
    <2>2. v[a].child = t[a].child /\ v[b].child = t[b].child
      BY <1>6, <1>8
    <2> QED BY <1>1, <1>8, <1>11, <2>1, <2>2 DEF Items, Kids
  <1>15. s # <<>> /\ r # <<>>
    <2>1. Len(s) # 0 /\ Len(r) # 0
      BY <1>3
    <2>2. \A q \in Seq(Entry) : Len(q) # 0 => q # <<>>
      OBVIOUS
    <2> QED BY <1>1, <2>1, <2>2
  <1>16. \A x \in Members(H) :
           /\ v[x].leaf = t[a].leaf /\ v[x].parent = p
           /\ t[a].leaf => v[x].child = <<>> /\ v[x].item # <<>>
           /\ ~t[a].leaf => v[x].item = <<>> /\ v[x].child # <<>>
           /\ \A y \in Members(v[x].child) : v[y].parent = x
    <2> SUFFICES ASSUME NEW x \in Members(H)
                 PROVE  /\ v[x].leaf = t[a].leaf /\ v[x].parent = p
                        /\ v[x].child = <<>> /\ v[x].item # <<>>
                        /\ \A y \in Members(v[x].child) : v[y].parent = x
      BY <1>1
    <2>1. x = a \/ x = b
      BY <1>12
    <2>2. v[x].leaf /\ v[x].parent = p /\ v[x].child = <<>> /\ v[x].item # <<>>
      BY <1>1, <1>5, <1>6, <1>8, <1>13, <1>15, <2>1
    <2>3. v[x].leaf = t[a].leaf
      BY <1>1, <1>5, <1>6, <1>8, <2>1
    <2>4. \A y \in Members(v[x].child) : FALSE
      BY <2>2 DEF Members
    <2> QED BY <2>2, <2>3, <2>4
  <1>17. \A x \in T \ {a, b, p} :
           /\ v[x].leaf = t[x].leaf /\ v[x].item = t[x].item /\ v[x].child = t[x].child
           /\ v[x].key = t[x].key
           /\ t[x].parent \notin {a, b} => v[x].parent = t[x].parent
    BY <1>6, <1>8
  <1>18. Mixing(t, v, T, h, E, p, j, a, b, H, T, X)
    <2>1. X \subseteq {a, b, p}
      BY <1>1
    <2>2. T \subseteq DOMAIN v
      BY <1>6, <1>8
    <2> QED BY <1>1, <1>4, <1>8, <1>9, <1>13, <1>14, <1>16, <1>17, <2>1, <2>2 DEF Mixing
  <1>19. PICK k, F : Mixed(t, v, T, h, E, p, a, b, H, T, k, F)
    BY <1>18, Mix
  <1>20. /\ Tree(v, T, k, F) /\ F[root] = E[root]
         /\ \A x \in T \ {a, b} : F[x] = E[x]
         /\ \A x \in T \ {a, b, p} : (~v[x].leaf => KeyedAt(v, F, x)) /\ SizedAt(v, x)
    BY <1>19 DEF Mixed
  <1>21. v[a].leaf /\ v[b].leaf
    BY <1>1, <1>5, <1>6, <1>8
  <1>22. Sized(v, T, {})
    <2> SUFFICES ASSUME NEW x \in T PROVE SizedAt(v, x)
      BY DEF Sized
    <2>1. CASE x = a \/ x = b
      BY <1>3, <1>8, <1>21, <2>1 DEF SizedAt, MAX_BPT_NODE_NUM
    <2>2. CASE x = p
      <3>1. SizedAt(t, p)
        BY <1>1, <1>4, <1>5, <1>6 DEF Sized
      <3> QED BY <1>6, <1>13, <2>2, <3>1 DEF SizedAt
    <2>3. CASE x \notin {a, b, p}
      BY <1>20, <2>3
    <2> QED BY <2>1, <2>2, <2>3
  <1>23. E[a] \cap F[a] # {}
    <2> DEFINE I == t[a].item
               J == t[b].item
    <2>1. I \in Seq(Entry) /\ J \in Seq(Entry) /\ E[a] = Members(I)
      BY <1>1, <1>4, <1>5, LeafOf
    <2>2. F[a] = Members(s)
      BY <1>5, <1>8, <1>20, <1>21, LeafOf
    <2>3. s \o r = I \o J
      BY <1>1
    <2> HIDE DEF I, J
    <2>4. 1 \in 1 .. Len(I)
      <3>1. PICK m \in 1 .. Len(I) : TRUE
        BY <1>5, <2>1 DEF Members
      <3> QED BY <2>1, <3>1
    <2>5. 1 \in 1 .. Len(s)
      BY <1>3
    <2>6. (I \o J)[1] = I[1]
      BY <2>1, <2>4, ConcatOf
    <2>7. (s \o r)[1] = s[1]
      BY <1>2, <2>5, ConcatOf
    <2>8. s[1] \in Members(s) /\ I[1] \in Members(I)
      BY <2>4, <2>5 DEF Members
    <2> QED BY <2>1, <2>2, <2>3, <2>6, <2>7, <2>8
  <1>24. E[b] \cap F[b] # {}
    <2> DEFINE I == t[a].item
               J == t[b].item
    <2>1. I \in Seq(Entry) /\ J \in Seq(Entry) /\ E[b] = Members(J)
      BY <1>1, <1>4, <1>5, LeafOf
    <2>2. F[b] = Members(r)
      BY <1>5, <1>8, <1>20, <1>21, LeafOf
    <2>3. s \o r = I \o J
      BY <1>1
    <2> HIDE DEF I, J
    <2>4. Len(J) \in 1 .. Len(J)
      <3>1. PICK m \in 1 .. Len(J) : TRUE
        BY <1>5, <2>1 DEF Members
      <3> QED BY <2>1, <3>1
    <2>5. Len(r) \in 1 .. Len(r)
      BY <1>3
    <2>6. (I \o J)[Len(I) + Len(J)] = J[Len(J)] /\ Len(I \o J) = Len(I) + Len(J)
      <3>1. \A m \in 1 .. Len(J) : (I \o J)[Len(I) + m] = J[m]
        BY <2>1, ConcatOf
      <3>2. Len(I \o J) = Len(I) + Len(J)
        BY <2>1, ConcatOf
      <3> QED BY <2>4, <3>1, <3>2
    <2>7. (s \o r)[Len(s) + Len(r)] = r[Len(r)] /\ Len(s \o r) = Len(s) + Len(r)
      <3>1. \A m \in 1 .. Len(r) : (s \o r)[Len(s) + m] = r[m]
        BY <1>2, ConcatOf
      <3>2. Len(s \o r) = Len(s) + Len(r)
        BY <1>1, ConcatOf
      <3> QED BY <2>5, <3>1, <3>2
    <2>8. r[Len(r)] \in Members(r) /\ J[Len(J)] \in Members(J)
      BY <2>4, <2>5 DEF Members
    <2>9. r[Len(r)] = J[Len(J)]
      BY <2>3, <2>6, <2>7
    <2> QED BY <2>1, <2>2, <2>8, <2>9
  <1>25. Chaining(t, v, T, h, E, T, k, F)
    <2>1. LeavesOf(v, T) = LeavesOf(t, T) \cap T
      BY <1>6, <1>8 DEF LeavesOf
    <2>2. ASSUME NEW x \in LeavesOf(v, T)
          PROVE  /\ v[x].next = t[x].next
                 /\ t[x].next # NULL => t[x].next \in DOMAIN v
                 /\ x # root => E[x] \cap F[x] # {}
      <3>1. x \in T /\ x \in LeavesOf(t, T)
        BY <2>1 DEF LeavesOf
      <3>2. ChainedAt(t, T, E, x)
        BY <1>4, <3>1 DEF Chained
      <3>3. ASSUME x # root PROVE E[x] \cap F[x] # {}
        <4>1. E[x] # {}
          BY <1>4, <3>1, <3>3, ParentOf
        <4>2. CASE x \in {a, b}
          BY <1>23, <1>24, <4>2
        <4>3. CASE x \notin {a, b}
          BY <1>20, <3>1, <4>1, <4>3
        <4> QED BY <4>2, <4>3
      <3> QED BY <1>6, <1>8, <3>1, <3>2, <3>3 DEF ChainedAt
    <2>3. \A x \in T : ~v[x].leaf => v[x].next = NULL
      BY <1>4, <1>6, <1>8 DEF Chained
    <2> QED BY <1>4, <1>20, <2>1, <2>2, <2>3 DEF Chaining
  <1>26. Chained(v, T, F)
    BY <1>25, ChainKept
  <1>27. \A x \in T : ~v[x].leaf /\ x # p => KeyedAt(v, F, x)
    BY <1>20, <1>21
  <1>28. Tree(u, T, k, F)
    BY <1>6, <1>20, <1>27, FixUpOf
  <1>29. DOMAIN u = DOMAIN v /\ Keyed(u, T, F)
    BY <1>6, <1>20, <1>27, FixUpOf
  <1>30. Sized(u, T, {})
    BY <1>6, <1>20, <1>22, <1>27, FixUpOf
  <1>31. Chained(u, T, F)
    BY <1>6, <1>20, <1>26, <1>27, FixUpOf
  <1>32. Good(u, T, k, F, {})
    BY <1>28, <1>29, <1>30, <1>31 DEF Good, Tree
  <1> QED BY <1>8, <1>20, <1>29, <1>32 DEF Mended

-----------------------------------------------------------------------------
(***************************************************************************)
(* Deletion: the merge of two leaves.                                      *)
(***************************************************************************)

(* Sets of entries are in order one way only.                              *)
LEMMA LessOnce ==
    ASSUME NEW A \in SUBSET Entry, NEW B \in SUBSET Entry, A # {}, B # {}, Less(A, B)
    PROVE  ~Less(B, A) /\ \A x \in A : x \notin B
  <1>1. \A x \in Entry : x.fnv \in Nat
    BY DEF Entry
  <1>2. PICK x \in A, y \in B : TRUE
    OBVIOUS
  <1>3. ASSUME Less(B, A) PROVE FALSE
    <2>1. x.fnv < y.fnv /\ y.fnv < x.fnv /\ x.fnv \in Nat /\ y.fnv \in Nat
      BY <1>1, <1>2, <1>3 DEF Less
    <2> QED BY <2>1
  <1>4. ASSUME NEW z \in A, z \in B PROVE FALSE
    <2>1. z.fnv < z.fnv /\ z.fnv \in Nat
      BY <1>1, <1>4 DEF Less
    <2> QED BY <2>1
  <1> QED BY <1>3, <1>4

(* Between neighbours there is no other node of their height.              *)
Apart(E, x, a, b) == \/ Less(E[x], E[a]) /\ Less(E[x], E[b])
                     \/ Less(E[a], E[x]) /\ Less(E[b], E[x])

(* No node of their level is between two neighbours.                       *)
LEMMA Between ==
    ASSUME NEW t, NEW T, NEW h, NEW E, Tree(t, T, h, E), NEW p, NEW j, NEW a, NEW b,
           Siblings(t, T, p, j, a, b), NEW x \in T, x # a, x # b, h[x] = h[a]
    PROVE  Apart(E, x, a, b)
  <1>1. /\ a \in T /\ b \in T /\ a # root /\ b # root /\ a # b
        /\ h[a] \in Nat /\ h[a] + 1 = h[p] /\ h[b] = h[a]
        /\ Less(E[a], E[b]) /\ E[a] # {} /\ E[b] # {}
    BY SiblingsAre
  <1>2. /\ p \in T /\ ~t[p].leaf
        /\ j \in 1 .. Len(t[p].child) /\ j + 1 \in 1 .. Len(t[p].child)
        /\ t[p].child[j] = a /\ t[p].child[j + 1] = b
    BY DEF Siblings
  <1>3. E \in [T -> SUBSET Entry] /\ h \in [T -> Nat]
    BY TreeTypes
  <1>4. E[x] \in SUBSET Entry /\ E[a] \in SUBSET Entry /\ E[b] \in SUBSET Entry
    BY <1>1, <1>3
  <1>5. E[a] \subseteq E[p] /\ E[b] \subseteq E[p]
    <2>1. E[a] \subseteq E[p]
      BY <1>2, ChildOf
    <2>2. E[b] \subseteq E[p]
      BY <1>2, ChildOf
    <2> QED BY <2>1, <2>2
  <1>6. x # root
    <2>1. h[a] < h[root]
      BY <1>1, ParentOf
    <2> QED BY <1>1, <1>3, <2>1
  <1>7. E[x] # {}
    BY <1>6, ParentOf
  <1>8. Aside(E, x, a) /\ Aside(E, x, b)
    BY <1>1, LevelOrder
  <1>9. h[x] <= h[p]
    <2>1. \A m \in Nat : m <= m + 1
      OBVIOUS
    <2> QED BY <1>1, <2>1
  <1>10. E[x] \subseteq E[p] \/ Aside(E, x, p)
    BY <1>2, <1>9, Laminar
  <1>11. CASE Less(E[x], E[p])
    BY <1>5, <1>11 DEF Less, Apart
  <1>12. CASE Less(E[p], E[x])
    BY <1>5, <1>12 DEF Less, Apart
  <1>13. CASE E[x] \subseteq E[p]
    <2>1. PICK e : e \in E[x]
      BY <1>7
    <2>2. PICK m \in 1 .. Len(t[p].child) : e \in E[t[p].child[m]]
      <3>1. \A f \in E[p] : \E i \in 1 .. Len(t[p].child) : f \in E[t[p].child[i]]
        BY <1>2, InnerOf
      <3> QED BY <1>13, <2>1, <3>1
    <2>3. PICK y : y = t[p].child[m]
      OBVIOUS
    <2>4. y \in T /\ h[y] \in Nat /\ h[y] + 1 = h[p] /\ E[y] # {}
      BY <1>2, <2>2, <2>3, ChildOf
    <2>5. h[y] = h[x]
      BY <1>1, <2>4
    <2>6. y = x
      <3> SUFFICES ASSUME y # x PROVE FALSE
        OBVIOUS
      <3>1. Aside(E, x, y)
        BY <2>4, <2>5, LevelOrder
      <3>2. E[y] \in SUBSET Entry /\ e \in E[y]
        BY <1>3, <2>2, <2>3, <2>4
      <3>3. CASE Less(E[x], E[y])
        BY <1>4, <1>7, <2>1, <2>4, <3>2, <3>3, LessOnce
      <3>4. CASE Less(E[y], E[x])
        BY <1>4, <1>7, <2>1, <2>4, <3>2, <3>4, LessOnce
      <3> QED BY <3>1, <3>3, <3>4 DEF Aside
    <2>7. \A i, n \in 1 .. Len(t[p].child) : i < n => Less(E[t[p].child[i]], E[t[p].child[n]])
      BY <1>2, InnerOf
    <2>8. m # j /\ m # j + 1
      BY <1>2, <2>3, <2>6
    <2>9. (m < j /\ m < j + 1) \/ (j < m /\ j + 1 < m)
      BY <1>2, <2>2, <2>8
    <2>10. CASE m < j /\ m < j + 1
      <3>1. Less(E[x], E[a]) /\ Less(E[x], E[b])
        BY <1>2, <2>2, <2>3, <2>6, <2>7, <2>10
      <3> QED BY <3>1 DEF Apart
    <2>11. CASE j < m /\ j + 1 < m
      <3>1. Less(E[a], E[x]) /\ Less(E[b], E[x])
        BY <1>2, <2>2, <2>3, <2>6, <2>7, <2>11
      <3> QED BY <3>1 DEF Apart
    <2> QED BY <2>9, <2>10, <2>11
  <1> QED BY <1>10, <1>11, <1>12, <1>13 DEF Aside

(* The node a has taken over what b had.                                   *)
Merging(t, u, T, h, E, p, j, a, b, U, X) ==
    /\ Mixing(t, u, T, h, E, p, j, a, b, <<a>>, U, X)
    /\ U = T \ {b} /\ u[p].child = RemoveAt(t[p].child, j + 1) /\ u[p].key = RemoveAt(t[p].key, j)

(* The tree after b gave all to its left neighbour a.                      *)
Merged(t, u, T, h, E, p, a, b, U, k, F) ==
    /\ Mixed(t, u, T, h, E, p, a, b, <<a>>, U, k, F)
    /\ F[a] \subseteq E[a] \cup E[b] /\ KeyedAt(u, F, p)

(* The right one of two neighbours gives all it has to the left one, and   *)
(* leaves the tree.                                                        *)
LEMMA Merge ==
    ASSUME NEW t, NEW u, NEW T, NEW h, NEW E, NEW p, NEW j, NEW a, NEW b, NEW U, NEW X,
           Merging(t, u, T, h, E, p, j, a, b, U, X)
    PROVE  \E k, F : Merged(t, u, T, h, E, p, a, b, U, k, F)
  <1> DEFINE c == t[p].child
             d == u[p].child
  <1>1. /\ Mixing(t, u, T, h, E, p, j, a, b, <<a>>, U, X)
        /\ U = T \ {b} /\ d = RemoveAt(c, j + 1) /\ u[p].key = RemoveAt(t[p].key, j)
    BY DEF Merging
  <1>2. PICK k, F : Mixed(t, u, T, h, E, p, a, b, <<a>>, U, k, F)
    BY <1>1, Mix
  <1>3. /\ Tree(t, T, h, E) /\ Keyed(t, T, E) /\ Siblings(t, T, p, j, a, b) /\ ~u[p].leaf
    BY <1>1 DEF Mixing
  <1>4. /\ Tree(u, U, k, F) /\ p \in U /\ F[p] = E[p] /\ \A x \in T \ {a, b} : F[x] = E[x]
    BY <1>2 DEF Mixed
  <1>5. /\ p \in T /\ ~t[p].leaf /\ j \in 1 .. Len(c) /\ j + 1 \in 1 .. Len(c) /\ c[j] = a /\ c[j + 1] = b
    BY <1>3 DEF Siblings
  <1>6. /\ c \in Seq(T) /\ \A m, n \in 1 .. Len(c) : c[m] = c[n] => m = n
    <2>1. Heap(t) /\ Shape(t, T, h, E)
      BY <1>3 DEF Tree
    <2>2. c \in Seq(T)
      BY <1>5, <2>1, Children
    <2>3. \A m, n \in 1 .. Len(c) : c[m] = c[n] => m = n
      BY <1>5, <2>1, Children
    <2> QED BY <2>2, <2>3
  <1>7. \A m, n \in 1 .. Len(d) : m < n => Less(F[d[m]], F[d[n]])
    BY <1>3, <1>4, InnerOf
  <1>8. d \in Seq(U)
    BY <1>3, <1>4, InnerOf
  <1>9. /\ E \in [T -> SUBSET Entry] /\ F \in [U -> SUBSET Entry]
    BY <1>3, <1>4, TreeTypes
  <1>10. \A e \in E[p] : \E m \in 1 .. Len(c) : e \in E[c[m]]
    BY <1>3, <1>5, InnerOf
  <1>11. \A m \in 1 .. Len(d) : d[m] \in U /\ F[d[m]] # {} /\ F[d[m]] \subseteq F[p]
    <2> SUFFICES ASSUME NEW m \in 1 .. Len(d) PROVE d[m] \in U /\ F[d[m]] # {} /\ F[d[m]] \subseteq F[p]
      OBVIOUS
    <2> QED BY <1>4, ChildOf
  <1>12. \A m \in 1 .. Len(c) : E[c[m]] # {}
    <2> SUFFICES ASSUME NEW m \in 1 .. Len(c) PROVE E[c[m]] # {}
      OBVIOUS
    <2> QED BY <1>3, <1>5, ChildOf, SMTT(30)
  <1>13. KeyedAt(t, E, p)
    BY <1>3, <1>5 DEF Keyed
  <1> HIDE DEF c, d
  <1>14. /\ d \in Seq(T) /\ Len(d) = Len(c) - 1
         /\ \A m \in 1 .. Len(d) : (m < j + 1 => d[m] = c[m]) /\ (j + 1 <= m => d[m] = c[m + 1])
    <2>1. Removed(T, c, j + 1, d)
      BY <1>1, <1>5, <1>6, RemovedList
    <2> QED BY <2>1 DEF Removed
  <1>15. Len(c) \in Nat /\ j \in Nat /\ j \in 1 .. Len(d) /\ d[j] = a
    <2>1. Len(c) \in Nat /\ j \in Nat
      BY <1>5, <1>6
    <2>2. j \in 1 .. Len(d) /\ j < j + 1
      BY <1>5, <1>14, <2>1
    <2> QED BY <1>5, <1>14, <2>1, <2>2
  <1>16. ASSUME NEW m \in 1 .. Len(d), m # j
         PROVE  \E n \in 1 .. Len(c) : /\ n # j /\ n # j + 1 /\ d[m] = c[n] /\ F[d[m]] = E[c[n]]
                                       /\ (m < j => n = m) /\ (j < m => n = m + 1)
    <2>1. PICK n \in 1 .. Len(c) : /\ n # j /\ n # j + 1 /\ d[m] = c[n]
                                   /\ (m < j => n = m) /\ (j < m => n = m + 1)
      <3>1. CASE m < j
        <4>1. m \in 1 .. Len(c) /\ m < j + 1 /\ m # j + 1
          BY <1>14, <1>15, <1>16, <3>1
        <4>2. d[m] = c[m]
          BY <1>14, <4>1
        <4>3. ~(j < m)
          BY <1>15, <3>1
        <4> QED BY <1>16, <3>1, <4>1, <4>2, <4>3
      <3>2. CASE j < m
        <4>1. m + 1 \in 1 .. Len(c) /\ j + 1 <= m /\ m + 1 # j + 1 /\ m + 1 # j /\ ~(m < j)
          BY <1>14, <1>15, <1>16, <3>2
        <4>2. d[m] = c[m + 1]
          BY <1>14, <4>1
        <4> QED BY <3>2, <4>1, <4>2
      <3>3. m < j \/ j < m
        BY <1>15, <1>16
      <3> QED BY <3>1, <3>2, <3>3
    <2>2. c[n] \in T /\ c[n] # a /\ c[n] # b
      <3>1. c[n] \in T
        BY <1>6
      <3> QED BY <1>5, <1>6, <2>1, <3>1
    <2>3. F[c[n]] = E[c[n]]
      BY <1>4, <2>2
    <2> QED BY <2>1, <2>3
  <1>17. ASSUME NEW n \in 1 .. Len(c), n # j, n # j + 1
         PROVE  \E m \in 1 .. Len(d) : m # j /\ d[m] = c[n]
    <2>1. CASE n < j
      <3>1. n \in 1 .. Len(d) /\ n < j + 1
        BY <1>14, <1>15, <2>1
      <3> QED BY <1>14, <1>17, <3>1
    <2>2. CASE j + 1 < n
      <3>1. n - 1 \in 1 .. Len(d) /\ j + 1 <= n - 1 /\ (n - 1) + 1 = n /\ n - 1 # j
        BY <1>14, <1>15, <2>2
      <3>2. d[n - 1] = c[(n - 1) + 1]
        BY <1>14, <3>1
      <3> QED BY <3>1, <3>2
    <2>3. n < j \/ j + 1 < n
      BY <1>15, <1>17
    <2> QED BY <2>1, <2>2, <2>3
  <1>18. F[a] \subseteq E[a] \cup E[b]
    <2> SUFFICES ASSUME NEW e \in F[a], e \notin E[a], e \notin E[b] PROVE FALSE
      OBVIOUS
    <2>1. e \in E[p]
      BY <1>4, <1>11, <1>15
    <2>2. PICK n \in 1 .. Len(c) : e \in E[c[n]]
      BY <1>10, <2>1
    <2>3. n # j /\ n # j + 1
      BY <1>5, <2>2
    <2>4. PICK m \in 1 .. Len(d) : m # j /\ d[m] = c[n]
      BY <1>17, <2>3
    <2>5. e \in F[d[m]]
      <3>1. c[n] \in T /\ c[n] # a /\ c[n] # b
        <4>1. c[n] \in T
          BY <1>6
        <4> QED BY <1>5, <1>6, <2>3, <4>1
      <3> QED BY <1>4, <2>2, <2>4, <3>1
    <2>6. PICK y : y = d[m]
      OBVIOUS
    <2>7. y \in U /\ F[y] \in SUBSET Entry /\ F[a] \in SUBSET Entry /\ F[y] # {} /\ e \in F[y]
      BY <1>9, <1>11, <1>15, <2>5, <2>6
    <2>8. Less(F[y], F[a]) \/ Less(F[a], F[y])
      <3>1. m < j \/ j < m
        BY <1>15, <2>4
      <3> QED BY <1>7, <1>15, <2>6, <3>1
    <2>9. F[a] # {}
      OBVIOUS
    <2>10. CASE Less(F[y], F[a])
      BY <2>7, <2>9, <2>10, LessOnce
    <2>11. CASE Less(F[a], F[y])
      BY <2>7, <2>9, <2>11, LessOnce
    <2> QED BY <2>8, <2>10, <2>11
  <1>19. PICK s, L, r, M : s = t[p].key /\ L = Under(E, c) /\ r = u[p].key /\ M = Under(F, d)
    OBVIOUS
  <1>20. Keys(s, L)
    BY <1>3, <1>5, <1>13, <1>19, KeysOf DEF c
  <1>21. Len(L) = Len(c) /\ \A m \in 1 .. Len(c) : L[m] = E[c[m]]
    BY <1>6, <1>9, <1>19, UnderOf
  <1>22. Len(M) = Len(d) /\ \A m \in 1 .. Len(d) : M[m] = F[d[m]]
    BY <1>8, <1>9, <1>19, UnderOf
  <1>23. Len(s) + 1 = Len(c) /\ s \in Seq(Nat)
    BY <1>20, <1>21 DEF Keys
  <1>24. Len(s) \in Nat /\ Len(M) = Len(s)
    <2>1. Len(s) \in Nat
      BY <1>23
    <2> QED BY <1>14, <1>22, <1>23, <2>1
  <1>25. Dropping(s, L, j, r, M)
    <2>1. \A m \in 1 .. Len(L) : L[m] # {}
      BY <1>12, <1>21
    <2>2. j \in 1 .. Len(s) /\ r = RemoveAt(s, j)
      BY <1>1, <1>14, <1>15, <1>19, <1>22, <1>24
    <2>3. ASSUME NEW m \in 1 .. Len(M)
          PROVE  /\ m < j => M[m] \subseteq L[m]
                 /\ m = j => M[m] \subseteq L[j] \cup L[j + 1]
                 /\ j < m => M[m] \subseteq L[m + 1]
      <3>1. m \in 1 .. Len(d) /\ M[m] = F[d[m]]
        BY <1>22
      <3>2. CASE m = j
        <4>1. L[j] = E[a] /\ L[j + 1] = E[b] /\ ~(j < j)
          BY <1>5, <1>15, <1>21
        <4> QED BY <1>15, <1>18, <3>1, <3>2, <4>1
      <3>3. CASE m # j
        <4>1. PICK n \in 1 .. Len(c) : /\ F[d[m]] = E[c[n]]
                                       /\ (m < j => n = m) /\ (j < m => n = m + 1)
          BY <1>16, <3>1, <3>3
        <4>2. M[m] = L[n]
          BY <1>21, <3>1, <4>1
        <4> QED BY <3>3, <4>1, <4>2
      <3> QED BY <3>2, <3>3
    <2> QED BY <1>20, <1>24, <2>1, <2>2, <2>3 DEF Dropping
  <1>26. Keys(r, M)
    BY <1>25, KeyDropped
  <1>27. KeyedAt(u, F, p)
    BY <1>4, <1>19, <1>26, KeysOf DEF d
  <1>28. Merged(t, u, T, h, E, p, a, b, U, k, F)
    BY <1>2, <1>18, <1>27 DEF Merged
  <1> QED BY <1>28

(* What drop_child leaves.                                                 *)
Dropped(t, u, p, j) ==
    /\ Heap(u) /\ DOMAIN u = DOMAIN t /\ \A x \in DOMAIN t : x # p => u[x] = t[x]
    /\ u[p].leaf = t[p].leaf /\ u[p].item = t[p].item
    /\ u[p].parent = t[p].parent /\ u[p].next = t[p].next
    /\ u[p].key = RemoveAt(t[p].key, j) /\ u[p].child = RemoveAt(t[p].child, j + 1)

(* drop_child, field by field.                                             *)
LEMMA DropOf ==
    ASSUME NEW t, Heap(t), NEW p \in DOMAIN t, NEW j \in 1 .. Len(t[p].key),
           j + 1 \in 1 .. Len(t[p].child), NEW i, i = j + 1, NEW u, u = drop_child(t, p, i)
    PROVE  Dropped(t, u, p, j)
  <1>1. t[p] \in Node /\ t[p].key \in Seq(Nat) /\ t[p].child \in Seq(Nat)
    BY NodeTypes
  <1>2. PICK K, C : K = RemoveAt(t[p].key, j) /\ C = RemoveAt(t[p].child, j + 1)
    OBVIOUS
  <1>3. K \in Seq(Nat)
    <2>1. Removed(Nat, t[p].key, j, K)
      BY <1>1, <1>2, RemovedList
    <2> QED BY <2>1 DEF Removed
  <1>4. C \in Seq(Nat)
    <2>1. Removed(Nat, t[p].child, j + 1, C)
      BY <1>1, <1>2, RemovedList
    <2> QED BY <2>1 DEF Removed
  <1>5. (IF i > 1 THEN i - 1 ELSE 1) = j
    OBVIOUS
  <1>6. PICK y : y = [t[p] EXCEPT !.key = K, !.child = C]
    OBVIOUS
  <1>7. /\ y \in Node /\ y.leaf = t[p].leaf /\ y.item = t[p].item /\ y.key = K
        /\ y.child = C /\ y.next = t[p].next /\ y.parent = t[p].parent
    BY <1>1, <1>3, <1>4, <1>6 DEF Node
  <1>8. u = [t EXCEPT ![p].key = K, ![p].child = C]
    BY <1>2, <1>5 DEF drop_child
  <1>9. u = [x \in DOMAIN t |-> IF x = p THEN y ELSE t[x]]
    <2>1. t = [x \in DOMAIN t |-> t[x]]
      BY DEF Heap
    <2> QED BY <1>6, <1>8, <2>1
  <1>10. DOMAIN u = DOMAIN t /\ u[p] = y /\ \A x \in DOMAIN t : x # p => u[x] = t[x]
    BY <1>9
  <1>11. u \in [DOMAIN u -> Node]
    <2>1. \A x \in DOMAIN u : u[x] \in Node
      BY <1>7, <1>10, NodeTypes
    <2> QED BY <1>9, <1>10, <2>1
  <1>12. Heap(u)
    BY <1>10, <1>11 DEF Heap
  <1> QED BY <1>2, <1>7, <1>10, <1>12 DEF Dropped

(* A leaf with other entries and another one to follow.                    *)
Relinked(t, a, s, n) == [t EXCEPT ![a].item = s, ![a].next = n]

(* A leaf is given other entries and another next.                         *)
LEMMA RelinkedOf ==
    ASSUME NEW t, Heap(t), NEW a \in DOMAIN t, NEW s \in Seq(Entry), NEW n \in Nat,
           NEW u, u = Relinked(t, a, s, n)
    PROVE  /\ Heap(u) /\ DOMAIN u = DOMAIN t /\ \A x \in DOMAIN t : x # a => u[x] = t[x]
           /\ u[a].leaf = t[a].leaf /\ u[a].item = s /\ u[a].key = t[a].key
           /\ u[a].child = t[a].child /\ u[a].next = n /\ u[a].parent = t[a].parent
  <1>1. t[a] \in Node
    BY NodeTypes
  <1>2. PICK y : y = [t[a] EXCEPT !.item = s, !.next = n]
    OBVIOUS
  <1>3. /\ y \in Node /\ y.leaf = t[a].leaf /\ y.item = s /\ y.key = t[a].key
        /\ y.child = t[a].child /\ y.next = n /\ y.parent = t[a].parent
    BY <1>1, <1>2 DEF Node
  <1>4. u = [x \in DOMAIN t |-> IF x = a THEN y ELSE t[x]]
    <2>1. t = [x \in DOMAIN t |-> t[x]]
      BY DEF Heap
    <2> QED BY <1>2, <2>1 DEF Relinked
  <1>5. DOMAIN u = DOMAIN t /\ u[a] = y /\ \A x \in DOMAIN t : x # a => u[x] = t[x]
    BY <1>4
  <1>6. u \in [DOMAIN u -> Node]
    <2>1. \A x \in DOMAIN u : u[x] \in Node
      BY <1>3, <1>5, NodeTypes, ZenonT(30)
    <2> QED BY <1>4, <1>5, <2>1
  <1>7. Heap(u)
    BY <1>5, <1>6 DEF Heap
  <1> QED BY <1>3, <1>5, <1>7

(* What MergeLeaf leaves.                                                  *)
LeafInto(t, u, p, j, a, b) ==
    /\ Heap(u) /\ DOMAIN u = DOMAIN t \ {b}
    /\ \A x \in DOMAIN t \ {a, b, p} : u[x] = t[x]
    /\ u[a].leaf = t[a].leaf /\ u[a].item = t[a].item \o t[b].item
    /\ u[a].child = t[a].child /\ u[a].next = t[b].next /\ u[a].parent = t[a].parent
    /\ u[p].leaf = t[p].leaf /\ u[p].item = t[p].item
    /\ u[p].parent = t[p].parent /\ u[p].next = t[p].next
    /\ u[p].key = RemoveAt(t[p].key, j) /\ u[p].child = RemoveAt(t[p].child, j + 1)

(* MergeLeaf, field by field.                                              *)
LEMMA MergeLeafOf ==
    ASSUME NEW t, NEW T, NEW h, NEW E, Tree(t, T, h, E), Keyed(t, T, E),
           NEW p, NEW j, NEW a, NEW b, Siblings(t, T, p, j, a, b),
           NEW i, i = j + 1, NEW u, u = MergeLeaf(t, a, b, i)
    PROVE  LeafInto(t, u, p, j, a, b)
  <1>1. /\ a \in T /\ b \in T /\ a # root /\ b # root /\ a # b /\ a # p /\ b # p /\ p # NULL
        /\ t[a].parent = p
    BY SiblingsAre
  <1>2. /\ p \in T /\ ~t[p].leaf /\ j \in 1 .. Len(t[p].child) /\ j + 1 \in 1 .. Len(t[p].child)
    BY DEF Siblings
  <1>3. Heap(t) /\ a \in DOMAIN t /\ b \in DOMAIN t /\ p \in DOMAIN t
    BY <1>1, <1>2, TreeTypes
  <1>4. t[a].item \in Seq(Entry) /\ t[b].item \in Seq(Entry) /\ t[b].next \in Nat /\ t[p].key \in Seq(Nat)
    BY <1>3, NodeTypes
  <1>5. j \in 1 .. Len(t[p].key)
    <2>1. Len(t[p].key) + 1 = Len(t[p].child)
      BY <1>2 DEF Keyed, KeyedAt
    <2>2. Len(t[p].key) \in Nat
      BY <1>4
    <2> QED BY <1>2, <2>1, <2>2
  <1>6. PICK s, n : s = t[a].item \o t[b].item /\ n = t[b].next
    OBVIOUS
  <1>7. s \in Seq(Entry) /\ n \in Nat
    BY <1>4, <1>6, ConcatOf
  <1>8. PICK v : v = Relinked(t, a, s, n)
    OBVIOUS
  <1>9. /\ Heap(v) /\ DOMAIN v = DOMAIN t /\ \A x \in DOMAIN t : x # a => v[x] = t[x]
        /\ v[a].leaf = t[a].leaf /\ v[a].item = s /\ v[a].key = t[a].key
        /\ v[a].child = t[a].child /\ v[a].next = n /\ v[a].parent = t[a].parent
    BY <1>3, <1>7, <1>8, RelinkedOf, SMTT(30)
  <1>10. v[p] = t[p] /\ v[a].parent = p
    BY <1>1, <1>3, <1>9
  <1>11. PICK w : w = drop_child(v, p, i)
    OBVIOUS
  <1>12. Dropped(v, w, p, j)
    <2>1. p \in DOMAIN v /\ j \in 1 .. Len(v[p].key) /\ j + 1 \in 1 .. Len(v[p].child)
      BY <1>2, <1>3, <1>5, <1>9, <1>10
    <2> QED BY <1>9, <1>11, <2>1, DropOf
  <1>13. /\ Heap(w) /\ DOMAIN w = DOMAIN v /\ \A x \in DOMAIN v : x # p => w[x] = v[x]
         /\ w[p].leaf = v[p].leaf /\ w[p].item = v[p].item
         /\ w[p].parent = v[p].parent /\ w[p].next = v[p].next
         /\ w[p].key = RemoveAt(v[p].key, j) /\ w[p].child = RemoveAt(v[p].child, j + 1)
    BY <1>12 DEF Dropped
  <1>14. u = heap_free(w, b)
    <2>1. v = [t EXCEPT ![a].item = t[a].item \o t[b].item, ![a].next = t[b].next]
      BY <1>6, <1>8 DEF Relinked
    <2> QED BY <1>1, <1>11, <2>1 DEF MergeLeaf
  <1>15. /\ Heap(u) /\ DOMAIN u = DOMAIN w \ {b}
         /\ \A x \in DOMAIN w : x # b => u[x] = w[x]
    <2>1. Heap(w) /\ b # root
      BY <1>1, <1>13
    <2>2. \A x \in DOMAIN w : x # b => u[x] = w[x]
      BY <1>14 DEF heap_free
    <2>3. Heap(u) /\ DOMAIN u = DOMAIN w \ {b}
      BY <1>14, <2>1, FreeOf
    <2> QED BY <2>2, <2>3
  <1>16. u[a] = v[a] /\ u[p] = w[p]
    BY <1>1, <1>3, <1>9, <1>13, <1>15
  <1>17. DOMAIN u = DOMAIN t \ {b}
    BY <1>9, <1>13, <1>15
  <1>18. \A x \in DOMAIN t \ {a, b, p} : u[x] = t[x]
    BY <1>9, <1>13, <1>15
  <1> QED BY <1>6, <1>9, <1>10, <1>13, <1>15, <1>16, <1>17, <1>18 DEF LeafInto

(* A tree in order again but for p, which has lost a child.                *)
HandedOn(t, u, T, h, E, p) ==
    \E U, k, F : /\ Good(u, U, k, F, {p}) /\ F[root] = E[root] /\ (T = DOMAIN t => U = DOMAIN u)
                 /\ p \in U /\ k[p] = h[p] /\ k[root] = h[root]
                 /\ ~u[p].leaf /\ Len(u[p].child) \in 1 .. 3

(* A leaf takes over what its right neighbour has.                         *)
LeafMerge(t, T, h, E, X, p, j, a, b, u) ==
    /\ Good(t, T, h, E, X) /\ X \subseteq {a, b} /\ Siblings(t, T, p, j, a, b) /\ t[a].leaf
    /\ Len(t[a].item) + Len(t[b].item) = 3 /\ LeafInto(t, u, p, j, a, b)

(* What MergeLeaf leaves, in terms of a merge.                             *)
LEMMA LeafMergeMixing ==
    ASSUME NEW t, NEW T, NEW h, NEW E, NEW X, NEW p, NEW j, NEW a, NEW b, NEW u,
           LeafMerge(t, T, h, E, X, p, j, a, b, u)
    PROVE  Merging(t, u, T, h, E, p, j, a, b, T \ {b}, X)
  <1>1. /\ Good(t, T, h, E, X) /\ X \subseteq {a, b} /\ Siblings(t, T, p, j, a, b) /\ t[a].leaf
        /\ Len(t[a].item) + Len(t[b].item) = 3 /\ LeafInto(t, u, p, j, a, b)
    BY DEF LeafMerge
  <1>2. /\ Tree(t, T, h, E) /\ Heap(t) /\ Keyed(t, T, E) /\ Sized(t, T, X)
    BY <1>1 DEF Good, Tree
  <1>3. /\ a \in T /\ b \in T /\ a # root /\ b # root /\ a # b /\ a # p /\ b # p /\ p # NULL
        /\ t[a].parent = p /\ t[b].parent = p /\ t[b].leaf
    BY <1>1, <1>2, SiblingsAre
  <1>4. T \subseteq DOMAIN t /\ a \in DOMAIN t /\ b \in DOMAIN t /\ p \in T /\ ~t[p].leaf /\ p \in DOMAIN t
    BY <1>1, <1>2, <1>3, TreeTypes DEF Siblings
  <1>5. /\ Heap(u) /\ DOMAIN u = DOMAIN t \ {b}
        /\ \A x \in DOMAIN t \ {a, b, p} : u[x] = t[x]
        /\ u[a].leaf = t[a].leaf /\ u[a].item = t[a].item \o t[b].item
        /\ u[a].child = t[a].child /\ u[a].next = t[b].next /\ u[a].parent = t[a].parent
    BY <1>1 DEF LeafInto
  <1>6. /\ u[p].leaf = t[p].leaf /\ u[p].item = t[p].item
        /\ u[p].parent = t[p].parent /\ u[p].next = t[p].next
        /\ u[p].key = RemoveAt(t[p].key, j) /\ u[p].child = RemoveAt(t[p].child, j + 1)
    BY <1>1 DEF LeafInto
  <1>7. t[a].child = <<>> /\ t[b].child = <<>> /\ t[p].item = <<>>
    <2>1. Kind(t, h, a) /\ Kind(t, h, b) /\ Kind(t, h, p)
      BY <1>2, <1>3, <1>4, TreeTypes
    <2> QED BY <1>1, <1>3, <1>4, <2>1 DEF Kind
  <1>8. PICK H : H = <<a>>
    OBVIOUS
  <1>9. Pair(H) /\ Len(H) = 1 /\ H[1] = a
    <2>1. a \in Nat
      BY <1>2, <1>3, TreeTypes
    <2>2. H \in Seq(Nat) /\ Len(H) = 1 /\ H[1] = a
      BY <1>8, <2>1
    <2> QED BY <2>2 DEF Pair
  <1>10. Members(H) = {a}
    BY <1>9, PairMembers
  <1>11. Items(u, H) = t[a].item \o t[b].item /\ Kids(u, H) = t[a].child \o t[b].child
    <2>1. Items(u, H) = u[a].item /\ Kids(u, H) = u[a].child
      BY <1>9 DEF Items, Kids
    <2>2. <<>> \o <<>> = <<>>
      OBVIOUS
    <2> QED BY <1>5, <1>7, <2>1, <2>2
  <1>12. u[a].item # <<>>
    <2>1. t[a].item \in Seq(Entry) /\ t[b].item \in Seq(Entry)
      BY <1>2, <1>4, NodeTypes
    <2>2. u[a].item \in Seq(Entry) /\ Len(u[a].item) = 3
      <3>1. t[a].item \o t[b].item \in Seq(Entry)
        BY <2>1, ConcatOf
      <3>2. Len(t[a].item \o t[b].item) = Len(t[a].item) + Len(t[b].item)
        BY <2>1, ConcatOf
      <3> QED BY <1>1, <1>5, <3>1, <3>2
    <2>3. Len(u[a].item) # 0
      BY <2>2
    <2>4. \A q \in Seq(Entry) : Len(q) # 0 => q # <<>>
      OBVIOUS
    <2> QED BY <2>2, <2>3, <2>4
  <1>13. \A x \in Members(H) :
           /\ u[x].leaf = t[a].leaf /\ u[x].parent = p
           /\ t[a].leaf => u[x].child = <<>> /\ u[x].item # <<>>
           /\ ~t[a].leaf => u[x].item = <<>> /\ u[x].child # <<>>
           /\ \A y \in Members(u[x].child) : u[y].parent = x
    <2> SUFFICES ASSUME NEW x \in Members(H)
                 PROVE  /\ u[x].leaf = t[a].leaf /\ u[x].parent = p
                        /\ u[x].child = <<>> /\ u[x].item # <<>>
                        /\ \A y \in Members(u[x].child) : u[y].parent = x
      BY <1>1
    <2>1. u[x].leaf = t[a].leaf /\ u[x].parent = p /\ u[x].child = <<>> /\ u[x].item # <<>>
      BY <1>3, <1>5, <1>7, <1>10, <1>12
    <2>2. \A y \in Members(u[x].child) : FALSE
      BY <2>1 DEF Members
    <2> QED BY <2>1, <2>2
  <1>14. \A x \in T \ {a, b, p} :
           /\ u[x].leaf = t[x].leaf /\ u[x].item = t[x].item /\ u[x].child = t[x].child
           /\ u[x].key = t[x].key
           /\ t[x].parent \notin {a, b} => u[x].parent = t[x].parent
    BY <1>4, <1>5
  <1>15. Mixing(t, u, T, h, E, p, j, a, b, H, T \ {b}, X)
    <2>1. X \subseteq {a, b, p} /\ T \ {b} \subseteq DOMAIN u
      BY <1>1, <1>4, <1>5
    <2>2. ~u[p].leaf /\ u[p].item = <<>>
      BY <1>4, <1>6, <1>7
    <2> QED BY <1>1, <1>2, <1>5, <1>6, <1>8, <1>11, <1>13, <1>14, <2>1, <2>2 DEF Mixing
  <1> QED BY <1>6, <1>8, <1>15 DEF Merging

(* The chain goes past the leaf that is gone.                              *)
LEMMA LeafMergeChained ==
    ASSUME NEW t, NEW T, NEW h, NEW E, NEW X, NEW p, NEW j, NEW a, NEW b, NEW u,
           LeafMerge(t, T, h, E, X, p, j, a, b, u),
           NEW U, U = T \ {b}, NEW k, NEW F, Merged(t, u, T, h, E, p, a, b, U, k, F)
    PROVE  Chained(u, U, F)
  <1> DEFINE Z == LeavesOf(t, T)
  <1>1. /\ Good(t, T, h, E, X) /\ Siblings(t, T, p, j, a, b) /\ t[a].leaf
        /\ LeafInto(t, u, p, j, a, b)
    BY DEF LeafMerge
  <1>2. Tree(t, T, h, E) /\ Chained(t, T, E)
    BY <1>1 DEF Good, Tree
  <1>3. /\ a \in T /\ b \in T /\ a # b /\ a # p /\ b # p /\ t[b].leaf /\ h[b] = h[a]
        /\ Less(E[a], E[b]) /\ E[a] # {} /\ E[b] # {}
    BY <1>1, <1>2, SiblingsAre
  <1>4. T \subseteq DOMAIN t /\ p \in T /\ ~t[p].leaf /\ E \in [T -> SUBSET Entry] /\ NULL \notin T
    BY <1>1, <1>2, TreeTypes DEF Siblings
  <1>5. /\ DOMAIN u = DOMAIN t \ {b}
        /\ \A x \in DOMAIN t \ {a, b, p} : u[x] = t[x]
        /\ u[a].leaf = t[a].leaf /\ u[a].next = t[b].next
        /\ u[p].leaf = t[p].leaf /\ u[p].next = t[p].next
    BY <1>1 DEF LeafInto
  <1>6. F[a] \subseteq E[a] \cup E[b] /\ \A x \in T \ {a, b} : F[x] = E[x]
    BY DEF Merged, Mixed
  <1>7. ASSUME NEW x \in Z PROVE x \in T /\ h[x] = h[a] /\ E[x] \in SUBSET Entry /\ ChainedAt(t, T, E, x)
    <2>1. x \in T /\ t[x].leaf
      BY DEF LeavesOf
    <2>2. h[x] = 0
      BY <1>2, <2>1, LeafOf
    <2>3. h[a] = 0
      BY <1>1, <1>2, <1>3, LeafOf
    <2>4. ChainedAt(t, T, E, x)
      BY <1>2 DEF Chained
    <2> QED BY <1>4, <2>1, <2>2, <2>3, <2>4
  <1>8. LeavesOf(u, U) = Z \ {b} /\ a \in Z /\ b \in Z
    <2>1. ASSUME NEW x \in U PROVE u[x].leaf = t[x].leaf
      BY <1>4, <1>5, <2>1
    <2> QED BY <1>1, <1>3, <2>1 DEF LeavesOf
  <1>9. ASSUME NEW x \in Z, x # a, x # b
        PROVE  /\ F[x] = E[x] /\ u[x].next = t[x].next /\ Apart(E, x, a, b) /\ (x # root => E[x] # {})
    <2>1. x \in T /\ x # p
      BY <1>4, <1>7 DEF LeavesOf
    <2>2. F[x] = E[x] /\ u[x].next = t[x].next
      BY <1>4, <1>5, <1>6, <1>9, <2>1
    <2>3. Apart(E, x, a, b)
      BY <1>1, <1>2, <1>7, <1>9, Between
    <2> QED BY <1>2, <2>1, <2>2, <2>3, ParentOf
  <1>10. ASSUME NEW x \in Z, x # a, x # b PROVE E[x] # {}
    <2>1. h[a] < h[root]
      <3>1. a # root
        BY <1>1, <1>2, SiblingsAre
      <3> QED BY <1>2, <1>3, <3>1, ParentOf
    <2>2. x # root
      <3>1. h[a] \in Nat
        BY <1>2, <1>3, TreeTypes
      <3> QED BY <1>7, <2>1, <3>1
    <2> QED BY <1>9, <1>10, <2>2
  <1>11. ASSUME NEW x \in Z, x # a, x # b
         PROVE  /\ Less(E[x], E[a]) \/ Less(E[x], E[b]) => Less(F[x], F[a]) /\ Less(E[x], E[a])
                /\ Less(E[a], E[x]) \/ Less(E[b], E[x]) => Less(F[a], F[x]) /\ Less(E[b], E[x])
    <2>1. Apart(E, x, a, b) /\ F[x] = E[x]
      BY <1>9, <1>11
    <2>2. E[x] # {} /\ E[x] \in SUBSET Entry /\ E[a] \in SUBSET Entry /\ E[b] \in SUBSET Entry
      BY <1>3, <1>4, <1>7, <1>10, <1>11
    <2>3. CASE Less(E[x], E[a]) /\ Less(E[x], E[b])
      <3>1. ~Less(E[a], E[x]) /\ ~Less(E[b], E[x])
        BY <1>3, <2>2, <2>3, LessOnce
      <3>2. Less(F[x], F[a])
        BY <1>6, <2>1, <2>3 DEF Less
      <3> QED BY <2>3, <3>1, <3>2
    <2>4. CASE Less(E[a], E[x]) /\ Less(E[b], E[x])
      <3>1. ~Less(E[x], E[a]) /\ ~Less(E[x], E[b])
        BY <1>3, <2>2, <2>4, LessOnce
      <3>2. Less(F[a], F[x])
        BY <1>6, <2>1, <2>4 DEF Less
      <3> QED BY <2>4, <3>1, <3>2
    <2> QED BY <2>1, <2>3, <2>4 DEF Apart
  <1>12. ~Less(E[b], E[a])
    <2>1. E[a] \in SUBSET Entry /\ E[b] \in SUBSET Entry
      BY <1>3, <1>4
    <2> QED BY <1>3, <2>1, LessOnce
  <1>13. Z \subseteq T /\ U = T \ {b}
    BY DEF LeavesOf
  <1> HIDE DEF Z
  <1>14. ASSUME NEW x \in Z \ {a, b} PROVE ChainedAt(u, U, F, x)
    <2> DEFINE y == t[x].next
    <2>1. /\ y \in DOMAIN t \cup {NULL}
          /\ y = NULL => \A z \in Z \ {x} : Less(E[z], E[x])
          /\ y \in T => /\ y \in Z \ {x} /\ Less(E[x], E[y])
                        /\ \A z \in Z \ {x, y} : Less(E[z], E[x]) \/ Less(E[y], E[z])
      BY <1>7 DEF ChainedAt, Z
    <2>2. u[x].next = y /\ F[x] = E[x] /\ x # a /\ x # b
      BY <1>9
    <2> HIDE DEF y
    <2>3. y # b
      <3> SUFFICES ASSUME y = b PROVE FALSE
        OBVIOUS
      <3>1. Less(E[x], E[b]) /\ (Less(E[a], E[x]) \/ Less(E[b], E[a]))
        BY <1>3, <1>8, <2>1, <2>2
      <3>2. Less(E[a], E[x])
        BY <1>12, <3>1
      <3>3. Less(E[b], E[x])
        BY <1>11, <2>2, <3>2
      <3>4. E[x] \in SUBSET Entry /\ E[b] \in SUBSET Entry /\ E[x] # {}
        BY <1>3, <1>4, <1>7, <1>10, <2>2
      <3> QED BY <1>3, <3>1, <3>3, <3>4, LessOnce
    <2>4. y = NULL => \A z \in (Z \ {b}) \ {x} : Less(F[z], F[x])
      <3> SUFFICES ASSUME y = NULL, NEW z \in Z, z # b, z # x PROVE Less(F[z], F[x])
        OBVIOUS
      <3>1. Less(E[z], E[x])
        BY <2>1
      <3>2. CASE z = a
        BY <1>11, <2>2, <3>1, <3>2
      <3>3. CASE z # a
        BY <1>9, <2>2, <3>1, <3>3
      <3> QED BY <3>2, <3>3
    <2>5. ASSUME y \in U
          PROVE  /\ y \in (Z \ {b}) \ {x} /\ Less(F[x], F[y])
                 /\ \A z \in (Z \ {b}) \ {x, y} : Less(F[z], F[x]) \/ Less(F[y], F[z])
      <3>1. /\ y \in Z \ {x} /\ Less(E[x], E[y])
            /\ \A z \in Z \ {x, y} : Less(E[z], E[x]) \/ Less(E[y], E[z])
        BY <1>13, <2>1, <2>5
      <3>2. Less(F[x], F[y])
        <4>1. CASE y = a
          BY <1>11, <2>2, <3>1, <4>1
        <4>2. CASE y # a
          BY <1>9, <2>2, <2>3, <3>1, <4>2
        <4> QED BY <4>1, <4>2
      <3>3. ASSUME NEW z \in Z, z # b, z # x, z # y PROVE Less(F[z], F[x]) \/ Less(F[y], F[z])
        <4>1. Less(E[z], E[x]) \/ Less(E[y], E[z])
          BY <3>1, <3>3
        <4>2. CASE z = a
          <5>1. y # a /\ y # b /\ F[y] = E[y]
            BY <1>9, <2>3, <3>1, <3>3, <4>2
          <5> QED BY <1>11, <2>2, <3>1, <4>1, <4>2, <5>1
        <4>3. CASE z # a
          <5>1. F[z] = E[z]
            BY <1>9, <3>3, <4>3
          <5>2. CASE y = a
            BY <1>11, <2>2, <3>3, <4>1, <4>3, <5>1, <5>2
          <5>3. CASE y # a
            BY <1>9, <2>2, <2>3, <3>1, <4>1, <5>1, <5>3
          <5> QED BY <5>2, <5>3
        <4> QED BY <4>2, <4>3
      <3> QED BY <2>3, <3>1, <3>2, <3>3
    <2> QED BY <1>5, <1>8, <2>1, <2>2, <2>3, <2>4, <2>5 DEF ChainedAt
  <1>15. ChainedAt(u, U, F, a)
    <2> DEFINE y == t[b].next
    <2>1. /\ y \in DOMAIN t \cup {NULL}
          /\ y = NULL => \A z \in Z \ {b} : Less(E[z], E[b])
          /\ y \in T => /\ y \in Z \ {b} /\ Less(E[b], E[y])
                        /\ \A z \in Z \ {b, y} : Less(E[z], E[b]) \/ Less(E[y], E[z])
      BY <1>7, <1>8 DEF ChainedAt, Z
    <2>2. u[a].next = y
      BY <1>5
    <2> HIDE DEF y
    <2>3. y # b
      BY <1>3, <2>1
    <2>4. y = NULL => \A z \in (Z \ {b}) \ {a} : Less(F[z], F[a])
      BY <1>11, <2>1
    <2>5. ASSUME y \in U
          PROVE  /\ y \in (Z \ {b}) \ {a} /\ Less(F[a], F[y])
                 /\ \A z \in (Z \ {b}) \ {a, y} : Less(F[z], F[a]) \/ Less(F[y], F[z])
      <3>1. /\ y \in Z \ {b} /\ Less(E[b], E[y])
            /\ \A z \in Z \ {b, y} : Less(E[z], E[b]) \/ Less(E[y], E[z])
        BY <1>13, <2>1, <2>5
      <3>2. y # a /\ y # b
        BY <1>12, <3>1
      <3>3. Less(F[a], F[y])
        BY <1>11, <3>1, <3>2
      <3>4. ASSUME NEW z \in Z, z # b, z # a, z # y PROVE Less(F[z], F[a]) \/ Less(F[y], F[z])
        <4>1. Less(E[z], E[b]) \/ Less(E[y], E[z])
          BY <3>1, <3>4
        <4>2. F[z] = E[z] /\ F[y] = E[y]
          BY <1>9, <3>1, <3>2, <3>4
        <4> QED BY <1>11, <3>4, <4>1, <4>2
      <3> QED BY <3>1, <3>2, <3>3, <3>4
    <2> QED BY <1>5, <1>8, <2>1, <2>2, <2>3, <2>4, <2>5 DEF ChainedAt
  <1>16. ASSUME NEW x \in U, ~u[x].leaf PROVE u[x].next = NULL
    <2>1. x \in T /\ x # b /\ x # a
      BY <1>1, <1>5, <1>13, <1>16
    <2>2. u[x].leaf = t[x].leaf /\ u[x].next = t[x].next
      BY <1>4, <1>5, <2>1
    <2> QED BY <1>2, <1>16, <2>1, <2>2 DEF Chained
  <1>17. \A x \in LeavesOf(u, U) : ChainedAt(u, U, F, x)
    <2> SUFFICES ASSUME NEW x \in Z, x # b PROVE ChainedAt(u, U, F, x)
      BY <1>8
    <2> QED BY <1>14, <1>15
  <1> QED BY <1>16, <1>17 DEF Chained

(* After the merge of two leaves all of the invariant holds, but that      *)
(* their parent may have too few children: it is handed on to              *)
(* balance_inner.                                                          *)
LEMMA LeafMergeGood ==
    ASSUME NEW t, NEW T, NEW h, NEW E, NEW X, NEW p, NEW j, NEW a, NEW b, NEW u,
           LeafMerge(t, T, h, E, X, p, j, a, b, u)
    PROVE  HandedOn(t, u, T, h, E, p)
  <1>1. /\ Good(t, T, h, E, X) /\ X \subseteq {a, b} /\ Siblings(t, T, p, j, a, b) /\ t[a].leaf
        /\ Len(t[a].item) + Len(t[b].item) = 3 /\ LeafInto(t, u, p, j, a, b)
    BY DEF LeafMerge
  <1>2. /\ Tree(t, T, h, E) /\ Heap(t) /\ Sized(t, T, X)
    BY <1>1 DEF Good, Tree
  <1>3. /\ a \in T /\ b \in T /\ a # root /\ b # root /\ a # b /\ a # p /\ b # p
    BY <1>1, <1>2, SiblingsAre
  <1>4. p \in T /\ ~t[p].leaf /\ root \in T /\ T \subseteq DOMAIN t
    BY <1>1, <1>2, TreeTypes DEF Siblings
  <1>5. PICK U : U = T \ {b}
    OBVIOUS
  <1>6. Merging(t, u, T, h, E, p, j, a, b, U, X)
    BY <1>5, LeafMergeMixing
  <1>7. PICK k, F : Merged(t, u, T, h, E, p, a, b, U, k, F)
    BY <1>6, Merge
  <1>8. Chained(u, U, F)
    BY <1>5, <1>7, LeafMergeChained
  <1>9. Mixed(t, u, T, h, E, p, a, b, <<a>>, U, k, F) /\ KeyedAt(u, F, p)
    BY <1>7 DEF Merged
  <1>10. /\ Tree(u, U, k, F) /\ F[root] = E[root] /\ p \in U
         /\ \A x \in T \ {a, b} : x \in U /\ k[x] = h[x] /\ F[x] = E[x]
         /\ \A x \in U \ {a, b, p} : (~u[x].leaf => KeyedAt(u, F, x)) /\ SizedAt(u, x)
    BY <1>9 DEF Mixed
  <1>11. /\ DOMAIN u = DOMAIN t \ {b} /\ u[a].leaf /\ u[a].item = t[a].item \o t[b].item
         /\ ~u[p].leaf /\ u[p].child = RemoveAt(t[p].child, j + 1)
    BY <1>1, <1>4 DEF LeafInto
  <1>12. Keyed(u, U, F)
    <2> SUFFICES ASSUME NEW x \in U, ~u[x].leaf PROVE KeyedAt(u, F, x)
      BY DEF Keyed
    <2>1. x # a /\ x # b
      BY <1>5, <1>11
    <2> QED BY <1>9, <1>10, <2>1
  <1>13. Sized(u, U, {p})
    <2> SUFFICES ASSUME NEW x \in U \ {p} PROVE SizedAt(u, x)
      BY DEF Sized
    <2>1. SizedAt(u, a)
      <3>1. t[a].item \in Seq(Entry) /\ t[b].item \in Seq(Entry)
        BY <1>2, <1>3, <1>4, NodeTypes
      <3>2. Len(u[a].item) = 3
        <4>1. Len(t[a].item \o t[b].item) = Len(t[a].item) + Len(t[b].item)
          BY <3>1, ConcatOf
        <4> QED BY <1>1, <1>11, <4>1
      <3> QED BY <1>11, <3>2 DEF SizedAt, MAX_BPT_NODE_NUM
    <2> QED BY <1>5, <1>10, <2>1
  <1>14. Good(u, U, k, F, {p})
    BY <1>8, <1>10, <1>12, <1>13 DEF Good, Tree
  <1>15. Len(u[p].child) \in 1 .. 3
    <2>1. SizedAt(t, p)
      BY <1>1, <1>2, <1>3, <1>4 DEF Sized
    <2>2. Len(t[p].child) \in 2 .. 4
      BY <1>4, <2>1 DEF SizedAt, MAX_BPT_NODE_NUM
    <2>3. t[p].child \in Seq(Nat)
      BY <1>2, <1>4, NodeTypes
    <2>4. PICK i : i = j + 1
      OBVIOUS
    <2>5. i \in 1 .. Len(t[p].child)
      BY <1>1, <2>4 DEF Siblings
    <2>6. Removed(Nat, t[p].child, i, u[p].child)
      BY <1>11, <2>3, <2>4, <2>5, RemovedList
    <2>7. Len(u[p].child) = Len(t[p].child) - 1
      BY <2>6 DEF Removed
    <2>8. \A m \in 2 .. 4 : m - 1 \in 1 .. 3
      OBVIOUS
    <2> QED BY <2>2, <2>7, <2>8
  <1>16. k[p] = h[p] /\ k[root] = h[root]
    BY <1>3, <1>4, <1>10
  <1>17. T = DOMAIN t => U = DOMAIN u
    BY <1>5, <1>11
  <1> QED BY <1>10, <1>11, <1>14, <1>15, <1>16, <1>17 DEF HandedOn

-----------------------------------------------------------------------------
(***************************************************************************)
(* Deletion: borrowing.                                                    *)
(***************************************************************************)

(* An inner node with other children.                                      *)
WithChild(t, a, s) == [t EXCEPT ![a].child = s]
Refamilied(t, u, a, s) ==
    /\ Heap(u) /\ DOMAIN u = DOMAIN t /\ \A x \in DOMAIN t : x # a => u[x] = t[x]
    /\ u[a].leaf = t[a].leaf /\ u[a].item = t[a].item /\ u[a].key = t[a].key
    /\ u[a].child = s /\ u[a].next = t[a].next /\ u[a].parent = t[a].parent

(* A node is given other children.                                         *)
LEMMA WithChildOf ==
    ASSUME NEW t, Heap(t), NEW a \in DOMAIN t, NEW s \in Seq(Nat), NEW u, u = WithChild(t, a, s)
    PROVE  Refamilied(t, u, a, s)
  <1>1. t[a] \in Node
    BY NodeTypes
  <1>2. PICK y : y = [t[a] EXCEPT !.child = s]
    OBVIOUS
  <1>3. /\ y \in Node /\ y.leaf = t[a].leaf /\ y.item = t[a].item /\ y.key = t[a].key
        /\ y.child = s /\ y.next = t[a].next /\ y.parent = t[a].parent
    BY <1>1, <1>2 DEF Node
  <1>4. u = [x \in DOMAIN t |-> IF x = a THEN y ELSE t[x]]
    <2>1. t = [x \in DOMAIN t |-> t[x]]
      BY DEF Heap
    <2> QED BY <1>2, <2>1 DEF WithChild
  <1>5. DOMAIN u = DOMAIN t /\ u[a] = y /\ \A x \in DOMAIN t : x # a => u[x] = t[x]
    BY <1>4
  <1>6. u \in [DOMAIN u -> Node]
    <2>1. \A x \in DOMAIN u : u[x] \in Node
      BY <1>3, <1>5, NodeTypes
    <2> QED BY <1>4, <1>5, <2>1
  <1>7. Heap(u)
    BY <1>5, <1>6 DEF Heap
  <1> QED BY <1>3, <1>5, <1>7 DEF Refamilied

(* Neighbouring inner nodes share their children anew.                     *)
InnerShare(t, T, h, E, X, p, j, a, b, v) ==
    /\ Good(t, T, h, E, X) /\ X \subseteq {a, b} /\ Siblings(t, T, p, j, a, b) /\ ~t[a].leaf
    /\ v[a].child \o v[b].child = t[a].child \o t[b].child
    /\ Len(v[a].child) \in 2 .. 4 /\ Len(v[b].child) \in 2 .. 4
    /\ \A y \in Members(v[a].child) : v[y].parent = a
    /\ \A y \in Members(v[b].child) : v[y].parent = b
    /\ Heap(v) /\ DOMAIN v = DOMAIN t
    /\ \A x \in DOMAIN t : /\ v[x].leaf = t[x].leaf /\ v[x].item = t[x].item
                           /\ v[x].key = t[x].key /\ v[x].next = t[x].next
                           /\ x \notin {a, b} => v[x].child = t[x].child
                           /\ t[x].parent \notin {a, b} => v[x].parent = t[x].parent

(* A child changes sides between two inner nodes, fix_keys renews their    *)
(* keys and fix_up those above: all of the invariant holds.                *)
LEMMA InnersShare ==
    ASSUME NEW t, NEW T, NEW h, NEW E, NEW X, NEW p, NEW j, NEW a, NEW b, NEW v,
           InnerShare(t, T, h, E, X, p, j, a, b, v),
           NEW u, u = fix_up(fix_keys(fix_keys(v, a), b), p)
    PROVE  Mended(t, T, E, u)
  <1>1. /\ Good(t, T, h, E, X) /\ X \subseteq {a, b} /\ Siblings(t, T, p, j, a, b) /\ ~t[a].leaf
        /\ v[a].child \o v[b].child = t[a].child \o t[b].child
        /\ \A y \in Members(v[a].child) : v[y].parent = a
        /\ \A y \in Members(v[b].child) : v[y].parent = b
        /\ Heap(v) /\ DOMAIN v = DOMAIN t
    BY DEF InnerShare
  <1>2. Len(v[a].child) \in 2 .. 4 /\ Len(v[b].child) \in 2 .. 4
    BY DEF InnerShare
  <1>3. \A x \in DOMAIN t : /\ v[x].leaf = t[x].leaf /\ v[x].item = t[x].item
                            /\ v[x].key = t[x].key /\ v[x].next = t[x].next
                            /\ x \notin {a, b} => v[x].child = t[x].child
                            /\ t[x].parent \notin {a, b} => v[x].parent = t[x].parent
    BY DEF InnerShare
  <1>4. /\ Tree(t, T, h, E) /\ Heap(t) /\ Keyed(t, T, E) /\ Sized(t, T, X) /\ Chained(t, T, E)
    BY <1>1 DEF Good, Tree
  <1>5. /\ a \in T /\ b \in T /\ a # root /\ b # root /\ a # b /\ a # p /\ b # p /\ p # NULL
        /\ h[a] \in Nat /\ h[a] + 1 = h[p] /\ h[b] = h[a]
        /\ t[a].parent = p /\ t[b].parent = p /\ ~t[b].leaf
    BY <1>1, <1>4, SiblingsAre
  <1>6. T \subseteq DOMAIN t /\ a \in DOMAIN t /\ b \in DOMAIN t /\ p \in T /\ ~t[p].leaf /\ p \in DOMAIN t
    BY <1>1, <1>4, <1>5, TreeTypes DEF Siblings
  <1>7. PICK H : H = <<a, b>>
    OBVIOUS
  <1>8. a \in Nat /\ b \in Nat
    BY <1>4, <1>5, TreeTypes
  <1>9. H \in Seq(Nat) /\ Len(H) = 2 /\ H[1] = a /\ H[2] = b
    BY <1>7, <1>8
  <1>10. Members(H) = {a, b}
    <2>1. Pair(H)
      BY <1>5, <1>9 DEF Pair
    <2> QED BY <1>9, <2>1, PairMembers
  <1>11. t[a].item = <<>> /\ t[b].item = <<>> /\ t[p].item = <<>>
    <2>1. Kind(t, h, a) /\ Kind(t, h, b) /\ Kind(t, h, p)
      BY <1>4, <1>5, <1>6, TreeTypes
    <2> QED BY <1>1, <1>5, <1>6, <2>1 DEF Kind
  <1>12. t[p].parent \notin {a, b}
    <2> SUFFICES ASSUME t[p].parent \in {a, b} PROVE FALSE
      OBVIOUS
    <2>1. p # root
      <3>1. t[root].parent = NULL /\ NULL \notin T
        BY <1>4, TreeTypes DEF Upward
      <3> QED BY <1>5, <3>1
    <2>2. h[p] + 1 = h[t[p].parent] /\ h[p] \in Nat
      BY <1>4, <1>6, <2>1, ParentOf
    <2>3. h[t[p].parent] = h[a]
      BY <1>5
    <2> QED BY <1>5, <2>2, <2>3
  <1>13. /\ v[p].item = <<>> /\ ~v[p].leaf /\ v[p].child = t[p].child /\ v[p].parent = t[p].parent
    BY <1>3, <1>5, <1>6, <1>11, <1>12
  <1>14. Items(v, H) = t[a].item \o t[b].item /\ Kids(v, H) = t[a].child \o t[b].child
    <2>1. Len(H) # 1
      BY <1>9
    <2>2. v[a].item = t[a].item /\ v[b].item = t[b].item
      BY <1>3, <1>6
    <2> QED BY <1>1, <1>9, <2>1, <2>2 DEF Items, Kids
  <1>15. v[a].child \in Seq(Nat) /\ v[b].child \in Seq(Nat) /\ v[a].child # <<>> /\ v[b].child # <<>>
    <2>1. v[a].child \in Seq(Nat) /\ v[b].child \in Seq(Nat)
      BY <1>1, <1>6, NodeTypes
    <2>2. Len(v[a].child) # 0 /\ Len(v[b].child) # 0
      BY <1>2
    <2>3. \A q \in Seq(Nat) : Len(q) # 0 => q # <<>>
      OBVIOUS
    <2> QED BY <2>1, <2>2, <2>3
  <1>16. v[a].parent = p /\ v[b].parent = p
    <2>1. p \notin {a, b}
      BY <1>5
    <2> QED BY <1>3, <1>5, <1>6, <2>1
  <1>17. \A x \in Members(H) :
           /\ v[x].leaf = t[a].leaf /\ v[x].parent = p
           /\ t[a].leaf => v[x].child = <<>> /\ v[x].item # <<>>
           /\ ~t[a].leaf => v[x].item = <<>> /\ v[x].child # <<>>
           /\ \A y \in Members(v[x].child) : v[y].parent = x
    <2> SUFFICES ASSUME NEW x \in Members(H)
                 PROVE  /\ v[x].leaf = t[a].leaf /\ v[x].parent = p
                        /\ v[x].item = <<>> /\ v[x].child # <<>>
                        /\ \A y \in Members(v[x].child) : v[y].parent = x
      BY <1>1
    <2>1. x = a \/ x = b
      BY <1>10
    <2>2. v[x].parent = p /\ v[x].item = <<>> /\ v[x].child # <<>>
      BY <1>3, <1>6, <1>11, <1>15, <1>16, <2>1
    <2>3. v[x].leaf = t[a].leaf
      <3>1. t[b].leaf \in BOOLEAN /\ t[a].leaf \in BOOLEAN
        BY <1>4, <1>6, NodeTypes
      <3> QED BY <1>1, <1>3, <1>5, <1>6, <2>1, <3>1
    <2>4. \A y \in Members(v[x].child) : v[y].parent = x
      BY <1>1, <2>1
    <2> QED BY <2>2, <2>3, <2>4
  <1>18. \A x \in T \ {a, b, p} :
           /\ v[x].leaf = t[x].leaf /\ v[x].item = t[x].item /\ v[x].child = t[x].child
           /\ v[x].key = t[x].key
           /\ t[x].parent \notin {a, b} => v[x].parent = t[x].parent
    BY <1>3, <1>6, SMTT(30)
  <1>19. Mixing(t, v, T, h, E, p, j, a, b, H, T, X)
    <2>1. X \subseteq {a, b, p}
      BY <1>1
    <2>2. T \subseteq DOMAIN v
      BY <1>1, <1>6
    <2> QED BY <1>1, <1>4, <1>7, <1>13, <1>14, <1>17, <1>18, <2>1, <2>2 DEF Mixing
  <1>20. PICK k, F : Mixed(t, v, T, h, E, p, a, b, H, T, k, F)
    BY <1>19, Mix
  <1>21. /\ Tree(v, T, k, F) /\ F[root] = E[root]
         /\ \A x \in T \ {a, b} : F[x] = E[x]
         /\ \A x \in T \ {a, b, p} : (~v[x].leaf => KeyedAt(v, F, x)) /\ SizedAt(v, x)
    BY <1>20 DEF Mixed
  <1>22. ~v[a].leaf /\ ~v[b].leaf
    BY <1>1, <1>3, <1>5, <1>6
  <1>23. Sized(v, T, {})
    <2> SUFFICES ASSUME NEW x \in T PROVE SizedAt(v, x)
      BY DEF Sized
    <2>1. CASE x = a \/ x = b
      BY <1>2, <1>22, <2>1 DEF SizedAt, MAX_BPT_NODE_NUM
    <2>2. CASE x = p
      <3>1. SizedAt(t, p)
        BY <1>1, <1>4, <1>5, <1>6 DEF Sized
      <3> QED BY <1>6, <1>13, <2>2, <3>1 DEF SizedAt
    <2>3. CASE x \notin {a, b, p}
      BY <1>21, <2>3
    <2> QED BY <2>1, <2>2, <2>3
  <1>24. Chaining(t, v, T, h, E, T, k, F)
    <2>1. LeavesOf(v, T) = LeavesOf(t, T) \cap T
      BY <1>3, <1>6 DEF LeavesOf
    <2>2. ASSUME NEW x \in LeavesOf(v, T)
          PROVE  /\ v[x].next = t[x].next
                 /\ t[x].next # NULL => t[x].next \in DOMAIN v
                 /\ x # root => E[x] \cap F[x] # {}
      <3>1. x \in T /\ x \in LeavesOf(t, T)
        BY <2>1 DEF LeavesOf
      <3>2. ChainedAt(t, T, E, x)
        BY <1>4, <3>1 DEF Chained
      <3>3. ASSUME x # root PROVE E[x] \cap F[x] # {}
        <4>1. E[x] # {}
          BY <1>4, <3>1, <3>3, ParentOf
        <4>2. x \notin {a, b}
          BY <1>22 DEF LeavesOf
        <4> QED BY <1>21, <3>1, <4>1, <4>2
      <3> QED BY <1>1, <1>3, <1>6, <3>1, <3>2, <3>3 DEF ChainedAt
    <2>3. \A x \in T : ~v[x].leaf => v[x].next = NULL
      BY <1>3, <1>4, <1>6 DEF Chained
    <2> QED BY <1>4, <1>21, <2>1, <2>2, <2>3 DEF Chaining
  <1>25. Chained(v, T, F)
    BY <1>24, ChainKept
  <1>26. PICK w : w = fix_keys(v, a)
    OBVIOUS
  <1>27. Rekeyed(v, w, {a})
    BY <1>1, <1>6, <1>26, FixKeysOf
  <1>28. \A x \in {a} : x \in T /\ ~v[x].leaf
    BY <1>5, <1>22
  <1>29. Tree(w, T, k, F) /\ SameTree(v, w, T)
    BY <1>21, <1>27, <1>28, RekeyedTree
  <1>30. \A x \in {a} : KeyedAt(w, F, x)
    BY <1>21, <1>27, <1>28, RekeyedTree
  <1>31. \A x \in T : x \notin {a} /\ KeyedAt(v, F, x) => KeyedAt(w, F, x)
    BY <1>21, <1>27, <1>28, RekeyedTree
  <1>32. Sized(w, T, {})
    BY <1>21, <1>23, <1>27, <1>28, RekeyedTree
  <1>33. Chained(w, T, F)
    BY <1>21, <1>25, <1>27, <1>28, RekeyedTree
  <1>34. \A x \in T : w[x].leaf = v[x].leaf
    BY <1>29 DEF SameTree
  <1>35. PICK z : z = fix_keys(w, b)
    OBVIOUS
  <1>36. Rekeyed(w, z, {b})
    <2>1. b \in DOMAIN w
      BY <1>5, <1>29, TreeTypes
    <2> QED BY <1>35, <2>1, FixKeysOf
  <1>37. \A x \in {b} : x \in T /\ ~w[x].leaf
    BY <1>5, <1>22, <1>34
  <1>38. Tree(z, T, k, F) /\ SameTree(w, z, T)
    BY <1>29, <1>36, <1>37, RekeyedTree
  <1>39. \A x \in {b} : KeyedAt(z, F, x)
    BY <1>29, <1>36, <1>37, RekeyedTree
  <1>40. \A x \in T : x \notin {b} /\ KeyedAt(w, F, x) => KeyedAt(z, F, x)
    BY <1>29, <1>36, <1>37, RekeyedTree
  <1>41. Sized(z, T, {})
    BY <1>29, <1>32, <1>36, <1>37, RekeyedTree
  <1>42. Chained(z, T, F)
    BY <1>29, <1>33, <1>36, <1>37, RekeyedTree
  <1>43. \A x \in T : z[x].leaf = v[x].leaf
    BY <1>34, <1>38 DEF SameTree
  <1>44. \A x \in T : ~z[x].leaf /\ x # p => KeyedAt(z, F, x)
    <2> SUFFICES ASSUME NEW x \in T, ~z[x].leaf, x # p PROVE KeyedAt(z, F, x)
      OBVIOUS
    <2>1. CASE x = b
      BY <1>39, <2>1
    <2>2. CASE x = a
      <3>1. KeyedAt(w, F, a)
        BY <1>30
      <3> QED BY <1>5, <1>40, <2>2, <3>1
    <2>3. CASE x \notin {a, b}
      <3>1. KeyedAt(v, F, x)
        BY <1>21, <1>43, <2>3
      <3> QED BY <1>31, <1>40, <2>3, <3>1
    <2> QED BY <2>1, <2>2, <2>3
  <1>45. u = fix_up(z, p)
    BY <1>26, <1>35
  <1>46. Tree(u, T, k, F)
    BY <1>6, <1>38, <1>44, <1>45, FixUpOf
  <1>47. DOMAIN u = DOMAIN z /\ Keyed(u, T, F)
    BY <1>6, <1>38, <1>44, <1>45, FixUpOf
  <1>48. Sized(u, T, {})
    BY <1>6, <1>38, <1>41, <1>44, <1>45, FixUpOf
  <1>49. Chained(u, T, F)
    BY <1>6, <1>38, <1>42, <1>44, <1>45, FixUpOf
  <1>50. Good(u, T, k, F, {})
    BY <1>46, <1>47, <1>48, <1>49 DEF Good, Tree
  <1>51. DOMAIN z = DOMAIN t
    <2>1. DOMAIN w = DOMAIN v
      BY <1>27 DEF Rekeyed
    <2>2. DOMAIN z = DOMAIN w
      BY <1>36 DEF Rekeyed
    <2> QED BY <1>1, <2>1, <2>2
  <1> QED BY <1>21, <1>47, <1>50, <1>51 DEF Mended

(* An element is moved from one list to the next.                          *)
Moved(S, s, r, x, y, m, n) ==
    x \in Seq(S) /\ y \in Seq(S) /\ x \o y = s \o r /\ Len(x) = m /\ Len(y) = n

(* The last of a list goes to the front of the next.                       *)
LEMMA MovedRight ==
    ASSUME NEW S, NEW s \in Seq(S), NEW r \in Seq(S), Len(s) # 0,
           NEW x, x = Front(s), NEW y, y = <<Last(s)>> \o r
    PROVE  Moved(S, s, r, x, y, Len(s) - 1, Len(r) + 1)
  <1>1. Len(s) \in Nat /\ Len(s) \in 1 .. Len(s)
    OBVIOUS
  <1>2. PICK n : n = Len(s)
    OBVIOUS
  <1>3. SubSeq(s, 1, n - 1) \in Seq(S) /\ s = SubSeq(s, 1, n - 1) \o <<s[n]>> \o SubSeq(s, n + 1, n)
    BY <1>1, <1>2, Parted
  <1>4. n - 1 \in 0 .. Len(s)
    BY <1>1, <1>2
  <1>5. Len(SubSeq(s, 1, n - 1)) = n - 1
    BY <1>4, Slices
  <1>6. x \in Seq(S) /\ Len(x) = n - 1 /\ x = SubSeq(s, 1, n - 1)
    BY <1>2, <1>3, <1>5 DEF Front
  <1>7. SubSeq(s, n + 1, n) = <<>>
    <2>1. n \in 0 .. Len(s)
      BY <1>1, <1>2
    <2>2. SubSeq(s, n + 1, Len(s)) \in Seq(S) /\ Len(SubSeq(s, n + 1, Len(s))) = Len(s) - n
      BY <2>1, Slices
    <2>3. Len(s) - n = 0
      BY <1>1, <1>2
    <2>4. \A q \in Seq(S) : Len(q) = 0 => q = <<>>
      OBVIOUS
    <2> QED BY <1>2, <2>2, <2>3, <2>4
  <1>8. PICK e : e = s[n]
    OBVIOUS
  <1>9. e \in S /\ <<e>> \in Seq(S) /\ Len(<<e>>) = 1
    BY <1>1, <1>2, <1>8
  <1>10. s = x \o <<e>>
    <2>1. x \o <<e>> \in Seq(S)
      BY <1>6, <1>9, ConcatOf
    <2>2. (x \o <<e>>) \o <<>> = x \o <<e>>
      BY <2>1
    <2> QED BY <1>3, <1>6, <1>7, <1>8, <2>2
  <1>11. y = <<e>> \o r
    BY <1>2, <1>8 DEF Last
  <1>12. y \in Seq(S) /\ Len(y) = Len(r) + 1
    <2>1. <<e>> \o r \in Seq(S) /\ Len(<<e>> \o r) = Len(<<e>>) + Len(r)
      BY <1>9, ConcatOf
    <2>2. Len(r) \in Nat /\ \A m \in Nat : 1 + m = m + 1
      OBVIOUS
    <2> QED BY <1>9, <1>11, <2>1, <2>2
  <1>13. x \o y = s \o r
    <2>1. (x \o <<e>>) \o r = x \o (<<e>> \o r)
      <3>1. x \in Seq(S) /\ <<e>> \in Seq(S) /\ r \in Seq(S)
        BY <1>6, <1>9
      <3> QED BY <3>1, ConcatAssociative
    <2> QED BY <1>10, <1>11, <2>1
  <1> QED BY <1>2, <1>6, <1>12, <1>13 DEF Moved

(* The first of a list goes to the end of the one before.                  *)
LEMMA MovedLeft ==
    ASSUME NEW S, NEW s \in Seq(S), NEW r \in Seq(S), Len(r) # 0,
           NEW x, x = Append(s, Head(r)), NEW y, y = Tail(r)
    PROVE  Moved(S, s, r, x, y, Len(s) + 1, Len(r) - 1)
  <1>1. Len(r) \in Nat /\ 1 \in 1 .. Len(r) /\ Len(s) \in Nat /\ r # <<>>
    OBVIOUS
  <1>2. PICK e : e = r[1]
    OBVIOUS
  <1>3. e \in S /\ e = Head(r) /\ <<e>> \in Seq(S) /\ Len(<<e>>) = 1
    BY <1>1, <1>2
  <1>4. y \in Seq(S) /\ Len(y) = Len(r) - 1 /\ \A i \in 1 .. Len(y) : y[i] = r[i + 1]
    BY <1>1, HeadTailProperties
  <1>5. x = s \o <<e>>
    <2>1. x \in Seq(S) /\ Len(x) = Len(s) + 1
      BY <1>3
    <2>2. s \o <<e>> \in Seq(S) /\ Len(s \o <<e>>) = Len(s) + 1
      BY <1>3, ConcatOf
    <2>3. \A i \in 1 .. Len(x) : x[i] = (s \o <<e>>)[i]
      BY <1>3
    <2> QED BY <2>1, <2>2, <2>3, SameList
  <1>6. x \in Seq(S) /\ Len(x) = Len(s) + 1
    BY <1>3
  <1>7. r = <<e>> \o y
    <2>1. <<e>> \o y \in Seq(S) /\ Len(<<e>> \o y) = Len(<<e>>) + Len(y)
      BY <1>3, <1>4, ConcatOf
    <2>2. Len(<<e>> \o y) = Len(r)
      BY <1>1, <1>3, <1>4, <2>1
    <2>3. ASSUME NEW i \in 1 .. Len(r) PROVE r[i] = (<<e>> \o y)[i]
      <3>1. CASE i = 1
        BY <1>2, <1>3, <1>4, <3>1
      <3>2. CASE i # 1
        <4>1. i - 1 \in 1 .. Len(y) /\ (i - 1) + 1 = i
          BY <1>1, <1>4, <3>2
        <4>2. (<<e>> \o y)[i] = y[i - 1]
          BY <1>3, <1>4, <3>2, <4>1
        <4> QED BY <1>4, <4>1, <4>2
      <3> QED BY <3>1, <3>2
    <2> QED BY <2>1, <2>2, <2>3, SameList
  <1>8. x \o y = s \o r
    <2>1. (s \o <<e>>) \o y = s \o (<<e>> \o y)
      BY <1>3, <1>4, ConcatAssociative
    <2> QED BY <1>5, <1>7, <2>1
  <1> QED BY <1>4, <1>6, <1>8 DEF Moved

-----------------------------------------------------------------------------
(* A leaf with one entry takes one from a neighbour with three.            *)
LEMMA BorrowLeafLeftOf ==
    ASSUME NEW t, NEW T, NEW h, NEW E, NEW p, NEW j, NEW a, NEW b,
           Good(t, T, h, E, {b}), Siblings(t, T, p, j, a, b), t[a].leaf,
           Len(t[a].item) = 3, Len(t[b].item) = 1, NEW u, u = BorrowLeafLeft(t, a, b)
    PROVE  Mended(t, T, E, u)
  <1>1. Tree(t, T, h, E)
    BY DEF Good, Tree
  <1>2. /\ a \in T /\ b \in T /\ a # b /\ t[a].parent = p
    BY <1>1, SiblingsAre
  <1>3. t[a].item \in Seq(Entry) /\ t[b].item \in Seq(Entry)
    <2>1. Heap(t) /\ a \in DOMAIN t /\ b \in DOMAIN t
      BY <1>1, <1>2, TreeTypes
    <2> QED BY <2>1, NodeTypes
  <1>4. PICK s, r : s = Front(t[a].item) /\ r = <<Last(t[a].item)>> \o t[b].item
    OBVIOUS
  <1>5. Len(t[a].item) # 0
    OBVIOUS
  <1>6. Moved(Entry, t[a].item, t[b].item, s, r, Len(t[a].item) - 1, Len(t[b].item) + 1)
    BY <1>3, <1>4, <1>5, MovedRight
  <1>7. Len(s) = Len(t[a].item) - 1 /\ Len(r) = Len(t[b].item) + 1
    BY <1>6 DEF Moved
  <1>8. Len(s) \in 2 .. 3 /\ Len(r) \in 2 .. 3
    BY <1>7
  <1>9. PICK v : v = Shared(t, a, s, b, r)
    OBVIOUS
  <1>10. u = fix_up(v, p)
    BY <1>2, <1>4, <1>9 DEF BorrowLeafLeft, Shared
  <1>11. s \in Seq(Entry) /\ r \in Seq(Entry) /\ s \o r = t[a].item \o t[b].item
    BY <1>6 DEF Moved
  <1>12. Sharing(t, T, h, E, {b}, p, j, a, b, s, r, v)
    BY <1>8, <1>9, <1>11 DEF Sharing
  <1> QED BY <1>10, <1>12, LeavesShare

(* A leaf that is too small takes an entry from its right neighbour.       *)
LEMMA BorrowLeafRightOf ==
    ASSUME NEW t, NEW T, NEW h, NEW E, NEW p, NEW j, NEW a, NEW b,
           Good(t, T, h, E, {a}), Siblings(t, T, p, j, a, b), t[a].leaf,
           Len(t[a].item) = 1, Len(t[b].item) = 3, NEW u, u = BorrowLeafRight(t, a, b)
    PROVE  Mended(t, T, E, u)
  <1>1. Tree(t, T, h, E)
    BY DEF Good, Tree
  <1>2. /\ a \in T /\ b \in T /\ a # b /\ t[a].parent = p
    BY <1>1, SiblingsAre
  <1>3. t[a].item \in Seq(Entry) /\ t[b].item \in Seq(Entry)
    <2>1. Heap(t) /\ a \in DOMAIN t /\ b \in DOMAIN t
      BY <1>1, <1>2, TreeTypes
    <2> QED BY <2>1, NodeTypes
  <1>4. PICK s, r : s = Append(t[a].item, Head(t[b].item)) /\ r = Tail(t[b].item)
    OBVIOUS
  <1>5. Len(t[b].item) # 0
    OBVIOUS
  <1>6. Moved(Entry, t[a].item, t[b].item, s, r, Len(t[a].item) + 1, Len(t[b].item) - 1)
    BY <1>3, <1>4, <1>5, MovedLeft
  <1>7. Len(s) = Len(t[a].item) + 1 /\ Len(r) = Len(t[b].item) - 1
    BY <1>6 DEF Moved
  <1>8. Len(s) \in 2 .. 3 /\ Len(r) \in 2 .. 3
    BY <1>7
  <1>9. PICK v : v = Shared(t, a, s, b, r)
    OBVIOUS
  <1>10. u = fix_up(v, p)
    <2>1. v = [t EXCEPT ![b].item = Tail(t[b].item), ![a].item = Append(t[a].item, Head(t[b].item))]
      <3>1. \A f : \A c, d : a # b =>
               [[f EXCEPT ![a] = c] EXCEPT ![b] = d] = [[f EXCEPT ![b] = d] EXCEPT ![a] = c]
        OBVIOUS
      <3> QED BY <1>2, <1>4, <1>9, <3>1 DEF Shared
    <2> QED BY <1>2, <2>1 DEF BorrowLeafRight
  <1>11. s \in Seq(Entry) /\ r \in Seq(Entry) /\ s \o r = t[a].item \o t[b].item
    BY <1>6 DEF Moved
  <1>12. Sharing(t, T, h, E, {a}, p, j, a, b, s, r, v)
    BY <1>8, <1>9, <1>11, SMTT(30) DEF Sharing
  <1> QED BY <1>10, <1>12, LeavesShare

(* The child c has moved to g, which is a or b.                            *)
Reshared(t, T, h, E, X, p, j, a, b, I, J, c, g, v) ==
    /\ Good(t, T, h, E, X) /\ X \subseteq {a, b} /\ Siblings(t, T, p, j, a, b) /\ ~t[a].leaf
    /\ I \in Seq(Nat) /\ J \in Seq(Nat) /\ I \o J = t[a].child \o t[b].child
    /\ Len(I) \in 2 .. 4 /\ Len(J) \in 2 .. 4
    /\ g \in {a, b} /\ t[c].parent \in {a, b}
    /\ \A y \in Members(I) : y \in DOMAIN t /\ IF y = c THEN g = a ELSE t[y].parent = a
    /\ \A y \in Members(J) : y \in DOMAIN t /\ IF y = c THEN g = b ELSE t[y].parent = b
    /\ v = SetParents(WithChild(WithChild(t, a, I), b, J), {c}, g)

(* What the moves of a child leave, in terms of two inner nodes that       *)
(* share.                                                                  *)
LEMMA ResharedOf ==
    ASSUME NEW t, NEW T, NEW h, NEW E, NEW X, NEW p, NEW j, NEW a, NEW b, NEW I, NEW J,
           NEW c, NEW g, NEW v, Reshared(t, T, h, E, X, p, j, a, b, I, J, c, g, v)
    PROVE  InnerShare(t, T, h, E, X, p, j, a, b, v)
  <1>1. /\ Good(t, T, h, E, X) /\ X \subseteq {a, b} /\ Siblings(t, T, p, j, a, b) /\ ~t[a].leaf
        /\ I \in Seq(Nat) /\ J \in Seq(Nat) /\ I \o J = t[a].child \o t[b].child
        /\ g \in {a, b} /\ t[c].parent \in {a, b}
        /\ v = SetParents(WithChild(WithChild(t, a, I), b, J), {c}, g)
    BY DEF Reshared
  <1>2. Len(I) \in 2 .. 4 /\ Len(J) \in 2 .. 4
    BY DEF Reshared
  <1>3. /\ \A y \in Members(I) : y \in DOMAIN t /\ IF y = c THEN g = a ELSE t[y].parent = a
        /\ \A y \in Members(J) : y \in DOMAIN t /\ IF y = c THEN g = b ELSE t[y].parent = b
    BY DEF Reshared
  <1>4. Tree(t, T, h, E)
    BY <1>1 DEF Good, Tree
  <1>5. a \in T /\ b \in T /\ a # b
    BY <1>1, <1>4, SiblingsAre
  <1>6. Heap(t) /\ a \in DOMAIN t /\ b \in DOMAIN t /\ g \in Nat
    <2>1. Heap(t) /\ T \subseteq DOMAIN t /\ DOMAIN t \subseteq Nat \ {NULL}
      BY <1>4, TreeTypes
    <2> QED BY <1>1, <1>5, <2>1
  <1>7. PICK w : w = WithChild(t, a, I)
    OBVIOUS
  <1>8. Refamilied(t, w, a, I)
    BY <1>1, <1>6, <1>7, WithChildOf
  <1>9. /\ Heap(w) /\ DOMAIN w = DOMAIN t /\ \A x \in DOMAIN t : x # a => w[x] = t[x]
        /\ w[a].leaf = t[a].leaf /\ w[a].item = t[a].item /\ w[a].key = t[a].key
        /\ w[a].child = I /\ w[a].next = t[a].next /\ w[a].parent = t[a].parent
    BY <1>8 DEF Refamilied
  <1>10. PICK z : z = WithChild(w, b, J)
    OBVIOUS
  <1>11. Refamilied(w, z, b, J)
    <2>1. b \in DOMAIN w
      BY <1>6, <1>9
    <2> QED BY <1>1, <1>9, <1>10, <2>1, WithChildOf
  <1>12. /\ Heap(z) /\ DOMAIN z = DOMAIN w /\ \A x \in DOMAIN w : x # b => z[x] = w[x]
         /\ z[b].leaf = w[b].leaf /\ z[b].item = w[b].item /\ z[b].key = w[b].key
         /\ z[b].child = J /\ z[b].next = w[b].next /\ z[b].parent = w[b].parent
    BY <1>11 DEF Refamilied
  <1>13. ASSUME NEW x \in DOMAIN t
         PROVE  /\ z[x].leaf = t[x].leaf /\ z[x].item = t[x].item
                /\ z[x].key = t[x].key /\ z[x].next = t[x].next /\ z[x].parent = t[x].parent
                /\ x \notin {a, b} => z[x].child = t[x].child
    <2>1. CASE x = a
      BY <1>5, <1>9, <1>12, <2>1
    <2>2. CASE x = b
      BY <1>5, <1>9, <1>12, <2>2
    <2>3. CASE x # a /\ x # b
      BY <1>9, <1>12, <2>3
    <2> QED BY <2>1, <2>2, <2>3
  <1>14. z[a].child = I /\ z[b].child = J
    BY <1>5, <1>6, <1>9, <1>12
  <1>15. v = SetParents(z, {c}, g)
    BY <1>1, <1>7, <1>10
  <1>16. /\ Heap(v) /\ DOMAIN v = DOMAIN z
         /\ \A x \in DOMAIN z :
               /\ v[x].leaf = z[x].leaf /\ v[x].item = z[x].item /\ v[x].key = z[x].key
               /\ v[x].child = z[x].child /\ v[x].next = z[x].next
               /\ x \in {c} => v[x].parent = g
               /\ x \notin {c} => v[x].parent = z[x].parent
    BY <1>6, <1>12, <1>15, SetParentsOf
  <1>17. DOMAIN v = DOMAIN t
    BY <1>9, <1>12, <1>16
  <1>18. v[a].child = I /\ v[b].child = J
    BY <1>6, <1>9, <1>12, <1>14, <1>16
  <1>19. \A y \in Members(I) : v[y].parent = a
    <2> SUFFICES ASSUME NEW y \in Members(I) PROVE v[y].parent = a
      OBVIOUS
    <2>1. y \in DOMAIN z /\ y \in DOMAIN t
      BY <1>3, <1>9, <1>12
    <2>2. CASE y = c
      BY <1>3, <1>16, <2>1, <2>2
    <2>3. CASE y # c
      BY <1>3, <1>13, <1>16, <2>1, <2>3
    <2> QED BY <2>2, <2>3
  <1>20. \A y \in Members(J) : v[y].parent = b
    <2> SUFFICES ASSUME NEW y \in Members(J) PROVE v[y].parent = b
      OBVIOUS
    <2>1. y \in DOMAIN z /\ y \in DOMAIN t
      BY <1>3, <1>9, <1>12
    <2>2. CASE y = c
      BY <1>3, <1>16, <2>1, <2>2
    <2>3. CASE y # c
      BY <1>3, <1>13, <1>16, <2>1, <2>3
    <2> QED BY <2>2, <2>3
  <1>21. \A x \in DOMAIN t : /\ v[x].leaf = t[x].leaf /\ v[x].item = t[x].item
                             /\ v[x].key = t[x].key /\ v[x].next = t[x].next
                             /\ x \notin {a, b} => v[x].child = t[x].child
                             /\ t[x].parent \notin {a, b} => v[x].parent = t[x].parent
    <2> SUFFICES ASSUME NEW x \in DOMAIN t
                 PROVE  /\ v[x].leaf = t[x].leaf /\ v[x].item = t[x].item
                        /\ v[x].key = t[x].key /\ v[x].next = t[x].next
                        /\ x \notin {a, b} => v[x].child = t[x].child
                        /\ t[x].parent \notin {a, b} => v[x].parent = t[x].parent
      OBVIOUS
    <2>1. x \in DOMAIN z
      BY <1>9, <1>12
    <2>2. /\ v[x].leaf = z[x].leaf /\ v[x].item = z[x].item /\ v[x].key = z[x].key
          /\ v[x].child = z[x].child /\ v[x].next = z[x].next
          /\ x # c => v[x].parent = z[x].parent
      BY <1>16, <2>1
    <2>3. t[x].parent \notin {a, b} => x # c
      BY <1>1
    <2> QED BY <1>13, <2>2, <2>3
  <1>22. v[a].child \o v[b].child = t[a].child \o t[b].child
    BY <1>1, <1>18
  <1> QED BY <1>1, <1>2, <1>16, <1>17, <1>18, <1>19, <1>20, <1>21, <1>22 DEF InnerShare

(* The children of neighbours.                                             *)
LEMMA KidsOf ==
    ASSUME NEW t, NEW T, NEW h, NEW E, Tree(t, T, h, E), NEW a \in T
    PROVE  /\ t[a].child \in Seq(Nat) /\ Distinct(t[a].child)
           /\ \A y \in Members(t[a].child) : y \in DOMAIN t /\ y \in T /\ t[y].parent = a
  <1>1. Heap(t) /\ Shape(t, T, h, E) /\ a \in DOMAIN t /\ T \subseteq DOMAIN t
    BY TreeTypes DEF Tree
  <1>2. t[a].child \in Seq(Nat)
    BY <1>1, NodeTypes
  <1>3. Distinct(t[a].child)
    <2>1. \A i, j \in 1 .. Len(t[a].child) : t[a].child[i] = t[a].child[j] => i = j
      BY <1>1, Children
    <2> QED BY <2>1 DEF Distinct
  <1>4. ASSUME NEW y \in Members(t[a].child) PROVE y \in DOMAIN t /\ y \in T /\ t[y].parent = a
    <2>1. PICK i \in 1 .. Len(t[a].child) : y = t[a].child[i]
      BY DEF Members
    <2>2. y \in T /\ t[y].parent = a
      BY <2>1, ChildOf
    <2> QED BY <1>1, <2>2
  <1> QED BY <1>2, <1>3, <1>4

(* An inner node that is too small takes a child from its left neighbour.  *)
LEMMA BorrowInnerLeftOf ==
    ASSUME NEW t, NEW T, NEW h, NEW E, NEW p, NEW j, NEW a, NEW b,
           Good(t, T, h, E, {b}), Siblings(t, T, p, j, a, b), ~t[a].leaf,
           Len(t[a].child) \in 3 .. 4, Len(t[b].child) = 1, NEW u, u = BorrowInnerLeft(t, a, b)
    PROVE  Mended(t, T, E, u)
  <1>1. Tree(t, T, h, E)
    BY DEF Good, Tree
  <1>2. /\ a \in T /\ b \in T /\ a # b /\ t[a].parent = p
    BY <1>1, SiblingsAre
  <1>3. PICK A, B : A = t[a].child /\ B = t[b].child
    OBVIOUS
  <1>4. /\ A \in Seq(Nat) /\ Distinct(A)
        /\ \A y \in Members(A) : y \in DOMAIN t /\ t[y].parent = a
    BY <1>1, <1>2, <1>3, KidsOf
  <1>5. /\ B \in Seq(Nat) /\ Distinct(B)
        /\ \A y \in Members(B) : y \in DOMAIN t /\ t[y].parent = b
    BY <1>1, <1>2, <1>3, KidsOf
  <1>6. PICK I, J, c : I = Front(A) /\ c = Last(A) /\ J = <<c>> \o B
    OBVIOUS
  <1>7. Len(A) \in 3 .. 4 /\ Len(B) = 1 /\ Len(A) # 0
    BY <1>3
  <1>8. Moved(Nat, A, B, I, J, Len(A) - 1, Len(B) + 1)
    BY <1>4, <1>5, <1>6, <1>7, MovedRight
  <1>9. I \in Seq(Nat) /\ J \in Seq(Nat) /\ I \o J = A \o B /\ Len(I) = Len(A) - 1 /\ Len(J) = Len(B) + 1
    BY <1>8 DEF Moved
  <1>10. Len(I) \in 2 .. 4 /\ Len(J) \in 2 .. 4
    BY <1>7, <1>9
  <1>11. c = A[Len(A)] /\ Len(A) \in 1 .. Len(A) /\ c \in Members(A) /\ c \in Nat
    <2>1. c = A[Len(A)]
      BY <1>6 DEF Last
    <2>2. Len(A) \in 1 .. Len(A)
      BY <1>7
    <2>3. A[Len(A)] \in Nat
      BY <1>4, <2>2
    <2> QED BY <2>1, <2>2, <2>3 DEF Members
  <1>12. ASSUME NEW y \in Members(I) PROVE y \in DOMAIN t /\ y # c /\ t[y].parent = a
    <2>1. PICK i \in 1 .. Len(I) : y = I[i]
      BY DEF Members
    <2>2. i \in 1 .. Len(A) /\ i # Len(A)
      BY <1>7, <1>9, <2>1
    <2>3. y = A[i]
      <3>1. (I \o J)[i] = I[i]
        BY <1>9, <2>1, ConcatOf
      <3>2. (A \o B)[i] = A[i]
        BY <1>4, <1>5, <2>2, ConcatOf
      <3> QED BY <1>9, <2>1, <3>1, <3>2
    <2>4. y \in Members(A)
      BY <2>2, <2>3 DEF Members
    <2>5. y # c
      BY <1>4, <1>11, <2>2, <2>3 DEF Distinct
    <2> QED BY <1>4, <2>4, <2>5
  <1>13. ASSUME NEW y \in Members(J) PROVE y \in DOMAIN t /\ (y # c => t[y].parent = b)
    <2>1. <<c>> \in Seq(Nat)
      BY <1>11
    <2>2. B \in Seq(Nat)
      BY <1>5
    <2>3. Members(<<c>> \o B) = Members(<<c>>) \cup Members(B)
      BY <2>1, <2>2, MembersConcat, ZenonT(30)
    <2>4. Members(<<c>>) = {c}
      BY DEF Members
    <2>5. y = c \/ y \in Members(B)
      BY <1>6, <2>3, <2>4
    <2> QED BY <1>4, <1>5, <1>11, <2>5
  <1>14. PICK v : v = SetParents(WithChild(WithChild(t, a, I), b, J), {c}, b)
    OBVIOUS
  <1>15. t[c].parent \in {a, b}
    BY <1>4, <1>11
  <1>16. Reshared(t, T, h, E, {b}, p, j, a, b, I, J, c, b, v)
    <2>1. I \o J = t[a].child \o t[b].child
      BY <1>3, <1>9
    <2> QED BY <1>9, <1>10, <1>12, <1>13, <1>14, <1>15, <2>1 DEF Reshared
  <1>17. InnerShare(t, T, h, E, {b}, p, j, a, b, v)
    BY <1>16, ResharedOf
  <1>18. u = fix_up(fix_keys(fix_keys(v, a), b), p)
    <2>1. WithChild(WithChild(t, a, I), b, J) =
              [t EXCEPT ![a].child = Front(t[a].child),
                        ![b].child = <<Last(t[a].child)>> \o t[b].child]
      BY <1>3, <1>6 DEF WithChild
    <2>2. v =
              SetParents([t EXCEPT ![a].child = Front(t[a].child),
                                   ![b].child = <<Last(t[a].child)>> \o t[b].child],
                         {Last(t[a].child)}, b)
      BY <1>3, <1>6, <1>14, <2>1
    <2> QED BY <1>2, <2>2 DEF BorrowInnerLeft
  <1> QED BY <1>17, <1>18, InnersShare

(* An inner node that is too small takes a child from its right neighbour. *)
LEMMA BorrowInnerRightOf ==
    ASSUME NEW t, NEW T, NEW h, NEW E, NEW p, NEW j, NEW a, NEW b,
           Good(t, T, h, E, {a}), Siblings(t, T, p, j, a, b), ~t[a].leaf,
           Len(t[a].child) = 1, Len(t[b].child) \in 3 .. 4, NEW u, u = BorrowInnerRight(t, a, b)
    PROVE  Mended(t, T, E, u)
  <1>1. Tree(t, T, h, E)
    BY DEF Good, Tree
  <1>2. /\ a \in T /\ b \in T /\ a # b /\ t[a].parent = p
    BY <1>1, SiblingsAre
  <1>3. PICK A, B : A = t[a].child /\ B = t[b].child
    OBVIOUS
  <1>4. /\ A \in Seq(Nat) /\ Distinct(A)
        /\ \A y \in Members(A) : y \in DOMAIN t /\ t[y].parent = a
    BY <1>1, <1>2, <1>3, KidsOf
  <1>5. /\ B \in Seq(Nat) /\ Distinct(B)
        /\ \A y \in Members(B) : y \in DOMAIN t /\ t[y].parent = b
    BY <1>1, <1>2, <1>3, KidsOf
  <1>6. PICK I, J, c : c = Head(B) /\ I = Append(A, c) /\ J = Tail(B)
    OBVIOUS
  <1>7. Len(A) = 1 /\ Len(B) \in 3 .. 4 /\ Len(B) # 0
    <2>1. Len(B) \in 3 .. 4
      BY <1>3
    <2>2. \A x \in 3 .. 4 : x # 0
      OBVIOUS
    <2>3. Len(B) # 0
      BY <2>1, <2>2
    <2> QED BY <1>3, <2>1, <2>3
  <1>8. Moved(Nat, A, B, I, J, Len(A) + 1, Len(B) - 1)
    BY <1>4, <1>5, <1>6, <1>7, MovedLeft
  <1>9. I \in Seq(Nat) /\ J \in Seq(Nat) /\ I \o J = A \o B /\ Len(I) = Len(A) + 1 /\ Len(J) = Len(B) - 1
    BY <1>8 DEF Moved
  <1>10. Len(I) \in 2 .. 4 /\ Len(J) \in 2 .. 4
    BY <1>7, <1>9
  <1>11. c = B[1] /\ 1 \in 1 .. Len(B) /\ c \in Members(B) /\ c \in Nat
    <2>1. 1 \in 1 .. Len(B)
      BY <1>7
    <2>2. c = B[1] /\ B[1] \in Nat
      BY <1>5, <1>6, <2>1
    <2> QED BY <2>1, <2>2 DEF Members
  <1>12. ASSUME NEW y \in Members(J) PROVE y \in DOMAIN t /\ y # c /\ t[y].parent = b
    <2>1. PICK i \in 1 .. Len(J) : y = J[i]
      BY DEF Members
    <2>2. i + 1 \in 1 .. Len(B) /\ i + 1 # 1
      BY <1>7, <1>9, <2>1
    <2>3. y = B[i + 1]
      <3>1. B # <<>>
        BY <1>5, <1>7
      <3>2. \A m \in 1 .. Len(Tail(B)) : Tail(B)[m] = B[m + 1]
        BY <1>5, <3>1, HeadTailProperties
      <3> QED BY <1>6, <2>1, <3>2
    <2>4. y \in Members(B)
      BY <2>2, <2>3 DEF Members
    <2>5. y # c
      BY <1>5, <1>11, <2>2, <2>3 DEF Distinct
    <2> QED BY <1>5, <2>4, <2>5
  <1>13. ASSUME NEW y \in Members(I) PROVE y \in DOMAIN t /\ (y # c => t[y].parent = a)
    <2>1. PICK i \in 1 .. Len(I) : y = I[i]
      BY DEF Members
    <2>2. (i \in 1 .. Len(A) /\ y = A[i]) \/ y = c
      BY <1>4, <1>6, <1>9, <1>11, <2>1
    <2>3. i \in 1 .. Len(A) /\ y = A[i] => y \in Members(A)
      BY DEF Members
    <2> QED BY <1>4, <1>5, <1>11, <2>2, <2>3
  <1>14. PICK v : v = SetParents(WithChild(WithChild(t, a, I), b, J), {c}, a)
    OBVIOUS
  <1>15. t[c].parent \in {a, b}
    BY <1>5, <1>11
  <1>16. Reshared(t, T, h, E, {a}, p, j, a, b, I, J, c, a, v)
    <2>1. I \o J = t[a].child \o t[b].child
      BY <1>3, <1>9
    <2> QED BY <1>9, <1>10, <1>12, <1>13, <1>14, <1>15, <2>1 DEF Reshared
  <1>17. InnerShare(t, T, h, E, {a}, p, j, a, b, v)
    BY <1>16, ResharedOf
  <1>18. u = fix_up(fix_keys(fix_keys(v, a), b), p)
    <2>1. WithChild(WithChild(t, a, I), b, J) =
              [t EXCEPT ![b].child = Tail(t[b].child),
                        ![a].child = Append(t[a].child, Head(t[b].child))]
      <3>1. WithChild(WithChild(t, a, I), b, J) = [t EXCEPT ![b].child = J, ![a].child = I]
        BY <1>2 DEF WithChild
      <3>2. J = Tail(t[b].child) /\ I = Append(t[a].child, Head(t[b].child))
        BY <1>3, <1>6
      <3> QED BY <3>1, <3>2
    <2>2. v =
              SetParents([t EXCEPT ![b].child = Tail(t[b].child),
                                   ![a].child = Append(t[a].child, Head(t[b].child))],
                         {Head(t[b].child)}, a)
      BY <1>3, <1>6, <1>14, <2>1
    <2> QED BY <1>2, <2>2 DEF BorrowInnerRight
  <1> QED BY <1>17, <1>18, InnersShare

-----------------------------------------------------------------------------
(***************************************************************************)
(* Deletion: the merge of two inner nodes.                                 *)
(***************************************************************************)

(* The least keys of nodes of the tree, in a heap where they may be below  *)
(* another node.                                                           *)
Read(t, T, h, E, v, c, l) ==
    \A i \in 1 .. l : c[i] \in T /\ E[c[i]] # {} /\ Agree(t, v, T, h, h[c[i]])

(* fix_keys of a list of children whose parent is not yet in order.        *)
LEMMA MinKeysFor ==
    ASSUME NEW t, NEW T, NEW h, NEW E, Tree(t, T, h, E), NEW v, NEW c, NEW l, l = Len(c),
           l \in Nat, l # 0, Read(t, T, h, E, v, c, l), NEW q, q = MinKeysOf(v, c)
    PROVE  /\ q \in Seq(Nat) /\ Len(q) + 1 = Len(c)
           /\ \A i \in 1 .. Len(q) : Least(E, c[i + 1], q[i])
  <1>1. ASSUME NEW i \in 1 .. l - 1
        PROVE  min_key(v, c[i + 1]) \in Nat /\ Least(E, c[i + 1], min_key(v, c[i + 1]))
    <2>1. PICK j \in 1 .. l : j = i + 1
      OBVIOUS
    <2>2. PICK y : y = c[i + 1]
      OBVIOUS
    <2>3. y \in T /\ E[y] # {} /\ Agree(t, v, T, h, h[y])
      BY <2>1, <2>2 DEF Read
    <2>4. min_key(v, y) = min_key(t, y)
      BY <2>3, MinKeySame
    <2>5. /\ min_key(t, y) \in Nat
          /\ \E e \in E[y] : e.fnv = min_key(t, y)
          /\ \A e \in E[y] : min_key(t, y) <= e.fnv
      BY <2>3, MinKeyOf
    <2> QED BY <2>2, <2>4, <2>5 DEF Least
  <1>2. q = [i \in 1 .. l - 1 |-> min_key(v, c[i + 1])]
    BY DEF MinKeysOf
  <1>3. l - 1 \in Nat
    OBVIOUS
  <1>4. q \in Seq(Nat) /\ Len(q) = l - 1
    BY <1>1, <1>2, <1>3
  <1>5. \A i \in 1 .. Len(q) : q[i] = min_key(v, c[i + 1]) /\ i \in 1 .. l - 1
    BY <1>2, <1>4
  <1>6. \A i \in 1 .. Len(q) : Least(E, c[i + 1], q[i])
    BY <1>1, <1>5
  <1>7. Len(q) + 1 = Len(c)
    BY <1>4
  <1> QED BY <1>4, <1>6, <1>7

(* A node with other keys.                                                 *)
WithKey(t, a, s) == [t EXCEPT ![a].key = s]

(* A node is given other keys.                                             *)
LEMMA WithKeyOf ==
    ASSUME NEW t, Heap(t), NEW a \in DOMAIN t, NEW s \in Seq(Nat), NEW u, u = WithKey(t, a, s)
    PROVE  /\ Heap(u) /\ DOMAIN u = DOMAIN t /\ \A x \in DOMAIN t : x # a => u[x] = t[x]
           /\ u[a].leaf = t[a].leaf /\ u[a].item = t[a].item /\ u[a].key = s
           /\ u[a].child = t[a].child /\ u[a].next = t[a].next /\ u[a].parent = t[a].parent
  <1>1. t[a] \in Node
    BY NodeTypes
  <1>2. PICK y : y = [t[a] EXCEPT !.key = s]
    OBVIOUS
  <1>3. /\ y \in Node /\ y.leaf = t[a].leaf /\ y.item = t[a].item /\ y.key = s
        /\ y.child = t[a].child /\ y.next = t[a].next /\ y.parent = t[a].parent
    BY <1>1, <1>2 DEF Node
  <1>4. u = [t EXCEPT ![a] = y]
    BY <1>2 DEF WithKey
  <1> QED BY <1>3, <1>4 DEF Heap

(* What MergeInner leaves.                                                 *)
InnerInto(t, T, E, u, p, j, a, b) ==
    /\ Heap(u) /\ DOMAIN u = DOMAIN t \ {b}
    /\ \A x \in DOMAIN t \ {a, b, p} :
          /\ u[x].leaf = t[x].leaf /\ u[x].item = t[x].item /\ u[x].key = t[x].key
          /\ u[x].child = t[x].child /\ u[x].next = t[x].next
          /\ t[x].parent # b => u[x].parent = t[x].parent
    /\ u[a].leaf = t[a].leaf /\ u[a].item = t[a].item
    /\ u[a].child = t[a].child \o t[b].child
    /\ u[a].next = t[a].next /\ u[a].parent = t[a].parent
    /\ Len(u[a].key) + 1 = Len(u[a].child)
    /\ \A i \in 1 .. Len(u[a].key) : Least(E, u[a].child[i + 1], u[a].key[i])
    /\ \A y \in Members(u[a].child) : y \in T /\ u[y].parent = a
    /\ u[p].leaf = t[p].leaf /\ u[p].item = t[p].item
    /\ u[p].parent = t[p].parent /\ u[p].next = t[p].next
    /\ u[p].key = RemoveAt(t[p].key, j) /\ u[p].child = RemoveAt(t[p].child, j + 1)

(* What comes of a when it takes over the children of b.                   *)
Adopting(t, T, E, w, a, b) ==
    /\ Heap(w) /\ DOMAIN w = DOMAIN t
    /\ \A x \in DOMAIN t \ {a} :
          /\ w[x].leaf = t[x].leaf /\ w[x].item = t[x].item /\ w[x].key = t[x].key
          /\ w[x].child = t[x].child /\ w[x].next = t[x].next
    /\ \A x \in DOMAIN t : t[x].parent # b => w[x].parent = t[x].parent
    /\ w[a].leaf = t[a].leaf /\ w[a].item = t[a].item
    /\ w[a].child = t[a].child \o t[b].child /\ w[a].next = t[a].next
    /\ Len(w[a].key) + 1 = Len(w[a].child)
    /\ \A i \in 1 .. Len(w[a].key) : Least(E, w[a].child[i + 1], w[a].key[i])
    /\ \A y \in Members(w[a].child) : y \in T /\ w[y].parent = a

(* The left node has all the children.                                     *)
Adopted(t, a, b) ==
    SetParents(WithChild(t, a, t[a].child \o t[b].child), ToSet(t[b].child), a)

(* MergeInner before the right node is dropped: the left one has all the   *)
(* children, which point to it, and keys that part them.                   *)
LEMMA AdoptedOf ==
    ASSUME NEW t, NEW T, NEW h, NEW E, Tree(t, T, h, E),
           NEW p, NEW j, NEW a, NEW b, Siblings(t, T, p, j, a, b), ~t[a].leaf,
           NEW w, w = fix_keys(Adopted(t, a, b), a)
    PROVE  Adopting(t, T, E, w, a, b)
  <1>1. a \in T /\ b \in T /\ a # b /\ t[a].parent = p /\ p # b /\ ~t[b].leaf
    BY SiblingsAre
  <1>2. Heap(t) /\ T \subseteq DOMAIN t /\ a \in DOMAIN t /\ b \in DOMAIN t /\ a \in Nat
    <2>1. Heap(t) /\ T \subseteq DOMAIN t /\ DOMAIN t \subseteq Nat \ {NULL}
      BY TreeTypes
    <2> QED BY <1>1, <2>1
  <1>3. PICK A, B, I : A = t[a].child /\ B = t[b].child /\ I = A \o B
    OBVIOUS
  <1>4. A \in Seq(Nat) /\ \A y \in Members(A) : y \in DOMAIN t /\ y \in T /\ t[y].parent = a
    BY <1>1, <1>3, KidsOf
  <1>5. B \in Seq(Nat) /\ \A y \in Members(B) : y \in DOMAIN t /\ y \in T /\ t[y].parent = b
    BY <1>1, <1>3, KidsOf
  <1>6. I \in Seq(Nat)
    BY <1>3, <1>4, <1>5, ConcatOf
  <1>7. Members(I) = Members(A) \cup Members(B)
    BY <1>3, <1>4, <1>5, MembersConcat
  <1>8. PICK v : v = WithChild(t, a, I)
    OBVIOUS
  <1>9. Refamilied(t, v, a, I)
    BY <1>2, <1>6, <1>8, WithChildOf
  <1>10. /\ Heap(v) /\ DOMAIN v = DOMAIN t /\ \A x \in DOMAIN t : x # a => v[x] = t[x]
         /\ v[a].leaf = t[a].leaf /\ v[a].item = t[a].item /\ v[a].key = t[a].key
         /\ v[a].child = I /\ v[a].next = t[a].next /\ v[a].parent = t[a].parent
    BY <1>9 DEF Refamilied
  <1>11. PICK S : S = Members(B)
    OBVIOUS
  <1>12. ToSet(B) = S
    BY <1>5, <1>11, ToSetOf
  <1>13. PICK z : z = SetParents(v, S, a)
    OBVIOUS
  <1>14. Adopted(t, a, b) = z
    BY <1>3, <1>8, <1>12, <1>13 DEF Adopted
  <1>15. /\ Heap(z) /\ DOMAIN z = DOMAIN v
         /\ \A x \in DOMAIN v :
               /\ z[x].leaf = v[x].leaf /\ z[x].item = v[x].item /\ z[x].key = v[x].key
               /\ z[x].child = v[x].child /\ z[x].next = v[x].next
               /\ x \in S => z[x].parent = a
               /\ x \notin S => z[x].parent = v[x].parent
    BY <1>2, <1>10, <1>13, SetParentsOf
  <1>16. z[a].child = I
    BY <1>2, <1>10, <1>15
  <1>17. ASSUME NEW x \in DOMAIN t
         PROVE  /\ z[x].leaf = t[x].leaf /\ z[x].item = t[x].item /\ z[x].key = t[x].key
                /\ z[x].next = t[x].next /\ (x # a => z[x].child = t[x].child)
                /\ x \in S => z[x].parent = a
                /\ x \notin S => z[x].parent = t[x].parent
    <2>1. /\ z[x].leaf = v[x].leaf /\ z[x].item = v[x].item /\ z[x].key = v[x].key
          /\ z[x].child = v[x].child /\ z[x].next = v[x].next
          /\ x \in S => z[x].parent = a
          /\ x \notin S => z[x].parent = v[x].parent
      BY <1>10, <1>15
    <2>2. CASE x = a
      BY <1>10, <2>1, <2>2
    <2>3. CASE x # a
      BY <1>10, <2>1, <2>3
    <2> QED BY <2>2, <2>3
  <1>18. ASSUME NEW y \in Members(I)
         PROVE  y \in T /\ y \in DOMAIN t /\ z[y].parent = a /\ E[y] # {} /\ Agree(t, z, T, h, h[y])
    <2>1. y \in T /\ y \in DOMAIN t /\ (t[y].parent = a \/ y \in S)
      BY <1>4, <1>5, <1>7, <1>11
    <2>2. z[y].parent = a
      BY <1>17, <2>1
    <2>3. PICK g \in {a, b} : g = t[y].parent
      BY <1>4, <1>5, <1>7
    <2>4. g \in T /\ h[g] = h[a] /\ h[a] \in Nat
      BY <1>1, <2>3, SiblingsAre
    <2>5. y # root
      <3>1. t[root].parent = NULL
        BY TreeTypes DEF Tree, Shape, Upward
      <3>2. NULL \notin T
        BY TreeTypes
      <3> QED BY <2>3, <2>4, <3>1, <3>2
    <2>6. h[y] + 1 = h[g] /\ h[y] \in Nat /\ E[y] # {} /\ h[y] < h[root] /\ h[root] \in Nat
      BY <2>1, <2>3, <2>5, ParentOf
    <2>7. Rounds(z) = Rounds(t)
      BY <1>10, <1>15 DEF Rounds
    <2>8. Rounds(t) \in Nat /\ h[root] < Rounds(t)
      BY Tall
    <2>9. Rounds(z) \in Nat /\ h[y] <= Rounds(z)
      BY <2>6, <2>7, <2>8
    <2>10. ASSUME NEW x \in T, h[x] <= h[y]
           PROVE  x \in DOMAIN z /\ z[x].leaf = t[x].leaf /\ z[x].item = t[x].item /\ z[x].child = t[x].child
      <3>1. x # a
        BY <2>4, <2>6, <2>10
      <3>2. x \in DOMAIN t
        BY <1>2
      <3> QED BY <1>10, <1>15, <1>17, <3>1, <3>2
    <2>11. Agree(t, z, T, h, h[y])
      BY <2>9, <2>10 DEF Agree
    <2> QED BY <2>1, <2>2, <2>6, <2>11
  <1>19. PICK l : l = Len(I)
    OBVIOUS
  <1>20. l \in Nat /\ l # 0
    <2>1. 1 \in 1 .. Len(A) /\ Len(A) \in Nat
      BY <1>1, <1>3, InnerOf
    <2>2. Len(I) = Len(A) + Len(B)
      BY <1>3, <1>4, <1>5, ConcatOf
    <2>3. Len(B) \in Nat
      BY <1>5
    <2> QED BY <1>19, <2>1, <2>2, <2>3
  <1>21. PICK q : q = MinKeysOf(z, I)
    OBVIOUS
  <1>22. Read(t, T, h, E, z, I, l)
    <2>1. \A i \in 1 .. l : I[i] \in Members(I)
      BY <1>19 DEF Members
    <2> QED BY <1>18, <2>1 DEF Read
  <1>23. /\ q \in Seq(Nat) /\ Len(q) + 1 = Len(I)
         /\ \A i \in 1 .. Len(q) : Least(E, I[i + 1], q[i])
    BY <1>19, <1>20, <1>21, <1>22, MinKeysFor
  <1>24. w = WithKey(z, a, q)
    <2>1. fix_keys(z, a) = [z EXCEPT ![a].key = MinKeysOf(z, z[a].child)]
      BY DEF fix_keys, MinKeysOf
    <2> QED BY <1>14, <1>16, <1>21, <2>1 DEF WithKey
  <1>25. a \in DOMAIN z
    BY <1>2, <1>10, <1>15
  <1>26. /\ Heap(w) /\ DOMAIN w = DOMAIN z /\ \A x \in DOMAIN z : x # a => w[x] = z[x]
         /\ w[a].leaf = z[a].leaf /\ w[a].item = z[a].item /\ w[a].key = q
         /\ w[a].child = z[a].child /\ w[a].next = z[a].next /\ w[a].parent = z[a].parent
    BY <1>15, <1>23, <1>24, <1>25, WithKeyOf
  <1>27. DOMAIN w = DOMAIN t /\ w[a].child = I
    BY <1>10, <1>15, <1>16, <1>26
  <1>28. ASSUME NEW x \in DOMAIN t
         PROVE  w[x].parent = z[x].parent
    BY <1>10, <1>15, <1>26, <1>28
  <1>29. \A y \in Members(w[a].child) : y \in T /\ w[y].parent = a
    BY <1>18, <1>27, <1>28
  <1>30. \A x \in DOMAIN t : t[x].parent # b => w[x].parent = t[x].parent
    <2> SUFFICES ASSUME NEW x \in DOMAIN t, t[x].parent # b PROVE w[x].parent = t[x].parent
      OBVIOUS
    <2>1. x \notin S
      BY <1>5, <1>11
    <2> QED BY <1>17, <1>28, <2>1
  <1>31. \A x \in DOMAIN t \ {a} :
            /\ w[x].leaf = t[x].leaf /\ w[x].item = t[x].item /\ w[x].key = t[x].key
            /\ w[x].child = t[x].child /\ w[x].next = t[x].next
    <2> SUFFICES ASSUME NEW x \in DOMAIN t, x # a
                 PROVE  /\ w[x].leaf = t[x].leaf /\ w[x].item = t[x].item /\ w[x].key = t[x].key
                        /\ w[x].child = t[x].child /\ w[x].next = t[x].next
      OBVIOUS
    <2>1. w[x] = z[x]
      BY <1>10, <1>15, <1>26
    <2> QED BY <1>17, <2>1
  <1>32. w[a].leaf = t[a].leaf /\ w[a].item = t[a].item /\ w[a].next = t[a].next
    BY <1>2, <1>17, <1>26
  <1>33. w[a].child = t[a].child \o t[b].child
    BY <1>3, <1>27
  <1>34. Len(w[a].key) + 1 = Len(w[a].child)
    BY <1>23, <1>26, <1>27
  <1>35. \A i \in 1 .. Len(w[a].key) : Least(E, w[a].child[i + 1], w[a].key[i])
    BY <1>23, <1>26, <1>27
  <1> QED BY <1>26, <1>27, <1>29, <1>30, <1>31, <1>32, <1>33, <1>34, <1>35 DEF Adopting

(* MergeInner, field by field.                                             *)
LEMMA MergeInnerOf ==
    ASSUME NEW t, NEW T, NEW h, NEW E, Tree(t, T, h, E), Keyed(t, T, E),
           NEW p, NEW j, NEW a, NEW b, Siblings(t, T, p, j, a, b), ~t[a].leaf,
           NEW i, i = j + 1, NEW u, u = MergeInner(t, a, b, i)
    PROVE  InnerInto(t, T, E, u, p, j, a, b)
  <1>1. /\ a \in T /\ b \in T /\ a # root /\ b # root /\ a # b /\ a # p /\ b # p /\ p # NULL
        /\ t[a].parent = p /\ h[a] + 1 = h[p] /\ h[b] = h[a] /\ h[a] \in Nat
    BY SiblingsAre
  <1>2. /\ p \in T /\ ~t[p].leaf /\ j \in 1 .. Len(t[p].child) /\ j + 1 \in 1 .. Len(t[p].child)
    BY DEF Siblings
  <1>3. Heap(t) /\ a \in DOMAIN t /\ b \in DOMAIN t /\ p \in DOMAIN t
    BY <1>1, <1>2, TreeTypes
  <1>4. t[p].key \in Seq(Nat)
    BY <1>3, NodeTypes
  <1>5. j \in 1 .. Len(t[p].key)
    <2>1. Len(t[p].key) + 1 = Len(t[p].child)
      BY <1>2 DEF Keyed, KeyedAt
    <2>2. Len(t[p].key) \in Nat
      BY <1>4
    <2> QED BY <1>2, <2>1, <2>2
  <1>6. PICK v : v = fix_keys(Adopted(t, a, b), a)
    OBVIOUS
  <1>7. Adopting(t, T, E, v, a, b)
    BY <1>6, AdoptedOf
  <1>8. /\ Heap(v) /\ DOMAIN v = DOMAIN t
        /\ \A x \in DOMAIN t \ {a} :
              /\ v[x].leaf = t[x].leaf /\ v[x].item = t[x].item /\ v[x].key = t[x].key
              /\ v[x].child = t[x].child /\ v[x].next = t[x].next
        /\ \A x \in DOMAIN t : t[x].parent # b => v[x].parent = t[x].parent
    BY <1>7 DEF Adopting
  <1>9. /\ v[a].leaf = t[a].leaf /\ v[a].item = t[a].item
        /\ v[a].child = t[a].child \o t[b].child /\ v[a].next = t[a].next
        /\ Len(v[a].key) + 1 = Len(v[a].child)
        /\ \A m \in 1 .. Len(v[a].key) : Least(E, v[a].child[m + 1], v[a].key[m])
        /\ \A y \in Members(v[a].child) : y \in T /\ v[y].parent = a
    BY <1>7 DEF Adopting
  <1>10. t[p].parent # b
    <2> SUFFICES ASSUME t[p].parent = b PROVE FALSE
      OBVIOUS
    <2>1. p # root
      <3>1. t[root].parent = NULL /\ NULL \notin T
        BY TreeTypes DEF Tree, Shape, Upward
      <3> QED BY <1>1, <3>1
    <2>2. h[p] + 1 = h[b]
      BY <1>2, <2>1, ParentOf
    <2> QED BY <1>1, <2>2
  <1>11. /\ v[p].leaf = t[p].leaf /\ v[p].item = t[p].item /\ v[p].key = t[p].key
         /\ v[p].child = t[p].child /\ v[p].next = t[p].next /\ v[p].parent = t[p].parent
    BY <1>1, <1>3, <1>8, <1>10
  <1>12. v[a].parent = t[a].parent
    BY <1>1, <1>3, <1>8
  <1>13. PICK w : w = drop_child(v, p, i)
    OBVIOUS
  <1>14. Dropped(v, w, p, j)
    <2>1. p \in DOMAIN v /\ j \in 1 .. Len(v[p].key) /\ j + 1 \in 1 .. Len(v[p].child)
      BY <1>2, <1>3, <1>5, <1>8, <1>11
    <2> QED BY <1>8, <1>13, <2>1, DropOf
  <1>15. /\ Heap(w) /\ DOMAIN w = DOMAIN v /\ \A x \in DOMAIN v : x # p => w[x] = v[x]
         /\ w[p].leaf = v[p].leaf /\ w[p].item = v[p].item
         /\ w[p].parent = v[p].parent /\ w[p].next = v[p].next
         /\ w[p].key = RemoveAt(v[p].key, j) /\ w[p].child = RemoveAt(v[p].child, j + 1)
    BY <1>14 DEF Dropped
  <1>16. u = heap_free(w, b)
    <2>1. Adopted(t, a, b) =
              SetParents([t EXCEPT ![a].child = t[a].child \o t[b].child], ToSet(t[b].child), a)
      BY DEF Adopted, WithChild
    <2> QED BY <1>1, <1>6, <1>13, <2>1 DEF MergeInner
  <1>17. /\ Heap(u) /\ DOMAIN u = DOMAIN w \ {b}
         /\ \A x \in DOMAIN w : x # b => u[x] = w[x]
    <2>1. Heap(w) /\ b # root
      BY <1>1, <1>15
    <2>2. PICK z : z = heap_free(w, b)
      OBVIOUS
    <2>3. Heap(z) /\ DOMAIN z = DOMAIN w \ {b}
      BY <2>1, <2>2, FreeOf
    <2>4. \A x \in DOMAIN w : x # b => z[x] = w[x]
      BY <2>2 DEF heap_free
    <2> QED BY <1>16, <2>2, <2>3, <2>4
  <1>18. u[a] = v[a] /\ u[p] = w[p]
    BY <1>1, <1>3, <1>8, <1>15, <1>17
  <1>19. DOMAIN u = DOMAIN t \ {b}
    BY <1>8, <1>15, <1>17
  <1>20. \A x \in DOMAIN t \ {b, p} : u[x] = v[x]
    BY <1>8, <1>15, <1>17
  <1>21. \A y \in Members(u[a].child) : y \in T /\ u[y].parent = a
    <2> SUFFICES ASSUME NEW y \in Members(v[a].child) PROVE y \in T /\ u[y].parent = a
      BY <1>18
    <2>1. y \in T /\ v[y].parent = a
      BY <1>9
    <2>2. y \in DOMAIN t
      BY <2>1, TreeTypes
    <2>3. y # b
      <3>1. v[b].parent = p
        <4>1. t[b].parent = p
          BY SiblingsAre
        <4> QED BY <1>1, <1>3, <1>8, <4>1
      <3> QED BY <1>1, <2>1, <3>1
    <2>4. CASE y = p
      BY <1>15, <1>18, <2>1, <2>4
    <2>5. CASE y # p
      BY <1>20, <2>1, <2>2, <2>3, <2>5
    <2> QED BY <2>1, <2>4, <2>5
  <1>22. \A x \in DOMAIN t \ {a, b, p} :
          /\ u[x].leaf = t[x].leaf /\ u[x].item = t[x].item /\ u[x].key = t[x].key
          /\ u[x].child = t[x].child /\ u[x].next = t[x].next
          /\ t[x].parent # b => u[x].parent = t[x].parent
    <2> SUFFICES ASSUME NEW x \in DOMAIN t, x # a, x # b, x # p
                 PROVE  /\ u[x].leaf = t[x].leaf /\ u[x].item = t[x].item /\ u[x].key = t[x].key
                        /\ u[x].child = t[x].child /\ u[x].next = t[x].next
                        /\ t[x].parent # b => u[x].parent = t[x].parent
      OBVIOUS
    <2>1. u[x] = v[x]
      BY <1>20
    <2> QED BY <1>8, <2>1
  <1>23. /\ u[a].leaf = t[a].leaf /\ u[a].item = t[a].item
         /\ u[a].child = t[a].child \o t[b].child
         /\ u[a].next = t[a].next /\ u[a].parent = t[a].parent
         /\ Len(u[a].key) + 1 = Len(u[a].child)
    BY <1>9, <1>12, <1>18
  <1>24. \A m \in 1 .. Len(u[a].key) : Least(E, u[a].child[m + 1], u[a].key[m])
    BY <1>9, <1>18
  <1>25. /\ u[p].leaf = t[p].leaf /\ u[p].item = t[p].item
         /\ u[p].parent = t[p].parent /\ u[p].next = t[p].next
         /\ u[p].key = RemoveAt(t[p].key, j) /\ u[p].child = RemoveAt(t[p].child, j + 1)
    BY <1>11, <1>15, <1>18
  <1> QED BY <1>17, <1>19, <1>21, <1>22, <1>23, <1>24, <1>25 DEF InnerInto

(* An inner node takes over what its right neighbour has.                  *)
InnerMerge(t, T, h, E, X, p, j, a, b, u) ==
    /\ Good(t, T, h, E, X) /\ X \subseteq {a, b} /\ Siblings(t, T, p, j, a, b) /\ ~t[a].leaf
    /\ Len(t[a].child) + Len(t[b].child) = 3 /\ InnerInto(t, T, E, u, p, j, a, b)

(* What MergeInner leaves, in terms of a merge.                            *)
LEMMA InnerMergeMixing ==
    ASSUME NEW t, NEW T, NEW h, NEW E, NEW X, NEW p, NEW j, NEW a, NEW b, NEW u,
           InnerMerge(t, T, h, E, X, p, j, a, b, u)
    PROVE  Merging(t, u, T, h, E, p, j, a, b, T \ {b}, X)
  <1>1. /\ Good(t, T, h, E, X) /\ X \subseteq {a, b} /\ Siblings(t, T, p, j, a, b) /\ ~t[a].leaf
        /\ Len(t[a].child) + Len(t[b].child) = 3 /\ InnerInto(t, T, E, u, p, j, a, b)
    BY DEF InnerMerge
  <1>2. /\ Tree(t, T, h, E) /\ Heap(t) /\ Keyed(t, T, E) /\ Sized(t, T, X)
    BY <1>1 DEF Good, Tree
  <1>3. /\ a \in T /\ b \in T /\ a # root /\ b # root /\ a # b /\ a # p /\ b # p /\ p # NULL
        /\ t[a].parent = p /\ t[b].parent = p /\ ~t[b].leaf
    BY <1>1, <1>2, SiblingsAre
  <1>4. T \subseteq DOMAIN t /\ a \in DOMAIN t /\ b \in DOMAIN t /\ p \in T /\ ~t[p].leaf /\ p \in DOMAIN t
    BY <1>1, <1>2, <1>3, TreeTypes DEF Siblings
  <1>5. /\ Heap(u) /\ DOMAIN u = DOMAIN t \ {b}
        /\ u[a].leaf = t[a].leaf /\ u[a].item = t[a].item
        /\ u[a].child = t[a].child \o t[b].child /\ u[a].parent = t[a].parent
        /\ \A y \in Members(u[a].child) : y \in T /\ u[y].parent = a
    BY <1>1 DEF InnerInto
  <1>6. /\ u[p].leaf = t[p].leaf /\ u[p].item = t[p].item
        /\ u[p].parent = t[p].parent /\ u[p].next = t[p].next
        /\ u[p].key = RemoveAt(t[p].key, j) /\ u[p].child = RemoveAt(t[p].child, j + 1)
    BY <1>1 DEF InnerInto
  <1>7. t[a].item = <<>> /\ t[b].item = <<>> /\ t[p].item = <<>>
    <2>1. Kind(t, h, a) /\ Kind(t, h, b) /\ Kind(t, h, p)
      BY <1>2, <1>3, <1>4, TreeTypes
    <2> QED BY <1>1, <1>3, <1>4, <2>1 DEF Kind
  <1>8. PICK H : H = <<a>>
    OBVIOUS
  <1>9. Pair(H) /\ Len(H) = 1 /\ H[1] = a
    <2>1. a \in Nat
      BY <1>2, <1>3, TreeTypes
    <2>2. H \in Seq(Nat) /\ Len(H) = 1 /\ H[1] = a
      BY <1>8, <2>1
    <2> QED BY <2>2 DEF Pair
  <1>10. Members(H) = {a}
    BY <1>9, PairMembers
  <1>11. Items(u, H) = t[a].item \o t[b].item /\ Kids(u, H) = t[a].child \o t[b].child
    <2>1. Items(u, H) = u[a].item /\ Kids(u, H) = u[a].child
      BY <1>9 DEF Items, Kids
    <2>2. <<>> \o <<>> = <<>>
      OBVIOUS
    <2> QED BY <1>5, <1>7, <2>1, <2>2
  <1>12. u[a].child # <<>>
    <2>1. t[a].child \in Seq(Nat) /\ t[b].child \in Seq(Nat)
      BY <1>2, <1>4, NodeTypes
    <2>2. u[a].child \in Seq(Nat) /\ Len(u[a].child) = 3
      <3>1. t[a].child \o t[b].child \in Seq(Nat)
        BY <2>1, ConcatOf
      <3>2. Len(t[a].child \o t[b].child) = Len(t[a].child) + Len(t[b].child)
        BY <2>1, ConcatOf
      <3> QED BY <1>1, <1>5, <3>1, <3>2
    <2>3. Len(u[a].child) # 0
      BY <2>2
    <2>4. \A q \in Seq(Nat) : Len(q) # 0 => q # <<>>
      OBVIOUS
    <2> QED BY <2>2, <2>3, <2>4
  <1>13. \A x \in Members(H) :
           /\ u[x].leaf = t[a].leaf /\ u[x].parent = p
           /\ t[a].leaf => u[x].child = <<>> /\ u[x].item # <<>>
           /\ ~t[a].leaf => u[x].item = <<>> /\ u[x].child # <<>>
           /\ \A y \in Members(u[x].child) : u[y].parent = x
    <2> SUFFICES ASSUME NEW x \in Members(H)
                 PROVE  /\ u[x].leaf = t[a].leaf /\ u[x].parent = p
                        /\ u[x].item = <<>> /\ u[x].child # <<>>
                        /\ \A y \in Members(u[x].child) : u[y].parent = x
      BY <1>1
    <2> QED BY <1>3, <1>5, <1>7, <1>10, <1>12
  <1>14. \A x \in T \ {a, b, p} :
           /\ u[x].leaf = t[x].leaf /\ u[x].item = t[x].item /\ u[x].child = t[x].child
           /\ u[x].key = t[x].key
           /\ t[x].parent \notin {a, b} => u[x].parent = t[x].parent
    BY <1>1, <1>4, SMTT(30) DEF InnerInto
  <1>15. Mixing(t, u, T, h, E, p, j, a, b, H, T \ {b}, X)
    <2>1. X \subseteq {a, b, p} /\ T \ {b} \subseteq DOMAIN u
      BY <1>1, <1>4, <1>5
    <2>2. ~u[p].leaf /\ u[p].item = <<>>
      BY <1>4, <1>6, <1>7
    <2> QED BY <1>1, <1>2, <1>5, <1>6, <1>8, <1>11, <1>13, <1>14, <2>1, <2>2 DEF Mixing
  <1> QED BY <1>6, <1>8, <1>15 DEF Merging

(* The chain of the leaves is as before.                                   *)
LEMMA InnerMergeChained ==
    ASSUME NEW t, NEW T, NEW h, NEW E, NEW X, NEW p, NEW j, NEW a, NEW b, NEW u,
           InnerMerge(t, T, h, E, X, p, j, a, b, u),
           NEW U, U = T \ {b}, NEW k, NEW F, Merged(t, u, T, h, E, p, a, b, U, k, F)
    PROVE  Chained(u, U, F)
  <1>1. /\ Good(t, T, h, E, X) /\ Siblings(t, T, p, j, a, b) /\ ~t[a].leaf
        /\ InnerInto(t, T, E, u, p, j, a, b)
    BY DEF InnerMerge
  <1>2. Tree(t, T, h, E) /\ Chained(t, T, E)
    BY <1>1 DEF Good, Tree
  <1>3. a \in T /\ b \in T /\ a # b /\ a # p /\ b # p /\ ~t[b].leaf
    BY <1>1, <1>2, SiblingsAre
  <1>4. T \subseteq DOMAIN t /\ p \in T
    BY <1>1, <1>2, TreeTypes DEF Siblings
  <1>5. /\ DOMAIN u = DOMAIN t \ {b}
        /\ \A x \in DOMAIN t \ {a, b, p} : u[x].leaf = t[x].leaf /\ u[x].next = t[x].next
        /\ u[a].leaf = t[a].leaf /\ u[a].next = t[a].next
        /\ u[p].leaf = t[p].leaf /\ u[p].next = t[p].next
    BY <1>1 DEF InnerInto
  <1>6. /\ Tree(u, U, k, F) /\ \A x \in T \ {a, b} : F[x] = E[x]
    BY DEF Merged, Mixed
  <1>7. ASSUME NEW x \in U PROVE x \in T /\ u[x].leaf = t[x].leaf /\ u[x].next = t[x].next
    <2>1. x \in T /\ x # b /\ x \in DOMAIN t
      BY <1>4
    <2> QED BY <1>5, <2>1
  <1>8. LeavesOf(u, U) = LeavesOf(t, T) \cap U
    BY <1>7 DEF LeavesOf
  <1>9. ASSUME NEW x \in LeavesOf(u, U)
        PROVE  /\ u[x].next = t[x].next
               /\ t[x].next # NULL => t[x].next \in DOMAIN u
               /\ t[x].next \in U => t[x].next \in T
               /\ x # root => E[x] \cap F[x] # {}
    <2>1. x \in U /\ x \in T /\ t[x].leaf /\ x \in LeavesOf(t, T) /\ x # a /\ x # b
      BY <1>1, <1>3, <1>7, <1>8 DEF LeavesOf
    <2>2. ChainedAt(t, T, E, x)
      BY <1>2, <2>1 DEF Chained
    <2>3. t[x].next # b
      <3>1. t[x].next \in T => t[x].next \in LeavesOf(t, T)
        BY <2>2 DEF ChainedAt
      <3> QED BY <1>3, <3>1 DEF LeavesOf
    <2>4. t[x].next \in DOMAIN t \cup {NULL}
      BY <2>2 DEF ChainedAt
    <2>5. ASSUME x # root PROVE E[x] \cap F[x] # {}
      <3>1. E[x] # {}
        BY <1>2, <2>1, <2>5, ParentOf
      <3> QED BY <1>6, <2>1, <3>1
    <2> QED BY <1>5, <1>7, <2>1, <2>3, <2>4, <2>5
  <1>10. \A x \in U : ~u[x].leaf => u[x].next = NULL
    BY <1>2, <1>7 DEF Chained
  <1>11. Chaining(t, u, T, h, E, U, k, F)
    BY <1>2, <1>6, <1>8, <1>9, <1>10 DEF Chaining
  <1> QED BY <1>11, ChainKept

(* After the merge of two inner nodes all of the invariant holds, but that *)
(* their parent may have too few children: it is handed on to the next     *)
(* call of balance_inner.                                                  *)
LEMMA InnerMergeGood ==
    ASSUME NEW t, NEW T, NEW h, NEW E, NEW X, NEW p, NEW j, NEW a, NEW b, NEW u,
           InnerMerge(t, T, h, E, X, p, j, a, b, u)
    PROVE  HandedOn(t, u, T, h, E, p)
  <1>1. /\ Good(t, T, h, E, X) /\ X \subseteq {a, b} /\ Siblings(t, T, p, j, a, b) /\ ~t[a].leaf
        /\ Len(t[a].child) + Len(t[b].child) = 3 /\ InnerInto(t, T, E, u, p, j, a, b)
    BY DEF InnerMerge
  <1>2. /\ Tree(t, T, h, E) /\ Heap(t) /\ Sized(t, T, X)
    BY <1>1 DEF Good, Tree
  <1>3. /\ a \in T /\ b \in T /\ a # root /\ b # root /\ a # b /\ a # p /\ b # p
        /\ h[b] = h[a] /\ h[a] \in Nat
    BY <1>1, <1>2, SiblingsAre
  <1>4. p \in T /\ ~t[p].leaf /\ root \in T /\ T \subseteq DOMAIN t
    BY <1>1, <1>2, TreeTypes DEF Siblings
  <1>5. PICK U : U = T \ {b}
    OBVIOUS
  <1>6. Merging(t, u, T, h, E, p, j, a, b, U, X)
    BY <1>5, InnerMergeMixing
  <1>7. PICK k, F : Merged(t, u, T, h, E, p, a, b, U, k, F)
    BY <1>6, Merge
  <1>8. Chained(u, U, F)
    BY <1>5, <1>7, InnerMergeChained
  <1>9. Mixed(t, u, T, h, E, p, a, b, <<a>>, U, k, F) /\ KeyedAt(u, F, p)
    BY <1>7 DEF Merged
  <1>10. /\ Tree(u, U, k, F) /\ F[root] = E[root] /\ p \in U
         /\ \A x \in T \ {a, b} : x \in U /\ k[x] = h[x] /\ F[x] = E[x]
         /\ \A x \in U \ {a, b, p} : (~u[x].leaf => KeyedAt(u, F, x)) /\ SizedAt(u, x)
    BY <1>9 DEF Mixed
  <1>11. /\ DOMAIN u = DOMAIN t \ {b} /\ ~u[a].leaf /\ u[a].child = t[a].child \o t[b].child
         /\ Len(u[a].key) + 1 = Len(u[a].child)
         /\ ~u[p].leaf /\ u[p].child = RemoveAt(t[p].child, j + 1)
    BY <1>1, <1>4 DEF InnerInto
  <1>12. /\ \A i \in 1 .. Len(u[a].key) : Least(E, u[a].child[i + 1], u[a].key[i])
         /\ \A y \in Members(u[a].child) : y \in T /\ u[y].parent = a
    BY <1>1 DEF InnerInto
  <1>13. a \in U /\ u[a].key \in Seq(Nat) /\ u[a].child \in Seq(Nat) /\ Heap(u)
    <2>1. Heap(u) /\ a \in DOMAIN u /\ a \in U
      BY <1>3, <1>4, <1>5, <1>10, <1>11, TreeTypes
    <2> QED BY <2>1, NodeTypes
  <1>14. KeyedAt(u, F, a)
    <2>1. ASSUME NEW i \in 1 .. Len(u[a].key) PROVE Least(F, u[a].child[i + 1], u[a].key[i])
      <3>1. PICK m : m = i + 1
        OBVIOUS
      <3>2. m \in 1 .. Len(u[a].child)
        <4>1. Len(u[a].key) \in Nat
          BY <1>13
        <4>2. Len(u[a].child) = Len(u[a].key) + 1
          BY <1>11
        <4>3. m \in 1 .. Len(u[a].key) + 1
          BY <3>1, <4>1
        <4> QED BY <4>2, <4>3
      <3>3. PICK y : y = u[a].child[m]
        OBVIOUS
      <3>4. y \in T /\ u[y].parent = a /\ y # b
        <4>1. y \in Members(u[a].child)
          BY <3>2, <3>3 DEF Members
        <4>2. Tree(u, U, k, F) /\ a \in U
          BY <1>10, <1>13
        <4>3. y \in U
          BY <3>2, <3>3, <4>2, ChildOf
        <4> QED BY <1>5, <1>12, <4>1, <4>3
      <3>5. y # a
        <4>1. k[y] \in Nat /\ k[y] + 1 = k[a]
          BY <1>10, <1>13, <3>2, <3>3, ChildOf
        <4> QED BY <4>1
      <3>6. F[y] = E[y]
        BY <1>10, <3>4, <3>5
      <3>7. Least(E, y, u[a].key[i])
        BY <1>12, <3>1, <3>3
      <3>8. Least(F, y, u[a].key[i])
        BY <3>6, <3>7 DEF Least
      <3> QED BY <3>1, <3>3, <3>8
    <2> QED BY <1>10, <1>11, <1>13, <2>1, KeyedByMin
  <1>15. Keyed(u, U, F)
    <2> SUFFICES ASSUME NEW x \in U, ~u[x].leaf PROVE KeyedAt(u, F, x)
      BY DEF Keyed
    <2>1. x # b
      BY <1>5
    <2> QED BY <1>9, <1>10, <1>14, <2>1
  <1>16. Sized(u, U, {p})
    <2> SUFFICES ASSUME NEW x \in U \ {p} PROVE SizedAt(u, x)
      BY DEF Sized
    <2>1. SizedAt(u, a)
      <3>1. t[a].child \in Seq(Nat) /\ t[b].child \in Seq(Nat)
        BY <1>2, <1>3, <1>4, NodeTypes
      <3>2. Len(u[a].child) = 3
        <4>1. Len(t[a].child \o t[b].child) = Len(t[a].child) + Len(t[b].child)
          BY <3>1, ConcatOf
        <4> QED BY <1>1, <1>11, <4>1
      <3> QED BY <1>11, <3>2 DEF SizedAt, MAX_BPT_NODE_NUM
    <2> QED BY <1>5, <1>10, <2>1
  <1>17. Good(u, U, k, F, {p})
    BY <1>8, <1>10, <1>15, <1>16 DEF Good, Tree
  <1>18. Len(u[p].child) \in 1 .. 3
    <2>1. SizedAt(t, p)
      BY <1>1, <1>2, <1>3, <1>4 DEF Sized
    <2>2. Len(t[p].child) \in 2 .. 4
      BY <1>4, <2>1 DEF SizedAt, MAX_BPT_NODE_NUM
    <2>3. t[p].child \in Seq(Nat)
      BY <1>2, <1>4, NodeTypes
    <2>4. PICK i : i = j + 1
      OBVIOUS
    <2>5. i \in 1 .. Len(t[p].child)
      BY <1>1, <2>4 DEF Siblings
    <2>6. Removed(Nat, t[p].child, i, u[p].child)
      BY <1>11, <2>3, <2>4, <2>5, RemovedList
    <2>7. Len(u[p].child) = Len(t[p].child) - 1
      BY <2>6 DEF Removed
    <2>8. \A m \in 2 .. 4 : m - 1 \in 1 .. 3
      OBVIOUS
    <2> QED BY <2>2, <2>7, <2>8
  <1>19. k[p] = h[p] /\ k[root] = h[root]
    BY <1>3, <1>4, <1>10
  <1>20. T = DOMAIN t => U = DOMAIN u
    BY <1>5, <1>11
  <1> QED BY <1>10, <1>11, <1>17, <1>18, <1>19, <1>20 DEF HandedOn

-----------------------------------------------------------------------------
(***************************************************************************)
(* Deletion: one call of balance_inner.                                    *)
(***************************************************************************)

Ending(u) == [mem |-> u, node |-> NULL]
Going(u, p) == [mem |-> u, node |-> p]

(* The fields of a call of balance_inner.                                  *)
LEMMA GoingIs ==
    ASSUME NEW u, NEW p, NEW z, z = Going(u, p)
    PROVE  z.mem = u /\ z.node = p
  BY DEF Going

(* The fields of what the last call leaves.                                *)
LEMMA EndingIs ==
    ASSUME NEW u, NEW z, z = Ending(u)
    PROVE  z.mem = u /\ z.node = NULL
  BY DEF Ending

(* The cases of one call of balance_inner for a node other than the root.  *)
Rebalanced(t, a, l, r, p, i, z) ==
    /\ Len(t[a].child) - 1 >= minimum_keys => z = Ending(fix_up(t, a))
    /\ ~(Len(t[a].child) - 1 >= minimum_keys) =>
          \/ l # NULL /\ Len(t[l].child) - 1 > minimum_keys /\ z = Ending(BorrowInnerLeft(t, l, a))
          \/ r # NULL /\ Len(t[r].child) - 1 > minimum_keys /\ z = Ending(BorrowInnerRight(t, a, r))
          \/ /\ l # NULL /\ ~(Len(t[l].child) - 1 > minimum_keys)
             /\ z = Going(MergeInner(t, l, a, i), p)
          \/ /\ r # NULL /\ ~(Len(t[r].child) - 1 > minimum_keys)
             /\ z = Going(MergeInner(t, a, r, i + 1), p)
          \/ l = NULL /\ r = NULL

(* What a call of balance_inner does with a node that is not the root.     *)
LEMMA BalanceCases ==
    ASSUME NEW s, s.node # NULL, s.node # root, s.mem[s.node].parent # NULL,
           Place(s.mem, s.node) # 0, NEW z, z = Balance(s)
    PROVE  Rebalanced(s.mem, s.node, LeftOf(s.mem, s.node), RightOf(s.mem, s.node),
                      s.mem[s.node].parent, Place(s.mem, s.node), z)
  BY Zenon DEF Balance, Ending, Going, Rebalanced

(* What it does with the root.                                             *)
LEMMA BalanceRoot ==
    ASSUME NEW s, s.node # NULL, s.node = root, NEW z, z = Balance(s)
    PROVE  /\ Len(s.mem[root].child) - 1 = 0 => z = Ending(Collapse(s.mem))
           /\ Len(s.mem[root].child) - 1 # 0 => z = Ending(fix_keys(s.mem, root))
  BY Zenon DEF Balance, Ending, Going
-----------------------------------------------------------------------------
(* Collapse makes the only child of the root the root.                     *)
LEMMA CollapsingOf ==
    ASSUME NEW t, NEW T, NEW h, NEW E, Tree(t, T, h, E), ~t[root].leaf, Len(t[root].child) = 1,
           NEW o, o = t[root].child[1], NEW u, u = Collapse(t)
    PROVE  Collapsing(t, u, T, h, E, o)
  <1>1. /\ Heap(t) /\ T \subseteq DOMAIN t /\ root \in T /\ root \in DOMAIN t
        /\ DOMAIN t \subseteq Nat \ {NULL}
    BY TreeTypes
  <1>2. t[root].child \in Seq(Nat)
    BY <1>1, NodeTypes
  <1>3. 1 \in 1 .. Len(t[root].child)
    OBVIOUS
  <1>4. o \in T /\ o # root /\ o \in DOMAIN t
    BY <1>1, <1>3, ChildOf
  <1>5. t[root].child = <<o>>
    BY <1>2
  <1>6. PICK y : y = [t[o] EXCEPT !.parent = NULL]
    OBVIOUS
  <1>7. t[o] \in Node /\ NULL \in Nat /\ root \in Nat
    BY <1>1, <1>4, NodeTypes DEF NULL
  <1>8. /\ y \in Node /\ y.leaf = t[o].leaf /\ y.item = t[o].item /\ y.key = t[o].key
        /\ y.child = t[o].child /\ y.next = t[o].next /\ y.parent = NULL
    BY <1>6, <1>7 DEF Node
  <1>9. PICK v : v = [t EXCEPT ![root] = y]
    OBVIOUS
  <1>10. v = [x \in DOMAIN t |-> IF x = root THEN y ELSE t[x]]
    <2>1. t = [x \in DOMAIN t |-> t[x]]
      BY <1>1 DEF Heap
    <2> QED BY <1>9, <2>1
  <1>11. DOMAIN v = DOMAIN t /\ v[root] = y /\ \A x \in DOMAIN t : x # root => v[x] = t[x]
    BY <1>1, <1>10
  <1>12. Heap(v)
    <2>1. v \in [DOMAIN v -> Node]
      <3>1. \A x \in DOMAIN v : v[x] \in Node
        BY <1>1, <1>8, <1>11, NodeTypes
      <3> QED BY <1>10, <1>11, <3>1
    <2> QED BY <1>1, <1>11, <2>1 DEF Heap
  <1>13. PICK S : S = ToSet(t[o].child)
    OBVIOUS
  <1>14. S = Members(t[o].child)
    <2>1. t[o].child \in Seq(Nat)
      BY <1>1, <1>4, NodeTypes
    <2> QED BY <1>13, <2>1, ToSetOf
  <1>15. PICK w : w = SetParents(v, S, root)
    OBVIOUS
  <1>16. /\ Heap(w) /\ DOMAIN w = DOMAIN v
         /\ \A x \in DOMAIN v :
               /\ w[x].leaf = v[x].leaf /\ w[x].item = v[x].item /\ w[x].key = v[x].key
               /\ w[x].child = v[x].child /\ w[x].next = v[x].next
               /\ x \in S => w[x].parent = root
               /\ x \notin S => w[x].parent = v[x].parent
    BY <1>7, <1>12, <1>15, SetParentsOf
  <1>17. u = heap_free(w, o)
    <2>1. v[root].child = t[o].child
      BY <1>8, <1>11
    <2> QED BY <1>6, <1>9, <1>13, <1>15, <2>1, Zenon DEF Collapse
  <1>18. Heap(u) /\ DOMAIN u = DOMAIN w \ {o}
    <2>1. Heap(w) /\ o # root
      BY <1>4, <1>16
    <2>2. PICK z : z = heap_free(w, o)
      OBVIOUS
    <2>3. Heap(z) /\ DOMAIN z = DOMAIN w \ {o}
      BY <2>1, <2>2, FreeOf
    <2> QED BY <1>17, <2>2, <2>3
  <1>19. \A x \in DOMAIN w : x # o => u[x] = w[x]
    BY <1>17 DEF heap_free
  <1>20. \A x \in S : x \in T /\ t[x].parent = o /\ x # root
    <2> SUFFICES ASSUME NEW x \in S PROVE x \in T /\ t[x].parent = o /\ x # root
      OBVIOUS
    <2>1. PICK i \in 1 .. Len(t[o].child) : x = t[o].child[i]
      BY <1>14 DEF Members
    <2> QED BY <1>4, <2>1, ChildOf
  <1>21. \A x \in T \ {root} : t[x].parent = o => x \in S
    <2> SUFFICES ASSUME NEW x \in T, x # root, t[x].parent = o PROVE x \in S
      OBVIOUS
    <2>1. \E i \in 1 .. Len(t[o].child) : t[o].child[i] = x
      BY ParentOf
    <2> QED BY <1>14, <2>1 DEF Members
  <1>22. DOMAIN u = DOMAIN t \ {o}
    BY <1>11, <1>16, <1>18
  <1>23. /\ u[root].leaf = t[o].leaf /\ u[root].item = t[o].item /\ u[root].child = t[o].child
         /\ u[root].key = t[o].key /\ u[root].next = t[o].next /\ u[root].parent = NULL
    <2>1. u[root] = w[root] /\ root \in DOMAIN v /\ root \notin S
      BY <1>1, <1>4, <1>11, <1>16, <1>19, <1>20
    <2>2. /\ w[root].leaf = y.leaf /\ w[root].item = y.item /\ w[root].key = y.key
          /\ w[root].child = y.child /\ w[root].next = y.next /\ w[root].parent = y.parent
      BY <1>11, <1>16, <2>1
    <2> QED BY <1>8, <2>1, <2>2
  <1>24. \A x \in T \ {root, o} :
          /\ u[x].leaf = t[x].leaf /\ u[x].item = t[x].item /\ u[x].child = t[x].child
          /\ u[x].key = t[x].key /\ u[x].next = t[x].next
          /\ u[x].parent = IF t[x].parent = o THEN root ELSE t[x].parent
    <2> SUFFICES ASSUME NEW x \in T, x # root, x # o
                 PROVE  /\ u[x].leaf = t[x].leaf /\ u[x].item = t[x].item /\ u[x].child = t[x].child
                        /\ u[x].key = t[x].key /\ u[x].next = t[x].next
                        /\ u[x].parent = IF t[x].parent = o THEN root ELSE t[x].parent
      OBVIOUS
    <2>1. x \in DOMAIN v /\ u[x] = w[x] /\ v[x] = t[x]
      BY <1>1, <1>11, <1>16, <1>19
    <2>2. x \in S <=> t[x].parent = o
      BY <1>20, <1>21
    <2>3. /\ w[x].leaf = v[x].leaf /\ w[x].item = v[x].item /\ w[x].key = v[x].key
          /\ w[x].child = v[x].child /\ w[x].next = v[x].next
          /\ x \in S => w[x].parent = root
          /\ x \notin S => w[x].parent = v[x].parent
      BY <1>16, <2>1
    <2>4. CASE x \in S
      BY <2>1, <2>2, <2>3, <2>4
    <2>5. CASE x \notin S
      BY <2>1, <2>2, <2>3, <2>5
    <2> QED BY <2>4, <2>5
  <1> QED BY <1>5, <1>18, <1>22, <1>23, <1>24 DEF Collapsing

(* Collapse of a root with one child.                                      *)
LEMMA CollapseOf ==
    ASSUME NEW t, NEW T, NEW h, NEW E, Good(t, T, h, E, {root}), ~t[root].leaf,
           Len(t[root].child) = 1, NEW u, u = Collapse(t)
    PROVE  Mended(t, T, E, u)
  <1>1. Tree(t, T, h, E) /\ Keyed(t, T, E) /\ Sized(t, T, {root}) /\ Chained(t, T, E)
    BY DEF Good, Tree
  <1>2. PICK o : o = t[root].child[1]
    OBVIOUS
  <1>3. Collapsing(t, u, T, h, E, o)
    BY <1>1, <1>2, CollapsingOf
  <1>4. PICK U : U = T \ {o}
    OBVIOUS
  <1>5. PICK k : k = [x \in U |-> IF x = root THEN h[o] ELSE h[x]]
    OBVIOUS
  <1>6. PICK F : F = [x \in U |-> E[x]]
    OBVIOUS
  <1>7. Good(u, U, k, F, {}) /\ F[root] = E[root]
    BY <1>1, <1>3, <1>4, <1>5, <1>6, CollapseRoot
  <1>8. DOMAIN u = DOMAIN t \ {o}
    BY <1>3 DEF Collapsing
  <1> QED BY <1>4, <1>7, <1>8 DEF Mended

(* fix_up of a tree in order.                                              *)
LEMMA UpOf ==
    ASSUME NEW t, NEW T, NEW h, NEW E, NEW X, Good(t, T, h, E, X), Sized(t, T, {}), NEW a \in T,
           NEW u, u = fix_up(t, a)
    PROVE  Mended(t, T, E, u)
  <1>1. Tree(t, T, h, E) /\ Keyed(t, T, E) /\ Chained(t, T, E)
    BY DEF Good, Tree
  <1>2. \A x \in T : ~t[x].leaf /\ x # a => KeyedAt(t, E, x)
    BY <1>1 DEF Keyed
  <1>3. Tree(u, T, h, E) /\ DOMAIN u = DOMAIN t /\ Keyed(u, T, E)
    BY <1>1, <1>2, FixUpOf
  <1>4. \A Y : Sized(t, T, Y) => Sized(u, T, Y)
    BY <1>1, <1>2, FixUpOf
  <1>5. Chained(u, T, E)
    BY <1>1, <1>2, FixUpOf
  <1>6. Good(u, T, h, E, {})
    BY <1>3, <1>4, <1>5 DEF Good, Tree
  <1> QED BY <1>3, <1>6 DEF Mended

(* fix_keys of the root of a tree in order.                                *)
LEMMA RootKeysOf ==
    ASSUME NEW t, NEW T, NEW h, NEW E, NEW X, Good(t, T, h, E, X), Sized(t, T, {}), ~t[root].leaf,
           NEW u, u = fix_keys(t, root)
    PROVE  Mended(t, T, E, u)
  <1>1. Tree(t, T, h, E) /\ Keyed(t, T, E) /\ Chained(t, T, E)
    BY DEF Good, Tree
  <1>2. root \in T /\ root \in DOMAIN t
    BY <1>1, TreeTypes
  <1>3. PICK Q : Q = {root}
    OBVIOUS
  <1>4. Rekeyed(t, u, Q)
    BY <1>2, <1>3, FixKeysOf
  <1>5. \A x \in Q : x \in T /\ ~t[x].leaf
    BY <1>2, <1>3
  <1>6. Tree(u, T, h, E) /\ SameTree(t, u, T)
    BY <1>1, <1>4, <1>5, RekeyedTree
  <1>7. \A x \in Q : KeyedAt(u, E, x)
    BY <1>1, <1>4, <1>5, RekeyedTree
  <1>8. \A x \in T : x \notin Q /\ KeyedAt(t, E, x) => KeyedAt(u, E, x)
    BY <1>1, <1>4, <1>5, RekeyedTree
  <1>9. Sized(u, T, {})
    BY <1>1, <1>4, <1>5, RekeyedTree
  <1>10. Chained(u, T, E)
    BY <1>1, <1>4, <1>5, RekeyedTree
  <1>11. Keyed(u, T, E)
    <2> SUFFICES ASSUME NEW x \in T, ~u[x].leaf PROVE KeyedAt(u, E, x)
      BY DEF Keyed
    <2>1. ~t[x].leaf
      BY <1>6 DEF SameTree
    <2>2. KeyedAt(t, E, x)
      BY <1>1, <2>1 DEF Keyed
    <2> QED BY <1>7, <1>8, <2>2
  <1>12. DOMAIN u = DOMAIN t
    BY <1>4 DEF Rekeyed
  <1>13. Good(u, T, h, E, {})
    BY <1>6, <1>9, <1>10, <1>11 DEF Good, Tree
  <1> QED BY <1>12, <1>13 DEF Mended
-----------------------------------------------------------------------------
(* The last call of balance_inner has left the tree in order.              *)
Ended(s, R, all) ==
    /\ s.node = NULL
    /\ \E V, k, F : Good(s.mem, V, k, F, {}) /\ F[root] = R /\ (all => V = DOMAIN s.mem)

(* The next call is for an inner node of height n, in a tree of height H,  *)
(* which has lost a child.                                                 *)
Slim(s, R, all, H, n) ==
    \E V, k, F : /\ Good(s.mem, V, k, F, {s.node}) /\ F[root] = R /\ (all => V = DOMAIN s.mem)
                 /\ s.node \in V /\ k[s.node] = n /\ k[root] = H
                 /\ ~s.mem[s.node].leaf /\ Len(s.mem[s.node].child) \in 1 .. 3

(* The calls of balance_inner go up level by level, and there are enough   *)
(* rounds for all.                                                         *)
LEMMA SlimLow ==
    ASSUME NEW s, NEW R, NEW all, NEW H, NEW n, Slim(s, R, all, H, n)
    PROVE  n \in Nat /\ n <= H /\ H < Rounds(s.mem) /\ H \in Nat /\ Rounds(s.mem) \in Nat
  <1>1. PICK V, k, F : /\ Good(s.mem, V, k, F, {s.node})
                       /\ s.node \in V /\ k[s.node] = n /\ k[root] = H
    BY DEF Slim
  <1>2. Tree(s.mem, V, k, F)
    BY <1>1 DEF Good, Tree
  <1>3. n <= H
    BY <1>1, <1>2, InRoot
  <1>4. n \in Nat
    BY <1>1, <1>2, TreeTypes
  <1>5. Rounds(s.mem) \in Nat /\ k[root] < Rounds(s.mem) /\ k[root] \in Nat
    BY <1>2, Tall
  <1> QED BY <1>1, <1>3, <1>4, <1>5

(* A call that leaves all of the invariant is the last.                    *)
LEMMA MendedEnds ==
    ASSUME NEW t, NEW T, NEW E, NEW u, Mended(t, T, E, u), NEW all, all => T = DOMAIN t,
           NEW z, z = Ending(u)
    PROVE  Ended(z, E[root], all)
  <1>1. PICK U, k, F : /\ Good(u, U, k, F, {})
                       /\ F[root] = E[root] /\ (T = DOMAIN t => U = DOMAIN u)
    BY DEF Mended
  <1>2. z.mem = u /\ z.node = NULL
    BY EndingIs
  <1> QED BY <1>1, <1>2 DEF Ended

(* A call that hands the parent on leaves the tree as the next one needs   *)
(* it.                                                                     *)
LEMMA HandedGoes ==
    ASSUME NEW t, NEW T, NEW h, NEW E, NEW u, NEW p, HandedOn(t, u, T, h, E, p),
           NEW all, all => T = DOMAIN t, NEW n, h[p] = n, NEW H, h[root] = H,
           NEW z, z = Going(u, p)
    PROVE  Slim(z, E[root], all, H, n)
  <1>1. PICK U, k, F : /\ Good(u, U, k, F, {p}) /\ F[root] = E[root] /\ (T = DOMAIN t => U = DOMAIN u)
                       /\ p \in U /\ k[p] = h[p] /\ k[root] = h[root]
                       /\ ~u[p].leaf /\ Len(u[p].child) \in 1 .. 3
    BY DEF HandedOn
  <1>2. z.mem = u /\ z.node = p
    BY GoingIs
  <1> QED BY <1>1, <1>2 DEF Slim

(* The counts a node may have.                                             *)
LEMMA Counts ==
    /\ minimum_keys = 1 /\ minimum_items = 2
    /\ \A n \in 1 .. 3 : /\ n - 1 >= 1 <=> n # 1
                         /\ n - 1 >= 1 => n \in 2 .. 4
                         /\ n - 1 = 0 <=> n = 1
    /\ \A n \in 2 .. 4 : /\ n - 1 > 1 => n \in 3 .. 4
                         /\ ~(n - 1 > 1) => n = 2
  <1>1. minimum_keys = 1 /\ minimum_items = 2
    BY DEF minimum_keys, minimum_items, MAX_BPT_NODE_NUM
  <1> QED BY <1>1

(* One call of balance_inner.                                              *)
LEMMA SlimRoot ==
    ASSUME NEW t, NEW V, NEW k, NEW F, Good(t, V, k, F, {root}), ~t[root].leaf,
           Len(t[root].child) \in 1 .. 3, NEW u,
           \/ Len(t[root].child) - 1 = 0 /\ u = Collapse(t)
           \/ Len(t[root].child) - 1 # 0 /\ u = fix_keys(t, root)
    PROVE  Mended(t, V, F, u)
  <1>1. PICK n : n = Len(t[root].child)
    OBVIOUS
  <1>2. CASE n - 1 = 0 /\ u = Collapse(t)
    <2>1. Len(t[root].child) = 1
      BY <1>1, <1>2, Counts
    <2> QED BY <1>2, <2>1, CollapseOf
  <1>3. CASE n - 1 # 0 /\ u = fix_keys(t, root)
    <2>1. n \in 2 .. 4
      BY <1>1, <1>3
    <2>2. SizedAt(t, root)
      BY <1>1, <2>1 DEF SizedAt, MAX_BPT_NODE_NUM
    <2>3. Sized(t, V, {root})
      BY DEF Good
    <2>4. Sized(t, V, {})
      BY <2>2, <2>3 DEF Sized
    <2> QED BY <1>3, <2>4, RootKeysOf
  <1> QED BY <1>1, <1>2, <1>3

(* Below another node, with at least one key.                              *)
LEMMA SlimEnough ==
    ASSUME NEW t, NEW V, NEW k, NEW F, NEW a, Good(t, V, k, F, {a}), a \in V, ~t[a].leaf,
           Len(t[a].child) \in 1 .. 3, Len(t[a].child) - 1 >= minimum_keys, NEW u, u = fix_up(t, a)
    PROVE  Mended(t, V, F, u)
  <1>1. PICK n : n = Len(t[a].child)
    OBVIOUS
  <1>2. n \in 2 .. 4
    BY <1>1, Counts
  <1>3. SizedAt(t, a)
    BY <1>1, <1>2 DEF SizedAt, MAX_BPT_NODE_NUM
  <1>4. Sized(t, V, {a})
    BY DEF Good
  <1>5. Sized(t, V, {})
    BY <1>3, <1>4 DEF Sized
  <1> QED BY <1>5, UpOf

(* How many children a neighbour has.                                      *)
LEMMA BesideInner ==
    ASSUME NEW t, NEW V, NEW k, NEW F, NEW a, Good(t, V, k, F, {a}), ~t[a].leaf,
           NEW p, NEW j, NEW x, Siblings(t, V, p, j, x, a) \/ Siblings(t, V, p, j, a, x)
    PROVE  ~t[x].leaf /\ Len(t[x].child) \in 2 .. 4
  <1>1. Tree(t, V, k, F) /\ Sized(t, V, {a})
    BY DEF Good, Tree
  <1>2. x \in V /\ x # a /\ (t[x].leaf <=> t[a].leaf)
    BY <1>1, SiblingsAre
  <1>3. SizedAt(t, x)
    BY <1>1, <1>2 DEF Sized
  <1> QED BY <1>2, <1>3 DEF SizedAt, MAX_BPT_NODE_NUM

(* With one child: what comes of a and its left neighbour, or its right    *)
(* one.                                                                    *)
LEMMA SlimLeft ==
    ASSUME NEW t, NEW V, NEW k, NEW F, NEW a, Good(t, V, k, F, {a}), ~t[a].leaf, Len(t[a].child) = 1,
           NEW p, NEW j, NEW x, Siblings(t, V, p, j, x, a), NEW i, i = j + 1
    PROVE  /\ \A u : Len(t[x].child) - 1 > minimum_keys /\ u = BorrowInnerLeft(t, x, a) =>
                     Mended(t, V, F, u)
           /\ \A u : ~(Len(t[x].child) - 1 > minimum_keys) /\ u = MergeInner(t, x, a, i) =>
                     HandedOn(t, u, V, k, F, p)
  <1>1. Tree(t, V, k, F) /\ Keyed(t, V, F)
    BY DEF Good, Tree
  <1>2. ~t[x].leaf /\ Len(t[x].child) \in 2 .. 4
    BY BesideInner
  <1>3. ASSUME NEW u, Len(t[x].child) - 1 > minimum_keys, u = BorrowInnerLeft(t, x, a)
        PROVE  Mended(t, V, F, u)
    <2>1. Len(t[x].child) \in 3 .. 4
      BY <1>2, <1>3, Counts
    <2> QED BY <1>2, <1>3, <2>1, BorrowInnerLeftOf
  <1>4. ASSUME NEW u, ~(Len(t[x].child) - 1 > minimum_keys), u = MergeInner(t, x, a, i)
        PROVE  HandedOn(t, u, V, k, F, p)
    <2>1. Len(t[x].child) = 2
      BY <1>2, <1>4, Counts
    <2>2. Len(t[x].child) + Len(t[a].child) = 3
      BY <2>1
    <2>3. InnerInto(t, V, F, u, p, j, x, a)
      BY <1>1, <1>2, <1>4, MergeInnerOf
    <2>4. PICK X : X = {a}
      OBVIOUS
    <2>5. InnerMerge(t, V, k, F, X, p, j, x, a, u)
      BY <1>2, <2>2, <2>3, <2>4 DEF InnerMerge
    <2> QED BY <2>5, InnerMergeGood
  <1> QED BY <1>3, <1>4

(* An inner node that is too small, with a right neighbour: it takes a     *)
(* child from it, or takes all.                                            *)
LEMMA SlimRight ==
    ASSUME NEW t, NEW V, NEW k, NEW F, NEW a, Good(t, V, k, F, {a}), ~t[a].leaf, Len(t[a].child) = 1,
           NEW p, NEW j, NEW x, Siblings(t, V, p, j, a, x), NEW i, i = j + 1
    PROVE  /\ \A u : Len(t[x].child) - 1 > minimum_keys /\ u = BorrowInnerRight(t, a, x) =>
                     Mended(t, V, F, u)
           /\ \A u : ~(Len(t[x].child) - 1 > minimum_keys) /\ u = MergeInner(t, a, x, i) =>
                     HandedOn(t, u, V, k, F, p)
  <1>1. Tree(t, V, k, F) /\ Keyed(t, V, F)
    BY DEF Good, Tree
  <1>2. ~t[x].leaf /\ Len(t[x].child) \in 2 .. 4
    BY BesideInner
  <1>3. ASSUME NEW u, Len(t[x].child) - 1 > minimum_keys, u = BorrowInnerRight(t, a, x)
        PROVE  Mended(t, V, F, u)
    <2>1. Len(t[x].child) \in 3 .. 4
      BY <1>2, <1>3, Counts
    <2> QED BY <1>2, <1>3, <2>1, BorrowInnerRightOf
  <1>4. ASSUME NEW u, ~(Len(t[x].child) - 1 > minimum_keys), u = MergeInner(t, a, x, i)
        PROVE  HandedOn(t, u, V, k, F, p)
    <2>1. Len(t[x].child) = 2
      BY <1>2, <1>4, Counts
    <2>2. Len(t[a].child) + Len(t[x].child) = 3
      BY <2>1
    <2>3. InnerInto(t, V, F, u, p, j, a, x)
      BY <1>1, <1>4, MergeInnerOf
    <2>4. PICK X : X = {a}
      OBVIOUS
    <2>5. InnerMerge(t, V, k, F, X, p, j, a, x, u)
      BY <2>2, <2>3, <2>4 DEF InnerMerge
    <2> QED BY <2>5, InnerMergeGood
  <1> QED BY <1>3, <1>4

(* A node other than the root has a neighbour.                             *)
LEMMA NotAlone ==
    ASSUME NEW t, NEW V, NEW k, NEW F, NEW a, Good(t, V, k, F, {a}), NEW p, NEW i,
           Placed(t, V, a, p, i), a \in V, a # root
    PROVE  ~(LeftOf(t, a) = NULL /\ RightOf(t, a) = NULL)
  <1> SUFFICES ASSUME LeftOf(t, a) = NULL, RightOf(t, a) = NULL PROVE FALSE
    OBVIOUS
  <1>1. p \in V /\ ~t[p].leaf /\ i = 1 /\ i = Len(t[p].child) /\ p = t[a].parent
    BY DEF Placed
  <1>2. Tree(t, V, k, F) /\ Sized(t, V, {a})
    BY DEF Good, Tree
  <1>3. p # a
    <2>1. k[a] + 1 = k[p] /\ k[a] \in Nat
      BY <1>1, <1>2, ParentOf
    <2> QED BY <2>1
  <1>4. SizedAt(t, p)
    BY <1>1, <1>2, <1>3 DEF Sized
  <1>5. Len(t[p].child) \in 2 .. 4
    BY <1>1, <1>4 DEF SizedAt, MAX_BPT_NODE_NUM
  <1>6. \A n \in 2 .. 4 : n # 1
    OBVIOUS
  <1> QED BY <1>1, <1>5, <1>6

(* Every call of balance_inner is the last, or leaves at most the next     *)
(* node up too small.                                                      *)
LEMMA SlimNext ==
    ASSUME NEW s, NEW R, NEW all, NEW H, NEW n, Slim(s, R, all, H, n), NEW z, z = Balance(s)
    PROVE  Ended(z, R, all) \/ Slim(z, R, all, H, n + 1)
  <1>1. PICK t, a : t = s.mem /\ a = s.node
    OBVIOUS
  <1>2. PICK V, k, F : /\ Good(t, V, k, F, {a}) /\ F[root] = R /\ (all => V = DOMAIN t)
                       /\ a \in V /\ k[a] = n /\ k[root] = H
                       /\ ~t[a].leaf /\ Len(t[a].child) \in 1 .. 3
    BY <1>1 DEF Slim
  <1>3. Len(t[a].child) \in 1 .. 3
    BY <1>2
  <1>4. Tree(t, V, k, F) /\ Keyed(t, V, F)
    BY <1>2 DEF Good, Tree
  <1>5. a # NULL
    BY <1>2, <1>4, TreeTypes
  <1>6. PICK l, r, p, i : l = LeftOf(t, a) /\ r = RightOf(t, a) /\ p = t[a].parent /\ i = Place(t, a)
    OBVIOUS
  <1>7. ASSUME NEW u, Mended(t, V, F, u), z = Ending(u) PROVE Ended(z, R, all)
    <2>1. Ended(z, F[root], all)
      BY <1>2, <1>7, MendedEnds
    <2> QED BY <1>2, <2>1
  <1>8. CASE a = root
    <2>1. /\ Len(t[root].child) - 1 = 0 => z = Ending(Collapse(t))
          /\ Len(t[root].child) - 1 # 0 => z = Ending(fix_keys(t, root))
      <3>1. s.node # NULL /\ s.node = root
        BY <1>1, <1>5, <1>8
      <3>2. /\ Len(s.mem[root].child) - 1 = 0 => z = Ending(Collapse(s.mem))
            /\ Len(s.mem[root].child) - 1 # 0 => z = Ending(fix_keys(s.mem, root))
        BY <3>1, BalanceRoot
      <3> QED BY <1>1, <3>2
    <2>2. PICK u : /\ z = Ending(u)
                   /\ \/ Len(t[root].child) - 1 = 0 /\ u = Collapse(t)
                      \/ Len(t[root].child) - 1 # 0 /\ u = fix_keys(t, root)
      BY <2>1
    <2>3. Good(t, V, k, F, {root}) /\ ~t[root].leaf /\ Len(t[root].child) \in 1 .. 3
      BY <1>2, <1>8
    <2>4. Mended(t, V, F, u)
      BY <2>2, <2>3, SlimRoot
    <2> QED BY <1>7, <2>2, <2>4
  <1>9. CASE a # root
    <2>1. /\ Len(t[a].child) - 1 >= minimum_keys => z = Ending(fix_up(t, a))
          /\ ~(Len(t[a].child) - 1 >= minimum_keys) =>
                \/ l # NULL /\ Len(t[l].child) - 1 > minimum_keys /\ z = Ending(BorrowInnerLeft(t, l, a))
                \/ r # NULL /\ Len(t[r].child) - 1 > minimum_keys /\ z = Ending(BorrowInnerRight(t, a, r))
                \/ /\ l # NULL /\ ~(Len(t[l].child) - 1 > minimum_keys)
                   /\ z = Going(MergeInner(t, l, a, i), p)
                \/ /\ r # NULL /\ ~(Len(t[r].child) - 1 > minimum_keys)
                   /\ z = Going(MergeInner(t, a, r, i + 1), p)
                \/ l = NULL /\ r = NULL
      <3>1. s.node # NULL /\ s.node # root
        BY <1>1, <1>5, <1>9
      <3>2. t[a].parent # NULL /\ Place(t, a) # 0
        BY <1>2, <1>4, <1>9, PlaceIs
      <3>3. s.mem[s.node].parent # NULL /\ Place(s.mem, s.node) # 0
        BY <1>1, <3>2
      <3>4. Rebalanced(s.mem, s.node, LeftOf(s.mem, s.node), RightOf(s.mem, s.node),
                       s.mem[s.node].parent, Place(s.mem, s.node), z)
        BY <3>1, <3>3, BalanceCases
      <3>5. Rebalanced(t, a, l, r, p, i, z)
        BY <1>1, <1>6, <3>4
      <3> QED BY <3>5 DEF Rebalanced
    <2>2. CASE Len(t[a].child) - 1 >= minimum_keys
      <3>1. PICK u : u = fix_up(t, a)
        OBVIOUS
      <3>2. Mended(t, V, F, u)
        BY <1>2, <1>3, <2>2, <3>1, SlimEnough
      <3> QED BY <1>7, <2>1, <2>2, <3>1, <3>2
    <2>3. CASE ~(Len(t[a].child) - 1 >= minimum_keys)
      <3>1. Len(t[a].child) = 1
        BY <1>3, <2>3, Counts
      <3>2. PICK q, m : Placed(t, V, a, q, m)
        BY <1>2, <1>4, <1>9, PlaceOf
      <3>3. /\ q = p /\ m = i
            /\ l # NULL => Siblings(t, V, p, i - 1, l, a)
            /\ r # NULL => Siblings(t, V, p, i, a, r)
            /\ i \in 1 .. Len(t[p].child)
        BY <1>6, <3>2 DEF Placed
      <3>4. ~(l = NULL /\ r = NULL)
        BY <1>2, <1>6, <1>9, <3>2, NotAlone
      <3>5. k[p] = n + 1
        BY <1>2, <1>4, <1>6, <1>9, ParentOf
      <3>6. ASSUME NEW u, HandedOn(t, u, V, k, F, p), z = Going(u, p) PROVE Slim(z, R, all, H, n + 1)
        <4>1. PICK N : N = n + 1
          OBVIOUS
        <4>2. k[p] = N
          BY <3>5, <4>1
        <4>3. Slim(z, F[root], all, H, N)
          BY <1>2, <3>6, <4>2, HandedGoes
        <4> QED BY <1>2, <4>1, <4>3
      <3>7. i = (i - 1) + 1
        BY <3>3
      <3>8. PICK j : j = i - 1
        OBVIOUS
      <3>9. i = j + 1 /\ (l # NULL => Siblings(t, V, p, j, l, a))
        BY <3>3, <3>7, <3>8
      <3>10. CASE l # NULL /\ Len(t[l].child) - 1 > minimum_keys /\ z = Ending(BorrowInnerLeft(t, l, a))
        <4>1. PICK u : u = BorrowInnerLeft(t, l, a)
          OBVIOUS
        <4>2. Mended(t, V, F, u)
          BY <1>2, <3>1, <3>9, <3>10, <4>1, SlimLeft
        <4> QED BY <1>7, <3>10, <4>1, <4>2
      <3>11. CASE r # NULL /\ Len(t[r].child) - 1 > minimum_keys /\ z = Ending(BorrowInnerRight(t, a, r))
        <4>1. PICK u, o : u = BorrowInnerRight(t, a, r) /\ o = i + 1
          OBVIOUS
        <4>2. Siblings(t, V, p, i, a, r)
          BY <3>3, <3>11
        <4>3. Mended(t, V, F, u)
          BY <1>2, <3>1, <3>11, <4>1, <4>2, SlimRight
        <4> QED BY <1>7, <3>11, <4>1, <4>3
      <3>12. CASE /\ l # NULL /\ ~(Len(t[l].child) - 1 > minimum_keys)
                  /\ z = Going(MergeInner(t, l, a, i), p)
        <4>1. PICK u : u = MergeInner(t, l, a, i)
          OBVIOUS
        <4>2. HandedOn(t, u, V, k, F, p)
          BY <1>2, <3>1, <3>9, <3>12, <4>1, SlimLeft
        <4> QED BY <3>6, <3>12, <4>1, <4>2
      <3>13. CASE /\ r # NULL /\ ~(Len(t[r].child) - 1 > minimum_keys)
                  /\ z = Going(MergeInner(t, a, r, i + 1), p)
        <4>1. PICK o : o = i + 1
          OBVIOUS
        <4>2. PICK u : u = MergeInner(t, a, r, o)
          OBVIOUS
        <4>3. Siblings(t, V, p, i, a, r)
          BY <3>3, <3>13
        <4>4. HandedOn(t, u, V, k, F, p)
          BY <1>2, <3>1, <3>13, <4>1, <4>2, <4>3, SlimRight
        <4> QED BY <3>6, <3>13, <4>1, <4>2, <4>4
      <3> QED BY <2>1, <2>3, <3>4, <3>10, <3>11, <3>12, <3>13
    <2> QED BY <2>2, <2>3
  <1> QED BY <1>8, <1>9

-----------------------------------------------------------------------------
(***************************************************************************)
(* Deletion: all calls of balance_inner, balance_leaf and bpt_delete.      *)
(***************************************************************************)

(* The calls of balance_inner, one after the other.                        *)
Balancing(g, s, n) == g = [m \in 0 .. n |-> IF m = 0 THEN s ELSE Balance(g[m - 1])]

(* The calls of balance_inner, as a function of their number.              *)
LEMMA BalancingThere ==
    ASSUME NEW s, NEW n \in Nat
    PROVE  \E g : Balancing(g, s, n)
  <1> DEFINE T == {i \in Nat : \E g : g = [m \in 0 .. i |->
                                              IF m = 0 THEN s ELSE Balance(g[m - 1])]}
  <1>1. 0 \in T
    <2> DEFINE g == [m \in 0 .. 0 |-> s]
    <2>1. g = [m \in 0 .. 0 |-> IF m = 0 THEN s ELSE Balance(g[m - 1])]
      OBVIOUS
    <2> QED BY <2>1
  <1>2. ASSUME NEW i \in Nat, i \in T PROVE i + 1 \in T
    <2>1. PICK g : g = [m \in 0 .. i |-> IF m = 0 THEN s ELSE Balance(g[m - 1])]
      BY <1>2
    <2> DEFINE k == [m \in 0 .. i + 1 |-> IF m = 0 THEN s ELSE Balance(g[m - 1])]
    <2>2. \A m \in 0 .. i : k[m] = g[m]
      BY <2>1
    <2>3. \A m \in 0 .. i + 1 : m = 0 \/ m - 1 \in 0 .. i
      OBVIOUS
    <2>4. \A m \in 0 .. i + 1 : k[m] = (IF m = 0 THEN s ELSE Balance(k[m - 1]))
      BY <2>2, <2>3
    <2>5. k = [m \in 0 .. i + 1 |-> IF m = 0 THEN s ELSE Balance(k[m - 1])]
      <3> DEFINE l == [m \in 0 .. i + 1 |-> IF m = 0 THEN s ELSE Balance(k[m - 1])]
      <3>1. \A m \in 0 .. i + 1 : l[m] = k[m]
        BY <2>4
      <3>2. DOMAIN l = 0 .. i + 1 /\ DOMAIN k = 0 .. i + 1
        OBVIOUS
      <3> QED BY <3>1, <3>2
    <2>6. \E l : l = [m \in 0 .. i + 1 |-> IF m = 0 THEN s ELSE Balance(l[m - 1])]
      <3> HIDE DEF k
      <3> QED BY <2>5, Zenon
    <2>7. i + 1 \in Nat
      OBVIOUS
    <2> QED BY <2>6, <2>7, Zenon
  <1>3. n \in T
    <2> HIDE DEF T
    <2> QED BY <1>1, <1>2, SetInduction
  <1> QED BY <1>3, Zenon DEF Balancing

(* balance_inner is the last of these calls.                               *)
LEMMA BalancingRun ==
    ASSUME NEW t, NEW a, Rounds(t) \in Nat, NEW z, z = balance_inner(t, a)
    PROVE  \E g : /\ g[0] = Going(t, a)
                  /\ \A m \in 1 .. Rounds(t) : g[m] = Balance(g[m - 1])
                  /\ g[Rounds(t)].mem = z
  <1> DEFINE s == [mem |-> t, node |-> a]
             n == Rounds(t)
             g == CHOOSE g : g = [m \in 0 .. n |-> IF m = 0 THEN s ELSE Balance(g[m - 1])]
  <1>1. g = [m \in 0 .. n |-> IF m = 0 THEN s ELSE Balance(g[m - 1])]
    <2>1. \E k : Balancing(k, s, n)
      BY BalancingThere
    <2>2. \E k : k = [m \in 0 .. n |-> IF m = 0 THEN s ELSE Balance(k[m - 1])]
      BY <2>1, Zenon DEF Balancing
    <2> QED BY <2>2, Zenon
  <1>2. g[n].mem = z
    BY Zenon DEF balance_inner
  <1> HIDE DEF g
  <1>3. \A m \in 0 .. n : g[m] = (IF m = 0 THEN s ELSE Balance(g[m - 1]))
    BY <1>1
  <1>4. 0 \in 0 .. n /\ 1 .. n \subseteq 0 .. n /\ 0 \notin 1 .. n
    OBVIOUS
  <1>5. g[0] = s /\ \A m \in 1 .. n : g[m] = Balance(g[m - 1])
    BY <1>3, <1>4
  <1>6. s = Going(t, a)
    BY DEF Going
  <1> QED BY <1>2, <1>5, <1>6

(* The last of them leaves the tree in order.                              *)
InOrder(t, R, all) == \E V, k, F : Good(t, V, k, F, {}) /\ F[root] = R /\ (all => V = DOMAIN t)

(* balance_inner leaves all of the invariant, and the entries as they      *)
(* were.                                                                   *)
LEMMA BalanceDone ==
    ASSUME NEW t, NEW a, NEW R, NEW all, NEW H,
           NEW s, s = Going(t, a), Slim(s, R, all, H, 1),
           NEW z, z = balance_inner(t, a)
    PROVE  InOrder(z, R, all)
  <1>1. H < Rounds(t) /\ H \in Nat /\ Rounds(t) \in Nat
    <2>1. s.mem = t
      BY GoingIs
    <2> QED BY <2>1, SlimLow
  <1>2. PICK g : /\ g[0] = Going(t, a)
                 /\ \A m \in 1 .. Rounds(t) : g[m] = Balance(g[m - 1])
                 /\ g[Rounds(t)].mem = z
    BY <1>1, BalancingRun
  <1>3. PICK N \in Nat : N = Rounds(t)
    BY <1>1
  <1> DEFINE Q == {m \in Nat : m <= N => Ended(g[m], R, all) \/ Slim(g[m], R, all, H, m + 1)}
  <1>4. 0 \in Q
    <2>1. g[0] = s /\ 0 + 1 = 1
      BY <1>2
    <2>2. Slim(g[0], R, all, H, 0 + 1)
      BY <2>1
    <2> QED BY <2>2
  <1>5. ASSUME NEW m \in Nat, m \in Q PROVE m + 1 \in Q
    <2> SUFFICES ASSUME m + 1 <= N
                 PROVE  Ended(g[m + 1], R, all) \/ Slim(g[m + 1], R, all, H, (m + 1) + 1)
      OBVIOUS
    <2>1. m + 1 \in 1 .. N /\ (m + 1) - 1 = m /\ m <= N
      OBVIOUS
    <2>2. PICK b, c : b = g[m] /\ c = g[m + 1]
      OBVIOUS
    <2>3. c = Balance(b)
      BY <1>2, <1>3, <2>1, <2>2
    <2>4. PICK n : n = m + 1
      OBVIOUS
    <2>5. Ended(b, R, all) \/ Slim(b, R, all, H, n)
      BY <1>5, <2>1, <2>2, <2>4
    <2>6. CASE Ended(b, R, all)
      <3>1. b.node = NULL
        BY <2>6 DEF Ended
      <3>2. c = b
        BY <2>3, <3>1, Zenon DEF Balance
      <3> QED BY <2>2, <2>6, <3>2
    <2>7. CASE Slim(b, R, all, H, n)
      <3>1. Ended(c, R, all) \/ Slim(c, R, all, H, n + 1)
        BY <2>3, <2>7, SlimNext
      <3> QED BY <2>2, <2>4, <3>1
    <2> QED BY <2>5, <2>6, <2>7
  <1>6. N \in Q
    <2> HIDE DEF Q
    <2> QED BY <1>4, <1>5, SetInduction
  <1>7. PICK b : b = g[N]
    OBVIOUS
  <1>8. Ended(b, R, all) \/ Slim(b, R, all, H, N + 1)
    BY <1>6, <1>7
  <1>9. ASSUME Slim(b, R, all, H, N + 1) PROVE FALSE
    <2>1. N + 1 <= H
      BY <1>9, SlimLow
    <2> QED BY <1>1, <1>3, <2>1
  <1>10. Ended(b, R, all) /\ b.mem = z
    BY <1>2, <1>3, <1>7, <1>8, <1>9
  <1>11. PICK V, k, F : Good(b.mem, V, k, F, {}) /\ F[root] = R /\ (all => V = DOMAIN b.mem)
    BY <1>10 DEF Ended
  <1> QED BY <1>10, <1>11 DEF InOrder

(* The cases of balance_leaf for a leaf other than the root.               *)
Releafed(t, a, l, r, p, i, z) ==
    /\ Len(t[a].item) >= minimum_items => z = fix_up(t, p)
    /\ ~(Len(t[a].item) >= minimum_items) =>
          \/ l # NULL /\ Len(t[l].item) > minimum_items /\ z = BorrowLeafLeft(t, l, a)
          \/ r # NULL /\ Len(t[r].item) > minimum_items /\ z = BorrowLeafRight(t, a, r)
          \/ /\ l # NULL /\ ~(Len(t[l].item) > minimum_items)
             /\ z = balance_inner(MergeLeaf(t, l, a, i), p)
          \/ /\ r # NULL /\ ~(Len(t[r].item) > minimum_items)
             /\ z = balance_inner(MergeLeaf(t, a, r, i + 1), p)
          \/ l = NULL /\ r = NULL

(* What balance_leaf does with a leaf that is not the root.                *)
LEMMA LeafCases ==
    ASSUME NEW t, NEW a, a # root, t[a].parent # NULL, Place(t, a) # 0,
           NEW z, z = balance_leaf(t, a)
    PROVE  Releafed(t, a, LeftOf(t, a), RightOf(t, a), t[a].parent, Place(t, a), z)
  BY Zenon DEF balance_leaf, Releafed

(* A leaf that may have too few entries, in a tree otherwise in order.     *)
Lean(t, V, k, F, a) ==
    /\ Good(t, V, k, F, {a}) /\ a \in V /\ t[a].leaf /\ k[a] = 0
    /\ Len(t[a].item) \in 0 .. 2 /\ (a # root => Len(t[a].item) \in 1 .. 2)

(* A heap in order, whatever its tree.                                     *)
LEMMA MendedInOrder ==
    ASSUME NEW t, NEW T, NEW E, NEW u, Mended(t, T, E, u), NEW all, all => T = DOMAIN t
    PROVE  InOrder(u, E[root], all)
  BY DEF Mended, InOrder

(* The number of entries of a leaf and its minimum.                        *)
LEMMA LeafCounts ==
    /\ \A n \in 0 .. 2 : n < 4
    /\ \A n \in 1 .. 2 : /\ n >= minimum_items => n >= 2 /\ n < 4
                         /\ ~(n >= minimum_items) => n = 1
    /\ \A n \in Nat : n < 4 /\ n >= 2 => /\ n > minimum_items => n = 3
                                         /\ ~(n > minimum_items) => n = 2
  BY Counts

(* The neighbour of a leaf is a leaf, with two or three entries.           *)
LEMMA BesideLeaf ==
    ASSUME NEW t, NEW V, NEW k, NEW F, NEW a, Good(t, V, k, F, {a}), t[a].leaf,
           NEW p, NEW j, NEW x, Siblings(t, V, p, j, x, a) \/ Siblings(t, V, p, j, a, x)
    PROVE  /\ t[x].leaf /\ (Len(t[x].item) > minimum_items => Len(t[x].item) = 3)
           /\ ~(Len(t[x].item) > minimum_items) => Len(t[x].item) = 2
  <1>1. Tree(t, V, k, F) /\ Sized(t, V, {a}) /\ Heap(t)
    BY DEF Good, Tree
  <1>2. x \in V /\ x # a /\ x # root /\ t[x].leaf
    BY <1>1, SiblingsAre
  <1>3. SizedAt(t, x)
    BY <1>1, <1>2 DEF Sized
  <1>4. Len(t[x].item) < 4 /\ Len(t[x].item) >= 2
    BY <1>2, <1>3 DEF SizedAt, MAX_BPT_NODE_NUM
  <1>5. Len(t[x].item) \in Nat
    <2>1. x \in DOMAIN t
      BY <1>1, <1>2, TreeTypes
    <2>2. t[x].item \in Seq(Entry)
      BY <1>1, <2>1, NodeTypes
    <2> QED BY <2>2
  <1> QED BY <1>2, <1>4, <1>5, LeafCounts

(* With one entry: what comes of a and its left neighbour, or its right    *)
(* one.                                                                    *)
LEMMA LeanLeft ==
    ASSUME NEW t, NEW V, NEW k, NEW F, NEW a, Good(t, V, k, F, {a}), t[a].leaf, Len(t[a].item) = 1,
           NEW p, NEW j, NEW x, Siblings(t, V, p, j, x, a), NEW i, i = j + 1
    PROVE  /\ \A u : Len(t[x].item) > minimum_items /\ u = BorrowLeafLeft(t, x, a) =>
                     Mended(t, V, F, u)
           /\ \A u : ~(Len(t[x].item) > minimum_items) /\ u = MergeLeaf(t, x, a, i) =>
                     HandedOn(t, u, V, k, F, p)
  <1>1. Tree(t, V, k, F) /\ Keyed(t, V, F)
    BY DEF Good, Tree
  <1>2. /\ t[x].leaf /\ (Len(t[x].item) > minimum_items => Len(t[x].item) = 3)
        /\ ~(Len(t[x].item) > minimum_items) => Len(t[x].item) = 2
    BY BesideLeaf
  <1>3. ASSUME NEW u, Len(t[x].item) > minimum_items, u = BorrowLeafLeft(t, x, a)
        PROVE  Mended(t, V, F, u)
    <2>1. Len(t[x].item) = 3
      BY <1>2, <1>3
    <2> QED BY <1>2, <1>3, <2>1, BorrowLeafLeftOf
  <1>4. ASSUME NEW u, ~(Len(t[x].item) > minimum_items), u = MergeLeaf(t, x, a, i)
        PROVE  HandedOn(t, u, V, k, F, p)
    <2>1. Len(t[x].item) = 2
      BY <1>2, <1>4
    <2>2. Len(t[x].item) + Len(t[a].item) = 3
      BY <2>1
    <2>3. LeafInto(t, u, p, j, x, a)
      BY <1>1, <1>4, MergeLeafOf
    <2>4. PICK X : X = {a}
      OBVIOUS
    <2>5. LeafMerge(t, V, k, F, X, p, j, x, a, u)
      BY <1>2, <2>2, <2>3, <2>4 DEF LeafMerge
    <2> QED BY <2>5, LeafMergeGood
  <1> QED BY <1>3, <1>4

(* A leaf that is too small, with a right neighbour: it takes an entry     *)
(* from it, or takes all.                                                  *)
LEMMA LeanRight ==
    ASSUME NEW t, NEW V, NEW k, NEW F, NEW a, Good(t, V, k, F, {a}), t[a].leaf, Len(t[a].item) = 1,
           NEW p, NEW j, NEW x, Siblings(t, V, p, j, a, x), NEW i, i = j + 1
    PROVE  /\ \A u : Len(t[x].item) > minimum_items /\ u = BorrowLeafRight(t, a, x) =>
                     Mended(t, V, F, u)
           /\ \A u : ~(Len(t[x].item) > minimum_items) /\ u = MergeLeaf(t, a, x, i) =>
                     HandedOn(t, u, V, k, F, p)
  <1>1. Tree(t, V, k, F) /\ Keyed(t, V, F)
    BY DEF Good, Tree
  <1>2. /\ t[x].leaf /\ (Len(t[x].item) > minimum_items => Len(t[x].item) = 3)
        /\ ~(Len(t[x].item) > minimum_items) => Len(t[x].item) = 2
    BY BesideLeaf
  <1>3. ASSUME NEW u, Len(t[x].item) > minimum_items, u = BorrowLeafRight(t, a, x)
        PROVE  Mended(t, V, F, u)
    <2>1. Len(t[x].item) = 3
      BY <1>2, <1>3
    <2> QED BY <1>3, <2>1, BorrowLeafRightOf
  <1>4. ASSUME NEW u, ~(Len(t[x].item) > minimum_items), u = MergeLeaf(t, a, x, i)
        PROVE  HandedOn(t, u, V, k, F, p)
    <2>1. Len(t[x].item) = 2
      BY <1>2, <1>4
    <2>2. Len(t[a].item) + Len(t[x].item) = 3
      BY <2>1
    <2>3. LeafInto(t, u, p, j, a, x)
      BY <1>1, <1>4, MergeLeafOf
    <2>4. PICK X : X = {a}
      OBVIOUS
    <2>5. LeafMerge(t, V, k, F, X, p, j, a, x, u)
      BY <2>2, <2>3, <2>4 DEF LeafMerge
    <2> QED BY <2>5, LeafMergeGood
  <1> QED BY <1>3, <1>4

(* A leaf has been merged with another: what balance_inner makes of it.    *)
LEMMA MergedInOrder ==
    ASSUME NEW t, NEW T, NEW h, NEW E, NEW u, NEW p, HandedOn(t, u, T, h, E, p), h[p] = 1,
           NEW all, all => T = DOMAIN t, NEW z, z = balance_inner(u, p)
    PROVE  InOrder(z, E[root], all)
  <1>1. PICK H, n : h[root] = H /\ n = 1
    OBVIOUS
  <1>2. PICK s : s = Going(u, p)
    OBVIOUS
  <1>3. h[p] = n
    BY <1>1
  <1>4. Slim(s, E[root], all, H, n)
    BY <1>1, <1>2, <1>3, HandedGoes
  <1>5. Slim(s, E[root], all, H, 1)
    BY <1>1, <1>4
  <1>6. PICK R : R = E[root]
    OBVIOUS
  <1>7. Slim(s, R, all, H, 1)
    BY <1>5, <1>6
  <1>8. InOrder(z, R, all)
    BY <1>2, <1>7, BalanceDone
  <1> QED BY <1>6, <1>8

(* balance_leaf leaves all of the invariant, and the entries as they were. *)
LEMMA BalanceLeafOf ==
    ASSUME NEW t, NEW V, NEW k, NEW F, NEW a, Lean(t, V, k, F, a),
           NEW all, all => V = DOMAIN t, NEW z, z = balance_leaf(t, a)
    PROVE  InOrder(z, F[root], all)
  <1>1. Good(t, V, k, F, {a}) /\ a \in V /\ t[a].leaf /\ k[a] = 0
    BY DEF Lean
  <1>2. Len(t[a].item) \in 0 .. 2 /\ (a # root => Len(t[a].item) \in 1 .. 2)
    BY DEF Lean
  <1>3. Tree(t, V, k, F) /\ Sized(t, V, {a})
    BY <1>1 DEF Good, Tree
  <1>4. CASE a = root
    <2>1. Len(t[a].item) < 4
      BY <1>2, LeafCounts
    <2>2. SizedAt(t, a)
      BY <1>1, <1>4, <2>1 DEF SizedAt, MAX_BPT_NODE_NUM
    <2>3. Sized(t, V, {})
      BY <1>3, <2>2 DEF Sized
    <2>4. Good(t, V, k, F, {})
      BY <1>1, <2>3 DEF Good
    <2>5. z = t
      BY <1>4, Zenon DEF balance_leaf
    <2> QED BY <2>4, <2>5 DEF InOrder
  <1>5. CASE a # root
    <2>1. PICK l, r, p, i : l = LeftOf(t, a) /\ r = RightOf(t, a) /\ p = t[a].parent /\ i = Place(t, a)
      OBVIOUS
    <2>2. Releafed(t, a, l, r, p, i, z)
      <3>1. t[a].parent # NULL /\ Place(t, a) # 0
        BY <1>1, <1>3, <1>5, PlaceIs
      <3>2. Releafed(t, a, LeftOf(t, a), RightOf(t, a), t[a].parent, Place(t, a), z)
        BY <1>5, <3>1, LeafCases
      <3> QED BY <2>1, <3>2
    <2>3. PICK n : n = Len(t[a].item)
      OBVIOUS
    <2>4. n \in 1 .. 2
      BY <1>2, <1>5, <2>3
    <2>5. p \in V /\ k[p] = 1
      BY <1>1, <1>3, <1>5, <2>1, ParentOf
    <2>6. CASE n >= minimum_items
      <3>1. n >= 2 /\ n < 4
        BY <2>4, <2>6, LeafCounts
      <3>2. SizedAt(t, a)
        BY <1>1, <2>3, <3>1 DEF SizedAt, MAX_BPT_NODE_NUM
      <3>3. Sized(t, V, {})
        BY <1>3, <3>2 DEF Sized
      <3>4. z = fix_up(t, p)
        BY <2>2, <2>3, <2>6 DEF Releafed
      <3>5. Mended(t, V, F, z)
        BY <1>1, <2>5, <3>3, <3>4, UpOf
      <3> QED BY <3>5, MendedInOrder
    <2>7. CASE ~(n >= minimum_items)
      <3>1. Len(t[a].item) = 1
        BY <2>3, <2>4, <2>7, LeafCounts
      <3>2. PICK q, m : Placed(t, V, a, q, m)
        BY <1>1, <1>3, <1>5, PlaceOf
      <3>3. /\ q = p /\ m = i
            /\ l # NULL => Siblings(t, V, p, i - 1, l, a)
            /\ r # NULL => Siblings(t, V, p, i, a, r)
            /\ i \in 1 .. Len(t[p].child)
        BY <2>1, <3>2 DEF Placed
      <3>4. ~(l = NULL /\ r = NULL)
        BY <1>1, <1>5, <2>1, <3>2, NotAlone
      <3>5. i = (i - 1) + 1
        BY <3>3
      <3>6. PICK j : j = i - 1
        OBVIOUS
      <3>7. i = j + 1 /\ (l # NULL => Siblings(t, V, p, j, l, a))
        BY <3>3, <3>5, <3>6
      <3>8. PICK o : o = i + 1
        OBVIOUS
      <3>9. CASE l # NULL /\ Len(t[l].item) > minimum_items /\ z = BorrowLeafLeft(t, l, a)
        <4>1. Mended(t, V, F, z)
          BY <1>1, <3>1, <3>7, <3>9, LeanLeft
        <4> QED BY <4>1, MendedInOrder
      <3>10. CASE r # NULL /\ Len(t[r].item) > minimum_items /\ z = BorrowLeafRight(t, a, r)
        <4>1. Siblings(t, V, p, i, a, r)
          BY <3>3, <3>10
        <4>2. Mended(t, V, F, z)
          BY <1>1, <3>1, <3>8, <3>10, <4>1, LeanRight
        <4> QED BY <4>2, MendedInOrder
      <3>11. CASE /\ l # NULL /\ ~(Len(t[l].item) > minimum_items)
                  /\ z = balance_inner(MergeLeaf(t, l, a, i), p)
        <4>1. PICK u : u = MergeLeaf(t, l, a, i)
          OBVIOUS
        <4>2. HandedOn(t, u, V, k, F, p)
          BY <1>1, <3>1, <3>7, <3>11, <4>1, LeanLeft
        <4>3. z = balance_inner(u, p)
          BY <3>11, <4>1
        <4> QED BY <2>5, <4>2, <4>3, MergedInOrder
      <3>12. CASE /\ r # NULL /\ ~(Len(t[r].item) > minimum_items)
                  /\ z = balance_inner(MergeLeaf(t, a, r, i + 1), p)
        <4>1. Siblings(t, V, p, i, a, r)
          BY <3>3, <3>12
        <4>2. PICK u : u = MergeLeaf(t, a, r, o)
          OBVIOUS
        <4>3. HandedOn(t, u, V, k, F, p)
          BY <1>1, <3>1, <3>8, <3>12, <4>1, <4>2, LeanRight
        <4>4. z = balance_inner(u, p)
          BY <3>8, <3>12, <4>2
        <4> QED BY <2>5, <4>3, <4>4, MergedInOrder
      <3>13. \/ l # NULL /\ Len(t[l].item) > minimum_items /\ z = BorrowLeafLeft(t, l, a)
             \/ r # NULL /\ Len(t[r].item) > minimum_items /\ z = BorrowLeafRight(t, a, r)
             \/ /\ l # NULL /\ ~(Len(t[l].item) > minimum_items)
                /\ z = balance_inner(MergeLeaf(t, l, a, i), p)
             \/ /\ r # NULL /\ ~(Len(t[r].item) > minimum_items)
                /\ z = balance_inner(MergeLeaf(t, a, r, i + 1), p)
             \/ l = NULL /\ r = NULL
        BY <2>2, <2>3, <2>7 DEF Releafed
      <3> QED BY <3>4, <3>9, <3>10, <3>11, <3>12, <3>13
    <2> QED BY <2>6, <2>7
  <1> QED BY <1>4, <1>5

(* What a deletion leaves and returns.                                     *)
Smaller(t, T, E, n, r) ==
    /\ r.ret \in {0, 1}
    /\ r.ret = 1 => /\ InOrder(r.mem, {x \in E[root] : ~Matches(n, x)}, T = DOMAIN t)
                    /\ \E x \in E[root] : Matches(n, x)
    /\ r.ret = 0 => r.mem = t /\ \A x \in E[root] : ~Matches(n, x)

(* How a deletion goes.                                                    *)
Deleting(t, n, leaf, old, position, s, V, r) ==
    /\ leaf = search_leaf(t, n.fnv) /\ old = t[leaf].item
    /\ position = SelectInSeq(old, LAMBDA e : Matches(n, e))
    /\ s = RemoveAt(old, position) /\ V = WithItems(t, leaf, s)
    /\ position = 0 => r = Result(t, 0)
    /\ position # 0 => r = Result(balance_leaf(V, leaf), 1)

(* bpt_delete, step by step.                                               *)
LEMMA DeleteIs ==
    ASSUME NEW t, NEW n, NEW r, r = bpt_delete(t, n)
    PROVE  \E leaf, old, position, s, V : Deleting(t, n, leaf, old, position, s, V, r)
  <1>1. PICK leaf, old, position, s, V :
           /\ leaf = search_leaf(t, n.fnv) /\ old = t[leaf].item
           /\ position = SelectInSeq(old, LAMBDA e : Matches(n, e))
           /\ s = RemoveAt(old, position) /\ V = WithItems(t, leaf, s)
    OBVIOUS
  <1>2. /\ position = 0 => r = Result(t, 0)
        /\ position # 0 => r = Result(balance_leaf(V, leaf), 1)
    BY <1>1, Zenon DEF bpt_delete, WithItems
  <1> QED BY <1>1, <1>2, Zenon DEF Deleting

(* bpt_delete of any name leaves the invariant, and the store's entries.   *)
LEMMA DeleteOf ==
    ASSUME NEW t, NEW T, NEW h, NEW E, Good(t, T, h, E, {}), NEW n \in Names,
           NEW r, r = bpt_delete(t, n)
    PROVE  Smaller(t, T, E, n, r)
  <1>1. PICK leaf, old, position, s, V : Deleting(t, n, leaf, old, position, s, V, r)
    BY DeleteIs
  <1>2. /\ leaf = search_leaf(t, n.fnv) /\ old = t[leaf].item
        /\ position = SelectInSeq(old, LAMBDA e : Matches(n, e))
        /\ s = RemoveAt(old, position) /\ V = WithItems(t, leaf, s)
    BY <1>1, Zenon DEF Deleting
  <1>3. /\ position = 0 => r = Result(t, 0)
        /\ position # 0 => r = Result(balance_leaf(V, leaf), 1)
    BY <1>1, Zenon DEF Deleting
  <1>4. Sought(t, T, h, E, n, leaf, old, position)
    BY <1>2, Zenon DEF Sought
  <1>5. CASE position = 0
    <2>1. Met(t, T, h, E, n, leaf, old, position)
      BY <1>4, SoughtMet
    <2>2. \A x \in E[root] : ~Matches(n, x)
      BY <1>5, <2>1 DEF Met
    <2>3. r.mem = t /\ r.ret = 0
      BY <1>3, <1>5, ResultIs
    <2> QED BY <2>2, <2>3 DEF Smaller
  <1>6. CASE position # 0
    <2>1. Emptying(t, T, h, E, n, leaf, old, position, s, V)
      BY <1>2, <1>4, <1>6, Zenon DEF Emptying
    <2>2. PICK F : Emptier(t, T, h, E, n, leaf, s, V, F)
      BY <2>1, EmptyingGood
    <2>3. /\ Good(V, T, h, F, {leaf}) /\ F[root] = {x \in E[root] : ~Matches(n, x)}
          /\ leaf \in T /\ V[leaf].leaf /\ h[leaf] = 0 /\ DOMAIN V = DOMAIN t
          /\ V[leaf].item = s
          /\ \E x \in E[root] : Matches(n, x)
      BY <2>2 DEF Emptier
    <2>4. Len(s) \in 0 .. 2 /\ (leaf # root => Len(s) \in 1 .. 2)
      BY <2>2 DEF Emptier
    <2>5. Lean(V, T, h, F, leaf)
      BY <2>3, <2>4 DEF Lean
    <2>6. PICK z : z = balance_leaf(V, leaf)
      OBVIOUS
    <2>7. PICK all : all = (T = DOMAIN t)
      OBVIOUS
    <2>8. all => T = DOMAIN V
      BY <2>3, <2>7
    <2>9. InOrder(z, F[root], all)
      BY <2>5, <2>6, <2>8, BalanceLeafOf
    <2>10. r.mem = z /\ r.ret = 1
      BY <1>3, <1>6, <2>6, ResultIs
    <2> QED BY <2>3, <2>7, <2>9, <2>10 DEF Smaller
  <1> QED BY <1>5, <1>6
-----------------------------------------------------------------------------
(* What one step does, as the invariant needs it and as the store's        *)
(* specification does.                                                     *)
LEMMA InsertType ==
    ASSUME IInv, NEW n \in Names, NEW v \in Values, Insert(n, v)
    PROVE  IInv' /\ (ret' = 1 \/ Available(mem') # {} => Store!Insert(n, v))
  <1>1. PICK T, h, E : Good(mem, T, h, E, {}) /\ (~cut_short => T = DOMAIN mem)
    BY DEF IInv
  <1>2. PICK r : r = bpt_insert(mem, n, v)
    OBVIOUS
  <1>3. /\ mem' = r.mem /\ ret' = r.ret
        /\ cut_short' = (cut_short \/ (r.ret = 0 /\ r.mem # mem))
    BY <1>2 DEF Insert, Returns
  <1>4. PICK t : t = mem
    OBVIOUS
  <1>5. Good(t, T, h, E, {}) /\ r = bpt_insert(t, n, v)
    BY <1>1, <1>2, <1>4
  <1>6. Bigger(t, T, E, n, v, r)
    BY <1>5, InsertOf
  <1>7. r.ret \in {0, 1}
    BY <1>6 DEF Bigger
  <1>8. PICK V, k, F : /\ Good(r.mem, V, k, F, {})
                       /\ r.ret = 1 => /\ F[root] = E[root] \cup {Item(n, v)}
                                       /\ T = DOMAIN t => V = DOMAIN r.mem
    BY <1>6 DEF Bigger
  <1>9. /\ r.ret = 1 => \A e \in E[root] : e.fnv # n.fnv
        /\ r.ret = 0 => \/ r.mem = t /\ \E e \in E[root] : e.fnv = n.fnv
                        \/ Available(r.mem) = {}
    BY <1>6 DEF Bigger
  <1>10. Entries(mem) = E[root]
    <2>1. Tree(mem, T, h, E)
      BY <1>1 DEF Good, Tree
    <2> QED BY <2>1, InTreeOf
  <1>11. Entries(r.mem) = F[root]
    <2>1. Tree(r.mem, V, k, F)
      BY <1>8 DEF Good, Tree
    <2> QED BY <2>1, InTreeOf
  <1>12. cut_short \in BOOLEAN /\ cut_short' \in BOOLEAN
    BY <1>3 DEF IInv
  <1>13. IInv'
    <2>1. CASE r.mem = mem
      <3>1. ~cut_short' => T = DOMAIN mem'
        BY <1>1, <1>3, <1>12, <2>1
      <3> QED BY <1>1, <1>3, <1>7, <1>12, <2>1, <3>1 DEF IInv
    <2>2. CASE r.mem # mem
      <3>1. ~cut_short' => V = DOMAIN mem'
        BY <1>1, <1>3, <1>4, <1>7, <1>8, <1>12, <2>2
      <3> QED BY <1>3, <1>7, <1>8, <1>12, <3>1 DEF IInv
    <2> QED BY <2>1, <2>2
  <1>14. Entries(mem)' = Entries(r.mem)
    BY <1>3
  <1>15. ASSUME ret' = 1 \/ Available(mem') # {} PROVE Store!Insert(n, v)
    <2>1. CASE r.ret = 1
      <3>1. \A e \in Entries(mem) : e.fnv # n.fnv
        BY <1>9, <1>10, <2>1
      <3>2. Entries(mem)' = Entries(mem) \cup {[fnv |-> n.fnv, djb |-> n.djb, data |-> v]}
        BY <1>8, <1>10, <1>11, <1>14, <2>1 DEF Item
      <3>3. Store!SameFnv(n) = {}
        BY <3>1 DEF Store!SameFnv
      <3> QED BY <1>3, <2>1, <3>2, <3>3 DEF Store!Insert
    <2>2. CASE r.ret = 0
      <3>1. r.mem = mem /\ \E e \in Entries(mem) : e.fnv = n.fnv
        BY <1>3, <1>4, <1>9, <1>10, <1>15, <2>2
      <3>2. Entries(mem)' = Entries(mem)
        BY <1>14, <3>1
      <3>3. Store!SameFnv(n) # {}
        BY <3>1 DEF Store!SameFnv
      <3> QED BY <1>3, <2>2, <3>2, <3>3 DEF Store!Insert
    <2> QED BY <1>7, <2>1, <2>2
  <1> QED BY <1>13, <1>15

(* A deletion keeps the invariant, and is one of the store.                *)
LEMMA DeleteType ==
    ASSUME IInv, NEW n \in Names, Delete(n)
    PROVE  IInv' /\ Store!Delete(n)
  <1>1. PICK T, h, E : Good(mem, T, h, E, {}) /\ (~cut_short => T = DOMAIN mem)
    BY DEF IInv
  <1>2. PICK r : r = bpt_delete(mem, n)
    OBVIOUS
  <1>3. /\ mem' = r.mem /\ ret' = r.ret
        /\ cut_short' = (cut_short \/ (r.ret = 0 /\ r.mem # mem))
    BY <1>2 DEF Delete, Returns
  <1>4. PICK t : t = mem
    OBVIOUS
  <1>5. Good(t, T, h, E, {}) /\ r = bpt_delete(t, n)
    BY <1>1, <1>2, <1>4
  <1>6. Smaller(t, T, E, n, r)
    BY <1>5, DeleteOf
  <1>7. /\ r.ret \in {0, 1}
        /\ r.ret = 1 => /\ InOrder(r.mem, {x \in E[root] : ~Matches(n, x)}, T = DOMAIN t)
                        /\ \E x \in E[root] : Matches(n, x)
        /\ r.ret = 0 => r.mem = t /\ \A x \in E[root] : ~Matches(n, x)
    BY <1>6 DEF Smaller
  <1>8. Entries(mem) = E[root]
    <2>1. Tree(mem, T, h, E)
      BY <1>1 DEF Good, Tree
    <2> QED BY <2>1, InTreeOf
  <1>9. cut_short \in BOOLEAN /\ cut_short' \in BOOLEAN
    BY <1>3 DEF IInv
  <1>10. CASE r.ret = 0
    <2>1. r.mem = mem /\ \A x \in Entries(mem) : ~Matches(n, x)
      BY <1>4, <1>7, <1>8, <1>10
    <2>2. IInv'
      <3>1. ~cut_short' => T = DOMAIN mem'
        BY <1>1, <1>3, <1>9, <2>1
      <3> QED BY <1>1, <1>3, <1>7, <1>9, <2>1, <3>1 DEF IInv
    <2>3. Entries(mem)' = Entries(mem)
      BY <1>3, <2>1
    <2>4. Store!Matching(n) = {}
      BY <2>1 DEF Store!Matching, Matches
    <2> QED BY <1>3, <1>10, <2>2, <2>3, <2>4 DEF Store!Delete
  <1>11. CASE r.ret = 1
    <2>1. PICK V, k, F : /\ Good(r.mem, V, k, F, {}) /\ F[root] = {x \in E[root] : ~Matches(n, x)}
                         /\ T = DOMAIN t => V = DOMAIN r.mem
      BY <1>7, <1>11 DEF InOrder
    <2>2. IInv'
      <3>1. ~cut_short' => V = DOMAIN mem'
        BY <1>1, <1>3, <1>4, <1>9, <2>1
      <3> QED BY <1>3, <1>7, <1>9, <2>1, <3>1 DEF IInv
    <2>3. Entries(r.mem) = F[root]
      <3>1. Tree(r.mem, V, k, F)
        BY <2>1 DEF Good, Tree
      <3> QED BY <3>1, InTreeOf
    <2>4. Entries(mem)' = {x \in Entries(mem) : ~Matches(n, x)}
      BY <1>3, <1>8, <2>1, <2>3
    <2>5. Store!Matching(n) # {}
      BY <1>7, <1>8, <1>11 DEF Store!Matching, Matches
    <2>6. Entries(mem)' = Entries(mem) \ Store!Matching(n)
      BY <2>4 DEF Store!Matching, Matches
    <2> QED BY <1>3, <1>11, <2>2, <2>5, <2>6 DEF Store!Delete
  <1> QED BY <1>7, <1>10, <1>11

-----------------------------------------------------------------------------
(***************************************************************************)
(* The theorems.                                                           *)
(***************************************************************************)

(* The empty root is a tree.                                               *)
LEMMA InitType == ASSUME Init PROVE IInv
  <1>1. mem = [a \in {root} |-> EmptyNode(TRUE)] /\ ret = 0 /\ cut_short = FALSE
    BY DEF Init
  <1>2. PICK T, h, E : T = {root} /\ h = [a \in T |-> 0] /\ E = [a \in T |-> {}]
    OBVIOUS
  <1>3. DOMAIN mem = {root} /\ mem[root] = EmptyNode(TRUE)
    BY <1>1
  <1>4. /\ EmptyNode(TRUE) \in Node /\ mem[root].leaf = TRUE
        /\ mem[root].item = <<>> /\ mem[root].key = <<>> /\ mem[root].child = <<>>
        /\ mem[root].parent = NULL /\ mem[root].next = NULL
    <2>1. TRUE \in BOOLEAN
      OBVIOUS
    <2> QED BY <1>3, <2>1, EmptyNodeIs
  <1>5. Heap(mem)
    <2>1. IsFiniteSet(DOMAIN mem)
      BY <1>3, FS_Singleton
    <2>2. mem \in [DOMAIN mem -> Node]
      BY <1>1, <1>3, <1>4
    <2> QED BY <1>3, <2>1, <2>2 DEF Heap
  <1>6. Len(mem[root].child) = 0 /\ Len(mem[root].item) = 0
    BY <1>4
  <1>7. Shape(mem, T, h, E)
    <2>1. h \in [T -> Nat] /\ E \in [T -> SUBSET Entry] /\ h[root] = 0 /\ E[root] = {}
      BY <1>2
    <2>2. Upward(mem, T, h, root)
      BY <1>4 DEF Upward
    <2>3. Kind(mem, h, root)
      BY <1>4, <2>1 DEF Kind
    <2>4. Downward(mem, T, h, root)
      BY <1>6 DEF Downward
    <2>5. Ordered(mem, E, root)
      <3>1. Parts(mem, E, root) = Each(<<>>)
        BY <1>4 DEF Parts
      <3>2. Each(<<>>) = <<>>
        BY DEF Each
      <3> QED BY <2>1, <3>1, <3>2 DEF Ordered, Row, Whole
    <2> QED BY <1>2, <1>3, <2>1, <2>2, <2>3, <2>4, <2>5 DEF Shape, Sound
  <1>8. Keyed(mem, T, E)
    BY <1>2, <1>4 DEF Keyed
  <1>9. Sized(mem, T, {})
    BY <1>2, <1>4, <1>6 DEF Sized, SizedAt, MAX_BPT_NODE_NUM
  <1>10. Chained(mem, T, E)
    <2>1. LeavesOf(mem, T) = {root}
      BY <1>2, <1>4 DEF LeavesOf
    <2>2. NULL \notin T
      BY <1>2 DEF NULL, root
    <2>3. ChainedAt(mem, T, E, root)
      BY <1>4, <2>1, <2>2 DEF ChainedAt
    <2> QED BY <1>2, <1>4, <2>1, <2>3 DEF Chained
  <1>11. Good(mem, T, h, E, {})
    BY <1>5, <1>7, <1>8, <1>9, <1>10 DEF Good
  <1> QED BY <1>1, <1>2, <1>3, <1>11 DEF IInv

(* Every step keeps the invariant.                                         *)
LEMMA NextType == ASSUME IInv, [Next]_vars PROVE IInv'
  <1>1. CASE \E n \in Names : Delete(n)
    BY <1>1, DeleteType
  <1>2. CASE \E n \in Names, v \in Values : Insert(n, v)
    BY <1>2, InsertType
  <1>3. CASE UNCHANGED vars
    <2>1. mem' = mem /\ ret' = ret /\ cut_short' = cut_short
      BY <1>3 DEF vars
    <2> QED BY <2>1 DEF IInv
  <1> QED BY <1>1, <1>2, <1>3 DEF Next

(* In every reachable state there is a tree in the heap, with heights,     *)
(* entries, keys, sizes and a chain that agree (IInv): whatever splits,    *)
(* borrows, merges and collapses follow each other, and wherever an        *)
(* insertion runs out of nodes.                                            *)
THEOREM TreeCorrect == Spec => []IInv
  <1>1. Init => IInv
    BY InitType
  <1>2. IInv /\ [Next]_vars => IInv'
    BY NextType
  <1> QED BY <1>1, <1>2, PTL DEF Spec

(* The tree stays balanced, its nodes filled within their bounds and each  *)
(* parent pointer right, for any names and any number of nodes.            *)
THEOREM TreeBalanced == Spec => []Balanced
  <1>1. IInv => Balanced
    <2> SUFFICES ASSUME IInv PROVE Balanced
      OBVIOUS
    <2>1. PICK T, h, E : Good(mem, T, h, E, {}) /\ ret \in {0, 1} /\ cut_short \in BOOLEAN
      BY DEF IInv
    <2> QED BY <2>1, GoodBalanced
  <1> QED BY <1>1, TreeCorrect, PTL

(* bpt_search finds every entry that is in some leaf, and no other: the    *)
(* keys of the inner nodes, which fix_keys, fix_up, drop_child and         *)
(* add_parent change piecemeal, always lead there.                         *)
THEOREM TreeSearchFinds == Spec => []SearchFinds
  <1>1. IInv => SearchFinds
    <2> SUFFICES ASSUME IInv PROVE SearchFinds
      OBVIOUS
    <2>1. PICK T, h, E : Good(mem, T, h, E, {})
      BY DEF IInv
    <2> QED BY <2>1, GoodSearchFinds
  <1> QED BY <1>1, TreeCorrect, PTL

(* As long as no insertion runs out of nodes between its splits, every     *)
(* node that is allocated is in the tree: what a merge or a collapse takes *)
(* out is freed.                                                           *)
THEOREM TreeNoNodeLost == Spec => []NoNodeLost
  <1>1. IInv => NoNodeLost
    <2> SUFFICES ASSUME IInv, ~cut_short PROVE Nodes = InTree(mem)
      BY DEF NoNodeLost
    <2>1. PICK T, h, E : Good(mem, T, h, E, {}) /\ T = DOMAIN mem
      BY DEF IInv
    <2>2. Tree(mem, T, h, E)
      BY <2>1 DEF Good, Tree
    <2>3. InTree(mem) = T
      BY <2>2, InTreeOf
    <2> QED BY <2>1, <2>3 DEF Nodes
  <1> QED BY <1>1, TreeCorrect, PTL

(* With the same exception the chain of the leaves visits all of them in   *)
(* ascending order.                                                        *)
THEOREM TreeChainOrdered == Spec => []ChainOrdered
  <1>1. IInv => ChainOrdered
    <2> SUFFICES ASSUME IInv PROVE ChainOrdered
      OBVIOUS
    <2>1. CASE cut_short
      BY <2>1, Zenon DEF ChainOrdered
    <2>2. CASE ~cut_short
      <3>1. PICK T, h, E : Good(mem, T, h, E, {}) /\ T = DOMAIN mem
        BY <2>2 DEF IInv
      <3>2. Good(mem, DOMAIN mem, h, E, {})
        BY <3>1
      <3> QED BY <3>2, GoodChain
    <2> QED BY <2>1, <2>2
  <1> QED BY <1>1, TreeCorrect, PTL

(* An insertion or a deletion that succeeds, or leaves a node free, does   *)
(* to the entries exactly what the store does.                             *)
THEOREM TreeOperationsExact == Spec => OperationsExact
  <1>1. IInv /\ [Next]_vars => [ret' = 1 \/ Available(mem') # {} => Exact]_vars
    <2> SUFFICES ASSUME IInv, Next, ret' = 1 \/ Available(mem') # {} PROVE Exact
      OBVIOUS
    <2>1. \A n \in Names : Delete(n) => Store!Delete(n)
      BY DeleteType
    <2>2. \A n \in Names : \A v \in Values : Insert(n, v) => Store!Insert(n, v)
      BY InsertType
    <2> QED BY <2>1, <2>2 DEF Exact
  <1> QED BY <1>1, TreeCorrect, PTL DEF Spec, OperationsExact

(* As long as the heap has a node free, the tree with its entries          *)
(* implements the store.                                                   *)
THEOREM TreeImplementsStore == Spec /\ [](Available(mem) # {}) => ImplementsStore
  <1>1. Init => Store!Init
    <2> SUFFICES ASSUME Init PROVE Store!Init
      OBVIOUS
    <2>1. Entries(mem) = {}
      <3>1. mem[root].leaf /\ mem[root].item = <<>> /\ DOMAIN mem = {root} /\ ret = 0
        BY DEF Init, EmptyNode
      <3>2. PICK T, h, E : Good(mem, T, h, E, {})
        BY InitType DEF IInv
      <3>3. Tree(mem, T, h, E)
        BY <3>2 DEF Good, Tree
      <3>4. Entries(mem) = E[root] /\ root \in T
        BY <3>3, InTreeOf, TreeTypes
      <3>5. E[root] = Members(mem[root].item)
        BY <3>1, <3>3, <3>4, LeafOf
      <3>6. Members(mem[root].item) = {}
        BY <3>1 DEF Members
      <3> QED BY <3>4, <3>5, <3>6
    <2>2. ret = 0
      BY DEF Init
    <2> QED BY <2>1, <2>2 DEF Store!Init
  <1>2. IInv /\ [Next]_vars /\ Available(mem') # {} => [Store!Next]_<<Entries(mem), ret>>
    <2> SUFFICES ASSUME IInv, [Next]_vars, Available(mem') # {}
                 PROVE  [Store!Next]_<<Entries(mem), ret>>
      OBVIOUS
    <2>1. CASE \E n \in Names : Delete(n)
      BY <2>1, DeleteType DEF Store!Next
    <2>2. CASE \E n \in Names, v \in Values : Insert(n, v)
      BY <2>2, InsertType DEF Store!Next
    <2>3. CASE UNCHANGED vars
      <3>1. mem' = mem /\ ret' = ret
        BY <2>3 DEF vars
      <3>2. Entries(mem)' = Entries(mem)
        BY <3>1
      <3> QED BY <3>1, <3>2
    <2> QED BY <2>1, <2>2, <2>3 DEF Next
  <1>3. Available(mem') # {} <=> (Available(mem) # {})'
    OBVIOUS
  <1> QED BY <1>1, <1>2, <1>3, TreeCorrect, PTL DEF Spec, ImplementsStore, Store!Spec
=============================================================================
