------------------------------- MODULE BPTree -------------------------------
(***************************************************************************)
(* The B+ tree of src/tools/fs.c, which maps names to files and to         *)
(* directories, with its nodes in the kernel heap, their parent, child and *)
(* next pointers, and what a failing heap_alloc leaves behind.             *)
(*                                                                         *)
(* A node is [leaf, item, key, child, parent, next]: a leaf has items (the *)
(* three parallel arrays of an entry), an inner node keys and children.    *)
(* data_num is the length of item or key.  The operators take the heap t,  *)
(* a function from addresses to nodes, and give the heap they leave.       *)
(***************************************************************************)
EXTENDS Integers, SequencesExt, FiniteSetsExt

CONSTANTS Names,  \* [fnv, djb]: a name, as its two hashes
          Values,
          Pool    \* the addresses heap_alloc has for nodes, beside the root

ASSUME BPTreeAssumption == /\ Names \subseteq [fnv : Nat, djb : Nat]
                           /\ Pool \subseteq Nat \ {0, 1}

VARIABLES mem,  \* address -> node
          ret,  \* what the last bpt_insert or bpt_delete returned
          cut_short \* history: an insertion ran out of nodes between its splits

vars == <<mem, ret, cut_short>>

NULL == 0
root == 1
MAX_BPT_NODE_NUM == 4

EmptyNode(leaf) == [leaf |-> leaf, item |-> <<>>, key |-> <<>>, child |-> <<>>,
                    parent |-> NULL, next |-> NULL]

Init == mem = [a \in {root} |-> EmptyNode(TRUE)] /\ ret = 0 /\ cut_short = FALSE

(* heap_alloc is first fit, and the nodes are of one size.                 *)
Available(t) == Pool \ DOMAIN t
create_node(t) == Min(Available(t))

heap_free(t, a) == [x \in DOMAIN t \ {a} |-> t[x]]

With(t, a, node) == [x \in DOMAIN t \cup {a} |-> IF x = a THEN node ELSE t[x]]

SetParents(t, S, p) == [x \in DOMAIN t |->
                           IF x \in S THEN [t[x] EXCEPT !.parent = p] ELSE t[x]]

IndexOf(s, x) == SelectInSeq(s, LAMBDA e : e = x)

Taken(s, n) == SubSeq(s, 1, n)
Left(s, n) == SubSeq(s, n + 1, Len(s))

(* A loop that takes x to f[x], after n rounds; a path up or down the tree *)
(* needs no more rounds than there are nodes.                              *)
Repeated(f, x, n) ==
    LET at[m \in 0 .. n] == IF m = 0 THEN x ELSE f[at[m - 1]] IN at[n]
Rounds(t) == Cardinality(DOMAIN t)
-----------------------------------------------------------------------------
(* From an inner node, the child below which the hash k belongs.           *)
Toward(t, a, k) ==
    LET larger == SelectInSeq(t[a].key, LAMBDA s : k < s)
    IN  IF t[a].leaf THEN a
        ELSE t[a].child[IF larger = 0 THEN Len(t[a].key) + 1 ELSE larger]

search_leaf(t, k) == Repeated([a \in DOMAIN t |-> Toward(t, a, k)], root, Rounds(t))

(* put_leaf and put_inner fill a node; put_inner adopts the children.      *)
put_leaf(t, a, items) == [t EXCEPT ![a].leaf = TRUE, ![a].item = items]

put_inner(t, a, keys, children) ==
    SetParents([t EXCEPT ![a].leaf = FALSE, ![a].item = <<>>,
                         ![a].key = keys, ![a].child = children],
               ToSet(children), a)

(* What an operation leaves: the heap, and what it returns.                *)
Result(t, r) == [mem |-> t, ret |-> r]

(* The root is cleared and becomes the parent of a and b.                  *)
NewRoot(t, a, separator, b) ==
    put_inner(With(t, root, EmptyNode(FALSE)), root, <<separator>>, <<a, b>>)

(* An overfull inner node is cut around its middle key.                    *)
Middle(keys) == keys[Len(keys) \div 2 + 1]
LeftKeys(keys) == Taken(keys, Len(keys) \div 2)
RightKeys(keys) == Left(keys, Len(keys) \div 2 + 1)

(* Its halves go to a and to b.                                            *)
Halve(t, a, b, keys, children) ==
    LET cut == Len(keys) \div 2 + 1
    IN  put_inner(put_inner(t, a, LeftKeys(keys), Taken(children, cut)),
                  b, RightKeys(keys), Left(children, cut))

(* A call of add_parent, and what the last of them leaves.                 *)
Call(t, left, separator, right) ==
    [mem |-> t, ret |-> 0, left |-> left, separator |-> separator, right |-> right]
Return(t, r) == [Call(t, NULL, 0, NULL) EXCEPT !.ret = r]

(* One call: right becomes the child next to left; a parent that is full   *)
(* is split, and the next call is for its right half.                      *)
AddToParent(s) ==
    LET t == s.mem
        parent == t[s.left].parent
        index == IndexOf(t[parent].child, s.left)
        keys == InsertAt(t[parent].key, index, s.separator)
        children == InsertAt(t[parent].child, index + 1, s.right)
        new == create_node(t)
        t1 == With(t, new, EmptyNode(FALSE))
        new2 == create_node(t1)
        t2 == With(t1, new2, EmptyNode(FALSE))
    IN  IF s.left = NULL THEN s
        ELSE IF parent = NULL \/ index = 0 THEN Return(t, 0)
        ELSE IF Len(keys) < MAX_BPT_NODE_NUM
             THEN Return(put_inner(t, parent, keys, children), 1)
        ELSE IF Available(t) = {} THEN Return(t, 0)
        ELSE IF parent = root /\ Available(t1) = {} THEN Return(t1, 0)
        ELSE IF parent = root
             THEN Return(NewRoot(Halve(t2, new2, new, keys, children),
                                 new2, Middle(keys), new), 1)
        ELSE IF t[parent].parent = NULL THEN Return(t1, 0)
        ELSE Call([Halve(t1, parent, new, keys, children)
                      EXCEPT ![new].parent = t[parent].parent],
                  parent, Middle(keys), new)

add_parent(t, left, separator, right) ==
    LET at[n \in 0 .. Rounds(t)] ==
            IF n = 0 THEN Call(t, left, separator, right) ELSE AddToParent(at[n - 1])
    IN  at[Rounds(t)]

Item(n, v) == [fnv |-> n.fnv, djb |-> n.djb, data |-> v]

(* The number of entries a full leaf keeps.                                *)
left_count == (MAX_BPT_NODE_NUM + 1) \div 2

(* Mutant of SplitLeaf: the new leaf is not linked to what followed.       *)
SplitLeaf_DropsNext(t, leaf, items, new) ==
    LET right == [EmptyNode(TRUE) EXCEPT !.item = Left(items, left_count),
                                         !.parent = t[leaf].parent]
    IN  With([put_leaf(t, leaf, Taken(items, left_count)) EXCEPT ![leaf].next = new],
             new, right)

(* A full leaf, not the root, hands its upper entries to a new one.        *)
SplitLeaf(t, leaf, items, new) ==
    LET right == [EmptyNode(TRUE) EXCEPT !.item = Left(items, left_count),
                                         !.next = t[leaf].next,
                                         !.parent = t[leaf].parent]
    IN  With([put_leaf(t, leaf, Taken(items, left_count)) EXCEPT ![leaf].next = new],
             new, right)

(* A full leaf that is the root becomes the parent of two new leaves.      *)
SplitRoot(t, items, left, right) ==
    LET l == [EmptyNode(TRUE) EXCEPT !.item = Taken(items, left_count), !.next = right]
        r == [EmptyNode(TRUE) EXCEPT !.item = Left(items, left_count)]
    IN  NewRoot(With(With(t, left, l), right, r), left, r.item[1].fnv, right)

(* Mutant of FirstFrom: an entry of the same hash is passed over.          *)
FirstFrom_Beyond(items, k) == SelectInSeq(items, LAMBDA e : e.fnv > k)

(* Where the first entry with a hash of k or more is, or 0.                *)
FirstFrom(items, k) == SelectInSeq(items, LAMBDA e : e.fnv >= k)

bpt_insert(t, n, v) ==
    LET leaf == search_leaf(t, n.fnv)
        old == t[leaf].item
        larger == FirstFrom(old, n.fnv)
        position == IF larger = 0 THEN Len(old) + 1 ELSE larger
        items == InsertAt(old, position, Item(n, v))
        new == create_node(t)
        t1 == With(t, new, EmptyNode(TRUE))
        new2 == create_node(t1)
    IN  IF larger # 0 /\ old[larger].fnv = n.fnv THEN Result(t, 0)
        ELSE IF Len(old) < MAX_BPT_NODE_NUM - 1
             THEN Result([t EXCEPT ![leaf].item = items], 1)
        ELSE IF Available(t) = {} THEN Result(t, 0)
        ELSE IF leaf = root /\ Available(t1) = {} THEN Result(t1, 0)
        ELSE IF leaf = root THEN Result(SplitRoot(t1, items, new2, new), 1)
        ELSE IF t[leaf].parent = NULL THEN Result(t1, 0)
        ELSE add_parent(SplitLeaf(t, leaf, items, new), leaf,
                        items[left_count + 1].fnv, new)
-----------------------------------------------------------------------------
(* The least hash below a: that of the first entry of the first leaf.      *)
min_key(t, a) ==
    LET first == [x \in DOMAIN t |-> IF t[x].leaf THEN x ELSE t[x].child[1]]
    IN  t[Repeated(first, a, Rounds(t))].item[1].fnv

(* Mutant of fix_keys: the keys stay as they are.                          *)
fix_keys_Stale(t, a) == t

(* Every key of a is the least of the child to its right.                  *)
fix_keys(t, a) ==
    [t EXCEPT ![a].key =
        [i \in 1 .. Len(t[a].child) - 1 |-> min_key(t, t[a].child[i + 1])]]

(* The node a and those above it.                                          *)
Ancestors(t, a) ==
    LET up == [x \in DOMAIN t \cup {NULL} |-> IF x = NULL THEN NULL ELSE t[x].parent]
    IN  {Repeated(up, a, n) : n \in 0 .. Rounds(t)} \ {NULL}

fix_up(t, a) ==
    [x \in DOMAIN t |-> IF x \in Ancestors(t, a) /\ ~t[x].leaf THEN fix_keys(t, x)[x]
                        ELSE t[x]]

drop_child(t, parent, index) ==
    [t EXCEPT ![parent].key = RemoveAt(@, IF index > 1 THEN index - 1 ELSE 1),
              ![parent].child = RemoveAt(@, index)]

(* Mutant of Collapse: the grandchildren keep their old parent.            *)
Collapse_NoReparent(t) ==
    LET only == t[root].child[1]
    IN  heap_free([t EXCEPT ![root] = [t[only] EXCEPT !.parent = NULL]], only)

(* A root with one child becomes that child.                               *)
Collapse(t) ==
    LET only == t[root].child[1]
        t1 == [t EXCEPT ![root] = [t[only] EXCEPT !.parent = NULL]]
    IN  heap_free(SetParents(t1, ToSet(t1[root].child), root), only)

(* The children of inner node b, or the entries of leaf b, are appended to *)
(* those of its left neighbour a, and b is freed; at is b's place below    *)
(* the parent.                                                             *)
MergeInner(t, a, b, at) ==
    LET t1 == SetParents([t EXCEPT ![a].child = @ \o t[b].child], ToSet(t[b].child), a)
    IN  heap_free(drop_child(fix_keys(t1, a), t[a].parent, at), b)

(* Mutant of MergeLeaf: b is not freed.                                   *)
MergeLeaf_NoFree(t, a, b, at) ==
    LET t1 == [t EXCEPT ![a].item = @ \o t[b].item, ![a].next = t[b].next]
    IN  drop_child(t1, t[a].parent, at)

MergeLeaf(t, a, b, at) ==
    LET t1 == [t EXCEPT ![a].item = @ \o t[b].item, ![a].next = t[b].next]
    IN  heap_free(drop_child(t1, t[a].parent, at), b)

(* The last child of a, or the first of b, changes sides.                  *)
BorrowInnerLeft(t, a, b) ==
    LET c == Last(t[a].child)
        t1 == SetParents([t EXCEPT ![a].child = Front(@), ![b].child = <<c>> \o @],
                         {c}, b)
    IN  fix_up(fix_keys(fix_keys(t1, a), b), t[a].parent)

BorrowInnerRight(t, a, b) ==
    LET c == Head(t[b].child)
        t1 == SetParents([t EXCEPT ![b].child = Tail(@), ![a].child = Append(@, c)],
                         {c}, a)
    IN  fix_up(fix_keys(fix_keys(t1, a), b), t[a].parent)

BorrowLeafLeft(t, a, b) ==
    fix_up([t EXCEPT ![a].item = Front(@), ![b].item = <<Last(t[a].item)>> \o @],
           t[a].parent)

BorrowLeafRight(t, a, b) ==
    fix_up([t EXCEPT ![b].item = Tail(@), ![a].item = Append(@, Head(t[b].item))],
           t[a].parent)

(* The neighbours of a below its parent, and its place there.              *)
Place(t, a) == IndexOf(t[t[a].parent].child, a)
LeftOf(t, a) == IF Place(t, a) > 1
                THEN t[t[a].parent].child[Place(t, a) - 1] ELSE NULL
RightOf(t, a) == IF Place(t, a) < Len(t[t[a].parent].child)
                 THEN t[t[a].parent].child[Place(t, a) + 1] ELSE NULL

(* How few keys an inner node may keep.                                    *)
minimum_keys == (MAX_BPT_NODE_NUM + 1) \div 2 - 1

(* One call of balance_inner, of which the last leaves no node to balance. *)
Balance(s) ==
    LET t == s.mem
        a == s.node
        left == LeftOf(t, a)
        right == RightOf(t, a)
        keys(x) == Len(t[x].child) - 1
        Ends(u) == [mem |-> u, node |-> NULL]
    IN  IF a = NULL THEN s
        ELSE IF a = root /\ keys(root) = 0 THEN Ends(Collapse(t))
        ELSE IF a = root THEN Ends(fix_keys(t, root))
        ELSE IF keys(a) >= minimum_keys THEN Ends(fix_up(t, a))
        ELSE IF t[a].parent = NULL \/ Place(t, a) = 0 THEN Ends(t)
        ELSE IF left # NULL /\ keys(left) > minimum_keys
             THEN Ends(BorrowInnerLeft(t, left, a))
        ELSE IF right # NULL /\ keys(right) > minimum_keys
             THEN Ends(BorrowInnerRight(t, a, right))
        ELSE IF left # NULL
             THEN [mem |-> MergeInner(t, left, a, Place(t, a)), node |-> t[a].parent]
        ELSE IF right # NULL
             THEN [mem |-> MergeInner(t, a, right, Place(t, a) + 1),
                   node |-> t[a].parent]
        ELSE Ends(t)

balance_inner(t, a) ==
    LET at[n \in 0 .. Rounds(t)] ==
            IF n = 0 THEN [mem |-> t, node |-> a] ELSE Balance(at[n - 1])
    IN  at[Rounds(t)].mem

(* How few entries a leaf may keep.                                        *)
minimum_items == MAX_BPT_NODE_NUM \div 2

balance_leaf(t, a) ==
    LET left == LeftOf(t, a)
        right == RightOf(t, a)
        parent == t[a].parent
        keys(x) == Len(t[x].item)
    IN  IF a = root \/ parent = NULL THEN t
        ELSE IF keys(a) >= minimum_items THEN fix_up(t, parent)
        ELSE IF Place(t, a) = 0 THEN t
        ELSE IF left # NULL /\ keys(left) > minimum_items THEN BorrowLeafLeft(t, left, a)
        ELSE IF right # NULL /\ keys(right) > minimum_items THEN BorrowLeafRight(t, a, right)
        ELSE IF left # NULL
             THEN balance_inner(MergeLeaf(t, left, a, Place(t, a)), parent)
        ELSE IF right # NULL
             THEN balance_inner(MergeLeaf(t, a, right, Place(t, a) + 1), parent)
        ELSE t

(* Mutant of Matches: the DJB hash is not compared.                        *)
Matches_FnvOnly(n, e) == e.fnv = n.fnv

Matches(n, e) == e.fnv = n.fnv /\ e.djb = n.djb

bpt_delete(t, n) ==
    LET leaf == search_leaf(t, n.fnv)
        position == SelectInSeq(t[leaf].item, LAMBDA e : Matches(n, e))
    IN  IF position = 0 THEN Result(t, 0)
        ELSE Result(balance_leaf([t EXCEPT ![leaf].item = RemoveAt(@, position)], leaf), 1)

(* The entry bpt_search answers with, if there is one.                     *)
bpt_search(t, n) ==
    LET items == t[search_leaf(t, n.fnv)].item
    IN  {items[i] : i \in {j \in 1 .. Len(items) : Matches(n, items[j])}}
-----------------------------------------------------------------------------
Returns(r) ==
    /\ mem' = r.mem /\ ret' = r.ret
    /\ cut_short' = (cut_short \/ (r.ret = 0 /\ r.mem # mem))

Insert(n, v) == Returns(bpt_insert(mem, n, v))
Delete(n) == Returns(bpt_delete(mem, n))

Next == \E n \in Names : Delete(n) \/ \E v \in Values : Insert(n, v)

Spec == Init /\ [][Next]_vars
-----------------------------------------------------------------------------
Nodes == DOMAIN mem

(* The nodes that are n steps below the root, and all that are below it.   *)
Level(t, n) ==
    LET below == [S \in SUBSET DOMAIN t |->
                     DOMAIN t \cap UNION {ToSet(t[a].child) : a \in S}]
    IN  Repeated(below, {root}, n)

InTree(t) == UNION {Level(t, n) : n \in 0 .. Rounds(t)}

Leaves(t) == {a \in InTree(t) : t[a].leaf}
Entries(t) == UNION {ToSet(t[a].item) : a \in Leaves(t)}

(* Every field has its type: in the tree no pointer leads to a freed node. *)
TypeOK ==
    /\ root \in Nodes /\ Nodes \subseteq Pool \cup {root}
    /\ ret \in {0, 1} /\ cut_short \in BOOLEAN
    /\ \A a \in InTree(mem) :
          /\ mem[a].leaf \in BOOLEAN
          /\ mem[a].parent \in Nodes \cup {NULL}
          /\ mem[a].next \in Nodes \cup {NULL}
          /\ ToSet(mem[a].child) \subseteq Nodes

(* Every split, borrow, merge and collapse keeps the tree balanced, its    *)
(* nodes filled within their bounds, and each parent pointer, which the    *)
(* code sets apart from the child pointers, right.                         *)
Balanced ==
    /\ TypeOK
    /\ mem[root].parent = NULL
    /\ \A n \in 0 .. Rounds(mem) :
          \A a, b \in Level(mem, n) : mem[a].leaf = mem[b].leaf
    /\ \A a \in InTree(mem) :
          /\ \A c \in ToSet(mem[a].child) : mem[c].parent = a
          /\ mem[a].leaf => /\ mem[a].child = <<>>
                            /\ Len(mem[a].item) < MAX_BPT_NODE_NUM
                            /\ a # root => Len(mem[a].item) >= 2
          /\ ~mem[a].leaf => /\ Len(mem[a].key) \in 1 .. MAX_BPT_NODE_NUM - 1
                             /\ Len(mem[a].child) = Len(mem[a].key) + 1

(* A search for a name that is in some leaf reaches that leaf: the keys of *)
(* the inner nodes, recomputed piecemeal, always lead there.               *)
SearchFinds ==
    \A n \in Names \cup Entries(mem) :
        bpt_search(mem, n) = {e \in Entries(mem) : Matches(n, e)}

(* No node is lost to the heap: all that are allocated are in the tree,    *)
(* unless an insertion ran out of nodes between its splits.                *)
NoNodeLost == ~cut_short => Nodes = InTree(mem)

(* Every entry of leaf a is less than those of leaf b.                     *)
Before(t, a, b) ==
    \A e \in ToSet(t[a].item), f \in ToSet(t[b].item) : e.fnv < f.fnv

After(t, a) == {b \in Leaves(t) \ {a} : Before(t, a, b)}

(* The entries of each leaf and the leaves are in ascending order, and a   *)
(* leaf is chained to the first of those after it, with the same           *)
(* exception.                                                              *)
ChainOrdered ==
    ~cut_short =>
       \A a \in Leaves(mem) :
          /\ \A i, j \in 1 .. Len(mem[a].item) :
                i < j => mem[a].item[i].fnv < mem[a].item[j].fnv
          /\ \A b \in Leaves(mem) \ {a} : Before(mem, a, b) \/ Before(mem, b, a)
          /\ \/ /\ After(mem, a) = {}
                /\ mem[a].next = NULL
             \/ /\ mem[a].next \in After(mem, a)
                /\ \A b \in After(mem, a) \ {mem[a].next} :
                      Before(mem, mem[a].next, b)

Store == INSTANCE KeyedStore WITH store <- Entries(mem)

(* As long as the heap has room, the tree is the store: no insertion or    *)
(* deletion changes, loses or duplicates another entry.                    *)
ImplementsStore == Store!Spec

(* The same of each operation by itself, with the name it was given.       *)
Exact ==
    \A n \in Names :
        /\ Delete(n) => Store!Delete(n)
        /\ \A v \in Values : Insert(n, v) => Store!Insert(n, v)

(* Deep trees too: an operation that succeeds, or leaves a node free, does *)
(* to the entries what the store's does, a search by FNV hash with the DJB *)
(* hash compared included; also in a tree that earlier, failed insertions  *)
(* have damaged.                                                           *)
OperationsExact == [][ret' = 1 \/ Available(mem') # {} => Exact]_vars
=============================================================================
