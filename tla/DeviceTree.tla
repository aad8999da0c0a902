----------------------------- MODULE DeviceTree -----------------------------
(***************************************************************************)
(* The walk of src/global/dtb.c over the tokens of the device tree, which  *)
(* collects a node's address and interrupt in variables that are cleared   *)
(* where a node begins, and looks at them where one ends.  The tree is any *)
(* tree, token by token, with properties before inner nodes as the format  *)
(* has them.                                                               *)
(***************************************************************************)
EXTENDS Naturals, SequencesExt

CONSTANTS VIRTIO_INPUT_MAX_DEVICES,
          DeviceIds,  \* what devices there are: net, gpu, blk, snd, input or another
          MaxNodes    \* bound: nodes of the tree

ASSUME DeviceTreeAssumption == VIRTIO_INPUT_MAX_DEVICES \in Nat \ {0} /\ MaxNodes \in Nat

Single == {"net", "gpu", "blk", "snd"}  \* kinds of which one device is kept
Noted == Single \cup {"input"}          \* kinds that are noted at all

VARIABLES walk,                            \* "magic", "tokens" or "end"
          node_mmio_addr, node_irq_num,    \* of the node, 0 if it has none
          is,                              \* the flags is_net, is_gpu and so on that are set
          base, irq,                       \* of the devices of which one is kept
          inputs,                          \* the input devices
          inside,                          \* history: the nodes around this place, as they are
          seen,                            \* history: how many nodes began
          listed,                          \* history: per kind, the nodes with such a device and
                                           \* no inner nodes
          inherited                        \* history: a node ended right after a device in it

treevars == <<walk, node_mmio_addr, node_irq_num, is, base, irq, inputs, inside, seen, listed,
              inherited>>
nodevars == <<node_mmio_addr, node_irq_num, is>>
found == <<base, irq, inputs>>

(* A node: its address in the window of virtio devices, its interrupt,     *)
(* what device is there, and whether inner nodes of it have ended.         *)
Bare == [addr |-> 0, irq |-> 0, kind |-> "none", inner |-> FALSE]

TreeInit ==
    /\ walk = "magic"
    /\ node_mmio_addr = 0 /\ node_irq_num = 0 /\ is = {}
    /\ base = [k \in Single |-> 0] /\ irq = [k \in Single \ {"snd"} |-> 0]
    /\ inputs = <<>>
    /\ inside = <<>> /\ seen = 0 /\ listed = [k \in Noted |-> <<>>] /\ inherited = FALSE

(* parse_dtb and the start of parse_dtb_tokens: without the magic number   *)
(* nothing is looked at.                                                   *)
parse_dtb ==
    /\ walk = "magic"
    /\ walk' \in {"tokens", "end"}
    /\ UNCHANGED <<nodevars, found, inside, seen, listed, inherited>>

(* Mutant of Cleared: the interrupt of an earlier node stays.              *)
Cleared_KeepsIrq ==
    node_mmio_addr' = 0 /\ is' = {} /\ UNCHANGED node_irq_num

Cleared == node_mmio_addr' = 0 /\ node_irq_num' = 0 /\ is' = {}

FDT_BEGIN_NODE ==
    /\ walk = "tokens" /\ seen < MaxNodes
    /\ Cleared
    /\ inside' = Append(inside, Bare)
    /\ seen' = seen + 1
    /\ UNCHANGED <<walk, found, listed, inherited>>

(* Properties of the node that began last and has no inner node yet.       *)
Open == walk = "tokens" /\ inside # <<>> /\ ~Last(inside).inner

(* The property "reg": an address outside the window is not looked at;     *)
(* inside it, the device's register says what it is, if there is one.      *)
FDT_PROP_reg ==
    /\ Open /\ Last(inside).kind = "none" /\ Last(inside).addr = 0
    /\ node_mmio_addr' = seen
    /\ \E kind \in DeviceIds \cup {"none"} :
          /\ is' = IF kind \in Noted THEN is \cup {kind} ELSE is
          /\ inside' = [inside EXCEPT ![Len(inside)].addr = seen, ![Len(inside)].kind = kind]
    /\ UNCHANGED <<walk, node_irq_num, found, seen, listed, inherited>>

(* The property "interrupts": shared ones are counted from 32 on.          *)
FDT_PROP_interrupts ==
    /\ Open /\ Last(inside).irq = 0
    /\ \E first \in {0, 32} :
          /\ node_irq_num' = seen + first
          /\ inside' = [inside EXCEPT ![Len(inside)].irq = seen + first]
    /\ UNCHANGED <<walk, node_mmio_addr, is, found, seen, listed, inherited>>

(* The device whose flag comes first in the order of the tests is noted.   *)
Registered ==
    LET kind == CHOOSE k \in Single \cup {"none"} :
                   IF is \cap Single = {} THEN k = "none" ELSE k \in is IN
    IF node_mmio_addr = 0 THEN UNCHANGED found
    ELSE IF kind # "none"
    THEN /\ base' = [base EXCEPT ![kind] = node_mmio_addr]
         /\ irq' = IF node_irq_num = 0 THEN irq
                   ELSE [k \in DOMAIN irq |-> IF k = kind THEN node_irq_num ELSE irq[k]]
         /\ UNCHANGED inputs
    ELSE /\ inputs' = IF "input" \in is /\ Len(inputs) < VIRTIO_INPUT_MAX_DEVICES
                      THEN Append(inputs, [addr |-> node_mmio_addr, irq |-> node_irq_num])
                      ELSE inputs
         /\ UNCHANGED <<base, irq>>

(* What was collected is noted and kept: when the node that ends is not    *)
(* the one that began last, it is what an inner node left.                 *)
FDT_END_NODE ==
    /\ walk = "tokens" /\ inside # <<>>
    /\ Registered
    /\ LET node == Last(inside) IN
       /\ inside' = IF Len(inside) = 1 THEN <<>>
                    ELSE [Front(inside) EXCEPT ![Len(inside) - 1].inner = TRUE]
       /\ listed' = IF node.kind \in Noted /\ ~node.inner
                    THEN [listed EXCEPT ![node.kind] = Append(@, node)] ELSE listed
       /\ inherited' = (inherited \/ (node.inner /\ is # {}))
    /\ UNCHANGED <<walk, nodevars, seen>>

(* FDT_END, or a token that is none of these, ends the walk.               *)
FDT_END ==
    /\ walk = "tokens"
    /\ walk' = "end"
    /\ UNCHANGED <<nodevars, found, inside, seen, listed, inherited>>

TreeNext ==
    \/ parse_dtb \/ FDT_BEGIN_NODE \/ FDT_PROP_reg \/ FDT_PROP_interrupts
    \/ FDT_END_NODE \/ FDT_END

TreeSpec == TreeInit /\ [][TreeNext]_treevars
-----------------------------------------------------------------------------
TreeTypeOK ==
    /\ is \subseteq Noted
    /\ Len(inputs) <= VIRTIO_INPUT_MAX_DEVICES
    /\ node_mmio_addr \in 0 .. MaxNodes

(* The walk finds the devices of the nodes without inner nodes: of each    *)
(* kind that is kept once the one listed last, with the interrupt of the   *)
(* last that has one; and the input devices in their order, up to the      *)
(* limit, each with its own interrupt or none, as long as no node ends     *)
(* right after a device in it, for that registers the device again.        *)
FoundAsListed ==
    /\ \A k \in Single : base[k] = IF listed[k] = <<>> THEN 0 ELSE Last(listed[k]).addr
    /\ \A k \in DOMAIN irq :
          \/ irq[k] = 0 /\ \A n \in DOMAIN listed[k] : listed[k][n].irq = 0
          \/ \E n \in DOMAIN listed[k] :
                /\ irq[k] = listed[k][n].irq /\ irq[k] # 0
                /\ \A m \in n + 1 .. Len(listed[k]) : listed[k][m].irq = 0
    /\ ~inherited =>
          /\ inputs = [n \in 1 .. Len(inputs) |->
                         [addr |-> listed["input"][n].addr, irq |-> listed["input"][n].irq]]
          /\ Len(inputs) \in {Len(listed["input"]), VIRTIO_INPUT_MAX_DEVICES}
=============================================================================
