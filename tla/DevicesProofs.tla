--------------------------- MODULE DevicesProofs ----------------------------
(***************************************************************************)
(* The drivers: the display driver and its device, for every size of the   *)
(* queue and any number of commands, slots and time-outs; the keyboard     *)
(* driver, for every number of devices and buffers, every size of the ring *)
(* and whatever the devices write; the walk over any device tree; the      *)
(* console, for any size of the display, any letters and any outputs.      *)
(***************************************************************************)
EXTENDS Devices, SequenceTheorems, WellFoundedInduction, TLAPS

(* The queue is set up before the first command and stays as it is: only   *)
(* the initialisation begins with setting it up.                           *)
Requests == [type : {"info", "create", "attach", "transfer", "flush", "scanout"},
             buffer : {0, 1, None}]

InitPlanned == todo = <<Command("init", None)>> /\ avail_idx = 0 /\ phase = "submit"
Planned == todo \in Seq(Requests)

SetUpFirst ==
    /\ gpu_queue_size \in 0 .. VIRTIO_QUEUE_SIZE
    /\ gpu_back_buffer \in {0, 1}
    /\ avail_idx \in Nat
    /\ avail_idx > 0 => gpu_queue_size >= 2
    /\ InitPlanned \/ Planned
    /\ phase # "submit" => todo # <<>>

(* Before the driver runs nothing is submitted.                            *)
LEMMA InitSetUpFirst == DisplayInit => SetUpFirst
  <1>1. DisplayInit => InitPlanned /\ gpu_queue_size = 0 /\ gpu_back_buffer = 1
    BY DEF DisplayInit, InitPlanned
  <1> QED BY <1>1, DisplayAssumption DEF SetUpFirst, InitPlanned

(* Lists of requests are sequences of them.                                *)
LEMMA EmptyPlanned == <<>> \in Seq(Requests)
  OBVIOUS

LEMMA OnePlanned == ASSUME NEW c \in Requests PROVE <<c>> \in Seq(Requests)
  OBVIOUS

LEMMA ThreePlanned ==
    ASSUME NEW c \in Requests, NEW d \in Requests, NEW e \in Requests
    PROVE  <<c, d, e>> \in Seq(Requests)
  OBVIOUS

(* What follows a command is planned, and never sets up again.             *)
LEMMA RestPlanned ==
    ASSUME Planned, todo # <<>>
    PROVE  Tail(todo) \in Seq(Requests) /\ Head(todo).type # "init"
  <1>1. Head(todo) \in Requests /\ Tail(todo) \in Seq(Requests)
    BY DEF Planned
  <1> QED BY <1>1 DEF Requests

(* The set-up of the queue is what the driver begins with.                 *)
LEMMA InitIsFirst == ASSUME InitPlanned PROVE Head(todo).type = "init" /\ todo # <<>>
  <1>1. Head(todo) = Command("init", None) /\ todo # <<>>
    BY DEF InitPlanned
  <1> QED BY <1>1 DEF Command

(* The lists of gpu_init and of a flush hold requests only.                *)
LEMMA InitCommandsPlanned == gpu_init_commands \in Seq(Requests)
  <1>1. /\ gpu_create_resource \in Requests /\ gpu_attach_backing \in Requests
        /\ gpu_set_scanout(0) \in Requests
    BY DEF Requests, Command, None, gpu_create_resource, gpu_attach_backing, gpu_set_scanout
  <1> QED BY <1>1, ThreePlanned DEF gpu_init_commands

LEMMA FlushCommandsPlanned ==
    ASSUME NEW b \in {0, 1} PROVE gpu_flush_commands(b) \in Seq(Requests)
  <1>1. /\ gpu_transfer_to_host_2d(b) \in Requests /\ Command("flush", b) \in Requests
        /\ gpu_set_scanout(b) \in Requests
    BY DEF Requests, Command, None, gpu_transfer_to_host_2d, gpu_set_scanout
  <1> QED BY <1>1, ThreePlanned DEF gpu_flush_commands

(* Every step of the driver and the device keeps SetUpFirst.               *)
LEMMA StaysSetUp ==
    ASSUME SetUpFirst, [DisplayNext]_displayvars
    PROVE  SetUpFirst'
  <1>1. CASE gpu_init
    <2>1. avail_idx = 0
      BY <1>1, RestPlanned DEF gpu_init, SetUpFirst, InitPlanned
    <2>2. avail_idx' = 0 /\ phase' = "submit" /\ gpu_back_buffer' = gpu_back_buffer
      BY <1>1, <2>1 DEF gpu_init, ring, buffers
    <2>3. todo' \in {<<>>, <<gpu_get_display_info>>}
      BY <1>1 DEF gpu_init
    <2>4. gpu_get_display_info \in Requests
      BY DEF Requests, Command, None, gpu_get_display_info
    <2>5. Planned'
      BY <2>3, <2>4, EmptyPlanned, OnePlanned DEF Planned
    <2>6. gpu_queue_size' \in 0 .. VIRTIO_QUEUE_SIZE
      BY <1>1, DisplayAssumption DEF gpu_init, SetUpFirst, vq_setup_v1, Halves
    <2> QED BY <2>2, <2>5, <2>6 DEF SetUpFirst
  <1>2. CASE gpu_check_used
    <2>1. /\ phase # "submit" /\ phase' = "submit"
          /\ UNCHANGED <<gpu_queue_size, avail_idx>>
      BY <1>2 DEF gpu_check_used, ring
    <2>2. Planned /\ todo # <<>>
      BY <2>1 DEF SetUpFirst, InitPlanned
    <2>3. CASE Continue(Head(todo))
      <3>1. todo' \in {<<>>, gpu_init_commands, Tail(todo)}
        BY <2>3 DEF Continue
      <3>2. Planned'
        BY <2>2, <3>1, InitCommandsPlanned, RestPlanned, EmptyPlanned DEF Planned
      <3>3. gpu_back_buffer' \in {0, 1}
        BY <2>3 DEF Continue, buffers, SetUpFirst
      <3> QED BY <2>1, <3>2, <3>3 DEF SetUpFirst
    <2>4. CASE Failed("mismatch") \/ Failed("error")
      <3>1. Planned' /\ gpu_back_buffer' = gpu_back_buffer
        BY <2>4, EmptyPlanned DEF Failed, Planned, buffers
      <3> QED BY <2>1, <3>1 DEF SetUpFirst
    <2> QED BY <1>2, <2>3, <2>4 DEF gpu_check_used
  <1>3. CASE gm_rect \/ ltrs_color
    <2>1. todo = <<>> /\ todo' \in {<<>>, gpu_flush_commands(gpu_back_buffer)}
      BY <1>3 DEF gm_rect, ltrs_color, Draw
    <2>2. Planned'
      BY <2>1, FlushCommandsPlanned, EmptyPlanned DEF SetUpFirst, Planned
    <2>3. UNCHANGED <<gpu_queue_size, gpu_back_buffer, avail_idx, phase>> /\ phase = "submit"
      BY <1>3, <2>1 DEF gm_rect, ltrs_color, Draw, ring, SetUpFirst
    <2> QED BY <2>2, <2>3 DEF SetUpFirst
  <1>4. CASE gpu_submit_control
    <2>1. Planned /\ todo # <<>> /\ UNCHANGED <<gpu_queue_size, gpu_back_buffer>>
      BY <1>4, InitIsFirst DEF gpu_submit_control, SetUpFirst, buffers
    <2>2. Planned' /\ (phase' # "submit" => todo' # <<>>)
      BY <1>4, <2>1, EmptyPlanned DEF gpu_submit_control, Planned
    <2>3. avail_idx' \in Nat /\ (avail_idx' > 0 => gpu_queue_size >= 2)
      BY <1>4 DEF gpu_submit_control, SetUpFirst, ring
    <2> QED BY <2>1, <2>2, <2>3 DEF SetUpFirst
  <1>5. CASE gpu_wait_used_timeout
    <2>1. /\ todo' = <<>> /\ phase' = "submit"
          /\ UNCHANGED <<gpu_queue_size, gpu_back_buffer, avail_idx>>
      BY <1>5 DEF gpu_wait_used_timeout, ring, buffers
    <2> QED BY <2>1, EmptyPlanned DEF SetUpFirst, Planned
  <1>6. CASE gpu_wait_used
    <2>1. /\ phase = "poll"
          /\ UNCHANGED <<gpu_queue_size, gpu_back_buffer, avail_idx, todo>>
      BY <1>6 DEF gpu_wait_used, ring, buffers
    <2> QED BY <2>1 DEF SetUpFirst, InitPlanned, Planned
  <1>7. CASE DeviceExecutes \/ virtio_gpu_irq_handle \/ UNCHANGED displayvars
    <2>1. UNCHANGED <<gpu_queue_size, gpu_back_buffer, avail_idx, todo, phase>>
      BY <1>7 DEF DeviceExecutes, virtio_gpu_irq_handle, displayvars, ring, buffers
    <2> QED BY <2>1 DEF SetUpFirst, InitPlanned, Planned
  <1> QED BY <1>1, <1>2, <1>3, <1>4, <1>5, <1>6, <1>7 DEF DisplayNext

(* Once a command was submitted the queue keeps its size.                  *)
LEMMA QueueStays ==
    ASSUME SetUpFirst, [DisplayNext]_displayvars, avail_idx > 0
    PROVE  gpu_queue_size' = gpu_queue_size
  <1>1. ~gpu_init
    BY RestPlanned DEF gpu_init, SetUpFirst, InitPlanned
  <1> QED
    BY <1>1 DEF DisplayNext, displayvars, gpu_submit_control, gpu_wait_used, DeviceExecutes,
        gpu_wait_used_timeout, gpu_check_used, virtio_gpu_irq_handle, gm_rect, ltrs_color, Draw

(* HeadOf, with the size of the queue as a parameter.                      *)
HeadIn(size, i) == ((i % size) % (size \div 2)) * 2

(* The head of a submission depends on the size of the queue only.         *)
LEMMA HeadOfIn == \A i : HeadOf(i) = HeadIn(gpu_queue_size, i)
  BY DEF HeadOf, HeadIn, Pairs

(* While a command is out it is the newest, and no outcome is known yet;   *)
(* the newest used entry is the head of the command the device executed    *)
(* last.                                                                   *)
InStep ==
    /\ used_idx \in 0 .. avail_idx
    /\ phase # "submit" => awaited = avail_idx - 1 /\ outcome = "none"
    /\ used_ring = [i \in 0 .. VIRTIO_QUEUE_SIZE - 1 |-> used_ring[i]]
    /\ used_idx > 0 => LastUsed = HeadIn(gpu_queue_size, used_idx - 1)
    /\ phase = "check" => used_idx > 0
    /\ gpu_used_idx \in 0 .. used_idx

(* Remainders are below the divisor.                                       *)
LEMMA Remainder == ASSUME NEW n \in Nat, NEW d \in Nat \ {0} PROVE n % d \in 0 .. d - 1
  OBVIOUS

(* The entry the device writes lies in the used ring.                      *)
LEMMA Position ==
    ASSUME SetUpFirst, used_idx \in 0 .. avail_idx, used_idx < avail_idx
    PROVE  used_idx % gpu_queue_size \in 0 .. VIRTIO_QUEUE_SIZE - 1
  <1>1. /\ used_idx \in Nat /\ gpu_queue_size \in Nat \ {0} /\ VIRTIO_QUEUE_SIZE \in Nat
        /\ gpu_queue_size <= VIRTIO_QUEUE_SIZE
    BY DisplayAssumption DEF SetUpFirst
  <1>2. used_idx % gpu_queue_size \in 0 .. gpu_queue_size - 1
    BY <1>1, Remainder
  <1> HIDE DEF SetUpFirst
  <1> QED BY <1>1, <1>2

(* No entry was written before the first command.                          *)
LEMMA InitInStep == DisplayInit => InStep
  BY DEF DisplayInit, InStep

(* What the device does.                                                   *)
LEMMA DeviceInStep == ASSUME SetUpFirst, InStep, DeviceExecutes PROVE InStep'
  <1>1. /\ used_idx < avail_idx /\ used_idx' = used_idx + 1 /\ avail_idx' = avail_idx
        /\ used_ring' = [used_ring EXCEPT ![used_idx % gpu_queue_size] = HeadOf(used_idx)]
        /\ UNCHANGED <<todo, phase, awaited, gpu_used_idx, outcome, gpu_queue_size>>
    BY DEF DeviceExecutes, ring
  <1>2. used_idx \in Nat /\ used_idx % gpu_queue_size \in 0 .. VIRTIO_QUEUE_SIZE - 1
    BY <1>1, Position DEF InStep, SetUpFirst
  <1>3. used_ring'[used_idx % gpu_queue_size] = HeadIn(gpu_queue_size, used_idx)
    BY <1>1, <1>2, HeadOfIn DEF InStep
  <1>4. used_idx' - 1 = used_idx
    BY <1>1, <1>2
  <1>5. LastUsed' = HeadIn(gpu_queue_size', used_idx' - 1)
    BY <1>1, <1>3, <1>4 DEF LastUsed
  <1>6. used_ring' = [i \in 0 .. VIRTIO_QUEUE_SIZE - 1 |-> used_ring'[i]]
    BY <1>1 DEF InStep
  <1>7. /\ avail_idx' \in Nat /\ used_idx' \in 0 .. avail_idx' /\ used_idx' > 0
        /\ gpu_used_idx' \in 0 .. used_idx'
    BY <1>1 DEF InStep, SetUpFirst
  <1>8. phase' # "submit" => awaited' = avail_idx' - 1 /\ outcome' = "none"
    BY <1>1 DEF InStep
  <1> QED BY <1>5, <1>6, <1>7, <1>8 DEF InStep

(* What the driver does, to the queue or not.                              *)
LEMMA DriverInStep ==
    ASSUME SetUpFirst, InStep, [DisplayNext]_displayvars, ~DeviceExecutes
    PROVE  InStep'
  <1>1. UNCHANGED <<used_ring, used_idx>>
    BY DEF DisplayNext, displayvars, gpu_init, gpu_submit_control, gpu_wait_used,
           gpu_wait_used_timeout, gpu_check_used, virtio_gpu_irq_handle, gm_rect, ltrs_color,
           Draw, device
  <1>2. used_idx' > 0 => LastUsed' = HeadIn(gpu_queue_size', used_idx' - 1)
    <2>1. SUFFICES ASSUME used_idx > 0 PROVE LastUsed' = HeadIn(gpu_queue_size', used_idx' - 1)
      BY <1>1
    <2>2. gpu_queue_size' = gpu_queue_size
      BY <2>1, QueueStays DEF InStep, SetUpFirst
    <2>3. LastUsed' = LastUsed
      BY <1>1, <2>2 DEF LastUsed
    <2> QED BY <1>1, <2>1, <2>2, <2>3 DEF InStep
  <1>3. CASE gpu_submit_control
    <2>1. gpu_used_idx' = gpu_used_idx
      BY <1>3 DEF gpu_submit_control
    <2>2. CASE UNCHANGED <<phase, awaited, ring>>
      BY <1>1, <1>2, <1>3, <2>1, <2>2 DEF gpu_submit_control, ring, InStep
    <2>3. CASE /\ phase' = "poll" /\ awaited' = avail_idx /\ avail_idx' = avail_idx + 1
               /\ outcome' = "none" /\ UNCHANGED todo
      BY <1>1, <1>2, <1>3, <2>1, <2>3 DEF gpu_submit_control, InStep, SetUpFirst
    <2> QED BY <1>3, <2>2, <2>3 DEF gpu_submit_control
  <1>4. CASE gpu_wait_used
    BY <1>1, <1>2, <1>4 DEF gpu_wait_used, ring, InStep
  <1>5. CASE gpu_wait_used_timeout \/ gpu_check_used
    BY <1>1, <1>2, <1>5 DEF gpu_wait_used_timeout, gpu_check_used, ring, InStep
  <1>6. CASE gpu_init \/ gm_rect \/ ltrs_color
    <2>1. phase = "submit"
      BY <1>6 DEF gpu_init, gm_rect, ltrs_color, Draw, SetUpFirst
    <2>2. UNCHANGED <<phase, awaited, avail_idx, gpu_used_idx>>
      BY <1>6 DEF gpu_init, gm_rect, ltrs_color, Draw, ring
    <2> QED BY <1>1, <1>2, <2>1, <2>2 DEF InStep
  <1>7. CASE virtio_gpu_irq_handle \/ UNCHANGED displayvars
    BY <1>1, <1>2, <1>7 DEF virtio_gpu_irq_handle, displayvars, ring, InStep
  <1> QED BY <1>3, <1>4, <1>5, <1>6, <1>7 DEF DisplayNext

(* An answer is refused as another command's only while the device has not *)
(* caught up.                                                              *)
LEMMA NoMismatch ==
    ASSUME SetUpFirst, InStep, [DisplayNext]_displayvars, phase = "check", outcome' = "mismatch"
    PROVE  used_idx # avail_idx
  <1>1. outcome = "none"
    BY DEF InStep
  <1>2. CASE gpu_check_used
    <2>1. LastUsed # HeadIn(gpu_queue_size, awaited)
      BY <1>2, HeadOfIn DEF gpu_check_used, Failed
    <2>2. LastUsed = HeadIn(gpu_queue_size, used_idx - 1) /\ awaited = avail_idx - 1
      BY DEF InStep
    <2> QED BY <2>1, <2>2
  <1>3. CASE ~gpu_check_used
    BY <1>1, <1>3
       DEF DisplayNext, displayvars, gpu_init, gpu_submit_control, gpu_wait_used,
           gpu_wait_used_timeout, DeviceExecutes, virtio_gpu_irq_handle, gm_rect, ltrs_color,
           Draw, SetUpFirst
  <1> QED BY <1>2, <1>3

(* However many commands were given up, and whenever the device executes   *)
(* them, the next that is answered once it has caught up is not refused.   *)
THEOREM NeverOutOfStep == DisplaySpec => StaysInStep
  <1> DEFINE Inv == SetUpFirst /\ InStep
  <1>1. DisplayInit => Inv
    BY InitSetUpFirst, InitInStep
  <1>2. Inv /\ [DisplayNext]_displayvars => Inv'
    BY StaysSetUp, DeviceInStep, DriverInStep
  <1>3. Inv /\ [DisplayNext]_displayvars =>
           [phase = "check" /\ outcome' = "mismatch" => used_idx # avail_idx]_displayvars
    BY NoMismatch
  <1> QED BY <1>1, <1>2, <1>3, PTL DEF DisplaySpec, StaysInStep
-----------------------------------------------------------------------------
(* The pictures.  What is drawn is all in the buffer that is drawn into,   *)
(* which is the back buffer once there is a resource; the other gets it at *)
(* the swap.                                                               *)
Slots == 0 .. CommandSlots - 1
Drawings == SUBSET (1 .. drawings)
NoPictures == [b \in {0, 1} |-> {}]

DisplayTypes ==
    /\ gpu_queue_size \in {0} \cup vq_setup_v1 /\ phase \in {"submit", "poll", "check"}
    /\ gpu_front_buffer \in {0, 1} /\ gpu_back_buffer = 1 - gpu_front_buffer
    /\ gpu_framebuffer \in {0, 1}
    /\ drawings \in Nat /\ timeouts \in Nat
    /\ storage \in [{0, 1} -> Drawings] /\ host \in [{0, 1} -> Drawings]
    /\ shown \in Drawings
    /\ cmd_slot \in [Slots -> Requests \cup {Command("none", None)}]
    /\ desc_slot \in [0 .. VIRTIO_QUEUE_SIZE - 1 -> Slots]
    /\ resp_slot \in [Slots -> {"none", "ok", "error"}]
    /\ scanout \in {0, 1, None} /\ resource \in {"none", "created", "attached"}

Buffered ==
    /\ storage[gpu_framebuffer] = 1 .. drawings
    /\ \/ gpu_framebuffer = gpu_back_buffer
       \/ resource = "none" /\ \A i \in Slots : cmd_slot[i].type # "create"

(* What is left of an operation.  Until the initialisation ends nothing is *)
(* drawn or shown; from the transfer on a flush has the back buffer's      *)
(* picture in the resource, whatever late commands the device executes.    *)
Initials == {gpu_init_commands, <<gpu_attach_backing, gpu_set_scanout(0)>>, <<gpu_set_scanout(0)>>}
FlushRest(b) == {<<Command("flush", b), gpu_set_scanout(b)>>, <<gpu_set_scanout(b)>>}

Unused ==
    /\ drawings = 0 /\ gpu_front_buffer = 0 /\ storage = NoPictures /\ shown = {}
    /\ timeouts = 0 => host = NoPictures

Beginning == todo \in {<<Command("init", None)>>, <<gpu_get_display_info>>} /\ Unused
Initialising == todo \in Initials /\ gpu_framebuffer = 1 /\ Unused
Transferred == todo \in FlushRest(gpu_back_buffer) /\ host[gpu_back_buffer] = storage[gpu_back_buffer]

Stage ==
    \/ todo = <<>> \/ Beginning \/ Initialising
    \/ todo = gpu_flush_commands(gpu_back_buffer) \/ Transferred

(* A command that is out is in its slot, and its descriptors name the      *)
(* slot; so if the last that the device executed has its head, and the     *)
(* slot has an answer, it was this command, at whatever index it was.      *)
SlotIn(size, i) == (i % size) % CommandSlots

Effect(c) ==
    /\ c.type = "transfer" /\ c.buffer \in {0, 1} => host[c.buffer] = storage[c.buffer]
    /\ c.type = "scanout" => scanout = c.buffer /\ resource = "attached"

Answered ==
    phase # "submit" =>
       /\ cmd_slot[SlotIn(gpu_queue_size, awaited)] = Head(todo)
       /\ desc_slot[HeadIn(gpu_queue_size, awaited)] = SlotIn(gpu_queue_size, awaited)
       /\ (/\ used_idx > 0 /\ HeadIn(gpu_queue_size, used_idx - 1) = HeadIn(gpu_queue_size, awaited)
           /\ resp_slot[SlotIn(gpu_queue_size, awaited)] = "ok")
          => Effect(Head(todo))

(* As long as no command was given up the device is never behind.          *)
Lockstep ==
    timeouts = 0 =>
       /\ phase = "submit" => gpu_used_idx = avail_idx
       /\ phase = "poll" => gpu_used_idx = avail_idx - 1
       /\ phase = "check" => gpu_used_idx = avail_idx

(* The screen, with what is known of a scan-out that is out: it has been   *)
(* answered, and the swap will follow.                                     *)
Switched ==
    /\ phase # "submit" /\ used_idx = avail_idx
    /\ Head(todo) = gpu_set_scanout(scanout)
    /\ resp_slot[SlotIn(gpu_queue_size, awaited)] = "ok"
    /\ host[scanout] = storage[scanout]

Kept == host[scanout] = shown /\ scanout = gpu_front_buffer
OnScreen == timeouts = 0 => scanout = None \/ Kept \/ Switched

Pictured == DisplayTypes /\ Buffered /\ Stage /\ Answered /\ Lockstep /\ OnScreen
DisplayInv == SetUpFirst /\ InStep /\ Pictured

(* Heads and tails of short lists.                                         *)
LEMMA Sequels ==
    \A a, b, c :
       /\ <<a, b, c>> # <<>> /\ Head(<<a, b, c>>) = a /\ Tail(<<a, b, c>>) = <<b, c>>
       /\ <<b, c>> # <<>> /\ Head(<<b, c>>) = b /\ Tail(<<b, c>>) = <<c>>
       /\ <<c>> # <<>> /\ Head(<<c>>) = c /\ Tail(<<c>>) = <<>>
  OBVIOUS

(* The parts of a command.                                                 *)
LEMMA Commands == \A t, b : Command(t, b).type = t /\ Command(t, b).buffer = b
  BY DEF Command

(* What the lists of gpu_init and of a flush have next, and after it.      *)
LEMMA BeginningHead ==
    ASSUME NEW p \in {<<Command("init", None)>>, <<gpu_get_display_info>>}
    PROVE  p # <<>> /\ Head(p).type \in {"init", "info"}
  BY Sequels, Commands DEF gpu_get_display_info

LEMMA InitialHead ==
    ASSUME NEW p \in Initials
    PROVE  /\ p # <<>> /\ Head(p).type \in {"create", "attach", "scanout"}
           /\ Tail(p) \in Initials \cup {<<>>}
           /\ Head(p).type = "scanout" => Head(p) = gpu_set_scanout(0) /\ Tail(p) = <<>>
  <1> DEFINE C == gpu_create_resource
             A == gpu_attach_backing
             Z == gpu_set_scanout(0)
  <1>1. C.type = "create" /\ A.type = "attach" /\ Z.type = "scanout"
    BY Commands DEF gpu_create_resource, gpu_attach_backing, gpu_set_scanout
  <1>2. Initials = {<<C, A, Z>>, <<A, Z>>, <<Z>>}
    BY DEF Initials, gpu_init_commands
  <1> HIDE DEF C, A, Z
  <1>3. CASE p = <<C, A, Z>>
    BY <1>1, <1>2, <1>3, Sequels
  <1>4. CASE p = <<A, Z>>
    BY <1>1, <1>2, <1>4, Sequels
  <1>5. CASE p = <<Z>>
    <2>1. p # <<>> /\ Head(p) = Z /\ Tail(p) = <<>>
      BY <1>5, Sequels
    <2> QED BY <1>1, <2>1 DEF Z
  <1> QED BY <1>2, <1>3, <1>4, <1>5

LEMMA FlushHead ==
    ASSUME NEW b
    PROVE  /\ gpu_flush_commands(b) # <<>>
           /\ Head(gpu_flush_commands(b)) = gpu_transfer_to_host_2d(b)
           /\ Head(gpu_flush_commands(b)).type = "transfer"
           /\ Head(gpu_flush_commands(b)).buffer = b
           /\ Tail(gpu_flush_commands(b)) \in FlushRest(b)
  BY Sequels, Commands DEF gpu_flush_commands, FlushRest, gpu_transfer_to_host_2d

LEMMA RestHead ==
    ASSUME NEW b, NEW p \in FlushRest(b)
    PROVE  /\ p # <<>> /\ Head(p).type \in {"flush", "scanout"} /\ Head(p).buffer = b
           /\ Head(p).type = "flush" => Tail(p) \in FlushRest(b)
           /\ Head(p).type = "scanout" => Head(p) = gpu_set_scanout(b)
  <1> DEFINE F == Command("flush", b)
             Z == gpu_set_scanout(b)
  <1>1. F.type = "flush" /\ F.buffer = b /\ Z.type = "scanout" /\ Z.buffer = b
    BY Commands DEF gpu_set_scanout
  <1>2. FlushRest(b) = {<<F, Z>>, <<Z>>}
    BY DEF FlushRest
  <1> HIDE DEF F
  <1>3. CASE p = <<F, Z>>
    <2>1. p # <<>> /\ Head(p) = F /\ Tail(p) = <<Z>>
      BY <1>3, Sequels
    <2> QED BY <1>1, <1>2, <2>1
  <1>4. CASE p = <<Z>>
    <2>1. p # <<>> /\ Head(p) = Z
      BY <1>4, Sequels
    <2> QED BY <1>1, <2>1
  <1> QED BY <1>2, <1>3, <1>4

(* Slots and descriptors of a submission are in their tables.              *)
LEMMA SlotThere == ASSUME SetUpFirst, gpu_queue_size >= 2, NEW i \in Nat
                   PROVE  /\ SlotIn(gpu_queue_size, i) \in Slots
                          /\ HeadIn(gpu_queue_size, i) \in 0 .. VIRTIO_QUEUE_SIZE - 1
  <1>1. PICK size \in Nat : size = gpu_queue_size /\ size >= 2 /\ size <= VIRTIO_QUEUE_SIZE
    BY DisplayAssumption DEF SetUpFirst
  <1>2. PICK k \in Nat : k = i % size
    <2>1. i % size \in 0 .. size - 1
      BY <1>1, Remainder
    <2>2. i % size \in Nat
      BY <1>1, <2>1
    <2> QED BY <2>2
  <1>3. k % CommandSlots \in Slots
    BY DisplayAssumption, Remainder DEF Slots
  <1>4. PICK half \in Nat \ {0} : half = size \div 2 /\ half * 2 <= size
    <2>1. size \div 2 \in Nat /\ size \div 2 # 0 /\ (size \div 2) * 2 <= size
      BY <1>1
    <2> QED BY <2>1
  <1>5. k % half \in 0 .. half - 1
    BY <1>4, Remainder
  <1>6. (k % half) * 2 \in 0 .. VIRTIO_QUEUE_SIZE - 1
    <2>1. PICK r \in 0 .. half - 1 : r = k % half
      BY <1>5
    <2> QED BY <1>1, <1>4, <2>1, DisplayAssumption
  <1> QED BY <1>1, <1>2, <1>3, <1>4, <1>6 DEF SlotIn, HeadIn

(* Everything but the interrupt register and the outcome.                  *)
pictured ==
    <<gpu_queue_size, buffers, todo, phase, awaited, gpu_used_idx, ring, device, resp_slot, drawings,
      shown, timeouts>>

(* What Pictured speaks of is left alone, so it stays.                     *)
LEMMA StillPictured == ASSUME Pictured, UNCHANGED pictured PROVE Pictured'
  <1> USE DEF pictured, buffers, ring, device, Pictured
  <1>1. DisplayTypes'
    BY DEF DisplayTypes, Drawings
  <1>2. Buffered'
    BY DEF Buffered
  <1>3. Stage'
    BY DEF Stage, Beginning, Initialising, Transferred, Unused
  <1>4. Answered'
    BY DEF Answered, Effect
  <1>5. Lockstep'
    BY DEF Lockstep
  <1>6. OnScreen'
    BY DEF OnScreen, Kept, Switched
  <1> QED BY <1>1, <1>2, <1>3, <1>4, <1>5, <1>6

(* Nothing is drawn, shown or copied yet.                                  *)
LEMMA InitPictured == DisplayInit => Pictured
  <1> SUFFICES ASSUME DisplayInit PROVE Pictured
    OBVIOUS
  <1>1. /\ gpu_queue_size = 0 /\ gpu_front_buffer = 0 /\ gpu_back_buffer = 1 /\ gpu_framebuffer = 0
        /\ storage = NoPictures /\ host = NoPictures /\ shown = {} /\ drawings = 0 /\ timeouts = 0
        /\ todo = <<Command("init", None)>> /\ phase = "submit" /\ avail_idx = 0 /\ gpu_used_idx = 0
        /\ scanout = None /\ resource = "none"
    BY DEF DisplayInit, NoPictures
  <1>2. \A i \in Slots : cmd_slot[i] = Command("none", None)
    BY DEF DisplayInit, Slots
  <1>3. DisplayTypes
    <2>1. NoPictures \in [{0, 1} -> Drawings] /\ {} \in Drawings
      BY DEF NoPictures, Drawings
    <2>2. /\ cmd_slot \in [Slots -> Requests \cup {Command("none", None)}]
          /\ resp_slot \in [Slots -> {"none", "ok", "error"}]
      BY DEF DisplayInit, Slots
    <2>3. desc_slot \in [0 .. VIRTIO_QUEUE_SIZE - 1 -> Slots]
      BY DisplayAssumption DEF DisplayInit, Slots
    <2> QED BY <1>1, <2>1, <2>2, <2>3 DEF DisplayTypes
  <1>4. Buffered
    <2>1. "none" # "create" /\ 1 .. 0 = {}
      OBVIOUS
    <2> QED BY <1>1, <1>2, <2>1, Commands DEF Buffered, NoPictures
  <1>5. Stage
    BY <1>1 DEF Stage, Beginning, Unused
  <1> QED BY <1>1, <1>3, <1>4, <1>5 DEF Pictured, Answered, Lockstep, OnScreen

(* gpu_init sets the queue up and has its commands to send.                *)
LEMMA InitCommandPictured == ASSUME DisplayInv, gpu_init PROVE Pictured'
  <1>1. /\ UNCHANGED <<buffers, ring, device, phase, awaited, gpu_used_idx, resp_slot, drawings,
                       shown, timeouts>>
        /\ phase = "submit" /\ todo # <<>> /\ Head(todo).type = "init"
        /\ todo' \in {<<>>, <<gpu_get_display_info>>}
        /\ gpu_queue_size' \in {gpu_queue_size} \cup vq_setup_v1
    BY DEF gpu_init
  <1> USE DEF buffers, ring, device, DisplayInv, Pictured
  <1>2. DisplayTypes'
    BY <1>1 DEF DisplayTypes, Drawings
  <1>3. Buffered'
    BY <1>1 DEF Buffered
  <1>4. Beginning
    <2>1. todo \notin Initials
      BY <1>1, InitialHead
    <2>2. todo # gpu_flush_commands(gpu_back_buffer)
      BY <1>1, FlushHead
    <2>3. todo \notin FlushRest(gpu_back_buffer)
      BY <1>1, RestHead
    <2> QED BY <1>1, <2>1, <2>2, <2>3 DEF Stage, Initialising, Transferred
  <1>5. Stage'
    BY <1>1, <1>4 DEF Stage, Beginning, Unused
  <1>6. Answered' /\ Lockstep'
    BY <1>1 DEF Answered, Lockstep
  <1>7. OnScreen'
    BY <1>1 DEF OnScreen, Kept, Switched
  <1> QED BY <1>2, <1>3, <1>5, <1>6, <1>7

(* A wait that ends, in time or not, changes no picture.                   *)
LEMMA TimeoutPictured == ASSUME DisplayInv, gpu_wait_used_timeout PROVE Pictured'
  <1>1. /\ UNCHANGED <<gpu_queue_size, buffers, ring, device, resp_slot, drawings, shown>>
        /\ phase' = "submit" /\ todo' = <<>> /\ timeouts' = timeouts + 1
    BY DEF gpu_wait_used_timeout
  <1> USE DEF buffers, ring, device, DisplayInv, Pictured
  <1>2. DisplayTypes'
    BY <1>1 DEF DisplayTypes, Drawings
  <1>3. Buffered'
    BY <1>1 DEF Buffered
  <1>4. timeouts' # 0
    BY <1>1 DEF DisplayTypes
  <1> QED BY <1>1, <1>2, <1>3, <1>4 DEF Stage, Answered, Lockstep, OnScreen

LEMMA WaitPictured == ASSUME DisplayInv, gpu_wait_used PROVE Pictured'
  <1>1. /\ UNCHANGED <<gpu_queue_size, buffers, todo, awaited, ring, device, resp_slot, drawings,
                       shown, timeouts>>
        /\ phase = "poll" /\ phase' = "check" /\ used_idx # gpu_used_idx
        /\ gpu_used_idx' = used_idx
    BY DEF gpu_wait_used
  <1> USE DEF buffers, ring, device, DisplayInv, Pictured
  <1>2. DisplayTypes'
    BY <1>1 DEF DisplayTypes, Drawings
  <1>3. Buffered'
    BY <1>1 DEF Buffered
  <1>4. Stage'
    BY <1>1 DEF Stage, Beginning, Initialising, Transferred, Unused
  <1>5. Answered'
    BY <1>1 DEF Answered, Effect
  <1>6. Lockstep'
    BY <1>1 DEF Lockstep, InStep, SetUpFirst
  <1>7. OnScreen'
    BY <1>1 DEF OnScreen, Kept, Switched
  <1> QED BY <1>2, <1>3, <1>4, <1>5, <1>6, <1>7

(* A command is put in its slot, behind those not executed.                *)
LEMMA SubmitPictured ==
    ASSUME DisplayInv, SetUpFirst', gpu_submit_control
    PROVE  Pictured'
  <1>1. /\ UNCHANGED <<gpu_queue_size, buffers, gpu_used_idx, device, drawings, shown, timeouts>>
        /\ phase = "submit" /\ todo # <<>> /\ Head(todo).type # "init"
    BY DEF gpu_submit_control
  <1> USE DEF buffers, device, DisplayInv, Pictured
  <1>2. CASE todo' = <<>> /\ UNCHANGED <<phase, awaited, ring, resp_slot>>
    <2> USE DEF ring
    <2>1. DisplayTypes'
      BY <1>1, <1>2 DEF DisplayTypes, Drawings
    <2>2. Buffered'
      BY <1>1, <1>2 DEF Buffered
    <2>3. OnScreen'
      BY <1>1, <1>2 DEF OnScreen, Kept, Switched
    <2> QED BY <1>1, <1>2, <2>1, <2>2, <2>3 DEF Stage, Answered, Lockstep
  <1>3. CASE gpu_queue_size >= 2 /\ phase' = "poll"
    <2>1. PICK i : i = SlotIn(gpu_queue_size, avail_idx)
      OBVIOUS
    <2>2. PICK h : h = HeadIn(gpu_queue_size, avail_idx)
      OBVIOUS
    <2>3. SlotOf(avail_idx) = i /\ HeadOf(avail_idx) = h
      BY <2>1, <2>2, HeadOfIn DEF SlotOf, SlotIn
    <2>4. /\ cmd_slot' = [cmd_slot EXCEPT ![i] = Head(todo)]
          /\ resp_slot' = [resp_slot EXCEPT ![i] = "none"]
          /\ desc_slot' = [desc_slot EXCEPT ![h] = i]
          /\ awaited' = avail_idx /\ avail_idx' = avail_idx + 1 /\ UNCHANGED todo
      BY <1>1, <1>3, <2>3 DEF gpu_submit_control
    <2>5. i \in Slots /\ h \in 0 .. VIRTIO_QUEUE_SIZE - 1 /\ avail_idx \in Nat
      BY <1>3, <2>1, <2>2, SlotThere DEF SetUpFirst
    <2>6. Head(todo) \in Requests
      <3>1. todo \in Seq(Requests)
        BY <1>1, InitIsFirst DEF SetUpFirst, Planned
      <3> QED BY <1>1, <3>1
    <2>7. DisplayTypes'
      <3>1. /\ cmd_slot' \in [Slots -> Requests \cup {Command("none", None)}]
            /\ desc_slot' \in [0 .. VIRTIO_QUEUE_SIZE - 1 -> Slots]
            /\ resp_slot' \in [Slots -> {"none", "ok", "error"}]
        BY <2>4, <2>5, <2>6 DEF DisplayTypes
      <3> QED BY <1>1, <1>3, <3>1 DEF DisplayTypes, Drawings
    <2>8. Buffered'
      <3>1. gpu_framebuffer = gpu_back_buffer \/ Head(todo).type # "create"
        <4>1. Beginning => Head(todo).type # "create"
          BY BeginningHead DEF Beginning
        <4>2. Initialising => gpu_framebuffer = gpu_back_buffer
          BY DEF Initialising, Unused, DisplayTypes
        <4>3. todo = gpu_flush_commands(gpu_back_buffer) => Head(todo).type # "create"
          BY FlushHead
        <4>4. Transferred => Head(todo).type # "create"
          BY RestHead DEF Transferred
        <4> QED BY <1>1, <4>1, <4>2, <4>3, <4>4 DEF Stage
      <3>2. \A j \in Slots : cmd_slot'[j] = IF j = i THEN Head(todo) ELSE cmd_slot[j]
        BY <2>4 DEF DisplayTypes
      <3> QED BY <1>1, <3>1, <3>2 DEF Buffered
    <2>9. Stage'
      BY <1>1, <2>4 DEF Stage, Beginning, Initialising, Transferred, Unused
    <2>10. Answered'
      <3>1. cmd_slot'[i] = Head(todo) /\ resp_slot'[i] = "none" /\ desc_slot'[h] = i
        BY <2>4, <2>5 DEF DisplayTypes
      <3> QED BY <1>1, <2>1, <2>2, <2>4, <3>1 DEF Answered
    <2>11. Lockstep'
      BY <1>1, <1>3, <2>4, <2>5 DEF Lockstep
    <2>12. OnScreen'
      BY <1>1 DEF OnScreen, Kept, Switched
    <2> QED BY <2>7, <2>8, <2>9, <2>10, <2>11, <2>12
  <1> QED BY <1>1, <1>2, <1>3 DEF gpu_submit_control

(* A drawing goes to the buffer drawn into; a flush is planned or not.     *)
LEMMA DrawPictured ==
    ASSUME DisplayInv, NEW fits \in BOOLEAN, Draw(fits)
    PROVE  Pictured'
  <1>1. /\ todo = <<>> /\ drawings' = drawings + 1
        /\ storage' = [storage EXCEPT ![gpu_framebuffer] = @ \cup {drawings + 1}]
        /\ todo' \in {<<>>, gpu_flush_commands(gpu_back_buffer)}
        /\ UNCHANGED <<gpu_queue_size, gpu_front_buffer, gpu_back_buffer, gpu_framebuffer, phase,
                       awaited, gpu_used_idx, ring, device, resp_slot, shown, timeouts>>
    BY DEF Draw
  <1> USE DEF ring, device, DisplayInv, Pictured
  <1>2. PICK n \in Nat : n = drawings
    BY DEF DisplayTypes
  <1>3. /\ 1 .. n \subseteq 1 .. n + 1 /\ 1 .. n + 1 = (1 .. n) \cup {n + 1}
    OBVIOUS
  <1>4. DisplayTypes'
    <2>1. Drawings' = SUBSET (1 .. n + 1) /\ Drawings = SUBSET (1 .. n)
      BY <1>1, <1>2 DEF Drawings
    <2>2. Drawings \subseteq Drawings' /\ \A x \in Drawings : x \cup {n + 1} \in Drawings'
      BY <1>3, <2>1
    <2>3. storage' \in [{0, 1} -> Drawings'] /\ host' \in [{0, 1} -> Drawings'] /\ shown' \in Drawings'
      BY <1>1, <1>2, <2>2 DEF DisplayTypes
    <2> HIDE DEF Drawings
    <2> QED BY <1>1, <2>3 DEF DisplayTypes
  <1>5. Buffered'
    <2>1. storage'[gpu_framebuffer] = storage[gpu_framebuffer] \cup {n + 1}
      BY <1>1, <1>2 DEF DisplayTypes
    <2>2. storage[gpu_framebuffer] = 1 .. n
      BY <1>2 DEF Buffered
    <2> QED BY <1>1, <1>2, <1>3, <2>1, <2>2 DEF Buffered
  <1>6. Stage'
    BY <1>1 DEF Stage
  <1>7. phase = "submit"
    BY <1>1 DEF SetUpFirst
  <1>8. OnScreen'
    BY <1>1, <1>7 DEF OnScreen, Kept, Switched
  <1> QED BY <1>1, <1>4, <1>5, <1>6, <1>7, <1>8 DEF Answered, Lockstep

(* What the device executes next, and what of it.                          *)
LEMMA InOrder ==
    ASSUME DisplayInv, timeouts = 0, used_idx < avail_idx
    PROVE  /\ phase = "poll" /\ used_idx = awaited /\ used_idx + 1 = avail_idx
           /\ desc_slot[HeadIn(gpu_queue_size, used_idx)] = SlotIn(gpu_queue_size, awaited)
           /\ cmd_slot[SlotIn(gpu_queue_size, awaited)] = Head(todo)
  <1>1. avail_idx \in Nat /\ used_idx \in Nat /\ gpu_used_idx \in Nat /\ gpu_used_idx <= used_idx
    BY DEF DisplayInv, SetUpFirst, InStep
  <1>2. phase = "poll" /\ gpu_used_idx = avail_idx - 1
    BY <1>1 DEF DisplayInv, Pictured, Lockstep, DisplayTypes
  <1>3. awaited = avail_idx - 1
    BY <1>2 DEF DisplayInv, InStep
  <1>4. used_idx = awaited /\ used_idx + 1 = avail_idx
    BY <1>1, <1>2, <1>3
  <1> QED BY <1>2, <1>4 DEF DisplayInv, Pictured, Answered

(* The device executes what the slot of its next command holds.            *)
LEMMA ExecutePictured == ASSUME DisplayInv, DeviceExecutes PROVE Pictured'
  <1>1. PICK h : h = HeadIn(gpu_queue_size, used_idx)
    OBVIOUS
  <1>2. PICK i : i = desc_slot[h]
    OBVIOUS
  <1>3. PICK c : c = cmd_slot[i]
    OBVIOUS
  <1>4. h = HeadOf(used_idx)
    BY <1>1, HeadOfIn
  <1>5. PICK answer \in {"ok", "error"} :
           Execute(c, answer) /\ resp_slot' = [resp_slot EXCEPT ![i] = answer]
    BY <1>2, <1>3, <1>4 DEF DeviceExecutes
  <1>6. /\ used_idx < avail_idx /\ used_idx' = used_idx + 1
        /\ UNCHANGED <<gpu_queue_size, buffers, todo, phase, awaited, gpu_used_idx, ring, drawings,
                       shown, timeouts>>
    BY DEF DeviceExecutes
  <1>7. /\ resource # "attached" => ~(c.type = "scanout" /\ answer = "ok")
        /\ resource = "none" /\ c.type # "create" => resource' = "none"
        /\ resource = "attached" => resource' = "attached"
        /\ resource' \in {"none", "created", "attached"}
    BY <1>5 DEF Execute, DisplayInv, Pictured, DisplayTypes
  <1>8. /\ host' = IF c.type = "transfer" /\ answer = "ok"
                   THEN [host EXCEPT ![c.buffer] = storage[c.buffer]] ELSE host
        /\ scanout' = IF c.type = "scanout" /\ answer = "ok" THEN c.buffer ELSE scanout
    BY <1>5 DEF Execute
  <1> USE DEF buffers, ring, DisplayInv, Pictured
  <1>9. avail_idx \in Nat /\ used_idx \in Nat /\ gpu_queue_size >= 2
    BY <1>6 DEF SetUpFirst, InStep
  <1>10. i \in Slots /\ c \in Requests \cup {Command("none", None)}
    <2>1. h \in 0 .. VIRTIO_QUEUE_SIZE - 1
      BY <1>1, <1>9, SlotThere
    <2> QED BY <1>2, <1>3, <2>1 DEF DisplayTypes
  <1>11. c.buffer \in {0, 1, None}
    BY <1>10, Commands DEF Requests
  <1>12. \A b \in {0, 1} : host'[b] = host[b] \/ host'[b] = storage[b]
    BY <1>8 DEF DisplayTypes
  <1>13. DisplayTypes'
    <2>1. host' \in [{0, 1} -> Drawings]
      BY <1>8 DEF DisplayTypes
    <2>2. scanout' \in {0, 1, None}
      BY <1>8, <1>11 DEF DisplayTypes
    <2>3. resp_slot' \in [Slots -> {"none", "ok", "error"}]
      BY <1>5, <1>10 DEF DisplayTypes
    <2>4. Drawings' = Drawings
      BY <1>6 DEF Drawings
    <2> HIDE DEF Drawings
    <2> QED BY <1>6, <1>7, <2>1, <2>2, <2>3, <2>4 DEF DisplayTypes
  <1>14. Buffered'
    <2>1. (\A j \in Slots : cmd_slot[j].type # "create") => c.type # "create"
      <3>1. i \in Slots
        BY <1>10
      <3> QED BY <1>3, <3>1
    <2> QED BY <1>6, <1>7, <2>1 DEF Buffered
  <1>15. timeouts = 0 => c = Head(todo) /\ i = SlotIn(gpu_queue_size, awaited)
                         /\ phase = "poll" /\ used_idx' = avail_idx
    BY <1>1, <1>2, <1>3, <1>6, InOrder
  <1>16. todo # <<>> /\ c = Head(todo) /\ c.type \in {"transfer", "scanout"} =>
            \/ /\ Initialising /\ c = gpu_set_scanout(0) /\ c.type = "scanout"
            \/ /\ todo = gpu_flush_commands(gpu_back_buffer)
               /\ c.type = "transfer" /\ c.buffer = gpu_back_buffer
            \/ /\ Transferred /\ c = gpu_set_scanout(gpu_back_buffer) /\ c.type = "scanout"
    <2> SUFFICES ASSUME todo # <<>>, c = Head(todo), c.type \in {"transfer", "scanout"}
                 PROVE  \/ /\ Initialising /\ c = gpu_set_scanout(0) /\ c.type = "scanout"
                        \/ /\ todo = gpu_flush_commands(gpu_back_buffer)
                           /\ c.type = "transfer" /\ c.buffer = gpu_back_buffer
                        \/ /\ Transferred /\ c = gpu_set_scanout(gpu_back_buffer)
                           /\ c.type = "scanout"
      OBVIOUS
    <2>1. ~Beginning
      BY BeginningHead DEF Beginning
    <2>2. CASE Initialising
      BY <2>2, InitialHead DEF Initialising
    <2>3. CASE todo = gpu_flush_commands(gpu_back_buffer)
      BY <2>3, FlushHead
    <2>4. CASE Transferred
      BY <2>4, RestHead DEF Transferred
    <2> QED BY <2>1, <2>2, <2>3, <2>4 DEF Stage
  <1>17. Stage'
    <2>1. todo' = todo /\ gpu_back_buffer' = gpu_back_buffer /\ gpu_framebuffer' = gpu_framebuffer
      BY <1>6
    <2>2. CASE Beginning \/ Initialising
      <3>1. timeouts = 0 => c.type # "transfer"
        <4> SUFFICES ASSUME timeouts = 0, c.type = "transfer" PROVE FALSE
          OBVIOUS
        <4>1. Head(todo).type = "transfer"
          BY <1>15
        <4>2. CASE Beginning
          BY <4>1, <4>2, BeginningHead DEF Beginning
        <4>3. CASE Initialising
          BY <4>1, <4>3, InitialHead DEF Initialising
        <4> QED BY <2>2, <4>2, <4>3
      <3>2. Unused'
        BY <1>6, <1>8, <2>2, <3>1 DEF Beginning, Initialising, Unused
      <3> QED BY <2>1, <2>2, <3>2 DEF Stage, Beginning, Initialising
    <2>3. CASE Transferred
      <3>1. gpu_back_buffer \in {0, 1}
        BY DEF DisplayTypes
      <3>2. host'[gpu_back_buffer] = storage[gpu_back_buffer]
        BY <1>12, <2>3, <3>1 DEF Transferred
      <3> QED BY <1>6, <2>1, <2>3, <3>2 DEF Stage, Transferred
    <2> QED BY <2>1, <2>2, <2>3 DEF Stage
  <1>18. Answered'
    <2> SUFFICES ASSUME phase # "submit", used_idx + 1 > 0,
                        HeadIn(gpu_queue_size, used_idx) = HeadIn(gpu_queue_size, awaited),
                        resp_slot'[SlotIn(gpu_queue_size, awaited)] = "ok"
                 PROVE  Effect(Head(todo))'
      BY <1>6, <1>9 DEF Answered
    <2>1. i = SlotIn(gpu_queue_size, awaited) /\ c = Head(todo)
      BY <1>1, <1>2, <1>3 DEF Answered
    <2>2. answer = "ok"
      BY <1>5, <1>10, <2>1 DEF DisplayTypes
    <2>3. c.type = "transfer" /\ c.buffer \in {0, 1} => host'[c.buffer] = storage[c.buffer]
      BY <1>8, <2>2 DEF DisplayTypes
    <2>4. c.type = "scanout" => scanout' = c.buffer /\ resource' = "attached"
      BY <1>7, <1>8, <2>2
    <2> QED BY <1>6, <2>1, <2>3, <2>4 DEF Effect
  <1>19. Lockstep'
    BY <1>6, <1>15 DEF Lockstep
  <1>20. OnScreen'
    <2> SUFFICES ASSUME timeouts = 0 PROVE scanout' = None \/ Kept' \/ Switched'
      BY <1>6 DEF OnScreen
    <2>1. /\ c = Head(todo) /\ i = SlotIn(gpu_queue_size, awaited) /\ phase = "poll"
          /\ used_idx' = avail_idx
      BY <1>15
    <2>2. scanout = None \/ Kept
      BY <1>6, <1>9 DEF OnScreen, Switched
    <2>3. todo # <<>>
      BY <2>1 DEF SetUpFirst
    <2>4. CASE c.type = "scanout" /\ answer = "ok"
      <3>1. scanout' = c.buffer /\ host' = host /\ storage' = storage
        BY <1>6, <1>8, <2>4
      <3>2. \E b \in {0, 1} : c = gpu_set_scanout(b) /\ host[b] = storage[b]
        <4>1. gpu_back_buffer \in {0, 1}
          BY DEF DisplayTypes
        <4>2. Initialising => host[0] = storage[0]
          BY DEF Initialising, Unused
        <4> QED BY <1>16, <2>1, <2>3, <2>4, <4>1, <4>2 DEF Transferred
      <3>3. PICK b \in {0, 1} : c = gpu_set_scanout(b) /\ host[b] = storage[b]
        BY <3>2
      <3>4. c.buffer = b
        BY <3>3, Commands DEF gpu_set_scanout
      <3>5. resp_slot'[i] = "ok"
        BY <1>5, <1>10, <2>4 DEF DisplayTypes
      <3> QED BY <1>6, <2>1, <3>1, <3>3, <3>4, <3>5 DEF Switched
    <2>5. CASE ~(c.type = "scanout" /\ answer = "ok")
      <3>1. scanout' = scanout
        BY <1>8, <2>5
      <3>2. Kept => Kept'
        <4>1. Kept => host'[gpu_front_buffer] = host[gpu_front_buffer]
          <5>1. CASE c.type = "transfer" /\ answer = "ok"
            <6>1. c.buffer = gpu_back_buffer
              BY <1>16, <2>1, <2>3, <5>1
            <6>2. gpu_front_buffer \in {0, 1} /\ gpu_back_buffer # gpu_front_buffer
              BY DEF DisplayTypes
            <6> QED BY <1>8, <5>1, <6>1, <6>2 DEF DisplayTypes
          <5> QED BY <1>8, <5>1
        <4> QED BY <1>6, <3>1, <4>1 DEF Kept
      <3> QED BY <2>2, <3>1, <3>2
    <2> QED BY <2>4, <2>5
  <1> QED BY <1>13, <1>14, <1>17, <1>18, <1>19, <1>20

(* The answer is the awaited command's, whichever index the device was at. *)
LEMMA AnswerIs ==
    ASSUME DisplayInv, phase = "check"
    PROVE  /\ todo # <<>>
           /\ LastUsed = HeadIn(gpu_queue_size, used_idx - 1) /\ used_idx > 0
           /\ SlotOf(awaited) = SlotIn(gpu_queue_size, awaited)
           /\ HeadOf(awaited) = HeadIn(gpu_queue_size, awaited)
           /\ LastUsed = HeadOf(awaited) /\ resp_slot[SlotOf(awaited)] = "ok" => Effect(Head(todo))
           /\ timeouts = 0 => LastUsed = HeadOf(awaited)
  <1>1. LastUsed = HeadIn(gpu_queue_size, used_idx - 1) /\ used_idx > 0 /\ awaited = avail_idx - 1
    BY DEF DisplayInv, InStep
  <1>2. SlotOf(awaited) = SlotIn(gpu_queue_size, awaited)
    BY DEF SlotOf, SlotIn
  <1>3. HeadOf(awaited) = HeadIn(gpu_queue_size, awaited)
    BY HeadOfIn
  <1>4. timeouts = 0 => used_idx - 1 = awaited
    <2>1. timeouts = 0 => gpu_used_idx = avail_idx
      BY DEF DisplayInv, Pictured, Lockstep
    <2>2. avail_idx \in Nat /\ used_idx \in 0 .. avail_idx /\ gpu_used_idx \in 0 .. used_idx
      BY DEF DisplayInv, SetUpFirst, InStep
    <2> QED BY <1>1, <2>1, <2>2
  <1>5. todo # <<>>
    BY DEF DisplayInv, SetUpFirst
  <1> QED BY <1>1, <1>2, <1>3, <1>4, <1>5 DEF DisplayInv, Pictured, Answered

(* A swap is the end of a flush, with the whole picture on the screen.     *)
LEMMA SwapIs ==
    ASSUME DisplayInv, todo # <<>>, Swaps(Head(todo)), Effect(Head(todo))
    PROVE  /\ scanout = gpu_back_buffer /\ gpu_framebuffer = gpu_back_buffer
           /\ host[gpu_back_buffer] = storage[gpu_back_buffer]
           /\ storage[gpu_back_buffer] = 1 .. drawings
  <1> USE DEF DisplayInv, Pictured
  <1>1. Head(todo).type = "scanout" /\ Head(todo).buffer = gpu_back_buffer
    BY DEF Swaps
  <1>2. scanout = gpu_back_buffer /\ resource = "attached"
    BY <1>1 DEF Effect
  <1>3. gpu_framebuffer = gpu_back_buffer /\ storage[gpu_back_buffer] = 1 .. drawings
    BY <1>2 DEF Buffered
  <1>4. Transferred
    <2>1. ~Beginning
      BY <1>1, BeginningHead DEF Beginning
    <2>2. ~Initialising
      <3> SUFFICES ASSUME Initialising PROVE FALSE
        OBVIOUS
      <3>1. Head(todo) = gpu_set_scanout(0)
        BY <1>1, InitialHead DEF Initialising
      <3>2. gpu_back_buffer = 0
        BY <1>1, <3>1, Commands DEF gpu_set_scanout
      <3> QED BY <3>2 DEF Initialising, Unused, DisplayTypes
    <2>3. todo # gpu_flush_commands(gpu_back_buffer)
      BY <1>1, FlushHead
    <2> QED BY <2>1, <2>2, <2>3 DEF Stage
  <1> QED BY <1>2, <1>3, <1>4 DEF Transferred

(* An answer for the newest command moves the driver on, a last one swaps  *)
(* the buffers; any other one ends the operation.                          *)
LEMMA CheckPictured == ASSUME DisplayInv, gpu_check_used PROVE Pictured'
  <1>1. /\ phase = "check" /\ phase' = "submit"
        /\ UNCHANGED <<gpu_queue_size, awaited, gpu_used_idx, ring, device, resp_slot, drawings,
                       timeouts>>
    BY DEF gpu_check_used
  <1>2. /\ todo # <<>> /\ SlotOf(awaited) = SlotIn(gpu_queue_size, awaited)
        /\ LastUsed = HeadOf(awaited) /\ resp_slot[SlotOf(awaited)] = "ok" => Effect(Head(todo))
        /\ timeouts = 0 => LastUsed = HeadOf(awaited)
    BY <1>1, AnswerIs
  <1> USE DEF buffers, ring, device, DisplayInv, Pictured
  <1>3. Answered' /\ Lockstep'
    BY <1>1 DEF Answered, Lockstep
  <1>4. Drawings' = Drawings
    BY <1>1 DEF Drawings
  <1>5. CASE /\ LastUsed # HeadOf(awaited) \/ resp_slot[SlotOf(awaited)] # "ok"
             /\ todo' = <<>> /\ UNCHANGED <<buffers, shown>>
    <2>1. DisplayTypes' /\ Buffered'
      BY <1>1, <1>4, <1>5 DEF DisplayTypes, Buffered
    <2>2. timeouts = 0 => ~Switched
      BY <1>2, <1>5 DEF Switched
    <2>3. OnScreen'
      BY <1>1, <1>5, <2>2 DEF OnScreen, Kept
    <2> QED BY <1>3, <1>5, <2>1, <2>3 DEF Stage
  <1>6. CASE Continue(Head(todo)) /\ Effect(Head(todo))
    <2>1. CASE /\ Head(todo).type = "info"
               /\ todo' = <<>> /\ UNCHANGED <<buffers, shown>>
      <3>1. DisplayTypes' /\ Buffered'
        BY <1>1, <1>4, <2>1 DEF DisplayTypes, Buffered
      <3>2. ~Switched
        BY <2>1, Commands DEF Switched, gpu_set_scanout
      <3>3. OnScreen'
        BY <1>1, <2>1, <3>2 DEF OnScreen, Kept
      <3> QED BY <1>3, <2>1, <3>1, <3>3 DEF Stage
    <2>2. CASE /\ Head(todo).type = "info" /\ todo' = gpu_init_commands
               /\ storage' = NoPictures /\ UNCHANGED shown
               /\ gpu_front_buffer' = 0 /\ gpu_back_buffer' = 1 /\ gpu_framebuffer' = 1
      <3>1. Unused
        <4>1. ~Initialising
          BY <2>2, InitialHead DEF Initialising
        <4>2. todo # gpu_flush_commands(gpu_back_buffer)
          BY <2>2, FlushHead
        <4>3. ~Transferred
          BY <2>2, RestHead DEF Transferred
        <4> QED BY <1>2, <4>1, <4>2, <4>3 DEF Stage, Beginning
      <3>2. DisplayTypes'
        <4>1. NoPictures \in [{0, 1} -> Drawings]
          BY DEF NoPictures, Drawings
        <4> QED BY <1>1, <1>4, <2>2, <4>1 DEF DisplayTypes
      <3>3. Buffered'
        <4>1. NoPictures[1] = {} /\ 1 .. 0 = {}
          BY DEF NoPictures
        <4> QED BY <1>1, <2>2, <3>1, <4>1 DEF Buffered, Unused
      <3>4. Stage'
        <4>1. Unused'
          BY <1>1, <2>2, <3>1 DEF Unused
        <4> QED BY <2>2, <4>1 DEF Stage, Initialising, Initials
      <3>5. ~Switched
        BY <2>2, Commands DEF Switched, gpu_set_scanout
      <3>6. OnScreen'
        BY <1>1, <2>2, <3>1, <3>5 DEF OnScreen, Kept, Unused
      <3> QED BY <1>3, <3>2, <3>3, <3>4, <3>6
    <2>3. CASE /\ Swaps(Head(todo)) /\ todo' = <<>>
               /\ gpu_front_buffer' = gpu_back_buffer
               /\ gpu_back_buffer' = 1 - gpu_back_buffer
               /\ gpu_framebuffer' = 1 - gpu_back_buffer
               /\ storage' = Copied(gpu_back_buffer) /\ shown' = storage[gpu_back_buffer]
      <3>1. /\ scanout = gpu_back_buffer /\ gpu_framebuffer = gpu_back_buffer
            /\ host[gpu_back_buffer] = storage[gpu_back_buffer]
            /\ storage[gpu_back_buffer] = 1 .. drawings
        BY <1>2, <1>6, <2>3, SwapIs
      <3>2. PICK b \in {0, 1} : b = gpu_back_buffer
        BY DEF DisplayTypes
      <3>3. 1 - b \in {0, 1} /\ b = 1 - (1 - b) /\ b # 1 - b
        BY <3>2
      <3>4. storage' = [storage EXCEPT ![1 - b] = storage[b]]
        BY <2>3, <3>2 DEF Copied
      <3>5. storage' \in [{0, 1} -> Drawings] /\ storage'[1 - b] = storage[b] /\ shown' \in Drawings
        BY <2>3, <3>2, <3>3, <3>4 DEF DisplayTypes
      <3>6. DisplayTypes'
        <4> HIDE DEF Drawings
        <4> QED BY <1>1, <1>4, <2>3, <3>2, <3>3, <3>5 DEF DisplayTypes
      <3>7. Buffered'
        BY <1>1, <2>3, <3>1, <3>2, <3>5 DEF Buffered
      <3>8. OnScreen'
        BY <1>1, <2>3, <3>1 DEF OnScreen, Kept
      <3> QED BY <1>3, <2>3, <3>6, <3>7, <3>8 DEF Stage
    <2>4. CASE /\ Head(todo).type # "info" /\ ~Swaps(Head(todo))
               /\ todo' = Tail(todo) /\ UNCHANGED <<buffers, shown>>
      <3>1. DisplayTypes' /\ Buffered'
        BY <1>1, <1>4, <2>4 DEF DisplayTypes, Buffered
      <3>2. Unused => Unused'
        BY <1>1, <2>4 DEF Unused
      <3>3. CASE Beginning
        <4>1. todo = <<Command("init", None)>>
          BY <2>4, <3>3, Sequels, Commands DEF Beginning, gpu_get_display_info
        <4>2. todo' = <<>> /\ Head(todo).type = "init"
          BY <2>4, <4>1, Sequels, Commands
        <4>3. ~Switched
          BY <4>2, Commands DEF Switched, gpu_set_scanout
        <4>4. OnScreen'
          BY <1>1, <2>4, <4>3 DEF OnScreen, Kept
        <4> QED BY <1>3, <3>1, <4>2, <4>4 DEF Stage
      <3>4. CASE Initialising
        <4>1. Stage'
          BY <2>4, <3>2, <3>4, InitialHead DEF Stage, Initialising
        <4>2. Switched => Kept
          <5> SUFFICES ASSUME Switched PROVE Kept
            OBVIOUS
          <5>1. Head(todo) = gpu_set_scanout(scanout)
            BY DEF Switched
          <5>2. Head(todo) = gpu_set_scanout(0)
            BY <3>4, <5>1, InitialHead, Commands DEF Initialising, gpu_set_scanout
          <5>3. scanout = 0
            BY <5>1, <5>2, Commands DEF gpu_set_scanout
          <5>4. host[0] = storage[0]
            BY <5>3 DEF Switched
          <5> QED BY <3>4, <5>3, <5>4 DEF Kept, Initialising, Unused, NoPictures
        <4>3. OnScreen'
          BY <1>1, <2>4, <4>2 DEF OnScreen, Kept
        <4> QED BY <1>3, <3>1, <4>1, <4>3
      <3>5. ASSUME Head(todo).buffer = gpu_back_buffer PROVE ~Switched
        BY <2>4, <3>5, Commands DEF Switched, Swaps, gpu_set_scanout
      <3>6. CASE todo = gpu_flush_commands(gpu_back_buffer)
        <4>1. /\ Head(todo).type = "transfer" /\ Head(todo).buffer = gpu_back_buffer
              /\ Tail(todo) \in FlushRest(gpu_back_buffer)
          BY <3>6, FlushHead
        <4>2. gpu_back_buffer \in {0, 1}
          BY DEF DisplayTypes
        <4>3. host[gpu_back_buffer] = storage[gpu_back_buffer]
          BY <1>6, <4>1, <4>2 DEF Effect
        <4>4. OnScreen'
          BY <1>1, <2>4, <3>5, <4>1 DEF OnScreen, Kept
        <4> QED BY <1>1, <1>3, <2>4, <3>1, <4>1, <4>3, <4>4 DEF Stage, Transferred
      <3>7. CASE Transferred
        <4>1. /\ Head(todo).buffer = gpu_back_buffer /\ Head(todo).type = "flush"
              /\ Tail(todo) \in FlushRest(gpu_back_buffer)
          BY <2>4, <3>7, RestHead DEF Transferred, Swaps
        <4>2. OnScreen'
          BY <1>1, <2>4, <3>5, <4>1 DEF OnScreen, Kept
        <4> QED BY <1>1, <1>3, <2>4, <3>1, <3>7, <4>1, <4>2 DEF Stage, Transferred
      <3> QED BY <1>2, <3>3, <3>4, <3>6, <3>7 DEF Stage
    <2> QED BY <1>6, <2>1, <2>2, <2>3, <2>4 DEF Continue, NoPictures
  <1> QED BY <1>2, <1>5, <1>6 DEF gpu_check_used, Failed

(* The display's invariant holds at the start and through each step.       *)
LEMMA InitDisplay == DisplayInit => DisplayInv
  BY InitSetUpFirst, InitInStep, InitPictured DEF DisplayInv

LEMMA NextDisplay == DisplayInv /\ [DisplayNext]_displayvars => DisplayInv'
  <1> SUFFICES ASSUME DisplayInv, [DisplayNext]_displayvars PROVE DisplayInv'
    OBVIOUS
  <1>1. SetUpFirst' /\ InStep'
    BY StaysSetUp, DeviceInStep, DriverInStep DEF DisplayInv
  <1>2. Pictured'
    <2>1. CASE gpu_init
      BY <2>1, InitCommandPictured
    <2>2. CASE gpu_submit_control
      BY <1>1, <2>2, SubmitPictured
    <2>3. CASE gpu_wait_used
      BY <2>3, WaitPictured
    <2>4. CASE gpu_wait_used_timeout
      BY <2>4, TimeoutPictured
    <2>5. CASE gpu_check_used
      BY <2>5, CheckPictured
    <2>6. CASE DeviceExecutes
      BY <2>6, ExecutePictured
    <2>7. CASE gm_rect \/ ltrs_color
      <3>1. PICK fits \in BOOLEAN : Draw(fits)
        BY <2>7 DEF gm_rect, ltrs_color
      <3> QED BY <3>1, DrawPictured
    <2>8. CASE virtio_gpu_irq_handle \/ UNCHANGED displayvars
      <3>1. UNCHANGED pictured
        BY <2>8 DEF virtio_gpu_irq_handle, displayvars, pictured, buffers, ring, device
      <3> QED BY <3>1, StillPictured DEF DisplayInv
    <2> QED BY <2>1, <2>2, <2>3, <2>4, <2>5, <2>6, <2>7, <2>8 DEF DisplayNext
  <1> QED BY <1>1, <1>2 DEF DisplayInv

(* The invariant contains the display's types.                             *)
LEMMA DisplayTyped == DisplayInv => DisplayTypeOK
  <1> SUFFICES ASSUME DisplayInv PROVE DisplayTypeOK
    OBVIOUS
  <1>1. gpu_used_idx <= used_idx /\ used_idx <= avail_idx
    BY DEF DisplayInv, SetUpFirst, InStep
  <1>2. phase # "submit" => todo # <<>> /\ awaited = avail_idx - 1
    BY DEF DisplayInv, SetUpFirst, InStep
  <1>3. {gpu_front_buffer, gpu_back_buffer} = {0, 1}
    BY DEF DisplayInv, Pictured, DisplayTypes
  <1> QED BY <1>1, <1>2, <1>3
          DEF DisplayInv, Pictured, DisplayTypes, DisplayTypeOK, Drawings, Pictures

(* The invariant has the old picture on the screen.                        *)
LEMMA OldKept == DisplayInv => OldPictureStays
  <1> SUFFICES ASSUME DisplayInv, timeouts = 0, scanout # None
               PROVE  \/ host[scanout] = shown /\ scanout = gpu_front_buffer
                      \/ /\ todo # <<>> /\ Head(todo) = gpu_set_scanout(scanout)
                         /\ host[scanout] = storage[scanout]
    BY DEF OldPictureStays
  <1>1. phase # "submit" => todo # <<>>
    BY DEF DisplayInv, SetUpFirst
  <1> QED BY <1>1 DEF DisplayInv, Pictured, OnScreen, Kept, Switched

(* As long as no command was given up, whatever the device refuses, what   *)
(* is on the screen is the last picture flushed with success or, from the  *)
(* moment it switches, the one whose flush is about to succeed.            *)
THEOREM OldPictureKept == DisplaySpec => []OldPictureStays
  <1>1. DisplayInv => OldPictureStays
    BY OldKept
  <1> QED BY <1>1, InitDisplay, NextDisplay, PTL DEF DisplaySpec

(* When the buffers are swapped, the screen has every drawing.             *)
LEMMA SwapStep ==
    ASSUME DisplayInv, [DisplayNext]_displayvars, gpu_front_buffer' # gpu_front_buffer
    PROVE  scanout # None /\ host[scanout] = 1 .. drawings
  <1>1. gpu_check_used
    BY DEF DisplayNext, displayvars, gpu_init, gpu_submit_control, gpu_wait_used,
           gpu_wait_used_timeout, DeviceExecutes, virtio_gpu_irq_handle, gm_rect, ltrs_color,
           Draw, buffers
  <1>2. /\ LastUsed = HeadOf(awaited) /\ resp_slot[SlotOf(awaited)] = "ok"
        /\ Continue(Head(todo))
    BY <1>1 DEF gpu_check_used, Failed, buffers
  <1>3. todo # <<>> /\ Effect(Head(todo))
    BY <1>1, <1>2, AnswerIs DEF gpu_check_used
  <1>4. Head(todo).type # "info"
    <2> SUFFICES ASSUME Head(todo).type = "info" PROVE FALSE
      OBVIOUS
    <2>1. gpu_front_buffer # 0
      BY <1>2 DEF Continue, Swaps, buffers
    <2>2. ~Beginning /\ ~Initialising
      BY <2>1 DEF Beginning, Initialising, Unused
    <2>3. todo # gpu_flush_commands(gpu_back_buffer)
      BY FlushHead
    <2>4. ~Transferred
      BY RestHead DEF Transferred
    <2> QED BY <1>3, <2>2, <2>3, <2>4 DEF DisplayInv, Pictured, Stage
  <1>5. Swaps(Head(todo))
    BY <1>2, <1>4 DEF Continue, buffers
  <1>6. gpu_back_buffer \in {0, 1}
    BY DEF DisplayInv, Pictured, DisplayTypes
  <1> QED BY <1>3, <1>5, <1>6, SwapIs DEF None

(* When the buffers are swapped the screen has every drawing so far: also  *)
(* those whose flush failed or timed out, and however late the device is   *)
(* with commands whose slots and descriptors newer ones have taken.        *)
THEOREM AllOnScreen == DisplaySpec => ShowsAllDrawn
  <1>1. DisplayInv /\ [DisplayNext]_displayvars =>
           [gpu_front_buffer' # gpu_front_buffer =>
               scanout # None /\ host[scanout] = 1 .. drawings]_displayvars
    BY SwapStep
  <1> QED BY <1>1, InitDisplay, NextDisplay, PTL DEF DisplaySpec, ShowsAllDrawn
-----------------------------------------------------------------------------
Places == {"idle", "get", "give", "key", "status", "acknowledge", "recheck"}
Handlers == [pc : Places, i : Devices, from : Devices, id : Ids, event : Kinds \cup {"none"}]

(* The types of what the argument is about.                                *)
Types ==
    /\ avail \in [Devices -> Seq(Ids)]
    /\ used \in [Devices -> Seq(Nat)]
    /\ event_buffers \in [Devices -> [Ids -> Kinds \cup {"none"}]]
    /\ interrupt_status \in [Devices -> BOOLEAN]
    /\ handler \in Handlers
    /\ irqs \subseteq Devices

(* Facts about the input driver's constants and tables.                    *)
LEMMA Numbers == 0 \in Devices /\ 0 \in Ids /\ EventQueue \in Nat /\ Ids \subseteq Nat
  BY InputAssumption DEF Devices, Ids

LEMMA KindsOfDevices == \A d \in Devices : EventKinds[d] \subseteq Kinds
  BY InputAssumption DEF Kinds

LEMMA IdleType == Idle \in Handlers
  BY Numbers DEF Idle, Handlers, Places

(* The input driver's types hold at the start.                             *)
LEMMA InitTypes == InputInit => Types
  <1> SUFFICES ASSUME InputInit PROVE Types
    OBVIOUS
  <1>1. avail \in [Devices -> Seq(Ids)]
    <2>1. [i \in 1 .. EventQueue |-> i - 1] \in Seq(Ids)
      BY Numbers DEF Ids
    <2> QED BY <2>1 DEF InputInit
  <1>2. used \in [Devices -> Seq(Nat)]
    BY DEF InputInit
  <1>3. event_buffers \in [Devices -> [Ids -> Kinds \cup {"none"}]]
    BY DEF InputInit
  <1>4. interrupt_status \in [Devices -> BOOLEAN]
    BY DEF InputInit
  <1> QED BY <1>1, <1>2, <1>3, <1>4, IdleType DEF InputInit, Types

(* What a device writes has its type.                                      *)
LEMMA DeviceTypes ==
    ASSUME Types, NEW d \in Devices, DeviceEvent(d)
    PROVE  Types'
  <1> USE DEF Types
  <1>1. PICK kind \in EventKinds[d] :
           \/ /\ used' = [used EXCEPT ![d] = Append(@, EventQueue)]
              /\ UNCHANGED <<avail, event_buffers>>
           \/ /\ avail[d] # <<>>
              /\ used' = [used EXCEPT ![d] = Append(@, Head(avail[d]))]
              /\ avail' = [avail EXCEPT ![d] = Tail(@)]
              /\ event_buffers' = [event_buffers EXCEPT ![d][Head(avail[d])] = kind]
    BY DEF DeviceEvent
  <1>2. interrupt_status' = interrupt_status /\ handler' = handler /\ irqs' = irqs
    BY DEF DeviceEvent, setup
  <1>3. CASE UNCHANGED <<avail, event_buffers>> /\ used' = [used EXCEPT ![d] = Append(@, EventQueue)]
    <2>1. Append(used[d], EventQueue) \in Seq(Nat)
      BY Numbers
    <2> QED BY <1>2, <1>3, <2>1
  <1>4. CASE /\ avail[d] # <<>>
             /\ used' = [used EXCEPT ![d] = Append(@, Head(avail[d]))]
             /\ avail' = [avail EXCEPT ![d] = Tail(@)]
             /\ event_buffers' = [event_buffers EXCEPT ![d][Head(avail[d])] = kind]
    <2>1. Head(avail[d]) \in Ids /\ Tail(avail[d]) \in Seq(Ids)
      BY <1>4
    <2>2. Append(used[d], Head(avail[d])) \in Seq(Nat)
      <3>1. Head(avail[d]) \in Nat /\ used[d] \in Seq(Nat)
        BY <2>1, Numbers
      <3> HIDE DEF Types
      <3> QED BY <3>1
    <2>3. kind \in Kinds
      BY KindsOfDevices
    <2>4. event_buffers' \in [Devices -> [Ids -> Kinds \cup {"none"}]]
      <3>1. [event_buffers[d] EXCEPT ![Head(avail[d])] = kind] \in [Ids -> Kinds \cup {"none"}]
        BY <2>1, <2>3
      <3> QED BY <1>4, <3>1
    <2>5. used' \in [Devices -> Seq(Nat)] /\ avail' \in [Devices -> Seq(Ids)]
      BY <1>4, <2>1, <2>2
    <2> QED BY <1>2, <2>4, <2>5
  <1> QED BY <1>1, <1>3, <1>4

(* What the handler takes has its type.                                    *)
LEMMA GetTypes ==
    ASSUME Types, vhid_get_event
    PROVE  Types' /\ handler'.i = handler.i /\ handler'.pc # "idle" /\ handler.pc # "idle"
  <1> USE DEF Types
  <1>1. CASE used' = used /\ handler' = [handler EXCEPT !.pc = "status"]
    BY <1>1 DEF vhid_get_event, setup, Handlers, Places
  <1>2. ASSUME NEW d \in Devices, Waiting(d), used' = [used EXCEPT ![d] = Tail(@)],
               handler' = [handler EXCEPT !.pc = "status"]
        PROVE  Types' /\ handler'.i = handler.i /\ handler'.pc # "idle" /\ handler.pc # "idle"
    <2>1. Tail(used[d]) \in Seq(Nat)
      BY <1>2 DEF Waiting
    <2> QED BY <1>2, <2>1 DEF vhid_get_event, setup, Handlers, Places
  <1>3. ASSUME NEW d \in Devices, Waiting(d), used' = [used EXCEPT ![d] = Tail(@)],
               Head(used[d]) \in Ids,
               handler' = [handler EXCEPT !.pc = "give", !.from = d, !.id = Head(used[d]),
                                          !.event = event_buffers[d][Head(used[d])]]
        PROVE  Types' /\ handler'.i = handler.i /\ handler'.pc # "idle" /\ handler.pc # "idle"
    <2>1. Tail(used[d]) \in Seq(Nat)
      BY <1>3 DEF Waiting
    <2>2. event_buffers[d][Head(used[d])] \in Kinds \cup {"none"}
      BY <1>3
    <2> QED BY <1>3, <2>1, <2>2 DEF vhid_get_event, setup, Handlers, Places
  <1> QED BY <1>1, <1>2, <1>3 DEF vhid_get_event

(* Every step of the input driver keeps its types.                         *)
LEMMA NextTypes == Types /\ [InputNext]_inputvars => Types'
  <1> SUFFICES ASSUME Types, [InputNext]_inputvars PROVE Types'
    OBVIOUS
  <1> USE DEF Types
  <1>1. ASSUME NEW d \in Devices, DeviceEvent(d) PROVE Types'
    BY <1>1, DeviceTypes
  <1>2. ASSUME NEW d \in Devices, DeviceRaises(d) PROVE Types'
    BY <1>2 DEF DeviceRaises, setup
  <1>3. ASSUME NEW d \in Devices, vhid_irq_handle(d) PROVE Types'
    BY <1>3, IdleType DEF vhid_irq_handle, queues, setup, Handlers, Places
  <1>4. CASE vhid_get_event
    BY <1>4, GetTypes
  <1>5. CASE give_back
    <2>1. Append(avail[handler.from], handler.id) \in Seq(Ids)
      BY DEF Handlers
    <2> QED BY <1>5, <2>1 DEF give_back, setup, Handlers, Places
  <1>6. CASE input_process_key
    BY <1>6 DEF input_process_key, setup, Handlers, Places
  <1>7. CASE read_status \/ recheck
    BY <1>7, IdleType DEF read_status, recheck, queues, setup, Handlers, Places
  <1>8. CASE acknowledge
    BY <1>8 DEF acknowledge, queues, setup, Handlers, Places
  <1>9. CASE timer_tick \/ Reading \/ UNCHANGED inputvars
    BY <1>9 DEF timer_tick, Reading, getchar, vhid_getchar, read_character, take_character,
                poll_uart, queues, setup, inputvars
  <1> QED BY <1>1, <1>2, <1>3, <1>4, <1>5, <1>6, <1>7, <1>8, <1>9 DEF InputNext, Handling
-----------------------------------------------------------------------------
(* The property, of one device.                                            *)
Fetched(d) ==
    used[d] # <<>> =>
       \/ d \in late
       \/ interrupt_status[d]
       \/ handler.pc # "idle" /\ handler.i = d

(* No step leaves an event with nobody to fetch it.                        *)
LEMMA NextFetched ==
    ASSUME Types, [InputNext]_inputvars, NEW d \in Devices, Fetched(d)
    PROVE  Fetched(d)'
  <1> USE DEF Types, Fetched
  <1>1. ASSUME NEW e \in Devices, DeviceEvent(e) PROVE Fetched(d)'
    BY <1>1 DEF DeviceEvent
  <1>2. ASSUME NEW e \in Devices, DeviceRaises(e) PROVE Fetched(d)'
    BY <1>2 DEF DeviceRaises, setup
  <1>3. ASSUME NEW e \in Devices, vhid_irq_handle(e) PROVE Fetched(d)'
    BY <1>3 DEF vhid_irq_handle, queues, Unmasked
  <1>4. CASE vhid_get_event
    <2>1. late' = late /\ interrupt_status' = interrupt_status
      BY <1>4 DEF vhid_get_event
    <2>2. used'[d] # <<>> => used[d] # <<>>
      BY <1>4 DEF vhid_get_event, Waiting
    <2> QED BY <1>4, <2>1, <2>2, GetTypes
  <1>5. CASE give_back
    BY <1>5 DEF give_back, setup, Handlers
  <1>6. CASE input_process_key
    BY <1>6 DEF input_process_key, setup, Handlers
  <1>7. CASE read_status
    BY <1>7 DEF read_status, queues, setup, Handlers
  <1>8. CASE acknowledge
    BY <1>8 DEF acknowledge, queues, setup, Handlers
  <1>9. CASE recheck
    BY <1>9 DEF recheck, queues, setup, Handlers
  <1>10. CASE timer_tick \/ Reading \/ UNCHANGED inputvars
    BY <1>10 DEF timer_tick, Reading, getchar, vhid_getchar, read_character, take_character,
                 poll_uart, queues, setup, inputvars
  <1> QED BY <1>1, <1>2, <1>3, <1>4, <1>5, <1>6, <1>7, <1>8, <1>9, <1>10
          DEF InputNext, Handling

(* The handler may return while events come in on this or another queue:   *)
(* they are not left waiting without an interrupt to come, because the     *)
(* handler looks again after it has acknowledged.                          *)
THEOREM NothingStranded == InputSpec => []NoEventStranded
  <1> DEFINE Inv == Types /\ \A d \in Devices : Fetched(d)
  <1>1. InputInit => Inv
    BY InitTypes DEF InputInit, Fetched
  <1>2. Inv /\ [InputNext]_inputvars => Inv'
    BY NextTypes, NextFetched DEF Devices
  <1>3. Inv => NoEventStranded
    BY DEF Types, Fetched, NoEventStranded
  <1> QED BY <1>1, <1>2, <1>3, PTL DEF InputSpec
-----------------------------------------------------------------------------
(* Remainders.                                                             *)
LEMMA Divided ==
    ASSUME NEW d \in Nat \ {0}, NEW a \in Int
    PROVE  \E q \in Int, v \in 0 .. d - 1 : a = d * q + v /\ v = a % d
  <1>1. a \div d \in Int /\ a % d \in 0 .. d - 1
    OBVIOUS
  <1>2. a = d * (a \div d) + (a % d)
    OBVIOUS
  <1> QED BY <1>1, <1>2

(* Numbers less than d apart have different remainders.                    *)
LEMMA Apart ==
    ASSUME NEW d \in Nat \ {0}, NEW a \in Int, NEW b \in Int, a < b, b < a + d
    PROVE  a % d # b % d
  <1> SUFFICES ASSUME a % d = b % d PROVE FALSE
    OBVIOUS
  <1>1. PICK q \in Int, v \in 0 .. d - 1 : a = d * q + v /\ v = a % d
    BY Divided
  <1>2. PICK p \in Int, w \in 0 .. d - 1 : b = d * p + w /\ w = b % d
    BY Divided
  <1>3. d * (p - q) = b - a
    <2>1. d * (p - q) = d * p - d * q
      OBVIOUS
    <2> QED BY <1>1, <1>2, <2>1
  <1>4. CASE p - q >= 1
    <2>1. d * (p - q) >= d
      BY <1>4
    <2> QED BY <1>3, <2>1
  <1>5. CASE p - q <= 0
    <2>1. d * (p - q) <= 0
      BY <1>5
    <2> QED BY <1>3, <2>1
  <1> QED BY <1>4, <1>5

(* Multiples of the divisor do not change a remainder.                     *)
LEMMA Unique ==
    ASSUME NEW d \in Nat \ {0}, NEW q \in Int, NEW v \in 0 .. d - 1
    PROVE  (q * d + v) % d = v
  <1>1. PICK a \in Int : a = q * d + v
    <2>1. q * d + v \in Int
      OBVIOUS
    <2> QED BY <2>1
  <1>2. PICK p \in Int, w \in 0 .. d - 1 : q * d + v = d * p + w /\ w = (q * d + v) % d
    BY <1>1, Divided
  <1>3. d * (q - p) = w - v
    BY <1>2
  <1>4. CASE q - p >= 1
    <2>1. d * (q - p) >= d
      BY <1>4
    <2> QED BY <1>3, <2>1
  <1>5. CASE q - p <= -1
    <2>1. d * (q - p) <= -d
      BY <1>5
    <2> QED BY <1>3, <2>1
  <1>6. CASE q - p = 0
    BY <1>2, <1>3, <1>6
  <1> QED BY <1>4, <1>5, <1>6

LEMMA Shifted ==
    ASSUME NEW d \in Nat \ {0}, NEW a \in Int, NEW k \in Int
    PROVE  (a + k * d) % d = a % d
  <1>1. PICK q \in Int, v \in 0 .. d - 1 : a = d * q + v /\ v = a % d
    BY Divided
  <1>2. a + k * d = (q + k) * d + v
    <2>1. (q + k) * d = d * q + k * d
      OBVIOUS
    <2> QED BY <1>1, <2>1
  <1>3. q + k \in Int
    OBVIOUS
  <1>4. ((q + k) * d + v) % d = v
    BY <1>3, Unique
  <1> QED BY <1>1, <1>2, <1>4

LEMMA OneMore ==
    ASSUME NEW d \in Nat \ {0}, NEW a \in Int
    PROVE  (a + d) % d = a % d
  <1>1. 1 \in Int
    OBVIOUS
  <1>2. (a + 1 * d) % d = a % d
    BY <1>1, Shifted, Zenon
  <1> QED BY <1>2

(* The ring's assumption, as numbers.                                      *)
LEMMA Sizes == /\ CharQueueSize \in Nat \ {0} /\ Wrap \in Nat \ {0} /\ CharQueueSize < Wrap
               /\ \E k \in Int : Wrap = k * CharQueueSize
  <1>1. CharQueueSize \in Nat \ {0} /\ Wrap \in Nat \ {0} /\ CharQueueSize < Wrap
        /\ Wrap % CharQueueSize = 0
    BY InputAssumption
  <1>2. PICK q \in Int, v \in 0 .. CharQueueSize - 1 :
           Wrap = CharQueueSize * q + v /\ v = Wrap % CharQueueSize
    BY <1>1, Divided
  <1>3. Wrap = q * CharQueueSize
    BY <1>1, <1>2
  <1> QED BY <1>1, <1>3

Indices == 0 .. Wrap - 1

(* The indices of the ring, which wrap around, and the distance from the   *)
(* one that reads to the one that writes.                                  *)
LEMMA Distance ==
    ASSUME NEW h \in Indices, NEW t \in Indices
    PROVE  (h + Wrap - t) % Wrap = IF h >= t THEN h - t ELSE h - t + Wrap
  <1> USE Sizes DEF Indices
  <1>1. CASE h >= t
    <2>1. h + Wrap - t = (h - t) + Wrap
      OBVIOUS
    <2>2. (h - t) % Wrap = h - t
      BY <1>1
    <2>3. ((h - t) + Wrap) % Wrap = (h - t) % Wrap
      <3>1. h - t \in Int
        OBVIOUS
      <3> QED BY <3>1, OneMore, Zenon
    <2> QED BY <1>1, <2>1, <2>2, <2>3
  <1>2. CASE h < t
    BY <1>2
  <1> QED BY <1>1, <1>2

(* An index that is counted on wraps around at most once.                  *)
LEMMA Following ==
    ASSUME NEW h \in Indices
    PROVE  (h + 1) % Wrap = IF h + 1 < Wrap THEN h + 1 ELSE 0
  <1> USE Sizes DEF Indices
  <1>1. CASE h + 1 < Wrap
    BY <1>1
  <1>2. CASE h + 1 = Wrap
    <2>1. (0 + Wrap) % Wrap = 0 % Wrap /\ 0 % Wrap = 0
      BY OneMore
    <2> QED BY <1>2, <2>1
  <1> QED BY <1>1, <1>2

(* A wrap around does not show in the places of the ring.                  *)
LEMMA SamePlace ==
    ASSUME NEW a \in Int
    PROVE  /\ (a + Wrap) % CharQueueSize = a % CharQueueSize
           /\ (a - Wrap) % CharQueueSize = a % CharQueueSize
           /\ a % CharQueueSize \in 0 .. CharQueueSize - 1
  <1>1. PICK k \in Int : Wrap = k * CharQueueSize
    BY Sizes
  <1>2. a - Wrap = a + (-k) * CharQueueSize
    BY <1>1, Sizes
  <1>3. (a + k * CharQueueSize) % CharQueueSize = a % CharQueueSize
    BY Sizes, Shifted
  <1>4. (a + (-k) * CharQueueSize) % CharQueueSize = a % CharQueueSize
    <2>1. -k \in Int
      OBVIOUS
    <2> QED BY <2>1, Sizes, Shifted
  <1>5. a % CharQueueSize \in 0 .. CharQueueSize - 1
    BY Sizes
  <1> QED BY <1>1, <1>2, <1>3, <1>4, <1>5
-----------------------------------------------------------------------------
(* The place of the nth unread character.                                  *)
At(n) == (input_char_tail + n - 1) % CharQueueSize

RingTypes ==
    /\ input_char_head \in Indices /\ input_char_tail \in Indices
    /\ input_char_queue \in [0 .. CharQueueSize - 1 -> 0 .. 2]
    /\ Size <= CharQueueSize

SizeIs == Size = IF input_char_head >= input_char_tail THEN input_char_head - input_char_tail
                 ELSE input_char_head - input_char_tail + Wrap

UnreadIs == /\ Unread \in Seq(0 .. 2) /\ Size \in Nat /\ Len(Unread) = Size
            /\ \A n \in 1 .. Size : Unread[n] = input_char_queue[At(n)]

(* Size and places of the ring, from its types.                            *)
LEMMA SizeExact == RingTypes => SizeIs
  BY Distance DEF RingTypes, Size, SizeIs

LEMMA InRing == ASSUME RingTypes, NEW n \in Int PROVE At(n) \in 0 .. CharQueueSize - 1
  <1>1. input_char_tail + n - 1 \in Int
    BY Sizes DEF RingTypes, Indices
  <1> QED BY <1>1, SamePlace DEF At

(* Unread is the sequence of what lies between the indices, now and in the *)
(* next state.                                                             *)
LEMMA UnreadSeq == RingTypes => SizeIs /\ UnreadIs
  <1> SUFFICES ASSUME RingTypes PROVE SizeIs /\ UnreadIs
    OBVIOUS
  <1>1. SizeIs /\ Size \in Nat
    BY SizeExact, Sizes DEF SizeIs, RingTypes, Indices
  <1>2. \A n \in 1 .. Size : input_char_queue[At(n)] \in 0 .. 2
    BY InRing DEF RingTypes
  <1>3. Unread = [n \in 1 .. Size |-> input_char_queue[At(n)]]
    BY DEF Unread, At
  <1>4. Unread \in [1 .. Size -> 0 .. 2]
    BY <1>2, <1>3
  <1> QED BY <1>1, <1>3, <1>4 DEF UnreadIs

LEMMA UnreadSeqNext == RingTypes' => SizeIs' /\ UnreadIs'
  BY UnreadSeq, PTL

(* The place that is written is the one after the last unread.             *)
LEMMA HeadPlace == RingTypes => input_char_head % CharQueueSize = At(Size + 1)
  <1> SUFFICES ASSUME RingTypes PROVE input_char_head % CharQueueSize = At(Size + 1)
    OBVIOUS
  <1>1. SizeIs /\ input_char_head \in Int /\ input_char_tail \in Int /\ Wrap \in Int
    BY UnreadSeq, Sizes DEF RingTypes, Indices
  <1>2. input_char_tail + (Size + 1) - 1 = input_char_head
        \/ input_char_tail + (Size + 1) - 1 = input_char_head + Wrap
    BY <1>1 DEF SizeIs
  <1>3. (input_char_head + Wrap) % CharQueueSize = input_char_head % CharQueueSize
    BY <1>1, SamePlace
  <1> QED BY <1>2, <1>3 DEF At

(* While the ring is not full, that place is none of an unread character.  *)
LEMMA FreePlace ==
    ASSUME RingTypes, Size < CharQueueSize, NEW n \in 1 .. Size
    PROVE  At(n) # At(Size + 1)
  <1>1. Size \in Nat /\ input_char_tail \in Int /\ CharQueueSize \in Nat \ {0}
    BY UnreadSeq, Sizes DEF UnreadIs, RingTypes, Indices
  <1> DEFINE a == input_char_tail + n - 1
             b == input_char_tail + (Size + 1) - 1
  <1>2. a \in Int /\ b \in Int /\ a < b /\ b < a + CharQueueSize
    BY <1>1
  <1>3. a % CharQueueSize # b % CharQueueSize
    <2> HIDE DEF a, b
    <2> QED BY <1>1, <1>2, Apart
  <1> QED BY <1>3 DEF At

(* A character that is written is the last unread one; the first stays.    *)
LEMMA Written ==
    ASSUME RingTypes, ~Full, NEW c \in {1, 2}, input_queue_character(c),
           input_char_tail' = input_char_tail
    PROVE  /\ RingTypes' /\ Size' = Size + 1 /\ Unread' = Append(Unread, c)
           /\ Size > 0 => input_char_queue'[input_char_tail' % CharQueueSize]
                             = input_char_queue[input_char_tail % CharQueueSize]
  <1>1. /\ input_char_queue' = [input_char_queue EXCEPT ![input_char_head % CharQueueSize] = c]
        /\ input_char_head' = (input_char_head + 1) % Wrap
    BY DEF input_queue_character
  <1>2. SizeIs /\ UnreadIs /\ Size < CharQueueSize
    BY UnreadSeq, Sizes DEF Full, Size, UnreadIs
  <1>3. input_char_head' \in Indices
        /\ input_char_head' = IF input_char_head + 1 < Wrap THEN input_char_head + 1 ELSE 0
    BY <1>1, Following, Sizes DEF RingTypes, Indices
  <1>4. Size' = IF input_char_head' >= input_char_tail THEN input_char_head' - input_char_tail
                ELSE input_char_head' - input_char_tail + Wrap
    BY <1>3, Distance DEF RingTypes, Size
  <1>5. Size' = Size + 1
    BY <1>2, <1>3, <1>4, Sizes DEF RingTypes, Indices, SizeIs
  <1>6. RingTypes'
    BY <1>1, <1>2, <1>3, <1>5, Sizes DEF RingTypes, UnreadIs
  <1>7. \A n \in Int : At(n)' = At(n)
    BY DEF At
  <1>8. \A n \in 1 .. Size : input_char_queue'[At(n)] = input_char_queue[At(n)]
    <2> TAKE n \in 1 .. Size
    <2>1. n \in Int /\ Size + 1 \in Int
      BY <1>2 DEF UnreadIs
    <2>2. At(n) # At(Size + 1) /\ At(n) \in 0 .. CharQueueSize - 1
      BY <1>2, <2>1, FreePlace, InRing
    <2>3. input_char_head % CharQueueSize = At(Size + 1)
      BY HeadPlace
    <2>4. input_char_queue \in [0 .. CharQueueSize - 1 -> 0 .. 2]
      BY DEF RingTypes
    <2> QED BY <1>1, <2>2, <2>3, <2>4
  <1>9. input_char_queue'[At(Size + 1)] = c
    <2>1. Size + 1 \in Int
      BY <1>2 DEF UnreadIs
    <2>2. At(Size + 1) \in 0 .. CharQueueSize - 1
      BY <2>1, InRing
    <2>3. input_char_queue \in [0 .. CharQueueSize - 1 -> 0 .. 2]
      BY DEF RingTypes
    <2> QED BY <1>1, <2>2, <2>3, HeadPlace
  <1>10. /\ Unread' \in Seq(0 .. 2) /\ Len(Unread') = Size + 1
         /\ \A n \in 1 .. Size + 1 : Unread'[n] = input_char_queue'[At(n)]
    BY <1>5, <1>6, <1>7, UnreadSeqNext DEF UnreadIs
  <1>11. /\ Append(Unread, c) \in Seq(0 .. 2) /\ Len(Append(Unread, c)) = Size + 1
         /\ \A n \in 1 .. Size : Append(Unread, c)[n] = Unread[n]
         /\ Append(Unread, c)[Size + 1] = c
    BY <1>2 DEF UnreadIs
  <1>12. \A n \in 1 .. Size + 1 : Unread'[n] = Append(Unread, c)[n]
    <2> TAKE n \in 1 .. Size + 1
    <2>1. CASE n = Size + 1
      BY <1>9, <1>10, <1>11, <2>1
    <2>2. CASE n \in 1 .. Size
      BY <1>2, <1>8, <1>10, <1>11, <2>2 DEF UnreadIs
    <2>3. n = Size + 1 \/ n \in 1 .. Size
      BY <1>2 DEF UnreadIs
    <2> QED BY <2>1, <2>2, <2>3
  <1>13. Unread' = Append(Unread, c)
    BY <1>10, <1>11, <1>12, SeqEqual
  <1>14. Size > 0 => input_char_queue'[At(1)] = input_char_queue[At(1)]
    BY <1>2, <1>8 DEF UnreadIs
  <1>15. At(1) = input_char_tail % CharQueueSize
    BY DEF At, RingTypes, Indices
  <1> QED BY <1>5, <1>6, <1>13, <1>14, <1>15

(* A character that is taken is the first unread one.                      *)
LEMMA Taken ==
    ASSUME RingTypes, Size > 0, input_char_tail' = (input_char_tail + 1) % Wrap,
           UNCHANGED <<input_char_queue, input_char_head>>
    PROVE  /\ RingTypes' /\ Unread' = Tail(Unread) /\ Unread # <<>>
           /\ Head(Unread) = input_char_queue[input_char_tail % CharQueueSize]
  <1>1. SizeIs /\ UnreadIs
    BY UnreadSeq
  <1>2. input_char_tail' \in Indices
        /\ input_char_tail' = IF input_char_tail + 1 < Wrap THEN input_char_tail + 1 ELSE 0
    BY Following, Sizes DEF RingTypes, Indices
  <1>3. Size' = IF input_char_head >= input_char_tail' THEN input_char_head - input_char_tail'
                ELSE input_char_head - input_char_tail' + Wrap
    BY <1>2, Distance DEF RingTypes, Size
  <1>4. Size' = Size - 1
    BY <1>1, <1>2, <1>3, Sizes DEF RingTypes, Indices, SizeIs
  <1>5. RingTypes'
    BY <1>1, <1>2, <1>4, Sizes DEF RingTypes, UnreadIs
  <1>6. ASSUME NEW n \in Int PROVE At(n)' = At(n + 1)
    <2>1. PICK a \in Int : a = input_char_tail + n
      BY DEF RingTypes, Indices
    <2>2. (a - Wrap) % CharQueueSize = a % CharQueueSize
      BY SamePlace
    <2>3. input_char_tail' + n - 1 = a \/ input_char_tail' + n - 1 = a - Wrap
      BY <1>2, <2>1, Sizes DEF RingTypes, Indices
    <2>4. input_char_tail + (n + 1) - 1 = a
      BY <2>1 DEF RingTypes, Indices
    <2> QED BY <2>2, <2>3, <2>4 DEF At
  <1>7. Unread # <<>> /\ Head(Unread) = input_char_queue[At(1)]
    <2>1. 1 \in 1 .. Size /\ Len(Unread) = Size /\ Unread \in Seq(0 .. 2)
      BY <1>1 DEF UnreadIs
    <2>2. Unread[1] = input_char_queue[At(1)]
      BY <1>1, <2>1 DEF UnreadIs
    <2> QED BY <2>1, <2>2
  <1>8. /\ Tail(Unread) \in Seq(0 .. 2) /\ Len(Tail(Unread)) = Size - 1
        /\ \A n \in 1 .. Size - 1 : Tail(Unread)[n] = Unread[n + 1]
    BY <1>1, <1>7, HeadTailProperties DEF UnreadIs
  <1>9. /\ Unread' \in Seq(0 .. 2) /\ Len(Unread') = Size - 1
        /\ \A n \in 1 .. Size - 1 : Unread'[n] = input_char_queue[At(n + 1)]
    <2>1. UnreadIs'
      BY <1>5, UnreadSeqNext
    <2>2. \A n \in 1 .. Size - 1 : n \in Int /\ At(n)' = At(n + 1)
      BY <1>1, <1>6 DEF UnreadIs
    <2> QED BY <1>4, <2>1, <2>2 DEF UnreadIs
  <1>10. \A n \in 1 .. Size - 1 : Unread'[n] = Tail(Unread)[n]
    <2> TAKE n \in 1 .. Size - 1
    <2>1. n + 1 \in 1 .. Size
      BY <1>1 DEF UnreadIs
    <2>2. Unread[n + 1] = input_char_queue[At(n + 1)]
      BY <1>1, <2>1 DEF UnreadIs
    <2> QED BY <1>8, <1>9, <2>2
  <1>11. Unread' = Tail(Unread)
    BY <1>8, <1>9, <1>10, SeqEqual
  <1>12. At(1) = input_char_tail % CharQueueSize
    BY DEF At, RingTypes, Indices
  <1> QED BY <1>5, <1>7, <1>11, <1>12
-----------------------------------------------------------------------------
(* Between its steps getchar holds what it read, which is still the first: *)
(* an interrupt only adds characters.                                      *)
RingInv ==
    /\ RingTypes
    /\ reader \in {"read", "taken"} => Size > 0
    /\ reader = "taken" => character = input_char_queue[input_char_tail % CharQueueSize]

(* The ring is empty, and so is the queue it implements.                   *)
LEMMA InitRing == InputInit => RingInv /\ Abstract!Init
  <1> SUFFICES ASSUME InputInit PROVE RingInv /\ Abstract!Init
    OBVIOUS
  <1>1. input_char_head = 0 /\ input_char_tail = 0 /\ reader = "idle" /\ got = 0
        /\ input_char_queue = [i \in 0 .. CharQueueSize - 1 |-> 0]
    BY DEF InputInit
  <1>2. Size = 0
    BY <1>1, Distance, Sizes DEF Size, Indices
  <1>3. RingTypes
    BY <1>1, <1>2, Sizes DEF RingTypes, Indices
  <1>4. Unread = <<>>
    BY <1>2, <1>3, UnreadSeq, EmptySeq DEF UnreadIs
  <1> QED BY <1>1, <1>3, <1>4 DEF RingInv, Abstract!Init

(* A step that leaves the ring alone, and reads nothing from it.           *)
LEMMA StillRing ==
    ASSUME RingInv, UNCHANGED <<input_char_queue, input_char_head, input_char_tail, got, character>>,
           reader' = reader \/ reader' \notin {"read", "taken"}
    PROVE  RingInv' /\ UNCHANGED <<Unread, got>>
  BY DEF RingInv, RingTypes, Size, Unread

(* The handler adds a character, if there is room.                         *)
LEMMA KeyRing ==
    ASSUME RingInv, input_process_key
    PROVE  RingInv' /\ [Abstract!Next]_<<Unread, got>>
  <1>1. UNCHANGED <<input_char_tail, reader, character, got>>
    BY DEF input_process_key, reading
  <1>2. CASE UNCHANGED <<input_char_queue, input_char_head>>
    BY <1>1, <1>2, StillRing
  <1>3. ASSUME NEW c \in {1, 2}, input_queue_character(c)
        PROVE  RingInv' /\ [Abstract!Next]_<<Unread, got>>
    <2>1. CASE Full
      BY <1>1, <1>2, <1>3, <2>1 DEF input_queue_character
    <2>2. CASE ~Full
      <3>1. /\ RingTypes' /\ Size' = Size + 1 /\ Unread' = Append(Unread, c)
            /\ Size > 0 => input_char_queue'[input_char_tail' % CharQueueSize]
                              = input_char_queue[input_char_tail % CharQueueSize]
        BY <1>1, <1>3, <2>2, Written DEF RingInv
      <3>2. UnreadIs /\ Size < CharQueueSize
        BY <2>2, UnreadSeq, Sizes DEF RingInv, Full, Size, UnreadIs
      <3>3. RingInv'
        BY <1>1, <3>1, <3>2 DEF RingInv, UnreadIs
      <3>4. Abstract!Push(c)
        BY <1>1, <3>1, <3>2 DEF UnreadIs, Abstract!Push, Abstract!Pushed
      <3> QED BY <3>3, <3>4 DEF Abstract!Next
    <2> QED BY <2>1, <2>2
  <1>4. \A x, y : Character(x, y) \in {1, 2}
    BY DEF Character, input_key_to_character
  <1> QED BY <1>2, <1>3, <1>4 DEF input_process_key

(* getchar finds the ring empty, or takes its first character.             *)
LEMMA ReadRing ==
    ASSUME RingInv, Reading
    PROVE  RingInv' /\ [Abstract!Next]_<<Unread, got>>
  <1>1. CASE getchar \/ poll_uart
    BY <1>1, StillRing DEF getchar, poll_uart, chars
  <1>2. CASE vhid_getchar
    <2>1. UNCHANGED <<input_char_queue, input_char_head, input_char_tail, character>>
          /\ reader = "tail"
      BY <1>2 DEF vhid_getchar, chars
    <2>2. RingTypes' /\ Size' = Size /\ Unread' = Unread
      BY <2>1 DEF RingInv, RingTypes, Size, Unread
    <2>3. SizeIs /\ UnreadIs
      BY UnreadSeq DEF RingInv
    <2>4. CASE input_char_tail = input_char_head
      <3>1. reader' = "uart" /\ got' = 0
        BY <1>2, <2>4 DEF vhid_getchar
      <3>2. Size = 0
        BY <2>3, <2>4, Sizes DEF SizeIs, RingInv, RingTypes, Indices
      <3>3. Unread = <<>>
        BY <2>3, <3>2, EmptySeq DEF UnreadIs
      <3> QED BY <2>2, <3>1, <3>3
              DEF RingInv, Abstract!Next, Abstract!Pop, Abstract!Popped, Abstract!Answer
    <2>5. CASE input_char_tail # input_char_head
      <3>1. reader' = "read" /\ got' = got
        BY <1>2, <2>5 DEF vhid_getchar
      <3>2. Size > 0
        BY <2>3, <2>5, Sizes DEF SizeIs, RingInv, RingTypes, Indices
      <3> QED BY <2>2, <3>1, <3>2 DEF RingInv
    <2> QED BY <2>4, <2>5
  <1>3. CASE read_character
    <2>1. /\ UNCHANGED <<input_char_queue, input_char_head, input_char_tail, got>>
          /\ reader = "read" /\ reader' = "taken"
          /\ character' = input_char_queue[input_char_tail % CharQueueSize]
      BY <1>3 DEF read_character, chars
    <2> QED BY <2>1 DEF RingInv, RingTypes, Size, Unread
  <1>4. CASE take_character
    <2>1. /\ UNCHANGED <<input_char_queue, input_char_head>>
          /\ input_char_tail' = (input_char_tail + 1) % Wrap
          /\ reader = "taken" /\ reader' = "idle" /\ got' = character
      BY <1>4 DEF take_character
    <2>2. /\ RingTypes' /\ Unread' = Tail(Unread) /\ Unread # <<>>
          /\ Head(Unread) = input_char_queue[input_char_tail % CharQueueSize]
      BY <2>1, Taken DEF RingInv
    <2>3. RingInv' /\ got' = Head(Unread)
      BY <2>1, <2>2 DEF RingInv
    <2> QED BY <2>2, <2>3 DEF Abstract!Next, Abstract!Pop, Abstract!Popped, Abstract!Answer
  <1> QED BY <1>1, <1>2, <1>3, <1>4 DEF Reading

(* Each access keeps RingInv and is a step of the queue or none.           *)
LEMMA NextRing ==
    ASSUME RingInv, [InputNext]_inputvars
    PROVE  RingInv' /\ [Abstract!Next]_<<Unread, got>>
  <1>1. ASSUME NEW d \in Devices, DeviceEvent(d) \/ DeviceRaises(d)
        PROVE  UNCHANGED <<chars, reading>>
    BY <1>1 DEF DeviceEvent, DeviceRaises
  <1>2. ASSUME vhid_get_event \/ give_back \/ read_status \/ acknowledge \/ recheck
        PROVE  UNCHANGED <<chars, reading>>
    BY <1>2 DEF vhid_get_event, give_back, read_status, acknowledge, recheck
  <1>3. ASSUME UNCHANGED <<chars, reading>>
        PROVE  RingInv' /\ [Abstract!Next]_<<Unread, got>>
    BY <1>3, StillRing DEF chars, reading
  <1>4. ASSUME NEW d \in Devices, vhid_irq_handle(d) \/ timer_tick
        PROVE  RingInv' /\ [Abstract!Next]_<<Unread, got>>
    BY <1>4, StillRing DEF vhid_irq_handle, timer_tick, Woken, chars
  <1>5. CASE timer_tick
    BY <1>4, <1>5, Numbers
  <1>6. UNCHANGED inputvars => UNCHANGED <<chars, reading>>
    BY DEF inputvars
  <1> QED BY <1>1, <1>2, <1>3, <1>4, <1>5, <1>6, KeyRing, ReadRing DEF InputNext, Handling

(* The handler and getchar share the ring without a lock, and between any  *)
(* two of their accesses it is a bounded queue; the indices wrap around at *)
(* a multiple of its size, and this does not show.                         *)
THEOREM RingImplementsFifo == InputSpec => RingIsFifo
  BY InitRing, NextRing, PTL DEF InputSpec, RingIsFifo, Abstract!Spec
-----------------------------------------------------------------------------
(* The walk of the device tree.  A node on the way, and what an operation  *)
(* on the innermost leaves.                                                *)
Node == [addr : 0 .. MaxNodes, irq : Nat, kind : DeviceIds \cup {"none"}, inner : BOOLEAN]

(* The innermost node, and what it is when it is changed, begun and ended. *)
LEMMA InnermostIn ==
    ASSUME inside \in Seq(Node), inside # <<>>
    PROVE  /\ Last(inside) \in Node /\ Last(inside) = inside[Len(inside)]
           /\ Len(inside) \in Nat /\ Len(inside) > 0
  BY DEF Last

LEMMA InnermostChanged ==
    ASSUME inside \in Seq(Node), inside # <<>>, NEW node \in Node,
           NEW t, t = [inside EXCEPT ![Len(inside)] = node]
    PROVE  t \in Seq(Node) /\ t # <<>> /\ Last(t) = node
  <1>1. Len(inside) \in Nat /\ Len(inside) > 0
    OBVIOUS
  <1>2. t \in Seq(Node) /\ Len(t) = Len(inside) /\ t[Len(inside)] = node
    BY <1>1
  <1> QED BY <1>1, <1>2 DEF Last

LEMMA InnermostBegun ==
    ASSUME inside \in Seq(Node), NEW node \in Node, NEW t, t = Append(inside, node)
    PROVE  t \in Seq(Node) /\ t # <<>> /\ Last(t) = node
  BY DEF Last

LEMMA InnermostEnded ==
    ASSUME inside \in Seq(Node), inside # <<>>, Len(inside) # 1,
           NEW t, t = [Front(inside) EXCEPT ![Len(inside) - 1].inner = TRUE]
    PROVE  t \in Seq(Node) /\ t # <<>> /\ Last(t).inner
  <1>1. Len(inside) \in Nat /\ Len(inside) # 0
    BY EmptySeq
  <1>2. Len(inside) \in Nat /\ Len(inside) - 1 \in 1 .. Len(inside)
    <2>1. PICK k \in Nat : k = Len(inside) /\ k # 0 /\ k # 1
      BY <1>1
    <2> QED BY <2>1
  <1> DEFINE f == Front(inside)
             n == Len(inside) - 1
  <1>3. f \in Seq(Node) /\ Len(f) = n /\ n \in 1 .. Len(f)
    <2>1. f = SubSeq(inside, 1, n)
      BY DEF Front
    <2> QED BY <1>2, <2>1, SubSeqProperties
  <1>4. t = [f EXCEPT ![n].inner = TRUE]
    OBVIOUS
  <1> HIDE DEF f, n
  <1>5. [f[n] EXCEPT !.inner = TRUE] \in Node /\ [f[n] EXCEPT !.inner = TRUE].inner
    <2>1. f[n] \in Node
      BY <1>3
    <2> QED BY <2>1 DEF Node
  <1> DEFINE g == [f[n] EXCEPT !.inner = TRUE]
  <1>6. t = [f EXCEPT ![n] = g]
    BY <1>4
  <1>7. g \in Node /\ g.inner
    BY <1>5
  <1> HIDE DEF g
  <1>8. t \in Seq(Node) /\ Len(t) = n /\ t[n] = g
    <2>1. ASSUME NEW u \in Seq(Node), NEW k \in 1 .. Len(u), NEW x \in Node
          PROVE  /\ [u EXCEPT ![k] = x] \in Seq(Node)
                 /\ Len([u EXCEPT ![k] = x]) = Len(u) /\ [u EXCEPT ![k] = x][k] = x
      OBVIOUS
    <2>2. /\ [f EXCEPT ![n] = g] \in Seq(Node)
          /\ Len([f EXCEPT ![n] = g]) = Len(f) /\ [f EXCEPT ![n] = g][n] = g
      BY <1>3, <1>7, <2>1
    <2> QED BY <1>3, <1>6, <2>2
  <1> QED BY <1>3, <1>7, <1>8 DEF Last

TreeTypes ==
    /\ inside \in Seq(Node) /\ seen \in 0 .. MaxNodes /\ (inside # <<>> => seen # 0)
    /\ node_mmio_addr \in 0 .. MaxNodes /\ node_irq_num \in Nat
    /\ listed \in [Noted -> Seq(Node)]
    /\ base \in [Single -> 0 .. MaxNodes] /\ irq \in [Single \ {"snd"} -> Nat]
    /\ inputs \in Seq([addr : Nat, irq : Nat]) /\ Len(inputs) <= VIRTIO_INPUT_MAX_DEVICES
    /\ inherited \in BOOLEAN

(* What is collected is the innermost node's, as long as it has no inner   *)
(* nodes; otherwise that of a node that has ended, and is noted already.   *)
Collected ==
    IF inside # <<>> /\ ~Last(inside).inner
    THEN LET node == Last(inside)
         IN  /\ node_mmio_addr = node.addr /\ node_irq_num = node.irq
             /\ is = {node.kind} \cap Noted
             /\ node.kind # "none" => node.addr # 0
    ELSE \A k \in is :
            /\ is = {k} /\ k \in Noted
            /\ k \in Single => base[k] = node_mmio_addr
            /\ k \in DOMAIN irq /\ node_irq_num # 0 => irq[k] = node_irq_num

TreeInv == /\ TreeTypes /\ Collected /\ FoundAsListed
           /\ ~inherited => Len(inputs) <= Len(listed["input"])

(* Nothing is listed and nothing found.                                    *)
LEMMA InitTree == TreeInit => TreeInv
  <1> SUFFICES ASSUME TreeInit PROVE TreeInv
    OBVIOUS
  <1>1. listed = [k \in Noted |-> <<>>] /\ inside = <<>> /\ is = {} /\ inputs = <<>>
    BY DEF TreeInit
  <1>2. TreeTypes
    <2>1. <<>> \in Seq(Node) /\ <<>> \in Seq([addr : Nat, irq : Nat]) /\ Len(<<>>) = 0
      OBVIOUS
    <2>2. listed \in [Noted -> Seq(Node)]
      BY <1>1, <2>1
    <2>3. base \in [Single -> 0 .. MaxNodes] /\ irq \in [Single \ {"snd"} -> Nat]
      BY DeviceTreeAssumption DEF TreeInit
    <2>4. seen = 0 /\ node_mmio_addr = 0 /\ node_irq_num = 0 /\ inherited = FALSE
      BY DEF TreeInit
    <2>5. /\ inside \in Seq(Node) /\ inputs \in Seq([addr : Nat, irq : Nat])
          /\ Len(inputs) <= VIRTIO_INPUT_MAX_DEVICES
      BY <1>1, <2>1, DeviceTreeAssumption
    <2>6. 0 \in 0 .. MaxNodes
      BY DeviceTreeAssumption
    <2> QED BY <1>1, <2>2, <2>3, <2>4, <2>5, <2>6 DEF TreeTypes
  <1>3. Collected
    BY <1>1 DEF Collected
  <1>4. FoundAsListed /\ Len(inputs) <= Len(listed["input"])
    <2>1. listed["input"] = <<>> /\ \A k \in Single : listed[k] = <<>>
      BY <1>1 DEF Noted
    <2>2. Len(<<>>) = 0 /\ DOMAIN <<>> = {}
      OBVIOUS
    <2>3. \A k \in Single : base[k] = 0
      BY DEF TreeInit
    <2>4. DOMAIN irq \subseteq Single /\ \A k \in DOMAIN irq : irq[k] = 0
      BY DEF TreeInit
    <2>5. inputs = [n \in 1 .. Len(inputs) |->
                      [addr |-> listed["input"][n].addr, irq |-> listed["input"][n].irq]]
      BY <1>1, <2>2
    <2> QED BY <1>1, <2>1, <2>2, <2>3, <2>4, <2>5 DEF FoundAsListed
  <1> QED BY <1>2, <1>3, <1>4 DEF TreeInv

(* A step that notes nothing.                                              *)
LEMMA NothingNoted ==
    ASSUME TreeInv, UNCHANGED <<found, listed, inherited>>, TreeTypes', Collected'
    PROVE  TreeInv'
  BY DEF TreeInv, FoundAsListed, found

(* A node that begins is inside the one it is in.                          *)
LEMMA BeginTree == ASSUME TreeInv, FDT_BEGIN_NODE PROVE TreeInv'
  <1>1. Bare \in Node /\ ~Bare.inner /\ Bare.kind = "none" /\ Bare.addr = 0 /\ Bare.irq = 0
    BY DeviceTreeAssumption DEF Bare, Node
  <1>2. inside' \in Seq(Node) /\ inside' # <<>> /\ Last(inside') = Bare
    BY <1>1, InnermostBegun DEF FDT_BEGIN_NODE, TreeInv, TreeTypes
  <1>3. /\ UNCHANGED <<found, listed, inherited>> /\ seen' = seen + 1 /\ seen < MaxNodes
        /\ node_mmio_addr' = 0 /\ node_irq_num' = 0 /\ is' = {}
    BY DEF FDT_BEGIN_NODE, Cleared
  <1>4. TreeTypes'
    BY <1>2, <1>3, DeviceTreeAssumption DEF TreeInv, TreeTypes, found
  <1>5. "none" \notin Noted
    BY DEF Noted, Single
  <1>6. Collected'
    BY <1>1, <1>2, <1>3, <1>5 DEF Collected
  <1> QED BY <1>3, <1>4, <1>6, NothingNoted

(* Properties change the innermost node only.                              *)
LEMMA RegTree == ASSUME TreeInv, FDT_PROP_reg PROVE TreeInv'
  <1> DEFINE top == Last(inside)
  <1>1. inside \in Seq(Node) /\ inside # <<>> /\ ~top.inner /\ top.kind = "none" /\ top \in Node
    BY InnermostIn DEF FDT_PROP_reg, Open, TreeInv, TreeTypes
  <1>2. is = {}
    BY <1>1 DEF TreeInv, Collected, Noted, Single
  <1>3. PICK kind \in DeviceIds \cup {"none"} :
           /\ is' = IF kind \in Noted THEN is \cup {kind} ELSE is
           /\ inside' = [inside EXCEPT ![Len(inside)].addr = seen, ![Len(inside)].kind = kind]
    BY DEF FDT_PROP_reg
  <1> DEFINE node == [top EXCEPT !.addr = seen, !.kind = kind]
  <1>4. seen \in 0 .. MaxNodes /\ seen # 0
    BY <1>1 DEF TreeInv, TreeTypes
  <1>5. node \in Node /\ node.addr = seen /\ node.kind = kind /\ node.irq = top.irq /\ ~node.inner
    BY <1>1, <1>4 DEF Node
  <1>6. inside' = [inside EXCEPT ![Len(inside)] = node]
    <2>1. Last(inside) = inside[Len(inside)] /\ Len(inside) \in DOMAIN inside
      BY <1>1, InnermostIn
    <2> QED BY <1>3, <2>1
  <1> HIDE DEF node
  <1>7. inside' \in Seq(Node) /\ inside' # <<>> /\ Last(inside') = node
    BY <1>1, <1>5, <1>6, InnermostChanged
  <1>8. /\ UNCHANGED <<found, listed, inherited, seen, node_irq_num>> /\ node_mmio_addr' = seen
    BY DEF FDT_PROP_reg
  <1>9. TreeTypes'
    BY <1>4, <1>7, <1>8 DEF TreeInv, TreeTypes, found
  <1>10. node_irq_num = top.irq
    BY <1>1 DEF TreeInv, Collected
  <1>11. is' = {kind} \cap Noted
    BY <1>2, <1>3
  <1>12. /\ node_mmio_addr' = node.addr /\ node_irq_num' = node.irq /\ is' = {node.kind} \cap Noted
         /\ node.addr # 0
    BY <1>4, <1>5, <1>8, <1>10, <1>11
  <1>13. Collected'
    BY <1>5, <1>7, <1>12 DEF Collected
  <1> QED BY <1>8, <1>9, <1>13, NothingNoted

LEMMA InterruptsTree == ASSUME TreeInv, FDT_PROP_interrupts PROVE TreeInv'
  <1> DEFINE top == Last(inside)
  <1>1. inside \in Seq(Node) /\ inside # <<>> /\ ~top.inner /\ top \in Node
    BY InnermostIn DEF FDT_PROP_interrupts, Open, TreeInv, TreeTypes
  <1>2. PICK first \in {0, 32} :
           /\ node_irq_num' = seen + first
           /\ inside' = [inside EXCEPT ![Len(inside)].irq = seen + first]
    BY DEF FDT_PROP_interrupts
  <1>3. seen + first \in Nat
    BY DEF TreeInv, TreeTypes
  <1> DEFINE node == [top EXCEPT !.irq = seen + first]
  <1>4. /\ node \in Node /\ node.addr = top.addr /\ node.kind = top.kind /\ node.irq = seen + first
        /\ ~node.inner
    BY <1>1, <1>3 DEF Node
  <1>5. inside' = [inside EXCEPT ![Len(inside)] = node]
    <2>1. Last(inside) = inside[Len(inside)] /\ Len(inside) \in DOMAIN inside
      BY <1>1, InnermostIn
    <2> QED BY <1>2, <2>1
  <1> HIDE DEF node
  <1>6. inside' \in Seq(Node) /\ inside' # <<>> /\ Last(inside') = node
    BY <1>1, <1>4, <1>5, InnermostChanged
  <1>7. /\ UNCHANGED <<found, listed, inherited, seen, node_mmio_addr, is>>
    BY DEF FDT_PROP_interrupts
  <1>8. TreeTypes'
    BY <1>2, <1>3, <1>6, <1>7 DEF TreeInv, TreeTypes, found
  <1>9. node_mmio_addr = top.addr /\ is = {top.kind} \cap Noted /\ (top.kind # "none" => top.addr # 0)
    BY <1>1 DEF TreeInv, Collected
  <1>10. Collected'
    BY <1>2, <1>4, <1>6, <1>7, <1>9 DEF Collected
  <1> QED BY <1>7, <1>8, <1>10, NothingNoted

(* What Registered notes, by what is collected.                            *)
LEMMA RegistersNothing ==
    ASSUME TreeInv, Registered, is = {} \/ node_mmio_addr = 0
    PROVE  UNCHANGED found
  <1>1. CASE node_mmio_addr = 0
    BY <1>1 DEF Registered
  <1>2. CASE is = {} /\ node_mmio_addr # 0
    <2>1. is \cap Single = {} /\ "input" \notin is
      BY <1>2
    <2>2. (CHOOSE k \in Single \cup {"none"} :
             IF is \cap Single = {} THEN k = "none" ELSE k \in is) = "none"
      BY <2>1
    <2> QED BY <1>2, <2>1, <2>2 DEF Registered, found
  <1> QED BY <1>1, <1>2

(* A node of a single kind, and one of an input device, registered.        *)
LEMMA RegistersSingle ==
    ASSUME TreeInv, Registered, NEW k \in Single, is = {k}, node_mmio_addr # 0
    PROVE  /\ base' = [base EXCEPT ![k] = node_mmio_addr] /\ inputs' = inputs
           /\ irq' = IF node_irq_num = 0 THEN irq
                     ELSE [j \in DOMAIN irq |-> IF j = k THEN node_irq_num ELSE irq[j]]
  <1>1. is \cap Single = {k}
    OBVIOUS
  <1>2. (CHOOSE j \in Single \cup {"none"} :
           IF is \cap Single = {} THEN j = "none" ELSE j \in is) = k
    BY <1>1
  <1>3. k # "none"
    BY DEF Single
  <1> QED BY <1>2, <1>3 DEF Registered

LEMMA RegistersInput ==
    ASSUME TreeInv, Registered, is = {"input"}, node_mmio_addr # 0
    PROVE  /\ UNCHANGED <<base, irq>>
           /\ inputs' = IF Len(inputs) < VIRTIO_INPUT_MAX_DEVICES
                        THEN Append(inputs, [addr |-> node_mmio_addr, irq |-> node_irq_num])
                        ELSE inputs
  <1>1. is \cap Single = {}
    BY DEF Single
  <1>2. (CHOOSE k \in Single \cup {"none"} :
           IF is \cap Single = {} THEN k = "none" ELSE k \in is) = "none"
    BY <1>1
  <1> QED BY <1>2 DEF Registered

(* The interrupt of the last node of a list that has one.                  *)
IrqOf(n, list) ==
    \/ n = 0 /\ \A i \in DOMAIN list : list[i].irq = 0
    \/ \E i \in DOMAIN list : /\ n = list[i].irq /\ n # 0
                              /\ \A j \in i + 1 .. Len(list) : list[j].irq = 0

(* One more node of a kind: its interrupt counts unless it has none.       *)
LEMMA IrqAppended ==
    ASSUME NEW list \in Seq(Node), NEW n, IrqOf(n, list), NEW node \in Node
    PROVE  IrqOf(IF node.irq = 0 THEN n ELSE node.irq, Append(list, node))
  <1> DEFINE more == Append(list, node)
             last == Len(list) + 1
  <1>1. /\ DOMAIN more = 1 .. last /\ Len(more) = last /\ more[last] = node /\ last \in 1 .. last
        /\ DOMAIN list = 1 .. Len(list) /\ Len(list) \in Nat
        /\ \A i \in DOMAIN list : more[i] = list[i]
    OBVIOUS
  <1>2. \A i \in 1 .. last : i = last \/ i \in DOMAIN list
    BY <1>1
  <1> HIDE DEF more
  <1>3. CASE node.irq # 0
    <2>1. \A j \in last + 1 .. Len(more) : more[j].irq = 0
      BY <1>1
    <2>2. \E i \in DOMAIN more : /\ node.irq = more[i].irq /\ node.irq # 0
                                 /\ \A j \in i + 1 .. Len(more) : more[j].irq = 0
      <3> HIDE DEF last
      <3> QED BY <1>1, <1>3, <2>1, Zenon
    <2> QED BY <1>3, <2>2 DEF IrqOf, more
  <1>4. CASE node.irq = 0 /\ n = 0 /\ \A i \in DOMAIN list : list[i].irq = 0
    <2>1. \A i \in DOMAIN more : more[i].irq = 0
      BY <1>1, <1>2, <1>4
    <2> QED BY <1>4, <2>1 DEF IrqOf, more
  <1>5. ASSUME node.irq = 0, NEW i \in DOMAIN list, n = list[i].irq, n # 0,
               \A j \in i + 1 .. Len(list) : list[j].irq = 0
        PROVE  IrqOf(n, more)
    <2>1. i \in DOMAIN more /\ more[i].irq = n
      BY <1>1, <1>5
    <2>2. \A j \in i + 1 .. Len(more) : more[j].irq = 0
      <3> SUFFICES ASSUME NEW j \in i + 1 .. Len(more) PROVE more[j].irq = 0
        OBVIOUS
      <3>1. j = last \/ (j \in DOMAIN list /\ j \in i + 1 .. Len(list))
        BY <1>1
      <3> QED BY <1>1, <1>5, <3>1
    <2> QED BY <1>5, <2>1, <2>2 DEF IrqOf
  <1> QED BY <1>3, <1>4, <1>5 DEF IrqOf, more

(* FoundAsListed, part by part.                                            *)
BaseAsListed(b, lists) ==
    \A k \in Single : b[k] = IF lists[k] = <<>> THEN 0 ELSE Last(lists[k]).addr
IrqAsListed(q, lists) == \A k \in DOMAIN q : IrqOf(q[k], lists[k])
InputsAsListed(ins, list) ==
    /\ ins = [n \in 1 .. Len(ins) |-> [addr |-> list[n].addr, irq |-> list[n].irq]]
    /\ Len(ins) \in {Len(list), VIRTIO_INPUT_MAX_DEVICES}

(* FoundAsListed in three parts, now and in the next state.                *)
LEMMA FoundParts ==
    FoundAsListed <=> /\ BaseAsListed(base, listed) /\ IrqAsListed(irq, listed)
                      /\ ~inherited => InputsAsListed(inputs, listed["input"])
  <1>1. IrqAsListed(irq, listed) <=>
          \A k \in DOMAIN irq :
             \/ irq[k] = 0 /\ \A n \in DOMAIN listed[k] : listed[k][n].irq = 0
             \/ \E n \in DOMAIN listed[k] :
                   /\ irq[k] = listed[k][n].irq /\ irq[k] # 0
                   /\ \A m \in n + 1 .. Len(listed[k]) : listed[k][m].irq = 0
    BY DEF IrqAsListed, IrqOf
  <1> QED BY <1>1 DEF FoundAsListed, BaseAsListed, InputsAsListed

LEMMA FoundPartsNext ==
    FoundAsListed' <=> /\ BaseAsListed(base', listed') /\ IrqAsListed(irq', listed')
                       /\ ~inherited' => InputsAsListed(inputs', listed'["input"])
  <1>1. IrqAsListed(irq', listed') <=>
          \A k \in DOMAIN irq' :
             \/ irq'[k] = 0 /\ \A n \in DOMAIN listed'[k] : listed'[k][n].irq = 0
             \/ \E n \in DOMAIN listed'[k] :
                   /\ irq'[k] = listed'[k][n].irq /\ irq'[k] # 0
                   /\ \A m \in n + 1 .. Len(listed'[k]) : listed'[k][m].irq = 0
    BY DEF IrqAsListed, IrqOf
  <1> QED BY <1>1 DEF FoundAsListed, BaseAsListed, InputsAsListed

(* The node that ends has no inner nodes and a device of which one is kept.*)
LEMMA SingleListed ==
    ASSUME TreeInv, NEW k \in Single, NEW node \in Node, node.addr = node_mmio_addr,
           node.irq = node_irq_num,
           base' = [base EXCEPT ![k] = node_mmio_addr],
           irq' = IF node_irq_num = 0 THEN irq
                  ELSE [j \in DOMAIN irq |-> IF j = k THEN node_irq_num ELSE irq[j]],
           listed' = [listed EXCEPT ![k] = Append(@, node)]
    PROVE  /\ BaseAsListed(base', listed') /\ IrqAsListed(irq', listed')
           /\ listed' \in [Noted -> Seq(Node)] /\ listed'["input"] = listed["input"]
           /\ base' \in [Single -> 0 .. MaxNodes] /\ irq' \in [Single \ {"snd"} -> Nat]
           /\ base'[k] = node_mmio_addr /\ (k \in DOMAIN irq' /\ node_irq_num # 0 => irq'[k] = node_irq_num)
  <1>1. /\ listed \in [Noted -> Seq(Node)] /\ k \in Noted /\ k # "input"
        /\ base \in [Single -> 0 .. MaxNodes] /\ irq \in [Single \ {"snd"} -> Nat]
        /\ node_mmio_addr \in 0 .. MaxNodes /\ node_irq_num \in Nat
    BY DEF TreeInv, TreeTypes, Noted, Single
  <1>2. Append(listed[k], node) \in Seq(Node) /\ listed[k] \in Seq(Node)
    BY <1>1
  <1>3. /\ listed' \in [Noted -> Seq(Node)] /\ listed'[k] = Append(listed[k], node)
        /\ \A j \in Noted : j # k => listed'[j] = listed[j]
    BY <1>1, <1>2
  <1>4. listed'["input"] = listed["input"]
    BY <1>1, <1>3 DEF Noted
  <1>5. /\ base' \in [Single -> 0 .. MaxNodes] /\ base'[k] = node.addr
        /\ \A j \in Single : j # k => base'[j] = base[j]
    BY <1>1
  <1>6. BaseAsListed(base', listed')
    <2> SUFFICES ASSUME NEW j \in Single
                 PROVE  base'[j] = IF listed'[j] = <<>> THEN 0 ELSE Last(listed'[j]).addr
      BY DEF BaseAsListed
    <2>1. CASE j = k
      <3>1. listed'[k] # <<>> /\ Last(listed'[k]) = node
        <4>1. \A u \in Seq(Node) : Append(u, node) # <<>> /\ Last(Append(u, node)) = node
          BY DEF Last
        <4> QED BY <1>2, <1>3, <4>1
      <3> QED BY <1>5, <2>1, <3>1
    <2>2. CASE j # k
      <3>1. base[j] = IF listed[j] = <<>> THEN 0 ELSE Last(listed[j]).addr
        BY FoundParts DEF TreeInv, BaseAsListed
      <3>2. base'[j] = base[j] /\ listed'[j] = listed[j]
        BY <1>3, <1>5, <2>2 DEF Noted
      <3> QED BY <3>1, <3>2
    <2> QED BY <2>1, <2>2
  <1>7. /\ irq' \in [Single \ {"snd"} -> Nat]
        /\ \A j \in DOMAIN irq : j # k => irq'[j] = irq[j]
        /\ k \in DOMAIN irq => irq'[k] = IF node.irq = 0 THEN irq[k] ELSE node.irq
    BY <1>1
  <1>8. IrqAsListed(irq', listed')
    <2> SUFFICES ASSUME NEW j \in DOMAIN irq' PROVE IrqOf(irq'[j], listed'[j])
      BY DEF IrqAsListed
    <2>1. j \in DOMAIN irq /\ j \in Noted
      BY <1>1, <1>7 DEF Noted
    <2>2. IrqOf(irq[j], listed[j])
      BY <2>1, FoundParts DEF TreeInv, IrqAsListed
    <2>3. CASE j = k
      <3>1. IrqOf(IF node.irq = 0 THEN irq[k] ELSE node.irq, Append(listed[k], node))
        BY <1>2, <2>2, <2>3, IrqAppended
      <3>2. irq'[k] = IF node.irq = 0 THEN irq[k] ELSE node.irq
        BY <1>7, <2>1, <2>3
      <3> QED BY <1>3, <2>3, <3>1, <3>2
    <2>4. CASE j # k
      BY <1>3, <1>7, <2>1, <2>2, <2>4
    <2> QED BY <2>3, <2>4
  <1> QED BY <1>3, <1>4, <1>5, <1>6, <1>7, <1>8

(* Input devices are kept while there is room.                             *)
LEMMA InputsFit ==
    ASSUME NEW S, NEW ins \in Seq(S), Len(ins) <= VIRTIO_INPUT_MAX_DEVICES,
           NEW r \in S,
           NEW more, more = IF Len(ins) < VIRTIO_INPUT_MAX_DEVICES THEN Append(ins, r) ELSE ins
    PROVE  more \in Seq(S) /\ Len(more) <= VIRTIO_INPUT_MAX_DEVICES
  <1>1. CASE Len(ins) < VIRTIO_INPUT_MAX_DEVICES
    <2>1. more = Append(ins, r)
      BY <1>1
    <2>2. more \in Seq(S) /\ Len(more) = Len(ins) + 1 /\ Len(ins) \in Nat
      BY <2>1
    <2> QED BY <1>1, <2>2, DeviceTreeAssumption
  <1>2. CASE ~(Len(ins) < VIRTIO_INPUT_MAX_DEVICES)
    BY <1>2
  <1> QED BY <1>1, <1>2

(* The same for an input device.                                           *)
LEMMA MoreInputs ==
    ASSUME NEW ins \in Seq([addr : Nat, irq : Nat]), NEW list \in Seq(Node), NEW node \in Node,
           InputsAsListed(ins, list), Len(ins) <= Len(list), Len(ins) <= VIRTIO_INPUT_MAX_DEVICES
    PROVE  LET more == IF Len(ins) < VIRTIO_INPUT_MAX_DEVICES
                       THEN Append(ins, [addr |-> node.addr, irq |-> node.irq]) ELSE ins
           IN  InputsAsListed(more, Append(list, node)) /\ Len(more) <= Len(Append(list, node))
  <1> DEFINE r == [addr |-> node.addr, irq |-> node.irq]
             l == Append(list, node)
             a == Append(ins, r)
  <1>1. /\ Len(ins) \in Nat /\ Len(list) \in Nat /\ Len(l) = Len(list) + 1
        /\ \A n \in 1 .. Len(list) : l[n] = list[n]
        /\ l[Len(list) + 1] = node
    OBVIOUS
  <1>2. \A n \in 1 .. Len(ins) : ins[n] = [addr |-> list[n].addr, irq |-> list[n].irq]
    BY DEF InputsAsListed
  <1>3. \A n \in 1 .. Len(ins) : n \in 1 .. Len(list)
    BY <1>1
  <1>4. \A n \in 1 .. Len(ins) : ins[n] = [addr |-> l[n].addr, irq |-> l[n].irq]
    BY <1>1, <1>2, <1>3
  <1>5. CASE Len(ins) < VIRTIO_INPUT_MAX_DEVICES
    <2>1. Len(ins) = Len(list)
      <3>1. Len(ins) \in {Len(list), VIRTIO_INPUT_MAX_DEVICES}
        BY DEF InputsAsListed
      <3>2. Len(ins) # VIRTIO_INPUT_MAX_DEVICES
        BY <1>1, <1>5, DeviceTreeAssumption
      <3> QED BY <3>1, <3>2
    <2>2. /\ Len(a) = Len(ins) + 1 /\ DOMAIN a = 1 .. Len(a)
          /\ \A n \in 1 .. Len(ins) : a[n] = ins[n]
          /\ a[Len(ins) + 1] = r
      <3>1. r \in [addr : Nat, irq : Nat]
        BY DEF Node
      <3> HIDE DEF r
      <3> QED BY <3>1
    <2>3. \A n \in 1 .. Len(a) : n = Len(ins) + 1 \/ n \in 1 .. Len(ins)
      BY <1>1, <2>2
    <2>4. \A n \in 1 .. Len(a) : a[n] = [addr |-> l[n].addr, irq |-> l[n].irq]
      <3> HIDE DEF a, l
      <3> QED BY <1>1, <1>4, <2>1, <2>2, <2>3
    <2>5. a = [n \in 1 .. Len(a) |-> [addr |-> l[n].addr, irq |-> l[n].irq]]
      <3>1. a = [n \in DOMAIN a |-> a[n]]
        <4>1. a \in Seq([addr : Nat, irq : Nat])
          BY DEF Node
        <4> HIDE DEF a
        <4> QED BY <4>1
      <3> HIDE DEF a, l
      <3> QED BY <2>2, <2>4, <3>1
    <2>6. Len(a) = Len(l)
      BY <1>1, <2>1, <2>2
    <2>7. InputsAsListed(a, l)
      <3> HIDE DEF a, l
      <3> QED BY <2>5, <2>6 DEF InputsAsListed
    <2> HIDE DEF a, l, r
    <2>8. Len(a) <= Len(l)
      BY <1>1, <2>6
    <2> QED BY <1>5, <2>7, <2>8 DEF a, l, r
  <1>6. CASE ~(Len(ins) < VIRTIO_INPUT_MAX_DEVICES)
    <2>1. Len(ins) = VIRTIO_INPUT_MAX_DEVICES
      BY <1>1, <1>6, DeviceTreeAssumption
    <2>2. ins = [n \in 1 .. Len(ins) |-> [addr |-> l[n].addr, irq |-> l[n].irq]]
      <3>1. ins = [n \in 1 .. Len(ins) |-> ins[n]]
        OBVIOUS
      <3> HIDE DEF l
      <3> QED BY <1>4, <3>1
    <2>3. InputsAsListed(ins, l)
      <3> HIDE DEF l
      <3> QED BY <2>1, <2>2 DEF InputsAsListed
    <2>4. Len(ins) <= Len(l)
      BY <1>1
    <2> QED BY <1>6, <2>3, <2>4
  <1> QED BY <1>5, <1>6

(* What is left when a node ends.                                          *)
Ended ==
    /\ inside' \in Seq(Node) /\ seen' = seen
    /\ inside' # <<>> => Last(inside').inner /\ seen' # 0
    /\ UNCHANGED <<node_mmio_addr, node_irq_num, is>>
    /\ LET node == Last(inside)
       IN  /\ listed' = IF node.kind \in Noted /\ ~node.inner
                        THEN [listed EXCEPT ![node.kind] = Append(@, node)] ELSE listed
           /\ inherited' = (inherited \/ (node.inner /\ is # {}))

(* FDT_END_NODE, part by part.                                             *)
LEMMA EndedIs == ASSUME TreeInv, FDT_END_NODE PROVE Ended
  <1>1. inside \in Seq(Node) /\ inside # <<>> /\ seen # 0
    BY DEF FDT_END_NODE, TreeInv, TreeTypes
  <1>2. CASE Len(inside) = 1
    <2>1. inside' = <<>>
      BY <1>2 DEF FDT_END_NODE
    <2>2. inside' \in Seq(Node)
      BY <2>1
    <2> QED BY <1>1, <2>1, <2>2 DEF FDT_END_NODE, Ended, nodevars
  <1>3. CASE Len(inside) # 1
    <2>1. inside' = [Front(inside) EXCEPT ![Len(inside) - 1].inner = TRUE]
      BY <1>3 DEF FDT_END_NODE
    <2>2. inside' \in Seq(Node) /\ inside' # <<>> /\ Last(inside').inner
      BY <1>1, <1>3, <2>1, InnermostEnded
    <2> QED BY <1>1, <2>2 DEF FDT_END_NODE, Ended, nodevars
  <1> QED BY <1>2, <1>3

(* The types, when a node ends.                                            *)
LEMMA EndTypes ==
    ASSUME TreeInv, Ended, listed' \in [Noted -> Seq(Node)],
           base' \in [Single -> 0 .. MaxNodes], irq' \in [Single \ {"snd"} -> Nat],
           inputs' \in Seq([addr : Nat, irq : Nat]), Len(inputs') <= VIRTIO_INPUT_MAX_DEVICES
    PROVE  TreeTypes'
  BY DEF TreeInv, TreeTypes, Ended

(* Nothing is noted: nothing is there, or an input device too much.        *)
LEMMA EndKeeps ==
    ASSUME TreeInv, Ended, UNCHANGED <<found, listed>>,
           \A k \in is : /\ is = {k} /\ k \in Noted
                         /\ k \in Single => base[k] = node_mmio_addr
                         /\ k \in DOMAIN irq /\ node_irq_num # 0 => irq[k] = node_irq_num
    PROVE  TreeInv'
  <1>1. UNCHANGED <<base, irq, inputs, listed>>
    BY DEF found
  <1>2. TreeTypes'
    BY <1>1, EndTypes DEF TreeInv, TreeTypes
  <1>3. Collected'
    BY <1>1 DEF Ended, Collected
  <1>4. ~inherited' => ~inherited
    BY DEF Ended
  <1>5. FoundAsListed' /\ (~inherited' => Len(inputs') <= Len(listed'["input"]))
    BY <1>1, <1>4, FoundParts, FoundPartsNext DEF TreeInv
  <1> QED BY <1>2, <1>3, <1>5 DEF TreeInv

(* A node without inner nodes ends, and so may its device be noted.        *)
LEMMA LeafEnds ==
    ASSUME TreeInv, Ended, Registered, inside # <<>>, ~Last(inside).inner
    PROVE  TreeInv'
  <1> DEFINE node == Last(inside)
  <1>1. /\ node \in Node /\ ~node.inner
        /\ node_mmio_addr = node.addr /\ node_irq_num = node.irq
        /\ is = {node.kind} \cap Noted /\ (node.kind # "none" => node.addr # 0)
    BY InnermostIn DEF TreeInv, TreeTypes, Collected
  <1>2. "none" \notin Noted /\ "input" \in Noted /\ "input" \notin Single /\ "input" \notin DOMAIN irq'
        /\ \A k \in Noted : k # "input" => k \in Single
    <2>1. DOMAIN irq \subseteq Single
      BY DEF TreeInv, TreeTypes
    <2>2. DOMAIN irq' = DOMAIN irq
      BY DEF Registered, found
    <2> QED BY <2>1, <2>2 DEF Noted, Single
  <1>3. CASE node.kind \notin Noted
    <2>1. is = {}
      BY <1>1, <1>3
    <2>2. UNCHANGED found
      BY <2>1, RegistersNothing
    <2>3. UNCHANGED listed
      BY <1>3 DEF Ended
    <2> QED BY <2>1, <2>2, <2>3, EndKeeps
  <1>4. CASE node.kind \in Single
    <2> DEFINE k == node.kind
    <2>1. is = {k} /\ k \in Noted /\ k # "none" /\ node_mmio_addr # 0
      BY <1>1, <1>2, <1>4 DEF Noted
    <2>2. /\ base' = [base EXCEPT ![k] = node_mmio_addr] /\ inputs' = inputs
          /\ irq' = IF node_irq_num = 0 THEN irq
                    ELSE [j \in DOMAIN irq |-> IF j = k THEN node_irq_num ELSE irq[j]]
      BY <1>4, <2>1, RegistersSingle
    <2>3. listed' = [listed EXCEPT ![k] = Append(@, node)] /\ inherited' = inherited
      BY <1>1, <2>1 DEF Ended, TreeInv, TreeTypes
    <2>4. /\ BaseAsListed(base', listed') /\ IrqAsListed(irq', listed')
          /\ listed' \in [Noted -> Seq(Node)] /\ listed'["input"] = listed["input"]
          /\ base' \in [Single -> 0 .. MaxNodes] /\ irq' \in [Single \ {"snd"} -> Nat]
          /\ base'[k] = node_mmio_addr /\ (k \in DOMAIN irq' /\ node_irq_num # 0 => irq'[k] = node_irq_num)
      <3> HIDE DEF k, node
      <3>1. node.addr = node_mmio_addr /\ node.irq = node_irq_num /\ node \in Node /\ k \in Single
        BY <1>1, <1>4 DEF k
      <3> QED BY <2>2, <2>3, <3>1, SingleListed
    <2>5. TreeTypes'
      <3>1. inputs' \in Seq([addr : Nat, irq : Nat]) /\ Len(inputs') <= VIRTIO_INPUT_MAX_DEVICES
        BY <2>2 DEF TreeInv, TreeTypes
      <3> QED BY <2>4, <3>1, EndTypes
    <2>6. Collected'
      <3>1. is' = {k} /\ node_mmio_addr' = node_mmio_addr /\ node_irq_num' = node_irq_num
        BY <2>1 DEF Ended
      <3>2. inside' # <<>> => Last(inside').inner
        BY DEF Ended
      <3> HIDE DEF k
      <3> QED BY <2>1, <2>4, <3>1, <3>2 DEF Collected
    <2>7. FoundAsListed' /\ (~inherited' => Len(inputs') <= Len(listed'["input"]))
      BY <2>2, <2>3, <2>4, FoundParts, FoundPartsNext DEF TreeInv
    <2> QED BY <2>5, <2>6, <2>7 DEF TreeInv
  <1>5. CASE node.kind = "input"
    <2>1. is = {"input"} /\ node_mmio_addr # 0
      BY <1>1, <1>2, <1>5
    <2>2. /\ UNCHANGED <<base, irq>>
          /\ inputs' = IF Len(inputs) < VIRTIO_INPUT_MAX_DEVICES
                       THEN Append(inputs, [addr |-> node_mmio_addr, irq |-> node_irq_num])
                       ELSE inputs
      BY <2>1, RegistersInput
    <2>3. listed' = [listed EXCEPT !["input"] = Append(@, node)] /\ inherited' = inherited
      BY <1>1, <1>2, <1>5 DEF Ended, TreeInv, TreeTypes
    <2>4. listed \in [Noted -> Seq(Node)] /\ listed["input"] \in Seq(Node) /\ DOMAIN irq = Single \ {"snd"}
      BY <1>2 DEF TreeInv, TreeTypes
    <2>5. /\ listed' \in [Noted -> Seq(Node)] /\ listed'["input"] = Append(listed["input"], node)
          /\ \A k \in Single : listed'[k] = listed[k]
      <3>1. Append(listed["input"], node) \in Seq(Node)
        BY <1>1, <2>4
      <3>2. \A k \in Single : k \in Noted /\ k # "input"
        BY <1>2 DEF Noted
      <3> HIDE DEF node
      <3> QED BY <1>2, <2>3, <2>4, <3>1, <3>2
    <2>6. BaseAsListed(base', listed') /\ IrqAsListed(irq', listed')
      BY <2>2, <2>4, <2>5, FoundParts DEF TreeInv, BaseAsListed, IrqAsListed
    <2>7. /\ inputs' \in Seq([addr : Nat, irq : Nat]) /\ Len(inputs') <= VIRTIO_INPUT_MAX_DEVICES
      <3>1. [addr |-> node_mmio_addr, irq |-> node_irq_num] \in [addr : Nat, irq : Nat]
        BY DEF TreeInv, TreeTypes
      <3>2. inputs \in Seq([addr : Nat, irq : Nat]) /\ Len(inputs) <= VIRTIO_INPUT_MAX_DEVICES
        BY DEF TreeInv, TreeTypes
      <3> QED BY <2>2, <3>1, <3>2, InputsFit
    <2>8. TreeTypes'
      BY <2>2, <2>5, <2>7, EndTypes DEF TreeInv, TreeTypes
    <2>9. Collected'
      <3>1. is' = {"input"} /\ "input" \notin Single /\ "input" \notin DOMAIN irq'
        BY <1>2, <2>1 DEF Ended
      <3>2. inside' # <<>> => Last(inside').inner
        BY DEF Ended
      <3> QED BY <1>2, <3>1, <3>2 DEF Collected
    <2>10. ASSUME ~inherited'
           PROVE  InputsAsListed(inputs', listed'["input"]) /\ Len(inputs') <= Len(listed'["input"])
      <3>1. InputsAsListed(inputs, listed["input"]) /\ Len(inputs) <= Len(listed["input"])
        BY <2>3, <2>10, FoundParts DEF TreeInv
      <3>2. inputs \in Seq([addr : Nat, irq : Nat]) /\ Len(inputs) <= VIRTIO_INPUT_MAX_DEVICES
        BY DEF TreeInv, TreeTypes
      <3>3. inputs' = IF Len(inputs) < VIRTIO_INPUT_MAX_DEVICES
                      THEN Append(inputs, [addr |-> node.addr, irq |-> node.irq]) ELSE inputs
        BY <1>1, <2>2
      <3> HIDE DEF node
      <3> QED BY <1>1, <2>4, <2>5, <3>1, <3>2, <3>3, MoreInputs
    <2> QED BY <2>6, <2>8, <2>9, <2>10, FoundPartsNext DEF TreeInv
  <1> QED BY <1>2, <1>3, <1>4, <1>5

(* A node with inner nodes ends: what is there was noted when one of them  *)
(* ended, and is noted again.                                              *)
LEMMA OuterEnds ==
    ASSUME TreeInv, Ended, Registered, inside # <<>>, Last(inside).inner
    PROVE  TreeInv'
  <1>1. UNCHANGED listed /\ inherited' = (inherited \/ is # {})
    BY DEF Ended
  <1>2. \A k \in is : /\ is = {k} /\ k \in Noted
                      /\ k \in Single => base[k] = node_mmio_addr
                      /\ k \in DOMAIN irq /\ node_irq_num # 0 => irq[k] = node_irq_num
    BY DEF TreeInv, Collected
  <1>3. /\ base \in [Single -> 0 .. MaxNodes] /\ irq \in [Single \ {"snd"} -> Nat]
        /\ listed \in [Noted -> Seq(Node)]
        /\ inputs \in Seq([addr : Nat, irq : Nat]) /\ Len(inputs) <= VIRTIO_INPUT_MAX_DEVICES
    BY DEF TreeInv, TreeTypes
  <1>4. CASE is = {} \/ node_mmio_addr = 0
    <2>1. UNCHANGED found
      BY <1>4, RegistersNothing
    <2> QED BY <1>1, <1>2, <2>1, EndKeeps
  <1>5. CASE node_mmio_addr # 0 /\ \E k \in Single : k \in is
    <2>1. PICK k \in Single : is = {k}
      BY <1>2, <1>5
    <2>2. /\ base' = [base EXCEPT ![k] = node_mmio_addr] /\ inputs' = inputs
          /\ irq' = IF node_irq_num = 0 THEN irq
                    ELSE [j \in DOMAIN irq |-> IF j = k THEN node_irq_num ELSE irq[j]]
      BY <1>5, <2>1, RegistersSingle
    <2>3. base[k] = node_mmio_addr /\ (k \in DOMAIN irq /\ node_irq_num # 0 => irq[k] = node_irq_num)
      BY <1>2, <2>1
    <2>4. base' = base
      BY <1>3, <2>2, <2>3
    <2>5. irq' = irq
      BY <1>3, <2>2, <2>3
    <2> QED BY <1>1, <1>2, <2>2, <2>4, <2>5, EndKeeps DEF found
  <1>6. CASE node_mmio_addr # 0 /\ is = {"input"}
    <2>1. /\ UNCHANGED <<base, irq>>
          /\ inputs' = IF Len(inputs) < VIRTIO_INPUT_MAX_DEVICES
                       THEN Append(inputs, [addr |-> node_mmio_addr, irq |-> node_irq_num])
                       ELSE inputs
      BY <1>6, RegistersInput
    <2>2. inherited' = TRUE
      BY <1>1, <1>6
    <2>3. inputs' \in Seq([addr : Nat, irq : Nat]) /\ Len(inputs') <= VIRTIO_INPUT_MAX_DEVICES
      <3>1. [addr |-> node_mmio_addr, irq |-> node_irq_num] \in [addr : Nat, irq : Nat]
        BY DEF TreeInv, TreeTypes
      <3>2. inputs \in Seq([addr : Nat, irq : Nat]) /\ Len(inputs) <= VIRTIO_INPUT_MAX_DEVICES
        BY DEF TreeInv, TreeTypes
      <3> QED BY <2>1, <3>1, <3>2, InputsFit
    <2>4. TreeTypes'
      BY <1>1, <1>3, <2>1, <2>3, EndTypes
    <2>5. Collected'
      BY <1>2, <2>1 DEF Ended, Collected
    <2>6. FoundAsListed'
      BY <1>1, <2>1, <2>2, FoundParts, FoundPartsNext DEF TreeInv
    <2> QED BY <2>2, <2>4, <2>5, <2>6 DEF TreeInv
  <1>7. is = {} \/ is = {"input"} \/ \E k \in Single : k \in is
    BY <1>2 DEF Noted
  <1> QED BY <1>4, <1>5, <1>6, <1>7

(* Every token keeps the invariant.                                        *)
LEMMA NextTree == TreeInv /\ [TreeNext]_treevars => TreeInv'
  <1> SUFFICES ASSUME TreeInv, [TreeNext]_treevars PROVE TreeInv'
    OBVIOUS
  <1>1. CASE parse_dtb \/ FDT_END \/ UNCHANGED treevars
    <2>1. UNCHANGED <<nodevars, found, inside, seen, listed, inherited>>
      BY <1>1 DEF parse_dtb, FDT_END, treevars, nodevars, found
    <2>2. TreeTypes'
      BY <2>1 DEF TreeInv, TreeTypes, nodevars, found
    <2>3. Collected'
      BY <2>1 DEF TreeInv, Collected, nodevars, found
    <2> QED BY <2>1, <2>2, <2>3, NothingNoted
  <1>2. CASE FDT_END_NODE
    <2>1. Ended /\ Registered /\ inside # <<>>
      BY <1>2, EndedIs DEF FDT_END_NODE
    <2> QED BY <2>1, LeafEnds, OuterEnds
  <1> QED BY <1>1, <1>2, BeginTree, RegTree, InterruptsTree DEF TreeNext

(* Whatever the tree, the walk of dtb.c ends with what its nodes list: of  *)
(* each kind of which one is kept the last, with the last interrupt; and   *)
(* the input devices in order, up to the limit.                            *)
THEOREM TreeAsListed == TreeSpec => []FoundAsListed
  <1>1. TreeInv => FoundAsListed
    BY DEF TreeInv
  <1> QED BY <1>1, InitTree, NextTree, PTL DEF TreeSpec

(* The invariant contains the walk's types.                                *)
LEMMA TreeTyped == TreeInv => TreeTypeOK
  <1> SUFFICES ASSUME TreeInv PROVE TreeTypeOK
    OBVIOUS
  <1>1. is \subseteq Noted
    BY DEF TreeInv, Collected
  <1> QED BY <1>1 DEF TreeInv, TreeTypes, TreeTypeOK
-----------------------------------------------------------------------------
(* Induction over the natural numbers, for a set: the least number outside *)
(* it would follow one inside.                                             *)
Less == OpToRel(<, Nat)

(* A set of numbers has a least one.                                       *)
LEMMA LeastOf ==
    ASSUME NEW U, U \subseteq Nat, U # {}
    PROVE  \E x \in U : \A y \in U : x <= y
  <1>1. IsWellFoundedOn(Less, Nat)
    BY NatLessThanWellFounded DEF Less
  <1>2. PICK x \in U : \A y \in U : ~(<<y, x>> \in Less)
    BY <1>1, WFMin
  <1> SUFFICES ASSUME NEW y \in U PROVE x <= y
    BY <1>2
  <1>3. x \in Nat /\ y \in Nat
    OBVIOUS
  <1>4. y < x => <<y, x>> \in Less
    BY <1>3 DEF Less, OpToRel
  <1> QED
    BY <1>2, <1>3, <1>4

(* Induction over numbers, for a set instead of a predicate.               *)
LEMMA SetInduction ==
    ASSUME NEW T, 0 \in T, \A n \in Nat : n \in T => n + 1 \in T
    PROVE  \A n \in Nat : n \in T
  <1> SUFFICES ASSUME NEW k \in Nat, k \notin T PROVE FALSE
    OBVIOUS
  <1> DEFINE U == Nat \ T
  <1>1. U \subseteq Nat /\ U # {}
    OBVIOUS
  <1>2. PICK x \in U : \A y \in U : x <= y
    <2> HIDE DEF U
    <2> QED BY <1>1, LeastOf
  <1>3. x \in Nat /\ x # 0 /\ x - 1 \in Nat
    OBVIOUS
  <1>4. x - 1 \in U
    BY <1>3
  <1> QED
    BY <1>2, <1>3, <1>4
-----------------------------------------------------------------------------
(* What events do: the recursive function is there, and each event does    *)
(* what Keyed says to what those before it left.                           *)
Known == Kinds \cup {"none"}

(* KeyedBy, as the function that defines it: there is one, by induction    *)
(* over the list, and it is what one key after the other makes.            *)
LEMMA KeyedThere ==
    ASSUME NEW list \in Seq(Known), NEW k
    PROVE  \E f : f = [n \in 0 .. Len(list) |-> IF n = 0 THEN k ELSE Keyed(f[n - 1], list[n])]
  <1> DEFINE T == {m \in Nat : \E f : f = [n \in 0 .. m |->
                                              IF n = 0 THEN k ELSE Keyed(f[n - 1], list[n])]}
  <1>1. 0 \in T
    <2> DEFINE f == [n \in 0 .. 0 |-> k]
    <2>1. f = [n \in 0 .. 0 |-> IF n = 0 THEN k ELSE Keyed(f[n - 1], list[n])]
      OBVIOUS
    <2> QED BY <2>1
  <1>2. ASSUME NEW m \in Nat, m \in T PROVE m + 1 \in T
    <2>1. PICK f : f = [n \in 0 .. m |-> IF n = 0 THEN k ELSE Keyed(f[n - 1], list[n])]
      BY <1>2
    <2> DEFINE g == [n \in 0 .. m + 1 |-> IF n = 0 THEN k ELSE Keyed(f[n - 1], list[n])]
    <2>2. \A n \in 0 .. m : g[n] = f[n]
      BY <2>1
    <2>3. \A n \in 0 .. m + 1 : n = 0 \/ n - 1 \in 0 .. m
      OBVIOUS
    <2>4. \A n \in 0 .. m + 1 : g[n] = (IF n = 0 THEN k ELSE Keyed(g[n - 1], list[n]))
      BY <2>2, <2>3
    <2>5. g = [n \in 0 .. m + 1 |-> IF n = 0 THEN k ELSE Keyed(g[n - 1], list[n])]
      <3> DEFINE h == [n \in 0 .. m + 1 |-> IF n = 0 THEN k ELSE Keyed(g[n - 1], list[n])]
      <3>1. \A n \in 0 .. m + 1 : h[n] = g[n]
        BY <2>4
      <3>2. DOMAIN h = 0 .. m + 1 /\ DOMAIN g = 0 .. m + 1
        OBVIOUS
      <3> QED BY <3>1, <3>2
    <2>6. \E h : h = [n \in 0 .. m + 1 |-> IF n = 0 THEN k ELSE Keyed(h[n - 1], list[n])]
      <3> HIDE DEF g
      <3> QED BY <2>5, Zenon
    <2>7. m + 1 \in Nat
      OBVIOUS
    <2> QED BY <2>6, <2>7, Zenon
  <1>3. \A m \in Nat : m \in T
    <2> HIDE DEF T
    <2> QED BY <1>1, <1>2, SetInduction
  <1>4. Len(list) \in T
    BY <1>3
  <1> QED BY <1>4

LEMMA KeyedOf ==
    ASSUME NEW list \in Seq(Known), NEW k
    PROVE  /\ KeyedBy(list, k)[0] = k
           /\ \A n \in 1 .. Len(list) :
                 KeyedBy(list, k)[n] = Keyed(KeyedBy(list, k)[n - 1], list[n])
  <1>1. KeyedBy(list, k)
           = [n \in 0 .. Len(list) |->
                 IF n = 0 THEN k ELSE Keyed(KeyedBy(list, k)[n - 1], list[n])]
    <2>1. \E f : f = [n \in 0 .. Len(list) |-> IF n = 0 THEN k ELSE Keyed(f[n - 1], list[n])]
      BY KeyedThere
    <2> QED BY <2>1, Zenon DEF KeyedBy
  <1> DEFINE f == KeyedBy(list, k)
  <1>2. f = [n \in 0 .. Len(list) |-> IF n = 0 THEN k ELSE Keyed(f[n - 1], list[n])]
    BY <1>1
  <1>3. Len(list) \in Nat
    OBVIOUS
  <1> HIDE DEF f
  <1>4. \A n \in 0 .. Len(list) : f[n] = (IF n = 0 THEN k ELSE Keyed(f[n - 1], list[n]))
    BY <1>2
  <1>5. f[0] = k /\ \A n \in 1 .. Len(list) : f[n] = Keyed(f[n - 1], list[n])
    BY <1>3, <1>4
  <1> QED BY <1>5 DEF f

(* What a keyboard's events have done to the keys and the text.            *)
Texts == Seq({1, 2})

(* Keys make texts, by induction over the list.                            *)
LEMMA KeyedText ==
    ASSUME NEW list \in Seq(Known), NEW k, k.text \in Texts
    PROVE  \A n \in 0 .. Len(list) : KeyedBy(list, k)[n].text \in Texts
  <1> DEFINE T == {n \in Nat : n <= Len(list) => KeyedBy(list, k)[n].text \in Texts}
  <1>1. 0 \in T
    BY KeyedOf
  <1>2. ASSUME NEW n \in Nat, n \in T PROVE n + 1 \in T
    <2> SUFFICES ASSUME n + 1 <= Len(list) PROVE KeyedBy(list, k)[n + 1].text \in Texts
      OBVIOUS
    <2>1. n + 1 \in 1 .. Len(list) /\ n <= Len(list) /\ (n + 1) - 1 = n
      OBVIOUS
    <2>2. KeyedBy(list, k)[n + 1] = Keyed(KeyedBy(list, k)[n], list[n + 1])
      BY <2>1, KeyedOf
    <2>3. PICK u : u = KeyedBy(list, k)[n]
      OBVIOUS
    <2>4. u.text \in Texts
      BY <1>2, <2>1, <2>3
    <2>5. Append(u.text, Character(u.shift, u.caps)) \in Texts
      BY <2>4 DEF Texts, Character, input_key_to_character
    <2>6. Keyed(u, list[n + 1]).text \in Texts
      BY <2>4, <2>5 DEF Keyed
    <2> QED BY <2>2, <2>3, <2>6
  <1>3. \A n \in Nat : n \in T
    <2> HIDE DEF T
    <2> QED BY <1>1, <1>2, SetInduction
  <1> QED BY <1>3

(* One more event comes after the others.                                  *)
LEMMA KeyedMore ==
    ASSUME NEW list \in Seq(Known), NEW e \in Known, NEW k
    PROVE  KeyedBy(Append(list, e), k)[Len(list) + 1] = Keyed(KeyedBy(list, k)[Len(list)], e)
  <1> DEFINE more == Append(list, e)
  <1>1. /\ more \in Seq(Known) /\ Len(more) = Len(list) + 1 /\ more[Len(list) + 1] = e
        /\ \A n \in 1 .. Len(list) : more[n] = list[n]
    OBVIOUS
  <1> HIDE DEF more
  <1> DEFINE T == {n \in Nat : n <= Len(list) => KeyedBy(more, k)[n] = KeyedBy(list, k)[n]}
  <1>2. 0 \in T
    BY <1>1, KeyedOf
  <1>3. ASSUME NEW n \in Nat, n \in T PROVE n + 1 \in T
    <2> SUFFICES ASSUME n + 1 <= Len(list)
                 PROVE  KeyedBy(more, k)[n + 1] = KeyedBy(list, k)[n + 1]
      OBVIOUS
    <2>1. /\ n + 1 \in 1 .. Len(list) /\ n <= Len(list) /\ (n + 1) - 1 = n
          /\ n + 1 \in 1 .. Len(more)
      BY <1>1
    <2>2. KeyedBy(list, k)[n + 1] = Keyed(KeyedBy(list, k)[n], list[n + 1])
      BY <2>1, KeyedOf
    <2>3. KeyedBy(more, k)[n + 1] = Keyed(KeyedBy(more, k)[n], more[n + 1])
      BY <1>1, <2>1, KeyedOf
    <2>4. KeyedBy(more, k)[n] = KeyedBy(list, k)[n]
      BY <1>3, <2>1
    <2> QED BY <1>1, <2>1, <2>2, <2>3, <2>4
  <1>4. \A n \in Nat : n \in T
    <2> HIDE DEF T
    <2> QED BY <1>2, <1>3, SetInduction
  <1>5. KeyedBy(more, k)[Len(list)] = KeyedBy(list, k)[Len(list)]
    BY <1>4
  <1>6. Len(list) + 1 \in 1 .. Len(more) /\ (Len(list) + 1) - 1 = Len(list)
    BY <1>1
  <1>7. KeyedBy(more, k)[Len(list) + 1] = Keyed(KeyedBy(more, k)[Len(list)], more[Len(list) + 1])
    BY <1>1, <1>6, KeyedOf
  <1> QED BY <1>1, <1>5, <1>7 DEF more

(* The same keys, and a text that begins with c.                           *)
Ahead(a, b, c) == a.shift = b.shift /\ a.caps = b.caps /\ a.text = c \o b.text

(* A key added to both keeps what one text has ahead of the other.         *)
LEMMA StaysAhead ==
    ASSUME NEW a, NEW b, NEW c \in Texts, NEW e \in Known, b.text \in Texts, Ahead(a, b, c)
    PROVE  Ahead(Keyed(a, e), Keyed(b, e), c)
  <1> DEFINE ch == Character(b.shift, b.caps)
  <1>1. Keyed(a, e).shift = Keyed(b, e).shift /\ Keyed(a, e).caps = Keyed(b, e).caps
    BY DEF Ahead, Keyed
  <1>2. Character(a.shift, a.caps) = ch
    BY DEF Ahead
  <1>3. ch \in {1, 2}
    BY DEF Character, input_key_to_character
  <1>4. Append(c \o b.text, ch) = c \o Append(b.text, ch)
    <2> HIDE DEF ch
    <2>1. PICK t \in Texts : t = b.text
      OBVIOUS
    <2>2. c \o t \in Seq({1, 2}) /\ <<ch>> \in Seq({1, 2})
      BY <1>3, ConcatProperties DEF Texts
    <2>3. Append(c \o t, ch) = (c \o t) \o <<ch>> /\ Append(t, ch) = t \o <<ch>>
      BY <1>3, <2>2, AppendIsConcat DEF Texts
    <2>4. (c \o t) \o <<ch>> = c \o (t \o <<ch>>)
      BY <2>2, ConcatAssociative DEF Texts
    <2> QED BY <2>1, <2>3, <2>4
  <1>5. CASE e = "press"
    <2>1. /\ Keyed(a, e).text = Append(a.text, ch)
          /\ Keyed(b, e).text = Append(b.text, ch)
      BY <1>2, <1>5 DEF Keyed
    <2> QED BY <1>1, <1>4, <2>1 DEF Ahead
  <1>6. CASE e # "press"
    <2>1. Keyed(a, e).text = a.text /\ Keyed(b, e).text = b.text
      BY <1>6 DEF Keyed
    <2> QED BY <1>1, <2>1 DEF Ahead
  <1> QED BY <1>5, <1>6

(* The first event is taken: what the others do stays the same, but for    *)
(* the characters c of the first.                                          *)
LEMMA KeyedLess ==
    ASSUME NEW list \in Seq(Known), NEW rest \in Seq(Known), list # <<>>, rest = Tail(list),
           NEW k, NEW l, NEW c \in Texts, l.text \in Texts,
           Ahead(Keyed(k, Head(list)), l, c)
    PROVE  Ahead(KeyedBy(list, k)[Len(list)], KeyedBy(rest, l)[Len(rest)], c)
  <1>1. /\ Len(list) = Len(rest) + 1 /\ list[1] = Head(list) /\ Len(rest) \in Nat
        /\ \A n \in 1 .. Len(rest) : rest[n] = list[n + 1] /\ rest[n] \in Known
    <2>1. /\ Len(list) = Len(rest) + 1 /\ list[1] = Head(list)
          /\ \A n \in 1 .. Len(rest) : rest[n] = list[n + 1]
      BY HeadTailProperties, EmptySeq
    <2> QED BY <2>1
  <1> DEFINE T == {n \in Nat : n <= Len(rest) =>
                                  Ahead(KeyedBy(list, k)[n + 1], KeyedBy(rest, l)[n], c)}
  <1>2. 0 \in T
    <2>1. 1 \in 1 .. Len(list)
      BY <1>1
    <2>2. KeyedBy(list, k)[1] = Keyed(KeyedBy(list, k)[0], list[1])
      BY <2>1, KeyedOf
    <2>3. KeyedBy(list, k)[0] = k /\ KeyedBy(rest, l)[0] = l
      BY KeyedOf
    <2>4. Ahead(KeyedBy(list, k)[0 + 1], KeyedBy(rest, l)[0], c)
      BY <1>1, <2>2, <2>3
    <2> QED BY <2>4
  <1>3. ASSUME NEW n \in Nat, n \in T PROVE n + 1 \in T
    <2> SUFFICES ASSUME n + 1 <= Len(rest)
                 PROVE  Ahead(KeyedBy(list, k)[n + 1 + 1], KeyedBy(rest, l)[n + 1], c)
      OBVIOUS
    <2>1. /\ n + 1 \in 1 .. Len(rest) /\ n \in 0 .. Len(rest) /\ (n + 1) - 1 = n
          /\ n + 1 + 1 \in 1 .. Len(list) /\ (n + 1 + 1) - 1 = n + 1
      BY <1>1
    <2>2. KeyedBy(rest, l)[n + 1] = Keyed(KeyedBy(rest, l)[n], rest[n + 1])
      <3>1. \A m \in 1 .. Len(rest) :
               KeyedBy(rest, l)[m] = Keyed(KeyedBy(rest, l)[m - 1], rest[m])
        <4> HIDE DEF T
        <4>1. PICK r \in Seq(Known) : r = rest
          OBVIOUS
        <4>2. \A m \in 1 .. Len(r) : KeyedBy(r, l)[m] = Keyed(KeyedBy(r, l)[m - 1], r[m])
          BY KeyedOf
        <4> QED BY <4>1, <4>2
      <3> QED BY <2>1, <3>1
    <2>3. KeyedBy(list, k)[n + 1 + 1] = Keyed(KeyedBy(list, k)[n + 1], list[n + 1 + 1])
      BY <2>1, KeyedOf
    <2>4. Ahead(KeyedBy(list, k)[n + 1], KeyedBy(rest, l)[n], c)
      BY <1>3, <2>1
    <2>5. KeyedBy(rest, l)[n].text \in Texts
      BY <2>1, KeyedText
    <2>6. rest[n + 1] = list[n + 1 + 1] /\ rest[n + 1] \in Known
      BY <1>1, <2>1
    <2>7. Ahead(Keyed(KeyedBy(list, k)[n + 1], rest[n + 1]), Keyed(KeyedBy(rest, l)[n], rest[n + 1]), c)
      BY <2>4, <2>5, <2>6, StaysAhead
    <2> QED BY <2>2, <2>3, <2>6, <2>7
  <1>4. \A n \in Nat : n \in T
    <2> HIDE DEF T
    <2> QED BY <1>2, <1>3, SetInduction
  <1>5. Ahead(KeyedBy(list, k)[Len(rest) + 1], KeyedBy(rest, l)[Len(rest)], c)
    BY <1>1, <1>4
  <1> QED BY <1>1, <1>5
-----------------------------------------------------------------------------
(* The events in a queue, by its entries and the buffers.                  *)
Fresh(u, b) == [n \in 1 .. Len(u) |-> IF u[n] \in Ids THEN b[u[n]] ELSE "wild"]

(* The events in the used ring, one by one.                                *)
LEMMA FreshIs ==
    ASSUME NEW u \in Seq(Nat), NEW b \in [Ids -> Known]
    PROVE  /\ Fresh(u, b) \in Seq(Known) /\ Len(Fresh(u, b)) = Len(u)
           /\ \A n \in 1 .. Len(u) : Fresh(u, b)[n] = IF u[n] \in Ids THEN b[u[n]] ELSE "wild"
  <1>1. Len(u) \in Nat
    OBVIOUS
  <1>2. \A n \in 1 .. Len(u) : (IF u[n] \in Ids THEN b[u[n]] ELSE "wild") \in Known
    BY DEF Known, Kinds
  <1>3. Fresh(u, b) \in [1 .. Len(u) -> Known]
    BY <1>2 DEF Fresh
  <1> QED BY <1>1, <1>3 DEF Fresh

(* An entry is added that names no buffer, or one that no other entry has. *)
Added(u, b, w, e, c) ==
    IF w \in Ids THEN c = [b EXCEPT ![w] = e] /\ \A n \in 1 .. Len(u) : u[n] # w
    ELSE c = b /\ e = "wild"

(* An entry more is an event more.                                         *)
LEMMA FreshMore ==
    ASSUME NEW u \in Seq(Nat), NEW b \in [Ids -> Known], NEW w \in Nat, NEW e \in Known,
           NEW c \in [Ids -> Known], Added(u, b, w, e, c)
    PROVE  Fresh(Append(u, w), c) = Append(Fresh(u, b), e)
  <1>1. PICK more : more = Append(u, w)
    OBVIOUS
  <1>2. /\ more \in Seq(Nat) /\ Len(more) = Len(u) + 1 /\ more[Len(u) + 1] = w
        /\ \A n \in 1 .. Len(u) : more[n] = u[n]
    BY <1>1
  <1>3. /\ Fresh(u, b) \in Seq(Known) /\ Len(Fresh(u, b)) = Len(u)
        /\ \A n \in 1 .. Len(u) : Fresh(u, b)[n] = IF u[n] \in Ids THEN b[u[n]] ELSE "wild"
    BY FreshIs
  <1>4. /\ Fresh(more, c) \in Seq(Known) /\ Len(Fresh(more, c)) = Len(u) + 1
        /\ \A n \in 1 .. Len(u) + 1 :
              Fresh(more, c)[n] = IF more[n] \in Ids THEN c[more[n]] ELSE "wild"
    <2>1. PICK r \in Seq(Nat) : r = more
      BY <1>2
    <2>2. /\ Fresh(r, c) \in Seq(Known) /\ Len(Fresh(r, c)) = Len(r)
          /\ \A n \in 1 .. Len(r) : Fresh(r, c)[n] = IF r[n] \in Ids THEN c[r[n]] ELSE "wild"
      BY FreshIs
    <2> QED BY <1>2, <2>1, <2>2
  <1> DEFINE f == Fresh(u, b)
             g == Fresh(more, c)
             h == Append(f, e)
  <1>5. /\ h \in Seq(Known) /\ Len(h) = Len(u) + 1 /\ h[Len(u) + 1] = e
        /\ \A n \in 1 .. Len(u) : h[n] = f[n]
    BY <1>3
  <1>6. g[Len(u) + 1] = e
    BY <1>2, <1>4 DEF Added
  <1>7. \A n \in 1 .. Len(u) : g[n] = f[n]
    BY <1>2, <1>3, <1>4 DEF Added
  <1>8. \A n \in 1 .. Len(u) + 1 : g[n] = h[n]
    BY <1>5, <1>6, <1>7
  <1> HIDE DEF f, g, h
  <1>9. g \in Seq(Known) /\ Len(g) = Len(h) /\ h \in Seq(Known)
    BY <1>4, <1>5 DEF g
  <1>10. g = h
    BY <1>5, <1>8, <1>9, SeqEqual
  <1> QED BY <1>1, <1>10 DEF f, g, h

(* The first entry is taken.                                               *)
LEMMA FreshLess ==
    ASSUME NEW u \in Seq(Nat), u # <<>>, NEW b \in [Ids -> Known], NEW rest, rest = Tail(u)
    PROVE  /\ Fresh(rest, b) = Tail(Fresh(u, b)) /\ Fresh(u, b) # <<>>
           /\ Head(Fresh(u, b)) = IF Head(u) \in Ids THEN b[Head(u)] ELSE "wild"
  <1>1. /\ rest \in Seq(Nat) /\ Len(rest) = Len(u) - 1 /\ u[1] = Head(u) /\ Len(u) # 0
        /\ \A n \in 1 .. Len(u) - 1 : rest[n] = u[n + 1]
    BY HeadTailProperties, EmptySeq
  <1>2. PICK k \in Nat : k = Len(u) /\ k # 0
    <2>1. Len(u) \in Nat /\ Len(u) # 0
      BY <1>1
    <2> QED BY <2>1
  <1>3. /\ Fresh(u, b) \in Seq(Known) /\ Len(Fresh(u, b)) = k
        /\ \A n \in 1 .. k : Fresh(u, b)[n] = IF u[n] \in Ids THEN b[u[n]] ELSE "wild"
    BY <1>2, FreshIs
  <1>4. /\ Fresh(rest, b) \in Seq(Known) /\ Len(Fresh(rest, b)) = k - 1
        /\ \A n \in 1 .. k - 1 :
              Fresh(rest, b)[n] = IF rest[n] \in Ids THEN b[rest[n]] ELSE "wild"
    <2>1. PICK r \in Seq(Nat) : r = rest
      BY <1>1
    <2>2. /\ Fresh(r, b) \in Seq(Known) /\ Len(Fresh(r, b)) = Len(r)
          /\ \A n \in 1 .. Len(r) : Fresh(r, b)[n] = IF r[n] \in Ids THEN b[r[n]] ELSE "wild"
      BY FreshIs
    <2> QED BY <1>1, <1>2, <2>1, <2>2
  <1> DEFINE f == Fresh(u, b)
             g == Fresh(rest, b)
  <1>5. /\ Tail(f) \in Seq(Known) /\ Len(Tail(f)) = k - 1 /\ f # <<>> /\ Head(f) = f[1]
        /\ \A n \in 1 .. k - 1 : Tail(f)[n] = f[n + 1]
    <2> HIDE DEF f
    <2>1. f \in Seq(Known) /\ Len(f) = k
      BY <1>3 DEF f
    <2>2. f # <<>>
      BY <1>2, <2>1
    <2> QED BY <1>2, <2>1, <2>2, HeadTailProperties
  <1>6. \A n \in 1 .. k - 1 : g[n] = Tail(f)[n]
    <2> TAKE n \in 1 .. k - 1
    <2>1. n + 1 \in 1 .. k
      OBVIOUS
    <2>2. g[n] = (IF rest[n] \in Ids THEN b[rest[n]] ELSE "wild") /\ rest[n] = u[n + 1]
      BY <1>1, <1>2, <1>4
    <2>3. Tail(f)[n] = f[n + 1] /\ f[n + 1] = IF u[n + 1] \in Ids THEN b[u[n + 1]] ELSE "wild"
      BY <1>3, <1>5, <2>1
    <2> QED BY <2>2, <2>3
  <1>7. g = Tail(f)
    <2> DEFINE h == Tail(f)
    <2>1. g \in Seq(Known) /\ h \in Seq(Known) /\ Len(g) = Len(h) /\ Len(h) = k - 1
      BY <1>4, <1>5
    <2>2. \A n \in 1 .. Len(h) : g[n] = h[n]
      BY <1>6, <2>1
    <2> HIDE DEF f, g, h
    <2>3. g = h
      BY <2>1, <2>2, SeqEqual
    <2> QED BY <2>3 DEF h
  <1>8. f[1] = IF u[1] \in Ids THEN b[u[1]] ELSE "wild"
    BY <1>2, <1>3
  <1> QED BY <1>1, <1>5, <1>7, <1>8
-----------------------------------------------------------------------------
(* The buffers: in neither queue twice, nor in both, nor in one of them    *)
(* while the handler has it.                                               *)
Alone(av, us, has) ==
    /\ \A m, n \in DOMAIN av : m # n => av[m] # av[n]
    /\ \A m, n \in DOMAIN us : m # n /\ us[m] \in Ids => us[m] # us[n]
    /\ \A m \in DOMAIN av, n \in DOMAIN us : av[m] # us[n]
    /\ \A n \in DOMAIN av : av[n] \notin has
    /\ \A n \in DOMAIN us : us[n] \notin has

(* A buffer that is written leaves one queue and enters the other.         *)
LEMMA AloneWritten ==
    ASSUME NEW av \in Seq(Ids), NEW us \in Seq(Nat), NEW has, Alone(av, us, has), av # <<>>,
           NEW less, less = Tail(av), NEW more, more = Append(us, Head(av))
    PROVE  Alone(less, more, has) /\ \A n \in 1 .. Len(us) : us[n] # Head(av)
  <1>1. /\ less \in Seq(Ids) /\ Len(less) = Len(av) - 1 /\ av[1] = Head(av) /\ Len(av) # 0
        /\ \A n \in 1 .. Len(av) - 1 : less[n] = av[n + 1]
    BY HeadTailProperties, EmptySeq
  <1>2. PICK k \in Nat : k = Len(av) /\ k # 0
    <2>1. Len(av) \in Nat /\ Len(av) # 0
      BY <1>1
    <2> QED BY <2>1
  <1>3. PICK l \in Nat : l = Len(us)
    OBVIOUS
  <1>4. Head(av) \in Nat
    <2>1. Head(av) \in Ids
      OBVIOUS
    <2> QED BY <2>1, Numbers
  <1>5. /\ more \in Seq(Nat) /\ Len(more) = l + 1 /\ more[l + 1] = av[1]
        /\ \A n \in 1 .. l : more[n] = us[n]
    BY <1>1, <1>3, <1>4
  <1>6. DOMAIN less = 1 .. k - 1 /\ DOMAIN more = 1 .. l + 1 /\ DOMAIN av = 1 .. k
        /\ DOMAIN us = 1 .. l
    BY <1>1, <1>2, <1>3, <1>5
  <1>7. \A n \in 1 .. k - 1 : n + 1 \in 1 .. k /\ n + 1 # 1 /\ less[n] = av[n + 1]
    BY <1>1, <1>2
  <1>8. 1 \in 1 .. k
    BY <1>2
  <1>9. \A n \in 1 .. l + 1 : n = l + 1 \/ n \in 1 .. l
    BY <1>3
  <1>10. \A m, n \in 1 .. k - 1 : m # n => m + 1 # n + 1
    OBVIOUS
  <1>11. \A m, n \in DOMAIN less : m # n => less[m] # less[n]
    BY <1>6, <1>7, <1>10 DEF Alone
  <1>12. \A m, n \in DOMAIN more : m # n /\ more[m] \in Ids => more[m] # more[n]
    <2> SUFFICES ASSUME NEW m \in 1 .. l + 1, NEW n \in 1 .. l + 1, m # n, more[m] \in Ids
                 PROVE  more[m] # more[n]
      BY <1>6
    <2>1. CASE m \in 1 .. l /\ n \in 1 .. l
      <3>1. more[m] = us[m] /\ more[n] = us[n] /\ m \in DOMAIN us /\ n \in DOMAIN us
        BY <1>5, <1>6, <2>1
      <3> QED BY <3>1 DEF Alone
    <2>2. CASE m = l + 1 /\ n \in 1 .. l
      BY <1>5, <1>6, <1>8, <2>2 DEF Alone
    <2>3. CASE m \in 1 .. l /\ n = l + 1
      <3>1. av[1] # us[m]
        BY <1>6, <1>8, <2>3 DEF Alone
      <3>2. more[m] = us[m] /\ more[n] = av[1]
        BY <1>5, <2>3
      <3> QED BY <3>1, <3>2
    <2> QED BY <1>9, <2>1, <2>2, <2>3
  <1>13. \A m \in DOMAIN less, n \in DOMAIN more : less[m] # more[n]
    <2> SUFFICES ASSUME NEW m \in 1 .. k - 1, NEW n \in 1 .. l + 1
                 PROVE  less[m] # more[n]
      BY <1>6
    <2>1. m + 1 \in 1 .. k /\ m + 1 # 1 /\ less[m] = av[m + 1]
      BY <1>7
    <2>2. CASE n \in 1 .. l
      BY <1>5, <1>6, <2>1, <2>2 DEF Alone
    <2>3. CASE n = l + 1
      <3>1. av[m + 1] # av[1]
        BY <1>6, <1>8, <2>1 DEF Alone
      <3>2. more[n] = av[1]
        BY <1>5, <2>3
      <3> QED BY <2>1, <3>1, <3>2
    <2> QED BY <1>9, <2>2, <2>3
  <1>14. /\ \A n \in DOMAIN less : less[n] \notin has
         /\ \A n \in DOMAIN more : more[n] \notin has
    <2>1. ASSUME NEW n \in 1 .. k - 1 PROVE less[n] \notin has
      BY <1>6, <1>7 DEF Alone
    <2>2. ASSUME NEW n \in 1 .. l PROVE more[n] \notin has
      <3>1. more[n] = us[n] /\ n \in DOMAIN us
        BY <1>5, <1>6
      <3> QED BY <3>1 DEF Alone
    <2>3. more[l + 1] \notin has
      <3>1. more[l + 1] = av[1] /\ 1 \in DOMAIN av
        BY <1>5, <1>6, <1>8
      <3> QED BY <3>1 DEF Alone
    <2> QED BY <1>6, <1>9, <2>1, <2>2, <2>3
  <1>15. \A n \in 1 .. Len(us) : us[n] # Head(av)
    BY <1>1, <1>3, <1>6, <1>8 DEF Alone
  <1> QED BY <1>11, <1>12, <1>13, <1>14, <1>15 DEF Alone

(* An entry that names no buffer.                                          *)
LEMMA AloneWild ==
    ASSUME NEW av \in Seq(Ids), NEW us \in Seq(Nat), NEW has \in SUBSET Ids, Alone(av, us, has),
           NEW w \in Nat \ Ids, NEW more, more = Append(us, w)
    PROVE  Alone(av, more, has)
  <1>1. PICK l \in Nat : l = Len(us)
    OBVIOUS
  <1>2. /\ DOMAIN more = 1 .. l + 1 /\ DOMAIN us = 1 .. l /\ more[l + 1] = w
        /\ \A n \in 1 .. l : more[n] = us[n]
    BY <1>1
  <1>3. \A n \in 1 .. l + 1 : n = l + 1 \/ n \in 1 .. l
    BY <1>1
  <1>4. \A n \in DOMAIN av : av[n] \in Ids
    OBVIOUS
  <1> QED BY <1>2, <1>3, <1>4 DEF Alone

(* The driver takes an entry, and with it the buffer it names.             *)
LEMMA AloneTaken ==
    ASSUME NEW av \in Seq(Ids), NEW us \in Seq(Nat), us # <<>>, Alone(av, us, {}),
           NEW rest, rest = Tail(us)
    PROVE  Alone(av, rest, IF Head(us) \in Ids THEN {Head(us)} ELSE {})
  <1>1. /\ rest \in Seq(Nat) /\ Len(rest) = Len(us) - 1 /\ us[1] = Head(us) /\ Len(us) # 0
        /\ \A n \in 1 .. Len(us) - 1 : rest[n] = us[n + 1]
    BY HeadTailProperties, EmptySeq
  <1>2. PICK k \in Nat : k = Len(us) /\ k # 0
    <2>1. Len(us) \in Nat /\ Len(us) # 0
      BY <1>1
    <2> QED BY <2>1
  <1>3. DOMAIN rest = 1 .. k - 1 /\ DOMAIN us = 1 .. k /\ 1 \in 1 .. k
    BY <1>1, <1>2
  <1>4. \A n \in 1 .. k - 1 : n + 1 \in 1 .. k /\ n + 1 # 1 /\ rest[n] = us[n + 1]
    BY <1>1, <1>2
  <1>5. \A m, n \in 1 .. k - 1 : m # n => m + 1 # n + 1
    OBVIOUS
  <1>6. \A m, n \in DOMAIN rest : m # n /\ rest[m] \in Ids => rest[m] # rest[n]
    <2> SUFFICES ASSUME NEW m \in 1 .. k - 1, NEW n \in 1 .. k - 1, m # n, rest[m] \in Ids
                 PROVE  rest[m] # rest[n]
      BY <1>3
    <2>1. m + 1 \in DOMAIN us /\ n + 1 \in DOMAIN us /\ m + 1 # n + 1
      BY <1>3, <1>4, <1>5
    <2>2. rest[m] = us[m + 1] /\ rest[n] = us[n + 1]
      BY <1>4
    <2> QED BY <2>1, <2>2 DEF Alone
  <1>7. \A m \in DOMAIN av, n \in DOMAIN rest : av[m] # rest[n]
    BY <1>3, <1>4 DEF Alone
  <1>8. Head(us) \in Ids => /\ \A n \in DOMAIN av : av[n] # Head(us)
                            /\ \A n \in DOMAIN rest : rest[n] # Head(us)
    <2> SUFFICES ASSUME us[1] \in Ids
                 PROVE  /\ \A n \in DOMAIN av : av[n] # us[1]
                        /\ \A n \in DOMAIN rest : rest[n] # us[1]
      BY <1>1
    <2>1. \A n \in DOMAIN av : av[n] # us[1]
      BY <1>3 DEF Alone
    <2>2. ASSUME NEW n \in 1 .. k - 1 PROVE rest[n] # us[1]
      <3>1. n + 1 \in 1 .. k /\ n + 1 # 1 /\ rest[n] = us[n + 1]
        BY <1>4
      <3> QED BY <1>3, <3>1 DEF Alone
    <2> QED BY <1>3, <2>1, <2>2
  <1> QED BY <1>6, <1>7, <1>8 DEF Alone

(* It offers the buffer again.                                             *)
LEMMA AloneGiven ==
    ASSUME NEW av \in Seq(Ids), NEW us \in Seq(Nat), NEW id \in Ids, Alone(av, us, {id}),
           NEW more, more = Append(av, id)
    PROVE  Alone(more, us, {})
  <1>1. PICK l \in Nat : l = Len(av)
    OBVIOUS
  <1>2. /\ DOMAIN more = 1 .. l + 1 /\ DOMAIN av = 1 .. l /\ more[l + 1] = id
        /\ \A n \in 1 .. l : more[n] = av[n]
    BY <1>1
  <1>3. \A n \in 1 .. l + 1 : n = l + 1 \/ n \in 1 .. l
    BY <1>1
  <1> QED BY <1>2, <1>3 DEF Alone
-----------------------------------------------------------------------------
(* The driver's view of a keyboard, which starts no text, and the events   *)
(* still to process, of which the handler may have the first.              *)
View(d) == [shift |-> shift[d], caps |-> caps_lock[d], text |-> <<>>]
InHand(d) == handler.pc \in {"give", "key"} /\ handler.from = d
Has(d) == IF handler.pc = "give" /\ handler.from = d THEN {handler.id} ELSE {}

(* Once the pending events of a keyboard are processed, the keys and the   *)
(* text are what they are meant to be.                                     *)
Meant(k, d) == k.shift = held[d] /\ k.caps = locked[d] /\ k.text = meant[d]
InTheEnd(d) == Meant(KeyedBy(Pending(d), View(d))[Len(Pending(d))], d)

Keyboards ==
    /\ shift = [d \in Devices |-> shift[d]] /\ caps_lock \in [Devices -> BOOLEAN]
    /\ held = [d \in Devices |-> held[d]] /\ locked = [d \in Devices |-> locked[d]]
    /\ meant = [d \in Devices |-> meant[d]]

KeysInv ==
    /\ Types /\ Keyboards
    /\ \A d \in Devices : Alone(avail[d], used[d], Has(d)) /\ InTheEnd(d)

(* The parts of the types that the proofs on keys need.                    *)
LEMMA KeyQueues ==
    ASSUME Types, NEW d \in Devices
    PROVE  /\ avail[d] \in Seq(Ids) /\ used[d] \in Seq(Nat)
           /\ event_buffers[d] \in [Ids -> Known] /\ handler.event \in Known
           /\ handler.id \in Ids /\ handler.from \in Devices /\ Has(d) \in SUBSET Ids
  BY DEF Types, Known, Handlers, Has

(* Facts about sequences with one element put ahead.                       *)
LEMMA OneAhead ==
    ASSUME NEW S, NEW e \in S, NEW f \in Seq(S)
    PROVE  /\ <<e>> \o f \in Seq(S) /\ <<e>> \o f # <<>> /\ Head(<<e>> \o f) = e
           /\ Tail(<<e>> \o f) = f
  <1>1. /\ <<e>> \o f \in Seq(S) /\ Len(<<e>> \o f) = 1 + Len(f)
        /\ \A i \in 1 .. 1 + Len(f) : (<<e>> \o f)[i] = IF i <= 1 THEN e ELSE f[i - 1]
    <2>1. <<e>> \in Seq(S) /\ Len(<<e>>) = 1 /\ <<e>>[1] = e
      OBVIOUS
    <2>2. \A i \in 1 .. 1 + Len(f) : i <= 1 => i = 1
      OBVIOUS
    <2> DEFINE g == <<e>>
    <2> HIDE DEF g
    <2>3. /\ g \o f \in Seq(S) /\ Len(g \o f) = Len(g) + Len(f)
          /\ \A i \in 1 .. Len(g) + Len(f) : (g \o f)[i] = IF i <= Len(g) THEN g[i] ELSE f[i - Len(g)]
      BY <2>1, ConcatProperties DEF g
    <2>4. Len(g) = 1 /\ g[1] = e
      BY <2>1 DEF g
    <2>5. /\ g \o f \in Seq(S) /\ Len(g \o f) = 1 + Len(f)
          /\ \A i \in 1 .. 1 + Len(f) : (g \o f)[i] = IF i <= 1 THEN e ELSE f[i - 1]
      BY <2>2, <2>3, <2>4
    <2> QED BY <2>5 DEF g
  <1> DEFINE p == <<e>> \o f
  <1>2. p \in Seq(S) /\ Len(p) = 1 + Len(f) /\ p[1] = e
        /\ \A i \in 1 .. Len(f) : p[i + 1] = f[i]
    <2>1. Len(f) \in Nat
      OBVIOUS
    <2>2. \A i \in 1 .. Len(f) : i + 1 \in 1 .. 1 + Len(f) /\ ~(i + 1 <= 1) /\ (i + 1) - 1 = i
      BY <2>1
    <2>3. 1 \in 1 .. 1 + Len(f)
      BY <2>1
    <2> QED BY <1>1, <2>2, <2>3
  <1> HIDE DEF p
  <1>3. p # <<>> /\ Head(p) = p[1]
    <2>1. PICK k \in Nat : k = Len(f)
      OBVIOUS
    <2>2. Len(p) # 0
      BY <1>2, <2>1
    <2> QED BY <1>2, <2>2
  <1>4. Tail(p) = f
    <2>1. /\ Tail(p) \in Seq(S) /\ Len(Tail(p)) = Len(p) - 1
          /\ \A i \in 1 .. Len(p) - 1 : Tail(p)[i] = p[i + 1]
      BY <1>2, <1>3, HeadTailProperties
    <2> DEFINE g == Tail(p)
    <2>2. PICK k \in Nat : k = Len(f)
      OBVIOUS
    <2>3. g \in Seq(S) /\ Len(g) = Len(f)
      BY <1>2, <2>1, <2>2
    <2>4. \A i \in 1 .. Len(f) : g[i] = f[i]
      BY <1>2, <2>1, <2>2
    <2> HIDE DEF g
    <2>5. g = f
      BY <2>3, <2>4, SeqEqual
    <2> QED BY <2>5 DEF g
  <1> QED BY <1>2, <1>3, <1>4 DEF p

(* A sequence is its head and what follows.                                *)
LEMMA HeadThenTail ==
    ASSUME NEW S, NEW p \in Seq(S), p # <<>>
    PROVE  <<Head(p)>> \o Tail(p) = p
  <1>1. PICK k \in Nat : k = Len(p) /\ k # 0
    <2>1. Len(p) \in Nat /\ Len(p) # 0
      BY EmptySeq
    <2> QED BY <2>1
  <1>2. PICK e \in S : e = Head(p)
    OBVIOUS
  <1>3. PICK t \in Seq(S) : t = Tail(p) /\ Len(t) = k - 1
    BY <1>1, HeadTailProperties
  <1>4. e = p[1] /\ \A i \in 1 .. k - 1 : t[i] = p[i + 1]
    BY <1>1, <1>2, <1>3, HeadTailProperties
  <1>5. PICK h \in Seq(S) : h = <<e>> \o t
    BY OneAhead
  <1>6. Len(h) = k /\ \A i \in 1 .. k : h[i] = IF i <= 1 THEN e ELSE t[i - 1]
    <2>1. <<e>> \in Seq(S) /\ Len(<<e>>) = 1 /\ <<e>>[1] = e
      OBVIOUS
    <2>2. PICK g \in Seq(S) : g = <<e>>
      BY <2>1
    <2>3. /\ Len(g \o t) = Len(g) + Len(t)
          /\ \A i \in 1 .. Len(g) + Len(t) : (g \o t)[i] = IF i <= Len(g) THEN g[i] ELSE t[i - Len(g)]
      BY ConcatProperties
    <2>4. \A i \in 1 .. k : i <= 1 => i = 1
      OBVIOUS
    <2>5. Len(g) = 1 /\ g[1] = e /\ Len(g) + Len(t) = k /\ h = g \o t
      BY <1>3, <1>5, <2>1, <2>2
    <2> QED BY <2>3, <2>4, <2>5
  <1>7. \A i \in 1 .. k : h[i] = p[i]
    <2> TAKE i \in 1 .. k
    <2>1. CASE i = 1
      BY <1>4, <1>6, <2>1
    <2>2. CASE i # 1
      <3>1. i - 1 \in 1 .. k - 1 /\ (i - 1) + 1 = i /\ ~(i <= 1)
        BY <2>2
      <3> QED BY <1>4, <1>6, <3>1
    <2> QED BY <2>1, <2>2
  <1>8. h = p
    BY <1>1, <1>6, <1>7, SeqEqual
  <1> QED BY <1>2, <1>3, <1>5, <1>8

(* Putting ahead and appending do not disturb each other.                  *)
LEMMA LaterAppended ==
    ASSUME NEW S, NEW e \in S, NEW f \in Seq(S), NEW x \in S
    PROVE  <<e>> \o Append(f, x) = Append(<<e>> \o f, x)
  <1>1. <<e>> \in Seq(S) /\ <<x>> \in Seq(S) /\ <<e>> \o f \in Seq(S)
    BY OneAhead
  <1>2. Append(f, x) = f \o <<x>> /\ Append(<<e>> \o f, x) = (<<e>> \o f) \o <<x>>
    BY <1>1, AppendIsConcat
  <1>3. (<<e>> \o f) \o <<x>> = <<e>> \o (f \o <<x>>)
    BY <1>1, ConcatAssociative
  <1> QED BY <1>2, <1>3

(* What is pending, without and with an event in the handler's hand.       *)
LEMMA PendingFresh ==
    ASSUME Types, NEW d \in Devices, ~InHand(d)
    PROVE  Pending(d) = Fresh(used[d], event_buffers[d]) /\ Pending(d) \in Seq(Known)
  <1>1. Fresh(used[d], event_buffers[d]) \in Seq(Known)
    BY KeyQueues, FreshIs
  <1>2. Pending(d) = <<>> \o Fresh(used[d], event_buffers[d])
    BY DEF Pending, InHand, Fresh
  <1> QED BY <1>1, <1>2, ConcatEmptySeq

LEMMA PendingInHand ==
    ASSUME Types, NEW d \in Devices, InHand(d)
    PROVE  /\ Pending(d) \in Seq(Known) /\ Pending(d) # <<>>
           /\ Pending(d) = <<handler.event>> \o Fresh(used[d], event_buffers[d])
           /\ Head(Pending(d)) = handler.event
           /\ Tail(Pending(d)) = Fresh(used[d], event_buffers[d])
  <1> DEFINE f == Fresh(used[d], event_buffers[d])
             e == handler.event
  <1>1. f \in Seq(Known) /\ e \in Known
    BY KeyQueues, FreshIs
  <1>2. Pending(d) = <<e>> \o f
    BY DEF Pending, InHand, Fresh, Event
  <1> HIDE DEF e, f
  <1>3. /\ <<e>> \o f \in Seq(Known) /\ <<e>> \o f # <<>> /\ Head(<<e>> \o f) = e
        /\ Tail(<<e>> \o f) = f
    BY <1>1, OneAhead
  <1> QED BY <1>2, <1>3 DEF e, f

(* A step that leaves a keyboard's events and keys alone.                  *)
LEMMA StillKeys ==
    ASSUME NEW d \in Devices, InTheEnd(d), Pending(d)' = Pending(d),
           shift'[d] = shift[d], caps_lock'[d] = caps_lock[d], held'[d] = held[d],
           locked'[d] = locked[d], meant'[d] = meant[d]
    PROVE  InTheEnd(d)'
  <1>1. View(d)' = View(d)
    BY DEF View
  <1> QED BY <1>1 DEF InTheEnd, Meant

(* An event is added to the pending ones.                                  *)
LEMMA MoreKeys ==
    ASSUME NEW d \in Devices, InTheEnd(d), Pending(d) \in Seq(Known), NEW e \in Known,
           Pending(d)' = Append(Pending(d), e),
           shift'[d] = shift[d], caps_lock'[d] = caps_lock[d],
           held'[d] = Shifts(held[d], e), locked'[d] = (locked[d] # (e = "caps")),
           meant'[d] = IF e = "press"
                       THEN Append(meant[d], Character(held[d], locked[d]))
                       ELSE meant[d]
    PROVE  InTheEnd(d)'
  <1>1. View(d)' = View(d)
    BY DEF View
  <1>2. PICK p \in Seq(Known) : p = Pending(d)
    OBVIOUS
  <1>3. PICK k : k = View(d)
    OBVIOUS
  <1>4. PICK r : r = KeyedBy(p, k)[Len(p)]
    OBVIOUS
  <1>5. PICK t : t = Keyed(r, e)
    OBVIOUS
  <1>6. Len(Append(p, e)) = Len(p) + 1 /\ KeyedBy(Append(p, e), k)[Len(p) + 1] = t
    BY <1>4, <1>5, KeyedMore
  <1>7. KeyedBy(Pending(d)', View(d)')[Len(Pending(d)')] = t
    BY <1>1, <1>2, <1>3, <1>6
  <1>8. Meant(r, d)
    BY <1>2, <1>3, <1>4 DEF InTheEnd
  <1>9. t.shift = held'[d] /\ t.caps = locked'[d]
    BY <1>5, <1>8 DEF Meant, Keyed
  <1>10. t.text = meant'[d]
    <2>1. CASE e = "press"
      <3>1. t.text = Append(r.text, Character(r.shift, r.caps))
        BY <1>5, <2>1 DEF Keyed
      <3> QED BY <1>8, <2>1, <3>1 DEF Meant
    <2>2. CASE e # "press"
      <3>1. t.text = r.text
        BY <1>5, <2>2 DEF Keyed
      <3> QED BY <1>8, <2>2, <3>1 DEF Meant
    <2> QED BY <2>1, <2>2
  <1>11. Meant(t, d)'
    BY <1>9, <1>10, Zenon DEF Meant
  <1> QED BY <1>7, <1>11 DEF InTheEnd

(* The first event is taken, and the text starts after it.                 *)
StartsAfter(k, l, e) ==
    /\ k.text = <<>> /\ l.text = <<>>
    /\ l.shift = Keyed(k, e).shift /\ l.caps = Keyed(k, e).caps

EndsAfter(r, t, e) ==
    /\ t.shift = r.shift /\ t.caps = r.caps
    /\ t.text = IF e = "press" THEN Tail(r.text) ELSE r.text

(* Taking the first event off and processing it ends where processing all  *)
(* would.                                                                  *)
LEMMA FewerEvents ==
    ASSUME NEW p \in Seq(Known), p # <<>>, NEW q \in Seq(Known), q = Tail(p),
           NEW k, NEW l, StartsAfter(k, l, Head(p))
    PROVE  EndsAfter(KeyedBy(p, k)[Len(p)], KeyedBy(q, l)[Len(q)], Head(p))
  <1>1. PICK e : e = Head(p)
    OBVIOUS
  <1>2. PICK r : r = KeyedBy(p, k)[Len(p)]
    OBVIOUS
  <1>3. PICK t : t = KeyedBy(q, l)[Len(q)]
    OBVIOUS
  <1>4. /\ k.text = <<>> /\ l.text = <<>>
        /\ l.shift = Keyed(k, e).shift /\ l.caps = Keyed(k, e).caps
    BY <1>1 DEF StartsAfter
  <1> DEFINE x == Character(k.shift, k.caps)
             c == IF e = "press" THEN <<x>> ELSE <<>>
  <1>5. x \in {1, 2}
    BY DEF Character, input_key_to_character
  <1>6. c \in Texts /\ <<>> \in Texts
    <2> HIDE DEF x
    <2>1. <<x>> \in Seq({1, 2}) /\ <<>> \in Seq({1, 2})
      BY <1>5
    <2> QED BY <2>1 DEF Texts
  <1>7. Keyed(k, e).text = c
    BY <1>4 DEF Keyed
  <1> HIDE DEF x
  <1>8. c \o <<>> = c
    <2> HIDE DEF c
    <2> QED BY <1>6, ConcatEmptySeq DEF Texts
  <1>9. Ahead(Keyed(k, e), l, c)
    <2>1. Keyed(k, e).text = c \o l.text
      BY <1>7, <1>8, <1>4
    <2> QED BY <1>4, <2>1, Zenon DEF Ahead
  <1>10. Ahead(r, t, c) /\ t.text \in Texts
    <2> HIDE DEF c
    <2>1. l.text \in Texts
      BY <1>6, <1>4
    <2>2. Ahead(KeyedBy(p, k)[Len(p)], KeyedBy(q, l)[Len(q)], c)
      BY <1>1, <1>6, <1>9, <2>1, KeyedLess
    <2>3. Len(q) \in 0 .. Len(q)
      OBVIOUS
    <2>4. KeyedBy(q, l)[Len(q)].text \in Texts
      BY <2>1, <2>3, KeyedText
    <2> QED BY <1>2, <1>3, <2>2, <2>4
  <1>11. r.text = c \o t.text
    BY <1>10 DEF Ahead
  <1>12. ASSUME e = "press"
        PROVE  t.shift = r.shift /\ t.caps = r.caps /\ t.text = Tail(r.text)
    <2>1. PICK u \in Seq({1, 2}) : u = t.text
      BY <1>10 DEF Texts
    <2>2. Tail(<<x>> \o u) = u
      BY <1>5, OneAhead
    <2>3. r.text = <<x>> \o u
      BY <1>11, <1>12, <2>1
    <2> QED BY <1>10, <1>12, <2>1, <2>2, <2>3 DEF Ahead
  <1>13. ASSUME e # "press"
        PROVE  t.shift = r.shift /\ t.caps = r.caps /\ t.text = r.text
    <2>1. <<>> \o t.text = t.text
      BY <1>10, ConcatEmptySeq DEF Texts
    <2> QED BY <1>10, <1>11, <1>13, <2>1 DEF Ahead
  <1>14. EndsAfter(r, t, e)
    BY <1>12, <1>13, Zenon DEF EndsAfter
  <1> QED BY <1>1, <1>14, <1>2, <1>3

(* The first pending event is processed.                                   *)
LEMMA FewerKeys ==
    ASSUME NEW d \in Devices, InTheEnd(d), Pending(d) \in Seq(Known), Pending(d) # <<>>,
           Pending(d)' = Tail(Pending(d)), NEW e, e = Head(Pending(d)),
           shift'[d] = Shifts(shift[d], e), caps_lock'[d] = (caps_lock[d] # (e = "caps")),
           held'[d] = held[d], locked'[d] = locked[d],
           meant'[d] = IF e = "press" THEN Tail(meant[d]) ELSE meant[d]
    PROVE  InTheEnd(d)'
  <1>1. PICK p \in Seq(Known) : p = Pending(d)
    OBVIOUS
  <1>2. PICK q \in Seq(Known) : q = Pending(d)' /\ q = Tail(p)
    <2>1. p # <<>> /\ Pending(d)' = Tail(p)
      BY <1>1
    <2>2. Tail(p) \in Seq(Known)
      BY <2>1
    <2> QED BY <2>1, <2>2
  <1>3. PICK k : k = View(d)
    OBVIOUS
  <1>4. PICK l : l = View(d)'
    OBVIOUS
  <1>5. PICK r : r = KeyedBy(p, k)[Len(p)]
    OBVIOUS
  <1>6. PICK t : t = KeyedBy(q, l)[Len(q)]
    OBVIOUS
  <1>7. p # <<>> /\ e = Head(p)
    BY <1>1
  <1>8. StartsAfter(k, l, Head(p))
    BY <1>3, <1>4, <1>7 DEF View, Keyed, StartsAfter
  <1>9. EndsAfter(r, t, e)
    <2>1. EndsAfter(KeyedBy(p, k)[Len(p)], KeyedBy(q, l)[Len(q)], Head(p))
      BY <1>2, <1>7, <1>8, FewerEvents
    <2> QED BY <1>5, <1>6, <1>7, <2>1
  <1>10. Meant(r, d)
    BY <1>1, <1>3, <1>5 DEF InTheEnd
  <1>11. t.shift = held'[d] /\ t.caps = locked'[d] /\ t.text = meant'[d]
    BY <1>9, <1>10 DEF EndsAfter, Meant
  <1>12. Meant(t, d)'
    BY <1>11, Zenon DEF Meant
  <1> QED BY <1>2, <1>4, <1>6, <1>12 DEF InTheEnd
(* No events, no keys.                                                     *)
LEMMA InitKeys == InputInit => KeysInv
  <1> SUFFICES ASSUME InputInit PROVE KeysInv
    OBVIOUS
  <1>1. Types
    BY InitTypes
  <1>2. Keyboards
    BY DEF InputInit, Keyboards
  <1> SUFFICES ASSUME NEW d \in Devices
               PROVE  Alone(avail[d], used[d], Has(d)) /\ InTheEnd(d)
    BY <1>1, <1>2 DEF KeysInv
  <1>3. handler.pc = "idle"
    BY DEF InputInit, Idle
  <1>4. ~InHand(d) /\ Has(d) = {}
    BY <1>3 DEF InHand, Has
  <1>5. used[d] = <<>> /\ avail[d] = [i \in 1 .. EventQueue |-> i - 1]
    BY DEF InputInit
  <1>6. Alone(avail[d], used[d], Has(d))
    <2>1. \A m, n \in 1 .. EventQueue : m # n => m - 1 # n - 1
      BY Numbers
    <2>2. DOMAIN avail[d] = 1 .. EventQueue /\ DOMAIN used[d] = {}
          /\ \A n \in 1 .. EventQueue : avail[d][n] = n - 1
      BY <1>5
    <2> QED BY <1>4, <2>1, <2>2 DEF Alone
  <1>7. PICK p \in Seq(Known) : p = Pending(d) /\ Len(p) = 0
    <2>1. Pending(d) = Fresh(used[d], event_buffers[d]) /\ Pending(d) \in Seq(Known)
      BY <1>1, <1>4, PendingFresh
    <2>2. Len(Fresh(used[d], event_buffers[d])) = Len(used[d])
      BY <1>1, KeyQueues, FreshIs
    <2>3. Len(used[d]) = 0
      BY <1>5
    <2> QED BY <2>1, <2>2, <2>3
  <1>8. KeyedBy(p, View(d))[Len(p)] = View(d)
    BY <1>7, KeyedOf
  <1>9. Meant(View(d), d)
    BY DEF InputInit, View, Meant
  <1> QED BY <1>6, <1>7, <1>8, <1>9 DEF InTheEnd

(* A step that leaves the queue of a keyboard alone, and the event that    *)
(* the handler may have of it.                                             *)
LEMMA SamePending ==
    ASSUME NEW d \in Devices, used'[d] = used[d], event_buffers'[d] = event_buffers[d],
           (InHand(d)' <=> InHand(d)), InHand(d) => handler'.event = handler.event
    PROVE  Pending(d)' = Pending(d)
  <1>1. CASE InHand(d)
    <2>1. InHand(d)' /\ handler'.event = handler.event
      BY <1>1
    <2>2. /\ Pending(d) = <<handler.event>> \o Fresh(used[d], event_buffers[d])
          /\ Pending(d)' = <<handler'.event>> \o Fresh(used'[d], event_buffers'[d])
      BY <1>1, <2>1 DEF Pending, InHand, Event, Fresh
    <2> QED BY <2>1, <2>2
  <1>2. CASE ~InHand(d)
    <2>1. ~InHand(d)'
      BY <1>2
    <2>2. /\ Pending(d) = <<>> \o Fresh(used[d], event_buffers[d])
          /\ Pending(d)' = <<>> \o Fresh(used'[d], event_buffers'[d])
      BY <1>2, <2>1 DEF Pending, InHand, Event, Fresh
    <2> QED BY <2>2
  <1> QED BY <1>1, <1>2

(* A step of the driver or of a device that concerns no keyboard.          *)
LEMMA IdleKeys ==
    ASSUME KeysInv, Types',
           UNCHANGED <<avail, used, event_buffers, shift, caps_lock, held, locked, meant>>,
           handler' = handler \/ handler.pc \notin {"give", "key"},
           handler' = handler \/ handler'.pc \notin {"give", "key"}
    PROVE  KeysInv'
  <1>1. Keyboards'
    BY DEF KeysInv, Keyboards
  <1>2. ASSUME NEW d \in Devices PROVE Alone(avail[d], used[d], Has(d))'
    <2>1. Has(d)' = Has(d)
      BY DEF Has
    <2> QED BY <2>1 DEF KeysInv
  <1>3. ASSUME NEW d \in Devices PROVE InTheEnd(d)'
    <2>1. (InHand(d)' <=> InHand(d)) /\ (InHand(d) => handler'.event = handler.event)
      BY DEF InHand
    <2>2. Pending(d)' = Pending(d)
      BY <2>1, SamePending
    <2> QED BY <2>2, StillKeys DEF KeysInv
  <1> QED BY <1>1, <1>2, <1>3 DEF KeysInv

(* A device writes an event.                                               *)
LEMMA EventKeys ==
    ASSUME KeysInv, Types', NEW d \in Devices, DeviceEvent(d)
    PROVE  KeysInv'
  <1>1. Types /\ Keyboards
    BY DEF KeysInv
  <1>2. PICK kind \in EventKinds[d] :
          /\ IF kind = "wild"
             THEN /\ used' = [used EXCEPT ![d] = Append(@, EventQueue)]
                  /\ UNCHANGED <<avail, event_buffers>>
             ELSE /\ avail[d] # <<>>
                  /\ used' = [used EXCEPT ![d] = Append(@, Head(avail[d]))]
                  /\ avail' = [avail EXCEPT ![d] = Tail(@)]
                  /\ event_buffers' = [event_buffers EXCEPT ![d][Head(avail[d])] = kind]
          /\ held' = [held EXCEPT ![d] = Shifts(@, kind)]
          /\ locked' = [locked EXCEPT ![d] = @ # (kind = "caps")]
          /\ meant' = IF kind = "press"
                      THEN [meant EXCEPT ![d] =
                              Append(@, Character(held[d], locked[d]))]
                      ELSE meant
    BY DEF DeviceEvent
  <1>3. UNCHANGED <<shift, caps_lock, handler>>
    BY DEF DeviceEvent, keys
  <1>4. kind \in Kinds /\ kind \in Known
    BY KindsOfDevices DEF Known
  <1>5. Keyboards'
    BY <1>1, <1>2, <1>3 DEF Keyboards
  <1>6. /\ avail[d] \in Seq(Ids) /\ used[d] \in Seq(Nat) /\ Has(d) \in SUBSET Ids
        /\ event_buffers[d] \in [Ids -> Known] /\ event_buffers'[d] \in [Ids -> Known]
        /\ Alone(avail[d], used[d], Has(d))
    BY <1>1, KeyQueues DEF Types, Known, KeysInv
  <1>7. \A e \in Devices : Has(e)' = Has(e) /\ (InHand(e)' <=> InHand(e))
    BY <1>3 DEF Has, InHand
  <1>8. ASSUME NEW e \in Devices, e # d
        PROVE  Alone(avail[e], used[e], Has(e))' /\ InTheEnd(e)'
    <2>1. /\ used'[e] = used[e] /\ avail'[e] = avail[e] /\ event_buffers'[e] = event_buffers[e]
          /\ held'[e] = held[e] /\ locked'[e] = locked[e] /\ meant'[e] = meant[e]
      <3>1. used'[e] = used[e] /\ avail'[e] = avail[e] /\ event_buffers'[e] = event_buffers[e]
        BY <1>1, <1>2, <1>8 DEF Types
      <3>2. held'[e] = held[e] /\ locked'[e] = locked[e]
        BY <1>1, <1>2, <1>8 DEF Keyboards
      <3>3. meant'[e] = meant[e]
        BY <1>1, <1>2, <1>8 DEF Keyboards
      <3> QED BY <3>1, <3>2, <3>3
    <2>2. Pending(e)' = Pending(e)
      BY <1>3, <1>7, <2>1, SamePending
    <2>3. Alone(avail[e], used[e], Has(e)) /\ InTheEnd(e)
      BY DEF KeysInv
    <2> QED BY <1>3, <1>7, <2>1, <2>2, <2>3, StillKeys
  <1>9. /\ Alone(avail[d], used[d], Has(d))'
        /\ Fresh(used'[d], event_buffers'[d]) = Append(Fresh(used[d], event_buffers[d]), kind)
    <2>1. CASE kind = "wild"
      <3>1. /\ used'[d] = Append(used[d], EventQueue) /\ avail'[d] = avail[d]
            /\ event_buffers'[d] = event_buffers[d]
        BY <1>1, <1>2, <2>1 DEF Types
      <3>2. EventQueue \in Nat \ Ids
        BY InputAssumption DEF Ids
      <3>3. Alone(avail[d], used'[d], Has(d))
        BY <1>6, <3>1, <3>2, AloneWild
      <3>4. Fresh(used'[d], event_buffers'[d]) = Append(Fresh(used[d], event_buffers[d]), kind)
        <4>1. PICK u \in Seq(Nat) : u = used[d]
          BY <1>6
        <4>2. PICK b \in [Ids -> Known] : b = event_buffers[d]
          BY <1>6
        <4>3. PICK c \in [Ids -> Known] : c = event_buffers'[d]
          BY <1>6
        <4>4. PICK w \in Nat : w = EventQueue
          BY <3>2
        <4>5. Added(u, b, w, kind, c)
          BY <2>1, <3>1, <3>2, <4>1, <4>2, <4>3, <4>4 DEF Added
        <4>6. Fresh(Append(u, w), c) = Append(Fresh(u, b), kind)
          BY <1>4, <4>5, FreshMore
        <4>7. Append(u, w) = used'[d]
          BY <3>1, <4>1, <4>4
        <4> QED BY <4>1, <4>2, <4>3, <4>6, <4>7
      <3> QED BY <1>7, <3>1, <3>3, <3>4
    <2>2. CASE kind # "wild"
      <3>1. /\ avail[d] # <<>>
            /\ used'[d] = Append(used[d], Head(avail[d])) /\ avail'[d] = Tail(avail[d])
            /\ event_buffers'[d] = [event_buffers[d] EXCEPT ![Head(avail[d])] = kind]
        BY <1>1, <1>2, <2>2 DEF Types
      <3>2. Head(avail[d]) \in Ids /\ Head(avail[d]) \in Nat
        <4>1. Head(avail[d]) \in Ids
          BY <1>6, <3>1
        <4> QED BY <4>1, Numbers
      <3>3. /\ Alone(avail'[d], used'[d], Has(d))
            /\ \A n \in 1 .. Len(used[d]) : used[d][n] # Head(avail[d])
        BY <1>6, <3>1, AloneWritten
      <3>4. Fresh(used'[d], event_buffers'[d]) = Append(Fresh(used[d], event_buffers[d]), kind)
        <4>1. PICK u \in Seq(Nat) : u = used[d]
          BY <1>6
        <4>2. PICK b \in [Ids -> Known] : b = event_buffers[d]
          BY <1>6
        <4>3. PICK c \in [Ids -> Known] : c = event_buffers'[d]
          BY <1>6
        <4>4. PICK w \in Nat : w = Head(avail[d])
          BY <3>2
        <4>5. Added(u, b, w, kind, c)
          BY <3>1, <3>2, <3>3, <4>1, <4>2, <4>3, <4>4 DEF Added
        <4>6. Fresh(Append(u, w), c) = Append(Fresh(u, b), kind)
          BY <1>4, <4>5, FreshMore
        <4>7. Append(u, w) = used'[d]
          BY <3>1, <4>1, <4>4
        <4> QED BY <4>1, <4>2, <4>3, <4>6, <4>7
      <3> QED BY <1>7, <3>3, <3>4
    <2> QED BY <2>1, <2>2
  <1>10. Pending(d) \in Seq(Known) /\ Pending(d)' = Append(Pending(d), kind)
    <2> DEFINE f == Fresh(used[d], event_buffers[d])
    <2>1. f \in Seq(Known)
      BY <1>6, FreshIs
    <2>2. CASE InHand(d)
      <3>1. InHand(d)' /\ handler'.event = handler.event /\ handler.event \in Known
        BY <1>1, <1>3, <1>7, <2>2, KeyQueues
      <3>2. Pending(d) \in Seq(Known) /\ Pending(d) = <<handler.event>> \o f
        BY <1>1, <2>2, PendingInHand
      <3>3. Pending(d)' = <<handler.event>> \o Append(f, kind)
        BY <1>9, <3>1 DEF Pending, InHand, Event, Fresh
      <3>4. <<handler.event>> \o Append(f, kind) = Append(<<handler.event>> \o f, kind)
        <4> HIDE DEF f
        <4> QED BY <1>4, <2>1, <3>1, LaterAppended
      <3> QED BY <3>2, <3>3, <3>4
    <2>3. CASE ~InHand(d)
      <3>1. Pending(d) \in Seq(Known) /\ Pending(d) = f
        BY <1>1, <2>3, PendingFresh
      <3>2. ~InHand(d)'
        BY <1>7, <2>3
      <3>3. Pending(d)' = <<>> \o Fresh(used'[d], event_buffers'[d])
        BY <3>2 DEF Pending, InHand, Fresh
      <3>4. Append(f, kind) \in Seq(Known)
        BY <1>4, <2>1
      <3> QED BY <1>9, <3>1, <3>3, <3>4, ConcatEmptySeq
    <2> QED BY <2>2, <2>3
  <1>11. InTheEnd(d)'
    <2>1. /\ shift'[d] = shift[d] /\ caps_lock'[d] = caps_lock[d]
          /\ held'[d] = Shifts(held[d], kind) /\ locked'[d] = (locked[d] # (kind = "caps"))
          /\ meant'[d] = IF kind = "press"
                         THEN Append(meant[d], Character(held[d], locked[d]))
                         ELSE meant[d]
      BY <1>1, <1>2, <1>3 DEF Keyboards
    <2>2. InTheEnd(d)
      BY DEF KeysInv
    <2> QED BY <1>4, <1>10, <2>1, <2>2, MoreKeys
  <1>12. \A e \in Devices : Alone(avail[e], used[e], Has(e))' /\ InTheEnd(e)'
    BY <1>8, <1>9, <1>11
  <1> QED BY <1>5, <1>12 DEF KeysInv
(* A malformed event changes neither the shift keys nor caps lock.         *)
LEMMA NotToggled ==
    ASSUME Keyboards, UNCHANGED <<shift, caps_lock>>, NEW d \in Devices, NEW e \in Kinds,
           e \in {"wild", "truncated"}
    PROVE  shift'[d] = Shifts(shift[d], e) /\ caps_lock'[d] = (caps_lock[d] # (e = "caps"))
  <1>1. ASSUME NEW b \in BOOLEAN, NEW t, t = FALSE PROVE b = (b # t)
    BY <1>1
  <1>2. Shifts(shift[d], e) = shift[d] /\ (e = "caps") = FALSE
    BY DEF Shifts
  <1>3. caps_lock[d] \in BOOLEAN
    BY DEF Keyboards
  <1> QED BY <1>1, <1>2, <1>3

(* vhid_get_event: an entry that names no buffer is dropped; an event is   *)
(* in hand instead of in the queue.                                        *)
LEMMA GetKeys == ASSUME KeysInv, Types', vhid_get_event PROVE KeysInv'
  <1>1. /\ Types /\ Keyboards /\ handler.pc = "get"
        /\ UNCHANGED <<avail, event_buffers, held, locked, meant, shift, caps_lock>>
    BY DEF KeysInv, vhid_get_event
  <1>2. CASE UNCHANGED used /\ handler' = [handler EXCEPT !.pc = "status"]
    <2>1. handler'.pc = "status"
      BY <1>1, <1>2 DEF Types, Handlers
    <2> QED BY <1>1, <1>2, <2>1, IdleKeys
  <1>3. ASSUME NEW d \in Devices, used[d] # <<>>, used' = [used EXCEPT ![d] = Tail(@)],
               \/ /\ Head(used[d]) \notin Ids
                  /\ handler' = [handler EXCEPT !.pc = "status"]
               \/ /\ Head(used[d]) \in Ids
                  /\ handler' = [handler EXCEPT !.pc = "give", !.from = d, !.id = Head(used[d]),
                                    !.event = event_buffers[d][Head(used[d])]]
        PROVE  KeysInv'
    <2>1. Keyboards'
      BY <1>1 DEF Keyboards
    <2>2. \A e \in Devices : ~InHand(e) /\ Has(e) = {}
      BY <1>1 DEF InHand, Has
    <2>3. used'[d] = Tail(used[d]) /\ \A e \in Devices : e # d => used'[e] = used[e]
      BY <1>1, <1>3 DEF Types
    <2>4. /\ avail[d] \in Seq(Ids) /\ used[d] \in Seq(Nat)
          /\ event_buffers[d] \in [Ids -> Known] /\ Alone(avail[d], used[d], {})
      BY <1>1, <2>2, KeyQueues DEF KeysInv
    <2>5. ASSUME NEW e \in Devices, e # d
          PROVE  Alone(avail[e], used[e], Has(e))' /\ InTheEnd(e)'
      <3>1. ~InHand(e)' /\ Has(e)' = {}
        BY <1>1, <1>3, <2>5 DEF Types, Handlers, InHand, Has
      <3>2. Pending(e)' = Pending(e)
        BY <1>1, <2>2, <2>3, <2>5, <3>1, SamePending
      <3>3. Alone(avail[e], used[e], {}) /\ InTheEnd(e)
        BY <2>2 DEF KeysInv
      <3> QED BY <1>1, <2>3, <2>5, <3>1, <3>2, <3>3, StillKeys
    <2>6. Alone(avail[d], Tail(used[d]), IF Head(used[d]) \in Ids THEN {Head(used[d])} ELSE {})
      BY <1>3, <2>4, AloneTaken
    <2> DEFINE p == Pending(d)
    <2>7. p \in Seq(Known) /\ p = Fresh(used[d], event_buffers[d])
      BY <1>1, <2>2, PendingFresh
    <2>8. /\ Fresh(used'[d], event_buffers[d]) = Tail(p) /\ p # <<>>
          /\ Head(p) = IF Head(used[d]) \in Ids THEN event_buffers[d][Head(used[d])] ELSE "wild"
      <3>1. PICK u \in Seq(Nat) : u = used[d] /\ u # <<>>
        BY <1>3, <2>4
      <3>2. PICK b \in [Ids -> Known] : b = event_buffers[d]
        BY <2>4
      <3>3. PICK rest : rest = Tail(u)
        OBVIOUS
      <3>4. /\ Fresh(rest, b) = Tail(Fresh(u, b)) /\ Fresh(u, b) # <<>>
            /\ Head(Fresh(u, b)) = IF Head(u) \in Ids THEN b[Head(u)] ELSE "wild"
        BY <3>1, <3>3, FreshLess
      <3>5. rest = used'[d]
        BY <2>3, <3>1, <3>3
      <3> QED BY <2>7, <3>1, <3>2, <3>4, <3>5
    <2>9. InTheEnd(d)
      BY DEF KeysInv
    <2>10. CASE Head(used[d]) \notin Ids
      <3>1. handler'.pc = "status"
        BY <1>1, <1>3, <2>10 DEF Types, Handlers
      <3>2. ~InHand(d)' /\ Has(d)' = {}
        BY <3>1 DEF InHand, Has
      <3>3. Alone(avail[d], used[d], Has(d))'
        BY <1>1, <2>3, <2>6, <2>10, <3>2
      <3>4. Pending(d)' = Tail(p)
        <4>1. Pending(d)' = <<>> \o Fresh(used'[d], event_buffers'[d])
          BY <3>2 DEF Pending, InHand, Fresh
        <4>2. Tail(p) \in Seq(Known)
          BY <2>7, <2>8
        <4> QED BY <1>1, <2>8, <4>1, <4>2, ConcatEmptySeq
      <3>5. Head(p) = "wild"
        BY <2>8, <2>10
      <3>6. InTheEnd(d)'
        <4>1. /\ shift'[d] = Shifts(shift[d], "wild")
              /\ caps_lock'[d] = (caps_lock[d] # ("wild" = "caps"))
          <5>1. "wild" \in Kinds /\ "wild" \in {"wild", "truncated"}
            BY DEF Kinds
          <5> QED BY <1>1, <5>1, NotToggled
        <4>2. meant'[d] = IF "wild" = "press" THEN Tail(meant[d]) ELSE meant[d]
          BY <1>1
        <4> QED BY <1>1, <2>7, <2>8, <2>9, <3>4, <3>5, <4>1, <4>2, FewerKeys
      <3> QED BY <2>1, <2>5, <3>3, <3>6 DEF KeysInv
    <2>11. CASE Head(used[d]) \in Ids
      <3>1. /\ handler'.pc = "give" /\ handler'.from = d /\ handler'.id = Head(used[d])
            /\ handler'.event = Head(p)
        BY <1>1, <1>3, <2>8, <2>11 DEF Types, Handlers
      <3>2. InHand(d)' /\ Has(d)' = {Head(used[d])}
        BY <3>1 DEF InHand, Has
      <3>3. Alone(avail[d], used[d], Has(d))'
        BY <1>1, <2>3, <2>6, <2>11, <3>2
      <3>4. Pending(d)' = p
        <4>1. Pending(d)' = <<Head(p)>> \o Fresh(used'[d], event_buffers'[d])
          BY <3>1, <3>2 DEF Pending, InHand, Event, Fresh
        <4>2. <<Head(p)>> \o Tail(p) = p
          <5> HIDE DEF p
          <5> QED BY <2>7, <2>8, HeadThenTail
        <4> QED BY <1>1, <2>8, <4>1, <4>2
      <3>5. InTheEnd(d)'
        BY <1>1, <2>9, <3>4, StillKeys
      <3> QED BY <2>1, <2>5, <3>3, <3>5 DEF KeysInv
    <2> QED BY <2>10, <2>11
  <1> QED BY <1>2, <1>3 DEF vhid_get_event, Waiting

(* The event in hand is dropped, or processed.                             *)
LEMMA HandKeys ==
    ASSUME KeysInv, Types', NEW d \in Devices, InHand(d), ~InHand(d)', d = handler.from,
           NEW e, e = handler.event, UNCHANGED <<used, event_buffers, held, locked>>,
           shift'[d] = Shifts(shift[d], e), caps_lock'[d] = (caps_lock[d] # (e = "caps")),
           meant'[d] = IF e = "press" THEN Tail(meant[d]) ELSE meant[d]
    PROVE  InTheEnd(d)'
  <1>1. /\ Pending(d) \in Seq(Known) /\ Pending(d) # <<>> /\ Head(Pending(d)) = e
        /\ Tail(Pending(d)) = Fresh(used[d], event_buffers[d])
    BY PendingInHand DEF KeysInv
  <1>2. Pending(d)' = Tail(Pending(d))
    <2>1. Pending(d)' = <<>> \o Fresh(used'[d], event_buffers'[d])
      BY DEF Pending, InHand, Fresh
    <2>2. Tail(Pending(d)) \in Seq(Known)
      BY <1>1
    <2> QED BY <1>1, <2>1, <2>2, ConcatEmptySeq
  <1>3. InTheEnd(d)
    BY DEF KeysInv
  <1> QED BY <1>1, <1>2, <1>3, FewerKeys

(* A buffer given back was fetched, so no event is lost with it.           *)
LEMMA GiveKeys == ASSUME KeysInv, Types', give_back PROVE KeysInv'
  <1>1. /\ Types /\ Keyboards /\ handler.pc = "give"
        /\ UNCHANGED <<used, event_buffers, held, locked, meant, shift, caps_lock>>
        /\ avail' = [avail EXCEPT ![handler.from] = Append(@, handler.id)]
        /\ handler' = [handler EXCEPT !.pc = IF handler.event = "truncated" THEN "status" ELSE "key"]
    BY DEF KeysInv, give_back
  <1>2. PICK d \in Devices : d = handler.from
    BY <1>1, Numbers, KeyQueues
  <1>3. /\ avail'[d] = Append(avail[d], handler.id)
        /\ \A e \in Devices : e # d => avail'[e] = avail[e]
        /\ handler'.from = d /\ handler'.event = handler.event
        /\ handler'.pc = IF handler.event = "truncated" THEN "status" ELSE "key"
    BY <1>1, <1>2 DEF Types, Handlers
  <1>4. Keyboards'
    BY <1>1 DEF Keyboards
  <1>5. ASSUME NEW e \in Devices, e # d
        PROVE  Alone(avail[e], used[e], Has(e))' /\ InTheEnd(e)'
    <2>1. ~InHand(e) /\ ~InHand(e)' /\ Has(e) = {} /\ Has(e)' = {}
      BY <1>2, <1>3, <1>5 DEF InHand, Has
    <2>2. Pending(e)' = Pending(e)
      BY <1>1, <2>1, SamePending
    <2>3. Alone(avail[e], used[e], {}) /\ InTheEnd(e)
      BY <2>1 DEF KeysInv
    <2> QED BY <1>1, <1>3, <1>5, <2>1, <2>2, <2>3, StillKeys
  <1>6. Alone(avail[d], used[d], Has(d))'
    <2>1. Has(d) = {handler.id} /\ Has(d)' = {}
      BY <1>1, <1>2, <1>3 DEF Has
    <2>2. Alone(avail[d], used[d], {handler.id}) /\ handler.id \in Ids
          /\ avail[d] \in Seq(Ids) /\ used[d] \in Seq(Nat)
      BY <1>1, <2>1, KeyQueues DEF KeysInv
    <2>3. Alone(avail'[d], used[d], {})
      BY <1>3, <2>2, AloneGiven
    <2> QED BY <1>1, <2>1, <2>3
  <1>7. InTheEnd(d)'
    <2>1. InHand(d) /\ InTheEnd(d)
      BY <1>1, <1>2 DEF InHand, KeysInv
    <2>2. CASE handler.event = "truncated"
      <3>1. ~InHand(d)'
        BY <1>3, <2>2 DEF InHand
      <3>2. /\ shift'[d] = Shifts(shift[d], "truncated")
            /\ caps_lock'[d] = (caps_lock[d] # ("truncated" = "caps"))
        <4>1. "truncated" \in Kinds /\ "truncated" \in {"wild", "truncated"}
          BY DEF Kinds
        <4> QED BY <1>1, <4>1, NotToggled
      <3>3. meant'[d] = IF "truncated" = "press" THEN Tail(meant[d]) ELSE meant[d]
        BY <1>1
      <3> QED BY <1>1, <1>2, <2>1, <2>2, <3>1, <3>2, <3>3, HandKeys
    <2>3. CASE handler.event # "truncated"
      <3>1. InHand(d)'
        BY <1>3, <2>3 DEF InHand
      <3>2. Pending(d)' = Pending(d)
        BY <1>1, <1>3, <2>1, <3>1, SamePending
      <3> QED BY <1>1, <2>1, <3>2, StillKeys
    <2> QED BY <2>2, <2>3
  <1> QED BY <1>4, <1>5, <1>6, <1>7 DEF KeysInv

(* Processing an event makes of it what was still to be made.              *)
LEMMA ProcessKeys == ASSUME KeysInv, Types', input_process_key PROVE KeysInv'
  <1>1. /\ Types /\ Keyboards /\ handler.pc = "key"
        /\ UNCHANGED <<avail, used, event_buffers, held, locked>>
        /\ shift' = [shift EXCEPT ![handler.from] = Shifts(@, handler.event)]
        /\ caps_lock' = [caps_lock EXCEPT ![handler.from] = @ # (handler.event = "caps")]
        /\ meant' = IF handler.event = "press" THEN [meant EXCEPT ![handler.from] = Tail(@)]
                    ELSE meant
        /\ handler' = [handler EXCEPT !.pc = "get"]
    BY DEF KeysInv, input_process_key, Event
  <1>2. PICK d \in Devices : d = handler.from
    BY <1>1, Numbers, KeyQueues
  <1>3. handler'.pc = "get"
    BY <1>1 DEF Types, Handlers
  <1>4. Keyboards'
    BY <1>1 DEF Keyboards
  <1>5. \A e \in Devices : ~InHand(e)' /\ Has(e)' = {} /\ Has(e) = {}
    BY <1>1, <1>3 DEF InHand, Has
  <1>6. ASSUME NEW e \in Devices PROVE Alone(avail[e], used[e], Has(e))'
    <2>1. Alone(avail[e], used[e], {})
      BY <1>5 DEF KeysInv
    <2> QED BY <1>1, <1>5, <2>1
  <1>7. ASSUME NEW e \in Devices, e # d PROVE InTheEnd(e)'
    <2>1. ~InHand(e) /\ ~InHand(e)' /\ InTheEnd(e)
      BY <1>2, <1>5, <1>7 DEF InHand, KeysInv
    <2>2. Pending(e)' = Pending(e)
      BY <1>1, <2>1, SamePending
    <2>3. shift'[e] = shift[e] /\ caps_lock'[e] = caps_lock[e] /\ meant'[e] = meant[e]
      BY <1>1, <1>2, <1>7 DEF Keyboards
    <2> QED BY <1>1, <2>1, <2>2, <2>3, StillKeys
  <1>8. InTheEnd(d)'
    <2>1. InHand(d) /\ ~InHand(d)'
      BY <1>1, <1>2, <1>5 DEF InHand
    <2>2. PICK e : e = handler.event
      OBVIOUS
    <2>3. /\ shift'[d] = Shifts(shift[d], e) /\ caps_lock'[d] = (caps_lock[d] # (e = "caps"))
          /\ meant'[d] = IF e = "press" THEN Tail(meant[d]) ELSE meant[d]
      BY <1>1, <1>2, <2>2 DEF Keyboards
    <2> QED BY <1>1, <1>2, <2>1, <2>2, <2>3, HandKeys
  <1> QED BY <1>4, <1>6, <1>7, <1>8 DEF KeysInv

(* Every step of the handler and the devices keeps KeysInv.                *)
LEMMA NextKeys == KeysInv /\ [InputNext]_inputvars => KeysInv'
  <1> SUFFICES ASSUME KeysInv, [InputNext]_inputvars PROVE KeysInv'
    OBVIOUS
  <1>1. Types /\ Types'
    BY NextTypes DEF KeysInv
  <1>2. ASSUME NEW d \in Devices, DeviceEvent(d) PROVE KeysInv'
    BY <1>1, <1>2, EventKeys
  <1>3. ASSUME NEW d \in Devices, DeviceRaises(d) PROVE KeysInv'
    BY <1>1, <1>3, IdleKeys DEF DeviceRaises, keys
  <1>4. ASSUME NEW d \in Devices, vhid_irq_handle(d) PROVE KeysInv'
    <2>1. handler.pc = "idle" /\ handler' = [Idle EXCEPT !.pc = "get", !.i = d]
      BY <1>4 DEF vhid_irq_handle, Unmasked
    <2>2. handler'.pc = "get"
      BY <2>1 DEF Idle
    <2> QED BY <1>1, <1>4, <2>1, <2>2, IdleKeys DEF vhid_irq_handle, queues, keys
  <1>5. CASE vhid_get_event
    BY <1>1, <1>5, GetKeys
  <1>6. CASE give_back
    BY <1>1, <1>6, GiveKeys
  <1>7. CASE input_process_key
    BY <1>1, <1>7, ProcessKeys
  <1>8. CASE read_status \/ acknowledge \/ recheck
    <2>1. handler.pc \in {"status", "acknowledge", "recheck"}
      BY <1>8 DEF read_status, acknowledge, recheck
    <2>2. handler'.pc \notin {"give", "key"}
      <3>1. CASE read_status
        BY <1>1, <3>1 DEF read_status, Types, Handlers
      <3>2. CASE acknowledge
        BY <1>1, <3>2 DEF acknowledge, Types, Handlers
      <3>3. CASE recheck
        BY <1>1, <3>3 DEF recheck, Types, Handlers, Idle
      <3> QED BY <1>8, <3>1, <3>2, <3>3
    <2>3. UNCHANGED <<avail, used, event_buffers, shift, caps_lock, held, locked, meant>>
      BY <1>8 DEF read_status, acknowledge, recheck, queues, keys
    <2> QED BY <1>1, <2>1, <2>2, <2>3, IdleKeys
  <1>9. CASE timer_tick \/ Reading \/ UNCHANGED inputvars
    <2>1. /\ UNCHANGED <<avail, used, event_buffers, shift, caps_lock, held, locked, meant>>
          /\ handler' = handler
      BY <1>9 DEF timer_tick, Reading, getchar, vhid_getchar, read_character, take_character,
                  poll_uart, queues, keys, inputvars
    <2> QED BY <1>1, <2>1, IdleKeys
  <1> QED BY <1>2, <1>3, <1>4, <1>5, <1>6, <1>7, <1>8, <1>9 DEF InputNext, Handling

(* With nothing pending, what was made is what was meant.                  *)
LEMMA KeysMeant == KeysInv => KeysAsTyped
  <1> SUFFICES ASSUME KeysInv, NEW d \in Devices PROVE Typed(d) = meant[d]
    BY DEF KeysAsTyped
  <1>1. InTheEnd(d)
    BY DEF KeysInv
  <1>2. Typed(d) = KeyedBy(Pending(d), View(d))[Len(Pending(d))].text
    BY DEF Typed, View
  <1> QED BY <1>1, <1>2 DEF InTheEnd, Meant

(* Whatever the keyboards write while the handler runs, what it has made   *)
(* of their events and what it will make of the others are the characters  *)
(* that were typed.  A buffer is written only while the driver has offered *)
(* it, and its event is copied before it is offered again.                 *)
THEOREM Typing == InputSpec => []KeysAsTyped
  <1>1. KeysInv => KeysAsTyped
    BY KeysMeant
  <1> QED BY <1>1, InitKeys, NextKeys, PTL DEF InputSpec
-----------------------------------------------------------------------------
(* The console.  Where a line starts, and which cells it has.              *)
Start(line) == line * Columns

(* Arithmetic of cells: lines begin where those before them end.           *)
LEMMA Dims == Columns \in Nat \ {0} /\ Lines \in Nat \ {0}
  BY ConsoleAssumption

LEMMA StartNext ==
    ASSUME NEW i \in Nat
    PROVE  Start(i) \in Nat /\ Start(i + 1) \in Nat /\ Start(i + 1) = Start(i) + Columns
  BY Dims DEF Start

LEMMA LastLine ==
    /\ Lines - 1 \in Nat /\ Start(Lines - 1) \in Nat /\ (Lines - 1) * Columns = Start(Lines - 1)
    /\ (Lines - 1) + 1 = Lines
    /\ Start(Lines) = Start(Lines - 1) + Columns /\ Start(Lines) \in Nat
  <1>1. Lines - 1 \in Nat /\ (Lines - 1) + 1 = Lines
    BY Dims
  <1>2. PICK i \in Nat : i = Lines - 1
    BY <1>1
  <1>3. Start(i) \in Nat /\ Start(i + 1) \in Nat /\ Start(i + 1) = Start(i) + Columns
    BY StartNext
  <1> QED BY <1>1, <1>2, <1>3 DEF Start

LEMMA CellsAre ==
    /\ Cells = 0 .. Start(Lines) - 1
    /\ \A c \in Cells : c \in Nat /\ c < Start(Lines)
  <1>1. Cells = 0 .. Start(Lines) - 1
    BY DEF Cells, Start
  <1> QED BY <1>1, LastLine

(* Later lines begin later.                                                *)
LEMMA StartsUp == ASSUME NEW i \in Nat, NEW j \in Nat, i <= j PROVE Start(i) <= Start(j)
  <1>1. Columns \in Nat
    BY ConsoleAssumption
  <1>2. \A n \in Nat : i * n <= j * n
    <2> TAKE n \in Nat
    <2>1. PICK k \in Nat : j = i + k
      <3>1. j - i \in Nat /\ j = i + (j - i)
        OBVIOUS
      <3> QED BY <3>1
    <2>2. j * n = i * n + k * n /\ i * n \in Nat /\ k * n \in Nat
      BY <2>1
    <2> QED BY <2>2
  <1> QED BY <1>1, <1>2 DEF Start

(* A cell is in the line of its quotient, at its remainder.                *)
LEMMA Quotient ==
    ASSUME NEW d \in Nat \ {0}, NEW a \in Int
    PROVE  /\ a \div d \in Int /\ a % d \in 0 .. d - 1
           /\ a = d * (a \div d) + (a % d)
  <1>1. a \div d \in Int /\ a % d \in 0 .. d - 1
    OBVIOUS
  <1>2. a = d * (a \div d) + (a % d)
    OBVIOUS
  <1> QED BY <1>1, <1>2

LEMMA InLine ==
    ASSUME NEW c \in Nat, NEW i \in Nat
    PROVE  c \div Columns = i <=> Start(i) <= c /\ c < Start(i) + Columns
  <1> DEFINE q == c \div Columns
  <1>1. Columns \in Nat \ {0}
    BY ConsoleAssumption
  <1>2. q \in Nat /\ Start(q) <= c /\ c < Start(q) + Columns
    <2>1. q \in Int /\ c % Columns \in 0 .. Columns - 1
      BY <1>1
    <2>2. c = Columns * q + (c % Columns)
      BY <1>1, Quotient
    <2>3. PICK v \in 0 .. Columns - 1 : c = Columns * q + v
      BY <2>1, <2>2
    <2> HIDE DEF q
    <2>4. q >= 0
      <3>1. CASE q <= -1
        <4>1. Columns * q <= -Columns
          BY <1>1, <2>1, <3>1
        <4> QED BY <1>1, <2>1, <2>3, <4>1
      <3> QED BY <2>1, <3>1
    <2>5. Columns * q = Start(q)
      BY <1>1, <2>1 DEF Start
    <2>6. q \in Nat
      BY <2>1, <2>4
    <2>7. Start(q) \in Nat
      BY <2>6, StartNext
    <2> QED BY <1>1, <2>3, <2>5, <2>6, <2>7
  <1> HIDE DEF q
  <1>3. ASSUME Start(i) <= c, c < Start(i) + Columns PROVE q = i
    <2>1. CASE q >= i + 1
      <3>1. i + 1 \in Nat /\ i + 1 <= q /\ q \in Nat
        BY <1>2, <2>1
      <3>2. Start(i + 1) <= Start(q)
        BY <3>1, StartsUp
      <3>3. Start(q) \in Nat /\ Start(i) \in Nat /\ Start(i + 1) = Start(i) + Columns
        BY <3>1, StartNext
      <3> QED BY <1>1, <1>2, <1>3, <3>2, <3>3
    <2>2. CASE i >= q + 1
      <3>1. q + 1 \in Nat /\ q + 1 <= i /\ q \in Nat
        BY <1>2, <2>2
      <3>2. Start(q + 1) <= Start(i)
        BY <3>1, StartsUp
      <3>3. Start(q) \in Nat /\ Start(i) \in Nat /\ Start(q + 1) = Start(q) + Columns
        BY <3>1, StartNext
      <3> QED BY <1>1, <1>2, <1>3, <3>2, <3>3
    <2> QED BY <1>2, <2>1, <2>2
  <1>4. q = i => Start(i) <= c /\ c < Start(i) + Columns
    BY <1>2
  <1>5. q = i <=> Start(i) <= c /\ c < Start(i) + Columns
    BY <1>3, <1>4
  <1> QED BY <1>5 DEF q

(* The cell at a line's x-th place.                                        *)
LEMMA CellIs == \A i, x : Cell(i, x) = Start(i) + x
  BY DEF Cell, Start

(* What an operation of the console keeps: cells after the cursor and      *)
(* below its line are blank.                                               *)
Marks == Letters \cup {"missing"}
Screens == [Cells -> SUBSET Marks]

Keyable == Letters \cup {"space"}
Chars == STRING \cup Keyable \cup {"newline"}

BlankFrom(screen_, line, x) ==
    \A c \in Cells : c >= Start(line) + x \/ c >= Start(line + 1) => screen_[c] = {}

Console(k) ==
    /\ k.line \in 0 .. Lines - 1 /\ k.x \in Nat /\ k.screen \in Screens
    /\ k.run \in Seq(Chars)
    /\ BlankFrom(k.screen, k.line, k.x)

(* Glyphs are marks.                                                       *)
LEMMA Glyphs == \A c : Glyph(c) \in SUBSET Marks
  BY DEF Glyph, Marks

(* A record of the four parts; EXCEPT changes such a record only.          *)
Parts(k) == k = [line |-> k.line, x |-> k.x, screen |-> k.screen, run |-> k.run]

(* A next line, a run that is drawn and a character that is put keep the   *)
(* console's parts.                                                        *)
LEMMA NextLineConsole ==
    ASSUME NEW k, Console(k), Parts(k), k.run = <<>>
    PROVE  /\ Console(io_console_next_line(k)) /\ Parts(io_console_next_line(k))
           /\ io_console_next_line(k).run = <<>> /\ io_console_next_line(k).x = 0
  <1>1. /\ k.line \in 0 .. Lines - 1 /\ k.x \in Nat /\ k.screen \in Screens
        /\ BlankFrom(k.screen, k.line, k.x)
    BY DEF Console
  <1>2. PICK l : l = io_console_next_line(k)
    OBVIOUS
  <1>3. CASE k.line + 1 >= Lines
    <2>1. /\ l.line = Lines - 1 /\ l.x = 0 /\ l.screen = io_console_scroll(k.screen)
          /\ l.run = <<>> /\ Parts(l)
      BY <1>2, <1>3 DEF io_console_next_line, Parts
    <2>2. l.screen \in Screens
      <3>1. ASSUME NEW c \in Cells, c < (Lines - 1) * Columns PROVE c + Columns \in Cells
        <4>1. c \in Nat /\ c < Start(Lines - 1)
          BY <3>1, CellsAre, LastLine
        <4>2. c + Columns \in Nat /\ c + Columns < Start(Lines)
          BY <4>1, Dims, LastLine
        <4> QED BY <4>2, CellsAre, LastLine
      <3> QED BY <1>1, <2>1, <3>1 DEF Screens, io_console_scroll
    <2>3. BlankFrom(l.screen, l.line, l.x)
      <3>1. ASSUME NEW c \in Cells, c >= Start(Lines - 1) PROVE l.screen[c] = {}
        <4>1. ~(c < (Lines - 1) * Columns)
          BY <3>1, CellsAre, LastLine
        <4> QED BY <2>1, <4>1 DEF io_console_scroll
      <3>2. ASSUME NEW c \in Cells, c >= Start(Lines - 1) + 0 \/ c >= Start((Lines - 1) + 1)
            PROVE  c >= Start(Lines - 1)
        BY <3>2, CellsAre, LastLine, Dims
      <3> QED BY <2>1, <3>1, <3>2 DEF BlankFrom
    <2> QED BY <1>2, <2>1, <2>2, <2>3, LastLine DEF Console
  <1>4. CASE ~(k.line + 1 >= Lines)
    <2>1. /\ l.line = k.line + 1 /\ l.x = 0 /\ l.screen = k.screen /\ l.run = <<>> /\ Parts(l)
      BY <1>2, <1>4 DEF io_console_next_line, Parts
    <2>2. BlankFrom(l.screen, l.line, l.x)
      <3>1. PICK i \in Nat : i = k.line + 1
        BY <1>1
      <3>2. Start(i) \in Nat /\ Start(i + 1) = Start(i) + Columns
        BY StartNext
      <3>3. \A c \in Cells : c >= Start(i) + 0 \/ c >= Start(i + 1) => c >= Start(i)
        BY <3>2, CellsAre, Dims
      <3> QED BY <1>1, <2>1, <3>1, <3>3 DEF BlankFrom
    <2>3. l.line \in 0 .. Lines - 1
      BY <1>1, <1>4, <2>1, Dims
    <2> QED BY <1>1, <1>2, <2>1, <2>2, <2>3 DEF Console
  <1> QED BY <1>3, <1>4

LEMMA FlushConsole ==
    ASSUME NEW k, Console(k), Parts(k)
    PROVE  /\ Console(io_console_flush_run(k)) /\ Parts(io_console_flush_run(k))
           /\ io_console_flush_run(k).run = <<>> /\ io_console_flush_run(k).line = k.line
           /\ io_console_flush_run(k).x = k.x + Len(k.run)
           /\ k.run = <<>> => io_console_flush_run(k).screen = k.screen
  <1>1. /\ k.line \in Nat /\ k.line \in 0 .. Lines - 1 /\ k.x \in Nat /\ k.screen \in Screens
        /\ BlankFrom(k.screen, k.line, k.x) /\ k.run \in Seq(Chars)
    BY DEF Console
  <1>2. PICK l : l = io_console_flush_run(k)
    OBVIOUS
  <1>3. /\ l.line = k.line /\ l.x = k.x + Len(k.run) /\ l.screen = ltrs_color_run(k)
        /\ l.run = <<>> /\ Parts(l)
    BY <1>2 DEF io_console_flush_run, Parts
  <1>4. \A c \in Cells : \/ l.screen[c] = k.screen[c]
                         \/ /\ c \div Columns = k.line
                            /\ c - Cell(k.line, k.x) + 1 \in 1 .. Len(k.run)
                            /\ l.screen[c] \in SUBSET Marks
    <2> TAKE c \in Cells
    <2>1. PICK n : n = c - Cell(k.line, k.x) + 1
      OBVIOUS
    <2>2. l.screen[c] = IF c \div Columns = k.line /\ n \in 1 .. Len(k.run)
                        THEN k.screen[c] \cup Glyph(k.run[n]) ELSE k.screen[c]
      BY <1>3, <2>1 DEF ltrs_color_run
    <2>3. Glyph(k.run[n]) \in SUBSET Marks /\ k.screen[c] \in SUBSET Marks
      BY <1>1, Glyphs DEF Screens
    <2>4. k.screen[c] \cup Glyph(k.run[n]) \in SUBSET Marks
      BY <2>3
    <2> QED BY <2>1, <2>2, <2>4
  <1>5. l.screen \in Screens
    <2>1. \A c \in Cells : l.screen[c] \in SUBSET Marks
      BY <1>1, <1>4 DEF Screens
    <2>2. l.screen = [c \in Cells |-> l.screen[c]]
      BY <1>3 DEF ltrs_color_run
    <2> QED BY <2>1, <2>2 DEF Screens
  <1>6. BlankFrom(l.screen, l.line, l.x)
    <2> SUFFICES ASSUME NEW c \in Cells, c >= Start(k.line) + (k.x + Len(k.run)) \/ c >= Start(k.line + 1)
                 PROVE  l.screen[c] = {}
      BY <1>3 DEF BlankFrom
    <2>1. PICK r \in Nat : r = Len(k.run)
      BY <1>1
    <2>2. /\ Start(k.line) \in Nat /\ Start(k.line + 1) = Start(k.line) + Columns /\ c \in Nat
          /\ Cell(k.line, k.x) = Start(k.line) + k.x /\ Columns \in Nat
      BY <1>1, StartNext, CellIs, CellsAre, Dims
    <2>3. c >= Start(k.line) + k.x \/ c >= Start(k.line + 1)
      BY <1>1, <2>1, <2>2
    <2>4. k.screen[c] = {}
      BY <1>1, <2>3 DEF BlankFrom
    <2>5. ~(c \div Columns = k.line /\ c - Cell(k.line, k.x) + 1 \in 1 .. Len(k.run))
      <3>1. CASE c >= Start(k.line + 1)
        <4>1. c \div Columns = k.line => c < Start(k.line) + Columns
          BY <1>1, <2>2, InLine
        <4> QED BY <1>1, <2>2, <3>1, <4>1
      <3>2. CASE c >= Start(k.line) + (k.x + r)
        BY <1>1, <2>1, <2>2, <3>2
      <3> QED BY <2>1, <3>1, <3>2
    <2> QED BY <1>4, <2>4, <2>5
  <1>7. k.run = <<>> => l.screen = k.screen
    <2> SUFFICES ASSUME k.run = <<>> PROVE l.screen = k.screen
      OBVIOUS
    <2>1. Len(k.run) = 0
      OBVIOUS
    <2>2. \A n : n \notin 1 .. Len(k.run)
      BY <2>1
    <2>3. l.screen = [c \in Cells |-> k.screen[c]]
      BY <1>3, <2>2 DEF ltrs_color_run
    <2> QED BY <1>1, <2>3 DEF Screens
  <1>8. l.x \in Nat /\ <<>> \in Seq(Chars)
    BY <1>1, <1>3
  <1>9. Console(l)
    BY <1>1, <1>3, <1>5, <1>6, <1>8 DEF Console
  <1> QED BY <1>2, <1>3, <1>7, <1>9
LEMMA PutConsole ==
    ASSUME NEW k, Console(k), Parts(k), NEW c \in Chars
    PROVE  Console(Put(k, c)) /\ Parts(Put(k, c))
  <1>1. PICK e : e = io_console_flush_run(k)
    OBVIOUS
  <1>2. Console(e) /\ Parts(e) /\ e.run = <<>>
    BY <1>1, FlushConsole
  <1>3. PICK n : n = io_console_next_line(e)
    OBVIOUS
  <1>4. Console(n) /\ Parts(n)
    BY <1>2, <1>3, NextLineConsole
  <1>5. CASE c = "newline"
    <2>1. Put(k, c) = n
      BY <1>1, <1>3, <1>5 DEF Put
    <2> QED BY <1>4, <2>1
  <1>6. CASE c = "return"
    <2>1. Put(k, c) = k
      BY <1>6 DEF Put
    <2> QED BY <2>1
  <1>7. CASE c # "newline" /\ c # "return"
    <2>1. PICK w : w = IF k.x + 1 > Columns THEN n ELSE k
      OBVIOUS
    <2>2. Console(w) /\ Parts(w)
      BY <1>4, <2>1
    <2>3. PICK r : r = [w EXCEPT !.run = Append(@, c)]
      OBVIOUS
    <2>4. /\ r.line = w.line /\ r.x = w.x /\ r.screen = w.screen /\ r.run = Append(w.run, c)
          /\ Parts(r)
      BY <2>2, <2>3 DEF Parts
    <2>5. Append(w.run, c) \in Seq(Chars)
      BY <2>2 DEF Console
    <2>6. Console(r)
      BY <2>2, <2>4, <2>5 DEF Console
    <2>7. Put(k, c) = IF Len(r.run) = RunSize THEN io_console_flush_run(r) ELSE r
      BY <1>1, <1>3, <1>7, <2>1, <2>3 DEF Put
    <2>8. Console(io_console_flush_run(r)) /\ Parts(io_console_flush_run(r))
      BY <2>4, <2>6, FlushConsole
    <2> QED BY <2>4, <2>6, <2>7, <2>8
  <1> QED BY <1>5, <1>6, <1>7

(* A text is printed: the recursive function is there.                     *)
LEMMA PrintedThere ==
    ASSUME NEW text, text \in Seq(Chars)
    PROVE  \E f : f = [n \in 0 .. Len(text) |-> IF n = 0 THEN Now ELSE Put(f[n - 1], text[n])]
  <1> DEFINE T == {m \in Nat : \E f : f = [n \in 0 .. m |->
                                              IF n = 0 THEN Now ELSE Put(f[n - 1], text[n])]}
  <1>1. 0 \in T
    <2> DEFINE f == [n \in 0 .. 0 |-> Now]
    <2>1. f = [n \in 0 .. 0 |-> IF n = 0 THEN Now ELSE Put(f[n - 1], text[n])]
      OBVIOUS
    <2> QED BY <2>1
  <1>2. ASSUME NEW m \in Nat, m \in T PROVE m + 1 \in T
    <2>1. PICK f : f = [n \in 0 .. m |-> IF n = 0 THEN Now ELSE Put(f[n - 1], text[n])]
      BY <1>2
    <2> DEFINE g == [n \in 0 .. m + 1 |-> IF n = 0 THEN Now ELSE Put(f[n - 1], text[n])]
    <2>2. \A n \in 0 .. m : g[n] = f[n]
      BY <2>1
    <2>3. \A n \in 0 .. m + 1 : n = 0 \/ n - 1 \in 0 .. m
      OBVIOUS
    <2>4. \A n \in 0 .. m + 1 : g[n] = (IF n = 0 THEN Now ELSE Put(g[n - 1], text[n]))
      BY <2>2, <2>3
    <2>5. g = [n \in 0 .. m + 1 |-> IF n = 0 THEN Now ELSE Put(g[n - 1], text[n])]
      <3> DEFINE h == [n \in 0 .. m + 1 |-> IF n = 0 THEN Now ELSE Put(g[n - 1], text[n])]
      <3>1. \A n \in 0 .. m + 1 : h[n] = g[n]
        BY <2>4
      <3>2. DOMAIN h = 0 .. m + 1 /\ DOMAIN g = 0 .. m + 1
        OBVIOUS
      <3> QED BY <3>1, <3>2
    <2>6. \E h : h = [n \in 0 .. m + 1 |-> IF n = 0 THEN Now ELSE Put(h[n - 1], text[n])]
      <3> HIDE DEF g
      <3> QED BY <2>5, Zenon
    <2>7. m + 1 \in Nat
      OBVIOUS
    <2> QED BY <2>6, <2>7, Zenon
  <1>3. \A m \in Nat : m \in T
    <2> HIDE DEF T
    <2> QED BY <1>1, <1>2, SetInduction
  <1>4. Len(text) \in T
    BY <1>3
  <1> QED BY <1>4

(* Printed, as the function that defines it.                               *)
LEMMA PrintedOf ==
    ASSUME NEW text, text \in Seq(Chars)
    PROVE  /\ Printed(text)[0] = Now
           /\ \A n \in 1 .. Len(text) : Printed(text)[n] = Put(Printed(text)[n - 1], text[n])
  <1>1. Printed(text)
           = [n \in 0 .. Len(text) |-> IF n = 0 THEN Now ELSE Put(Printed(text)[n - 1], text[n])]
    <2>1. \E f : f = [n \in 0 .. Len(text) |-> IF n = 0 THEN Now ELSE Put(f[n - 1], text[n])]
      BY PrintedThere
    <2> QED BY <2>1, Zenon DEF Printed
  <1> DEFINE f == Printed(text)
  <1>2. f = [n \in 0 .. Len(text) |-> IF n = 0 THEN Now ELSE Put(f[n - 1], text[n])]
    BY <1>1
  <1>3. Len(text) \in Nat
    OBVIOUS
  <1> HIDE DEF f
  <1>4. \A n \in 0 .. Len(text) : f[n] = (IF n = 0 THEN Now ELSE Put(f[n - 1], text[n]))
    BY <1>2
  <1>5. f[0] = Now /\ \A n \in 1 .. Len(text) : f[n] = Put(f[n - 1], text[n])
    BY <1>3, <1>4
  <1> QED BY <1>5 DEF f

(* The console as it is, and as a text leaves it, by induction over the    *)
(* text.                                                                   *)
LEMMA NowParts == Parts(Now) /\ Now.run = <<>>
  BY DEF Now, Parts

LEMMA PrintConsole ==
    ASSUME NEW text, text \in Seq(Chars), Console(Now)
    PROVE  Console(io_puts_color(text)) /\ Parts(io_puts_color(text))
  <1> DEFINE T == {n \in Nat : n <= Len(text) =>
                                  Console(Printed(text)[n]) /\ Parts(Printed(text)[n])}
  <1>1. 0 \in T
    BY PrintedOf, NowParts
  <1>2. ASSUME NEW n \in Nat, n \in T PROVE n + 1 \in T
    <2> SUFFICES ASSUME n + 1 <= Len(text)
                 PROVE  Console(Printed(text)[n + 1]) /\ Parts(Printed(text)[n + 1])
      OBVIOUS
    <2>1. n + 1 \in 1 .. Len(text) /\ n <= Len(text) /\ (n + 1) - 1 = n
      OBVIOUS
    <2>2. Printed(text)[n + 1] = Put(Printed(text)[n], text[n + 1])
      BY <2>1, PrintedOf
    <2>3. Console(Printed(text)[n]) /\ Parts(Printed(text)[n]) /\ text[n + 1] \in Chars
      BY <1>2, <2>1
    <2> QED BY <2>2, <2>3, PutConsole
  <1>3. \A n \in Nat : n \in T
    <2> HIDE DEF T
    <2> QED BY <1>1, <1>2, SetInduction
  <1>4. Console(Printed(text)[Len(text)]) /\ Parts(Printed(text)[Len(text)])
    BY <1>3
  <1> QED BY <1>4, FlushConsole DEF io_puts_color

(* A text of one character.                                                *)
LEMMA OneOf ==
    ASSUME NEW S, NEW c \in S
    PROVE  <<c>> \in Seq(S) /\ Len(<<c>>) = 1 /\ <<c>>[1] = c
  OBVIOUS

(* A single letter, or the cursor's move to the next line.                 *)
LEMMA PrintOne ==
    ASSUME NEW c \in Chars
    PROVE  io_puts_color(<<c>>) = io_console_flush_run(Put(Now, c))
  <1>1. <<c>> \in Seq(Chars) /\ Len(<<c>>) = 1 /\ <<c>>[1] = c
    BY OneOf
  <1>2. PICK text \in Seq(Chars) : text = <<c>> /\ Len(text) = 1 /\ text[1] = c
    BY <1>1, Zenon
  <1>3. 1 \in 1 .. Len(text) /\ 1 - 1 = 0
    BY <1>2
  <1>4. Printed(text)[1] = Put(Printed(text)[0], text[1]) /\ Printed(text)[0] = Now
    BY <1>3, PrintedOf
  <1> QED BY <1>2, <1>4 DEF io_puts_color

(* A letter is typed: it is drawn in a cell of its own, after the last or  *)
(* at the beginning of the next line.                                      *)
NextCell == IF io_console_xpixel + 1 > Columns THEN io_console_next_line(Now) ELSE Now

(* One letter: it is drawn into the next cell, and no other cell changes   *)
(* after the wrapping or scrolling that comes first.                       *)
LEMMA TypeOne ==
    ASSUME Console(Now), NEW c \in Chars \ {"newline", "return"}, NEW w, w = NextCell,
           NEW l, l = io_puts_color(<<c>>)
    PROVE  /\ Console(w) /\ Parts(w) /\ w.x + 1 <= Columns /\ Cell(w.line, w.x) \in Cells
           /\ Console(l) /\ l.line = w.line /\ l.x = w.x + 1
           /\ l.screen[Cell(w.line, w.x)] = Glyph(c)
           /\ \A i \in Cells : i # Cell(w.line, w.x) => l.screen[i] = w.screen[i]
  <1>1. io_console_flush_run(Now) = Now
    <2>1. PICK l0 : l0 = io_console_flush_run(Now)
      OBVIOUS
    <2>2. /\ Parts(l0) /\ l0.run = <<>> /\ l0.line = Now.line /\ l0.x = Now.x + Len(Now.run)
          /\ l0.screen = Now.screen
      BY <2>1, NowParts, FlushConsole
    <2>3. Len(Now.run) = 0 /\ Now.x \in Nat
      BY NowParts DEF Console
    <2>4. l0.x = Now.x
      BY <2>2, <2>3
    <2> QED BY <2>1, <2>2, <2>4, NowParts DEF Parts
  <1>2. Now.x = io_console_xpixel
    BY DEF Now
  <1>3. Console(w) /\ Parts(w) /\ w.run = <<>> /\ w.x + 1 <= Columns
    <2>1. /\ Console(io_console_next_line(Now)) /\ Parts(io_console_next_line(Now))
          /\ io_console_next_line(Now).run = <<>> /\ io_console_next_line(Now).x = 0
      BY NowParts, NextLineConsole
    <2>2. 0 + 1 <= Columns
      BY Dims
    <2>3. io_console_xpixel \in Nat /\ Columns \in Nat
      BY <1>2, Dims DEF Console
    <2> QED BY <1>2, <2>1, <2>2, <2>3, NowParts DEF NextCell
  <1>4. PICK r : r = [w EXCEPT !.run = Append(@, c)]
    OBVIOUS
  <1>5. /\ r.line = w.line /\ r.x = w.x /\ r.screen = w.screen /\ r.run = <<c>> /\ Parts(r)
    BY <1>3, <1>4 DEF Parts
  <1>6. Console(r)
    <2>1. <<c>> \in Seq(Chars)
      OBVIOUS
    <2> QED BY <1>3, <1>5, <2>1 DEF Console
  <1>7. PICK m : m = io_console_flush_run(r)
    OBVIOUS
  <1>8. /\ Console(m) /\ Parts(m) /\ m.run = <<>> /\ m.line = w.line /\ m.x = w.x + 1
    <2>1. Len(r.run) = 1
      BY <1>5
    <2> QED BY <1>5, <1>6, <1>7, <2>1, FlushConsole
  <1>9. io_console_flush_run(m) = m
    <2>1. PICK l0 : l0 = io_console_flush_run(m)
      OBVIOUS
    <2>2. /\ Parts(l0) /\ l0.run = <<>> /\ l0.line = m.line /\ l0.x = m.x + Len(m.run)
          /\ l0.screen = m.screen
      BY <1>8, <2>1, FlushConsole
    <2>3. Len(m.run) = 0 /\ m.x \in Nat
      BY <1>8 DEF Console
    <2>4. l0.x = m.x
      BY <2>2, <2>3
    <2> QED BY <1>8, <2>1, <2>2, <2>4 DEF Parts
  <1>10. l = m
    <2>1. Put(Now, c) = IF Len(r.run) = RunSize THEN m ELSE r
      BY <1>1, <1>2, <1>4, <1>7 DEF Put, NextCell
    <2>2. l = io_console_flush_run(Put(Now, c))
      BY PrintOne
    <2> QED BY <1>7, <1>9, <2>1, <2>2
  <1>11. Cell(w.line, w.x) \in Cells
    <2>1. PICK i \in Nat : i = w.line /\ i <= Lines - 1
      BY <1>3, Dims DEF Console
    <2>2. Start(i) \in Nat /\ Start(i) <= Start(Lines - 1) /\ w.x \in Nat
      BY <1>3, <2>1, StartNext, StartsUp, LastLine DEF Console
    <2>3. Cell(w.line, w.x) = Start(i) + w.x
      BY <2>1, CellIs
    <2>4. Start(i) + w.x < Start(Lines)
      BY <1>3, <2>2, LastLine, Dims
    <2> QED BY <2>2, <2>3, <2>4, CellsAre, LastLine
  <1>12. \A i \in Cells :
            m.screen[i] = IF i = Cell(w.line, w.x) THEN w.screen[i] \cup Glyph(c) ELSE w.screen[i]
    <2> TAKE i \in Cells
    <2>1. PICK b \in Nat : b = Cell(w.line, w.x)
      BY <1>11, CellsAre
    <2>2. i \in Nat
      BY CellsAre
    <2>3. m.screen[i] = IF i \div Columns = w.line /\ i - b + 1 \in 1 .. 1
                        THEN w.screen[i] \cup Glyph(r.run[i - b + 1]) ELSE w.screen[i]
      BY <1>5, <1>7, <2>1 DEF io_console_flush_run, ltrs_color_run, Parts
    <2>4. i - b + 1 \in 1 .. 1 <=> i = b
      BY <2>1, <2>2
    <2>5. b \div Columns = w.line
      <3>1. PICK j \in Nat : j = w.line
        BY <1>3, Dims DEF Console
      <3>2. Start(j) \in Nat /\ w.x \in Nat /\ b = Start(j) + w.x
        BY <1>3, <2>1, <3>1, StartNext, CellIs DEF Console
      <3>3. Start(j) <= b /\ b < Start(j) + Columns
        BY <1>3, <3>2, Dims
      <3> QED BY <3>1, <3>3, InLine
    <2>6. i = b => i - b + 1 = 1 /\ r.run[1] = c
      BY <1>5, <2>1, <2>2
    <2> QED BY <2>1, <2>3, <2>4, <2>5, <2>6
  <1>13. w.screen[Cell(w.line, w.x)] = {}
    <2>1. Cell(w.line, w.x) = Start(w.line) + w.x
      BY CellIs
    <2>2. Start(w.line) + w.x >= Start(w.line) + w.x
      <3>1. Start(w.line) + w.x \in Nat
        BY <1>11, <2>1, CellsAre
      <3> QED BY <3>1
    <2> QED BY <1>3, <1>11, <2>1, <2>2 DEF Console, BlankFrom
  <1>14. l.screen[Cell(w.line, w.x)] = Glyph(c)
    BY <1>10, <1>11, <1>12, <1>13
  <1>15. \A i \in Cells : i # Cell(w.line, w.x) => l.screen[i] = w.screen[i]
    BY <1>10, <1>12
  <1> QED BY <1>3, <1>8, <1>10, <1>11, <1>14, <1>15

(* What of a text is still on the display stands before the cursor.        *)
Shown(text, b, pic) ==
    \A n \in 1 .. Len(text) :
        b + n - 1 >= Len(text) => pic[b + n - 1 - Len(text)] = Glyph(text[n])

(* A letter more, drawn at the end of what is shown.                       *)
LEMMA ShownMore ==
    ASSUME NEW S, NEW text \in Seq(S), NEW c \in S, NEW b \in Nat, NEW w \in Nat, NEW d \in Nat,
           NEW pic, NEW pic2, Shown(text, b, pic), pic2[w] = Glyph(c),
           text # <<>> => b = w + d /\ \A i \in Nat : i < w => pic2[i] = pic[i + d]
    PROVE  Shown(Append(text, c), w + 1, pic2)
  <1>1. PICK k \in Nat : k = Len(text)
    OBVIOUS
  <1>2. Len(Append(text, c)) = k + 1
    BY <1>1
  <1> SUFFICES ASSUME NEW n \in 1 .. k + 1, (w + 1) + n - 1 >= k + 1
               PROVE  pic2[(w + 1) + n - 1 - (k + 1)] = Glyph(Append(text, c)[n])
    BY <1>2 DEF Shown
  <1>3. PICK i \in Nat : i = (w + 1) + n - 1 - (k + 1)
    <2>1. (w + 1) + n - 1 - (k + 1) \in Nat
      OBVIOUS
    <2> QED BY <2>1
  <1>4. CASE n = k + 1
    <2>1. i = w
      BY <1>3, <1>4
    <2>2. Append(text, c)[n] = c
      BY <1>1, <1>4
    <2> QED BY <1>3, <2>1, <2>2
  <1>5. CASE n # k + 1
    <2>1. n \in 1 .. k
      BY <1>1, <1>5
    <2>2. text # <<>> /\ Append(text, c)[n] = text[n]
      BY <1>1, <2>1
    <2>3. b = w + d /\ i < w
      BY <1>3, <2>1, <2>2
    <2>4. b + n - 1 >= k /\ b + n - 1 - k = i + d
      BY <1>3, <2>3
    <2>5. pic[i + d] = Glyph(text[n])
      BY <1>1, <2>1, <2>4 DEF Shown
    <2>6. pic2[i] = pic[i + d]
      BY <2>2, <2>3
    <2> QED BY <1>3, <2>2, <2>5, <2>6
  <1> QED BY <1>4, <1>5

(* A letter less, where the cursor went back one cell, or stays at the     *)
(* first.                                                                  *)
LEMMA ShownLess ==
    ASSUME NEW S, NEW text \in Seq(S), text # <<>>, NEW b \in Nat, NEW e \in Nat,
           NEW pic, NEW pic2, Shown(text, b, pic),
           (b = e + 1 /\ \A i \in Nat : i < e => pic2[i] = pic[i]) \/ (b = 0 /\ e = 0)
    PROVE  Shown(SubSeq(text, 1, Len(text) - 1), e, pic2)
  <1>1. PICK k \in Nat : Len(text) = k + 1
    <2>1. Len(text) \in Nat /\ Len(text) # 0
      OBVIOUS
    <2>2. Len(text) - 1 \in Nat /\ Len(text) = (Len(text) - 1) + 1
      BY <2>1
    <2> QED BY <2>2
  <1>2. PICK t \in Seq(S) : t = SubSeq(text, 1, k)
    <2>1. \A n \in 1 .. k : text[n] \in S
      BY <1>1
    <2>2. SubSeq(text, 1, k) \in Seq(S)
      BY <1>1, <2>1
    <2> QED BY <2>2
  <1>3. Len(t) = k /\ \A n \in 1 .. k : t[n] = text[n]
    BY <1>1, <1>2
  <1>4. Shown(t, e, pic2)
    <2> SUFFICES ASSUME NEW n \in 1 .. k, e + n - 1 >= k
                 PROVE  pic2[e + n - 1 - k] = Glyph(t[n])
      BY <1>3 DEF Shown
    <2>1. b = e + 1
      OBVIOUS
    <2>2. PICK i \in Nat : i = e + n - 1 - k /\ i < e
      OBVIOUS
    <2>3. \A j \in Nat : j < e => pic2[j] = pic[j]
      BY <2>1
    <2>4. n \in 1 .. k + 1 /\ b + n - 1 >= k + 1 /\ b + n - 1 - (k + 1) = i
      BY <2>1, <2>2
    <2>5. pic[i] = Glyph(text[n])
      BY <1>1, <2>4 DEF Shown
    <2>6. pic2[i] = pic[i]
      BY <2>2, <2>3
    <2> QED BY <1>3, <2>2, <2>5, <2>6
  <1>5. Len(text) - 1 = k
    BY <1>1
  <1> QED BY <1>2, <1>4, <1>5
(* The console's invariant: where it is in order, what was typed is shown, *)
(* and a line that holds something has the cursor within or just beyond    *)
(* the display, so that it wraps to the line's neighbour.                  *)
ConsoleInv ==
    /\ Console(Now)
    /\ typing \in BOOLEAN /\ s \in Seq(Keyable) /\ Len(s) <= MaxLen
    /\ typing =>
         /\ Shown(s, Cursor, screen)
         /\ s # <<>> => io_console_xpixel <= Columns

(* What can be typed and what is output are characters.                    *)
LEMMA TypedAre == Keyable \subseteq Chars \ {"newline", "return"}
  <1>1. "space" # "newline" /\ "space" # "return"
    OBVIOUS
  <1>2. Letters \subseteq STRING \ {"newline", "return"}
    BY ConsoleAssumption
  <1> QED BY <1>1, <1>2 DEF Keyable, Chars

(* Sequences over a smaller set are sequences over a larger one.           *)
LEMMA SeqWider ==
    ASSUME NEW S, NEW T, S \subseteq T
    PROVE  Seq(S) \subseteq Seq(T)
  <1> SUFFICES ASSUME NEW q \in Seq(S) PROVE q \in Seq(T)
    OBVIOUS
  <1>1. \A n \in 1 .. Len(q) : q[n] \in T
    OBVIOUS
  <1>2. Len(q) \in Nat /\ q = [n \in 1 .. Len(q) |-> q[n]]
    OBVIOUS
  <1> QED BY <1>1, <1>2

(* What is output consists of characters.                                  *)
LEMMA OutputsAre == Outputs \subseteq Seq(Chars)
  <1>1. Outputs \subseteq Seq(STRING) /\ STRING \subseteq Chars
    BY ConsoleAssumption DEF Chars
  <1>2. Seq(STRING) \subseteq Seq(Chars)
    BY <1>1, SeqWider
  <1> QED BY <1>1, <1>2, Zenon

(* The state a printed screen is, and the one that it becomes.             *)
LEMMA Here == /\ Now.line = io_console_line /\ Now.x = io_console_xpixel
              /\ Now.screen = screen /\ Now.run = <<>>
  BY DEF Now

(* The console's variables, as the parts of a record.                      *)
LEMMA Became ==
    ASSUME NEW k, Console(k), Becomes(k)
    PROVE  Console(Now)'
  <1>1. io_console_line' = k.line /\ io_console_xpixel' = k.x /\ screen' = k.screen
    BY DEF Becomes
  <1>2. (Now.line)' = k.line /\ (Now.x)' = k.x /\ (Now.screen)' = k.screen /\ (Now.run)' = <<>>
    BY <1>1 DEF Now
  <1>3. <<>> \in Seq(Chars)
    OBVIOUS
  <1> QED BY <1>2, <1>3 DEF Console

LEMMA CursorIs ==
    ASSUME Console(Now)
    PROVE  /\ io_console_line \in Nat /\ io_console_xpixel \in Nat /\ Cursor \in Nat
           /\ Cursor = Start(io_console_line) + io_console_xpixel
           /\ Start(io_console_line) \in Nat
           /\ Start(io_console_line + 1) = Start(io_console_line) + Columns
  <1>1. io_console_line \in Nat /\ io_console_xpixel \in Nat
    BY Here, Dims DEF Console
  <1>2. Cursor = Start(io_console_line) + io_console_xpixel
    BY CellIs DEF Cursor
  <1> QED BY <1>1, <1>2, StartNext

(* The invariant of the console holds at the start and through each        *)
(* action.                                                                 *)
LEMMA ConsoleInit_Inv == ConsoleInit => ConsoleInv
  <1> SUFFICES ASSUME ConsoleInit PROVE ConsoleInv
    OBVIOUS
  <1>1. /\ io_console_line = 0 /\ io_console_xpixel = 0 /\ screen = [c \in Cells |-> {}]
        /\ s = <<>> /\ typing = FALSE
    BY DEF ConsoleInit
  <1>2. screen \in Screens /\ \A c \in Cells : screen[c] = {}
    BY <1>1 DEF Screens
  <1>3. <<>> \in Seq(Chars) /\ <<>> \in Seq(Keyable) /\ Len(<<>>) = 0
    OBVIOUS
  <1>4. Console(Now)
    <2>1. 0 \in 0 .. Lines - 1
      BY Dims
    <2>2. BlankFrom(screen, io_console_line, io_console_xpixel)
      BY <1>2 DEF BlankFrom
    <2> QED BY <1>1, <1>2, <1>3, <2>1, <2>2, Here DEF Console
  <1>5. Len(s) <= MaxLen
    BY <1>1, <1>3, ConsoleAssumption
  <1> QED BY <1>1, <1>3, <1>4, <1>5 DEF ConsoleInv

LEMMA ConsoleInv_puts == ConsoleInv /\ puts => ConsoleInv'
  <1> SUFFICES ASSUME ConsoleInv, puts PROVE ConsoleInv'
    OBVIOUS
  <1>1. PICK text \in Outputs : Becomes(io_puts_color(text))
    BY DEF puts
  <1>2. text \in Seq(Chars)
    BY OutputsAre
  <1>3. PICK k : k = io_puts_color(text)
    OBVIOUS
  <1>4. Console(k)
    BY <1>2, <1>3, PrintConsole DEF ConsoleInv
  <1>5. Console(Now)'
    BY <1>1, <1>3, <1>4, Became
  <1> QED BY <1>5 DEF puts, ConsoleInv

LEMMA ConsoleInv_gets == ConsoleInv /\ gets => ConsoleInv'
  <1> SUFFICES ASSUME ConsoleInv, gets PROVE ConsoleInv'
    OBVIOUS
  <1>1. /\ s' = <<>> /\ typing' = TRUE /\ io_console_line' = io_console_line
        /\ io_console_xpixel' = io_console_xpixel /\ screen' = screen
    BY DEF gets
  <1>2. Console(Now)'
    BY <1>1 DEF ConsoleInv, Console, Now
  <1>3. Len(<<>>) = 0 /\ <<>> \in Seq(Keyable)
    OBVIOUS
  <1>4. Len(s') <= MaxLen
    BY <1>1, <1>3, ConsoleAssumption
  <1>5. Shown(s, Cursor, screen)'
    BY <1>1, <1>3 DEF Shown
  <1> QED BY <1>1, <1>2, <1>3, <1>4, <1>5 DEF ConsoleInv

LEMMA ConsoleInv_gets_enter == ConsoleInv /\ gets_enter => ConsoleInv'
  <1> SUFFICES ASSUME ConsoleInv, gets_enter PROVE ConsoleInv'
    OBVIOUS
  <1>1. PICK text : text = <<"newline">>
    OBVIOUS
  <1>2. text \in Seq(Chars)
    <2>1. "newline" \in Chars
      BY DEF Chars
    <2>2. <<"newline">> \in Seq(Chars)
      BY <2>1, OneOf
    <2> QED BY <1>1, <2>2
  <1>3. PICK k : k = io_puts_color(text)
    OBVIOUS
  <1>4. Console(k) /\ Becomes(k)
    BY <1>1, <1>2, <1>3, PrintConsole DEF ConsoleInv, gets_enter
  <1>5. Console(Now)'
    BY <1>4, Became
  <1> QED BY <1>5 DEF gets_enter, ConsoleInv

LEMMA ConsoleInv_gets_full == ConsoleInv /\ gets_full => ConsoleInv'
  <1> SUFFICES ASSUME ConsoleInv, gets_full PROVE ConsoleInv'
    OBVIOUS
  <1>1. /\ s' = s /\ typing' = FALSE /\ io_console_line' = io_console_line
        /\ io_console_xpixel' = io_console_xpixel /\ screen' = screen
    BY DEF gets_full
  <1>2. Console(Now)'
    BY <1>1 DEF ConsoleInv, Console, Now
  <1> QED BY <1>1, <1>2 DEF ConsoleInv

(* A letter is appended to the line and shown.                             *)
LEMMA ConsoleInv_gets_character ==
    ASSUME NEW c \in Keyable, ConsoleInv, gets_character(c)
    PROVE  ConsoleInv'
  <1>1. c \in Chars \ {"newline", "return"}
    BY TypedAre
  <1>2. PICK w : w = NextCell
    OBVIOUS
  <1>3. PICK l : l = io_puts_color(<<c>>)
    OBVIOUS
  <1>4. Console(Now)
    BY DEF ConsoleInv
  <1>5. /\ Console(w) /\ Parts(w) /\ w.x + 1 <= Columns /\ Cell(w.line, w.x) \in Cells
        /\ Console(l) /\ l.line = w.line /\ l.x = w.x + 1
        /\ l.screen[Cell(w.line, w.x)] = Glyph(c)
        /\ \A i \in Cells : i # Cell(w.line, w.x) => l.screen[i] = w.screen[i]
    BY <1>1, <1>2, <1>3, <1>4, TypeOne
  <1>6. /\ typing /\ typing' = typing /\ s' = Append(s, c) /\ Becomes(l) /\ Len(s) < MaxLen - 1
    BY <1>3 DEF gets_character, More
  <1>7. io_console_line' = w.line /\ io_console_xpixel' = w.x + 1 /\ screen' = l.screen
    BY <1>5, <1>6 DEF Becomes
  <1>8. Console(Now)'
    BY <1>5, <1>6, Became
  <1>9. s \in Seq(Keyable) /\ s' \in Seq(Keyable) /\ Len(s') <= MaxLen
    BY <1>6, ConsoleAssumption DEF ConsoleInv
  <1>10. PICK b \in Nat : b = Cell(w.line, w.x) /\ b \in Cells
    BY <1>5, CellsAre
  <1>11. Cursor' = b + 1
    <2>1. Cursor' = Start(w.line) + (w.x + 1)
      BY <1>7, CellIs DEF Cursor
    <2>2. b = Start(w.line) + w.x
      BY <1>10, CellIs
    <2>3. w.line \in Nat /\ w.x \in Nat
      BY <1>5, Dims DEF Console
    <2>4. Start(w.line) \in Nat
      BY <2>3, StartNext
    <2> QED BY <2>1, <2>2, <2>3, <2>4
  <1>12. ASSUME NEW i \in Nat, i < b PROVE l.screen[i] = w.screen[i]
    <2>1. i \in Cells /\ i # b
      BY <1>10, <1>12, CellsAre, LastLine
    <2> QED BY <1>5, <1>10, <2>1
  <1>13. \E d \in Nat : s # <<>> =>
             Cursor = b + d /\ \A i \in Nat : i < b => l.screen[i] = screen[i + d]
    <2>1. CASE ~(io_console_xpixel + 1 > Columns)
      <3>1. w.line = io_console_line /\ w.x = io_console_xpixel /\ w.screen = screen
        BY <1>2, <2>1, Here DEF NextCell
      <3>2. Cursor = b + 0
        BY <1>10, <3>1 DEF Cursor
      <3>3. \A i \in Nat : i < b => l.screen[i] = screen[i + 0]
        BY <1>12, <3>1
      <3> QED BY <3>2, <3>3
    <2>2. CASE io_console_xpixel + 1 > Columns
      <3>1. w = io_console_next_line(Now)
        BY <1>2, <2>2 DEF NextCell
      <3>2. s # <<>> => Cursor = Start(io_console_line + 1)
        <4>1. s # <<>> => io_console_xpixel = Columns
          BY <1>4, <1>6, <2>2, CursorIs, Dims DEF ConsoleInv
        <4> QED BY <1>4, <4>1, CursorIs
      <3>3. CASE io_console_line + 1 >= Lines
        <4>1. /\ w.line = Lines - 1 /\ w.x = 0 /\ w.screen = io_console_scroll(screen)
              /\ io_console_line = Lines - 1
          <5>1. io_console_line \in 0 .. Lines - 1
            BY <1>4, Here DEF Console
          <5> QED BY <3>1, <3>3, <5>1, Here, Dims DEF io_console_next_line
        <4>2. b = Start(Lines - 1)
          BY <1>10, <4>1, CellIs, LastLine
        <4>3. s # <<>> => Cursor = b + Columns
          BY <3>2, <4>1, <4>2, LastLine
        <4>4. ASSUME NEW i \in Nat, i < b PROVE l.screen[i] = screen[i + Columns]
          <5>1. i \in Cells /\ i < (Lines - 1) * Columns
            BY <1>10, <4>2, <4>4, CellsAre, LastLine
          <5> QED BY <1>12, <4>1, <4>4, <5>1 DEF io_console_scroll
        <4> QED BY <4>3, <4>4, Dims
      <3>4. CASE ~(io_console_line + 1 >= Lines)
        <4>1. w.line = io_console_line + 1 /\ w.x = 0 /\ w.screen = screen
          BY <3>1, <3>4, Here DEF io_console_next_line
        <4>2. b = Start(io_console_line + 1)
          BY <1>4, <1>10, <4>1, CellIs, CursorIs, StartNext
        <4>3. s # <<>> => Cursor = b + 0
          BY <3>2, <4>2
        <4>4. \A i \in Nat : i < b => l.screen[i] = screen[i + 0]
          BY <1>12, <4>1
        <4> QED BY <4>3, <4>4
      <3> QED BY <3>3, <3>4
    <2> QED BY <2>1, <2>2
  <1>14. Shown(s', Cursor', screen')
    <2>1. PICK d \in Nat : s # <<>> =>
               Cursor = b + d /\ \A i \in Nat : i < b => l.screen[i] = screen[i + d]
      BY <1>13
    <2>2. Shown(s, Cursor, screen) /\ Cursor \in Nat
      BY <1>4, <1>6, CursorIs DEF ConsoleInv
    <2>3. PICK a \in Nat : a = Cursor
      BY <2>2
    <2>4. l.screen[b] = Glyph(c)
      BY <1>5, <1>10
    <2>5. Shown(s, a, screen)
      BY <2>2, <2>3
    <2>6. s # <<>> => a = b + d /\ \A i \in Nat : i < b => l.screen[i] = screen[i + d]
      BY <2>1, <2>3
    <2>7. PICK pic : pic = l.screen
      OBVIOUS
    <2>8. Shown(Append(s, c), b + 1, pic)
      BY <1>9, <2>4, <2>5, <2>6, <2>7, ShownMore
    <2> QED BY <1>6, <1>7, <1>11, <2>7, <2>8
  <1>15. (io_console_xpixel <= Columns)'
    BY <1>5, <1>7
  <1> QED BY <1>6, <1>8, <1>9, <1>14, <1>15 DEF ConsoleInv
(* A letter is taken off the line and its cell cleared.                    *)
LEMMA ConsoleInv_gets_backspace == ConsoleInv /\ gets_backspace => ConsoleInv'
  <1> SUFFICES ASSUME ConsoleInv, gets_backspace PROVE ConsoleInv'
    OBVIOUS
  <1>1. PICK k : k = io_console_erase_char
    OBVIOUS
  <1>2. /\ typing /\ typing' = typing /\ s # <<>> /\ s' = SubSeq(s, 1, Len(s) - 1) /\ Becomes(k)
    BY <1>1 DEF gets_backspace, More
  <1>3. /\ io_console_line' = k.line /\ io_console_xpixel' = k.x /\ screen' = k.screen
    BY <1>2 DEF Becomes
  <1>4. Console(Now) /\ s \in Seq(Keyable) /\ io_console_xpixel <= Columns /\ Len(s) <= MaxLen
        /\ Shown(s, Cursor, screen)
    BY <1>2 DEF ConsoleInv
  <1>5. PICK n \in Nat : Len(s) = n + 1
    <2>1. Len(s) \in Nat /\ Len(s) # 0
      BY <1>2, <1>4
    <2>2. Len(s) - 1 \in Nat /\ Len(s) = (Len(s) - 1) + 1
      BY <2>1
    <2> QED BY <2>2
  <1>6. s' \in Seq(Keyable) /\ Len(s') <= MaxLen
    <2>1. Len(s) - 1 = n
      BY <1>5
    <2>2. \A i \in 1 .. n : s[i] \in Keyable
      BY <1>4, <1>5
    <2>3. SubSeq(s, 1, n) \in Seq(Keyable) /\ Len(SubSeq(s, 1, n)) = n
      BY <1>4, <1>5, <2>2
    <2> QED BY <1>2, <1>4, <1>5, <2>1, <2>3, ConsoleAssumption
  <1>7. /\ io_console_line \in 0 .. Lines - 1 /\ io_console_xpixel \in Nat
        /\ screen \in Screens /\ BlankFrom(screen, io_console_line, io_console_xpixel)
    BY <1>4, Here DEF Console
  <1>8. PICK b \in Nat : b = Cursor /\ b = Start(io_console_line) + io_console_xpixel
    BY <1>4, CursorIs
  <1>9. CASE io_console_xpixel = 0 /\ io_console_line = 0
    <2>1. k = Now
      BY <1>1, <1>9, Here DEF io_console_erase_char
    <2>2. /\ io_console_line' = io_console_line /\ io_console_xpixel' = io_console_xpixel
          /\ screen' = screen
      BY <1>3, <2>1, Here
    <2>3. Console(Now)'
      BY <1>2, <1>4, <2>1, Became
    <2>4. b = 0 /\ Cursor' = 0
      BY <1>8, <1>9, <2>2, Dims DEF Cursor, Cell, Start
    <2>5. PICK pic : pic = screen
      OBVIOUS
    <2>6. Shown(s, b, pic)
      BY <1>4, <1>8, <2>5
    <2>7. Shown(SubSeq(s, 1, Len(s) - 1), 0, pic)
      BY <1>2, <1>4, <2>4, <2>6, ShownLess
    <2>8. Shown(s', Cursor', screen')
      BY <1>2, <2>2, <2>4, <2>5, <2>7
    <2> QED BY <1>2, <1>4, <1>6, <2>2, <2>3, <2>8 DEF ConsoleInv
  <1>10. CASE ~(io_console_xpixel = 0 /\ io_console_line = 0)
    <2>1. PICK line : line = IF io_console_xpixel = 0 THEN io_console_line - 1 ELSE io_console_line
      OBVIOUS
    <2>2. PICK x : x = IF io_console_xpixel = 0 THEN Columns - 1 ELSE io_console_xpixel - 1
      OBVIOUS
    <2>3. line \in 0 .. Lines - 1 /\ line \in Nat /\ x \in Nat /\ x < Columns
      BY <1>4, <1>7, <1>10, <2>1, <2>2, Dims
    <2>4. /\ k.line = line /\ k.x = x /\ k.screen = [screen EXCEPT ![Cell(line, x)] = {}]
          /\ k.run = <<>>
      BY <1>1, <1>10, <2>1, <2>2, <2>3, Here, NowParts DEF io_console_erase_char, Parts
    <2>5. PICK e \in Nat : e = Start(line) + x
      BY <2>3, StartNext
    <2>6. b = e + 1
      <3>1. CASE io_console_xpixel = 0
        <4>1. line \in Nat /\ line + 1 = io_console_line /\ x = Columns - 1
          BY <1>7, <1>10, <2>1, <2>2, <3>1, Dims
        <4>2. Start(line) \in Nat /\ Start(line + 1) = Start(line) + Columns
          BY <4>1, StartNext
        <4>3. b = Start(line) + Columns
          BY <1>8, <3>1, <4>1, <4>2, Dims
        <4> QED BY <2>5, <4>1, <4>2, <4>3, Dims
      <3>2. CASE io_console_xpixel # 0
        <4>1. line = io_console_line /\ x = io_console_xpixel - 1
          BY <2>1, <2>2, <3>2
        <4>2. Start(line) \in Nat
          BY <2>3, StartNext
        <4> QED BY <1>7, <1>8, <2>5, <4>1, <4>2
      <3> QED BY <3>1, <3>2
    <2>7. Cell(line, x) = e
      BY <2>5, CellIs
    <2>8. e \in Cells
      <3>1. Start(line) <= Start(Lines - 1) /\ Start(line) \in Nat
        BY <2>3, StartsUp, StartNext, LastLine
      <3>2. e < Start(Lines)
        BY <2>3, <2>5, <3>1, LastLine, Dims
      <3> QED BY <3>2, CellsAre, LastLine
    <2>9. \A i \in Cells : k.screen[i] = IF i = e THEN {} ELSE screen[i]
      BY <1>7, <2>4, <2>7, <2>8 DEF Screens
    <2>10. k.screen \in Screens
      BY <1>7, <2>4 DEF Screens
    <2>11. BlankFrom(k.screen, line, x)
      <3> SUFFICES ASSUME NEW c \in Cells, c >= Start(line) + x \/ c >= Start(line + 1)
                   PROVE  k.screen[c] = {}
        BY DEF BlankFrom
      <3>1. c \in Nat /\ Start(line) \in Nat /\ Start(line + 1) = Start(line) + Columns
        BY <2>3, StartNext, CellsAre
      <3>2. c >= e
        BY <2>3, <2>5, <3>1, Dims
      <3>3. c = e \/ c >= b
        BY <2>6, <3>1, <3>2
      <3>4. c >= b => screen[c] = {}
        BY <1>7, <1>8 DEF BlankFrom
      <3> QED BY <2>9, <3>3, <3>4
    <2>12. Console(k)
      <3>1. <<>> \in Seq(Chars)
        OBVIOUS
      <3> QED BY <2>3, <2>4, <2>10, <2>11, <3>1 DEF Console
    <2>13. Console(Now)'
      BY <1>2, <2>12, Became
    <2>14. Cursor' = e
      BY <1>3, <2>4, <2>7 DEF Cursor
    <2>15. \A i \in Nat : i < e => k.screen[i] = screen[i]
      <3> SUFFICES ASSUME NEW i \in Nat, i < e PROVE k.screen[i] = screen[i]
        OBVIOUS
      <3>1. i \in Cells /\ i # e
        BY <2>8, CellsAre, LastLine
      <3> QED BY <2>9, <3>1
    <2>16. PICK pic, pic2 : pic = screen /\ pic2 = k.screen
      OBVIOUS
    <2>17. Shown(s, b, pic) /\ \A i \in Nat : i < e => pic2[i] = pic[i]
      BY <1>4, <1>8, <2>15, <2>16
    <2>18. Shown(SubSeq(s, 1, Len(s) - 1), e, pic2)
      BY <1>2, <1>4, <2>6, <2>17, ShownLess
    <2>19. Shown(s', Cursor', screen')
      BY <1>2, <1>3, <2>14, <2>16, <2>18
    <2>20. (io_console_xpixel <= Columns)'
      BY <1>3, <2>3, <2>4, Dims
    <2> QED BY <1>2, <1>4, <1>6, <2>13, <2>19, <2>20 DEF ConsoleInv
  <1> QED BY <1>9, <1>10

(* All actions of the console together.                                    *)
LEMMA ConsoleNext_Inv == ConsoleInv /\ [ConsoleNext]_consolevars => ConsoleInv'
  <1> SUFFICES ASSUME ConsoleInv, [ConsoleNext]_consolevars PROVE ConsoleInv'
    OBVIOUS
  <1>1. CASE puts
    BY <1>1, ConsoleInv_puts
  <1>2. CASE gets
    BY <1>2, ConsoleInv_gets
  <1>3. CASE gets_enter
    BY <1>3, ConsoleInv_gets_enter
  <1>4. CASE gets_backspace
    BY <1>4, ConsoleInv_gets_backspace
  <1>5. CASE gets_full
    BY <1>5, ConsoleInv_gets_full
  <1>6. CASE \E c \in Keyable : gets_character(c)
    BY <1>6, ConsoleInv_gets_character
  <1>7. CASE UNCHANGED consolevars
    BY <1>7 DEF consolevars, ConsoleInv, Console, Now, Cursor
  <1> QED BY <1>1, <1>2, <1>3, <1>4, <1>5, <1>6, <1>7 DEF ConsoleNext, Keyable

(* The invariant has the line on the screen and contains the types.        *)
LEMMA ConsoleInv_Shows == ConsoleInv => ScreenShowsLine
  <1> SUFFICES ASSUME ConsoleInv, typing PROVE ScreenShowsLine
    BY DEF ScreenShowsLine
  <1>1. Shown(s, Cursor, screen)
    BY DEF ConsoleInv
  <1>2. BlankFrom(screen, io_console_line, io_console_xpixel)
    BY Here DEF ConsoleInv, Console
  <1>3. Cursor = Start(io_console_line) + io_console_xpixel
    BY CursorIs DEF ConsoleInv
  <1>4. \A c \in Cells : c >= Cursor => screen[c] = {}
    BY <1>2, <1>3 DEF BlankFrom
  <1>5. \A n \in 1 .. Len(s) :
           LET c == Cursor + n - 1 IN
           c >= Len(s) => screen[c - Len(s)] = Glyph(s[n])
    <2> TAKE n \in 1 .. Len(s)
    <2>1. s \in Seq(Keyable) /\ Cursor \in Nat
      BY CursorIs DEF ConsoleInv
    <2>2. Cursor + n - 1 - Len(s) = (Cursor + n - 1) - Len(s)
      BY <2>1
    <2> QED BY <1>1, <2>2 DEF Shown
  <1> QED BY <1>4, <1>5, Zenon DEF ScreenShowsLine

LEMMA ConsoleInv_Type == ConsoleInv => ConsoleTypeOK
  <1> SUFFICES ASSUME ConsoleInv PROVE ConsoleTypeOK
    OBVIOUS
  <1>1. io_console_line \in 0 .. Lines - 1 /\ io_console_xpixel \in Nat /\ screen \in Screens
    BY Here DEF ConsoleInv, Console
  <1> QED BY <1>1 DEF ConsoleInv, ConsoleTypeOK, Screens, Marks

(* While a line is typed at the console, the display shows it before the   *)
(* cursor and nothing after, through every wrap, scroll and erasure: gets, *)
(* io_puts_color and io_console_erase_char (src/global/io.c).              *)
THEOREM LineOnScreen == ConsoleSpec => []ScreenShowsLine
  <1>1. ConsoleInit => ConsoleInv
    BY ConsoleInit_Inv
  <1>2. ConsoleInv /\ [ConsoleNext]_consolevars => ConsoleInv'
    BY ConsoleNext_Inv
  <1>3. ConsoleInv => ScreenShowsLine
    BY ConsoleInv_Shows
  <1> QED BY <1>1, <1>2, <1>3, PTL DEF ConsoleSpec
-----------------------------------------------------------------------------
(* All the drivers, one of which runs.  Where getchar is, for the types of *)
(* the keyboard driver.                                                    *)
Readers == {"idle", "tail", "read", "taken", "uart", "wfi"}
InputInv ==
    /\ KeysInv /\ RingInv /\ reader \in Readers
    /\ \A d \in Devices : Fetched(d)

(* getchar stays within its places.                                        *)
LEMMA NextReader == reader \in Readers /\ [InputNext]_inputvars => reader' \in Readers
  BY DEF Readers, InputNext, inputvars, reading, DeviceEvent, DeviceRaises, vhid_irq_handle, Woken,
         Handling, vhid_get_event, give_back, input_process_key, read_status, acknowledge, recheck,
         timer_tick, Reading, getchar, vhid_getchar, read_character, take_character, poll_uart

(* The input driver's parts together.                                      *)
LEMMA InitInput == InputInit => InputInv
  BY InitKeys, InitRing DEF InputInv, InputInit, Readers, Fetched

LEMMA NextInput == InputInv /\ [InputNext]_inputvars => InputInv'
  <1> SUFFICES ASSUME InputInv, [InputNext]_inputvars PROVE InputInv'
    OBVIOUS
  <1>1. \A d \in Devices : Fetched(d)'
    BY NextFetched DEF InputInv, KeysInv
  <1>2. Devices' = Devices
    BY DEF Devices
  <1> QED BY <1>1, <1>2, NextKeys, NextRing, NextReader DEF InputInv

(* The invariant contains the input driver's types.                        *)
LEMMA InputTyped == InputInv => InputTypeOK
  <1> SUFFICES ASSUME InputInv PROVE InputTypeOK
    OBVIOUS
  <1>1. \A d \in Devices : BuffersApart(d)
    BY DEF InputInv, KeysInv, Alone, BuffersApart
  <1>2. handler.pc \in Places
    BY DEF InputInv, KeysInv, Types, Handlers
  <1>3. (input_char_head + Wrap - input_char_tail) % Wrap <= CharQueueSize
    BY DEF InputInv, RingInv, RingTypes, Size
  <1> QED BY <1>1, <1>2, <1>3 DEF InputInv, InputTypeOK, Readers, Places

DevicesInv == DisplayInv /\ InputInv /\ ConsoleInv /\ TreeInv

(* The four drivers together: steps of one leave the others alone.         *)
LEMMA InitDevices == DevicesInit => DevicesInv
  BY InitDisplay, InitInput, ConsoleInit_Inv, InitTree DEF DevicesInit, DevicesInv

LEMMA NextDevices == DevicesInv /\ [DevicesNext]_devicesvars => DevicesInv'
  <1> SUFFICES ASSUME DevicesInv, [DevicesNext]_devicesvars PROVE DevicesInv'
    OBVIOUS
  <1>1. [DisplayNext]_displayvars
    BY DEF DevicesNext, devicesvars
  <1>2. [InputNext]_inputvars
    BY DEF DevicesNext, devicesvars
  <1>3. [ConsoleNext]_consolevars
    BY DEF DevicesNext, devicesvars
  <1>4. [TreeNext]_treevars
    BY DEF DevicesNext, devicesvars
  <1> QED BY <1>1, <1>2, <1>3, <1>4, NextDisplay, NextInput, ConsoleNext_Inv, NextTree DEF DevicesInv

(* The types of all the drivers' states: no buffer of an input device is   *)
(* in both queues or twice in one, the ring never holds more than it can,  *)
(* the device is never ahead of the driver, a command that is out is the   *)
(* newest; and the console's cursor is in a line of the display.           *)
THEOREM TypeCorrect == DevicesSpec => []DevicesTypeOK
  <1>1. DevicesInv => DevicesTypeOK
    BY DisplayTyped, InputTyped, ConsoleInv_Type, TreeTyped DEF DevicesInv, DevicesTypeOK
  <1> QED BY <1>1, InitDevices, NextDevices, PTL DEF DevicesSpec

(* What is proved of each driver holds of them together.                   *)
THEOREM EachDriver ==
    DevicesSpec =>
       /\ []OldPictureStays /\ []KeysAsTyped /\ []NoEventStranded
       /\ []ScreenShowsLine /\ []FoundAsListed
       /\ StaysInStep /\ ShowsAllDrawn /\ RingIsFifo
  <1>1. DevicesInv /\ [DevicesNext]_devicesvars =>
           /\ [phase = "check" /\ outcome' = "mismatch" => used_idx # avail_idx]_displayvars
           /\ [gpu_front_buffer' # gpu_front_buffer =>
                  scanout # None /\ host[scanout] = 1 .. drawings]_displayvars
           /\ [Abstract!Next]_<<Unread, got>>
    <2> SUFFICES ASSUME DevicesInv, [DevicesNext]_devicesvars
                 PROVE  /\ [phase = "check" /\ outcome' = "mismatch" => used_idx # avail_idx]_displayvars
                        /\ [gpu_front_buffer' # gpu_front_buffer =>
                               scanout # None /\ host[scanout] = 1 .. drawings]_displayvars
                        /\ [Abstract!Next]_<<Unread, got>>
      OBVIOUS
    <2>1. [DisplayNext]_displayvars /\ [InputNext]_inputvars
      BY DEF DevicesNext, devicesvars
    <2>2. DisplayInv /\ SetUpFirst /\ InStep /\ RingInv
      BY DEF DevicesInv, DisplayInv, InputInv
    <2> QED BY <2>1, <2>2, NoMismatch, SwapStep, NextRing
  <1>2. DevicesInv => /\ OldPictureStays /\ KeysAsTyped /\ NoEventStranded
                      /\ ScreenShowsLine /\ FoundAsListed
    <2> SUFFICES ASSUME DevicesInv
                 PROVE  /\ OldPictureStays /\ KeysAsTyped /\ NoEventStranded
                        /\ ScreenShowsLine /\ FoundAsListed
      OBVIOUS
    <2>1. NoEventStranded
      BY DEF DevicesInv, InputInv, KeysInv, Types, Fetched, NoEventStranded
    <2> QED BY <2>1, OldKept, KeysMeant, ConsoleInv_Shows DEF DevicesInv, InputInv, TreeInv
  <1>3. DevicesInit => Abstract!Init
    BY InitRing DEF DevicesInit
  <1> QED
    BY <1>1, <1>2, <1>3, InitDevices, NextDevices, PTL
       DEF DevicesSpec, StaysInStep, ShowsAllDrawn, RingIsFifo, Abstract!Spec
=============================================================================
