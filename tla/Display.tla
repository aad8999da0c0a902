------------------------------ MODULE Display -------------------------------
(***************************************************************************)
(* The display driver, src/tools/vgpu.c, with the drawing operations of    *)
(* src/manage/gm.c and src/tools/font.c that end in a flush.  Commands go  *)
(* to the device over a ring of descriptor pairs and a few command slots;  *)
(* the driver polls for the answer and gives up after a while, so that the *)
(* device may execute a command long after.  A picture is the set of the   *)
(* drawings in it.                                                         *)
(***************************************************************************)
EXTENDS Integers, Sequences

CONSTANTS VIRTIO_QUEUE_SIZE,
          QueueMaxima,  \* what a device may give as the greatest size of its queue
          CommandSlots, \* GPU_CMD_SLOT_COUNT
          MaxCommands,  \* bound: commands submitted
          MaxDrawings,  \* bound: drawings
          MaxTimeouts   \* bound: commands given up

ASSUME DisplayAssumption ==
    /\ VIRTIO_QUEUE_SIZE \in Nat \ {0} /\ QueueMaxima \subseteq Nat
    /\ CommandSlots \in Nat \ {0}

VARIABLES
    gpu_queue_size,                     \* 0 until the queue is set up
    gpu_front_buffer, gpu_back_buffer,  \* 0 or 1
    gpu_framebuffer,                    \* the buffer that is drawn into
    storage,                            \* the pictures in the two buffers
    todo,                               \* commands the operation has still to submit
    phase,                              \* of a command: submit, poll for its end, check the answer
    awaited,                            \* the index of the command submitted last
    avail_idx, gpu_used_idx,            \* free-running indices of the driver
    cmd_slot, desc_slot,                \* what slots hold; the slot of each head
    used_ring, used_idx,                \* written by the device
    resp_slot,                          \* its answers
    host,                               \* its resource: the pictures of the two halves
    resource,                           \* how far the resource is: none, created, attached
    scanout,                            \* the half it shows, or None
    gpu_interrupt,                      \* its interrupt register
    drawings,                           \* history: how many drawings were made
    shown,                              \* history: the last picture flushed with success
    timeouts,                           \* history: how many commands were given up
    outcome                             \* history: how the last command ended

displayvars ==
    <<gpu_queue_size, gpu_front_buffer, gpu_back_buffer, gpu_framebuffer, storage, todo,
      phase, awaited, avail_idx, gpu_used_idx, cmd_slot, desc_slot, used_ring, used_idx, resp_slot,
      host, resource, scanout, gpu_interrupt, drawings, shown, timeouts, outcome>>

device == <<used_ring, used_idx, host, resource, scanout>>
buffers == <<gpu_front_buffer, gpu_back_buffer, gpu_framebuffer, storage>>
ring == <<avail_idx, cmd_slot, desc_slot>>

None == 2   \* neither buffer
Pairs == gpu_queue_size \div 2

(* vq_setup_v1 halves its own size until it is no more than the device's   *)
(* maximum: the sizes that can come of this, with 0 for no queue.          *)
Halves == {n \in 0 .. VIRTIO_QUEUE_SIZE :
              \E k \in 0 .. VIRTIO_QUEUE_SIZE : n = VIRTIO_QUEUE_SIZE \div (2 ^ k)}
vq_setup_v1 ==
    {n \in Halves : \E max \in QueueMaxima :
                       n <= max /\ \A m \in Halves : m <= max => m <= n}

(* The head of the descriptor pair, and the slot, of the command with      *)
(* index i.                                                                *)
HeadOf(i) == ((i % gpu_queue_size) % Pairs) * 2
SlotOf(i) == (i % gpu_queue_size) % CommandSlots

Command(type, buffer) == [type |-> type, buffer |-> buffer]

(* The functions that each submit one command.                             *)
gpu_get_display_info == Command("info", None)
gpu_create_resource == Command("create", None)
gpu_attach_backing == Command("attach", None)
gpu_transfer_to_host_2d(buffer) == Command("transfer", buffer)
gpu_set_scanout(buffer) == Command("scanout", buffer)

(* gpu_init after its first answer, and gpu_resource_flush: the commands   *)
(* each submits unless an earlier one fails.                               *)
gpu_init_commands == <<gpu_create_resource, gpu_attach_backing, gpu_set_scanout(0)>>
gpu_flush_commands(back) ==
    <<gpu_transfer_to_host_2d(back), Command("flush", back), gpu_set_scanout(back)>>

DisplayInit ==
    /\ gpu_queue_size = 0
    /\ gpu_front_buffer = 0 /\ gpu_back_buffer = 1 /\ gpu_framebuffer = 0
    /\ storage = [b \in {0, 1} |-> {}]
    /\ todo = <<Command("init", None)>>
    /\ phase = "submit" /\ awaited = 0
    /\ avail_idx = 0 /\ gpu_used_idx = 0
    /\ cmd_slot = [s \in 0 .. CommandSlots - 1 |-> Command("none", None)]
    /\ desc_slot = [h \in 0 .. VIRTIO_QUEUE_SIZE - 1 |-> 0]
    /\ used_ring = [i \in 0 .. VIRTIO_QUEUE_SIZE - 1 |-> 0] /\ used_idx = 0
    /\ resp_slot = [s \in 0 .. CommandSlots - 1 |-> "none"]
    /\ host = [b \in {0, 1} |-> {}]
    /\ resource = "none"
    /\ scanout = None
    /\ gpu_interrupt = FALSE
    /\ drawings = 0 /\ shown = {} /\ timeouts = 0 /\ outcome = "none"

-----------------------------------------------------------------------------
(* The start of gpu_init: the device may be missing or of the wrong        *)
(* version, or its queue too small; otherwise the driver asks for the      *)
(* size of the display.                                                    *)
gpu_init ==
    /\ phase = "submit" /\ todo # <<>> /\ Head(todo).type = "init"
    /\ \/ /\ todo' = <<>>
          /\ UNCHANGED gpu_queue_size
       \/ \E size \in vq_setup_v1 :
             IF size < 2
             THEN todo' = <<>> /\ UNCHANGED gpu_queue_size
             ELSE todo' = <<gpu_get_display_info>> /\ gpu_queue_size' = size
    /\ UNCHANGED <<buffers, ring, device, phase, awaited, gpu_used_idx, resp_slot,
                   gpu_interrupt, drawings, shown, timeouts, outcome>>

(* gpu_submit_control up to the notification: refused without a queue;     *)
(* otherwise the command is copied to its slot, the answer cleared, the    *)
(* descriptors set and the ring index moved on.                            *)
gpu_submit_control ==
    /\ phase = "submit" /\ todo # <<>> /\ Head(todo).type # "init"
    /\ \/ /\ gpu_queue_size < 2
          /\ todo' = <<>>
          /\ outcome' = "refused"
          /\ UNCHANGED <<phase, awaited, ring, resp_slot>>
       \/ /\ gpu_queue_size >= 2
          /\ avail_idx < MaxCommands
          /\ LET s == SlotOf(avail_idx) IN
                /\ cmd_slot' = [cmd_slot EXCEPT ![s] = Head(todo)]
                /\ resp_slot' = [resp_slot EXCEPT ![s] = "none"]
                /\ desc_slot' = [desc_slot EXCEPT ![HeadOf(avail_idx)] = s]
          /\ phase' = "poll" /\ awaited' = avail_idx
          /\ avail_idx' = avail_idx + 1
          /\ outcome' = "none"
          /\ UNCHANGED todo
    /\ UNCHANGED <<gpu_queue_size, buffers, gpu_used_idx, device, gpu_interrupt, drawings,
                   shown, timeouts>>

(* The device executes the command of the next entry of the ring: what is  *)
(* in its slot by then.  It refuses commands on a resource that is not     *)
(* there, and may refuse any.  Whether it interrupts is up to it.          *)
Execute(c, answer) ==
    /\ c.type \in {"transfer", "flush", "scanout"} /\ resource # "attached" => answer = "error"
    /\ c.type = "attach" /\ resource = "none" => answer = "error"
    /\ host' = IF c.type = "transfer" /\ answer = "ok"
               THEN [host EXCEPT ![c.buffer] = storage[c.buffer]] ELSE host
    /\ scanout' = IF c.type = "scanout" /\ answer = "ok" THEN c.buffer ELSE scanout
    /\ resource' = IF answer # "ok" THEN resource
                   ELSE CASE c.type = "create" /\ resource = "none" -> "created"
                          [] c.type = "attach" -> "attached"
                          [] OTHER -> resource

DeviceExecutes ==
    /\ used_idx < avail_idx
    /\ LET h == HeadOf(used_idx)
           s == desc_slot[h] IN
       \E answer \in {"ok", "error"} :
          /\ Execute(cmd_slot[s], answer)
          /\ resp_slot' = [resp_slot EXCEPT ![s] = answer]
          /\ used_ring' = [used_ring EXCEPT ![used_idx % gpu_queue_size] = h]
    /\ used_idx' = used_idx + 1
    /\ gpu_interrupt' \in {gpu_interrupt, TRUE}
    /\ UNCHANGED <<gpu_queue_size, buffers, todo, phase, awaited, gpu_used_idx, ring, drawings,
                   shown, timeouts, outcome>>

(* gpu_wait_used gives up after so many polls.                             *)
gpu_wait_used_timeout ==
    /\ phase = "poll"
    /\ used_idx = gpu_used_idx
    /\ timeouts < MaxTimeouts
    /\ timeouts' = timeouts + 1
    /\ todo' = <<>>
    /\ phase' = "submit"
    /\ outcome' = "timeout"
    /\ UNCHANGED <<gpu_queue_size, buffers, awaited, gpu_used_idx, ring, device, resp_slot,
                   gpu_interrupt, drawings, shown>>
-----------------------------------------------------------------------------
(* Mutant of LastUsed: the entry the device writes next.                   *)
LastUsed_OffByOne == used_ring[used_idx % gpu_queue_size]

(* The newest used entry, the only one that is looked at.                  *)
LastUsed == used_ring[(used_idx - 1) % gpu_queue_size]

(* Mutant of Copied: the new back buffer keeps its older picture.          *)
Copied_Not(front) == storage

(* The swap's last step: the new back buffer gets the new front's picture, *)
(* so that drawing goes on where it was.                                   *)
Copied(front) == [storage EXCEPT ![1 - front] = storage[front]]

(* What follows from the answer to a command: the scan-out of the back     *)
(* buffer is the last step of a flush.  After the size is known the        *)
(* buffers are cleared, and drawing goes to the back one.  A size that     *)
(* does not fit ends the initialisation.                                   *)
Swaps(c) == c.type = "scanout" /\ c.buffer = gpu_back_buffer

Continue(c) ==
    \/ /\ c.type = "info"
       /\ \/ /\ todo' = <<>>
             /\ UNCHANGED buffers
          \/ /\ todo' = gpu_init_commands
             /\ storage' = [b \in {0, 1} |-> {}]
             /\ gpu_front_buffer' = 0 /\ gpu_back_buffer' = 1 /\ gpu_framebuffer' = 1
       /\ UNCHANGED shown
    \/ /\ Swaps(c)
       /\ todo' = <<>>
       /\ gpu_front_buffer' = gpu_back_buffer
       /\ gpu_back_buffer' = 1 - gpu_back_buffer
       /\ gpu_framebuffer' = 1 - gpu_back_buffer
       /\ storage' = Copied(gpu_back_buffer)
       /\ shown' = storage[gpu_back_buffer]
    \/ /\ c.type # "info" /\ ~Swaps(c)
       /\ todo' = Tail(todo)
       /\ UNCHANGED <<buffers, shown>>

(* Mutant of Failed: a flush that fails swaps the buffers all the same.    *)
Failed_Swaps(how) ==
    /\ todo' = <<>>
    /\ outcome' = how
    /\ gpu_front_buffer' = gpu_back_buffer
    /\ gpu_back_buffer' = 1 - gpu_back_buffer
    /\ gpu_framebuffer' = 1 - gpu_back_buffer
    /\ storage' = Copied(gpu_back_buffer)
    /\ UNCHANGED shown

(* Every error gives up the rest of the operation and nothing else.        *)
Failed(how) ==
    /\ todo' = <<>>
    /\ outcome' = how
    /\ UNCHANGED <<buffers, shown>>

(* gpu_wait_used sees that something was used, acknowledges the interrupt  *)
(* and counts all that was used by then as seen.                           *)
gpu_wait_used ==
    /\ phase = "poll"
    /\ used_idx # gpu_used_idx
    /\ gpu_used_idx' = used_idx
    /\ gpu_interrupt' = FALSE
    /\ phase' = "check"
    /\ UNCHANGED <<gpu_queue_size, buffers, todo, awaited, ring, device, resp_slot, drawings,
                   shown, timeouts, outcome>>

(* gpu_submit_control compares the newest entry, which may be newer still, *)
(* and its caller looks at the answer.                                     *)
gpu_check_used ==
    /\ phase = "check"
    /\ phase' = "submit"
    /\ \/ LastUsed # HeadOf(awaited) /\ Failed("mismatch")
       \/ LastUsed = HeadOf(awaited) /\ resp_slot[SlotOf(awaited)] # "ok" /\ Failed("error")
       \/ /\ LastUsed = HeadOf(awaited) /\ resp_slot[SlotOf(awaited)] = "ok"
          /\ Continue(Head(todo))
          /\ outcome' = "ok"
    /\ UNCHANGED <<gpu_queue_size, awaited, gpu_used_idx, ring, device, resp_slot,
                   gpu_interrupt, drawings, timeouts>>

(* The device's interrupt, at any time: all it does is acknowledge.        *)
virtio_gpu_irq_handle ==
    /\ gpu_interrupt
    /\ gpu_interrupt' = FALSE
    /\ UNCHANGED <<gpu_queue_size, buffers, todo, phase, awaited, gpu_used_idx, ring, device,
                   resp_slot, drawings, shown, timeouts, outcome>>
-----------------------------------------------------------------------------
(* A drawing operation changes the buffer that is drawn into and flushes.  *)
(* gm_rect clips its rectangle, and a scroll flushes whole lines;          *)
(* ltrs_color clips the pixels and not the rectangle it flushes, so that   *)
(* gpu_resource_flush may refuse that.                                     *)
Draw(fits) ==
    /\ todo = <<>>
    /\ drawings < MaxDrawings
    /\ drawings' = drawings + 1
    /\ storage' = [storage EXCEPT ![gpu_framebuffer] = @ \cup {drawings + 1}]
    /\ todo' = IF fits THEN gpu_flush_commands(gpu_back_buffer) ELSE <<>>
    /\ outcome' = IF fits THEN "none" ELSE "refused"
    /\ UNCHANGED <<gpu_queue_size, gpu_front_buffer, gpu_back_buffer, gpu_framebuffer, phase,
                   awaited, gpu_used_idx, ring, device, resp_slot, gpu_interrupt, shown, timeouts>>

gm_rect == Draw(TRUE)
ltrs_color == \E fits \in BOOLEAN : Draw(fits)

DisplayNext ==
    \/ gpu_init \/ gpu_submit_control \/ gpu_wait_used \/ gpu_wait_used_timeout
    \/ gpu_check_used \/ DeviceExecutes \/ virtio_gpu_irq_handle
    \/ gm_rect \/ ltrs_color

DisplaySpec == DisplayInit /\ [][DisplayNext]_displayvars
-----------------------------------------------------------------------------
Pictures == SUBSET (1 .. drawings)

DisplayTypeOK ==
    /\ gpu_queue_size \in {0} \cup vq_setup_v1
    /\ {gpu_front_buffer, gpu_back_buffer} = {0, 1} /\ gpu_framebuffer \in {0, 1}
    /\ storage \in [{0, 1} -> Pictures] /\ host \in [{0, 1} -> Pictures]
    /\ gpu_used_idx <= used_idx /\ used_idx <= avail_idx
    /\ phase # "submit" => todo # <<>> /\ awaited = avail_idx - 1
    /\ scanout \in {0, 1, None}
    /\ shown \in Pictures

(* A time-out does not put the driver out of step for good: once the       *)
(* device has caught up, the next command that is answered is taken as     *)
(* answered, however many were given up before.                            *)
StaysInStep ==
    [][phase = "check" /\ outcome' = "mismatch" => used_idx # avail_idx]_displayvars

(* When gpu_resource_flush succeeds the screen has everything drawn so     *)
(* far, also what was drawn while flushes failed or timed out; and however *)
(* many late commands share slots and descriptors with the newer ones.     *)
ShowsAllDrawn ==
    [][gpu_front_buffer' # gpu_front_buffer =>
          scanout # None /\ host[scanout] = 1 .. drawings]_displayvars

(* Double buffering: as long as no command was given up, whatever fails,   *)
(* the screen shows the last picture flushed with success, or, from the    *)
(* moment the device switches, the picture being flushed; never one that   *)
(* is half transferred.                                                    *)
OldPictureStays ==
    timeouts = 0 /\ scanout # None =>
       \/ host[scanout] = shown /\ scanout = gpu_front_buffer
       \/ /\ todo # <<>> /\ Head(todo) = gpu_set_scanout(scanout)
          /\ host[scanout] = storage[scanout]
=============================================================================
