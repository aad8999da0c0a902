-------------------------------- MODULE Input -------------------------------
(***************************************************************************)
(* Keys on their way from the input devices to getchar: the event queues   *)
(* and the interrupt handler of src/tools/vhid.c, the ring of characters   *)
(* it fills, and getchar of src/global/io.c, which empties that ring.  The *)
(* devices run beside the kernel; an interrupt stops getchar wherever it   *)
(* is, and runs to its end.                                                *)
(***************************************************************************)
EXTENDS Naturals, Sequences

CONSTANTS InputCount,    \* g_virtio_input_count
          EventQueue,    \* the size of an event queue
          CharQueueSize, \* VIRTIO_INPUT_CHAR_QUEUE_SIZE
          Wrap,          \* where the indices of the ring wrap around: 2^32
          EventKinds,    \* the events of each device, of the kinds below
          MaxEvents      \* bound: events of all devices

Devices == 0 .. InputCount - 1

(* A key that makes a character pressed, or anything without an effect;    *)
(* either shift key down or up; caps lock pressed; and malformed entries.  *)
Kinds == {"press", "release", "left", "left up", "right", "right up", "caps", "truncated", "wild"}

ASSUME InputAssumption ==
    /\ InputCount \in Nat \ {0} /\ EventQueue \in Nat \ {0}
    /\ CharQueueSize \in Nat \ {0} /\ Wrap \in Nat
    /\ Wrap > CharQueueSize /\ Wrap % CharQueueSize = 0
    /\ EventKinds \in [Devices -> SUBSET Kinds]

VARIABLES
    masked,             \* getchar runs with interrupts masked, in a system call
    irqs,               \* the devices that have an interrupt
    ready,              \* the devices that vhid_init has set up
    avail, used,        \* per device: buffers offered to it; entries the driver has not seen
    event_buffers,      \* per device: what it wrote to its buffers
    late,               \* devices that have still to raise their interrupt
    interrupt_status,   \* per device: its interrupt register
    shift, caps_lock,   \* per device: the driver's view of the keys
    next_input_device,
    handler,            \* where the interrupt handler is, for which device, and the event
                        \* it has, from which device and buffer
    input_char_queue, input_char_head, input_char_tail, input_char_dropped,
    reader,             \* where getchar is
    character, got,     \* what it has read, and what vhid_getchar returned last
    events,             \* history: how many events there were
    held, locked, meant \* history: what each keyboard's keys are, and the characters it typed

queues == <<avail, used, event_buffers, late, events, held, locked, meant>>
keys == <<shift, caps_lock, next_input_device>>
chars == <<input_char_queue, input_char_head, input_char_tail, input_char_dropped>>
setup == <<masked, irqs, ready>>
reading == <<reader, character, got>>
inputvars == <<setup, queues, interrupt_status, keys, handler, chars, reading>>

Idle == [pc |-> "idle", i |-> 0, from |-> 0, id |-> 0, event |-> "none"]
Ids == 0 .. EventQueue - 1

(* vhid_init: a device without a queue, or of another version, is left     *)
(* out; the others are offered every buffer.  A device may have no         *)
(* interrupt.                                                              *)
InputInit ==
    /\ masked \in BOOLEAN
    /\ irqs \in SUBSET Devices
    /\ ready \in SUBSET Devices
    /\ avail = [d \in Devices |-> [i \in 1 .. EventQueue |-> i - 1]]
    /\ used = [d \in Devices |-> <<>>]
    /\ event_buffers = [d \in Devices |-> [i \in Ids |-> "none"]]
    /\ late = {}
    /\ interrupt_status = [d \in Devices |-> FALSE]
    /\ shift = [d \in Devices |-> {}] /\ caps_lock = [d \in Devices |-> FALSE]
    /\ next_input_device = 0
    /\ handler = Idle
    /\ input_char_queue = [i \in 0 .. CharQueueSize - 1 |-> 0]
    /\ input_char_head = 0 /\ input_char_tail = 0 /\ input_char_dropped = 0
    /\ reader = "idle" /\ character = 0 /\ got = 0
    /\ events = 0
    /\ held = [d \in Devices |-> {}] /\ locked = [d \in Devices |-> FALSE]
    /\ meant = [d \in Devices |-> <<>>]

(* input_key_to_character: a letter, capital if one of shift and caps lock *)
(* is on.                                                                  *)
input_key_to_character(shifted, caps) == IF shifted # caps THEN 2 ELSE 1

(* The shift keys that are down after an event, of those that were.        *)
Shifts(down, event) ==
    CASE event \in {"left", "right"} -> down \cup {event}
      [] event = "left up" -> down \ {"left"}
      [] event = "right up" -> down \ {"right"}
      [] OTHER -> down

Character(down, caps) == input_key_to_character(down # {}, caps)
-----------------------------------------------------------------------------
(* A device writes an event to the next buffer offered and adds the entry; *)
(* it raises its interrupt a little later.  A "wild" entry names no        *)
(* buffer, and a "truncated" one is too short.                             *)
DeviceEvent(d) ==
    /\ d \in ready /\ events < MaxEvents
    /\ events' = events + 1
    /\ late' = late \cup {d}
    /\ \E kind \in EventKinds[d] :
          /\ IF kind = "wild"
             THEN /\ used' = [used EXCEPT ![d] = Append(@, EventQueue)]
                  /\ UNCHANGED <<avail, event_buffers>>
             ELSE /\ avail[d] # <<>>
                  /\ used' = [used EXCEPT ![d] = Append(@, Head(avail[d]))]
                  /\ avail' = [avail EXCEPT ![d] = Tail(@)]
                  /\ event_buffers' = [event_buffers EXCEPT ![d][Head(avail[d])] = kind]
          /\ held' = [held EXCEPT ![d] = Shifts(@, kind)]
          /\ locked' = [locked EXCEPT ![d] = @ # (kind = "caps")]
          /\ meant' = IF kind = "press"
                      THEN [meant EXCEPT ![d] =
                              Append(@, Character(held[d], locked[d]))]
                      ELSE meant
    /\ UNCHANGED <<setup, interrupt_status, keys, handler, chars, reading>>

DeviceRaises(d) ==
    /\ d \in late
    /\ late' = late \ {d}
    /\ interrupt_status' = [interrupt_status EXCEPT ![d] = TRUE]
    /\ UNCHANGED <<setup, avail, used, event_buffers, events, held, locked, meant, keys, handler,
                   chars, reading>>
-----------------------------------------------------------------------------
(* Interrupts are taken at EL0 and in the shell, not in a system call.     *)
Unmasked == handler.pc = "idle" /\ (masked => reader = "idle")

(* Mutant of Woken: asks only the UART after a wait.                       *)
Woken_UartOnly == IF reader = "wfi" THEN "uart" ELSE reader

(* An interrupt ends a wait for interrupts.                                *)
Woken == IF reader = "wfi" THEN "tail" ELSE reader

(* vhid_irq_handle starts for the device whose interrupt it is.            *)
vhid_irq_handle(d) ==
    /\ Unmasked
    /\ d \in irqs \cap ready /\ interrupt_status[d]
    /\ handler' = [Idle EXCEPT !.pc = "get", !.i = d]
    /\ reader' = Woken
    /\ UNCHANGED <<setup, queues, interrupt_status, keys, chars, character, got>>

(* The next device with an entry, from the one after the last served on.   *)
After(d) == (d + 1) % InputCount
Offset(d) == (d + InputCount - next_input_device) % InputCount
Waiting(d) == d \in ready /\ used[d] # <<>>

(* vhid_get_event up to the copy of the event.  An entry that names no     *)
(* buffer is passed over and ends the loop, as does the last one.          *)
vhid_get_event ==
    /\ handler.pc = "get"
    /\ \/ /\ \A d \in Devices : ~Waiting(d)
          /\ handler' = [handler EXCEPT !.pc = "status"]
          /\ UNCHANGED <<used, next_input_device>>
       \/ \E d \in Devices :
             /\ Waiting(d)
             /\ \A e \in Devices : Waiting(e) => Offset(d) <= Offset(e)
             /\ used' = [used EXCEPT ![d] = Tail(@)]
             /\ \/ /\ Head(used[d]) \notin Ids
                   /\ next_input_device' = After(d)
                   /\ handler' = [handler EXCEPT !.pc = "status"]
                \/ /\ Head(used[d]) \in Ids
                   /\ handler' = [handler EXCEPT !.pc = "give", !.from = d, !.id = Head(used[d]),
                                     !.event = event_buffers[d][Head(used[d])]]
                   /\ UNCHANGED next_input_device
    /\ UNCHANGED <<setup, avail, event_buffers, late, events, held, locked, meant,
                   interrupt_status, shift, caps_lock, chars, reading>>

(* Its buffer is offered again, and the next search starts after its       *)
(* device.  An event that is too short ends the loop.                      *)
give_back ==
    /\ handler.pc = "give"
    /\ avail' = [avail EXCEPT ![handler.from] = Append(@, handler.id)]
    /\ next_input_device' = After(handler.from)
    /\ handler' = [handler EXCEPT !.pc = IF handler.event = "truncated" THEN "status" ELSE "key"]
    /\ UNCHANGED <<setup, used, event_buffers, late, events, held, locked, meant,
                   interrupt_status, shift, caps_lock, chars, reading>>

(* Mutant of Event: read from the buffer, which is the device's again.     *)
Event_Reread == event_buffers[handler.from][handler.id]

(* The event that vhid_get_event copied.                                   *)
Event == handler.event

(* Mutant of Full: lets the writer catch up with the reader.               *)
Full_OffByOne == (input_char_head + Wrap - input_char_tail) % Wrap > CharQueueSize

Full == (input_char_head + Wrap - input_char_tail) % Wrap >= CharQueueSize

input_queue_character(c) ==
    \/ /\ Full
       /\ input_char_dropped' = input_char_dropped + 1
       /\ UNCHANGED <<input_char_queue, input_char_head>>
    \/ /\ ~Full
       /\ input_char_queue' = [input_char_queue EXCEPT ![input_char_head % CharQueueSize] = c]
       /\ input_char_head' = (input_char_head + 1) % Wrap
       /\ UNCHANGED input_char_dropped

(* input_process_key: modifiers change the driver's view, presses become   *)
(* characters, releases nothing.                                           *)
input_process_key ==
    /\ handler.pc = "key"
    /\ LET d == handler.from IN
       /\ shift' = [shift EXCEPT ![d] = Shifts(@, Event)]
       /\ caps_lock' = [caps_lock EXCEPT ![d] = @ # (Event = "caps")]
       /\ IF Event = "press"
          THEN /\ input_queue_character(Character(shift[d], caps_lock[d]))
               /\ meant' = [meant EXCEPT ![d] = Tail(@)]
          ELSE UNCHANGED <<input_char_queue, input_char_head, input_char_dropped, meant>>
    /\ handler' = [handler EXCEPT !.pc = "get"]
    /\ UNCHANGED <<setup, avail, used, event_buffers, late, events, held, locked,
                   interrupt_status, next_input_device, input_char_tail, reading>>

(* What interrupts there were is read first and acknowledged then; one     *)
(* raised in between is acknowledged with them.                            *)
read_status ==
    /\ handler.pc = "status"
    /\ handler' = [handler EXCEPT
                      !.pc = IF interrupt_status[handler.i] THEN "acknowledge" ELSE "recheck"]
    /\ UNCHANGED <<setup, queues, interrupt_status, keys, chars, reading>>

acknowledge ==
    /\ handler.pc = "acknowledge"
    /\ interrupt_status' = [interrupt_status EXCEPT ![handler.i] = FALSE]
    /\ handler' = [handler EXCEPT !.pc = "recheck"]
    /\ UNCHANGED <<setup, queues, keys, chars, reading>>

(* Mutant of recheck: returns without looking again.                       *)
recheck_Never ==
    /\ handler.pc = "recheck"
    /\ handler' = Idle
    /\ UNCHANGED <<setup, queues, interrupt_status, keys, chars, reading>>

(* Only the queue of the device whose interrupt it is.                     *)
recheck ==
    /\ handler.pc = "recheck"
    /\ handler' = IF used[handler.i] # <<>> THEN [handler EXCEPT !.pc = "get"] ELSE Idle
    /\ UNCHANGED <<setup, queues, interrupt_status, keys, chars, reading>>

(* The timer's interrupt, which ends a wait for interrupts too.            *)
timer_tick ==
    /\ Unmasked /\ reader = "wfi"
    /\ reader' = Woken
    /\ UNCHANGED <<setup, queues, interrupt_status, keys, handler, chars, character, got>>
-----------------------------------------------------------------------------
(* getchar is called; vhid_getchar compares the indices.                   *)
getchar ==
    /\ handler.pc = "idle" /\ reader = "idle"
    /\ reader' = "tail"
    /\ UNCHANGED <<setup, queues, interrupt_status, keys, handler, chars, character, got>>

vhid_getchar ==
    /\ handler.pc = "idle" /\ reader = "tail"
    /\ IF input_char_tail = input_char_head
       THEN reader' = "uart" /\ got' = 0
       ELSE reader' = "read" /\ got' = got
    /\ UNCHANGED <<setup, queues, interrupt_status, keys, handler, chars, character>>

(* The character is read before its place is given back.                   *)
read_character ==
    /\ handler.pc = "idle" /\ reader = "read"
    /\ character' = input_char_queue[input_char_tail % CharQueueSize]
    /\ reader' = "taken"
    /\ UNCHANGED <<setup, queues, interrupt_status, keys, handler, chars, got>>

take_character ==
    /\ handler.pc = "idle" /\ reader = "taken"
    /\ input_char_tail' = (input_char_tail + 1) % Wrap
    /\ got' = character
    /\ character' = 0
    /\ reader' = "idle"
    /\ UNCHANGED <<setup, queues, interrupt_status, keys, handler, input_char_queue,
                   input_char_head, input_char_dropped>>

(* Without a key the UART is asked.  If it has nothing either, getchar     *)
(* begins again, at once with interrupts masked, otherwise after the next. *)
poll_uart ==
    /\ handler.pc = "idle" /\ reader = "uart"
    /\ reader' \in {"idle", IF masked THEN "tail" ELSE "wfi"}
    /\ UNCHANGED <<setup, queues, interrupt_status, keys, handler, chars, character, got>>

Handling ==
    vhid_get_event \/ give_back \/ input_process_key \/ read_status \/ acknowledge \/ recheck
Reading == getchar \/ vhid_getchar \/ read_character \/ take_character \/ poll_uart

InputNext ==
    \/ \E d \in Devices : DeviceEvent(d) \/ DeviceRaises(d) \/ vhid_irq_handle(d)
    \/ Handling \/ timer_tick \/ Reading

(* The kernel and the devices go on; interrupts that stay asserted are     *)
(* taken in the end, and the timer's comes again and again.                *)
InputFairness ==
    /\ WF_inputvars(Handling) /\ WF_inputvars(Reading) /\ SF_inputvars(timer_tick)
    /\ \A d \in Devices : WF_inputvars(DeviceRaises(d)) /\ SF_inputvars(vhid_irq_handle(d))

InputSpec == InputInit /\ [][InputNext]_inputvars /\ InputFairness
-----------------------------------------------------------------------------
(* The events the driver has still to process, oldest first.               *)
Pending(d) ==
    (IF handler.pc \in {"give", "key"} /\ handler.from = d THEN <<Event>> ELSE <<>>) \o
    [n \in 1 .. Len(used[d]) |->
        IF used[d][n] \in Ids THEN event_buffers[d][used[d][n]] ELSE "wild"]

(* What an event makes of the keys, as the driver sees them, and of the    *)
(* text; and what the first n of some events do, for every n.              *)
Keyed(k, e) ==
    [shift |-> Shifts(k.shift, e), caps |-> k.caps # (e = "caps"),
     text |-> IF e = "press" THEN Append(k.text, Character(k.shift, k.caps))
              ELSE k.text]

KeyedBy(list, k) ==
    LET after[n \in 0 .. Len(list)] == IF n = 0 THEN k ELSE Keyed(after[n - 1], list[n])
    IN  after

(* The characters the driver will make of them.                            *)
Typed(d) ==
    KeyedBy(Pending(d), [shift |-> shift[d], caps |-> caps_lock[d], text |-> <<>>])
       [Len(Pending(d))].text

(* No buffer is in a queue twice, or in both.                              *)
BuffersApart(d) ==
    /\ \A m, n \in DOMAIN avail[d] : m # n => avail[d][m] # avail[d][n]
    /\ \A m, n \in DOMAIN used[d] : m # n /\ used[d][m] \in Ids => used[d][m] # used[d][n]
    /\ \A m \in DOMAIN avail[d], n \in DOMAIN used[d] : avail[d][m] # used[d][n]

InputTypeOK ==
    /\ \A d \in Devices : BuffersApart(d)
    /\ handler.pc \in {"idle", "get", "give", "key", "status", "acknowledge", "recheck"}
    /\ reader \in {"idle", "tail", "read", "taken", "uart", "wfi"}
    /\ (input_char_head + Wrap - input_char_tail) % Wrap <= CharQueueSize

(* Whatever the devices write while the handler runs, it makes of their    *)
(* events the characters that were typed on each: no event is taken twice, *)
(* none is replaced by a later one in its buffer, none skipped but the     *)
(* malformed, and modifiers apply to the keys that follow them.            *)
KeysAsTyped == \A d \in Devices : Typed(d) = meant[d]

(* An event is never left where nothing will fetch it: the device is going *)
(* to interrupt, does so, or the handler will look at this queue again.    *)
NoEventStranded ==
    \A d \in irqs \cap ready :
       used[d] # <<>> =>
          \/ d \in late
          \/ interrupt_status[d]
          \/ handler.pc # "idle" /\ handler.i = d

Size == (input_char_head + Wrap - input_char_tail) % Wrap

(* The characters in the ring, oldest first.                               *)
Unread == [n \in 1 .. Size |-> input_char_queue[(input_char_tail + n - 1) % CharQueueSize]]

Abstract == INSTANCE Fifo WITH
    Size <- CharQueueSize, Data <- {1, 2}, got <- got, items <- Unread

(* Between an interrupt that writes it and a getchar that reads it, at any *)
(* step, the ring is a bounded queue, also when its indices wrap around.   *)
RingIsFifo == Abstract!Spec

(* With interrupts on, every key of a device with an interrupt is read in  *)
(* the end, also one that comes between the test of the ring and wfi.      *)
KeysGetRead ==
    masked \/ <>[](Size = 0 /\ \A d \in irqs \cap ready : used[d] = <<>>)
=============================================================================
