----------------------------- MODULE Scheduler ------------------------------
(***************************************************************************)
(* The run queues and the timer tick of src/manage/expm.c, global/meta.c   *)
(* and handler/irq.c, with the message passing of ptp, which moves         *)
(* processes between the queues.                                           *)
(*                                                                         *)
(* Processes are created only by kernel_main, which B_MAIN_FLAG selects at *)
(* compile time.  A system call runs with interrupts masked, so each is    *)
(* one step, except that reading the console spins in getchar.             *)
(***************************************************************************)
EXTENDS Queues, FiniteSets

CONSTANTS Boots,     \* the values of B_MAIN_FLAG
          Messages,  \* what processes send
          TooLong,   \* those of them with len > 64
          SelfSend   \* whether processes send to themselves too

ASSUME SchedulerAssumption ==
    /\ Boots \subseteq 1 .. 6
    /\ TooLong \subseteq Messages
    /\ SelfSend \in BOOLEAN

VARIABLES boot,          \* B_MAIN_FLAG
          low, high,     \* lowqueue and highqueue
          current_proc,  \* the id of the process that runs
          msgs,          \* id -> its message box
          received,      \* id -> what its last ipc_rece_call copied
          registered,    \* ids whose setup_call gave proto_arr an address
          notified,      \* ids at whose registered address a 3 was written
          reading,       \* current_proc spins in getchar inside read_call
          halted,        \* full_stop was reached
          sent,          \* history: <<who, towho, msg>> of every send
          woken          \* history: whom ptp woke since the last tick, or 0

mail == <<msgs, received, registered, notified, sent>>
vars == <<boot, low, high, current_proc, mail, reading, halted, woken>>

ROOT_PROC_SECT == 1
PMV1_MAX_PROC == 255
None == "none"

(* The processes kernel_main creates, and which of its branches run them   *)
(* from an ELF image, at EL0, from where system calls are made.            *)
Created == IF boot \in {1, 5} THEN {1, 2} ELSE {1}
AtEL0 == boot \in 2 .. 5

EmptyBox == [is_msgbox |-> FALSE, from |-> 0, msgbox |-> None]

(* kernel_main: who runs and who is put in the low queue at boot.          *)
kernel_main ==
    \/ boot = 1 /\ current_proc = 1 /\ low = <<2>>
    \/ boot \in 2 .. 4 /\ current_proc = 1 /\ low = <<1>>
    \/ boot = 5 /\ current_proc = 2 /\ low = <<1>>
    \/ boot = 6 /\ current_proc = 1 /\ low = <<>>

Init ==
    /\ boot \in Boots
    /\ kernel_main
    /\ high = <<>>
    /\ msgs = [p \in Created |-> EmptyBox]
    /\ received = [p \in Created |-> None]
    /\ registered = {}
    /\ notified = {}
    /\ reading = FALSE
    /\ halted = FALSE
    /\ sent = {}
    /\ woken = 0
-----------------------------------------------------------------------------
(* The pcb of an id off a queue.                                           *)
Chosen(data) == IF data = 0 \/ data >= PMV1_MAX_PROC THEN ROOT_PROC_SECT ELSE data

FromHigh == [next |-> Chosen(Answer(high)), low |-> low, high |-> Popped(high)]
FromLow == [next |-> Chosen(Answer(low)), low |-> Popped(low), high |-> high]

(* pm_run: the process it returns, and the queues it leaves.               *)
pm_run ==
    IF high # <<>> THEN FromHigh
    ELSE IF low # <<>> THEN FromLow
    ELSE [next |-> ROOT_PROC_SECT, low |-> low, high |-> high]

Running == ~halted /\ ~reading

(* Mutants of schedule_proc: the process that ran is not queued again, or  *)
(* is preferred to those that wait.                                        *)
schedule_proc_NoAwake ==
    /\ current_proc' = pm_run.next
    /\ low' = pm_run.low
    /\ high' = pm_run.high

schedule_proc_KeepsCurrent ==
    UNCHANGED <<current_proc, low, high>>

(* No process is ever in state PROC_SIGNAL, so schedule_proc takes the     *)
(* second of its branches.                                                 *)
schedule_proc ==
    /\ current_proc' = pm_run.next
    /\ low' = Pushed(pm_run.low, current_proc)
    /\ high' = pm_run.high

(* The timer interrupt.                                                    *)
Tick ==
    /\ Running
    /\ schedule_proc
    /\ woken' = 0
    /\ UNCHANGED <<boot, mail, reading, halted>>

(* Mutants of ptp: nothing leaves the low queue, nothing is put in the     *)
(* high one, and the sender is taken for the receiver.                     *)
ptp_NoPop(towho, m) ==
    /\ ~msgs[towho].is_msgbox
    /\ msgs' = [msgs EXCEPT ![towho] =
                   [is_msgbox |-> TRUE, from |-> current_proc, msgbox |-> m]]
    /\ low' = low
    /\ high' = Pushed(high, towho)
    /\ woken' = towho

ptp_NoPush(towho, m) ==
    /\ ~msgs[towho].is_msgbox
    /\ msgs' = [msgs EXCEPT ![towho] =
                   [is_msgbox |-> TRUE, from |-> current_proc, msgbox |-> m]]
    /\ low' = Popped(low)
    /\ high' = high
    /\ woken' = towho

ptp_FromReceiver(towho, m) ==
    /\ ~msgs[towho].is_msgbox
    /\ msgs' = [msgs EXCEPT ![towho] =
                   [is_msgbox |-> TRUE, from |-> towho, msgbox |-> m]]
    /\ low' = Popped(low)
    /\ high' = Pushed(high, towho)
    /\ woken' = towho

(* ptp, when the box of towho is empty and the message fits: whoever is    *)
(* first in the low queue is taken out, and towho goes to the high queue.  *)
ptp(towho, m) ==
    \/ /\ ~msgs[towho].is_msgbox /\ m \notin TooLong
       /\ msgs' = [msgs EXCEPT ![towho] =
                      [is_msgbox |-> TRUE, from |-> current_proc, msgbox |-> m]]
       /\ low' = Popped(low)
       /\ high' = Pushed(high, towho)
       /\ woken' = towho
    \/ /\ msgs[towho].is_msgbox \/ m \in TooLong
       /\ UNCHANGED <<msgs, low, high, woken>>

Syscall == Running /\ AtEL0

(* The 3 is written whether or not ptp delivered; with no address from a   *)
(* setup_call it goes to address 0, where no process looks.                *)
ipc_send_call(towho, m) ==
    /\ Syscall
    /\ SelfSend \/ towho # current_proc
    /\ ptp(towho, m)
    /\ notified' = notified \cup ({towho} \cap registered)
    /\ sent' = sent \cup {<<current_proc, towho, m>>}
    /\ UNCHANGED <<boot, current_proc, received, registered, reading, halted>>

(* Copies the message of the caller, whether or not one has arrived.       *)
ipc_rece_call ==
    /\ Syscall
    /\ received' = [received EXCEPT ![current_proc] = msgs[current_proc].msgbox]
    /\ UNCHANGED <<boot, low, high, current_proc, msgs, registered, notified,
                   reading, halted, sent, woken>>

setup_call ==
    /\ Syscall
    /\ registered' = registered \cup {current_proc}
    /\ UNCHANGED <<boot, low, high, current_proc, msgs, received, notified,
                   reading, halted, sent, woken>>

(* read_call on the console: from the first getchar to the last, with the  *)
(* timer masked, and the keyboard too: what ends it comes over the UART.   *)
read_call ==
    /\ Syscall
    /\ reading' = TRUE
    /\ UNCHANGED <<boot, low, high, current_proc, mail, halted, woken>>

getchar ==
    /\ reading
    /\ reading' = FALSE
    /\ UNCHANGED <<boot, low, high, current_proc, mail, halted, woken>>

(* The exception classes with an entry in ec_table, in its order: what has *)
(* no meaning or is trapped, calls to others than this kernel, registers   *)
(* and authentication, aborts and alignment, arithmetic, and debugging.    *)
UnknownOrTrapped == {0, 1, 3, 4, 5, 6}
TrappedUnits == {7, 8, 9, 14}
OtherCalls == {17, 18, 19, 22, 23}
SystemTraps == {24, 25, 26, 28}
Aborts == {32, 33, 34, 36, 37, 38}
ArithmeticOrSError == {40, 44, 47}
Debugging == (48 .. 53) \cup {60}

SVC_A64 == 21
ec_table ==
    {SVC_A64} \cup UnknownOrTrapped \cup TrappedUnits \cup OtherCalls \cup SystemTraps
        \cup Aborts \cup ArithmeticOrSError \cup Debugging

(* Whether sync_handler_main can stop on a class of exception.  A system   *)
(* call stops if it is exit_call or has no entry in call_table; all other  *)
(* handlers print and stop; a class without one has the kernel jump to     *)
(* address 0, and stops with the class of what that raises.                *)
sync_handler_main(ec) ==
    \/ ec = SVC_A64 /\ AtEL0
    \/ ec \in ec_table \ {SVC_A64}
    \/ ec \notin ec_table /\ Aborts \cup UnknownOrTrapped \subseteq ec_table

(* An exception stops the kernel, of whichever process it is, and so does  *)
(* an interrupt it does not know.                                          *)
full_stop ==
    /\ Running
    /\ \E ec \in 0 .. 63 : sync_handler_main(ec)
    /\ halted' = TRUE
    /\ UNCHANGED <<boot, low, high, current_proc, mail, reading, woken>>

Halted == halted /\ UNCHANGED vars

Next ==
    \/ Tick
    \/ \E towho \in Created, m \in Messages : ipc_send_call(towho, m)
    \/ ipc_rece_call
    \/ setup_call
    \/ read_call
    \/ getchar
    \/ full_stop
    \/ Halted

Spec == Init /\ [][Next]_vars

(* The timer interrupt stays asserted until it is taken, so it is taken as *)
(* soon as a system call returns to EL0, however many there are.           *)
FairSpec == Spec /\ SF_vars(Tick)
-----------------------------------------------------------------------------
Queued == {low[i] : i \in DOMAIN low} \cup {high[i] : i \in DOMAIN high}

(* Types of the variables; only created processes are queued or run.       *)
TypeOK ==
    /\ boot \in Boots
    /\ low \in Seq(Created) /\ high \in Seq(Created)
    /\ current_proc \in Created
    /\ msgs \in [Created -> [is_msgbox : BOOLEAN, from : Created \cup {0},
                             msgbox : Messages \cup {None}]]
    /\ received \in [Created -> Messages \cup {None}]
    /\ registered \subseteq Created /\ notified \subseteq registered
    /\ reading \in BOOLEAN /\ halted \in BOOLEAN
    /\ sent \subseteq Created \X Created \X Messages
    /\ woken \in Created \cup {0}

(* Through all ticks and sends no process falls off the queues: schedule   *)
(* puts back the one that ran, ptp the one it takes out.                   *)
EveryProcPlaced == Created \subseteq {current_proc} \cup Queued

(* No process is queued twice over: there are never more entries than      *)
(* processes, and where kernel_main queues every process but the one it    *)
(* runs, each has exactly one place.  So the queues cannot fill up.        *)
EntriesBounded ==
    /\ Len(low) + Len(high) <= Cardinality(Created)
    /\ Cardinality(Created) = 2 =>
          Len(low) + Len(high) = 1 /\ current_proc \notin Queued

(* What a process has read was sent to it by the process its box names.    *)
MailGenuine ==
    \A p \in Created :
        received[p] # None => <<msgs[p].from, p, received[p]>> \in sent

(* ptp raises the receiver's priority so that it gets its message at once: *)
(* the next tick runs it.                                                  *)
ReceiverRunsNext ==
    [][woken # 0 /\ woken' = 0 => current_proc' = woken]_vars

(* As long as the kernel neither stops nor waits for the console for ever, *)
(* every process gets the processor again and again, whatever is sent.     *)
EveryoneRuns ==
    \A p \in {1, 2} :
        [](p \in Created) =>
            []<>(current_proc = p) \/ <>[]reading \/ <>halted

(* expm.c says that ptp takes the receiver out of the low queue: a send    *)
(* takes no one else out.                                                  *)
OnlyReceiverTakenOut ==
    [][\A p \in Queued \ Queued' : current_proc' = current_proc => woken' = p]_vars
=============================================================================
