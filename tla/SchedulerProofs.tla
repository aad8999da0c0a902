--------------------------- MODULE SchedulerProofs --------------------------
(***************************************************************************)
(* The process manager: the scheduler, the ring its run queues are, and    *)
(* what a switch does to the registers.                                    *)
(*                                                                         *)
(* The safety of the scheduler is proved for every set of messages, every  *)
(* queue size and every boot.  Who is queued where is proved of processes  *)
(* that do not send to themselves: one that does can push another off the  *)
(* queues.  The scheduler has its queues as sequences: the ring of         *)
(* dstruc.c implements them, for every size and every set of bytes.  And   *)
(* whichever processes the switches alternate between, at either level and *)
(* for any size of the kernel's stack, registers are never another         *)
(* process's, and those the code means to save and does save come back.    *)
(***************************************************************************)
EXTENDS Scheduler, RingQueue, ContextSwitch,
        FiniteSetTheorems, SequenceTheorems, TLAPS

(* What no step touches, and what a step that is neither a tick nor a send *)
(* leaves alone.                                                           *)
Quiet == UNCHANGED <<boot, low, high, current_proc, msgs, sent, woken>>

LEMMA CreatedKept == [Next]_vars => boot' = boot /\ Created' = Created
  BY DEF Next, Tick, ipc_send_call, ipc_rece_call, setup_call, read_call, getchar,
         full_stop, Halted, vars, Created

(* The actions that disturb no queue and deliver nothing.                  *)
LEMMA QuietSteps ==
    ipc_rece_call \/ setup_call \/ read_call \/ getchar \/ full_stop
        \/ Halted \/ UNCHANGED vars => Quiet
  BY DEF ipc_rece_call, setup_call, read_call, getchar, full_stop, Halted, vars,
         mail, Quiet

(* What the queue operations do to sequences of processes.                 *)
LEMMA QueueTypes ==
    ASSUME NEW S, NEW s \in Seq(S), NEW d \in S
    PROVE  /\ Pushed(s, d) \in Seq(S)
           /\ Popped(s) \in Seq(S)
           /\ s # <<>> => Answer(s) \in S
  <1>1. Pushed(s, d) \in Seq(S)
    BY DEF Pushed
  <1>2. CASE s = <<>>
    BY <1>1, <1>2 DEF Popped
  <1>3. CASE s # <<>>
    BY <1>1, <1>3 DEF Popped, Answer
  <1> QED BY <1>2, <1>3

(* What they do to sequences of at most one process.                       *)
LEMMA ShortQueues ==
    ASSUME NEW d, NEW e
    PROVE  /\ Pushed(<<>>, d) = <<d>> /\ Popped(<<d>>) = <<>> /\ Answer(<<d>>) = d
           /\ Popped(<<>>) = <<>> /\ <<d>> # <<>>
           /\ Len(<<>>) = 0 /\ Len(<<d>>) = 1
           /\ DOMAIN <<d>> = {1} /\ <<d>>[1] = d
  BY SizeAssumption DEF Pushed, Popped, Answer

(* The schedule, from queues whose entries are processes.                  *)
LEMMA PmRunTypes ==
    ASSUME Created \subseteq {1, 2}, 1 \in Created,
           low \in Seq(Created), high \in Seq(Created)
    PROVE  /\ pm_run.next \in Created
           /\ pm_run.low \in Seq(Created)
           /\ pm_run.high \in Seq(Created)
  <1> USE DEF pm_run, FromHigh, FromLow, Chosen, ROOT_PROC_SECT, PMV1_MAX_PROC
  <1>1. CASE high # <<>>
    <2>1. Answer(high) \in Created /\ Popped(high) \in Seq(Created)
      BY <1>1, QueueTypes
    <2> QED BY <1>1, <2>1
  <1>2. CASE high = <<>> /\ low # <<>>
    <2>1. Answer(low) \in Created /\ Popped(low) \in Seq(Created)
      BY <1>2, QueueTypes
    <2> QED BY <1>2, <2>1
  <1>3. CASE high = <<>> /\ low = <<>>
    BY <1>3
  <1> QED BY <1>1, <1>2, <1>3
-----------------------------------------------------------------------------
(* The types, with what they need: the ids there are.                      *)
CreatedIds == boot \in 1 .. 6 /\ Created \subseteq {1, 2} /\ 1 \in Created

LEMMA CreatedType == TypeOK => CreatedIds
  BY SchedulerAssumption DEF TypeOK, Created, CreatedIds

LEMMA InitType == Init => TypeOK
  <1> SUFFICES ASSUME Init PROVE TypeOK
    OBVIOUS
  <1> USE DEF Init, kernel_main
  <1>1. boot \in Boots /\ CreatedIds
    BY SchedulerAssumption DEF Created, CreatedIds
  <1>2. low \in Seq(Created) /\ high \in Seq(Created) /\ current_proc \in Created
    <2>1. \A p \in Created : <<p>> \in Seq(Created)
      OBVIOUS
    <2>2. <<>> \in Seq(Created)
      OBVIOUS
    <2>3. low = <<>> \/ \E p \in Created : low = <<p>>
      BY DEF Created
    <2>4. current_proc \in Created
      BY DEF Created
    <2> QED BY <2>1, <2>2, <2>3, <2>4
  <1>3. EmptyBox \in [is_msgbox : BOOLEAN, from : Created \cup {0},
                      msgbox : Messages \cup {None}]
    BY DEF EmptyBox
  <1> QED BY <1>1, <1>2, <1>3 DEF TypeOK

(* The mail a send leaves has its type.                                    *)
LEMMA SendTypes ==
    ASSUME TypeOK, NEW towho \in Created, NEW m \in Messages, ipc_send_call(towho, m)
    PROVE  TypeOK'
  <1> USE DEF ipc_send_call
  <1>1. Created' = Created /\ boot' = boot
    BY DEF Created
  <1>2. low' \in Seq(Created) /\ high' \in Seq(Created)
    <2>1. low \in Seq(Created) /\ high \in Seq(Created)
      BY DEF TypeOK
    <2>2. Popped(low) \in Seq(Created) /\ Pushed(high, towho) \in Seq(Created)
      BY <2>1, QueueTypes
    <2> QED BY <2>1, <2>2 DEF ptp
  <1>3. msgs' \in [Created -> [is_msgbox : BOOLEAN, from : Created \cup {0},
                               msgbox : Messages \cup {None}]]
    <2> DEFINE new == [is_msgbox |-> TRUE, from |-> current_proc, msgbox |-> m]
    <2>1. new \in [is_msgbox : BOOLEAN, from : Created \cup {0},
                   msgbox : Messages \cup {None}]
      BY DEF TypeOK
    <2>2. msgs' = msgs \/ msgs' = [msgs EXCEPT ![towho] = new]
      BY DEF ptp
    <2> HIDE DEF new
    <2> QED BY <2>1, <2>2 DEF TypeOK
  <1>4. woken' \in Created \cup {0}
    BY DEF TypeOK, ptp
  <1>5. sent' \subseteq Created \X Created \X Messages
    BY DEF TypeOK
  <1>6. notified' \subseteq registered' /\ registered' \subseteq Created
    BY DEF TypeOK
  <1> QED BY <1>1, <1>2, <1>3, <1>4, <1>5, <1>6 DEF TypeOK

LEMMA NextType == TypeOK /\ [Next]_vars => TypeOK'
  <1> SUFFICES ASSUME TypeOK, [Next]_vars PROVE TypeOK'
    OBVIOUS
  <1>1. Created' = Created /\ boot' = boot /\ CreatedIds
    BY CreatedKept, CreatedType
  <1>2. CASE Tick
    <2>1. /\ pm_run.next \in Created
          /\ pm_run.low \in Seq(Created) /\ pm_run.high \in Seq(Created)
      BY <1>1, PmRunTypes DEF TypeOK, CreatedIds
    <2>2. low' \in Seq(Created)
      BY <1>2, <2>1, QueueTypes DEF TypeOK, Tick, schedule_proc
    <2> QED BY <1>1, <1>2, <2>1, <2>2 DEF TypeOK, Tick, schedule_proc, mail
  <1>3. ASSUME NEW towho \in Created, NEW m \in Messages, ipc_send_call(towho, m)
        PROVE TypeOK'
    BY <1>3, SendTypes
  <1>4. CASE ipc_rece_call
    <2>1. msgs[current_proc].msgbox \in Messages \cup {None}
      BY DEF TypeOK
    <2> QED BY <1>1, <1>4, <2>1 DEF TypeOK, ipc_rece_call
  <1>5. CASE setup_call
    BY <1>1, <1>5 DEF TypeOK, setup_call
  <1>6. CASE read_call
    BY <1>1, <1>6 DEF TypeOK, read_call, mail
  <1>7. CASE getchar
    BY <1>1, <1>7 DEF TypeOK, getchar, mail
  <1>8. CASE full_stop
    BY <1>1, <1>8 DEF TypeOK, full_stop, mail
  <1>9. CASE Halted \/ UNCHANGED vars
    BY <1>1, <1>9 DEF TypeOK, Halted, vars, mail
  <1> QED BY <1>2, <1>3, <1>4, <1>5, <1>6, <1>7, <1>8, <1>9 DEF Next

(* Whatever is sent, also by a process to itself, only created processes   *)
(* are queued and run, and pm_run never hands out a pcb that none has.     *)
THEOREM TypeCorrect == Spec => []TypeOK
  BY InitType, NextType, PTL DEF Spec
-----------------------------------------------------------------------------
(* Where the processes are.  One of two runs, and the other waits in the   *)
(* low queue, or, with a message in its box, in the high one.  The box is  *)
(* never emptied, so no second send raises it again.                       *)
Other == 3 - current_proc

Waiting == low = <<Other>> /\ high = <<>> /\ woken = 0
Raised == low = <<>> /\ high = <<Other>> /\ woken = Other /\ msgs[Other].is_msgbox

TwoProcs == boot \in {1, 5} /\ current_proc \in {1, 2} /\ (Waiting \/ Raised)
OneAtEL0 == boot \in 2 .. 4 /\ current_proc = 1 /\ low = <<1>> /\ high = <<>> /\ woken = 0
OneAtEL1 == /\ boot = 6 /\ current_proc = 1 /\ low \in {<<>>, <<1>>}
            /\ high = <<>> /\ woken = 0

Places == TwoProcs \/ OneAtEL0 \/ OneAtEL1

LEMMA InitPlaces == Init => Places
  BY SchedulerAssumption
     DEF Init, kernel_main, Places, TwoProcs, OneAtEL0, OneAtEL1, Waiting, Other

LEMMA TickPlaces == ASSUME Places, Tick PROVE Places'
  <1>1. boot' = boot /\ woken' = 0
    BY DEF Tick
  <1>2. \A p \in {1, 2} : Chosen(p) = p
    BY DEF Chosen, ROOT_PROC_SECT, PMV1_MAX_PROC
  <1>3. CASE TwoProcs
    <2>1. Other \in {1, 2} /\ current_proc \in {1, 2} /\ boot \in {1, 5}
      BY <1>3 DEF TwoProcs, Other
    <2>2. pm_run.next = Other /\ pm_run.low = <<>> /\ pm_run.high = <<>>
      <3>1. CASE Waiting
        BY <1>2, <2>1, <3>1, ShortQueues DEF Waiting, pm_run, FromLow
      <3>2. CASE Raised
        BY <1>2, <2>1, <3>2, ShortQueues DEF Raised, pm_run, FromHigh
      <3> QED BY <1>3, <3>1, <3>2 DEF TwoProcs
    <2>3. current_proc' = Other /\ low' = <<current_proc>> /\ high' = <<>>
      BY <2>2, ShortQueues DEF Tick, schedule_proc
    <2>4. Other' = current_proc
      BY <2>1, <2>3 DEF Other
    <2> QED BY <1>1, <2>1, <2>3, <2>4 DEF Places, TwoProcs, Waiting
  <1>4. CASE OneAtEL0 \/ OneAtEL1
    <2>1. pm_run.next = 1 /\ pm_run.low = <<>> /\ pm_run.high = <<>>
      BY <1>2, <1>4, ShortQueues
         DEF OneAtEL0, OneAtEL1, pm_run, FromLow, ROOT_PROC_SECT
    <2>2. current_proc' = 1 /\ low' = <<1>> /\ high' = <<>>
      BY <1>4, <2>1, ShortQueues DEF Tick, schedule_proc, OneAtEL0, OneAtEL1
    <2> QED BY <1>1, <1>4, <2>2 DEF Places, OneAtEL0, OneAtEL1
  <1> QED BY <1>3, <1>4 DEF Places

LEMMA SendPlaces ==
    ASSUME ~SelfSend, TypeOK, Places,
           NEW towho \in Created, NEW m \in Messages, ipc_send_call(towho, m)
    PROVE  Places'
  <1>1. boot = 5 /\ towho = Other /\ towho \in {1, 2} /\ current_proc \in {1, 2}
    BY DEF ipc_send_call, Syscall, AtEL0, Places, TwoProcs, OneAtEL0, OneAtEL1,
           Created, Other
  <1>2. current_proc' = current_proc /\ boot' = boot
    BY DEF ipc_send_call
  <1>3. CASE UNCHANGED <<msgs, low, high, woken>>
    BY <1>1, <1>2, <1>3
       DEF Places, TwoProcs, OneAtEL0, OneAtEL1, Waiting, Raised, Other
  <1>4. CASE /\ ~msgs[towho].is_msgbox
             /\ msgs' = [msgs EXCEPT ![towho] =
                            [is_msgbox |-> TRUE, from |-> current_proc, msgbox |-> m]]
             /\ low' = Popped(low)
             /\ high' = Pushed(high, towho)
             /\ woken' = towho
    <2>1. Waiting
      BY <1>1, <1>4 DEF Places, TwoProcs, OneAtEL0, OneAtEL1, Raised
    <2>2. low' = <<>> /\ high' = <<Other>> /\ woken' = Other
      BY <1>1, <1>4, <2>1, ShortQueues DEF Waiting
    <2>3. msgs'[towho].is_msgbox
      BY <1>4 DEF TypeOK
    <2> QED BY <1>1, <1>2, <2>2, <2>3 DEF Places, TwoProcs, Raised, Other
  <1> QED BY <1>3, <1>4 DEF ipc_send_call, ptp

LEMMA NextPlaces == ASSUME ~SelfSend PROVE TypeOK /\ Places /\ [Next]_vars => Places'
  <1> SUFFICES ASSUME TypeOK, Places, [Next]_vars PROVE Places'
    OBVIOUS
  <1>1. CASE Tick
    BY <1>1, TickPlaces
  <1>2. ASSUME NEW towho \in Created, NEW m \in Messages, ipc_send_call(towho, m)
        PROVE Places'
    BY <1>2, SendPlaces
  <1>3. CASE Quiet
    BY <1>3 DEF Quiet, Places, TwoProcs, OneAtEL0, OneAtEL1, Waiting, Raised, Other
  <1> QED BY <1>1, <1>2, <1>3, QuietSteps DEF Next

LEMMA PlacesInvariant == ASSUME ~SelfSend PROVE Spec => [](TypeOK /\ Places)
  <1>1. Init => TypeOK /\ Places
    BY InitType, InitPlaces
  <1>2. TypeOK /\ Places /\ [Next]_vars => TypeOK' /\ Places'
    BY NextType, NextPlaces
  <1> QED BY <1>1, <1>2, PTL DEF Spec

LEMMA EmptyQueued == DOMAIN <<>> = {}
  OBVIOUS

LEMMA PlacesBound == Places => EveryProcPlaced /\ EntriesBounded
  <1> SUFFICES ASSUME Places PROVE EveryProcPlaced /\ EntriesBounded
    OBVIOUS
  <1>1. Cardinality({1}) = 1 /\ Cardinality({1, 2}) = 2
    BY FS_Singleton, FS_AddElement, FS_EmptySet
  <1>2. CASE TwoProcs
    <2>1. Created = {1, 2} /\ {1, 2} = {current_proc, Other} /\ Other # current_proc
      BY <1>2 DEF TwoProcs, Created, Other
    <2>2. Queued = {Other} /\ Len(low) + Len(high) = 1
      <3>1. CASE low = <<Other>> /\ high = <<>>
        BY <3>1, ShortQueues, EmptyQueued DEF Queued
      <3>2. CASE low = <<>> /\ high = <<Other>>
        BY <3>2, ShortQueues, EmptyQueued DEF Queued
      <3> QED BY <1>2, <3>1, <3>2 DEF TwoProcs, Waiting, Raised
    <2> QED BY <1>1, <2>1, <2>2 DEF EveryProcPlaced, EntriesBounded
  <1>3. CASE OneAtEL0 \/ OneAtEL1
    <2>1. Created = {1} /\ current_proc = 1
      BY <1>3 DEF OneAtEL0, OneAtEL1, Created
    <2>2. Len(low) + Len(high) \in {0, 1}
      <3>1. high = <<>> /\ (low = <<>> \/ low = <<1>>)
        BY <1>3 DEF OneAtEL0, OneAtEL1
      <3> QED BY <3>1, ShortQueues
    <2> QED BY <1>1, <2>1, <2>2 DEF EveryProcPlaced, EntriesBounded
  <1> QED BY <1>2, <1>3 DEF Places

(* No tick and no send makes a process lose its place in the queues.       *)
THEOREM NoProcLost == ASSUME ~SelfSend PROVE Spec => []EveryProcPlaced
  BY PlacesInvariant, PlacesBound, PTL

(* The queues hold each waiting process once, whatever their size is.      *)
THEOREM QueuesBounded == ASSUME ~SelfSend PROVE Spec => []EntriesBounded
  BY PlacesInvariant, PlacesBound, PTL

(* Whoever ptp woke is alone in the high queue until a tick takes it out.  *)
LEMMA WokenRuns ==
    ASSUME Places, Next, woken # 0, woken' = 0
    PROVE  current_proc' = woken
  <1>1. TwoProcs /\ Raised
    BY DEF Places, TwoProcs, OneAtEL0, OneAtEL1, Waiting
  <1>2. CASE Tick
    <2>1. Answer(high) = Other /\ high # <<>> /\ Chosen(Other) = Other
      BY <1>1, ShortQueues
         DEF TwoProcs, Raised, Other, Chosen, PMV1_MAX_PROC
    <2> QED BY <1>1, <1>2, <2>1 DEF Tick, schedule_proc, pm_run, FromHigh, Raised
  <1>3. ASSUME NEW towho \in Created, NEW m \in Messages, ipc_send_call(towho, m)
        PROVE FALSE
    BY <1>3 DEF ipc_send_call, ptp, Created
  <1>4. CASE Quiet
    BY <1>4 DEF Quiet
  <1> QED BY <1>2, <1>3, <1>4, QuietSteps DEF Next

(* The tick after a delivery runs the receiver.                            *)
THEOREM MailRunsReceiver == ASSUME ~SelfSend PROVE Spec => ReceiverRunsNext
  <1>1. TypeOK /\ Places /\ [Next]_vars =>
            [woken # 0 /\ woken' = 0 => current_proc' = woken]_vars
    BY WokenRuns
  <1> QED BY <1>1, PlacesInvariant, PTL DEF Spec, ReceiverRunsNext
-----------------------------------------------------------------------------
(* A box that is full stays as it is; what was read is what is in it.      *)
BoxKept(p) ==
    /\ msgs[p].msgbox # None => /\ msgs[p].is_msgbox
                                /\ <<msgs[p].from, p, msgs[p].msgbox>> \in sent
    /\ received[p] \in {None, msgs[p].msgbox}

MailInv == \A p \in Created : BoxKept(p)

LEMMA InitMail == Init => MailInv
  BY DEF Init, MailInv, BoxKept, EmptyBox

LEMMA SendMail ==
    ASSUME TypeOK, MailInv, NEW towho \in Created, NEW m \in Messages,
           ipc_send_call(towho, m)
    PROVE  MailInv'
  <1>1. /\ Created' = Created /\ received' = received
        /\ sent' = sent \cup {<<current_proc, towho, m>>}
    BY DEF ipc_send_call, Created
  <1>2. CASE msgs' = msgs
    BY <1>1, <1>2 DEF MailInv, BoxKept
  <1>3. CASE /\ ~msgs[towho].is_msgbox
             /\ msgs' = [msgs EXCEPT ![towho] =
                            [is_msgbox |-> TRUE, from |-> current_proc, msgbox |-> m]]
    <2> SUFFICES ASSUME NEW p \in Created PROVE BoxKept(p)'
      BY <1>1 DEF MailInv
    <2>1. CASE p # towho
      BY <1>1, <1>3, <2>1 DEF TypeOK, MailInv, BoxKept
    <2>2. CASE p = towho
      <3>1. msgs[p].msgbox = None /\ received[p] = None
        BY <1>3, <2>2 DEF MailInv, BoxKept
      <3>2. msgs'[p] = [is_msgbox |-> TRUE, from |-> current_proc, msgbox |-> m]
        BY <1>3, <2>2 DEF TypeOK
      <3> QED BY <1>1, <2>2, <3>1, <3>2 DEF BoxKept
    <2> QED BY <2>1, <2>2
  <1> QED BY <1>2, <1>3 DEF ipc_send_call, ptp

LEMMA NextMail == TypeOK /\ MailInv /\ [Next]_vars => MailInv'
  <1> SUFFICES ASSUME TypeOK, MailInv, [Next]_vars PROVE MailInv'
    OBVIOUS
  <1>1. Created' = Created
    BY CreatedKept
  <1>2. CASE ipc_rece_call
    BY <1>1, <1>2 DEF ipc_rece_call, TypeOK, MailInv, BoxKept
  <1>3. ASSUME NEW towho \in Created, NEW m \in Messages, ipc_send_call(towho, m)
        PROVE MailInv'
    BY <1>3, SendMail
  <1>4. CASE UNCHANGED <<msgs, received, sent>>
    BY <1>1, <1>4 DEF MailInv, BoxKept
  <1>5. CASE Tick \/ setup_call \/ read_call \/ getchar \/ full_stop \/ Halted
             \/ UNCHANGED vars
    BY <1>4, <1>5
       DEF Tick, setup_call, read_call, getchar, full_stop, Halted, vars, mail
  <1> QED BY <1>2, <1>3, <1>5 DEF Next

(* What a process reads was sent to it by the process its box names, for   *)
(* every number of messages and whoever sends to whom.                     *)
THEOREM ReadIsSent == Spec => []MailGenuine
  <1>1. TypeOK /\ MailInv => MailGenuine
    BY DEF MailInv, BoxKept, MailGenuine
  <1>2. Init => TypeOK /\ MailInv
    BY InitType, InitMail
  <1>3. TypeOK /\ MailInv /\ [Next]_vars => TypeOK' /\ MailInv'
    BY NextType, NextMail
  <1> QED BY <1>1, <1>2, <1>3, PTL DEF Spec
-----------------------------------------------------------------------------
(* The ring: its indices and its count always agree.                       *)
LEMMA RingInitType == RingInit => RingTypeOK
  BY SizeAssumption DEF RingInit, queue_init, RingTypeOK, Slots, At

(* A push or a pop keeps the two indices and the count in agreement.       *)
LEMMA RingNextType == RingTypeOK /\ [RingNext]_ringVars => RingTypeOK'
  <1> SUFFICES ASSUME RingTypeOK, [RingNext]_ringVars PROVE RingTypeOK'
    OBVIOUS
  <1> USE SizeAssumption DEF RingTypeOK, Slots, At, Wrapped
  <1>1. ASSUME NEW d \in Data, queue_push(d) PROVE RingTypeOK'
    <2>1. CASE count >= Size
      BY <1>1, <2>1 DEF queue_push, ringVars
    <2>2. CASE count < Size
      <3>1. /\ buffer' = [buffer EXCEPT ![head] = d]
            /\ head' = Wrapped(head + 1) /\ count' = count + 1
            /\ tail' = tail /\ got' = got
        BY <1>1, <2>2 DEF queue_push, ringVars
      <3>2. buffer' \in [Slots -> Data]
        BY <3>1
      <3> QED BY <2>2, <3>1, <3>2
    <2> QED BY <2>1, <2>2
  <1>2. CASE queue_pop
    BY <1>2 DEF queue_pop
  <1>3. CASE UNCHANGED ringVars
    BY <1>3 DEF ringVars
  <1> QED BY <1>1, <1>2, <1>3 DEF RingNext

(* Indices, count and bytes keep their ranges, and the count is always the *)
(* distance between the two indices.                                       *)
THEOREM RingTypeCorrect == RingSpec => []RingTypeOK
  BY RingInitType, RingNextType, PTL DEF RingSpec
-----------------------------------------------------------------------------
(* What is read off the ring is a sequence.                                *)
ItemsRead == /\ Items \in Seq(Data) /\ Len(Items) = count
             /\ \A i \in 1 .. count : Items[i] = buffer[At(i - 1)]

LEMMA ItemsSeq == RingTypeOK => ItemsRead
  <1> SUFFICES ASSUME RingTypeOK PROVE ItemsRead
    OBVIOUS
  <1>1. \A i \in 1 .. count : buffer[At(i - 1)] \in Data
    BY SizeAssumption DEF RingTypeOK, Slots, At
  <1>2. Items \in [1 .. count -> Data] /\ count \in Nat
    BY <1>1 DEF Items, RingTypeOK
  <1> QED BY <1>2 DEF Items, ItemsRead

LEMMA ItemsSeqNext == RingTypeOK' => ItemsRead'
  BY ItemsSeq, PTL

(* A push into a ring with room appends.                                   *)
LEMMA PushAppends ==
    ASSUME RingTypeOK, RingTypeOK', NEW d \in Data, count < Size, queue_push(d)
    PROVE  Items' = Append(Items, d)
  <1>1. /\ buffer' = [buffer EXCEPT ![head] = d]
        /\ count' = count + 1 /\ tail' = tail
        /\ head = At(count) /\ buffer \in [Slots -> Data]
        /\ count \in Nat /\ tail \in Nat /\ Size \in Nat
    BY SizeAssumption DEF queue_push, RingTypeOK, ringVars, Slots
  <1>2. \A i \in 1 .. count : At(i - 1) # head /\ At(i - 1) \in Slots
    BY <1>1 DEF At, RingTypeOK, Slots
  <1>3. \A i \in 1 .. count : buffer'[At(i - 1)] = buffer[At(i - 1)]
    BY <1>1, <1>2
  <1>4. buffer'[At(count)] = d
    BY <1>1 DEF RingTypeOK
  <1>5. \A i \in 1 .. count + 1 : At(i - 1)' = At(i - 1)
    BY <1>1 DEF At
  <1>6. /\ Items' \in Seq(Data) /\ Len(Items') = count + 1
        /\ \A i \in 1 .. count + 1 : Items'[i] = buffer'[At(i - 1)]
    BY <1>1, <1>5, ItemsSeqNext DEF ItemsRead
  <1>7. /\ Append(Items, d) \in Seq(Data) /\ Len(Append(Items, d)) = count + 1
        /\ \A i \in 1 .. count : Append(Items, d)[i] = Items[i]
        /\ Append(Items, d)[count + 1] = d
    BY ItemsSeq DEF ItemsRead
  <1>8. \A i \in 1 .. count + 1 : Items'[i] = Append(Items, d)[i]
    <2> TAKE i \in 1 .. count + 1
    <2>1. CASE i = count + 1
      BY <1>1, <1>4, <1>6, <1>7, <2>1
    <2>2. CASE i \in 1 .. count
      BY <1>3, <1>6, <1>7, <2>2, ItemsSeq DEF ItemsRead
    <2>3. i = count + 1 \/ i \in 1 .. count
      BY <1>1
    <2> QED BY <2>1, <2>2, <2>3
  <1> QED BY <1>6, <1>7, <1>8, SeqEqual

(* A pop from a ring that is not empty takes the head off.                 *)
LEMMA PopTakesHead ==
    ASSUME RingTypeOK, RingTypeOK', count # 0, queue_pop
    PROVE  Items # <<>> /\ Items' = Tail(Items) /\ got' = Head(Items)
  <1>1. /\ buffer' = buffer /\ count' = count - 1
        /\ tail' = Wrapped(tail + 1) /\ got' = buffer[tail]
        /\ count \in Nat \ {0} /\ tail \in Nat /\ tail < Size
        /\ Size \in Nat /\ count <= Size
    BY SizeAssumption DEF queue_pop, RingTypeOK, Slots
  <1>2. \A i \in 1 .. count - 1 : At(i - 1)' = At(i)
    BY <1>1 DEF At, Wrapped
  <1>3. /\ Items \in Seq(Data) /\ Items # <<>> /\ Len(Items) = count
        /\ Head(Items) = buffer[At(0)]
    BY <1>1, ItemsSeq DEF ItemsRead
  <1>4. got' = Head(Items)
    BY <1>1, <1>3 DEF At
  <1>5. /\ Tail(Items) \in Seq(Data) /\ Len(Tail(Items)) = count - 1
        /\ \A i \in 1 .. count - 1 : Tail(Items)[i] = Items[i + 1]
    BY <1>1, <1>3, HeadTailProperties
  <1>6. /\ Items' \in Seq(Data) /\ Len(Items') = count - 1
        /\ \A i \in 1 .. count - 1 : Items'[i] = buffer[At(i)]
    BY <1>1, <1>2, ItemsSeqNext DEF ItemsRead
  <1>7. \A i \in 1 .. count - 1 : Items'[i] = Tail(Items)[i]
    <2> TAKE i \in 1 .. count - 1
    <2>1. i + 1 \in 1 .. count /\ (i + 1) - 1 = i
      BY <1>1
    <2>2. Items[i + 1] = buffer[At((i + 1) - 1)]
      BY <2>1, ItemsSeq DEF ItemsRead
    <2> QED BY <1>5, <1>6, <2>1, <2>2
  <1> QED BY <1>3, <1>4, <1>5, <1>6, <1>7, SeqEqual
-----------------------------------------------------------------------------
(* The ring loses, repeats and reorders nothing, whatever its size.        *)
THEOREM RingImplementsFifo == RingSpec => ImplementsFifo
  <1>1. RingInit /\ RingTypeOK => Abstract!Init
    BY ItemsSeq, EmptySeq DEF ItemsRead, RingInit, queue_init, Abstract!Init
  <1>2. ASSUME RingTypeOK, RingTypeOK', [RingNext]_ringVars
        PROVE  [Abstract!Next]_<<Items, got>>
    <2>1. ASSUME NEW d \in Data, queue_push(d)
          PROVE  Abstract!Push(d) \/ UNCHANGED <<Items, got>>
      <3>1. count \in Nat /\ Size \in Nat
        BY <1>2, SizeAssumption DEF RingTypeOK
      <3>2. CASE count >= Size
        BY <2>1, <3>1, <3>2 DEF queue_push, ringVars, Items, At
      <3>3. CASE count < Size
        <4>1. Items' = Append(Items, d) /\ Len(Items) < Size
          BY <1>2, <2>1, <3>3, PushAppends, ItemsSeq DEF ItemsRead
        <4>2. got' = got
          BY <2>1, <3>1, <3>3 DEF queue_push, ringVars
        <4> QED BY <4>1, <4>2 DEF Abstract!Push, Abstract!Pushed
      <3> QED BY <3>1, <3>2, <3>3
    <2>2. CASE queue_pop
      <3>1. CASE count = 0
        <4>1. Items = <<>> /\ Items' = <<>> /\ got' = 0
          <5>1. count' = 0 /\ got' = 0
            BY <2>2, <3>1 DEF queue_pop
          <5> QED BY <1>2, <3>1, <5>1, ItemsSeq, ItemsSeqNext, EmptySeq DEF ItemsRead
        <4> QED BY <4>1
            DEF Abstract!Next, Abstract!Pop, Abstract!Popped, Abstract!Answer
      <3>2. CASE count # 0
        BY <1>2, <2>2, <3>2, PopTakesHead
        DEF Abstract!Next, Abstract!Pop, Abstract!Popped, Abstract!Answer
      <3> QED BY <3>1, <3>2
    <2>3. CASE UNCHANGED ringVars
      BY <2>3 DEF ringVars, Items, At
    <2> QED BY <1>2, <2>1, <2>2, <2>3 DEF RingNext, Abstract!Next
  <1> QED BY <1>1, <1>2, RingInitType, RingTypeCorrect, PTL
          DEF RingSpec, ImplementsFifo, Abstract!Spec
-----------------------------------------------------------------------------
(* The switch.  No slot of a pcb ever holds what another process computed, *)
(* the stale ones neither.                                                 *)
OwnSlots == \A p \in Procs, i \in Words : regs[p][i].of \in {0, p}

(* The pcb of a process that waits has what it was interrupted with.       *)
Preserved ==
    \A p \in Procs \ {running} :
        \A r \in Kept \ {1} : _proc(regs[p])[r] = interrupted[p][r]

ContextInv == ContextTypeOK /\ OwnRegistersOnly /\ OwnSlots /\ Preserved

LEMMA OwnType == \A p \in Procs \cup {0}, r \in Words, n \in Stamps :
                    Own(p, r, n) \in Values /\ Own(p, r, n).of = p
  BY DEF Own, Values

LEMMA ZeroType == /\ Zero \in Values /\ Zero.of = 0
                  /\ Result \in Values /\ Result.of = 0
  BY OwnType, ContextAssumption DEF Zero, Result, Words

LEMMA NewRegsType ==
    ASSUME NEW p \in Procs
    PROVE  /\ NewRegs(p) \in [Words -> Values]
           /\ \A i \in Words : NewRegs(p)[i].of \in {0, p}
  <1>1. \A i \in Words : /\ (IF i < sp THEN Zero ELSE Own(p, i, 0)) \in Values
                         /\ (IF i < sp THEN Zero ELSE Own(p, i, 0)).of \in {0, p}
    BY OwnType, ZeroType, ContextAssumption
  <1> QED BY <1>1 DEF NewRegs

(* What _proc loads is in the pcb, and what the interrupts save is in the  *)
(* pcb already or in a register.                                           *)
LEMMA LoadedFrom ==
    ASSUME NEW pcb \in [Words -> Values]
    PROVE  /\ _proc(pcb) \in [Words -> Values]
           /\ \A r \in Words : \E i \in Words : _proc(pcb)[r] = pcb[i]
           /\ \A r \in Words \ {1} : _proc(pcb)[r] = pcb[r]
  <1>1. 0 \in Words /\ 1 \in Words
    BY DEF Words
  <1> QED BY <1>1 DEF _proc

LEMMA SavedFrom ==
    ASSUME NEW pcb \in [Words -> Values], x \in [Words -> Values]
    PROVE  /\ Saved(pcb) \in [Words -> Values]
           /\ \A i \in Words : \E r \in Words : Saved(pcb)[i] \in {pcb[r], x[r]}
           /\ \A i \in Kept : Saved(pcb)[i] = x[i]
  <1>1. CASE level = 0
    <2> DEFINE S(i) == CASE i = 9 -> x[10]
                         [] i \in 12 .. 29 -> x[i + 1]
                         [] i \in {10, 11, 30} -> pcb[i]
                         [] OTHER -> x[i]
    <2>1. Saved(pcb) = [i \in Words |-> S(i)]
      BY <1>1 DEF Saved, el0_a64_irq
    <2>2. ASSUME NEW i \in Words
          PROVE  S(i) \in Values /\ \E r \in Words : S(i) \in {pcb[r], x[r]}
      <3>1. 10 \in Words
        BY DEF Words
      <3>2. i \in 12 .. 29 => i + 1 \in Words
        BY DEF Words
      <3> QED BY <3>1, <3>2
    <2>3. ASSUME NEW i \in Kept
          PROVE  i \in Words /\ S(i) = x[i]
      BY <1>1 DEF Kept, Words, sp, spsr, elr
    <2> HIDE DEF S
    <2> QED BY <2>1, <2>2, <2>3
  <1>2. CASE level # 0
    BY <1>2 DEF Saved, el1_spx_irq, Kept
  <1> QED BY <1>1, <1>2
-----------------------------------------------------------------------------
LEMMA ContextInitInv == ContextInit => ContextInv
  <1> SUFFICES ASSUME ContextInit PROVE ContextInv
    OBVIOUS
  <1> USE DEF ContextInit
  <1>1. \A p \in Procs : /\ NewRegs(p) \in [Words -> Values]
                         /\ _proc(NewRegs(p)) \in [Words -> Values]
    BY NewRegsType, LoadedFrom
  <1>2. ContextTypeOK
    BY <1>1, ContextAssumption DEF ContextTypeOK
  <1>3. OwnSlots
    BY NewRegsType DEF OwnSlots
  <1>4. OwnRegistersOnly
    BY <1>2, <1>3, LoadedFrom DEF ContextTypeOK, OwnSlots, OwnRegistersOnly
  <1>5. Preserved
    BY DEF Preserved
  <1> QED BY <1>2, <1>3, <1>4, <1>5 DEF ContextInv

LEMMA ComputeInv ==
    ASSUME ContextInv, NEW n \in Stamps, Compute(n)
    PROVE  ContextInv'
  <1> USE DEF ContextInv, Compute
  <1>1. ContextTypeOK'
    BY OwnType, ContextAssumption DEF ContextTypeOK
  <1>2. OwnRegistersOnly'
    BY OwnType DEF ContextTypeOK, OwnRegistersOnly
  <1>3. OwnSlots' /\ Preserved'
    BY DEF OwnSlots, Preserved, Kept
  <1> QED BY <1>1, <1>2, <1>3

LEMMA SyscallInv ==
    ASSUME ContextInv, el0_a64_sync
    PROVE  ContextInv'
  <1> USE DEF ContextInv, el0_a64_sync
  <1>1. ContextTypeOK'
    BY ZeroType DEF ContextTypeOK, LeavesVectors
  <1>2. OwnRegistersOnly' /\ OwnSlots'
    BY ZeroType DEF ContextTypeOK, OwnRegistersOnly, OwnSlots
  <1>3. Preserved'
    BY DEF Preserved, Kept, ContextTypeOK
  <1> QED BY <1>1, <1>2, <1>3

(* An interrupt: the pcb it leaves, then who gets the processor.           *)
LEMMA InterruptInv ==
    ASSUME ContextInv, ~Overrun, NEW next \in Procs, Interrupt(next)
    PROVE  /\ ContextInv'
           /\ \A r \in Kept \ {1} : x'[r] = interrupted'[running'][r]
  <1> USE DEF ContextInv
  <1> DEFINE saved == [regs EXCEPT ![running] = Saved(@)]
  <1>1. /\ regs' = saved /\ x' = _proc(saved[next]) /\ running' = next
        /\ interrupted' = [interrupted EXCEPT ![running] = x]
        /\ frames' = (IF level = 0 THEN frames + 1 ELSE frames) /\ level' = level
        /\ LeavesVectors
    BY DEF Interrupt, switch_to
  <1>2. /\ x \in [Words -> Values] /\ running \in Procs
        /\ regs \in [Procs -> [Words -> Values]]
        /\ interrupted \in [Procs -> [Words -> Values]]
    BY DEF ContextTypeOK
  <1>3. Saved(regs[running]) \in [Words -> Values]
    BY <1>2, SavedFrom
  <1>4. saved \in [Procs -> [Words -> Values]]
    BY <1>2, <1>3
  <1>5. ContextTypeOK'
    <2>1. x' \in [Words -> Values]
      BY <1>1, <1>4, LoadedFrom
    <2>2. frames' \in 0 .. StackFrames + 1
      BY <1>1, ContextAssumption DEF ContextTypeOK, Overrun
    <2>3. interrupted' \in [Procs -> [Words -> Values]]
      BY <1>1, <1>2
    <2>4. v' \in Procs \cup {0}
      BY <1>1 DEF ContextTypeOK, LeavesVectors
    <2> QED BY <1>1, <1>4, <2>1, <2>2, <2>3, <2>4 DEF ContextTypeOK
  <1>6. \A p \in Procs, i \in Words : saved[p][i].of \in {0, p}
    <2>1. ASSUME NEW p \in Procs, p # running, NEW i \in Words
          PROVE  saved[p][i].of \in {0, p}
      BY <1>2, <2>1 DEF OwnSlots
    <2>2. ASSUME NEW i \in Words
          PROVE  saved[running][i].of \in {0, running}
      <3>1. PICK r \in Words :
                Saved(regs[running])[i] \in {regs[running][r], x[r]}
        BY <1>2, SavedFrom
      <3>2. saved[running] = Saved(regs[running])
        BY <1>2
      <3> QED BY <1>2, <3>1, <3>2 DEF OwnSlots, OwnRegistersOnly
    <2> QED BY <2>1, <2>2
  <1>7. OwnSlots'
    BY <1>1, <1>6 DEF OwnSlots
  <1>8. OwnRegistersOnly'
    BY <1>1, <1>4, <1>6, LoadedFrom DEF OwnRegistersOnly
  <1>9. \A p \in Procs : \A r \in Kept \ {1} : _proc(saved[p])[r] = interrupted'[p][r]
    <2>1. Kept \subseteq Words
      BY DEF Kept, Words, sp, spsr, elr
    <2>2. ASSUME NEW r \in Kept \ {1}
          PROVE  _proc(saved[running])[r] = interrupted'[running][r]
      BY <1>1, <1>2, <1>4, <2>1, SavedFrom, LoadedFrom
    <2>3. ASSUME NEW p \in Procs \ {running}, NEW r \in Kept \ {1}
          PROVE  _proc(saved[p])[r] = interrupted'[p][r]
      BY <1>1, <1>2 DEF Preserved
    <2> QED BY <2>2, <2>3
  <1>10. Kept' = Kept
    BY <1>1 DEF Kept
  <1>11. Preserved'
    BY <1>1, <1>9, <1>10 DEF Preserved
  <1> QED BY <1>1, <1>5, <1>7, <1>8, <1>9, <1>11

LEMMA ContextStepInv ==
    ContextInv /\ [ContextNext]_contextVars
        => ContextInv' /\ (Resumes => \A r \in Kept \ {1} : ComesBack(r))
  <1> SUFFICES ASSUME ContextInv, [ContextNext]_contextVars
               PROVE  ContextInv' /\ (Resumes => \A r \in Kept \ {1} : ComesBack(r))
    OBVIOUS
  <1>1. ASSUME NEW n \in Stamps, Compute(n)
        PROVE  ContextInv' /\ ~Resumes
    BY <1>1, ComputeInv DEF Resumes, Compute
  <1>2. ASSUME ~Overrun, NEW next \in Procs, Interrupt(next)
        PROVE  ContextInv' /\ \A r \in Kept \ {1} : ComesBack(r)
    BY <1>2, InterruptInv DEF ComesBack
  <1>3. CASE el0_a64_sync
    BY <1>3, SyscallInv DEF Resumes, el0_a64_sync
  <1>4. CASE UNCHANGED contextVars
    BY <1>4 DEF contextVars, ContextInv, ContextTypeOK, OwnRegistersOnly, OwnSlots,
                Preserved, Kept, Resumes
  <1> QED BY <1>1, <1>2, <1>3, <1>4 DEF ContextNext
-----------------------------------------------------------------------------
(* The invariant of every behaviour, from which the others follow.         *)
THEOREM ContextInvariant == ContextSpec => []ContextInv
  BY ContextInitInv, ContextStepInv, PTL DEF ContextSpec

(* Types, for any processes.                                               *)
THEOREM ContextTypeCorrect == ContextSpec => []ContextTypeOK
  <1>1. ContextInv => ContextTypeOK
    BY DEF ContextInv
  <1> QED BY <1>1, ContextInvariant, PTL

(* General registers stay apart: whatever is saved to wrong slots or left  *)
(* stale, no process runs with what another one computed in x0 to x30, or  *)
(* with its stack, flags or instruction.                                   *)
THEOREM ProcessesApart == ContextSpec => []OwnRegistersOnly
  <1>1. ContextInv => OwnRegistersOnly
    BY DEF ContextInv
  <1> QED BY <1>1, ContextInvariant, PTL

(* A process goes on where it was interrupted, whoever ran in between.     *)
THEOREM ResumesExactly == ContextSpec => ResumesWhereStopped
  <1>1. ContextInv /\ [ContextNext]_contextVars
            => [Resumes => \A r \in Kept \ {1} : ComesBack(r)]_contextVars
    BY ContextStepInv
  <1> QED BY <1>1, ContextInvariant, PTL DEF ContextSpec, ResumesWhereStopped
=============================================================================
