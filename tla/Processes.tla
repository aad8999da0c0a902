----------------------------- MODULE Processes ------------------------------
(***************************************************************************)
(* Creating processes: pm_create of src/manage/pm.c with the memory map of *)
(* manage/mm.c and exmm.c, loading an ELF image (global/meta.c), and the   *)
(* brk system call on what was loaded.  There is no way to end a process:  *)
(* pm_delete is empty and mm_free is never reached.                        *)
(*                                                                         *)
(* The memory map is a stack of 2-bit entries, each a number of Units; an  *)
(* address is found by adding up the entries below one, a word of them at  *)
(* a time.                                                                 *)
(***************************************************************************)
EXTENDS Integers, Sequences, FiniteSetsExt

CONSTANTS MaxPcb,       \* MAX_PCB_SIZE
          PageTables,   \* how many page tables the kernel heap can hold
          Bottom,       \* sp_bot, the number of entries of the map
          Word,         \* the entries in 64 bits of the map
          Unit,         \* the size of 128 KB, and of
          Reserve,      \* PROC_STACK_RESERVE, and of
          Quantum,      \* 16 bytes, to which the heap is aligned
          ProcUnits,    \* INITIAL_PROC_SIZE, in units
          Base,         \* USER_PROC_START
          Wide,         \* the values of a uint64_t: addresses wrap there
          Images,       \* the ELF images in files
          Grants        \* what processes ask brk for

ASSUME ProcessesAssumption ==
    /\ MaxPcb \in Nat \ {0} /\ PageTables \in Nat /\ PageTables < MaxPcb
    /\ Bottom \in Nat /\ Word \in Nat \ {0}
    /\ Unit \in Nat \ {0} /\ Reserve \in Nat /\ Quantum \in Nat \ {0}
    /\ ProcUnits \in Nat \ {0} /\ Reserve < Unit
    /\ Base \in Nat \ {0} /\ Grants \subseteq Nat

Uint16 == 65536  \* the values of a uint16_t

Size == Unit * ProcUnits  \* the memory of a process

(* What mm_find adds up is at most what all processes have.                *)
ASSUME UnitsAssumption == MaxPcb * ProcUnits < Uint16

(* The memory of all processes is in the lower half of the addresses, and  *)
(* they end at a multiple of the quantum.                                  *)
ASSUME WideAssumption ==
    /\ Wide \in Nat /\ 2 * (Base + Size * MaxPcb + Quantum) <= Wide
    /\ Wide % Quantum = 0

(* The headers of the segments of an image may hold any 64 bits.  Of the   *)
(* alignment it is assumed that it is a power of two, as ELF has it: the   *)
(* mask of the loader rounds up to no other, and never wraps for one.      *)
ASSUME ImagesAssumption ==
    \A image \in Images :
        /\ image.segments \in Seq([vaddr : 0 .. Wide - 1, memsz : 0 .. Wide - 1])
        /\ image.align \in Nat \ {0} /\ 2 * image.align <= Wide /\ Wide % image.align = 0
        /\ image.entry \in 0 .. Wide - 1 /\ image.valid \in BOOLEAN

VARIABLES is_alloc,  \* the slots in use
          pages,     \* how many page tables are allocated
          mem,       \* MMv5_mem up to sp_top
          pcb,       \* id -> process control block
          ret        \* the id or address the last call returned, or a failure

vars == <<is_alloc, pages, mem, pcb, ret>>

NULL == 0
Minus1 == -1
Slots == 0 .. MaxPcb - 1
Up(a, n) == n * ((a + n - 1) \div n)

EmptyPcb == [mm_addr |-> 0, sp |-> 0, elr |-> 0, loaded |-> {},
             heap_start |-> 0, heap_break |-> 0, heap_limit |-> 0]

Init ==
    /\ is_alloc = {}
    /\ pages = 0
    /\ mem = <<>>
    /\ pcb = [id \in 1 .. MaxPcb - 1 |-> EmptyPcb]
    /\ ret = NULL
-----------------------------------------------------------------------------
(* The entries for one process: threes, and what remains.                  *)
Shares == LET rest == ProcUnits % 3
          IN  [i \in 1 .. ProcUnits \div 3 |-> 3] \o (IF rest = 0 THEN <<>> ELSE <<rest>>)

(* MMv5_regu_push of every entry, or nothing when they do not all fit.     *)
mm_creat(m) == IF Len(m) + Len(Shares) > Bottom THEN m ELSE m \o Shares

(* The sum of the first n of a sequence of numbers, for every n.           *)
Sums(s) == LET sum[n \in 0 .. Len(s)] == IF n = 0 THEN 0 ELSE sum[n - 1] + s[n]
           IN  sum

Total(s) == Sums(s)[Len(s)]

(* The sum of the entries of a 64-bit word, of which the first n count.    *)
Counted(m, word, n) == Total(SubSeq(m, word * Word + 1, word * Word + n))

(* Mutant of mm_find: the word a is in does not count.                     *)
mm_find_FullWords(m, a) ==
    LET full == [w \in 1 .. a \div Word |-> Counted(m, w - 1, Word)]
    IN  Base + Unit * Total(full)

(* The words before entry a in full, and of its own word what is before a; *)
(* the sum is a uint16_t.                                                  *)
mm_find(m, a) ==
    LET full == [w \in 1 .. a \div Word |-> Counted(m, w - 1, Word)]
        rest == Counted(m, a \div Word, a % Word)
    IN  Base + Unit * ((Total(full) + rest) % Uint16)
-----------------------------------------------------------------------------
(* What a creation leaves: the state of the process and memory managers.   *)
Now == [is_alloc |-> is_alloc, pages |-> pages, mem |-> mem, pcb |-> pcb, ret |-> NULL]

Leaves(k) == /\ is_alloc' = k.is_alloc /\ pages' = k.pages /\ mem' = k.mem
             /\ pcb' = k.pcb /\ ret' = k.ret

(* Mutants of Take: the slot is not marked; of heap_free: twice, never.    *)
Take_Unmarked(k, slot) == [k EXCEPT !.pcb[slot + 1] = EmptyPcb]
heap_free_Twice(k) == [k EXCEPT !.pages = @ - 2]
heap_free_Forgotten(k) == k

(* The steps of a creation, and those that undo them.                      *)
Take(k, slot) == [k EXCEPT !.is_alloc = @ \cup {slot}, !.pcb[slot + 1] = EmptyPcb]
GiveBack(k, slot) == [k EXCEPT !.is_alloc = @ \ {slot}]
heap_alloc(k) == [k EXCEPT !.pages = @ + 1]
heap_free(k) == [k EXCEPT !.pages = @ - 1]

(* heap says whether heap_alloc has room for the page table.               *)
pm_create(entry, heap) ==
    LET slot == Min(Slots \ is_alloc)
        id == slot + 1
        taken == Take(Now, slot)
        paged == heap_alloc(taken)
        sized == [paged EXCEPT !.mem = mm_creat(@), !.pcb[id].mm_addr = Len(mem)]
    IN  IF is_alloc = Slots THEN Now
        ELSE IF ~heap THEN GiveBack(taken, slot)
        ELSE IF sized.mem = mem THEN GiveBack(heap_free(paged), slot)
        ELSE [sized EXCEPT !.pcb[id].sp = mm_find(sized.mem, Len(mem)) + Size,
                           !.pcb[id].elr = entry, !.ret = id]

(* Where a segment ends, as the loader computes it, and whether it does    *)
(* end there, within the addresses.                                        *)
End(segment) == (segment.vaddr + segment.memsz) % Wide
Unwrapped(segment) == segment.vaddr + segment.memsz < Wide

(* Where a segment is copied to, from from up to and without to.           *)
Dest(base, low, segment) ==
    LET from == (base + segment.vaddr - low) % Wide
    IN  [segment |-> segment, from |-> from, to |-> from + segment.memsz]

(* elf_load_image, for the process k has just created.  A malformed image  *)
(* and one that leaves no room for the stack are refused; a segment that   *)
(* is found not to fit by itself, when those before it have been copied;   *)
(* and an image that is entered before its start, when all have been.      *)
elf_load_image(k, image) ==
    LET id == k.ret
        segments == image.segments
        low == Min({Wide - 1} \cup {segments[i].vaddr : i \in DOMAIN segments})
        high == Max({0} \cup {End(segments[i]) : i \in DOMAIN segments})
        extent == (high - low) % Wide
        real_addr == mm_find(k.mem, k.pcb[id].mm_addr)
        load_base == Up(real_addr, image.align)
        heap_start == Up(load_base + extent, Quantum)
        heap_limit == real_addr + Size - Reserve
        reach == [i \in DOMAIN segments |->
                    (load_base - real_addr + segments[i].vaddr - low + segments[i].memsz) % Wide]
        far == {i \in DOMAIN segments : reach[i] > Size - Reserve}
        near == {i \in DOMAIN segments : \A j \in far : i < j}
        copied == [k EXCEPT !.pcb[id].loaded = {Dest(load_base, low, segments[i]) : i \in near},
                            !.ret = NULL]
    IN  IF ~image.valid \/ low = Wide - 1 THEN [k EXCEPT !.ret = NULL]
        ELSE IF extent > Size \/ heap_start > heap_limit THEN [k EXCEPT !.ret = NULL]
        ELSE IF far # {} \/ image.entry < low THEN copied
        ELSE [copied EXCEPT !.pcb[id].elr = (load_base + image.entry - low) % Wide,
                            !.pcb[id].heap_start = heap_start,
                            !.pcb[id].heap_break = heap_start,
                            !.pcb[id].heap_limit = heap_limit,
                            !.ret = id]

(* mata_exec_file on a file of mode DIRECT and of mode IMAGE.              *)
exec_direct(heap) == Leaves(pm_create(1, heap))

exec_image(image, heap) ==
    LET k == pm_create(0, heap)
    IN  Leaves(IF k.ret = NULL THEN k ELSE elf_load_image(k, image))

(* Mutant of brk_call: the limit is compared with what is asked for.       *)
brk_call_FromZero(id, n) ==
    LET p == pcb[id]
        granted == p.heap_start # 0 /\ n <= p.heap_limit
    IN  /\ ret' = IF granted THEN p.heap_break ELSE Minus1
        /\ pcb' = IF granted THEN [pcb EXCEPT ![id].heap_break = @ + n] ELSE pcb
        /\ UNCHANGED <<is_alloc, pages, mem>>

(* brk, called by the process id: n more bytes, or the break when n is 0.  *)
brk_call(id, n) ==
    LET p == pcb[id]
        granted == p.heap_start # 0 /\ (n = 0 \/ n <= p.heap_limit - p.heap_break)
    IN  /\ ret' = IF granted THEN p.heap_break ELSE Minus1
        /\ pcb' = IF granted THEN [pcb EXCEPT ![id].heap_break = @ + n] ELSE pcb
        /\ UNCHANGED <<is_alloc, pages, mem>>

(* The ids of the processes a creation was successful for.  Only those run.*)
Processes == {id \in DOMAIN pcb : pcb[id].sp # 0}

Next ==
    \/ \E heap \in BOOLEAN :
          /\ heap => pages < PageTables
          /\ exec_direct(heap) \/ \E image \in Images : exec_image(image, heap)
    \/ \E id \in Processes, n \in Grants : brk_call(id, n)

Spec == Init /\ [][Next]_vars
-----------------------------------------------------------------------------
(* Types; ids fit the process table.                                       *)
TypeOK ==
    /\ is_alloc \subseteq Slots
    /\ pages \in 0 .. PageTables
    /\ mem \in Seq(1 .. 3)
    /\ \A id \in DOMAIN pcb :
          /\ pcb[id].mm_addr \in 0 .. Bottom
          /\ {pcb[id].sp, pcb[id].elr, pcb[id].heap_start, pcb[id].heap_break,
              pcb[id].heap_limit} \subseteq Nat
    /\ ret \in Nat \cup {Minus1}

(* The memory of a process, as the loader and the stack pointer have it.   *)
Region(id) == mm_find(mem, pcb[id].mm_addr) .. pcb[id].sp - 1

(* Memory is handed out by adding up entries over and over, a word at a    *)
(* time: no process ever finds itself in another's memory, and what each   *)
(* was given stays where it was.                                           *)
RegionsDisjoint ==
    /\ \A id \in Processes : Cardinality(Region(id)) = Size
    /\ \A p, q \in Processes : p # q => Region(p) \cap Region(q) = {}

(* A creation that fails, for want of a slot, of a page table or of memory,*)
(* gives back all it took: slots, page tables and map entries agree.  (One *)
(* whose image is then refused stays, though its caller is told NULL.)     *)
NothingHalfMade ==
    /\ Cardinality(is_alloc) = pages
    /\ {id - 1 : id \in Processes} = is_alloc
    /\ Len(mem) = Len(Shares) * pages

(* The loaded segments, the heap brk extends and the stack never meet,     *)
(* however the image must be aligned: this is said of every segment that   *)
(* ends within 64 bits, whatever the others of its image are, and of every *)
(* heap.  (The sizes elf_load_image adds up are 64 bits wide: where a      *)
(* segment that ends beyond them is copied to is not claimed.)             *)
HeapInRegion ==
    \A id \in Processes :
        LET p == pcb[id]
            ends == {d \in p.loaded : Unwrapped(d.segment)}
        IN  /\ \A d \in ends : d.from .. d.to - 1 \subseteq Region(id)
            /\ p.heap_start # 0 =>
                  /\ \A d \in ends : d.to <= p.heap_start
                  /\ p.heap_start <= p.heap_break /\ p.heap_break <= p.heap_limit
                  /\ p.heap_limit + Reserve = p.sp

(* A break only grows, so that no part of a heap is granted twice; and no  *)
(* creation changes a process there is already.                            *)
EarlierKept ==
    [][\A id \in Processes :
          /\ pcb'[id].heap_break >= pcb[id].heap_break
          /\ [pcb'[id] EXCEPT !.heap_break = 0] = [pcb[id] EXCEPT !.heap_break = 0]]_vars
=============================================================================
