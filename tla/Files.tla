------------------------------- MODULE Files --------------------------------
(***************************************************************************)
(* Files and the descriptors through which processes use them: the part of *)
(* src/manage/fm.c about files, and the file system calls of               *)
(* handler/syscall.c.  Module Directories has the rest of fm.c.            *)
(*                                                                         *)
(* A system call is one step (interrupts are masked), of any process.  The *)
(* name index is a map, which module BPTree shows; names are taken to have *)
(* different hashes, and nodes not to run out.                             *)
(***************************************************************************)
EXTENDS Integers, Sequences, FiniteSets

CONSTANTS Procs,           \* the processes
          Names,           \* what files are called
          MAX_FILE_NUM,
          Fids,            \* 2^5, the values of the field fid
          KB,              \* the bytes to which lens is rounded down
          MAX_FILE_SIZE,
          MAX_CONTROL_NUM,
          Sizes,           \* the sizes asked for
          Bytes,           \* the values of a byte
          Writes,          \* what is written in one call
          Counts,          \* how much is read in one call
          MaxOffset        \* bound: a descriptor does not go beyond it

ASSUME FilesAssumption ==
    /\ MAX_FILE_NUM \in Nat \ {0} /\ Fids \in Nat \ {0}
    /\ KB \in Nat \ {0} /\ MAX_FILE_SIZE \in Nat \ {0}
    /\ MAX_CONTROL_NUM \in Nat \ {0}
    /\ MaxOffset \in Nat /\ MaxOffset >= MAX_FILE_SIZE
    /\ Sizes \subseteq Nat /\ Counts \subseteq Nat
    /\ 0 \in Bytes /\ Writes \subseteq Seq(Bytes)

VARIABLES root,          \* name -> number: the index of files
          mem,           \* FMv3_mem of the numbers given out
          all_file_num,  \* the number of the next file
          data,          \* the memory from base on
          control,       \* process -> descriptor -> ctrl_t
          out            \* what read_call put into buf, if it was the last call

vars == <<root, mem, all_file_num, data, control, out>>

NULL == 0
Fds == 0 .. MAX_CONTROL_NUM - 1
Lesser(a, b) == IF a < b THEN a ELSE b

(* A ctrl_t.  use_file is the number of the control block pointed to; 0    *)
(* for NULL, and for the console, which open_call never gives out again.   *)
Closed == [is_ctrl_alloc |-> FALSE, is_file |-> FALSE, use_file |-> NULL, file_offset |-> 0]
Console == [Closed EXCEPT !.is_ctrl_alloc = TRUE]

Init ==
    /\ root = <<>>
    /\ mem = <<>>
    /\ all_file_num = 1
    /\ data = [a \in 0 .. Fids * MAX_FILE_SIZE - 1 |-> 0]
    /\ control = [p \in Procs |-> [fd \in Fds |-> IF fd = 0 THEN Console ELSE Closed]]
    /\ out = <<>>
-----------------------------------------------------------------------------
(* fm_data_addr, relative to base, and the size of a file.                 *)
fm_data_addr(n) == mem[n].fid * MAX_FILE_SIZE
file_size(n) == mem[n].lens * KB

(* How much fm_read and fm_write move: nothing without a file, nothing     *)
(* past its end, and never beyond it.                                      *)
Moved(n, size, offset) ==
    IF n = NULL THEN 0
    ELSE IF offset >= file_size(n) THEN 0
    ELSE Lesser(size, file_size(n) - offset)

(* Mutant of fm_write: without the shortening to the end of the file.      *)
fm_write_Unclipped(n, bytes, offset) ==
    LET k == IF Moved(n, Len(bytes), offset) = 0 THEN 0 ELSE Len(bytes)
    IN  IF k = 0 THEN data
        ELSE [a \in DOMAIN data |->
                 LET i == a - fm_data_addr(n) - offset + 1
                 IN  IF i \in 1 .. k THEN bytes[i] ELSE data[a]]

fm_write(n, bytes, offset) ==
    LET k == Moved(n, Len(bytes), offset)
    IN  IF k = 0 THEN data
        ELSE [a \in DOMAIN data |->
                 LET i == a - fm_data_addr(n) - offset + 1
                 IN  IF i \in 1 .. k THEN bytes[i] ELSE data[a]]

fm_read(n, size, offset) ==
    [i \in 1 .. Moved(n, size, offset) |-> data[fm_data_addr(n) + offset + i - 1]]
-----------------------------------------------------------------------------
(* fm_create: the number is used for the block, and five bits of it for    *)
(* the data.  The listing in "root" is in Directories.                     *)
file_create_call(name, size) ==
    /\ out' = <<>>
    /\ UNCHANGED <<data, control>>
    /\ IF size > MAX_FILE_SIZE \/ all_file_num >= MAX_FILE_NUM \/ name \in DOMAIN root
       THEN UNCHANGED <<root, mem, all_file_num>>
       ELSE /\ root' = [x \in DOMAIN root \cup {name} |->
                           IF x = name THEN all_file_num ELSE root[x]]
            /\ mem' = Append(mem, [lens |-> size \div KB, fid |-> all_file_num % Fids])
            /\ all_file_num' = all_file_num + 1

(* fm_delete forgets the name, and only it.                                *)
file_del_call(name) ==
    /\ out' = <<>>
    /\ root' = [x \in DOMAIN root \ {name} |-> root[x]]
    /\ UNCHANGED <<mem, all_file_num, data, control>>

Free(p) == {fd \in Fds \ {0} : ~control[p][fd].is_ctrl_alloc}

(* Mutant of open_call: a failure leaves the descriptor taken.             *)
open_call_Leaky(p, name, device, append) ==
    /\ out' = <<>>
    /\ UNCHANGED <<root, mem, all_file_num, data>>
    /\ IF Free(p) = {}
       THEN UNCHANGED control
       ELSE \E fd \in Free(p) :
               /\ \A g \in Free(p) : fd <= g
               /\ control' = [control EXCEPT ![p][fd] =
                     IF device \/ name \notin DOMAIN root
                     THEN [@ EXCEPT !.is_ctrl_alloc = TRUE]
                     ELSE [is_ctrl_alloc |-> TRUE, is_file |-> TRUE, use_file |-> root[name],
                           file_offset |-> IF append THEN file_size(root[name]) ELSE 0]]

(* open_call takes the first free descriptor, and gives it back if there   *)
(* is no such file, or if a device was asked for: dm_find finds none,      *)
(* because nothing calls dm_creat.                                         *)
open_call(p, name, device, append) ==
    /\ out' = <<>>
    /\ UNCHANGED <<root, mem, all_file_num, data>>
    /\ IF Free(p) = {} \/ device \/ name \notin DOMAIN root
       THEN UNCHANGED control
       ELSE \E fd \in Free(p) :
               /\ \A g \in Free(p) : fd <= g
               /\ control' = [control EXCEPT ![p][fd] =
                     [is_ctrl_alloc |-> TRUE, is_file |-> TRUE, use_file |-> root[name],
                      file_offset |-> IF append THEN file_size(root[name]) ELSE 0]]

(* close_call leaves is_file and the offset; the console stays open.       *)
close_call(p, fd) ==
    /\ out' = <<>>
    /\ UNCHANGED <<root, mem, all_file_num, data>>
    /\ control' = IF fd = 0 THEN control
                  ELSE [control EXCEPT ![p][fd].is_ctrl_alloc = FALSE,
                                       ![p][fd].use_file = NULL]

(* read_call of a file: from `at', or from where the descriptor is if that *)
(* is less; the descriptor goes on by what was read in both cases.         *)
read_call(p, fd, count, at) ==
    LET c == control[p][fd]
        got == fm_read(c.use_file, count, Lesser(at, c.file_offset))
    IN  /\ UNCHANGED <<root, mem, all_file_num, data>>
        /\ IF count = 0 \/ ~c.is_ctrl_alloc \/ ~c.is_file
           THEN out' = <<>> /\ UNCHANGED control
           ELSE /\ c.file_offset + Len(got) <= MaxOffset
                /\ out' = got
                /\ control' = [control EXCEPT ![p][fd].file_offset = @ + Len(got)]

(* write_call does not ask whether the descriptor is open.                 *)
write_call(p, fd, bytes) ==
    LET c == control[p][fd]
    IN  /\ out' = <<>>
        /\ UNCHANGED <<root, mem, all_file_num>>
        /\ IF ~c.is_file
           THEN UNCHANGED <<data, control>>
           ELSE /\ data' = fm_write(c.use_file, bytes, c.file_offset)
                /\ control' = [control EXCEPT ![p][fd].file_offset =
                                  @ + Moved(c.use_file, Len(bytes), c.file_offset)]

Next ==
    \/ \E name \in Names, size \in Sizes : file_create_call(name, size)
    \/ \E name \in Names : file_del_call(name)
    \/ \E p \in Procs, name \in Names, device, append \in BOOLEAN :
          open_call(p, name, device, append)
    \/ \E p \in Procs, fd \in Fds :
          \/ close_call(p, fd)
          \/ \E count \in Counts, at \in 0 .. MaxOffset : read_call(p, fd, count, at)
          \/ \E bytes \in Writes : write_call(p, fd, bytes)

Spec == Init /\ [][Next]_vars
-----------------------------------------------------------------------------
Files == 1 .. all_file_num - 1

(* Every variable has its type.                                            *)
TypeOK ==
    /\ DOMAIN root \subseteq Names /\ \A name \in DOMAIN root : root[name] \in Files
    /\ all_file_num \in 1 .. MAX_FILE_NUM
    /\ mem \in Seq([lens : Nat, fid : 0 .. Fids - 1])
    /\ Len(mem) = all_file_num - 1
    /\ \A n \in Files : file_size(n) <= MAX_FILE_SIZE
    /\ data \in [0 .. Fids * MAX_FILE_SIZE - 1 -> Bytes]
    /\ control \in [Procs -> [Fds -> [is_ctrl_alloc : BOOLEAN, is_file : BOOLEAN,
                                      use_file : {NULL} \cup Files, file_offset : 0 .. MaxOffset]]]
    /\ out \in Seq(Bytes)

(* A descriptor that is taken, other than the console's, is a file's: a    *)
(* call that fails leaves none behind (syscall.c:289-310), so a process    *)
(* that closes what it opened can open as much again.                      *)
OpenMeansFile ==
    \A p \in Procs, fd \in Fds \ {0} :
        LET c == control[p][fd]
        IN  c.is_ctrl_alloc <=> c.use_file # NULL

(* While there are no more files than fid has values, deleted ones         *)
(* included, every step is one that FileStore allows: calls on one file    *)
(* never touch or show the bytes of another (fm.c:205-258, 339-344),       *)
(* whatever was deleted, made anew under the same name, or opened twice.   *)
(* Beyond that fm.c:342 gives files the same bytes.                        *)
Contents == [n \in Files |-> [i \in 1 .. file_size(n) |-> data[fm_data_addr(n) + i - 1]]]

Store == INSTANCE FileStore WITH contents <- Contents, MaxFileSize <- MAX_FILE_SIZE

ImplementsFileStore ==
    [][all_file_num' <= Fids + 1 => Store!Next]_vars
=============================================================================
