---------------------------- MODULE FilesProofs -----------------------------
(***************************************************************************)
(* What module Files checks on a small instance, for every number of       *)
(* processes, descriptors and files, every size, and whatever is written.  *)
(***************************************************************************)
EXTENDS Files, SequenceTheorems, TLAPS

(* A file's data is where its number, in five bits, says.                  *)
NumberedData == \A n \in Files : mem[n].fid = n % Fids

IInv == TypeOK /\ OpenMeansFile /\ NumberedData
-----------------------------------------------------------------------------
(* Arithmetic that the provers need in this form.                          *)
LEMMA RoundedDown ==
    ASSUME NEW a \in Nat, NEW b \in Nat, b > 0
    PROVE  (a \div b) * b <= a /\ a \div b \in Nat
  BY SMT

LEMMA InFids ==
    ASSUME NEW a \in Nat
    PROVE  a % Fids \in 0 .. Fids - 1
  BY FilesAssumption, SMT

LEMMA NextSlot ==
    ASSUME NEW a \in Nat, NEW b \in Nat, NEW c \in Nat, a < b
    PROVE  a * c + c <= b * c
  <1>1. PICK d \in Nat : b = a + 1 + d
    BY b - a - 1 \in Nat, SMT
  <1> QED BY <1>1, SMT

(* No two of the numbers 1 to Fids share a slot.                           *)
LEMMA SlotsDiffer ==
    ASSUME NEW n \in 1 .. Fids, NEW m \in 1 .. Fids, n # m
    PROVE  n % Fids # m % Fids
  <1>1. Fids \in Nat \ {0}
    BY FilesAssumption
  <1>2. /\ n % Fids = IF n = Fids THEN 0 ELSE n
        /\ m % Fids = IF m = Fids THEN 0 ELSE m
    BY <1>1, SMT
  <1> QED BY <1>1, <1>2, SMT

LEMMA ProductNat ==
    ASSUME NEW a \in Nat, NEW b \in Nat
    PROVE  a * b \in Nat
  BY SMT

(* The fields of a file's control block.                                   *)
LEMMA FileFields ==
    ASSUME TypeOK, NEW n \in Files
    PROVE  /\ n \in Nat \ {0} /\ n \in 1 .. Len(mem)
           /\ mem[n].lens \in Nat /\ mem[n].fid \in 0 .. Fids - 1
           /\ file_size(n) \in Nat /\ file_size(n) <= MAX_FILE_SIZE
  <1>1. n \in 1 .. Len(mem) /\ all_file_num \in Nat
    BY FilesAssumption DEF TypeOK, Files
  <1>2. mem[n] \in [lens : Nat, fid : 0 .. Fids - 1]
    BY <1>1, ElementOfSeq DEF TypeOK
  <1>3. file_size(n) \in Nat
    BY <1>2, ProductNat, FilesAssumption DEF file_size
  <1> QED BY <1>1, <1>2, <1>3 DEF TypeOK

(* What is moved lies in the file, and is no more than was asked for.      *)
LEMMA MovedInFile ==
    ASSUME TypeOK, NEW n \in {NULL} \cup Files, NEW size \in Nat, NEW offset \in Nat
    PROVE  /\ Moved(n, size, offset) \in 0 .. size
           /\ Moved(n, size, offset) > 0 =>
                 n \in Files /\ n # NULL /\ offset + Moved(n, size, offset) <= file_size(n)
  <1>1. CASE n = NULL
    BY <1>1 DEF Moved
  <1>2. CASE n \in Files
    BY <1>2, FileFields DEF Moved, Lesser, NULL
  <1> QED BY <1>1, <1>2

(* A slot's bytes are in the memory for files.                             *)
LEMMA SlotInData ==
    ASSUME NEW fid \in 0 .. Fids - 1, NEW i \in Nat, i < MAX_FILE_SIZE
    PROVE  fid * MAX_FILE_SIZE \in Nat /\ fid * MAX_FILE_SIZE + i \in 0 .. Fids * MAX_FILE_SIZE - 1
  <1>1. fid \in Nat /\ MAX_FILE_SIZE \in Nat /\ Fids \in Nat /\ fid < Fids
    BY FilesAssumption
  <1>2. fid * MAX_FILE_SIZE + MAX_FILE_SIZE <= Fids * MAX_FILE_SIZE
    BY <1>1, NextSlot
  <1>3. fid * MAX_FILE_SIZE \in Nat /\ Fids * MAX_FILE_SIZE \in Nat
    BY <1>1, ProductNat
  <1> QED BY <1>1, <1>2, <1>3

LEMMA AddressInData ==
    ASSUME TypeOK, NEW n \in Files, NEW i \in Nat, i < file_size(n)
    PROVE  fm_data_addr(n) \in Nat /\ fm_data_addr(n) + i \in 0 .. Fids * MAX_FILE_SIZE - 1
  <1>1. /\ mem[n].fid \in 0 .. Fids - 1 /\ i < MAX_FILE_SIZE
    BY FileFields, FilesAssumption
  <1> QED BY <1>1, SlotInData DEF fm_data_addr
-----------------------------------------------------------------------------
(* A descriptor, and all of them.                                          *)
Ctrl == [is_ctrl_alloc : BOOLEAN, is_file : BOOLEAN,
         use_file : {NULL} \cup Files, file_offset : 0 .. MaxOffset]
Controls == [Procs -> [Fds -> Ctrl]]

LEMMA InitInv == Init => IInv
  <1> SUFFICES ASSUME Init PROVE IInv
    OBVIOUS
  <1>1. Files = {} /\ all_file_num = 1 /\ mem = << >>
    BY DEF Files, Init
  <1>2. root = << >> /\ DOMAIN root = {}
    BY DEF Init
  <1>3. data \in [0 .. Fids * MAX_FILE_SIZE - 1 -> Bytes]
    BY FilesAssumption DEF Init
  <1>4. control \in Controls
    <2>1. 0 \in 0 .. MaxOffset
      BY FilesAssumption
    <2>2. Closed \in Ctrl
      BY <2>1 DEF Closed, Ctrl
    <2>3. Console \in Ctrl
      BY <2>1 DEF Console, Closed, Ctrl
    <2> QED BY <2>2, <2>3 DEF Init, Controls
  <1>5. TypeOK
    <2>1. out = << >>
      BY DEF Init
    <2>2. all_file_num \in 1 .. MAX_FILE_NUM
      BY <1>1, FilesAssumption
    <2>3. mem \in Seq([lens : Nat, fid : 0 .. Fids - 1]) /\ Len(mem) = all_file_num - 1
      BY <1>1, EmptySeq
    <2>4. out \in Seq(Bytes)
      BY <2>1, EmptySeq
    <2> QED BY <1>1, <1>2, <1>3, <1>4, <2>2, <2>3, <2>4 DEF TypeOK, Controls, Ctrl
  <1>6. OpenMeansFile
    BY DEF OpenMeansFile, Init, Console, Closed, NULL
  <1> QED BY <1>1, <1>5, <1>6 DEF IInv, NumberedData

(* A step that makes no file keeps what the invariant says of files.       *)
LEMMA SameFiles ==
    ASSUME IInv, UNCHANGED <<mem, all_file_num>>
    PROVE  /\ Files' = Files /\ NumberedData'
           /\ \A n \in Files : file_size(n)' = file_size(n) /\ fm_data_addr(n)' = fm_data_addr(n)
           /\ all_file_num' \in 1 .. MAX_FILE_NUM
           /\ mem' \in Seq([lens : Nat, fid : 0 .. Fids - 1])
           /\ Len(mem') = all_file_num' - 1
           /\ \A n \in Files' : file_size(n)' <= MAX_FILE_SIZE
  BY DEF IInv, TypeOK, Files, NumberedData, file_size, fm_data_addr

(* A new file gets a block of its own, with the size rounded down.         *)
LEMMA CreateFiles ==
    ASSUME IInv, NEW name \in Names, NEW size \in Sizes, file_create_call(name, size),
           all_file_num' # all_file_num
    PROVE  /\ all_file_num' = all_file_num + 1 /\ all_file_num \in Nat \ {0}
           /\ Files' = Files \cup {all_file_num} /\ all_file_num \notin Files
           /\ mem' \in Seq([lens : Nat, fid : 0 .. Fids - 1])
           /\ Len(mem') = all_file_num' - 1 /\ all_file_num' \in 1 .. MAX_FILE_NUM
           /\ \A n \in Files : mem'[n] = mem[n]
           /\ mem'[all_file_num].fid = all_file_num % Fids
           /\ mem'[all_file_num].lens * KB <= MAX_FILE_SIZE
           /\ DOMAIN root' = DOMAIN root \cup {name}
           /\ \A x \in DOMAIN root' : root'[x] = IF x = name THEN all_file_num ELSE root[x]
  <1> DEFINE block == [lens |-> size \div KB, fid |-> all_file_num % Fids]
  <1>1. /\ size <= MAX_FILE_SIZE /\ all_file_num < MAX_FILE_NUM
        /\ mem' = Append(mem, block) /\ all_file_num' = all_file_num + 1
        /\ root' = [x \in DOMAIN root \cup {name} |-> IF x = name THEN all_file_num ELSE root[x]]
    BY FilesAssumption, SMTT(30) DEF file_create_call, IInv, TypeOK
  <1>2. size \in Nat /\ KB \in Nat /\ KB > 0
    BY FilesAssumption
  <1>3. (size \div KB) * KB <= size /\ size \div KB \in Nat
    BY <1>2, RoundedDown
  <1>4. /\ all_file_num \in Nat \ {0} /\ MAX_FILE_NUM \in Nat /\ Len(mem) = all_file_num - 1
        /\ mem \in Seq([lens : Nat, fid : 0 .. Fids - 1])
    BY FilesAssumption DEF IInv, TypeOK
  <1>5. block \in [lens : Nat, fid : 0 .. Fids - 1]
    BY <1>3, <1>4, InFids
  <1>6. /\ mem' \in Seq([lens : Nat, fid : 0 .. Fids - 1]) /\ Len(mem') = Len(mem) + 1
        /\ \A n \in 1 .. Len(mem) : mem'[n] = mem[n]
        /\ mem'[Len(mem) + 1] = block
    BY <1>1, <1>4, <1>5, AppendProperties
  <1>7. /\ Files = 1 .. Len(mem) /\ Files' = 1 .. Len(mem) + 1
    BY <1>1, <1>4 DEF Files
  <1>8. mem'[all_file_num] = block
    BY <1>4, <1>6
  <1>9. (size \div KB) * KB <= MAX_FILE_SIZE
    <2> HIDE DEF block
    <2>1. (size \div KB) * KB \in Nat /\ MAX_FILE_SIZE \in Nat
      BY <1>2, <1>3, ProductNat, FilesAssumption
    <2> QED BY <1>1, <1>2, <1>3, <2>1
  <1> QED BY <1>1, <1>4, <1>6, <1>7, <1>8, <1>9

LEMMA CreateInv ==
    ASSUME IInv, NEW name \in Names, NEW size \in Sizes, file_create_call(name, size)
    PROVE  IInv'
  <1>1. /\ data' = data /\ control' = control /\ out' = << >>
    BY DEF file_create_call
  <1>2. out' \in Seq(Bytes) /\ data' \in [0 .. Fids * MAX_FILE_SIZE - 1 -> Bytes]
    BY <1>1, EmptySeq DEF IInv, TypeOK
  <1>3. OpenMeansFile'
    BY <1>1 DEF IInv, OpenMeansFile
  <1>4. CASE all_file_num' = all_file_num
    <2>1. root' = root /\ mem' = mem
      BY <1>4, FilesAssumption DEF file_create_call, IInv, TypeOK
    <2>2. Files' = Files /\ NumberedData'
      BY <1>4, <2>1, SameFiles
    <2>3. /\ all_file_num' \in 1 .. MAX_FILE_NUM
          /\ mem' \in Seq([lens : Nat, fid : 0 .. Fids - 1])
          /\ Len(mem') = all_file_num' - 1
          /\ \A n \in Files' : file_size(n)' <= MAX_FILE_SIZE
      BY <1>4, <2>1, SameFiles
    <2>4. DOMAIN root' \subseteq Names /\ \A x \in DOMAIN root' : root'[x] \in Files'
      BY <2>1, <2>2 DEF IInv, TypeOK
    <2>5. control' \in Controls'
      BY <1>1, <2>2 DEF IInv, TypeOK, Controls, Ctrl
    <2> QED BY <1>2, <1>3, <2>2, <2>3, <2>4, <2>5 DEF IInv, TypeOK, Controls, Ctrl
  <1>5. CASE all_file_num' # all_file_num
    <2>1. /\ all_file_num' = all_file_num + 1 /\ all_file_num \in Nat \ {0}
          /\ Files' = Files \cup {all_file_num} /\ all_file_num \notin Files
          /\ mem' \in Seq([lens : Nat, fid : 0 .. Fids - 1])
          /\ Len(mem') = all_file_num' - 1 /\ all_file_num' \in 1 .. MAX_FILE_NUM
          /\ \A n \in Files : mem'[n] = mem[n]
          /\ mem'[all_file_num].fid = all_file_num % Fids
          /\ mem'[all_file_num].lens * KB <= MAX_FILE_SIZE
          /\ DOMAIN root' = DOMAIN root \cup {name}
          /\ \A x \in DOMAIN root' : root'[x] = IF x = name THEN all_file_num ELSE root[x]
      BY <1>5, CreateFiles
    <2>2. \A n \in Files' : file_size(n)' <= MAX_FILE_SIZE
      BY <2>1 DEF IInv, TypeOK, file_size
    <2>3. NumberedData'
      BY <2>1 DEF IInv, NumberedData
    <2>4. DOMAIN root' \subseteq Names /\ \A x \in DOMAIN root' : root'[x] \in Files'
      BY <2>1 DEF IInv, TypeOK
    <2>5. control' \in Controls'
      BY <1>1, <2>1 DEF IInv, TypeOK, Controls, Ctrl
    <2> QED BY <1>2, <1>3, <2>1, <2>2, <2>3, <2>4, <2>5 DEF IInv, TypeOK, Controls, Ctrl
  <1> QED BY <1>4, <1>5

(* What is left to show of a step that makes no file.                      *)
LEMMA KeptInv ==
    ASSUME IInv, UNCHANGED <<mem, all_file_num>>,
           DOMAIN root' \subseteq DOMAIN root, \A x \in DOMAIN root' : root'[x] = root[x],
           data' \in [0 .. Fids * MAX_FILE_SIZE - 1 -> Bytes],
           control' \in Controls, out' \in Seq(Bytes), OpenMeansFile'
    PROVE  IInv'
  <1>1. /\ Files' = Files /\ NumberedData'
        /\ all_file_num' \in 1 .. MAX_FILE_NUM
        /\ mem' \in Seq([lens : Nat, fid : 0 .. Fids - 1])
        /\ Len(mem') = all_file_num' - 1
        /\ \A n \in Files' : file_size(n)' <= MAX_FILE_SIZE
    BY SameFiles
  <1>2. DOMAIN root' \subseteq Names /\ \A x \in DOMAIN root' : root'[x] \in Files'
    BY <1>1 DEF IInv, TypeOK
  <1>3. control' \in Controls'
    BY <1>1 DEF Controls, Ctrl
  <1> QED BY <1>1, <1>2, <1>3 DEF IInv, TypeOK, Controls, Ctrl

LEMMA DeleteInv ==
    ASSUME IInv, NEW name \in Names, file_del_call(name)
    PROVE  IInv'
  <1>1. control \in Controls /\ data' = data /\ control' = control
    BY DEF IInv, TypeOK, Controls, Ctrl, file_del_call
  <1>2. OpenMeansFile'
    BY <1>1 DEF IInv, OpenMeansFile
  <1>3. out' \in Seq(Bytes)
    BY EmptySeq DEF file_del_call
  <1>4. DOMAIN root' \subseteq DOMAIN root /\ \A x \in DOMAIN root' : root'[x] = root[x]
    BY DEF file_del_call
  <1>5. data' \in [0 .. Fids * MAX_FILE_SIZE - 1 -> Bytes]
    BY <1>1 DEF IInv, TypeOK
  <1>6. UNCHANGED <<mem, all_file_num>>
    BY DEF file_del_call
  <1> QED BY <1>1, <1>2, <1>3, <1>4, <1>5, <1>6, KeptInv

(* Setting one descriptor, to something of its type that is consistent.    *)
LEMMA SetControl ==
    ASSUME IInv, NEW p \in Procs, NEW fd \in Fds, NEW c \in Ctrl,
           fd # 0 => (c.is_ctrl_alloc <=> c.use_file # NULL),
           control' = [control EXCEPT ![p][fd] = c]
    PROVE  control' \in Controls /\ OpenMeansFile'
  <1>1. control \in Controls
    BY DEF IInv, TypeOK, Controls, Ctrl
  <1>2. control' \in Controls
    BY <1>1 DEF Controls
  <1>3. \A q \in Procs, g \in Fds : control'[q][g] = IF q = p /\ g = fd THEN c ELSE control[q][g]
    BY <1>1 DEF Controls
  <1> QED BY <1>2, <1>3 DEF IInv, OpenMeansFile

LEMMA OpenInv ==
    ASSUME IInv, NEW p \in Procs, NEW name \in Names,
           NEW device \in BOOLEAN, NEW append \in BOOLEAN, open_call(p, name, device, append)
    PROVE  IInv'
  <1>1. /\ data' = data /\ out' = << >> /\ UNCHANGED <<mem, all_file_num>> /\ root' = root
        /\ control \in Controls /\ OpenMeansFile
    BY DEF open_call, IInv, TypeOK, Controls, Ctrl
  <1>2. /\ data' \in [0 .. Fids * MAX_FILE_SIZE - 1 -> Bytes] /\ out' \in Seq(Bytes)
    BY <1>1, EmptySeq DEF IInv, TypeOK
  <1>3. control' \in Controls /\ OpenMeansFile'
    <2>1. CASE Free(p) = {} \/ device \/ name \notin DOMAIN root
      <3>1. control' = control
        BY <2>1 DEF open_call
      <3> QED BY <1>1, <3>1 DEF OpenMeansFile
    <2>2. CASE ~(Free(p) = {} \/ device \/ name \notin DOMAIN root)
      <3> DEFINE c == [is_ctrl_alloc |-> TRUE, is_file |-> TRUE, use_file |-> root[name],
                       file_offset |-> IF append THEN file_size(root[name]) ELSE 0]
      <3>1. PICK fd \in Free(p) : control' = [control EXCEPT ![p][fd] = c]
        BY <2>2 DEF open_call
      <3>2. fd \in Fds
        BY DEF Free
      <3>3. root[name] \in Files
        BY <2>2 DEF IInv, TypeOK
      <3>4. /\ root[name] # NULL /\ file_size(root[name]) \in 0 .. MaxOffset
        BY <3>3, FileFields, FilesAssumption DEF IInv, NULL
      <3>5. c \in Ctrl /\ c.is_ctrl_alloc /\ c.use_file # NULL
        BY <3>3, <3>4, FilesAssumption DEF Ctrl
      <3> HIDE DEF c
      <3> QED BY <3>1, <3>2, <3>5, SetControl
    <2> QED BY <2>1, <2>2
  <1> QED BY <1>1, <1>2, <1>3, KeptInv

LEMMA CloseInv ==
    ASSUME IInv, NEW p \in Procs, NEW fd \in Fds, close_call(p, fd)
    PROVE  IInv'
  <1>1. /\ data' = data /\ out' = << >> /\ UNCHANGED <<mem, all_file_num>> /\ root' = root
        /\ control \in Controls /\ OpenMeansFile
    BY DEF close_call, IInv, TypeOK, Controls, Ctrl
  <1>2. /\ data' \in [0 .. Fids * MAX_FILE_SIZE - 1 -> Bytes] /\ out' \in Seq(Bytes)
    BY <1>1, EmptySeq DEF IInv, TypeOK
  <1>3. CASE fd = 0
    <2>1. control' = control
      BY <1>3 DEF close_call
    <2>2. control' \in Controls /\ OpenMeansFile'
      BY <1>1, <2>1 DEF OpenMeansFile
    <2> QED BY <1>1, <1>2, <2>2, KeptInv
  <1>4. CASE fd # 0
    <2> DEFINE c == [control[p][fd] EXCEPT !.is_ctrl_alloc = FALSE, !.use_file = NULL]
    <2>1. control[p][fd] \in Ctrl
      BY <1>1 DEF Controls
    <2>2. c \in Ctrl /\ ~c.is_ctrl_alloc /\ c.use_file = NULL
      BY <2>1 DEF Ctrl
    <2>3. control' = [control EXCEPT ![p][fd] = c]
      BY <1>1, <1>4 DEF close_call, Controls, Ctrl
    <2> HIDE DEF c
    <2>4. control' \in Controls /\ OpenMeansFile'
      BY <2>2, <2>3, SetControl
    <2> QED BY <1>1, <1>2, <2>4, KeptInv
  <1> QED BY <1>3, <1>4

(* A descriptor that goes on by k bytes stays one.                         *)
LEMMA OffsetMoved ==
    ASSUME IInv, NEW p \in Procs, NEW fd \in Fds, NEW k \in Nat,
           control[p][fd].file_offset + k <= MaxOffset,
           control' = [control EXCEPT ![p][fd].file_offset = @ + k]
    PROVE  control' \in Controls /\ OpenMeansFile'
  <1> DEFINE c == [control[p][fd] EXCEPT !.file_offset = @ + k]
  <1>1. control \in Controls /\ control[p][fd] \in Ctrl
    BY DEF IInv, TypeOK, Controls, Ctrl
  <1>2. c \in Ctrl
    BY <1>1, FilesAssumption DEF Ctrl
  <1>3. control' = [control EXCEPT ![p][fd] = c]
    BY <1>1 DEF Controls, Ctrl
  <1>4. fd # 0 => (c.is_ctrl_alloc <=> c.use_file # NULL)
    BY <1>1 DEF IInv, OpenMeansFile, Ctrl
  <1> HIDE DEF c
  <1> QED BY <1>2, <1>3, <1>4, SetControl

(* What is read is a sequence of bytes, of the length that was moved.      *)
LEMMA ReadBytes ==
    ASSUME IInv, NEW n \in {NULL} \cup Files, NEW size \in Nat, NEW offset \in Nat
    PROVE  /\ fm_read(n, size, offset) \in Seq(Bytes)
           /\ Len(fm_read(n, size, offset)) = Moved(n, size, offset)
           /\ \A i \in 1 .. Moved(n, size, offset) :
                 fm_read(n, size, offset)[i] = data[fm_data_addr(n) + offset + i - 1]
  <1> DEFINE k == Moved(n, size, offset)
  <1>1. /\ k \in Nat
        /\ k > 0 => n \in Files /\ offset + k <= file_size(n)
    BY MovedInFile DEF IInv
  <1>2. ASSUME NEW i \in 1 .. k
        PROVE  data[fm_data_addr(n) + offset + i - 1] \in Bytes
    <2>1. n \in Files /\ offset + i - 1 \in Nat /\ offset + i - 1 < file_size(n)
      BY <1>1, FileFields DEF IInv
    <2>2. /\ fm_data_addr(n) \in Nat
          /\ fm_data_addr(n) + (offset + i - 1) \in 0 .. Fids * MAX_FILE_SIZE - 1
      BY <2>1, AddressInData DEF IInv
    <2>3. fm_data_addr(n) + offset + i - 1 = fm_data_addr(n) + (offset + i - 1)
      BY <2>2
    <2> QED BY <2>2, <2>3 DEF IInv, TypeOK
  <1>3. fm_read(n, size, offset) = [i \in 1 .. k |-> data[fm_data_addr(n) + offset + i - 1]]
    BY DEF fm_read
  <1> HIDE DEF k
  <1>4. fm_read(n, size, offset) \in Seq(Bytes) /\ Len(fm_read(n, size, offset)) = k
    BY <1>1, <1>2, <1>3
  <1> QED BY <1>3, <1>4 DEF k

LEMMA ReadInv ==
    ASSUME IInv, NEW p \in Procs, NEW fd \in Fds, NEW count \in Counts, NEW at \in 0 .. MaxOffset,
           read_call(p, fd, count, at)
    PROVE  IInv'
  <1> DEFINE c == control[p][fd]
             from == Lesser(at, c.file_offset)
             got == fm_read(c.use_file, count, from)
  <1>1. /\ data' = data /\ UNCHANGED <<mem, all_file_num>> /\ root' = root
        /\ control \in Controls /\ c \in Ctrl
    BY DEF read_call, IInv, TypeOK, Controls, Ctrl
  <1>2. data' \in [0 .. Fids * MAX_FILE_SIZE - 1 -> Bytes]
    BY <1>1 DEF IInv, TypeOK
  <1>3. CASE count = 0 \/ ~c.is_ctrl_alloc \/ ~c.is_file
    <2>1. out' = << >> /\ control' = control
      BY <1>3 DEF read_call
    <2>2. out' \in Seq(Bytes)
      BY <2>1, EmptySeq
    <2>3. control' \in Controls /\ OpenMeansFile'
      BY <1>1, <2>1 DEF OpenMeansFile, IInv
    <2> QED BY <1>1, <1>2, <2>2, <2>3, KeptInv
  <1>4. CASE ~(count = 0 \/ ~c.is_ctrl_alloc \/ ~c.is_file)
    <2>1. /\ c.file_offset + Len(got) <= MaxOffset /\ out' = got
          /\ control' = [control EXCEPT ![p][fd].file_offset = @ + Len(got)]
      BY <1>4 DEF read_call
    <2>2. /\ c.use_file \in {NULL} \cup Files /\ count \in Nat /\ from \in Nat
      BY <1>1, FilesAssumption DEF Ctrl, Lesser
    <2>3. got \in Seq(Bytes) /\ Len(got) \in Nat
      BY <2>2, ReadBytes, LenProperties
    <2> HIDE DEF got
    <2>4. control' \in Controls /\ OpenMeansFile'
      BY <2>1, <2>3, OffsetMoved
    <2> QED BY <1>1, <1>2, <2>1, <2>3, <2>4, KeptInv
  <1> QED BY <1>3, <1>4

(* What fm_write makes of the data: the bytes of one file from the offset  *)
(* on, and nothing else, are those that were to be written.                *)
LEMMA WrittenBytes ==
    ASSUME IInv, NEW n \in {NULL} \cup Files, NEW bytes \in Writes, NEW offset \in Nat
    PROVE  /\ fm_write(n, bytes, offset) \in [0 .. Fids * MAX_FILE_SIZE - 1 -> Bytes]
           /\ \A a \in 0 .. Fids * MAX_FILE_SIZE - 1 :
                 LET i == a - fm_data_addr(n) - offset + 1
                 IN  fm_write(n, bytes, offset)[a] =
                        IF i \in 1 .. Moved(n, Len(bytes), offset) THEN bytes[i] ELSE data[a]
  <1> DEFINE k == Moved(n, Len(bytes), offset)
             place(a) == a - fm_data_addr(n) - offset + 1
  <1>1. bytes \in Seq(Bytes) /\ Len(bytes) \in Nat
    BY FilesAssumption, LenProperties
  <1>2. k \in 0 .. Len(bytes)
    BY <1>1, MovedInFile DEF IInv
  <1>3. data \in [0 .. Fids * MAX_FILE_SIZE - 1 -> Bytes]
    BY DEF IInv, TypeOK
  <1>4. \A i \in 1 .. k : bytes[i] \in Bytes
    BY <1>1, <1>2, ElementOfSeq
  <1>5. CASE k = 0
    <2>1. fm_write(n, bytes, offset) = data
      BY <1>5 DEF fm_write
    <2> QED BY <1>3, <1>5, <2>1
  <1>6. CASE k # 0
    <2>1. fm_write(n, bytes, offset) =
             [a \in DOMAIN data |-> IF place(a) \in 1 .. k THEN bytes[place(a)] ELSE data[a]]
      BY <1>6 DEF fm_write
    <2> HIDE DEF k, place
    <2>2. /\ fm_write(n, bytes, offset) \in [0 .. Fids * MAX_FILE_SIZE - 1 -> Bytes]
          /\ \A a \in 0 .. Fids * MAX_FILE_SIZE - 1 :
                fm_write(n, bytes, offset)[a] = IF place(a) \in 1 .. k THEN bytes[place(a)] ELSE data[a]
      BY <1>3, <1>4, <2>1
    <2> QED BY <2>2 DEF k, place
  <1> QED BY <1>5, <1>6

LEMMA WriteInv ==
    ASSUME IInv, NEW p \in Procs, NEW fd \in Fds, NEW bytes \in Writes, write_call(p, fd, bytes)
    PROVE  IInv'
  <1> DEFINE c == control[p][fd]
             k == Moved(c.use_file, Len(bytes), c.file_offset)
  <1>1. /\ out' = << >> /\ UNCHANGED <<mem, all_file_num>> /\ root' = root
        /\ control \in Controls /\ c \in Ctrl
    BY DEF write_call, IInv, TypeOK, Controls, Ctrl
  <1>2. out' \in Seq(Bytes)
    BY <1>1, EmptySeq
  <1>3. CASE ~c.is_file
    <2>1. data' = data /\ control' = control
      BY <1>3 DEF write_call
    <2>2. control' \in Controls /\ OpenMeansFile' /\ data' \in [0 .. Fids * MAX_FILE_SIZE - 1 -> Bytes]
      BY <1>1, <2>1 DEF OpenMeansFile, IInv, TypeOK
    <2> QED BY <1>1, <1>2, <2>2, KeptInv
  <1>4. CASE c.is_file
    <2>1. /\ data' = fm_write(c.use_file, bytes, c.file_offset)
          /\ control' = [control EXCEPT ![p][fd].file_offset = @ + k]
      BY <1>4, <1>1 DEF write_call, Controls, Ctrl
    <2>2. /\ c.use_file \in {NULL} \cup Files /\ c.file_offset \in Nat
          /\ c.file_offset \in 0 .. MaxOffset /\ Len(bytes) \in Nat
      <3>1. bytes \in Seq(Bytes)
        BY FilesAssumption
      <3> QED BY <1>1, <3>1, LenProperties, FilesAssumption DEF Ctrl
    <2>3. data' \in [0 .. Fids * MAX_FILE_SIZE - 1 -> Bytes]
      BY <2>1, <2>2, WrittenBytes
    <2>4. /\ k \in Nat
          /\ k > 0 => c.use_file \in Files /\ c.file_offset + k <= file_size(c.use_file)
      <3>1. /\ k \in 0 .. Len(bytes)
            /\ k > 0 => c.use_file \in Files /\ c.file_offset + k <= file_size(c.use_file)
        <4>1. TypeOK
          BY DEF IInv
        <4> HIDE DEF c
        <4> QED BY <2>2, <4>1, MovedInFile
      <3> HIDE DEF k, c
      <3> QED BY <2>2, <3>1
    <2>5. k > 0 => file_size(c.use_file) \in Nat /\ file_size(c.use_file) <= MAX_FILE_SIZE
      BY <2>4, FileFields DEF IInv
    <2>6. c.file_offset + k <= MaxOffset
      BY <2>2, <2>4, <2>5, FilesAssumption
    <2> HIDE DEF k
    <2>7. control' \in Controls /\ OpenMeansFile'
      BY <2>1, <2>4, <2>6, OffsetMoved
    <2> QED BY <1>1, <1>2, <2>3, <2>7, KeptInv
  <1> QED BY <1>3, <1>4

LEMMA NextInv == IInv /\ [Next]_vars => IInv'
  <1> SUFFICES ASSUME IInv, [Next]_vars PROVE IInv'
    OBVIOUS
  <1>1. ASSUME NEW name \in Names, NEW size \in Sizes, file_create_call(name, size) PROVE IInv'
    BY <1>1, CreateInv
  <1>2. ASSUME NEW name \in Names, file_del_call(name) PROVE IInv'
    BY <1>2, DeleteInv
  <1>3. ASSUME NEW p \in Procs, NEW name \in Names, NEW device \in BOOLEAN, NEW append \in BOOLEAN,
               open_call(p, name, device, append)
        PROVE  IInv'
    BY <1>3, OpenInv
  <1>4. ASSUME NEW p \in Procs, NEW fd \in Fds, close_call(p, fd) PROVE IInv'
    BY <1>4, CloseInv
  <1>5. ASSUME NEW p \in Procs, NEW fd \in Fds, NEW count \in Counts, NEW at \in 0 .. MaxOffset,
               read_call(p, fd, count, at)
        PROVE  IInv'
    BY <1>5, ReadInv
  <1>6. ASSUME NEW p \in Procs, NEW fd \in Fds, NEW bytes \in Writes, write_call(p, fd, bytes)
        PROVE  IInv'
    BY <1>6, WriteInv
  <1>7. CASE UNCHANGED vars
    <2>1. /\ UNCHANGED <<mem, all_file_num>> /\ root' = root /\ data' = data
          /\ control' = control /\ out' = out
      BY <1>7 DEF vars
    <2>2. /\ control' \in Controls /\ out' \in Seq(Bytes)
          /\ data' \in [0 .. Fids * MAX_FILE_SIZE - 1 -> Bytes]
      BY <2>1 DEF IInv, TypeOK, Controls, Ctrl
    <2>3. OpenMeansFile'
      BY <2>1 DEF IInv, OpenMeansFile
    <2> QED BY <2>1, <2>2, <2>3, KeptInv
  <1> QED BY <1>1, <1>2, <1>3, <1>4, <1>5, <1>6, <1>7 DEF Next

(* The induction.                                                          *)
THEOREM FilesInvariant == Spec => []IInv
  BY InitInv, NextInv, PTL DEF Spec

(* Every variable has its type: among others, no file is larger than its   *)
(* slot (fm.c:24-70).                                                      *)
THEOREM TypeCorrect == Spec => []TypeOK
  BY FilesInvariant, PTL DEF IInv

(* A taken descriptor is a file's, after every call that fails too         *)
(* (syscall.c:252-349).                                                    *)
THEOREM DescriptorsNotLost == Spec => []OpenMeansFile
  BY FilesInvariant, PTL DEF IInv
-----------------------------------------------------------------------------
(* The contents of a file.                                                 *)
LEMMA ContentsOf ==
    ASSUME IInv
    PROVE  /\ DOMAIN Contents = Files /\ Len(Contents) = all_file_num - 1
           /\ \A n \in Files :
                 /\ DOMAIN Contents[n] = 1 .. file_size(n) /\ Len(Contents[n]) = file_size(n)
                 /\ Contents[n] \in [1 .. file_size(n) -> Bytes]
                 /\ \A i \in 1 .. file_size(n) : Contents[n][i] = data[fm_data_addr(n) + i - 1]
  <1>1. all_file_num - 1 \in Nat
    BY FilesAssumption DEF IInv, TypeOK
  <1>2. DOMAIN Contents = Files /\ Len(Contents) = all_file_num - 1
    BY <1>1 DEF Contents, Files
  <1>3. ASSUME NEW n \in Files
        PROVE  /\ DOMAIN Contents[n] = 1 .. file_size(n) /\ Len(Contents[n]) = file_size(n)
               /\ Contents[n] \in [1 .. file_size(n) -> Bytes]
               /\ \A i \in 1 .. file_size(n) : Contents[n][i] = data[fm_data_addr(n) + i - 1]
    <2>1. file_size(n) \in Nat
      BY FileFields DEF IInv
    <2>2. Contents[n] = [i \in 1 .. file_size(n) |-> data[fm_data_addr(n) + i - 1]]
      BY DEF Contents
    <2>3. ASSUME NEW i \in 1 .. file_size(n)
          PROVE  data[fm_data_addr(n) + i - 1] \in Bytes
      <3>1. i - 1 \in Nat /\ i - 1 < file_size(n)
        BY <2>1
      <3>2. /\ fm_data_addr(n) \in Nat
            /\ fm_data_addr(n) + (i - 1) \in 0 .. Fids * MAX_FILE_SIZE - 1
        BY <3>1, AddressInData DEF IInv
      <3>3. fm_data_addr(n) + i - 1 = fm_data_addr(n) + (i - 1)
        BY <3>2
      <3> QED BY <3>2, <3>3 DEF IInv, TypeOK
    <2> QED BY <2>1, <2>2, <2>3
  <1> QED BY <1>2, <1>3

(* Files whose numbers are at most Fids have no byte in common.            *)
LEMMA FilesDisjoint ==
    ASSUME IInv, all_file_num <= Fids + 1, NEW n \in Files, NEW m \in Files, n # m,
           NEW i \in 0 .. file_size(n) - 1, NEW j \in 0 .. file_size(m) - 1
    PROVE  fm_data_addr(n) + i # fm_data_addr(m) + j
  <1>1. /\ n \in 1 .. Fids /\ m \in 1 .. Fids /\ MAX_FILE_SIZE \in Nat
    BY FilesAssumption DEF Files, IInv, TypeOK
  <1>2. /\ mem[n].fid = n % Fids /\ mem[m].fid = m % Fids
        /\ mem[n].fid \in Nat /\ mem[m].fid \in Nat
        /\ file_size(n) \in Nat /\ file_size(n) <= MAX_FILE_SIZE
        /\ file_size(m) \in Nat /\ file_size(m) <= MAX_FILE_SIZE
    BY FileFields DEF IInv, NumberedData
  <1>3. mem[n].fid # mem[m].fid
    BY <1>1, <1>2, SlotsDiffer
  <1>4. fm_data_addr(n) \in Nat /\ fm_data_addr(m) \in Nat
    BY <1>1, <1>2, ProductNat DEF fm_data_addr
  <1>5. CASE mem[n].fid < mem[m].fid
    <2>1. fm_data_addr(n) + MAX_FILE_SIZE <= fm_data_addr(m)
      BY <1>1, <1>2, <1>5, NextSlot DEF fm_data_addr
    <2> QED BY <1>1, <1>2, <1>4, <2>1
  <1>6. CASE mem[m].fid < mem[n].fid
    <2>1. fm_data_addr(m) + MAX_FILE_SIZE <= fm_data_addr(n)
      BY <1>1, <1>2, <1>6, NextSlot DEF fm_data_addr
    <2> QED BY <1>1, <1>2, <1>4, <2>1
  <1> QED BY <1>2, <1>3, <1>5, <1>6

(* A step that touches neither files nor data is nothing to the store.     *)
LEMMA NothingStep ==
    ASSUME IInv, UNCHANGED <<mem, all_file_num, data>>, out' = << >>
    PROVE  Store!Next
  <1>1. Contents' = Contents
    BY DEF Contents, Files, file_size, fm_data_addr
  <1> QED BY <1>1 DEF Store!Next, Store!Nothing

(* Creating a file creates one, with what its slot held.                   *)
LEMMA CreateStep ==
    ASSUME IInv, NEW name \in Names, NEW size \in Sizes, file_create_call(name, size)
    PROVE  Store!Next
  <1>1. /\ data' = data /\ out' = << >>
    BY DEF file_create_call
  <1>2. CASE all_file_num' = all_file_num
    <2>1. mem' = mem
      BY <1>2, FilesAssumption DEF file_create_call, IInv, TypeOK
    <2> QED BY <1>1, <1>2, <2>1, NothingStep
  <1>3. CASE all_file_num' # all_file_num
    <2>1. PICK n \in Nat : n = all_file_num
      BY FilesAssumption DEF IInv, TypeOK
    <2> DEFINE len == mem'[n].lens * KB
               new == [i \in 1 .. len |-> data[mem'[n].fid * MAX_FILE_SIZE + i - 1]]
    <2>2. /\ n \in Nat \ {0} /\ Files' = Files \cup {n} /\ n \notin Files
          /\ mem' \in Seq([lens : Nat, fid : 0 .. Fids - 1])
          /\ Len(mem') = n /\ \A m \in Files : mem'[m] = mem[m]
          /\ len <= MAX_FILE_SIZE
      <3>1. /\ all_file_num' = all_file_num + 1 /\ all_file_num \in Nat \ {0}
            /\ Files' = Files \cup {all_file_num} /\ all_file_num \notin Files
            /\ mem' \in Seq([lens : Nat, fid : 0 .. Fids - 1])
            /\ Len(mem') = all_file_num' - 1
            /\ \A m \in Files : mem'[m] = mem[m]
            /\ mem'[all_file_num].lens * KB <= MAX_FILE_SIZE
        BY <1>3, CreateFiles
      <3>2. Len(mem') = n
        BY <2>1, <3>1
      <3> QED BY <2>1, <3>1, <3>2
    <2>3. mem'[n].lens \in Nat /\ mem'[n].fid \in 0 .. Fids - 1
      <3>1. n \in 1 .. Len(mem')
        BY <2>2
      <3>2. mem'[n] \in [lens : Nat, fid : 0 .. Fids - 1]
        BY <2>2, <3>1, ElementOfSeq
      <3> QED BY <3>2
    <2>4. len \in Nat /\ len \in 0 .. MAX_FILE_SIZE
      BY <2>2, <2>3, ProductNat, FilesAssumption
    <2>5. new \in [1 .. len -> Bytes]
      <3> SUFFICES ASSUME NEW i \in 1 .. len
                   PROVE  data[mem'[n].fid * MAX_FILE_SIZE + i - 1] \in Bytes
        BY Zenon
      <3>1. i - 1 \in Nat /\ i - 1 < MAX_FILE_SIZE
        BY <2>4, FilesAssumption
      <3>2. /\ mem'[n].fid * MAX_FILE_SIZE \in Nat
            /\ mem'[n].fid * MAX_FILE_SIZE + (i - 1) \in 0 .. Fids * MAX_FILE_SIZE - 1
        BY <2>3, <3>1, SlotInData
      <3>3. mem'[n].fid * MAX_FILE_SIZE + i - 1 = mem'[n].fid * MAX_FILE_SIZE + (i - 1)
        BY <3>2
      <3> QED BY <3>2, <3>3 DEF IInv, TypeOK
    <2>6. Contents' = [m \in DOMAIN Contents \cup {n} |-> IF m = n THEN new ELSE Contents[m]]
      <3>1. DOMAIN Contents = Files
        BY DEF Contents
      <3>2. Contents' = [m \in Files \cup {n} |->
                           [i \in 1 .. file_size(m)' |-> data[fm_data_addr(m)' + i - 1]]]
        BY <1>1, <2>2 DEF Contents, fm_data_addr, file_size
      <3>3. [i \in 1 .. file_size(n)' |-> data[fm_data_addr(n)' + i - 1]] = new
        BY DEF file_size, fm_data_addr
      <3>4. \A m \in Files :
               [i \in 1 .. file_size(m)' |-> data[fm_data_addr(m)' + i - 1]] = Contents[m]
        BY <2>2 DEF Contents, file_size, fm_data_addr
      <3> HIDE DEF new
      <3> QED BY <2>2, <3>1, <3>2, <3>3, <3>4
    <2>7. n \in 1 .. Len(Contents) + 1 /\ n \notin DOMAIN Contents
      BY <2>1, <2>2, ContentsOf
    <2> HIDE DEF len, new
    <2>8. Store!Create(n)
      BY <1>1, <2>4, <2>5, <2>6, <2>7 DEF Store!Create
    <2> QED BY <2>7, <2>8 DEF Store!Next
  <1> QED BY <1>2, <1>3

(* A sequence of no bytes.                                                 *)
LEMMA NoBytes ==
    ASSUME NEW s \in Seq(Bytes), Len(s) = 0
    PROVE  s = << >>
  BY EmptySeq

(* Reading some bytes is reading them from the store, at the same place.   *)
LEMMA ReadStore ==
    ASSUME IInv, UNCHANGED <<mem, all_file_num, data>>,
           NEW n \in {NULL} \cup Files, NEW count \in Counts, NEW from \in Nat,
           out' = fm_read(n, count, from)
    PROVE  Store!Next
  <1> DEFINE k == Moved(n, count, from)
  <1>1. count \in Nat
    BY FilesAssumption
  <1>2. /\ out' \in Seq(Bytes) /\ Len(out') = k
        /\ \A i \in 1 .. k : out'[i] = data[fm_data_addr(n) + from + i - 1]
    BY <1>1, ReadBytes
  <1>3. /\ k \in 0 .. count
        /\ k > 0 => n \in Files /\ n # NULL /\ from + k <= file_size(n)
    BY <1>1, MovedInFile DEF IInv
  <1>4. CASE k = 0
    BY <1>2, <1>4, NoBytes, NothingStep
  <1>5. CASE k # 0
    <2>1. /\ n \in Files /\ n # NULL /\ from + k <= file_size(n)
          /\ file_size(n) \in Nat /\ file_size(n) <= MAX_FILE_SIZE
          /\ fm_data_addr(n) \in Nat
      <3>1. n \in Files /\ n # NULL /\ from + k <= file_size(n)
        BY <1>1, <1>3, <1>5
      <3>2. file_size(n) \in Nat /\ file_size(n) <= MAX_FILE_SIZE
        BY <3>1, FileFields DEF IInv
      <3>3. 0 < file_size(n)
        BY <1>3, <1>5, <3>1, <3>2, <1>1
      <3> QED BY <3>1, <3>2, <3>3, AddressInData DEF IInv
    <2>2. k = Store!Least(count, file_size(n) - from)
      <3>1. k = IF from >= file_size(n) THEN 0 ELSE Lesser(count, file_size(n) - from)
        BY <2>1 DEF Moved
      <3> QED BY <1>1, <1>5, <2>1, <3>1 DEF Store!Least, Lesser
    <2>3. /\ n \in DOMAIN Contents /\ Len(Contents[n]) = file_size(n)
          /\ \A i \in 1 .. file_size(n) :
                Contents[n][i] \in Bytes /\ Contents[n][i] = data[fm_data_addr(n) + i - 1]
      BY <2>1, ContentsOf
    <2> HIDE DEF k
    <2>4. from + 1 \in Int /\ from + k \in Int /\ \A i \in from + 1 .. from + k : Contents[n][i] \in Bytes
      BY <1>1, <1>3, <2>1, <2>3
    <2>5. /\ SubSeq(Contents[n], from + 1, from + k) \in Seq(Bytes)
          /\ Len(SubSeq(Contents[n], from + 1, from + k)) = k
          /\ \A i \in 1 .. k : SubSeq(Contents[n], from + 1, from + k)[i] = Contents[n][from + i]
      <3>1. /\ SubSeq(Contents[n], from + 1, from + k) \in Seq(Bytes)
            /\ Len(SubSeq(Contents[n], from + 1, from + k)) =
                  IF from + 1 <= from + k THEN (from + k) - (from + 1) + 1 ELSE 0
            /\ \A i \in 1 .. (from + k) - (from + 1) + 1 :
                  SubSeq(Contents[n], from + 1, from + k)[i] = Contents[n][(from + 1) + i - 1]
        BY <2>4, SubSeqProperties
      <3>2. (from + k) - (from + 1) + 1 = k /\ from + 1 <= from + k
        BY <1>1, <1>3, <1>5
      <3>3. \A i \in 1 .. k : (from + 1) + i - 1 = from + i
        OBVIOUS
      <3> QED BY <3>1, <3>2, <3>3
    <2>6. \A i \in 1 .. k : out'[i] = SubSeq(Contents[n], from + 1, from + k)[i]
      <3> SUFFICES ASSUME NEW i \in 1 .. k
                   PROVE  out'[i] = SubSeq(Contents[n], from + 1, from + k)[i]
        OBVIOUS
      <3>1. from + i \in 1 .. file_size(n)
        BY <1>1, <1>3, <2>1
      <3>2. fm_data_addr(n) + from + i - 1 = fm_data_addr(n) + (from + i) - 1
        BY <2>1
      <3> QED BY <1>2, <2>3, <2>5, <3>1, <3>2
    <2>7. out' = SubSeq(Contents[n], from + 1, from + k)
      BY <1>2, <2>5, <2>6, SeqEqual
    <2>8. Contents' = Contents
      BY DEF Contents, Files, file_size, fm_data_addr
    <2>9. Store!Read(n, from, count)
      BY <2>2, <2>3, <2>7, <2>8 DEF Store!Read, Store!Rest
    <2>10. from \in 0 .. MAX_FILE_SIZE - 1 /\ Store!Rest(n, from) > 0
      BY <1>1, <1>3, <1>5, <2>1, <2>3, FilesAssumption DEF Store!Rest
    <2> QED BY <2>3, <2>9, <2>10 DEF Store!Next
  <1> QED BY <1>4, <1>5

LEMMA ReadStep ==
    ASSUME IInv, NEW p \in Procs, NEW fd \in Fds, NEW count \in Counts, NEW at \in 0 .. MaxOffset,
           read_call(p, fd, count, at)
    PROVE  Store!Next
  <1> DEFINE c == control[p][fd]
             from == Lesser(at, c.file_offset)
  <1>1. UNCHANGED <<mem, all_file_num, data>>
    BY DEF read_call
  <1>2. CASE count = 0 \/ ~c.is_ctrl_alloc \/ ~c.is_file
    <2>1. out' = << >>
      BY <1>2 DEF read_call
    <2> QED BY <1>1, <2>1, NothingStep
  <1>3. CASE ~(count = 0 \/ ~c.is_ctrl_alloc \/ ~c.is_file)
    <2>1. out' = fm_read(c.use_file, count, from)
      BY <1>3 DEF read_call
    <2>2. c \in Ctrl
      BY DEF IInv, TypeOK, Ctrl
    <2>3. c.use_file \in {NULL} \cup Files /\ from \in Nat
      BY <2>2, FilesAssumption DEF Ctrl, Lesser
    <2> HIDE DEF c, from
    <2> QED BY <1>1, <2>1, <2>3, ReadStore
  <1> QED BY <1>2, <1>3

(* Writing some bytes is writing them to the store, at the same place of   *)
(* one file: the addresses written are those of that file, and no other's. *)
LEMMA WriteStore ==
    ASSUME IInv, all_file_num <= Fids + 1, UNCHANGED <<mem, all_file_num>>, out' = << >>,
           NEW n \in {NULL} \cup Files, NEW bytes \in Writes, NEW offset \in Nat,
           data' = fm_write(n, bytes, offset)
    PROVE  Store!Next
  <1> DEFINE k == Moved(n, Len(bytes), offset)
  <1>1. Len(bytes) \in Nat
    <2>1. bytes \in Seq(Bytes)
      BY FilesAssumption
    <2> QED BY <2>1, LenProperties
  <1>2. /\ k \in 0 .. Len(bytes)
        /\ k > 0 => n \in Files /\ n # NULL /\ offset + k <= file_size(n)
    BY <1>1, MovedInFile DEF IInv
  <1>3. \A a \in 0 .. Fids * MAX_FILE_SIZE - 1 :
           data'[a] = IF a - fm_data_addr(n) - offset + 1 \in 1 .. k
                      THEN bytes[a - fm_data_addr(n) - offset + 1] ELSE data[a]
    BY WrittenBytes
  <1>4. CASE k = 0
    <2>1. data' = data
      BY <1>4 DEF fm_write
    <2> QED BY <2>1, NothingStep
  <1>5. CASE k # 0
    <2>1. /\ n \in Files /\ n # NULL /\ offset + k <= file_size(n)
          /\ file_size(n) \in Nat /\ file_size(n) <= MAX_FILE_SIZE
          /\ k \in Nat \ {0}
      <3>1. n \in Files /\ n # NULL /\ offset + k <= file_size(n) /\ k \in Nat \ {0}
        BY <1>1, <1>2, <1>5
      <3>2. file_size(n) \in Nat /\ file_size(n) <= MAX_FILE_SIZE
        BY <3>1, FileFields DEF IInv
      <3> QED BY <3>1, <3>2
    <2>2. k = Store!Least(Len(bytes), file_size(n) - offset)
      <3>1. k = IF offset >= file_size(n) THEN 0 ELSE Lesser(Len(bytes), file_size(n) - offset)
        BY <2>1 DEF Moved
      <3> HIDE DEF k
      <3> QED BY <1>1, <1>5, <2>1, <3>1 DEF Store!Least, Lesser
    <2> HIDE DEF k
    <2>3. \A m \in Files : Len(Contents[m]) = file_size(m) /\ DOMAIN Contents[m] = 1 .. file_size(m)
      BY ContentsOf
    <2>4. Contents' = [m \in Files |-> [i \in 1 .. file_size(m) |-> data'[fm_data_addr(m) + i - 1]]]
      BY DEF Contents, Files, file_size, fm_data_addr
    <2> DEFINE new == [i \in DOMAIN Contents[n] |->
                          IF i \in offset + 1 .. offset + k THEN bytes[i - offset] ELSE Contents[n][i]]
    <2>5. ASSUME NEW m \in Files, NEW i \in 1 .. file_size(m)
          PROVE  /\ fm_data_addr(m) \in Nat /\ fm_data_addr(n) \in Nat /\ i \in Nat /\ file_size(m) \in Nat
                 /\ data'[fm_data_addr(m) + i - 1] =
                       IF m = n /\ i \in offset + 1 .. offset + k
                       THEN bytes[i - offset] ELSE data[fm_data_addr(m) + i - 1]
      <3> DEFINE a == fm_data_addr(m) + i - 1
                 j == a - fm_data_addr(n) - offset + 1
      <3>1. file_size(m) \in Nat /\ i \in Nat /\ i - 1 \in Nat /\ i - 1 < file_size(m)
        BY FileFields DEF IInv
      <3>2. /\ fm_data_addr(m) \in Nat
            /\ fm_data_addr(m) + (i - 1) \in 0 .. Fids * MAX_FILE_SIZE - 1
        BY <3>1, AddressInData DEF IInv
      <3>3. fm_data_addr(n) \in Nat
        <4>1. 0 < file_size(n)
          BY <2>1
        <4> QED BY <2>1, <4>1, AddressInData DEF IInv
      <3>4. a = fm_data_addr(m) + (i - 1) /\ a \in 0 .. Fids * MAX_FILE_SIZE - 1
        BY <3>1, <3>2
      <3>5. data'[a] = IF j \in 1 .. k THEN bytes[j] ELSE data[a]
        BY <1>3, <3>4
      <3>6. CASE m = n
        <4>1. j = i - offset /\ (j \in 1 .. k <=> i \in offset + 1 .. offset + k)
          BY <2>1, <3>1, <3>3, <3>6
        <4> HIDE DEF j
        <4> QED BY <3>1, <3>2, <3>3, <3>5, <3>6, <4>1
      <3>7. CASE m # n
        <4>1. m \in Files /\ m # n
          BY <3>7
        <4>2. j \notin 1 .. k
          <5> SUFFICES ASSUME j \in 1 .. k PROVE FALSE
            OBVIOUS
          <5>1. offset + j - 1 \in 0 .. file_size(n) - 1
            BY <2>1
          <5>2. fm_data_addr(m) + (i - 1) = fm_data_addr(n) + (offset + j - 1)
            BY <3>1, <3>2, <3>3, SMTT(30)
          <5>3. i - 1 \in 0 .. file_size(m) - 1
            BY <3>1
          <5> HIDE DEF j
          <5>4. fm_data_addr(m) + (i - 1) # fm_data_addr(n) + (offset + j - 1)
            BY <2>1, <4>1, <5>1, <5>3, FilesDisjoint
          <5> QED BY <5>2, <5>4
        <4> HIDE DEF j
        <4> QED BY <3>1, <3>2, <3>3, <3>5, <3>7, <4>2
      <3> QED BY <3>6, <3>7
    <2>6. ASSUME NEW m \in Files, m # n PROVE Contents'[m] = Contents[m]
      <3>1. \A i \in 1 .. file_size(m) :
               data'[fm_data_addr(m) + i - 1] = data[fm_data_addr(m) + i - 1]
        BY <2>5, <2>6
      <3>2. /\ Contents'[m] = [i \in 1 .. file_size(m) |-> data'[fm_data_addr(m) + i - 1]]
            /\ Contents[m] = [i \in 1 .. file_size(m) |-> data[fm_data_addr(m) + i - 1]]
        BY <2>4 DEF Contents
      <3> QED BY <3>1, <3>2
    <2>7. Contents'[n] = new
      <3>1. Contents'[n] = [i \in 1 .. file_size(n) |-> data'[fm_data_addr(n) + i - 1]]
        BY <2>1, <2>4
      <3>2. \A i \in 1 .. file_size(n) : Contents[n][i] = data[fm_data_addr(n) + i - 1]
        BY <2>1, ContentsOf
      <3>3. \A i \in 1 .. file_size(n) :
               data'[fm_data_addr(n) + i - 1] =
                  IF i \in offset + 1 .. offset + k THEN bytes[i - offset] ELSE Contents[n][i]
        BY <2>1, <2>5, <3>2
      <3> QED BY <2>1, <2>3, <3>1, <3>3
    <2> HIDE DEF new
    <2>8. Contents' = [Contents EXCEPT ![n] = new]
      <3>1. Contents' = [m \in Files |-> Contents'[m]] /\ Contents = [m \in Files |-> Contents[m]]
        BY <2>4 DEF Contents
      <3> QED BY <2>1, <2>6, <2>7, <3>1
    <2>9. Store!Write(n, offset, bytes)
      BY <2>1, <2>2, <2>3, <2>8 DEF Store!Write, Store!Rest, new
    <2>10. n \in DOMAIN Contents /\ offset \in 0 .. MAX_FILE_SIZE - 1 /\ Store!Rest(n, offset) > 0
      <3>1. n \in DOMAIN Contents
        BY <2>1 DEF Contents
      <3> QED BY <2>1, <2>3, <3>1, FilesAssumption DEF Store!Rest
    <2> QED BY <2>9, <2>10 DEF Store!Next
  <1> QED BY <1>4, <1>5

LEMMA WriteStep ==
    ASSUME IInv, all_file_num <= Fids + 1, NEW p \in Procs, NEW fd \in Fds, NEW bytes \in Writes,
           write_call(p, fd, bytes)
    PROVE  Store!Next
  <1> DEFINE c == control[p][fd]
  <1>1. UNCHANGED <<mem, all_file_num>> /\ out' = << >>
    BY DEF write_call
  <1>2. CASE ~c.is_file
    <2>1. data' = data
      BY <1>2 DEF write_call
    <2> QED BY <1>1, <2>1, NothingStep
  <1>3. CASE c.is_file
    <2>1. data' = fm_write(c.use_file, bytes, c.file_offset)
      BY <1>3 DEF write_call
    <2>2. c \in Ctrl
      BY DEF IInv, TypeOK, Ctrl
    <2>3. c.use_file \in {NULL} \cup Files /\ c.file_offset \in Nat
      BY <2>2, FilesAssumption DEF Ctrl
    <2> HIDE DEF c
    <2> QED BY <1>1, <2>1, <2>3, WriteStore
  <1> QED BY <1>2, <1>3

(* While there are at most Fids files, each call is one that the store of  *)
(* files allows (fm.c:205-258, 339-344).                                   *)
THEOREM FilesImplementStore == Spec => ImplementsFileStore
  <1>1. IInv /\ [Next]_vars => [all_file_num' <= Fids + 1 => Store!Next]_vars
    <2> SUFFICES ASSUME IInv, Next, all_file_num' <= Fids + 1
                 PROVE  Store!Next
      OBVIOUS
    <2>1. ASSUME NEW name \in Names, NEW size \in Sizes, file_create_call(name, size)
          PROVE  Store!Next
      BY <2>1, CreateStep
    <2>2. ASSUME NEW name \in Names, file_del_call(name) PROVE Store!Next
      BY <2>2, NothingStep DEF file_del_call
    <2>3. ASSUME NEW p \in Procs, NEW name \in Names, NEW device \in BOOLEAN, NEW append \in BOOLEAN,
                 open_call(p, name, device, append)
          PROVE  Store!Next
      BY <2>3, NothingStep DEF open_call
    <2>4. ASSUME NEW p \in Procs, NEW fd \in Fds, close_call(p, fd) PROVE Store!Next
      BY <2>4, NothingStep DEF close_call
    <2>5. ASSUME NEW p \in Procs, NEW fd \in Fds, NEW count \in Counts, NEW at \in 0 .. MaxOffset,
                 read_call(p, fd, count, at)
          PROVE  Store!Next
      BY <2>5, ReadStep
    <2>6. ASSUME NEW p \in Procs, NEW fd \in Fds, NEW bytes \in Writes, write_call(p, fd, bytes)
          PROVE  Store!Next
      <3>1. all_file_num' = all_file_num
        BY <2>6 DEF write_call
      <3>2. all_file_num <= Fids + 1
        BY <3>1
      <3> QED BY <2>6, <3>2, WriteStep
    <2> QED BY <2>1, <2>2, <2>3, <2>4, <2>5, <2>6 DEF Next
  <1>2. Spec => []IInv
    BY FilesInvariant
  <1> QED BY <1>1, <1>2, PTL DEF Spec, ImplementsFileStore
=============================================================================
