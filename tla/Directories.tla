---------------------------- MODULE Directories -----------------------------
(***************************************************************************)
(* Directories: the part of src/manage/fm.c about them, with the listing   *)
(* of new files in "root", as the kernel's shell (src/frm/ksh.c) and the   *)
(* system calls of processes (handler/syscall.c) use it.  The shell runs   *)
(* when B_MAIN_FLAG is 6, and then there is no process that makes system   *)
(* calls.  Contents of files are in module Files.                          *)
(*                                                                         *)
(* The two indices are maps, as in Files.  Permissions and dates are left  *)
(* out.                                                                    *)
(***************************************************************************)
EXTENDS Integers, SequencesExt, FiniteSetsExt

CONSTANTS FileNames, DirNames,
          Root,              \* the name "root"
          MaxFiles,          \* MAX_FILE_NUM, for files and for directories
          MaxDirs,           \* MAX_DIR_NUM, how long the table of directories is
          MAX_DIR_FILE_NUM,
          Fids,              \* 2^5, the values of fid of a file
          DirFids,           \* 2^6, and of fid and p_fid of a directory
          MaxListed          \* bound: the entries of all directories, of either kind

ASSUME DirectoriesAssumption ==
    /\ Root \in DirNames
    /\ MaxFiles \in Nat \ {0} /\ MaxDirs \in Nat \ {0, 1} /\ MaxDirs <= MaxFiles
    /\ MAX_DIR_FILE_NUM \in Nat \ {0}
    /\ Fids \in Nat \ {0} /\ DirFids \in Nat \ {0, 1} /\ MaxListed \in Nat

VARIABLES shell,         \* whether kshell runs, rather than processes
          root,          \* name -> number: the index of files
          dir_root,      \* name -> number: the index of directories
          all_file_num,
          all_dir_num,   \* the numbers of the next file and directory
          dir_mem,       \* FMv3_dir_mem: number -> fcb_e
          dir_path,      \* the shell's stack of directories
          refused,       \* history: names fm_dir_create has inserted and refused,
          astray         \* and directories made below a number that was of none

indices == <<root, dir_root>>
nums == <<all_file_num, all_dir_num>>
vars == <<shell, indices, nums, dir_mem, dir_path, refused, astray>>

M == MAX_DIR_FILE_NUM
MaxPath == 3

(* files[] and dirs[] lie one after the other, and files[] is written      *)
(* beyond its end: list is both, dirs[i] is list[M + i].                   *)
EmptyList == [i \in 0 .. 2 * M - 1 |-> 0]
EmptyDir == [list |-> EmptyList, p_fid |-> 0, fid |-> 0, depth |-> 0, dir_num |-> 0, dir_dnum |-> 0]

(* What is read through a null pointer: any value of the field.            *)
Garbage == -1
-----------------------------------------------------------------------------
(* fm_init creates "root"; kshell starts there.                            *)
Init ==
    /\ shell \in BOOLEAN
    /\ root = <<>>
    /\ dir_root = [name \in {Root} |-> 1]
    /\ all_file_num = 1
    /\ all_dir_num = 2
    /\ dir_mem = [n \in 0 .. MaxDirs |-> IF n = 1 THEN [EmptyDir EXCEPT !.fid = 1] ELSE EmptyDir]
    /\ dir_path = IF shell THEN <<1>> ELSE <<>>
    /\ refused = {} /\ astray = {}

Put(index, name, n) == [x \in DOMAIN index \cup {name} |-> IF x = name THEN n ELSE index[x]]
Without(index, name) == [x \in DOMAIN index \ {name} |-> index[x]]

(* A file, or a directory, at the end of a directory's list.               *)
WithFile(dir, fid) == [dir EXCEPT !.list = [@ EXCEPT ![dir.dir_num] = fid], !.dir_num = @ + 1]
WithDir(dir, n) ==
    [dir EXCEPT !.list = [@ EXCEPT ![M + dir.dir_dnum] = n], !.dir_dnum = @ + 1]

(* fm_dir_in and fm_dir_out, on the directory with this name, if there is  *)
(* one.  The first accepts the number of the next file too; the second     *)
(* takes the file's number for a position.                                 *)
fm_dir_in(dirs, name, file_id, files) ==
    IF name \notin DOMAIN dir_root \/ file_id > files
    THEN dirs
    ELSE [dirs EXCEPT ![dir_root[name]] = WithFile(@, file_id)]

fm_dir_out(dirs, name, file_id) ==
    IF name \notin DOMAIN dir_root \/ file_id >= all_file_num
    THEN dirs
    ELSE [dirs EXCEPT ![dir_root[name]].list = [@ EXCEPT ![file_id] = 0]]

(* Bounds: nothing is listed beyond the end of dirs[].                     *)
RoomForFile(name) ==
    name \in DOMAIN dir_root =>
        /\ dir_mem[dir_root[name]].dir_num < 2 * M
        /\ MapThenSumSet(LAMBDA d : dir_mem[d].dir_num, DOMAIN dir_mem) < MaxListed
RoomForDir(d) ==
    /\ dir_mem[d].dir_dnum < M
    /\ MapThenSumSet(LAMBDA e : dir_mem[e].dir_dnum, DOMAIN dir_mem) < MaxListed

(* fm_create and fm_delete, as far as names and listings go.               *)
fm_create(name) ==
    /\ all_file_num < MaxFiles
    /\ name \notin DOMAIN root
    /\ RoomForFile(Root)
    /\ root' = Put(root, name, all_file_num)
    /\ all_file_num' = all_file_num + 1
    /\ dir_mem' = fm_dir_in(dir_mem, Root, all_file_num % Fids, all_file_num')
    /\ UNCHANGED <<shell, dir_root, all_dir_num, dir_path, refused, astray>>

fm_delete(name) ==
    /\ root' = Without(root, name)
    /\ UNCHANGED <<shell, dir_root, nums, dir_mem, dir_path, refused, astray>>

Dirs == 1 .. all_dir_num - 1

(* Bound: the code goes on to MAX_FILE_NUM directories, beyond the table.  *)
InTable(n) == n < MaxDirs

(* Mutant of TooDeep: off by one.                                          *)
TooDeep_ByOne(depth) == depth > 3

TooDeep(depth) == depth > 2

(* fm_dir_create.  The name is in the index before the depth is looked at; *)
(* when that is too much the number is not used up, and the next directory *)
(* gets it too.  The parent is not looked at: it may be any slot of the    *)
(* table, the new directory's own too.  It lists the new directory before  *)
(* the counts of that are reset.                                           *)
fm_dir_create(name, p_fid, depth) ==
    LET n == all_dir_num
        cleared == [dir_mem EXCEPT ![n].list = EmptyList]
        above == [cleared EXCEPT ![n].p_fid = p_fid % DirFids]
        Made(dirs) == [dirs EXCEPT ![n] = [@ EXCEPT !.depth = depth, !.fid = n % DirFids,
                                                    !.dir_num = 0, !.dir_dnum = 0]]
    IN  /\ n < MaxFiles /\ InTable(n)
        /\ name \notin DOMAIN dir_root
        /\ dir_root' = Put(dir_root, name, n)
        /\ UNCHANGED <<shell, root, all_file_num, dir_path>>
        /\ \/ /\ TooDeep(depth)
              /\ dir_mem' = cleared
              /\ refused' = refused \cup {name}
              /\ UNCHANGED <<all_dir_num, astray>>
           \/ /\ depth = 0
              /\ dir_mem' = Made([cleared EXCEPT ![n].p_fid = 0])
              /\ refused' = refused \ {name}
              /\ all_dir_num' = n + 1
              /\ UNCHANGED astray
           \/ /\ depth # 0 /\ ~TooDeep(depth)
              /\ RoomForDir(p_fid)
              /\ dir_mem' = Made([above EXCEPT ![p_fid] = WithDir(@, n)])
              /\ refused' = refused \ {name}
              /\ all_dir_num' = n + 1
              /\ astray' = IF p_fid \in Dirs THEN astray ELSE astray \cup {n}

(* Mutant of fm_dir_delete: the number is given back.                      *)
fm_dir_delete_GivesBack(name) ==
    /\ dir_root' = Without(dir_root, name)
    /\ all_dir_num' = IF name \in DOMAIN dir_root THEN all_dir_num - 1 ELSE all_dir_num
    /\ UNCHANGED <<shell, root, all_file_num, dir_mem, dir_path, refused, astray>>

fm_dir_delete(name) ==
    /\ dir_root' = Without(dir_root, name)
    /\ UNCHANGED <<shell, root, nums, dir_mem, dir_path, refused, astray>>
-----------------------------------------------------------------------------
(* kshell.  Its current directory is the top of its stack, a fid taken for *)
(* a number; depth is what file_split is given.                            *)
depth == Len(dir_path) - 1
kcurrent_dir == dir_mem[Last(dir_path)]
HasCurrent == Last(dir_path) < all_dir_num

(* file mv and file dmv.  Neither asks whether what it looks up is there.  *)
mv(src, name, dst) ==
    \E fid \in IF name \in DOMAIN root THEN {root[name] % Fids} ELSE 0 .. Fids - 1 :
        LET taken == fm_dir_out(dir_mem, src, fid)
        IN  /\ RoomForFile(dst)
            /\ dir_mem' = fm_dir_in(taken, dst, fid, all_file_num)
            /\ UNCHANGED <<shell, indices, nums, dir_path, refused, astray>>

(* Mutant of dmv: the entry in the new parent is not counted.              *)
dmv_Uncounted(name, dst) ==
    LET Found(x) == x \in DOMAIN dir_root
        d == dir_root[dst]
        moved == IF ~Found(name) THEN dir_mem
                 ELSE [dir_mem EXCEPT ![dir_root[name]].p_fid =
                          IF Found(dst) THEN dir_mem[d].fid ELSE Garbage]
    IN  /\ IF Found(dst)
           THEN /\ RoomForDir(d)
                /\ dir_mem' = [moved EXCEPT
                      ![d].list[M + moved[d].dir_dnum] =
                          IF Found(name) THEN dir_mem[dir_root[name]].fid ELSE Garbage]
           ELSE dir_mem' = moved
        /\ UNCHANGED <<shell, indices, nums, dir_path, refused, astray>>

dmv(name, dst) ==
    LET Found(x) == x \in DOMAIN dir_root
        d == dir_root[dst]
        moved == IF ~Found(name) THEN dir_mem
                 ELSE [dir_mem EXCEPT ![dir_root[name]].p_fid =
                          IF Found(dst) THEN dir_mem[d].fid ELSE Garbage]
    IN  /\ IF Found(dst)
           THEN /\ RoomForDir(d)
                /\ dir_mem' = [moved EXCEPT
                      ![d] = WithDir(@, IF Found(name) THEN dir_mem[dir_root[name]].fid
                                        ELSE Garbage)]
           ELSE dir_mem' = moved
        /\ UNCHANGED <<shell, indices, nums, dir_path, refused, astray>>

(* Mutant of scp_in: without the check of the depth.                       *)
scp_in_AnyDepth(name) ==
    /\ HasCurrent
    /\ name \in DOMAIN dir_root
    /\ LET d == dir_mem[dir_root[name]]
       IN  /\ d.p_fid \in {kcurrent_dir.fid, Garbage}
           /\ Len(dir_path) < MaxPath
           /\ dir_path' = Append(dir_path, d.fid)
    /\ UNCHANGED <<shell, indices, nums, dir_mem, refused, astray>>

(* file scp in and file scp out: the way down is checked against the       *)
(* parent and the depth.                                                   *)
scp_in(name) ==
    /\ HasCurrent
    /\ name \in DOMAIN dir_root
    /\ LET d == dir_mem[dir_root[name]]
       IN  /\ d.p_fid \in {kcurrent_dir.fid, Garbage}
           /\ d.depth = depth + 1
           /\ Len(dir_path) < MaxPath
           /\ dir_path' = Append(dir_path, d.fid)
    /\ UNCHANGED <<shell, indices, nums, dir_mem, refused, astray>>

scp_out ==
    /\ HasCurrent
    /\ Len(dir_path) > 1
    /\ dir_path' = Front(dir_path)
    /\ UNCHANGED <<shell, indices, nums, dir_mem, refused, astray>>

dcrt(name) ==
    /\ HasCurrent
    /\ depth < 2
    /\ fm_dir_create(name, kcurrent_dir.fid, depth + 1)

kshell ==
    \/ \E name \in DirNames : dcrt(name) \/ scp_in(name)
    \/ scp_out
    \/ \E src, dst \in DirNames, name \in FileNames : mv(src, name, dst)
    \/ \E name, dst \in DirNames : dmv(name, dst)
-----------------------------------------------------------------------------
(* The calls of processes, which choose parent and depth: any slot of the  *)
(* table (bound: none beyond it).  Those for fm_dir_in and fm_dir_out are  *)
(* not in the table of calls.                                              *)
dir_create_call(name, p_fid, level) == fm_dir_create(name, p_fid, level)

Processes ==
    \E name \in DirNames, p_fid \in 0 .. MaxDirs - 1, level \in 0 .. 3 :
        dir_create_call(name, p_fid, level)

Next ==
    \/ \E name \in FileNames : fm_create(name) \/ fm_delete(name)
    \/ \E name \in DirNames : fm_dir_delete(name)
    \/ shell /\ kshell
    \/ ~shell /\ Processes

Spec == Init /\ [][Next]_vars
-----------------------------------------------------------------------------
(* Every variable has its type.                                            *)
TypeOK ==
    /\ shell \in BOOLEAN
    /\ DOMAIN root \subseteq FileNames /\ \A name \in DOMAIN root : root[name] \in 1 .. all_file_num - 1
    /\ DOMAIN dir_root \subseteq DirNames /\ \A name \in DOMAIN dir_root : dir_root[name] \in 1 .. all_dir_num
    /\ all_file_num \in 1 .. MaxFiles /\ all_dir_num \in 2 .. MaxDirs
    /\ dir_mem \in [0 .. MaxDirs -> [list : [0 .. 2 * M - 1 -> Nat \cup {Garbage}], p_fid : {Garbage} \cup 0 .. DirFids - 1,
                                     fid : 0 .. DirFids - 1, depth : 0 .. 2,
                                     dir_num : 0 .. 2 * M, dir_dnum : 0 .. M]]
    /\ dir_path \in BoundedSeq(0 .. DirFids - 1, MaxPath)
    /\ refused \subseteq DirNames /\ astray \subseteq 0 .. MaxDirs

(* As long as numbers of directories fit fid, the shell's path starts at   *)
(* the first directory and goes down one level at a time, over every order *)
(* of moves, deletions and creations under the shell's feet (ksh.c:30-44,  *)
(* 441-452), so a new directory gets a depth that is right (ksh.c:279).    *)
PathDepths ==
    shell /\ all_dir_num <= DirFids =>
        \A i \in DOMAIN dir_path :
            dir_path[i] \in Dirs /\ dir_mem[dir_path[i]].depth = i - 1

(* While files are few enough for files[] to hold any of them at any       *)
(* position, a directory made below another there was is listed by its     *)
(* parent, that one or the last it was moved to (fm.c:150-156,             *)
(* ksh.c:393-398): no creation, refused or not, takes an entry out again.  *)
(* More files, and files[] runs over into dirs[].  A directory a process   *)
(* makes below a number not yet given out is not claimed: its entry is     *)
(* lost when that number's counts are reset (fm.c:162-163).                *)
Listed(d) == {dir_mem[d].list[M + i] : i \in 0 .. dir_mem[d].dir_dnum - 1}

ListedByParent ==
    /\ all_file_num <= M /\ all_dir_num <= DirFids
    /\ \A d \in Dirs : dir_mem[d].dir_num <= M
    => \A d \in Dirs \ astray : dir_mem[d].depth > 0 /\ dir_mem[d].p_fid # Garbage
                                   => d \in Listed(dir_mem[d].p_fid)

(* Two names never lead to one directory, but for a name whose creation    *)
(* was refused for its depth (fm.c:142-145).                               *)
NamesApart ==
    \A x, y \in DOMAIN dir_root \ refused : x # y => dir_root[x] # dir_root[y]
=============================================================================
