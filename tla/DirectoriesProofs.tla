------------------------- MODULE DirectoriesProofs --------------------------
(***************************************************************************)
(* That names of directories stay apart, that the shell's path goes down   *)
(* one level at a time, and that a parent lists its directories, for any   *)
(* number of directories and files, any names and any length of lists.     *)
(***************************************************************************)
EXTENDS Directories, TLAPS

(* The types, with the path as a sequence; the shell has a path.           *)
Lists == [0 .. 2 * M - 1 -> Nat \cup {Garbage}]
Records == [list : Lists, p_fid : {Garbage} \cup 0 .. DirFids - 1,
            fid : 0 .. DirFids - 1, depth : 0 .. 2,
            dir_num : 0 .. 2 * M, dir_dnum : 0 .. M]

Types ==
    /\ shell \in BOOLEAN
    /\ DOMAIN root \subseteq FileNames
    /\ \A name \in DOMAIN root : root[name] \in 1 .. all_file_num - 1
    /\ DOMAIN dir_root \subseteq DirNames /\ refused \subseteq DirNames
    /\ astray \subseteq 0 .. MaxDirs
    /\ dir_mem \in [0 .. MaxDirs -> Records]
    /\ all_dir_num \in 2 .. MaxDirs /\ all_file_num \in 1 .. MaxFiles
    /\ dir_path \in Seq(0 .. DirFids - 1) /\ Len(dir_path) <= MaxPath
    /\ shell => dir_path # <<>>

(* What becomes of a directory by steps that do not make it: it keeps its  *)
(* number and depth, and as long as files[] holds them all, its list of    *)
(* directories only grows.                                                 *)
Grown(a, b) ==
    /\ b.fid = a.fid /\ b.depth = a.depth
    /\ a.dir_num <= b.dir_num /\ a.dir_dnum <= b.dir_dnum
    /\ all_file_num <= M /\ b.dir_num <= M =>
          \A i \in 0 .. a.dir_dnum - 1 : b.list[M + i] = a.list[M + i]

Kept == \A n \in 0 .. MaxDirs : Grown(dir_mem[n], dir_mem'[n])
SameParents == \A n \in 0 .. MaxDirs : dir_mem'[n].p_fid = dir_mem[n].p_fid

(* The assumption of Directories, as numbers.                              *)
LEMMA Bounds == /\ M \in Nat \ {0} /\ MaxDirs \in Nat \ {0, 1} /\ DirFids \in Nat \ {0, 1}
                /\ Fids \in Nat \ {0} /\ MaxFiles \in Nat \ {0}
  BY DirectoriesAssumption DEF M

(* A number below d is its own remainder.                                  *)
LEMMA Small == ASSUME NEW n \in Nat, NEW d \in Nat \ {0}, n < d PROVE n % d = n
  OBVIOUS

(* Remainders are below the divisor.                                       *)
LEMMA Remainder == ASSUME NEW n \in Int, NEW d \in Nat \ {0} PROVE n % d \in 0 .. d - 1
  OBVIOUS

(* A directory that does not change has grown by nothing.                  *)
LEMMA GrownSame == ASSUME NEW a \in Records PROVE Grown(a, a)
  BY Bounds DEF Records, Grown

(* Growing twice, as a source and a target of a move can, is growing.      *)
LEMMA GrownTwice ==
    ASSUME NEW a \in Records, NEW b \in Records, NEW c \in Records, Grown(a, b), Grown(b, c)
    PROVE  Grown(a, c)
  <1> USE Bounds
  <1>1. /\ a.dir_num \in Nat /\ b.dir_num \in Nat /\ c.dir_num \in Nat
        /\ a.dir_dnum \in Nat /\ b.dir_dnum \in Nat /\ c.dir_dnum \in Nat
    BY DEF Records
  <1>2. /\ c.fid = a.fid /\ c.depth = a.depth
        /\ a.dir_num <= c.dir_num /\ a.dir_dnum <= c.dir_dnum
    BY <1>1 DEF Grown
  <1>3. ASSUME all_file_num <= M, c.dir_num <= M, NEW i \in 0 .. a.dir_dnum - 1
        PROVE  c.list[M + i] = a.list[M + i]
    <2>1. b.dir_num <= M /\ i \in 0 .. b.dir_dnum - 1
      BY <1>1, <1>3 DEF Grown
    <2> QED BY <1>3, <2>1 DEF Grown
  <1> QED BY <1>2, <1>3 DEF Grown

(* A changed list, counted as a file's or a directory's, or not counted.   *)
LEMMA EntryIn ==
    ASSUME NEW l \in Lists, NEW i \in Int, NEW e \in Nat \cup {Garbage}
    PROVE  [l EXCEPT ![i] = e] \in Lists
  BY DEF Lists

Changed(new, dir, l, n, m) ==
    /\ new \in Records
    /\ new.list = l /\ new.dir_num = n /\ new.dir_dnum = m
    /\ new.p_fid = dir.p_fid /\ new.fid = dir.fid /\ new.depth = dir.depth

LEMMA ListChanged ==
    ASSUME NEW dir \in Records, NEW l \in Lists
    PROVE  Changed([dir EXCEPT !.list = l], dir, l, dir.dir_num, dir.dir_dnum)
  BY DEF Records, Changed

LEMMA FileCounted ==
    ASSUME NEW dir \in Records, NEW l \in Lists, NEW n \in 0 .. 2 * M
    PROVE  Changed([dir EXCEPT !.list = l, !.dir_num = n], dir, l, n, dir.dir_dnum)
  BY DEF Records, Changed

LEMMA DirCounted ==
    ASSUME NEW dir \in Records, NEW l \in Lists, NEW n \in 0 .. M
    PROVE  Changed([dir EXCEPT !.list = l, !.dir_dnum = n], dir, l, dir.dir_num, n)
  BY DEF Records, Changed

(* A file at the end of files[] is before dirs[] as long as it fits.       *)
LEMMA FileListed ==
    ASSUME NEW dir \in Records, NEW fid \in Nat, dir.dir_num < 2 * M
    PROVE  /\ WithFile(dir, fid) \in Records /\ Grown(dir, WithFile(dir, fid))
           /\ WithFile(dir, fid).p_fid = dir.p_fid
  <1> DEFINE l == [dir.list EXCEPT ![dir.dir_num] = fid]
             m == dir.dir_num + 1
             r == WithFile(dir, fid)
  <1>1. /\ dir.list \in Lists /\ dir.dir_num \in Nat /\ dir.dir_dnum \in 0 .. M
        /\ m \in 0 .. 2 * M
    BY Bounds DEF Records
  <1>2. l \in Lists
    <2>1. dir.dir_num \in Int /\ fid \in Nat \cup {Garbage}
      BY <1>1
    <2> QED BY <1>1, <2>1, EntryIn
  <1>3. r = [dir EXCEPT !.list = l, !.dir_num = m]
    BY DEF WithFile
  <1>4. m <= M => \A i \in 0 .. dir.dir_dnum - 1 : l[M + i] = dir.list[M + i]
    BY <1>1, Bounds DEF Lists
  <1>5. dir.dir_num <= m
    BY <1>1
  <1> HIDE DEF l, m, r
  <1>6. Changed(r, dir, l, m, dir.dir_dnum)
    BY <1>1, <1>2, <1>3, FileCounted
  <1>7. Grown(dir, r) /\ r.p_fid = dir.p_fid
    BY <1>1, <1>4, <1>5, <1>6 DEF Grown, Changed
  <1> QED BY <1>6, <1>7 DEF r, Changed

LEMMA FileUnlisted ==
    ASSUME NEW dir \in Records, NEW i \in Nat, i < all_file_num, all_file_num \in Nat
    PROVE  LET new == [dir EXCEPT !.list = [@ EXCEPT ![i] = 0]] IN
           new \in Records /\ Grown(dir, new) /\ new.p_fid = dir.p_fid
  <1> DEFINE l == [dir.list EXCEPT ![i] = 0]
             r == [dir EXCEPT !.list = [@ EXCEPT ![i] = 0]]
  <1>1. dir.list \in Lists /\ dir.dir_num \in Nat /\ dir.dir_dnum \in 0 .. M
    BY Bounds DEF Records
  <1>2. l \in Lists
    <2>1. i \in Int /\ 0 \in Nat \cup {Garbage}
      OBVIOUS
    <2> QED BY <1>1, <2>1, EntryIn
  <1>3. r = [dir EXCEPT !.list = l]
    OBVIOUS
  <1>4. all_file_num <= M => \A j \in 0 .. dir.dir_dnum - 1 : l[M + j] = dir.list[M + j]
    BY <1>1, Bounds DEF Lists
  <1> HIDE DEF l, r
  <1>5. Changed(r, dir, l, dir.dir_num, dir.dir_dnum)
    BY <1>2, <1>3, ListChanged
  <1>6. Grown(dir, r) /\ r.p_fid = dir.p_fid
    BY <1>1, <1>4, <1>5 DEF Grown, Changed
  <1> QED BY <1>5, <1>6 DEF r, Changed

(* A directory at the end of dirs[].                                       *)
LEMMA DirListed ==
    ASSUME NEW dir \in Records, NEW n \in Nat \cup {Garbage}, dir.dir_dnum < M
    PROVE  /\ WithDir(dir, n) \in Records /\ Grown(dir, WithDir(dir, n))
           /\ WithDir(dir, n).p_fid = dir.p_fid
           /\ \E i \in 0 .. WithDir(dir, n).dir_dnum - 1 : WithDir(dir, n).list[M + i] = n
  <1> DEFINE l == [dir.list EXCEPT ![M + dir.dir_dnum] = n]
             m == dir.dir_dnum + 1
             r == WithDir(dir, n)
  <1>1. /\ dir.list \in Lists /\ dir.dir_num \in Nat /\ dir.dir_dnum \in Nat
        /\ m \in 0 .. M
    BY Bounds DEF Records
  <1>2. l \in Lists
    <2>1. M + dir.dir_dnum \in Int
      BY <1>1, Bounds
    <2> QED BY <1>1, <2>1, EntryIn
  <1>3. r = [dir EXCEPT !.list = l, !.dir_dnum = m]
    BY DEF WithDir
  <1>4. \A i \in 0 .. dir.dir_dnum - 1 : l[M + i] = dir.list[M + i]
    BY <1>1, Bounds DEF Lists
  <1>5. dir.dir_dnum <= m /\ dir.dir_dnum \in 0 .. m - 1 /\ l[M + dir.dir_dnum] = n
    BY <1>1, Bounds DEF Lists
  <1> HIDE DEF l, m, r
  <1>6. Changed(r, dir, l, dir.dir_num, m)
    BY <1>1, <1>2, <1>3, DirCounted
  <1>7. Grown(dir, r) /\ r.p_fid = dir.p_fid
    BY <1>1, <1>4, <1>5, <1>6 DEF Grown, Changed
  <1>8. \E i \in 0 .. r.dir_dnum - 1 : r.list[M + i] = n
    BY <1>5, <1>6 DEF Changed
  <1> QED BY <1>6, <1>7, <1>8 DEF r, Changed

(* A directory that only gets a parent keeps all else.                     *)
LEMMA ParentSet ==
    ASSUME NEW dir \in Records, NEW p \in {Garbage} \cup 0 .. DirFids - 1,
           NEW r, r = [dir EXCEPT !.p_fid = p]
    PROVE  r \in Records /\ r.p_fid = p /\ r.dir_dnum = dir.dir_dnum /\ Grown(dir, r)
  <1>1. /\ r \in Records /\ r.p_fid = p
        /\ r.fid = dir.fid /\ r.depth = dir.depth /\ r.list = dir.list
        /\ r.dir_num = dir.dir_num /\ r.dir_dnum = dir.dir_dnum
    BY DEF Records
  <1>2. Grown(dir, dir)
    BY GrownSame
  <1> QED BY <1>1, <1>2 DEF Grown

(* One directory is changed.                                               *)
LEMMA OneGrown ==
    ASSUME NEW dirs \in [0 .. MaxDirs -> Records], NEW d \in 0 .. MaxDirs, NEW r \in Records,
           Grown(dirs[d], r), r.p_fid = dirs[d].p_fid, NEW new, new = [dirs EXCEPT ![d] = r]
    PROVE  /\ new \in [0 .. MaxDirs -> Records]
           /\ \A n \in 0 .. MaxDirs : Grown(dirs[n], new[n]) /\ new[n].p_fid = dirs[n].p_fid
  <1>1. ASSUME NEW n \in 0 .. MaxDirs
        PROVE  Grown(dirs[n], new[n]) /\ new[n].p_fid = dirs[n].p_fid
    <2>1. CASE n = d
      BY <2>1
    <2>2. CASE n # d
      <3>1. new[n] = dirs[n] /\ dirs[n] \in Records
        BY <2>2
      <3> QED BY <3>1, GrownSame
    <2> QED BY <2>1, <2>2
  <1> QED BY <1>1

(* A step that changes no directory has each grow by nothing.              *)
LEMMA NoneGrown ==
    ASSUME NEW dirs \in [0 .. MaxDirs -> Records], NEW n \in 0 .. MaxDirs
    PROVE  Grown(dirs[n], dirs[n])
  BY GrownSame
-----------------------------------------------------------------------------
(* The names in the index lead to numbers given out or to the next one.    *)
Numbered == \A name \in DOMAIN dir_root : dir_root[name] \in 1 .. all_dir_num

(* The model's bounds on lists, for a name and for a number.               *)
LEMMA Room ==
    /\ \A name \in DOMAIN dir_root : RoomForFile(name) => dir_mem[dir_root[name]].dir_num < 2 * M
    /\ \A d : RoomForDir(d) => dir_mem[d].dir_dnum < M
  BY DEF RoomForFile, RoomForDir

(* A name that is found leads to a record in the table.                    *)
LEMMA NamedThere ==
    ASSUME Types, Numbered, NEW x \in DOMAIN dir_root
    PROVE  dir_root[x] \in 0 .. MaxDirs /\ dir_mem[dir_root[x]] \in Records
  BY Bounds DEF Numbered, Types

(* file create, and a process that creates one: a file is listed.          *)
LEMMA CreateKeeps ==
    ASSUME Types, Numbered, NEW name \in FileNames, fm_create(name)
    PROVE  Types' /\ Kept /\ SameParents
  <1>1. all_file_num \in 1 .. MaxFiles /\ all_file_num' = all_file_num + 1
        /\ all_file_num' \in 1 .. MaxFiles
    BY Bounds DEF Types, fm_create
  <1>2. DOMAIN root' \subseteq FileNames /\ \A x \in DOMAIN root' : root'[x] \in 1 .. all_file_num' - 1
    BY <1>1 DEF Types, fm_create, Put
  <1>3. all_file_num % Fids \in Nat
    BY <1>1, Remainder, Bounds
  <1>4. dir_mem' \in [0 .. MaxDirs -> Records] /\ Kept /\ SameParents
    <2>1. CASE Root \notin DOMAIN dir_root \/ all_file_num % Fids > all_file_num'
      <3>1. dir_mem' = dir_mem /\ dir_mem \in [0 .. MaxDirs -> Records]
        BY <2>1 DEF fm_create, fm_dir_in, Types
      <3> QED BY <3>1, NoneGrown DEF Kept, SameParents
    <2>2. CASE ~(Root \notin DOMAIN dir_root \/ all_file_num % Fids > all_file_num')
      <3> DEFINE d == dir_root[Root]
      <3>1. d \in 0 .. MaxDirs /\ dir_mem \in [0 .. MaxDirs -> Records] /\ dir_mem[d] \in Records
        BY <2>2, NamedThere DEF Types
      <3>2. dir_mem[d].dir_num < 2 * M
        BY <2>2, Room DEF fm_create
      <3> DEFINE r == WithFile(dir_mem[d], all_file_num % Fids)
      <3>3. dir_mem' = [dir_mem EXCEPT ![d] = r]
        BY <2>2 DEF fm_create, fm_dir_in
      <3>4. r \in Records /\ Grown(dir_mem[d], r) /\ r.p_fid = dir_mem[d].p_fid
        BY <1>3, <3>1, <3>2, FileListed
      <3> HIDE DEF d, r
      <3> QED BY <3>1, <3>3, <3>4, OneGrown DEF Kept, SameParents
    <2> QED BY <2>1, <2>2
  <1> QED BY <1>1, <1>2, <1>4 DEF Types, fm_create

(* file mv: the file is taken out of one list and put into another.        *)
LEMMA MoveKeeps ==
    ASSUME Types, Numbered, NEW src \in DirNames, NEW dst \in DirNames,
           NEW name \in FileNames, mv(src, name, dst)
    PROVE  Types' /\ Kept /\ SameParents
  <1>1. PICK fid \in IF name \in DOMAIN root THEN {root[name] % Fids} ELSE 0 .. Fids - 1 :
           /\ dir_mem' = fm_dir_in(fm_dir_out(dir_mem, src, fid), dst, fid, all_file_num)
           /\ RoomForFile(dst)
    BY DEF mv
  <1>2. fid \in Nat /\ all_file_num \in Nat /\ dir_mem \in [0 .. MaxDirs -> Records]
    <2>1. all_file_num \in 1 .. MaxFiles /\ dir_mem \in [0 .. MaxDirs -> Records]
      BY DEF Types
    <2>2. fid \in Nat
      <3>1. CASE name \in DOMAIN root
        <4>1. root[name] \in 1 .. all_file_num - 1
          BY <3>1 DEF Types
        <4>2. root[name] \in Int
          BY <4>1
        <4>3. root[name] % Fids \in 0 .. Fids - 1
          BY <4>2, Remainder, Bounds
        <4> QED BY <1>1, <3>1, <4>3, Bounds
      <3>2. CASE name \notin DOMAIN root
        BY <1>1, <3>2, Bounds
      <3> QED BY <3>1, <3>2
    <2> QED BY <2>1, <2>2, Bounds
  <1> DEFINE taken == fm_dir_out(dir_mem, src, fid)
  <1>3. /\ taken \in [0 .. MaxDirs -> Records]
        /\ \A n \in 0 .. MaxDirs : /\ Grown(dir_mem[n], taken[n])
                                   /\ taken[n].p_fid = dir_mem[n].p_fid
                                   /\ taken[n].dir_num = dir_mem[n].dir_num
    <2>1. CASE src \notin DOMAIN dir_root \/ fid >= all_file_num
      <3>1. taken = dir_mem
        BY <2>1 DEF fm_dir_out
      <3> HIDE DEF taken
      <3> QED BY <1>2, <3>1, NoneGrown
    <2>2. CASE ~(src \notin DOMAIN dir_root \/ fid >= all_file_num)
      <3> DEFINE d == dir_root[src]
                 r == [dir_mem[d] EXCEPT !.list = [@ EXCEPT ![fid] = 0]]
      <3>1. d \in 0 .. MaxDirs /\ dir_mem[d] \in Records
        BY <2>2, NamedThere
      <3>2. taken = [dir_mem EXCEPT ![d] = r]
        BY <2>2 DEF fm_dir_out
      <3>3. r \in Records /\ Grown(dir_mem[d], r) /\ r.p_fid = dir_mem[d].p_fid
        <4>1. fid < all_file_num
          BY <1>2, <2>2
        <4> QED BY <1>2, <3>1, <4>1, FileUnlisted
      <3>4. r.dir_num = dir_mem[d].dir_num
        BY <3>1 DEF Records
      <3> HIDE DEF d, r, taken
      <3>5. /\ taken \in [0 .. MaxDirs -> Records]
            /\ \A n \in 0 .. MaxDirs : /\ Grown(dir_mem[n], taken[n])
                                       /\ taken[n].p_fid = dir_mem[n].p_fid
        BY <1>2, <3>1, <3>2, <3>3, OneGrown
      <3> QED BY <1>2, <3>1, <3>2, <3>4, <3>5
    <2> QED BY <2>1, <2>2
  <1> HIDE DEF taken
  <1>4. /\ dir_mem' \in [0 .. MaxDirs -> Records]
        /\ \A n \in 0 .. MaxDirs : /\ Grown(taken[n], dir_mem'[n])
                                   /\ dir_mem'[n].p_fid = taken[n].p_fid
    <2>1. dir_mem' = fm_dir_in(taken, dst, fid, all_file_num)
      BY <1>1 DEF taken
    <2>2. CASE dst \notin DOMAIN dir_root \/ fid > all_file_num
      <3>1. dir_mem' = taken
        BY <2>1, <2>2 DEF fm_dir_in
      <3> QED BY <1>3, <3>1, NoneGrown
    <2>3. CASE ~(dst \notin DOMAIN dir_root \/ fid > all_file_num)
      <3> DEFINE d == dir_root[dst]
                 r == WithFile(taken[d], fid)
      <3>1. d \in 0 .. MaxDirs
        BY <2>3, NamedThere
      <3>2. dir_mem' = [taken EXCEPT ![d] = r]
        BY <2>1, <2>3 DEF fm_dir_in
      <3>3. taken[d] \in Records /\ taken[d].dir_num < 2 * M
        BY <1>1, <1>3, <2>3, <3>1, Room
      <3>4. r \in Records /\ Grown(taken[d], r) /\ r.p_fid = taken[d].p_fid
        BY <1>2, <3>3, FileListed
      <3> HIDE DEF d, r
      <3> QED BY <1>3, <3>1, <3>2, <3>4, OneGrown
    <2> QED BY <2>2, <2>3
  <1>5. UNCHANGED <<shell, root, dir_root, all_file_num, all_dir_num, dir_path, refused, astray>>
    BY DEF mv, indices, nums
  <1>6. Kept /\ SameParents
    <2> SUFFICES ASSUME NEW n \in 0 .. MaxDirs
                 PROVE  Grown(dir_mem[n], dir_mem'[n]) /\ dir_mem'[n].p_fid = dir_mem[n].p_fid
      BY DEF Kept, SameParents
    <2>1. dir_mem[n] \in Records /\ taken[n] \in Records /\ dir_mem'[n] \in Records
      BY <1>2, <1>3, <1>4
    <2> QED BY <1>3, <1>4, <2>1, GrownTwice
  <1> QED BY <1>4, <1>5, <1>6 DEF Types

(* file dmv: the directory gets a parent and is listed there.              *)
LEMMA MoveDirKeeps ==
    ASSUME Types, Numbered, NEW name \in DirNames, NEW dst \in DirNames, dmv(name, dst)
    PROVE  /\ Types' /\ Kept
           /\ \A n \in 0 .. MaxDirs :
                 \/ dir_mem'[n].p_fid = dir_mem[n].p_fid
                 \/ dir_mem'[n].p_fid = Garbage
                 \/ /\ name \in DOMAIN dir_root /\ n = dir_root[name]
                    /\ dst \in DOMAIN dir_root
                    /\ dir_mem'[n].p_fid = dir_mem[dir_root[dst]].fid
                    /\ \E i \in 0 .. dir_mem'[dir_root[dst]].dir_dnum - 1 :
                          dir_mem'[dir_root[dst]].list[M + i] = dir_mem[n].fid
  <1> DEFINE p == IF dst \in DOMAIN dir_root THEN dir_mem[dir_root[dst]].fid ELSE Garbage
             moved == IF name \notin DOMAIN dir_root THEN dir_mem
                      ELSE [dir_mem EXCEPT ![dir_root[name]].p_fid = p]
             e == IF name \in DOMAIN dir_root THEN dir_mem[dir_root[name]].fid ELSE Garbage
  <1>1. dir_mem \in [0 .. MaxDirs -> Records]
    BY DEF Types
  <1>2. p \in {Garbage} \cup 0 .. DirFids - 1 /\ e \in Nat \cup {Garbage}
    BY NamedThere, Bounds DEF Records
  <1>3. /\ moved \in [0 .. MaxDirs -> Records]
        /\ \A n \in 0 .. MaxDirs :
              /\ Grown(dir_mem[n], moved[n])
              /\ moved[n].dir_dnum = dir_mem[n].dir_dnum
              /\ \/ moved[n].p_fid = dir_mem[n].p_fid
                 \/ name \in DOMAIN dir_root /\ n = dir_root[name] /\ moved[n].p_fid = p
    <2>1. CASE name \notin DOMAIN dir_root
      <3>1. moved = dir_mem
        BY <2>1
      <3> HIDE DEF moved
      <3> QED BY <1>1, <3>1, NoneGrown
    <2>2. CASE name \in DOMAIN dir_root
      <3>1. moved = [dir_mem EXCEPT ![dir_root[name]].p_fid = p]
        BY <2>2
      <3>2. dir_root[name] \in 0 .. MaxDirs
        BY <2>2, NamedThere
      <3> HIDE DEF p, moved, e
      <3>3. /\ moved \in [0 .. MaxDirs -> Records]
            /\ \A n \in 0 .. MaxDirs :
                  /\ Grown(dir_mem[n], moved[n])
                  /\ moved[n].dir_dnum = dir_mem[n].dir_dnum
                  /\ n = dir_root[name] => moved[n].p_fid = p
                  /\ n # dir_root[name] => moved[n].p_fid = dir_mem[n].p_fid
        <4>1. PICK k \in 0 .. MaxDirs : k = dir_root[name]
          BY <3>2
        <4>2. PICK r : r = [dir_mem[k] EXCEPT !.p_fid = p]
          OBVIOUS
        <4>3. dir_mem[k] \in Records /\ moved = [dir_mem EXCEPT ![k] = r]
          BY <1>1, <3>1, <4>1, <4>2
        <4>4. r \in Records /\ r.p_fid = p /\ r.dir_dnum = dir_mem[k].dir_dnum
              /\ Grown(dir_mem[k], r)
          BY <1>2, <4>2, <4>3, ParentSet
        <4>5. moved \in [0 .. MaxDirs -> Records] /\ moved[k] = r
          BY <1>1, <4>3, <4>4
        <4>6. \A n \in 0 .. MaxDirs : n # k => moved[n] = dir_mem[n] /\ Grown(dir_mem[n], moved[n])
          BY <1>1, <4>3, NoneGrown
        <4> QED BY <4>1, <4>4, <4>5, <4>6
      <3> QED BY <2>2, <3>3
    <2> QED BY <2>1, <2>2
  <1>4. IF dst \in DOMAIN dir_root
        THEN dir_mem' = [moved EXCEPT ![dir_root[dst]] = WithDir(moved[dir_root[dst]], e)]
             /\ RoomForDir(dir_root[dst])
        ELSE dir_mem' = moved
    BY DEF dmv
  <1>5. UNCHANGED <<shell, root, dir_root, all_file_num, all_dir_num, dir_path, refused, astray>>
    BY DEF dmv, indices, nums
  <1>6. /\ name \in DOMAIN dir_root => e = dir_mem[dir_root[name]].fid
        /\ dst \in DOMAIN dir_root => p = dir_mem[dir_root[dst]].fid
        /\ dst \notin DOMAIN dir_root => p = Garbage
    OBVIOUS
  <1> HIDE DEF moved, p, e
  <1>7. /\ dir_mem' \in [0 .. MaxDirs -> Records]
        /\ \A n \in 0 .. MaxDirs : /\ Grown(moved[n], dir_mem'[n])
                                   /\ dir_mem'[n].p_fid = moved[n].p_fid
        /\ dst \in DOMAIN dir_root =>
              \E i \in 0 .. dir_mem'[dir_root[dst]].dir_dnum - 1 :
                 dir_mem'[dir_root[dst]].list[M + i] = e
    <2>1. CASE dst \notin DOMAIN dir_root
      <3>1. dir_mem' = moved
        BY <1>4, <2>1
      <3> QED BY <1>3, <2>1, <3>1, NoneGrown
    <2>2. CASE dst \in DOMAIN dir_root
      <3> DEFINE d == dir_root[dst]
                 r == WithDir(moved[d], e)
      <3>1. d \in 0 .. MaxDirs
        BY <2>2, NamedThere
      <3>2. dir_mem' = [moved EXCEPT ![d] = r]
        BY <1>4, <2>2
      <3>3. moved[d] \in Records /\ moved[d].dir_dnum < M
        <4>1. dir_mem[d].dir_dnum < M
          BY <1>4, <2>2, Room
        <4> QED BY <1>3, <3>1, <4>1
      <3>4. r \in Records /\ Grown(moved[d], r) /\ r.p_fid = moved[d].p_fid
        BY <1>2, <3>3, DirListed
      <3>5. \E i \in 0 .. r.dir_dnum - 1 : r.list[M + i] = e
        BY <1>2, <3>3, DirListed
      <3> HIDE DEF r
      <3>6. dir_mem'[d] = r
        BY <1>3, <3>1, <3>2
      <3> HIDE DEF d
      <3>7. /\ dir_mem' \in [0 .. MaxDirs -> Records]
            /\ \A n \in 0 .. MaxDirs : /\ Grown(moved[n], dir_mem'[n])
                                       /\ dir_mem'[n].p_fid = moved[n].p_fid
        BY <1>3, <3>1, <3>2, <3>4, OneGrown
      <3> QED BY <3>5, <3>6, <3>7 DEF d
    <2> QED BY <2>1, <2>2
  <1>8. Kept
    <2> SUFFICES ASSUME NEW n \in 0 .. MaxDirs PROVE Grown(dir_mem[n], dir_mem'[n])
      BY DEF Kept
    <2>1. dir_mem[n] \in Records /\ moved[n] \in Records /\ dir_mem'[n] \in Records
      BY <1>1, <1>3, <1>7
    <2> QED BY <1>3, <1>7, <2>1, GrownTwice
  <1>9. ASSUME NEW n \in 0 .. MaxDirs,
               dir_mem'[n].p_fid # dir_mem[n].p_fid, dir_mem'[n].p_fid # Garbage
        PROVE  /\ name \in DOMAIN dir_root /\ n = dir_root[name]
               /\ dst \in DOMAIN dir_root
               /\ dir_mem'[n].p_fid = dir_mem[dir_root[dst]].fid
               /\ \E i \in 0 .. dir_mem'[dir_root[dst]].dir_dnum - 1 :
                     dir_mem'[dir_root[dst]].list[M + i] = dir_mem[n].fid
    <2>1. name \in DOMAIN dir_root /\ n = dir_root[name] /\ dir_mem'[n].p_fid = p
      BY <1>3, <1>7, <1>9
    <2>2. dst \in DOMAIN dir_root /\ p = dir_mem[dir_root[dst]].fid /\ e = dir_mem[n].fid
      BY <1>6, <1>9, <2>1
    <2> QED BY <1>7, <2>1, <2>2
  <1> QED BY <1>5, <1>7, <1>8, <1>9 DEF Types

(* fm_dir_create gives the directory its number, unless it is refused, and *)
(* lists it in its parent; the others stay what they are.                  *)
Holds(dir, n) == \E i \in 0 .. dir.dir_dnum - 1 : dir.list[M + i] = n

(* The record of a new directory, whatever its slot had.                   *)
New(r, level, f) == [r EXCEPT !.depth = level, !.fid = f, !.dir_num = 0, !.dir_dnum = 0]

LEMMA MadeIs ==
    ASSUME NEW r \in Records, NEW level \in 0 .. 2, NEW f \in 0 .. DirFids - 1
    PROVE  /\ New(r, level, f) \in Records
           /\ New(r, level, f).fid = f /\ New(r, level, f).depth = level
           /\ New(r, level, f).p_fid = r.p_fid
  <1> DEFINE a == [r EXCEPT !.depth = level]
             b == [a EXCEPT !.fid = f]
             c == [b EXCEPT !.dir_num = 0]
             d == [c EXCEPT !.dir_dnum = 0]
  <1>1. 0 \in 0 .. 2 * M /\ 0 \in 0 .. M
    BY Bounds
  <1>2. New(r, level, f) = d
    BY DEF New
  <1>3. a \in Records /\ a.depth = level /\ a.p_fid = r.p_fid
    BY DEF Records
  <1> HIDE DEF a
  <1>4. b \in Records /\ b.fid = f /\ b.depth = a.depth /\ b.p_fid = a.p_fid
    BY <1>3 DEF Records
  <1> HIDE DEF b
  <1>5. c \in Records /\ c.fid = b.fid /\ c.depth = b.depth /\ c.p_fid = b.p_fid
    BY <1>1, <1>4 DEF Records
  <1> HIDE DEF c
  <1>6. d \in Records /\ d.fid = c.fid /\ d.depth = c.depth /\ d.p_fid = c.p_fid
    BY <1>1, <1>5 DEF Records
  <1> HIDE DEF d
  <1> QED BY <1>2, <1>3, <1>4, <1>5, <1>6

(* A new directory has its number, its depth and the parent it is given,   *)
(* which lists it if that is another.  The others only grow.               *)
LEMMA CreateDirKeeps ==
    ASSUME Types, NEW name \in DirNames, NEW p_fid \in Nat, NEW level \in Nat,
           fm_dir_create(name, p_fid, level)
    PROVE  /\ dir_mem' \in [0 .. MaxDirs -> Records]
           /\ all_dir_num' \in {all_dir_num, all_dir_num + 1}
           /\ \A k \in 0 .. MaxDirs \ {all_dir_num} :
                 Grown(dir_mem[k], dir_mem'[k]) /\ dir_mem'[k].p_fid = dir_mem[k].p_fid
           /\ all_dir_num' # all_dir_num =>
                 /\ dir_mem'[all_dir_num].fid = all_dir_num % DirFids
                 /\ dir_mem'[all_dir_num].depth = level
                 /\ level > 0 /\ p_fid \in 0 .. MaxDirs /\ p_fid # all_dir_num =>
                       /\ dir_mem'[all_dir_num].p_fid = p_fid % DirFids
                       /\ Holds(dir_mem'[p_fid], all_dir_num)
  <1> DEFINE n == all_dir_num
             f == n % DirFids
             cleared == [dir_mem EXCEPT ![n].list = EmptyList]
             above(p) == [cleared EXCEPT ![n].p_fid = p]
             Made(dirs) == [dirs EXCEPT ![n] = [@ EXCEPT !.depth = level, !.fid = f,
                                                         !.dir_num = 0, !.dir_dnum = 0]]
             pd == p_fid % DirFids
             under == [above(pd) EXCEPT ![p_fid] = WithDir(@, n)]
  <1>1. n \in 0 .. MaxDirs /\ n \in Nat /\ dir_mem \in [0 .. MaxDirs -> Records]
    BY Bounds DEF Types
  <1>2. EmptyList \in Lists
    BY DEF EmptyList, Lists
  <1>3. f \in 0 .. DirFids - 1 /\ pd \in 0 .. DirFids - 1 /\ 0 \in 0 .. DirFids - 1
    <2>1. DirFids \in Nat \ {0} /\ 0 \in 0 .. DirFids - 1
      BY Bounds
    <2>2. \A k \in Nat : k % DirFids \in 0 .. DirFids - 1
      BY <2>1, Remainder
    <2> QED BY <1>1, <2>1, <2>2
  <1>4. \/ dir_mem' = cleared /\ all_dir_num' = n
        \/ dir_mem' = Made(above(0)) /\ all_dir_num' = n + 1 /\ level = 0
        \/ dir_mem' = Made(under) /\ all_dir_num' = n + 1 /\ level \in 1 .. 2 /\ RoomForDir(p_fid)
    <2> DEFINE Refused == dir_mem' = cleared /\ all_dir_num' = n
               OnTop == dir_mem' = Made(above(0)) /\ all_dir_num' = n + 1 /\ level = 0
               Below == /\ dir_mem' = Made(under) /\ all_dir_num' = n + 1
                        /\ level # 0 /\ ~TooDeep(level) /\ RoomForDir(p_fid)
    <2>1. Refused \/ OnTop \/ Below
      BY DEF fm_dir_create
    <2>2. level # 0 /\ ~TooDeep(level) => level \in 1 .. 2
      BY DEF TooDeep
    <2> HIDE DEF cleared, above, Made, under, n
    <2> QED BY <2>1, <2>2
  <1> HIDE DEF f, pd
  <1>5. /\ cleared \in [0 .. MaxDirs -> Records]
        /\ \A k \in 0 .. MaxDirs \ {n} : cleared[k] = dir_mem[k]
        /\ cleared[n].dir_dnum = dir_mem[n].dir_dnum
    <2> DEFINE r == [dir_mem[n] EXCEPT !.list = EmptyList]
    <2>1. r \in Records /\ r.dir_dnum = dir_mem[n].dir_dnum
      BY <1>1, <1>2, ListChanged DEF Changed
    <2>2. cleared = [dir_mem EXCEPT ![n] = r]
      OBVIOUS
    <2> HIDE DEF r, n, cleared
    <2> QED BY <1>1, <2>1, <2>2
  <1> HIDE DEF cleared
  <1>6. ASSUME NEW p \in 0 .. DirFids - 1
        PROVE  /\ above(p) \in [0 .. MaxDirs -> Records] /\ above(p)[n].p_fid = p
               /\ \A k \in 0 .. MaxDirs \ {n} : above(p)[k] = dir_mem[k]
               /\ above(p)[n].dir_dnum = dir_mem[n].dir_dnum
    <2> DEFINE r == [cleared[n] EXCEPT !.p_fid = p]
    <2>1. r \in Records /\ r.p_fid = p /\ r.dir_dnum = dir_mem[n].dir_dnum
      <3>1. cleared[n] \in Records /\ p \in {Garbage} \cup 0 .. DirFids - 1
        BY <1>1, <1>5
      <3>2. r \in Records /\ r.p_fid = p /\ r.dir_dnum = cleared[n].dir_dnum
        BY <3>1, ParentSet
      <3> QED BY <1>5, <3>2
    <2>2. above(p) = [cleared EXCEPT ![n] = r]
      OBVIOUS
    <2> HIDE DEF r, n, above
    <2> QED BY <1>1, <1>5, <2>1, <2>2
  <1> HIDE DEF above
  <1>7. ASSUME NEW dirs \in [0 .. MaxDirs -> Records], level \in 0 .. 2
        PROVE  /\ Made(dirs) \in [0 .. MaxDirs -> Records]
               /\ Made(dirs)[n].fid = f /\ Made(dirs)[n].depth = level
               /\ Made(dirs)[n].p_fid = dirs[n].p_fid
               /\ \A k \in 0 .. MaxDirs \ {n} : Made(dirs)[k] = dirs[k]
    <2> DEFINE r == New(dirs[n], level, f)
    <2>1. r \in Records /\ r.fid = f /\ r.depth = level /\ r.p_fid = dirs[n].p_fid
      <3>1. dirs[n] \in Records
        BY <1>1
      <3>2. f \in 0 .. DirFids - 1 /\ level \in 0 .. 2
        BY <1>3, <1>7
      <3> HIDE DEF n
      <3> QED BY <3>1, <3>2, MadeIs
    <2>2. Made(dirs) = [dirs EXCEPT ![n] = r]
      BY DEF New
    <2> HIDE DEF r, n, Made
    <2> QED BY <1>1, <2>1, <2>2
  <1> HIDE DEF Made
  <1>8. CASE dir_mem' = cleared /\ all_dir_num' = n
    <2> HIDE DEF n
    <2>1. \A k \in 0 .. MaxDirs \ {n} : dir_mem'[k] = dir_mem[k]
      BY <1>5, <1>8
    <2> QED BY <1>1, <1>5, <1>8, <2>1, NoneGrown DEF n
  <1>9. CASE dir_mem' = Made(above(0)) /\ all_dir_num' = n + 1 /\ level = 0
    <2>1. above(0) \in [0 .. MaxDirs -> Records] /\ \A k \in 0 .. MaxDirs \ {n} : above(0)[k] = dir_mem[k]
      BY <1>3, <1>6
    <2>2. /\ dir_mem' \in [0 .. MaxDirs -> Records]
          /\ dir_mem'[n].fid = f /\ dir_mem'[n].depth = level
          /\ \A k \in 0 .. MaxDirs \ {n} : dir_mem'[k] = dir_mem[k]
      BY <1>7, <1>9, <2>1
    <2> QED BY <1>1, <1>9, <2>2, NoneGrown DEF f
  <1>10. CASE dir_mem' = Made(under) /\ all_dir_num' = n + 1 /\ level \in 1 .. 2 /\ RoomForDir(p_fid)
    <2>1. /\ above(pd) \in [0 .. MaxDirs -> Records] /\ above(pd)[n].p_fid = pd
          /\ \A k \in 0 .. MaxDirs \ {n} : above(pd)[k] = dir_mem[k]
          /\ above(pd)[n].dir_dnum = dir_mem[n].dir_dnum
      BY <1>3, <1>6
    <2>2. level \in 0 .. 2 /\ level > 0
      BY <1>10
    <2> DEFINE up == above(pd)
               r == WithDir(up[p_fid], n)
    <2>3. under = [up EXCEPT ![p_fid] = r]
      OBVIOUS
    <2> HIDE DEF under, up
    <2>u. up = above(pd)
      BY DEF up
    <2>4. CASE p_fid \notin 0 .. MaxDirs
      <3> HIDE DEF r
      <3>1. under = up
        BY <2>1, <2>3, <2>4, <2>u
      <3>2. /\ dir_mem' \in [0 .. MaxDirs -> Records]
            /\ dir_mem'[n].fid = f /\ dir_mem'[n].depth = level
            /\ \A k \in 0 .. MaxDirs \ {n} : dir_mem'[k] = dir_mem[k]
        BY <1>7, <1>10, <2>1, <2>2, <2>u, <3>1
      <3> QED BY <1>1, <1>10, <2>4, <3>2, NoneGrown DEF f
    <2>5. CASE p_fid \in 0 .. MaxDirs
      <3>1. up[p_fid] \in Records /\ up[p_fid].dir_dnum < M
        <4>1. dir_mem[p_fid].dir_dnum < M
          BY <1>10, Room
        <4>2. up[p_fid].dir_dnum = dir_mem[p_fid].dir_dnum
          BY <2>1, <2>5, <2>u
        <4> QED BY <2>1, <2>5, <2>u, <4>1, <4>2
      <3>2. /\ r \in Records /\ Grown(up[p_fid], r) /\ r.p_fid = up[p_fid].p_fid
            /\ Holds(r, n)
        BY <1>1, <3>1, DirListed DEF Holds
      <3> HIDE DEF r
      <3>3. /\ under \in [0 .. MaxDirs -> Records] /\ under[p_fid] = r
            /\ \A k \in 0 .. MaxDirs : Grown(up[k], under[k]) /\ under[k].p_fid = up[k].p_fid
        <4>1. under[p_fid] = r
          BY <2>1, <2>3, <2>5, <2>u
        <4> QED BY <2>1, <2>3, <2>5, <2>u, <3>2, <4>1, OneGrown
      <3>4. /\ dir_mem' \in [0 .. MaxDirs -> Records]
            /\ dir_mem'[n].fid = f /\ dir_mem'[n].depth = level
            /\ dir_mem'[n].p_fid = under[n].p_fid
            /\ \A k \in 0 .. MaxDirs \ {n} : dir_mem'[k] = under[k]
        BY <1>7, <1>10, <2>2, <3>3
      <3>5. under[n].p_fid = pd
        BY <1>1, <2>1, <2>u, <3>3
      <3>6. \A k \in 0 .. MaxDirs \ {n} :
               Grown(dir_mem[k], dir_mem'[k]) /\ dir_mem'[k].p_fid = dir_mem[k].p_fid
        BY <2>1, <2>u, <3>3, <3>4
      <3>7. p_fid # n => Holds(dir_mem'[p_fid], n)
        BY <2>5, <3>2, <3>3, <3>4
      <3> QED BY <1>1, <1>10, <3>4, <3>5, <3>6, <3>7 DEF f, pd
    <2> QED BY <2>4, <2>5
  <1> QED BY <1>4, <1>8, <1>9, <1>10
-----------------------------------------------------------------------------
(* Directories have the numbers they were given, and the unused one at the *)
(* beginning, where a number cut short may lead, has 0.  No name is        *)
(* refused but by a process, and one that was not leads to a directory.    *)
OwnNumbers == dir_mem[0].fid = 0 /\ \A n \in Dirs : dir_mem[n].fid = n % DirFids
ShellUnrefused == shell => refused = {}
Unrefused == \A name \in DOMAIN dir_root \ refused : dir_root[name] < all_dir_num

(* As long as numbers and files are few enough, the parent of a directory  *)
(* made below one there was is one there is, and lists it.                 *)
Few == /\ all_file_num <= M /\ all_dir_num <= DirFids
       /\ \A d \in Dirs : dir_mem[d].dir_num <= M
InPlace(dir, d) == dir.p_fid \in Dirs /\ Holds(dir_mem[dir.p_fid], d)
Parented ==
    Few => \A d \in Dirs \ astray : dir_mem[d].depth > 0 /\ dir_mem[d].p_fid # Garbage
                                       => InPlace(dir_mem[d], d)

Inv == /\ Types /\ Numbered /\ OwnNumbers /\ ShellUnrefused /\ Unrefused
       /\ NamesApart /\ PathDepths /\ Parented

(* There is one directory, without a name, and the path is there.          *)
LEMMA InitInv == Init => Inv
  <1> SUFFICES ASSUME Init PROVE Inv
    OBVIOUS
  <1>1. EmptyDir \in Records /\ [EmptyDir EXCEPT !.fid = 1] \in Records
        /\ [EmptyDir EXCEPT !.fid = 1].fid = 1 /\ [EmptyDir EXCEPT !.fid = 1].depth = 0
    <2>1. EmptyList \in Lists
      BY DEF EmptyList, Lists
    <2> QED BY <2>1, Bounds DEF EmptyDir, Records
  <1> DEFINE first == [EmptyDir EXCEPT !.fid = 1]
  <1>2. dir_mem = [n \in 0 .. MaxDirs |-> IF n = 1 THEN first ELSE EmptyDir]
    BY DEF Init
  <1>3. first \in Records /\ first.fid = 1 /\ first.depth = 0
    BY <1>1
  <1> HIDE DEF first
  <1>4. dir_mem \in [0 .. MaxDirs -> Records] /\ dir_mem[1].fid = 1 /\ dir_mem[1].depth = 0
    BY <1>1, <1>2, <1>3, Bounds
  <1>5. dir_mem[0].fid = 0
    BY <1>2, Bounds DEF EmptyDir
  <1>6. all_dir_num = 2 /\ all_file_num = 1 /\ dir_root = [name \in {Root} |-> 1]
        /\ refused = {} /\ astray = {}
    BY DEF Init
  <1>7. dir_path = (IF shell THEN <<1>> ELSE <<>>) /\ shell \in BOOLEAN /\ root = <<>>
    BY DEF Init
  <1>8. Types
    <2>1. /\ dir_path \in Seq(0 .. DirFids - 1) /\ (shell => dir_path # <<>>)
          /\ Len(dir_path) <= MaxPath
      <3>1. 1 \in 0 .. DirFids - 1 /\ MaxPath = 3
        BY Bounds DEF MaxPath
      <3>2. <<1>> \in Seq(0 .. DirFids - 1) /\ <<>> \in Seq(0 .. DirFids - 1)
            /\ Len(<<1>>) = 1 /\ Len(<<>>) = 0 /\ <<1>> # <<>>
        BY <3>1
      <3>3. CASE shell
        BY <1>7, <3>1, <3>2, <3>3
      <3>4. CASE ~shell
        BY <1>7, <3>1, <3>2, <3>4
      <3> QED BY <3>3, <3>4
    <2>2. DOMAIN root \subseteq FileNames /\ \A name \in DOMAIN root : root[name] \in 1 .. all_file_num - 1
      BY <1>7
    <2>3. DOMAIN dir_root \subseteq DirNames
      BY <1>6, DirectoriesAssumption
    <2> QED BY <1>4, <1>6, <1>7, <2>1, <2>2, <2>3, Bounds DEF Types
  <1>9. 1 % DirFids = 1
    BY Small, Bounds
  <1>10. Numbered /\ OwnNumbers /\ ShellUnrefused /\ Unrefused /\ NamesApart
    BY <1>4, <1>5, <1>6, <1>9 DEF Numbered, OwnNumbers, ShellUnrefused, Unrefused, NamesApart, Dirs
  <1>11. PathDepths
    BY <1>4, <1>6, <1>7 DEF PathDepths, Dirs
  <1>12. Parented
    BY <1>4, <1>6 DEF Parented, Dirs
  <1> QED BY <1>8, <1>10, <1>11, <1>12 DEF Inv

(* While directories only grow, those that are listed stay so.             *)
LEMMA GrownHolds ==
    ASSUME NEW a \in Records, NEW b \in Records, Grown(a, b), all_file_num <= M, b.dir_num <= M
    PROVE  a.dir_num <= M /\ \A e : Holds(a, e) => Holds(b, e)
  <1>1. /\ a.dir_num \in Nat /\ b.dir_num \in Nat
        /\ a.dir_dnum \in Nat /\ b.dir_dnum \in Nat
    BY Bounds DEF Records
  <1>2. a.dir_num <= M
    BY <1>1, Bounds DEF Grown
  <1>3. ASSUME NEW e, Holds(a, e) PROVE Holds(b, e)
    <2>1. PICK i \in 0 .. a.dir_dnum - 1 : a.list[M + i] = e
      BY <1>3 DEF Holds
    <2>2. i \in 0 .. b.dir_dnum - 1
      BY <1>1 DEF Grown
    <2>3. b.list[M + i] = e
      BY <2>1 DEF Grown
    <2> QED BY <2>2, <2>3 DEF Holds
  <1> QED BY <1>2, <1>3

(* If few directories and files are listed after a step, then few were     *)
(* before it, and what was listed still is.                                *)
LEMMA StillFew ==
    ASSUME Types, Types', Kept, all_dir_num' = all_dir_num, all_file_num <= all_file_num', Few'
    PROVE  /\ Few
           /\ \A d, e \in Dirs : Holds(dir_mem[d], e) => Holds(dir_mem'[d], e)
  <1>1. /\ all_file_num \in Nat /\ all_file_num' \in Nat /\ all_file_num <= M
        /\ Dirs' = Dirs /\ \A d \in Dirs : d \in 0 .. MaxDirs
    BY Bounds DEF Types, Dirs, Few
  <1>2. \A d \in Dirs : dir_mem[d] \in Records /\ dir_mem'[d] \in Records
    BY <1>1 DEF Types
  <1>3. ASSUME NEW d \in Dirs
        PROVE  /\ dir_mem[d].dir_num <= M
               /\ \A e \in Dirs : Holds(dir_mem[d], e) => Holds(dir_mem'[d], e)
    <2>1. Grown(dir_mem[d], dir_mem'[d]) /\ dir_mem'[d].dir_num <= M
      BY <1>1, <1>3 DEF Kept, Few
    <2> QED BY <1>1, <1>2, <2>1, GrownHolds
  <1> QED BY <1>1, <1>3 DEF Few

(* Whatever keeps the directories, their names and the path.               *)
LEMMA KeptInv ==
    ASSUME Inv, Types', Kept, all_file_num <= all_file_num',
           UNCHANGED <<shell, dir_root, all_dir_num, dir_path, refused, astray>>,
           \A d \in Dirs : \/ dir_mem'[d].p_fid = dir_mem[d].p_fid
                           \/ dir_mem'[d].p_fid = Garbage
                           \/ Few => InPlace(dir_mem[d], d)'
    PROVE  Inv'
  <1>1. 0 \in 0 .. MaxDirs /\ \A n \in Dirs : n \in 0 .. MaxDirs
    BY Bounds DEF Inv, Types, Dirs
  <1>2. Numbered' /\ OwnNumbers' /\ ShellUnrefused' /\ Unrefused' /\ NamesApart'
    BY <1>1 DEF Inv, Kept, Grown, Numbered, OwnNumbers, ShellUnrefused, Unrefused, NamesApart, Dirs
  <1>3. PathDepths'
    BY <1>1 DEF Inv, Kept, Grown, PathDepths, Dirs
  <1>4. Parented'
    <2> SUFFICES ASSUME Few', NEW d \in Dirs \ astray,
                        dir_mem'[d].depth > 0, dir_mem'[d].p_fid # Garbage
                 PROVE  InPlace(dir_mem[d], d)'
      BY DEF Parented, Dirs
    <2>1. Few /\ \A c, e \in Dirs : Holds(dir_mem[c], e) => Holds(dir_mem'[c], e)
      BY StillFew DEF Inv
    <2>2. CASE dir_mem'[d].p_fid = dir_mem[d].p_fid
      <3>1. dir_mem[d].depth > 0
        BY <1>1 DEF Kept, Grown
      <3>2. InPlace(dir_mem[d], d)
        BY <2>1, <2>2, <3>1 DEF Inv, Parented
      <3> QED BY <2>1, <2>2, <3>2 DEF InPlace, Dirs
    <2> QED BY <2>1, <2>2
  <1> QED BY <1>2, <1>3, <1>4 DEF Inv

LEMMA DeleteInv == ASSUME Inv, NEW name \in DirNames, fm_dir_delete(name) PROVE Inv'
  <1>1. UNCHANGED <<shell, root, all_file_num, all_dir_num, dir_mem, dir_path, refused, astray>>
    BY DEF fm_dir_delete, nums
  <1>2. /\ DOMAIN dir_root' \subseteq DOMAIN dir_root
        /\ \A x \in DOMAIN dir_root' : dir_root'[x] = dir_root[x]
    BY DEF fm_dir_delete, Without
  <1>3. OwnNumbers' /\ ShellUnrefused' /\ PathDepths' /\ Parented'
    BY <1>1 DEF Inv, OwnNumbers, ShellUnrefused, PathDepths, Parented, Few, InPlace, Dirs
  <1>4. Types'
    BY <1>1, <1>2 DEF Inv, Types
  <1>5. Numbered' /\ Unrefused' /\ NamesApart'
    BY <1>1, <1>2 DEF Inv, Numbered, Unrefused, NamesApart
  <1> QED BY <1>3, <1>4, <1>5 DEF Inv

(* A directory that is created gets a number no other name leads to.       *)
LEMMA CreateDirInv ==
    ASSUME Inv, NEW name \in DirNames, NEW p_fid \in Nat, NEW level \in Nat,
           shell => level <= 2, fm_dir_create(name, p_fid, level)
    PROVE  Inv'
  <1> DEFINE n == all_dir_num
  <1>1. /\ dir_mem' \in [0 .. MaxDirs -> Records]
        /\ all_dir_num' \in {n, n + 1}
        /\ \A k \in 0 .. MaxDirs \ {n} :
              Grown(dir_mem[k], dir_mem'[k]) /\ dir_mem'[k].p_fid = dir_mem[k].p_fid
        /\ all_dir_num' # n =>
              /\ dir_mem'[n].fid = n % DirFids
              /\ dir_mem'[n].depth = level
              /\ level > 0 /\ p_fid \in 0 .. MaxDirs /\ p_fid # n =>
                    dir_mem'[n].p_fid = p_fid % DirFids /\ Holds(dir_mem'[p_fid], n)
    BY CreateDirKeeps DEF Inv
  <1>2. n \in 2 .. MaxDirs /\ n < MaxDirs /\ MaxDirs \in Nat
    BY Bounds DEF Inv, Types, fm_dir_create, InTable
  <1>3. UNCHANGED <<shell, root, all_file_num, dir_path>> /\ dir_root' = Put(dir_root, name, n)
    BY DEF fm_dir_create
  <1>4. \/ level > 2 /\ refused' = refused \cup {name} /\ all_dir_num' = n
        \/ refused' = refused \ {name} /\ all_dir_num' = n + 1
    BY DEF fm_dir_create, TooDeep
  <1>a. /\ astray \subseteq astray' /\ astray' \subseteq astray \cup {n}
        /\ all_dir_num' # n /\ n \notin astray' => level = 0 \/ p_fid \in Dirs
    <2>1. \/ UNCHANGED <<all_dir_num, astray>>
          \/ level = 0 /\ UNCHANGED astray
          \/ astray' = IF p_fid \in Dirs THEN astray ELSE astray \cup {n}
      BY DEF fm_dir_create
    <2> QED BY <2>1
  <1> HIDE DEF n
  <1>5. Types'
    <2>1. refused' \subseteq DirNames
      BY <1>4 DEF Inv, Types
    <2>2. DOMAIN dir_root' \subseteq DirNames
      BY <1>3 DEF Inv, Types, Put
    <2>3. astray' \subseteq 0 .. MaxDirs
      BY <1>2, <1>a DEF Inv, Types
    <2> QED BY <1>1, <1>2, <1>3, <2>1, <2>2, <2>3 DEF Inv, Types
  <1>6. Dirs = 1 .. n - 1 /\ Dirs' = 1 .. all_dir_num' - 1
    BY DEF Dirs, n
  <1>7. \A k \in Dirs : k \in 0 .. MaxDirs \ {n}
    BY <1>2, <1>6
  <1>8. OwnNumbers'
    <2>1. dir_mem'[0].fid = 0
      BY <1>1, <1>2 DEF Grown, Inv, OwnNumbers
    <2> SUFFICES ASSUME NEW k \in Dirs' PROVE dir_mem'[k].fid = k % DirFids
      BY <2>1 DEF OwnNumbers
    <2>2. CASE k \in Dirs
      <3>1. dir_mem[k].fid = k % DirFids
        BY <2>2 DEF Inv, OwnNumbers
      <3> QED BY <1>1, <1>7, <2>2, <3>1 DEF Grown
    <2>3. CASE k \notin Dirs
      <3>1. k \in 1 .. all_dir_num' - 1 /\ k \notin 1 .. n - 1
        BY <1>6, <2>3, Zenon
      <3>2. k = n /\ all_dir_num' # n
        <4>1. all_dir_num' = n \/ all_dir_num' = n + 1
          BY <1>1
        <4>2. n \in Nat
          BY <1>2
        <4> QED BY <3>1, <4>1, <4>2
      <3> QED BY <1>1, <3>2
    <2> QED BY <2>2, <2>3
  <1>9. ShellUnrefused'
    BY <1>3, <1>4 DEF Inv, ShellUnrefused
  <1>10. /\ DOMAIN dir_root' = DOMAIN dir_root \cup {name}
         /\ dir_root'[name] = n
         /\ \A x \in DOMAIN dir_root \ {name} : dir_root'[x] = dir_root[x]
    BY <1>3 DEF Put
  <1>11. Numbered'
    BY <1>1, <1>2, <1>10 DEF Inv, Numbered, n
  <1>12. Unrefused'
    BY <1>1, <1>2, <1>4, <1>10 DEF Inv, Unrefused, Numbered, n
  <1>13. NamesApart'
    <2> SUFFICES ASSUME NEW x \in DOMAIN dir_root' \ refused', NEW y \in DOMAIN dir_root' \ refused',
                        x # y
                 PROVE  dir_root'[x] # dir_root'[y]
      BY DEF NamesApart
    <2>1. CASE x # name /\ y # name
      BY <1>4, <1>10, <2>1 DEF Inv, NamesApart
    <2>2. CASE x = name
      <3>1. y \in DOMAIN dir_root \ refused /\ y # name /\ dir_root[y] < n /\ dir_root[y] \in Nat
        BY <1>2, <1>4, <1>10, <2>2 DEF Inv, Unrefused, Numbered, n
      <3> QED BY <1>2, <1>10, <2>2, <3>1
    <2>3. CASE y = name
      <3>1. x \in DOMAIN dir_root \ refused /\ x # name /\ dir_root[x] < n /\ dir_root[x] \in Nat
        BY <1>2, <1>4, <1>10, <2>3 DEF Inv, Unrefused, Numbered, n
      <3> QED BY <1>2, <1>10, <2>3, <3>1
    <2> QED BY <2>1, <2>2, <2>3
  <1>14. PathDepths'
    <2> SUFFICES ASSUME shell', all_dir_num' <= DirFids, NEW i \in DOMAIN dir_path'
                 PROVE  dir_path'[i] \in Dirs' /\ dir_mem'[dir_path'[i]].depth = i - 1
      BY DEF PathDepths
    <2>1. dir_path[i] \in Dirs /\ dir_mem[dir_path[i]].depth = i - 1
      BY <1>1, <1>2, <1>3, Bounds DEF Inv, PathDepths, n
    <2> QED BY <1>1, <1>2, <1>3, <1>6, <1>7, <2>1 DEF Grown
  <1>15. Parented'
    <2> SUFFICES ASSUME Few', NEW d \in Dirs' \ astray',
                        dir_mem'[d].depth > 0, dir_mem'[d].p_fid # Garbage
                 PROVE  InPlace(dir_mem[d], d)'
      BY DEF Parented
    <2>1. /\ n \in Nat /\ all_dir_num' <= DirFids /\ all_dir_num' \in Nat /\ all_dir_num' >= n
          /\ all_file_num \in Nat /\ all_file_num <= M
      BY <1>1, <1>2, <1>3 DEF Few, Inv, Types
    <2>2. PICK q \in Nat : q = all_dir_num' /\ q \in {n, n + 1}
      BY <1>1, <2>1
    <2>3. PICK m \in Nat : m = n
      BY <2>1
    <2>4. Dirs \subseteq Dirs'
      <3>1. Dirs = 1 .. m - 1 /\ Dirs' = 1 .. q - 1 /\ q \in {m, m + 1}
        BY <1>6, <2>2, <2>3
      <3> QED BY <3>1
    <2>5. ASSUME NEW c \in Dirs
          PROVE  /\ c \in 0 .. MaxDirs \ {n} /\ dir_mem[c] \in Records /\ dir_mem'[c] \in Records
                 /\ Grown(dir_mem[c], dir_mem'[c]) /\ dir_mem[c].dir_num <= M
                 /\ \A e \in Dirs : Holds(dir_mem[c], e) => Holds(dir_mem'[c], e)
      <3>1. c \in 0 .. MaxDirs \ {n} /\ dir_mem[c] \in Records /\ dir_mem'[c] \in Records
            /\ Grown(dir_mem[c], dir_mem'[c]) /\ dir_mem'[c].dir_num <= M
        BY <1>1, <1>7, <2>4 DEF Inv, Types, Few
      <3> QED BY <2>1, <3>1, GrownHolds
    <2>6. Few
      <3>1. all_dir_num <= DirFids
        BY <1>2, <2>1, Bounds DEF n
      <3> QED BY <2>1, <2>5, <3>1 DEF Few
    <2>7. CASE d \in Dirs
      <3>1. dir_mem[d].depth > 0 /\ dir_mem'[d].p_fid = dir_mem[d].p_fid
        BY <1>1, <2>5, <2>7 DEF Grown
      <3>2. InPlace(dir_mem[d], d)
        BY <1>a, <2>6, <2>7, <3>1 DEF Inv, Parented
      <3> QED BY <2>4, <2>5, <2>7, <3>1, <3>2 DEF InPlace
    <2>8. CASE d \notin Dirs
      <3>1. d \in 1 .. q - 1 /\ d \notin 1 .. m - 1 /\ q \in {m, m + 1}
        BY <1>6, <2>2, <2>3, <2>8
      <3>2. d = n /\ all_dir_num' # n
        <4>1. d = m /\ q # m
          BY <3>1
        <4> QED BY <2>2, <2>3, <4>1
      <3>3. level > 0 /\ p_fid \in Dirs
        <4>1. dir_mem'[n].depth = level /\ level # 0
          BY <1>1, <3>2
        <4>2. level = 0 \/ p_fid \in Dirs
          BY <1>a, <3>2
        <4> QED BY <4>1, <4>2
      <3>4. p_fid \in 0 .. MaxDirs /\ p_fid < DirFids /\ p_fid # n
        BY <1>2, <1>6, <2>1, <3>3, Bounds
      <3>5. p_fid % DirFids = p_fid
        BY <3>4, Small, Bounds
      <3> QED BY <1>1, <2>4, <3>2, <3>3, <3>4, <3>5 DEF InPlace
    <2> QED BY <2>7, <2>8
  <1> QED BY <1>5, <1>8, <1>9, <1>11, <1>12, <1>13, <1>14, <1>15 DEF Inv

(* file scp in: the directory found is one there is, and fid its number.   *)
LEMMA InwardInv == ASSUME Inv, shell, NEW name \in DirNames, scp_in(name) PROVE Inv'
  <1> DEFINE d == dir_root[name]
  <1>1. UNCHANGED <<shell, root, dir_root, all_file_num, all_dir_num, dir_mem, refused, astray>>
    BY DEF scp_in, indices, nums
  <1>2. /\ dir_path \in Seq(0 .. DirFids - 1) /\ Len(dir_path) < MaxPath
        /\ dir_path' = Append(dir_path, dir_mem[d].fid)
        /\ dir_mem[d].depth = Len(dir_path) - 1 + 1
    BY DEF Inv, Types, scp_in, depth
  <1>3. d \in Dirs /\ d \in Nat /\ d < all_dir_num /\ d \in 0 .. MaxDirs
    BY Bounds DEF Inv, Types, Numbered, Unrefused, ShellUnrefused, scp_in, Dirs
  <1>4. dir_mem[d].fid = d % DirFids /\ dir_mem[d].fid \in 0 .. DirFids - 1
    BY <1>3 DEF Inv, OwnNumbers, Types, Records
  <1>5. all_dir_num <= DirFids => dir_mem[d].fid = d
    BY <1>3, <1>4, Small, Bounds DEF Inv, Types
  <1> HIDE DEF d
  <1>6. /\ dir_path' \in Seq(0 .. DirFids - 1) /\ Len(dir_path') = Len(dir_path) + 1
        /\ Len(dir_path) \in Nat
        /\ \A i \in 1 .. Len(dir_path) : dir_path'[i] = dir_path[i]
        /\ dir_path'[Len(dir_path) + 1] = dir_mem[d].fid
    BY <1>2, <1>4
  <1>7. Types'
    <2>1. Len(dir_path') <= MaxPath /\ dir_path' # <<>>
      BY <1>2, <1>6 DEF MaxPath
    <2> QED BY <1>1, <1>6, <2>1 DEF Inv, Types
  <1>8. PathDepths'
    <2> SUFFICES ASSUME all_dir_num <= DirFids, NEW i \in 1 .. Len(dir_path) + 1
                 PROVE  dir_path'[i] \in Dirs /\ dir_mem[dir_path'[i]].depth = i - 1
      BY <1>1, <1>6 DEF PathDepths, Dirs
    <2>1. CASE i \in 1 .. Len(dir_path)
      BY <1>2, <1>6, <2>1 DEF Inv, PathDepths
    <2>2. CASE i = Len(dir_path) + 1
      BY <1>2, <1>3, <1>5, <1>6, <2>2
    <2> QED BY <1>2, <2>1, <2>2
  <1>9. Numbered' /\ OwnNumbers' /\ ShellUnrefused' /\ Unrefused' /\ NamesApart' /\ Parented'
    BY <1>1 DEF Inv, Numbered, OwnNumbers, ShellUnrefused, Unrefused, NamesApart, Parented, Few,
                InPlace, Dirs
  <1> QED BY <1>7, <1>8, <1>9 DEF Inv

LEMMA OutwardInv == ASSUME Inv, shell, scp_out PROVE Inv'
  <1>1. UNCHANGED <<shell, root, dir_root, all_file_num, all_dir_num, dir_mem, refused, astray>>
    BY DEF scp_out, indices, nums
  <1>2. /\ dir_path \in Seq(0 .. DirFids - 1) /\ Len(dir_path) > 1 /\ Len(dir_path) \in Nat
        /\ Len(dir_path) <= MaxPath
        /\ dir_path' = SubSeq(dir_path, 1, Len(dir_path) - 1)
    BY DEF Inv, Types, scp_out, Front
  <1>3. /\ dir_path' \in Seq(0 .. DirFids - 1) /\ Len(dir_path') = Len(dir_path) - 1
        /\ \A i \in 1 .. Len(dir_path) - 1 : dir_path'[i] = dir_path[i]
    <2>1. PICK S : S = 0 .. DirFids - 1
      OBVIOUS
    <2>2. dir_path \in Seq(S)
      BY <1>2, <2>1
    <2>3. /\ SubSeq(dir_path, 1, Len(dir_path) - 1) \in Seq(S)
          /\ Len(SubSeq(dir_path, 1, Len(dir_path) - 1)) = Len(dir_path) - 1
          /\ \A i \in 1 .. Len(dir_path) - 1 : SubSeq(dir_path, 1, Len(dir_path) - 1)[i] = dir_path[i]
      BY <1>2, <2>2
    <2> QED BY <1>2, <2>1, <2>3
  <1>4. DOMAIN dir_path' = 1 .. Len(dir_path) - 1 /\ dir_path' # <<>>
    <2>1. Len(dir_path') \in Nat \ {0} /\ DOMAIN dir_path' = 1 .. Len(dir_path')
      BY <1>2, <1>3
    <2> QED BY <1>3, <2>1
  <1>5. Types'
    <2>1. Len(dir_path') <= MaxPath
      BY <1>2, <1>3 DEF MaxPath
    <2> QED BY <1>1, <1>3, <1>4, <2>1 DEF Inv, Types
  <1>6. PathDepths'
    <2> SUFFICES ASSUME all_dir_num <= DirFids, NEW i \in 1 .. Len(dir_path) - 1
                 PROVE  dir_path'[i] \in Dirs /\ dir_mem[dir_path'[i]].depth = i - 1
      BY <1>1, <1>2, <1>3, <1>4 DEF PathDepths, Dirs
    <2>1. i \in DOMAIN dir_path
      BY <1>2
    <2> QED BY <1>2, <1>3, <2>1 DEF Inv, PathDepths
  <1>7. Numbered' /\ OwnNumbers' /\ ShellUnrefused' /\ Unrefused' /\ NamesApart' /\ Parented'
    BY <1>1 DEF Inv, Numbered, OwnNumbers, ShellUnrefused, Unrefused, NamesApart, Parented, Few,
                InPlace, Dirs
  <1> QED BY <1>5, <1>6, <1>7 DEF Inv
-----------------------------------------------------------------------------
LEMMA MoveDirInv ==
    ASSUME Inv, shell, NEW name \in DirNames, NEW dst \in DirNames, dmv(name, dst)
    PROVE  Inv'
  <1>1. UNCHANGED <<shell, root, dir_root, all_dir_num, all_file_num, dir_path, refused, astray>>
    BY DEF dmv, indices, nums
  <1>2. /\ Types' /\ Kept
        /\ \A n \in 0 .. MaxDirs :
              \/ dir_mem'[n].p_fid = dir_mem[n].p_fid
              \/ dir_mem'[n].p_fid = Garbage
              \/ /\ name \in DOMAIN dir_root /\ n = dir_root[name]
                 /\ dst \in DOMAIN dir_root
                 /\ dir_mem'[n].p_fid = dir_mem[dir_root[dst]].fid
                 /\ Holds(dir_mem'[dir_root[dst]], dir_mem[n].fid)
    BY MoveDirKeeps DEF Inv, Holds
  <1>3. ASSUME NEW n \in Dirs,
               dir_mem'[n].p_fid # dir_mem[n].p_fid, dir_mem'[n].p_fid # Garbage, Few
        PROVE  InPlace(dir_mem[n], n)'
    <2>1. n \in 0 .. MaxDirs
      BY Bounds DEF Inv, Types, Dirs
    <2>2. PICK d : d = dir_root[dst]
      OBVIOUS
    <2>3. /\ dst \in DOMAIN dir_root
          /\ dir_mem'[n].p_fid = dir_mem[d].fid
          /\ Holds(dir_mem'[d], dir_mem[n].fid)
      BY <1>2, <1>3, <2>1, <2>2
    <2>4. d \in 1 .. all_dir_num /\ d < all_dir_num
      BY <2>2, <2>3 DEF Inv, Numbered, Unrefused, ShellUnrefused
    <2>5. d \in Dirs
      BY <2>4 DEF Dirs, Inv, Types
    <2>6. ASSUME NEW k \in Dirs PROVE dir_mem[k].fid = k
      <3>1. dir_mem[k].fid = k % DirFids
        BY <2>6 DEF Inv, OwnNumbers
      <3>2. k \in Nat /\ k < DirFids
        BY <1>3, <2>6, Bounds DEF Few, Dirs, Inv, Types
      <3> QED BY <3>1, <3>2, Small, Bounds
    <2>7. dir_mem'[n].p_fid = d /\ Holds(dir_mem'[d], n)
      BY <2>3, <2>5, <2>6
    <2>8. Dirs' = Dirs
      BY <1>1 DEF Dirs
    <2> QED BY <2>5, <2>7, <2>8 DEF InPlace
  <1>4. all_file_num <= all_file_num' /\ \A n \in Dirs : n \in 0 .. MaxDirs
    BY <1>1, Bounds DEF Inv, Types, Dirs
  <1> QED BY <1>1, <1>2, <1>3, <1>4, KeptInv

(* Steps after which every directory has the parent it had.                *)
LEMMA SettledInv ==
    ASSUME Inv, Types', Kept, SameParents, all_file_num' \in {all_file_num, all_file_num + 1},
           UNCHANGED <<shell, dir_root, all_dir_num, dir_path, refused, astray>>
    PROVE  Inv'
  <1>1. all_file_num <= all_file_num'
    BY DEF Inv, Types
  <1>2. \A d \in Dirs : dir_mem'[d].p_fid = dir_mem[d].p_fid
    BY Bounds DEF SameParents, Inv, Types, Dirs
  <1> QED BY <1>1, <1>2, KeptInv

LEMMA NextInv == Inv /\ [Next]_vars => Inv'
  <1> SUFFICES ASSUME Inv, [Next]_vars PROVE Inv'
    OBVIOUS
  <1>1. Types /\ Numbered
    BY DEF Inv
  <1>2. ASSUME NEW name \in FileNames, fm_create(name) PROVE Inv'
    <2>1. UNCHANGED <<shell, dir_root, all_dir_num, dir_path, refused, astray>>
          /\ all_file_num' = all_file_num + 1
      BY <1>2 DEF fm_create
    <2>2. Types' /\ Kept /\ SameParents
      BY <1>1, <1>2, CreateKeeps
    <2> QED BY <2>1, <2>2, SettledInv
  <1>3. ASSUME NEW name \in FileNames, fm_delete(name) PROVE Inv'
    <2>1. UNCHANGED <<shell, dir_root, all_dir_num, all_file_num, dir_mem, dir_path, refused, astray>>
          /\ root' = Without(root, name)
      BY <1>3 DEF fm_delete, nums
    <2>2. /\ DOMAIN root' \subseteq FileNames
          /\ \A x \in DOMAIN root' : root'[x] \in 1 .. all_file_num' - 1
      BY <1>1, <2>1 DEF Types, Without
    <2>3. Types'
      BY <1>1, <2>1, <2>2 DEF Types
    <2>4. Kept /\ SameParents
      BY <1>1, <2>1, NoneGrown DEF Types, Kept, SameParents
    <2> QED BY <2>1, <2>3, <2>4, SettledInv
  <1>4. ASSUME NEW name \in DirNames, fm_dir_delete(name) PROVE Inv'
    BY <1>4, DeleteInv
  <1>5. ASSUME shell, kshell PROVE Inv'
    <2>1. ASSUME NEW name \in DirNames, dcrt(name) PROVE Inv'
      <3> DEFINE k == Last(dir_path)
      <3>1. /\ Len(dir_path) \in Nat \ {0} /\ k = dir_path[Len(dir_path)]
            /\ k \in 0 .. DirFids - 1 /\ k < all_dir_num
        <4>1. dir_path \in Seq(0 .. DirFids - 1) /\ dir_path # <<>>
          BY <1>1, <1>5 DEF Types
        <4>2. Len(dir_path) \in Nat \ {0} /\ dir_path[Len(dir_path)] \in 0 .. DirFids - 1
          <5>1. PICK S : S = 0 .. DirFids - 1
            OBVIOUS
          <5>2. dir_path \in Seq(S) /\ dir_path # <<>>
            BY <4>1, <5>1
          <5>3. Len(dir_path) \in Nat \ {0} /\ dir_path[Len(dir_path)] \in S
            BY <5>2
          <5> QED BY <5>1, <5>3
        <4>3. k = dir_path[Len(dir_path)] /\ k < all_dir_num
          BY <2>1 DEF dcrt, HasCurrent, Last
        <4> QED BY <4>2, <4>3
      <3>2. k \in Nat /\ k \in 0 .. MaxDirs /\ all_dir_num \in Nat
        BY <1>1, <3>1, Bounds DEF Types
      <3>3. kcurrent_dir.fid \in Nat
        <4>1. kcurrent_dir \in Records
          BY <1>1, <3>2 DEF Types, kcurrent_dir
        <4> QED BY <4>1, Bounds DEF Records
      <3>4. depth + 1 \in Nat /\ depth + 1 <= 2
        BY <2>1, <3>1 DEF dcrt, depth
      <3>5. fm_dir_create(name, kcurrent_dir.fid, depth + 1)
        BY <2>1 DEF dcrt
      <3> QED BY <3>3, <3>4, <3>5, CreateDirInv
    <2>2. ASSUME NEW name \in DirNames, scp_in(name) PROVE Inv'
      BY <1>5, <2>2, InwardInv
    <2>3. CASE scp_out
      BY <1>5, <2>3, OutwardInv
    <2>4. ASSUME NEW src \in DirNames, NEW dst \in DirNames, NEW name \in FileNames,
                 mv(src, name, dst)
          PROVE  Inv'
      <3>1. UNCHANGED <<shell, dir_root, all_dir_num, all_file_num, dir_path, refused, astray>>
        BY <2>4 DEF mv, indices, nums
      <3>2. Types' /\ Kept /\ SameParents
        BY <1>1, <2>4, MoveKeeps
      <3> QED BY <3>1, <3>2, SettledInv
    <2>5. ASSUME NEW name \in DirNames, NEW dst \in DirNames, dmv(name, dst) PROVE Inv'
      BY <1>5, <2>5, MoveDirInv
    <2> QED BY <1>5, <2>1, <2>2, <2>3, <2>4, <2>5 DEF kshell
  <1>6. ASSUME ~shell, Processes PROVE Inv'
    <2>1. PICK name \in DirNames, p_fid \in 0 .. MaxDirs - 1, level \in 0 .. 3 :
             fm_dir_create(name, p_fid, level)
      BY <1>6 DEF Processes, dir_create_call
    <2>2. p_fid \in Nat /\ level \in Nat
      BY <2>1, Bounds
    <2> QED BY <1>6, <2>1, <2>2, CreateDirInv
  <1>7. CASE UNCHANGED vars
    <2>1. UNCHANGED <<shell, root, dir_root, all_file_num, all_dir_num, dir_mem, dir_path, refused, astray>>
      BY <1>7 DEF vars, indices, nums
    <2>2. Types'
      BY <1>1, <2>1 DEF Types
    <2>3. Kept /\ SameParents
      BY <1>1, <2>1, NoneGrown DEF Types, Kept, SameParents
    <2> QED BY <2>1, <2>2, <2>3, SettledInv
  <1> QED BY <1>2, <1>3, <1>4, <1>5, <1>6, <1>7 DEF Next

(* Names of directories lead to different ones, refused names excepted,    *)
(* over all creations and deletions.                                       *)
THEOREM NamesStayApart == Spec => []NamesApart
  <1>1. Inv => NamesApart
    BY DEF Inv
  <1> QED BY <1>1, InitInv, NextInv, PTL DEF Spec

(* The shell's path goes down one level at a time, whatever is moved,      *)
(* deleted or created under its feet.                                      *)
THEOREM PathGoesDown == Spec => []PathDepths
  <1>1. Inv => PathDepths
    BY DEF Inv
  <1> QED BY <1>1, InitInv, NextInv, PTL DEF Spec

(* A directory made below another there was is listed by the parent it     *)
(* has, wherever it was moved since, while files[] holds all files: what   *)
(* fm_dir_create and dmv do to other directories leaves the entry there.   *)
THEOREM ParentLists == Spec => []ListedByParent
  <1>1. Inv => ListedByParent
    <2> SUFFICES ASSUME Inv, Few, NEW d \in Dirs \ astray,
                        dir_mem[d].depth > 0, dir_mem[d].p_fid # Garbage
                 PROVE  d \in Listed(dir_mem[d].p_fid)
      BY DEF ListedByParent, Few
    <2>1. InPlace(dir_mem[d], d)
      BY DEF Inv, Parented
    <2> QED BY <2>1 DEF InPlace, Holds, Listed
  <1> QED BY <1>1, InitInv, NextInv, PTL DEF Spec

(* Names, numbers, lists and the shell's path keep their types.            *)
THEOREM TypeCorrect == Spec => []TypeOK
  <1>1. Inv => TypeOK
    <2> SUFFICES ASSUME Inv PROVE TypeOK
      OBVIOUS
    <2>1. dir_path \in BoundedSeq(0 .. DirFids - 1, MaxPath)
      <3>1. PICK S : S = 0 .. DirFids - 1
        OBVIOUS
      <3>2. dir_path \in Seq(S) /\ Len(dir_path) <= 3
        BY <3>1 DEF Inv, Types, MaxPath
      <3>3. PICK n \in Nat : n = Len(dir_path)
        BY <3>2
      <3>4. n \in 0 .. MaxPath
        BY <3>2, <3>3 DEF MaxPath
      <3>5. dir_path \in [1 .. n -> S]
        BY <3>2, <3>3
      <3>6. dir_path \in UNION {[1 .. m -> S] : m \in 0 .. MaxPath}
        BY <3>4, <3>5
      <3> QED BY <3>1, <3>6 DEF BoundedSeq, SeqOf
    <2>2. dir_mem \in [0 .. MaxDirs -> [list : [0 .. 2 * M - 1 -> Nat \cup {Garbage}],
                                       p_fid : {Garbage} \cup 0 .. DirFids - 1,
                                       fid : 0 .. DirFids - 1, depth : 0 .. 2,
                                       dir_num : 0 .. 2 * M, dir_dnum : 0 .. M]]
      BY DEF Inv, Types, Records, Lists
    <2>3. \A name \in DOMAIN dir_root : dir_root[name] \in 1 .. all_dir_num
      BY DEF Inv, Numbered
    <2> QED BY <2>1, <2>2, <2>3 DEF Inv, Types, TypeOK
  <1> QED BY <1>1, InitInv, NextInv, PTL DEF Spec
=============================================================================
