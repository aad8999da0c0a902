----------------------------- MODULE FileStore ------------------------------
(***************************************************************************)
(* What the file manager promises of contents: each file, known by its     *)
(* number, is a fixed number of bytes of its own.  Writing changes the     *)
(* bytes of one file at one place, and stops at its end; reading answers   *)
(* the bytes that are there; a file that is deleted keeps its contents for *)
(* those who have it open.                                                 *)
(***************************************************************************)
EXTENDS Sequences, Integers

CONSTANTS Bytes, MaxFileSize, Writes, Counts

VARIABLES contents,  \* number -> sequence of bytes
          out        \* what the last operation read

Least(a, b) == IF a < b THEN a ELSE b
Rest(n, off) == Len(contents[n]) - off

Create(n) ==
    /\ n \notin DOMAIN contents
    /\ \E size \in 0 .. MaxFileSize : \E new \in [1 .. size -> Bytes] :
          contents' = [m \in DOMAIN contents \cup {n} |->
                          IF m = n THEN new ELSE contents[m]]
    /\ out' = <<>>

Write(n, off, bytes) ==
    LET k == Least(Len(bytes), Rest(n, off))
    IN  /\ contents' = [contents EXCEPT ![n] =
              [i \in DOMAIN contents[n] |->
                  IF i \in off + 1 .. off + k THEN bytes[i - off] ELSE contents[n][i]]]
        /\ out' = <<>>

Read(n, off, count) ==
    /\ out' = SubSeq(contents[n], off + 1, off + Least(count, Rest(n, off)))
    /\ UNCHANGED contents

Nothing == out' = <<>> /\ UNCHANGED contents

Next ==
    \/ Nothing
    \/ \E n \in 1 .. Len(contents) + 1 : Create(n)
    \/ \E n \in DOMAIN contents, off \in 0 .. MaxFileSize - 1 :
          /\ Rest(n, off) > 0
          /\ \/ \E bytes \in Writes : Write(n, off, bytes)
             \/ \E count \in Counts : Read(n, off, count)

Spec == contents = <<>> /\ out = <<>> /\ [][Next]_<<contents, out>>
=============================================================================
