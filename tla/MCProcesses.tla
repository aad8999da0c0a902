---------------------------- MODULE MCProcesses -----------------------------
(* Images for a process of 64 quanta, where addresses wrap at 1024: one    *)
(* that loads in two segments, one that the alignment pushes into the      *)
(* stack, one as large as the memory, one without anything to load, one    *)
(* entered before its start, one that ends where the addresses do; one of  *)
(* a sound segment and one whose end wraps, refused after the first was    *)
(* copied or taken for one that fits, as the alignment has it.             *)
EXTENDS Processes

Segment(vaddr, memsz) == [vaddr |-> vaddr, memsz |-> memsz]

Image(segments, align, entry) ==
    [valid |-> TRUE, segments |-> segments, align |-> align, entry |-> entry]

Sound == Image(<<Segment(4, 7), Segment(12, 9)>>, 8, 5)
Wraps == Image(<<Segment(4, 7), Segment(1016, 8)>>, 1, 5)

MCImages == {Sound,
             [Sound EXCEPT !.valid = FALSE],
             Image(<<Segment(0, 60)>>, 16, 0),
             Image(<<Segment(0, 64)>>, 1, 0),
             Image(<<Segment(0, 57)>>, 1, 0),
             Image(<<>>, 1, 0),
             Image(<<Segment(4, 7)>>, 4, 2),
             Image(<<Segment(1000, 24)>>, 1, 1001),
             Wraps,
             [Wraps EXCEPT !.align = 8]}
=============================================================================
