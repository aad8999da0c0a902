------------------------------ MODULE Console -------------------------------
(***************************************************************************)
(* The kernel's text console on the display: io_puts_color and gets of     *)
(* src/global/io.c with the drawing of letters of src/tools/font.c.  A     *)
(* cell of eight by eight pixels holds the set of the letters that were    *)
(* drawn over each other in it, since a glyph sets pixels and clears none. *)
(***************************************************************************)
EXTENDS Naturals, Sequences

CONSTANTS Columns, Lines, \* the display's size in whole cells
          RunSize,        \* how many letters io_puts_color draws at once
          Letters,        \* what can be typed, besides the space
          Outputs,        \* what the kernel prints
          MaxLen          \* the size of the buffer given to gets

ASSUME ConsoleAssumption ==
    /\ Columns \in Nat \ {0} /\ Lines \in Nat \ {0}
    /\ RunSize \in Nat \ {0} /\ MaxLen \in Nat
    /\ Letters \subseteq STRING \ {"newline", "return"} /\ Outputs \subseteq Seq(STRING)

VARIABLES io_console_line, io_console_xpixel,  \* the cursor, in cells
          screen,                              \* the cells
          s,                                   \* the buffer of gets
          typing                               \* gets is running

consolevars == <<io_console_line, io_console_xpixel, screen, s, typing>>

Cells == 0 .. Lines * Columns - 1
Cell(line, x) == line * Columns + x

(* What a character leaves in a blank cell: a space nothing, one without a *)
(* glyph of its own the mark for a missing one.                            *)
Glyph(c) == CASE c = "space" -> {} [] c \in Letters -> {c} [] OTHER -> {"missing"}

ConsoleInit ==
    /\ io_console_line = 0 /\ io_console_xpixel = 0
    /\ screen = [c \in Cells |-> {}]
    /\ s = <<>>
    /\ typing = FALSE
-----------------------------------------------------------------------------
(* Console operations take and give a cursor with its screen and the run   *)
(* of letters that is not drawn yet.                                       *)
Now == [line |-> io_console_line, x |-> io_console_xpixel, screen |-> screen, run |-> <<>>]

(* Mutant of io_console_scroll: the last line keeps what was in it.        *)
io_console_scroll_KeepsLast(sc) ==
    [c \in Cells |-> IF c < (Lines - 1) * Columns THEN sc[c + Columns] ELSE sc[c]]

(* Every line moves up by one, and the last is cleared.                    *)
io_console_scroll(sc) ==
    [c \in Cells |-> IF c < (Lines - 1) * Columns THEN sc[c + Columns] ELSE {}]

io_console_next_line(k) ==
    IF k.line + 1 >= Lines
    THEN [k EXCEPT !.x = 0, !.line = Lines - 1, !.screen = io_console_scroll(@)]
    ELSE [k EXCEPT !.x = 0, !.line = @ + 1]

(* ltrs_color draws the run from the cursor on; what is beyond the edge of *)
(* the display is not drawn (gm_pixel).                                    *)
ltrs_color_run(k) ==
    [c \in Cells |->
        LET n == c - Cell(k.line, k.x) + 1 IN
        IF c \div Columns = k.line /\ n \in 1 .. Len(k.run)
        THEN k.screen[c] \cup Glyph(k.run[n]) ELSE k.screen[c]]

(* The run is drawn and the cursor moved on, beyond the edge if need be.   *)
io_console_flush_run(k) ==
    [k EXCEPT !.screen = ltrs_color_run(k), !.x = @ + Len(k.run), !.run = <<>>]

(* One character of io_puts_color.  Whether a line is full is asked with   *)
(* the cursor, which does not move while a run is collected.               *)
Put(k, c) ==
    CASE c = "newline" -> io_console_next_line(io_console_flush_run(k))
      [] c = "return" -> k
      [] OTHER ->
            LET w == IF k.x + 1 > Columns
                     THEN io_console_next_line(io_console_flush_run(k)) ELSE k
                r == [w EXCEPT !.run = Append(@, c)] IN
            IF Len(r.run) = RunSize THEN io_console_flush_run(r) ELSE r

(* What is printed of a text after each of its characters.                 *)
Printed(text) ==
    LET after[n \in 0 .. Len(text)] == IF n = 0 THEN Now ELSE Put(after[n - 1], text[n])
    IN  after

io_puts_color(text) == io_console_flush_run(Printed(text)[Len(text)])

(* One cell back, from the beginning of a line to the end of the one       *)
(* before, and that cell is cleared, if it is on the display.              *)
io_console_erase_char ==
    IF Now.x = 0 /\ Now.line = 0 THEN Now
    ELSE LET line == IF Now.x = 0 THEN Now.line - 1 ELSE Now.line
             x == IF Now.x = 0 THEN Columns - 1 ELSE Now.x - 1 IN
         [Now EXCEPT !.line = line, !.x = x,
                     !.screen = IF x < Columns THEN [@ EXCEPT ![Cell(line, x)] = {}] ELSE @]

Becomes(k) == io_console_line' = k.line /\ io_console_xpixel' = k.x /\ screen' = k.screen
-----------------------------------------------------------------------------
(* The kernel prints.                                                      *)
puts ==
    /\ ~typing
    /\ \E text \in Outputs : Becomes(io_puts_color(text))
    /\ UNCHANGED <<s, typing>>

(* gets is called; without a buffer it returns at once.                    *)
gets ==
    /\ ~typing /\ MaxLen > 0
    /\ typing' = TRUE
    /\ s' = <<>>
    /\ UNCHANGED <<io_console_line, io_console_xpixel, screen>>

More == typing /\ Len(s) < MaxLen - 1

gets_enter ==
    /\ More
    /\ Becomes(io_puts_color(<<"newline">>))
    /\ typing' = FALSE
    /\ UNCHANGED s

gets_backspace ==
    /\ More
    /\ s # <<>>
    /\ s' = SubSeq(s, 1, Len(s) - 1)
    /\ Becomes(io_console_erase_char)
    /\ UNCHANGED typing

gets_character(c) ==
    /\ More
    /\ s' = Append(s, c)
    /\ Becomes(io_puts_color(<<c>>))
    /\ UNCHANGED typing

(* The buffer is full: gets returns without a key, and without a new line. *)
gets_full ==
    /\ typing /\ Len(s) >= MaxLen - 1
    /\ typing' = FALSE
    /\ UNCHANGED <<io_console_line, io_console_xpixel, screen, s>>

ConsoleNext ==
    \/ puts \/ gets \/ gets_enter \/ gets_backspace \/ gets_full
    \/ \E c \in Letters \cup {"space"} : gets_character(c)

ConsoleSpec == ConsoleInit /\ [][ConsoleNext]_consolevars
-----------------------------------------------------------------------------
ConsoleTypeOK ==
    /\ io_console_line \in 0 .. Lines - 1 /\ io_console_xpixel \in Nat
    /\ screen \in [Cells -> SUBSET (Letters \cup {"missing"})]
    /\ Len(s) <= MaxLen

Cursor == Cell(io_console_line, io_console_xpixel)

(* While a line is typed, the cells before the cursor show what is in the  *)
(* buffer, through wrapped lines, scrolling and erasing back over both,    *)
(* as far as it is still on the display; and the cells from the cursor on  *)
(* are blank, so that nothing is drawn over an older letter.               *)
ScreenShowsLine ==
    typing =>
       /\ \A n \in 1 .. Len(s) :
             LET c == Cursor + n - 1 IN
             c >= Len(s) => screen[c - Len(s)] = Glyph(s[n])
       /\ \A c \in Cells : c >= Cursor => screen[c] = {}
=============================================================================
