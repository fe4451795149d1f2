-------------------------------- MODULE Console --------------------------------
(***************************************************************************)
(* The text console of vga.c: a screen of Rows lines of Columns characters, *)
(* a cursor and vga_putc.  A cell of the screen is the set of pixels that   *)
(* are lit in it.  The background colour is 0x00000000, whose alpha is 0,   *)
(* so that drawing a character only adds pixels: a space changes nothing.   *)
(***************************************************************************)
EXTENDS Integers, Sequences

CONSTANTS
  Columns,  (* __vesaWidth / 8                                             *)
  Rows,     (* __vesaHeight / 9                                            *)
  Tab,      (* 8 in the source                                             *)
  font,     (* font_bitmap: the pixels of each printable character         *)
  Largest   (* the largest uint32_t                                        *)

ASSUME ConsoleAssumption ==
  /\ Columns \in Nat \ {0, 1} /\ Rows \in Nat \ {0} /\ Tab \in Nat \ {0}
  /\ " " \in DOMAIN font /\ font[" "] = {}
  /\ Largest \in Nat /\ Largest >= Columns + Tab /\ Largest >= Rows

VARIABLES
  tty,      (* the screen and the cursor; gone: ghost, lines scrolled off  *)
  out       (* what the running puts or putc has still to put              *)

Ink == UNION {font[c] : c \in DOMAIN font}
Row == [0 .. Columns - 1 -> SUBSET Ink]
BlankRow == [i \in 0 .. Columns - 1 |-> {}]
Characters == DOMAIN font \cup {"BS", "HT", "CR", "NL"}

ConsoleTypeOK ==
  /\ tty.screen \in [0 .. Rows - 1 -> Row]
  /\ tty.csr_x \in 0 .. Largest /\ tty.csr_y \in 0 .. Largest
  /\ tty.gone \in Seq(Row)
  /\ out \in Seq(Characters)

\* vga_init, up to the line it prints.
ConsoleInit ==
  /\ tty = [screen |-> [r \in 0 .. Rows - 1 |-> BlankRow], csr_x |-> 0, csr_y |-> 0, gone |-> <<>>]
  /\ out = <<>>

DrawChar(t, c) == [t EXCEPT !.screen[t.csr_y][t.csr_x] = @ \cup font[c]]

\* Mutant: the test is for the line past the last.
ScrollLate(t) ==
  IF t.csr_y <= Rows THEN t
  ELSE [t EXCEPT !.csr_y = @ - 1, !.gone = Append(@, t.screen[0])]

\* Mutant: one line too many is cleared.
ScrollOneTooMany(t) ==
  IF t.csr_y < Rows THEN t
  ELSE [t EXCEPT !.csr_y = @ - 1,
                 !.screen = [r \in 0 .. Rows |-> IF r >= Rows - 1 THEN BlankRow ELSE t.screen[r + 1]],
                 !.gone = Append(@, t.screen[0])]

Scroll(t) ==
  IF t.csr_y < Rows THEN t
  ELSE [t EXCEPT !.csr_y = @ - 1,
                 !.screen = [r \in 0 .. Rows - 1 |-> IF r = Rows - 1 THEN BlankRow ELSE t.screen[r + 1]],
                 !.gone = Append(@, t.screen[0])]

Wrap(t) == IF t.csr_x >= Columns THEN [t EXCEPT !.csr_x = 0, !.csr_y = @ + 1] ELSE t

\* The end of vga_putc, whatever the character was.
Settled(t) == Scroll(Wrap(t))

Printed(t, c) == [DrawChar(t, c) EXCEPT !.csr_x = @ + 1]

\* Mutant: no test for the margin.
BackspacedAtMargin(t) == [t EXCEPT !.csr_x = IF @ = 0 THEN Largest ELSE @ - 1]

\* The inner vga_putc(' ') moves the cursor on and settles before it goes back.
Backspaced(t) ==
  LET left  == IF t.csr_x # 0 THEN [t EXCEPT !.csr_x = @ - 1] ELSE t
      space == Settled(Printed(left, " "))
  IN  [space EXCEPT !.csr_x = IF @ = 0 THEN Largest ELSE @ - 1]

Tabbed(t) == [t EXCEPT !.csr_x = @ + Tab - ((@ + Tab) % Tab)]

\* vga_putc of the next character of out.
vga_putc ==
  /\ out # <<>>
  /\ LET c == Head(out)
     IN  \/ c = "BS" /\ tty' = Settled(Backspaced(tty))
         \/ c = "HT" /\ tty' = Settled(Tabbed(tty))
         \/ c = "CR" /\ tty' = Settled([tty EXCEPT !.csr_x = 0])
         \/ c = "NL" /\ tty' = Settled([tty EXCEPT !.csr_x = 0, !.csr_y = @ + 1])
         \/ c \in DOMAIN font /\ tty' = Settled(Printed(tty, c))
  /\ out' = Tail(out)

\* A call of puts or putc starts when none is running: interrupts are off in
\* every caller.
puts(string) == out = <<>> /\ out' = string

(***************************************************************************)
(* Between two characters the cursor is on the screen, so that no character *)
(* is drawn outside the frame buffer: one scroll is always enough, and a    *)
(* backspace never takes the cursor below column 0 (vga.c:282, 284, 318).   *)
(***************************************************************************)
CursorOnScreen == tty.csr_x < Columns /\ tty.csr_y < Rows

(***************************************************************************)
(* The lines scrolled off, and those on the screen down to the cursor, are  *)
(* the roll of a typewriter: scrolling loses and repeats no line, the line  *)
(* it uncovers is blank, and nothing printed is erased.                     *)
(***************************************************************************)
Paper == INSTANCE Typewriter WITH
  lines <- tty.gone \o [i \in 1 .. tty.csr_y + 1 |-> tty.screen[i - 1]],
  pen <- tty.csr_x, input <- out
PrintsOnPaper == Paper!Spec
=============================================================================
