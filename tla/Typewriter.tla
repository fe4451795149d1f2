------------------------------ MODULE Typewriter ------------------------------
(***************************************************************************)
(* What the text console promises: a typewriter over a roll of paper that   *)
(* never runs out.  Nothing printed is ever erased; a character struck over *)
(* another leaves both; going back stops at the margin.                     *)
(***************************************************************************)
EXTENDS Integers, Sequences

CONSTANTS
  Columns,  (* characters to a line                                        *)
  Tab,      (* distance of the tab stops                                   *)
  font      (* the ink of each printable character                         *)

VARIABLES
  lines,    (* the lines begun so far, each a function from columns to ink *)
  pen,      (* the column of the next character, on the last line          *)
  input     (* what is still to be typed                                   *)

Fresh == [i \in 0 .. Columns - 1 |-> {}]

Init == lines = <<Fresh>> /\ pen = 0 /\ input = <<>>

\* The pen comes to column x of the line as it now is; at the right margin a
\* new line begins.
ComesTo(x, line) ==
  LET written == [lines EXCEPT ![Len(lines)] = line]
  IN  IF x < Columns THEN pen' = x /\ lines' = written
                     ELSE pen' = 0 /\ lines' = Append(written, Fresh)

Line == lines[Len(lines)]

Strike(c) == c \in DOMAIN font /\ ComesTo(pen + 1, [Line EXCEPT ![pen] = @ \cup font[c]])
Back(c)   == c = "BS" /\ ComesTo(IF pen = 0 THEN 0 ELSE pen - 1, Line)
Stop(c)   == c = "HT" /\ \E x \in pen + 1 .. pen + Tab : x % Tab = 0 /\ ComesTo(x, Line)
Return(c) == c = "CR" /\ ComesTo(0, Line)
Feed(c)   == c = "NL" /\ pen' = 0 /\ lines' = Append(lines, Fresh)

Types ==
  /\ input # <<>> /\ input' = Tail(input)
  /\ LET c == Head(input) IN Strike(c) \/ Back(c) \/ Stop(c) \/ Return(c) \/ Feed(c)

Gets == input = <<>> /\ input' # <<>> /\ UNCHANGED <<lines, pen>>

Next == Types \/ Gets

Spec == Init /\ [][Next]_<<lines, pen, input>>
=============================================================================
