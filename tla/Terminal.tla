-------------------------------- MODULE Terminal --------------------------------
(***************************************************************************)
(* The keyboard interrupt, which types on the console, and the messages the *)
(* kernel prints there.  Handlers run with interrupts off, so a handler     *)
(* starts when no string is being put.                                      *)
(***************************************************************************)
EXTENDS Console, Keyboard

CONSTANTS
  Taps,      (* codes of the keys that are typed                           *)
  Messages,  (* strings the kernel puts                                    *)
  MaxLines   (* bound: lines begun, past which nothing more is typed       *)

\* The keys typed are not shift keys; the table has a character for each of
\* them, as it is and shifted, and for the one the print key sends.
ASSUME TapsAssumption ==
  /\ Taps \subseteq 0 .. 127 \ {\h2A, \h36}
  /\ \A code \in (Taps \cup {\h37}) \ Modifiers :
       {code, code + 128} \subseteq {k \in DOMAIN kbdus : kbdus[k] \in Characters}

ASSUME MessagesAssumption == Messages \subseteq Seq(Characters)

vars == <<tty, out, keyboardVars>>

Room == Len(tty.gone) + tty.csr_y < MaxLines

Init == ConsoleInit /\ KeyboardInit

User ==
  /\ out = <<>>
  /\ \/ \E k \in ShiftKeys : (k = "print" => Room) /\ PressShift(k)
     \/ \E k \in ShiftKeys : ReleaseShift(k)
     \/ \E code \in Taps : (code \in DOMAIN kbdus => Room) /\ Tap(code)
  /\ UNCHANGED <<tty, out>>

\* keyboard_handler: one byte.
ReadsModifier ==
  /\ wire # <<>> /\ out = <<>> /\ Modifier(Head(wire))
  /\ UNCHANGED <<tty, out, held, unsure>> /\ wire' = Tail(wire)

ReadsKey ==
  /\ wire # <<>> /\ Head(wire) \notin Modifiers
  /\ IF Head(wire) < 128 THEN puts(<<kbdus[KeyCode(Head(wire))]>>)
                         ELSE out = <<>> /\ UNCHANGED out
  /\ UNCHANGED <<tty, held, flags, unsure>> /\ wire' = Tail(wire)

Message ==
  /\ wire = <<>> /\ Room /\ \E string \in Messages : puts(string)
  /\ UNCHANGED <<tty, keyboardVars>>

Next == User \/ ReadsModifier \/ ReadsKey \/ Message \/ (vga_putc /\ UNCHANGED keyboardVars)

Spec == Init /\ [][Next]_vars

TypeOK == ConsoleTypeOK /\ KeyboardTypeOK

(***************************************************************************)
(* A key types the character its cap shows for the keys that are down:      *)
(* letters shifted by a shift key or by caps lock but not by both, others   *)
(* by a shift key only, whatever was pressed, released and typed before     *)
(* (keyboard.c:44-64).                                                      *)
(***************************************************************************)
TypesAsHeld ==
  [][ wire # <<>> /\ out = <<>> /\ out' # <<>> /\ ~unsure =>
        LET code  == Head(wire)
            upper == IF kbdus[code] \in Alphabet THEN (held # {}) # flags["caps"] ELSE held # {}
        IN  out' = <<kbdus[IF upper THEN code + 128 ELSE code]>> ]_vars
=============================================================================
