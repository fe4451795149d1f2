-------------------------------- MODULE Keyboard --------------------------------
(***************************************************************************)
(* keyboard.c, the keys under the user's fingers and the bytes between the  *)
(* two.  held and the bytes a key sends are the keyboard's (scan code set   *)
(* 1): a key sends its code when pressed and code + 128 when released; the  *)
(* print key wraps both in a shift of its own, E0 2A E0 37 and E0 B7 E0 AA. *)
(* A full controller buffer loses the last bytes of a key.                  *)
(***************************************************************************)
EXTENDS Integers, Sequences

CONSTANTS
  kbdus,     (* the table of characters, by code; shifted at code + 128    *)
  Alphabet   (* the characters isalpha is true of                          *)

ShiftKeys == {"left", "right", "print"}
Press == [left |-> <<\h2A>>, right |-> <<\h36>>, print |-> <<\hE0, \h2A, \hE0, \h37>>]
Release == [left |-> <<\hAA>>, right |-> <<\hB6>>, print |-> <<\hE0, \hB7, \hE0, \hAA>>]

ASSUME KeyboardAssumption == \A code \in DOMAIN kbdus : code \in 0 .. 255

VARIABLES
  held,      (* the shift keys that are down                               *)
  wire,      (* bytes sent and not yet handled                             *)
  flags,     (* shift, ctrl, alt and caps of keyboard.c                    *)
  unsure     (* ghost: the last shift byte was lost or had another key down *)

keyboardVars == <<held, wire, flags, unsure>>

KeyboardTypeOK ==
  /\ held \subseteq ShiftKeys
  /\ wire \in Seq(0 .. 255)
  /\ flags \in [{"shift", "ctrl", "alt", "caps"} -> BOOLEAN]
  /\ unsure \in BOOLEAN

KeyboardInit ==
  /\ held = {} /\ wire = <<>> /\ unsure = FALSE
  /\ flags = [f \in {"shift", "ctrl", "alt", "caps"} |-> FALSE]

\* The first n bytes arrive.
Sends(bytes, n) == wire = <<>> /\ wire' = SubSeq(bytes, 1, n) /\ UNCHANGED flags

PressShift(k) ==
  /\ held' = held \cup {k}
  /\ \E n \in 0 .. Len(Press[k]) :
       Sends(Press[k], n) /\ unsure' = (n < Len(Press[k]))

ReleaseShift(k) ==
  /\ k \in held /\ held' = held \ {k}
  /\ \E n \in 0 .. Len(Release[k]) :
       Sends(Release[k], n) /\ unsure' = (n < Len(Release[k]) \/ held' # {})

\* Any other key, pressed and released.
Tap(code) == Sends(<<code, code + 128>>, 2) /\ UNCHANGED <<held, unsure>>

isalpha(c) == c \in Alphabet

\* Mutant: caps shifts every key.
KeyCodeCapsAll(code) ==
  IF flags["shift"] # flags["caps"] THEN code + 128 ELSE code

\* key_code: where in kbdus the character of a code below 128 is.
KeyCode(code) ==
  IF flags["shift"]
  THEN IF flags["caps"] /\ isalpha(kbdus[code]) THEN code ELSE code + 128
  ELSE IF flags["caps"] /\ isalpha(kbdus[code]) THEN code + 128 ELSE code

Set(flag, value) == flags' = [flags EXCEPT ![flag] = value]

\* Mutant: the right shift key's release is not known.
ModifierOneRelease(code) ==
  \/ code \in {\h2A, \h36} /\ Set("shift", TRUE)
  \/ code = \hAA /\ Set("shift", FALSE)
  \/ code = \hB6 /\ UNCHANGED flags
  \/ code = \h1D /\ Set("ctrl", TRUE)
  \/ code = \h9D /\ Set("ctrl", FALSE)
  \/ code = \h38 /\ Set("alt", TRUE)
  \/ code = \hB8 /\ Set("alt", FALSE)
  \/ code = \h3A /\ Set("caps", ~flags["caps"])

\* The switch of keyboard_handler, whose cases return.
Modifier(code) ==
  \/ code \in {\h2A, \h36} /\ Set("shift", TRUE)
  \/ code \in {\hAA, \hB6} /\ Set("shift", FALSE)
  \/ code = \h1D /\ Set("ctrl", TRUE)
  \/ code = \h9D /\ Set("ctrl", FALSE)
  \/ code = \h38 /\ Set("alt", TRUE)
  \/ code = \hB8 /\ Set("alt", FALSE)
  \/ code = \h3A /\ Set("caps", ~flags["caps"])

Modifiers == {\h2A, \h36, \hAA, \hB6, \h1D, \h9D, \h38, \hB8, \h3A}

(***************************************************************************)
(* When every byte is handled, the flag says whether a shift key is down,   *)
(* unless the last shift byte was lost or another shift key was down when a *)
(* key was released: one flag stands for both keys and the print key        *)
(* (keyboard.c:35-42).  A lost byte is made good by the next press, or by   *)
(* the release of the last key.                                             *)
(***************************************************************************)
ShiftFollowsKeys ==
  wire = <<>> /\ ~unsure => (flags["shift"] <=> held # {})
=============================================================================
