------------------------------- MODULE Formatter -------------------------------
(***************************************************************************)
(* What printf of stdio.c promises: the directives of a call are printed    *)
(* one after the other, each whole, into a text that keeps what a buffer of *)
(* n characters has room for with its terminator; the text is then shown,   *)
(* up to a character 0 in it.                                               *)
(***************************************************************************)
EXTENDS Directives

VARIABLES
  call, n,   (* the call and the size of the buffer                        *)
  done,      (* directives printed                                         *)
  text,      (* the text so far, cut to the buffer                         *)
  count,     (* the characters the whole text has so far                   *)
  stored,    (* what the %n directives were given                          *)
  shown,     (* what reached the screen                                    *)
  result     (* what printf returned; -1 while it runs                     *)

vars == <<call, n, done, text, count, stored, shown, result>>

Cut(s, k) == SubSeq(s, 1, Smaller(Len(s), k))

\* A string ends at its first character 0.
UpToNul(s) ==
  LET nuls == {i \in DOMAIN s : s[i] = "NUL"}
  IN IF nuls = {} THEN s ELSE SubSeq(s, 1, (CHOOSE i \in nuls : \A j \in nuls : i <= j) - 1)

Init ==
  /\ call \in Calls /\ n \in BufferSizes
  /\ done = 0 /\ text = <<>> /\ count = 0 /\ stored = <<>> /\ shown = <<>> /\ result = -1

PrintsDirective ==
  /\ done < Len(call)
  /\ \E d \in {call[done + 1]} : \E piece \in {Produced(d)} :
        /\ text' = Cut(text \o piece, n - 1)
        /\ count' = count + Len(piece)
        /\ stored' = IF d.kind = "conversion" /\ d.conv = "n"
                     THEN Append(stored, count % Modulus(d.length)) ELSE stored
  /\ done' = done + 1
  /\ UNCHANGED <<call, n, shown, result>>

Shows ==
  /\ done = Len(call) /\ result = -1
  /\ shown' = UpToNul(text) /\ result' = Smaller(count, n - 1)
  /\ UNCHANGED <<call, n, done, text, count, stored>>

Next == PrintsDirective \/ Shows

Spec == Init /\ [][Next]_vars
=============================================================================
