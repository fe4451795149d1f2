-------------------------------- MODULE Output --------------------------------
(***************************************************************************)
(* printf, vsnprintf and format_int of stdio.c.  vsnprintf is a machine     *)
(* that takes one character of the format a step; a step that ends a state  *)
(* leaves the character to the next one.  The buffer is a local array of    *)
(* printf, of which the model keeps the cells that have been written.       *)
(* Characters are counted in a size_t and the count is returned as an int.  *)
(***************************************************************************)
EXTENDS Directives, TLC

VARIABLES
  call, n,                  \* what the caller meant; the size of the buffer
  p, ap,                    \* the next character of the format, the next word
  state, flags, rank, width, prec,
  o, q, buffer,             \* characters output, where the next one goes
  stored,                   \* through the pointers of %n
  rv, shown                 \* of printf; rv is -1 while it runs

spec == <<flags, rank, width, prec>>
given == <<call, n>>
vars == <<given, p, ap, state, spec, o, q, buffer, stored, rv, shown>>

format == SpellingTo(call, Len(call))
words == PassedTo(call, Len(call))
ch == format[p]
States == <<"normal", "flags", "width", "prec", "modifiers", "terminated", "returned">>

TypeOK ==
  /\ n \in BufferSizes
  /\ p \in 1 .. Len(format) + 1 /\ ap \in 1 .. Len(words) + 1
  /\ state \in ToSet(States)
  /\ flags \subseteq {"ZERO", "MINUS", "PLUS", "TICK", "SPACE", "HASH", "SIGNED", "UPPER"}
  /\ rank \in -2 .. 2 /\ width \in 0 .. Word /\ prec \in -1 .. Word
  /\ o \in 0 .. Word - 1 /\ q \in Nat /\ rv \in -1 .. o /\ Len(shown) < n

Init ==
  /\ call \in Calls /\ n \in BufferSizes
  /\ p = 1 /\ ap = 1 /\ state = "normal" /\ flags = {} /\ rank = 0 /\ width = 0 /\ prec = -1
  /\ o = 0 /\ q = 0 /\ buffer = << >> /\ stored = <<>> /\ rv = -1 /\ shown = <<>>

\* va_arg of a type of one word, or the low word of one of two.
ArgumentWord(i) == IF i \in DOMAIN words THEN words[i] ELSE 0
SignedIn(v, size) == IF v % size >= size \div 2 THEN (v % size) - size ELSE v % size
IntegerArg == SignedIn(ArgumentWord(ap), Word)

(***************************************************************************)
(* EMIT and format_int, on the output out: the buffer buf, the place at for *)
(* the next character, the number o of those output and the room n.         *)
(***************************************************************************)
\* A store of c through a pointer to the cell k.
Put(buf, k, c) == [i \in DOMAIN buf \cup {k} |-> IF i = k THEN c ELSE buf[i]]

\* Mutant: the last cell is for a character too.
EmitPastEnd(out, c) ==
  IF out.o <= out.n
  THEN [buf |-> Put(out.buf, out.at, c), at |-> out.at + 1, o |-> (out.o + 1) % Word, n |-> out.n]
  ELSE [out EXCEPT !.o = (@ + 1) % Word]

Emit(out, c) ==
  IF out.o < out.n
  THEN [buf |-> Put(out.buf, out.at, c), at |-> out.at + 1, o |-> (out.o + 1) % Word, n |-> out.n]
  ELSE [out EXCEPT !.o = (@ + 1) % Word]

EmitAll(out, s) ==
  LET after[i \in 0 .. Len(s)] == IF i = 0 THEN out ELSE Emit(after[i - 1], s[i])
  IN after[Len(s)]

DigitCount(val, base) ==
  LET count[v \in 0 .. val] == IF v = 0 THEN 0 ELSE count[v \div base] + 1
  IN count[val]

\* A character of the number goes in front of those written.
Before(num, c) ==
  [buf |-> IF (num.o - 1) % Word < num.n THEN Put(num.buf, num.at - 1, c) ELSE num.buf,
   at |-> num.at - 1, o |-> (num.o - 1) % Word, n |-> num.n,
   left |-> num.left - 1, b4tick |-> num.b4tick, val |-> num.val]

\* Mutant: a group after the first has one digit too many.
MarkLate(num, tickskip) ==
  IF num.b4tick = 0 THEN [Before(num, "_") EXCEPT !.b4tick = tickskip]
  ELSE [num EXCEPT !.b4tick = @ - 1]

Mark(num, tickskip) ==
  IF num.b4tick = 0 THEN [Before(num, "_") EXCEPT !.b4tick = tickskip - 1]
  ELSE [num EXCEPT !.b4tick = @ - 1]

\* A turn of the loop that writes the number from its end.
Leftward(num, base, tickskip, digits) ==
  [Before(Mark(num, tickskip), digits[(num.val % base) + 1]) EXCEPT !.val = @ \div base]

WriteNumber(num0, base, tickskip, digits) ==
  LET turn[k \in 0 .. num0.left] ==
        IF k = 0 THEN num0
        ELSE LET num == turn[k - 1]
             IN IF num.left > 0 THEN Leftward(num, base, tickskip, digits) ELSE num
  IN turn[num0.left].buf

\* The digits wanted, before marks: "Zero still requires space".
DigitsWanted(val, fl, base, precision) ==
  LET significant == DigitCount(val, base)
      least == IF "HASH" \in fl /\ base = 8 /\ precision < significant + 1
               THEN significant + 1 ELSE precision
  IN IF significant < least THEN least ELSE IF val = 0 THEN 1 ELSE significant

FormatInt(out, arg, fl, base, wide, precision) ==
  LET minus == "SIGNED" \in fl /\ arg >= Word \div 2
      val == IF minus THEN (Word - arg) % Word ELSE arg
      digits == IF "UPPER" \in fl THEN ucdigits ELSE lcdigits
      wanted == DigitsWanted(val, fl, base, precision)
      tickskip == IF "TICK" \notin fl THEN wanted ELSE IF base = 16 THEN 4 ELSE 3
      ndigits == wanted + (wanted - 1) \div tickskip
      sign == IF minus THEN <<"-">> ELSE IF "PLUS" \in fl THEN <<"+">>
              ELSE IF "SPACE" \in fl THEN <<" ">> ELSE <<>>
      head == IF "HASH" \in fl /\ base = 16
              THEN sign \o <<"0", IF "UPPER" \in fl THEN "X" ELSE "x">> ELSE sign
      pad == wide - ndigits - Len(head)
      early == IF fl \cap {"MINUS", "ZERO"} = {} THEN Copies(pad, " ") ELSE <<>>
      zeros == IF fl \cap {"MINUS", "ZERO"} = {"ZERO"} THEN Copies(pad, "0") ELSE <<>>
      late == IF "MINUS" \in fl THEN Copies(pad, " ") ELSE <<>>
      front == EmitAll(out, early \o head \o zeros)
      end == [buf |-> front.buf, at |-> front.at + ndigits, o |-> (front.o + ndigits) % Word, n |-> out.n]
      number == WriteNumber([buf |-> end.buf, at |-> end.at, o |-> end.o, n |-> end.n,
                             left |-> ndigits, b4tick |-> tickskip, val |-> val],
                            base, tickskip, digits)
  IN EmitAll([end EXCEPT !.buf = number], late)

(***************************************************************************)
(* vsnprintf.                                                               *)
(***************************************************************************)
InState(s) == state = s /\ p <= Len(format)
Consumes == p' = p + 1
LeavesTo(s) == state' = s /\ p' = p
Outputs(out) == buffer' = out.buf /\ q' = out.at /\ o' = out.o
Here == [buf |-> buffer, at |-> q, o |-> o, n |-> n]
Keeps == UNCHANGED <<given, o, q, buffer, stored, rv, shown>>

Plain ==
  /\ InState("normal") /\ ch # "%"
  /\ Outputs(Emit(Here, ch)) /\ Consumes
  /\ UNCHANGED <<given, ap, state, spec, stored, rv, shown>>

Percent ==
  /\ InState("normal") /\ ch = "%"
  /\ state' = "flags" /\ flags' = {} /\ rank' = 0 /\ width' = 0 /\ prec' = -1 /\ Consumes
  /\ UNCHANGED ap /\ Keeps

FlagNames ==
  [c \in FlagCharacters |->
     CASE c = "-" -> "MINUS" [] c = "+" -> "PLUS" [] c = "'" -> "TICK"
       [] c = " " -> "SPACE" [] c = "#" -> "HASH" [] c = "0" -> "ZERO"]

Flag ==
  /\ InState("flags")
  /\ \/ ch \in DOMAIN FlagNames /\ flags' = flags \cup {FlagNames[ch]} /\ Consumes /\ UNCHANGED state
     \/ ch \notin DOMAIN FlagNames /\ LeavesTo("width") /\ UNCHANGED flags
  /\ UNCHANGED <<ap, rank, width, prec>> /\ Keeps

DigitOf(c) == CHOOSE i \in 0 .. 9 : Decimals[i + 1] = c

\* Mutant: a negative width is not turned round.
WidthStarSigned ==
  /\ ch = "*" /\ ap' = ap + 1 /\ Consumes
  /\ width' = IntegerArg /\ UNCHANGED <<state, flags, prec>>

WidthStar ==
  /\ ch = "*" /\ ap' = ap + 1 /\ Consumes
  /\ width' = IF IntegerArg < 0 THEN -IntegerArg ELSE IntegerArg
  /\ flags' = IF IntegerArg < 0 THEN flags \cup {"MINUS"} ELSE flags
  /\ UNCHANGED <<state, prec>>

\* Mutant: what is no digit may be a flag again.
WidthEndToFlags == LeavesTo("flags")
WidthEnd == LeavesTo("modifiers")

FieldWidth ==
  /\ InState("width")
  /\ \/ ch \in ToSet(Decimals) /\ width' = width * 10 + DigitOf(ch) /\ Consumes
        /\ UNCHANGED <<ap, state, flags, prec>>
     \/ WidthStar
     \/ ch = "." /\ prec' = 0 /\ state' = "prec" /\ Consumes /\ UNCHANGED <<ap, flags, width>>
     \/ ch \notin ToSet(Decimals) \cup {"*", "."} /\ WidthEnd /\ UNCHANGED <<ap, flags, width, prec>>
  /\ UNCHANGED rank /\ Keeps

FieldPrecision ==
  /\ InState("prec")
  /\ \/ ch \in ToSet(Decimals) /\ prec' = prec * 10 + DigitOf(ch) /\ Consumes
        /\ UNCHANGED <<ap, state>>
     \/ ch = "*" /\ ap' = ap + 1 /\ prec' = (IF IntegerArg < 0 THEN -1 ELSE IntegerArg) /\ Consumes
        /\ UNCHANGED state
     \/ ch \notin ToSet(Decimals) \cup {"*"} /\ LeavesTo("modifiers") /\ UNCHANGED <<ap, prec>>
  /\ UNCHANGED <<flags, rank, width>> /\ Keeps

Lengths == {"h", "l", "j", "z", "t", "L", "q"}

LengthModifier ==
  /\ InState("modifiers") /\ ch \in Lengths
  /\ rank' = CASE ch = "h" -> rank - 1 [] ch = "l" -> rank + 1 [] ch = "j" -> 2
               [] ch \in {"z", "t"} -> 1 [] ch \in {"L", "q"} -> rank + 2
  /\ Consumes /\ UNCHANGED <<ap, state, flags, width, prec>> /\ Keeps

\* A conversion goes back to the ground state with the rank made canonical.
Canonical == IF rank < -2 THEN -2 ELSE IF rank > 2 THEN 2 ELSE rank
Converts(convs) ==
  /\ InState("modifiers") /\ ch \in convs
  /\ state' = "normal" /\ rank' = Canonical /\ Consumes
  /\ UNCHANGED <<given, rv, shown>>

SizeOfRank == CASE Canonical = -2 -> CharMod [] Canonical = -1 -> ShortMod [] OTHER -> Word
WordsOfRank == IF Canonical = 2 THEN 2 ELSE 1

Base == CASE ch \in {"d", "i", "u"} -> 10 [] ch = "o" -> 8 [] OTHER -> 16

\* Mutant: the whole buffer is the room.
RoomWhole == n
Room == IF o < n THEN n - o ELSE 0

ConvertInteger ==
  /\ Converts({"d", "i", "o", "u", "x", "X", "p", "P"})
  /\ LET pointer == ch \in {"p", "P"}
         signed == ch \in {"d", "i"}
         val == IF pointer THEN ArgumentWord(ap)
                ELSE IF signed THEN SignedIn(ArgumentWord(ap), SizeOfRank) % Word ELSE ArgumentWord(ap) % SizeOfRank
     IN /\ flags' = flags \cup (IF ch \in {"X", "P"} THEN {"UPPER"} ELSE {})
                      \cup (IF pointer THEN {"HASH"} ELSE {}) \cup (IF signed THEN {"SIGNED"} ELSE {})
        /\ prec' = IF pointer THEN DigitCount(Word - 1, 16) ELSE prec
        /\ ap' = IF pointer THEN ap + 1 ELSE ap + WordsOfRank
        /\ LET out == FormatInt([buf |-> buffer, at |-> q, o |-> 0, n |-> Room], val, flags', Base, width, prec')
           IN buffer' = out.buf /\ q' = q + out.o /\ o' = (o + out.o) % Word
  /\ UNCHANGED <<width, stored>>

StringAt(w) == IF w = 0 THEN <<"(", "n", "u", "l", "l", ")">>
               ELSE IF w \in DOMAIN Texts THEN Texts[w] ELSE <<>>
LetterAt(w) == IF w \in DOMAIN Letters THEN Letters[w] ELSE "NUL"

ConvertText ==
  /\ Converts({"c", "s"})
  /\ LET sarg == IF ch = "c" THEN <<LetterAt(ArgumentWord(ap) % CharMod)>> ELSE StringAt(ArgumentWord(ap))
         slen == IF prec # -1 /\ Len(sarg) > prec THEN prec ELSE Len(sarg)
         pad == Copies(width - slen, IF flags \cap {"MINUS", "ZERO"} = {"ZERO"} THEN "0" ELSE " ")
         string == SubSeq(sarg, 1, slen)
     IN /\ Outputs(EmitAll(Here, IF "MINUS" \in flags THEN string \o pad ELSE pad \o string))
        /\ width' = IF width > slen THEN slen ELSE width
  /\ ap' = ap + 1 /\ UNCHANGED <<flags, prec, stored>>

ConvertCount ==
  /\ Converts({"n"})
  /\ stored' = Append(stored, o % SizeOfRank) /\ ap' = ap + 1
  /\ UNCHANGED <<flags, width, prec, o, q, buffer>>

Conversions == {"d", "i", "o", "u", "x", "X", "p", "P", "c", "s", "n"}

ConvertOther ==
  /\ InState("modifiers") /\ ch \notin Lengths \cup Conversions
  /\ Converts({ch}) /\ Outputs(Emit(Here, ch))
  /\ UNCHANGED <<ap, flags, width, prec, stored>>

Terminates ==
  /\ state \notin {"terminated", "returned"} /\ p > Len(format)
  /\ buffer' = Put(buffer, IF o < n THEN q ELSE n - 1, "NUL")
  /\ state' = "terminated"
  /\ UNCHANGED <<given, p, ap, spec, o, q, stored, rv, shown>>

(***************************************************************************)
(* printf, after vsnprintf returned: a negative result is handed on, with   *)
(* nothing shown.  puts stops at the first character 0.                     *)
(***************************************************************************)
FirstNul(b) == CHOOSE i \in DOMAIN b : b[i] = "NUL" /\ \A j \in DOMAIN b : b[j] = "NUL" => i <= j

Shows(r) ==
  /\ rv' = IF r > n - 1 THEN n - 1 ELSE r
  /\ buffer' = Put(buffer, rv', "NUL")
  /\ shown' = [i \in 1 .. FirstNul(buffer') |-> buffer'[i - 1]]

PrintfReturns ==
  /\ state = "terminated" /\ state' = "returned"
  /\ IF SignedIn(o, Word) < 0 THEN rv' = SignedIn(o, Word) /\ UNCHANGED <<buffer, shown>>
     ELSE Shows(SignedIn(o, Word))
  /\ UNCHANGED <<given, p, ap, spec, o, q, stored>>

Next ==
  \/ Plain \/ Percent \/ Flag \/ FieldWidth \/ FieldPrecision \/ LengthModifier
  \/ ConvertInteger \/ ConvertText \/ ConvertCount \/ ConvertOther
  \/ Terminates \/ PrintfReturns
  \/ state = "returned" /\ UNCHANGED vars   \* the call is over

Spec == Init /\ [][Next]_vars

(***************************************************************************)
(* However much longer than the buffer the text of a call is, as long as an *)
(* int holds its length, and although a number is written from its end and  *)
(* the output pointer moves past the buffer, no character is stored outside *)
(* the buffer; of what lies before the end of the text none is left         *)
(* unwritten, and a terminated text has its 0 inside (stdio.c:77, 189, 517).*)
(***************************************************************************)
WritesInside ==
  /\ DOMAIN buffer \subseteq 0 .. n - 1
  /\ \A i \in 0 .. n - 2 : i < o => i \in DOMAIN buffer
  /\ state \in {"terminated", "returned"} => \E i \in DOMAIN buffer : buffer[i] = "NUL"

Past(k) == Len(SpellingTo(call, k)) < p
Promise == INSTANCE Formatter WITH
  done <- CHOOSE k \in 0 .. Len(call) : Past(k) /\ (k < Len(call) => ~ Past(k + 1)),
  text <- [i \in 1 .. (IF o < n THEN o ELSE n - 1) |-> IF i - 1 \in DOMAIN buffer THEN buffer[i - 1] ELSE "?"],
  count <- o, result <- rv

(***************************************************************************)
(* Every directive of the call, whatever its flags, width, precision and    *)
(* length and whatever came before it, takes the words that were passed for *)
(* it and produces its text, cut to the buffer; %n learns the length and    *)
(* printf returns it (stdio.c:203-523), if an int holds the length of all   *)
(* the text (stdio.c:29-32).                                                *)
(***************************************************************************)
FormatsAsMeant == Promise!Spec

(***************************************************************************)
(* The machine goes on: a step takes a character or, handing it back to be  *)
(* processed again, moves to a later state, and a call that cannot go on    *)
(* has returned; so each call returns (stdio.c:263, 282, 295).              *)
(***************************************************************************)
Stage == CHOOSE i \in DOMAIN States : States[i] = state
GoesOn == [][ p' > p \/ (p' = p /\ Stage' > Stage) ]_vars
=============================================================================
