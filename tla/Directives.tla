------------------------------ MODULE Directives ------------------------------
(***************************************************************************)
(* A call of printf as its caller means it: a sequence of directives, each  *)
(* a character to print or a conversion with the values passed for it.      *)
(* Spelling is how a directive is written in the format and Passed the      *)
(* words its values take on the stack.                                      *)
(***************************************************************************)
EXTENDS Integers, Sequences, SequencesExt

CONSTANTS
  CharMod, ShortMod, Word,  (* 2^8, 2^16 and 2^32, scaled                  *)
  Texts,                    (* the strings in memory: address :> text      *)
  Letters,                  (* code :> character, for %c                   *)
  Calls,                    (* the calls made                              *)
  BufferSizes               (* BUFFER_SIZE: one of the sizes is in effect  *)

ASSUME DirectivesAssumption ==
  /\ {CharMod, ShortMod, Word} \subseteq Nat /\ 1 < CharMod /\ CharMod < ShortMod /\ ShortMod < Word
  /\ 0 \notin DOMAIN Texts /\ DOMAIN Letters \subseteq 0 .. CharMod - 1
  /\ BufferSizes \subseteq Nat \ {0}
  /\ \A address \in DOMAIN Texts :
       Texts[address] \in Seq(STRING) /\ Len(Texts[address]) < Word \div 2
  /\ \A code \in DOMAIN Letters : Letters[code] \in STRING

Decimals == <<"0", "1", "2", "3", "4", "5", "6", "7", "8", "9">>
lcdigits == Decimals \o <<"a", "b", "c", "d", "e", "f">>
ucdigits == Decimals \o <<"A", "B", "C", "D", "E", "F">>

Copies(k, c) == IF k > 0 THEN [i \in 1 .. k |-> c] ELSE <<>>

\* The digits of v, the most significant first; none for 0.
Numeral(v, base) ==
  LET numeral[w \in 0 .. v] == IF w = 0 THEN <<>> ELSE Append(numeral[w \div base], w % base)
  IN numeral[v]

\* A width or a precision: absent, in digits or as an argument.
Absent == [form |-> "absent", n |-> 0]
Digits(k) == [form |-> "digits", n |-> k]
Star(k) == [form |-> "star", n |-> k]

NumberSpelling(w) ==
  CASE w.form = "absent" -> <<>>
    [] w.form = "star" -> <<"*">>
    [] w.form = "digits" -> [i \in DOMAIN Numeral(w.n, 10) |-> Decimals[Numeral(w.n, 10)[i] + 1]]

Character(c) == [kind |-> "character", ch |-> c]
Conversion(flags, width, prec, length, conv, values) ==
  [kind |-> "conversion", flags |-> flags, width |-> width, prec |-> prec,
   length |-> length, conv |-> conv, values |-> values]

Spelling(d) ==
  IF d.kind = "character" THEN <<d.ch>>
  ELSE <<"%">> \o d.flags \o NumberSpelling(d.width)
       \o (IF d.prec = Absent THEN <<>> ELSE <<".">> \o NumberSpelling(d.prec))
       \o d.length \o <<d.conv>>

NumberPassed(w) == IF w.form = "star" THEN <<w.n % Word>> ELSE <<>>

Passed(d) ==
  IF d.kind = "character" THEN <<>>
  ELSE NumberPassed(d.width) \o NumberPassed(d.prec) \o d.values

\* All that the first k directives of a call spell, and all they pass.
SpellingTo(call, k) == FlattenSeq([i \in 1 .. k |-> Spelling(call[i])])
PassedTo(call, k) == FlattenSeq([i \in 1 .. k |-> Passed(call[i])])

(***************************************************************************)
(* What a caller owes: a format that says what is meant, numbers an int     *)
(* holds, and for every conversion the words, string or character of its    *)
(* type (stdio.c:338, 420, 440, 460).                                       *)
(***************************************************************************)
IsNumber(w) ==
  \/ w = Absent
  \/ w = Digits(w.n) /\ w.n \in 0 .. (Word \div 2) - 1
  \/ w = Star(w.n) /\ w.n \in 1 - (Word \div 2) .. (Word \div 2) - 1

FlagCharacters == {"-", "+", "'", " ", "#", "0"}
Modifiers == {<<>>, <<"h">>, <<"h", "h">>, <<"l">>, <<"l", "l">>, <<"j">>, <<"z">>, <<"t">>, <<"L">>, <<"q">>}

\* The words a conversion takes, a width or a precision aside.
WordsOf(d) ==
  IF d.conv \in {"d", "i", "o", "u", "x", "X"}
  THEN IF d.length \in {<<"l", "l">>, <<"j">>, <<"L">>, <<"q">>} THEN 2 ELSE 1
  ELSE IF d.conv \in {"p", "P", "c", "s", "n"} THEN 1 ELSE 0

IsConversion(d) ==
  /\ d = Conversion(d.flags, d.width, d.prec, d.length, d.conv, d.values)
  /\ d.flags \in Seq(FlagCharacters) /\ d.length \in Modifiers
  /\ IsNumber(d.width) /\ IsNumber(d.prec)
  /\ d.conv \in STRING
  /\ d.conv \notin FlagCharacters \cup ToSet(Decimals) \cup {"*", ".", "h", "l", "j", "z", "t", "L", "q", "NUL"}
  /\ d.values \in Seq(0 .. Word - 1) /\ Len(d.values) = WordsOf(d)
  /\ d.conv = "s" => d.values[1] \in {0} \cup DOMAIN Texts
  /\ d.conv = "c" => d.values[1] % CharMod \in DOMAIN Letters

IsDirective(d) ==
  \/ d.kind = "character" /\ d = Character(d.ch) /\ d.ch \in STRING \ {"%", "NUL"}
  \/ d.kind = "conversion" /\ IsConversion(d)

ASSUME CallsAssumption ==
  \A call \in Calls : call \in Seq(ToSet(call)) /\ \A d \in ToSet(call) : IsDirective(d)

(***************************************************************************)
(* The text of a directive.  The conversions are those stdio.c defines: only *)
(* the low word of an argument counts and "'" marks groups with "_".        *)
(***************************************************************************)
Spaces(k) == Copies(k, " ")
Zeros(k) == Copies(k, "0")
Larger(a, b) == IF a > b THEN a ELSE b
Smaller(a, b) == IF a < b THEN a ELSE b

Modulus(length) ==
  CASE length = <<"h", "h">> -> CharMod
    [] length = <<"h">> -> ShortMod
    [] OTHER -> Word

IntegerBase(conv) == CASE conv \in {"d", "i", "u"} -> 10 [] conv = "o" -> 8 [] OTHER -> 16

\* A minus in front of a width given as an argument is the flag "-".
Width(d) == IF d.width.n < 0 THEN -d.width.n ELSE d.width.n
Flags(d) == ToSet(d.flags) \cup (IF d.width.n < 0 THEN {"-"} ELSE {})
              \cup (IF d.conv \in {"p", "P"} THEN {"#"} ELSE {})

\* -1 stands for no precision; a pointer has all the digits of a word.
Precision(d) ==
  IF d.conv \in {"p", "P"} THEN Len(Numeral(Word - 1, 16))
  ELSE IF d.prec = Absent \/ d.prec.n < 0 THEN -1 ELSE d.prec.n

\* The integer a conversion is about.
Value(d) ==
  LET size == IF d.conv \in {"p", "P"} THEN Word ELSE Modulus(d.length)
      bits == d.values[1] % size
  IN IF d.conv \in {"d", "i"} /\ bits >= size \div 2 THEN bits - size ELSE bits

\* Marks between groups of g digits, counted from the right.
Grouped(s, g) ==
  LET length == Len(s) + (Len(s) - 1) \div g
  IN [i \in 1 .. length |->
        LET j == length - i
        IN IF j % (g + 1) = g THEN "_" ELSE s[Len(s) - (j - j \div (g + 1))]]

IntegerText(d) ==
  LET base == IntegerBase(d.conv)
      size == IF Value(d) < 0 THEN -Value(d) ELSE Value(d)
      least == Larger(1, Larger(Precision(d),
                 IF "#" \in Flags(d) /\ base = 8 THEN Len(Numeral(size, base)) + 1 ELSE 0))
      table == IF d.conv \in {"X", "P"} THEN ucdigits ELSE lcdigits
      plain == Zeros(least - Len(Numeral(size, base)))
                 \o [i \in DOMAIN Numeral(size, base) |-> table[Numeral(size, base)[i] + 1]]
      number == IF "'" \in Flags(d) THEN Grouped(plain, IF base = 16 THEN 4 ELSE 3) ELSE plain
      sign == CASE Value(d) < 0 -> <<"-">>
                [] Value(d) >= 0 /\ "+" \in Flags(d) -> <<"+">>
                [] Value(d) >= 0 /\ "+" \notin Flags(d) /\ " " \in Flags(d) -> <<" ">>
                [] OTHER -> <<>>
      head == sign \o (CASE "#" \in Flags(d) /\ d.conv \in {"x", "p"} -> <<"0", "x">>
                         [] "#" \in Flags(d) /\ d.conv \in {"X", "P"} -> <<"0", "X">>
                         [] OTHER -> <<>>)
      missing == Width(d) - Len(head) - Len(number)
  IN CASE "-" \in Flags(d) -> head \o number \o Spaces(missing)
       [] "-" \notin Flags(d) /\ "0" \in Flags(d) -> head \o Zeros(missing) \o number
       [] OTHER -> Spaces(missing) \o head \o number

StringText(d) ==
  LET whole == IF d.conv = "c" THEN <<Letters[d.values[1] % CharMod]>>
               ELSE IF d.values[1] = 0 THEN <<"(", "n", "u", "l", "l", ")">> ELSE Texts[d.values[1]]
      string == IF Precision(d) = -1 THEN whole ELSE SubSeq(whole, 1, Smaller(Len(whole), Precision(d)))
      missing == Width(d) - Len(string)
  IN CASE "-" \in Flags(d) -> string \o Spaces(missing)
       [] "-" \notin Flags(d) /\ "0" \in Flags(d) -> Zeros(missing) \o string
       [] OTHER -> Spaces(missing) \o string

Produced(d) ==
  CASE d.kind = "character" -> <<d.ch>>
    [] d.kind = "conversion" /\ d.conv \in {"c", "s"} -> StringText(d)
    [] d.kind = "conversion" /\ d.conv \in {"d", "i", "u", "o", "x", "X", "p", "P"} -> IntegerText(d)
    [] d.kind = "conversion" /\ d.conv = "n" -> <<>>
    [] OTHER -> <<d.conv>>

(***************************************************************************)
(* What a caller owes besides: printf counts the characters of the whole    *)
(* text in a size_t and returns the count as an int (stdio.c:29, 208).      *)
(***************************************************************************)
TextTo(call, k) == FlattenSeq([i \in 1 .. k |-> Produced(call[i])])

ASSUME LengthAssumption == \A call \in Calls : Len(TextTo(call, Len(call))) < Word \div 2
=============================================================================
