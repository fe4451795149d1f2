----------------------------- MODULE OutputProofs -----------------------------
(***************************************************************************)
(* Theorems about Output: vsnprintf never stores outside its buffer, every  *)
(* step of it moves on, it takes of its arguments only what the text stands *)
(* for, so that its variables keep their types, and it writes what Formatter *)
(* promises.                                                                *)
(***************************************************************************)
EXTENDS FormattingProofs

(***************************************************************************)
(* The inductive invariant.  Until the text is terminated, the cells written *)
(* are exactly those of the characters output that the buffer has room for. *)
(***************************************************************************)
Over == state \in {"terminated", "returned"}

IInv ==
  /\ call \in Calls /\ n \in BufferSizes /\ p \in Nat /\ state \in ToSet(States)
  /\ o \in Nat /\ width \in Int /\ prec \in Int
  /\ ~ Over => Emitted(Here, {}, 0, 0, n)
  /\ WritesInside

LEMMA StateNames ==
  /\ ToSet(States) = {"normal", "flags", "width", "prec", "modifiers", "terminated", "returned"}
  /\ \A k \in BufferSizes : k \in Nat /\ k > 0
<1>1. DOMAIN States = 1 .. 7  BY DEF States
<1>2. QED  BY <1>1, DirectivesAssumption DEF ToSet, States

LEMMA WhileWriting ==
  ASSUME NEW size \in Nat, size > 0, NEW out, Emitted(out, {}, 0, 0, size)
  PROVE  /\ DOMAIN out.buf \subseteq 0 .. size - 1
         /\ \A i \in 0 .. size - 2 : i < out.o => i \in DOMAIN out.buf
BY DEF Emitted, Cells

LEMMA InitHolds == Init => IInv
<1> SUFFICES ASSUME Init PROVE IInv  OBVIOUS
<1>1. n \in Nat /\ n > 0  BY StateNames DEF Init
<1>2. Emitted(Here, {}, 0, 0, n)
  <2>1. Here.buf = << >> /\ Here.at = 0 /\ Here.o = 0 /\ Here.n = n  BY DEF Here, Init
  <2>2. Here = [buf |-> Here.buf, at |-> Here.at, o |-> Here.o, n |-> n]  BY DEF Here
  <2>3. DOMAIN << >> = {} /\ Cells(0, 0, 0, n) = {}  BY DEF Cells
  <2>4. QED  BY <1>1, <2>1, <2>2, <2>3 DEF Emitted
<1>3. ~ Over  BY DEF Init, Over
<1>4. WritesInside
  <2>1. Here.buf = buffer /\ Here.o = o  BY DEF Here
  <2>2. QED  BY <1>1, <1>2, <1>3, <2>1, WhileWriting DEF WritesInside, Over
<1>5. QED  BY <1>2, <1>4, StateNames DEF IInv, Init

\* A step that leaves the output in order keeps the invariant.
LEMMA OutputKeeps ==
  ASSUME IInv, state' \in ToSet(States), ~ Over', UNCHANGED given, p' \in Nat,
         width' \in Int, prec' \in Int, Emitted(Here', {}, 0, 0, n)
  PROVE  IInv'
<1>1. n' = n /\ call' = call  BY DEF given
<1>2. n \in Nat /\ n > 0  BY StateNames DEF IInv
<1>3. Here'.buf = buffer' /\ Here'.o = o'  BY DEF Here
<1>4. o' \in Nat  BY <1>3 DEF Emitted
<1>5. WritesInside'  BY <1>1, <1>2, <1>3, WhileWriting DEF WritesInside, Over
<1>6. QED  BY <1>1, <1>4, <1>5 DEF IInv

\* In particular one that leaves the output alone.
LEMMA QuietKeeps ==
  ASSUME IInv, ~ Over, state' \in ToSet(States), ~ Over', Keeps, p' \in Nat,
         width' \in Int, prec' \in Int
  PROVE  IInv'
<1>1. UNCHANGED given /\ Here' = Here  BY DEF Keeps, Here, given
<1>2. Emitted(Here', {}, 0, 0, n)  BY <1>1 DEF IInv
<1>3. QED  BY <1>1, <1>2, OutputKeeps

(***************************************************************************)
(* What the steps read.                                                     *)
(***************************************************************************)
LEMMA ArgumentTyped ==
  ASSUME call \in Calls, NEW i
  PROVE  ArgumentWord(i) \in 0 .. Word - 1
<1>1. words \in Seq(0 .. Word - 1)
  <2>1. Len(call) \in 0 .. Len(call)  BY CallTyped
  <2>2. QED  BY <2>1, CallLengths DEF words
<1>2. Word \in Nat /\ Word > 1  BY DirectivesAssumption
<1>3. QED  BY <1>1, <1>2 DEF ArgumentWord

LEMMA SignedTyped ==
  ASSUME NEW v \in Int, NEW size \in Nat, size > 0
  PROVE  SignedIn(v, size) \in Int
<1>1. v % size \in Int  OBVIOUS
<1>2. QED  BY <1>1 DEF SignedIn

LEMMA IntegerTyped ==
  ASSUME call \in Calls
  PROVE  IntegerArg \in Int
<1>1. ArgumentWord(ap) \in Int  BY ArgumentTyped
<1>2. Word \in Nat /\ Word > 0  BY DirectivesAssumption
<1>3. QED  BY <1>1, <1>2, SignedTyped DEF IntegerArg

LEMMA DigitTyped ==
  ASSUME NEW c \in ToSet(Decimals)
  PROVE  DigitOf(c) \in 0 .. 9
<1>1. DOMAIN Decimals = 1 .. 10  BY DEF Decimals
<1>2. PICK i \in 1 .. 10 : Decimals[i] = c  BY <1>1 DEF ToSet
<1>3. i - 1 \in 0 .. 9 /\ Decimals[(i - 1) + 1] = c  BY <1>2
<1>4. QED  BY <1>3 DEF DigitOf

(***************************************************************************)
(* The steps that output nothing.                                           *)
(***************************************************************************)
LEMMA PercentKeeps == IInv /\ Percent => IInv'
<1> SUFFICES ASSUME IInv, Percent PROVE IInv'  OBVIOUS
<1>1. ~ Over /\ state' = "flags" /\ p' = p + 1 /\ width' = 0 /\ prec' = -1 /\ Keeps
  BY DEF Percent, InState, Over, Consumes
<1>2. QED  BY <1>1, QuietKeeps, StateNames DEF IInv, Over

LEMMA FlagKeeps == IInv /\ Flag => IInv'
<1> SUFFICES ASSUME IInv, Flag PROVE IInv'  OBVIOUS
<1>1. state = "flags" /\ state' \in {"flags", "width"} /\ p' \in {p, p + 1}
      /\ width' = width /\ prec' = prec /\ Keeps
  BY DEF Flag, InState, Consumes, LeavesTo
<1>2. QED  BY <1>1, QuietKeeps, StateNames DEF IInv, Over

LEMMA FieldWidthKeeps == IInv /\ FieldWidth => IInv'
<1> SUFFICES ASSUME IInv, FieldWidth PROVE IInv'  OBVIOUS
<1>1. state = "width" /\ Keeps  BY DEF FieldWidth, InState
<1>2. IntegerArg \in Int  BY IntegerTyped DEF IInv
<1>3. ch \in ToSet(Decimals) => DigitOf(ch) \in Int  BY DigitTyped
<1>4. width' \in Int /\ prec' \in Int
  BY <1>2, <1>3 DEF IInv, FieldWidth, WidthStar, WidthEnd
<1>5. state' \in {"width", "prec", "modifiers"} /\ p' \in {p, p + 1}
  BY <1>1 DEF FieldWidth, WidthStar, WidthEnd, Consumes, LeavesTo
<1>6. QED  BY <1>1, <1>4, <1>5, QuietKeeps, StateNames DEF IInv, Over

LEMMA FieldPrecisionKeeps == IInv /\ FieldPrecision => IInv'
<1> SUFFICES ASSUME IInv, FieldPrecision PROVE IInv'  OBVIOUS
<1>1. state = "prec" /\ Keeps /\ width' = width  BY DEF FieldPrecision, InState
<1>2. IntegerArg \in Int  BY IntegerTyped DEF IInv
<1>3. ch \in ToSet(Decimals) => DigitOf(ch) \in Int  BY DigitTyped
<1>4. prec' \in Int  BY <1>2, <1>3 DEF IInv, FieldPrecision
<1>5. state' \in {"prec", "modifiers"} /\ p' \in {p, p + 1}
  BY <1>1 DEF FieldPrecision, Consumes, LeavesTo
<1>6. QED  BY <1>1, <1>4, <1>5, QuietKeeps, StateNames DEF IInv, Over

LEMMA LengthModifierKeeps == IInv /\ LengthModifier => IInv'
<1> SUFFICES ASSUME IInv, LengthModifier PROVE IInv'  OBVIOUS
<1>1. state = "modifiers" /\ state' = state /\ p' = p + 1 /\ width' = width /\ prec' = prec /\ Keeps
  BY DEF LengthModifier, InState, Consumes
<1>2. QED  BY <1>1, QuietKeeps, StateNames DEF IInv, Over

(***************************************************************************)
(* The steps that output characters.                                        *)
(***************************************************************************)
LEMMA HereAfter ==
  ASSUME NEW out, Outputs(out), UNCHANGED given, out = [buf |-> out.buf, at |-> out.at, o |-> out.o, n |-> n]
  PROVE  Here' = out
BY DEF Outputs, Here, given

\* A string, a character or "(null)".
LEMMA StringLength ==
  ASSUME NEW w
  PROVE  Len(StringAt(w)) \in Nat /\ Len(<<LetterAt(w)>>) \in Nat
<1>1. Len(<<"(", "n", "u", "l", "l", ")">>) \in Nat /\ Len(<< >>) \in Nat  OBVIOUS
<1>2. w \in DOMAIN Texts => Len(Texts[w]) \in Nat  BY DirectivesAssumption, LenProperties
<1>3. Len(StringAt(w)) \in Nat  BY <1>1, <1>2 DEF StringAt
<1>4. Len(<<LetterAt(w)>>) \in Nat  OBVIOUS
<1>5. QED  BY <1>3, <1>4

(***************************************************************************)
(* The count of characters is the length of what the directives done        *)
(* produce, which an int holds by LengthAssumption: o never wraps and       *)
(* printf takes it for no error.                                            *)
(***************************************************************************)
Done == DoneAt(call, p)

Counted ==
  /\ Done \in 0 .. Len(call)
  /\ o = Len(TextTo(call, Done))

LEMMA CountFits ==
  ASSUME IInv, Counted
  PROVE  SignedIn(o, Word) = o /\ o \in 0 .. Word - 1
<1>1. o \in Nat /\ o < Word \div 2  BY TextCounted DEF IInv, Counted
<1>2. PICK h, W \in Nat : h = Word \div 2 /\ W = Word /\ h < W  BY WordTyped
<1>3. o % Word = o  BY <1>1, <1>2, Unwrapped
<1>4. QED  BY <1>1, <1>2, <1>3 DEF SignedIn

LEMMA PieceFits ==
  ASSUME IInv, Counted, NEW k \in 0 .. Len(call) - 1, Done = k
  PROVE  /\ IsText(Produced(call[k + 1])) /\ Len(Produced(call[k + 1])) \in Nat
         /\ o + Len(Produced(call[k + 1])) = Len(TextTo(call, k + 1))
         /\ o + Len(Produced(call[k + 1])) < Word
<1>1. call \in Calls /\ IsDirective(call[k + 1])  BY CallSpelled DEF IInv
<1>2. PICK s : s = Produced(call[k + 1]) /\ s \in Seq(Glyphs)  BY <1>1, ProducedTyped
<1>3. Len(s) \in Nat  BY <1>2, LenProperties
<1>4. Follows(TextTo(call, k + 1), TextTo(call, k), s)  BY <1>1, <1>2, TextNext
<1>5. o = Len(TextTo(call, k))  BY DEF Counted
<1>6. o + Len(s) = Len(TextTo(call, k + 1))  BY <1>4, <1>5 DEF Follows
<1>7. k + 1 \in 0 .. Len(call)
  <2>1. PICK m \in Nat : m = Len(call)  BY <1>1, CallTyped
  <2>2. QED  BY <2>1
<1>8. Len(TextTo(call, k + 1)) < Word
  <2>1. PICK h, W, m \in Nat : h = Word \div 2 /\ W = Word /\ h < W /\ m = Len(TextTo(call, k + 1)) /\ m < h
    BY <1>1, <1>7, WordTyped, TextCounted
  <2>2. QED  BY <2>1
<1>9. QED  BY <1>2, <1>3, <1>6, <1>8 DEF IsText

(***************************************************************************)
(* The end of the text: the terminator goes into the buffer too.            *)
(***************************************************************************)
LEMMA TerminatesKeeps == IInv /\ Terminates => IInv'
<1> SUFFICES ASSUME IInv, Terminates PROVE IInv'  OBVIOUS
<1> DEFINE place == IF o < n THEN q ELSE n - 1
<1>1. ~ Over /\ state' = "terminated" /\ p' = p /\ UNCHANGED <<given, width, prec, o>>
      /\ buffer' = Put(buffer, place, "NUL")
  BY DEF Terminates, Over, spec
<1>2. n \in Nat /\ n > 0 /\ o \in Nat /\ (o < n => q = o)
  BY <1>1, StateNames DEF IInv, Emitted, Here
<1>3. place \in 0 .. n - 1  BY <1>2
<1> HIDE DEF place
<1>4. DOMAIN buffer' = DOMAIN buffer \cup {place} /\ buffer'[place] = "NUL"  BY <1>1, StoreDomain
<1>5. WritesInside'  BY <1>1, <1>3, <1>4 DEF IInv, WritesInside, given
<1>6. QED  BY <1>1, <1>5, StateNames DEF IInv, given, Over

LEMMA ReturnsLength ==
  ASSUME IInv, Counted, PrintfReturns
  PROVE  /\ rv' = (IF o > n - 1 THEN n - 1 ELSE o) /\ buffer' = Put(buffer, rv', "NUL")
         /\ shown' = [i \in 1 .. FirstNul(buffer') |-> buffer'[i - 1]]
<1>1. SignedIn(o, Word) = o  BY CountFits
<1>2. o \in Nat  BY DEF IInv
<1>3. Shows(o)  BY <1>1, <1>2 DEF PrintfReturns
<1>4. QED  BY <1>3 DEF Shows

LEMMA PrintfReturnsKeeps == IInv /\ Counted /\ PrintfReturns => IInv'
<1> SUFFICES ASSUME IInv, Counted, PrintfReturns PROVE IInv'  OBVIOUS
<1>1. state = "terminated" /\ state' = "returned" /\ p' = p /\ UNCHANGED <<given, width, prec, o>>
      /\ rv' = (IF o > n - 1 THEN n - 1 ELSE o) /\ buffer' = Put(buffer, rv', "NUL")
  BY ReturnsLength DEF PrintfReturns, spec
<1>2. n \in Nat /\ n > 0 /\ o \in Nat  BY StateNames DEF IInv
<1>3. rv' \in 0 .. n - 1  BY <1>1, <1>2
<1>4. DOMAIN buffer' = DOMAIN buffer \cup {rv'} /\ buffer'[rv'] = "NUL"  BY <1>1, StoreDomain
<1>5. WritesInside'  BY <1>1, <1>3, <1>4 DEF IInv, WritesInside, given
<1>6. QED  BY <1>1, <1>5, StateNames DEF IInv, given, Over

\* The states in the order a conversion goes through them.
LEMMA StageOf ==
  ASSUME NEW i \in 1 .. 7
  PROVE  /\ state = States[i] => Stage = i
         /\ state' = States[i] => Stage' = i
<1>1. DOMAIN States = 1 .. 7  BY DEF States
<1>2. \A j, k \in 1 .. 7 : States[j] = States[k] => j = k  BY DEF States
<1>3. QED  BY <1>1, <1>2 DEF Stage

LEMMA Stages ==
  /\ state = "normal" => Stage = 1
  /\ state = "flags" => Stage = 2
  /\ state = "width" => Stage = 3
  /\ state = "prec" => Stage = 4
  /\ state = "modifiers" => Stage = 5
  /\ state = "terminated" => Stage = 6
  /\ state' = "flags" => Stage' = 2
  /\ state' = "width" => Stage' = 3
  /\ state' = "modifiers" => Stage' = 5
  /\ state' = "terminated" => Stage' = 6
  /\ state' = "returned" => Stage' = 7
BY StageOf DEF States

(***************************************************************************)
(* Where vsnprintf is in the call.  Between directives all that the first k *)
(* of them spell and pass has been taken; inside one, c characters of its   *)
(* spelling and t of its words.                                             *)
(***************************************************************************)
Aligned(k, c, t) ==
  /\ p = Len(SpellingTo(call, k)) + (c + 1)
  /\ ap = Len(PassedTo(call, k)) + (t + 1)

\* v is what r characters of the number w say, and meant what all of them do.
NumberRead(w, r, v, meant) ==
  /\ w.form = "star" => v = IF r = 0 THEN 0 ELSE meant
  /\ w.form # "star" => v \in 0 .. w.n /\ Leads(Numeral(v, 10), Numeral(w.n, 10), r)

RankRead(s, r) ==
  IF r = 0 THEN 0
  ELSE r * (CASE s[1] = "h" -> -1 [] s[1] \in {"l", "z", "t"} -> 1 [] OTHER -> 2)

InFlags(d, c, t) ==
  /\ state = "flags" /\ c \in 1 .. FlagsEnd(d) /\ t = 0
  /\ flags = Named({d.flags[i] : i \in 1 .. c - 1}) /\ rank = 0 /\ width = 0 /\ prec = -1

InWidth(d, c, t) ==
  /\ state = "width" /\ c \in FlagsEnd(d) .. WidthStop(d)
  /\ t = IF d.width.form = "star" THEN c - FlagsEnd(d) ELSE 0
  /\ flags = IF d.width.form = "star" /\ c = FlagsEnd(d) THEN Named(ToSet(d.flags)) ELSE MeantFlags(d)
  /\ NumberRead(d.width, c - FlagsEnd(d), width, Width(d)) /\ rank = 0 /\ prec = -1

InPrec(d, c, t) ==
  /\ state = "prec" /\ d.prec # Absent /\ c \in WidthStop(d) + 1 .. PrecStop(d)
  /\ t = Len(NumberPassed(d.width)) + (IF d.prec.form = "star" THEN c - WidthStop(d) - 1 ELSE 0)
  /\ flags = MeantFlags(d) /\ width = Width(d) /\ rank = 0
  /\ NumberRead(d.prec, c - WidthStop(d) - 1, prec, MeantPrec(d))

InLength(d, c, t) ==
  /\ state = "modifiers" /\ c \in PrecStop(d) .. LengthEnd(d)
  /\ t = Len(NumberPassed(d.width)) + Len(NumberPassed(d.prec))
  /\ flags = MeantFlags(d) /\ width = Width(d) /\ prec = MeantPrec(d)
  /\ rank = RankRead(d.length, c - PrecStop(d))

Reading(d, c, t) ==
  /\ d.kind = "conversion" /\ IsConversion(d)
  /\ InFlags(d, c, t) \/ InWidth(d, c, t) \/ InPrec(d, c, t) \/ InLength(d, c, t)

Parsing ==
  \/ /\ state \in {"normal", "terminated", "returned"}
     /\ \E k \in 0 .. Len(call) : Aligned(k, 0, 0) /\ (state # "normal" => k = Len(call))
  \/ \E k \in 0 .. Len(call) - 1, c \in Nat, t \in Nat :
       \E d \in {call[k + 1]} : Aligned(k, c, t) /\ Reading(d, c, t)

\* What the variables hold between directives, where the text left them.
Ranges ==
  /\ flags \subseteq {"ZERO", "MINUS", "PLUS", "TICK", "SPACE", "HASH", "SIGNED", "UPPER"}
  /\ rank \in -2 .. 2 /\ width \in 0 .. Word /\ prec \in -1 .. Word

\* printf returns once, a length no longer than the text and less than the buffer.
Awaits ==
  /\ state # "returned" => rv = -1 /\ shown = <<>>
  /\ rv \in -1 .. o /\ Len(shown) < n

Sense ==
  /\ Parsing /\ Awaits
  /\ state \in {"normal", "terminated", "returned"} => Ranges
  /\ Over => q \in Nat

(***************************************************************************)
(* The next character and the next word are those of the directive.         *)
(***************************************************************************)
LEMMA NextCharacter ==
  ASSUME NEW k \in 0 .. Len(call) - 1, NEW c \in Nat, NEW t, call \in Calls, Aligned(k, c, t),
         c < Len(Spelling(call[k + 1]))
  PROVE  ch = Spelling(call[k + 1])[c + 1] /\ p \in Nat /\ p <= Len(format)
<1>1. PICK d : d = call[k + 1]  OBVIOUS
<1>2. HasPart(format, Len(SpellingTo(call, k)), Spelling(d))  BY <1>1, CallSpelled DEF format
<1>3. PICK a, b \in Nat : a = Len(SpellingTo(call, k)) /\ b = Len(Spelling(d)) /\ a + b <= Len(format)
  BY <1>2 DEF HasPart
<1>4. p = a + (c + 1) /\ c + 1 \in 1 .. b  BY <1>1, <1>3 DEF Aligned
<1>5. format[p] = Spelling(d)[c + 1]  BY <1>2, <1>3, <1>4 DEF HasPart
<1>6. p \in Nat /\ p <= Len(format)
  <2>1. Len(format) \in Nat
    <3>1. Len(call) \in 0 .. Len(call)  BY CallTyped
    <3>2. QED  BY <3>1, CallLengths DEF format
  <2>2. QED  BY <2>1, <1>3, <1>4
<1>7. QED  BY <1>1, <1>5, <1>6 DEF ch

LEMMA NextWord ==
  ASSUME NEW k \in 0 .. Len(call) - 1, NEW c, NEW t \in Nat, call \in Calls, Aligned(k, c, t),
         t < Len(Passed(call[k + 1]))
  PROVE  ArgumentWord(ap) = Passed(call[k + 1])[t + 1]
<1>1. PICK d : d = call[k + 1]  OBVIOUS
<1>2. HasPart(words, Len(PassedTo(call, k)), Passed(d))  BY <1>1, CallSpelled DEF words
<1>3. PICK a, b \in Nat : a = Len(PassedTo(call, k)) /\ b = Len(Passed(d)) /\ a + b <= Len(words)
  BY <1>2 DEF HasPart
<1>4. ap = a + (t + 1) /\ t + 1 \in 1 .. b  BY <1>1, <1>3 DEF Aligned
<1>5. words[ap] = Passed(d)[t + 1]  BY <1>2, <1>3, <1>4 DEF HasPart
<1>6. ap \in DOMAIN words
  <2>1. words \in Seq(0 .. Word - 1)
    <3>1. Len(call) \in 0 .. Len(call)  BY CallTyped
    <3>2. QED  BY <3>1, CallLengths DEF words
  <2>2. DOMAIN words = 1 .. Len(words) /\ Len(words) \in Nat  BY <2>1, LenProperties
  <2>3. QED  BY <2>2, <1>3, <1>4
<1>7. QED  BY <1>1, <1>5, <1>6 DEF ArgumentWord

\* Between directives there is one more, or the text is over.
LEMMA BetweenDirectives ==
  ASSUME NEW k \in 0 .. Len(call), call \in Calls, Aligned(k, 0, 0), p <= Len(format)
  PROVE  k \in 0 .. Len(call) - 1
<1>1. PICK m \in Nat : m = Len(call)  BY CallTyped
<1>2. k # m
  <2>1. Len(format) \in Nat
    <3>1. Len(call) \in 0 .. Len(call)  BY CallTyped
    <3>2. QED  BY <3>1, CallLengths DEF format
  <2>2. QED  BY <1>1, <2>1 DEF Aligned, format
<1>3. QED  BY <1>1, <1>2

\* A directive taken whole leaves vsnprintf before the next.
LEMMA DirectiveTaken ==
  ASSUME NEW k \in 0 .. Len(call) - 1, NEW c, NEW t, call \in Calls, UNCHANGED given, state' = "normal",
         p' = Len(SpellingTo(call, k)) + (c + 1), c = Len(Spelling(call[k + 1])),
         ap' = Len(PassedTo(call, k)) + (t + 1), t = Len(Passed(call[k + 1]))
  PROVE  Parsing' /\ Aligned(k + 1, 0, 0)' /\ k + 1 \in 0 .. Len(call')
<1>1. PICK d : d = call[k + 1]  OBVIOUS
<1>2. Follows(SpellingTo(call, k + 1), SpellingTo(call, k), Spelling(d))  BY <1>1, CallSpelled
<1>3. Follows(PassedTo(call, k + 1), PassedTo(call, k), Passed(d))  BY <1>1, CallSpelled
<1>4. call' = call  BY DEF given
<1>5. k + 1 \in 0 .. Len(call)
  <2>1. PICK m \in Nat : m = Len(call)  BY CallTyped
  <2>2. QED  BY <2>1
<1>6. p' = Len(SpellingTo(call, k + 1)) + (0 + 1)
  <2>1. PICK a, b \in Nat : a = Len(SpellingTo(call, k)) /\ b = Len(Spelling(d))  BY <1>2 DEF Follows
  <2>2. Len(SpellingTo(call, k + 1)) = a + b  BY <1>2, <2>1, Zenon DEF Follows
  <2>3. p' = a + (b + 1)  BY <1>1, <2>1
  <2>4. a + (b + 1) = (a + b) + (0 + 1)  OBVIOUS
  <2>5. QED  BY <2>2, <2>3, <2>4
<1>7. ap' = Len(PassedTo(call, k + 1)) + (0 + 1)
  <2>1. PICK a, b \in Nat : a = Len(PassedTo(call, k)) /\ b = Len(Passed(d))  BY <1>3 DEF Follows
  <2>2. Len(PassedTo(call, k + 1)) = a + b  BY <1>3, <2>1, Zenon DEF Follows
  <2>3. ap' = a + (b + 1)  BY <1>1, <2>1
  <2>4. a + (b + 1) = (a + b) + (0 + 1)  OBVIOUS
  <2>5. QED  BY <2>2, <2>3, <2>4
<1>8. Aligned(k + 1, 0, 0)'  BY <1>4, <1>6, <1>7 DEF Aligned
<1>9. QED  BY <1>4, <1>5, <1>8 DEF Parsing

\* Of a number nothing is read yet, or one digit more, or all.
LEMMA NothingRead ==
  ASSUME NEW w, IsNumber(w), NEW meant
  PROVE  NumberRead(w, 0, 0, meant)
<1>1. CASE w.form = "star"  BY <1>1 DEF NumberRead
<1>2. CASE w.form # "star"
  <2>1. w.n \in Nat  BY <1>2, NumberSpelled
  <2>2. IsNumeral(Numeral(0, 10), 0, 10) /\ IsNumeral(Numeral(w.n, 10), w.n, 10)  BY <2>1, NumeralTyped
  <2>3. Len(Numeral(0, 10)) = 0 /\ Len(Numeral(w.n, 10)) \in Nat  BY <2>2, LenProperties DEF IsNumeral
  <2>4. Leads(Numeral(0, 10), Numeral(w.n, 10), 0)  BY <2>3 DEF Leads
  <2>5. QED  BY <1>2, <2>1, <2>4 DEF NumberRead
<1>3. QED  BY <1>1, <1>2

LEMMA DigitAt ==
  ASSUME NEW i \in 0 .. 9
  PROVE  DigitOf(Decimals[i + 1]) = i
<1>1. \A j \in 0 .. 9 : Decimals[j + 1] = Decimals[i + 1] => j = i  BY DEF Decimals
<1>2. QED  BY <1>1 DEF DigitOf

LEMMA DigitRead ==
  ASSUME NEW w, IsNumber(w), w.form # "star", NEW r \in Nat, r < Len(NumberSpelling(w)), NEW v, NEW meant,
         NumberRead(w, r, v, meant)
  PROVE  LET c == NumberSpelling(w)[r + 1]
         IN c \in ToSet(Decimals) /\ NumberRead(w, r + 1, v * 10 + DigitOf(c), meant)
<1>1. PICK s : s = Numeral(w.n, 10)  OBVIOUS
<1>2. w.n \in Nat /\ v \in 0 .. w.n /\ Leads(Numeral(v, 10), s, r) /\ r < Len(s)
  BY <1>1, NumberSpelled DEF NumberRead
<1>3. Len(s) \in Nat
  <2>1. IsNumeral(s, w.n, 10)  BY <1>1, <1>2, NumeralTyped
  <2>2. QED  BY <2>1, LenProperties DEF IsNumeral
<1>4. PICK i : i = s[r + 1]  OBVIOUS
<1>5. i \in 0 .. 9 /\ v * 10 + i \in Nat /\ Leads(Numeral(v * 10 + i, 10), s, r + 1)
  BY <1>1, <1>2, <1>4, NumeralGrows, SMTT(30)
<1>6. v * 10 + i <= w.n  BY <1>1, <1>2, <1>5, NumeralOrder
<1>7. NumberSpelling(w)[r + 1] = Decimals[i + 1]
  <2>1. r + 1 \in 1 .. Len(s)  BY <1>2, <1>3
  <2>2. QED  BY <1>1, <1>4, <2>1, NumberSpelled
<1>8. DigitOf(Decimals[i + 1]) = i /\ Decimals[i + 1] \in ToSet(Decimals)  BY <1>5, DigitAt, DigitCharacters
<1>9. NumberRead(w, r + 1, v * 10 + i, meant)
  <2>1. v * 10 + i \in 0 .. w.n  BY <1>2, <1>5, <1>6
  <2>2. Leads(Numeral(v * 10 + i, 10), Numeral(w.n, 10), r + 1)  BY <1>1, <1>5
  <2>3. QED  BY <2>1, <2>2, Zenon DEF NumberRead
<1>10. QED  BY <1>7, <1>8, <1>9

LEMMA AllRead ==
  ASSUME NEW w, IsNumber(w), NEW v, NEW meant, NumberRead(w, Len(NumberSpelling(w)), v, meant)
  PROVE  v = IF w.form = "star" THEN meant ELSE w.n
<1>1. CASE w.form = "star"
  <2>1. NumberSpelling(w) = <<"*">>  BY <1>1, NumberSpelled
  <2>2. Len(NumberSpelling(w)) = 1  BY <2>1
  <2>3. QED  BY <1>1, <2>2 DEF NumberRead
<1>2. CASE w.form # "star"
  <2>1. PICK s : s = Numeral(w.n, 10)  OBVIOUS
  <2>2. w.n \in Nat /\ Len(NumberSpelling(w)) = Len(s)  BY <1>2, <2>1, NumberSpelled
  <2>3. Len(s) \in Nat
    <3>1. IsNumeral(s, w.n, 10)  BY <2>1, <2>2, NumeralTyped
    <3>2. QED  BY <3>1, LenProperties DEF IsNumeral
  <2>4. v \in 0 .. w.n /\ Leads(Numeral(v, 10), s, Len(s))  BY <1>2, <2>1, <2>2 DEF NumberRead
  <2>5. v = w.n  BY <2>1, <2>2, <2>3, <2>4, NumeralOrder
  <2>6. QED  BY <1>2, <2>5
<1>3. QED  BY <1>1, <1>2

LEMMA StarArgument ==
  ASSUME NEW w, IsNumber(w), NEW v, v = w.n % Word
  PROVE  SignedIn(v, Word) = w.n
<1>1. PICK h \in Nat : h = Word \div 2 /\ h > 1 /\ Word \in Nat /\ Word > 3  BY WordTyped
<1>2. w.n \in Int /\ w.n < h /\ -w.n < h  BY <1>1, NumberSpelled
<1>3. PICK x \in Int : x = w.n /\ x < h /\ -x < h  BY <1>2
<1>4. PICK W \in Nat : W = Word /\ (W = 2 * h \/ W = 2 * h + 1)  BY <1>1
<1>5. CASE x >= 0
  <2>1. x % W = x /\ x < h  BY <1>3, <1>4, <1>5
  <2>2. v = x /\ v % Word = x  BY <1>3, <1>4, <2>1
  <2>3. QED  BY <1>1, <1>3, <2>1, <2>2 DEF SignedIn
<1>6. CASE x < 0
  <2>1. PICK y \in Nat : y = x + W /\ y >= h /\ y < W  BY <1>1, <1>3, <1>4, <1>6
  <2>2. x % W = y
    <3>1. x >= -W /\ W > 0  BY <1>1, <1>3, <1>4
    <3>2. x % W = x + W  BY <1>3, <1>4, <1>6, <3>1, Wraps
    <3>3. QED  BY <2>1, <3>2
  <2>3. y % W = y  BY <2>1
  <2>4. v = y /\ v % Word = y  BY <1>3, <1>4, <2>2, <2>3
  <2>5. y - W = x  BY <2>1, <1>3, <1>4
  <2>6. QED  BY <1>1, <1>3, <1>4, <2>1, <2>4, <2>5 DEF SignedIn
<1>7. QED  BY <1>3, <1>5, <1>6

\* Inside a directive vsnprintf stays, some characters and words further on.
LEMMA MovesOn ==
  ASSUME NEW k \in 0 .. Len(call) - 1, NEW c \in Nat, NEW t \in Nat, call \in Calls, UNCHANGED given,
         Aligned(k, c, t), NEW i \in Nat, NEW j \in Nat, p' = p + i, ap' = ap + j
  PROVE  Aligned(k, c + i, t + j)' /\ c + i \in Nat /\ t + j \in Nat
<1>1. PICK a, b \in Nat : a = Len(SpellingTo(call, k)) /\ b = Len(PassedTo(call, k))
  <2>1. k \in 0 .. Len(call)
    <3>1. PICK m \in Nat : m = Len(call)  BY CallTyped
    <3>2. QED  BY <3>1
  <2>2. QED  BY <2>1, CallLengths
<1>2. p' = a + (c + i + 1) /\ ap' = b + (t + j + 1)  BY <1>1 DEF Aligned
<1>3. QED  BY <1>1, <1>2 DEF Aligned, given

LEMMA StillReading ==
  ASSUME NEW k \in 0 .. Len(call) - 1, NEW c \in Nat, NEW t \in Nat, UNCHANGED given,
         NEW d, d = call[k + 1], Aligned(k, c, t)', Reading(d, c, t)'
  PROVE  Parsing'
<1>1. k \in 0 .. Len(call') - 1 /\ d \in {call'[k + 1]}  BY DEF given
<1>2. QED  BY <1>1 DEF Parsing

LEMMA InsideDirective ==
  ASSUME Parsing, call \in Calls, state \in {"flags", "width", "prec", "modifiers"}
  PROVE  \E k \in 0 .. Len(call) - 1, c \in Nat, t \in Nat : \E d \in {call[k + 1]} :
           /\ Aligned(k, c, t) /\ d.kind = "conversion" /\ IsConversion(d)
           /\ state = "flags" => InFlags(d, c, t)
           /\ state = "width" => InWidth(d, c, t)
           /\ state = "prec" => InPrec(d, c, t)
           /\ state = "modifiers" => InLength(d, c, t)
<1>1. PICK k \in 0 .. Len(call) - 1, c \in Nat, t \in Nat : \E d \in {call[k + 1]} :
        Aligned(k, c, t) /\ Reading(d, c, t)
  BY DEF Parsing
<1>2. PICK d \in {call[k + 1]} : Aligned(k, c, t) /\ Reading(d, c, t)  BY <1>1
<1>3. /\ state = "flags" => InFlags(d, c, t)
      /\ state = "width" => InWidth(d, c, t)
      /\ state = "prec" => InPrec(d, c, t)
      /\ state = "modifiers" => InLength(d, c, t)
  BY <1>2 DEF Reading, InFlags, InWidth, InPrec, InLength
<1>4. QED  BY <1>2, <1>3 DEF Reading

LEMMA OutsideDirective ==
  ASSUME Parsing, state \in {"normal", "terminated", "returned"}
  PROVE  \E k \in 0 .. Len(call) : Aligned(k, 0, 0) /\ (state # "normal" => k = Len(call))
<1>1. \A c, t, d : ~ Reading(d, c, t)  BY DEF Reading, InFlags, InWidth, InPrec, InLength
<1>2. QED  BY <1>1, Zenon DEF Parsing

(***************************************************************************)
(* Outside a directive.                                                     *)
(***************************************************************************)
LEMMA SpellsInside ==
  ASSUME NEW d, d.kind = "conversion", IsConversion(d)
  PROVE  /\ FlagsEnd(d) < Len(Spelling(d)) /\ WidthStop(d) < Len(Spelling(d)) /\ PrecStop(d) < Len(Spelling(d))
         /\ LengthEnd(d) < Len(Spelling(d)) /\ Len(Spelling(d)) = LengthEnd(d) + 1
         /\ FlagsEnd(d) \in Nat /\ WidthStop(d) \in Nat /\ PrecStop(d) \in Nat /\ LengthEnd(d) \in Nat
         /\ 1 <= FlagsEnd(d) /\ FlagsEnd(d) <= WidthStop(d) /\ WidthStop(d) <= PrecStop(d)
         /\ PrecStop(d) <= LengthEnd(d)
<1>1. Len(Spelling(d)) = LengthEnd(d) + 1  BY ConversionSpelled DEF Shaped
<1>2. PICK f, w, r, l \in Nat : f = FlagsEnd(d) /\ w = WidthStop(d) /\ r = PrecStop(d) /\ l = LengthEnd(d)
  BY PlacesOrdered
<1>3. PICK x0, x1, x2, x3 \in Nat :
        /\ x0 = Len(d.flags) /\ x1 = Len(NumberSpelling(d.width))
        /\ x2 = Len(PrecSpelling(d)) /\ x3 = Len(d.length)
  BY PlacesOrdered
<1>4. f = 1 + x0 /\ w = f + x1 /\ r = w + x2 /\ l = r + x3  BY <1>2, <1>3, PlacesOrdered, Zenon
<1>5. QED  BY <1>1, <1>2, <1>4

LEMMA PlainReads ==
  ASSUME Parsing, call \in Calls, Plain
  PROVE  \E k \in 0 .. Len(call) - 1 : /\ Aligned(k, 0, 0) /\ Aligned(k + 1, 0, 0)' /\ k + 1 \in 0 .. Len(call)
                                       /\ Parsing'
                                       /\ call[k + 1] = Character(ch)
<1>1. state = "normal" /\ p <= Len(format) /\ ch # "%" /\ state' = state /\ p' = p + 1 /\ ap' = ap /\ UNCHANGED given
  BY DEF Plain, InState, Consumes
<1>2. PICK k \in 0 .. Len(call) : Aligned(k, 0, 0)  BY <1>1, OutsideDirective
<1>3. k \in 0 .. Len(call) - 1  BY <1>1, <1>2, BetweenDirectives
<1>4. PICK d : d = call[k + 1]  OBVIOUS
<1>5. IsDirective(d)  BY <1>3, <1>4, CallSpelled
<1>6. Len(Spelling(d)) > 0  BY <1>5, DirectiveTyped
<1>7. ch = Spelling(d)[0 + 1]  BY <1>2, <1>3, <1>4, <1>6, NextCharacter
<1>8. d.kind # "conversion"
  <2>1. SUFFICES ASSUME d.kind = "conversion" PROVE FALSE  OBVIOUS
  <2>2. IsConversion(d)  BY <1>5, <2>1 DEF IsDirective
  <2>3. Spelling(d)[1] = "%"  BY <2>1, <2>2, ConversionSpelled DEF Shaped
  <2>4. QED  BY <1>1, <1>7, <2>3
<1>9. d.kind = "character" /\ d = Character(d.ch)  BY <1>5, <1>8 DEF IsDirective
<1>10. Spelling(d) = <<d.ch>> /\ Passed(d) = <<>>  BY <1>9 DEF Spelling, Passed
<1>11. ch = d.ch /\ Len(Spelling(d)) = 1 /\ Len(Passed(d)) = 0  BY <1>7, <1>10
<1>12. Aligned(k, 1, 0)'
  <2>1. Aligned(k, 0 + 1, 0 + 0)'
    <3>1. p' = p + 1 /\ ap' = ap + 0
      <4>1. PICK b \in Nat : b = Len(PassedTo(call, k))  BY <1>2, CallLengths
      <4>2. QED  BY <1>1, <1>2, <4>1 DEF Aligned
    <3>2. QED  BY <1>1, <1>2, <1>3, <3>1, MovesOn
  <2>2. QED  BY <2>1
<1>13. p' = Len(SpellingTo(call, k)) + (1 + 1) /\ ap' = Len(PassedTo(call, k)) + (0 + 1)
  BY <1>1, <1>12 DEF Aligned, given
<1>14. Parsing' /\ Aligned(k + 1, 0, 0)' /\ k + 1 \in 0 .. Len(call')
  BY <1>1, <1>3, <1>4, <1>11, <1>13, DirectiveTaken
<1>15. QED  BY <1>1, <1>2, <1>3, <1>4, <1>9, <1>11, <1>14 DEF given

LEMMA PercentReads ==
  ASSUME Parsing, call \in Calls, Percent
  PROVE  \E k \in 0 .. Len(call) - 1 : Aligned(k, 0, 0) /\ Parsing' /\ p' = Len(SpellingTo(call, k)) + 2
<1>1. /\ state = "normal" /\ p <= Len(format) /\ ch = "%" /\ UNCHANGED given /\ p' = p + 1 /\ ap' = ap
      /\ state' = "flags" /\ flags' = {} /\ rank' = 0 /\ width' = 0 /\ prec' = -1
  BY DEF Percent, InState, Consumes, Keeps
<1>2. PICK k \in 0 .. Len(call) : Aligned(k, 0, 0)  BY <1>1, OutsideDirective
<1>3. k \in 0 .. Len(call) - 1  BY <1>1, <1>2, BetweenDirectives
<1>4. PICK d : d = call[k + 1]  OBVIOUS
<1>5. IsDirective(d)  BY <1>3, <1>4, CallSpelled
<1>6. Len(Spelling(d)) > 0  BY <1>5, DirectiveTyped
<1>7. ch = Spelling(d)[0 + 1]  BY <1>2, <1>3, <1>4, <1>6, NextCharacter
<1>8. d.kind # "character"
  <2>1. SUFFICES ASSUME d.kind = "character" PROVE FALSE  OBVIOUS
  <2>2. Spelling(d) = <<d.ch>>  BY <2>1 DEF Spelling
  <2>3. d.ch # "%"  BY <2>1, <1>5 DEF IsDirective
  <2>4. QED  BY <1>1, <1>7, <2>2, <2>3
<1>9. d.kind = "conversion" /\ IsConversion(d)  BY <1>5, <1>8 DEF IsDirective
<1>10. Aligned(k, 1, 0)'
  <2>1. Aligned(k, 0 + 1, 0 + 0)'
    <3>1. p' = p + 1 /\ ap' = ap + 0
      <4>1. PICK b \in Nat : b = Len(PassedTo(call, k))  BY <1>2, CallLengths
      <4>2. QED  BY <1>1, <1>2, <4>1 DEF Aligned
    <3>2. QED  BY <1>1, <1>2, <1>3, <3>1, MovesOn
  <2>2. QED  BY <2>1
<1>11. InFlags(d, 1, 0)'
  <2>1. 1 \in 1 .. FlagsEnd(d)  BY <1>9, SpellsInside
  <2>2. {d.flags[i] : i \in 1 .. 1 - 1} = {}  OBVIOUS
  <2>3. Named({d.flags[i] : i \in 1 .. 1 - 1}) = {}  BY <2>2 DEF Named
  <2>4. QED  BY <1>1, <2>1, <2>3 DEF InFlags
<1>12. Parsing'
  <2>1. Reading(d, 1, 0)'  BY <1>9, <1>11 DEF Reading
  <2>2. QED  BY <1>1, <1>3, <1>4, <1>10, <2>1, StillReading
<1>13. QED  BY <1>1, <1>2, <1>3, <1>10, <1>12 DEF Aligned, given

LEMMA FlagReads ==
  ASSUME Parsing, call \in Calls, Flag
  PROVE  Parsing'
<1>1. /\ state = "flags" /\ UNCHANGED given /\ ap' = ap /\ rank' = rank /\ width' = width /\ prec' = prec
  BY DEF Flag, InState, Keeps
<1>2. PICK k \in 0 .. Len(call) - 1, c \in Nat, t \in Nat : \E d \in {call[k + 1]} :
        Aligned(k, c, t) /\ d.kind = "conversion" /\ IsConversion(d) /\ InFlags(d, c, t)
  BY <1>1, InsideDirective
<1>3. PICK d : /\ d = call[k + 1] /\ Aligned(k, c, t) /\ d.kind = "conversion" /\ IsConversion(d)
               /\ InFlags(d, c, t)
  BY <1>2
<1>4. PICK f \in Nat : f = FlagsEnd(d) /\ f < Len(Spelling(d)) /\ c \in 1 .. f
  BY <1>3, SpellsInside DEF InFlags
<1>5. ch = Spelling(d)[c + 1]
  <2>1. c < Len(Spelling(d))
    <3>1. PICK m \in Nat : m = Len(Spelling(d))  BY <1>3, SpellsInside
    <3>2. QED  BY <3>1, <1>4
  <2>2. QED  BY <2>1, <1>3, NextCharacter
<1>6. DOMAIN FlagNames = FlagCharacters  BY DEF FlagNames
<1>7. CASE c < f
  <2>1. c \in 1 .. FlagsEnd(d) - 1  BY <1>4, <1>7
  <2>2. ch = d.flags[c] /\ ch \in FlagCharacters  BY <1>3, <1>5, <2>1, FlagNext
  <2>3. flags' = flags \cup {FlagNames[ch]} /\ p' = p + 1 /\ state' = state
    BY <1>6, <2>2 DEF Flag, Consumes
  <2>4. {d.flags[i] : i \in 1 .. (c + 1) - 1} = {d.flags[i] : i \in 1 .. c - 1} \cup {d.flags[c]}
    BY <1>4
  <2>5. flags' = Named({d.flags[i] : i \in 1 .. (c + 1) - 1})
    BY <1>3, <2>2, <2>3, <2>4 DEF InFlags, Named
  <2>6. InFlags(d, c + 1, t)'
    <3>1. c + 1 \in 1 .. FlagsEnd(d)  BY <1>4, <1>7
    <3>2. QED  BY <1>1, <1>3, <2>3, <2>5, <3>1 DEF InFlags
  <2>7. Aligned(k, c + 1, t)'
    <3>1. ap' = ap + 0
      <4>1. PICK b \in Nat : b = Len(PassedTo(call, k))
        <5>1. PICK m \in Nat : m = Len(call)  BY CallTyped
        <5>2. k \in 0 .. Len(call)  BY <5>1
        <5>3. QED  BY <5>2, CallLengths
      <4>2. QED  BY <1>1, <1>3, <4>1 DEF Aligned
    <3>2. Aligned(k, c + 1, t + 0)'  BY <1>1, <1>3, <2>3, <3>1, MovesOn
    <3>3. QED  BY <3>2
  <2>8. Reading(d, c + 1, t)'  BY <1>3, <2>6 DEF Reading
  <2>9. QED  BY <1>1, <1>3, <2>7, <2>8, StillReading
<1>8. CASE c = f
  <2>1. ch \notin FlagCharacters  BY <1>3, <1>4, <1>5, <1>8, FlagsOver
  <2>2. flags' = flags /\ p' = p /\ state' = "width"  BY <1>6, <2>1 DEF Flag, LeavesTo
  <2>3. flags = Named(ToSet(d.flags))
    <3>1. DOMAIN d.flags = 1 .. Len(d.flags)  BY <1>3, LenProperties DEF IsConversion
    <3>2. c - 1 = Len(d.flags)
      <4>1. FlagsEnd(d) = 1 + Len(d.flags) /\ Len(d.flags) \in Nat  BY <1>3, PlacesOrdered
      <4>2. QED  BY <4>1, <1>4, <1>8
    <3>3. ToSet(d.flags) = {d.flags[i] : i \in 1 .. c - 1}  BY <3>1, <3>2 DEF ToSet
    <3>4. QED  BY <1>3, <3>3 DEF InFlags
  <2>4. InWidth(d, c, 0)'
    <3>1. c \in FlagsEnd(d) .. WidthStop(d) /\ c - FlagsEnd(d) = 0 /\ c = FlagsEnd(d)
      <4>1. PICK w \in Nat : w = WidthStop(d) /\ f <= w  BY <1>3, <1>4, SpellsInside
      <4>2. QED  BY <4>1, <1>4, <1>8
    <3>2. d.width.form # "star" => MeantFlags(d) = Named(ToSet(d.flags))
      <4>1. IsNumber(d.width)  BY <1>3 DEF IsConversion
      <4>2. d.width.form # "star" => ~ (d.width.n < 0)  BY <4>1, NumberWritten, Zenon
      <4>3. QED  BY <4>2 DEF MeantFlags
    <3>3. NumberRead(d.width, 0, 0, Width(d))  BY <1>3, NothingRead DEF IsConversion
    <3>4. flags' = Named(ToSet(d.flags)) /\ width' = 0 /\ rank' = 0 /\ prec' = -1
      BY <1>1, <1>3, <2>2, <2>3 DEF InFlags
    <3>5. QED  BY <2>2, <3>1, <3>2, <3>3, <3>4 DEF InWidth
  <2>5. Aligned(k, c, t)' /\ t = 0
    BY <1>1, <1>3, <2>2 DEF Aligned, given, InFlags
  <2>6. Reading(d, c, 0)'  BY <1>3, <2>4 DEF Reading
  <2>7. QED  BY <1>1, <1>3, <2>5, <2>6, StillReading
<1>9. QED  BY <1>4, <1>7, <1>8

LEMMA StaysAt ==
  ASSUME NEW k \in 0 .. Len(call) - 1, NEW c \in Nat, NEW t \in Nat, call \in Calls, UNCHANGED given,
         Aligned(k, c, t), NEW i \in Nat, p' = p + i, ap' = ap
  PROVE  Aligned(k, c + i, t)'
<1>1. PICK b \in Nat : b = Len(PassedTo(call, k))
  <2>1. k \in 0 .. Len(call)
    <3>1. PICK m \in Nat : m = Len(call)  BY CallTyped
    <3>2. QED  BY <3>1
  <2>2. QED  BY <2>1, CallLengths
<1>2. ap' = ap + 0  BY <1>1 DEF Aligned
<1>3. Aligned(k, c + i, t + 0)'  BY <1>2, MovesOn
<1>4. QED  BY <1>3

\* What a width, and its sign, have to say once they are read.
LEMMA WidthMeant ==
  ASSUME NEW d, IsNumber(d.width)
  PROVE  /\ d.width.form # "star" => Width(d) = d.width.n /\ MeantFlags(d) = Named(ToSet(d.flags))
         /\ d.width.form = "star" =>
              /\ Width(d) = IF d.width.n < 0 THEN -d.width.n ELSE d.width.n
              /\ MeantFlags(d) = IF d.width.n < 0 THEN Named(ToSet(d.flags)) \cup {"MINUS"}
                                 ELSE Named(ToSet(d.flags))
<1>1. d.width.n \in Int /\ (d.width.form # "star" => d.width.n \in Nat)  BY NumberSpelled
<1>2. FlagNames["-"] = "MINUS"
  <2>1. "-" \in FlagCharacters  BY DEF FlagCharacters
  <2>2. QED  BY <2>1 DEF FlagNames
<1>3. \A A, B : Named(A \cup B) = Named(A) \cup Named(B)  BY DEF Named
<1>4. Named({"-"}) = {"MINUS"} /\ Named({}) = {}  BY <1>2 DEF Named
<1>5. MeantFlags(d) = IF d.width.n < 0 THEN Named(ToSet(d.flags)) \cup {"MINUS"} ELSE Named(ToSet(d.flags))
  BY <1>3, <1>4, ZenonT(40) DEF MeantFlags
<1>6. QED  BY <1>1, <1>5 DEF Width

LEMMA StarSpelled ==
  ASSUME NEW w, IsNumber(w)
  PROVE  /\ w.form = "star" => /\ Len(NumberSpelling(w)) = 1 /\ NumberSpelling(w)[1] = "*"
                               /\ Len(NumberPassed(w)) = 1 /\ NumberPassed(w)[1] = w.n % Word
         /\ w.form # "star" => Len(NumberPassed(w)) = 0
         /\ "*" \notin ToSet(Decimals) /\ "." \notin ToSet(Decimals)
<1>1. w.form = "star" => NumberSpelling(w) = <<"*">> /\ NumberPassed(w) = <<w.n % Word>>
  BY NumberSpelled
<1>2. w.form # "star" => NumberPassed(w) = <<>>  BY NumberSpelled
<1>3. "*" \notin ToSet(Decimals) /\ "." \notin ToSet(Decimals)  BY DecimalGlyphs
<1>4. QED  BY <1>1, <1>2, <1>3

LEMMA WidthReads ==
  ASSUME Parsing, call \in Calls, FieldWidth
  PROVE  Parsing'
<1>1. state = "width" /\ UNCHANGED given /\ rank' = rank  BY DEF FieldWidth, InState, Keeps
<1>2. PICK k \in 0 .. Len(call) - 1, c \in Nat, t \in Nat : \E d \in {call[k + 1]} :
        Aligned(k, c, t) /\ d.kind = "conversion" /\ IsConversion(d) /\ InWidth(d, c, t)
  BY <1>1, InsideDirective
<1>3. PICK d : /\ d = call[k + 1] /\ Aligned(k, c, t) /\ d.kind = "conversion" /\ IsConversion(d)
               /\ InWidth(d, c, t)
  BY <1>2
<1>4. PICK f, w, b \in Nat :
        /\ f = FlagsEnd(d) /\ w = WidthStop(d) /\ b = Len(NumberSpelling(d.width)) /\ w = f + b
        /\ w < Len(Spelling(d)) /\ c \in f .. w
  BY <1>3, PlacesOrdered, SpellsInside DEF InWidth
<1>5. ch = Spelling(d)[c + 1]
  <2>1. c < Len(Spelling(d))
    <3>1. PICK m \in Nat : m = Len(Spelling(d))  BY <1>3, SpellsInside
    <3>2. QED  BY <3>1, <1>4
  <2>2. QED  BY <2>1, <1>3, NextCharacter
<1>6. IsNumber(d.width)  BY <1>3 DEF IsConversion
<1>7. CASE c < w /\ d.width.form = "star"
  <2>1. c = f /\ b = 1 /\ c + 1 = w
    <3>1. b = 1  BY <1>4, <1>6, <1>7, StarSpelled
    <3>2. QED  BY <3>1, <1>4, <1>7
  <2>2. ch = "*"
    <3>1. c \in FlagsEnd(d) .. WidthStop(d) - 1 /\ c - FlagsEnd(d) + 1 = 1  BY <1>4, <2>1
    <3>2. Spelling(d)[c + 1] = NumberSpelling(d.width)[1]  BY <1>3, <3>1, WidthNext
    <3>3. QED  BY <1>5, <1>6, <1>7, <3>2, StarSpelled
  <2>3. WidthStar  BY <1>6, <2>2, StarSpelled DEF FieldWidth
  <2>4. t = 0 /\ flags = Named(ToSet(d.flags)) /\ rank = 0 /\ prec = -1
    BY <1>3, <1>4, <1>7, <2>1 DEF InWidth
  <2>5. IntegerArg = d.width.n
    <3>1. /\ HasPart(Passed(d), 0, NumberPassed(d.width)) /\ Len(NumberPassed(d.width)) = 1
          /\ NumberPassed(d.width)[1] = d.width.n % Word
      BY <1>3, <1>6, <1>7, ConversionPassed, StarSpelled
    <3>2. 0 < Len(Passed(d)) /\ Passed(d)[0 + 1] = d.width.n % Word
      <4>1. PICK a, y \in Nat : y = Len(Passed(d)) /\ a = 1 /\ 0 + 1 <= y
        <5>1. Len(Passed(d)) \in Nat
          <6>1. IsDirective(d)  BY <1>3 DEF IsDirective
          <6>2. QED  BY <6>1, DirectiveTyped, LenProperties
        <5>2. QED  BY <3>1, <5>1 DEF HasPart
      <4>2. QED  BY <4>1, <3>1 DEF HasPart
    <3>3. ArgumentWord(ap) = Passed(d)[0 + 1]  BY <1>3, <2>4, <3>2, NextWord
    <3>4. QED  BY <1>6, <3>2, <3>3, StarArgument DEF IntegerArg
  <2>6. width' = Width(d) /\ flags' = MeantFlags(d) /\ p' = p + 1 /\ ap' = ap + 1 /\ state' = state /\ prec' = prec
    BY <1>6, <1>7, <2>3, <2>4, <2>5, WidthMeant DEF WidthStar, Consumes
  <2>7. InWidth(d, c + 1, 1)'
    <3>1. c + 1 \in FlagsEnd(d) .. WidthStop(d) /\ (c + 1) - FlagsEnd(d) = 1 /\ c + 1 # FlagsEnd(d)
      BY <1>4, <2>1
    <3>2. NumberRead(d.width, 1, Width(d), Width(d))  BY <1>7 DEF NumberRead
    <3>3. QED  BY <1>1, <1>7, <2>4, <2>6, <3>1, <3>2 DEF InWidth
  <2>8. Aligned(k, c + 1, 1)'
    <3>1. Aligned(k, c + 1, t + 1)'  BY <1>1, <1>3, <2>6, MovesOn
    <3>2. QED  BY <3>1, <2>4
  <2>9. Reading(d, c + 1, 1)'  BY <1>3, <2>7 DEF Reading
  <2>10. QED  BY <1>1, <1>3, <2>8, <2>9, StillReading
<1>8. CASE c < w /\ d.width.form # "star"
  <2>1. PICK r \in Nat : r = c - f /\ r < b /\ (c + 1) - f = r + 1 /\ c - f + 1 = r + 1  BY <1>4, <1>8, SMTT(30)
  <2>2. ch = NumberSpelling(d.width)[r + 1]
    <3>1. c \in FlagsEnd(d) .. WidthStop(d) - 1 /\ c - FlagsEnd(d) + 1 = r + 1  BY <1>4, <1>8, <2>1, SMTT(30)
    <3>2. QED  BY <1>3, <1>5, <3>1, WidthNext
  <2>3. NumberRead(d.width, r, width, Width(d)) /\ t = 0 /\ flags = MeantFlags(d) /\ rank = 0 /\ prec = -1
    BY <1>3, <1>4, <1>8, <2>1 DEF InWidth
  <2>4. ch \in ToSet(Decimals) /\ NumberRead(d.width, r + 1, width * 10 + DigitOf(ch), Width(d))
    BY <1>4, <1>6, <1>8, <2>1, <2>2, <2>3, DigitRead
  <2>5. /\ width' = width * 10 + DigitOf(ch) /\ p' = p + 1 /\ ap' = ap /\ state' = state
        /\ flags' = flags /\ prec' = prec
    BY <1>6, <2>4, StarSpelled DEF FieldWidth, Consumes, WidthStar
  <2>6. InWidth(d, c + 1, 0)'
    <3>1. c + 1 \in FlagsEnd(d) .. WidthStop(d) /\ (c + 1) - FlagsEnd(d) = r + 1  BY <1>4, <1>8, <2>1, SMTT(30)
    <3>2. QED  BY <1>1, <1>8, <2>3, <2>4, <2>5, <3>1 DEF InWidth
  <2>7. Aligned(k, c + 1, 0)'  BY <1>1, <1>3, <2>3, <2>5, StaysAt
  <2>8. Reading(d, c + 1, 0)'  BY <1>3, <2>6 DEF Reading
  <2>9. QED  BY <1>1, <1>3, <2>7, <2>8, StillReading
<1>9. CASE c = w
  <2>1. c - f = b  BY <1>4, <1>9
  <2>2. width = Width(d) /\ rank = 0 /\ prec = -1
    <3>1. NumberRead(d.width, Len(NumberSpelling(d.width)), width, Width(d)) /\ rank = 0 /\ prec = -1
      BY <1>3, <1>4, <2>1 DEF InWidth
    <3>2. QED  BY <1>6, <3>1, AllRead, WidthMeant
  <2>3. flags = MeantFlags(d) /\ t = Len(NumberPassed(d.width))
    <3>1. CASE d.width.form = "star"
      <4>1. b = 1 /\ c # f  BY <1>4, <1>6, <2>1, <3>1, StarSpelled, SMTT(30)
      <4>2. QED  BY <1>3, <1>4, <1>6, <2>1, <3>1, <4>1, StarSpelled DEF InWidth
    <3>2. CASE d.width.form # "star"  BY <1>3, <1>6, <3>2, StarSpelled DEF InWidth
    <3>3. QED  BY <3>1, <3>2
  <2>4. CASE d.prec # Absent
    <3>1. ch = "."  BY <1>3, <1>4, <1>5, <1>9, <2>4, PointNext
    <3>2. prec' = 0 /\ state' = "prec" /\ p' = p + 1 /\ ap' = ap /\ flags' = flags /\ width' = width
      BY <1>6, <3>1, StarSpelled DEF FieldWidth, Consumes, WidthStar
    <3>3. InPrec(d, c + 1, t)'
      <4>1. c + 1 \in WidthStop(d) + 1 .. PrecStop(d) /\ (c + 1) - WidthStop(d) - 1 = 0
        <5>1. PrecStop(d) = WidthStop(d) + 1 + Len(NumberSpelling(d.prec)) /\ Len(NumberSpelling(d.prec)) \in Nat
          BY <1>3, <2>4, PointNext
        <5>2. PICK e \in Nat : e = Len(NumberSpelling(d.prec))  BY <5>1, Zenon
        <5>3. PICK r : r = PrecStop(d)  OBVIOUS
        <5>4. w = WidthStop(d)  BY <1>4, Zenon
        <5>5. r = w + 1 + e  BY <5>1, <5>2, <5>3, <5>4, Zenon
        <5>6. c + 1 \in w + 1 .. r /\ (c + 1) - w - 1 = 0  BY <5>5, <1>9
        <5>7. QED  BY <5>3, <5>4, <5>6, Zenon
      <4>2. NumberRead(d.prec, 0, 0, MeantPrec(d))  BY <1>3, NothingRead DEF IsConversion
      <4>3. Len(NumberPassed(d.width)) = Len(NumberPassed(d.width)) + 0
        BY <1>3, ConversionPassed
      <4>4. QED  BY <1>1, <2>2, <2>3, <2>4, <3>2, <4>1, <4>2, <4>3 DEF InPrec
    <3>4. Aligned(k, c + 1, t)'  BY <1>1, <1>3, <3>2, StaysAt
    <3>5. Reading(d, c + 1, t)'  BY <1>3, <3>3 DEF Reading
    <3>6. QED  BY <1>1, <1>3, <3>4, <3>5, StillReading
  <2>5. CASE d.prec = Absent
    <3>1. PrecStop(d) = c  BY <1>3, <1>4, <1>9, <2>5, PointNext
    <3>2. ch \notin ToSet(Decimals) \cup {"*", "."}  BY <1>3, <1>5, <3>1, RestNext
    <3>3. p' = p /\ ap' = ap /\ state' = "modifiers" /\ flags' = flags /\ width' = width /\ prec' = prec
      BY <3>2 DEF FieldWidth, WidthEnd, LeavesTo, WidthStar
    <3>4. InLength(d, c, t)'
      <4>1. c \in PrecStop(d) .. LengthEnd(d) /\ c - PrecStop(d) = 0
        <5>1. PICK l \in Nat : l = LengthEnd(d) /\ PrecStop(d) <= l  BY <1>3, SpellsInside
        <5>2. QED  BY <3>1, <5>1
      <4>2. MeantPrec(d) = -1  BY <2>5 DEF MeantPrec
      <4>3. t = Len(NumberPassed(d.width)) + Len(NumberPassed(d.prec))
        <5>1. d.prec.form # "star" /\ IsNumber(d.prec)  BY <1>3, <2>5 DEF Absent, IsConversion
        <5>2. Len(NumberPassed(d.prec)) = 0  BY <5>1, StarSpelled
        <5>3. QED  BY <2>3, <5>2
      <4>4. QED  BY <1>1, <2>2, <2>3, <3>3, <4>1, <4>2, <4>3 DEF InLength, RankRead
    <3>5. Aligned(k, c, t)'  BY <1>1, <1>3, <3>3 DEF Aligned, given
    <3>6. Reading(d, c, t)'  BY <1>3, <3>4 DEF Reading
    <3>7. QED  BY <1>1, <1>3, <3>5, <3>6, StillReading
  <2>6. QED  BY <2>4, <2>5
<1>10. QED  BY <1>4, <1>7, <1>8, <1>9

LEMMA PrecisionReads ==
  ASSUME Parsing, call \in Calls, FieldPrecision
  PROVE  Parsing'
<1>1. state = "prec" /\ UNCHANGED given /\ flags' = flags /\ rank' = rank /\ width' = width
  BY DEF FieldPrecision, InState, Keeps
<1>2. PICK k \in 0 .. Len(call) - 1, c \in Nat, t \in Nat : \E d \in {call[k + 1]} :
        Aligned(k, c, t) /\ d.kind = "conversion" /\ IsConversion(d) /\ InPrec(d, c, t)
  BY <1>1, InsideDirective
<1>3. PICK d : /\ d = call[k + 1] /\ Aligned(k, c, t) /\ d.kind = "conversion" /\ IsConversion(d)
               /\ InPrec(d, c, t)
  BY <1>2
<1>4. d.prec # Absent /\ IsNumber(d.prec)  BY <1>3 DEF IsConversion, InPrec
<1>5. PICK w, b, x \in Nat :
        /\ w = WidthStop(d) /\ x = PrecStop(d) /\ b = Len(NumberSpelling(d.prec)) /\ x = w + 1 + b
        /\ x < Len(Spelling(d)) /\ c \in w + 1 .. x
  BY <1>3, <1>4, PlacesOrdered, PointNext, SpellsInside DEF InPrec
<1>6. ch = Spelling(d)[c + 1]
  <2>1. c < Len(Spelling(d))
    <3>1. PICK m \in Nat : m = Len(Spelling(d))  BY <1>3, SpellsInside
    <3>2. QED  BY <3>1, <1>5
  <2>2. QED  BY <2>1, <1>3, NextCharacter
<1>7. PICK a \in Nat : a = Len(NumberPassed(d.width))  BY <1>3, ConversionPassed
<1>8. flags = MeantFlags(d) /\ width = Width(d) /\ rank = 0  BY <1>3 DEF InPrec
<1>9. CASE c < x /\ d.prec.form = "star"
  <2>1. c = w + 1 /\ c + 1 = x /\ c - w = 1 /\ c - w - 1 = 0 /\ (c + 1) - w - 1 = 1
    <3>1. b = 1  BY <1>4, <1>5, <1>9, StarSpelled
    <3>2. QED  BY <3>1, <1>5, <1>9
  <2>2. ch = "*"
    <3>1. c \in WidthStop(d) + 1 .. PrecStop(d) - 1 /\ c - WidthStop(d) = 1
      <4>1. c \in w + 1 .. x - 1  BY <1>5, <1>9
      <4>2. QED  BY <4>1, <1>5, <2>1
    <3>2. Spelling(d)[c + 1] = NumberSpelling(d.prec)[1]  BY <1>3, <1>4, <3>1, PrecNext
    <3>3. QED  BY <1>4, <1>6, <1>9, <3>2, StarSpelled
  <2>3. /\ ap' = ap + 1 /\ prec' = (IF IntegerArg < 0 THEN -1 ELSE IntegerArg) /\ p' = p + 1
        /\ state' = state
    BY <1>4, <2>2, StarSpelled DEF FieldPrecision, Consumes
  <2>4. t = a
    <3>1. t = a + 0  BY <1>3, <1>5, <1>7, <1>9, <2>1 DEF InPrec
    <3>2. QED  BY <3>1
  <2>5. IntegerArg = d.prec.n
    <3>1. /\ HasPart(Passed(d), a, NumberPassed(d.prec)) /\ Len(NumberPassed(d.prec)) = 1
          /\ NumberPassed(d.prec)[1] = d.prec.n % Word
      BY <1>3, <1>4, <1>7, <1>9, ConversionPassed, StarSpelled
    <3>2. a < Len(Passed(d)) /\ Passed(d)[a + 1] = d.prec.n % Word
      <4>1. PICK y \in Nat : y = Len(Passed(d)) /\ a + 1 <= y
        <5>1. Len(Passed(d)) \in Nat
          <6>1. IsDirective(d)  BY <1>3 DEF IsDirective
          <6>2. QED  BY <6>1, DirectiveTyped, LenProperties
        <5>2. QED  BY <3>1, <5>1 DEF HasPart
      <4>2. QED  BY <4>1, <3>1 DEF HasPart
    <3>3. ArgumentWord(ap) = Passed(d)[a + 1]  BY <1>3, <2>4, <3>2, NextWord
    <3>4. QED  BY <1>4, <3>2, <3>3, StarArgument DEF IntegerArg
  <2>6. prec' = MeantPrec(d)  BY <1>4, <2>3, <2>5 DEF MeantPrec
  <2>7. InPrec(d, c + 1, a + 1)'
    <3>1. c + 1 \in WidthStop(d) + 1 .. PrecStop(d) /\ (c + 1) - WidthStop(d) - 1 = 1
      <4>1. c + 1 \in w + 1 .. x  BY <1>5, <1>9
      <4>2. QED  BY <4>1, <1>5, <2>1
    <3>2. NumberRead(d.prec, 1, MeantPrec(d), MeantPrec(d))  BY <1>9 DEF NumberRead
    <3>3. QED  BY <1>1, <1>4, <1>7, <1>8, <1>9, <2>3, <2>6, <3>1, <3>2 DEF InPrec
  <2>8. Aligned(k, c + 1, a + 1)'  BY <1>1, <1>3, <2>3, <2>4, MovesOn
  <2>9. Reading(d, c + 1, a + 1)'  BY <1>3, <2>7 DEF Reading
  <2>10. c + 1 \in Nat /\ a + 1 \in Nat  OBVIOUS
  <2>11. QED  BY <1>1, <1>3, <2>8, <2>9, <2>10, StillReading, Zenon
<1>10. CASE c < x /\ d.prec.form # "star"
  <2>1. PICK r \in Nat : r = c - w - 1 /\ r < b /\ (c + 1) - w - 1 = r + 1 /\ c - w = r + 1
    <3>1. c \in w + 1 .. x /\ x = w + 1 + b  BY <1>5, Zenon
    <3>2. /\ c - w - 1 \in Nat /\ c - w - 1 < b
          /\ (c + 1) - w - 1 = (c - w - 1) + 1 /\ c - w = (c - w - 1) + 1
      BY <3>1, <1>10
    <3>3. QED  BY <3>2, Zenon
  <2>2. ch = NumberSpelling(d.prec)[r + 1]
    <3>1. c \in WidthStop(d) + 1 .. PrecStop(d) - 1 /\ c - WidthStop(d) = r + 1
      <4>1. c \in w + 1 .. x - 1  BY <1>5, <1>10
      <4>2. QED  BY <4>1, <1>5, <2>1
    <3>2. QED  BY <1>3, <1>4, <1>6, <3>1, PrecNext
  <2>3. NumberRead(d.prec, r, prec, MeantPrec(d)) /\ t = a
    <3>1. NumberRead(d.prec, r, prec, MeantPrec(d)) /\ t = a + 0
      BY <1>3, <1>5, <1>7, <1>10, <2>1 DEF InPrec
    <3>2. QED  BY <3>1
  <2>4. ch \in ToSet(Decimals) /\ NumberRead(d.prec, r + 1, prec * 10 + DigitOf(ch), MeantPrec(d))
    BY <1>4, <1>5, <1>10, <2>1, <2>2, <2>3, DigitRead
  <2>5. prec' = prec * 10 + DigitOf(ch) /\ p' = p + 1 /\ ap' = ap /\ state' = state
    BY <1>4, <2>4, StarSpelled DEF FieldPrecision, Consumes
  <2>6. InPrec(d, c + 1, t)'
    <3>1. c + 1 \in WidthStop(d) + 1 .. PrecStop(d) /\ (c + 1) - WidthStop(d) - 1 = r + 1
      <4>1. c + 1 \in w + 1 .. x  BY <1>5, <1>10
      <4>2. QED  BY <4>1, <1>5, <2>1
    <3>2. t = Len(NumberPassed(d.width)) + 0  BY <1>7, <2>3
    <3>3. QED  BY <1>1, <1>4, <1>8, <1>10, <2>4, <2>5, <3>1, <3>2 DEF InPrec
  <2>7. Aligned(k, c + 1, t)'  BY <1>1, <1>3, <2>5, StaysAt
  <2>8. Reading(d, c + 1, t)'  BY <1>3, <2>6 DEF Reading
  <2>9. QED  BY <1>1, <1>3, <2>7, <2>8, StillReading
<1>11. CASE c = x
  <2>1. c - w - 1 = b  BY <1>5, <1>11, SMTT(30)
  <2>2. prec = MeantPrec(d)
    <3>1. NumberRead(d.prec, Len(NumberSpelling(d.prec)), prec, MeantPrec(d))
      BY <1>3, <1>5, <2>1 DEF InPrec
    <3>2. d.prec.form # "star" => MeantPrec(d) = d.prec.n
      <4>1. d.prec.form # "star" => d.prec.n \in Nat  BY <1>4, NumberSpelled
      <4>2. QED  BY <1>4, <4>1 DEF MeantPrec
    <3>3. QED  BY <1>4, <3>1, <3>2, AllRead
  <2>3. t = a + Len(NumberPassed(d.prec))
    <3>1. CASE d.prec.form = "star"
      <4>1. b = 1 /\ Len(NumberPassed(d.prec)) = 1  BY <1>4, <1>5, <3>1, StarSpelled
      <4>2. QED  BY <1>3, <1>5, <1>7, <2>1, <3>1, <4>1 DEF InPrec
    <3>2. CASE d.prec.form # "star"
      <4>1. Len(NumberPassed(d.prec)) = 0  BY <1>4, <3>2, StarSpelled
      <4>2. QED  BY <1>3, <1>7, <3>2, <4>1 DEF InPrec
    <3>3. QED  BY <3>1, <3>2
  <2>4. ch \notin ToSet(Decimals) \cup {"*"}  BY <1>3, <1>5, <1>6, <1>11, RestNext
  <2>5. p' = p /\ ap' = ap /\ state' = "modifiers" /\ prec' = prec
    BY <2>4 DEF FieldPrecision, LeavesTo
  <2>6. InLength(d, c, t)'
    <3>1. c \in PrecStop(d) .. LengthEnd(d) /\ c - PrecStop(d) = 0
      <4>1. PICK l \in Nat : l = LengthEnd(d) /\ x <= l  BY <1>3, <1>5, SpellsInside
      <4>2. QED  BY <4>1, <1>5, <1>11
    <3>2. QED  BY <1>1, <1>7, <1>8, <2>2, <2>3, <2>5, <3>1 DEF InLength, RankRead
  <2>7. Aligned(k, c, t)'  BY <1>1, <1>3, <2>5 DEF Aligned, given
  <2>8. Reading(d, c, t)'  BY <1>3, <2>6 DEF Reading
  <2>9. QED  BY <1>1, <1>3, <2>7, <2>8, StillReading
<1>12. QED  BY <1>5, <1>9, <1>10, <1>11

(***************************************************************************)
(* The length modifiers and the rank they make.                             *)
(***************************************************************************)
LEMMA ModifierRank ==
  ASSUME NEW s \in Modifiers
  PROVE  /\ Len(s) \in 0 .. 2
         /\ \A r \in 0 .. Len(s) : RankRead(s, r) \in -2 .. 2
         /\ \A r \in 0 .. Len(s) - 1 :
              RankRead(s, r + 1) =
                CASE s[r + 1] = "h" -> RankRead(s, r) - 1 [] s[r + 1] = "l" -> RankRead(s, r) + 1
                  [] s[r + 1] = "j" -> 2 [] s[r + 1] \in {"z", "t"} -> 1
                  [] s[r + 1] \in {"L", "q"} -> RankRead(s, r) + 2
         /\ RankRead(s, Len(s)) = 2 <=> s \in {<<"l", "l">>, <<"j">>, <<"L">>, <<"q">>}
         /\ RankRead(s, Len(s)) = -2 <=> s = <<"h", "h">>
         /\ RankRead(s, Len(s)) = -1 <=> s = <<"h">>
<1>1. CASE s = <<>>
  <2>1. Len(s) = 0 /\ s # <<"h">> /\ s # <<"h", "h">> /\ s \notin {<<"l", "l">>, <<"j">>, <<"L">>, <<"q">>}
    BY <1>1
  <2>2. QED  BY <2>1 DEF RankRead
<1>2. ASSUME NEW c \in Lengthens, s = <<c>> PROVE
         /\ Len(s) = 1 /\ s[1] = c /\ (s = <<"h">> <=> c = "h") /\ s # <<"h", "h">>
         /\ s \in {<<"l", "l">>, <<"j">>, <<"L">>, <<"q">>} <=> c \in {"j", "L", "q"}
  BY <1>2
<1>3. CASE s = <<"h", "h">>
  <2>1. Len(s) = 2 /\ s[1] = "h" /\ s[2] = "h" /\ s # <<"h">> /\ s \notin {<<"l", "l">>, <<"j">>, <<"L">>, <<"q">>}
    BY <1>3
  <2>2. QED  BY <1>3, <2>1 DEF RankRead
<1>4. CASE s = <<"l", "l">>
  <2>1. Len(s) = 2 /\ s[1] = "l" /\ s[2] = "l" /\ s # <<"h">> /\ s # <<"h", "h">>
    BY <1>4
  <2>2. QED  BY <1>4, <2>1 DEF RankRead
<1>5. ASSUME NEW c \in Lengthens, s = <<c>>
      PROVE  /\ Len(s) \in 0 .. 2
             /\ \A r \in 0 .. Len(s) : RankRead(s, r) \in -2 .. 2
             /\ \A r \in 0 .. Len(s) - 1 :
                  RankRead(s, r + 1) =
                    CASE s[r + 1] = "h" -> RankRead(s, r) - 1 [] s[r + 1] = "l" -> RankRead(s, r) + 1
                      [] s[r + 1] = "j" -> 2 [] s[r + 1] \in {"z", "t"} -> 1
                      [] s[r + 1] \in {"L", "q"} -> RankRead(s, r) + 2
             /\ RankRead(s, Len(s)) = 2 <=> s \in {<<"l", "l">>, <<"j">>, <<"L">>, <<"q">>}
             /\ RankRead(s, Len(s)) = -2 <=> s = <<"h", "h">>
             /\ RankRead(s, Len(s)) = -1 <=> s = <<"h">>
  <2>1. PICK h, l, x : /\ Len(s) = 1 /\ s[1] = c /\ (h <=> s = <<"h">>) /\ (l <=> s = <<"h", "h">>)
                       /\ (x <=> s \in {<<"l", "l">>, <<"j">>, <<"L">>, <<"q">>})
                       /\ (h <=> c = "h") /\ ~ l /\ (x <=> c \in {"j", "L", "q"})
    BY <1>2, <1>5
  <2>2. RankRead(s, 0) = 0 /\ RankRead(s, 1) = CASE c = "h" -> -1 [] c \in {"l", "z", "t"} -> 1 [] OTHER -> 2
    BY <2>1 DEF RankRead
  <2>3. QED  BY <2>1, <2>2 DEF Lengthens
<1>6. s = <<>> \/ s = <<"h", "h">> \/ s = <<"l", "l">> \/ \E c \in Lengthens : s = <<c>>
  BY Zenon DEF Modifiers, Lengthens
<1>7. QED  BY <1>1, <1>3, <1>4, <1>5, <1>6, Zenon

LEMMA LengthReads ==
  ASSUME Parsing, call \in Calls, LengthModifier
  PROVE  Parsing'
<1>1. /\ state = "modifiers" /\ UNCHANGED given /\ flags' = flags /\ width' = width /\ prec' = prec
      /\ p' = p + 1 /\ ap' = ap /\ state' = state /\ ch \in Lengths
      /\ rank' = CASE ch = "h" -> rank - 1 [] ch = "l" -> rank + 1 [] ch = "j" -> 2
                   [] ch \in {"z", "t"} -> 1 [] ch \in {"L", "q"} -> rank + 2
  BY DEF LengthModifier, InState, Keeps, Consumes
<1>2. PICK k \in 0 .. Len(call) - 1, c \in Nat, t \in Nat : \E d \in {call[k + 1]} :
        Aligned(k, c, t) /\ d.kind = "conversion" /\ IsConversion(d) /\ InLength(d, c, t)
  BY <1>1, InsideDirective
<1>3. PICK d : /\ d = call[k + 1] /\ Aligned(k, c, t) /\ d.kind = "conversion" /\ IsConversion(d)
               /\ InLength(d, c, t)
  BY <1>2
<1>4. PICK x, b, l \in Nat :
        /\ x = PrecStop(d) /\ b = Len(d.length) /\ l = LengthEnd(d) /\ l = x + b
        /\ l < Len(Spelling(d)) /\ c \in x .. l
  BY <1>3, PlacesOrdered, SpellsInside DEF InLength
<1>5. ch = Spelling(d)[c + 1]
  <2>1. c < Len(Spelling(d))
    <3>1. PICK m \in Nat : m = Len(Spelling(d))  BY <1>3, SpellsInside
    <3>2. QED  BY <3>1, <1>4
  <2>2. QED  BY <2>1, <1>3, NextCharacter
<1>6. c # l  BY <1>1, <1>3, <1>4, <1>5, RestNext DEF Lengthens, Lengths
<1>7. PICK r \in Nat : r = c - x /\ r < b /\ (c + 1) - x = r + 1 /\ c - x + 1 = r + 1
  <2>1. l = x + b /\ c \in x .. l  BY <1>4
  <2>2. c - x \in Nat /\ c - x < b /\ (c + 1) - x = (c - x) + 1  BY <2>1, <1>6
  <2>3. QED  BY <2>2
<1>8. ch = d.length[r + 1]
  <2>1. c \in x .. l - 1
    <3>1. c \in x .. l  BY <1>4
    <3>2. QED  BY <3>1, <1>6
  <2>2. c \in PrecStop(d) .. LengthEnd(d) - 1 /\ c - PrecStop(d) + 1 = r + 1  BY <1>4, <1>7, <2>1, Zenon
  <2>3. QED  BY <1>3, <1>5, <2>2, LengthNext
<1>9. rank = RankRead(d.length, r)  BY <1>3, <1>4, <1>7 DEF InLength
<1>10. rank' = RankRead(d.length, r + 1)
  <2>1. r \in 0 .. b - 1  BY <1>7
  <2>2. r \in 0 .. Len(d.length) - 1 /\ d.length \in Modifiers  BY <1>3, <1>4, <2>1, Zenon DEF IsConversion
  <2>3. QED  BY <1>1, <1>8, <1>9, <2>2, ModifierRank
<1>11. InLength(d, c + 1, t)'
  <2>1. c + 1 \in PrecStop(d) .. LengthEnd(d) /\ (c + 1) - PrecStop(d) = r + 1  BY <1>4, <1>6, <1>7, SMTT(30)
  <2>2. QED  BY <1>1, <1>3, <1>10, <2>1 DEF InLength
<1>12. Aligned(k, c + 1, t)'  BY <1>1, <1>3, StaysAt
<1>13. Reading(d, c + 1, t)'  BY <1>3, <1>11 DEF Reading
<1>14. c + 1 \in Nat  OBVIOUS
<1>15. QED  BY <1>1, <1>3, <1>12, <1>13, <1>14, StillReading, Zenon

(***************************************************************************)
(* A conversion is carried out with what its directive says, and takes the  *)
(* words that were passed for it.                                           *)
(***************************************************************************)
Understands(k, d) ==
  /\ d = call[k + 1] /\ d.kind = "conversion" /\ IsConversion(d) /\ ch = d.conv
  /\ flags = MeantFlags(d) /\ width = Width(d) /\ prec = MeantPrec(d)
  /\ rank = RankRead(d.length, Len(d.length))
  /\ Aligned(k, LengthEnd(d), Len(NumberPassed(d.width)) + Len(NumberPassed(d.prec)))
  /\ WordsOf(d) # 0 => ArgumentWord(ap) = d.values[1]

LEMMA Understood ==
  ASSUME Parsing, call \in Calls, state = "modifiers", ch \notin Lengths
  PROVE  \E k \in 0 .. Len(call) - 1 : \E d : Understands(k, d)
<1>1. PICK k \in 0 .. Len(call) - 1, c \in Nat, t \in Nat : \E d \in {call[k + 1]} :
        Aligned(k, c, t) /\ d.kind = "conversion" /\ IsConversion(d) /\ InLength(d, c, t)
  BY InsideDirective
<1>2. PICK d : /\ d = call[k + 1] /\ Aligned(k, c, t) /\ d.kind = "conversion" /\ IsConversion(d)
               /\ InLength(d, c, t)
  BY <1>1
<1>3. PICK x, b, l \in Nat :
        /\ x = PrecStop(d) /\ b = Len(d.length) /\ l = LengthEnd(d) /\ l = x + b
        /\ l < Len(Spelling(d)) /\ c \in x .. l
  BY <1>2, PlacesOrdered, SpellsInside DEF InLength
<1>4. ch = Spelling(d)[c + 1]
  <2>1. c < Len(Spelling(d))
    <3>1. PICK m \in Nat : m = Len(Spelling(d))  BY <1>2, SpellsInside
    <3>2. QED  BY <3>1, <1>3
  <2>2. QED  BY <2>1, <1>2, NextCharacter
<1>5. c = l
  <2>1. SUFFICES ASSUME c # l PROVE FALSE  OBVIOUS
  <2>2. c \in x .. l - 1
    <3>1. c \in x .. l  BY <1>3
    <3>2. QED  BY <3>1, <2>1
  <2>3. c \in PrecStop(d) .. LengthEnd(d) - 1  BY <1>3, <2>2, Zenon
  <2>4. ch \in Lengthens  BY <1>2, <1>4, <2>3, LengthNext
  <2>5. QED  BY <2>4 DEF Lengthens, Lengths
<1>6. ch = d.conv  BY <1>2, <1>3, <1>4, <1>5, RestNext
<1>7. rank = RankRead(d.length, Len(d.length))
  <2>1. l - x = b
    <3>1. l = x + b  BY <1>3
    <3>2. QED  BY <3>1
  <2>2. rank = RankRead(d.length, l - x)  BY <1>2, <1>3, <1>5 DEF InLength
  <2>3. QED  BY <1>3, <2>1, <2>2
<1>8. t = Len(NumberPassed(d.width)) + Len(NumberPassed(d.prec))  BY <1>2 DEF InLength
<1>9. ASSUME WordsOf(d) # 0 PROVE ArgumentWord(ap) = d.values[1]
  <2>1. HasPart(Passed(d), t, d.values)  BY <1>2, <1>8, ConversionPassed
  <2>2. PICK m \in Nat : m = Len(d.values) /\ m > 0
    <3>1. Len(d.values) = WordsOf(d) /\ Len(d.values) \in Nat  BY <1>2, <2>1 DEF IsConversion, HasPart
    <3>2. QED  BY <3>1, <1>9
  <2>3. Len(Passed(d)) \in Nat
    <3>1. IsDirective(d)  BY <1>2 DEF IsDirective
    <3>2. QED  BY <3>1, DirectiveTyped, LenProperties
  <2>4. t < Len(Passed(d)) /\ Passed(d)[t + 1] = d.values[1]
    <3>1. PICK y \in Nat : y = Len(Passed(d)) /\ t + m <= y  BY <2>1, <2>2, <2>3 DEF HasPart
    <3>2. 1 \in 1 .. m  BY <2>2
    <3>3. QED  BY <2>1, <2>2, <3>1, <3>2 DEF HasPart
  <2>5. QED  BY <1>2, <2>4, NextWord
<1>10. QED  BY <1>2, <1>3, <1>5, <1>6, <1>7, <1>8, <1>9 DEF Understands, InLength

LEMMA ConversionTaken ==
  ASSUME NEW k \in 0 .. Len(call) - 1, NEW d, Understands(k, d), call \in Calls, UNCHANGED given,
         state' = "normal", p' = p + 1, ap' = ap + WordsOf(d)
  PROVE  Parsing' /\ Aligned(k + 1, 0, 0)' /\ k + 1 \in 0 .. Len(call')
<1>1. /\ d = call[k + 1] /\ d.kind = "conversion" /\ IsConversion(d)
      /\ Aligned(k, LengthEnd(d), Len(NumberPassed(d.width)) + Len(NumberPassed(d.prec)))
  BY DEF Understands
<1>2. PICK c, t \in Nat : c = LengthEnd(d) /\ t = Len(NumberPassed(d.width)) + Len(NumberPassed(d.prec))
  BY <1>1, SpellsInside, ConversionPassed
<1>3. PICK m \in Nat : m = WordsOf(d) /\ Len(Passed(d)) = t + m
  <2>1. WordsOf(d) \in Nat  BY DEF WordsOf
  <2>2. Len(d.values) = WordsOf(d)  BY <1>1 DEF IsConversion
  <2>3. Len(Passed(d)) = t + Len(d.values)  BY <1>1, <1>2, ConversionPassed
  <2>4. QED  BY <2>1, <2>2, <2>3
<1>4. Aligned(k, c + 1, t + m)'  BY <1>1, <1>2, <1>3, MovesOn
<1>5. p' = Len(SpellingTo(call, k)) + ((c + 1) + 1) /\ ap' = Len(PassedTo(call, k)) + ((t + m) + 1)
  BY <1>4 DEF Aligned, given
<1>6. c + 1 = Len(Spelling(d))  BY <1>1, <1>2, SpellsInside
<1>7. QED  BY <1>1, <1>3, <1>5, <1>6, DirectiveTaken

LEMMA RankMeans ==
  ASSUME NEW k, NEW d, Understands(k, d)
  PROVE  /\ rank \in -2 .. 2 /\ Canonical = rank
         /\ SizeOfRank = Modulus(d.length)
         /\ WordsOfRank = IF d.length \in {<<"l", "l">>, <<"j">>, <<"L">>, <<"q">>} THEN 2 ELSE 1
<1>1. PICK s : s = d.length  OBVIOUS
<1>2. s \in Modifiers /\ rank = RankRead(s, Len(s))  BY <1>1 DEF Understands, IsConversion
<1>3. /\ rank \in -2 .. 2
      /\ rank = 2 <=> s \in {<<"l", "l">>, <<"j">>, <<"L">>, <<"q">>}
      /\ rank = -2 <=> s = <<"h", "h">>
      /\ rank = -1 <=> s = <<"h">>
  <2>1. Len(s) \in 0 .. Len(s)  BY <1>2, ModifierRank
  <2>2. QED  BY <1>2, <2>1, ModifierRank
<1>4. Canonical = rank  BY <1>3 DEF Canonical
<1>5. SizeOfRank = Modulus(s)
  <2>1. PICK hh, h : (hh <=> s = <<"h", "h">>) /\ (h <=> s = <<"h">>)  OBVIOUS
  <2>2. Modulus(s) = IF hh THEN CharMod ELSE IF h THEN ShortMod ELSE Word
    <3>1. ~ (hh /\ h)  BY <1>3, <2>1
    <3>2. QED  BY <2>1, <3>1 DEF Modulus
  <2>3. SizeOfRank = IF hh THEN CharMod ELSE IF h THEN ShortMod ELSE Word
    BY <1>3, <1>4, <2>1 DEF SizeOfRank
  <2>4. QED  BY <2>2, <2>3
<1>6. WordsOfRank = IF s \in {<<"l", "l">>, <<"j">>, <<"L">>, <<"q">>} THEN 2 ELSE 1
  BY <1>3, <1>4 DEF WordsOfRank
<1>7. QED  BY <1>1, <1>3, <1>4, <1>5, <1>6

LEMMA IntegerReads ==
  ASSUME Parsing, call \in Calls, ConvertInteger, NEW k \in 0 .. Len(call) - 1, NEW d, Understands(k, d)
  PROVE  Parsing' /\ Aligned(k + 1, 0, 0)' /\ k + 1 \in 0 .. Len(call')
<1>1. /\ ch \in {"d", "i", "o", "u", "x", "X", "p", "P"} /\ UNCHANGED given /\ state' = "normal" /\ p' = p + 1
      /\ ap' = IF ch \in {"p", "P"} THEN ap + 1 ELSE ap + WordsOfRank
  BY DEF ConvertInteger, Converts, Consumes
<1>2. ch = d.conv  BY DEF Understands
<1>3. ap' = ap + WordsOf(d)  BY <1>1, <1>2, RankMeans DEF WordsOf
<1>4. QED  BY <1>1, <1>3, ConversionTaken

LEMMA OthersRead ==
  ASSUME Parsing, call \in Calls, ConvertText \/ ConvertCount \/ ConvertOther,
         NEW k \in 0 .. Len(call) - 1, NEW d, Understands(k, d)
  PROVE  Parsing' /\ Aligned(k + 1, 0, 0)' /\ k + 1 \in 0 .. Len(call')
<1>1. UNCHANGED given /\ state' = "normal" /\ p' = p + 1
  BY DEF ConvertText, ConvertCount, ConvertOther, Converts, Consumes
<1>2. \/ ch \in {"c", "s", "n"} /\ ap' = ap + 1
      \/ ch \notin Conversions /\ ap' = ap
  BY DEF ConvertText, ConvertCount, ConvertOther, Converts
<1>3. ch = d.conv  BY DEF Understands
<1>4. ap' = ap + WordsOf(d)
  <2>1. CASE ch \in {"c", "s", "n"} /\ ap' = ap + 1  BY <1>3, <2>1 DEF WordsOf
  <2>2. CASE ch \notin Conversions /\ ap' = ap
    <3>1. WordsOf(d) = 0  BY <1>3, <2>2 DEF WordsOf, Conversions
    <3>2. ap \in Nat
      <4>1. PICK b \in Nat : b = Len(PassedTo(call, k))
        <5>1. PICK m \in Nat : m = Len(call)  BY CallTyped
        <5>2. k \in 0 .. Len(call)  BY <5>1
        <5>3. QED  BY <5>2, CallLengths
      <4>2. d.kind = "conversion" /\ IsConversion(d)  BY DEF Understands
      <4>3. PICK t \in Nat : t = Len(NumberPassed(d.width)) + Len(NumberPassed(d.prec))
        BY <4>2, ConversionPassed
      <4>4. ap = b + (t + 1)  BY <4>1, <4>3 DEF Understands, Aligned
      <4>5. QED  BY <4>4
    <3>3. QED  BY <2>2, <3>1, <3>2
  <2>3. QED  BY <1>2, <2>1, <2>2
<1>5. QED  BY <1>1, <1>4, ConversionTaken

LEMMA EndReads ==
  ASSUME Parsing, call \in Calls, Terminates \/ PrintfReturns
  PROVE  Parsing' /\ Aligned(Len(call), 0, 0)
<1>1. UNCHANGED <<given, p, ap>> /\ state' \in {"terminated", "returned"}
  BY DEF Terminates, PrintfReturns
<1>2. state \in {"normal", "terminated", "returned"} /\ (state = "normal" => p > Len(format))
  <2>1. CASE PrintfReturns  BY <2>1 DEF PrintfReturns
  <2>2. CASE Terminates
    <3>1. state \notin {"terminated", "returned"} /\ p > Len(format)  BY <2>2 DEF Terminates
    <3>2. SUFFICES ASSUME state # "normal" PROVE FALSE  BY <3>1
    <3>3. PICK k \in 0 .. Len(call) - 1, c \in Nat, t \in Nat : \E d \in {call[k + 1]} :
            Aligned(k, c, t) /\ Reading(d, c, t)
      BY <3>1, <3>2 DEF Parsing
    <3>4. PICK d \in {call[k + 1]} : Aligned(k, c, t) /\ Reading(d, c, t)  BY <3>3
    <3>5. c < Len(Spelling(d))
      <4>1. d.kind = "conversion" /\ IsConversion(d)  BY <3>4 DEF Reading
      <4>2. PICK f, w, x, l \in Nat :
              /\ f = FlagsEnd(d) /\ w = WidthStop(d) /\ x = PrecStop(d) /\ l = LengthEnd(d)
              /\ Len(Spelling(d)) = l + 1 /\ f <= w /\ w <= x /\ x <= l
        BY <4>1, SpellsInside
      <4>3. c <= f \/ c <= w \/ c <= x \/ c <= l
        BY <3>4, <4>2 DEF Reading, InFlags, InWidth, InPrec, InLength
      <4>4. QED  BY <4>2, <4>3
    <3>6. p \in Nat /\ p <= Len(format)  BY <3>4, <3>5, NextCharacter
    <3>7. QED
      <4>1. Len(format) \in Nat
        <5>1. Len(call) \in 0 .. Len(call)  BY CallTyped
        <5>2. QED  BY <5>1, CallLengths DEF format
      <4>2. QED  BY <3>1, <3>6, <4>1
  <2>3. QED  BY <2>1, <2>2
<1>3. PICK k \in 0 .. Len(call) : Aligned(k, 0, 0) /\ (state # "normal" => k = Len(call))
  BY <1>2, OutsideDirective
<1>4. k = Len(call)
  <2>1. SUFFICES ASSUME k # Len(call) PROVE FALSE  OBVIOUS
  <2>2. k \in 0 .. Len(call) - 1
    <3>1. PICK m \in Nat : m = Len(call)  BY CallTyped
    <3>2. QED  BY <2>1, <3>1
  <2>3. IsDirective(call[k + 1])  BY <2>2, CallSpelled
  <2>4. 0 < Len(Spelling(call[k + 1]))  BY <2>3, DirectiveTyped
  <2>5. p \in Nat /\ p <= Len(format)  BY <1>3, <2>2, <2>4, NextCharacter
  <2>6. Len(format) \in Nat
    <3>1. Len(call) \in 0 .. Len(call)  BY CallTyped
    <3>2. QED  BY <3>1, CallLengths DEF format
  <2>7. QED  BY <1>2, <1>3, <2>1, <2>5, <2>6
<1>5. Aligned(k, 0, 0)'  BY <1>1, <1>3 DEF Aligned, given
<1>6. QED  BY <1>1, <1>3, <1>4, <1>5 DEF Parsing, given

(***************************************************************************)
(* The ranges of the variables.                                             *)
(***************************************************************************)
LEMMA FlagNamesTyped ==
  /\ \A f \in FlagCharacters : FlagNames[f] \in {"ZERO", "MINUS", "PLUS", "TICK", "SPACE", "HASH"}
  /\ \A S \in SUBSET FlagCharacters : Named(S) \subseteq {"ZERO", "MINUS", "PLUS", "TICK", "SPACE", "HASH"}
<1>1. ASSUME NEW f \in FlagCharacters
      PROVE  FlagNames[f] \in {"ZERO", "MINUS", "PLUS", "TICK", "SPACE", "HASH"}
  BY DEF FlagCharacters, FlagNames
<1>2. QED  BY <1>1 DEF Named

LEMMA ReadingRanges ==
  ASSUME NEW d, NEW c, NEW t, Reading(d, c, t)
  PROVE  /\ flags \subseteq {"ZERO", "MINUS", "PLUS", "TICK", "SPACE", "HASH"}
         /\ rank \in -2 .. 2 /\ width \in 0 .. Word /\ prec \in -1 .. Word
<1>1. PICK h, W \in Nat : h = Word \div 2 /\ W = Word /\ h < W /\ h > 1  BY WordTyped
<1>2. d.kind = "conversion" /\ IsConversion(d) /\ IsNumber(d.width) /\ IsNumber(d.prec)
      /\ d.flags \in Seq(FlagCharacters) /\ d.length \in Modifiers
  BY DEF Reading, IsConversion
<1>3. PICK w \in Int : w = d.width.n /\ w < h /\ -w < h /\ (d.width.form # "star" => w \in Nat)
  BY <1>1, <1>2, NumberSpelled
<1>4. PICK x \in Int : x = d.prec.n /\ x < h /\ -x < h /\ (d.prec.form # "star" => x \in Nat)
  BY <1>1, <1>2, NumberSpelled
<1>5. Width(d) \in 0 .. W  BY <1>1, <1>3 DEF Width
<1>6. MeantPrec(d) \in -1 .. W  BY <1>1, <1>4 DEF MeantPrec
<1>7. ToSet(d.flags) \subseteq FlagCharacters
  <2>1. DOMAIN d.flags = 1 .. Len(d.flags)  BY <1>2, LenProperties
  <2>2. \A i \in 1 .. Len(d.flags) : d.flags[i] \in FlagCharacters  BY <1>2, ElementOfSeq
  <2>3. QED  BY <2>1, <2>2 DEF ToSet
<1>8. /\ Named(ToSet(d.flags)) \subseteq {"ZERO", "MINUS", "PLUS", "TICK", "SPACE", "HASH"}
      /\ MeantFlags(d) \subseteq {"ZERO", "MINUS", "PLUS", "TICK", "SPACE", "HASH"}
  <2>1. "-" \in FlagCharacters  BY DEF FlagCharacters
  <2>2. QED  BY <1>7, <2>1, FlagNamesTyped DEF MeantFlags
<1>9. \A r, v : NumberRead(d.width, r, v, Width(d)) => v \in 0 .. W
  BY <1>1, <1>3, <1>5 DEF NumberRead
<1>10. \A r, v : NumberRead(d.prec, r, v, MeantPrec(d)) => v \in -1 .. W
  BY <1>1, <1>4, <1>6 DEF NumberRead
<1>11. CASE InFlags(d, c, t)
  <2>1. {d.flags[i] : i \in 1 .. c - 1} \subseteq FlagCharacters
    <3>1. \A i \in 1 .. c - 1 : i \in 1 .. Len(d.flags)
      <4>1. PICK f, m \in Nat : f = FlagsEnd(d) /\ m = Len(d.flags) /\ f = 1 + m
        BY <1>2, PlacesOrdered
      <4>2. c \in 1 .. f  BY <1>11, <4>1 DEF InFlags
      <4>3. \A i \in 1 .. c - 1 : i \in 1 .. m  BY <4>1, <4>2
      <4>4. QED  BY <4>1, <4>3
    <3>2. QED  BY <3>1, <1>2, ElementOfSeq
  <2>2. flags \subseteq {"ZERO", "MINUS", "PLUS", "TICK", "SPACE", "HASH"}
    BY <1>11, <2>1, FlagNamesTyped DEF InFlags
  <2>3. QED  BY <1>1, <1>11, <2>2 DEF InFlags
<1>12. CASE InWidth(d, c, t)  BY <1>1, <1>8, <1>9, <1>12 DEF InWidth
<1>13. CASE InPrec(d, c, t)  BY <1>1, <1>5, <1>8, <1>10, <1>13 DEF InPrec
<1>14. CASE InLength(d, c, t)
  <2>1. rank \in -2 .. 2
    <3>1. PICK y, b, l \in Nat : y = PrecStop(d) /\ b = Len(d.length) /\ l = LengthEnd(d) /\ l = y + b
      BY <1>2, PlacesOrdered
    <3>2. c \in y .. l  BY <1>14, <3>1 DEF InLength
    <3>3. c - y \in 0 .. b
      <4>1. l = y + b  BY <3>1
      <4>2. QED  BY <3>2, <4>1
    <3>4. c - PrecStop(d) \in 0 .. Len(d.length)  BY <3>1, <3>3
    <3>5. QED  BY <1>2, <1>14, <3>4, ModifierRank DEF InLength
  <2>2. QED  BY <1>1, <1>5, <1>6, <1>8, <1>14, <2>1 DEF InLength
<1>15. QED  BY <1>11, <1>12, <1>13, <1>14 DEF Reading

\* The digits of a number are no more than the number says.
LEMMA DigitsFew ==
  ASSUME NEW base \in Nat, base > 1, NEW val \in Nat
  PROVE  DigitCount(val, base) \in 0 .. val
<1> DEFINE f == CHOOSE f : Counts(f, base, val)
<1>1. Counts(f, base, val)  BY CountsExist
<1>2. DigitCount(val, base) = f[val]  BY DEF DigitCount, Counts
<1> HIDE DEF f
<1> DEFINE S == {m \in Nat : \A v \in 0 .. m : v <= val => f[v] \in 0 .. v}
<1>3. f[0] = 0  BY <1>1 DEF Counts
<1>4. \A v \in 1 .. val : f[v] = f[v \div base] + 1  BY <1>1 DEF Counts
<1>5. 0 \in S  BY <1>3
<1>6. ASSUME NEW m \in Nat, m \in S PROVE m + 1 \in S
  <2>1. ASSUME m + 1 <= val PROVE f[m + 1] \in 0 .. m + 1
    <3>1. (m + 1) \div base \in 0 .. m  OBVIOUS
    <3>2. PICK u \in 0 .. m : u = (m + 1) \div base  BY <3>1
    <3>3. f[u] \in 0 .. u  BY <1>6, <3>2, <2>1
    <3>4. f[m + 1] = f[u] + 1  BY <3>2, <2>1, <1>4
    <3>5. QED  BY <3>2, <3>3, <3>4
  <2>2. QED  BY <2>1, <1>6
<1> HIDE DEF S
<1>7. S = Nat  BY <1>5, <1>6, Induction DEF S
<1>8. val \in S  BY <1>7
<1>9. QED  BY <1>2, <1>8 DEF S

LEMMA WithinDirective ==
  ASSUME NEW d, NEW c \in Nat, NEW t \in Nat, Reading(d, c, t)
  PROVE  c <= Len(Spelling(d)) /\ t <= Len(Passed(d))
<1>1. d.kind = "conversion" /\ IsConversion(d) /\ IsNumber(d.width) /\ IsNumber(d.prec)
  BY DEF Reading, IsConversion
<1>2. PICK f, w, x, l \in Nat :
        /\ f = FlagsEnd(d) /\ w = WidthStop(d) /\ x = PrecStop(d) /\ l = LengthEnd(d)
        /\ Len(Spelling(d)) = l + 1 /\ f <= w /\ w <= x /\ x <= l
  BY <1>1, SpellsInside
<1>3. PICK a, b, e \in Nat : /\ a = Len(NumberPassed(d.width)) /\ b = Len(NumberPassed(d.prec))
                             /\ Len(Passed(d)) = a + b + e
  <2>1. Len(d.values) \in Nat  BY <1>1, LenProperties DEF IsConversion
  <2>2. QED  BY <1>1, <2>1, ConversionPassed
<1>4. c <= f \/ c <= w \/ c <= x \/ c <= l
  BY <1>2 DEF Reading, InFlags, InWidth, InPrec, InLength
<1>5. t <= a + b
  <2>1. CASE InFlags(d, c, t)  BY <2>1 DEF InFlags
  <2>2. CASE InWidth(d, c, t)
    <3>1. CASE d.width.form = "star"
      <4>1. a = 1 /\ Len(NumberSpelling(d.width)) = 1  BY <1>1, <1>3, <3>1, StarSpelled
      <4>2. w = f + 1  BY <1>1, <1>2, <4>1, PlacesOrdered
      <4>3. c \in f .. w /\ t = c - f  BY <1>2, <2>2, <3>1 DEF InWidth
      <4>4. QED  BY <4>1, <4>2, <4>3
    <3>2. CASE d.width.form # "star"  BY <2>2, <3>2 DEF InWidth
    <3>3. QED  BY <3>1, <3>2
  <2>3. CASE InPrec(d, c, t)
    <3>1. CASE d.prec.form = "star"
      <4>1. b = 1 /\ Len(NumberSpelling(d.prec)) = 1  BY <1>1, <1>3, <3>1, StarSpelled
      <4>2. x = w + 1 + 1  BY <1>1, <1>2, <2>3, <4>1, PointNext DEF InPrec
      <4>3. c \in w + 1 .. x /\ t = a + (c - w - 1)  BY <1>2, <1>3, <2>3, <3>1 DEF InPrec
      <4>4. QED  BY <4>1, <4>2, <4>3
    <3>2. CASE d.prec.form # "star"
      <4>1. t = a + 0  BY <1>3, <2>3, <3>2 DEF InPrec
      <4>2. QED  BY <4>1
    <3>3. QED  BY <3>1, <3>2
  <2>4. CASE InLength(d, c, t)  BY <1>3, <2>4 DEF InLength
  <2>5. QED  BY <2>1, <2>2, <2>3, <2>4 DEF Reading
<1>6. QED  BY <1>2, <1>3, <1>4, <1>5, SMTT(30)

LEMMA OutputPlace ==
  ASSUME IInv, ~ Over
  PROVE  q \in Nat
<1>1. n \in Nat /\ o \in Nat /\ Emitted(Here, {}, 0, 0, n)  BY StateNames DEF IInv
<1>2. Here.at = q /\ Here.o = o  BY DEF Here
<1>3. QED  BY <1>1, <1>2 DEF Emitted

LEMMA PlacesInside ==
  ASSUME Parsing, call \in Calls
  PROVE  p \in 1 .. Len(format) + 1 /\ ap \in 1 .. Len(words) + 1
<1>1. PICK m \in Nat : m = Len(call)  BY CallTyped
<1>2. ASSUME NEW k \in 0 .. Len(call), NEW c \in Nat, NEW t \in Nat, Aligned(k, c, t),
             Len(SpellingTo(call, k)) + c <= Len(format), Len(PassedTo(call, k)) + t <= Len(words)
      PROVE  p \in 1 .. Len(format) + 1 /\ ap \in 1 .. Len(words) + 1
  <2>1. PICK a, b \in Nat : a = Len(SpellingTo(call, k)) /\ b = Len(PassedTo(call, k))  BY CallLengths
  <2>2. PICK x, y \in Nat : x = Len(format) /\ y = Len(words)
    <3>1. Len(call) \in 0 .. Len(call)  BY <1>1
    <3>2. QED  BY <3>1, CallLengths DEF format, words
  <2>3. p = a + (c + 1) /\ ap = b + (t + 1) /\ a + c <= x /\ b + t <= y
    BY <1>2, <2>1, <2>2 DEF Aligned
  <2>4. p \in 1 .. x + 1 /\ ap \in 1 .. y + 1  BY <2>3
  <2>5. QED  BY <2>2, <2>4
<1>3. CASE \E k \in 0 .. Len(call) : Aligned(k, 0, 0)
  <2>1. PICK k \in 0 .. Len(call) : Aligned(k, 0, 0)  BY <1>3
  <2>2. /\ Len(SpellingTo(call, k)) \in Nat /\ Len(PassedTo(call, k)) \in Nat
        /\ Len(SpellingTo(call, k)) <= Len(format) /\ Len(PassedTo(call, k)) <= Len(words)
    BY CallLengths DEF format, words
  <2>3. Len(SpellingTo(call, k)) + 0 <= Len(format) /\ Len(PassedTo(call, k)) + 0 <= Len(words)
    BY <2>2
  <2>4. QED  BY <1>2, <2>1, <2>3
<1>4. ASSUME NEW k \in 0 .. Len(call) - 1, NEW c \in Nat, NEW t \in Nat, NEW d, d = call[k + 1],
             Aligned(k, c, t), Reading(d, c, t)
      PROVE  p \in 1 .. Len(format) + 1 /\ ap \in 1 .. Len(words) + 1
  <2>1. d.kind = "conversion" /\ IsConversion(d)  BY <1>4 DEF Reading
  <2>2. HasPart(format, Len(SpellingTo(call, k)), Spelling(d)) /\ HasPart(words, Len(PassedTo(call, k)), Passed(d))
    BY <1>4, CallSpelled DEF format, words
  <2>3. c <= Len(Spelling(d)) /\ t <= Len(Passed(d))  BY <1>4, <2>1, WithinDirective
  <2>4. PICK a, b, x, y \in Nat : /\ a = Len(SpellingTo(call, k)) /\ b = Len(PassedTo(call, k))
                                  /\ x = Len(Spelling(d)) /\ y = Len(Passed(d))
                                  /\ a + x <= Len(format) /\ b + y <= Len(words)
    BY <2>2 DEF HasPart
  <2>5. PICK u, v \in Nat : u = Len(format) /\ v = Len(words)
    <3>1. Len(call) \in 0 .. Len(call)  BY <1>1
    <3>2. QED  BY <3>1, CallLengths DEF format, words
  <2>6. a + c <= u /\ b + t <= v  BY <2>3, <2>4, <2>5, SMTT(30)
  <2>7. k \in 0 .. Len(call)  BY <1>1
  <2>8. QED  BY <1>2, <1>4, <2>4, <2>5, <2>6, <2>7
<1>5. QED  BY <1>3, <1>4 DEF Parsing

LEMMA RangesHold ==
  ASSUME Sense, IInv
  PROVE  Ranges /\ q \in Nat
<1>1. state \in {"normal", "terminated", "returned"} \/ state \in {"flags", "width", "prec", "modifiers"}
  BY StateNames DEF IInv
<1>2. CASE state \in {"flags", "width", "prec", "modifiers"}
  <2>1. PICK k \in 0 .. Len(call) - 1, c \in Nat, t \in Nat : \E d \in {call[k + 1]} :
          Aligned(k, c, t) /\ Reading(d, c, t)
    BY <1>2 DEF Sense, Parsing
  <2>2. Ranges  BY <2>1, ReadingRanges DEF Ranges
  <2>3. QED  BY <1>2, <2>2, OutputPlace DEF Over
<1>3. CASE state \in {"normal", "terminated", "returned"}  BY <1>3, OutputPlace DEF Sense, Over
<1>4. QED  BY <1>1, <1>2, <1>3

LEMMA AwaitsKept ==
  ASSUME Awaits, IInv', state # "returned", state' # "returned", UNCHANGED <<given, rv, shown>>
  PROVE  Awaits'
<1>1. rv' = -1 /\ shown' = <<>> /\ n' = n  BY DEF Awaits, given
<1>2. o' \in Nat /\ n' \in Nat /\ n' > 0
  <2>1. n' \in BufferSizes /\ o' \in Nat  BY DEF IInv
  <2>2. QED  BY <1>1, <2>1, StateNames
<1>3. rv' \in -1 .. o'  BY <1>1, <1>2
<1>4. QED  BY <1>1, <1>2, <1>3 DEF Awaits

LEMMA InitSense == Init => Sense
<1> SUFFICES ASSUME Init PROVE Sense  OBVIOUS
<1>1. call \in Calls /\ p = 1 /\ ap = 1 /\ state = "normal"  BY DEF Init
<1>2. Aligned(0, 0, 0)
  <2>1. Len(<< >>) = 0  OBVIOUS
  <2>2. QED  BY <1>1, <2>1, CallStarts DEF Aligned
<1>3. Parsing
  <2>1. 0 \in 0 .. Len(call)  BY <1>1, CallTyped
  <2>2. QED  BY <1>1, <1>2, <2>1 DEF Parsing
<1>4. Awaits
  <2>1. n \in Nat /\ n > 0 /\ o = 0 /\ rv = -1 /\ shown = <<>>  BY StateNames DEF Init
  <2>2. QED  BY <2>1 DEF Awaits
<1>5. Ranges  BY WordTyped DEF Ranges, Init
<1>6. QED  BY <1>1, <1>3, <1>4, <1>5 DEF Sense, Over

\* A step inside a directive.
LEMMA InsideSense ==
  ASSUME Sense, IInv, IInv',
         Percent \/ Flag \/ FieldWidth \/ FieldPrecision \/ LengthModifier
  PROVE  Sense'
<1>1. UNCHANGED <<given, rv, shown>>
  BY DEF Percent, Flag, FieldWidth, FieldPrecision, LengthModifier, Keeps
<1>2. state # "returned"
  BY DEF Percent, Flag, FieldWidth, FieldPrecision, LengthModifier, InState
<1>3. state' \in {"flags", "width", "prec", "modifiers"}
  <2>1. CASE Percent  BY <2>1 DEF Percent
  <2>2. CASE Flag  BY <2>2 DEF Flag, InState, LeavesTo
  <2>3. CASE FieldWidth  BY <2>3 DEF FieldWidth, InState, WidthStar, WidthEnd, LeavesTo
  <2>4. CASE FieldPrecision  BY <2>4 DEF FieldPrecision, InState, LeavesTo
  <2>5. CASE LengthModifier  BY <2>5 DEF LengthModifier, InState
  <2>6. QED  BY <2>1, <2>2, <2>3, <2>4, <2>5
<1>4. Parsing'
  BY PercentReads, FlagReads, WidthReads, PrecisionReads, LengthReads DEF Sense, IInv
<1>5. Awaits'  BY <1>1, <1>2, <1>3, AwaitsKept DEF Sense
<1>6. QED  BY <1>3, <1>4, <1>5 DEF Sense, Over

LEMMA PlainSense ==
  ASSUME Sense, IInv, IInv', Plain
  PROVE  Sense'
<1>1. UNCHANGED <<given, spec, rv, shown>> /\ state = "normal" /\ state' = "normal"
  BY DEF Plain, InState
<1>2. Parsing'  BY PlainReads DEF Sense, IInv
<1>3. Awaits'  BY <1>1, AwaitsKept DEF Sense
<1>4. Ranges'  BY <1>1 DEF Sense, Ranges, spec
<1>5. QED  BY <1>1, <1>2, <1>3, <1>4 DEF Sense, Over

LEMMA ConversionRead ==
  ASSUME Sense, IInv, ConvertInteger \/ ConvertText \/ ConvertCount \/ ConvertOther
  PROVE  \E k \in 0 .. Len(call) - 1 : \E d :
           Understands(k, d) /\ Parsing' /\ Aligned(k + 1, 0, 0)' /\ k + 1 \in 0 .. Len(call')
<1>1. state = "modifiers" /\ ch \notin Lengths
  BY DEF ConvertInteger, ConvertText, ConvertCount, ConvertOther, Converts, InState, Lengths
<1>2. PICK k \in 0 .. Len(call) - 1 : \E d : Understands(k, d)  BY <1>1, Understood DEF Sense, IInv
<1>3. PICK d : Understands(k, d)  BY <1>2
<1>4. Parsing' /\ Aligned(k + 1, 0, 0)' /\ k + 1 \in 0 .. Len(call')
  BY <1>3, IntegerReads, OthersRead DEF Sense, IInv
<1>5. QED  BY <1>3, <1>4

LEMMA ConvertsSense ==
  ASSUME Sense, IInv, IInv', ConvertInteger \/ ConvertText \/ ConvertCount \/ ConvertOther
  PROVE  Sense'
<1>1. UNCHANGED <<given, rv, shown>> /\ state = "modifiers" /\ state' = "normal" /\ rank' = Canonical
  BY DEF ConvertInteger, ConvertText, ConvertCount, ConvertOther, Converts, InState
<1>2. PICK k \in 0 .. Len(call) - 1 : \E d : Understands(k, d) /\ Parsing'  BY ConversionRead
<1>3. rank' \in -2 .. 2  BY <1>1, <1>2, RankMeans
<1>4. Awaits'  BY <1>1, AwaitsKept DEF Sense
<1>5. Ranges  BY RangesHold
<1>6. PICK W \in Nat : W = Word /\ W > 3  BY WordTyped
<1>7. CASE ConvertInteger
  <2>1. flags' \subseteq {"ZERO", "MINUS", "PLUS", "TICK", "SPACE", "HASH", "SIGNED", "UPPER"}
    BY <1>5, <1>7 DEF ConvertInteger, Ranges
  <2>2. width' = width /\ (prec' = prec \/ prec' = DigitCount(Word - 1, 16))  BY <1>7 DEF ConvertInteger
  <2>3. DigitCount(Word - 1, 16) \in -1 .. Word
    <3>1. W - 1 \in Nat  BY <1>6
    <3>2. DigitCount(W - 1, 16) \in 0 .. W - 1  BY <3>1, DigitsFew
    <3>3. QED  BY <1>6, <3>2
  <2>4. Ranges'  BY <1>3, <1>5, <2>1, <2>2, <2>3 DEF Ranges
  <2>5. QED  BY <1>1, <1>2, <1>4, <2>4 DEF Sense, Over
<1>8. CASE ConvertText
  <2> DEFINE sarg == IF ch = "c" THEN <<LetterAt(ArgumentWord(ap) % CharMod)>> ELSE StringAt(ArgumentWord(ap))
             slen == IF prec # -1 /\ Len(sarg) > prec THEN prec ELSE Len(sarg)
  <2>1. flags' = flags /\ prec' = prec /\ width' = IF width > slen THEN slen ELSE width
    BY <1>8 DEF ConvertText
  <2>2. Len(sarg) \in Nat  BY StringLength
  <2> HIDE DEF sarg
  <2>3. prec \in -1 .. W /\ width \in 0 .. W  BY <1>5, <1>6 DEF Ranges
  <2>4. slen \in Nat  BY <2>2, <2>3
  <2> HIDE DEF slen
  <2>5. width' \in 0 .. W  BY <2>1, <2>3, <2>4
  <2>6. Ranges'  BY <1>3, <1>5, <1>6, <2>1, <2>5 DEF Ranges
  <2>7. QED  BY <1>1, <1>2, <1>4, <2>6 DEF Sense, Over
<1>9. CASE ConvertCount \/ ConvertOther
  <2>1. UNCHANGED <<flags, width, prec>>  BY <1>9 DEF ConvertCount, ConvertOther
  <2>2. Ranges'  BY <1>3, <1>5, <2>1 DEF Ranges
  <2>3. QED  BY <1>1, <1>2, <1>4, <2>2 DEF Sense, Over
<1>10. QED  BY <1>7, <1>8, <1>9

LEMMA FirstNulFound ==
  ASSUME NEW b, NEW m \in Nat, DOMAIN b \subseteq 0 .. m, NEW j \in DOMAIN b, b[j] = "NUL"
  PROVE  /\ FirstNul(b) \in DOMAIN b /\ FirstNul(b) \in 0 .. j /\ b[FirstNul(b)] = "NUL"
         /\ \A i \in DOMAIN b : b[i] = "NUL" => FirstNul(b) <= i
<1> DEFINE S == {i \in DOMAIN b : b[i] = "NUL"}
<1>1. S \in SUBSET Nat /\ S # {}  OBVIOUS
<1>2. PICK i \in S : \A x \in S : i <= x  BY <1>1, LeastNumber
<1>3. b[i] = "NUL" /\ \A x \in DOMAIN b : b[x] = "NUL" => i <= x  BY <1>2
<1>4. /\ FirstNul(b) \in DOMAIN b /\ b[FirstNul(b)] = "NUL"
      /\ \A x \in DOMAIN b : b[x] = "NUL" => FirstNul(b) <= x
  BY <1>2, <1>3 DEF FirstNul
<1>5. FirstNul(b) \in Nat /\ FirstNul(b) <= j  BY <1>4
<1>6. QED  BY <1>4, <1>5

LEMMA EndSense ==
  ASSUME Sense, IInv, IInv', Counted, Terminates \/ PrintfReturns
  PROVE  Sense'
<1>1. Parsing'  BY EndReads DEF Sense, IInv
<1>2. UNCHANGED <<given, spec, o, q>> /\ state' \in {"terminated", "returned"}
  BY DEF Terminates, PrintfReturns
<1>3. Ranges'
  <2>1. Ranges  BY RangesHold
  <2>2. QED  BY <1>2, <2>1 DEF Ranges, spec
<1>4. q' \in Nat  BY <1>2, RangesHold
<1>5. Awaits'
  <2>1. CASE Terminates
    <3>1. state' # "returned" /\ state # "returned" /\ UNCHANGED <<rv, shown>>  BY <2>1 DEF Terminates
    <3>2. QED  BY <1>2, <3>1, AwaitsKept DEF Sense
  <2>2. CASE PrintfReturns
    <3>1. n \in Nat /\ n > 0 /\ o \in Nat /\ n' = n /\ o' = o  BY <1>2, StateNames DEF IInv, given
    <3>2. /\ rv' = (IF o > n - 1 THEN n - 1 ELSE o) /\ buffer' = Put(buffer, rv', "NUL")
          /\ shown' = [i \in 1 .. FirstNul(buffer') |-> buffer'[i - 1]] /\ state' = "returned"
      BY <2>2, ReturnsLength DEF PrintfReturns
    <3>3. rv' \in 0 .. n - 1 /\ rv' \in 0 .. o  BY <3>1, <3>2
    <3>4. DOMAIN buffer' = DOMAIN buffer \cup {rv'} /\ buffer'[rv'] = "NUL"  BY <3>2, StoreDomain
    <3>5. DOMAIN buffer' \subseteq 0 .. n - 1  BY <3>1 DEF IInv, WritesInside
    <3>6. FirstNul(buffer') \in 0 .. rv'
      <4>1. n - 1 \in Nat  BY <3>1
      <4>2. QED  BY <3>4, <3>5, <4>1, FirstNulFound
    <3>7. PICK m \in Nat : m = FirstNul(buffer') /\ m <= n - 1  BY <3>1, <3>3, <3>6
    <3>8. Len(shown') = m  BY <3>2, <3>7
    <3>9. Len(shown') < n'  BY <3>1, <3>7, <3>8
    <3>10. rv' \in -1 .. o'  BY <3>1, <3>3
    <3>11. QED  BY <3>2, <3>9, <3>10 DEF Awaits
  <2>3. QED  BY <2>1, <2>2
<1>6. QED  BY <1>1, <1>3, <1>4, <1>5 DEF Sense

LEMMA NothingSense == Sense /\ UNCHANGED vars => Sense'
<1>1. SUFFICES ASSUME Sense, UNCHANGED vars PROVE Sense'  OBVIOUS
<1>2. UNCHANGED <<given, p, ap, state, spec, o, q, rv, shown>> /\ UNCHANGED <<flags, rank, width, prec>>
  BY <1>1 DEF vars, spec
<1>3. Parsing'
  <2>1. \A k, c, t : Aligned(k, c, t) => Aligned(k, c, t)'  BY <1>2 DEF Aligned, given
  <2>2. \A d, c, t : Reading(d, c, t) => Reading(d, c, t)'
    BY <1>2 DEF Reading, InFlags, InWidth, InPrec, InLength
  <2>3. call' = call /\ state' = state  BY <1>2 DEF given
  <2>4. CASE state \in {"normal", "terminated", "returned"}
    <3>1. PICK k \in 0 .. Len(call) : Aligned(k, 0, 0) /\ (state # "normal" => k = Len(call))
      BY <1>1, <2>4, OutsideDirective DEF Sense
    <3>2. Aligned(k, 0, 0)'  BY <2>1, <3>1
    <3>3. QED  BY <2>3, <2>4, <3>1, <3>2 DEF Parsing
  <2>5. CASE state \notin {"normal", "terminated", "returned"}
    <3>1. PICK k \in 0 .. Len(call) - 1, c \in Nat, t \in Nat : \E d \in {call[k + 1]} :
            Aligned(k, c, t) /\ Reading(d, c, t)
      BY <1>1, <2>5 DEF Sense, Parsing
    <3>2. PICK d \in {call[k + 1]} : Aligned(k, c, t) /\ Reading(d, c, t)  BY <3>1
    <3>3. Aligned(k, c, t)' /\ Reading(d, c, t)'  BY <2>1, <2>2, <3>2
    <3>4. QED  BY <1>2, <3>2, <3>3, StillReading
  <2>6. QED  BY <2>4, <2>5
<1>4. Awaits' /\ (Ranges => Ranges') /\ (Over' => Over)
  BY <1>1, <1>2 DEF Sense, Awaits, Ranges, Over, given
<1>5. QED  BY <1>1, <1>2, <1>3, <1>4 DEF Sense

(***************************************************************************)
(* What Formatter says of a directive is what Directives says.              *)
(***************************************************************************)
LEMMA SameParts ==
  ASSUME NEW d
  PROVE  /\ Promise!Value(d) = Value(d) /\ Promise!Width(d) = Width(d) /\ Promise!Flags(d) = Flags(d)
         /\ Promise!Precision(d) = Precision(d) /\ Promise!Modulus(d.length) = Modulus(d.length)
         /\ Promise!IntegerBase(d.conv) = IntegerBase(d.conv)
<1>1. Promise!Modulus(d.length) = Modulus(d.length)  BY Zenon DEF Promise!Modulus, Modulus
<1>2. Promise!IntegerBase(d.conv) = IntegerBase(d.conv)  BY Zenon DEF Promise!IntegerBase, IntegerBase
<1>3. Promise!Value(d) = Value(d)  BY <1>1, Zenon DEF Promise!Value, Value
<1>4. Promise!Width(d) = Width(d)  BY Zenon DEF Promise!Width, Width
<1>5. Promise!Flags(d) = Flags(d)  BY Zenon DEF Promise!Flags, Flags, Promise!ToSet, ToSet
<1>6. Promise!Precision(d) = Precision(d)
  BY Zenon DEF Promise!Precision, Precision, Promise!Absent, Absent, Promise!Numeral, Numeral
<1>7. QED  BY <1>1, <1>2, <1>3, <1>4, <1>5, <1>6

IntegerShape(value, fl, least0, wide, base, conv) ==
  LET size == IF value < 0 THEN -value ELSE value
      least == Larger(1, Larger(least0,
                 IF "#" \in fl /\ base = 8 THEN Len(Numeral(size, base)) + 1 ELSE 0))
      table == IF conv \in {"X", "P"} THEN ucdigits ELSE lcdigits
      plain == Zeros(least - Len(Numeral(size, base)))
                 \o [i \in DOMAIN Numeral(size, base) |-> table[Numeral(size, base)[i] + 1]]
      number == IF "'" \in fl THEN Grouped(plain, IF base = 16 THEN 4 ELSE 3) ELSE plain
      sign == CASE value < 0 -> <<"-">>
                [] value >= 0 /\ "+" \in fl -> <<"+">>
                [] value >= 0 /\ "+" \notin fl /\ " " \in fl -> <<" ">>
                [] OTHER -> <<>>
      head == sign \o (CASE "#" \in fl /\ conv \in {"x", "p"} -> <<"0", "x">>
                         [] "#" \in fl /\ conv \in {"X", "P"} -> <<"0", "X">>
                         [] OTHER -> <<>>)
      missing == wide - Len(head) - Len(number)
  IN CASE "-" \in fl -> head \o number \o Spaces(missing)
       [] "-" \notin fl /\ "0" \in fl -> head \o Zeros(missing) \o number
       [] OTHER -> Spaces(missing) \o head \o number

LEMMA SameInteger ==
  ASSUME NEW d
  PROVE  Promise!IntegerText(d) = IntegerText(d)
<1>1. IntegerText(d)
        = IntegerShape(Value(d), Flags(d), Precision(d), Width(d), IntegerBase(d.conv), d.conv)
  BY Zenon DEF IntegerText, IntegerShape
<1>2. Promise!IntegerText(d)
        = IntegerShape(Promise!Value(d), Promise!Flags(d), Promise!Precision(d), Promise!Width(d),
                       Promise!IntegerBase(d.conv), d.conv)
  BY ZenonT(40) DEF Promise!IntegerText, IntegerShape, Promise!Zeros, Zeros, Promise!Spaces, Spaces,
     Promise!Larger, Larger, Promise!Copies, Copies, Promise!Numeral, Numeral, Promise!lcdigits, lcdigits,
     Promise!ucdigits, ucdigits, Promise!Decimals, Decimals, Promise!Grouped, Grouped
<1>3. QED  BY <1>1, <1>2, SameParts, Zenon

LEMMA SameString ==
  ASSUME NEW d
  PROVE  Promise!StringText(d) = StringText(d)
BY ZenonT(40) DEF StringText, Promise!StringText, Promise!Zeros, Zeros, Promise!Spaces, Spaces,
   Promise!Smaller, Smaller, Promise!Copies, Copies, Promise!Numeral, Numeral, Promise!Width, Width,
   Promise!Flags, Flags, Promise!ToSet, ToSet, Promise!Precision, Precision, Promise!Absent, Absent

LEMMA SameProduced ==
  ASSUME NEW d
  PROVE  Promise!Produced(d) = Produced(d)
BY SameInteger, SameString, Zenon DEF Promise!Produced, Produced

(***************************************************************************)
(* The mapping of Promise: between two states outside the screen and inside *)
(* a directive it does not move.                                            *)
(***************************************************************************)
Partway == \E k, c : Within(call, p, k, c) /\ c >= 1

LEMMA InsideWithin ==
  Parsing /\ call \in Calls /\ state \in {"flags", "width", "prec", "modifiers"} => Partway
<1> SUFFICES ASSUME Parsing, call \in Calls, state \in {"flags", "width", "prec", "modifiers"} PROVE Partway
  OBVIOUS
<1>1. PICK k \in 0 .. Len(call) - 1, c \in Nat, t \in Nat : \E d \in {call[k + 1]} :
        /\ Aligned(k, c, t) /\ d.kind = "conversion" /\ IsConversion(d)
        /\ state = "flags" => InFlags(d, c, t)
        /\ state = "width" => InWidth(d, c, t)
        /\ state = "prec" => InPrec(d, c, t)
        /\ state = "modifiers" => InLength(d, c, t)
  BY InsideDirective
<1>2. PICK d : /\ d = call[k + 1] /\ Aligned(k, c, t) /\ d.kind = "conversion" /\ IsConversion(d)
               /\ state = "flags" => InFlags(d, c, t)
               /\ state = "width" => InWidth(d, c, t)
               /\ state = "prec" => InPrec(d, c, t)
               /\ state = "modifiers" => InLength(d, c, t)
  BY <1>1
<1>3. PICK f, w, x, l \in Nat :
        /\ f = FlagsEnd(d) /\ w = WidthStop(d) /\ x = PrecStop(d) /\ l = LengthEnd(d)
        /\ Len(Spelling(d)) = l + 1 /\ 1 <= f /\ f <= w /\ w <= x /\ x <= l
  BY <1>2, SpellsInside
<1>4. c \in 1 .. f \/ c \in f .. w \/ c \in w + 1 .. x \/ c \in x .. l
  BY <1>2, <1>3 DEF InFlags, InWidth, InPrec, InLength
<1>5. c >= 1 /\ c < l + 1  BY <1>3, <1>4
<1>6. Follows(SpellingTo(call, k + 1), SpellingTo(call, k), Spelling(d))  BY <1>2, CallSpelled
<1>7. PICK a, e \in Nat : a = Len(SpellingTo(call, k)) /\ e = Len(Spelling(d))  BY <1>6 DEF Follows
<1>8. Len(SpellingTo(call, k + 1)) = a + e  BY <1>6, <1>7, Zenon DEF Follows
<1>9. a + c < a + e  BY <1>3, <1>5, <1>7
<1>10. p = a + (c + 1)  BY <1>2, <1>7 DEF Aligned
<1>11. Within(call, p, k, c)  BY <1>7, <1>8, <1>9, <1>10 DEF Within
<1>12. QED  BY <1>5, <1>11 DEF Partway

LEMMA StartWithin ==
  ASSUME call \in Calls, NEW k \in 0 .. Len(call) - 1, Aligned(k, 0, 0)
  PROVE  Within(call, p, k, 0)
<1>1. IsDirective(call[k + 1]) /\ Follows(SpellingTo(call, k + 1), SpellingTo(call, k), Spelling(call[k + 1]))
  BY CallSpelled
<1>2. Len(Spelling(call[k + 1])) > 0  BY <1>1, DirectiveTyped
<1>3. PICK a, e \in Nat : a = Len(SpellingTo(call, k)) /\ e = Len(Spelling(call[k + 1]))  BY <1>1 DEF Follows
<1>4. Len(SpellingTo(call, k + 1)) = a + e  BY <1>1, <1>3, Zenon DEF Follows
<1>5. p = a + (0 + 1)  BY <1>3 DEF Aligned
<1>6. a + 0 < a + e  BY <1>2, <1>3
<1>7. QED  BY <1>3, <1>4, <1>5, <1>6 DEF Within

\* A step inside a directive.
LEMMA QuietDone ==
  ASSUME Sense, IInv, Sense', IInv', call' = call, p' \in {p, p + 1}, state \notin {"terminated", "returned"},
         state = "normal" => p <= Len(format), state' \in {"flags", "width", "prec", "modifiers"}
  PROVE  Done' = Done
<1>1. call \in Calls /\ call' \in Calls /\ Parsing /\ Parsing'  BY DEF IInv, Sense
<1>2. PICK k, c : Within(call, p, k, c)
  <2>1. CASE state = "normal"
    <3>1. PICK k \in 0 .. Len(call) : Aligned(k, 0, 0)  BY <1>1, <2>1, OutsideDirective
    <3>2. k \in 0 .. Len(call) - 1  BY <1>1, <2>1, <3>1, BetweenDirectives
    <3>3. QED  BY <1>1, <3>1, <3>2, StartWithin
  <2>2. CASE state # "normal"
    <3>1. state \in {"flags", "width", "prec", "modifiers"}  BY <2>2, StateNames DEF IInv
    <3>2. QED  BY <1>1, <3>1, InsideWithin DEF Partway
  <2>3. QED  BY <2>1, <2>2
<1>3. (Parsing /\ call \in Calls /\ state \in {"flags", "width", "prec", "modifiers"} => Partway)'
  BY InsideWithin, PTL
<1>4. PICK j, b : Within(call', p', j, b) /\ b >= 1  BY <1>1, <1>3 DEF Partway
<1>5. j = k  BY <1>1, <1>2, <1>4, SameDirective
<1>6. DoneAt(call, p) = k  BY <1>1, <1>2, DoneWithin
<1>7. DoneAt(call', p') = j  BY <1>1, <1>4, DoneWithin
<1>8. QED  BY <1>5, <1>6, <1>7 DEF Done

(***************************************************************************)
(* The mapping: the text so far is what the buffer holds of the characters  *)
(* output, and as many directives are done as lie before the next character *)
(* of the format.  PrintsOne is a step that prints one directive, which is   *)
(* what Formatter promises of it.                                           *)
(***************************************************************************)
TextNow == TextOf(buffer, o, n)
Stores(d) == IF d.kind = "conversion" /\ d.conv = "n" THEN Append(stored, o % Modulus(d.length)) ELSE stored

LEMMA SameCut ==
  ASSUME NEW s
  PROVE  Promise!Cut(s, n - 1) = Trimmed(s, n)
BY Zenon DEF Promise!Cut, Promise!Smaller, Trimmed, Fits

DoneHere == CHOOSE k \in 0 .. Len(call) : Past(k) /\ (k < Len(call) => ~ Past(k + 1))
TextHere == [i \in 1 .. (IF o < n THEN o ELSE n - 1) |-> IF i - 1 \in DOMAIN buffer THEN buffer[i - 1] ELSE "?"]

LEMMA MappedIs == DoneHere = Done /\ TextHere = TextNow /\ DoneHere' = Done' /\ TextHere' = TextNow'
<1>1. DoneHere = Done  BY Zenon DEF DoneHere, Done, DoneAt, Passes, Past
<1>2. TextHere = TextNow  BY Zenon DEF TextHere, TextNow, TextOf
<1>3. (DoneHere = Done)' /\ (TextHere = TextNow)'  BY <1>1, <1>2, PTL
<1>4. QED  BY <1>1, <1>2, <1>3

PrintsOne ==
  /\ Done < Len(call) /\ Done' = Done + 1
  /\ TextNow' = Trimmed(TextNow \o Produced(call[Done + 1]), n)
  /\ o' = o + Len(Produced(call[Done + 1])) /\ stored' = Stores(call[Done + 1])
  /\ UNCHANGED <<call, n, shown, rv>>

LEMMA PromisePrints ==
  ASSUME PrintsOne
  PROVE  Promise!PrintsDirective
<1>1. Done < Len(call) /\ Done' = Done + 1  BY DEF PrintsOne
<1>2. PICK d : d = call[Done + 1]  OBVIOUS
<1>3. PICK piece : piece = Promise!Produced(d)  OBVIOUS
<1>4. piece = Produced(call[Done + 1])  BY <1>2, <1>3, SameProduced, Zenon
<1>5. TextNow' = Promise!Cut(TextNow \o piece, n - 1)  BY <1>4, SameCut, Zenon DEF PrintsOne
<1>6. o' = o + Len(piece)  BY <1>4, Zenon DEF PrintsOne
<1>7. stored' = IF d.kind = "conversion" /\ d.conv = "n" THEN Append(stored, o % Promise!Modulus(d.length)) ELSE stored
  BY <1>2, SameParts, Zenon DEF PrintsOne, Stores
<1>8. call' = call /\ n' = n /\ shown' = shown /\ rv' = rv  BY DEF PrintsOne
<1>9. \E e \in {call[DoneHere + 1]} : \E x \in {Promise!Produced(e)} :
        /\ TextHere' = Promise!Cut(TextHere \o x, n - 1)
        /\ o' = o + Len(x)
        /\ stored' = IF e.kind = "conversion" /\ e.conv = "n"
                     THEN Append(stored, o % Promise!Modulus(e.length)) ELSE stored
  <2>1. d \in {call[DoneHere + 1]} /\ piece \in {Promise!Produced(d)}  BY <1>2, <1>3, MappedIs
  <2>2. TextHere' = Promise!Cut(TextHere \o piece, n - 1)  BY <1>5, MappedIs, Zenon
  <2>3. QED  BY <1>6, <1>7, <2>1, <2>2, Zenon
<1>10. DoneHere < Len(call) /\ DoneHere' = DoneHere + 1  BY <1>1, MappedIs, Zenon
<1>11. QED  BY <1>8, <1>9, <1>10, Zenon DEF Promise!PrintsDirective, DoneHere, TextHere

(***************************************************************************)
(* What printf shows is the text up to its first NUL: vsnprintf puts one    *)
(* behind what there is room for, and a %c of 0 may have put one before it  *)
(* (stdio.c:430, 516-520).                                                  *)
(***************************************************************************)
Firstmost(S) == CHOOSE i \in S : \A j \in S : i <= j
Nuls(s) == {i \in DOMAIN s : s[i] = "NUL"}

LEMMA CutAtNul ==
  ASSUME NEW s
  PROVE  Promise!UpToNul(s)
           = IF Nuls(s) = {} THEN s ELSE SubSeq(s, 1, Firstmost(Nuls(s)) - 1)
BY DEF Promise!UpToNul, Nuls, Firstmost

LEMMA NulInside ==
  ASSUME NEW t, NEW r \in Nat, NEW S, t \in Seq(S), Len(t) = r, NEW b, NEW size \in Nat,
         DOMAIN b \subseteq 0 .. size, \A i \in 1 .. r : i - 1 \in DOMAIN b /\ b[i - 1] = t[i],
         r \in DOMAIN b, b[r] = "NUL"
  PROVE  [i \in 1 .. FirstNul(b) |-> b[i - 1]] = Promise!UpToNul(t)
<1>1. PICK m \in 0 .. r : m = FirstNul(b) /\ m \in DOMAIN b /\ b[m] = "NUL" /\ \A i \in DOMAIN b : b[i] = "NUL" => m <= i
  <2>1. /\ FirstNul(b) \in DOMAIN b /\ FirstNul(b) \in 0 .. r /\ b[FirstNul(b)] = "NUL"
        /\ \A i \in DOMAIN b : b[i] = "NUL" => FirstNul(b) <= i
    BY FirstNulFound
  <2>2. QED  BY <2>1
<1>2. \A i \in 1 .. m : b[i - 1] = t[i]  BY <1>1
<1>3. [i \in 1 .. m |-> b[i - 1]] = First(t, m)  BY <1>2 DEF First
<1>4. DOMAIN t = 1 .. r  BY LenProperties
<1> DEFINE nuls == Nuls(t)
<1>5. nuls = {i \in 1 .. r : t[i] = "NUL"}  BY <1>4 DEF Nuls
<1>6. CASE m = r
  <2>1. ASSUME NEW i \in 1 .. r, t[i] = "NUL" PROVE FALSE
    <3>1. i - 1 \in DOMAIN b /\ b[i - 1] = "NUL"  BY <2>1
    <3>2. m <= i - 1  BY <1>1, <3>1
    <3>3. QED  BY <1>6, <3>2
  <2>2. nuls = {}  BY <1>5, <2>1
  <2>3. Promise!UpToNul(t) = t  BY <2>2, CutAtNul
  <2>4. First(t, r) = t
    <3>1. t = [i \in 1 .. r |-> t[i]]  BY <1>4
    <3>2. QED  BY <3>1, Zenon DEF First
  <2>5. QED  BY <1>1, <1>3, <1>6, <2>3, <2>4
<1>7. CASE m < r
  <2>1. m + 1 \in 1 .. r /\ m + 1 - 1 = m  BY <1>7
  <2>2. t[m + 1] = "NUL"  BY <1>1, <2>1
  <2>3. \A i \in nuls : m + 1 <= i
    <3>1. SUFFICES ASSUME NEW i \in 1 .. r, t[i] = "NUL" PROVE m + 1 <= i  BY <1>5
    <3>2. i - 1 \in DOMAIN b /\ b[i - 1] = "NUL"  BY <3>1
    <3>3. m <= i - 1  BY <1>1, <3>2
    <3>4. QED  BY <3>3
  <2>4. m + 1 \in nuls /\ nuls \subseteq Nat /\ nuls # {}
    <3>1. m + 1 \in nuls  BY <1>5, <2>1, <2>2
    <3>2. nuls \subseteq Nat  BY <1>5
    <3> HIDE DEF nuls
    <3>3. QED  BY <3>1, <3>2
  <2>5. Firstmost(Nuls(t)) = m + 1
    <3>1. PICK x : x = Firstmost(Nuls(t)) /\ x = CHOOSE i \in nuls : \A j \in nuls : i <= j  BY DEF Firstmost
    <3> HIDE DEF nuls
    <3>2. x \in nuls /\ \A j \in nuls : x <= j  BY <2>3, <2>4, <3>1
    <3>3. x \in Nat /\ x <= m + 1 /\ m + 1 <= x  BY <2>3, <2>4, <3>2
    <3>4. QED  BY <3>1, <3>3
  <2>6. Promise!UpToNul(t) = SubSeq(t, 1, m + 1 - 1)
    <3>1. Nuls(t) # {}  BY <2>4
    <3>2. Promise!UpToNul(t) = SubSeq(t, 1, Firstmost(Nuls(t)) - 1)  BY <3>1, CutAtNul
    <3>3. QED  BY <2>5, <3>2
  <2>7. SubSeq(t, 1, m) = First(t, m)
    <3>1. IsText(t) /\ m \in Nat /\ m <= Len(t)  BY <1>7 DEF IsText
    <3>2. QED  BY <3>1, FirstOf, Zenon
  <2>8. QED  BY <1>1, <1>3, <2>1, <2>6, <2>7
<1>8. QED  BY <1>6, <1>7

LEMMA PromiseShows ==
  ASSUME Sense, IInv, Counted, PrintfReturns
  PROVE  Promise!Shows
<1>1. /\ rv' = (IF o > n - 1 THEN n - 1 ELSE o) /\ buffer' = Put(buffer, rv', "NUL")
      /\ shown' = [i \in 1 .. FirstNul(buffer') |-> buffer'[i - 1]]
      /\ UNCHANGED <<call, n, p, ap, o, stored>> /\ state = "terminated"
  BY ReturnsLength DEF PrintfReturns, given
<1>2. n \in Nat \ {0} /\ o \in Nat /\ call \in Calls  BY StateNames DEF IInv
<1>3. PICK r \in Nat : r = rv' /\ r = (IF o < n THEN o ELSE n - 1) /\ r <= n - 1 /\ r <= o  BY <1>1, <1>2
<1>4. PICK t : t = TextNow  OBVIOUS
<1>5. IsText(t) /\ Len(t) = r  BY <1>2, <1>3, <1>4, TextTyped DEF TextNow
<1>6. \A i \in 1 .. r : i - 1 \in DOMAIN buffer
  <2>1. \A i \in 0 .. n - 2 : i < o => i \in DOMAIN buffer  BY DEF IInv, WritesInside
  <2>2. \A i \in 1 .. r : i - 1 \in 0 .. n - 2 /\ i - 1 < o  BY <1>2, <1>3
  <2>3. QED  BY <2>1, <2>2
<1>7. \A i \in 1 .. r : t[i] = buffer[i - 1]  BY <1>3, <1>4, <1>6 DEF TextNow, TextOf
<1>8. PICK b : b = buffer'  OBVIOUS
<1>9. b = Put(buffer, r, "NUL")  BY <1>1, <1>3, <1>8
<1>10. \A i \in 1 .. r : i - 1 \in DOMAIN b /\ b[i - 1] = t[i]
  <2>1. \A j \in DOMAIN buffer : j \in DOMAIN Put(buffer, r, "NUL") /\ (j # r => Put(buffer, r, "NUL")[j] = buffer[j])
    BY DEF Put
  <2>2. \A i \in 1 .. r : i - 1 # r  OBVIOUS
  <2>3. QED  BY <1>6, <1>7, <1>9, <2>1, <2>2
<1>11. r \in DOMAIN b /\ b[r] = "NUL" /\ DOMAIN b = DOMAIN buffer \cup {r}  BY <1>9 DEF Put
<1>12. n - 1 \in Nat /\ DOMAIN b \subseteq 0 .. n - 1  BY <1>2, <1>3, <1>11 DEF IInv, WritesInside
<1>13. shown' = Promise!UpToNul(t)
  <2>1. PICK S : t \in Seq(S)  BY <1>5 DEF IsText
  <2>2. [i \in 1 .. FirstNul(b) |-> b[i - 1]] = Promise!UpToNul(t)
    BY <1>5, <1>10, <1>11, <1>12, <2>1, NulInside, ZenonT(90)
  <2>3. QED  BY <1>1, <1>8, <2>2
<1>14. rv' = Promise!Smaller(o, n - 1)
  <2>1. rv' = IF o < n - 1 THEN o ELSE n - 1  BY <1>1, <1>2
  <2>2. QED  BY <2>1, Zenon DEF Promise!Smaller
<1>15. TextNow' = TextNow
  <2>1. PICK size \in Nat, h \in Nat : size = n /\ h = o  BY <1>2
  <2>2. ASSUME NEW i \in 1 .. r
        PROVE  (IF i - 1 \in DOMAIN b THEN b[i - 1] ELSE "?") = (IF i - 1 \in DOMAIN buffer THEN buffer[i - 1] ELSE "?")
    BY <1>6, <1>7, <1>10
  <2>3. TextNow = [i \in 1 .. r |-> IF i - 1 \in DOMAIN buffer THEN buffer[i - 1] ELSE "?"]
    BY <1>3 DEF TextNow, TextOf
  <2>4. TextNow' = [i \in 1 .. r |-> IF i - 1 \in DOMAIN b THEN b[i - 1] ELSE "?"]
    BY <1>1, <1>3, <1>8 DEF TextNow, TextOf
  <2>5. QED  BY <2>2, <2>3, <2>4
<1>16. Done = Len(call) /\ Done' = Done
  <2>1. Aligned(Len(call), 0, 0) /\ Len(call) \in 0 .. Len(call)  BY <1>2, EndReads, CallTyped DEF Sense
  <2>2. p = Len(SpellingTo(call, Len(call))) + 1  BY <2>1 DEF Aligned
  <2>3. DoneAt(call, p) = Len(call)  BY <1>2, <2>1, <2>2, DoneBetween
  <2>4. QED  BY <1>1, <2>3 DEF Done
<1>17. rv = -1  BY <1>1 DEF Sense, Awaits
<1>18. /\ DoneHere = Len(call) /\ DoneHere' = DoneHere /\ TextHere' = TextHere
       /\ shown' = Promise!UpToNul(TextHere)
  BY <1>4, <1>13, <1>15, <1>16, MappedIs, Zenon
<1>19. call' = call /\ n' = n /\ o' = o /\ stored' = stored  BY <1>1
<1>20. QED  BY <1>14, <1>17, <1>18, <1>19, Zenon DEF Promise!Shows, DoneHere, TextHere

(***************************************************************************)
(* Steps that Formatter does not see: those inside a directive, and the one *)
(* that ends the text.                                                      *)
(***************************************************************************)
Still ==
  /\ call' = call /\ n' = n /\ Done' = Done /\ TextNow' = TextNow /\ o' = o
  /\ stored' = stored /\ shown' = shown /\ rv' = rv

LEMMA StillPromised ==
  ASSUME Still
  PROVE  UNCHANGED Promise!vars
<1>1. DoneHere' = DoneHere /\ TextHere' = TextHere  BY MappedIs DEF Still
<1>2. call' = call /\ n' = n /\ o' = o /\ stored' = stored /\ shown' = shown /\ rv' = rv  BY DEF Still
<1>3. QED  BY <1>1, <1>2, Zenon DEF Promise!vars, DoneHere, TextHere

LEMMA NothingStill ==
  ASSUME UNCHANGED vars
  PROVE  Still
BY DEF vars, given, spec, Still, Done, TextNow

LEMMA InsideStill ==
  ASSUME Sense, IInv, Sense', IInv', Percent \/ Flag \/ FieldWidth \/ FieldPrecision \/ LengthModifier
  PROVE  Still
<1>1. Keeps  BY DEF Percent, Flag, FieldWidth, FieldPrecision, LengthModifier
<1>2. state \notin {"terminated", "returned"} /\ (state = "normal" => p <= Len(format))
  BY DEF Percent, Flag, FieldWidth, FieldPrecision, LengthModifier, InState
<1>3. p' \in {p, p + 1} /\ state' \in {"flags", "width", "prec", "modifiers"}
  <2>1. CASE Percent  BY <2>1 DEF Percent, Consumes
  <2>2. CASE Flag  BY <2>2 DEF Flag, InState, LeavesTo, Consumes
  <2>3. CASE FieldWidth  BY <2>3 DEF FieldWidth, InState, WidthStar, WidthEnd, LeavesTo, Consumes
  <2>4. CASE FieldPrecision  BY <2>4 DEF FieldPrecision, InState, LeavesTo, Consumes
  <2>5. CASE LengthModifier  BY <2>5 DEF LengthModifier, InState, Consumes
  <2>6. QED  BY <2>1, <2>2, <2>3, <2>4, <2>5
<1>4. Done' = Done  BY <1>1, <1>2, <1>3, QuietDone DEF Keeps, given
<1>5. QED  BY <1>1, <1>4 DEF Keeps, given, Still, TextNow

LEMMA TerminatesStill ==
  ASSUME IInv, Terminates
  PROVE  Still
<1>1. /\ buffer' = Put(buffer, IF o < n THEN q ELSE n - 1, "NUL")
      /\ UNCHANGED <<call, n, p, o, stored, rv, shown>> /\ ~ Over
  BY DEF Terminates, given, Over
<1>2. n \in Nat \ {0} /\ o \in Nat /\ (o < n => q = o)
  BY <1>1, StateNames DEF IInv, Emitted, Here
<1>3. PICK r \in Nat : r = (IF o < n THEN o ELSE n - 1)  BY <1>2
<1>4. buffer' = Put(buffer, r, "NUL")  BY <1>1, <1>2, <1>3
<1>5. ASSUME NEW i \in 1 .. r
      PROVE  (IF i - 1 \in DOMAIN buffer' THEN buffer'[i - 1] ELSE "?") = (IF i - 1 \in DOMAIN buffer THEN buffer[i - 1] ELSE "?")
  BY <1>4 DEF Put
<1>6. TextNow = [i \in 1 .. r |-> IF i - 1 \in DOMAIN buffer THEN buffer[i - 1] ELSE "?"]
  BY <1>3 DEF TextNow, TextOf
<1>7. TextNow' = [i \in 1 .. r |-> IF i - 1 \in DOMAIN buffer' THEN buffer'[i - 1] ELSE "?"]
  BY <1>1, <1>3 DEF TextNow, TextOf
<1>8. TextNow' = TextNow  BY <1>5, <1>6, <1>7
<1>9. QED  BY <1>1, <1>8 DEF Still, Done

LEMMA InitPromised == Init => Promise!Init
<1> SUFFICES ASSUME Init PROVE Promise!Init  OBVIOUS
<1>1. /\ call \in Calls /\ n \in BufferSizes /\ p = 1 /\ o = 0 /\ stored = <<>> /\ rv = -1 /\ shown = <<>>
      /\ buffer = << >>
  BY DEF Init
<1>2. Done = 0
  <2>1. 0 \in 0 .. Len(call)  BY <1>1, CallTyped
  <2>2. p = Len(SpellingTo(call, 0)) + 1
    <3>1. Len(<< >>) = 0  OBVIOUS
    <3>2. QED  BY <1>1, <3>1, CallStarts
  <2>3. QED  BY <1>1, <2>1, <2>2, DoneBetween DEF Done
<1>3. TextNow = <<>>
  <2>1. n \in Nat \ {0}  BY <1>1, StateNames
  <2>2. IsText(TextNow) /\ Len(TextNow) = 0  BY <1>1, <2>1, TextTyped DEF TextNow
  <2>3. QED  BY <2>2 DEF IsText
<1>4. DoneHere = 0 /\ TextHere = <<>>  BY <1>2, <1>3, MappedIs
<1>5. QED  BY <1>1, <1>4, Zenon DEF Promise!Init, DoneHere, TextHere

(***************************************************************************)
(* A step that adds to the buffer what one directive produces keeps the     *)
(* output in order and prints that directive.                               *)
(***************************************************************************)
LEMMA OutputPrints ==
  ASSUME IInv, ~ Over, state' \in ToSet(States), ~ Over', UNCHANGED <<given, rv, shown>>, p' \in Nat,
         width' \in Int, prec' \in Int, NEW k \in 0 .. Len(call) - 1, Done = k, Aligned(k + 1, 0, 0)',
         IsText(Produced(call[k + 1])), Emitted(Here', {}, 0, 0, n),
         Adds(Here, Here', Produced(call[k + 1]), 0, n), stored' = Stores(call[k + 1])
  PROVE  IInv' /\ PrintsOne
<1>1. call \in Calls /\ call' = call /\ n' = n /\ n \in Nat \ {0}  BY StateNames DEF IInv, given
<1>2. PICK m \in Nat : m = Len(call)  BY <1>1, CallTyped
<1>3. Done < Len(call) /\ k + 1 \in 0 .. Len(call)  BY <1>2
<1>4. Done' = Done + 1
  <2>1. p' = Len(SpellingTo(call, k + 1)) + 1  BY <1>1 DEF Aligned
  <2>2. DoneAt(call, p') = k + 1  BY <1>1, <1>3, <2>1, DoneBetween
  <2>3. QED  BY <1>1, <2>2 DEF Done
<1>5. Emitted(Here, {}, 0, 0, n)  BY DEF IInv
<1>6. Here.buf = buffer /\ Here.o = o /\ Here'.buf = buffer' /\ Here'.o = o'  BY DEF Here
<1>7. PICK s : s = Produced(call[k + 1])  OBVIOUS
<1>8. /\ TextOf(Here'.buf, Here'.o, n) = Trimmed(TextOf(Here.buf, Here.o, n) \o s, n)
      /\ Here'.o = Here.o + Len(s)
  BY <1>1, <1>5, <1>7, TextGrows
<1>9. TextNow' = Trimmed(TextNow \o s, n) /\ o' = o + Len(s)  BY <1>1, <1>6, <1>8, Zenon DEF TextNow
<1>10. PrintsOne  BY <1>1, <1>3, <1>4, <1>7, <1>9 DEF PrintsOne
<1>11. IInv'  BY OutputKeeps
<1>12. QED  BY <1>10, <1>11

(***************************************************************************)
(* One lemma for each step that prints a directive: a plain character, a    *)
(* conversion of an unknown letter or %%, the count of %n, a text and an    *)
(* integer (stdio.c:237, 508, 473, 441 and 422).                            *)
(***************************************************************************)
LEMMA PlainPrints ==
  ASSUME Sense, IInv, Counted, Plain
  PROVE  IInv' /\ PrintsOne
<1>1. /\ state = "normal" /\ state' = state /\ UNCHANGED <<given, rv, shown>> /\ stored' = stored
      /\ Outputs(Emit(Here, ch)) /\ p' = p + 1 /\ width' = width /\ prec' = prec
  BY DEF Plain, InState, Consumes, spec
<1>2. call \in Calls /\ n \in Nat /\ Parsing /\ o \in Nat  BY StateNames DEF IInv, Sense
<1>3. PICK k \in 0 .. Len(call) - 1 : /\ Aligned(k, 0, 0) /\ Aligned(k + 1, 0, 0)'
                                      /\ call[k + 1] = Character(ch)
  BY <1>2, PlainReads
<1>4. Done = k
  <2>1. k \in 0 .. Len(call)
    <3>1. PICK m \in Nat : m = Len(call)  BY <1>2, CallTyped
    <3>2. QED  BY <3>1
  <2>2. p = Len(SpellingTo(call, k)) + 1  BY <1>3 DEF Aligned
  <2>3. QED  BY <1>2, <2>1, <2>2, DoneBetween DEF Done
<1>5. PICK d : d = call[k + 1] /\ d.kind = "character" /\ d.ch = ch  BY <1>3 DEF Character
<1>6. Produced(d) = <<ch>>  BY <1>5 DEF Produced
<1>7. IsText(Produced(d)) /\ o + Len(Produced(d)) < Word  BY <1>4, <1>5, PieceFits
<1>8. ~ Over /\ ~ Over' /\ state' \in ToSet(States)  BY <1>1, StateNames DEF Over
<1>9. Emitted(Here, {}, 0, 0, n) /\ Here.o + 1 < Word
  <2>1. Len(<<ch>>) = 1  OBVIOUS
  <2>2. Here.o = o  BY DEF Here
  <2>3. QED  BY <1>6, <1>7, <1>8, <2>1, <2>2 DEF IInv
<1>10. Emitted(Emit(Here, ch), {}, 0, 0, n) /\ Adds(Here, Emit(Here, ch), <<ch>>, 0, n)
  BY <1>2, <1>9, EmitKeeps, EmitAddsOne
<1>11. Here' = Emit(Here, ch)  BY <1>1, <1>10, HereAfter DEF Emitted
<1>12. /\ Adds(Here, Here', Produced(call[k + 1]), 0, n) /\ IsText(Produced(call[k + 1]))
       /\ Emitted(Here', {}, 0, 0, n)
  BY <1>5, <1>6, <1>7, <1>10, <1>11, Zenon
<1>13. stored' = Stores(call[k + 1])  BY <1>1, <1>5 DEF Stores
<1>14. p' \in Nat /\ width' \in Int /\ prec' \in Int  BY <1>1 DEF IInv
<1>15. QED  BY <1>1, <1>3, <1>4, <1>8, <1>12, <1>13, <1>14, OutputPrints

\* A conversion is the directive in hand until it is written, and done after it.
LEMMA ConversionDone ==
  ASSUME call \in Calls, NEW k \in 0 .. Len(call) - 1, NEW d, Understands(k, d)
  PROVE  Done = k
<1>1. d = call[k + 1] /\ d.kind = "conversion" /\ IsConversion(d)  BY DEF Understands
<1>2. PICK l \in Nat : l = LengthEnd(d) /\ Len(Spelling(d)) = l + 1  BY <1>1, SpellsInside
<1>3. Follows(SpellingTo(call, k + 1), SpellingTo(call, k), Spelling(d))  BY <1>1, CallSpelled
<1>4. PICK a, e \in Nat : a = Len(SpellingTo(call, k)) /\ e = Len(Spelling(d))  BY <1>3 DEF Follows
<1>5. Len(SpellingTo(call, k + 1)) = a + e  BY <1>3, <1>4, Zenon DEF Follows
<1>6. p = a + (l + 1)  BY <1>2, <1>4 DEF Understands, Aligned
<1>7. a + l < a + e  BY <1>2, <1>4
<1>8. Within(call, p, k, l)  BY <1>4, <1>5, <1>6, <1>7 DEF Within
<1>9. QED  BY <1>8, DoneWithin DEF Done

LEMMA ConversionPrints ==
  ASSUME Sense, IInv, Counted, ConvertInteger \/ ConvertText \/ ConvertCount \/ ConvertOther,
         width' \in Int, prec' \in Int,
         \A k, d : Understands(k, d) /\ Len(Produced(d)) \in Nat /\ o + Len(Produced(d)) < Word =>
           Emitted(Here', {}, 0, 0, n) /\ Adds(Here, Here', Produced(d), 0, n) /\ stored' = Stores(d)
  PROVE  IInv' /\ PrintsOne
<1>1. state = "modifiers" /\ state' = "normal" /\ UNCHANGED <<given, rv, shown>> /\ p' = p + 1
  BY DEF ConvertInteger, ConvertText, ConvertCount, ConvertOther, Converts, InState, Consumes
<1>2. PICK k \in 0 .. Len(call) - 1 : \E d : Understands(k, d) /\ Aligned(k + 1, 0, 0)'  BY ConversionRead
<1>3. PICK d : Understands(k, d) /\ Aligned(k + 1, 0, 0)'  BY <1>2
<1>4. d = call[k + 1]  BY <1>3 DEF Understands
<1>5. Done = k  BY <1>3, ConversionDone DEF IInv
<1>6. ~ Over /\ ~ Over' /\ state' \in ToSet(States)  BY <1>1, StateNames DEF Over
<1>7. IsText(Produced(d)) /\ Len(Produced(d)) \in Nat /\ o + Len(Produced(d)) < Word
  BY <1>4, <1>5, PieceFits
<1>8. Emitted(Here', {}, 0, 0, n) /\ Adds(Here, Here', Produced(d), 0, n) /\ stored' = Stores(d)
  BY <1>3, <1>7
<1>9. p' \in Nat  BY <1>1 DEF IInv
<1>10. QED  BY <1>1, <1>3, <1>4, <1>5, <1>6, <1>7, <1>8, <1>9, OutputPrints

LEMMA OtherPrints ==
  ASSUME Sense, IInv, Counted, ConvertOther
  PROVE  IInv' /\ PrintsOne
<1>1. /\ state = "modifiers" /\ UNCHANGED given /\ stored' = stored /\ Outputs(Emit(Here, ch))
      /\ ch \notin Conversions /\ width' = width /\ prec' = prec
  BY DEF ConvertOther, Converts, InState
<1>2. n \in Nat /\ o \in Nat /\ Emitted(Here, {}, 0, 0, n)  BY <1>1, StateNames DEF IInv, Over
<1>3. ASSUME NEW k, NEW d, Understands(k, d), Len(Produced(d)) \in Nat, o + Len(Produced(d)) < Word
      PROVE  Emitted(Here', {}, 0, 0, n) /\ Adds(Here, Here', Produced(d), 0, n) /\ stored' = Stores(d)
  <2>1. d.kind = "conversion" /\ d.conv = ch  BY <1>3 DEF Understands
  <2>2. Produced(d) = <<ch>>  BY <1>1, <2>1 DEF Produced, Conversions
  <2>3. Here.o + 1 < Word
    <3>1. Len(<<ch>>) = 1 /\ Here.o = o  BY DEF Here
    <3>2. QED  BY <1>3, <2>2, <3>1
  <2>4. Emitted(Emit(Here, ch), {}, 0, 0, n) /\ Adds(Here, Emit(Here, ch), <<ch>>, 0, n)
    BY <1>2, <2>3, EmitKeeps, EmitAddsOne
  <2>5. Here' = Emit(Here, ch)  BY <1>1, <2>4, HereAfter DEF Emitted
  <2>6. stored' = Stores(d)  BY <1>1, <2>1 DEF Stores, Conversions
  <2>7. QED  BY <2>2, <2>4, <2>5, <2>6, Zenon
<1>4. width' \in Int /\ prec' \in Int  BY <1>1 DEF IInv
<1>5. QED  BY <1>3, <1>4, ConversionPrints

LEMMA CountPrints ==
  ASSUME Sense, IInv, Counted, ConvertCount
  PROVE  IInv' /\ PrintsOne
<1>1. /\ UNCHANGED <<given, o, q, buffer, width, prec>> /\ stored' = Append(stored, o % SizeOfRank)
      /\ ch = "n" /\ state = "modifiers"
  BY DEF ConvertCount, Converts, InState
<1>2. n \in Nat /\ o \in Nat /\ Emitted(Here, {}, 0, 0, n)  BY <1>1, StateNames DEF IInv, Over
<1>3. Here' = Here /\ Here.o \in Nat  BY <1>1, <1>2 DEF Here, given
<1>4. Len(<< >>) = 0  OBVIOUS
<1>5. Adds(Here, Here', << >>, 0, n)  BY <1>2, <1>3, <1>4, AddsNothing
<1>6. ASSUME NEW k, NEW d, Understands(k, d)
      PROVE  Emitted(Here', {}, 0, 0, n) /\ Adds(Here, Here', Produced(d), 0, n) /\ stored' = Stores(d)
  <2>1. d.kind = "conversion" /\ d.conv = "n"  BY <1>1, <1>6 DEF Understands
  <2>2. Produced(d) = << >>  BY <2>1, Zenon DEF Produced
  <2>3. SizeOfRank = Modulus(d.length)  BY <1>6, RankMeans
  <2>4. stored' = Stores(d)  BY <1>1, <2>1, <2>3, Zenon DEF Stores
  <2>5. QED  BY <1>2, <1>3, <1>5, <2>2, <2>4, Zenon
<1>7. width' \in Int /\ prec' \in Int  BY <1>1 DEF IInv
<1>8. QED  BY <1>6, <1>7, ConversionPrints

LEMMA TextPrints ==
  ASSUME Sense, IInv, Counted, ConvertText
  PROVE  IInv' /\ PrintsOne
<1> DEFINE sarg == IF ch = "c" THEN <<LetterAt(ArgumentWord(ap) % CharMod)>> ELSE StringAt(ArgumentWord(ap))
           slen == IF prec # -1 /\ Len(sarg) > prec THEN prec ELSE Len(sarg)
           all == TextWritten(flags, width, prec, sarg)
<1>1. /\ state = "modifiers" /\ UNCHANGED given /\ stored' = stored /\ ch \in {"c", "s"}
      /\ Outputs(EmitAll(Here, all))
  BY DEF ConvertText, Converts, InState, TextWritten
<1>2. n \in Nat /\ o \in Nat /\ Emitted(Here, {}, 0, 0, n) /\ Here.o = o
  BY <1>1, StateNames DEF IInv, Over, Here
<1>3. ASSUME NEW k, NEW d, Understands(k, d), Len(Produced(d)) \in Nat, o + Len(Produced(d)) < Word
      PROVE  Emitted(Here', {}, 0, 0, n) /\ Adds(Here, Here', Produced(d), 0, n) /\ stored' = Stores(d)
  <2>1. /\ d.kind = "conversion" /\ IsConversion(d) /\ d.conv = ch /\ flags = MeantFlags(d) /\ width = Width(d)
        /\ prec = MeantPrec(d) /\ (WordsOf(d) # 0 => ArgumentWord(ap) = d.values[1])
    BY <1>3 DEF Understands
  <2>2. ArgumentWord(ap) = d.values[1]  BY <1>1, <2>1 DEF WordsOf
  <2>3. sarg = WholeText(d)  BY <1>1, <2>1, <2>2, WholeTyped, Zenon
  <2> HIDE DEF sarg
  <2>4. all = StringText(d)  BY <1>1, <2>1, <2>3, TextMeant
  <2>5. Produced(d) = StringText(d)  BY <1>1, <2>1 DEF Produced
  <2>6. PICK s : s = Produced(d) /\ Len(s) \in Nat /\ Here.o + Len(s) < Word  BY <1>2, <1>3
  <2>7. Outputs(EmitAll(Here, s))  BY <1>1, <2>4, <2>5, <2>6
  <2>8. Emitted(EmitAll(Here, s), {}, 0, 0, n) /\ Adds(Here, EmitAll(Here, s), s, 0, n)
    BY <1>2, <2>6, EmitAllKeeps, EmitAllAdds
  <2>9. Here' = EmitAll(Here, s)  BY <1>1, <2>7, <2>8, HereAfter DEF Emitted
  <2>10. stored' = Stores(d)  BY <1>1, <2>1 DEF Stores
  <2>11. QED  BY <2>6, <2>8, <2>9, <2>10
<1>4. width' \in Int /\ prec' \in Int
  <2>1. prec' = prec /\ width' = IF width > slen THEN slen ELSE width  BY DEF ConvertText
  <2>2. Len(sarg) \in Nat  BY StringLength
  <2> HIDE DEF sarg
  <2>3. QED  BY <2>1, <2>2 DEF IInv
<1>5. QED  BY <1>3, <1>4, ConversionPrints

\* The number is written into the room that is left; q and o move on alike.
LEMMA IntegerPrints ==
  ASSUME Sense, IInv, Counted, ConvertInteger
  PROVE  IInv' /\ PrintsOne
<1>1. /\ state = "modifiers" /\ UNCHANGED given /\ stored' = stored /\ ch \in IntegerConvs /\ width' = width
      /\ prec' = IF ch \in {"p", "P"} THEN DigitCount(Word - 1, 16) ELSE prec
  BY DEF ConvertInteger, Converts, InState, IntegerConvs
<1>2. /\ n \in Nat /\ o \in Nat /\ q \in Int /\ (o < n => q = o) /\ (o >= n => q >= n)
      /\ DOMAIN buffer = Cells(0, 0, o, n)
  BY <1>1, StateNames DEF IInv, Over, Emitted, Here
<1>3. Room \in Nat /\ Room = IF o < n THEN n - o ELSE 0  BY <1>2 DEF Room
<1>4. ASSUME NEW k, NEW d, Understands(k, d), Len(Produced(d)) \in Nat, o + Len(Produced(d)) < Word
      PROVE  Emitted(Here', {}, 0, 0, n) /\ Adds(Here, Here', Produced(d), 0, n) /\ stored' = Stores(d)
  <2>1. /\ d.kind = "conversion" /\ IsConversion(d) /\ d.conv = ch /\ flags = MeantFlags(d) /\ width = Width(d)
        /\ prec = MeantPrec(d) /\ (WordsOf(d) # 0 => ArgumentWord(ap) = d.values[1])
        /\ d.conv \in IntegerConvs
    BY <1>1, <1>4 DEF Understands
  <2>2. ArgumentWord(ap) = d.values[1]  BY <2>1 DEF WordsOf, IntegerConvs
  <2>3. SizeOfRank = Modulus(d.length)  BY <1>4, RankMeans
  <2>4. Base = IntegerBase(d.conv)  BY <2>1, Zenon DEF Base, IntegerBase
  <2> DEFINE out == FormatInt([buf |-> buffer, at |-> q, o |-> 0, n |-> Room], ArgumentOf(d), FlagsOf(d),
                              IntegerBase(d.conv), Width(d), PrecisionOf(d))
  <2>5. flags' = FlagsOf(d) /\ prec' = PrecisionOf(d)
    BY <2>1 DEF ConvertInteger, FlagsOf, PrecisionOf
  <2>6. buffer' = out.buf /\ q' = q + out.o /\ o' = (o + out.o) % Word
    <3>1. LET v == IF ch \in {"p", "P"} THEN ArgumentWord(ap)
                   ELSE IF ch \in {"d", "i"} THEN SignedIn(ArgumentWord(ap), SizeOfRank) % Word
                   ELSE ArgumentWord(ap) % SizeOfRank
              new == FormatInt([buf |-> buffer, at |-> q, o |-> 0, n |-> Room], v, flags', Base, width, prec')
          IN buffer' = new.buf /\ q' = q + new.o /\ o' = (o + new.o) % Word
      BY DEF ConvertInteger
    <3>2. (IF ch \in {"p", "P"} THEN ArgumentWord(ap)
           ELSE IF ch \in {"d", "i"} THEN SignedIn(ArgumentWord(ap), SizeOfRank) % Word
           ELSE ArgumentWord(ap) % SizeOfRank) = ArgumentOf(d)
      BY <2>1, <2>2, <2>3, Zenon DEF ArgumentOf
    <3>3. QED  BY <2>1, <2>4, <2>5, <3>1, <3>2, Zenon
  <2>7. ArgumentOf(d) \in 0 .. Word - 1  BY <2>1, IntegerMeans
  <2>8. IntegerBase(d.conv) \in {8, 10, 16}  BY DEF IntegerBase
  <2>9. Width(d) \in Int
    <3>1. IsNumber(d.width) /\ d.width.n \in Int  BY <2>1, NumberSpelled DEF IsConversion
    <3>2. QED  BY <3>1 DEF Width
  <2>10. PrecisionOf(d) \in Int  BY <2>1, PrecisionMeant
  <2> DEFINE start == [buf |-> buffer, at |-> q, o |-> 0, n |-> Room]
             text == NumberText(ArgumentOf(d), FlagsOf(d), IntegerBase(d.conv), Width(d), PrecisionOf(d))
  <2>11. text = Produced(d)
    <3>1. Produced(d) = IntegerText(d)  BY <2>1 DEF Produced, IntegerConvs
    <3>2. QED  BY <2>1, <3>1, NumberTextMeant
  <2>12. Len(text) < Word
    <3>1. PICK x, W \in Nat : x = Len(Produced(d)) /\ W = Word /\ o + x < W  BY <1>4, WordTyped
    <3>2. x < W  BY <1>2, <3>1
    <3>3. QED  BY <2>11, <3>1, <3>2
  <2>13. Adds(start, out, text, q, Room) /\ Emitted(out, DOMAIN buffer, q, 0, Room)
    BY <1>2, <1>3, <2>7, <2>8, <2>9, <2>10, <2>12, FormatIntAdds, Zenon
  <2> HIDE DEF text, out
  <2>14. PICK s : s = Produced(d) /\ Len(s) \in Nat /\ o + Len(s) < Word  BY <1>4
  <2>15. out.o = 0 + Len(s) /\ Holds(out.buf, q + 0, s, Room - 0) /\ Preserves(buffer, out.buf, q + 0)
    BY <2>11, <2>13, <2>14 DEF Adds
  <2>16. out.o = Len(s) /\ o' = o + Len(s)
    <3>1. out.o = Len(s)  BY <2>14, <2>15
    <3>2. (o + Len(s)) % Word = o + Len(s)  BY <1>2, <2>14, Unwrapped
    <3>3. QED  BY <2>6, <3>1, <3>2
  <2>17. Holds(buffer', q, s, Room) /\ Preserves(buffer, buffer', q)
    BY <1>2, <1>3, <2>6, <2>15
  <2>18. Holds(buffer', o, s, n - o) /\ Preserves(buffer, buffer', o)
    BY <1>2, <1>3, <2>17, IntoTheRoom
  <2>19. Adds(Here, Here', s, 0, n)
    <3>1. Here.buf = buffer /\ Here.o = o /\ Here'.buf = buffer' /\ Here'.o = o' /\ 0 + o = o
      BY <1>2 DEF Here
    <3>2. QED  BY <2>16, <2>18, <3>1 DEF Adds
  <2>20. DOMAIN buffer' = Cells(0, 0, o', n)
    <3>1. DOMAIN out.buf = Cells(0, 0, o, n) \cup Cells(q, 0, out.o, Room)  BY <1>2, <2>13 DEF Emitted
    <3>2. PICK m \in Nat : m = out.o  BY <2>14, <2>16
    <3>3. Cells(0, 0, o, n) \cup Cells(q, 0, m, Room) = Cells(0, 0, o + m, n)  BY <1>2, <1>3 DEF Cells
    <3>4. QED  BY <2>6, <2>16, <3>1, <3>2, <3>3
  <2>21. Emitted(Here', {}, 0, 0, n)
    <3> DEFINE new == [buf |-> buffer', at |-> q', o |-> o', n |-> n]
    <3>1. Here' = new  BY <1>1 DEF Here, given
    <3>2. new.buf = buffer' /\ new.at = q' /\ new.o = o' /\ new.n = n
          /\ new = [buf |-> new.buf, at |-> new.at, o |-> new.o, n |-> n]
      OBVIOUS
    <3> HIDE DEF new
    <3>3. o' \in Nat /\ q' \in Int /\ (o' < n => q' = o') /\ (o' >= n => q' >= n)
      <4>1. PICK m \in Nat : m = Len(s) /\ q' = q + m /\ o' = o + m  BY <2>6, <2>14, <2>16
      <4>2. QED  BY <1>2, <4>1
    <3>4. new.o \in Nat /\ new.at \in Int /\ (new.o < n => new.at = 0 + new.o)
          /\ (new.o >= n => new.at >= 0 + n)
      BY <1>2, <3>2, <3>3
    <3>5. DOMAIN new.buf = {} \cup Cells(0, 0, new.o, n)  BY <2>20, <3>2
    <3>6. Emitted(new, {}, 0, 0, n)  BY <3>2, <3>4, <3>5 DEF Emitted
    <3>7. QED  BY <3>1, <3>6
  <2>22. stored' = Stores(d)  BY <1>1, <2>1 DEF Stores, IntegerConvs
  <2>23. QED  BY <2>14, <2>19, <2>21, <2>22
<1>5. width' \in Int /\ prec' \in Int
  <2>1. PICK w \in Nat : w = Word - 1  BY WordTyped
  <2>2. DigitCount(w, 16) \in Nat  BY DigitsCounted
  <2>3. QED  BY <1>1, <2>1, <2>2 DEF IInv
<1>6. QED  BY <1>4, <1>5, ConversionPrints

(***************************************************************************)
(* What one step keeps, and what Formatter sees of it.                      *)
(***************************************************************************)
Inv == IInv /\ Sense /\ Counted

LEMMA InitInv == Init => Inv
<1> SUFFICES ASSUME Init PROVE Counted  BY InitHolds, InitSense DEF Inv
<1>1. call \in Calls /\ p = 1 /\ o = 0  BY DEF Init
<1>2. 0 \in 0 .. Len(call)  BY <1>1, CallTyped
<1>3. p = Len(SpellingTo(call, 0)) + 1
  <2>1. Len(<< >>) = 0  OBVIOUS
  <2>2. QED  BY <1>1, <2>1, CallStarts
<1>4. Done = 0  BY <1>1, <1>2, <1>3, DoneBetween DEF Done
<1>5. QED  BY <1>1, <1>2, <1>4, TextStarts DEF Counted

LEMMA StillCounted == Counted /\ Still => Counted'
BY DEF Counted, Still

LEMMA PrintsCounted ==
  ASSUME IInv, Counted, PrintsOne
  PROVE  Counted'
<1>1. PICK m \in Nat : m = Len(call)  BY CallTyped DEF IInv
<1>2. PICK k \in 0 .. m : k = Done /\ k < m /\ Done' = k + 1 /\ call' = call
  BY <1>1 DEF Counted, PrintsOne
<1>3. k \in 0 .. Len(call) - 1 /\ k + 1 \in 0 .. Len(call)  BY <1>1, <1>2
<1>4. o' = Len(TextTo(call, k + 1))
  <2>1. o + Len(Produced(call[k + 1])) = Len(TextTo(call, k + 1))  BY <1>2, <1>3, PieceFits
  <2>2. QED  BY <1>2, <2>1 DEF PrintsOne
<1>5. QED  BY <1>2, <1>3, <1>4 DEF Counted

LEMMA StepInv ==
  ASSUME Inv, [Next]_vars
  PROVE  Inv' /\ (Promise!Next \/ UNCHANGED Promise!vars)
<1>1. Sense /\ IInv /\ Counted  BY DEF Inv
<1>2. CASE UNCHANGED vars
  <2>1. IInv'  BY <1>1, <1>2 DEF IInv, vars, given, spec, Here, Over, WritesInside
  <2>2. Sense' /\ Still  BY <1>1, <1>2, NothingSense, NothingStill
  <2>3. QED  BY <1>1, <2>1, <2>2, StillCounted, StillPromised DEF Inv
<1>3. CASE Percent \/ Flag \/ FieldWidth \/ FieldPrecision \/ LengthModifier
  <2>1. IInv'
    BY <1>1, <1>3, PercentKeeps, FlagKeeps, FieldWidthKeeps, FieldPrecisionKeeps, LengthModifierKeeps
  <2>2. Sense'  BY <1>1, <1>3, <2>1, InsideSense
  <2>3. Still  BY <1>1, <1>3, <2>1, <2>2, InsideStill
  <2>4. QED  BY <1>1, <2>1, <2>2, <2>3, StillCounted, StillPromised DEF Inv
<1>4. CASE Plain
  <2>1. IInv' /\ PrintsOne  BY <1>1, <1>4, PlainPrints
  <2>2. Sense'  BY <1>1, <1>4, <2>1, PlainSense
  <2>3. QED  BY <1>1, <2>1, <2>2, PrintsCounted, PromisePrints DEF Inv, Promise!Next
<1>5. CASE ConvertInteger \/ ConvertText \/ ConvertCount \/ ConvertOther
  <2>1. IInv' /\ PrintsOne  BY <1>1, <1>5, IntegerPrints, TextPrints, CountPrints, OtherPrints
  <2>2. Sense'  BY <1>1, <1>5, <2>1, ConvertsSense
  <2>3. QED  BY <1>1, <2>1, <2>2, PrintsCounted, PromisePrints DEF Inv, Promise!Next
<1>6. CASE Terminates
  <2>1. IInv' /\ Still  BY <1>1, <1>6, TerminatesKeeps, TerminatesStill
  <2>2. Sense'  BY <1>1, <1>6, <2>1, EndSense
  <2>3. QED  BY <1>1, <2>1, <2>2, StillCounted, StillPromised DEF Inv
<1>7. CASE PrintfReturns
  <2>1. IInv'  BY <1>1, <1>7, PrintfReturnsKeeps
  <2>2. Sense'  BY <1>1, <1>7, <2>1, EndSense
  <2>3. UNCHANGED <<call, p, o>>  BY <1>7 DEF PrintfReturns, given
  <2>4. Counted'  BY <1>1, <2>3 DEF Counted, Done
  <2>5. Promise!Shows  BY <1>1, <1>7, PromiseShows
  <2>6. QED  BY <2>1, <2>2, <2>4, <2>5 DEF Inv, Promise!Next
<1>8. QED  BY <1>2, <1>3, <1>4, <1>5, <1>6, <1>7 DEF Next

LEMMA Invariance == Spec => []Inv
<1>1. Inv /\ [Next]_vars => Inv'  BY StepInv
<1>2. QED  BY InitInv, <1>1, PTL DEF Spec

(***************************************************************************)
(* For every buffer and every call whose text has a length that an int      *)
(* holds (LengthAssumption), whatever its format asks for and however small *)
(* the buffer, no character is stored outside the buffer, no cell before    *)
(* the end of the text is skipped, and the text ends in the buffer          *)
(* (stdio.c:77, 189, 517).                                                  *)
(***************************************************************************)
THEOREM StaysInside == Spec => []WritesInside
<1>1. Inv => WritesInside  BY DEF Inv, IInv
<1>2. QED  BY Invariance, <1>1, PTL

(***************************************************************************)
(* For every such call each step takes a character of the format or leaves  *)
(* its state for a later one (stdio.c:263).                                 *)
(***************************************************************************)
THEOREM Proceeds == Spec => GoesOn
<1>1. ASSUME Inv, Next, vars' # vars PROVE p' > p \/ (p' = p /\ Stage' > Stage)
  <2>1. p \in Nat  BY <1>1 DEF Inv, IInv
  <2>2. CASE Plain \/ Percent \/ LengthModifier
    <3>1. p' = p + 1  BY <2>2 DEF Plain, Percent, LengthModifier, Consumes
    <3>2. QED  BY <2>1, <3>1
  <2>3. CASE ConvertInteger \/ ConvertText \/ ConvertCount \/ ConvertOther
    <3>1. p' = p + 1
      BY <2>3 DEF ConvertInteger, ConvertText, ConvertCount, ConvertOther, Converts, Consumes
    <3>2. QED  BY <2>1, <3>1
  <2>4. CASE Flag
    <3>1. state = "flags" /\ (p' = p + 1 \/ (p' = p /\ state' = "width"))
      BY <2>4 DEF Flag, InState, Consumes, LeavesTo
    <3>2. QED  BY <2>1, <3>1, Stages
  <2>5. CASE FieldWidth
    <3>1. state = "width" /\ (p' = p + 1 \/ (p' = p /\ state' = "modifiers"))
      BY <2>5 DEF FieldWidth, WidthStar, WidthEnd, InState, Consumes, LeavesTo
    <3>2. QED  BY <2>1, <3>1, Stages
  <2>6. CASE FieldPrecision
    <3>1. state = "prec" /\ (p' = p + 1 \/ (p' = p /\ state' = "modifiers"))
      BY <2>6 DEF FieldPrecision, InState, Consumes, LeavesTo
    <3>2. QED  BY <2>1, <3>1, Stages
  <2>7. CASE Terminates
    <3>1. p' = p /\ state' = "terminated" /\ state \in {"normal", "flags", "width", "prec", "modifiers"}
      BY <2>7, <1>1, StateNames DEF Terminates, Inv, IInv
    <3>2. QED  BY <3>1, Stages
  <2>8. CASE PrintfReturns
    <3>1. p' = p /\ state = "terminated" /\ state' = "returned"  BY <2>8 DEF PrintfReturns
    <3>2. QED  BY <3>1, Stages
  <2>9. QED  BY <1>1, <2>2, <2>3, <2>4, <2>5, <2>6, <2>7, <2>8 DEF Next
<1>2. Inv /\ [Next]_vars => [p' > p \/ (p' = p /\ Stage' > Stage)]_vars
  BY <1>1
<1>3. QED  BY <1>2, Invariance, PTL DEF Spec, GoesOn

(***************************************************************************)
(* For every such call the format and the words are read within their       *)
(* bounds, no flag, rank, width or precision leaves its range, and printf   *)
(* returns no more than the text has and shows less than the buffer holds   *)
(* (stdio.c:261, 515, 521).                                                 *)
(***************************************************************************)
THEOREM TypeCorrect == Spec => []TypeOK
<1>1. Inv => TypeOK
  <2>1. SUFFICES ASSUME Sense, IInv, Counted PROVE TypeOK  BY DEF Inv
  <2>2. Ranges /\ q \in Nat /\ o \in 0 .. Word - 1  BY <2>1, RangesHold, CountFits
  <2>3. p \in 1 .. Len(format) + 1 /\ ap \in 1 .. Len(words) + 1  BY <2>1, PlacesInside DEF Sense, IInv
  <2>4. QED  BY <2>1, <2>2, <2>3 DEF TypeOK, Ranges, Awaits, Sense, IInv
<1>2. QED  BY <1>1, Invariance, PTL

(***************************************************************************)
(* Output implements Formatter: what vsnprintf leaves in its buffer and      *)
(* printf shows is the text of the directives in their order, cut to the    *)
(* room there is, and %n stores how long it was before the cut               *)
(* (stdio.c:203-523), for every call whose text has a length that an int    *)
(* holds (LengthAssumption).  Formatter knows neither format nor states; a  *)
(* step inside a directive, and the one that ends the text, it does not see. *)
(***************************************************************************)
THEOREM MeansWhatIsAsked == Spec => FormatsAsMeant
<1>1. Inv /\ [Next]_vars => [Promise!Next]_(Promise!vars)  BY StepInv
<1>2. QED  BY InitPromised, <1>1, Invariance, PTL DEF Spec, FormatsAsMeant, Promise!Spec
================================================================================
