------------------------------- MODULE MCOutput -------------------------------
(* Words of 16 bits, shorts of 8 and characters of 4.  A call is a pair of    *)
(* directives, one of them from a small set that has something of each kind.  *)
EXTENDS Output

MCTexts == (40 :> <<"h", "e", "y">>) @@ (41 :> <<>>)
MCLetters == (0 :> "NUL") @@ (7 :> "G")

Plainly(conv, values) == Conversion(<<>>, Absent, Absent, <<>>, conv, values)

Signed ==
  {Conversion(f, w, p1, <<>>, "d", <<v>>) :
     f \in {<<>>, <<"-">>, <<"0">>, <<"+", " ">>, <<" ", "0">>, <<"-", "0">>},
     w \in {Absent, Digits(7), Star(-6)}, p1 \in {Absent, Digits(0), Star(4)}, v \in {0, 32768, 65535}}
Unsigned ==
  {Conversion(f, w, p1, <<>>, c, <<v>>) :
     f \in {<<>>, <<"#">>, <<"'">>, <<"#", "0", "'">>}, w \in {Absent, Digits(10)},
     p1 \in {Absent, Digits(6), Star(-1)}, c \in {"u", "o", "x", "X"}, v \in {0, 43981}}
Ranked ==
  {Conversion(<<>>, Absent, Absent, l, c, <<252>>) :
     l \in {<<>>, <<"h">>, <<"h", "h">>, <<"l">>, <<"z">>, <<"t">>}, c \in {"i", "u", "n"}}
  \cup {Conversion(<<>>, Absent, Absent, l, c, <<252, 9>>) :
     l \in {<<"l", "l">>, <<"j">>, <<"q">>, <<"L">>}, c \in {"i", "u"}}
Strings ==
  {Conversion(f, w, p1, <<>>, c, <<v>>) :
     f \in {<<>>, <<"-">>, <<"0">>}, w \in {Absent, Digits(5)}, p1 \in {Absent, Digits(2), Digits(0)},
     c \in {"s"}, v \in {0, 40, 41}}
  \cup {Conversion(f, w, Absent, <<>>, "c", <<v>>) :
     f \in {<<>>, <<"-">>}, w \in {Absent, Star(3)}, v \in {0, 7}}
Others == {Plainly("k", <<>>), Plainly("p", <<4096>>),
           Conversion(<<"-">>, Digits(9), Absent, <<"h">>, "P", <<4096>>)}

Some ==
  {Character("A"), Plainly("%", <<>>), Plainly("c", <<0>>), Plainly("n", <<50>>),
   Conversion(<<"'">>, Absent, Digits(7), <<>>, "u", <<43981>>),
   Conversion(<<"-">>, Star(6), Star(2), <<>>, "s", <<40>>),
   Conversion(<<"0">>, Digits(8), Absent, <<"l", "l">>, "X", <<43981, 9>>)}

All == Signed \cup Unsigned \cup Ranked \cup Strings \cup Others \cup Some

MCCalls == (All \X Some) \cup (Some \X All)
=============================================================================
