------------------------------ MODULE MCTerminal ------------------------------
(* A letter, a sign, the print key's star, caps lock, enter, backspace, tab,  *)
(* control and alt; two pixels to a character, both lit by the star alone.    *)
EXTENDS Terminal, TLC

MCkbdus ==
  \h1E :> "a"  @@ \h9E :> "A"  @@ \h27 :> ";"  @@ \hA7 :> ":"  @@
  \h37 :> "*"  @@ \hB7 :> "*"  @@ \h1C :> "NL" @@ \h9C :> "NL" @@
  \h0E :> "BS" @@ \h8E :> "BS" @@ \h0F :> "HT" @@ \h8F :> "HT"
MCAlphabet == {"a", "A"}
MCfont ==
  "a" :> {1} @@ "A" :> {1} @@ ";" :> {1} @@ ":" :> {1} @@ "*" :> {1, 2} @@ " " :> {}
MCTaps == {\h1E, \h27, \h1C, \h0E, \h0F, \h3A, \h1D, \h38}
MCMessages == {<<"CR", "A", "NL">>}
=============================================================================
