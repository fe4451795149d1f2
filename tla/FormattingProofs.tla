--------------------------- MODULE FormattingProofs ---------------------------
(***************************************************************************)
(* Lemmas about the operators of Directives and Output, whatever the state: *)
(* sequences joined one after the other, the digits of a number, what a     *)
(* call spells and passes, where EMIT and format_int write and what, and    *)
(* that it is the text Directives gives the number.                         *)
(***************************************************************************)
EXTENDS Output, FiniteSetTheorems, SequenceTheorems, TLAPS

(***************************************************************************)
(* Induction over the natural numbers, as a fact about sets of them: a set  *)
(* of numbers has a least one, because the intervals from 0 below one of    *)
(* them are the subsets of a finite set.                                    *)
(***************************************************************************)
LEMMA LeastNumber ==
  ASSUME NEW S \in SUBSET Nat, S # {}
  PROVE  \E m \in S : \A k \in S : m <= k
<1>1. PICK top \in S : TRUE  OBVIOUS
<1> DEFINE R == StrictSubsetOrdering(0 .. top)
           T == {0 .. m : m \in S \cap 0 .. top}
<1>2. IsWellFoundedOn(R, SUBSET (0 .. top))
  <2>1. IsFiniteSet(0 .. top)  BY FS_Interval
  <2>2. QED  BY <2>1, FS_StrictSubsetOrderingWellFounded, FS_FiniteSubsetsOfFinite, Zenon
<1>3. T \subseteq SUBSET (0 .. top) /\ T # {}  BY <1>1
<1>4. \A a, b \in S \cap 0 .. top : a < b => <<0 .. a, 0 .. b>> \in R
  BY DEF StrictSubsetOrdering
<1> HIDE DEF R
<1>5. \E x \in T : \A y \in T : ~ (<<y, x>> \in R)  BY <1>2, <1>3, WFMin, Zenon
<1>6. PICK m \in S \cap 0 .. top : \A y \in T : ~ (<<y, 0 .. m>> \in R)  BY <1>5
<1>7. ASSUME NEW k \in S, k < m PROVE FALSE
  <2>1. k \in S \cap 0 .. top  BY <1>1, <1>7
  <2>2. <<0 .. k, 0 .. m>> \in R  BY <2>1, <1>7, <1>4
  <2>3. QED  BY <2>1, <2>2, <1>6
<1>8. QED  BY <1>7

LEMMA Induction ==
  ASSUME NEW S \in SUBSET Nat, 0 \in S, \A k \in Nat : k \in S => k + 1 \in S
  PROVE  S = Nat
<1>1. SUFFICES ASSUME Nat \ S # {} PROVE FALSE  OBVIOUS
<1>2. PICK m \in Nat \ S : \A k \in Nat \ S : m <= k  BY <1>1, LeastNumber
<1>3. m - 1 \in S /\ m - 1 \in Nat  BY <1>2
<1>4. QED  BY <1>3, <1>2

(***************************************************************************)
(* Sequences joined: each piece follows those before it.                    *)
(***************************************************************************)
Pieces(g, k) == [i \in 1 .. k |-> g[i]]
Joins(f, g, k) == f = [i \in 1 .. k |-> IF i = 1 THEN g[i] ELSE f[i - 1] \o g[i]]

LEMMA JoinsExist ==
  ASSUME NEW g, NEW k \in Nat
  PROVE  \E f : Joins(f, g, k)
<1> DEFINE S == {m \in Nat : \E f : Joins(f, g, m)}
<1>1. 0 \in S
  <2>1. Joins([i \in 1 .. 0 |-> g[1]], g, 0)  BY DEF Joins
  <2>2. QED  BY <2>1
<1>2. ASSUME NEW m \in Nat, m \in S PROVE m + 1 \in S
  <2>1. PICK f : Joins(f, g, m)  BY <1>2
  <2> DEFINE last == IF m = 0 THEN g[1] ELSE f[m] \o g[m + 1]
             h == [i \in 1 .. m + 1 |-> IF i = m + 1 THEN last ELSE f[i]]
  <2>2. ASSUME NEW i \in 1 .. m + 1
        PROVE  h[i] = IF i = 1 THEN g[i] ELSE h[i - 1] \o g[i]
    <3>1. CASE i = m + 1
      <4>1. CASE m = 0  BY <3>1, <4>1
      <4>2. CASE m # 0
        <5>1. i - 1 = m /\ i = m + 1  BY <3>1
        <5>2. last = f[i - 1] \o g[i]  BY <5>1, <4>2, Zenon
        <5> HIDE DEF last
        <5>3. h[i] = last /\ h[i - 1] = f[i - 1] /\ i # 1  BY <3>1, <4>2
        <5>4. QED  BY <5>2, <5>3
      <4>3. QED  BY <4>1, <4>2
    <3>2. CASE i \in 1 .. m
      <4>1. h[i] = f[i] /\ (i # 1 => h[i - 1] = f[i - 1])  BY <3>2
      <4>2. f[i] = IF i = 1 THEN g[i] ELSE f[i - 1] \o g[i]  BY <3>2, <2>1 DEF Joins
      <4>3. QED  BY <4>1, <4>2
    <3>3. QED  BY <3>1, <3>2
  <2>3. Joins(h, g, m + 1)  BY <2>2 DEF Joins
  <2>4. QED  BY <2>3
<1> HIDE DEF S
<1>3. S = Nat  BY <1>1, <1>2, Induction DEF S
<1>4. QED  BY <1>3 DEF S

LEMMA FlattenUnfolds ==
  ASSUME NEW g, NEW k \in Nat \ {0}
  PROVE  \E f : Joins(f, g, k) /\ FlattenSeq(Pieces(g, k)) = f[k]
<1> DEFINE seqs == Pieces(g, k)
           f == CHOOSE f : Joins(f, g, k)
<1>1. Joins(f, g, k)  BY JoinsExist
<1>2. Len(seqs) = k  BY DEF Pieces
<1>3. \A h : Joins(h, g, k) <=> h = [i \in 1 .. Len(seqs) |-> IF i = 1 THEN seqs[i] ELSE h[i - 1] \o seqs[i]]
  <2>1. \A i \in 1 .. k : seqs[i] = g[i]  BY DEF Pieces
  <2> HIDE DEF seqs
  <2>2. QED  BY <1>2, <2>1 DEF Joins
<1>4. f = CHOOSE h : h = [i \in 1 .. Len(seqs) |-> IF i = 1 THEN seqs[i] ELSE h[i - 1] \o seqs[i]]
  BY <1>3
<1>5. FlattenSeq(seqs) = f[Len(seqs)]
  <2> HIDE DEF seqs, f
  <2>1. Len(seqs) # 0  BY <1>2
  <2>2. QED  BY <2>1, <1>4 DEF FlattenSeq
<1> HIDE DEF f
<1>6. QED  BY <1>1, <1>2, <1>5

LEMMA JoinsTyped ==
  ASSUME NEW S, NEW g, NEW k \in Nat, NEW f, Joins(f, g, k), \A i \in 1 .. k : g[i] \in Seq(S)
  PROVE  \A i \in 1 .. k : f[i] \in Seq(S)
<1> DEFINE T == {m \in Nat : \A i \in 1 .. m : i <= k => f[i] \in Seq(S)}
<1>1. 0 \in T  OBVIOUS
<1>2. ASSUME NEW m \in Nat, m \in T PROVE m + 1 \in T
  <2>1. ASSUME m + 1 <= k PROVE f[m + 1] \in Seq(S)
    <3>1. f[m + 1] = IF m + 1 = 1 THEN g[m + 1] ELSE f[m] \o g[m + 1]
      <4>1. m + 1 \in 1 .. k /\ (m + 1) - 1 = m  BY <2>1
      <4>2. f[m + 1] = IF m + 1 = 1 THEN g[m + 1] ELSE f[(m + 1) - 1] \o g[m + 1]
        BY <4>1 DEF Joins
      <4>3. QED  BY <4>1, <4>2, Zenon
    <3>2. g[m + 1] \in Seq(S)  BY <2>1
    <3>3. CASE m = 0  BY <3>1, <3>2, <3>3
    <3>4. CASE m # 0
      <4>1. f[m] \in Seq(S)  BY <1>2, <2>1, <3>4
      <4>2. f[m] \o g[m + 1] \in Seq(S)  BY <4>1, <3>2, ConcatProperties, Zenon
      <4>3. m + 1 # 1  BY <3>4
      <4>4. QED  BY <4>2, <4>3, <3>1, Zenon
    <3>5. QED  BY <3>3, <3>4
  <2>2. ASSUME NEW i \in 1 .. m + 1, i <= k PROVE f[i] \in Seq(S)
    <3>1. i = m + 1 \/ i \in 1 .. m  OBVIOUS
    <3>2. QED  BY <3>1, <2>1, <2>2, <1>2
  <2>3. QED  BY <2>2
<1> HIDE DEF T
<1>3. T = Nat  BY <1>1, <1>2, Induction DEF T
<1>4. k \in T  BY <1>3
<1>5. QED  BY <1>4 DEF T

LEMMA JoinsAgree ==
  ASSUME NEW g, NEW k \in Nat, NEW m \in Nat, m <= k, NEW f, NEW h, Joins(f, g, k), Joins(h, g, m)
  PROVE  \A i \in 1 .. m : h[i] = f[i]
<1> DEFINE T == {j \in Nat : \A i \in 1 .. j : i <= m => h[i] = f[i]}
<1>1. 0 \in T  OBVIOUS
<1>2. ASSUME NEW j \in Nat, j \in T PROVE j + 1 \in T
  <2>1. ASSUME j + 1 <= m PROVE h[j + 1] = f[j + 1]
    <3>1. j + 1 \in 1 .. k /\ j + 1 \in 1 .. m /\ (j + 1) - 1 = j  BY <2>1
    <3>2. f[j + 1] = IF j + 1 = 1 THEN g[j + 1] ELSE f[(j + 1) - 1] \o g[j + 1]  BY <3>1 DEF Joins
    <3>3. h[j + 1] = IF j + 1 = 1 THEN g[j + 1] ELSE h[(j + 1) - 1] \o g[j + 1]  BY <3>1 DEF Joins
    <3>4. j + 1 # 1 => h[j] = f[j]  BY <1>2, <2>1
    <3>5. QED  BY <3>1, <3>2, <3>3, <3>4, Zenon
  <2>2. QED  BY <2>1, <1>2
<1> HIDE DEF T
<1>3. T = Nat  BY <1>1, <1>2, Induction DEF T
<1>4. m \in T  BY <1>3
<1>5. QED  BY <1>4 DEF T

LEMMA FlattenNext ==
  ASSUME NEW S, NEW g, NEW k \in Nat, \A i \in 1 .. k + 1 : g[i] \in Seq(S)
  PROVE  /\ FlattenSeq(Pieces(g, k)) \in Seq(S)
         /\ FlattenSeq(Pieces(g, k + 1)) = FlattenSeq(Pieces(g, k)) \o g[k + 1]
<1>1. k + 1 \in Nat \ {0}  OBVIOUS
<1>2. PICK f : Joins(f, g, k + 1) /\ FlattenSeq(Pieces(g, k + 1)) = f[k + 1]
  BY <1>1, FlattenUnfolds, Zenon
<1>3. \A i \in 1 .. k + 1 : f[i] \in Seq(S)  BY <1>2, JoinsTyped
<1>4. f[k + 1] = IF k + 1 = 1 THEN g[k + 1] ELSE f[k] \o g[k + 1]
  <2>1. k + 1 \in 1 .. k + 1 /\ (k + 1) - 1 = k  OBVIOUS
  <2>2. f[k + 1] = IF k + 1 = 1 THEN g[k + 1] ELSE f[(k + 1) - 1] \o g[k + 1]  BY <2>1, <1>2 DEF Joins
  <2>3. QED  BY <2>1, <2>2, Zenon
<1>5. CASE k = 0
  <2>1. Pieces(g, k) = << >>  BY <1>5 DEF Pieces
  <2>2. FlattenSeq(Pieces(g, k)) = << >>  BY <2>1 DEF FlattenSeq
  <2>3. g[k + 1] \in Seq(S)  OBVIOUS
  <2>4. << >> \o g[k + 1] = g[k + 1] /\ << >> \in Seq(S)  BY <2>3, ConcatEmptySeq, EmptySeq, Zenon
  <2>5. f[k + 1] = g[k + 1]  BY <1>4, <1>5
  <2>6. QED  BY <2>2, <2>4, <2>5, <1>2
<1>6. CASE k # 0
  <2>1. PICK h : Joins(h, g, k) /\ FlattenSeq(Pieces(g, k)) = h[k]  BY <1>6, FlattenUnfolds
  <2>2. k \in 1 .. k /\ k <= k + 1 /\ k + 1 # 1  BY <1>6
  <2>3. h[k] = f[k]  BY <1>2, <2>1, <2>2, JoinsAgree
  <2>4. f[k] \in Seq(S)  BY <1>3, <2>2
  <2>5. QED  BY <1>2, <1>4, <2>1, <2>2, <2>3, <2>4, Zenon
<1>7. QED  BY <1>5, <1>6

(***************************************************************************)
(* The digits of a number.                                                  *)
(***************************************************************************)
Numerals(f, base, k) == f = [w \in 0 .. k |-> IF w = 0 THEN <<>> ELSE Append(f[w \div base], w % base)]

LEMMA Quotient ==
  ASSUME NEW base \in Nat, base > 1, NEW v \in Nat, v # 0
  PROVE  v \div base \in 0 .. v - 1 /\ v % base \in 0 .. base - 1 /\ v = (v \div base) * base + (v % base)
<1>1. v \div base \in 0 .. v - 1  OBVIOUS
<1>2. v % base \in 0 .. base - 1  OBVIOUS
<1>3. v = (v \div base) * base + (v % base)  OBVIOUS
<1>4. QED  BY <1>1, <1>2, <1>3

LEMMA NumeralsAt ==
  ASSUME NEW base, NEW k, NEW f, Numerals(f, base, k), NEW w \in 0 .. k, w # 0
  PROVE  f[w] = Append(f[w \div base], w % base)
<1>1. f = [i \in 0 .. k |-> IF i = 0 THEN <<>> ELSE Append(f[i \div base], i % base)]
  BY Zenon DEF Numerals
<1>2. QED  BY <1>1, Zenon

LEMMA NumeralsExist ==
  ASSUME NEW base \in Nat, base > 1, NEW k \in Nat
  PROVE  \E f : Numerals(f, base, k)
<1> DEFINE S == {m \in Nat : \E f : Numerals(f, base, m)}
<1>1. 0 \in S
  <2>1. Numerals([w \in 0 .. 0 |-> <<>>], base, 0)  BY DEF Numerals
  <2>2. QED  BY <2>1
<1>2. ASSUME NEW m \in Nat, m \in S PROVE m + 1 \in S
  <2>1. PICK f : Numerals(f, base, m)  BY <1>2
  <2> DEFINE last == Append(f[(m + 1) \div base], (m + 1) % base)
             g == [w \in 0 .. m + 1 |-> IF w = m + 1 THEN last ELSE f[w]]
  <2>2. ASSUME NEW w \in 0 .. m + 1
        PROVE  g[w] = IF w = 0 THEN <<>> ELSE Append(g[w \div base], w % base)
    <3>1. CASE w = 0  BY <3>1, <2>1 DEF Numerals
    <3>2. w # 0 => w \div base \in 0 .. m /\ w \div base < w  BY <2>2
    <3>3. CASE w = m + 1
      <4>1. last = Append(f[w \div base], w % base)  BY <3>3, Zenon
      <4> HIDE DEF last
      <4>2. g[w \div base] = f[w \div base] /\ g[w] = last  BY <3>2, <3>3
      <4>3. w # 0  BY <3>3
      <4>4. QED  BY <4>1, <4>2, <4>3, Zenon
    <3>4. CASE w \in 1 .. m
      <4> HIDE DEF last
      <4>1. g[w \div base] = f[w \div base] /\ g[w] = f[w]  BY <3>2, <3>4
      <4>2. f[w] = Append(f[w \div base], w % base)  BY <3>4, <2>1, NumeralsAt
      <4>3. w # 0  BY <3>4
      <4>4. QED  BY <4>1, <4>2, <4>3, Zenon
    <3>5. QED  BY <3>1, <3>3, <3>4
  <2> HIDE DEF last
  <2>3. Numerals(g, base, m + 1)  BY <2>2 DEF Numerals
  <2>4. QED  BY <2>3
<1> HIDE DEF S
<1>3. S = Nat  BY <1>1, <1>2, Induction DEF S
<1>4. QED  BY <1>3 DEF S

LEMMA NumeralsAgree ==
  ASSUME NEW base \in Nat, base > 1, NEW k \in Nat, NEW m \in Nat, m <= k, NEW f, NEW h,
         Numerals(f, base, k), Numerals(h, base, m)
  PROVE  \A w \in 0 .. m : h[w] = f[w]
<1> DEFINE T == {j \in Nat : \A w \in 0 .. j : w <= m => h[w] = f[w]}
<1>1. 0 \in T  BY DEF Numerals
<1>2. ASSUME NEW j \in Nat, j \in T PROVE j + 1 \in T
  <2>1. ASSUME j + 1 <= m PROVE h[j + 1] = f[j + 1]
    <3>1. PICK w \in 1 .. m : w = j + 1 /\ w \in 0 .. k /\ w # 0  BY <2>1
    <3>2. f[w] = Append(f[w \div base], w % base)  BY <3>1, NumeralsAt
    <3>3. h[w] = Append(h[w \div base], w % base)  BY <3>1, NumeralsAt, SMTT(30)
    <3>4. w \div base \in 0 .. j
      <4> w \in Nat /\ w # 0  BY <3>1
      <4>1. w \div base \in 0 .. w - 1  BY Quotient
      <4>2. QED  BY <4>1, <3>1
    <3>5. h[w \div base] = f[w \div base]  BY <3>1, <3>4, <1>2
    <3>6. QED  BY <3>1, <3>2, <3>3, <3>5, Zenon
  <2>2. QED  BY <2>1, <1>2
<1> HIDE DEF T
<1>3. T = Nat  BY <1>1, <1>2, Induction DEF T
<1>4. m \in T  BY <1>3
<1>5. QED  BY <1>4 DEF T

LEMMA NumeralUnfolds ==
  ASSUME NEW base \in Nat, base > 1, NEW v \in Nat
  PROVE  \E f : Numerals(f, base, v) /\ Numeral(v, base) = f[v]
<1> DEFINE f == CHOOSE f : Numerals(f, base, v)
<1>1. Numerals(f, base, v)  BY NumeralsExist
<1>2. Numeral(v, base) = f[v]  BY DEF Numeral, Numerals
<1> HIDE DEF f
<1>3. QED  BY <1>1, <1>2

LEMMA NumeralStep ==
  ASSUME NEW base \in Nat, base > 1, NEW v \in Nat
  PROVE  Numeral(v, base) = IF v = 0 THEN <<>> ELSE Append(Numeral(v \div base, base), v % base)
<1>1. PICK f : Numerals(f, base, v) /\ Numeral(v, base) = f[v]  BY NumeralUnfolds
<1>2. CASE v = 0  BY <1>1, <1>2 DEF Numerals
<1>3. CASE v # 0
  <2>1. v \div base \in 0 .. v - 1  BY <1>3, Quotient
  <2>2. PICK u \in 0 .. v : u = v \div base  BY <2>1
  <2>3. PICK h : Numerals(h, base, u) /\ Numeral(u, base) = h[u]  BY <2>2, NumeralUnfolds
  <2>4. h[u] = f[u]  BY <1>1, <2>2, <2>3, NumeralsAgree
  <2>5. f[v] = Append(f[u], v % base)  BY <1>1, <1>3, <2>2, NumeralsAt
  <2>6. QED  BY <1>1, <1>3, <2>2, <2>3, <2>4, <2>5, Zenon
<1>4. QED  BY <1>2, <1>3

\* s is t with e behind.
Extends(s, t, e) ==
  /\ Len(t) \in Nat /\ Len(s) = Len(t) + 1
  /\ \A i \in 1 .. Len(t) : s[i] = t[i]
  /\ s[Len(t) + 1] = e

LEMMA AppendExtends ==
  ASSUME NEW S, NEW t \in Seq(S), NEW e \in S
  PROVE  Append(t, e) \in Seq(S) /\ Extends(Append(t, e), t, e)
<1>1. Len(t) \in Nat  BY LenProperties
<1>2. QED  BY <1>1, AppendProperties DEF Extends

\* Digits below the base, none for 0 and the first of any other number not 0.
IsNumeral(s, v, base) ==
  /\ s \in Seq(0 .. base - 1)
  /\ v = 0 => s = <<>>
  /\ v # 0 => Len(s) > 0 /\ s[1] # 0

LEMMA NumeralTyped ==
  ASSUME NEW base \in Nat, base > 1, NEW v \in Nat
  PROVE  IsNumeral(Numeral(v, base), v, base)
<1> DEFINE T == {m \in Nat : \A w \in 0 .. m : IsNumeral(Numeral(w, base), w, base)}
<1>1. IsNumeral(Numeral(0, base), 0, base)
  <2>1. Numeral(0, base) = <<>>  BY NumeralStep
  <2>2. <<>> \in Seq(0 .. base - 1)  OBVIOUS
  <2>3. QED  BY <2>1, <2>2 DEF IsNumeral
<1>2. 0 \in T  BY <1>1
<1>3. ASSUME NEW m \in Nat, m \in T PROVE m + 1 \in T
  <2>1. PICK w \in Nat : w = m + 1 /\ w # 0  OBVIOUS
  <2>2. PICK u \in 0 .. m : u = w \div base
    <3>1. w \div base \in 0 .. w - 1  BY <2>1, Quotient
    <3>2. QED  BY <2>1, <3>1
  <2>3. PICK e \in 0 .. base - 1 : e = w % base  BY <2>1, Quotient
  <2>4. PICK s : s = Numeral(u, base)  OBVIOUS
  <2>5. IsNumeral(s, u, base)  BY <1>3, <2>2, <2>4
  <2>6. Numeral(w, base) = Append(s, e)
    BY <2>1, <2>2, <2>3, <2>4, NumeralStep
  <2>7. Append(s, e) \in Seq(0 .. base - 1) /\ Extends(Append(s, e), s, e)
    BY <2>3, <2>5, AppendExtends, Zenon DEF IsNumeral
  <2> DEFINE t == Append(s, e)
  <2>8. t = Numeral(w, base) /\ t \in Seq(0 .. base - 1) /\ Extends(t, s, e)  BY <2>6, <2>7
  <2> HIDE DEF t
  <2>9. t[1] # 0
    <3>1. CASE u = 0
      <4>1. Len(s) = 0  BY <2>5, <3>1 DEF IsNumeral
      <4>2. e # 0
        <5>1. w = (w \div base) * base + (w % base)  BY <2>1, Quotient
        <5>2. 0 * base = 0  OBVIOUS
        <5>3. QED  BY <5>1, <5>2, <2>1, <2>2, <2>3, <3>1
      <4>3. QED  BY <4>1, <4>2, <2>8 DEF Extends
    <3>2. CASE u # 0  BY <3>2, <2>5, <2>8 DEF IsNumeral, Extends
    <3>3. QED  BY <3>1, <3>2
  <2>10. IsNumeral(Numeral(w, base), w, base)
    BY <2>1, <2>8, <2>9 DEF IsNumeral, Extends
  <2>11. QED  BY <1>3, <2>1, <2>10
<1> HIDE DEF T
<1>4. T = Nat  BY <1>2, <1>3, Induction DEF T
<1>5. v \in T  BY <1>4
<1>6. QED  BY <1>5 DEF T

\* The same, as it is used: the digits of a number are those of its quotient and one more.
LEMMA NumeralLast ==
  ASSUME NEW base \in Nat, base > 1, NEW v \in Nat, v # 0
  PROVE  /\ v \div base \in 0 .. v - 1 /\ v % base \in 0 .. base - 1
         /\ Extends(Numeral(v, base), Numeral(v \div base, base), v % base)
<1>1. v \div base \in 0 .. v - 1 /\ v % base \in 0 .. base - 1  BY Quotient
<1>2. PICK u \in Nat : u = v \div base /\ u < v  BY <1>1
<1>3. Numeral(u, base) \in Seq(0 .. base - 1)  BY <1>2, NumeralTyped DEF IsNumeral
<1>4. Numeral(v, base) = Append(Numeral(u, base), v % base)  BY <1>2, NumeralStep
<1>5. Extends(Append(Numeral(u, base), v % base), Numeral(u, base), v % base)
  BY <1>1, <1>3, AppendExtends, Zenon
<1>6. QED  BY <1>1, <1>2, <1>4, <1>5

\* The first r elements of t are s.
Leads(s, t, r) == Len(s) = r /\ r <= Len(t) /\ \A i \in 1 .. r : s[i] = t[i]

\* Digits are those of one number only, and the first digits those of a smaller one.
LEMMA NumeralOrder ==
  ASSUME NEW w \in Nat, NEW u \in Nat, NEW c \in Nat, Leads(Numeral(u, 10), Numeral(w, 10), c)
  PROVE  u <= w /\ (c = Len(Numeral(w, 10)) => u = w)
<1> DEFINE P(x) == \A y, r \in Nat : Leads(Numeral(y, 10), Numeral(x, 10), r) =>
                     y <= x /\ (r = Len(Numeral(x, 10)) => y = x)
           T == {m \in Nat : \A x \in 0 .. m : P(x)}
<1>1. \A x \in Nat : /\ Len(Numeral(x, 10)) \in Nat
                     /\ Len(Numeral(x, 10)) = 0 <=> x = 0
  <2>1. ASSUME NEW x \in Nat
        PROVE  Len(Numeral(x, 10)) \in Nat /\ (Len(Numeral(x, 10)) = 0 <=> x = 0)
    <3>1. IsNumeral(Numeral(x, 10), x, 10)  BY NumeralTyped
    <3>2. QED  BY <3>1, EmptySeq, LenProperties DEF IsNumeral
  <2>2. QED  BY <2>1
<1>2. P(0)
  <2>1. ASSUME NEW y \in Nat, NEW r \in Nat, Leads(Numeral(y, 10), Numeral(0, 10), r)
        PROVE  y = 0
    BY <1>1, <2>1 DEF Leads
  <2>2. QED  BY <2>1
<1>3. ASSUME NEW m \in Nat, m \in T PROVE m + 1 \in T
  <2>1. PICK x \in Nat : x = m + 1 /\ x # 0  OBVIOUS
  <2>2. PICK half \in 0 .. m : half = x \div 10  BY <2>1
  <2>3. P(half)  BY <1>3, <2>2
  <2>4. ASSUME NEW y \in Nat, NEW r \in Nat, Leads(Numeral(y, 10), Numeral(x, 10), r)
        PROVE  y <= x /\ (r = Len(Numeral(x, 10)) => y = x)
    <3>1. PICK L \in Nat : L = Len(Numeral(half, 10))  BY <1>1, <2>2
    <3>2. /\ Len(Numeral(x, 10)) = L + 1
          /\ \A i \in 1 .. L : Numeral(x, 10)[i] = Numeral(half, 10)[i]
          /\ Numeral(x, 10)[L + 1] = x % 10
      <4>1. Extends(Numeral(x, 10), Numeral(x \div 10, 10), x % 10)  BY <2>1, NumeralLast
      <4>2. Extends(Numeral(x, 10), Numeral(half, 10), x % 10)  BY <4>1, <2>2, Zenon
      <4>3. QED  BY <4>2, <3>1 DEF Extends
    <3>3. CASE r <= L
      <4>1. Leads(Numeral(y, 10), Numeral(half, 10), r)  BY <2>4, <3>1, <3>2, <3>3 DEF Leads
      <4>2. y <= half  BY <4>1, <2>3
      <4>3. QED  BY <4>2, <3>2, <3>3, <2>1, <2>2
    <3>4. CASE r = L + 1
      <4>1. y # 0 /\ Len(Numeral(y, 10)) = L + 1  BY <1>1, <2>4, <3>4 DEF Leads
      <4>2. PICK z \in Nat : z = y \div 10  OBVIOUS
      <4>3. Extends(Numeral(y, 10), Numeral(z, 10), y % 10)
        <5>1. Extends(Numeral(y, 10), Numeral(y \div 10, 10), y % 10)  BY <4>1, NumeralLast
        <5>2. QED  BY <5>1, <4>2, Zenon
      <4>4. Leads(Numeral(z, 10), Numeral(half, 10), L)
        BY <4>1, <4>3, <2>4, <3>1, <3>2, <3>4, SMTT(30) DEF Leads, Extends
      <4>5. z = half  BY <4>4, <2>3, <3>1
      <4>6. y % 10 = x % 10  BY <4>1, <4>3, <2>4, <3>2, <3>4, SMTT(30) DEF Leads, Extends
      <4>7. QED  BY <4>2, <4>5, <4>6, <2>2
    <3>5. r <= L + 1  BY <2>4, <3>2 DEF Leads
    <3>6. QED  BY <3>3, <3>4, <3>5, <3>1
  <2>5. P(x)  BY <2>4
  <2>6. QED  BY <1>3, <2>1, <2>5
<1> HIDE DEF P
<1>4. 0 \in T  BY <1>2
<1> HIDE DEF T
<1>5. T = Nat
  <2>1. \A k \in Nat : k \in T => k + 1 \in T  BY <1>3
  <2>2. T \in SUBSET Nat  BY DEF T
  <2>3. QED  BY <1>4, <2>1, <2>2, Induction
<1>6. P(w)
  <2>1. w \in T  BY <1>5
  <2>2. QED  BY <2>1 DEF T
<1>7. QED  BY <1>6 DEF P

\* One digit more.
LEMMA NumeralGrows ==
  ASSUME NEW w \in Nat, NEW u \in Nat, NEW c \in Nat, Leads(Numeral(u, 10), Numeral(w, 10), c),
         c < Len(Numeral(w, 10))
  PROVE  LET digit == Numeral(w, 10)[c + 1]
         IN /\ digit \in 0 .. 9 /\ u * 10 + digit \in Nat
            /\ Leads(Numeral(u * 10 + digit, 10), Numeral(w, 10), c + 1)
<1> DEFINE digit == Numeral(w, 10)[c + 1]
<1>1. IsNumeral(Numeral(w, 10), w, 10) /\ IsNumeral(Numeral(u, 10), u, 10)  BY NumeralTyped
<1>2. digit \in 0 .. 9
  <2>1. Numeral(w, 10) \in Seq(0 .. 9)  BY <1>1 DEF IsNumeral
  <2>2. Len(Numeral(w, 10)) \in Nat  BY <2>1, LenProperties
  <2>3. c + 1 \in 1 .. Len(Numeral(w, 10))  BY <2>2
  <2>4. QED  BY <2>1, <2>3, ElementOfSeq
<1>3. u * 10 + digit # 0
  <2>1. CASE c = 0
    <3>1. w # 0  BY <1>1 DEF IsNumeral
    <3>2. digit # 0  BY <3>1, <1>1, <2>1 DEF IsNumeral
    <3>3. QED  BY <3>2, <1>2, SMTT(30)
  <2>2. CASE c # 0
    <3>1. u # 0  BY <1>1, <2>2 DEF IsNumeral, Leads
    <3>2. QED  BY <3>1, <1>2, SMTT(30)
  <2>3. QED  BY <2>1, <2>2
<1> HIDE DEF digit
<1>4. PICK v \in Nat : v = u * 10 + digit /\ v # 0 /\ v \div 10 = u /\ v % 10 = digit
  <2>1. (u * 10 + digit) \div 10 = u /\ (u * 10 + digit) % 10 = digit /\ u * 10 + digit \in Nat
    BY <1>2
  <2>2. QED  BY <2>1, <1>3
<1>5. /\ Len(Numeral(v, 10)) = c + 1
      /\ \A i \in 1 .. c : Numeral(v, 10)[i] = Numeral(u, 10)[i]
      /\ Numeral(v, 10)[c + 1] = digit
  <2>1. Extends(Numeral(v, 10), Numeral(v \div 10, 10), v % 10)  BY <1>4, NumeralLast
  <2>2. Extends(Numeral(v, 10), Numeral(u, 10), digit)  BY <2>1, <1>4, Zenon
  <2>3. QED  BY <2>2 DEF Leads, Extends
<1>6. Len(Numeral(w, 10)) \in Nat  BY <1>1, LenProperties DEF IsNumeral
<1>7. Leads(Numeral(v, 10), Numeral(w, 10), c + 1)
  BY <1>5, <1>6 DEF Leads, digit
<1>8. QED  BY <1>2, <1>4, <1>7 DEF digit

(***************************************************************************)
(* Where a piece of the whole is: after the pieces before it.               *)
(***************************************************************************)
Follows(u, s, t) ==
  /\ Len(s) \in Nat /\ Len(t) \in Nat /\ Len(u) = Len(s) + Len(t)
  /\ \A i \in 1 .. Len(s) : u[i] = s[i]
  /\ \A i \in 1 .. Len(t) : u[Len(s) + i] = t[i]

LEMMA JoinAt ==
  ASSUME NEW S, NEW s \in Seq(S), NEW t \in Seq(S)
  PROVE  s \o t \in Seq(S) /\ Follows(s \o t, s, t)
<1>1. Len(s) \in Nat /\ Len(t) \in Nat  BY LenProperties
<1>2. /\ s \o t \in Seq(S) /\ Len(s \o t) = Len(s) + Len(t)
      /\ \A i \in 1 .. Len(s) + Len(t) : (s \o t)[i] = IF i <= Len(s) THEN s[i] ELSE t[i - Len(s)]
  BY ConcatProperties, Zenon
<1>3. PICK a \in Nat, b \in Nat : a = Len(s) /\ b = Len(t)  BY <1>1
<1>4. PICK f : f = s \o t  OBVIOUS
<1>5. \A i \in 1 .. a + b : f[i] = IF i <= a THEN s[i] ELSE t[i - a]  BY <1>2, <1>3, <1>4, Zenon
<1>6. ASSUME NEW i \in 1 .. b PROVE f[a + i] = t[i]
  <2>1. a + i \in 1 .. a + b /\ ~ (a + i <= a) /\ (a + i) - a = i  OBVIOUS
  <2>2. f[a + i] = t[(a + i) - a]  BY <2>1, <1>5, Zenon
  <2>3. QED  BY <2>1, <2>2
<1>7. \A i \in 1 .. a : f[i] = s[i]  BY <1>5
<1>8. Follows(f, s, t)  BY <1>2, <1>3, <1>4, <1>6, <1>7 DEF Follows
<1>9. QED  BY <1>2, <1>4, <1>8

\* From the place off on t is in u.
HasPart(u, off, t) ==
  /\ off \in Nat /\ Len(t) \in Nat /\ off + Len(t) <= Len(u)
  /\ \A i \in 1 .. Len(t) : u[off + i] = t[i]

LEMMA PartAdded ==
  ASSUME NEW u, NEW s, NEW t, Follows(u, s, t)
  PROVE  HasPart(u, Len(s), t)
BY DEF Follows, HasPart

LEMMA PartKept ==
  ASSUME NEW u, NEW s, NEW t, Follows(u, s, t), NEW off, NEW x, HasPart(s, off, x)
  PROVE  HasPart(u, off, x)
<1>1. ASSUME NEW i \in 1 .. Len(x) PROVE u[off + i] = x[i]
  <2>1. off + i \in 1 .. Len(s)  BY DEF Follows, HasPart
  <2>2. u[off + i] = s[off + i]  BY <2>1 DEF Follows
  <2>3. QED  BY <2>2 DEF HasPart
<1>2. QED  BY <1>1 DEF Follows, HasPart

Joined(g, k) == FlattenSeq(Pieces(g, k))

LEMMA JoinedLeads ==
  ASSUME NEW S, NEW g, NEW top \in Nat, \A i \in 1 .. top : g[i] \in Seq(S), NEW k \in 0 .. top
  PROVE  /\ Joined(g, k) \in Seq(S) /\ Joined(g, top) \in Seq(S)
         /\ Leads(Joined(g, k), Joined(g, top), Len(Joined(g, k)))
<1>1. Joined(g, 0) = << >>
  <2>1. Pieces(g, 0) = << >>  BY DEF Pieces
  <2>2. QED  BY <2>1 DEF Joined, FlattenSeq
<1>2. \A m \in 0 .. top - 1 : Joined(g, m) \in Seq(S) /\ Joined(g, m + 1) = Joined(g, m) \o g[m + 1]
  BY FlattenNext DEF Joined
<1>3. ASSUME NEW m \in 0 .. top PROVE Joined(g, m) \in Seq(S)
  <2>1. CASE m = 0
    <3>1. << >> \in Seq(S)  OBVIOUS
    <3>2. QED  BY <3>1, <2>1, <1>1
  <2>2. CASE m # 0
    <3>1. PICK j \in 0 .. top - 1 : m = j + 1
      <4>1. m - 1 \in 0 .. top - 1 /\ m = (m - 1) + 1  BY <2>2
      <4>2. QED  BY <4>1
    <3>2. Joined(g, j) \in Seq(S) /\ Joined(g, m) = Joined(g, j) \o g[m] /\ g[m] \in Seq(S)
      BY <1>2, <3>1
    <3>3. QED  BY <3>2, JoinAt, Zenon
  <2>3. QED  BY <2>1, <2>2
<1> DEFINE T == {m \in Nat : k <= m /\ m <= top => Leads(Joined(g, k), Joined(g, m), Len(Joined(g, k)))}
<1>4. Leads(Joined(g, k), Joined(g, k), Len(Joined(g, k)))
  <2>1. Len(Joined(g, k)) \in Nat  BY <1>3, LenProperties
  <2>2. QED  BY <2>1 DEF Leads
<1>5. 0 \in T  BY <1>4
<1>6. ASSUME NEW m \in Nat, m \in T PROVE m + 1 \in T
  <2> SUFFICES ASSUME k <= m + 1, m + 1 <= top
               PROVE  Leads(Joined(g, k), Joined(g, m + 1), Len(Joined(g, k)))
    OBVIOUS
  <2>1. CASE k = m + 1  BY <2>1, <1>4
  <2>2. CASE k <= m
    <3>1. Leads(Joined(g, k), Joined(g, m), Len(Joined(g, k)))  BY <1>6, <2>2
    <3>2. PICK s : s = Joined(g, m)  OBVIOUS
    <3>3. s \in Seq(S) /\ g[m + 1] \in Seq(S) /\ Joined(g, m + 1) = s \o g[m + 1]
      <4>1. m \in 0 .. top - 1 /\ m + 1 \in 1 .. top  OBVIOUS
      <4>2. QED  BY <4>1, <1>2, <3>2
    <3>4. PICK t : t = Joined(g, m + 1)  OBVIOUS
    <3>5. Follows(t, s, g[m + 1])
      BY <3>3, <3>4, JoinAt, Zenon
    <3>6. PICK r \in Nat : r = Len(Joined(g, k))
      <4>1. Joined(g, k) \in Seq(S)  BY <1>3
      <4>2. QED  BY <4>1, LenProperties
    <3>7. Leads(Joined(g, k), t, r)  BY <3>1, <3>2, <3>5, <3>6 DEF Leads, Follows
    <3>8. QED  BY <3>4, <3>6, <3>7
  <2>3. QED  BY <2>1, <2>2
<1> HIDE DEF T
<1>7. T = Nat
  <2>1. T \in SUBSET Nat  BY DEF T
  <2>2. QED  BY <1>5, <1>6, <2>1, Induction
<1>8. top \in T /\ top \in 0 .. top  BY <1>7
<1>9. QED  BY <1>3, <1>8 DEF T

LEMMA JoinedAt ==
  ASSUME NEW S, NEW g, NEW top \in Nat, \A i \in 1 .. top : g[i] \in Seq(S), NEW k \in 0 .. top - 1
  PROVE  /\ Follows(Joined(g, k + 1), Joined(g, k), g[k + 1])
         /\ HasPart(Joined(g, top), Len(Joined(g, k)), g[k + 1])
<1>1. k \in 0 .. top /\ k + 1 \in 0 .. top  OBVIOUS
<1>2. PICK s, t, w, e : s = Joined(g, k) /\ t = Joined(g, k + 1) /\ w = Joined(g, top) /\ e = g[k + 1]
  OBVIOUS
<1>3. s \in Seq(S) /\ t \in Seq(S) /\ e \in Seq(S)  BY <1>1, <1>2, JoinedLeads
<1>4. t = s \o e
  <2>1. \A i \in 1 .. k + 1 : g[i] \in Seq(S)  OBVIOUS
  <2>2. k \in Nat  OBVIOUS
  <2>3. FlattenSeq(Pieces(g, k + 1)) = FlattenSeq(Pieces(g, k)) \o g[k + 1]
    BY <2>1, <2>2, FlattenNext, Zenon
  <2>4. QED  BY <1>2, <2>3, Zenon DEF Joined
<1>5. Leads(t, w, Len(t))  BY <1>1, <1>2, JoinedLeads
<1>6. Follows(t, s, e)  BY <1>3, <1>4, JoinAt, Zenon
<1>7. ASSUME NEW j \in 1 .. Len(e) PROVE w[Len(s) + j] = e[j]
  <2>1. Len(s) + j \in 1 .. Len(t)  BY <1>6 DEF Follows
  <2>2. w[Len(s) + j] = t[Len(s) + j]  BY <1>5, <2>1 DEF Leads
  <2>3. QED  BY <2>2, <1>6 DEF Follows
<1>8. Len(t) <= Len(w)  BY <1>5 DEF Leads
<1>9. HasPart(w, Len(s), e)  BY <1>6, <1>7, <1>8 DEF Follows, HasPart
<1>10. QED  BY <1>2, <1>6, <1>9

(***************************************************************************)
(* How a directive is spelled, part by part, and what it passes.            *)
(***************************************************************************)
Glyphs ==
  STRING \cup FlagCharacters
    \cup {"0", "1", "2", "3", "4", "5", "6", "7", "8", "9", "%", "*", ".", "h", "l", "j", "z", "t", "L", "q"}
    \cup {"a", "b", "c", "d", "e", "f", "A", "B", "C", "D", "E", "F", "x", "X", "_", "(", ")", "n", "u", "NUL"}

LEMMA GlyphsHave ==
  /\ STRING \subseteq Glyphs /\ FlagCharacters \subseteq Glyphs
  /\ "%" \in Glyphs /\ "*" \in Glyphs /\ "." \in Glyphs /\ " " \in Glyphs /\ "0" \in Glyphs
  /\ "h" \in Glyphs /\ "l" \in Glyphs /\ "j" \in Glyphs /\ "z" \in Glyphs /\ "t" \in Glyphs
  /\ "L" \in Glyphs /\ "q" \in Glyphs /\ "NUL" \in Glyphs /\ "_" \in Glyphs
BY Zenon DEF Glyphs, FlagCharacters

LEMMA DecimalGlyphs ==
  /\ ToSet(Decimals) = {"0", "1", "2", "3", "4", "5", "6", "7", "8", "9"}
  /\ \A i \in 0 .. 9 : Decimals[i + 1] \in Glyphs
<1>1. DOMAIN Decimals = 1 .. 10  BY DEF Decimals
<1>2. ToSet(Decimals) = {"0", "1", "2", "3", "4", "5", "6", "7", "8", "9"}
  BY <1>1 DEF ToSet, Decimals
<1>3. ToSet(Decimals) \subseteq Glyphs  BY <1>2, Zenon DEF Glyphs
<1>4. ASSUME NEW i \in 0 .. 9 PROVE Decimals[i + 1] \in Glyphs
  <2>1. i + 1 \in DOMAIN Decimals  BY <1>1
  <2>2. QED  BY <2>1, <1>3 DEF ToSet
<1>5. QED  BY <1>2, <1>4

LEMMA WordTyped == Word \in Nat /\ Word > 3 /\ Word \div 2 \in Nat /\ Word \div 2 > 1 /\ Word \div 2 < Word
BY DirectivesAssumption

LEMMA Short ==
  ASSUME NEW S, NEW c \in S
  PROVE  /\ <<>> \in Seq(S) /\ Len(<<>>) = 0
         /\ <<c>> \in Seq(S) /\ Len(<<c>>) = 1 /\ <<c>>[1] = c
         /\ <<c, c>> \in Seq(S) /\ Len(<<c, c>>) = 2
OBVIOUS

LEMMA NumberSpelled ==
  ASSUME NEW w, IsNumber(w)
  PROVE  /\ NumberSpelling(w) \in Seq(Glyphs) /\ NumberPassed(w) \in Seq(0 .. Word - 1)
         /\ w.n \in Int /\ w.n < Word \div 2 /\ -w.n < Word \div 2
         /\ w.form = "star" => NumberSpelling(w) = <<"*">> /\ NumberPassed(w) = <<w.n % Word>>
         /\ w.form # "star" =>
              /\ NumberPassed(w) = <<>> /\ w.n \in Nat
              /\ Len(NumberSpelling(w)) = Len(Numeral(w.n, 10))
              /\ \A i \in 1 .. Len(Numeral(w.n, 10)) : NumberSpelling(w)[i] = Decimals[Numeral(w.n, 10)[i] + 1]
<1>1. Word \in Nat /\ Word > 3 /\ Word \div 2 \in Nat /\ Word \div 2 > 1  BY WordTyped
<1>2. CASE w = Absent
  <2>1. w.form = "absent" /\ w.n = 0  BY <1>2 DEF Absent
  <2>2. NumberSpelling(w) = <<>> /\ NumberPassed(w) = <<>>  BY <2>1 DEF NumberSpelling, NumberPassed
  <2>3. Numeral(0, 10) = <<>>  BY NumeralStep
  <2>4. <<>> \in Seq(Glyphs) /\ <<>> \in Seq(0 .. Word - 1)  OBVIOUS
  <2>5. QED  BY <1>1, <2>1, <2>2, <2>3, <2>4
<1>3. CASE w = Digits(w.n) /\ w.n \in 0 .. (Word \div 2) - 1
  <2>1. w.form = "digits" /\ w.n \in Nat /\ w.n < Word \div 2  BY <1>1, <1>3 DEF Digits
  <2>2. PICK s : s = Numeral(w.n, 10)  OBVIOUS
  <2>3. s \in Seq(0 .. 9)
    <3>1. IsNumeral(s, w.n, 10)  BY <2>1, <2>2, NumeralTyped
    <3>2. QED  BY <3>1 DEF IsNumeral
  <2>4. PICK k \in Nat : k = Len(s) /\ DOMAIN s = 1 .. k /\ \A i \in 1 .. k : s[i] \in 0 .. 9
    BY <2>3, LenProperties, ElementOfSeq
  <2>5. NumberSpelling(w) = [i \in 1 .. k |-> Decimals[s[i] + 1]]
    BY <2>1, <2>2, <2>4 DEF NumberSpelling
  <2>6. \A i \in 1 .. k : Decimals[s[i] + 1] \in Glyphs  BY <2>4, DecimalGlyphs
  <2> DEFINE t == [i \in 1 .. k |-> Decimals[s[i] + 1]]
  <2>7. t \in Seq(Glyphs) /\ Len(t) = k /\ \A i \in 1 .. k : t[i] = Decimals[s[i] + 1]
    <3>1. t \in [1 .. k -> Glyphs]  BY <2>6
    <3>2. t \in UNION {[1 .. m -> Glyphs] : m \in Nat}  BY <3>1
    <3>3. t \in Seq(Glyphs)  BY <3>2, SeqDef, Zenon
    <3>4. QED  BY <3>3
  <2> HIDE DEF t
  <2>8. NumberPassed(w) = <<>>  BY <2>1 DEF NumberPassed
  <2>9. <<>> \in Seq(0 .. Word - 1)  OBVIOUS
  <2>10. NumberSpelling(w) = t  BY <2>5 DEF t
  <2>11. -w.n < Word \div 2  BY <2>1, <1>1
  <2>12. QED  BY <2>1, <2>2, <2>4, <2>7, <2>8, <2>9, <2>10, <2>11
<1>4. CASE w = Star(w.n) /\ w.n \in 1 - (Word \div 2) .. (Word \div 2) - 1
  <2>1. w.form = "star" /\ w.n \in Int /\ w.n < Word \div 2 /\ -w.n < Word \div 2
    BY <1>1, <1>4 DEF Star
  <2>2. NumberSpelling(w) = <<"*">> /\ NumberPassed(w) = <<w.n % Word>>
    BY <2>1 DEF NumberSpelling, NumberPassed
  <2>3. w.n % Word \in 0 .. Word - 1  BY <1>1, <2>1
  <2>4. <<"*">> \in Seq(Glyphs) /\ <<w.n % Word>> \in Seq(0 .. Word - 1)
    BY <2>3, GlyphsHave, Short, Zenon
  <2>5. QED  BY <2>1, <2>2, <2>4
<1>5. QED  BY <1>2, <1>3, <1>4 DEF IsNumber

LEMMA NumberWritten ==
  ASSUME NEW w, IsNumber(w)
  PROVE  w.form # "star" => w.n \in Nat /\ ~ (w.n < 0)
<1>1. w.form # "star" => w.n \in Nat  BY NumberSpelled
<1>2. QED  BY <1>1

PrecSpelling(d) == IF d.prec = Absent THEN <<>> ELSE <<".">> \o NumberSpelling(d.prec)

\* The places where the parts of a conversion end in its spelling.
FlagsEnd(d) == 1 + Len(d.flags)
WidthStop(d) == FlagsEnd(d) + Len(NumberSpelling(d.width))
PrecStop(d) == WidthStop(d) + Len(PrecSpelling(d))
LengthEnd(d) == PrecStop(d) + Len(d.length)

LEMMA PrecSpelled ==
  ASSUME NEW d, IsNumber(d.prec)
  PROVE  /\ PrecSpelling(d) \in Seq(Glyphs)
         /\ d.prec # Absent => /\ Len(PrecSpelling(d)) = 1 + Len(NumberSpelling(d.prec))
                               /\ PrecSpelling(d)[1] = "."
                               /\ HasPart(PrecSpelling(d), 1, NumberSpelling(d.prec))
<1>1. NumberSpelling(d.prec) \in Seq(Glyphs) /\ <<".">> \in Seq(Glyphs) /\ <<>> \in Seq(Glyphs)
  BY NumberSpelled, GlyphsHave, Short, Zenon
<1>2. <<".">> \o NumberSpelling(d.prec) \in Seq(Glyphs)
      /\ Follows(<<".">> \o NumberSpelling(d.prec), <<".">>, NumberSpelling(d.prec))
  BY <1>1, JoinAt, Zenon
<1>3. PICK t : t = <<".">> \o NumberSpelling(d.prec)  OBVIOUS
<1>4. PICK s : s = <<".">>  OBVIOUS
<1>5. t \in Seq(Glyphs) /\ Follows(t, s, NumberSpelling(d.prec))  BY <1>2, <1>3, <1>4, Zenon
<1>6. Len(s) = 1 /\ s[1] = "."  BY <1>4, Short, Zenon
<1>7. Len(t) = 1 + Len(NumberSpelling(d.prec)) /\ t[1] = "." /\ HasPart(t, Len(s), NumberSpelling(d.prec))
  <2>1. HasPart(t, Len(s), NumberSpelling(d.prec))  BY <1>5, PartAdded
  <2>2. t[1] = s[1]  BY <1>6, <1>5 DEF Follows
  <2>3. QED  BY <1>6, <1>5, <2>1, <2>2 DEF Follows
<1>8. QED  BY <1>1, <1>3, <1>6, <1>5, <1>7 DEF PrecSpelling

LEMMA ModifierTyped ==
  ASSUME NEW s \in Modifiers
  PROVE  s \in Seq(Glyphs) /\ Len(s) \in 0 .. 2
<1>1. s = <<>> \/ (\E c \in Glyphs : s = <<c>> \/ s = <<c, c>>)  BY GlyphsHave, Zenon DEF Modifiers
<1>2. s \in Seq(Glyphs) /\ (Len(s) = 0 \/ Len(s) = 1 \/ Len(s) = 2)
  BY <1>1, GlyphsHave, Short, Zenon
<1>3. QED  BY <1>2

Shaped(d) ==
  LET sp == Spelling(d)
  IN /\ sp \in Seq(Glyphs) /\ Len(sp) = LengthEnd(d) + 1
     /\ sp[1] = "%" /\ sp[LengthEnd(d) + 1] = d.conv
     /\ HasPart(sp, 1, d.flags)
     /\ HasPart(sp, FlagsEnd(d), NumberSpelling(d.width))
     /\ HasPart(sp, WidthStop(d), PrecSpelling(d))
     /\ HasPart(sp, PrecStop(d), d.length)

LEMMA ConversionSpelled ==
  ASSUME NEW d, d.kind = "conversion", IsConversion(d)
  PROVE  Shaped(d)
<1>1. PICK w, r : w = NumberSpelling(d.width) /\ r = PrecSpelling(d)  OBVIOUS
<1>2. PICK c : c = d.conv  OBVIOUS
<1>3. PICK c0 : c0 = <<"%">>  OBVIOUS
<1>4. PICK c5 : c5 = <<c>>  OBVIOUS
<1>5. Len(c0) = 1 /\ c0[1] = "%" /\ Len(c5) = 1 /\ c5[1] = d.conv  BY <1>2, <1>3, <1>4
<1>6. d.flags \in Seq(Glyphs) /\ d.length \in Seq(Glyphs)
  <2>1. QED  BY GlyphsHave, ModifierTyped, SeqMonotonic DEF IsConversion
<1>7. w \in Seq(Glyphs) /\ r \in Seq(Glyphs)  BY <1>1, NumberSpelled, PrecSpelled DEF IsConversion
<1>8. c0 \in Seq(Glyphs) /\ c5 \in Seq(Glyphs)
  <2>1. c \in Glyphs  BY <1>2, GlyphsHave DEF IsConversion
  <2>2. QED  BY <2>1, <1>3, <1>4, GlyphsHave, Short, Zenon
<1>9. PICK c1, c2, c3, c4, sp :
        /\ c1 = c0 \o d.flags /\ c2 = c1 \o w /\ c3 = c2 \o r /\ c4 = c3 \o d.length /\ sp = c4 \o c5
  OBVIOUS
<1>10. c1 \in Seq(Glyphs) /\ Follows(c1, c0, d.flags)  BY <1>6, <1>8, <1>9, JoinAt, Zenon
<1>11. c2 \in Seq(Glyphs) /\ Follows(c2, c1, w)  BY <1>7, <1>9, <1>10, JoinAt, Zenon
<1>12. c3 \in Seq(Glyphs) /\ Follows(c3, c2, r)  BY <1>7, <1>9, <1>11, JoinAt, Zenon
<1>13. c4 \in Seq(Glyphs) /\ Follows(c4, c3, d.length)  BY <1>6, <1>9, <1>12, JoinAt, Zenon
<1>14. sp \in Seq(Glyphs) /\ Follows(sp, c4, c5)  BY <1>8, <1>9, <1>13, JoinAt, Zenon
<1>15. Spelling(d) = sp
  <2>1. d.kind # "character"  OBVIOUS
  <2>2. PrecSpelling(d) = IF d.prec = Absent THEN <<>> ELSE <<".">> \o NumberSpelling(d.prec)
    BY Zenon DEF PrecSpelling
  <2>3. Spelling(d) = <<"%">> \o d.flags \o NumberSpelling(d.width) \o PrecSpelling(d) \o d.length \o <<d.conv>>
    BY <2>1, <2>2, Zenon DEF Spelling
  <2>4. QED  BY <2>3, <1>2, <1>1, <1>3, <1>4, <1>9, Zenon
<1>16. /\ Len(c1) = FlagsEnd(d) /\ Len(c2) = WidthStop(d) /\ Len(c3) = PrecStop(d)
       /\ Len(c4) = LengthEnd(d) /\ Len(sp) = LengthEnd(d) + 1
  BY <1>1, <1>5, <1>10, <1>11, <1>12, <1>13, <1>14 DEF Follows, FlagsEnd, WidthStop, PrecStop, LengthEnd
<1>17. HasPart(sp, 0, c0)
  <2>1. HasPart(c1, 0, c0)  BY <1>5, <1>10 DEF Follows, HasPart
  <2>2. QED  BY <2>1, <1>11, <1>12, <1>13, <1>14, PartKept
<1>18. HasPart(sp, 1, d.flags)
  <2>1. HasPart(c1, 1, d.flags)  BY <1>5, <1>10, PartAdded
  <2>2. QED  BY <2>1, <1>11, <1>12, <1>13, <1>14, PartKept
<1>19. HasPart(sp, FlagsEnd(d), w)
  <2>1. HasPart(c2, FlagsEnd(d), w)  BY <1>11, <1>16, PartAdded
  <2>2. QED  BY <2>1, <1>12, <1>13, <1>14, PartKept
<1>20. HasPart(sp, WidthStop(d), r)
  <2>1. HasPart(c3, WidthStop(d), r)  BY <1>12, <1>16, PartAdded
  <2>2. QED  BY <2>1, <1>13, <1>14, PartKept
<1>21. HasPart(sp, PrecStop(d), d.length)
  <2>1. HasPart(c4, PrecStop(d), d.length)  BY <1>13, <1>16, PartAdded
  <2>2. QED  BY <2>1, <1>14, PartKept
<1>22. HasPart(sp, LengthEnd(d), c5)  BY <1>14, <1>16, PartAdded
<1>23. sp[1] = "%" /\ sp[LengthEnd(d) + 1] = d.conv
  <2>1. sp[0 + 1] = c0[1] /\ sp[LengthEnd(d) + 1] = c5[1]  BY <1>5, <1>17, <1>22 DEF HasPart
  <2>2. QED  BY <2>1, <1>5
<1>24. QED  BY <1>1, <1>14, <1>15, <1>16, <1>18, <1>19, <1>20, <1>21, <1>23 DEF Shaped

\* A directive is spelled in one character or more, and passes words.
LEMMA DirectiveTyped ==
  ASSUME NEW d, IsDirective(d)
  PROVE  /\ Spelling(d) \in Seq(Glyphs) /\ Len(Spelling(d)) > 0
         /\ Passed(d) \in Seq(0 .. Word - 1)
<1>1. CASE d.kind = "character"
  <2>1. Spelling(d) = <<d.ch>> /\ Passed(d) = <<>>  BY <1>1 DEF Spelling, Passed
  <2>2. d.ch \in Glyphs  BY <1>1, GlyphsHave DEF IsDirective, IsConversion
  <2>3. <<d.ch>> \in Seq(Glyphs) /\ Len(<<d.ch>>) = 1  BY <2>2, Short, Zenon
  <2>4. <<>> \in Seq(0 .. Word - 1)  OBVIOUS
  <2>5. QED  BY <2>1, <2>3, <2>4
<1>2. CASE d.kind = "conversion"
  <2>1. IsConversion(d)  BY <1>2 DEF IsDirective
  <2>2. Spelling(d) \in Seq(Glyphs) /\ Len(Spelling(d)) = LengthEnd(d) + 1
        /\ LengthEnd(d) \in Nat /\ LengthEnd(d) >= 1
    <3>1. Shaped(d)  BY <1>2, <2>1, ConversionSpelled
    <3>2. HasPart(Spelling(d), PrecStop(d), d.length) /\ Len(Spelling(d)) = LengthEnd(d) + 1
          /\ HasPart(Spelling(d), 1, d.flags) /\ HasPart(Spelling(d), FlagsEnd(d), NumberSpelling(d.width))
          /\ HasPart(Spelling(d), WidthStop(d), PrecSpelling(d)) /\ Spelling(d) \in Seq(Glyphs)
      BY <3>1, Zenon DEF Shaped
    <3>3. PICK a, b, c, e \in Nat : /\ a = Len(d.flags) /\ b = Len(NumberSpelling(d.width))
                                    /\ c = Len(PrecSpelling(d)) /\ e = Len(d.length)
      BY <3>2, Zenon DEF HasPart
    <3>4. LengthEnd(d) = 1 + a + b + c + e
      BY <3>3, Zenon DEF FlagsEnd, WidthStop, PrecStop, LengthEnd
    <3>5. 1 + a + b + c + e \in Nat /\ 1 + a + b + c + e >= 1  OBVIOUS
    <3>6. QED  BY <3>2, <3>4, <3>5, Zenon
  <2>3. Passed(d) = NumberPassed(d.width) \o NumberPassed(d.prec) \o d.values
    BY <1>2 DEF Passed
  <2>4. NumberPassed(d.width) \in Seq(0 .. Word - 1) /\ NumberPassed(d.prec) \in Seq(0 .. Word - 1)
        /\ d.values \in Seq(0 .. Word - 1)
    BY <2>1, NumberSpelled DEF IsConversion
  <2>5. NumberPassed(d.width) \o NumberPassed(d.prec) \in Seq(0 .. Word - 1)  BY <2>4, JoinAt, Zenon
  <2>6. Passed(d) \in Seq(0 .. Word - 1)  BY <2>3, <2>4, <2>5, JoinAt, Zenon
  <2>7. Len(Spelling(d)) > 0
    <3>1. PICK k \in Nat : k = LengthEnd(d)  BY <2>2
    <3>2. k + 1 > 0  OBVIOUS
    <3>3. QED  BY <2>2, <3>1, <3>2, Zenon
  <2>8. QED  BY <2>2, <2>6, <2>7
<1>3. QED  BY <1>1, <1>2 DEF IsDirective

\* The words of a conversion: those of its width, of its precision, its own.
LEMMA ConversionPassed ==
  ASSUME NEW d, d.kind = "conversion", IsConversion(d)
  PROVE  LET a == Len(NumberPassed(d.width))  b == Len(NumberPassed(d.prec))
         IN /\ a \in Nat /\ b \in Nat /\ Len(Passed(d)) = a + b + Len(d.values)
            /\ HasPart(Passed(d), 0, NumberPassed(d.width))
            /\ HasPart(Passed(d), a, NumberPassed(d.prec))
            /\ HasPart(Passed(d), a + b, d.values)
<1>1. PICK s, t, v : s = NumberPassed(d.width) /\ t = NumberPassed(d.prec) /\ v = d.values  OBVIOUS
<1>2. s \in Seq(0 .. Word - 1) /\ t \in Seq(0 .. Word - 1) /\ v \in Seq(0 .. Word - 1)
  BY <1>1, NumberSpelled DEF IsConversion
<1>3. PICK st : st = s \o t  OBVIOUS
<1>4. PICK stv : stv = st \o v  OBVIOUS
<1>5. st \in Seq(0 .. Word - 1) /\ Follows(st, s, t)  BY <1>2, <1>3, JoinAt, Zenon
<1>6. Follows(stv, st, v)  BY <1>2, <1>4, <1>5, JoinAt, Zenon
<1>7. Passed(d) = stv  BY <1>1, <1>3, <1>4 DEF Passed
<1>8. HasPart(stv, 0, s)
  <2>1. HasPart(st, 0, s)  BY <1>5 DEF Follows, HasPart
  <2>2. QED  BY <2>1, <1>6, PartKept
<1>9. HasPart(stv, Len(s), t)
  <2>1. HasPart(st, Len(s), t)  BY <1>5, PartAdded
  <2>2. QED  BY <2>1, <1>6, PartKept
<1>10. HasPart(stv, Len(st), v)  BY <1>6, PartAdded
<1>11. Len(s) \in Nat /\ Len(t) \in Nat /\ Len(st) = Len(s) + Len(t) /\ Len(stv) = Len(st) + Len(v)
  BY <1>5, <1>6 DEF Follows
<1>12. HasPart(stv, Len(s) + Len(t), v)  BY <1>10, <1>11
<1>13. QED  BY <1>1, <1>7, <1>8, <1>9, <1>11, <1>12

(***************************************************************************)
(* The directives of a call, one after the other.                           *)
(***************************************************************************)
LEMMA CallTyped ==
  ASSUME NEW cl \in Calls
  PROVE  /\ Len(cl) \in Nat /\ cl \in [1 .. Len(cl) -> ToSet(cl)]
         /\ \A i \in 1 .. Len(cl) : IsDirective(cl[i])
<1>1. cl \in Seq(ToSet(cl)) /\ \A d \in ToSet(cl) : IsDirective(d)  BY CallsAssumption
<1>2. Len(cl) \in Nat /\ cl \in [1 .. Len(cl) -> ToSet(cl)]  BY <1>1, LenProperties
<1>3. QED  BY <1>1, <1>2

Spelled(cl) == [i \in 1 .. Len(cl) |-> Spelling(cl[i])]
PassedBy(cl) == [i \in 1 .. Len(cl) |-> Passed(cl[i])]

LEMMA CallJoined ==
  ASSUME NEW cl \in Calls, NEW k \in 0 .. Len(cl)
  PROVE  SpellingTo(cl, k) = Joined(Spelled(cl), k) /\ PassedTo(cl, k) = Joined(PassedBy(cl), k)
<1>1. Len(cl) \in Nat  BY CallTyped
<1>2. [i \in 1 .. k |-> Spelling(cl[i])] = Pieces(Spelled(cl), k)  BY <1>1 DEF Pieces, Spelled
<1>3. [i \in 1 .. k |-> Passed(cl[i])] = Pieces(PassedBy(cl), k)  BY <1>1 DEF Pieces, PassedBy
<1>4. QED  BY <1>2, <1>3, Zenon DEF SpellingTo, PassedTo, Joined

LEMMA CallStarts ==
  ASSUME NEW cl \in Calls
  PROVE  SpellingTo(cl, 0) = << >> /\ PassedTo(cl, 0) = << >>
<1>1. \A g : Joined(g, 0) = << >>
  <2>1. ASSUME NEW g PROVE Joined(g, 0) = << >>
    <3>1. Pieces(g, 0) = << >>  BY DEF Pieces
    <3>2. QED  BY <3>1 DEF Joined, FlattenSeq
  <2>2. QED  BY <2>1
<1>2. 0 \in 0 .. Len(cl)  BY CallTyped
<1>3. QED  BY <1>1, <1>2, CallJoined

LEMMA CallSpelled ==
  ASSUME NEW cl \in Calls, NEW k \in 0 .. Len(cl) - 1
  PROVE  /\ IsDirective(cl[k + 1])
         /\ Follows(SpellingTo(cl, k + 1), SpellingTo(cl, k), Spelling(cl[k + 1]))
         /\ HasPart(SpellingTo(cl, Len(cl)), Len(SpellingTo(cl, k)), Spelling(cl[k + 1]))
         /\ Follows(PassedTo(cl, k + 1), PassedTo(cl, k), Passed(cl[k + 1]))
         /\ HasPart(PassedTo(cl, Len(cl)), Len(PassedTo(cl, k)), Passed(cl[k + 1]))
<1>1. PICK top \in Nat : top = Len(cl)  BY CallTyped
<1>2. \A i \in 1 .. top : IsDirective(cl[i])  BY <1>1, CallTyped
<1>3. k \in 0 .. top - 1 /\ k \in 0 .. top /\ k + 1 \in 0 .. top /\ top \in 0 .. top /\ k + 1 \in 1 .. top  BY <1>1
<1>4. PICK f, g : f = Spelled(cl) /\ g = PassedBy(cl)  OBVIOUS
<1>5. \A i \in 1 .. top : /\ f[i] = Spelling(cl[i]) /\ f[i] \in Seq(Glyphs)
                        /\ g[i] = Passed(cl[i]) /\ g[i] \in Seq(0 .. Word - 1)
  BY <1>1, <1>2, <1>4, DirectiveTyped DEF Spelled, PassedBy
<1>6. /\ Follows(Joined(f, k + 1), Joined(f, k), f[k + 1]) /\ HasPart(Joined(f, top), Len(Joined(f, k)), f[k + 1])
  BY <1>3, <1>5, JoinedAt
<1>7. /\ Follows(Joined(g, k + 1), Joined(g, k), g[k + 1]) /\ HasPart(Joined(g, top), Len(Joined(g, k)), g[k + 1])
  BY <1>3, <1>5, JoinedAt
<1>8. \A i \in {k, k + 1, top} : SpellingTo(cl, i) = Joined(f, i) /\ PassedTo(cl, i) = Joined(g, i)
  BY <1>1, <1>3, <1>4, CallJoined
<1>9. QED  BY <1>1, <1>2, <1>3, <1>5, <1>6, <1>7, <1>8

LEMMA CallLengths ==
  ASSUME NEW cl \in Calls, NEW k \in 0 .. Len(cl)
  PROVE  /\ SpellingTo(cl, k) \in Seq(Glyphs) /\ PassedTo(cl, k) \in Seq(0 .. Word - 1)
         /\ Len(SpellingTo(cl, k)) \in Nat /\ Len(PassedTo(cl, k)) \in Nat
         /\ Len(SpellingTo(cl, k)) <= Len(SpellingTo(cl, Len(cl)))
         /\ Len(PassedTo(cl, k)) <= Len(PassedTo(cl, Len(cl)))
<1>1. PICK top \in Nat : top = Len(cl)  BY CallTyped
<1>2. PICK f, g : f = Spelled(cl) /\ g = PassedBy(cl)  OBVIOUS
<1>3. \A i \in 1 .. top : f[i] \in Seq(Glyphs) /\ g[i] \in Seq(0 .. Word - 1)
  BY <1>1, <1>2, DirectiveTyped, CallTyped DEF Spelled, PassedBy
<1>4. k \in 0 .. top /\ top \in 0 .. top  BY <1>1
<1>5. /\ Joined(f, k) \in Seq(Glyphs) /\ Leads(Joined(f, k), Joined(f, top), Len(Joined(f, k)))
  BY <1>3, <1>4, JoinedLeads
<1>6. /\ Joined(g, k) \in Seq(0 .. Word - 1) /\ Leads(Joined(g, k), Joined(g, top), Len(Joined(g, k)))
  BY <1>3, <1>4, JoinedLeads
<1>7. \A i \in {k, top} : SpellingTo(cl, i) = Joined(f, i) /\ PassedTo(cl, i) = Joined(g, i)
  BY <1>1, <1>2, <1>4, CallJoined
<1>8. Len(Joined(f, k)) \in Nat /\ Len(Joined(g, k)) \in Nat  BY <1>5, <1>6, LenProperties
<1>9. QED  BY <1>1, <1>5, <1>6, <1>7, <1>8 DEF Leads

\* The places in their order.
LEMMA PlacesOrdered ==
  ASSUME NEW d, d.kind = "conversion", IsConversion(d)
  PROVE  /\ FlagsEnd(d) \in Nat /\ WidthStop(d) \in Nat /\ PrecStop(d) \in Nat /\ LengthEnd(d) \in Nat
         /\ Len(d.flags) \in Nat /\ Len(NumberSpelling(d.width)) \in Nat
         /\ Len(PrecSpelling(d)) \in Nat /\ Len(d.length) \in Nat
         /\ FlagsEnd(d) = 1 + Len(d.flags)
         /\ WidthStop(d) = FlagsEnd(d) + Len(NumberSpelling(d.width))
         /\ PrecStop(d) = WidthStop(d) + Len(PrecSpelling(d))
         /\ LengthEnd(d) = PrecStop(d) + Len(d.length)
<1>1. PICK sp : sp = Spelling(d)  OBVIOUS
<1>2. /\ HasPart(sp, 1, d.flags) /\ HasPart(sp, FlagsEnd(d), NumberSpelling(d.width))
      /\ HasPart(sp, WidthStop(d), PrecSpelling(d)) /\ HasPart(sp, PrecStop(d), d.length)
  BY <1>1, ConversionSpelled DEF Shaped
<1>3. PICK a, b, c, e \in Nat : /\ a = Len(d.flags) /\ b = Len(NumberSpelling(d.width))
                                /\ c = Len(PrecSpelling(d)) /\ e = Len(d.length)
  BY <1>2, Zenon DEF HasPart
<1>4. /\ FlagsEnd(d) = 1 + Len(d.flags) /\ WidthStop(d) = FlagsEnd(d) + Len(NumberSpelling(d.width))
      /\ PrecStop(d) = WidthStop(d) + Len(PrecSpelling(d)) /\ LengthEnd(d) = PrecStop(d) + Len(d.length)
  BY Zenon DEF FlagsEnd, WidthStop, PrecStop, LengthEnd
<1>5. FlagsEnd(d) \in Nat /\ WidthStop(d) \in Nat /\ PrecStop(d) \in Nat  BY <1>2, Zenon DEF HasPart, FlagsEnd
<1>6. LengthEnd(d) \in Nat
  <2>1. PICK a0 \in Nat : a0 = PrecStop(d)  BY <1>5
  <2>2. a0 + e \in Nat  OBVIOUS
  <2>3. LengthEnd(d) = a0 + e  BY <1>3, <1>4, <2>1, Zenon
  <2>4. QED  BY <2>2, <2>3
<1>7. QED  BY <1>3, <1>4, <1>5, <1>6

Lengthens == {"h", "l", "j", "z", "t", "L", "q"}

LEMMA ModifierAt ==
  ASSUME NEW s \in Modifiers, NEW i \in 1 .. Len(s)
  PROVE  s[i] \in Lengthens /\ s[i] = s[1]
<1>1. s = <<>> \/ \E c \in Lengthens : s = <<c>> \/ s = <<c, c>>  BY Zenon DEF Modifiers, Lengthens
<1>2. CASE s = <<>>  BY <1>2
<1>3. ASSUME NEW c \in Lengthens, s = <<c>> PROVE s[i] \in Lengthens /\ s[i] = s[1]
  <2>1. i = 1 /\ s[1] = c  BY <1>3
  <2>2. QED  BY <2>1
<1>4. ASSUME NEW c \in Lengthens, s = <<c, c>> PROVE s[i] \in Lengthens /\ s[i] = s[1]
  <2>1. i \in {1, 2} /\ s[1] = c /\ s[2] = c  BY <1>4
  <2>2. QED  BY <2>1
<1>5. QED  BY <1>1, <1>2, <1>3, <1>4

LEMMA DigitCharacters ==
  ASSUME NEW i \in 0 .. 9
  PROVE  /\ Decimals[i + 1] \in ToSet(Decimals) /\ Decimals[i + 1] \notin {"*", "."}
         /\ i # 0 => Decimals[i + 1] \notin FlagCharacters
<1>1. DOMAIN Decimals = 1 .. 10 /\ i + 1 \in 1 .. 10  BY DEF Decimals
<1>2. Decimals[i + 1] \in ToSet(Decimals)  BY <1>1, Zenon DEF ToSet
<1>3. Decimals[i + 1] \notin {"*", "."}  BY <1>2, DecimalGlyphs
<1>4. ASSUME i # 0 PROVE Decimals[i + 1] \in {"1", "2", "3", "4", "5", "6", "7", "8", "9"}
  BY <1>4 DEF Decimals
<1>5. {"1", "2", "3", "4", "5", "6", "7", "8", "9"} \cap FlagCharacters = {}
  BY Zenon DEF FlagCharacters
<1>6. QED  BY <1>2, <1>3, <1>4, <1>5

\* What is read after c characters of a conversion.
LEMMA FlagNext ==
  ASSUME NEW d, d.kind = "conversion", IsConversion(d), NEW c \in 1 .. FlagsEnd(d) - 1
  PROVE  Spelling(d)[c + 1] = d.flags[c] /\ d.flags[c] \in FlagCharacters /\ c \in 1 .. Len(d.flags)
<1>1. FlagsEnd(d) = 1 + Len(d.flags) /\ Len(d.flags) \in Nat  BY PlacesOrdered
<1>2. c \in 1 .. Len(d.flags) /\ c + 1 = 1 + c  BY <1>1
<1>3. HasPart(Spelling(d), 1, d.flags)  BY ConversionSpelled DEF Shaped
<1>4. Spelling(d)[1 + c] = d.flags[c]  BY <1>2, <1>3 DEF HasPart
<1>5. d.flags[c] \in FlagCharacters  BY <1>2, ElementOfSeq DEF IsConversion
<1>6. QED  BY <1>2, <1>4, <1>5

LEMMA WidthNext ==
  ASSUME NEW d, d.kind = "conversion", IsConversion(d), NEW c \in FlagsEnd(d) .. WidthStop(d) - 1
  PROVE  /\ Spelling(d)[c + 1] = NumberSpelling(d.width)[c - FlagsEnd(d) + 1]
         /\ c - FlagsEnd(d) + 1 \in 1 .. Len(NumberSpelling(d.width))
<1>1. PICK a, b \in Nat : a = FlagsEnd(d) /\ b = Len(NumberSpelling(d.width)) /\ WidthStop(d) = a + b
  BY PlacesOrdered, Zenon
<1>2. c - a + 1 \in 1 .. b /\ a + (c - a + 1) = c + 1  BY <1>1
<1>3. HasPart(Spelling(d), a, NumberSpelling(d.width))  BY <1>1, ConversionSpelled DEF Shaped
<1>4. Spelling(d)[a + (c - a + 1)] = NumberSpelling(d.width)[c - a + 1]  BY <1>1, <1>2, <1>3 DEF HasPart
<1>5. QED  BY <1>1, <1>2, <1>4

LEMMA PointNext ==
  ASSUME NEW d, d.kind = "conversion", IsConversion(d)
  PROVE  /\ d.prec # Absent => /\ Spelling(d)[WidthStop(d) + 1] = "."
                               /\ PrecStop(d) = WidthStop(d) + 1 + Len(NumberSpelling(d.prec))
                               /\ Len(NumberSpelling(d.prec)) \in Nat
         /\ d.prec = Absent => PrecStop(d) = WidthStop(d)
<1>1. IsNumber(d.prec)  BY DEF IsConversion
<1>2. ASSUME d.prec # Absent
      PROVE  /\ Spelling(d)[WidthStop(d) + 1] = "."
             /\ PrecStop(d) = WidthStop(d) + 1 + Len(NumberSpelling(d.prec))
             /\ Len(NumberSpelling(d.prec)) \in Nat
  <2>1. HasPart(Spelling(d), WidthStop(d), PrecSpelling(d))  BY ConversionSpelled DEF Shaped
  <2>2. PICK b \in Nat : b = Len(NumberSpelling(d.prec))
    <3>1. NumberSpelling(d.prec) \in Seq(Glyphs)  BY <1>1, NumberSpelled
    <3>2. QED  BY <3>1, LenProperties
  <2>3. Len(PrecSpelling(d)) = 1 + b /\ PrecSpelling(d)[1] = "."  BY <1>1, <1>2, <2>2, PrecSpelled
  <2>4. 1 \in 1 .. Len(PrecSpelling(d))  BY <2>3
  <2>5. Spelling(d)[WidthStop(d) + 1] = "."  BY <2>1, <2>3, <2>4 DEF HasPart
  <2>6. QED
    <3>1. PrecStop(d) = WidthStop(d) + (1 + b) /\ WidthStop(d) \in Nat  BY <2>3, PlacesOrdered
    <3>2. QED  BY <2>2, <2>5, <3>1
<1>3. ASSUME d.prec = Absent PROVE PrecStop(d) = WidthStop(d)
  <2>1. PrecSpelling(d) = <<>>  BY <1>3 DEF PrecSpelling
  <2>2. PrecStop(d) = WidthStop(d) + 0 /\ WidthStop(d) \in Nat  BY <2>1, PlacesOrdered
  <2>3. QED  BY <2>2
<1>4. QED  BY <1>2, <1>3

LEMMA PrecNext ==
  ASSUME NEW d, d.kind = "conversion", IsConversion(d), d.prec # Absent,
         NEW c \in WidthStop(d) + 1 .. PrecStop(d) - 1
  PROVE  /\ Spelling(d)[c + 1] = NumberSpelling(d.prec)[c - WidthStop(d)]
         /\ c - WidthStop(d) \in 1 .. Len(NumberSpelling(d.prec))
<1>1. PICK a, b \in Nat : a = WidthStop(d) /\ b = Len(NumberSpelling(d.prec)) /\ PrecStop(d) = a + 1 + b
  BY PlacesOrdered, PointNext, Zenon
<1>2. PICK j \in 1 .. b : j = c - a /\ 1 + j \in 1 .. 1 + b /\ a + (1 + j) = c + 1  BY <1>1, SMTT(30)
<1>3. PICK s, t : s = PrecSpelling(d) /\ t = NumberSpelling(d.prec)  OBVIOUS
<1>4. HasPart(Spelling(d), a, s)  BY <1>1, <1>3, ConversionSpelled DEF Shaped
<1>5. HasPart(s, 1, t) /\ Len(s) = 1 + b  BY <1>1, <1>3, PrecSpelled DEF IsConversion
<1>6. Spelling(d)[a + (1 + j)] = s[1 + j]  BY <1>2, <1>4, <1>5 DEF HasPart
<1>7. s[1 + j] = t[j]  BY <1>1, <1>2, <1>3, <1>5 DEF HasPart
<1>8. QED  BY <1>1, <1>2, <1>3, <1>6, <1>7

LEMMA LengthNext ==
  ASSUME NEW d, d.kind = "conversion", IsConversion(d), NEW c \in PrecStop(d) .. LengthEnd(d) - 1
  PROVE  /\ Spelling(d)[c + 1] = d.length[c - PrecStop(d) + 1]
         /\ c - PrecStop(d) + 1 \in 1 .. Len(d.length) /\ d.length[c - PrecStop(d) + 1] \in Lengthens
<1>1. PICK a, b \in Nat : a = PrecStop(d) /\ b = Len(d.length) /\ LengthEnd(d) = a + b
  BY PlacesOrdered, Zenon
<1>2. c - a + 1 \in 1 .. b /\ a + (c - a + 1) = c + 1  BY <1>1
<1>3. HasPart(Spelling(d), a, d.length)  BY <1>1, ConversionSpelled DEF Shaped
<1>4. Spelling(d)[a + (c - a + 1)] = d.length[c - a + 1]  BY <1>1, <1>2, <1>3 DEF HasPart
<1>5. d.length[c - a + 1] \in Lengthens  BY <1>1, <1>2, ModifierAt DEF IsConversion
<1>6. QED  BY <1>1, <1>2, <1>4, <1>5

LEMMA RestNext ==
  ASSUME NEW d, d.kind = "conversion", IsConversion(d)
  PROVE  /\ Spelling(d)[PrecStop(d) + 1] \notin FlagCharacters \cup ToSet(Decimals) \cup {"*", "."}
         /\ Spelling(d)[LengthEnd(d) + 1] = d.conv /\ d.conv \notin Lengthens
<1>1. Spelling(d)[LengthEnd(d) + 1] = d.conv  BY ConversionSpelled DEF Shaped
<1>2. d.conv \notin FlagCharacters \cup ToSet(Decimals) \cup {"*", "."} /\ d.conv \notin Lengthens
  BY DEF IsConversion, Lengthens
<1>3. Lengthens \cap (FlagCharacters \cup {"*", "."}) = {} /\ Lengthens \cap ToSet(Decimals) = {}
  BY DecimalGlyphs, Zenon DEF Lengthens, FlagCharacters
<1>4. PICK a, b \in Nat : a = PrecStop(d) /\ b = Len(d.length) /\ LengthEnd(d) = a + b
  BY PlacesOrdered, Zenon
<1>5. CASE b = 0
  <2>1. LengthEnd(d) = PrecStop(d)  BY <1>4, <1>5
  <2>2. QED  BY <1>1, <1>2, <2>1
<1>6. CASE b # 0
  <2>1. a \in PrecStop(d) .. LengthEnd(d) - 1  BY <1>4, <1>6
  <2>2. Spelling(d)[a + 1] \in Lengthens  BY <2>1, LengthNext
  <2>3. QED  BY <1>1, <1>2, <1>3, <1>4, <2>2
<1>7. QED  BY <1>5, <1>6

LEMMA FlagsOver ==
  ASSUME NEW d, d.kind = "conversion", IsConversion(d)
  PROVE  Spelling(d)[FlagsEnd(d) + 1] \notin FlagCharacters
<1>1. PICK w : w = d.width  OBVIOUS
<1>2. PICK a, b \in Nat : a = FlagsEnd(d) /\ b = Len(NumberSpelling(w)) /\ WidthStop(d) = a + b
  BY <1>1, PlacesOrdered, Zenon
<1>3. CASE b = 0
  <2>1. a = WidthStop(d)  BY <1>2, <1>3
  <2>2. CASE d.prec # Absent
    <3>1. Spelling(d)[a + 1] = "."  BY <2>1, <2>2, PointNext
    <3>2. "." \notin FlagCharacters  BY Zenon DEF FlagCharacters
    <3>3. QED  BY <1>2, <3>1, <3>2
  <2>3. CASE d.prec = Absent
    <3>1. PrecStop(d) = a  BY <2>1, <2>3, PointNext
    <3>2. QED  BY <1>2, <3>1, RestNext
  <2>4. QED  BY <2>2, <2>3
<1>4. CASE b # 0
  <2>1. a \in FlagsEnd(d) .. WidthStop(d) - 1 /\ a - FlagsEnd(d) + 1 = 1  BY <1>2, <1>4
  <2>2. Spelling(d)[a + 1] = NumberSpelling(w)[1]  BY <1>1, <2>1, WidthNext
  <2>3. CASE w.form = "star"
    <3>1. NumberSpelling(w)[1] = "*"
      <4>1. NumberSpelling(w) = <<"*">>  BY <1>1, <2>3, NumberSpelled DEF IsConversion
      <4>2. QED  BY <4>1
    <3>2. "*" \notin FlagCharacters  BY Zenon DEF FlagCharacters
    <3>3. QED  BY <1>2, <2>2, <3>1, <3>2
  <2>4. CASE w.form # "star"
    <3>1. PICK s : s = Numeral(w.n, 10)  OBVIOUS
    <3>2. w.n \in Nat /\ Len(s) = b /\ \A i \in 1 .. Len(s) : NumberSpelling(w)[i] = Decimals[s[i] + 1]
      BY <1>1, <1>2, <2>4, <3>1, NumberSpelled DEF IsConversion
    <3>3. IsNumeral(s, w.n, 10)  BY <3>1, <3>2, NumeralTyped
    <3>4. s[1] \in 0 .. 9 /\ s[1] # 0
      <4>1. s \in Seq(0 .. 9) /\ w.n # 0  BY <3>2, <3>3, <1>4 DEF IsNumeral
      <4>2. 1 \in 1 .. Len(s)  BY <3>2, <1>4
      <4>3. QED  BY <4>1, <4>2, <3>3, ElementOfSeq DEF IsNumeral
    <3>5. NumberSpelling(w)[1] = Decimals[s[1] + 1]
      <4>1. 1 \in 1 .. Len(s)  BY <3>2, <1>4
      <4>2. QED  BY <4>1, <3>2
    <3>6. QED  BY <1>2, <2>2, <3>4, <3>5, DigitCharacters
  <2>5. QED  BY <2>3, <2>4
<1>5. QED  BY <1>3, <1>4

(***************************************************************************)
(* Texts: the first elements of one, one behind the other, and one cut to   *)
(* the room a buffer of a size leaves beside its NUL.                       *)
(***************************************************************************)
First(s, k) == [i \in 1 .. k |-> s[i]]

LEMMA FirstFollows ==
  ASSUME NEW s, NEW k \in Nat
  PROVE  Follows(First(s, k + 1), First(s, k), <<s[k + 1]>>) /\ Len(First(s, k)) = k
<1>1. Len(First(s, k)) = k /\ Len(First(s, k + 1)) = k + 1  BY DEF First
<1>2. \A i \in 1 .. k : First(s, k + 1)[i] = First(s, k)[i]  BY DEF First
<1>3. First(s, k + 1)[k + 1] = s[k + 1]  BY DEF First
<1>4. PICK t : t = <<s[k + 1]>> /\ Len(t) = 1 /\ t[1] = s[k + 1]
  <2>1. s[k + 1] \in {s[k + 1]}  OBVIOUS
  <2>2. Len(<<s[k + 1]>>) = 1 /\ <<s[k + 1]>>[1] = s[k + 1]  BY <2>1, Short, Zenon
  <2>3. QED  BY <2>2, Zenon
<1>5. Follows(First(s, k + 1), First(s, k), t)  BY <1>1, <1>2, <1>3, <1>4 DEF Follows
<1>6. QED  BY <1>1, <1>4, <1>5

\* c, k times.
LEMMA CopiesAt ==
  ASSUME NEW k \in Int, NEW c
  PROVE  /\ Len(Copies(k, c)) = IF k > 0 THEN k ELSE 0
         /\ \A i \in 1 .. k : Copies(k, c)[i] = c
<1>1. CASE k > 0
  <2>1. Copies(k, c) = [i \in 1 .. k |-> c]  BY <1>1 DEF Copies
  <2>2. k \in Nat  BY <1>1
  <2>3. QED  BY <1>1, <2>1, <2>2
<1>2. CASE ~ (k > 0)
  <2>1. Copies(k, c) = <<>>  BY <1>2 DEF Copies
  <2>2. Len(<<>>) = 0  OBVIOUS
  <2>3. Len(Copies(k, c)) = 0  BY <2>1, <2>2, Zenon
  <2>4. QED  BY <1>2, <2>3
<1>3. QED  BY <1>1, <1>2

\* A sequence of anything.
IsText(s) == \E S : s \in Seq(S)

LEMMA JoinTexts ==
  ASSUME NEW s, IsText(s), NEW t, IsText(t)
  PROVE  IsText(s \o t) /\ Follows(s \o t, s, t)
<1>1. PICK S : s \in Seq(S)  BY DEF IsText
<1>2. PICK T : t \in Seq(T)  BY DEF IsText
<1>3. s \in Seq(S \cup T) /\ t \in Seq(S \cup T)  BY <1>1, <1>2, SeqMonotonic
<1>4. QED  BY <1>3, JoinAt DEF IsText

LEMMA FirstOf ==
  ASSUME NEW u, IsText(u), NEW z \in Nat, z <= Len(u)
  PROVE  SubSeq(u, 1, z) = First(u, z)
<1>1. PICK S : u \in Seq(S)  BY DEF IsText
<1>2. SubSeq(u, 1, z) \in Seq(S) /\ Len(SubSeq(u, 1, z)) = z /\ \A i \in 1 .. z : SubSeq(u, 1, z)[i] = u[i]
  <2>1. \A i \in 1 .. z : u[i] \in S  BY <1>1
  <2>2. /\ SubSeq(u, 1, z) \in Seq(S)
        /\ Len(SubSeq(u, 1, z)) = IF 1 <= z THEN z - 1 + 1 ELSE 0
        /\ \A i \in 1 .. z - 1 + 1 : SubSeq(u, 1, z)[i] = u[1 + i - 1]
    BY <1>1, <2>1, SubSeqProperties
  <2>3. QED  BY <2>2
<1>3. First(u, z) \in Seq(S)
  <2>1. First(u, z) \in [1 .. z -> S]  BY <1>1 DEF First
  <2>2. First(u, z) \in UNION {[1 .. e -> S] : e \in Nat}  BY <2>1
  <2>3. QED  BY <2>2, SeqDef, Zenon
<1>4. Len(First(u, z)) = z /\ \A i \in 1 .. z : First(u, z)[i] = u[i]  BY DEF First
<1>5. QED  BY <1>2, <1>3, <1>4, SeqEqual

Fits(k, size) == IF k < size - 1 THEN k ELSE size - 1
Trimmed(u, size) == SubSeq(u, 1, Fits(Len(u), size))

LEMMA TrimmedAt ==
  ASSUME NEW u, IsText(u), NEW size \in Nat \ {0}
  PROVE  Trimmed(u, size) = First(u, Fits(Len(u), size))
<1>1. Len(u) \in Nat  BY LenProperties DEF IsText
<1>2. Fits(Len(u), size) \in Nat /\ Fits(Len(u), size) <= Len(u)  BY <1>1 DEF Fits
<1>3. QED  BY <1>2, FirstOf, Zenon DEF Trimmed

(***************************************************************************)
(* How many directives are printed: as many as lie before the next          *)
(* character of the format.                                                 *)
(***************************************************************************)
Passes(cl, at, k) == Len(SpellingTo(cl, k)) < at
DoneAt(cl, at) == CHOOSE k \in 0 .. Len(cl) : Passes(cl, at, k) /\ (k < Len(cl) => ~ Passes(cl, at, k + 1))

LEMMA SpelledOrder ==
  ASSUME NEW cl \in Calls, NEW j \in 0 .. Len(cl), NEW k \in 0 .. Len(cl), j <= k
  PROVE  /\ Len(SpellingTo(cl, j)) \in Nat /\ Len(SpellingTo(cl, k)) \in Nat
         /\ Len(SpellingTo(cl, j)) <= Len(SpellingTo(cl, k))
<1>1. PICK m \in Nat : m = Len(cl)  BY CallTyped
<1>2. PICK f : f = Spelled(cl)  OBVIOUS
<1>3. \A i \in 1 .. m : f[i] \in Seq(Glyphs)  BY <1>1, <1>2, DirectiveTyped, CallTyped DEF Spelled
<1>4. \A i \in 1 .. k : f[i] \in Seq(Glyphs)  BY <1>1, <1>3
<1>5. k \in Nat /\ j \in 0 .. k  BY <1>1
<1>6. Leads(Joined(f, j), Joined(f, k), Len(Joined(f, j)))  BY <1>4, <1>5, JoinedLeads
<1>7. SpellingTo(cl, j) = Joined(f, j) /\ SpellingTo(cl, k) = Joined(f, k)  BY <1>2, CallJoined
<1>8. Len(SpellingTo(cl, j)) \in Nat /\ Len(SpellingTo(cl, k)) \in Nat  BY CallLengths
<1>9. QED  BY <1>6, <1>7, <1>8 DEF Leads

\* c characters of directive k + 1 are taken, not yet all.
Within(cl, at, k, c) ==
  /\ k \in 0 .. Len(cl) - 1 /\ c \in Nat /\ at = Len(SpellingTo(cl, k)) + (c + 1)
  /\ Len(SpellingTo(cl, k)) + c < Len(SpellingTo(cl, k + 1))

LEMMA DoneIs ==
  ASSUME NEW cl \in Calls, NEW at \in Int, NEW k \in 0 .. Len(cl),
         Passes(cl, at, k), k < Len(cl) => ~ Passes(cl, at, k + 1)
  PROVE  DoneAt(cl, at) = k
<1>1. PICK m \in Nat : m = Len(cl)  BY CallTyped
<1>2. ASSUME NEW j \in 0 .. m, Passes(cl, at, j), j < m => ~ Passes(cl, at, j + 1) PROVE j = k
  <2>1. SUFFICES ASSUME j # k PROVE FALSE  OBVIOUS
  <2>2. CASE j < k
    <3>1. j + 1 \in 0 .. m /\ j + 1 <= k /\ j < m  BY <1>1, <2>2
    <3>2. Len(SpellingTo(cl, j + 1)) <= Len(SpellingTo(cl, k)) /\ Len(SpellingTo(cl, j + 1)) \in Nat
          /\ Len(SpellingTo(cl, k)) \in Nat
      BY <1>1, <3>1, SpelledOrder
    <3>3. Passes(cl, at, j + 1)  BY <3>2 DEF Passes
    <3>4. QED  BY <1>2, <3>1, <3>3
  <2>3. CASE k < j
    <3>1. k + 1 \in 0 .. m /\ k + 1 <= j /\ k < m  BY <1>1, <2>3
    <3>2. Len(SpellingTo(cl, k + 1)) <= Len(SpellingTo(cl, j)) /\ Len(SpellingTo(cl, k + 1)) \in Nat
          /\ Len(SpellingTo(cl, j)) \in Nat
      BY <1>1, <3>1, SpelledOrder
    <3>3. Passes(cl, at, k + 1)  BY <1>2, <3>2 DEF Passes
    <3>4. QED  BY <1>1, <3>1, <3>3
  <2>4. QED  BY <1>1, <2>1, <2>2, <2>3
<1>3. \A j \in 0 .. Len(cl) : Passes(cl, at, j) /\ (j < Len(cl) => ~ Passes(cl, at, j + 1)) => j = k  BY <1>1, <1>2
<1>4. QED  BY <1>3 DEF DoneAt

LEMMA DoneWithin ==
  ASSUME NEW cl \in Calls, NEW at, NEW k, NEW c, Within(cl, at, k, c)
  PROVE  DoneAt(cl, at) = k
<1>1. PICK m \in Nat : m = Len(cl)  BY CallTyped
<1>2. k \in 0 .. m /\ k + 1 \in 0 .. m /\ c \in Nat  BY <1>1 DEF Within
<1>3. PICK a, b \in Nat : a = Len(SpellingTo(cl, k)) /\ b = Len(SpellingTo(cl, k + 1))
  BY <1>1, <1>2, CallLengths
<1>4. at = a + (c + 1) /\ a + c < b  BY <1>3 DEF Within
<1>5. at \in Int /\ Passes(cl, at, k) /\ ~ Passes(cl, at, k + 1)  BY <1>2, <1>3, <1>4 DEF Passes
<1>6. QED  BY <1>1, <1>2, <1>5, DoneIs

LEMMA DoneBetween ==
  ASSUME NEW cl \in Calls, NEW k \in 0 .. Len(cl), NEW at, at = Len(SpellingTo(cl, k)) + 1
  PROVE  DoneAt(cl, at) = k
<1>1. PICK m \in Nat : m = Len(cl)  BY CallTyped
<1>2. PICK a \in Nat : a = Len(SpellingTo(cl, k))  BY CallLengths
<1>3. at = a + 1  BY <1>2
<1>4. Passes(cl, at, k)  BY <1>2, <1>3 DEF Passes
<1>5. ASSUME k < Len(cl) PROVE ~ Passes(cl, at, k + 1)
  <2>1. k \in 0 .. Len(cl) - 1  BY <1>1, <1>5
  <2>2. IsDirective(cl[k + 1]) /\ Follows(SpellingTo(cl, k + 1), SpellingTo(cl, k), Spelling(cl[k + 1]))
    BY <2>1, CallSpelled
  <2>3. Len(Spelling(cl[k + 1])) > 0  BY <2>2, DirectiveTyped
  <2>4. PICK e \in Nat : e = Len(Spelling(cl[k + 1]))  BY <2>2 DEF Follows
  <2>5. Len(SpellingTo(cl, k + 1)) = a + e  BY <1>2, <2>2, <2>4, Zenon DEF Follows
  <2>6. QED  BY <1>3, <2>3, <2>4, <2>5 DEF Passes
<1>6. QED  BY <1>3, <1>4, <1>5, DoneIs

\* An unfinished directive stays the one in hand until a character of another is taken.
LEMMA SameDirective ==
  ASSUME NEW cl \in Calls, NEW at, NEW next, next \in {at, at + 1}, NEW k, NEW c, Within(cl, at, k, c),
         NEW j, NEW b, Within(cl, next, j, b), b >= 1
  PROVE  j = k
<1>1. PICK m \in Nat : m = Len(cl)  BY CallTyped
<1>2. k \in 0 .. m - 1 /\ j \in 0 .. m - 1 /\ c \in Nat /\ b \in Nat  BY <1>1 DEF Within
<1>3. k \in 0 .. m /\ k + 1 \in 0 .. m /\ j \in 0 .. m /\ j + 1 \in 0 .. m  BY <1>2
<1>4. PICK x, x1, y, y1 \in Nat :
        /\ x = Len(SpellingTo(cl, k)) /\ x1 = Len(SpellingTo(cl, k + 1))
        /\ y = Len(SpellingTo(cl, j)) /\ y1 = Len(SpellingTo(cl, j + 1))
  BY <1>1, <1>3, CallLengths
<1>5. x + c < x1 /\ y + b < y1 /\ (y + b = x + c \/ y + b = x + c + 1)
  <2>1. at = x + (c + 1) /\ next = y + (b + 1) /\ x + c < x1 /\ y + b < y1  BY <1>4, Zenon DEF Within
  <2>2. PICK e, g \in Nat : e = x + c /\ g = y + b /\ at = e + 1 /\ next = g + 1  BY <1>2, <2>1
  <2>3. g = e \/ g = e + 1  BY <2>2
  <2>4. QED  BY <2>1, <2>2, <2>3
<1>6. ~ (k < j)
  <2>1. SUFFICES ASSUME k < j PROVE FALSE  OBVIOUS
  <2>2. k + 1 <= j  BY <1>2, <2>1
  <2>3. x1 <= y  BY <1>1, <1>3, <1>4, <2>2, SpelledOrder
  <2>4. QED  BY <1>2, <1>5, <2>3
<1>7. ~ (j < k)
  <2>1. SUFFICES ASSUME j < k PROVE FALSE  OBVIOUS
  <2>2. j + 1 <= k  BY <1>2, <2>1
  <2>3. y1 <= x  BY <1>1, <1>3, <1>4, <2>2, SpelledOrder
  <2>4. QED  BY <1>2, <1>5, <2>3
<1>8. QED  BY <1>2, <1>6, <1>7

(***************************************************************************)
(* The recursive functions of the model exist and unfold.                   *)
(***************************************************************************)
\* EMIT of one character after another, and how far it has got.
Emits(f, out, s, k) == f = [i \in 0 .. k |-> IF i = 0 THEN out ELSE Emit(f[i - 1], s[i])]

LEMMA EmitsExist ==
  ASSUME NEW out, NEW s, NEW k \in Nat
  PROVE  \E f : Emits(f, out, s, k)
<1> DEFINE S == {m \in Nat : \E f : Emits(f, out, s, m)}
<1>1. 0 \in S
  <2>1. Emits([i \in 0 .. 0 |-> out], out, s, 0)  BY DEF Emits
  <2>2. QED  BY <2>1
<1>2. ASSUME NEW m \in Nat, m \in S PROVE m + 1 \in S
  <2>1. PICK f : Emits(f, out, s, m)  BY <1>2
  <2> DEFINE g == [i \in 0 .. m + 1 |-> IF i = m + 1 THEN Emit(f[m], s[m + 1]) ELSE f[i]]
  <2>2. ASSUME NEW i \in 0 .. m + 1
        PROVE  g[i] = IF i = 0 THEN out ELSE Emit(g[i - 1], s[i])
    <3>1. CASE i = 0  BY <3>1, <2>1 DEF Emits
    <3>2. CASE i = m + 1
      <4>1. g[i - 1] = f[m] /\ g[i] = Emit(f[m], s[m + 1])  BY <3>2
      <4>2. QED  BY <4>1, <3>2
    <3>3. CASE i \in 1 .. m
      <4>1. g[i - 1] = f[i - 1] /\ g[i] = f[i]  BY <3>3
      <4>2. f[i] = Emit(f[i - 1], s[i])  BY <3>3, <2>1 DEF Emits
      <4>3. QED  BY <4>1, <4>2, <3>3
    <3>4. QED  BY <3>1, <3>2, <3>3
  <2>3. Emits(g, out, s, m + 1)  BY <2>2 DEF Emits
  <2>4. QED  BY <2>3
<1> HIDE DEF S
<1>3. S = Nat  BY <1>1, <1>2, Induction DEF S
<1>4. QED  BY <1>3 DEF S

LEMMA EmitAllUnfolds ==
  ASSUME NEW out, NEW s, Len(s) \in Nat
  PROVE  \E f : Emits(f, out, s, Len(s)) /\ EmitAll(out, s) = f[Len(s)]
<1> DEFINE f == CHOOSE f : Emits(f, out, s, Len(s))
<1>1. Emits(f, out, s, Len(s))  BY EmitsExist
<1>2. EmitAll(out, s) = f[Len(s)]  BY DEF EmitAll, Emits
<1> HIDE DEF f
<1>3. QED  BY <1>1, <1>2

\* The turns of the loop that writes a number.
Turn(num, base, tickskip, digits) ==
  IF num.left > 0 THEN Leftward(num, base, tickskip, digits) ELSE num

Turns(f, num0, base, tickskip, digits, k) ==
  f = [i \in 0 .. k |-> IF i = 0 THEN num0 ELSE Turn(f[i - 1], base, tickskip, digits)]

LEMMA TurnsExist ==
  ASSUME NEW num0, NEW base, NEW tickskip, NEW digits, NEW k \in Nat
  PROVE  \E f : Turns(f, num0, base, tickskip, digits, k)
<1> DEFINE T(num) == Turn(num, base, tickskip, digits)
           S == {m \in Nat : \E f : Turns(f, num0, base, tickskip, digits, m)}
<1>1. 0 \in S
  <2>1. Turns([i \in 0 .. 0 |-> num0], num0, base, tickskip, digits, 0)  BY DEF Turns
  <2>2. QED  BY <2>1
<1>2. ASSUME NEW m \in Nat, m \in S PROVE m + 1 \in S
  <2>1. PICK f : Turns(f, num0, base, tickskip, digits, m)  BY <1>2
  <2> DEFINE g == [i \in 0 .. m + 1 |-> IF i = m + 1 THEN T(f[m]) ELSE f[i]]
  <2> HIDE DEF T
  <2>2. ASSUME NEW i \in 0 .. m + 1
        PROVE  g[i] = IF i = 0 THEN num0 ELSE T(g[i - 1])
    <3>1. CASE i = 0  BY <3>1, <2>1 DEF Turns
    <3>2. CASE i = m + 1
      <4>1. g[i - 1] = f[m] /\ g[i] = T(f[m])  BY <3>2
      <4>2. QED  BY <4>1, <3>2
    <3>3. CASE i \in 1 .. m
      <4>1. g[i - 1] = f[i - 1] /\ g[i] = f[i]  BY <3>3
      <4>2. f[i] = T(f[i - 1])  BY <3>3, <2>1 DEF Turns, T
      <4>3. QED  BY <4>1, <4>2, <3>3
    <3>4. QED  BY <3>1, <3>2, <3>3
  <2>3. Turns(g, num0, base, tickskip, digits, m + 1)  BY <2>2 DEF Turns, T
  <2>4. QED  BY <2>3
<1> HIDE DEF S
<1>3. S = Nat  BY <1>1, <1>2, Induction DEF S
<1>4. QED  BY <1>3 DEF S

LEMMA WriteNumberUnfolds ==
  ASSUME NEW num0, NEW base, NEW tickskip, NEW digits, num0.left \in Nat
  PROVE  \E f : /\ Turns(f, num0, base, tickskip, digits, num0.left)
                /\ WriteNumber(num0, base, tickskip, digits) = f[num0.left].buf
<1> DEFINE f == CHOOSE f : Turns(f, num0, base, tickskip, digits, num0.left)
<1>1. Turns(f, num0, base, tickskip, digits, num0.left)  BY TurnsExist
<1>2. WriteNumber(num0, base, tickskip, digits) = f[num0.left].buf
  BY DEF WriteNumber, Turns, Turn
<1> HIDE DEF f
<1>3. QED  BY <1>1, <1>2

\* The digits of a number: none for 0, else one more than those of its quotient.
Counts(f, base, k) == f = [v \in 0 .. k |-> IF v = 0 THEN 0 ELSE f[v \div base] + 1]

LEMMA CountsExist ==
  ASSUME NEW base \in Nat, base > 1, NEW k \in Nat
  PROVE  \E f : Counts(f, base, k)
<1> DEFINE S == {m \in Nat : \E f : Counts(f, base, m)}
<1>1. 0 \in S
  <2>1. Counts([v \in 0 .. 0 |-> 0], base, 0)  BY DEF Counts
  <2>2. QED  BY <2>1
<1>2. ASSUME NEW m \in Nat, m \in S PROVE m + 1 \in S
  <2>1. PICK f : Counts(f, base, m)  BY <1>2
  <2> DEFINE g == [v \in 0 .. m + 1 |-> IF v = m + 1 THEN f[(m + 1) \div base] + 1 ELSE f[v]]
  <2>2. ASSUME NEW v \in 0 .. m + 1
        PROVE  g[v] = IF v = 0 THEN 0 ELSE g[v \div base] + 1
    <3>1. CASE v = 0  BY <3>1, <2>1 DEF Counts
    <3>2. v # 0 => v \div base \in 0 .. m /\ v \div base < v  BY <2>2
    <3>3. CASE v = m + 1
      <4>1. g[v \div base] = f[(m + 1) \div base] /\ g[v] = f[(m + 1) \div base] + 1  BY <3>2, <3>3
      <4>2. QED  BY <4>1, <3>3
    <3>4. CASE v \in 1 .. m
      <4>1. g[v \div base] = f[v \div base] /\ g[v] = f[v]  BY <3>2, <3>4
      <4>2. f[v] = f[v \div base] + 1  BY <3>4, <2>1 DEF Counts
      <4>3. QED  BY <4>1, <4>2, <3>4
    <3>5. QED  BY <3>1, <3>3, <3>4
  <2>3. Counts(g, base, m + 1)  BY <2>2 DEF Counts
  <2>4. QED  BY <2>3
<1> HIDE DEF S
<1>3. S = Nat  BY <1>1, <1>2, Induction DEF S
<1>4. QED  BY <1>3 DEF S

\* A number has digits, at least one unless it is 0 (stdio.c:84).
LEMMA DigitsCounted ==
  ASSUME NEW base \in Nat, base > 1, NEW val \in Nat
  PROVE  DigitCount(val, base) \in Nat /\ (val # 0 => DigitCount(val, base) # 0)
<1> DEFINE f == CHOOSE f : Counts(f, base, val)
<1>1. Counts(f, base, val)  BY CountsExist
<1>2. DigitCount(val, base) = f[val]  BY DEF DigitCount, Counts
<1> HIDE DEF f
<1> DEFINE S == {m \in Nat : \A v \in 0 .. m : v <= val => f[v] \in Nat}
<1>3. f[0] = 0  BY <1>1 DEF Counts
<1>4. \A v \in 1 .. val : f[v] = f[v \div base] + 1  BY <1>1 DEF Counts
<1>5. 0 \in S  BY <1>3
<1>6. ASSUME NEW m \in Nat, m \in S PROVE m + 1 \in S
  <2>1. ASSUME m + 1 <= val PROVE f[m + 1] \in Nat
    <3>1. (m + 1) \div base \in 0 .. m  OBVIOUS
    <3>2. f[(m + 1) \div base] \in Nat  BY <1>6, <3>1, <2>1
    <3>3. QED  BY <3>2, <2>1, <1>4
  <2>2. QED  BY <2>1, <1>6
<1> HIDE DEF S
<1>7. S = Nat  BY <1>5, <1>6, Induction DEF S
<1>8. \A v \in 0 .. val : f[v] \in Nat
  <2>1. val \in S  BY <1>7
  <2>2. QED  BY <2>1 DEF S
<1>9. ASSUME val # 0 PROVE f[val] # 0
  <2>1. val \div base \in 0 .. val  OBVIOUS
  <2>2. f[val] = f[val \div base] + 1  BY <1>4, <1>9
  <2>3. QED  BY <2>1, <2>2, <1>8
<1>10. QED  BY <1>2, <1>8, <1>9

(***************************************************************************)
(* Where output goes.  The character numbered k since the pointer was at b  *)
(* belongs in the cell b + k, of which there are room.  Emitted says that   *)
(* the cells written are those of D and those of the characters from start  *)
(* that there is room for.                                                  *)
(***************************************************************************)
Cells(b, start, stop, room) == {i \in (b + start) .. (b + stop) - 1 : i < b + room}

Emitted(out, D, b, start, room) ==
  /\ out = [buf |-> out.buf, at |-> out.at, o |-> out.o, n |-> room]
  /\ out.o \in Nat /\ start <= out.o /\ out.at \in Int
  /\ out.o < room => out.at = b + out.o
  /\ out.o >= room => out.at >= b + room
  /\ DOMAIN out.buf = D \cup Cells(b, start, out.o, room)

\* A count that fits into a size_t is what it is.
LEMMA Unwrapped ==
  ASSUME NEW x \in Int, 0 <= x, x < Word
  PROVE  x % Word = x
<1>1. PICK W \in Nat : W = Word /\ W > 0  BY WordTyped
<1>2. x % W = x  BY <1>1
<1>3. QED  BY <1>1, <1>2

InWord(x, y, z) == x \in Nat /\ y \in Nat /\ z \in Nat /\ (x + y) + z < Word

LEMMA InWordSums ==
  ASSUME NEW x, NEW y, NEW z, InWord(x, y, z)
  PROVE  /\ 0 + x < Word /\ (x + y) + z < Word
         /\ x + y < Word /\ (x + y) % Word = x + y
<1>1. x \in Nat /\ y \in Nat /\ z \in Nat /\ (x + y) + z < Word /\ Word \in Nat  BY WordTyped DEF InWord
<1>2. x + y \in Int /\ 0 <= x + y /\ x + y < Word /\ 0 + x < Word  BY <1>1
<1>3. (x + y) % Word = x + y  BY <1>2, Unwrapped
<1>4. QED  BY <1>1, <1>2, <1>3

LEMMA StoreDomain ==
  ASSUME NEW k, NEW c, NEW f
  PROVE  DOMAIN Put(f, k, c) = DOMAIN f \cup {k} /\ Put(f, k, c)[k] = c
BY DEF Put

LEMMA EmitKeeps ==
  ASSUME NEW out, NEW D, NEW b \in Int, NEW start \in Nat, NEW room \in Nat, NEW c,
         Emitted(out, D, b, start, room), out.o + 1 < Word
  PROVE  Emitted(Emit(out, c), D, b, start, room) /\ Emit(out, c).o = out.o + 1
<1>1. out.n = room /\ out.o \in Nat /\ (out.o + 1) % Word = out.o + 1
  <2>1. PICK k \in Nat : k = out.o  BY DEF Emitted
  <2>2. (k + 1) % Word = k + 1  BY <2>1, Unwrapped
  <2>3. QED  BY <2>1, <2>2 DEF Emitted
<1>2. CASE out.o < room
  <2> DEFINE new == [buf |-> Put(out.buf, out.at, c), at |-> out.at + 1, o |-> out.o + 1, n |-> out.n]
  <2>1. Emit(out, c) = new  BY <1>1, <1>2 DEF Emit
  <2>2. DOMAIN new.buf = DOMAIN out.buf \cup {b + out.o}
    BY <1>2, StoreDomain, ZenonT(40) DEF Emitted
  <2>3. Cells(b, start, out.o + 1, room) = Cells(b, start, out.o, room) \cup {b + out.o}
    BY <1>2 DEF Cells, Emitted
  <2>4. Emitted(new, D, b, start, room)  BY <1>1, <1>2, <2>2, <2>3 DEF Emitted
  <2>5. QED  BY <2>1, <2>4
<1>3. CASE out.o >= room
  <2> DEFINE new == [out EXCEPT !.o = @ + 1]
  <2>1. Emit(out, c) = new  BY <1>1, <1>3 DEF Emit, Emitted
  <2>2. new = [buf |-> out.buf, at |-> out.at, o |-> out.o + 1, n |-> room]  BY DEF Emitted
  <2>3. Cells(b, start, out.o + 1, room) = Cells(b, start, out.o, room)
    BY <1>3 DEF Cells, Emitted
  <2> HIDE DEF new
  <2>4. Emitted(new, D, b, start, room)  BY <1>1, <1>3, <2>2, <2>3 DEF Emitted
  <2>5. QED  BY <2>1, <2>2, <2>4
<1>4. QED  BY <1>1, <1>2, <1>3 DEF Emitted

LEMMA EmitAllKeeps ==
  ASSUME NEW out, NEW D, NEW b \in Int, NEW start \in Nat, NEW room \in Nat,
         NEW s, Len(s) \in Nat, Emitted(out, D, b, start, room), out.o + Len(s) < Word
  PROVE  Emitted(EmitAll(out, s), D, b, start, room) /\ EmitAll(out, s).o = out.o + Len(s)
<1>1. PICK f : Emits(f, out, s, Len(s)) /\ EmitAll(out, s) = f[Len(s)]  BY EmitAllUnfolds
<1> DEFINE S == {k \in Nat : k <= Len(s) => Emitted(f[k], D, b, start, room) /\ f[k].o = out.o + k}
<1>2. 0 \in S
  <2>1. f[0] = out  BY <1>1 DEF Emits
  <2>2. out.o + 0 = out.o  BY DEF Emitted
  <2>3. QED  BY <2>1, <2>2
<1>3. ASSUME NEW k \in Nat, k \in S PROVE k + 1 \in S
  <2> SUFFICES ASSUME k + 1 <= Len(s)
               PROVE  Emitted(f[k + 1], D, b, start, room) /\ f[k + 1].o = out.o + (k + 1)
    OBVIOUS
  <2>1. f[k + 1] = Emit(f[k], s[k + 1])  BY <1>1 DEF Emits
  <2>2. Emitted(f[k], D, b, start, room) /\ f[k].o = out.o + k  BY <1>3
  <2>3. \A x, c : Emitted(x, D, b, start, room) /\ x.o + 1 < Word =>
            Emitted(Emit(x, c), D, b, start, room) /\ Emit(x, c).o = x.o + 1
    BY EmitKeeps
  <2>4. PICK h \in Nat : h = out.o  BY DEF Emitted
  <2>5. f[k].o = h + k /\ (h + k) + 1 < Word
    <3>1. PICK m, W \in Nat : m = Len(s) /\ W = Word  BY WordTyped
    <3>2. h + m < W /\ k + 1 <= m  BY <2>4, <3>1
    <3>3. (h + k) + 1 < W  BY <3>2
    <3>4. QED  BY <2>2, <2>4, <3>1, <3>3
  <2>6. Emitted(f[k + 1], D, b, start, room) /\ f[k + 1].o = f[k].o + 1  BY <2>1, <2>2, <2>3, <2>5
  <2>7. QED  BY <2>4, <2>5, <2>6
<1> HIDE DEF S
<1>4. S = Nat  BY <1>2, <1>3, Induction DEF S
<1>5. Len(s) \in S  BY <1>4
<1>6. QED  BY <1>5, <1>1 DEF S

(***************************************************************************)
(* A number of size characters, marks included, of which the first is the   *)
(* one numbered first: what is not yet written of it are its left leading   *)
(* characters.  A size_t counts them all.                                   *)
(***************************************************************************)
Written(num, D, b, first, size, room) ==
  /\ num = [buf |-> num.buf, at |-> num.at, o |-> num.o, n |-> room,
            left |-> num.left, b4tick |-> num.b4tick, val |-> num.val]
  /\ num.left \in 0 .. size /\ num.at \in Int /\ num.o = first + num.left /\ first + size < Word
  /\ first < room => num.at = b + first + num.left
  /\ DOMAIN num.buf = D \cup Cells(b, first + num.left, first + size, room)

\* What is left has room for the digits to come and the marks between them.
Ticks(num, wanted, tickskip) ==
  \/ wanted = tickskip /\ num.b4tick = num.left
  \/ /\ tickskip \in {3, 4} /\ num.b4tick \in 0 .. tickskip
     /\ \E k \in Nat : num.left = (k + 1) + ((k - num.b4tick) - 1) \div tickskip

LEMMA CountsDown ==
  ASSUME NEW num, NEW D, NEW b \in Int, NEW first \in Nat, NEW size \in Nat, NEW room \in Nat,
         Written(num, D, b, first, size, room), num.left > 0
  PROVE  (num.o - 1) % Word = num.o - 1
<1>1. PICK l \in 1 .. size : num.o = first + l  BY DEF Written
<1>2. first + size < Word  BY DEF Written
<1>3. PICK W \in Nat : W = Word  BY WordTyped
<1>4. (first + l) - 1 \in Int /\ 0 <= (first + l) - 1 /\ (first + l) - 1 < W  BY <1>2, <1>3
<1>5. ((first + l) - 1) % Word = (first + l) - 1  BY <1>3, <1>4, Unwrapped
<1>6. QED  BY <1>1, <1>5

LEMMA BeforeWrites ==
  ASSUME NEW num, NEW D, NEW b \in Int, NEW first \in Nat, NEW size \in Nat, NEW room \in Nat,
         Written(num, D, b, first, size, room), num.left > 0, NEW c
  PROVE  /\ Written(Before(num, c), D, b, first, size, room)
         /\ Before(num, c).left = num.left - 1 /\ Before(num, c).b4tick = num.b4tick
<1> DEFINE new == Before(num, c)
<1>1. (num.o - 1) % Word = num.o - 1  BY CountsDown
<1>2. /\ new = [buf |-> new.buf, at |-> new.at, o |-> new.o, n |-> room,
                left |-> new.left, b4tick |-> new.b4tick, val |-> new.val]
      /\ new.at = num.at - 1 /\ new.o = num.o - 1 /\ new.left = num.left - 1
      /\ new.b4tick = num.b4tick
      /\ new.buf = IF num.o - 1 < room THEN Put(num.buf, num.at - 1, c) ELSE num.buf
  BY <1>1 DEF Before, Written
<1> HIDE DEF new
<1> DEFINE place == first + num.left - 1
<1>3. DOMAIN new.buf = D \cup Cells(b, place, first + size, room)
  <2>1. CASE place < room
    <3>1. new.buf = Put(num.buf, b + place, c)  BY <1>2, <2>1 DEF Written
    <3>2. DOMAIN new.buf = DOMAIN num.buf \cup {b + place}  BY <3>1 DEF Put
    <3>3. Cells(b, place, first + size, room)
            = Cells(b, first + num.left, first + size, room) \cup {b + place}
      BY <2>1 DEF Cells, Written
    <3>4. QED  BY <3>2, <3>3 DEF Written
  <2>2. CASE place >= room
    <3>1. new.buf = num.buf  BY <1>2, <2>2 DEF Written
    <3>2. Cells(b, place, first + size, room) = Cells(b, first + num.left, first + size, room)
      BY <2>2 DEF Cells, Written
    <3>3. QED  BY <3>1, <3>2 DEF Written
  <2>3. QED  BY <2>1, <2>2 DEF Written
<1>4. place = first + new.left  BY <1>2 DEF Written
<1>5. QED  BY <1>2, <1>3, <1>4 DEF Written, new

\* The same between a mark and the digit that follows it.
Marked(num, wanted, tickskip) ==
  \/ wanted = tickskip /\ num.b4tick = num.left - 1
  \/ /\ tickskip \in {3, 4} /\ num.b4tick \in 0 .. tickskip
     /\ \E k \in Nat : num.left - 1 = (k + 1) + ((k - num.b4tick) - 1) \div tickskip

\* A mark is put when a group is full, and there was room left for it.
LEMMA MarkWrites ==
  ASSUME NEW num, NEW D, NEW b \in Int, NEW first \in Nat, NEW size \in Nat, NEW room \in Nat,
         NEW wanted \in Nat, NEW tickskip \in Nat,
         Written(num, D, b, first, size, room), Ticks(num, wanted, tickskip), num.left > 0
  PROVE  /\ Written(Mark(num, tickskip), D, b, first, size, room)
         /\ Mark(num, tickskip).left > 0 /\ Mark(num, tickskip).left <= num.left
         /\ Marked(Mark(num, tickskip), wanted, tickskip)
<1> DEFINE marked == Mark(num, tickskip)
<1>1. num.left \in Nat /\ num.left <= size  BY DEF Written
<1>2. CASE num.b4tick = 0
  <2> DEFINE x == Before(num, "_")
  <2>1. marked = [x EXCEPT !.b4tick = tickskip - 1]  BY <1>2 DEF Mark
  <2>2. Written(x, D, b, first, size, room) /\ x.left = num.left - 1  BY BeforeWrites
  <2> HIDE DEF x
  <2>3. marked = [buf |-> x.buf, at |-> x.at, o |-> x.o, n |-> room,
                  left |-> x.left, b4tick |-> tickskip - 1, val |-> x.val]
    BY <2>1, <2>2 DEF Written
  <2> HIDE DEF marked
  <2>4. Written(marked, D, b, first, size, room)  BY <2>2, <2>3 DEF Written
  <2>5. marked.left = num.left - 1 /\ marked.b4tick = tickskip - 1  BY <2>2, <2>3
  <2>6. PICK k \in Nat : tickskip \in {3, 4} /\ num.left = (k + 1) + (k - 1) \div tickskip
    BY <1>1, <1>2 DEF Ticks
  <2>7. k > 0 /\ num.left - 2 = ((k - 1) + 1) + (((k - 1) - (tickskip - 1)) - 1) \div tickskip
    BY <1>1, <2>6
  <2>8. marked.left > 0  BY <1>1, <2>5, <2>6, <2>7
  <2>9. k - 1 \in Nat /\ marked.left - 1 = ((k - 1) + 1) + (((k - 1) - marked.b4tick) - 1) \div tickskip
    BY <2>5, <2>7, <1>1
  <2>10. marked.b4tick \in 0 .. tickskip  BY <2>5, <2>6
  <2>11. Marked(marked, wanted, tickskip)  BY <2>6, <2>9, <2>10 DEF Marked
  <2>12. QED  BY <2>4, <2>5, <2>8, <2>11, <1>1 DEF marked
<1>3. CASE num.b4tick # 0
  <2>1. marked = [num EXCEPT !.b4tick = @ - 1]  BY <1>3 DEF Mark
  <2>2. marked = [buf |-> num.buf, at |-> num.at, o |-> num.o, n |-> room,
                  left |-> num.left, b4tick |-> num.b4tick - 1, val |-> num.val]
    BY <2>1 DEF Written
  <2> HIDE DEF marked
  <2>3. Written(marked, D, b, first, size, room)  BY <2>2 DEF Written
  <2>4. marked.left = num.left /\ marked.b4tick = num.b4tick - 1  BY <2>2
  <2>5. CASE wanted = tickskip /\ num.b4tick = num.left  BY <2>3, <2>4, <2>5, <1>1 DEF marked, Marked
  <2>6. ASSUME tickskip \in {3, 4}, num.b4tick \in 0 .. tickskip, NEW k \in Nat,
               num.left = (k + 1) + ((k - num.b4tick) - 1) \div tickskip
        PROVE  \E j \in Nat : marked.left - 1 = (j + 1) + ((j - marked.b4tick) - 1) \div tickskip
    <3>1. k > 0 /\ num.left - 1 = ((k - 1) + 1) + (((k - 1) - (num.b4tick - 1)) - 1) \div tickskip
      BY <1>1, <1>3, <2>6
    <3>2. k - 1 \in Nat  BY <3>1
    <3>3. QED  BY <3>1, <3>2, <2>4
  <2>7. CASE wanted # tickskip \/ num.b4tick # num.left
    <3>1. tickskip \in {3, 4} /\ num.b4tick \in 0 .. tickskip  BY <2>7 DEF Ticks
    <3>2. \E j \in Nat : marked.left - 1 = (j + 1) + ((j - marked.b4tick) - 1) \div tickskip
      BY <2>6, <2>7 DEF Ticks
    <3>3. marked.b4tick \in 0 .. tickskip  BY <3>1, <2>4, <1>3
    <3>4. Marked(marked, wanted, tickskip)  BY <3>1, <3>2, <3>3 DEF Marked
    <3>5. QED  BY <3>4, <2>3, <2>4, <1>1 DEF marked
  <2>8. QED  BY <2>5, <2>7
<1> HIDE DEF marked
<1>4. QED  BY <1>2, <1>3 DEF marked

\* A turn of the loop takes a digit, and perhaps a mark, off what is left.
LEMMA TurnWrites ==
  ASSUME NEW num, NEW D, NEW b \in Int, NEW first \in Nat, NEW size \in Nat, NEW room \in Nat,
         NEW base, NEW digits, NEW wanted \in Nat, NEW tickskip \in Nat,
         Written(num, D, b, first, size, room), Ticks(num, wanted, tickskip), num.left > 0
  PROVE  LET new == Leftward(num, base, tickskip, digits)
         IN /\ Written(new, D, b, first, size, room) /\ Ticks(new, wanted, tickskip)
            /\ new.left < num.left
<1> DEFINE marked == Mark(num, tickskip)
           last == Before(marked, digits[(num.val % base) + 1])
           new == Leftward(num, base, tickskip, digits)
<1>1. /\ Written(marked, D, b, first, size, room)
      /\ marked.left > 0 /\ marked.left <= num.left
      /\ Marked(marked, wanted, tickskip)
  BY MarkWrites
<1>2. new = [last EXCEPT !.val = @ \div base]  BY DEF Leftward
<1> HIDE DEF marked, new
<1>3. Written(last, D, b, first, size, room)
      /\ last.left = marked.left - 1 /\ last.b4tick = marked.b4tick
  BY <1>1, BeforeWrites
<1> HIDE DEF last
<1>4. new = [buf |-> last.buf, at |-> last.at, o |-> last.o, n |-> room,
             left |-> last.left, b4tick |-> last.b4tick, val |-> last.val \div base]
  BY <1>2, <1>3 DEF Written
<1>5. Written(new, D, b, first, size, room)  BY <1>3, <1>4 DEF Written
<1>6. new.left = marked.left - 1 /\ new.b4tick = marked.b4tick  BY <1>3, <1>4
<1>7. Ticks(new, wanted, tickskip)  BY <1>1, <1>6 DEF Ticks, Marked
<1>8. num.left \in Nat /\ marked.left \in Nat  BY <1>1 DEF Written
<1>9. QED  BY <1>1, <1>5, <1>6, <1>7, <1>8 DEF new

\* The loop writes the whole number, no more and no less.
Fills(buf, D, b, first, size, room) == DOMAIN buf = D \cup Cells(b, first, first + size, room)

LEMMA WriteNumberWrites ==
  ASSUME NEW num0, NEW D, NEW b \in Int, NEW first \in Nat, NEW size \in Nat, NEW room \in Nat,
         NEW base, NEW digits, NEW wanted \in Nat, NEW tickskip \in Nat, num0.left = size,
         Written(num0, D, b, first, size, room), Ticks(num0, wanted, tickskip)
  PROVE  Fills(WriteNumber(num0, base, tickskip, digits), D, b, first, size, room)
<1>1. PICK f : /\ Turns(f, num0, base, tickskip, digits, size)
               /\ WriteNumber(num0, base, tickskip, digits) = f[size].buf
  BY WriteNumberUnfolds
<1> DEFINE S == {k \in Nat : k <= size =>
                   /\ Written(f[k], D, b, first, size, room) /\ Ticks(f[k], wanted, tickskip)
                   /\ f[k].left <= size - k}
<1>2. 0 \in S
  <2>1. f[0] = num0  BY <1>1 DEF Turns
  <2>2. QED  BY <2>1
<1>3. ASSUME NEW k \in Nat, k \in S PROVE k + 1 \in S
  <2> SUFFICES ASSUME k + 1 <= size
               PROVE  /\ Written(f[k + 1], D, b, first, size, room) /\ Ticks(f[k + 1], wanted, tickskip)
                      /\ f[k + 1].left <= size - (k + 1)
    OBVIOUS
  <2>1. PICK x : x = f[k]  OBVIOUS
  <2>2. PICK y : y = f[k + 1]  OBVIOUS
  <2>3. y = Turn(x, base, tickskip, digits)  BY <1>1, <2>1, <2>2 DEF Turns
  <2>4. Written(x, D, b, first, size, room) /\ Ticks(x, wanted, tickskip) /\ x.left <= size - k
    BY <1>3, <2>1
  <2>5. x.left \in Nat  BY <2>4 DEF Written
  <2>6. CASE x.left > 0
    <3>1. y = Leftward(x, base, tickskip, digits)  BY <2>3, <2>6 DEF Turn
    <3>2. Written(y, D, b, first, size, room) /\ Ticks(y, wanted, tickskip) /\ y.left < x.left
      BY <3>1, <2>4, <2>6, TurnWrites
    <3>3. y.left \in Nat  BY <3>2 DEF Written
    <3>4. QED  BY <3>2, <3>3, <2>2, <2>4, <2>5
  <2>7. CASE x.left = 0
    <3>1. y = x  BY <2>3, <2>7 DEF Turn
    <3>2. QED  BY <3>1, <2>2, <2>4, <2>7
  <2>8. QED  BY <2>5, <2>6, <2>7
<1> HIDE DEF S
<1>4. S = Nat  BY <1>2, <1>3, Induction DEF S
<1>5. Written(f[size], D, b, first, size, room) /\ f[size].left <= size - size
  <2>1. size \in S  BY <1>4
  <2>2. QED  BY <2>1 DEF S
<1>6. f[size].left = 0  BY <1>5 DEF Written
<1>7. first + 0 = first  OBVIOUS
<1>8. QED  BY <1>1, <1>5, <1>6, <1>7 DEF Written, Fills

(***************************************************************************)
(* The lengths of what is put around a number or a string.                  *)
(***************************************************************************)
LEMMA CopiesLength ==
  ASSUME NEW k \in Int, NEW S, NEW c \in S
  PROVE  Copies(k, c) \in Seq(S)
<1>1. CASE k > 0
  <2>1. [i \in 1 .. k |-> c] \in [1 .. k -> S]  OBVIOUS
  <2>2. Copies(k, c) \in [1 .. k -> S]  BY <2>1, <1>1 DEF Copies
  <2>3. k \in Nat  BY <1>1
  <2>4. Copies(k, c) \in UNION {[1 .. m -> S] : m \in Nat}  BY <2>2, <2>3
  <2>5. QED  BY <2>4, SeqDef, Zenon
<1>2. CASE ~ (k > 0)  BY <1>2 DEF Copies
<1>3. QED  BY <1>1, <1>2

LEMMA JoinLength ==
  ASSUME NEW S, NEW s \in Seq(S), NEW t \in Seq(S)
  PROVE  s \o t \in Seq(S) /\ Len(s \o t) \in Nat
<1>1. s \o t \in Seq(S)  BY ConcatProperties, Zenon
<1>2. QED  BY <1>1, LenProperties

\* What format_int puts in front of a number and behind it.
Padding == {" ", "0", "-", "+", "X", "x"}

LEMMA PaddingHas ==
  " " \in Padding /\ "0" \in Padding /\ "-" \in Padding /\ "+" \in Padding
    /\ "X" \in Padding /\ "x" \in Padding
BY Zenon DEF Padding

LEMMA ShortLength ==
  ASSUME NEW S, NEW c \in S, NEW d \in S
  PROVE  <<>> \in Seq(S) /\ <<c>> \in Seq(S) /\ <<c, d>> \in Seq(S)
OBVIOUS

\* "Zero still requires space": a number has a digit at least (stdio.c:110).
LEMMA WantedDigits ==
  ASSUME NEW val \in Nat, NEW fl, NEW base \in {8, 10, 16}, NEW precision \in Int
  PROVE  DigitsWanted(val, fl, base, precision) \in Nat \ {0}
<1>1. DigitCount(val, base) \in Nat /\ (val # 0 => DigitCount(val, base) # 0)  BY DigitsCounted
<1>2. PICK significant : significant = DigitCount(val, base)  OBVIOUS
<1>3. QED  BY <1>1, <1>2 DEF DigitsWanted

\* The characters of a number with its marks, in groups of tickskip digits.
LEMMA GroupSizes ==
  ASSUME NEW wanted \in Nat \ {0}, NEW tickskip \in Nat, tickskip = wanted \/ tickskip \in {3, 4}
  PROVE  LET size == wanted + (wanted - 1) \div tickskip
         IN size \in Nat /\ size > 0
            /\ \A num : num.left = size /\ num.b4tick = tickskip => Ticks(num, wanted, tickskip)
<1>1. CASE tickskip = wanted
  <2>1. (wanted - 1) \div wanted = 0  OBVIOUS
  <2>2. QED  BY <2>1, <1>1 DEF Ticks
<1>2. CASE tickskip \in {3, 4}
  <2> DEFINE size == wanted + (wanted - 1) \div tickskip
  <2>1. size \in Nat /\ size > 0  BY <1>2
  <2>2. size = (wanted + 1) + ((wanted - tickskip) - 1) \div tickskip  BY <1>2
  <2> HIDE DEF size
  <2>3. ASSUME NEW num, num.left = size, num.b4tick = tickskip
        PROVE  Ticks(num, wanted, tickskip)
    <3>1. tickskip \in 0 .. tickskip  OBVIOUS
    <3>2. QED  BY <3>1, <2>2, <2>3, <1>2 DEF Ticks
  <2>4. QED  BY <2>1, <2>3 DEF size
<1>3. QED  BY <1>1, <1>2

(***************************************************************************)
(* What is written where.  Keeps below a cell what was there; Shown says    *)
(* that the text s is in the cells from b + k, as much of it as there is    *)
(* room for.  Adds: y is the output x with s behind.                        *)
(***************************************************************************)
Preserves(old, new, stop) == \A j \in Int : j \in DOMAIN old /\ j < stop => j \in DOMAIN new /\ new[j] = old[j]
Holds(buf, place, s, left) == \A i \in 1 .. Len(s) : i <= left => buf[place + i - 1] = s[i]

Adds(x, y, s, b, room) ==
  /\ y.o = x.o + Len(s)
  /\ Holds(y.buf, b + x.o, s, room - x.o)
  /\ Preserves(x.buf, y.buf, b + x.o)

LEMMA PutAt ==
  ASSUME NEW buf, NEW k \in Int, NEW c, NEW stop \in Int
  PROVE  /\ Put(buf, k, c)[k] = c
         /\ \A j \in DOMAIN buf : j \in DOMAIN Put(buf, k, c) /\ (j # k => Put(buf, k, c)[j] = buf[j])
         /\ stop <= k => Preserves(buf, Put(buf, k, c), stop)
<1>1. /\ Put(buf, k, c)[k] = c
      /\ \A j \in DOMAIN buf : j \in DOMAIN Put(buf, k, c) /\ (j # k => Put(buf, k, c)[j] = buf[j])
  BY DEF Put
<1>2. QED  BY <1>1 DEF Preserves

LEMMA EmitAdds ==
  ASSUME NEW out, NEW D, NEW b \in Int, NEW start \in Nat, NEW room \in Nat, NEW c,
         Emitted(out, D, b, start, room), out.o + 1 < Word
  PROVE  /\ out.o < room => Emit(out, c).buf[b + out.o] = c
         /\ Preserves(out.buf, Emit(out, c).buf, b + out.o)
<1>1. out.n = room /\ out.o \in Nat  BY DEF Emitted
<1>2. CASE out.o < room
  <2>1. Emit(out, c).buf = Put(out.buf, out.at, c)  BY <1>1, <1>2 DEF Emit
  <2>2. out.at = b + out.o /\ b + out.o \in Int  BY <1>1, <1>2 DEF Emitted
  <2>3. ASSUME NEW k \in Int
        PROVE  Put(out.buf, k, c)[k] = c /\ Preserves(out.buf, Put(out.buf, k, c), k)
    <3>1. k <= k  OBVIOUS
    <3>2. QED  BY <3>1, PutAt
  <2>4. QED  BY <2>1, <2>2, <2>3, Zenon
<1>3. CASE out.o >= room
  <2>1. Emit(out, c) = [out EXCEPT !.o = (@ + 1) % Word]  BY <1>1, <1>3 DEF Emit
  <2>2. Emit(out, c).buf = out.buf  BY <2>1 DEF Emitted
  <2>3. QED  BY <1>1, <1>3, <2>2 DEF Preserves
<1>4. QED  BY <1>1, <1>2, <1>3

\* What one piece after another adds.
LEMMA AddsNothing ==
  ASSUME NEW out, NEW b \in Int, NEW room \in Nat, out.o \in Nat, NEW s, Len(s) = 0
  PROVE  Adds(out, out, s, b, room)
BY DEF Adds, Holds, Preserves

LEMMA AddsMore ==
  ASSUME NEW x, NEW y, NEW z, NEW s, NEW t, NEW u, NEW D, NEW b \in Int, NEW start \in Nat, NEW room \in Nat,
         Emitted(x, D, b, start, room), Emitted(y, D, b, start, room), Adds(x, y, s, b, room),
         Adds(y, z, t, b, room), Follows(u, s, t)
  PROVE  Adds(x, z, u, b, room)
<1>1. PICK h, k, m \in Nat : h = x.o /\ k = Len(s) /\ m = Len(t) /\ Len(u) = k + m /\ y.o = h + k /\ start <= h
  BY DEF Emitted, Adds, Follows
<1>2. z.o = h + (k + m)
  <2>1. z.o = y.o + Len(t)  BY DEF Adds
  <2>2. z.o = (h + k) + m  BY <1>1, <2>1, Zenon
  <2>3. QED  BY <2>2
<1>3. Preserves(x.buf, y.buf, b + h) /\ Preserves(y.buf, z.buf, b + (h + k))  BY <1>1 DEF Adds
<1>4. Holds(y.buf, b + h, s, room - h) /\ Holds(z.buf, b + (h + k), t, room - (h + k))  BY <1>1 DEF Adds
<1>5. /\ \A i \in 1 .. k : u[i] = s[i]
      /\ \A i \in 1 .. m : u[k + i] = t[i]
  BY <1>1 DEF Follows
<1>6. DOMAIN y.buf = D \cup Cells(b, start, h + k, room)  BY <1>1 DEF Emitted
<1>7. Preserves(x.buf, z.buf, b + h)
  <2>1. ASSUME NEW j \in Int, j \in DOMAIN x.buf, j < b + h PROVE j \in DOMAIN z.buf /\ z.buf[j] = x.buf[j]
    <3>1. j \in DOMAIN y.buf /\ y.buf[j] = x.buf[j]  BY <1>3, <2>1 DEF Preserves
    <3>2. j < b + (h + k)  BY <2>1
    <3>3. QED  BY <1>3, <3>1, <3>2 DEF Preserves
  <2>2. QED  BY <2>1 DEF Preserves
<1>8. ASSUME NEW i \in 1 .. k + m, i <= room - h PROVE z.buf[b + h + i - 1] = u[i]
  <2>1. CASE i <= k
    <3>1. PICK j \in Int : j = b + h + i - 1  OBVIOUS
    <3>2. j < b + (h + k) /\ j \in Cells(b, start, h + k, room)
      <4>1. start <= h  BY <1>1
      <4>2. j >= b + start /\ j < b + room /\ j <= b + (h + k) - 1  BY <1>8, <2>1, <3>1, <4>1
      <4>3. QED  BY <4>2 DEF Cells
    <3>3. z.buf[j] = y.buf[j]  BY <1>3, <1>6, <3>1, <3>2 DEF Preserves
    <3>4. i \in 1 .. k  BY <2>1
    <3>5. y.buf[j] = s[i]  BY <1>1, <1>4, <1>8, <3>1, <3>4 DEF Holds
    <3>6. QED  BY <1>5, <3>1, <3>3, <3>4, <3>5
  <2>2. CASE i > k
    <3>1. PICK e \in 1 .. m : i = k + e /\ e <= room - (h + k) /\ b + h + i - 1 = b + (h + k) + e - 1
      <4>1. i - k \in 1 .. m /\ i = k + (i - k) /\ i - k <= room - (h + k)  BY <1>8, <2>2
      <4>2. b + h + i - 1 = b + (h + k) + (i - k) - 1  OBVIOUS
      <4>3. QED  BY <4>1, <4>2
    <3>2. z.buf[b + (h + k) + e - 1] = t[e]  BY <1>1, <1>4, <3>1 DEF Holds
    <3>3. QED  BY <1>5, <3>1, <3>2
  <2>3. QED  BY <2>1, <2>2
<1>9. Holds(z.buf, b + h, u, room - h)  BY <1>1, <1>8 DEF Holds
<1>10. QED  BY <1>1, <1>2, <1>7, <1>9 DEF Adds

LEMMA EmitAddsOne ==
  ASSUME NEW out, NEW D, NEW b \in Int, NEW start \in Nat, NEW room \in Nat, NEW c,
         Emitted(out, D, b, start, room), out.o + 1 < Word
  PROVE  Adds(out, Emit(out, c), <<c>>, b, room)
<1>1. PICK h \in Nat : h = out.o  BY DEF Emitted
<1>2. Len(<<c>>) = 1 /\ <<c>>[1] = c  OBVIOUS
<1>3. PICK s : s = <<c>> /\ Len(s) = 1 /\ s[1] = c  BY <1>2
<1>4. PICK y : y = Emit(out, c)  OBVIOUS
<1>5. y.o = h + 1
  <2>1. Emitted(Emit(out, c), D, b, start, room) /\ Emit(out, c).o = out.o + 1  BY EmitKeeps
  <2>2. QED  BY <1>1, <1>4, <2>1
<1>6. (h < room => y.buf[b + h] = c) /\ Preserves(out.buf, y.buf, b + h)  BY <1>1, <1>4, EmitAdds, ZenonT(40)
<1>7. Holds(y.buf, b + h, s, room - h)
  <2>1. ASSUME NEW i \in 1 .. 1, i <= room - h PROVE y.buf[b + h + i - 1] = s[i]
    <3>1. i = 1 /\ h < room /\ b + h + i - 1 = b + h  BY <2>1
    <3>2. QED  BY <3>1, <1>3, <1>6
  <2>2. QED  BY <2>1, <1>3 DEF Holds
<1>8. Adds(out, y, s, b, room)  BY <1>1, <1>3, <1>5, <1>6, <1>7 DEF Adds
<1>9. QED  BY <1>3, <1>4, <1>8

LEMMA AddsSame ==
  ASSUME NEW x, NEW y, NEW s, NEW t, NEW b, NEW room, Adds(x, y, s, b, room), Len(t) = Len(s),
         \A i \in 1 .. Len(s) : t[i] = s[i]
  PROVE  Adds(x, y, t, b, room)
BY DEF Adds, Holds

\* EMIT of a text, a character after the other.
LEMMA EmitAllAdds ==
  ASSUME NEW out, NEW D, NEW b \in Int, NEW start \in Nat, NEW room \in Nat,
         NEW s, Len(s) \in Nat, Emitted(out, D, b, start, room), out.o + Len(s) < Word
  PROVE  Adds(out, EmitAll(out, s), s, b, room)
<1>1. PICK f : Emits(f, out, s, Len(s)) /\ EmitAll(out, s) = f[Len(s)]  BY EmitAllUnfolds
<1> DEFINE S == {k \in Nat : k <= Len(s) => /\ Emitted(f[k], D, b, start, room)
                                            /\ Adds(out, f[k], First(s, k), b, room)}
<1>2. 0 \in S
  <2>1. f[0] = out  BY <1>1 DEF Emits
  <2>2. Len(First(s, 0)) = 0  BY FirstFollows
  <2>3. Adds(out, out, First(s, 0), b, room)  BY <2>2, AddsNothing DEF Emitted
  <2>4. QED  BY <2>1, <2>3
<1>3. ASSUME NEW k \in Nat, k \in S PROVE k + 1 \in S
  <2> SUFFICES ASSUME k + 1 <= Len(s)
               PROVE  Emitted(f[k + 1], D, b, start, room) /\ Adds(out, f[k + 1], First(s, k + 1), b, room)
    OBVIOUS
  <2>1. f[k + 1] = Emit(f[k], s[k + 1])  BY <1>1 DEF Emits
  <2>2. PICK x, y : x = f[k] /\ y = f[k + 1] /\ y = Emit(x, s[k + 1])  BY <2>1
  <2>3. Emitted(x, D, b, start, room) /\ Adds(out, x, First(s, k), b, room)  BY <1>3, <2>2
  <2>4. x.o + 1 < Word
    <3>1. PICK h, m, W \in Nat : h = out.o /\ m = Len(s) /\ W = Word  BY WordTyped DEF Emitted
    <3>2. x.o = h + k
      <4>1. Len(First(s, k)) = k  BY FirstFollows
      <4>2. QED  BY <2>3, <3>1, <4>1 DEF Adds
    <3>3. h + m < W /\ k + 1 <= m  BY <3>1
    <3>4. (h + k) + 1 < W  BY <3>3
    <3>5. QED  BY <3>1, <3>2, <3>4
  <2>5. Emitted(y, D, b, start, room)  BY <2>4, <2>2, <2>3, EmitKeeps
  <2>6. Adds(x, y, <<s[k + 1]>>, b, room)  BY <2>4, <2>2, <2>3, EmitAddsOne
  <2>7. Adds(out, y, First(s, k + 1), b, room)
    <3>1. Follows(First(s, k + 1), First(s, k), <<s[k + 1]>>)  BY FirstFollows
    <3>2. QED  BY <2>3, <2>6, <3>1, AddsMore
  <2>8. QED  BY <2>2, <2>5, <2>7
<1> HIDE DEF S
<1>4. S = Nat
  <2>1. \A k \in Nat : k \in S => k + 1 \in S  BY <1>3
  <2>2. S \in SUBSET Nat  BY DEF S
  <2>3. QED  BY <1>2, <2>1, <2>2, Induction
<1>5. Len(s) \in S  BY <1>4
<1>6. Adds(out, f[Len(s)], First(s, Len(s)), b, room)  BY <1>5 DEF S
<1>7. Len(First(s, Len(s))) = Len(s) /\ \A i \in 1 .. Len(s) : s[i] = First(s, Len(s))[i]
  BY FirstFollows DEF First
<1>8. QED  BY <1>1, <1>6, <1>7, AddsSame

(***************************************************************************)
(* The figures of a number, with zeros in front of them, and what is left   *)
(* of the number when the last k figures are taken off.                     *)
(***************************************************************************)
Figures(val, base, m, table) ==
  [i \in 1 .. m |->
     IF i <= m - Len(Numeral(val, base)) THEN "0"
     ELSE table[Numeral(val, base)[i - (m - Len(Numeral(val, base)))] + 1]]

Peeled(v, val, base, k) ==
  /\ v \in Nat
  /\ k >= Len(Numeral(val, base)) => v = 0
  /\ k < Len(Numeral(val, base)) =>
       /\ v # 0 /\ Len(Numeral(v, base)) = Len(Numeral(val, base)) - k
       /\ \A i \in 1 .. Len(Numeral(val, base)) - k : Numeral(v, base)[i] = Numeral(val, base)[i]

LEMMA NumeralLength ==
  ASSUME NEW base \in {8, 10, 16}, NEW v \in Nat
  PROVE  Len(Numeral(v, base)) \in Nat /\ (Len(Numeral(v, base)) = 0 <=> v = 0)
<1>1. PICK s : s = Numeral(v, base)  OBVIOUS
<1>2. IsNumeral(s, v, base)  BY <1>1, NumeralTyped
<1>3. Len(s) \in Nat  BY <1>2, LenProperties DEF IsNumeral
<1>4. v = 0 => Len(s) = 0
  <2>1. v = 0 => s = <<>>  BY <1>2 DEF IsNumeral
  <2>2. Len(<<>>) = 0  OBVIOUS
  <2>3. QED  BY <2>1, <2>2, Zenon
<1>5. v # 0 => Len(s) > 0  BY <1>2 DEF IsNumeral
<1>6. QED  BY <1>1, <1>3, <1>4, <1>5

LEMMA PeeledStart ==
  ASSUME NEW base \in {8, 10, 16}, NEW val \in Nat
  PROVE  Peeled(val, val, base, 0)
<1>1. PICK m \in Nat : m = Len(Numeral(val, base)) /\ (m = 0 <=> val = 0)  BY NumeralLength
<1>2. QED  BY <1>1 DEF Peeled

\* Its last figure is the one k places from the end of the text of m figures.
PeelsOff(v, val, base, k, m, table) ==
  /\ Peeled(v \div base, val, base, k + 1)
  /\ Figures(val, base, m, table)[m - k] = table[(v % base) + 1]

LEMMA PeeledNext ==
  ASSUME NEW base \in {8, 10, 16}, NEW val \in Nat, NEW k \in Nat, NEW v, Peeled(v, val, base, k),
         NEW m \in Nat, Len(Numeral(val, base)) <= m, k < m, NEW table, table[1] = "0"
  PROVE  PeelsOff(v, val, base, k, m, table)
<1>1. PICK s : s = Numeral(val, base)  OBVIOUS
<1>2. PICK b \in Nat : b = Len(s) /\ b <= m  BY <1>1, NumeralLength
<1>3. v \in Nat  BY DEF Peeled
<1>4. m - k \in 1 .. m  OBVIOUS
<1>5. Figures(val, base, m, table)[m - k] = IF m - k <= m - b THEN "0" ELSE table[s[(m - k) - (m - b)] + 1]
  BY <1>1, <1>2, <1>4 DEF Figures
<1>6. CASE k >= b
  <2>1. v = 0  BY <1>1, <1>2, <1>6 DEF Peeled
  <2>2. v \div base = 0 /\ (v % base) + 1 = 1  BY <2>1
  <2>3. k + 1 >= b /\ ~ (k + 1 < b) /\ m - k <= m - b  BY <1>2, <1>6
  <2>4. Peeled(v \div base, val, base, k + 1)
    <3>1. Peeled(0, val, base, k + 1)  BY <1>1, <1>2, <2>3 DEF Peeled
    <3>2. QED  BY <2>2, <3>1
  <2>5. QED  BY <1>5, <2>2, <2>3, <2>4 DEF PeelsOff
<1>7. CASE k < b
  <2>1. PICK t : t = Numeral(v, base)  OBVIOUS
  <2>2. v # 0 /\ Len(t) = b - k /\ \A i \in 1 .. b - k : t[i] = s[i]  BY <1>1, <1>2, <1>7, <2>1 DEF Peeled
  <2>3. PICK w \in Nat : w = v \div base  BY <1>3
  <2>4. PICK r \in Nat : r = v % base  BY <1>3
  <2>5. PICK u : u = Numeral(w, base)  OBVIOUS
  <2>6. Extends(t, u, r)  BY <1>3, <2>1, <2>2, <2>3, <2>4, <2>5, NumeralLast
  <2>7. PICK c \in Nat : c = Len(u) /\ b - k = c + 1 /\ c = b - (k + 1)
    <3>1. Len(u) \in Nat /\ b - k = Len(u) + 1  BY <2>2, <2>6 DEF Extends
    <3>2. QED  BY <3>1
  <2>8. r = s[c + 1]
    <3>1. t[c + 1] = r /\ c + 1 \in 1 .. b - k  BY <2>6, <2>7 DEF Extends
    <3>2. QED  BY <2>2, <3>1
  <2>9. \A i \in 1 .. c : u[i] = s[i]
    <3>1. ASSUME NEW i \in 1 .. c PROVE u[i] = s[i]
      <4>1. t[i] = u[i] /\ i \in 1 .. b - k  BY <2>6, <2>7 DEF Extends
      <4>2. QED  BY <2>2, <4>1
    <3>2. QED  BY <3>1
  <2>10. w = 0 <=> c = 0  BY <2>5, <2>7, NumeralLength
  <2>11. Peeled(w, val, base, k + 1)
    <3>1. k + 1 >= b => w = 0  BY <2>7, <2>10
    <3>2. k + 1 < b => w # 0  BY <2>7, <2>10
    <3>3. QED  BY <1>1, <1>2, <2>5, <2>7, <2>9, <3>1, <3>2 DEF Peeled
  <2>12. Figures(val, base, m, table)[m - k] = table[r + 1]
    <3>1. ~ (m - k <= m - b) /\ (m - k) - (m - b) = c + 1  BY <1>2, <1>7, <2>7
    <3>2. QED  BY <1>5, <2>8, <3>1
  <2>13. QED  BY <2>3, <2>4, <2>11, <2>12 DEF PeelsOff
<1>8. QED  BY <1>2, <1>6, <1>7

(***************************************************************************)
(* The loop that writes a number from its end.  With r characters of it     *)
(* written, Groups says how many of them are figures and how many figures   *)
(* there are before the next mark.                                          *)
(***************************************************************************)
Marks(r, g) == r \div (g + 1)
Since(r, g) == r % (g + 1)
Sized(size, wanted, g) == size = wanted + (wanted - 1) \div g

LEMMA GroupNext ==
  ASSUME NEW g \in Nat, NEW wanted \in Nat \ {0}, g = wanted \/ g \in {3, 4},
         NEW size \in Nat, Sized(size, wanted, g), NEW r \in 0 .. size - 1
  PROVE  /\ Marks(r, g) \in Nat /\ Since(r, g) \in 0 .. g
         /\ Since(r, g) # g =>
              /\ Since(r + 1, g) = Since(r, g) + 1 /\ Marks(r + 1, g) = Marks(r, g)
              /\ r - Marks(r, g) \in 0 .. wanted - 1
         /\ Since(r, g) = g /\ r + 1 < size =>
              /\ Since(r + 1, g) = 0 /\ Marks(r + 1, g) = Marks(r, g) + 1 /\ Since(r + 2, g) = 1
              /\ Marks(r + 2, g) = Marks(r, g) + 1 /\ g # 0
              /\ (r + 1) - Marks(r + 1, g) \in 0 .. wanted - 1
<1>1. CASE g = wanted
  <2>1. (wanted - 1) \div wanted = 0  OBVIOUS
  <2>2. size = g /\ r < g  BY <1>1, <2>1 DEF Sized
  <2>3. ASSUME NEW x \in 0 .. g PROVE Marks(x, g) = 0 /\ Since(x, g) = x
    <3>1. x \div (g + 1) = 0 /\ x % (g + 1) = x  OBVIOUS
    <3>2. QED  BY <3>1 DEF Marks, Since
  <2>4. r \in 0 .. g /\ r + 1 \in 0 .. g  BY <2>2
  <2>5. Marks(r, g) = 0 /\ Since(r, g) = r /\ Marks(r + 1, g) = 0 /\ Since(r + 1, g) = r + 1  BY <2>3, <2>4
  <2>6. QED  BY <1>1, <2>2, <2>5
<1>2. CASE g = 3  BY <1>2 DEF Marks, Since, Sized
<1>3. CASE g = 4  BY <1>3 DEF Marks, Since, Sized
<1>4. QED  BY <1>1, <1>2, <1>3

\* What is written of the number is the end of the text s.
Figured(num, old, s, b, first, size, room) ==
  /\ \A i \in num.left + 1 .. size : first + i <= room => num.buf[b + first + i - 1] = s[i]
  /\ Preserves(old, num.buf, b + first)

LEMMA BeforeFigures ==
  ASSUME NEW num, NEW D, NEW b \in Int, NEW first \in Nat, NEW size \in Nat, NEW room \in Nat,
         Written(num, D, b, first, size, room), num.left > 0, NEW old, NEW s,
         Figured(num, old, s, b, first, size, room)
  PROVE  Figured(Before(num, s[num.left]), old, s, b, first, size, room)
<1>1. PICK l \in 1 .. size : l = num.left  BY DEF Written
<1>2. PICK new : new = Before(num, s[l])  OBVIOUS
<1>3. PICK k \in Int : k = b + first + l - 1  OBVIOUS
<1>4. new.left = l - 1 /\ new.buf = IF num.o - 1 < num.n THEN Put(num.buf, num.at - 1, s[l]) ELSE num.buf
  <2>1. (num.o - 1) % Word = num.o - 1  BY CountsDown
  <2>2. QED  BY <1>1, <1>2, <2>1 DEF Before
<1>5. num.o = first + l /\ num.n = room /\ (first < room => num.at = b + first + l)
      /\ DOMAIN num.buf = D \cup Cells(b, first + l, first + size, room)
  BY <1>1 DEF Written
<1>6. /\ \A i \in l + 1 .. size : first + i <= room => num.buf[b + first + i - 1] = s[i]
      /\ Preserves(old, num.buf, b + first)
  BY <1>1 DEF Figured
<1>7. CASE first + l <= room
  <2>1. num.at - 1 = k /\ num.o - 1 < num.n  BY <1>3, <1>5, <1>7
  <2>2. new.buf = Put(num.buf, k, s[l])  BY <1>4, <2>1
  <2>3. b + first <= k /\ b + first \in Int  BY <1>3
  <2>4. new.buf[k] = s[l] /\ Preserves(num.buf, new.buf, b + first)
        /\ \A j \in DOMAIN num.buf : j # k => new.buf[j] = num.buf[j]
    BY <2>2, <2>3, PutAt
  <2>5. ASSUME NEW i \in l .. size, first + i <= room PROVE new.buf[b + first + i - 1] = s[i]
    <3>1. CASE i = l  BY <1>3, <2>4, <3>1
    <3>2. CASE i # l
      <4>1. PICK j \in Int : j = b + first + i - 1  OBVIOUS
      <4>2. j # k /\ i \in l + 1 .. size /\ j \in Cells(b, first + l, first + size, room)
        BY <1>3, <2>5, <3>2, <4>1 DEF Cells
      <4>3. num.buf[j] = s[i]  BY <1>6, <2>5, <4>1, <4>2
      <4>4. QED  BY <1>5, <2>4, <4>1, <4>2, <4>3
    <3>3. QED  BY <3>1, <3>2
  <2>6. Preserves(old, new.buf, b + first)  BY <1>6, <2>4 DEF Preserves
  <2>7. (l - 1) + 1 = l  OBVIOUS
  <2>8. QED  BY <1>1, <1>2, <1>4, <2>5, <2>6, <2>7 DEF Figured
<1>8. CASE first + l > room
  <2>1. new.buf = num.buf  BY <1>4, <1>5, <1>8
  <2>2. ASSUME NEW i \in l .. size, first + i <= room PROVE FALSE  BY <1>8, <2>2
  <2>3. (l - 1) + 1 = l  OBVIOUS
  <2>4. QED  BY <1>1, <1>2, <1>4, <1>6, <2>1, <2>2, <2>3 DEF Figured
<1>9. QED  BY <1>7, <1>8

GroupedSo(s, plain, size, wanted, g) ==
  /\ Len(s) = size
  /\ \A r \in 0 .. size - 1 :
       s[size - r] = IF Since(r, g) = g THEN "_" ELSE plain[wanted - (r - Marks(r, g))]

LEMMA GroupedAt ==
  ASSUME NEW plain, NEW wanted \in Nat \ {0}, Len(plain) = wanted, NEW g \in Nat \ {0}, NEW size \in Nat,
         Sized(size, wanted, g)
  PROVE  GroupedSo(Grouped(plain, g), plain, size, wanted, g)
<1> DEFINE Mark1(j) == IF j % (g + 1) = g THEN "_" ELSE plain[wanted - (j - j \div (g + 1))]
<1>1. Grouped(plain, g) = [i \in 1 .. size |-> Mark1(size - i)]  BY DEF Grouped, Sized
<1> HIDE DEF Mark1
<1>2. Len(Grouped(plain, g)) = size  BY <1>1
<1>3. ASSUME NEW r \in 0 .. size - 1 PROVE Grouped(plain, g)[size - r] = Mark1(r)
  <2>1. size - r \in 1 .. size /\ size - (size - r) = r  OBVIOUS
  <2>2. Grouped(plain, g)[size - r] = Mark1(size - (size - r))  BY <1>1, <2>1
  <2>3. QED  BY <2>1, <2>2
<1>4. QED  BY <1>2, <1>3 DEF Mark1, Since, Marks, GroupedSo

\* The figures of a text in groups, found from its end.
InGroups(s, size, wanted, g, val, base, digits) ==
  \A r \in 0 .. size - 1 :
    /\ Since(r, g) = g => s[size - r] = "_"
    /\ Since(r, g) # g => s[size - r] = Figures(val, base, wanted, digits)[wanted - (r - Marks(r, g))]

\* How far the loop is in the groups, and in the number.
Ticked(num, size, g, val, base) ==
  /\ num.b4tick = g - Since(size - num.left, g)
  /\ Peeled(num.val, val, base, (size - num.left) - Marks(size - num.left, g))

\* A figure of the number, in its place.
PutsFigure(num, old, s, b, first, size, room, base, digits, val, k) ==
  /\ Figured(Before(num, digits[(num.val % base) + 1]), old, s, b, first, size, room)
  /\ Peeled(num.val \div base, val, base, k + 1)

\* What the loop is about: the text s of the number val in the cells from b + first.
Spells(b, first, size, room, base, digits, wanted, g, val, s) ==
  /\ b \in Int /\ first \in Nat /\ size \in Nat /\ room \in Nat
  /\ base \in {8, 10, 16} /\ digits[1] = "0" /\ wanted \in Nat \ {0} /\ g \in Nat \ {0}
  /\ g = wanted \/ g \in {3, 4}
  /\ Sized(size, wanted, g) /\ val \in Nat /\ Len(Numeral(val, base)) <= wanted
  /\ InGroups(s, size, wanted, g, val, base, digits)

\* The next figure to write is the one numbered k from the end.
FigureDue(num, D, b, first, size, room, base, digits, wanted, g, val, s, old, k) ==
  /\ Spells(b, first, size, room, base, digits, wanted, g, val, s)
  /\ Written(num, D, b, first, size, room) /\ num.left > 0
  /\ Figured(num, old, s, b, first, size, room) /\ k \in 0 .. wanted - 1
  /\ k = (size - num.left) - Marks(size - num.left, g) /\ Since(size - num.left, g) # g
  /\ Peeled(num.val, val, base, k)

\* Before the figure due there may be a mark, and then the number goes on behind it.
LEMMA FigureNext ==
  ASSUME NEW num, NEW D, NEW b, NEW first, NEW size, NEW room, NEW base, NEW digits, NEW wanted, NEW g,
         NEW val, NEW s, NEW old, NEW k,
         FigureDue(num, D, b, first, size, room, base, digits, wanted, g, val, s, old, k)
  PROVE  PutsFigure(num, old, s, b, first, size, room, base, digits, val, k)
<1> USE DEF FigureDue, Spells
<1>1. PICK l \in 1 .. size : l = num.left  BY DEF Written
<1>2. PICK r \in 0 .. size - 1 : r = size - l /\ size - r = l  OBVIOUS
<1>3. k < wanted /\ k \in Nat /\ wanted \in Nat  OBVIOUS
<1>4. /\ Peeled(num.val \div base, val, base, k + 1)
      /\ Figures(val, base, wanted, digits)[wanted - k] = digits[(num.val % base) + 1]
  <2>1. PICK v : v = num.val  OBVIOUS
  <2>2. Peeled(v, val, base, k)  BY <2>1
  <2>3. PeelsOff(v, val, base, k, wanted, digits)  BY <1>3, <2>2, PeeledNext
  <2>4. QED  BY <2>1, <2>3 DEF PeelsOff
<1>5. k = r - Marks(r, g) /\ Since(r, g) # g  BY <1>1, <1>2, Zenon
<1>6. s[size - r] = Figures(val, base, wanted, digits)[wanted - k]  BY <1>5 DEF InGroups
<1>7. s[num.left] = digits[(num.val % base) + 1]  BY <1>1, <1>2, <1>4, <1>6, Zenon
<1>8. Figured(Before(num, s[num.left]), old, s, b, first, size, room)  BY BeforeFigures
<1>9. QED  BY <1>4, <1>7, <1>8, Zenon DEF PutsFigure

\* The state of the loop before and after a turn.
Looped(num, D, b, first, size, room, base, wanted, g, val, s, old) ==
  /\ Written(num, D, b, first, size, room) /\ Ticks(num, wanted, g)
  /\ Figured(num, old, s, b, first, size, room) /\ Ticked(num, size, g, val, base)

\* A turn of the loop puts the figure due in its place, a mark before it when a group is full.
LEMMA TurnFigures ==
  ASSUME NEW num, NEW D, NEW b, NEW first, NEW size, NEW room, NEW base, NEW digits, NEW wanted, NEW g,
         NEW val, NEW s, NEW old, Spells(b, first, size, room, base, digits, wanted, g, val, s),
         Looped(num, D, b, first, size, room, base, wanted, g, val, s, old), num.left > 0
  PROVE  /\ Looped(Leftward(num, base, g, digits), D, b, first, size, room, base, wanted, g, val, s, old)
         /\ Leftward(num, base, g, digits).left < num.left
<1>1. /\ b \in Int /\ first \in Nat /\ size \in Nat /\ room \in Nat
      /\ base \in {8, 10, 16} /\ digits[1] = "0" /\ wanted \in Nat \ {0} /\ g \in Nat \ {0}
      /\ g = wanted \/ g \in {3, 4}
      /\ Sized(size, wanted, g) /\ val \in Nat /\ Len(Numeral(val, base)) <= wanted
      /\ InGroups(s, size, wanted, g, val, base, digits)
      /\ Written(num, D, b, first, size, room) /\ Ticks(num, wanted, g)
      /\ Figured(num, old, s, b, first, size, room) /\ Ticked(num, size, g, val, base)
  BY DEF Spells, Looped
<1> USE <1>1
<1> DEFINE marked == Mark(num, g)
           last == Before(marked, digits[(num.val % base) + 1])
           new == Leftward(num, base, g, digits)
<1>2. Written(marked, D, b, first, size, room) /\ marked.left > 0  BY MarkWrites
<1>3. new = [last EXCEPT !.val = @ \div base]  BY DEF Leftward
<1>4. /\ last.left = marked.left - 1 /\ last.b4tick = marked.b4tick /\ last.val = marked.val
      /\ last = [buf |-> last.buf, at |-> last.at, o |-> last.o, n |-> last.n,
                 left |-> last.left, b4tick |-> last.b4tick, val |-> last.val]
  BY DEF Before
<1>5. PICK l \in 1 .. size : l = num.left  BY DEF Written
<1>6. PICK r \in 0 .. size - 1 : r = size - l  OBVIOUS
<1>7. num.b4tick = g - Since(r, g) /\ Peeled(num.val, val, base, r - Marks(r, g))
  BY <1>5, <1>6 DEF Ticked
<1>8. Written(new, D, b, first, size, room) /\ Ticks(new, wanted, g) /\ new.left < num.left
  BY TurnWrites
<1> HIDE DEF marked, new
<1>9. CASE num.b4tick = 0
  <2> DEFINE x == Before(num, "_")
  <2>1. marked = [x EXCEPT !.b4tick = g - 1]  BY <1>9 DEF Mark, marked
  <2>2. x.left = l - 1 /\ x.val = num.val
        /\ x = [buf |-> x.buf, at |-> x.at, o |-> x.o, n |-> x.n, left |-> x.left, b4tick |-> x.b4tick, val |-> x.val]
    BY <1>5 DEF Before
  <2>3. Since(r, g) = g
    <3>1. PICK c \in 0 .. g : c = Since(r, g)  BY GroupNext
    <3>2. QED  BY <1>7, <1>9, <3>1
  <2>4. size - r = l  BY <1>6
  <2>5. s[num.left] = "_"  BY <1>5, <2>3, <2>4 DEF InGroups
  <2>6. Figured(x, old, s, b, first, size, room)  BY <2>5, BeforeFigures
  <2> HIDE DEF x
  <2>7. marked.buf = x.buf /\ marked.left = l - 1 /\ marked.b4tick = g - 1 /\ marked.val = num.val
    BY <2>1, <2>2
  <2>8. Figured(marked, old, s, b, first, size, room)  BY <2>2, <2>6, <2>7 DEF Figured
  <2>9. r + 1 < size /\ size - (l - 1) = r + 1 /\ size - (l - 2) = r + 2
    <3>1. l - 1 > 0  BY <1>2, <2>7
    <3>2. QED  BY <1>6, <3>1
  <2>10. /\ Since(r + 1, g) = 0 /\ Marks(r + 1, g) = Marks(r, g) + 1 /\ Since(r + 2, g) = 1
         /\ Marks(r + 2, g) = Marks(r, g) + 1 /\ Marks(r, g) \in Nat
         /\ (r + 1) - Marks(r + 1, g) \in 0 .. wanted - 1
    BY <2>3, <2>9, GroupNext
  <2>11. PICK m \in Nat : m = Marks(r, g)  BY <2>10
  <2>12. PICK k \in 0 .. wanted - 1 : k = (r + 1) - Marks(r + 1, g)  BY <2>10
  <2>13. k = r - Marks(r, g) /\ k + 1 = (r + 2) - Marks(r + 2, g)
    <3>1. Marks(r + 1, g) = m + 1 /\ Marks(r + 2, g) = m + 1  BY <2>10, <2>11
    <3>2. k = (r + 1) - (m + 1)  BY <2>12, <3>1
    <3>3. k = r - m /\ k + 1 = (r + 2) - (m + 1)  BY <3>2
    <3>4. QED  BY <2>11, <3>1, <3>3
  <2>14. k = (size - marked.left) - Marks(size - marked.left, g) /\ Since(size - marked.left, g) # g
    BY <2>7, <2>9, <2>10, <2>12
  <2>15. Peeled(marked.val, val, base, k)  BY <1>7, <2>7, <2>13
  <2>16. Figured(last, old, s, b, first, size, room) /\ Peeled(num.val \div base, val, base, k + 1)
    <3>1. PutsFigure(marked, old, s, b, first, size, room, base, digits, val, k)
      <4>1. FigureDue(marked, D, b, first, size, room, base, digits, wanted, g, val, s, old, k)
        BY <1>2, <2>8, <2>14, <2>15 DEF FigureDue
      <4>2. QED  BY <4>1, FigureNext, Zenon
    <3>2. QED  BY <2>7, <3>1 DEF PutsFigure
  <2> HIDE DEF last
  <2>17. new.buf = last.buf /\ new.left = l - 2 /\ new.b4tick = g - 1 /\ new.val = num.val \div base
    BY <1>3, <1>4, <2>7
  <2>18. last.left = l - 2  BY <1>4, <2>7
  <2>19. Figured(new, old, s, b, first, size, room)  BY <2>16, <2>17, <2>18 DEF Figured
  <2>20. Ticked(new, size, g, val, base)  BY <2>9, <2>10, <2>13, <2>16, <2>17 DEF Ticked
  <2>21. QED  BY <1>8, <2>19, <2>20 DEF Looped, new
<1>10. CASE num.b4tick # 0
  <2>1. marked = [num EXCEPT !.b4tick = @ - 1]  BY <1>10 DEF Mark, marked
  <2>2. marked.buf = num.buf /\ marked.left = l /\ marked.b4tick = num.b4tick - 1 /\ marked.val = num.val
    BY <1>5, <2>1 DEF Written
  <2>3. Figured(marked, old, s, b, first, size, room)  BY <1>5, <2>2 DEF Figured
  <2>4. Since(r, g) # g  BY <1>7, <1>10, GroupNext
  <2>5. /\ Since(r + 1, g) = Since(r, g) + 1 /\ Marks(r + 1, g) = Marks(r, g) /\ Marks(r, g) \in Nat
        /\ r - Marks(r, g) \in 0 .. wanted - 1 /\ Since(r, g) \in 0 .. g
    BY <2>4, GroupNext
  <2>6. PICK m \in Nat : m = Marks(r, g)  BY <2>5
  <2>7. PICK k \in 0 .. wanted - 1 : k = r - Marks(r, g)  BY <2>5
  <2>8. size - (l - 1) = r + 1 /\ k + 1 = (r + 1) - Marks(r + 1, g)  BY <1>6, <2>5, <2>6, <2>7
  <2>9. k = (size - marked.left) - Marks(size - marked.left, g) /\ Since(size - marked.left, g) # g
    BY <1>6, <2>2, <2>4, <2>7
  <2>10. Peeled(marked.val, val, base, k)  BY <1>7, <2>2, <2>7
  <2>11. Figured(last, old, s, b, first, size, room) /\ Peeled(num.val \div base, val, base, k + 1)
    <3>1. PutsFigure(marked, old, s, b, first, size, room, base, digits, val, k)
      <4>1. FigureDue(marked, D, b, first, size, room, base, digits, wanted, g, val, s, old, k)
        BY <1>2, <2>3, <2>9, <2>10 DEF FigureDue
      <4>2. QED  BY <4>1, FigureNext, Zenon
    <3>2. QED  BY <2>2, <3>1 DEF PutsFigure
  <2> HIDE DEF last
  <2>12. new.buf = last.buf /\ new.left = l - 1 /\ new.b4tick = num.b4tick - 1 /\ new.val = num.val \div base
    BY <1>3, <1>4, <2>2
  <2>13. last.left = l - 1  BY <1>4, <2>2
  <2>14. Figured(new, old, s, b, first, size, room)  BY <2>11, <2>12, <2>13 DEF Figured
  <2>15. new.b4tick = g - Since(r + 1, g)
    <3>1. PICK c \in 0 .. g : c = Since(r, g)  BY <2>5
    <3>2. new.b4tick = (g - c) - 1  BY <1>7, <2>12, <3>1
    <3>3. Since(r + 1, g) = c + 1  BY <2>5, <3>1
    <3>4. g \in Nat  OBVIOUS
    <3>5. (g - c) - 1 = g - (c + 1)  BY <3>1, <3>4
    <3>6. QED  BY <3>2, <3>3, <3>5
  <2>16. Ticked(new, size, g, val, base)  BY <2>8, <2>11, <2>12, <2>15 DEF Ticked
  <2>17. QED  BY <1>8, <2>14, <2>16 DEF Looped, new
<1>11. QED  BY <1>9, <1>10

\* The loop leaves the whole text of the number in its cells (stdio.c:176-192).
LEMMA WriteNumberFigures ==
  ASSUME NEW num0, NEW D, NEW b, NEW first, NEW size, NEW room, NEW base, NEW digits, NEW wanted, NEW g,
         NEW val, NEW s, Len(s) = size, Spells(b, first, size, room, base, digits, wanted, g, val, s),
         num0.left = size, num0.b4tick = g, num0.val = val,
         Written(num0, D, b, first, size, room), Ticks(num0, wanted, g)
  PROVE  LET buf == WriteNumber(num0, base, g, digits)
         IN Holds(buf, b + first, s, room - first) /\ Preserves(num0.buf, buf, b + first)
<1>1. b \in Int /\ first \in Nat /\ size \in Nat /\ room \in Nat /\ base \in {8, 10, 16} /\ val \in Nat
  BY DEF Spells
<1> USE <1>1
<1>2. PICK f : /\ Turns(f, num0, base, g, digits, size)
               /\ WriteNumber(num0, base, g, digits) = f[size].buf
  BY WriteNumberUnfolds
<1> DEFINE InTurn(num) == Looped(num, D, b, first, size, room, base, wanted, g, val, s, num0.buf)
           S == {k \in Nat : k <= size => InTurn(f[k]) /\ f[k].left <= size - k}
<1>3. 0 \in S
  <2>1. f[0] = num0  BY <1>2 DEF Turns
  <2>2. Figured(num0, num0.buf, s, b, first, size, room)
    <3>1. \A i \in size + 1 .. size : FALSE  OBVIOUS
    <3>2. QED  BY <3>1 DEF Figured, Preserves
  <2>3. Ticked(num0, size, g, val, base)
    <3>1. g \in Nat  BY DEF Spells
    <3>2. 0 % (g + 1) = 0 /\ 0 \div (g + 1) = 0  BY <3>1
    <3>3. size - num0.left = 0 /\ Since(0, g) = 0 /\ Marks(0, g) = 0  BY <3>2 DEF Since, Marks
    <3>4. g - 0 = g  BY <3>1
    <3>5. QED  BY <3>3, <3>4, PeeledStart DEF Ticked
  <2>4. QED  BY <2>1, <2>2, <2>3 DEF Looped
<1>4. ASSUME NEW k \in Nat, k \in S PROVE k + 1 \in S
  <2> SUFFICES ASSUME k + 1 <= size PROVE InTurn(f[k + 1]) /\ f[k + 1].left <= size - (k + 1)  OBVIOUS
  <2>1. PICK x : x = f[k]  OBVIOUS
  <2>2. PICK y : y = f[k + 1]  OBVIOUS
  <2>3. y = Turn(x, base, g, digits)  BY <1>2, <2>1, <2>2 DEF Turns
  <2>4. InTurn(x) /\ x.left <= size - k  BY <1>4, <2>1
  <2>5. x.left \in Nat  BY <2>4 DEF Written, Looped
  <2>6. CASE x.left > 0
    <3>1. y = Leftward(x, base, g, digits)  BY <2>3, <2>6 DEF Turn
    <3>2. InTurn(y) /\ y.left < x.left  BY <3>1, <2>4, <2>6, TurnFigures, Zenon
    <3>3. y.left \in Nat  BY <3>2 DEF Written, Looped
    <3>4. y.left <= size - (k + 1)  BY <3>2, <3>3, <2>4, <2>5
    <3>5. QED  BY <3>2, <3>4, <2>2
  <2>7. CASE x.left = 0
    <3>1. y = x  BY <2>3, <2>7 DEF Turn
    <3>2. QED  BY <3>1, <2>2, <2>4, <2>7
  <2>8. QED  BY <2>5, <2>6, <2>7
<1> HIDE DEF S
<1>5. S = Nat
  <2>1. \A k \in Nat : k \in S => k + 1 \in S  BY <1>4
  <2>2. S \in SUBSET Nat  BY DEF S
  <2>3. QED  BY <1>3, <2>1, <2>2, Induction
<1>6. InTurn(f[size]) /\ f[size].left <= size - size
  <2>1. size \in S  BY <1>5
  <2>2. QED  BY <2>1 DEF S
<1>7. PICK num : num = f[size]  OBVIOUS
<1>8. num.left = 0  BY <1>6, <1>7 DEF Written, Looped
<1>9. /\ \A i \in 1 .. size : first + i <= room => num.buf[b + first + i - 1] = s[i]
      /\ Preserves(num0.buf, num.buf, b + first)
  <2>1. Figured(num, num0.buf, s, b, first, size, room)  BY <1>6, <1>7 DEF Looped
  <2>2. 0 + 1 = 1  OBVIOUS
  <2>3. QED  BY <1>8, <2>1, <2>2 DEF Figured
<1>10. Holds(num.buf, b + first, s, room - first)
  <2>1. ASSUME NEW i \in 1 .. size, i <= room - first PROVE num.buf[b + first + i - 1] = s[i]
    <3>1. first + i <= room  BY <2>1
    <3>2. QED  BY <1>9, <3>1
  <2>2. QED  BY <2>1 DEF Holds
<1>11. QED  BY <1>2, <1>7, <1>9, <1>10

\* The digits format_int counts are those of the number (stdio.c:102-107).
LEMMA CountedDigits ==
  ASSUME NEW base \in Nat, base > 1, NEW val \in Nat
  PROVE  DigitCount(val, base) = Len(Numeral(val, base))
<1> DEFINE f == CHOOSE f : Counts(f, base, val)
<1>1. Counts(f, base, val)  BY CountsExist
<1>2. DigitCount(val, base) = f[val]  BY DEF DigitCount, Counts
<1> HIDE DEF f
<1> DEFINE S == {m \in Nat : \A v \in 0 .. m : v <= val => f[v] = Len(Numeral(v, base))}
<1>3. f[0] = 0  BY <1>1 DEF Counts
<1>4. \A v \in 1 .. val : f[v] = f[v \div base] + 1  BY <1>1 DEF Counts
<1>5. 0 \in S
  <2>1. Numeral(0, base) = <<>> /\ Len(<<>>) = 0  BY NumeralStep
  <2>2. Len(Numeral(0, base)) = 0  BY <2>1, Zenon
  <2>3. QED  BY <1>3, <2>2
<1>6. ASSUME NEW m \in Nat, m \in S PROVE m + 1 \in S
  <2>1. ASSUME m + 1 <= val PROVE f[m + 1] = Len(Numeral(m + 1, base))
    <3>1. (m + 1) \div base \in 0 .. m  OBVIOUS
    <3>2. PICK u \in 0 .. m : u = (m + 1) \div base  BY <3>1
    <3>3. f[u] = Len(Numeral(u, base))  BY <1>6, <3>2, <2>1
    <3>4. f[m + 1] = f[u] + 1  BY <3>2, <2>1, <1>4
    <3>5. Extends(Numeral(m + 1, base), Numeral((m + 1) \div base, base), (m + 1) % base)
      <4>1. m + 1 \in Nat /\ m + 1 # 0  OBVIOUS
      <4>2. QED  BY <4>1, NumeralLast
    <3>6. Len(Numeral(m + 1, base)) = Len(Numeral(u, base)) + 1  BY <3>2, <3>5 DEF Extends
    <3>7. QED  BY <3>3, <3>4, <3>6
  <2>2. QED  BY <2>1, <1>6
<1> HIDE DEF S
<1>7. S = Nat
  <2>1. \A k \in Nat : k \in S => k + 1 \in S  BY <1>6
  <2>2. S \in SUBSET Nat  BY DEF S
  <2>3. QED  BY <1>5, <2>1, <2>2, Induction
<1>8. val \in S  BY <1>7
<1>9. QED  BY <1>2, <1>8 DEF S

\* The tables of digits.
LEMMA TablesTyped ==
  ASSUME NEW table \in {lcdigits, ucdigits}
  PROVE  table[1] = "0" /\ \A i \in 0 .. 15 : table[i + 1] \in Glyphs
<1> DEFINE lower == <<"a", "b", "c", "d", "e", "f">>
           upper == <<"A", "B", "C", "D", "E", "F">>
<1>1. Decimals \in Seq(Glyphs) /\ Len(Decimals) = 10 /\ Decimals[1] = "0"
  <2>1. {"0", "1", "2", "3", "4", "5", "6", "7", "8", "9"} \subseteq Glyphs  BY DEF Glyphs
  <2>2. Decimals \in Seq({"0", "1", "2", "3", "4", "5", "6", "7", "8", "9"})  BY DEF Decimals
  <2>3. Decimals \in Seq(Glyphs)  BY <2>1, <2>2, SeqMonotonic
  <2>4. QED  BY <2>3 DEF Decimals
<1>2. lower \in Seq(Glyphs) /\ upper \in Seq(Glyphs) /\ Len(lower) = 6 /\ Len(upper) = 6
  <2>1. {"a", "b", "c", "d", "e", "f"} \subseteq Glyphs /\ {"A", "B", "C", "D", "E", "F"} \subseteq Glyphs
    BY DEF Glyphs
  <2>2. lower \in Seq({"a", "b", "c", "d", "e", "f"}) /\ upper \in Seq({"A", "B", "C", "D", "E", "F"})  OBVIOUS
  <2>3. lower \in Seq(Glyphs) /\ upper \in Seq(Glyphs)  BY <2>1, <2>2, SeqMonotonic
  <2>4. Len(lower) = 6 /\ Len(upper) = 6  OBVIOUS
  <2>5. QED  BY <2>3, <2>4
<1> HIDE DEF lower, upper
<1>3. PICK t \in {lower, upper} : table = Decimals \o t  BY DEF lcdigits, ucdigits, lower, upper
<1>4. t \in Seq(Glyphs) /\ Len(t) = 6  BY <1>2
<1>5. table \in Seq(Glyphs) /\ Follows(table, Decimals, t)  BY <1>1, <1>3, <1>4, JoinAt
<1>6. table[1] = "0"  BY <1>1, <1>5 DEF Follows
<1>7. Len(table) = 16  BY <1>1, <1>4, <1>5 DEF Follows
<1>8. ASSUME NEW i \in 0 .. 15 PROVE table[i + 1] \in Glyphs
  <2>1. i + 1 \in 1 .. Len(table)  BY <1>7
  <2>2. QED  BY <1>5, <2>1, ElementOfSeq
<1>9. QED  BY <1>6, <1>8

LEMMA FiguresTyped ==
  ASSUME NEW base \in {8, 10, 16}, NEW val \in Nat, NEW m \in Nat, NEW table \in {lcdigits, ucdigits}
  PROVE  Figures(val, base, m, table) \in Seq(Glyphs) /\ Len(Figures(val, base, m, table)) = m
<1>1. PICK s : s = Numeral(val, base)  OBVIOUS
<1>2. s \in Seq(0 .. base - 1)
  <2>1. base \in Nat /\ base > 1  OBVIOUS
  <2>2. IsNumeral(s, val, base)  BY <1>1, <2>1, NumeralTyped
  <2>3. QED  BY <2>2 DEF IsNumeral
<1>3. PICK b \in Nat : b = Len(s)  BY <1>2, LenProperties
<1>4. ASSUME NEW i \in 1 .. b PROVE s[i] \in 0 .. 15
  <2>1. PICK x \in 0 .. base - 1 : x = s[i]  BY <1>2, <1>3, ElementOfSeq
  <2>2. QED  BY <2>1
<1> DEFINE F(i) == IF i <= m - b THEN "0" ELSE table[s[i - (m - b)] + 1]
<1>5. ASSUME NEW i \in 1 .. m PROVE F(i) \in Glyphs
  <2>1. CASE i <= m - b  BY <2>1, GlyphsHave
  <2>2. CASE ~ (i <= m - b)
    <3>1. i - (m - b) \in 1 .. b  BY <2>2
    <3>2. PICK x \in 0 .. 15 : x = s[i - (m - b)]  BY <1>4, <3>1
    <3>3. table[x + 1] \in Glyphs  BY TablesTyped
    <3>4. QED  BY <2>2, <3>2, <3>3
  <2>3. QED  BY <2>1, <2>2
<1>6. Figures(val, base, m, table) = [i \in 1 .. m |-> F(i)]  BY <1>1, <1>3 DEF Figures
<1> HIDE DEF F
<1>7. [i \in 1 .. m |-> F(i)] \in [1 .. m -> Glyphs]  BY <1>5
<1>8. Figures(val, base, m, table) \in Seq(Glyphs)
  <2>1. Figures(val, base, m, table) \in UNION {[1 .. k -> Glyphs] : k \in Nat}  BY <1>6, <1>7
  <2>2. QED  BY <2>1, SeqDef, Zenon
<1>9. Len(Figures(val, base, m, table)) = m  BY <1>6
<1>10. QED  BY <1>8, <1>9

LEMMA GroupsTyped ==
  ASSUME NEW wanted \in Nat \ {0}, NEW g \in Nat \ {0}, g = wanted \/ g \in {3, 4},
         NEW size \in Nat, Sized(size, wanted, g), NEW plain \in Seq(Glyphs), Len(plain) = wanted
  PROVE  Grouped(plain, g) \in Seq(Glyphs) /\ Len(Grouped(plain, g)) = size
<1>1. PICK s : s = Grouped(plain, g)  OBVIOUS
<1>2. GroupedSo(s, plain, size, wanted, g)  BY <1>1, GroupedAt
<1> USE DEF GroupedSo
<1>3. ASSUME NEW i \in 1 .. size PROVE s[i] \in Glyphs
  <2>1. PICK r \in 0 .. size - 1 : r = size - i /\ size - r = i  OBVIOUS
  <2>2. CASE Since(r, g) = g  BY <1>2, <2>1, <2>2, GlyphsHave
  <2>3. CASE Since(r, g) # g
    <3>1. PICK k \in 0 .. wanted - 1 : k = r - Marks(r, g)  BY <2>3, GroupNext
    <3>2. wanted - k \in 1 .. Len(plain)  OBVIOUS
    <3>3. plain[wanted - k] \in Glyphs  BY <3>2, ElementOfSeq
    <3>4. QED  BY <1>2, <2>1, <2>3, <3>1, <3>3
  <2>4. QED  BY <2>2, <2>3
<1>4. s = [i \in 1 .. size |-> s[i]]
  <2> DEFINE F(i) == IF (size - i) % (g + 1) = g THEN "_"
                     ELSE plain[Len(plain) - ((size - i) - (size - i) \div (g + 1))]
  <2>1. s = [i \in 1 .. size |-> F(i)]  BY <1>1 DEF Grouped, Sized
  <2> HIDE DEF F
  <2>2. QED  BY <2>1
<1>5. s \in [1 .. size -> Glyphs]  BY <1>3, <1>4
<1>6. s \in Seq(Glyphs)
  <2>1. s \in UNION {[1 .. k -> Glyphs] : k \in Nat}  BY <1>5
  <2>2. QED  BY <2>1, SeqDef, Zenon
<1>7. QED  BY <1>1, <1>2, <1>6

\* The text of a number, as format_int puts it together.
Minus(arg, fl) == "SIGNED" \in fl /\ arg >= Word \div 2
Magnitude(arg, fl) == IF Minus(arg, fl) THEN (Word - arg) % Word ELSE arg
Skip(fl, base, wanted) == IF "TICK" \notin fl THEN wanted ELSE IF base = 16 THEN 4 ELSE 3

NumberOf(arg, fl, base, precision) ==
  LET wanted == DigitsWanted(Magnitude(arg, fl), fl, base, precision)
  IN Grouped(Figures(Magnitude(arg, fl), base, wanted, IF "UPPER" \in fl THEN ucdigits ELSE lcdigits),
             Skip(fl, base, wanted))

SignOf(arg, fl) ==
  IF Minus(arg, fl) THEN <<"-">> ELSE IF "PLUS" \in fl THEN <<"+">>
  ELSE IF "SPACE" \in fl THEN <<" ">> ELSE <<>>

HeadOf(arg, fl, base) ==
  IF "HASH" \in fl /\ base = 16 THEN SignOf(arg, fl) \o <<"0", IF "UPPER" \in fl THEN "X" ELSE "x">>
  ELSE SignOf(arg, fl)

LaidOut(head, number, fl, pad) ==
  LET early == IF fl \cap {"MINUS", "ZERO"} = {} THEN Copies(pad, " ") ELSE <<>>
      zeros == IF fl \cap {"MINUS", "ZERO"} = {"ZERO"} THEN Copies(pad, "0") ELSE <<>>
      late == IF "MINUS" \in fl THEN Copies(pad, " ") ELSE <<>>
  IN ((early \o head \o zeros) \o number) \o late

NumberText(arg, fl, base, wide, precision) ==
  LET head == HeadOf(arg, fl, base)
      number == NumberOf(arg, fl, base, precision)
  IN LaidOut(head, number, fl, wide - Len(number) - Len(head))

LEMMA PaddingGlyphs == Padding \subseteq Glyphs
BY DEF Padding, Glyphs, FlagCharacters

LEMMA WantedEnough ==
  ASSUME NEW val \in Nat, NEW fl, NEW base \in {8, 10, 16}, NEW precision \in Int
  PROVE  DigitCount(val, base) <= DigitsWanted(val, fl, base, precision)
<1>1. DigitCount(val, base) = Len(Numeral(val, base))  BY CountedDigits
<1>2. PICK significant \in Nat : significant = DigitCount(val, base) /\ (significant = 0 <=> val = 0)
  BY <1>1, NumeralLength
<1>3. QED  BY <1>2 DEF DigitsWanted

(***************************************************************************)
(* format_int writes the cells of the characters it counts that there is    *)
(* room for, and in them the text of the number, whatever the number, its   *)
(* flags, width and precision (stdio.c:73).                                 *)
(***************************************************************************)
LEMMA FormatIntAdds ==
  ASSUME NEW buf, NEW b \in Int, NEW room \in Nat, NEW arg \in 0 .. Word - 1, NEW fl,
         NEW base \in {8, 10, 16}, NEW wide \in Int, NEW precision \in Int,
         Len(NumberText(arg, fl, base, wide, precision)) < Word
  PROVE  LET out == [buf |-> buf, at |-> b, o |-> 0, n |-> room]
             after == FormatInt(out, arg, fl, base, wide, precision)
         IN /\ Emitted(after, DOMAIN buf, b, 0, room)
            /\ Adds(out, after, NumberText(arg, fl, base, wide, precision), b, room)
<1> DEFINE out == [buf |-> buf, at |-> b, o |-> 0, n |-> room]
           minus == "SIGNED" \in fl /\ arg >= Word \div 2
           val == IF minus THEN (Word - arg) % Word ELSE arg
           digits == IF "UPPER" \in fl THEN ucdigits ELSE lcdigits
           wanted == DigitsWanted(val, fl, base, precision)
           tickskip == IF "TICK" \notin fl THEN wanted ELSE IF base = 16 THEN 4 ELSE 3
           ndigits == wanted + (wanted - 1) \div tickskip
           sign == IF minus THEN <<"-">> ELSE IF "PLUS" \in fl THEN <<"+">>
                   ELSE IF "SPACE" \in fl THEN <<" ">> ELSE <<>>
           head == IF "HASH" \in fl /\ base = 16
                   THEN sign \o <<"0", IF "UPPER" \in fl THEN "X" ELSE "x">> ELSE sign
           pad == wide - ndigits - Len(head)
           early == IF fl \cap {"MINUS", "ZERO"} = {} THEN Copies(pad, " ") ELSE <<>>
           zeros == IF fl \cap {"MINUS", "ZERO"} = {"ZERO"} THEN Copies(pad, "0") ELSE <<>>
           late == IF "MINUS" \in fl THEN Copies(pad, " ") ELSE <<>>
           front == EmitAll(out, early \o head \o zeros)
           end == [buf |-> front.buf, at |-> front.at + ndigits, o |-> (front.o + ndigits) % Word, n |-> out.n]
           num0 == [buf |-> end.buf, at |-> end.at, o |-> end.o, n |-> end.n,
                    left |-> ndigits, b4tick |-> tickskip, val |-> val]
           number == WriteNumber(num0, base, tickskip, digits)
           result == EmitAll([end EXCEPT !.buf = number], late)
           figures == Figures(val, base, wanted, digits)
           G == Grouped(figures, tickskip)
<1>1. FormatInt(out, arg, fl, base, wide, precision) = result  BY DEF FormatInt
<1>2. val \in Nat
  <2>1. Word \in Nat /\ Word > 1  BY DirectivesAssumption
  <2>2. QED  BY <2>1
<1>3. wanted \in Nat \ {0}
  <2> HIDE DEF val
  <2>1. QED  BY <1>2, WantedDigits
<1>4. ndigits \in Nat /\ ndigits > 0 /\ Ticks(num0, wanted, tickskip)
  <2> HIDE DEF wanted, val
  <2>1. tickskip \in Nat /\ (tickskip = wanted \/ tickskip \in {3, 4})  BY <1>3
  <2> HIDE DEF tickskip, front
  <2>2. QED  BY <1>3, <2>1, GroupSizes
<1>5. figures \in Seq(Glyphs) /\ Len(figures) = wanted /\ Len(Numeral(val, base)) <= wanted
  <2>1. digits \in {lcdigits, ucdigits}
    <3>1. \A a, c : (IF "UPPER" \in fl THEN a ELSE c) \in {c, a}  OBVIOUS
    <3>2. QED  BY <3>1
  <2> HIDE DEF val, digits
  <2>2. DigitCount(val, base) = Len(Numeral(val, base)) /\ Len(Numeral(val, base)) \in Nat
    <3>1. base \in Nat /\ base > 1  OBVIOUS
    <3>2. QED  BY <1>2, <3>1, CountedDigits, NumeralLength
  <2>3. PICK k \in Nat : k = DigitCount(val, base) /\ k = Len(Numeral(val, base))  BY <2>2
  <2>4. k <= wanted
    <3>1. DigitCount(val, base) <= DigitsWanted(val, fl, base, precision)  BY <1>2, WantedEnough
    <3>2. QED  BY <2>3, <3>1
  <2> HIDE DEF wanted
  <2>5. wanted \in Nat  BY <1>3
  <2>6. figures \in Seq(Glyphs) /\ Len(figures) = wanted  BY <1>2, <2>1, <2>5, FiguresTyped, ZenonT(40)
  <2>7. QED  BY <2>3, <2>4, <2>6, Zenon
<1> HIDE DEF figures
<1>6. G \in Seq(Glyphs) /\ Len(G) = ndigits /\ GroupedSo(G, figures, ndigits, wanted, tickskip)
  <2> HIDE DEF wanted, val
  <2>1. tickskip \in Nat \ {0} /\ (tickskip = wanted \/ tickskip \in {3, 4})  BY <1>3
  <2> HIDE DEF tickskip
  <2>2. Sized(ndigits, wanted, tickskip)  BY DEF Sized
  <2> HIDE DEF ndigits
  <2>3. ndigits \in Nat /\ figures \in Seq(Glyphs) /\ Len(figures) = wanted  BY <1>4, <1>5
  <2>4. GroupedSo(G, figures, ndigits, wanted, tickskip)  BY <1>3, <2>1, <2>2, <2>3, GroupedAt, Zenon
  <2>5. G \in Seq(Glyphs) /\ Len(G) = ndigits
    <3>1. PICK w, g, size, f : w = wanted /\ g = tickskip /\ size = ndigits /\ f = figures  OBVIOUS
    <3>2. Grouped(f, g) \in Seq(Glyphs) /\ Len(Grouped(f, g)) = size
      BY <1>3, <2>1, <2>2, <2>3, <3>1, GroupsTyped
    <3>3. QED  BY <3>1, <3>2
  <2>6. QED  BY <2>4, <2>5
<1> HIDE DEF G
<1> DEFINE Texted == Seq(Glyphs)
<1>7. head \in Texted
  <2> HIDE DEF minus
  <2>1. sign \in Texted  BY PaddingHas, PaddingGlyphs, ShortLength, Zenon
  <2>2. (IF "UPPER" \in fl THEN "X" ELSE "x") \in Glyphs  BY PaddingHas, PaddingGlyphs, Zenon
  <2>3. <<"0", IF "UPPER" \in fl THEN "X" ELSE "x">> \in Texted
    BY <2>2, PaddingHas, PaddingGlyphs, ShortLength, Zenon
  <2> HIDE DEF sign
  <2>4. sign \o <<"0", IF "UPPER" \in fl THEN "X" ELSE "x">> \in Texted
    BY <2>1, <2>3, JoinLength, Zenon
  <2>5. QED  BY <2>1, <2>4, Zenon
<1> HIDE DEF head
<1>8. pad \in Int
  <2>1. PICK k \in Nat : k = Len(head)  BY <1>7, LenProperties
  <2>2. PICK size \in Nat : size = ndigits  BY <1>4, ZenonT(40)
  <2>3. wide - size - k \in Int  OBVIOUS
  <2>4. QED  BY <2>1, <2>2, <2>3, Zenon
<1> HIDE DEF pad
<1>9. /\ <<>> \in Texted /\ Copies(pad, " ") \in Texted /\ Copies(pad, "0") \in Texted
  BY <1>8, PaddingHas, PaddingGlyphs, ShortLength, CopiesLength, Zenon
<1>10. early \in Texted /\ zeros \in Texted /\ late \in Texted  BY <1>9, Zenon
<1> HIDE DEF early, zeros, late
<1>11. Len(early \o head \o zeros) \in Nat /\ Len(late) \in Nat
  <2>1. early \o head \in Texted  BY <1>7, <1>10, JoinLength, Zenon
  <2>2. Len((early \o head) \o zeros) \in Nat  BY <2>1, <1>10, JoinLength, Zenon
  <2>3. QED  BY <2>2, <1>10, LenProperties, Zenon
<1>12. NumberText(arg, fl, base, wide, precision) = ((early \o head \o zeros) \o G) \o late
  <2>1. head = HeadOf(arg, fl, base)  BY DEF head, HeadOf, SignOf, Minus
  <2>2. G = NumberOf(arg, fl, base, precision)
    BY DEF G, figures, NumberOf, wanted, val, digits, tickskip, Skip, Magnitude, Minus
  <2>3. pad = wide - Len(G) - Len(head)  BY <1>6 DEF pad
  <2>4. NumberText(arg, fl, base, wide, precision) = LaidOut(head, G, fl, pad)
    BY <2>1, <2>2, <2>3, Zenon DEF NumberText
  <2>5. QED  BY <2>4 DEF LaidOut, early, zeros, late
<1>13. InWord(Len(early \o head \o zeros), ndigits, Len(late))
  <2>1. (early \o head) \o zeros \in Texted  BY <1>7, <1>10, JoinLength, Zenon
  <2>2. PICK lead \in Texted : lead = (early \o head) \o zeros  BY <2>1
  <2>3. lead \o G \in Texted /\ Follows(lead \o G, lead, G)  BY <1>6, <2>2, JoinAt
  <2>4. Follows((lead \o G) \o late, lead \o G, late)  BY <1>10, <2>3, JoinAt
  <2>5. Len((lead \o G) \o late) < Word  BY <1>12, <2>2
  <2> HIDE DEF ndigits
  <2>6. Len(lead) \in Nat /\ Len(G) = ndigits /\ ndigits \in Nat /\ Len(late) \in Nat
        /\ Len((lead \o G) \o late) = (Len(lead) + Len(G)) + Len(late)
    BY <1>4, <1>6, <2>3, <2>4 DEF Follows
  <2>7. InWord(Len(lead), ndigits, Len(late))  BY <2>5, <2>6 DEF InWord
  <2>8. QED  BY <2>2, <2>7, Zenon
<1>14. Emitted(out, DOMAIN buf, b, 0, room)
  <2>1. Cells(b, 0, 0, room) = {}  BY DEF Cells
  <2>2. out.buf = buf /\ out.at = b /\ out.o = 0 /\ out.n = room  OBVIOUS
  <2>3. out = [buf |-> out.buf, at |-> out.at, o |-> out.o, n |-> room]  OBVIOUS
  <2> HIDE DEF out
  <2>4. DOMAIN out.buf = DOMAIN buf \cup Cells(b, 0, out.o, room)  BY <2>1, <2>2
  <2>5. QED  BY <2>2, <2>3, <2>4 DEF Emitted
<1>15. Emitted(front, DOMAIN buf, b, 0, room) /\ Adds(out, front, early \o head \o zeros, b, room)
  <2>1. PICK s : s = early \o head \o zeros  OBVIOUS
  <2>2. Len(s) \in Nat /\ 0 + Len(s) < Word  BY <1>11, <1>13, <2>1, InWordSums
  <2>3. out.o = 0  OBVIOUS
  <2> HIDE DEF out
  <2>4. Emitted(EmitAll(out, s), DOMAIN buf, b, 0, room) /\ Adds(out, EmitAll(out, s), s, b, room)
    BY <1>14, <2>2, <2>3, EmitAllKeeps, EmitAllAdds
  <2>5. QED  BY <2>1, <2>4, Zenon
<1> HIDE DEF front
<1>16. front.o = Len(early \o head \o zeros)
  <2>1. out.o = 0  OBVIOUS
  <2> HIDE DEF out
  <2>2. front.o = 0 + Len(early \o head \o zeros)  BY <1>15, <2>1 DEF Adds
  <2>3. QED  BY <1>11, <2>2
<1> DEFINE D == DOMAIN front.buf
           first == front.o
<1>17. Adds(out, front, early \o head \o zeros, b, room)  BY <1>15
<1>18. /\ (first + ndigits) % Word = first + ndigits /\ first + ndigits < Word
       /\ (first + ndigits) + Len(late) < Word
  <2> HIDE DEF ndigits, first
  <2>1. InWord(first, ndigits, Len(late))  BY <1>13, <1>16, Zenon DEF first
  <2>2. QED  BY <2>1, InWordSums, Zenon
<1>19. /\ front = [buf |-> front.buf, at |-> front.at, o |-> first, n |-> room]
       /\ first \in Nat /\ front.at \in Int
       /\ (first < room => front.at = b + first) /\ (first >= room => front.at >= b + room)
       /\ D = DOMAIN buf \cup Cells(b, 0, first, room)
  BY <1>15 DEF Emitted
<1> HIDE DEF D, first
<1> HIDE DEF ndigits, tickskip, wanted, val, digits
<1>20. DOMAIN number = D \cup Cells(b, first, first + ndigits, room)
  <2>1. /\ num0.buf = front.buf /\ num0.at = front.at + ndigits /\ num0.o = first + ndigits
        /\ num0.n = room /\ num0.left = ndigits
    BY <1>19, <1>18 DEF first
  <2>2. num0 = [buf |-> num0.buf, at |-> num0.at, o |-> num0.o, n |-> room,
                left |-> num0.left, b4tick |-> num0.b4tick, val |-> num0.val]
    OBVIOUS
  <2> HIDE DEF num0
  <2>3. Cells(b, first + ndigits, first + ndigits, room) = {}  BY <1>4, <1>19 DEF Cells
  <2>4. Written(num0, D, b, first, ndigits, room)
    BY <2>1, <2>2, <2>3, <1>4, <1>19, <1>18 DEF Written, D
  <2>5. tickskip \in Nat  BY <1>3 DEF tickskip
  <2>6. wanted \in Nat /\ ndigits \in Nat /\ first \in Nat /\ Ticks(num0, wanted, tickskip)
    BY <1>3, <1>4, <1>19
  <2>7. Fills(WriteNumber(num0, base, tickskip, digits), D, b, first, ndigits, room)
    BY <2>1, <2>4, <2>5, <2>6, WriteNumberWrites
  <2>8. QED  BY <2>7, Zenon DEF Fills
<1>21. Holds(number, b + first, G, room - first) /\ Preserves(front.buf, number, b + first)
  <2>1. /\ num0.buf = front.buf /\ num0.at = front.at + ndigits /\ num0.o = first + ndigits
        /\ num0.n = room /\ num0.left = ndigits /\ num0.b4tick = tickskip /\ num0.val = val
    BY <1>19, <1>18 DEF first
  <2>2. num0 = [buf |-> num0.buf, at |-> num0.at, o |-> num0.o, n |-> room,
                left |-> num0.left, b4tick |-> num0.b4tick, val |-> num0.val]
    OBVIOUS
  <2> HIDE DEF num0
  <2>3. Cells(b, first + ndigits, first + ndigits, room) = {}  BY <1>4, <1>19 DEF Cells
  <2>4. Written(num0, D, b, first, ndigits, room)
    BY <2>1, <2>2, <2>3, <1>4, <1>19, <1>18 DEF Written, D
  <2>5. tickskip \in Nat \ {0} /\ (tickskip = wanted \/ tickskip \in {3, 4})  BY <1>3 DEF tickskip
  <2>6. digits[1] = "0"  BY TablesTyped DEF digits
  <2>7. InGroups(G, ndigits, wanted, tickskip, val, base, digits)
    BY <1>6 DEF GroupedSo, InGroups, figures
  <2>8. Sized(ndigits, wanted, tickskip)  BY DEF Sized, ndigits
  <2>9. Spells(b, first, ndigits, room, base, digits, wanted, tickskip, val, G)
    BY <1>2, <1>3, <1>4, <1>19, <1>5, <2>5, <2>6, <2>7, <2>8 DEF Spells
  <2>10. Len(G) = ndigits  BY <1>6
  <2>11. QED  BY <2>1, <2>4, <2>9, <2>10, <1>4, WriteNumberFigures
<1> HIDE DEF number
<1>22. Emitted([end EXCEPT !.buf = number], DOMAIN buf, b, 0, room)
  <2> DEFINE new == [buf |-> number, at |-> front.at + ndigits, o |-> first + ndigits, n |-> room]
  <2>1. [end EXCEPT !.buf = number] = new  BY <1>18 DEF first
  <2>2. DOMAIN number = DOMAIN buf \cup Cells(b, 0, first + ndigits, room)
    BY <1>4, <1>19, <1>20 DEF Cells
  <2>3. new.buf = number /\ new.at = front.at + ndigits /\ new.o = first + ndigits
    OBVIOUS
  <2>4. new = [buf |-> new.buf, at |-> new.at, o |-> new.o, n |-> room]  OBVIOUS
  <2> HIDE DEF new
  <2>5. Emitted(new, DOMAIN buf, b, 0, room)  BY <1>4, <1>19, <2>2, <2>3, <2>4 DEF Emitted
  <2>6. QED  BY <2>1, <2>5
<1>23. QED
  <2> DEFINE x == [end EXCEPT !.buf = number]
             lead == early \o head \o zeros
  <2>1. Emitted(x, DOMAIN buf, b, 0, room)  BY <1>22
  <2>2. x.buf = number /\ x.o = first + ndigits  BY <1>18 DEF first
  <2>3. Adds(front, x, G, b, room)
    <3>1. Len(G) = ndigits  BY <1>6
    <3>2. QED  BY <1>21, <2>2, <3>1 DEF Adds, first
  <2> HIDE DEF x
  <2>4. x.o + Len(late) < Word
    <3>1. (first + ndigits) + Len(late) < Word  BY <1>18
    <3>2. QED  BY <2>2, <3>1, Zenon
  <2>5. Emitted(EmitAll(x, late), DOMAIN buf, b, 0, room)  BY <2>1, <2>4, <1>11, EmitAllKeeps
  <2>6. lead \in Texted
    <3>1. early \o head \in Texted  BY <1>7, <1>10, JoinLength, Zenon
    <3>2. QED  BY <3>1, <1>10, JoinLength, Zenon
  <2>7. Adds(out, front, lead, b, room)  BY <1>17
  <2> HIDE DEF lead
  <2>8. lead \o G \in Texted /\ Follows(lead \o G, lead, G)  BY <1>6, <2>6, JoinAt
  <2>9. Adds(out, x, lead \o G, b, room)  BY <2>1, <1>14, <1>15, <2>3, <2>7, <2>8, AddsMore
  <2>10. Adds(x, EmitAll(x, late), late, b, room)  BY <2>1, <2>4, <1>11, EmitAllAdds
  <2>11. Follows((lead \o G) \o late, lead \o G, late)  BY <1>10, <2>8, JoinAt
  <2>12. Adds(out, EmitAll(x, late), (lead \o G) \o late, b, room)
    BY <1>14, <2>1, <2>9, <2>10, <2>11, AddsMore
  <2>13. QED  BY <2>5, <2>12, <1>1, <1>12 DEF x, lead, number

Named(S) == {FlagNames[f] : f \in S}
MeantFlags(d) == Named(ToSet(d.flags) \cup (IF d.width.n < 0 THEN {"-"} ELSE {}))
MeantPrec(d) == IF d.prec = Absent \/ d.prec.n < 0 THEN -1 ELSE d.prec.n

\* An argument that stands for a number is that number.
LEMMA Wraps ==
  ASSUME NEW m \in Nat, m > 0, NEW x \in Int, x < 0, x >= -m
  PROVE  x % m = x + m
OBVIOUS

(***************************************************************************)
(* The number a conversion takes and the integer it is about.               *)
(***************************************************************************)
IntegerConvs == {"d", "i", "o", "u", "x", "X", "p", "P"}

ArgumentOf(d) ==
  IF d.conv \in {"p", "P"} THEN d.values[1]
  ELSE IF d.conv \in {"d", "i"} THEN SignedIn(d.values[1], Modulus(d.length)) % Word
  ELSE d.values[1] % Modulus(d.length)

FlagsOf(d) ==
  MeantFlags(d) \cup (IF d.conv \in {"X", "P"} THEN {"UPPER"} ELSE {})
    \cup (IF d.conv \in {"p", "P"} THEN {"HASH"} ELSE {}) \cup (IF d.conv \in {"d", "i"} THEN {"SIGNED"} ELSE {})

PrecisionOf(d) == IF d.conv \in {"p", "P"} THEN DigitCount(Word - 1, 16) ELSE MeantPrec(d)
Unsigned(v) == IF v < 0 THEN -v ELSE v

\* An integer v and the word that stands for it.
Stands(v, W, h) ==
  /\ v % W \in 0 .. W - 1 /\ (v % W >= h <=> v < 0)
  /\ v < 0 => (W - (v % W)) % W = -v
  /\ v >= 0 => v % W = v

LEMMA SignedWord ==
  ASSUME NEW W \in Nat, NEW h \in Nat, W = 2 * h \/ W = 2 * h + 1, NEW m \in Nat, m > 1, m <= W,
         NEW e \in Nat, m = 2 * e \/ m = 2 * e + 1, NEW r \in 0 .. m - 1,
         NEW v \in Int, v = IF r >= e THEN r - m ELSE r
  PROVE  Stands(v, W, h)
<1> USE DEF Stands
<1>1. CASE r < e
  <2>1. v = r /\ v >= 0 /\ v < W /\ v < h  BY <1>1
  <2>2. v % W = v  BY <2>1
  <2>3. QED  BY <2>1, <2>2
<1>2. CASE r >= e
  <2>1. v = r - m /\ v < 0 /\ v >= -W /\ -v < W /\ W > 0 /\ W + v >= h  BY <1>2
  <2>2. v % W = v + W  BY <2>1, Wraps
  <2>3. PICK a \in Nat : a = v + W /\ a < W  BY <2>1
  <2>4. PICK x \in Nat : x = -v /\ x < W /\ W - a = x  BY <2>1, <2>3
  <2>5. x % W = x  BY <2>4
  <2>6. QED  BY <2>1, <2>2, <2>3, <2>4, <2>5
<1>3. QED  BY <1>1, <1>2

LEMMA NamedHas ==
  ASSUME NEW S \in SUBSET FlagCharacters
  PROVE  /\ "MINUS" \in Named(S) <=> "-" \in S
         /\ "PLUS" \in Named(S) <=> "+" \in S
         /\ "TICK" \in Named(S) <=> "'" \in S
         /\ "SPACE" \in Named(S) <=> " " \in S
         /\ "HASH" \in Named(S) <=> "#" \in S
         /\ "ZERO" \in Named(S) <=> "0" \in S
         /\ "SIGNED" \notin Named(S) /\ "UPPER" \notin Named(S)
<1>1. /\ FlagNames["-"] = "MINUS" /\ FlagNames["+"] = "PLUS" /\ FlagNames["'"] = "TICK"
      /\ FlagNames[" "] = "SPACE" /\ FlagNames["#"] = "HASH" /\ FlagNames["0"] = "ZERO"
  BY DEF FlagNames, FlagCharacters
<1>2. S \subseteq {"-", "+", "'", " ", "#", "0"}  BY DEF FlagCharacters
<1>3. QED  BY <1>1, <1>2 DEF Named

FlagsMean(fl, d) ==
  /\ "MINUS" \in fl <=> "-" \in Flags(d)
  /\ "PLUS" \in fl <=> "+" \in Flags(d)
  /\ "TICK" \in fl <=> "'" \in Flags(d)
  /\ "SPACE" \in fl <=> " " \in Flags(d)
  /\ "HASH" \in fl <=> "#" \in Flags(d)
  /\ "ZERO" \in fl <=> "0" \in Flags(d)
  /\ "UPPER" \in fl <=> d.conv \in {"X", "P"}
  /\ "SIGNED" \in fl <=> d.conv \in {"d", "i"}

LEMMA FlagsMeant ==
  ASSUME NEW d, IsConversion(d)
  PROVE  FlagsMean(FlagsOf(d), d)
<1> DEFINE S == ToSet(d.flags) \cup (IF d.width.n < 0 THEN {"-"} ELSE {})
<1>1. S \in SUBSET FlagCharacters
  <2>1. d.flags \in Seq(FlagCharacters)  BY DEF IsConversion
  <2>2. ToSet(d.flags) \subseteq FlagCharacters  BY <2>1, ElementOfSeq, LenProperties DEF ToSet
  <2>3. "-" \in FlagCharacters  BY DEF FlagCharacters
  <2>4. QED  BY <2>2, <2>3
<1>2. MeantFlags(d) = Named(S)  BY DEF MeantFlags
<1>3. Flags(d) = S \cup (IF d.conv \in {"p", "P"} THEN {"#"} ELSE {})  BY DEF Flags
<1> HIDE DEF S
<1>4. PICK N : /\ N = Named(S)
               /\ "MINUS" \in N <=> "-" \in S
               /\ "PLUS" \in N <=> "+" \in S
               /\ "TICK" \in N <=> "'" \in S
               /\ "SPACE" \in N <=> " " \in S
               /\ "HASH" \in N <=> "#" \in S
               /\ "ZERO" \in N <=> "0" \in S
               /\ "SIGNED" \notin N /\ "UPPER" \notin N
  BY <1>1, NamedHas
<1>5. QED  BY <1>2, <1>3, <1>4 DEF FlagsMean, FlagsOf

\* Same magnitude, same sign.
LEMMA IntegerMeans ==
  ASSUME NEW d, IsConversion(d), d.conv \in IntegerConvs
  PROVE  /\ ArgumentOf(d) \in 0 .. Word - 1 /\ Value(d) \in Int
         /\ Minus(ArgumentOf(d), FlagsOf(d)) <=> Value(d) < 0
         /\ Magnitude(ArgumentOf(d), FlagsOf(d)) = Unsigned(Value(d))
<1>1. PICK W \in Nat : W = Word /\ W > 3  BY WordTyped
<1>2. PICK h \in Nat : h = Word \div 2 /\ (W = 2 * h \/ W = 2 * h + 1)  BY <1>1
<1>3. PICK m \in Nat : m = Modulus(d.length) /\ m > 1 /\ m <= W
  BY <1>1, DirectivesAssumption DEF Modulus
<1>4. PICK e \in Nat : e = m \div 2 /\ (m = 2 * e \/ m = 2 * e + 1)  BY <1>3
<1>5. PICK w \in 0 .. W - 1 : w = d.values[1]
  <2>1. d.values \in Seq(0 .. Word - 1) /\ Len(d.values) = WordsOf(d)  BY DEF IsConversion
  <2>2. WordsOf(d) \in {1, 2}  BY DEF WordsOf, IntegerConvs
  <2>3. 1 \in 1 .. Len(d.values)  BY <2>1, <2>2
  <2>4. QED  BY <1>1, <2>1, <2>3, ElementOfSeq
<1>6. PICK r \in 0 .. m - 1 : r = w % m  BY <1>3
<1>7. w % W = w  BY <1>1
<1>8. "SIGNED" \in FlagsOf(d) <=> d.conv \in {"d", "i"}  BY FlagsMeant DEF FlagsMean
<1>9. CASE d.conv \in {"d", "i"}
  <2>1. PICK v \in Int : v = IF r >= e THEN r - m ELSE r  BY <1>3, <1>6
  <2>2. Value(d) = v  BY <1>3, <1>4, <1>5, <1>6, <1>9, <2>1 DEF Value
  <2>3. SignedIn(d.values[1], Modulus(d.length)) = v  BY <1>3, <1>4, <1>5, <1>6, <2>1 DEF SignedIn
  <2>4. ArgumentOf(d) = v % W  BY <1>1, <1>9, <2>3 DEF ArgumentOf
  <2>5. Stands(v, W, h)  BY <1>2, <1>3, <1>4, <1>6, <2>1, SignedWord
  <2>6. QED  BY <1>1, <1>2, <1>8, <1>9, <2>2, <2>4, <2>5 DEF Stands, Minus, Magnitude, Unsigned
<1>10. CASE d.conv \notin {"d", "i"}
  <2>1. ArgumentOf(d) = Value(d) /\ Value(d) \in 0 .. W - 1
    <3>1. CASE d.conv \in {"p", "P"}  BY <1>1, <1>5, <1>7, <1>10, <3>1 DEF ArgumentOf, Value
    <3>2. CASE d.conv \notin {"p", "P"}  BY <1>3, <1>5, <1>6, <1>10, <3>2 DEF ArgumentOf, Value
    <3>3. QED  BY <3>1, <3>2
  <2>2. ~ Minus(ArgumentOf(d), FlagsOf(d))  BY <1>8, <1>10 DEF Minus
  <2>3. QED  BY <1>1, <2>1, <2>2 DEF Magnitude, Unsigned
<1>11. QED  BY <1>9, <1>10

(***************************************************************************)
(* The digits of the number and the marks between them.                     *)
(***************************************************************************)
Many(d) == Len(Numeral(Unsigned(Value(d)), IntegerBase(d.conv)))

Least(d) ==
  Larger(1, Larger(Precision(d), IF "#" \in Flags(d) /\ IntegerBase(d.conv) = 8 THEN Many(d) + 1 ELSE 0))

TableOf(d) == IF d.conv \in {"X", "P"} THEN ucdigits ELSE lcdigits
Spelt(v, base, table) == [i \in DOMAIN Numeral(v, base) |-> table[Numeral(v, base)[i] + 1]]

PlainOf(d) ==
  Zeros(Least(d) - Many(d)) \o Spelt(Unsigned(Value(d)), IntegerBase(d.conv), TableOf(d))

LEMMA SpeltTyped ==
  ASSUME NEW base \in {8, 10, 16}, NEW v \in Nat, NEW table \in {lcdigits, ucdigits}
  PROVE  /\ Spelt(v, base, table) \in Seq(Glyphs) /\ Len(Spelt(v, base, table)) = Len(Numeral(v, base))
         /\ \A i \in 1 .. Len(Numeral(v, base)) : Spelt(v, base, table)[i] = table[Numeral(v, base)[i] + 1]
<1>1. PICK s : s = Numeral(v, base)  OBVIOUS
<1>2. s \in Seq(0 .. base - 1)
  <2>1. base \in Nat /\ base > 1  OBVIOUS
  <2>2. IsNumeral(s, v, base)  BY <1>1, <2>1, NumeralTyped
  <2>3. QED  BY <2>2 DEF IsNumeral
<1>3. PICK b \in Nat : b = Len(s) /\ DOMAIN s = 1 .. b  BY <1>2, LenProperties
<1>4. ASSUME NEW i \in 1 .. b PROVE table[s[i] + 1] \in Glyphs
  <2>1. PICK x \in 0 .. base - 1 : x = s[i]  BY <1>2, <1>3, ElementOfSeq
  <2>2. x \in 0 .. 15  BY <2>1
  <2>3. QED  BY <2>1, <2>2, TablesTyped
<1> DEFINE F(i) == table[s[i] + 1]
<1>5. Spelt(v, base, table) = [i \in 1 .. b |-> F(i)]  BY <1>1, <1>3 DEF Spelt
<1>6. \A i \in 1 .. b : F(i) \in Glyphs  BY <1>4
<1>7. \A i \in 1 .. b : F(i) = table[s[i] + 1]  OBVIOUS
<1> HIDE DEF F
<1>8. Spelt(v, base, table) \in Seq(Glyphs)
  <2>1. Spelt(v, base, table) \in UNION {[1 .. k -> Glyphs] : k \in Nat}  BY <1>5, <1>6
  <2>2. QED  BY <2>1, SeqDef, Zenon
<1>9. QED  BY <1>1, <1>3, <1>5, <1>7, <1>8

LEMMA Behind ==
  ASSUME NEW m \in Nat, NEW b \in Nat, NEW e \in Nat, e = m - b, NEW i \in 1 .. m, i > e
  PROVE  i - e \in 1 .. b /\ i = e + (i - e) /\ i - (m - b) = i - e
OBVIOUS

Enough(m, least, k) == m = Larger(least, k)

FiguresFor(base, v, table, least, m) ==
  /\ Zeros(least - Len(Numeral(v, base))) \o Spelt(v, base, table) = Figures(v, base, m, table)
  /\ Figures(v, base, m, table) \in Seq(Glyphs) /\ Len(Figures(v, base, m, table)) = m

LEMMA PlainIsFigures ==
  ASSUME NEW base \in {8, 10, 16}, NEW v \in Nat, NEW table \in {lcdigits, ucdigits}, NEW least \in Nat,
         NEW m \in Nat, Enough(m, least, Len(Numeral(v, base)))
  PROVE  FiguresFor(base, v, table, least, m)
<1>1. PICK s : s = Numeral(v, base)  OBVIOUS
<1>2. PICK b \in Nat : b = Len(s) /\ b <= m
  <2>1. PICK b \in Nat : b = Len(s)  BY <1>1, NumeralLength
  <2>2. m = IF least > b THEN least ELSE b  BY <1>1, <2>1 DEF Larger, Enough
  <2>3. QED  BY <2>1, <2>2
<1>3. PICK z : z = Zeros(least - b)  OBVIOUS
<1>4. PICK e \in Nat : e = m - b  BY <1>2
<1>5. e = IF least - b > 0 THEN least - b ELSE 0  BY <1>1, <1>2, <1>4 DEF Larger, Enough
<1>6. least - b \in Int  OBVIOUS
<1>7. z \in Seq(Glyphs)  BY <1>3, <1>6, GlyphsHave, CopiesLength DEF Zeros
<1>8. Len(z) = e /\ \A i \in 1 .. e : z[i] = "0"
  <2>1. /\ Len(z) = IF least - b > 0 THEN least - b ELSE 0
        /\ \A i \in 1 .. least - b : z[i] = "0"
    BY <1>3, <1>6, CopiesAt DEF Zeros
  <2>2. QED  BY <1>5, <2>1
<1>9. PICK t : t = Spelt(v, base, table)  OBVIOUS
<1>10. t \in Seq(Glyphs) /\ Len(t) = b /\ \A i \in 1 .. b : t[i] = table[s[i] + 1]
  <2>1. /\ Spelt(v, base, table) \in Seq(Glyphs) /\ Len(Spelt(v, base, table)) = Len(Numeral(v, base))
        /\ \A i \in 1 .. Len(Numeral(v, base)) : Spelt(v, base, table)[i] = table[Numeral(v, base)[i] + 1]
    BY SpeltTyped, ZenonT(40)
  <2>2. QED  BY <1>1, <1>2, <1>9, <2>1
<1>11. PICK u : u = z \o t  OBVIOUS
<1>12. u \in Seq(Glyphs) /\ Follows(u, z, t)  BY <1>7, <1>10, <1>11, JoinAt
<1>13. PICK f : f = Figures(v, base, m, table)  OBVIOUS
<1>14. f \in Seq(Glyphs) /\ Len(f) = m
  <2>1. Figures(v, base, m, table) \in Seq(Glyphs) /\ Len(Figures(v, base, m, table)) = m
    <3>1. base \in {8, 10, 16} /\ v \in Nat /\ m \in Nat /\ table \in {lcdigits, ucdigits}  OBVIOUS
    <3>2. QED  BY <3>1, FiguresTyped, ZenonT(40)
  <2>2. QED  BY <1>13, <2>1
<1>15. \A i \in 1 .. m : f[i] = IF i <= m - b THEN "0" ELSE table[s[i - (m - b)] + 1]
  BY <1>1, <1>2, <1>13 DEF Figures
<1>16. Len(u) = e + b /\ (\A i \in 1 .. e : u[i] = z[i]) /\ (\A i \in 1 .. b : u[e + i] = t[i])
  BY <1>8, <1>10, <1>12 DEF Follows
<1>17. ASSUME NEW i \in 1 .. m PROVE u[i] = f[i]
  <2>1. CASE i <= e  BY <1>4, <1>8, <1>15, <1>16, <2>1
  <2>2. CASE i > e
    <3>1. PICK j \in 1 .. b : i = e + j /\ i - (m - b) = j
      <4>1. i - e \in 1 .. b /\ i = e + (i - e) /\ i - (m - b) = i - e  BY <1>4, <2>2, Behind
      <4>2. QED  BY <4>1
    <3>2. u[i] = table[s[j] + 1]  BY <1>10, <1>16, <3>1
    <3>3. ~ (i <= m - b)  BY <1>4, <2>2
    <3>4. QED  BY <1>15, <3>1, <3>2, <3>3
  <2>3. QED  BY <2>1, <2>2
<1>18. Len(u) = m  BY <1>4, <1>16
<1>19. u = f  BY <1>12, <1>14, <1>17, <1>18, SeqEqual
<1>20. Zeros(least - Len(Numeral(v, base))) \o Spelt(v, base, table) = Figures(v, base, m, table)
  BY <1>1, <1>2, <1>3, <1>9, <1>11, <1>13, <1>19
<1>21. QED  BY <1>13, <1>14, <1>20 DEF FiguresFor

LEMMA GroupedWhole ==
  ASSUME NEW plain \in Seq(Glyphs), NEW wanted \in Nat \ {0}, Len(plain) = wanted
  PROVE  Grouped(plain, wanted) = plain
<1>1. PICK s : s = Grouped(plain, wanted)  OBVIOUS
<1>2. Sized(wanted, wanted, wanted)
  <2>1. (wanted - 1) \div wanted = 0  OBVIOUS
  <2>2. QED  BY <2>1 DEF Sized
<1>3. GroupedSo(s, plain, wanted, wanted, wanted)  BY <1>1, <1>2, GroupedAt
<1>4. s \in Seq(Glyphs) /\ Len(s) = wanted  BY <1>1, <1>2, GroupsTyped
<1>5. ASSUME NEW i \in 1 .. wanted PROVE s[i] = plain[i]
  <2>1. PICK r \in 0 .. wanted - 1 : r = wanted - i /\ wanted - r = i  OBVIOUS
  <2>2. Since(r, wanted) = r /\ Marks(r, wanted) = 0
    <3>1. r % (wanted + 1) = r /\ r \div (wanted + 1) = 0  OBVIOUS
    <3>2. QED  BY <3>1 DEF Since, Marks
  <2>3. r # wanted /\ wanted - (r - 0) = i  BY <2>1
  <2>4. s[wanted - r] = plain[wanted - (r - Marks(r, wanted))]  BY <1>3, <2>2, <2>3 DEF GroupedSo
  <2>5. QED  BY <2>1, <2>2, <2>3, <2>4
<1>6. s = plain  BY <1>4, <1>5, SeqEqual
<1>7. QED  BY <1>1, <1>6

LEMMA PrecisionMeant ==
  ASSUME NEW d, IsConversion(d)
  PROVE  PrecisionOf(d) = Precision(d) /\ Precision(d) \in Int
<1>1. Word - 1 \in Nat  BY WordTyped
<1>2. DigitCount(Word - 1, 16) = Len(Numeral(Word - 1, 16)) /\ Len(Numeral(Word - 1, 16)) \in Nat
  <2>1. PICK w \in Nat : w = Word - 1  BY <1>1
  <2>2. DigitCount(w, 16) = Len(Numeral(w, 16))  BY CountedDigits
  <2>3. Len(Numeral(w, 16)) \in Nat  BY NumeralLength
  <2>4. QED  BY <2>1, <2>2, <2>3
<1>3. PICK k \in Nat : k = DigitCount(Word - 1, 16) /\ k = Len(Numeral(Word - 1, 16))  BY <1>2
<1>4. d.prec = Absent \/ d.prec.n \in Int
  <2>1. IsNumber(d.prec)  BY DEF IsConversion
  <2>2. QED  BY <2>1, NumberSpelled, Zenon
<1>5. PrecisionOf(d) = Precision(d)  BY <1>3 DEF PrecisionOf, Precision, MeantPrec
<1>6. Precision(d) \in Int  BY <1>3, <1>4 DEF Precision
<1>7. QED  BY <1>5, <1>6

\* As many digits as both count, marks aside.
LEMMA DigitsMeant ==
  ASSUME NEW d, IsConversion(d), d.conv \in IntegerConvs
  PROVE  LET wanted == DigitsWanted(Unsigned(Value(d)), FlagsOf(d), IntegerBase(d.conv), PrecisionOf(d))
         IN wanted \in Nat \ {0} /\ Least(d) \in Nat /\ Enough(wanted, Least(d), Many(d))
<1>1. PICK base \in {8, 10, 16} : base = IntegerBase(d.conv)  BY DEF IntegerBase
<1>2. PICK v \in Nat : v = Unsigned(Value(d))  BY IntegerMeans DEF Unsigned
<1>3. PICK pr \in Int : pr = PrecisionOf(d) /\ pr = Precision(d)  BY PrecisionMeant
<1>4. PICK b \in Nat : b = Many(d) /\ b = DigitCount(v, base) /\ (b = 0 <=> v = 0)
  <2>1. DigitCount(v, base) = Len(Numeral(v, base))  BY CountedDigits
  <2>2. QED  BY <1>1, <1>2, <2>1, NumeralLength DEF Many
<1>5. PICK hash \in BOOLEAN : (hash <=> "#" \in Flags(d)) /\ (hash <=> "HASH" \in FlagsOf(d))
  BY FlagsMeant DEF FlagsMean
<1>6. PICK w : w = DigitsWanted(v, FlagsOf(d), base, pr)  OBVIOUS
<1>7. w = LET least == IF hash /\ base = 8 /\ pr < b + 1 THEN b + 1 ELSE pr
          IN IF b < least THEN least ELSE IF v = 0 THEN 1 ELSE b
  BY <1>4, <1>5, <1>6 DEF DigitsWanted
<1>8. PICK least : least = Least(d)  OBVIOUS
<1>9. least = LET x == IF hash /\ base = 8 THEN b + 1 ELSE 0
                  y == IF pr > x THEN pr ELSE x
              IN IF 1 > y THEN 1 ELSE y
  BY <1>1, <1>3, <1>4, <1>5, <1>8 DEF Least, Larger
<1>10. w \in Nat \ {0} /\ least \in Nat /\ w = IF least > b THEN least ELSE b
  <2>1. CASE hash /\ base = 8  BY <1>4, <1>7, <1>9, <2>1
  <2>2. CASE ~ (hash /\ base = 8)  BY <1>4, <1>7, <1>9, <2>2
  <2>3. QED  BY <2>1, <2>2
<1>11. QED  BY <1>1, <1>2, <1>3, <1>4, <1>6, <1>8, <1>10 DEF Enough, Larger

NumberIn(d) ==
  IF "'" \in Flags(d) THEN Grouped(PlainOf(d), IF IntegerBase(d.conv) = 16 THEN 4 ELSE 3) ELSE PlainOf(d)

LEMMA NumberMeant ==
  ASSUME NEW d, IsConversion(d), d.conv \in IntegerConvs
  PROVE  /\ NumberOf(ArgumentOf(d), FlagsOf(d), IntegerBase(d.conv), PrecisionOf(d)) = NumberIn(d)
         /\ NumberIn(d) \in Seq(Glyphs)
<1>1. IntegerBase(d.conv) \in {8, 10, 16}  BY DEF IntegerBase
<1>2. Unsigned(Value(d)) \in Nat /\ Unsigned(Value(d)) = Magnitude(ArgumentOf(d), FlagsOf(d))
  BY IntegerMeans DEF Unsigned
<1>3. FlagsMean(FlagsOf(d), d)  BY FlagsMeant
<1>4. PICK wanted \in Nat \ {0} :
        /\ wanted = DigitsWanted(Unsigned(Value(d)), FlagsOf(d), IntegerBase(d.conv), PrecisionOf(d))
        /\ Enough(wanted, Least(d), Many(d)) /\ Least(d) \in Nat
  BY DigitsMeant
<1>5. TableOf(d) \in {lcdigits, ucdigits}
  <2>1. \A P, a, c : (IF d.conv \in P THEN a ELSE c) \in {c, a}  OBVIOUS
  <2>2. QED  BY <2>1 DEF TableOf
<1>6. TableOf(d) = IF "UPPER" \in FlagsOf(d) THEN ucdigits ELSE lcdigits  BY <1>3 DEF TableOf, FlagsMean
<1>7. FiguresFor(IntegerBase(d.conv), Unsigned(Value(d)), TableOf(d), Least(d), wanted)
  <2>1. Enough(wanted, Least(d), Len(Numeral(Unsigned(Value(d)), IntegerBase(d.conv))))  BY <1>4 DEF Many
  <2>2. wanted \in Nat /\ Least(d) \in Nat  BY <1>4
  <2>3. QED  BY <1>1, <1>2, <1>5, <2>1, <2>2, PlainIsFigures, Zenon
<1>8. PICK f : f \in Seq(Glyphs) /\ Len(f) = wanted /\ f = PlainOf(d)
               /\ f = Figures(Unsigned(Value(d)), IntegerBase(d.conv), wanted, TableOf(d))
  BY <1>7 DEF FiguresFor, PlainOf, Many
<1>9. PICK g : g = Skip(FlagsOf(d), IntegerBase(d.conv), wanted)  OBVIOUS
<1>10. NumberOf(ArgumentOf(d), FlagsOf(d), IntegerBase(d.conv), PrecisionOf(d)) = Grouped(f, g)
  BY <1>2, <1>4, <1>6, <1>8, <1>9 DEF NumberOf
<1>11. CASE "'" \in Flags(d)
  <2>1. "TICK" \in FlagsOf(d)  BY <1>3, <1>11 DEF FlagsMean
  <2>2. g = IF IntegerBase(d.conv) = 16 THEN 4 ELSE 3  BY <1>9, <2>1 DEF Skip
  <2>3. NumberIn(d) = Grouped(f, g)  BY <1>8, <1>11, <2>2 DEF NumberIn
  <2>4. g \in Nat \ {0} /\ g \in {3, 4}  BY <2>2
  <2>5. PICK size \in Nat : Sized(size, wanted, g)
    <3>1. wanted + (wanted - 1) \div g \in Nat  BY <2>4
    <3>2. QED  BY <3>1 DEF Sized
  <2>6. Grouped(f, g) \in Seq(Glyphs)  BY <1>8, <2>4, <2>5, GroupsTyped
  <2>7. QED  BY <1>10, <2>3, <2>6
<1>12. CASE "'" \notin Flags(d)
  <2>1. "TICK" \notin FlagsOf(d)  BY <1>3, <1>12 DEF FlagsMean
  <2>2. g = wanted  BY <1>9, <2>1 DEF Skip
  <2>3. Grouped(f, g) = f  BY <1>8, <2>2, GroupedWhole
  <2>4. NumberIn(d) = f  BY <1>8, <1>12 DEF NumberIn
  <2>5. QED  BY <1>8, <1>10, <2>3, <2>4
<1>13. QED  BY <1>11, <1>12

(***************************************************************************)
(* The sign and the prefix, and the blanks around the whole.                *)
(***************************************************************************)
SignIn(d) ==
  CASE Value(d) < 0 -> <<"-">>
    [] Value(d) >= 0 /\ "+" \in Flags(d) -> <<"+">>
    [] Value(d) >= 0 /\ "+" \notin Flags(d) /\ " " \in Flags(d) -> <<" ">>
    [] OTHER -> <<>>

PrefixIn(d) ==
  CASE "#" \in Flags(d) /\ d.conv \in {"x", "p"} -> <<"0", "x">>
    [] "#" \in Flags(d) /\ d.conv \in {"X", "P"} -> <<"0", "X">>
    [] OTHER -> <<>>

HeadIn(d) == SignIn(d) \o PrefixIn(d)

LaidIn(d, head, number, missing) ==
  CASE "-" \in Flags(d) -> head \o number \o Spaces(missing)
    [] "-" \notin Flags(d) /\ "0" \in Flags(d) -> head \o Zeros(missing) \o number
    [] OTHER -> Spaces(missing) \o head \o number

LEMMA IntegerTextIs ==
  ASSUME NEW d
  PROVE  IntegerText(d) = LaidIn(d, HeadIn(d), NumberIn(d), Width(d) - Len(HeadIn(d)) - Len(NumberIn(d)))
BY DEF IntegerText, LaidIn, HeadIn, SignIn, PrefixIn, NumberIn, PlainOf, TableOf, Spelt, Least, Many, Unsigned

LEMMA SignTyped ==
  /\ <<"-">> \in Seq(Glyphs) /\ <<"+">> \in Seq(Glyphs) /\ <<" ">> \in Seq(Glyphs)
  /\ <<"0", "x">> \in Seq(Glyphs) /\ <<"0", "X">> \in Seq(Glyphs) /\ <<>> \in Seq(Glyphs)
<1>1. "-" \in Glyphs /\ "+" \in Glyphs /\ " " \in Glyphs /\ "0" \in Glyphs /\ "x" \in Glyphs /\ "X" \in Glyphs
  BY PaddingHas, PaddingGlyphs, Zenon
<1>2. <<"-">> \in Seq(Glyphs) /\ <<"+">> \in Seq(Glyphs) /\ <<" ">> \in Seq(Glyphs) /\ <<>> \in Seq(Glyphs)
  BY <1>1, ShortLength, Zenon
<1>3. <<"0", "x">> \in Seq(Glyphs)  BY <1>1, ShortLength, Zenon
<1>4. <<"0", "X">> \in Seq(Glyphs)  BY <1>1, ShortLength, Zenon
<1>5. QED  BY <1>2, <1>3, <1>4

LEMMA HeadMeant ==
  ASSUME NEW d, IsConversion(d), d.conv \in IntegerConvs
  PROVE  HeadOf(ArgumentOf(d), FlagsOf(d), IntegerBase(d.conv)) = HeadIn(d) /\ HeadIn(d) \in Seq(Glyphs)
<1>1. PICK a, fl : a = ArgumentOf(d) /\ fl = FlagsOf(d) /\ FlagsMean(fl, d)  BY FlagsMeant
<1>2. Value(d) \in Int /\ (Minus(a, fl) <=> Value(d) < 0)  BY <1>1, IntegerMeans
<1>3. ~ (Value(d) < 0) <=> Value(d) >= 0  BY <1>2
<1>4. PICK s : s = SignIn(d)  OBVIOUS
<1>5. SignOf(a, fl) = s
  <2>1. CASE Value(d) < 0
    <3>1. Minus(a, fl)  BY <1>1, <1>2, <1>3, <2>1, Zenon DEF FlagsMean
    <3>2. SignOf(a, fl) = <<"-">>  BY <3>1, Zenon DEF SignOf
    <3>3. Value(d) < 0 /\ ~ (Value(d) >= 0)  BY <1>3, <2>1, Zenon
    <3>4. SignIn(d) = <<"-">>  BY <3>3, <2>1, Zenon DEF SignIn
    <3>5. QED  BY <1>4, <3>2, <3>4, Zenon
  <2>2. CASE Value(d) >= 0 /\ "+" \in Flags(d)
    <3>1. ~ Minus(a, fl) /\ "PLUS" \in fl  BY <1>1, <1>2, <1>3, <2>2, Zenon DEF FlagsMean
    <3>2. SignOf(a, fl) = <<"+">>  BY <3>1, Zenon DEF SignOf
    <3>3. Value(d) >= 0 /\ ~ (Value(d) < 0)  BY <1>3, <2>2, Zenon
    <3>4. SignIn(d) = <<"+">>  BY <3>3, <2>2, Zenon DEF SignIn
    <3>5. QED  BY <1>4, <3>2, <3>4, Zenon
  <2>3. CASE Value(d) >= 0 /\ "+" \notin Flags(d) /\ " " \in Flags(d)
    <3>1. ~ Minus(a, fl) /\ "PLUS" \notin fl /\ "SPACE" \in fl  BY <1>1, <1>2, <1>3, <2>3, Zenon DEF FlagsMean
    <3>2. SignOf(a, fl) = <<" ">>  BY <3>1, Zenon DEF SignOf
    <3>3. Value(d) >= 0 /\ ~ (Value(d) < 0)  BY <1>3, <2>3, Zenon
    <3>4. SignIn(d) = <<" ">>  BY <3>3, <2>3, Zenon DEF SignIn
    <3>5. QED  BY <1>4, <3>2, <3>4, Zenon
  <2>4. CASE Value(d) >= 0 /\ "+" \notin Flags(d) /\ " " \notin Flags(d)
    <3>1. ~ Minus(a, fl) /\ "PLUS" \notin fl /\ "SPACE" \notin fl  BY <1>1, <1>2, <1>3, <2>4, Zenon DEF FlagsMean
    <3>2. SignOf(a, fl) = <<>>  BY <3>1, Zenon DEF SignOf
    <3>3. Value(d) >= 0 /\ ~ (Value(d) < 0)  BY <1>3, <2>4, Zenon
    <3>4. SignIn(d) = <<>>  BY <3>3, <2>4, Zenon DEF SignIn
    <3>5. QED  BY <1>4, <3>2, <3>4, Zenon
  <2>5. Value(d) < 0 \/ Value(d) >= 0  BY <1>3, Zenon
  <2>6. QED  BY <2>1, <2>2, <2>3, <2>4, <2>5, Zenon
<1>6. s \in Seq(Glyphs)
  <2>1. s = <<"-">> \/ s = <<"+">> \/ s = <<" ">> \/ s = <<>>  BY <1>5, Zenon DEF SignOf
  <2>2. QED  BY <2>1, SignTyped, Zenon
<1>7. PICK t : t = PrefixIn(d)  OBVIOUS
<1>8. t \in Seq(Glyphs)
  <2>1. t = <<"0", "x">> \/ t = <<"0", "X">> \/ t = <<>>
    <3>1. CASE "#" \in Flags(d) /\ d.conv \in {"x", "p"}  BY <1>7, <3>1 DEF PrefixIn
    <3>2. CASE "#" \in Flags(d) /\ d.conv \in {"X", "P"}  BY <1>7, <3>2 DEF PrefixIn
    <3>3. CASE ~ ("#" \in Flags(d) /\ d.conv \in {"x", "p", "X", "P"})  BY <1>7, <3>3 DEF PrefixIn
    <3>4. QED  BY <3>1, <3>2, <3>3
  <2>2. QED  BY <2>1, SignTyped, Zenon
<1>9. HeadIn(d) = s \o t  BY <1>4, <1>7 DEF HeadIn
<1>10. HeadIn(d) \in Seq(Glyphs)  BY <1>6, <1>8, <1>9, JoinAt
<1>11. HeadOf(a, fl, IntegerBase(d.conv)) = s \o t
  <2>1. IntegerBase(d.conv) = 16 <=> d.conv \in {"x", "X", "p", "P"}  BY DEF IntegerBase, IntegerConvs
  <2>2. CASE "#" \in Flags(d) /\ d.conv \in {"x", "p"}
    <3>1. t = <<"0", "x">>  BY <1>7, <2>2 DEF PrefixIn
    <3>2. "HASH" \in fl /\ "UPPER" \notin fl  BY <1>1, <2>2 DEF FlagsMean
    <3>3. QED  BY <1>5, <2>1, <2>2, <3>1, <3>2 DEF HeadOf
  <2>3. CASE "#" \in Flags(d) /\ d.conv \in {"X", "P"}
    <3>1. t = <<"0", "X">>  BY <1>7, <2>3 DEF PrefixIn
    <3>2. "HASH" \in fl /\ "UPPER" \in fl  BY <1>1, <2>3 DEF FlagsMean
    <3>3. QED  BY <1>5, <2>1, <2>3, <3>1, <3>2 DEF HeadOf
  <2>4. CASE ~ ("#" \in Flags(d) /\ d.conv \in {"x", "p", "X", "P"})
    <3>1. t = <<>>  BY <1>7, <2>4 DEF PrefixIn
    <3>2. ~ ("HASH" \in fl /\ IntegerBase(d.conv) = 16)  BY <1>1, <2>1, <2>4 DEF FlagsMean
    <3>3. HeadOf(a, fl, IntegerBase(d.conv)) = s  BY <1>5, <3>2 DEF HeadOf
    <3>4. s \o <<>> = s  BY <1>6, ConcatEmptySeq
    <3>5. QED  BY <3>1, <3>3, <3>4
  <2>5. QED  BY <2>2, <2>3, <2>4
<1>12. QED  BY <1>1, <1>9, <1>10, <1>11

LEMMA LaidMeant ==
  ASSUME NEW d, NEW fl, FlagsMean(fl, d), NEW head \in Seq(Glyphs), NEW number \in Seq(Glyphs), NEW pad \in Int
  PROVE  LaidOut(head, number, fl, pad) = LaidIn(d, head, number, pad) /\ LaidIn(d, head, number, pad) \in Seq(Glyphs)
<1>1. PICK sp, ze : sp = Copies(pad, " ") /\ ze = Copies(pad, "0")  OBVIOUS
<1>2. sp \in Seq(Glyphs) /\ ze \in Seq(Glyphs)  BY <1>1, GlyphsHave, CopiesLength
<1>3. "MINUS" \in fl <=> "-" \in Flags(d)  BY DEF FlagsMean
<1>4. "ZERO" \in fl <=> "0" \in Flags(d)  BY DEF FlagsMean
<1>5. \A s \in Seq(Glyphs) : s \o <<>> = s /\ <<>> \o s = s  BY ConcatEmptySeq
<1>6. \A s, t \in Seq(Glyphs) : s \o t \in Seq(Glyphs)  BY ConcatProperties, Zenon
<1>7. CASE "MINUS" \in fl
  <2>1. LaidOut(head, number, fl, pad) = ((<<>> \o head \o <<>>) \o number) \o sp
    <3>1. fl \cap {"MINUS", "ZERO"} # {} /\ fl \cap {"MINUS", "ZERO"} # {"ZERO"}  BY <1>7
    <3>2. QED  BY <1>1, <1>7, <3>1, Zenon DEF LaidOut
  <2>2. (<<>> \o head \o <<>>) = head  BY <1>5, Zenon
  <2>3. LaidIn(d, head, number, pad) = (head \o number) \o sp  BY <1>1, <1>3, <1>7 DEF LaidIn, Spaces
  <2>4. (head \o number) \o sp \in Seq(Glyphs)  BY <1>2, <1>6, Zenon
  <2>5. QED  BY <2>1, <2>2, <2>3, <2>4, Zenon
<1>8. CASE "MINUS" \notin fl /\ "ZERO" \in fl
  <2>1. LaidOut(head, number, fl, pad) = ((<<>> \o head \o ze) \o number) \o <<>>
    <3>1. fl \cap {"MINUS", "ZERO"} # {} /\ fl \cap {"MINUS", "ZERO"} = {"ZERO"}  BY <1>8
    <3>2. QED  BY <1>1, <1>8, <3>1, Zenon DEF LaidOut
  <2>2. (<<>> \o head) = head  BY <1>5, Zenon
  <2>3. LaidIn(d, head, number, pad) = (head \o ze) \o number
    <3>1. "-" \notin Flags(d) /\ "0" \in Flags(d)  BY <1>3, <1>4, <1>8
    <3>2. QED  BY <1>1, <3>1 DEF LaidIn, Zeros
  <2>4. (head \o ze) \o number \in Seq(Glyphs)  BY <1>2, <1>6, Zenon
  <2>5. QED  BY <1>5, <2>1, <2>2, <2>3, <2>4, Zenon
<1>9. CASE "MINUS" \notin fl /\ "ZERO" \notin fl
  <2>1. LaidOut(head, number, fl, pad) = ((sp \o head \o <<>>) \o number) \o <<>>
    <3>1. fl \cap {"MINUS", "ZERO"} = {} /\ fl \cap {"MINUS", "ZERO"} # {"ZERO"}  BY <1>9
    <3>2. QED  BY <1>1, <1>9, <3>1, Zenon DEF LaidOut
  <2>2. sp \o head \in Seq(Glyphs) /\ (sp \o head) \o <<>> = sp \o head  BY <1>2, <1>5, <1>6, Zenon
  <2>3. LaidIn(d, head, number, pad) = (sp \o head) \o number
    <3>1. "-" \notin Flags(d) /\ "0" \notin Flags(d)  BY <1>3, <1>4, <1>9
    <3>2. QED  BY <1>1, <3>1 DEF LaidIn, Spaces
  <2>4. (sp \o head) \o number \in Seq(Glyphs)  BY <2>2, <1>6, Zenon
  <2>5. QED  BY <1>5, <2>1, <2>2, <2>3, <2>4, Zenon
<1>10. QED  BY <1>7, <1>8, <1>9, Zenon

LEMMA NumberTextMeant ==
  ASSUME NEW d, IsConversion(d), d.conv \in IntegerConvs
  PROVE  /\ NumberText(ArgumentOf(d), FlagsOf(d), IntegerBase(d.conv), Width(d), PrecisionOf(d)) = IntegerText(d)
         /\ IntegerText(d) \in Seq(Glyphs)
<1>1. PICK h \in Seq(Glyphs) : h = HeadOf(ArgumentOf(d), FlagsOf(d), IntegerBase(d.conv)) /\ h = HeadIn(d)
  BY HeadMeant
<1>2. PICK s \in Seq(Glyphs) : /\ s = NumberOf(ArgumentOf(d), FlagsOf(d), IntegerBase(d.conv), PrecisionOf(d))
                               /\ s = NumberIn(d)
  BY NumberMeant
<1>3. PICK a, b \in Nat : a = Len(h) /\ b = Len(s)  BY LenProperties
<1>4. PICK w \in Int : w = Width(d)
  <2>1. IsNumber(d.width) /\ d.width.n \in Int  BY NumberSpelled DEF IsConversion
  <2>2. Width(d) \in Int  BY <2>1 DEF Width
  <2>3. QED  BY <2>2
<1>5. PICK k \in Int : k = w - b - a /\ k = w - a - b  OBVIOUS
<1>6. FlagsMean(FlagsOf(d), d)  BY FlagsMeant
<1>7. NumberText(ArgumentOf(d), FlagsOf(d), IntegerBase(d.conv), Width(d), PrecisionOf(d))
        = LaidOut(h, s, FlagsOf(d), k)
  BY <1>1, <1>2, <1>3, <1>4, <1>5 DEF NumberText
<1>8. IntegerText(d) = LaidIn(d, h, s, k)  BY <1>1, <1>2, <1>3, <1>4, <1>5, IntegerTextIs
<1>9. LaidOut(h, s, FlagsOf(d), k) = LaidIn(d, h, s, k) /\ LaidIn(d, h, s, k) \in Seq(Glyphs)
  BY <1>6, LaidMeant
<1>10. QED  BY <1>7, <1>8, <1>9

(***************************************************************************)
(* The text in the buffer: what output adds to it is cut to what there is   *)
(* room for.                                                                *)
(***************************************************************************)
TextOf(buf, many, size) ==
  [i \in 1 .. (IF many < size THEN many ELSE size - 1) |-> IF i - 1 \in DOMAIN buf THEN buf[i - 1] ELSE "?"]

LEMMA TextTyped ==
  ASSUME NEW buf, NEW many \in Nat, NEW size \in Nat \ {0}
  PROVE  IsText(TextOf(buf, many, size)) /\ Len(TextOf(buf, many, size)) = IF many < size THEN many ELSE size - 1
<1>1. PICK z \in Nat : z = IF many < size THEN many ELSE size - 1  OBVIOUS
<1> DEFINE F(i) == IF i - 1 \in DOMAIN buf THEN buf[i - 1] ELSE "?"
           S == {F(i) : i \in 1 .. z}
<1>2. TextOf(buf, many, size) = [i \in 1 .. z |-> F(i)]  BY <1>1 DEF TextOf
<1> HIDE DEF F
<1>3. [i \in 1 .. z |-> F(i)] \in [1 .. z -> S]  OBVIOUS
<1> HIDE DEF S
<1>4. TextOf(buf, many, size) \in UNION {[1 .. k -> S] : k \in Nat}  BY <1>2, <1>3
<1>5. TextOf(buf, many, size) \in Seq(S)  BY <1>4, SeqDef, Zenon
<1>6. Len(TextOf(buf, many, size)) = z  BY <1>2
<1>7. QED  BY <1>1, <1>5, <1>6 DEF IsText

LEMMA TextGrows ==
  ASSUME NEW size \in Nat \ {0}, NEW x, NEW y, NEW s, Emitted(x, {}, 0, 0, size), Emitted(y, {}, 0, 0, size),
         IsText(s), Adds(x, y, s, 0, size)
  PROVE  /\ TextOf(y.buf, y.o, size) = Trimmed(TextOf(x.buf, x.o, size) \o s, size)
         /\ y.o = x.o + Len(s)
<1>1. PICK h, m \in Nat : h = x.o /\ m = Len(s) /\ y.o = h + m
  <2>1. Len(s) \in Nat  BY LenProperties DEF IsText
  <2>2. QED  BY <2>1 DEF Emitted, Adds
<1>2. PICK a \in Nat : a = IF h < size THEN h ELSE size - 1  OBVIOUS
<1>3. PICK b \in Nat : b = IF h + m < size THEN h + m ELSE size - 1  OBVIOUS
<1>4. PICK t : t = TextOf(x.buf, h, size)  OBVIOUS
<1>5. PICK u : u = t \o s  OBVIOUS
<1>6. IsText(t) /\ Len(t) = a  BY <1>2, <1>4, TextTyped
<1>7. IsText(u) /\ Follows(u, t, s)  BY <1>5, <1>6, JoinTexts
<1>8. Len(u) = a + m /\ (\A i \in 1 .. a : u[i] = t[i]) /\ (\A i \in 1 .. m : u[a + i] = s[i])
  BY <1>1, <1>6, <1>7 DEF Follows
<1>9. b = Fits(Len(u), size)  BY <1>2, <1>3, <1>8 DEF Fits
<1>10. Trimmed(u, size) = [i \in 1 .. b |-> u[i]]
  <2>1. Trimmed(u, size) = First(u, Fits(Len(u), size))  BY <1>7, TrimmedAt
  <2>2. QED  BY <1>9, <2>1, Zenon DEF First
<1>11. DOMAIN x.buf = Cells(0, 0, h, size) /\ DOMAIN y.buf = Cells(0, 0, h + m, size)  BY <1>1 DEF Emitted
<1>12. Holds(y.buf, h, s, size - h) /\ Preserves(x.buf, y.buf, h)  BY <1>1 DEF Adds
<1>13. ASSUME NEW i \in 1 .. b
       PROVE  (IF i - 1 \in DOMAIN y.buf THEN y.buf[i - 1] ELSE "?") = u[i]
  <2>1. i - 1 \in DOMAIN y.buf  BY <1>3, <1>11 DEF Cells
  <2>2. CASE i <= a
    <3>1. i - 1 \in DOMAIN x.buf /\ i - 1 < h /\ i - 1 \in Int  BY <1>2, <1>11, <2>2 DEF Cells
    <3>2. y.buf[i - 1] = x.buf[i - 1]  BY <1>12, <3>1 DEF Preserves
    <3>3. i \in 1 .. a  BY <2>2
    <3>4. t[i] = x.buf[i - 1]  BY <1>2, <1>4, <3>1, <3>3 DEF TextOf
    <3>5. QED  BY <1>8, <2>1, <3>2, <3>3, <3>4
  <2>3. CASE i > a
    <3>1. a = h /\ h < size  BY <1>2, <1>3, <2>3
    <3>2. PICK e \in 1 .. m : i = h + e /\ e <= size - h
      <4>1. i - h \in 1 .. m /\ i = h + (i - h) /\ i - h <= size - h  BY <1>3, <2>3, <3>1
      <4>2. QED  BY <4>1
    <3>3. y.buf[h + e - 1] = s[e]  BY <1>1, <1>12, <3>2 DEF Holds
    <3>4. QED  BY <1>8, <2>1, <3>1, <3>2, <3>3
  <2>4. QED  BY <2>2, <2>3
<1>14. TextOf(y.buf, h + m, size) = [i \in 1 .. b |-> u[i]]  BY <1>3, <1>13 DEF TextOf
<1>15. QED  BY <1>1, <1>4, <1>5, <1>10, <1>14

\* The text of %c and %s as Directives has it, taken apart.
WholeText(d) ==
  IF d.conv = "c" THEN <<Letters[d.values[1] % CharMod]>>
  ELSE IF d.values[1] = 0 THEN <<"(", "n", "u", "l", "l", ")">> ELSE Texts[d.values[1]]

CutText(s, most) == IF most = -1 THEN s ELSE SubSeq(s, 1, Smaller(Len(s), most))

Beside(d, s, missing) ==
  CASE "-" \in Flags(d) -> s \o Spaces(missing)
    [] "-" \notin Flags(d) /\ "0" \in Flags(d) -> Zeros(missing) \o s
    [] OTHER -> Spaces(missing) \o s

LEMMA StringTextIs ==
  ASSUME NEW d
  PROVE  StringText(d) = Beside(d, CutText(WholeText(d), Precision(d)), Width(d) - Len(CutText(WholeText(d), Precision(d))))
BY Zenon DEF StringText, Beside, CutText, WholeText

LEMMA NullTyped == <<"(", "n", "u", "l", "l", ")">> \in Seq(Glyphs)
<1>1. "(" \in Glyphs /\ "n" \in Glyphs /\ "u" \in Glyphs /\ "l" \in Glyphs /\ ")" \in Glyphs  BY Zenon DEF Glyphs
<1>2. \A a, b, c, e \in Glyphs : <<a, b, c, e, e>> \in Seq(Glyphs) /\ <<a, b, c, e, e, a>> \in Seq(Glyphs)  OBVIOUS
<1>3. \A a, b, c, e, f \in Glyphs : <<a, b, c, e, e, f>> \in Seq(Glyphs)  OBVIOUS
<1>4. QED  BY <1>1, <1>3, Zenon

LEMMA WholeTyped ==
  ASSUME NEW d, IsConversion(d), d.conv \in {"c", "s"}
  PROVE  /\ WholeText(d) \in Seq(Glyphs)
         /\ WholeText(d) = IF d.conv = "c" THEN <<LetterAt(d.values[1] % CharMod)>> ELSE StringAt(d.values[1])
<1>1. CASE d.conv = "c"
  <2>1. d.values[1] % CharMod \in DOMAIN Letters  BY <1>1 DEF IsConversion
  <2>2. Letters[d.values[1] % CharMod] \in Glyphs  BY <2>1, DirectivesAssumption, GlyphsHave
  <2>3. WholeText(d) = <<Letters[d.values[1] % CharMod]>>  BY <1>1 DEF WholeText
  <2>4. WholeText(d) \in Seq(Glyphs)  BY <2>2, <2>3, Short, Zenon
  <2>5. QED  BY <1>1, <2>1, <2>3, <2>4, Zenon DEF LetterAt
<1>2. CASE d.conv = "s"
  <2>1. d.values[1] \in {0} \cup DOMAIN Texts /\ 0 \notin DOMAIN Texts  BY <1>2, DirectivesAssumption DEF IsConversion
  <2>2. d.conv # "c"  BY <1>2
  <2>3. CASE d.values[1] = 0
    <3>1. WholeText(d) = <<"(", "n", "u", "l", "l", ")">>  BY <2>2, <2>3, Zenon DEF WholeText
    <3>2. StringAt(d.values[1]) = <<"(", "n", "u", "l", "l", ")">>  BY <2>3, Zenon DEF StringAt
    <3>3. QED  BY <2>2, <3>1, <3>2, NullTyped, Zenon
  <2>4. CASE d.values[1] \in DOMAIN Texts
    <3>1. d.values[1] # 0  BY <2>1, <2>4
    <3>2. WholeText(d) = Texts[d.values[1]]  BY <2>2, <3>1, Zenon DEF WholeText
    <3>3. StringAt(d.values[1]) = Texts[d.values[1]]  BY <2>4, <3>1, Zenon DEF StringAt
    <3>4. Texts[d.values[1]] \in Seq(Glyphs)
      <4>1. Texts[d.values[1]] \in Seq(STRING)  BY <2>4, DirectivesAssumption
      <4>2. QED  BY <4>1, GlyphsHave, SeqMonotonic
    <3>5. QED  BY <2>2, <3>2, <3>3, <3>4, Zenon
  <2>5. QED  BY <2>1, <2>3, <2>4
<1>3. QED  BY <1>1, <1>2

LEMMA CutTyped ==
  ASSUME NEW s \in Seq(Glyphs), NEW most \in Int, most >= -1
  PROVE  LET slen == IF most # -1 /\ Len(s) > most THEN most ELSE Len(s)
         IN CutText(s, most) = SubSeq(s, 1, slen) /\ CutText(s, most) \in Seq(Glyphs) /\ Len(CutText(s, most)) = slen
<1> DEFINE slen == IF most # -1 /\ Len(s) > most THEN most ELSE Len(s)
<1>1. PICK m \in Nat : m = Len(s)  BY LenProperties
<1>2. slen \in Nat /\ slen <= m /\ (most = -1 => slen = m)  BY <1>1
<1>3. Smaller(Len(s), most) = slen \/ most = -1  BY <1>1 DEF Smaller
<1> HIDE DEF slen
<1>4. SubSeq(s, 1, slen) = First(s, slen)  BY <1>1, <1>2, FirstOf DEF IsText
<1>5. Len(First(s, slen)) = slen  BY <1>2 DEF First
<1>6. SubSeq(s, 1, slen) \in Seq(Glyphs)
  <2>1. \A i \in 1 .. slen : s[i] \in Glyphs  BY <1>1, <1>2, ElementOfSeq
  <2>2. QED  BY <1>2, <2>1, SubSeqProperties
<1>7. most = -1 => First(s, slen) = s
  <2>1. SUFFICES ASSUME most = -1 PROVE First(s, slen) = s  OBVIOUS
  <2>2. DOMAIN s = 1 .. slen  BY <1>1, <1>2, <2>1, LenProperties
  <2>3. s = [i \in 1 .. slen |-> s[i]]  BY <2>2
  <2>4. QED  BY <2>3, Zenon DEF First
<1>8. CutText(s, most) = SubSeq(s, 1, slen)
  <2>1. CASE most = -1  BY <2>1, <1>4, <1>7, Zenon DEF CutText
  <2>2. CASE most # -1  BY <2>2, <1>3, Zenon DEF CutText
  <2>3. QED  BY <2>1, <2>2
<1>9. QED  BY <1>4, <1>5, <1>6, <1>8 DEF slen

BesideSo(d, fl, s, missing) ==
  LET pad == Copies(missing, IF fl \cap {"MINUS", "ZERO"} = {"ZERO"} THEN "0" ELSE " ")
  IN /\ Beside(d, s, missing) = IF "MINUS" \in fl THEN s \o pad ELSE pad \o s
     /\ Beside(d, s, missing) \in Seq(Glyphs)

LEMMA BesideMeant ==
  ASSUME NEW d, NEW fl, FlagsMean(fl, d), NEW s \in Seq(Glyphs), NEW missing \in Int
  PROVE  BesideSo(d, fl, s, missing)
<1>1. Spaces(missing) \in Seq(Glyphs) /\ Zeros(missing) \in Seq(Glyphs)
  BY CopiesLength, GlyphsHave DEF Spaces, Zeros
<1>2. /\ s \o Spaces(missing) \in Seq(Glyphs) /\ Zeros(missing) \o s \in Seq(Glyphs)
      /\ Spaces(missing) \o s \in Seq(Glyphs)
  BY <1>1, JoinAt
<1>3. ("MINUS" \in fl <=> "-" \in Flags(d)) /\ ("ZERO" \in fl <=> "0" \in Flags(d))  BY DEF FlagsMean
<1>4. CASE "MINUS" \in fl
  <2>1. fl \cap {"MINUS", "ZERO"} # {"ZERO"}  BY <1>4
  <2>2. Beside(d, s, missing) = s \o Spaces(missing)  BY <1>3, <1>4, Zenon DEF Beside
  <2>3. QED  BY <1>2, <1>4, <2>1, <2>2, Zenon DEF Spaces, BesideSo
<1>5. CASE "MINUS" \notin fl /\ "ZERO" \in fl
  <2>1. fl \cap {"MINUS", "ZERO"} = {"ZERO"}  BY <1>5
  <2>2. Beside(d, s, missing) = Zeros(missing) \o s  BY <1>3, <1>5, Zenon DEF Beside
  <2>3. QED  BY <1>2, <1>5, <2>1, <2>2, Zenon DEF Zeros, BesideSo
<1>6. CASE "MINUS" \notin fl /\ "ZERO" \notin fl
  <2>1. fl \cap {"MINUS", "ZERO"} # {"ZERO"}  BY <1>6
  <2>2. Beside(d, s, missing) = Spaces(missing) \o s  BY <1>3, <1>6, Zenon DEF Beside
  <2>3. QED  BY <1>2, <1>6, <2>1, <2>2, Zenon DEF Spaces, BesideSo
<1>7. QED  BY <1>4, <1>5, <1>6 DEF BesideSo

\* The text as vsnprintf writes it, from its flags, width and precision.
TextWritten(fl, wide, most, sarg) ==
  LET slen == IF most # -1 /\ Len(sarg) > most THEN most ELSE Len(sarg)
      pad == Copies(wide - slen, IF fl \cap {"MINUS", "ZERO"} = {"ZERO"} THEN "0" ELSE " ")
      string == SubSeq(sarg, 1, slen)
  IN IF "MINUS" \in fl THEN string \o pad ELSE pad \o string

LEMMA TextMeant ==
  ASSUME NEW d, IsConversion(d), d.conv \in {"c", "s"}
  PROVE  /\ TextWritten(MeantFlags(d), Width(d), MeantPrec(d), WholeText(d)) = StringText(d)
         /\ StringText(d) \in Seq(Glyphs)
<1>1. PICK s : s = WholeText(d) /\ s \in Seq(Glyphs)  BY WholeTyped
<1>2. PICK most \in Int : most = MeantPrec(d) /\ most = Precision(d) /\ most >= -1
  <2>1. Precision(d) = MeantPrec(d)  BY Zenon DEF Precision, MeantPrec
  <2>2. IsNumber(d.prec) /\ d.prec.n \in Int  BY NumberSpelled DEF IsConversion
  <2>3. QED  BY <2>1, <2>2 DEF MeantPrec
<1>3. FlagsMean(MeantFlags(d), d)
  <2>1. FlagsMean(FlagsOf(d), d)  BY FlagsMeant
  <2>2. FlagsOf(d) = MeantFlags(d)  BY DEF FlagsOf
  <2>3. QED  BY <2>1, <2>2
<1>4. PICK w \in Int : w = Width(d)
  <2>1. IsNumber(d.width) /\ d.width.n \in Int  BY NumberSpelled DEF IsConversion
  <2>2. QED  BY <2>1 DEF Width
<1> DEFINE slen == IF most # -1 /\ Len(s) > most THEN most ELSE Len(s)
<1>5. PICK x : x = CutText(s, most)  OBVIOUS
<1>6. x = SubSeq(s, 1, slen) /\ x \in Seq(Glyphs) /\ Len(x) = slen  BY <1>1, <1>2, <1>5, CutTyped
<1>7. PICK e \in Int : e = w - slen /\ e = w - Len(x)
  <2>1. Len(x) \in Nat  BY <1>6, LenProperties
  <2>2. QED  BY <1>4, <1>6, <2>1
<1>8. StringText(d) = Beside(d, x, e)  BY <1>1, <1>2, <1>4, <1>5, <1>7, StringTextIs, Zenon
<1> DEFINE pad == Copies(e, IF MeantFlags(d) \cap {"MINUS", "ZERO"} = {"ZERO"} THEN "0" ELSE " ")
<1>9. /\ Beside(d, x, e) = IF "MINUS" \in MeantFlags(d) THEN x \o pad ELSE pad \o x
      /\ Beside(d, x, e) \in Seq(Glyphs)
  <2>1. BesideSo(d, MeantFlags(d), x, e)
    <3>1. x \in Seq(Glyphs) /\ e \in Int  BY <1>6, <1>7
    <3>2. QED  BY <1>3, <3>1, BesideMeant, Zenon
  <2>2. QED  BY <2>1, Zenon DEF BesideSo
<1>10. TextWritten(MeantFlags(d), w, most, s) = IF "MINUS" \in MeantFlags(d) THEN x \o pad ELSE pad \o x
  BY <1>6, <1>7, Zenon DEF TextWritten
<1>11. QED  BY <1>1, <1>2, <1>4, <1>8, <1>9, <1>10, Zenon

\* What is written past the end of the buffer is not in it.
LEMMA IntoTheRoom ==
  ASSUME NEW old, NEW new, NEW s, NEW h \in Nat, NEW at \in Int, NEW size \in Nat, NEW room \in Nat,
         room = (IF h < size THEN size - h ELSE 0), h < size => at = h, h >= size => at >= size,
         DOMAIN old = Cells(0, 0, h, size), Holds(new, at, s, room), Preserves(old, new, at)
  PROVE  Holds(new, h, s, size - h) /\ Preserves(old, new, h)
<1>1. CASE h < size  BY <1>1
<1>2. CASE h >= size
  <2>1. \A i \in 1 .. Len(s) : ~ (i <= size - h)  BY <1>2
  <2>2. \A j \in DOMAIN old : j < at  BY <1>2 DEF Cells
  <2>3. QED  BY <2>1, <2>2 DEF Holds, Preserves
<1>3. QED  BY <1>1, <1>2

(***************************************************************************)
(* How long the text is.  Each directive adds what it produces, and as an   *)
(* int holds the length of the whole text (LengthAssumption), it holds that *)
(* of every beginning of it.                                                *)
(***************************************************************************)
LEMMA ProducedTyped ==
  ASSUME NEW d, IsDirective(d)
  PROVE  Produced(d) \in Seq(Glyphs)
<1>1. CASE d.kind = "character"
  <2>1. d.ch \in Glyphs  BY <1>1, GlyphsHave DEF IsDirective
  <2>2. Produced(d) = <<d.ch>>  BY <1>1 DEF Produced
  <2>3. QED  BY <2>1, <2>2, Short, Zenon
<1>2. CASE d.kind # "character"
  <2>1. d.kind = "conversion" /\ IsConversion(d)  BY <1>2 DEF IsDirective
  <2>2. CASE d.conv \in {"c", "s"}
    <3>1. Produced(d) = StringText(d)  BY <2>1, <2>2 DEF Produced
    <3>2. QED  BY <2>1, <2>2, <3>1, TextMeant
  <2>3. CASE d.conv \in IntegerConvs
    <3>1. Produced(d) = IntegerText(d)  BY <2>1, <2>3 DEF Produced, IntegerConvs
    <3>2. QED  BY <2>1, <2>3, <3>1, NumberTextMeant
  <2>4. CASE d.conv = "n"
    <3>1. Produced(d) = << >>  BY <2>1, <2>4, Zenon DEF Produced
    <3>2. QED  BY <3>1
  <2>5. CASE d.conv \notin {"c", "s", "n"} \cup IntegerConvs
    <3>1. Produced(d) = <<d.conv>>  BY <2>1, <2>5 DEF Produced, IntegerConvs
    <3>2. d.conv \in Glyphs  BY <2>1, GlyphsHave DEF IsConversion
    <3>3. QED  BY <3>1, <3>2, Short, Zenon
  <2>6. QED  BY <2>2, <2>3, <2>4, <2>5
<1>3. QED  BY <1>1, <1>2

TextsOf(cl) == [i \in 1 .. Len(cl) |-> Produced(cl[i])]

LEMMA TextJoined ==
  ASSUME NEW cl \in Calls, NEW k \in 0 .. Len(cl)
  PROVE  TextTo(cl, k) = Joined(TextsOf(cl), k)
<1>1. Len(cl) \in Nat  BY CallTyped
<1>2. [i \in 1 .. k |-> Produced(cl[i])] = Pieces(TextsOf(cl), k)  BY <1>1 DEF Pieces, TextsOf
<1>3. QED  BY <1>2, Zenon DEF TextTo, Joined

LEMMA TextNext ==
  ASSUME NEW cl \in Calls, NEW k \in 0 .. Len(cl) - 1
  PROVE  Follows(TextTo(cl, k + 1), TextTo(cl, k), Produced(cl[k + 1]))
<1>1. PICK top \in Nat : top = Len(cl)  BY CallTyped
<1>2. \A i \in 1 .. top : IsDirective(cl[i])  BY <1>1, CallTyped
<1>3. k \in 0 .. top - 1 /\ k \in 0 .. top /\ k + 1 \in 0 .. top /\ k + 1 \in 1 .. top  BY <1>1
<1>4. PICK f : f = TextsOf(cl)  OBVIOUS
<1>5. \A i \in 1 .. top : f[i] = Produced(cl[i]) /\ f[i] \in Seq(Glyphs)
  BY <1>1, <1>2, <1>4, ProducedTyped DEF TextsOf
<1>6. Follows(Joined(f, k + 1), Joined(f, k), f[k + 1])  BY <1>3, <1>5, JoinedAt
<1>7. \A i \in {k, k + 1} : TextTo(cl, i) = Joined(f, i)  BY <1>1, <1>3, <1>4, TextJoined
<1>8. QED  BY <1>3, <1>5, <1>6, <1>7

LEMMA TextStarts ==
  ASSUME NEW cl \in Calls
  PROVE  Len(TextTo(cl, 0)) = 0
<1>1. Pieces(TextsOf(cl), 0) = << >>  BY DEF Pieces
<1>2. Joined(TextsOf(cl), 0) = << >>  BY <1>1 DEF Joined, FlattenSeq
<1>3. 0 \in 0 .. Len(cl)  BY CallTyped
<1>4. QED  BY <1>2, <1>3, TextJoined

LEMMA TextCounted ==
  ASSUME NEW cl \in Calls, NEW k \in 0 .. Len(cl)
  PROVE  Len(TextTo(cl, k)) \in Nat /\ Len(TextTo(cl, k)) < Word \div 2
<1>1. PICK top \in Nat : top = Len(cl)  BY CallTyped
<1>2. PICK f : f = TextsOf(cl)  OBVIOUS
<1>3. \A i \in 1 .. top : f[i] \in Seq(Glyphs)
  BY <1>1, <1>2, ProducedTyped, CallTyped DEF TextsOf
<1>4. k \in 0 .. top /\ top \in 0 .. top  BY <1>1
<1>5. /\ Joined(f, k) \in Seq(Glyphs) /\ Joined(f, top) \in Seq(Glyphs)
      /\ Leads(Joined(f, k), Joined(f, top), Len(Joined(f, k)))
  BY <1>3, <1>4, JoinedLeads
<1>6. \A i \in {k, top} : TextTo(cl, i) = Joined(f, i)  BY <1>1, <1>2, <1>4, TextJoined
<1>7. PICK a, c \in Nat : a = Len(Joined(f, k)) /\ c = Len(Joined(f, top))  BY <1>5, LenProperties
<1>8. a <= c /\ c < Word \div 2  BY <1>1, <1>5, <1>6, <1>7, LengthAssumption DEF Leads
<1>9. QED  BY <1>6, <1>7, <1>8, WordTyped
==============================================================================
