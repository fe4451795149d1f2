---------------------------- MODULE TerminalProofs ----------------------------
(***************************************************************************)
(* For every screen, font and message the cursor of Terminal is on the      *)
(* screen between two characters, and for every table of characters and set *)
(* of keys the shift flag follows the shift keys.                           *)
(***************************************************************************)
EXTENDS Terminal, SequenceTheorems, TLAPS

\* The lines of g, and those of screen s down to line y.
Lines(g, s, y) == g \o [i \in 1 .. y + 1 |-> s[i - 1]]

\* A page is a screen, a cursor on one of its lines and the lines above them,
\* with nothing printed below the cursor; on a sheet the cursor is in a column.
Screen == [0 .. Rows - 1 -> Row]
Clear(s, y) == \A r \in 0 .. Rows - 1 : r > y => s[r] = BlankRow
Page(t) ==
  /\ t \in [screen : Screen, csr_x : Nat, csr_y : 0 .. Rows - 1, gone : Seq(Row)]
  /\ Clear(t.screen, t.csr_y)
Sheet(t) == Page(t) /\ t.csr_x < Columns

\* What is printed on it, down to the cursor.
Text(t) == Lines(t.gone, t.screen, t.csr_y)

LEMMA Sizes ==
  /\ Columns \in Nat /\ Columns > 1 /\ Rows \in Nat /\ Rows > 0
  /\ Tab \in Nat /\ Tab > 0 /\ BlankRow \in Row
<1>1. Columns \in Nat \ {0, 1} /\ Rows \in Nat \ {0} /\ Tab \in Nat \ {0}
  BY ConsoleAssumption, Zenon
<1>2. BlankRow \in Row  BY DEF BlankRow, Row
<1>3. QED  BY <1>1, <1>2

-----------------------------------------------------------------------------
(* What is printed on a page.                                               *)

\* The n lines of l are the k lines of g and then those of s.
Are(l, g, s, k, n) ==
  /\ l \in Seq(Row) /\ Len(l) = n
  /\ \A i \in 1 .. n : l[i] = IF i <= k THEN g[i] ELSE s[i - k - 1]

LEMMA LinesAre ==
  ASSUME NEW g \in Seq(Row), NEW s \in Screen, NEW y \in 0 .. Rows - 1
  PROVE  Are(Lines(g, s, y), g, s, Len(g), Len(g) + y + 1)
<1> DEFINE shown == [i \in 1 .. y + 1 |-> s[i - 1]]
           l == Lines(g, s, y)
<1>0. PICK k \in Nat, n \in Nat : k = Len(g) /\ n = k + y + 1
  BY LenProperties, Sizes
<1>1. s \in [0 .. Rows - 1 -> Row] /\ Rows \in Nat  BY Sizes DEF Screen
<1>2. \A i \in 1 .. y + 1 : i - 1 \in 0 .. Rows - 1  BY <1>1
<1>3. shown \in [1 .. y + 1 -> Row]  BY <1>1, <1>2
<1>4. shown \in Seq(Row) /\ Len(shown) = y + 1  BY <1>1, <1>3
<1>5. \A i \in 1 .. y + 1 : shown[i] = s[i - 1]  BY <1>4
<1> HIDE DEF shown
<1>6. l = g \o shown  BY DEF Lines, shown
<1> HIDE DEF l
<1>7. /\ l \in Seq(Row) /\ Len(l) = Len(g) + Len(shown)
      /\ \A i \in 1 .. Len(g) + Len(shown) :
           l[i] = IF i <= Len(g) THEN g[i] ELSE shown[i - Len(g)]
  BY <1>4, <1>6, ConcatProperties, Zenon
<1>8. Len(g) + Len(shown) = n  BY <1>0, <1>4
<1>9. ASSUME NEW i \in 1 .. n, ~(i <= k)
      PROVE  l[i] = s[i - k - 1]
  <2>1. i - k \in 1 .. y + 1  BY <1>0, <1>9, <1>1
  <2>2. l[i] = shown[i - k]  BY <1>0, <1>7, <1>8, <1>9
  <2>3. QED  BY <2>1, <2>2, <1>5
<1>10. \A i \in 1 .. n : l[i] = IF i <= k THEN g[i] ELSE s[i - k - 1]
  BY <1>0, <1>7, <1>8, <1>9
<1>11. Are(l, g, s, k, n)  BY <1>7, <1>8, <1>10 DEF Are
<1>12. QED  BY <1>0, <1>11 DEF l

\* What happens on the cursor's line changes the last line printed.
LEMMA LastLine ==
  ASSUME NEW g \in Seq(Row), NEW s \in Screen, NEW y \in 0 .. Rows - 1, NEW line \in Row
  PROVE  LET l == Lines(g, s, y)
         IN  /\ l[Len(l)] = s[y]
             /\ Lines(g, [s EXCEPT ![y] = line], y) = [l EXCEPT ![Len(l)] = line]
<1> DEFINE l == Lines(g, s, y)
           z == [s EXCEPT ![y] = line]
           u == Lines(g, z, y)
           v == [l EXCEPT ![Len(l)] = line]
<1>1. PICK k \in Nat, n \in Nat : k = Len(g) /\ n = k + y + 1
  BY LenProperties, Sizes
<1>2. s \in [0 .. Rows - 1 -> Row] /\ Rows \in Nat  BY Sizes DEF Screen
<1>3. z \in Screen /\ \A r \in 0 .. Rows - 1 : z[r] = IF r = y THEN line ELSE s[r]
  BY <1>2 DEF Screen
<1>4. Are(l, g, s, k, n)  BY <1>1, LinesAre
<1>5. Are(u, g, z, k, n)
  <2> HIDE DEF z
  <2>1. QED  BY <1>1, <1>3, LinesAre
<1> HIDE DEF l, u, z
<1>6. /\ v \in Seq(Row) /\ Len(v) = n
      /\ \A i \in 1 .. n : v[i] = IF i = n THEN line ELSE l[i]
  <2>1. n \in 1 .. Len(l) /\ Len(l) = n  BY <1>1, <1>2, <1>4 DEF Are
  <2>2. v \in Seq(Row) /\ Len(v) = n  BY <2>1, <1>4, ExceptSeq DEF Are
  <2>3. \A i \in 1 .. n : v[i] = IF i = n THEN line ELSE l[i]  BY <2>1, <1>4 DEF Are
  <2>4. QED  BY <2>2, <2>3
<1> HIDE DEF v
<1>7. l[n] = s[y]
  <2>1. n \in 1 .. n /\ ~(n <= k) /\ n - k - 1 = y  BY <1>1, <1>2
  <2>2. QED  BY <2>1, <1>4 DEF Are
<1>8. ASSUME NEW i \in 1 .. n PROVE u[i] = v[i]
  <2>1. CASE i <= k  BY <2>1, <1>1, <1>4, <1>5, <1>6 DEF Are
  <2>2. CASE i > k /\ i < n
    <3>1. i - k - 1 \in 0 .. Rows - 1 /\ i - k - 1 # y  BY <2>2, <1>1, <1>2
    <3>2. ~(i <= k) /\ i # n  BY <2>2, <1>1
    <3>3. u[i] = s[i - k - 1]  BY <3>1, <3>2, <1>3, <1>5 DEF Are
    <3>4. QED  BY <3>2, <3>3, <1>4, <1>6 DEF Are
  <2>3. CASE i = n
    <3>1. i - k - 1 = y /\ ~(i <= k)  BY <2>3, <1>1, <1>2
    <3>2. QED  BY <3>1, <2>3, <1>2, <1>3, <1>5, <1>6 DEF Are
  <2>4. QED  BY <2>1, <2>2, <2>3, <1>1
<1>9. u = v  BY <1>5, <1>6, <1>8, SeqEqual DEF Are
<1>10. Len(l) = n  BY <1>4 DEF Are
<1>11. l[Len(l)] = s[y] /\ u = v  BY <1>7, <1>9, <1>10
<1>12. QED  BY <1>11 DEF l, u, v, z

\* A line that begins on a clear line of the screen.
LEMMA NextBelow ==
  ASSUME NEW g \in Seq(Row), NEW s \in Screen, NEW y \in 0 .. Rows - 1, Clear(s, y), y + 1 < Rows
  PROVE  Lines(g, s, y + 1) = Append(Lines(g, s, y), BlankRow)
<1> DEFINE l == Lines(g, s, y)
           u == Lines(g, s, y + 1)
           v == Append(l, BlankRow)
<1>1. PICK k \in Nat, n \in Nat : k = Len(g) /\ n = k + y + 1
  BY LenProperties, Sizes
<1>2. y + 1 \in 0 .. Rows - 1 /\ y + 1 > y  BY Sizes
<1>3. s[y + 1] = BlankRow  BY <1>2 DEF Clear
<1>4. Are(l, g, s, k, n)  BY <1>1, LinesAre
<1>5. n + 1 = k + (y + 1) + 1  BY <1>1, <1>2
<1>6. Are(u, g, s, k, n + 1)  BY <1>1, <1>2, <1>5, LinesAre
<1> HIDE DEF l, u
<1>7. /\ v \in Seq(Row) /\ Len(v) = n + 1
      /\ \A i \in 1 .. n : v[i] = l[i]
      /\ v[n + 1] = BlankRow
  BY <1>4, Sizes, AppendProperties DEF Are
<1> HIDE DEF v
<1>8. ASSUME NEW i \in 1 .. n + 1 PROVE u[i] = v[i]
  <2>1. CASE i <= n  BY <2>1, <1>1, <1>4, <1>6, <1>7 DEF Are
  <2>2. CASE i = n + 1
    <3>1. i - k - 1 = y + 1 /\ ~(i <= k)  BY <2>2, <1>1, <1>2
    <3>2. u[i] = s[y + 1]  BY <3>1, <2>2, <1>6 DEF Are
    <3>3. QED  BY <3>2, <2>2, <1>3, <1>7 DEF Are
  <2>3. QED  BY <2>1, <2>2, <1>1
<1>9. u = v  BY <1>6, <1>7, <1>8, SeqEqual DEF Are
<1>10. QED  BY <1>9 DEF l, u, v

\* The screen after a scroll, and a line that begins by scrolling.
Scrolled(s) == [r \in 0 .. Rows - 1 |-> IF r = Rows - 1 THEN BlankRow ELSE s[r + 1]]

LEMMA NextScrolled ==
  ASSUME NEW g \in Seq(Row), NEW s \in Screen, NEW y \in 0 .. Rows - 1, y + 1 = Rows
  PROVE  /\ Scrolled(s) \in Screen /\ Append(g, s[0]) \in Seq(Row)
         /\ Lines(Append(g, s[0]), Scrolled(s), y) = Append(Lines(g, s, y), BlankRow)
<1> DEFINE l == Lines(g, s, y)
           h == Append(g, s[0])
           z == Scrolled(s)
           u == Lines(h, z, y)
           v == Append(l, BlankRow)
<1>1. PICK k \in Nat, n \in Nat : k = Len(g) /\ n = k + y + 1
  BY LenProperties, Sizes
<1>2. s \in [0 .. Rows - 1 -> Row] /\ Rows \in Nat /\ 0 \in 0 .. Rows - 1  BY Sizes DEF Screen
<1>3. z \in Screen /\ \A r \in 0 .. Rows - 1 : z[r] = IF r = Rows - 1 THEN BlankRow ELSE s[r + 1]
  <2>1. \A r \in 0 .. Rows - 1 : r = Rows - 1 \/ r + 1 \in 0 .. Rows - 1  BY <1>2
  <2>2. QED  BY <2>1, <1>2, Sizes DEF Screen, Scrolled
<1>4. /\ h \in Seq(Row) /\ Len(h) = k + 1
      /\ \A i \in 1 .. k : h[i] = g[i]
      /\ h[k + 1] = s[0]
  <2>1. s[0] \in Row  BY <1>2
  <2>2. QED  BY <2>1, <1>1, AppendProperties
<1> HIDE DEF h, z
<1>5. Are(l, g, s, k, n)  BY <1>1, LinesAre
<1>6. n + 1 = (k + 1) + y + 1 /\ n \in Nat  BY <1>1, <1>2
<1>7. Are(u, h, z, k + 1, n + 1)  BY <1>3, <1>4, <1>6, LinesAre
<1> HIDE DEF l, u
<1>8. /\ v \in Seq(Row) /\ Len(v) = n + 1
      /\ \A i \in 1 .. n : v[i] = l[i]
      /\ v[n + 1] = BlankRow
  BY <1>5, Sizes, AppendProperties DEF Are
<1> HIDE DEF v
<1>9. ASSUME NEW i \in 1 .. n + 1 PROVE u[i] = v[i]
  <2>1. CASE i <= k
    <3>1. i \in 1 .. k /\ i \in 1 .. n /\ i <= k + 1  BY <2>1, <1>1, <1>2
    <3>2. u[i] = g[i]  BY <3>1, <1>4, <1>7 DEF Are
    <3>3. v[i] = g[i]  BY <3>1, <2>1, <1>5, <1>8 DEF Are
    <3>4. QED  BY <3>2, <3>3
  <2>2. CASE i = k + 1
    <3>1. i \in 1 .. n /\ i <= k + 1 /\ ~(i <= k) /\ i - k - 1 = 0  BY <2>2, <1>1, <1>2
    <3>2. u[i] = s[0]  BY <3>1, <2>2, <1>4, <1>7 DEF Are
    <3>3. v[i] = s[0]  BY <3>1, <1>5, <1>8 DEF Are
    <3>4. QED  BY <3>2, <3>3
  <2>3. CASE i > k + 1 /\ i <= n
    <3>1. /\ i \in 1 .. n /\ ~(i <= k + 1) /\ ~(i <= k)
          /\ i - (k + 1) - 1 \in 0 .. Rows - 1 /\ i - (k + 1) - 1 # Rows - 1
          /\ (i - (k + 1) - 1) + 1 = i - k - 1
      BY <2>3, <1>1, <1>2
    <3>2. u[i] = s[i - k - 1]  BY <3>1, <1>3, <1>7 DEF Are
    <3>3. v[i] = s[i - k - 1]  BY <3>1, <1>5, <1>8 DEF Are
    <3>4. QED  BY <3>2, <3>3
  <2>4. CASE i = n + 1
    <3>1. i - (k + 1) - 1 = Rows - 1 /\ Rows - 1 \in 0 .. Rows - 1 /\ ~(i <= k + 1)
      BY <2>4, <1>1, <1>2
    <3>2. u[i] = BlankRow  BY <3>1, <1>3, <1>7 DEF Are
    <3>3. QED  BY <3>2, <2>4, <1>8
  <2>5. QED  BY <2>1, <2>2, <2>3, <2>4, <1>1, <1>6 DEF Are
<1>10. u = v  BY <1>7, <1>8, <1>9, SeqEqual DEF Are
<1>11. QED  BY <1>3, <1>4, <1>10 DEF h, l, u, v, z

-----------------------------------------------------------------------------
(* What a character does to a page.                                         *)

\* The beginning of the next line.
LEMMA Feeds ==
  ASSUME NEW t, Page(t), NEW u, u = [t EXCEPT !.csr_x = 0, !.csr_y = @ + 1]
  PROVE  Sheet(Scroll(u)) /\ Scroll(u).csr_x = 0 /\ Text(Scroll(u)) = Append(Text(t), BlankRow)
<1> DEFINE y == t.csr_y
           s == t.screen
           g == t.gone
<1>1. /\ y \in 0 .. Rows - 1 /\ s \in Screen /\ g \in Seq(Row) /\ Clear(s, y)
      /\ t = [screen |-> s, csr_x |-> t.csr_x, csr_y |-> y, gone |-> g]
  BY DEF Page
<1>2. /\ u = [screen |-> s, csr_x |-> 0, csr_y |-> y + 1, gone |-> g]
      /\ u.screen = s /\ u.csr_x = 0 /\ u.csr_y = y + 1 /\ u.gone = g
  BY <1>1
<1>3. Text(t) = Lines(g, s, y)  BY DEF Text
<1> HIDE DEF s, y, g
<1>4. CASE y + 1 < Rows
  <2>1. Scroll(u) = u  BY <1>2, <1>4 DEF Scroll
  <2>2. y + 1 \in 0 .. Rows - 1 /\ Clear(s, y + 1)  BY <1>1, <1>4, Sizes DEF Clear
  <2>3. Sheet(u)  BY <1>1, <1>2, <2>2, Sizes DEF Sheet, Page
  <2>4. Text(u) = Lines(g, s, y + 1)  BY <1>2 DEF Text
  <2>5. Text(u) = Append(Text(t), BlankRow)  BY <2>4, <1>1, <1>3, <1>4, NextBelow
  <2>6. QED  BY <2>1, <2>3, <2>5, <1>2
<1>5. CASE y + 1 = Rows
  <2> DEFINE v == [screen |-> Scrolled(s), csr_x |-> 0, csr_y |-> y, gone |-> Append(g, s[0])]
  <2>1. ~(u.csr_y < Rows) /\ ~(Rows < Rows)  BY <1>2, <1>5, Sizes
  <2>2. Scroll(u) = [u EXCEPT !.csr_y = @ - 1, !.screen = Scrolled(u.screen),
                              !.gone = Append(@, u.screen[0])]
    BY <2>1 DEF Scroll, Scrolled
  <2>3. (y + 1) - 1 = y  BY <1>1, Sizes
  <2>4. Scroll(u) = v  BY <2>2, <2>3, <1>2
  <2>5. Scrolled(s) \in Screen /\ Append(g, s[0]) \in Seq(Row)  BY <1>1, <1>5, NextScrolled
  <2>6. Clear(Scrolled(s), y)  BY <1>1, <1>5, Sizes DEF Clear
  <2>7. Sheet(v)  BY <2>5, <2>6, <1>1, Sizes DEF Sheet, Page
  <2>8. Text(v) = Lines(Append(g, s[0]), Scrolled(s), y)  BY DEF Text
  <2>9. v.csr_x = 0  OBVIOUS
  <2> HIDE DEF v
  <2>10. Lines(Append(g, s[0]), Scrolled(s), y) = Append(Lines(g, s, y), BlankRow)
    BY <1>1, <1>5, NextScrolled
  <2>11. QED  BY <2>4, <2>7, <2>8, <2>9, <2>10, <1>3
<1>6. QED  BY <1>1, <1>4, <1>5, Sizes

\* The end of vga_putc: the cursor stays, or a line begins.
LEMMA Settles ==
  ASSUME NEW t, Page(t)
  PROVE  /\ Sheet(Settled(t))
         /\ t.csr_x < Columns => Settled(t) = t
         /\ ~(t.csr_x < Columns) =>
              Settled(t).csr_x = 0 /\ Text(Settled(t)) = Append(Text(t), BlankRow)
<1>1. t.csr_x \in Nat /\ t.csr_y < Rows  BY Sizes DEF Page
<1>2. CASE t.csr_x < Columns
  <2>1. Wrap(t) = t  BY <1>1, <1>2, Sizes DEF Wrap
  <2>2. Scroll(t) = t  BY <1>1 DEF Scroll
  <2>3. QED  BY <1>2, <2>1, <2>2 DEF Settled, Sheet
<1>3. CASE ~(t.csr_x < Columns)
  <2> DEFINE u == [t EXCEPT !.csr_x = 0, !.csr_y = @ + 1]
  <2>1. Wrap(t) = u  BY <1>1, <1>3, Sizes DEF Wrap
  <2>2. Settled(t) = Scroll(u)  BY <2>1 DEF Settled
  <2> HIDE DEF u
  <2>3. u = [t EXCEPT !.csr_x = 0, !.csr_y = @ + 1]  BY DEF u
  <2>4. QED  BY <2>2, <2>3, <1>3, Feeds
<1>4. QED  BY <1>2, <1>3

\* A page whose cursor moves along its line.
LEMMA Moves ==
  ASSUME NEW t, Page(t), NEW x \in Nat, NEW u, u = [t EXCEPT !.csr_x = x]
  PROVE  Page(u) /\ u.csr_x = x /\ Text(u) = Text(t)
BY DEF Page, Text

\* A character adds its pixels to a cell of the last line.
LEMMA Prints ==
  ASSUME NEW t, Sheet(t), NEW c \in DOMAIN font
  PROVE  LET l == Text(t)
             u == Printed(t, c)
         IN  /\ Page(u) /\ u.csr_x = t.csr_x + 1
             /\ Text(u) = [l EXCEPT ![Len(l)] =
                             [l[Len(l)] EXCEPT ![t.csr_x] = @ \cup font[c]]]
<1> DEFINE y == t.csr_y
           s == t.screen
           g == t.gone
           x == t.csr_x
           line == [s[y] EXCEPT ![x] = @ \cup font[c]]
           z == [s EXCEPT ![y] = line]
           l == Text(t)
           u == Printed(t, c)
<1>1. /\ y \in 0 .. Rows - 1 /\ s \in Screen /\ g \in Seq(Row) /\ Clear(s, y)
      /\ x \in Nat /\ x \in 0 .. Columns - 1
      /\ t = [screen |-> s, csr_x |-> x, csr_y |-> y, gone |-> g]
  BY Sizes DEF Sheet, Page
<1>2. /\ u = [screen |-> z, csr_x |-> x + 1, csr_y |-> y, gone |-> g]
      /\ u.screen = z /\ u.csr_x = x + 1 /\ u.csr_y = y /\ u.gone = g
  <2>1. DrawChar(t, c) = [t EXCEPT !.screen = z]  BY <1>1 DEF DrawChar
  <2>2. u = [[t EXCEPT !.screen = z] EXCEPT !.csr_x = @ + 1]  BY <2>1 DEF Printed
  <2> HIDE DEF u, z
  <2>3. u = [screen |-> z, csr_x |-> x + 1, csr_y |-> y, gone |-> g]  BY <2>2, <1>1
  <2>4. QED  BY <2>3
<1>3. l = Lines(g, s, y)  BY DEF Text
<1> HIDE DEF s, y, g, x, u, l
<1>4. line \in Row
  <2>1. s[y] \in [0 .. Columns - 1 -> SUBSET Ink]  BY <1>1 DEF Screen, Row
  <2>2. font[c] \in SUBSET Ink  BY DEF Ink
  <2>3. s[y][x] \cup font[c] \in SUBSET Ink  BY <2>1, <2>2, <1>1
  <2>4. QED  BY <2>1, <2>3 DEF Row
<1> HIDE DEF line
<1>5. z \in Screen /\ Clear(z, y)
  <2>1. s \in [0 .. Rows - 1 -> Row]  BY <1>1 DEF Screen
  <2>2. z \in [0 .. Rows - 1 -> Row] /\ \A r \in 0 .. Rows - 1 : r # y => z[r] = s[r]
    BY <2>1, <1>4
  <2>3. \A r \in 0 .. Rows - 1 : r > y => r # y  BY <1>1, Sizes
  <2>4. QED  BY <2>2, <2>3, <1>1 DEF Screen, Clear
<1>6. l[Len(l)] = s[y] /\ Lines(g, z, y) = [l EXCEPT ![Len(l)] = line]
  BY <1>1, <1>3, <1>4, LastLine
<1> HIDE DEF z
<1>7. Page(u) /\ u.csr_x = x + 1  BY <1>1, <1>2, <1>5 DEF Page
<1>8. Text(u) = [l EXCEPT ![Len(l)] = line]  BY <1>2, <1>6 DEF Text
<1>9. QED  BY <1>6, <1>7, <1>8 DEF line, u, l, x

\* A space changes nothing that is printed, and neither it nor the step back
\* before it leaves the line, so the one after it comes back.
LEMMA StepsBack ==
  ASSUME NEW t, Sheet(t)
  PROVE  Backspaced(t) = [t EXCEPT !.csr_x = IF @ = 0 THEN 0 ELSE @ - 1]
<1> DEFINE x == IF t.csr_x = 0 THEN 0 ELSE t.csr_x - 1
           left == IF t.csr_x # 0 THEN [t EXCEPT !.csr_x = @ - 1] ELSE t
           space == Settled(Printed(left, " "))
<1>1. /\ t \in [screen : Screen, csr_x : Nat, csr_y : 0 .. Rows - 1, gone : Seq(Row)]
      /\ t.csr_x < Columns /\ t.csr_x \in Nat
  BY DEF Sheet, Page
<1>2. x \in Nat /\ x + 1 \in Nat /\ x + 1 < Columns /\ x + 1 # 0 /\ (x + 1) - 1 = x /\ x \in 0 .. Columns - 1
  BY <1>1, Sizes
<1>3. left = [t EXCEPT !.csr_x = x]  BY <1>1
<1>4. Backspaced(t) = [space EXCEPT !.csr_x = IF @ = 0 THEN Largest ELSE @ - 1]
  BY DEF Backspaced
<1>5. [t EXCEPT !.csr_x = IF @ = 0 THEN 0 ELSE @ - 1] = [t EXCEPT !.csr_x = x]  OBVIOUS
<1> HIDE DEF x, left, space
<1>6. Page(left) /\ left.csr_x = x /\ left.screen = t.screen /\ left.csr_y = t.csr_y
  BY <1>1, <1>2, <1>3, Moves DEF Sheet
<1>7. Sheet(left)  BY <1>2, <1>6, Sizes DEF Sheet
<1>8. Printed(left, " ") = [t EXCEPT !.csr_x = x + 1]
  <2>1. t.screen[t.csr_y] \in [0 .. Columns - 1 -> SUBSET Ink] /\ t.screen \in [0 .. Rows - 1 -> Row]
        /\ t.csr_y \in 0 .. Rows - 1
    BY <1>1 DEF Screen, Row
  <2>2. font[" "] = {}  BY ConsoleAssumption, Zenon
  <2>3. [t.screen[t.csr_y] EXCEPT ![x] = @ \cup font[" "]] = t.screen[t.csr_y]
    BY <2>1, <2>2, <1>2
  <2>4. [t.screen EXCEPT ![t.csr_y] = t.screen[t.csr_y]] = t.screen  BY <2>1
  <2>5. [t.screen EXCEPT ![t.csr_y][x] = @ \cup font[" "]] = t.screen  BY <2>3, <2>4
  <2>6. DrawChar(left, " ") = [left EXCEPT !.screen = t.screen]
    BY <2>5, <1>6 DEF DrawChar
  <2>7. QED  BY <2>6, <1>1, <1>3 DEF Printed
<1>9. space = [t EXCEPT !.csr_x = x + 1]
  <2> DEFINE p == Printed(left, " ")
  <2>1. Page(p) /\ p.csr_x = x + 1  BY <1>8, <1>2, Moves DEF Sheet
  <2>2. Settled(p) = p  BY <2>1, <1>2, Settles
  <2>3. QED  BY <2>2, <1>8 DEF space
<1>10. Backspaced(t) = [t EXCEPT !.csr_x = x]  BY <1>1, <1>2, <1>4, <1>9
<1>11. QED  BY <1>5, <1>10

\* A tab stop is a column, at most Tab to the right.
LEMMA TabStop ==
  ASSUME NEW x \in Nat
  PROVE  LET stop == x + Tab - ((x + Tab) % Tab)
         IN  stop \in Nat /\ stop \in x + 1 .. x + Tab /\ stop % Tab = 0
<1>1. \A m \in Nat, y \in Nat : m > 0 => (y - (y % m)) % m = 0  OBVIOUS
<1>2. \A m \in Nat, y \in Nat : m > 0 => y % m \in Nat /\ y % m < m  OBVIOUS
<1>3. x + Tab \in Nat /\ Tab \in Nat /\ Tab > 0  BY Sizes
<1>4. PICK r \in Nat : r = (x + Tab) % Tab /\ r < Tab  BY <1>2, <1>3
<1>5. x + Tab - r \in Nat /\ x + Tab - r \in x + 1 .. x + Tab  BY <1>3, <1>4
<1>6. (x + Tab - r) % Tab = 0  BY <1>1, <1>3, <1>4
<1>7. QED  BY <1>4, <1>5, <1>6

-----------------------------------------------------------------------------
(* The console.                                                             *)

\* What a character leaves on its line, and where the cursor then comes to,
\* is as on the paper.
LEMMA Comes ==
  ASSUME Sheet(tty), NEW u, Page(u), NEW line \in Row,
         Text(u) = [Text(tty) EXCEPT ![Len(Text(tty))] = line], tty' = Settled(u)
  PROVE  Sheet(tty') /\ Paper!ComesTo(u.csr_x, line)
<1> DEFINE l == Text(tty)
           w == [l EXCEPT ![Len(l)] = line]
<1>1. Sheet(tty')  BY Settles
<1>2. CASE u.csr_x < Columns
  <2>1. tty' = u  BY <1>2, Settles
  <2>2. tty'.csr_x = u.csr_x /\ Text(tty') = w  BY <2>1
  <2>3. QED  BY <2>2, <1>1, <1>2 DEF Paper!ComesTo, Text, Lines
<1>3. CASE ~(u.csr_x < Columns)
  <2>1. tty'.csr_x = 0 /\ Text(tty') = Append(w, BlankRow)  BY <1>3, Settles
  <2>2. QED  BY <2>1, <1>1, <1>3 DEF Paper!ComesTo, Paper!Fresh, BlankRow, Text, Lines
<1>4. QED  BY <1>2, <1>3

\* The paper's last line is the cursor's.
LEMMA LastPrinted ==
  ASSUME Sheet(tty)
  PROVE  /\ Paper!Line = Text(tty)[Len(Text(tty))] /\ Paper!Line \in Row
         /\ [Text(tty) EXCEPT ![Len(Text(tty))] = Paper!Line] = Text(tty)
<1>1. /\ tty.csr_y \in 0 .. Rows - 1 /\ tty.screen \in Screen /\ tty.gone \in Seq(Row)
  BY DEF Sheet, Page
<1>2. Paper!Line = Text(tty)[Len(Text(tty))]  BY DEF Paper!Line, Text, Lines
<1>3. PICK k \in Nat, n \in Nat : k = Len(tty.gone) /\ n = k + tty.csr_y + 1
  BY <1>1, LenProperties, Sizes
<1>4. Are(Text(tty), tty.gone, tty.screen, k, n)  BY <1>1, <1>3, LinesAre DEF Text
<1>5. Text(tty) \in Seq(Row) /\ Len(Text(tty)) \in 1 .. Len(Text(tty))
  <2>1. n \in 1 .. n  BY <1>1, <1>3, Sizes
  <2>2. QED  BY <2>1, <1>4 DEF Are
<1>6. QED  BY <1>2, <1>5

\* One call of vga_putc, whatever it is given, types it on the paper.
LEMMA PutcTypes ==
  ASSUME Sheet(tty), vga_putc
  PROVE  Sheet(tty') /\ Paper!Types
<1> DEFINE x == tty.csr_x
           c == Head(out)
<1>1. out # <<>> /\ out' = Tail(out) /\ Page(tty) /\ x \in Nat /\ x < Columns
  BY DEF vga_putc, Sheet, Page
<1>2. \/ c = "BS" /\ tty' = Settled(Backspaced(tty))
      \/ c = "HT" /\ tty' = Settled(Tabbed(tty))
      \/ c = "CR" /\ tty' = Settled([tty EXCEPT !.csr_x = 0])
      \/ c = "NL" /\ tty' = Settled([tty EXCEPT !.csr_x = 0, !.csr_y = @ + 1])
      \/ c \in DOMAIN font /\ tty' = Settled(Printed(tty, c))
  BY DEF vga_putc
<1>3. \A y \in Nat : \A u : u = [tty EXCEPT !.csr_x = y] /\ tty' = Settled(u) =>
        Sheet(tty') /\ Paper!ComesTo(y, Paper!Line)
  <2> SUFFICES ASSUME NEW y \in Nat, NEW u, u = [tty EXCEPT !.csr_x = y], tty' = Settled(u)
               PROVE  Sheet(tty') /\ Paper!ComesTo(y, Paper!Line)
    OBVIOUS
  <2>1. Page(u) /\ u.csr_x = y /\ Text(u) = Text(tty)  BY <1>1, Moves
  <2>2. PICK line \in Row : line = Paper!Line  BY LastPrinted
  <2>3. Text(u) = [Text(tty) EXCEPT ![Len(Text(tty))] = line]  BY <2>1, <2>2, LastPrinted
  <2>4. Sheet(tty') /\ Paper!ComesTo(u.csr_x, line)  BY <2>1, <2>3, Comes
  <2>5. QED  BY <2>1, <2>2, <2>4 DEF Paper!ComesTo
<1>4. CASE c = "BS" /\ tty' = Settled(Backspaced(tty))
  <2>1. PICK y \in Nat : y = IF x = 0 THEN 0 ELSE x - 1  BY <1>1
  <2>2. Backspaced(tty) = [tty EXCEPT !.csr_x = y]  BY <2>1, StepsBack
  <2>3. Sheet(tty') /\ Paper!ComesTo(y, Paper!Line)  BY <2>2, <1>3, <1>4
  <2>4. Paper!Back(c)  BY <2>1, <2>3, <1>4 DEF Paper!Back
  <2>5. QED  BY <2>3, <2>4, <1>1 DEF Paper!Types
<1>5. CASE c = "HT" /\ tty' = Settled(Tabbed(tty))
  <2>1. PICK y \in Nat : y = x + Tab - ((x + Tab) % Tab) /\ y \in x + 1 .. x + Tab /\ y % Tab = 0
    BY <1>1, TabStop
  <2>2. Tabbed(tty) = [tty EXCEPT !.csr_x = y]  BY <2>1 DEF Tabbed
  <2>3. Sheet(tty') /\ Paper!ComesTo(y, Paper!Line)  BY <2>2, <1>3, <1>5
  <2>4. Paper!Stop(c)  BY <2>1, <2>3, <1>5 DEF Paper!Stop
  <2>5. QED  BY <2>3, <2>4, <1>1 DEF Paper!Types
<1>6. CASE c = "CR" /\ tty' = Settled([tty EXCEPT !.csr_x = 0])
  <2>1. Sheet(tty') /\ Paper!ComesTo(0, Paper!Line)  BY <1>3, <1>6
  <2>2. Paper!Return(c)  BY <2>1, <1>6 DEF Paper!Return
  <2>3. QED  BY <2>1, <2>2, <1>1 DEF Paper!Types
<1>7. CASE c = "NL" /\ tty' = Settled([tty EXCEPT !.csr_x = 0, !.csr_y = @ + 1])
  <2> DEFINE u == [tty EXCEPT !.csr_x = 0, !.csr_y = @ + 1]
  <2>1. Wrap(u) = u
    <3>1. u.csr_x = 0 /\ ~(0 >= Columns)  BY <1>1, Sizes DEF Page
    <3>2. QED  BY <3>1 DEF Wrap
  <2>2. tty' = Scroll(u)  BY <2>1, <1>7 DEF Settled
  <2> HIDE DEF u
  <2>3. u = [tty EXCEPT !.csr_x = 0, !.csr_y = @ + 1]  BY DEF u
  <2>4. Sheet(tty') /\ tty'.csr_x = 0 /\ Text(tty') = Append(Text(tty), BlankRow)
    BY <2>2, <2>3, <1>1, Feeds
  <2>5. Paper!Feed(c)  BY <2>4, <1>7 DEF Paper!Feed, Paper!Fresh, BlankRow, Text, Lines
  <2>6. QED  BY <2>4, <2>5, <1>1 DEF Paper!Types
<1>8. CASE c \in DOMAIN font /\ tty' = Settled(Printed(tty, c))
  <2> DEFINE u == Printed(tty, c)
  <2>1. PICK line \in Row : line = [Paper!Line EXCEPT ![x] = @ \cup font[c]]
    <3>1. Paper!Line \in [0 .. Columns - 1 -> SUBSET Ink] /\ x \in 0 .. Columns - 1
      BY <1>1, LastPrinted, Sizes DEF Row
    <3>2. Paper!Line[x] \cup font[c] \in SUBSET Ink  BY <3>1, <1>8 DEF Ink
    <3>3. QED  BY <3>1, <3>2 DEF Row
  <2>2. /\ Page(u) /\ u.csr_x = x + 1
        /\ Text(u) = [Text(tty) EXCEPT ![Len(Text(tty))] = line]
    <3>1. line = [Text(tty)[Len(Text(tty))] EXCEPT ![x] = @ \cup font[c]]
      BY <2>1, LastPrinted
    <3>2. QED  BY <3>1, <1>8, Prints
  <2> HIDE DEF u
  <2>3. tty' = Settled(u)  BY <1>8 DEF u
  <2>4. Sheet(tty') /\ Paper!ComesTo(u.csr_x, line)  BY <2>2, <2>3, Comes
  <2>5. Paper!ComesTo(x + 1, [Paper!Line EXCEPT ![x] = @ \cup font[c]])
    BY <2>1, <2>2, <2>4 DEF Paper!ComesTo
  <2>6. Paper!Strike(c)  BY <2>5, <1>8 DEF Paper!Strike
  <2>7. QED  BY <2>4, <2>6, <1>1 DEF Paper!Types
<1>9. QED  BY <1>2, <1>4, <1>5, <1>6, <1>7, <1>8

LEMMA SheetInit == Init => Sheet(tty) /\ Paper!Init
<1> SUFFICES ASSUME Init PROVE Sheet(tty) /\ Paper!Init  OBVIOUS
<1> DEFINE s == [r \in 0 .. Rows - 1 |-> BlankRow]
<1>1. tty = [screen |-> s, csr_x |-> 0, csr_y |-> 0, gone |-> <<>>] /\ out = <<>>
  BY DEF Init, ConsoleInit
<1>2. s \in Screen /\ Clear(s, 0) /\ 0 \in 0 .. Rows - 1 /\ s[0] = BlankRow
  BY Sizes DEF Screen, Clear
<1> HIDE DEF s
<1>3. tty.screen = s /\ tty.csr_x = 0 /\ tty.csr_y = 0 /\ tty.gone = <<>>  BY <1>1
<1>4. Sheet(tty)  BY <1>1, <1>2, Sizes DEF Sheet, Page
<1>5. tty.gone \o [i \in 1 .. tty.csr_y + 1 |-> tty.screen[i - 1]] = <<BlankRow>>
  <2> DEFINE shown == [i \in 1 .. tty.csr_y + 1 |-> tty.screen[i - 1]]
  <2>1. shown = <<BlankRow>>  BY <1>2, <1>3
  <2>2. <<BlankRow>> \in Seq(Row)  BY Sizes
  <2> HIDE DEF shown
  <2>3. <<>> \o shown = shown  BY <2>1, <2>2, ConcatEmptySeq
  <2>4. QED  BY <2>1, <2>3, <1>3 DEF shown
<1>6. Paper!Init  BY <1>1, <1>3, <1>5 DEF Paper!Init, Paper!Fresh, BlankRow
<1>7. QED  BY <1>4, <1>6

LEMMA SheetStep ==
  ASSUME Sheet(tty), [Next]_vars
  PROVE  Sheet(tty') /\ (Paper!Next \/ (UNCHANGED <<tty, out>>))
<1>1. CASE vga_putc  BY <1>1, PutcTypes DEF Paper!Next
<1>2. CASE tty' = tty /\ out = <<>>
  <2>1. CASE out' = out  BY <2>1, <1>2
  <2>2. CASE out' # <<>>  BY <2>2, <1>2 DEF Paper!Next, Paper!Gets
  <2>3. QED  BY <2>1, <2>2, <1>2
<1>3. CASE tty' = tty /\ out' = out  BY <1>3
<1>4. QED
  BY <1>1, <1>2, <1>3 DEF Next, vars, User, ReadsModifier, ReadsKey, Message, puts

(***************************************************************************)
(* The cursor never leaves the screen: no character of a message, an echo   *)
(* or a backspace is drawn outside the frame buffer (vga.c:275-326).        *)
(***************************************************************************)
THEOREM CursorStays == Spec => []CursorOnScreen
<1>1. Sheet(tty) /\ [Next]_vars => Sheet(tty)'
  <2> SUFFICES ASSUME Sheet(tty), [Next]_vars PROVE Sheet(tty')
    BY DEF Sheet, Page, Clear
  <2>1. QED  BY SheetStep
<1>2. Sheet(tty) => CursorOnScreen
  BY Sizes DEF Sheet, Page, CursorOnScreen
<1>3. QED  BY SheetInit, <1>1, <1>2, PTL DEF Spec

(***************************************************************************)
(* On every screen, with every font and whatever is put, the console types  *)
(* on an endless sheet: the lines scrolled off and those on the screen down  *)
(* to the cursor are what Typewriter has printed (vga.c:243-326).           *)
(***************************************************************************)
THEOREM TypesOnPaper == Spec => PrintsOnPaper
<1>1. Sheet(tty) /\ [Next]_vars =>
        /\ Sheet(tty)'
        /\ [Paper!Next]_<<tty.gone \o [i \in 1 .. tty.csr_y + 1 |-> tty.screen[i - 1]],
                          tty.csr_x, out>>
  <2> SUFFICES ASSUME Sheet(tty), [Next]_vars
               PROVE  /\ Sheet(tty')
                      /\ \/ Paper!Next
                         \/ UNCHANGED <<tty, out>>
    BY DEF Sheet, Page, Clear
  <2>1. QED  BY SheetStep
<1>2. QED  BY SheetInit, <1>1, PTL DEF Spec, PrintsOnPaper, Paper!Spec

-----------------------------------------------------------------------------
(* The keyboard.                                                            *)

\* The bytes that set the shift flag and those that clear it; wires whose one
\* such byte is one of them, before which no key is typed, and wires without any.
On == {\h2A, \h36}
Off == {\hAA, \hB6}
Tells(bytes) ==
  {s \in Seq(0 .. 255) : \E i \in 1 .. Len(s) :
     /\ s[i] \in bytes /\ \A j \in 1 .. Len(s) : j # i => s[j] \notin On \cup Off
     /\ \A j \in 1 .. Len(s) : j < i => s[j] >= 128}
Quiet == {s \in Seq(0 .. 255) : \A i \in 1 .. Len(s) : s[i] \notin On \cup Off}

ShiftInv ==
  /\ "shift" \in DOMAIN flags
  /\ ~unsure => \/ wire \in Tells(On) /\ held # {}
                \/ wire \in Tells(Off) /\ held = {}
                \/ wire \in Quiet /\ (flags["shift"] <=> held # {})

LEMMA EmptyQuiet == <<>> \in Quiet /\ <<>> \notin Tells(On) /\ <<>> \notin Tells(Off)
BY DEF Quiet, Tells

LEMMA TailQuiet ==
  ASSUME NEW s \in Quiet, s # <<>>
  PROVE  Tail(s) \in Quiet /\ Head(s) \notin On \cup Off
<1>1. s \in Seq(0 .. 255) /\ \A i \in 1 .. Len(s) : s[i] \notin On \cup Off  BY DEF Quiet
<1>2. /\ Head(s) = s[1] /\ Len(s) \in Nat /\ Len(s) >= 1
      /\ Tail(s) \in Seq(0 .. 255) /\ Len(Tail(s)) = Len(s) - 1
      /\ \A i \in 1 .. Len(Tail(s)) : Tail(s)[i] = s[i + 1]
  BY <1>1, HeadTailProperties, LenProperties
<1>3. \A i \in 1 .. Len(Tail(s)) : i + 1 \in 1 .. Len(s)  BY <1>2
<1>4. \A i \in 1 .. Len(Tail(s)) : Tail(s)[i] \notin On \cup Off  BY <1>1, <1>2, <1>3
<1>5. Head(s) \notin On \cup Off  BY <1>1, <1>2
<1>6. QED  BY <1>2, <1>4, <1>5 DEF Quiet

\* The byte in front is the one that tells, or it is still to come.
LEMMA TailTells ==
  ASSUME NEW bytes, bytes \subseteq On \cup Off, NEW s \in Tells(bytes)
  PROVE  /\ s # <<>>
         /\ \/ Head(s) \in bytes /\ Tail(s) \in Quiet
            \/ Head(s) >= 128 /\ Head(s) \notin On \cup Off /\ Tail(s) \in Tells(bytes)
<1>1. PICK i \in 1 .. Len(s) :
        /\ s[i] \in bytes /\ \A j \in 1 .. Len(s) : j # i => s[j] \notin On \cup Off
        /\ \A j \in 1 .. Len(s) : j < i => s[j] >= 128
  BY DEF Tells
<1>2. s \in Seq(0 .. 255)  BY DEF Tells
<1>3. s # <<>>  BY <1>1
<1>4. /\ Head(s) = s[1] /\ Len(s) \in Nat /\ Len(s) >= 1
      /\ Tail(s) \in Seq(0 .. 255) /\ Len(Tail(s)) = Len(s) - 1
      /\ \A j \in 1 .. Len(Tail(s)) : Tail(s)[j] = s[j + 1]
  BY <1>2, <1>3, HeadTailProperties, LenProperties
<1>5. CASE i = 1
  <2>1. \A j \in 1 .. Len(Tail(s)) : Tail(s)[j] \notin On \cup Off
    BY <1>1, <1>4, <1>5
  <2>2. QED  BY <2>1, <1>1, <1>3, <1>4, <1>5 DEF Quiet
<1>6. CASE i # 1
  <2>1. i - 1 \in 1 .. Len(Tail(s)) /\ Tail(s)[i - 1] \in bytes  BY <1>1, <1>4, <1>6
  <2>2. \A j \in 1 .. Len(Tail(s)) : j # i - 1 => Tail(s)[j] \notin On \cup Off
    BY <1>1, <1>4
  <2>3. \A j \in 1 .. Len(Tail(s)) : j < i - 1 => Tail(s)[j] >= 128
    BY <1>1, <1>4
  <2>4. Tail(s) \in Tells(bytes)  BY <2>1, <2>2, <2>3, <1>4 DEF Tells
  <2>5. QED  BY <2>4, <1>1, <1>3, <1>4, <1>6
<1>7. QED  BY <1>5, <1>6

\* All of a key's bytes arrive when as many are sent as it has.
LEMMA AllSent ==
  ASSUME NEW s \in Seq(0 .. 255), NEW n \in 0 .. Len(s), ~(n < Len(s))
  PROVE  SubSeq(s, 1, n) = s
<1>1. n = Len(s)  OBVIOUS
<1>2. QED  BY <1>1, SubSeqFull

LEMMA ShiftInit == Init => ShiftInv
BY EmptyQuiet DEF Init, KeyboardInit, ShiftInv

\* Pressing a shift key.
LEMMA PressPreserves ==
  ASSUME ShiftInv, NEW k \in ShiftKeys, PressShift(k)
  PROVE  ShiftInv'
<1>1. Press[k] \in Tells(On) /\ Press[k] \in Seq(0 .. 255)  
  <2>1. CASE k = "left"
    <3>1. Press[k] = <<\h2A>>  BY <2>1 DEF Press
    <3>2. QED  BY <3>1 DEF Tells, On, Off
  <2>2. CASE k = "right"
    <3>1. Press[k] = <<\h36>>  BY <2>2 DEF Press
    <3>2. QED  BY <3>1 DEF Tells, On, Off
  <2>3. CASE k = "print"
    <3> DEFINE s == <<\hE0, \h2A, \hE0, \h37>>
    <3>1. Press[k] = s  BY <2>3 DEF Press
    <3>2. s \in Seq(0 .. 255) /\ Len(s) = 4 /\ s[1] = \hE0 /\ s[2] = \h2A /\ s[3] = \hE0 /\ s[4] = \h37
      OBVIOUS
    <3> HIDE DEF s
    <3>3. /\ 2 \in 1 .. Len(s) /\ s[2] \in On
          /\ \A j \in 1 .. Len(s) : j # 2 => s[j] \notin On \cup Off
          /\ \A j \in 1 .. Len(s) : j < 2 => s[j] >= 128
      BY <3>2 DEF On, Off
    <3>4. \E i \in 1 .. Len(s) :
            /\ s[i] \in On /\ \A j \in 1 .. Len(s) : j # i => s[j] \notin On \cup Off
            /\ \A j \in 1 .. Len(s) : j < i => s[j] >= 128
      BY <3>3
    <3>5. s \in Tells(On)  BY <3>2, <3>4 DEF Tells
    <3>6. QED  BY <3>1, <3>2, <3>5
  <2>4. QED  BY <2>1, <2>2, <2>3 DEF ShiftKeys
<1>2. held' # {} /\ UNCHANGED flags  BY DEF PressShift, Sends
<1>3. ASSUME ~unsure' PROVE wire' \in Tells(On)
  <2>1. PICK n \in 0 .. Len(Press[k]) :
          wire' = SubSeq(Press[k], 1, n) /\ ~(n < Len(Press[k]))
    BY <1>3 DEF PressShift, Sends
  <2>2. QED  BY <2>1, <1>1, AllSent
<1>4. QED  BY <1>2, <1>3 DEF ShiftInv

\* Releasing one.
LEMMA ReleasePreserves ==
  ASSUME ShiftInv, NEW k \in ShiftKeys, ReleaseShift(k)
  PROVE  ShiftInv'
<1>1. Release[k] \in Tells(Off) /\ Release[k] \in Seq(0 .. 255)  
  <2>1. CASE k = "left"
    <3>1. Release[k] = <<\hAA>>  BY <2>1 DEF Release
    <3>2. QED  BY <3>1 DEF Tells, On, Off
  <2>2. CASE k = "right"
    <3>1. Release[k] = <<\hB6>>  BY <2>2 DEF Release
    <3>2. QED  BY <3>1 DEF Tells, On, Off
  <2>3. CASE k = "print"
    <3> DEFINE s == <<\hE0, \hB7, \hE0, \hAA>>
    <3>1. Release[k] = s  BY <2>3 DEF Release
    <3>2. s \in Seq(0 .. 255) /\ Len(s) = 4 /\ s[1] = \hE0 /\ s[2] = \hB7 /\ s[3] = \hE0 /\ s[4] = \hAA
      OBVIOUS
    <3> HIDE DEF s
    <3>3. /\ 4 \in 1 .. Len(s) /\ s[4] \in Off
          /\ \A j \in 1 .. Len(s) : j # 4 => s[j] \notin On \cup Off
          /\ \A j \in 1 .. Len(s) : j < 4 => s[j] >= 128
      BY <3>2 DEF On, Off
    <3>4. \E i \in 1 .. Len(s) :
            /\ s[i] \in Off /\ \A j \in 1 .. Len(s) : j # i => s[j] \notin On \cup Off
            /\ \A j \in 1 .. Len(s) : j < i => s[j] >= 128
      BY <3>3
    <3>5. s \in Tells(Off)  BY <3>2, <3>4 DEF Tells
    <3>6. QED  BY <3>1, <3>2, <3>5
  <2>4. QED  BY <2>1, <2>2, <2>3 DEF ShiftKeys
<1>2. UNCHANGED flags  BY DEF ReleaseShift, Sends
<1>3. ASSUME ~unsure' PROVE wire' \in Tells(Off) /\ held' = {}
  <2>1. PICK n \in 0 .. Len(Release[k]) :
          wire' = SubSeq(Release[k], 1, n) /\ ~(n < Len(Release[k]) \/ held' # {})
    BY <1>3 DEF ReleaseShift, Sends
  <2>2. QED  BY <2>1, <1>1, AllSent
<1>4. QED  BY <1>2, <1>3 DEF ShiftInv

\* Typing any other key.
LEMMA TapPreserves ==
  ASSUME ShiftInv, NEW code \in Taps, Tap(code)
  PROVE  ShiftInv'
<1>1. code \in 0 .. 127 /\ code \notin {\h2A, \h36}  BY TapsAssumption
<1> DEFINE s == <<code, code + 128>>
<1>2. wire = <<>> /\ wire' = SubSeq(s, 1, 2) /\ UNCHANGED <<flags, held, unsure>>
  BY DEF Tap, Sends
<1>3. s \in Seq(0 .. 255) /\ Len(s) = 2 /\ s[1] = code /\ s[2] = code + 128  BY <1>1
<1> HIDE DEF s
<1>4. s \in Quiet
  <2>1. s[1] \notin On \cup Off /\ s[2] \notin On \cup Off  BY <1>1, <1>3 DEF On, Off
  <2>2. \A i \in 1 .. Len(s) : i = 1 \/ i = 2  BY <1>3
  <2>3. QED  BY <2>1, <2>2, <1>3 DEF Quiet
<1>5. wire' = s  BY <1>2, <1>3, AllSent
<1>6. QED  BY <1>2, <1>4, <1>5, EmptyQuiet DEF ShiftInv

\* The handler takes a byte that is a modifier's.
LEMMA ModifierPreserves ==
  ASSUME ShiftInv, ReadsModifier
  PROVE  ShiftInv'
<1>1. wire # <<>> /\ wire' = Tail(wire) /\ UNCHANGED <<held, unsure>> /\ Modifier(Head(wire))
  BY DEF ReadsModifier
<1> DEFINE code == Head(wire)
<1>2. /\ "shift" \in DOMAIN flags'
      /\ code \in On => flags'["shift"] = TRUE
      /\ code \in Off => flags'["shift"] = FALSE
      /\ code \notin On \cup Off => flags'["shift"] = flags["shift"]
  BY <1>1 DEF Modifier, Set, ShiftInv, On, Off
<1> HIDE DEF code
<1>3. CASE wire \in Tells(On) /\ held # {}
  <2>1. (code \in On /\ wire' \in Quiet) \/ (code \notin On \cup Off /\ wire' \in Tells(On))
    BY <1>3, <1>1, TailTells DEF code
  <2>2. QED  BY <2>1, <1>1, <1>2, <1>3 DEF ShiftInv
<1>4. CASE wire \in Tells(Off) /\ held = {}
  <2>1. (code \in Off /\ wire' \in Quiet) \/ (code \notin On \cup Off /\ wire' \in Tells(Off))
    BY <1>4, <1>1, TailTells DEF code
  <2>2. QED  BY <2>1, <1>1, <1>2, <1>4 DEF ShiftInv
<1>5. CASE wire \in Quiet /\ (flags["shift"] <=> held # {})
  <2>1. code \notin On \cup Off /\ wire' \in Quiet  BY <1>5, <1>1, TailQuiet DEF code
  <2>2. QED  BY <2>1, <1>1, <1>2, <1>5 DEF ShiftInv
<1>6. CASE unsure  BY <1>6, <1>1, <1>2 DEF ShiftInv
<1>7. QED  BY <1>3, <1>4, <1>5, <1>6 DEF ShiftInv

\* The handler takes any other byte, which it types or ignores.
LEMMA KeyPreserves ==
  ASSUME ShiftInv, ReadsKey
  PROVE  ShiftInv'
<1>1. wire # <<>> /\ wire' = Tail(wire) /\ UNCHANGED <<held, flags, unsure>>
      /\ Head(wire) \notin On \cup Off
  BY DEF ReadsKey, Modifiers, On, Off
<1>2. wire \in Tells(On) => wire' \in Tells(On)  BY <1>1, TailTells
<1>3. wire \in Tells(Off) => wire' \in Tells(Off)  BY <1>1, TailTells
<1>4. wire \in Quiet => wire' \in Quiet  BY <1>1, TailQuiet
<1>5. QED  BY <1>1, <1>2, <1>3, <1>4 DEF ShiftInv

LEMMA ShiftStep == ShiftInv /\ [Next]_vars => ShiftInv'
<1> SUFFICES ASSUME ShiftInv, [Next]_vars PROVE ShiftInv'  OBVIOUS
<1>1. CASE UNCHANGED keyboardVars  BY <1>1 DEF keyboardVars, ShiftInv
<1>2. CASE User
  BY <1>2, PressPreserves, ReleasePreserves, TapPreserves DEF User
<1>3. CASE ReadsModifier  BY <1>3, ModifierPreserves
<1>4. CASE ReadsKey  BY <1>4, KeyPreserves
<1>5. QED
  BY <1>1, <1>2, <1>3, <1>4 DEF Next, vars, keyboardVars, Message

(***************************************************************************)
(* Whatever keys are pressed, released and typed, in whatever order, the    *)
(* flag says whether a shift key is down once every byte is handled, as     *)
(* long as ShiftFollowsKeys expects it to (keyboard.c:35-42).               *)
(***************************************************************************)
THEOREM ShiftFollows == Spec => []ShiftFollowsKeys
<1>1. ShiftInv => ShiftFollowsKeys
  BY EmptyQuiet DEF ShiftInv, ShiftFollowsKeys
<1>2. QED  BY ShiftInit, ShiftStep, <1>1, PTL DEF Spec

\* What may be on the wire: a byte that types is that of a key typed, or the
\* print key's.
Sent == {s \in Seq(0 .. 255) : \A i \in 1 .. Len(s) :
           s[i] < 128 /\ s[i] \notin Modifiers => s[i] \in Taps \cup {\h37}}

TypeInv == Sheet(tty) /\ out \in Seq(Characters) /\ KeyboardTypeOK /\ wire \in Sent

LEMMA PartSent ==
  ASSUME NEW s \in Sent, NEW n \in 0 .. Len(s)
  PROVE  SubSeq(s, 1, n) \in Sent
<1>1. s \in Seq(0 .. 255) /\ Len(s) \in Nat  BY LenProperties DEF Sent
<1>2. /\ SubSeq(s, 1, n) \in Seq(0 .. 255) /\ Len(SubSeq(s, 1, n)) = n
      /\ \A i \in 1 .. n : SubSeq(s, 1, n)[i] = s[i]
  <2>1. \A i \in 1 .. n : s[i] \in 0 .. 255
    <3>1. \A i \in 1 .. n : i \in 1 .. Len(s)  BY <1>1
    <3>2. QED  BY <3>1, <1>1, ElementOfSeq
  <2>2. /\ SubSeq(s, 1, n) \in Seq(0 .. 255)
        /\ Len(SubSeq(s, 1, n)) = IF 1 <= n THEN n - 1 + 1 ELSE 0
        /\ \A i \in 1 .. n - 1 + 1 : SubSeq(s, 1, n)[i] = s[1 + i - 1]
    BY <2>1, SubSeqProperties
  <2>3. QED  BY <2>2
<1>3. \A i \in 1 .. n : i \in 1 .. Len(s)  BY <1>1
<1>4. QED  BY <1>2, <1>3 DEF Sent

LEMMA TailSent ==
  ASSUME NEW s \in Sent, s # <<>>
  PROVE  /\ Tail(s) \in Sent /\ Head(s) \in 0 .. 255
         /\ Head(s) < 128 /\ Head(s) \notin Modifiers => Head(s) \in Taps \cup {\h37}
<1>1. s \in Seq(0 .. 255)  BY DEF Sent
<1>2. /\ Head(s) = s[1] /\ Len(s) \in Nat /\ Len(s) >= 1
      /\ Tail(s) \in Seq(0 .. 255) /\ Len(Tail(s)) = Len(s) - 1
      /\ \A i \in 1 .. Len(Tail(s)) : Tail(s)[i] = s[i + 1]
  BY <1>1, HeadTailProperties, LenProperties
<1>3. \A i \in 1 .. Len(Tail(s)) : i + 1 \in 1 .. Len(s)  BY <1>2
<1>4. Tail(s) \in Sent  BY <1>2, <1>3 DEF Sent
<1>5. 1 \in 1 .. Len(s)  BY <1>2
<1>6. s[1] \in 0 .. 255  BY <1>1, <1>5, ElementOfSeq
<1>7. QED  BY <1>2, <1>4, <1>5, <1>6 DEF Sent

\* The bytes of a shift key.
ShiftBytes == {v \in 0 .. 255 : v >= 128 \/ v \in Modifiers \cup {\h37}}

LEMMA KeysSent ==
  /\ \A k \in ShiftKeys : Press[k] \in Sent /\ Release[k] \in Sent
  /\ \A code \in Taps : <<code, code + 128>> \in Sent
<1>1. ASSUME NEW s \in Seq(ShiftBytes) PROVE s \in Sent
  <2>1. s \in Seq(0 .. 255)  BY DEF ShiftBytes
  <2>2. \A i \in 1 .. Len(s) : s[i] \in ShiftBytes  OBVIOUS
  <2>3. \A v \in ShiftBytes : v < 128 /\ v \notin Modifiers => v = \h37  BY DEF ShiftBytes
  <2>4. QED  BY <2>1, <2>2, <2>3 DEF Sent
<1>2. ASSUME NEW k \in ShiftKeys PROVE Press[k] \in Sent /\ Release[k] \in Sent
  <2>1. /\ \hE0 \in ShiftBytes /\ \h2A \in ShiftBytes /\ \h36 \in ShiftBytes /\ \h37 \in ShiftBytes
        /\ \hAA \in ShiftBytes /\ \hB6 \in ShiftBytes /\ \hB7 \in ShiftBytes
    BY DEF ShiftBytes, Modifiers
  <2>2. /\ <<\h2A>> \in Seq(ShiftBytes) /\ <<\h36>> \in Seq(ShiftBytes)
        /\ <<\hAA>> \in Seq(ShiftBytes) /\ <<\hB6>> \in Seq(ShiftBytes)
    BY <2>1
  <2>3. <<\hE0, \h2A, \hE0, \h37>> \in Seq(ShiftBytes)  BY <2>1
  <2>4. <<\hE0, \hB7, \hE0, \hAA>> \in Seq(ShiftBytes)  BY <2>1
  <2>5. Press[k] \in Seq(ShiftBytes) /\ Release[k] \in Seq(ShiftBytes)
    <3>1. CASE k = "left"  BY <3>1, <2>2 DEF Press, Release
    <3>2. CASE k = "right"  BY <3>2, <2>2 DEF Press, Release
    <3>3. CASE k = "print"
      <4>1. Press[k] = <<\hE0, \h2A, \hE0, \h37>>  BY <3>3 DEF Press
      <4>2. Release[k] = <<\hE0, \hB7, \hE0, \hAA>>  BY <3>3 DEF Release
      <4>3. QED  BY <4>1, <4>2, <2>3, <2>4
    <3>4. QED  BY <3>1, <3>2, <3>3 DEF ShiftKeys
  <2>6. QED  BY <2>5, <1>1
<1>3. ASSUME NEW code \in Taps PROVE <<code, code + 128>> \in Sent
  <2> DEFINE s == <<code, code + 128>>
  <2>1. code \in 0 .. 127  BY TapsAssumption
  <2>2. s \in Seq(0 .. 255) /\ Len(s) = 2 /\ s[1] = code /\ s[2] = code + 128  BY <2>1
  <2> HIDE DEF s
  <2>3. \A i \in 1 .. Len(s) : s[i] = code \/ s[i] = code + 128  BY <2>2
  <2>4. ~(code + 128 < 128)  BY <2>1
  <2>5. s \in Sent  BY <2>2, <2>3, <2>4 DEF Sent
  <2>6. QED  BY <2>5 DEF s
<1>4. QED  BY <1>2, <1>3

\* The character a key types is one of the two its code has in the table.
LEMMA KeyHasCharacter ==
  ASSUME NEW code, code \in Taps \cup {\h37}, code \notin Modifiers
  PROVE  kbdus[KeyCode(code)] \in Characters
<1>1. {code, code + 128} \subseteq {k \in DOMAIN kbdus : kbdus[k] \in Characters}
  BY TapsAssumption
<1>2. KeyCode(code) \in {code, code + 128}  BY DEF KeyCode
<1>3. QED  BY <1>1, <1>2

LEMMA TypeInit == Init => TypeInv
<1> SUFFICES ASSUME Init PROVE TypeInv  OBVIOUS
<1>1. Sheet(tty)  BY SheetInit
<1>2. out \in Seq(Characters) /\ wire \in Sent
  BY DEF Init, ConsoleInit, KeyboardInit, Sent
<1>3. KeyboardTypeOK
  <2>1. flags \in [{"shift", "ctrl", "alt", "caps"} -> BOOLEAN]  BY DEF Init, KeyboardInit
  <2>2. held \subseteq ShiftKeys /\ wire \in Seq(0 .. 255)  BY DEF Init, KeyboardInit
  <2>3. unsure \in BOOLEAN  BY DEF Init, KeyboardInit
  <2>4. QED  BY <2>1, <2>2, <2>3 DEF KeyboardTypeOK
<1>4. QED  BY <1>1, <1>2, <1>3 DEF TypeInv

LEMMA TypeStep == TypeInv /\ [Next]_vars => TypeInv'
<1> SUFFICES ASSUME TypeInv, [Next]_vars
             PROVE  Sheet(tty') /\ out' \in Seq(Characters) /\ KeyboardTypeOK' /\ wire' \in Sent
  BY DEF TypeInv, Sheet, Page, Clear
<1> USE DEF TypeInv
<1>1. Sheet(tty')  BY SheetStep
<1>2. CASE User
  <2>1. out' = out  BY <1>2 DEF User
  <2>2. ASSUME NEW s \in Sent, NEW n \in 0 .. Len(s), Sends(s, n)
        PROVE  wire' \in Sent /\ wire' \in Seq(0 .. 255) /\ flags' = flags
    <3>1. wire' \in Sent  BY <2>2, PartSent DEF Sends
    <3>2. QED  BY <3>1, <2>2 DEF Sends, Sent
  <2>3. CASE \E k \in ShiftKeys : PressShift(k)
    <3>1. PICK k \in ShiftKeys : PressShift(k)  BY <2>3
    <3>2. PICK n \in 0 .. Len(Press[k]) : Sends(Press[k], n) /\ unsure' = (n < Len(Press[k]))
      BY <3>1 DEF PressShift
    <3>3. held' \subseteq ShiftKeys  BY <3>1 DEF PressShift, KeyboardTypeOK
    <3>4. wire' \in Sent /\ wire' \in Seq(0 .. 255) /\ flags' = flags  BY <2>2, <3>2, KeysSent
    <3>5. unsure' \in BOOLEAN  BY <3>2
    <3>6. QED  BY <1>1, <2>1, <3>3, <3>4, <3>5 DEF KeyboardTypeOK
  <2>4. CASE \E k \in ShiftKeys : ReleaseShift(k)
    <3>1. PICK k \in ShiftKeys : ReleaseShift(k)  BY <2>4
    <3>2. PICK n \in 0 .. Len(Release[k]) :
            Sends(Release[k], n) /\ unsure' = (n < Len(Release[k]) \/ held' # {})
      BY <3>1 DEF ReleaseShift
    <3>3. held' \subseteq ShiftKeys  BY <3>1 DEF ReleaseShift, KeyboardTypeOK
    <3>4. wire' \in Sent /\ wire' \in Seq(0 .. 255) /\ flags' = flags  BY <2>2, <3>2, KeysSent
    <3>5. unsure' \in BOOLEAN  BY <3>2
    <3>6. QED  BY <1>1, <2>1, <3>3, <3>4, <3>5 DEF KeyboardTypeOK
  <2>5. CASE \E code \in Taps : Tap(code)
    <3>1. PICK code \in Taps : Tap(code)  BY <2>5
    <3>2. <<code, code + 128>> \in Sent /\ 2 \in 0 .. Len(<<code, code + 128>>)  BY KeysSent
    <3>3. wire' \in Sent /\ wire' \in Seq(0 .. 255) /\ flags' = flags  BY <2>2, <3>1, <3>2 DEF Tap
    <3>4. QED  BY <1>1, <2>1, <3>1, <3>3 DEF Tap, KeyboardTypeOK
  <2>6. QED  BY <1>2, <2>3, <2>4, <2>5 DEF User
<1>3. CASE ReadsModifier
  <2>1. Tail(wire) \in Sent  BY <1>3, TailSent DEF ReadsModifier
  <2>2. flags' \in [{"shift", "ctrl", "alt", "caps"} -> BOOLEAN]
    <3>1. flags \in [{"shift", "ctrl", "alt", "caps"} -> BOOLEAN]  BY DEF KeyboardTypeOK
    <3>2. PICK f \in {"shift", "ctrl", "alt", "caps"}, v \in BOOLEAN : flags' = [flags EXCEPT ![f] = v]
      BY <1>3 DEF ReadsModifier, Modifier, Set
    <3>3. QED  BY <3>1, <3>2
  <2>3. QED  BY <1>1, <1>3, <2>1, <2>2 DEF ReadsModifier, KeyboardTypeOK, Sent
<1>4. CASE ReadsKey
  <2>1. /\ Tail(wire) \in Sent
        /\ Head(wire) < 128 => Head(wire) \in Taps \cup {\h37} /\ Head(wire) \notin Modifiers
    BY <1>4, TailSent DEF ReadsKey
  <2>2. out' \in Seq(Characters)
    <3>1. CASE Head(wire) < 128
      <4>1. out' = <<kbdus[KeyCode(Head(wire))]>>  BY <1>4, <3>1 DEF ReadsKey, puts
      <4>2. kbdus[KeyCode(Head(wire))] \in Characters  BY <2>1, <3>1, KeyHasCharacter
      <4>3. QED  BY <4>1, <4>2
    <3>2. CASE ~(Head(wire) < 128)  BY <1>4, <3>2 DEF ReadsKey
    <3>3. QED  BY <3>1, <3>2
  <2>3. QED  BY <1>1, <1>4, <2>1, <2>2 DEF ReadsKey, KeyboardTypeOK, Sent
<1>5. CASE Message
  <2>1. out' \in Seq(Characters)  BY <1>5, MessagesAssumption DEF Message, puts
  <2>2. QED  BY <1>1, <1>5, <2>1 DEF Message, keyboardVars, KeyboardTypeOK
<1>6. CASE vga_putc /\ UNCHANGED keyboardVars
  <2>1. out' \in Seq(Characters)  BY <1>6, HeadTailProperties DEF vga_putc
  <2>2. QED  BY <1>1, <1>6, <2>1 DEF keyboardVars, KeyboardTypeOK
<1>7. CASE UNCHANGED vars  BY <1>1, <1>7 DEF vars, keyboardVars, KeyboardTypeOK
<1>8. QED  BY <1>2, <1>3, <1>4, <1>5, <1>6, <1>7 DEF Next

(***************************************************************************)
(* The screen, the cursor, what is still to put and the wire keep their      *)
(* types: the cursor's coordinates fit their words, every cell holds pixels  *)
(* of the font, and only characters are put (vga.c:243-326, keyboard.c:22). *)
(***************************************************************************)
THEOREM Typing == Spec => []TypeOK
<1>1. TypeInv => TypeOK
  <2> SUFFICES ASSUME TypeInv PROVE TypeOK  OBVIOUS
  <2>1. /\ tty \in [screen : Screen, csr_x : Nat, csr_y : 0 .. Rows - 1, gone : Seq(Row)]
        /\ tty.csr_x < Columns
    BY DEF TypeInv, Sheet, Page
  <2>2. Largest \in Nat /\ Largest >= Columns + Tab /\ Largest >= Rows
    BY ConsoleAssumption, Zenon
  <2>3. tty.csr_x \in 0 .. Largest /\ tty.csr_y \in 0 .. Largest  BY <2>1, <2>2, Sizes
  <2>4. QED  BY <2>1, <2>3 DEF TypeInv, TypeOK, ConsoleTypeOK, Screen
<1>2. QED  BY TypeInit, TypeStep, <1>1, PTL DEF Spec

(***************************************************************************)
(* For every table of characters, whatever was pressed and typed before, a  *)
(* key types the character its cap shows for the keys that are down         *)
(* (keyboard.c:44-64).                                                      *)
(***************************************************************************)
THEOREM AsHeld == Spec => TypesAsHeld
<1> DEFINE code  == Head(wire)
           upper == IF kbdus[code] \in Alphabet THEN (held # {}) # flags["caps"] ELSE held # {}
<1>1. ASSUME TypeInv, ShiftInv, [Next]_vars, wire # <<>>, out = <<>>, out' # <<>>, ~unsure
      PROVE  out' = <<kbdus[IF upper THEN code + 128 ELSE code]>>
  <2>1. ReadsKey
    BY <1>1 DEF Next, vars, User, ReadsModifier, Message, vga_putc
  <2>2. code < 128 /\ code \notin Modifiers /\ out' = <<kbdus[KeyCode(code)]>>
    BY <1>1, <2>1 DEF ReadsKey, puts
  <2>3. code \in 0 .. 255 /\ ~(code >= 128)
    <3>1. code \in 0 .. 255  BY <1>1, TailSent DEF TypeInv
    <3> HIDE DEF code
    <3>2. QED  BY <3>1, <2>2
  <2>4. code \notin On \cup Off  BY <2>2 DEF Modifiers, On, Off
  <2>5. wire \notin Tells(On) /\ wire \notin Tells(Off)  BY <2>3, <2>4, TailTells
  <2>6. flags["shift"] <=> held # {}  BY <1>1, <2>5 DEF ShiftInv
  <2>7. flags["shift"] \in BOOLEAN /\ flags["caps"] \in BOOLEAN
    BY <1>1 DEF TypeInv, KeyboardTypeOK
  <2>8. KeyCode(code) = IF upper THEN code + 128 ELSE code
    <3> HIDE DEF code
    <3>1. CASE flags["shift"]
      <4>1. CASE flags["caps"]  BY <2>6, <3>1, <4>1, Zenon DEF KeyCode, isalpha
      <4>2. CASE ~flags["caps"]
        <5>1. flags["caps"] = FALSE  BY <2>7, <4>2
        <5>2. QED  BY <2>6, <3>1, <5>1, Zenon DEF KeyCode, isalpha
      <4>3. QED  BY <4>1, <4>2
    <3>2. CASE ~flags["shift"]
      <4>1. CASE flags["caps"]
        <5>1. flags["caps"] = TRUE  BY <2>7, <4>1
        <5>2. QED  BY <2>6, <3>2, <5>1, Zenon DEF KeyCode, isalpha
      <4>2. CASE ~flags["caps"]
        <5>1. flags["caps"] = FALSE  BY <2>7, <4>2
        <5>2. QED  BY <2>6, <3>2, <5>1, Zenon DEF KeyCode, isalpha
      <4>3. QED  BY <4>1, <4>2
    <3>3. QED  BY <3>1, <3>2
  <2>9. QED  BY <2>2, <2>8
<1>2. TypeInv /\ ShiftInv /\ [Next]_vars =>
        [ wire # <<>> /\ out = <<>> /\ out' # <<>> /\ ~unsure =>
            out' = <<kbdus[IF upper THEN code + 128 ELSE code]>> ]_vars
  BY <1>1
<1>3. QED
  BY TypeInit, TypeStep, ShiftInit, ShiftStep, <1>2, PTL DEF Spec, TypesAsHeld
=============================================================================
