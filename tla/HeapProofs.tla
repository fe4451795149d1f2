----------------------------- MODULE HeapProofs ------------------------------
(***************************************************************************)
(* Proofs about the heap, for every region, header size and boot content.   *)
(*                                                                          *)
(* All rests on one fact the code never states: the block under             *)
(* currentAlloc is the free tail of the region.  It is the only block      *)
(* malloc ever splits, every block in use lies below it, and nothing that   *)
(* free or an owner writes reaches it.                                      *)
(***************************************************************************)
EXTENDS Heap, TLAPS

\* The free tail and what follows it.
Tail ==
  /\ HeadBase <= currentAlloc
  /\ hdr[currentAlloc].NextAlloc = NextRegion
  /\ NextRegion # NULL => hdr[NextRegion].Reserved = 0

\* The request in progress, and the blocks in use, have sizes callers ask for.
Requests ==
  /\ pc # "idle" => size \in Sizes
  /\ \A b \in live : b.len \in Sizes

IInv ==
  /\ TypeOK
  /\ CursorIntact
  /\ Tail
  /\ Requests
  /\ LiveDisjoint
  /\ LiveIntact

-----------------------------------------------------------------------------
(* Lemmas about memory.                                                     *)

\* A store leaves memory well typed and is read back where it was made.
LEMMA StoreThere ==
  ASSUME NEW h \in [Addr -> Header], NEW a \in Addr, NEW r \in Header
  PROVE  Store(h, a, r) \in [Addr -> Header] /\ Store(h, a, r)[a] = r
BY HeapAssumption DEF Store

\* A store leaves every record that does not overlap it alone.
LEMMA StoreElsewhere ==
  ASSUME NEW h \in [Addr -> Header], NEW a \in Addr, NEW r \in Header,
         NEW x \in Addr, x + HdrSize <= a \/ a + HdrSize <= x
  PROVE  Store(h, a, r)[x] = h[x]
<1>1. x # a /\ ~Touches(x, a, HdrSize)
  BY HeapAssumption DEF Touches, Addr
<1> QED BY <1>1 DEF Store

\* What split does to the free tail a of a region that ends at e: a shrinks
\* to the request, the remainder becomes the free tail, and the records below
\* a or from e on stay.
LEMMA SplitTail ==
  ASSUME NEW h \in [Addr -> Header], NEW a \in Addr, NEW n \in Addr,
         SplitResult(h, a, n) = 0, a + HdrSize + h[a].Size < Word,
         NEW e, e = a + HdrSize + h[a].Size
  PROVE  LET r == a + HdrSize + n
         IN  /\ r \in Addr /\ r + HdrSize <= e
             /\ Split(h, a, n) \in [Addr -> Header]
             /\ Split(h, a, n)[a].NextAlloc = r
             /\ Split(h, a, n)[a].Reserved = 1
             /\ Split(h, a, n)[a].Size = n
             /\ Split(h, a, n)[r].PreviousAlloc = a
             /\ Split(h, a, n)[r].NextAlloc = h[a].NextAlloc
             /\ Split(h, a, n)[r].Reserved = 0
             /\ r + HdrSize + Split(h, a, n)[r].Size = e
             /\ \A x \in Addr : (x + HdrSize <= a \/ e <= x)
                                => Split(h, a, n)[x] = h[x]
<1> DEFINE r == a + HdrSize + n
           rest == [PreviousAlloc |-> a, NextAlloc |-> h[a].NextAlloc,
                    Reserved |-> 0, Size |-> (h[a].Size - n - HdrSize) % Word]
           used == [PreviousAlloc |-> h[a].PreviousAlloc, NextAlloc |-> r,
                    Reserved |-> 1, Size |-> n]
           mid == Store(h, r, rest)
<1>1. /\ Word \in Nat \ {0} /\ HdrSize \in Nat \ {0}
      /\ h[a] \in Header /\ h[a].Size \in Nat /\ a \in Nat /\ n \in Nat
  BY HeapAssumption DEF Addr, Header
<1>2. h[a].Size >= n /\ h[a].Size - n >= HdrSize
  BY <1>1 DEF SplitResult
<1>3. r \in Addr /\ r + HdrSize <= e /\ a + HdrSize <= r
  BY <1>1, <1>2 DEF Addr
<1>4. Remainder(a, n) = r
  BY <1>1, <1>3 DEF Remainder, Addr
<1>5. h[a].Size - n - HdrSize \in 0 .. Word - 1
  BY <1>1, <1>2
<1>6. rest.Size = h[a].Size - n - HdrSize
  BY <1>1, <1>5
<1>7. rest \in Header
  BY <1>1, <1>5, <1>6 DEF Header, Byte
<1>8. used \in Header
  BY <1>1, <1>3 DEF Header, Byte
<1>9. Split(h, a, n) = Store(mid, a, used)
  BY <1>4 DEF Split, Rest, Used
<1>10. /\ used.NextAlloc = r /\ used.Reserved = 1 /\ used.Size = n
       /\ rest.PreviousAlloc = a /\ rest.NextAlloc = h[a].NextAlloc
       /\ rest.Reserved = 0 /\ r + HdrSize + rest.Size = e
  BY <1>1, <1>6
<1> HIDE DEF r, rest, used, mid
<1>11. mid \in [Addr -> Header] /\ mid[r] = rest
  BY <1>3, <1>7, StoreThere DEF mid
<1>12. Split(h, a, n) \in [Addr -> Header] /\ Split(h, a, n)[a] = used
  <2>1. mid \in [Addr -> Header]
    BY <1>11
  <2>2. Store(mid, a, used) \in [Addr -> Header] /\ Store(mid, a, used)[a] = used
    BY <1>8, <2>1, StoreThere
  <2> QED BY <1>9, <2>2
<1>13. Split(h, a, n)[r] = rest
  BY <1>1, <1>3, <1>8, <1>9, <1>11, StoreElsewhere
<1>14. ASSUME NEW x \in Addr, x + HdrSize <= a \/ e <= x
       PROVE  Split(h, a, n)[x] = h[x]
  <2>1. x + HdrSize <= r \/ r + HdrSize <= x
    BY <1>1, <1>3, <1>14 DEF Addr
  <2>2. x + HdrSize <= a \/ a + HdrSize <= x
    BY <1>1, <1>3, <1>14 DEF Addr
  <2>3. mid[x] = h[x]
    BY <1>3, <1>7, <2>1, StoreElsewhere DEF mid
  <2>4. Split(h, a, n)[x] = mid[x]
    BY <1>8, <1>9, <1>11, <2>2, StoreElsewhere
  <2> QED BY <2>3, <2>4
<1>15. /\ r \in Addr /\ r + HdrSize <= e
       /\ Split(h, a, n)[a].NextAlloc = r
       /\ Split(h, a, n)[a].Reserved = 1
       /\ Split(h, a, n)[a].Size = n
       /\ Split(h, a, n)[r].PreviousAlloc = a
       /\ Split(h, a, n)[r].NextAlloc = h[a].NextAlloc
       /\ Split(h, a, n)[r].Reserved = 0
       /\ r + HdrSize + Split(h, a, n)[r].Size = e
  BY <1>3, <1>10, <1>12, <1>13
<1> QED BY <1>12, <1>14, <1>15 DEF r

-----------------------------------------------------------------------------
(* The invariant is inductive.                                              *)

\* memory_init leaves the whole region free under the cursor.
LEMMA InitEstablishes == Init => IInv
<1> SUFFICES ASSUME Init PROVE IInv
  OBVIOUS
<1>1. /\ Word \in Nat \ {0} /\ HdrSize \in Nat \ {0} /\ HeadBase \in Addr
      /\ HeadSize \in Nat /\ NextRegion \in Addr /\ HeadBase # NULL /\ MaxDepth \in Nat
      /\ 0 \in Addr /\ Boot \in [Addr -> Header] /\ NextRegion # HeadBase
      /\ Boot[HeadBase].PreviousAlloc \in Addr
  <2>1. HeadBase \in Addr /\ HeadBase # NULL /\ NextRegion # HeadBase /\ 0 \in Addr
    BY HeapAssumption DEF HeapEnd, Addr, NULL
  <2>2. Boot[HeadBase] \in Header
    BY <2>1, HeapAssumption
  <2>3. Boot[HeadBase].PreviousAlloc \in Addr
    BY <2>2 DEF Header
  <2> QED BY <2>1, <2>3, HeapAssumption
<1>2. InitHeader \in Header
  BY <1>1 DEF InitHeader, Header, Byte
<1>3. ASSUME NEW v \in Byte
      PROVE  [Boot[NextRegion] EXCEPT !.Reserved = v] \in Header
  BY <1>1, <1>3 DEF Header
<1>4. Boot[NextRegion].Reserved \in Byte /\ 0 \in Byte
  BY <1>1 DEF Header, Byte
<1>5. hdr \in [Addr -> Header]
  BY <1>1, <1>2, <1>3, <1>4 DEF Init
<1>6. hdr[HeadBase] = InitHeader
  BY <1>1 DEF Init
<1>7. NextRegion # NULL => hdr[NextRegion].Reserved = 0
  BY <1>1 DEF Init, Header
<1>8. TypeOK
  BY <1>1, <1>5 DEF Init, TypeOK
<1>9. CursorIntact
  BY <1>1, <1>6 DEF Init, CursorIntact, InitHeader, HeapEnd, Addr
<1>10. Tail
  BY <1>1, <1>6, <1>7 DEF Init, Tail, InitHeader, Addr
<1>11. Requests /\ LiveDisjoint /\ LiveIntact
  BY DEF Init, Requests, LiveDisjoint, LiveIntact
<1> QED BY <1>8, <1>9, <1>10, <1>11 DEF IInv

\* A call of malloc only records its argument.
LEMMA MallocPreserves == ASSUME IInv, NEW n \in Sizes, Malloc(n) PROVE IInv'
<1>1. n \in Addr /\ 0 \in 0 .. MaxDepth
  BY HeapAssumption
<1>2. TypeOK'
  BY <1>1 DEF IInv, TypeOK, Malloc
<1>3. CursorIntact' /\ Tail' /\ Requests'
  BY DEF IInv, Malloc, CursorIntact, Tail, Requests
<1>4. LiveDisjoint' /\ LiveIntact'
  BY DEF IInv, Malloc, LiveDisjoint, LiveIntact, Start, End
<1> QED BY <1>2, <1>3, <1>4 DEF IInv

\* So does the way to the loop.
LEMMA FailsPreserves == ASSUME IInv, MallocFails PROVE IInv'
<1>1. TypeOK'
  BY DEF IInv, TypeOK, MallocFails
<1>2. CursorIntact' /\ Tail' /\ Requests'
  BY DEF IInv, MallocFails, CursorIntact, Tail, Requests
<1>3. LiveDisjoint' /\ LiveIntact'
  BY DEF IInv, MallocFails, LiveDisjoint, LiveIntact, Start, End
<1> QED BY <1>1, <1>2, <1>3 DEF IInv

\* The loop never finds a block to skip: what follows the free tail is the
\* other region, which memory_init left unreserved, or nothing.
LEMMA WalkStays == ASSUME IInv, MallocWalks PROVE currentAlloc' = currentAlloc
<1>1. hdr[currentAlloc].NextAlloc = NextRegion
  BY DEF IInv, Tail
<1>2. ~(hdr[NextRegion].Reserved = 1 /\ NextRegion # NULL)
  BY DEF IInv, Tail
<1> QED BY <1>1, <1>2 DEF MallocWalks

LEMMA WalksPreserves == ASSUME IInv, MallocWalks PROVE IInv'
<1>1. currentAlloc' = currentAlloc
  BY WalkStays
<1>2. UNCHANGED <<hdr, size, live>> /\ pc # "idle" /\ MaxDepth \in Nat
  BY HeapAssumption DEF MallocWalks
<1>3. pc' \in {"walk", "malloc", "overflow"} /\ depth' \in 0 .. MaxDepth
  BY <1>2 DEF MallocWalks, IInv, TypeOK
<1>4. TypeOK'
  BY <1>1, <1>2, <1>3 DEF IInv, TypeOK
<1>5. CursorIntact' /\ Tail' /\ Requests'
  BY <1>1, <1>2 DEF IInv, CursorIntact, Tail, Requests
<1>6. LiveDisjoint' /\ LiveIntact'
  BY <1>1, <1>2 DEF IInv, LiveDisjoint, LiveIntact, Start, End
<1> QED BY <1>4, <1>5, <1>6 DEF IInv

-----------------------------------------------------------------------------
\* Where things are: the facts the arithmetic of every step needs.
LEMMA Places ==
  ASSUME IInv
  PROVE  /\ HdrSize \in Nat \ {0} /\ HeadBase \in Nat \ {0} /\ HeapEnd \in Nat /\ HeapEnd < Word
         /\ currentAlloc \in Nat /\ HeadBase <= currentAlloc
         /\ hdr[currentAlloc].Size \in Nat
         /\ currentAlloc + HdrSize + hdr[currentAlloc].Size = HeapEnd
         /\ NextRegion \in Addr /\ (NextRegion = NULL \/ HeapEnd <= NextRegion)
         /\ \A b \in live : /\ b.ptr \in Addr /\ b.len \in Sizes /\ b.len \in Nat
                            /\ Start(b) \in Addr /\ b.ptr = Start(b) + HdrSize
                            /\ Start(b) + HdrSize <= currentAlloc
<1>1. /\ HdrSize \in Nat \ {0} /\ HeadBase \in Nat \ {0} /\ HeadSize \in Nat /\ Word \in Nat
      /\ HeapEnd \in Nat /\ HeapEnd < Word /\ NextRegion \in Addr
      /\ (NextRegion = NULL \/ HeapEnd <= NextRegion)
  BY HeapAssumption DEF HeapEnd
<1>2. currentAlloc \in Nat /\ hdr[currentAlloc] \in Header
  BY DEF IInv, TypeOK, Addr
<1>3. /\ HeadBase <= currentAlloc /\ hdr[currentAlloc].Size \in Nat
      /\ currentAlloc + HdrSize + hdr[currentAlloc].Size = HeapEnd
  BY <1>2 DEF IInv, Tail, CursorIntact, Header
<1>4. ASSUME NEW b \in live
      PROVE  /\ b.ptr \in Addr /\ b.len \in Sizes /\ b.len \in Nat
             /\ Start(b) \in Addr /\ b.ptr = Start(b) + HdrSize
             /\ Start(b) + HdrSize <= currentAlloc
  <2>1. b.ptr \in Addr /\ b.len \in Addr /\ b.len \in Sizes
    BY DEF IInv, TypeOK, Requests
  <2>2. HeadBase <= b.ptr - HdrSize /\ b.ptr + b.len <= currentAlloc
    BY DEF IInv, LiveDisjoint, Start, End
  <2>3. b.ptr \in Nat /\ b.len \in Nat /\ b.ptr < Word
    BY <1>1, <2>1 DEF Addr
  <2>4. b.ptr - HdrSize \in 0 .. Word - 1 /\ b.ptr <= currentAlloc
    BY <1>1, <1>2, <2>2, <2>3
  <2> QED BY <1>1, <2>1, <2>3, <2>4 DEF Start, Addr
<1> QED BY <1>1, <1>2, <1>3, <1>4

-----------------------------------------------------------------------------
\* malloc's split keeps the invariant: the new block takes the front of the
\* free tail and the remainder is the new tail.
LEMMA SplitsPreserves == ASSUME IInv, MallocSplits PROVE IInv'
<1> DEFINE a == currentAlloc
           r == currentAlloc + HdrSize + size
           new == [ptr |-> a + HdrSize, len |-> size]
<1>1. /\ a \in Addr /\ size \in Addr /\ size \in Nat /\ size \in Sizes
      /\ hdr \in [Addr -> Header] /\ Word \in Nat /\ 0 \in Addr /\ 0 \in 0 .. MaxDepth
  BY HeapAssumption DEF IInv, TypeOK, Requests, MallocSplits, Addr
<1>2. SplitResult(hdr, a, size) = 0 /\ a + HdrSize + hdr[a].Size < Word
      /\ hdr' = Split(hdr, a, size) /\ a + HdrSize + hdr[a].Size = HeapEnd
  BY Places DEF MallocSplits
<1>3. /\ r \in Addr /\ r + HdrSize <= HeapEnd /\ hdr' \in [Addr -> Header]
      /\ hdr'[a].NextAlloc = r /\ hdr'[a].Reserved = 1 /\ hdr'[a].Size = size
      /\ hdr'[r].PreviousAlloc = a /\ hdr'[r].NextAlloc = hdr[a].NextAlloc
      /\ hdr'[r].Reserved = 0 /\ r + HdrSize + hdr'[r].Size = HeapEnd
      /\ \A x \in Addr : (x + HdrSize <= a \/ HeapEnd <= x) => hdr'[x] = hdr[x]
  BY <1>1, <1>2, SplitTail
<1>4. currentAlloc' = r /\ live' = live \cup {new}
  BY <1>3 DEF MallocSplits
<1>5. a + HdrSize \in Addr /\ a + HdrSize <= r /\ a < r /\ a \in Nat /\ r \in Nat
  BY <1>1, <1>3, Places DEF Addr
<1>6. Start(new) = a /\ End(new) = r
  BY <1>1, <1>5, Places DEF Start, End
<1>7. TypeOK'
  BY <1>1, <1>3, <1>4, <1>5 DEF IInv, TypeOK, MallocSplits
<1>8. CursorIntact'
  BY <1>3, <1>4 DEF CursorIntact, HeapEnd
<1>9. Tail'
  <2>1. hdr[a].NextAlloc = NextRegion
    BY DEF IInv, Tail
  <2>2. NextRegion # NULL => hdr'[NextRegion].Reserved = 0
    BY <1>3, Places DEF IInv, Tail
  <2> QED BY <1>3, <1>4, <1>5, <2>1, <2>2, Places DEF Tail
<1>10. Requests'
  BY <1>1, <1>4 DEF IInv, Requests, MallocSplits
<1> HIDE DEF r, new, a
<1>11. ASSUME NEW b \in live
       PROVE  /\ HeadBase <= Start(b) /\ End(b) <= a /\ End(b) <= r /\ b # new
              /\ \A c \in live \ {b} : End(b) <= Start(c) \/ End(c) <= Start(b)
  <2>1. HeadBase <= Start(b) /\ End(b) <= a
    BY DEF IInv, LiveDisjoint, a
  <2>2. End(b) \in Nat /\ End(b) = b.ptr + b.len
    BY Places DEF End, Addr
  <2>3. End(b) < End(new)
    BY <1>5, <1>6, <2>1, <2>2
  <2> QED BY <1>5, <2>1, <2>2, <2>3 DEF IInv, LiveDisjoint
<1>12. LiveDisjoint'
  <2>1. HeadBase <= a
    BY Places DEF a
  <2>2. ASSUME NEW b \in live'
        PROVE  /\ HeadBase <= Start(b) /\ End(b) <= r
               /\ \A c \in live' \ {b} : End(b) <= Start(c) \/ End(c) <= Start(b)
    <3>1. CASE b = new
      BY <1>4, <1>5, <1>6, <1>11, <2>1, <3>1
    <3>2. CASE b \in live
      BY <1>4, <1>6, <1>11, <3>2
    <3> QED BY <1>4, <3>1, <3>2
  <2> QED BY <1>3, <1>4, <2>2 DEF LiveDisjoint, Start, End, HeapEnd
<1>13. LiveIntact'
  <2>1. ASSUME NEW b \in live
        PROVE  hdr'[Start(b)] = hdr[Start(b)]
    BY <1>3, Places DEF a
  <2>2. ASSUME NEW b \in live'
        PROVE  /\ hdr'[Start(b)].Reserved = 1 /\ hdr'[Start(b)].Size = b.len
               /\ hdr'[Start(b)].NextAlloc = End(b)
    <3>1. CASE b = new
      BY <1>3, <1>6, <3>1 DEF new
    <3>2. CASE b \in live
      BY <2>1, <3>2 DEF IInv, LiveIntact
    <3> QED BY <1>4, <3>1, <3>2
  <2> QED BY <2>2 DEF LiveIntact, Start, End
<1> QED BY <1>7, <1>8, <1>9, <1>10, <1>12, <1>13 DEF IInv

-----------------------------------------------------------------------------
\* free touches one header, that of the block it is given, which is neither the
\* free tail nor the header of another block in use.
LEMMA FreePreserves == ASSUME IInv, NEW b \in live, Free(b) PROVE IInv'
<1> DEFINE k == Start(b)
           freed == [hdr EXCEPT ![k].Reserved = 0]
<1>1. k \in Addr /\ k + HdrSize <= currentAlloc /\ k \in Nat /\ k < HeapEnd
  BY Places DEF Addr
<1>2. hdr \in [Addr -> Header] /\ currentAlloc \in Addr
  BY DEF IInv, TypeOK
<1>3. freed \in [Addr -> Header] /\ \A x \in Addr : x # k => freed[x] = hdr[x]
  BY <1>1, <1>2 DEF Header, Byte
<1>4. k = b.ptr - HdrSize /\ hdr' = Merge(freed, k, freed[k].NextAlloc)
  BY DEF Free, Start
<1> HIDE DEF k, freed
<1>5. hdr' \in [Addr -> Header] /\ \A x \in Addr : x # k => hdr'[x] = hdr[x]
  <2> DEFINE s == freed[k].NextAlloc
  <2>1. /\ s \in Addr /\ freed[s] \in Header /\ freed[k] \in Header
        /\ freed[s].Size \in Nat /\ freed[s].NextAlloc \in Addr /\ freed[k].Size \in Nat
    BY <1>1, <1>3 DEF Header
  <2> HIDE DEF s
  <2> DEFINE m == [freed EXCEPT ![k].Size = @ + freed[s].Size + HdrSize,
                                ![k].NextAlloc = freed[s].NextAlloc]
  <2>2. \A x \in Addr : x # k => m[x] = freed[x]
    BY <1>1, <1>3
  <2>3. freed[k].Size + freed[s].Size + HdrSize \in Nat
    BY <2>1, Places
  <2>4. m \in [Addr -> Header]
    BY <1>1, <1>3, <2>1, <2>3 DEF Header
  <2>5. Merge(freed, k, s) = freed \/ Merge(freed, k, s) = m
    BY DEF Merge
  <2> HIDE DEF m
  <2> QED BY <1>3, <1>4, <2>2, <2>4, <2>5 DEF s
<1>6. currentAlloc' = currentAlloc /\ live' = live \ {b} /\ UNCHANGED <<pc, size, depth>>
  BY DEF Free
<1>7. hdr'[currentAlloc] = hdr[currentAlloc]
  BY <1>1, <1>2, <1>5, Places
<1>8. NextRegion # NULL => hdr'[NextRegion] = hdr[NextRegion]
  BY <1>1, <1>5, Places DEF Addr
<1>9. ASSUME NEW c \in live \ {b}
      PROVE  hdr'[Start(c)] = hdr[Start(c)]
  <2>1. Start(c) # k
    <3>1. End(b) <= Start(c) \/ End(c) <= Start(b)
      BY DEF IInv, LiveDisjoint
    <3>2. /\ End(b) = Start(b) + HdrSize + b.len /\ End(c) = Start(c) + HdrSize + c.len
          /\ Start(b) \in Nat /\ Start(c) \in Nat /\ b.len \in Nat /\ c.len \in Nat
          /\ HdrSize \in Nat \ {0}
      BY Places DEF End, Addr
    <3> QED BY <3>1, <3>2 DEF k
  <2> QED BY <1>5, <2>1, Places
<1>10. TypeOK'
  BY <1>5, <1>6 DEF IInv, TypeOK
<1>11. CursorIntact' /\ Tail' /\ Requests'
  BY <1>6, <1>7, <1>8 DEF IInv, CursorIntact, Tail, Requests
<1>12. LiveDisjoint'
  BY <1>6 DEF IInv, LiveDisjoint, Start, End
<1>13. LiveIntact'
  <2>1. ASSUME NEW c \in live'
        PROVE  /\ hdr'[Start(c)].Reserved = 1 /\ hdr'[Start(c)].Size = c.len
               /\ hdr'[Start(c)].NextAlloc = End(c)
    BY <1>6, <1>9 DEF IInv, LiveIntact
  <2> QED BY <2>1 DEF LiveIntact, Start, End
<1> QED BY <1>10, <1>11, <1>12, <1>13 DEF IInv

\* An owner's writes stay inside its payload and so off every header that counts.
LEMMA UsePreserves ==
  ASSUME IInv, NEW b \in live, NEW junk \in Scribbles, UseBlock(b, junk)
  PROVE  IInv'
<1>1. UNCHANGED <<currentAlloc, pc, size, depth, live>>
  BY DEF UseBlock
<1>2. hdr \in [Addr -> Header] /\ currentAlloc \in Addr /\ junk \in Header
  BY HeapAssumption DEF IInv, TypeOK
<1>3. hdr' = [x \in Addr |-> IF Touches(x, b.ptr, b.len) THEN junk ELSE hdr[x]]
  BY DEF UseBlock
<1>4. hdr' \in [Addr -> Header]
  BY <1>2, <1>3
<1>5. ASSUME NEW x \in Addr, x + HdrSize <= b.ptr \/ End(b) <= x
      PROVE  hdr'[x] = hdr[x]
  <2>1. b.ptr \in Nat /\ b.len \in Nat /\ x \in Nat /\ HdrSize \in Nat /\ End(b) = b.ptr + b.len
    BY Places DEF Addr, End
  <2>2. ~Touches(x, b.ptr, b.len)
    BY <1>5, <2>1 DEF Touches
  <2> QED BY <1>3, <2>2
<1>6. End(b) <= currentAlloc /\ End(b) \in Nat /\ End(b) = b.ptr + b.len
  BY Places DEF IInv, LiveDisjoint, End, Addr
<1>7. hdr'[currentAlloc] = hdr[currentAlloc]
  BY <1>2, <1>5, <1>6
<1>8. NextRegion # NULL => hdr'[NextRegion] = hdr[NextRegion]
  <2>1. NextRegion # NULL => End(b) <= NextRegion
    BY <1>6, Places DEF Addr
  <2> QED BY <1>5, <2>1, Places
<1>9. ASSUME NEW c \in live
      PROVE  hdr'[Start(c)] = hdr[Start(c)]
  <2>1. /\ Start(c) \in Addr /\ Start(c) \in Nat /\ Start(b) \in Nat /\ HdrSize \in Nat
        /\ b.ptr = Start(b) + HdrSize /\ End(c) = Start(c) + HdrSize + c.len
        /\ c.len \in Nat
    BY Places DEF Addr, End
  <2>2. c = b \/ End(b) <= Start(c) \/ End(c) <= Start(b)
    BY DEF IInv, LiveDisjoint
  <2>3. Start(c) + HdrSize <= b.ptr \/ End(b) <= Start(c)
    BY <2>1, <2>2
  <2> QED BY <1>5, <2>1, <2>3
<1>10. TypeOK'
  BY <1>1, <1>4 DEF IInv, TypeOK
<1>11. CursorIntact' /\ Tail' /\ Requests'
  BY <1>1, <1>7, <1>8 DEF IInv, CursorIntact, Tail, Requests
<1>12. LiveDisjoint'
  BY <1>1 DEF IInv, LiveDisjoint, Start, End
<1>13. LiveIntact'
  <2>1. ASSUME NEW c \in live
        PROVE  /\ hdr'[Start(c)].Reserved = 1 /\ hdr'[Start(c)].Size = c.len
               /\ hdr'[Start(c)].NextAlloc = End(c)
    BY <1>9 DEF IInv, LiveIntact
  <2> QED BY <1>1, <2>1 DEF LiveIntact, Start, End
<1> QED BY <1>10, <1>11, <1>12, <1>13 DEF IInv

-----------------------------------------------------------------------------
(* Theorems about every behaviour of the heap.                              *)

LEMMA NextPreserves == IInv /\ [Next]_vars => IInv'
<1> SUFFICES ASSUME IInv, [Next]_vars PROVE IInv'
  OBVIOUS
<1>1. ASSUME NEW n \in Sizes, Malloc(n) PROVE IInv'
  BY <1>1, MallocPreserves
<1>2. CASE MallocSplits
  BY <1>2, SplitsPreserves
<1>3. CASE MallocFails
  BY <1>3, FailsPreserves
<1>4. CASE MallocWalks
  BY <1>4, WalksPreserves
<1>5. ASSUME NEW b \in live, Free(b) PROVE IInv'
  BY <1>5, FreePreserves
<1>6. ASSUME NEW b \in live, NEW junk \in Scribbles, UseBlock(b, junk) PROVE IInv'
  BY <1>6, UsePreserves
<1>7. CASE UNCHANGED vars
  BY <1>7 DEF vars, IInv, TypeOK, CursorIntact, Tail, Requests, LiveDisjoint, LiveIntact,
              Start, End
<1> QED BY <1>1, <1>2, <1>3, <1>4, <1>5, <1>6, <1>7 DEF Next

\* The inductive invariant holds in every state memory.c reaches.
THEOREM Invariance == Spec => []IInv
BY InitEstablishes, NextPreserves, PTL DEF Spec

\* The variables of memory.c keep their C types: no pointer leaves memory and
\* no size underflows, whatever the region, the requests and the user data.
THEOREM TypeCorrect == Spec => []TypeOK
<1>1. IInv => TypeOK
  BY DEF IInv
<1> QED BY <1>1, Invariance, PTL

\* malloc never hands out the same byte twice, nor a byte outside the region.
THEOREM BlocksDisjoint == Spec => []LiveDisjoint
<1>1. IInv => LiveDisjoint
  BY DEF IInv
<1> QED BY <1>1, Invariance, PTL

\* The header of a block in use survives splits, merges and its neighbours.
THEOREM HeadersIntact == Spec => []LiveIntact
<1>1. IInv => LiveIntact
  BY DEF IInv
<1> QED BY <1>1, Invariance, PTL

\* free and the owners' writes never reach the free tail malloc splits.
THEOREM CursorSound == Spec => []CursorIntact
<1>1. IInv => CursorIntact
  BY DEF IInv
<1> QED BY <1>1, Invariance, PTL

\* currentAlloc only moves forward, past a whole header: nothing is reused.
THEOREM NoReuse == Spec => NothingReused
<1>1. IInv /\ [Next]_vars
      => [currentAlloc' # currentAlloc => currentAlloc' >= currentAlloc + HdrSize]_vars
  <2> SUFFICES ASSUME IInv, Next, currentAlloc' # currentAlloc
               PROVE  currentAlloc' >= currentAlloc + HdrSize
    BY DEF vars
  <2>1. ~MallocWalks
    BY WalkStays
  <2>2. MallocSplits
    BY <2>1 DEF Next, Malloc, MallocFails, Free, UseBlock
  <2>3. /\ currentAlloc \in Addr /\ size \in Addr /\ size \in Nat /\ hdr \in [Addr -> Header]
        /\ SplitResult(hdr, currentAlloc, size) = 0
    BY <2>2 DEF IInv, TypeOK, MallocSplits, Addr
  <2>4. currentAlloc + HdrSize + hdr[currentAlloc].Size < Word
    BY Places
  <2>5. Split(hdr, currentAlloc, size)[currentAlloc].NextAlloc = currentAlloc + HdrSize + size
    BY <2>3, <2>4, SplitTail
  <2> QED BY <2>2, <2>3, <2>5, Places DEF MallocSplits
<1> QED BY <1>1, Invariance, PTL DEF Spec, NothingReused

\* The heap implements the abstract allocator: each of its steps grants a block
\* apart from those in use, takes one back, or is invisible to the callers.
THEOREM Refinement == Spec => KeepsPromise
<1>1. Init => Promised!Init
  BY DEF Init, Promised!Init
<1>2. IInv /\ IInv' /\ [Next]_vars => [Promised!Next]_live
  <2> SUFFICES ASSUME IInv, IInv', Next, live' # live PROVE Promised!Next
    BY DEF vars
  <2>0. ASSUME NEW b \in live
        PROVE  b \in Promised!Block
    <3>1. b \in [ptr : Addr, len : Addr] /\ b.len \in Sizes
      BY DEF IInv, TypeOK, Requests
    <3>2. b.ptr \in HeadBase .. HeapEnd
      BY <3>1, Places DEF Addr, IInv, LiveDisjoint, Start, End
    <3> QED BY <3>1, <3>2 DEF Promised!Block
  <2>1. CASE MallocSplits
    <3> DEFINE new == [ptr |-> hdr'[currentAlloc'].PreviousAlloc + HdrSize, len |-> size]
    <3>1. live' = live \cup {new} /\ new \in live'
      BY <2>1 DEF MallocSplits
    <3>2. new \notin live
      BY <3>1
    <3> HIDE DEF new
    <3>3. /\ End(new) <= HeapEnd /\ Start(new) >= HeadBase
          /\ new \in [ptr : Addr, len : Addr] /\ new.len \in Sizes
      <4> DEFINE cursor == currentAlloc'
      <4>1. HeadBase <= Start(new) /\ End(new) <= cursor /\ cursor + HdrSize <= HeapEnd
        BY <3>1 DEF IInv, LiveDisjoint, Start, End, HeapEnd
      <4>2. new \in [ptr : Addr, len : Addr] /\ new.len \in Sizes
        BY <3>1 DEF IInv, TypeOK, Requests
      <4>3. cursor \in Nat /\ HdrSize \in Nat /\ HeapEnd \in Nat
        BY Places DEF IInv, TypeOK, Addr
      <4>4. End(new) \in Int
        BY <4>2 DEF End, Addr
      <4> HIDE DEF cursor
      <4>5. End(new) <= HeapEnd
        BY <4>1, <4>3, <4>4
      <4> QED BY <4>1, <4>2, <4>5
    <3>4. new \in Promised!Block /\ new.ptr + new.len <= HeapEnd
      BY <3>3, Places DEF Promised!Block, Start, End, Addr
    <3>5. ASSUME NEW c \in live
          PROVE  Promised!Apart(new, c)
      <4>1. End(new) <= Start(c) \/ End(c) <= Start(new)
        BY <3>1, <3>2 DEF IInv, LiveDisjoint, Start, End
      <4>2. /\ c.ptr \in Nat /\ c.len \in Nat /\ new.ptr \in Nat /\ new.len \in Nat
            /\ HdrSize \in Nat \ {0}
        BY <3>3, Places DEF Addr
      <4> QED BY <4>1, <4>2 DEF Promised!Apart, Start, End
    <3> QED BY <3>1, <3>4, <3>5 DEF Promised!Next, Promised!Grant
  <2>2. ASSUME NEW b \in live, Free(b)
        PROVE  Promised!Next
    BY <2>0, <2>2 DEF Free, Promised!Next, Promised!Release
  <2> QED BY <2>1, <2>2 DEF Next, Malloc, MallocFails, MallocWalks, UseBlock
<1> QED BY <1>1, <1>2, Invariance, PTL DEF Spec, KeepsPromise, Promised!Spec
=============================================================================
