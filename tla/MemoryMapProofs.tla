--------------------------- MODULE MemoryMapProofs ---------------------------
(***************************************************************************)
(* For every map a BIOS may report, however many entries it has: what       *)
(* memory_init may rely on once the reserved area is cut out, and what      *)
(* malloc may rely on once memory_init is through.                          *)
(***************************************************************************)
EXTENDS MemoryMap, TLAPS

Count == IF carry THEN Len(bios) ELSE Len(bios) - 1
Top(d) == d.BaseAddr + d.Length
Cover == Covering(bios)

\* Room for a header, and within 32 bits or from there on.
Fits(d) ==
  /\ d.Length >= HdrSize
  /\ Top(d) < Narrow \/ d.BaseAddr = Narrow

-----------------------------------------------------------------------------
(* The inductive invariant, by phase.                                       *)

TypeInv == TypeOK /\ bios \in BiosMaps /\ carry \in BOOLEAN

\* The entries boot.asm is through with are in place, and counted.
FillInv ==
  pc = "e820" =>
    /\ i = e820_size /\ i <= Len(bios) /\ (carry \/ i < Len(bios))
    /\ \A j \in 0 .. i - 1 : e820_map[j] = bios[j + 1]

\* The search is not beyond the entry it is for.
SearchInv ==
  pc = "search" =>
    /\ e820_size = Count /\ i <= e820_size /\ i < Cover
    /\ \A j \in 0 .. Count - 1 : e820_map[j] = bios[j + 1]

AreaEntry == [BaseAddr |-> ResBase, Length |-> ResLen, Type |-> Reserved]
CutEntry == [bios[Cover] EXCEPT !.Length = ResBase - bios[Cover].BaseAddr]

\* How many entries are removed when the count is size, or one more: the last
\* time, it is the area's own entry that is taken off the count.
Removed(size) == Count + 1 - size

\* The array cut at its entry n: those behind it have moved up.
CutAt(map, size, n) ==
  /\ \A j \in 0 .. n - 1 : map[j] = bios[j + 1]
  /\ map[n] = CutEntry
  /\ map[n + 1] = AreaEntry
  /\ \A j \in n + 2 .. size - 1 : map[j] = bios[j + Removed(size)]

\* What was removed ended inside the area.
RemoveInv ==
  pc = "remove" =>
    /\ i + 1 = Cover /\ i < Count
    /\ e820_size \in i + 1 .. Count + 1
    /\ CutAt(e820_map, e820_size, i)
    /\ \A k \in Cover + 1 .. Count : k <= Cover + Removed(e820_size) => Top(bios[k]) < ResEnd

\* Usable entries hold a header and are sorted and apart.
MapInv ==
  pc \in {"init", "done"} =>
    /\ i <= e820_size
    /\ \A j \in 0 .. e820_size - 1 : e820_map[j].Type = Free => Fits(e820_map[j])
    /\ \A j, k \in 0 .. e820_size - 1 :
         j < k /\ e820_map[j].Type = Free /\ e820_map[k].Type = Free =>
           Top(e820_map[j]) <= e820_map[k].BaseAddr

\* No header is ever reserved.
Header == [PreviousAlloc : 0 .. Narrow - 1, NextAlloc : 0 .. Narrow - 1,
           Reserved : {0}, Size : 0 .. Wide - 1]
HdrInv == hdr \in [0 .. Narrow - 1 -> Header]

\* What memory_init can link: a region it sees through a pointer that is not NULL.
Low(j) == e820_map[j].Type = Free /\ e820_map[j].BaseAddr \in 1 .. Narrow - 1

\* The first of the regions seen so far keeps its header, whose link goes to a
\* later one.
FirstIs(j) ==
  /\ Low(j) /\ \A k \in 0 .. j - 1 : ~Low(k)
  /\ first = e820_map[j].BaseAddr
  /\ hdr[first].Size = e820_map[j].Length - HdrSize
  /\ hdr[first].NextAlloc # NULL =>
       \E k \in j + 1 .. i - 1 : Low(k) /\ hdr[first].NextAlloc = e820_map[k].BaseAddr

LinkInv ==
  /\ currentAlloc = first
  /\ pc \notin {"init", "done"} => first = NULL
  /\ pc \in {"init", "done"} =>
       IF first = NULL THEN \A j \in 0 .. i - 1 : ~Low(j)
       ELSE \E j \in 0 .. i - 1 : FirstIs(j)
  /\ pc = "done" => i = e820_size

IInv ==
  /\ TypeInv /\ FillInv /\ SearchInv /\ RemoveInv
  /\ MapInv /\ MapExact /\ HdrInv /\ LinkInv

-----------------------------------------------------------------------------
(* Sizes, remainders and the maps the BIOS reports.                         *)

LEMMA Sizes ==
  /\ Narrow \in Nat /\ Narrow > 0 /\ Wide \in Nat /\ Narrow < Wide
  /\ ResBase \in Nat /\ ResLen \in Nat /\ ResEnd \in Nat
  /\ ResEnd = ResBase + ResLen /\ ResBase <= ResEnd /\ ResEnd < Narrow
  /\ HdrSize \in Nat /\ HdrSize > 0 /\ Cells \in Nat /\ Cells > 1
  /\ Room \in Nat /\ Room > 0
BY MemoryMapAssumption DEF ResEnd

LEMMA SmallRemainder ==
  ASSUME NEW x \in Nat, NEW w \in Nat, x < w
  PROVE  x % w = x
OBVIOUS

LEMMA RemainderBelow ==
  ASSUME NEW x \in Int, NEW w \in Nat, w > 0
  PROVE  x % w \in 0 .. w - 1
OBVIOUS

LEMMA Fields ==
  ASSUME NEW d \in Descriptor
  PROVE  /\ d.BaseAddr \in Nat /\ d.Length \in Nat /\ d.Type \in Nat
         /\ d.BaseAddr < Wide /\ d.Length < Wide /\ Top(d) \in Nat
         /\ Top(d) = d.BaseAddr + d.Length
BY Sizes DEF Descriptor, Top, Free, Reserved

LEMMA InBytes ==
  ASSUME NEW d \in Descriptor, NEW a
  PROVE  a \in Bytes(d) <=> a \in Nat /\ d.BaseAddr <= a /\ a < Top(d)
BY Fields DEF Bytes, Top

LEMMA Entries ==
  ASSUME NEW b \in BiosMaps
  PROVE  /\ Len(b) \in Nat /\ Len(b) >= 1 /\ Len(b) < Cells /\ DOMAIN b = 1 .. Len(b)
         /\ \A k \in 1 .. Len(b) : b[k] \in Descriptor /\ Top(b[k]) < Wide /\ End(b[k]) = Top(b[k])
         /\ \A j, k \in 1 .. Len(b) : j < k => Top(b[j]) <= b[k].BaseAddr
         /\ \A k \in 1 .. Len(b) : b[k].Type = Free =>
              /\ Fits(b[k])
              /\ b[k].BaseAddr > ResBase => ~(ResEnd <= Top(b[k]) /\ Top(b[k]) < ResEnd + HdrSize)
<1>1. b \in Seq(Descriptor) /\ PlausibleBios(b)  BY MemoryMapAssumption
<1>2. /\ Len(b) \in Nat /\ Len(b) >= 1 /\ Len(b) < Cells /\ DOMAIN b = 1 .. Len(b)
  <2>1. Len(b) \in 1 .. Cells - 1  BY <1>1 DEF PlausibleBios
  <2>2. QED  BY <2>1, <1>1, Sizes
<1>3. \A k \in 1 .. Len(b) : b[k] \in Descriptor  BY <1>1
<1>4. \A k \in 1 .. Len(b) : Top(b[k]) < Wide  BY <1>1, <1>2 DEF PlausibleBios, Top
<1>5. \A k \in 1 .. Len(b) : End(b[k]) = Top(b[k])
  <2> TAKE k \in 1 .. Len(b)
  <2>1. Top(b[k]) \in Nat /\ Top(b[k]) < Wide /\ Wide \in Nat  BY <1>3, <1>4, Fields, Sizes
  <2>2. Top(b[k]) % Wide = Top(b[k])  BY <2>1, SmallRemainder
  <2>3. QED  BY <2>2 DEF End, Top
<1>6. \A j, k \in 1 .. Len(b) : j < k => Top(b[j]) <= b[k].BaseAddr
  BY <1>1, <1>2 DEF PlausibleBios, Top
<1>7. \A k \in 1 .. Len(b) : b[k].Type = Free =>
        /\ Fits(b[k])
        /\ b[k].BaseAddr > ResBase => ~(ResEnd <= Top(b[k]) /\ Top(b[k]) < ResEnd + HdrSize)
  <2> TAKE k \in 1 .. Len(b)
  <2> HAVE b[k].Type = Free
  <2>1. /\ b[k].Length >= HdrSize
        /\ End(b[k]) < Narrow \/ b[k].BaseAddr = Narrow
        /\ b[k].BaseAddr > ResBase => End(b[k]) \notin ResEnd .. ResEnd + HdrSize - 1
    BY <1>1, <1>2 DEF PlausibleBios
  <2>2. Fits(b[k])  BY <2>1, <1>5 DEF Fits
  <2>3. Top(b[k]) \in Nat  BY <1>3, Fields
  <2>4. QED  BY <2>1, <2>2, <2>3, <1>5, Sizes
<1>8. QED  BY <1>2, <1>3, <1>4, <1>5, <1>6, <1>7

LEMMA CoverIs ==
  ASSUME NEW b \in BiosMaps
  PROVE  /\ Covering(b) \in 1 .. Len(b) /\ b[Covering(b)].Type = Free
         /\ b[Covering(b)].BaseAddr + HdrSize <= ResBase /\ ResBase < Top(b[Covering(b)])
<1>1. PlausibleBios(b)  BY MemoryMapAssumption
<1>2. ResBase \in 0 .. ResBase  BY Sizes
<1>3. \E k \in DOMAIN b : ResBase \in Bytes(b[k])  BY <1>1, <1>2 DEF PlausibleBios
<1>4. Covering(b) \in DOMAIN b /\ ResBase \in Bytes(b[Covering(b)])  BY <1>3 DEF Covering
<1>5. Covering(b) \in 1 .. Len(b)  BY <1>4, Entries
<1>6. ResBase < Top(b[Covering(b)])  BY <1>4, <1>5, Entries, InBytes
<1>7. QED  BY <1>1, <1>5, <1>6 DEF PlausibleBios

LEMMA Counts ==
  ASSUME TypeInv
  PROVE  /\ Count \in Nat /\ Count <= Len(bios) /\ Count < Cells /\ Counted = 1 .. Count
         /\ Cover \in 1 .. Len(bios)
<1>1. bios \in BiosMaps /\ carry \in BOOLEAN  BY DEF TypeInv
<1>2. Len(bios) \in Nat /\ Len(bios) >= 1 /\ Len(bios) < Cells /\ DOMAIN bios = 1 .. Len(bios)
  BY <1>1, Entries
<1>3. Cover \in 1 .. Len(bios)  BY <1>1, CoverIs DEF Cover
<1>4. CASE carry  BY <1>2, <1>3, <1>4, Sizes DEF Count, Counted
<1>5. CASE ~carry
  <2>1. Count = Len(bios) - 1 /\ Counted = (1 .. Len(bios)) \ {Len(bios)}
    BY <1>2, <1>5 DEF Count, Counted
  <2>2. QED  BY <1>2, <1>3, <2>1, Sizes
<1>6. QED  BY <1>4, <1>5

-----------------------------------------------------------------------------
(* The loop of boot.asm, and the search.                                    *)

LEMMA InitInv == Init => IInv
<1> SUFFICES ASSUME Init PROVE IInv  OBVIOUS
<1>1. TypeInv
  <2>1. Empty \in Descriptor  BY Sizes DEF Empty, Descriptor
  <2>2. e820_map \in [0 .. Cells -> Descriptor]
    <3>1. \A j \in 0 .. Cells : ~(j < Room) => Behind[j] \in Descriptor
      <4>1. Behind \in [Room .. Cells -> Descriptor]  BY MemoryMapAssumption
      <4>2. \A j \in 0 .. Cells : ~(j < Room) => j \in Room .. Cells  BY Sizes
      <4>3. QED  BY <4>1, <4>2
    <3>2. QED  BY <2>1, <3>1 DEF Init
  <2>3. e820_size = 0 /\ i = 0 /\ currentAlloc = 0 /\ first = 0  BY DEF Init, NULL
  <2>4. TypeOK  BY <2>2, <2>3, Sizes DEF TypeOK
  <2>5. QED  BY <2>4 DEF Init, TypeInv
<1>2. FillInv
  <2>1. i = 0 /\ e820_size = 0  BY DEF Init
  <2>2. Len(bios) \in Nat /\ Len(bios) >= 1  BY <1>1, Entries DEF TypeInv
  <2>3. QED  BY <2>1, <2>2 DEF FillInv
<1>3. pc = "e820"  BY DEF Init
<1>4. SearchInv /\ RemoveInv /\ MapInv /\ MapExact
  BY <1>3 DEF SearchInv, RemoveInv, MapInv, MapExact
<1>5. HdrInv
  <2>1. [PreviousAlloc |-> 0, NextAlloc |-> 0, Reserved |-> 0, Size |-> 0] \in Header
    BY Sizes DEF Header
  <2>2. QED  BY <2>1 DEF Init, HdrInv
<1>6. LinkInv  BY <1>3 DEF Init, LinkInv
<1>7. QED  BY <1>1, <1>2, <1>4, <1>5, <1>6 DEF IInv

\* Until memory_init's own loop begins there is no header.
LEMMA AllocsKept ==
  ASSUME HdrInv, LinkInv, UNCHANGED allocVars, pc \notin {"init", "done"},
         pc' # "done", pc' = "init" => i' = 0
  PROVE  HdrInv' /\ LinkInv'
<1>1. HdrInv'  BY DEF HdrInv, allocVars
<1>2. currentAlloc' = first' /\ first' = NULL  BY DEF LinkInv, allocVars
<1>3. pc' \in {"init", "done"} => \A j \in 0 .. i' - 1 : ~Low(j)'  OBVIOUS
<1>4. LinkInv'  BY <1>2, <1>3 DEF LinkInv
<1>5. QED  BY <1>1, <1>4

LEMMA EntryKeeps == ASSUME IInv, E820Entry PROVE IInv'
<1> DEFINE more == carry \/ i + 1 < Len(bios)
<1>1. /\ TypeInv /\ i = e820_size /\ i < Len(bios) /\ pc = "e820" /\ i \in Nat
      /\ \A j \in 0 .. i - 1 : e820_map[j] = bios[j + 1]
  BY DEF IInv, TypeInv, TypeOK, FillInv, E820Entry
<1>2. /\ Len(bios) \in Nat /\ Len(bios) < Cells /\ bios[i + 1] \in Descriptor
      /\ Count \in Nat /\ Cover \in 1 .. Len(bios) /\ Count <= Len(bios)
  BY <1>1, Entries, Counts DEF TypeInv
<1>3. /\ e820_map' = [e820_map EXCEPT ![i] = bios[i + 1]]
      /\ e820_map \in [0 .. Cells -> Descriptor] /\ i \in 0 .. Cells
      /\ bios' = bios /\ carry' = carry /\ UNCHANGED allocVars
  BY <1>1 DEF E820Entry, TypeInv, TypeOK
<1>4. e820_map' \in [0 .. Cells -> Descriptor]  BY <1>2, <1>3
<1>5. \A j \in 0 .. i : e820_map'[j] = bios[j + 1]  BY <1>1, <1>3
<1>6. Count' = Count /\ Cover' = Cover  BY <1>3 DEF Count, Cover
<1>7. CASE more
  <2>1. e820_size' = e820_size + 1 /\ pc' = "e820" /\ i' = i + 1  BY <1>7 DEF E820Entry
  <2>2. TypeInv'  BY <1>1, <1>2, <1>3, <1>4, <2>1, Sizes DEF TypeInv, TypeOK, allocVars
  <2>3. FillInv'
    <3>1. i' = e820_size' /\ i' <= Len(bios')  BY <1>1, <1>2, <1>3, <2>1
    <3>2. carry' \/ i' < Len(bios')  BY <1>3, <1>7, <2>1
    <3>3. \A j \in 0 .. i' - 1 : e820_map'[j] = bios'[j + 1]  BY <1>1, <1>3, <1>5, <2>1
    <3>4. QED  BY <3>1, <3>2, <3>3 DEF FillInv
  <2>4. SearchInv' /\ RemoveInv' /\ MapInv' /\ MapExact'
    BY <2>1 DEF SearchInv, RemoveInv, MapInv, MapExact
  <2>5. HdrInv' /\ LinkInv'  BY <1>1, <1>3, <2>1, AllocsKept DEF IInv
  <2>6. QED  BY <2>2, <2>3, <2>4, <2>5 DEF IInv
<1>8. CASE ~more
  <2>1. e820_size' = e820_size /\ pc' = "search" /\ i' = 0  BY <1>8 DEF E820Entry
  <2>2. TypeInv'  BY <1>1, <1>2, <1>3, <1>4, <2>1, Sizes DEF TypeInv, TypeOK, allocVars
  <2>3. ~carry /\ i + 1 = Len(bios)  BY <1>1, <1>2, <1>8
  <2>4. Count = i  BY <1>1, <2>3 DEF Count
  <2>5. SearchInv'
    <3>1. e820_size' = Count' /\ i' <= e820_size' /\ i' < Cover'
      BY <1>1, <1>2, <1>6, <2>1, <2>4
    <3>2. \A j \in 0 .. Count' - 1 : e820_map'[j] = bios'[j + 1]
      BY <1>1, <1>3, <1>5, <1>6, <2>4
    <3>3. QED  BY <3>1, <3>2 DEF SearchInv
  <2>6. FillInv' /\ RemoveInv' /\ MapInv' /\ MapExact'
    BY <2>1 DEF FillInv, RemoveInv, MapInv, MapExact
  <2>7. HdrInv' /\ LinkInv'  BY <1>1, <1>3, <2>1, AllocsKept DEF IInv
  <2>8. QED  BY <2>2, <2>5, <2>6, <2>7 DEF IInv
<1>9. QED  BY <1>7, <1>8

LEMMA CarryKeeps == ASSUME IInv, E820Carry PROVE IInv'
<1>1. /\ TypeInv /\ i = e820_size /\ i = Len(bios) /\ pc = "e820" /\ i \in Nat
      /\ \A j \in 0 .. i - 1 : e820_map[j] = bios[j + 1]
  BY DEF IInv, TypeInv, TypeOK, FillInv, E820Carry
<1>2. Count = i
  <2>1. carry \/ i < Len(bios)  BY <1>1 DEF IInv, FillInv
  <2>2. carry  BY <1>1, <2>1
  <2>3. QED  BY <1>1, <2>2 DEF Count
<1>3. /\ pc' = "search" /\ i' = 0
      /\ UNCHANGED <<bios, carry, e820_map, e820_size, allocVars>>
  BY DEF E820Carry
<1>4. TypeInv'
  <2>1. i' \in 0 .. Cells  BY <1>3, Sizes
  <2>2. QED  BY <1>1, <1>3, <2>1 DEF TypeInv, TypeOK, allocVars
<1>5. Count' = Count /\ Cover' = Cover  BY <1>3 DEF Count, Cover
<1>6. SearchInv'
  <2>1. Cover \in 1 .. Len(bios) /\ Len(bios) \in Nat  BY <1>1, Counts, Entries DEF TypeInv
  <2>2. e820_size' = Count' /\ i' <= e820_size' /\ i' < Cover'
    <3>1. e820_size' = i /\ Count' = i /\ Cover' = Cover /\ i \in Nat /\ i' = 0
      BY <1>1, <1>2, <1>3, <1>5
    <3>2. Cover > 0 /\ Cover \in Nat  BY <2>1
    <3>3. QED  BY <3>1, <3>2
  <2>3. \A j \in 0 .. Count' - 1 : e820_map'[j] = bios'[j + 1]  BY <1>1, <1>2, <1>3, <1>5
  <2>4. QED  BY <2>2, <2>3 DEF SearchInv
<1>7. FillInv' /\ RemoveInv' /\ MapInv' /\ MapExact'
  BY <1>3 DEF FillInv, RemoveInv, MapInv, MapExact
<1>8. HdrInv' /\ LinkInv'  BY <1>1, <1>3, AllocsKept DEF IInv
<1>9. QED  BY <1>4, <1>6, <1>7, <1>8 DEF IInv

\* Every entry before the one the area begins in ends before it.
LEMMA Searched ==
  ASSUME TypeInv, SearchInv, Searching
  PROVE  /\ e820_map[i] = bios[i + 1] /\ e820_size = Count
         /\ End(e820_map[i]) > ResBase <=> i + 1 = Cover
         /\ i + 1 <= Cover /\ i < Count /\ i \in Nat
<1>1. i \in Nat /\ bios \in BiosMaps  BY DEF TypeInv, TypeOK
<1>2. e820_size = Count /\ i < Cover /\ \A j \in 0 .. Count - 1 : e820_map[j] = bios[j + 1]
  BY DEF SearchInv, Searching
<1>3. i < Count  BY <1>2 DEF Searching
<1>4. Count \in Nat /\ Count <= Len(bios) /\ Cover \in 1 .. Len(bios) /\ Len(bios) \in Nat
  BY <1>1, Counts, Entries
<1>5. e820_map[i] = bios[i + 1] /\ i + 1 \in 1 .. Len(bios) /\ i + 1 <= Cover
  BY <1>1, <1>2, <1>3, <1>4
<1>6. End(e820_map[i]) = Top(bios[i + 1])  BY <1>1, <1>5, Entries
<1>7. CASE i + 1 = Cover
  <2>1. ResBase < Top(bios[Cover])  BY <1>1, CoverIs DEF Cover
  <2>2. Top(bios[Cover]) \in Nat  BY <1>1, <1>4, Entries, Fields
  <2>3. QED  BY <1>1, <1>2, <1>3, <1>5, <1>6, <1>7, <2>1, <2>2, Sizes
<1>8. CASE i + 1 # Cover
  <2>1. Top(bios[i + 1]) <= bios[Cover].BaseAddr  BY <1>1, <1>4, <1>5, <1>8, Entries
  <2>2. bios[Cover].BaseAddr + HdrSize <= ResBase  BY <1>1, CoverIs DEF Cover
  <2>3. bios[Cover].BaseAddr \in Nat /\ Top(bios[i + 1]) \in Nat
    BY <1>1, <1>4, <1>5, Entries, Fields
  <2>4. ~(Top(bios[i + 1]) > ResBase)  BY <2>1, <2>2, <2>3, Sizes
  <2>5. QED  BY <1>1, <1>2, <1>3, <1>5, <1>6, <1>8, <2>4
<1>9. QED  BY <1>7, <1>8

LEMMA SkipKeeps == ASSUME IInv, SkipsRegion PROVE IInv'
<1>1. /\ TypeInv /\ SearchInv /\ Searching /\ pc = "search" /\ i < e820_size
      /\ End(e820_map[i]) <= ResBase
      /\ i' = i + 1 /\ UNCHANGED <<bios, carry, e820_map, e820_size, pc, allocVars>>
  BY DEF IInv, SkipsRegion, Searching
<1>2. /\ e820_map[i] = bios[i + 1] /\ e820_size = Count
      /\ End(e820_map[i]) > ResBase <=> i + 1 = Cover
      /\ i + 1 <= Cover /\ i < Count /\ i \in Nat
  BY <1>1, Searched
<1>3. /\ Cover \in 1 .. Len(bios) /\ Len(bios) \in Nat /\ Count \in Nat /\ e820_size \in 0 .. Cells
      /\ \A k \in 1 .. Len(bios) : bios[k] \in Descriptor /\ End(bios[k]) = Top(bios[k])
      /\ Count <= Len(bios)
  BY <1>1, Entries, Counts DEF TypeInv, TypeOK
<1>4. i + 1 # Cover
  <2>1. i + 1 \in 1 .. Len(bios)  BY <1>2, <1>3
  <2>2. End(e820_map[i]) \in Nat  BY <1>2, <1>3, <2>1, Fields
  <2>3. QED  BY <1>1, <1>2, <2>2, Sizes
<1>5. TypeInv'  BY <1>1, <1>2, <1>3, Sizes DEF TypeInv, TypeOK, allocVars
<1>6. SearchInv'
  <2>1. Count' = Count /\ Cover' = Cover  BY <1>1 DEF Count, Cover
  <2>2. i' <= e820_size' /\ i' < Cover'  BY <1>1, <1>2, <1>3, <1>4, <2>1
  <2>3. QED  BY <1>1, <2>1, <2>2 DEF SearchInv
<1>7. FillInv' /\ RemoveInv' /\ MapInv' /\ MapExact'
  BY <1>1 DEF FillInv, RemoveInv, MapInv, MapExact
<1>8. HdrInv' /\ LinkInv'  BY <1>1, AllocsKept DEF IInv
<1>9. QED  BY <1>5, <1>6, <1>7, <1>8 DEF IInv

\* The usable bytes of a map are those of its usable entries.
LEMMA InUsable ==
  ASSUME NEW map, NEW E, NEW a
  PROVE  a \in Usable(map, E) <=> \E k \in E : map[k].Type = Free /\ a \in Bytes(map[k])
BY DEF Usable

\* The last entry may be the one the area begins in, and uncounted: then nothing
\* is cut.
LEMMA NoRegionKeeps == ASSUME IInv, NoRegion PROVE IInv'
<1>1. /\ TypeInv /\ pc = "search" /\ i >= e820_size
      /\ pc' = "init" /\ i' = 0 /\ UNCHANGED <<bios, carry, e820_map, e820_size, allocVars>>
  BY DEF IInv, NoRegion
<1>2. /\ e820_size = Count /\ i <= e820_size /\ i < Cover
      /\ \A j \in 0 .. Count - 1 : e820_map[j] = bios[j + 1]
  BY <1>1 DEF IInv, SearchInv
<1>3. /\ Cover \in 1 .. Len(bios) /\ Len(bios) \in Nat /\ Count \in Nat /\ Count <= Len(bios)
      /\ Counted = 1 .. Count /\ i \in Nat /\ bios \in BiosMaps
  BY <1>1, Entries, Counts DEF TypeInv, TypeOK
<1>4. /\ \A k \in 1 .. Len(bios) : bios[k] \in Descriptor
      /\ \A j, k \in 1 .. Len(bios) : j < k => Top(bios[j]) <= bios[k].BaseAddr
      /\ \A k \in 1 .. Len(bios) : bios[k].Type = Free => Fits(bios[k])
  BY <1>3, Entries
<1>5. Count < Cover  BY <1>1, <1>2, <1>3
<1>6. TypeInv'
  <2>1. i' \in 0 .. Cells  BY <1>1, Sizes
  <2>2. QED  BY <1>1, <2>1 DEF TypeInv, TypeOK, allocVars
<1>7. MapInv'
  <2>1. i' <= e820_size'  BY <1>1, <1>2, <1>3
  <2>2. \A j \in 0 .. Count - 1 : j + 1 \in 1 .. Len(bios)  BY <1>3
  <2>3. \A j \in 0 .. Count - 1 : e820_map[j].Type = Free => Fits(e820_map[j])
    BY <1>2, <1>4, <2>2
  <2>4. \A j, k \in 0 .. Count - 1 : j < k => Top(e820_map[j]) <= e820_map[k].BaseAddr
    <3> TAKE j, k \in 0 .. Count - 1
    <3> HAVE j < k
    <3>1. j + 1 \in 1 .. Len(bios) /\ k + 1 \in 1 .. Len(bios) /\ j + 1 < k + 1  BY <2>2
    <3>2. Top(bios[j + 1]) <= bios[k + 1].BaseAddr  BY <1>4, <3>1
    <3>3. QED  BY <1>2, <3>2
  <2>5. e820_map' = e820_map /\ e820_size' = Count  BY <1>1, <1>2
  <2>6. QED  BY <2>1, <2>3, <2>4, <2>5 DEF MapInv
<1>8. MapExact'
  <2> DEFINE kept == 0 .. Count - 1
             taken == {a \in Bytes(bios[Cover]) : a >= ResEnd}
             gone == IF Cover \in Counted THEN taken ELSE {}
  <2>1. Cover \notin Counted  BY <1>3, <1>5
  <2>2. gone = {}  BY <2>1
  <2>3. \A a : a \in Usable(e820_map, kept) <=> a \in Usable(bios, Counted)
    <3> TAKE a
    <3>1. \A k \in 1 .. Count : k - 1 \in kept /\ e820_map[k - 1] = bios[k]
      BY <1>2, <1>3
    <3>2. \A j \in kept : j + 1 \in 1 .. Count /\ e820_map[j] = bios[j + 1]
      BY <1>2, <1>3
    <3>3. (\E j \in kept : e820_map[j].Type = Free /\ a \in Bytes(e820_map[j]))
            <=> \E k \in 1 .. Count : bios[k].Type = Free /\ a \in Bytes(bios[k])
      BY <3>1, <3>2
    <3>4. QED  BY <1>3, <3>3, InUsable
  <2>4. \A a : a \in Usable(bios, Counted) => a \notin ResBase .. ResEnd - 1
    <3> SUFFICES ASSUME NEW a, a \in Usable(bios, Counted) PROVE a \notin ResBase .. ResEnd - 1
      OBVIOUS
    <3>1. PICK k \in 1 .. Count : a \in Bytes(bios[k])  BY <1>3, InUsable
    <3>2. k \in 1 .. Len(bios) /\ k < Cover  BY <1>3, <1>5
    <3>3. Top(bios[k]) <= bios[Cover].BaseAddr  BY <1>3, <1>4, <3>2
    <3>4. bios[Cover].BaseAddr + HdrSize <= ResBase  BY <1>3, CoverIs DEF Cover
    <3>5. a \in Nat /\ a < Top(bios[k])  BY <1>4, <3>1, <3>2, InBytes
    <3>6. bios[Cover].BaseAddr \in Nat /\ Top(bios[k]) \in Nat  BY <1>3, <1>4, <3>2, Fields
    <3>7. a < ResBase  BY <3>3, <3>4, <3>5, <3>6, Sizes
    <3>8. QED  BY <3>5, <3>7, Sizes
  <2>5. Usable(e820_map, kept) = Usable(bios, Counted) \ (ResBase .. ResEnd - 1 \cup gone)
    BY <2>2, <2>3, <2>4
  <2>6. Usable(e820_map, 0 .. e820_size - 1)' = Usable(e820_map, kept)
    BY <1>1, <1>2 DEF Usable
  <2>7. /\ Usable(bios, Counted)' = Usable(bios, Counted)
        /\ (IF Cover \in Counted THEN taken ELSE {})' = gone
    BY <1>1 DEF Usable, Counted, Cover
  <2>8. QED  BY <2>5, <2>6, <2>7 DEF MapExact, Cover
<1>9. FillInv' /\ SearchInv' /\ RemoveInv'  BY <1>1 DEF FillInv, SearchInv, RemoveInv
<1>10. HdrInv' /\ LinkInv'  BY <1>1, AllocsKept DEF IInv
<1>11. QED  BY <1>6, <1>7, <1>8, <1>9, <1>10 DEF IInv

-----------------------------------------------------------------------------
(* Cutting the area out.                                                    *)

\* The entry the area begins in is cut to what is before it.
LEMMA CutIs ==
  ASSUME TypeInv
  PROVE  /\ CutEntry \in Descriptor /\ CutEntry.Type = Free /\ CutEntry.BaseAddr \in Nat
         /\ CutEntry.BaseAddr = bios[Cover].BaseAddr /\ Top(CutEntry) = ResBase
         /\ CutEntry.Length >= HdrSize
         /\ (ResBase - bios[Cover].BaseAddr) % Wide = ResBase - bios[Cover].BaseAddr
<1>1. bios \in BiosMaps  BY DEF TypeInv
<1>2. Cover \in 1 .. Len(bios) /\ bios[Cover] \in Descriptor  BY <1>1, Counts, Entries
<1>3. bios[Cover].Type = Free /\ bios[Cover].BaseAddr + HdrSize <= ResBase
  BY <1>1, CoverIs DEF Cover
<1>4. bios[Cover].BaseAddr \in Nat  BY <1>2, Fields
<1> DEFINE room == ResBase - bios[Cover].BaseAddr
<1>5. room \in 0 .. Wide - 1 /\ room >= HdrSize /\ room \in Nat /\ room < Wide
  BY <1>3, <1>4, Sizes
<1>6. room % Wide = room  BY <1>5, SmallRemainder, Sizes
<1> HIDE DEF room
<1>7. CutEntry = [bios[Cover] EXCEPT !.Length = room]  BY DEF CutEntry, room
<1>8. /\ CutEntry \in Descriptor /\ CutEntry.Type = bios[Cover].Type
      /\ CutEntry.BaseAddr = bios[Cover].BaseAddr /\ CutEntry.Length = room
  BY <1>2, <1>5, <1>7 DEF Descriptor
<1>9. Top(CutEntry) = ResBase  BY <1>4, <1>8, Sizes DEF Top, room
<1>10. QED  BY <1>3, <1>4, <1>5, <1>6, <1>8, <1>9 DEF room

LEMMA AreaIs ==
  /\ AreaEntry \in Descriptor /\ AreaEntry.Type # Free
<1>1. ResBase \in 0 .. Wide - 1 /\ ResLen \in 0 .. Wide - 1  BY Sizes
<1>2. QED  BY <1>1 DEF AreaEntry, Descriptor, Free, Reserved

LEMMA CutKeeps == ASSUME IInv, CutsRegion PROVE IInv'
<1>1. /\ TypeInv /\ SearchInv /\ Searching /\ pc = "search" /\ i < e820_size
      /\ End(e820_map[i]) > ResBase
      /\ e820_size' = e820_size + 1 /\ pc' = "remove"
      /\ UNCHANGED <<bios, carry, i, allocVars>>
  BY DEF IInv, CutsRegion, Searching
<1>2. /\ e820_map[i] = bios[i + 1] /\ e820_size = Count /\ i + 1 = Cover /\ i < Count /\ i \in Nat
      /\ \A j \in 0 .. Count - 1 : e820_map[j] = bios[j + 1]
  <2>1. e820_map[i] = bios[i + 1] /\ e820_size = Count /\ i + 1 = Cover /\ i < Count /\ i \in Nat
    BY <1>1, Searched
  <2>2. QED  BY <1>1, <2>1 DEF SearchInv
<1>3. /\ Cover \in 1 .. Len(bios) /\ Len(bios) \in Nat /\ Count \in Nat /\ Count <= Len(bios)
      /\ Count < Cells /\ bios \in BiosMaps
      /\ e820_map \in [0 .. Cells -> Descriptor]
      /\ \A k \in 1 .. Len(bios) : bios[k] \in Descriptor
  BY <1>1, Entries, Counts DEF TypeInv, TypeOK
<1> DEFINE cut == [e820_map EXCEPT ![i].Length = (ResBase - e820_map[i].BaseAddr) % Wide]
           moved == ShiftMap(cut, i + 1)
           new == [moved EXCEPT ![i + 1] = AreaEntry]
<1>4. e820_map' = new  BY DEF CutsRegion, AreaEntry
<1>5. i \in 0 .. Cells /\ i + 1 \in 0 .. Cells  BY <1>2, <1>3, Sizes
<1>6. /\ cut \in [0 .. Cells -> Descriptor] /\ cut[i] = CutEntry
      /\ \A j \in 0 .. Cells : j # i => cut[j] = e820_map[j]
  <2>1. CutEntry = [e820_map[i] EXCEPT !.Length = (ResBase - e820_map[i].BaseAddr) % Wide]
    <3>1. e820_map[i] = bios[Cover]  BY <1>2
    <3>2. (ResBase - bios[Cover].BaseAddr) % Wide = ResBase - bios[Cover].BaseAddr
      BY <1>1, CutIs
    <3>3. QED  BY <3>1, <3>2 DEF CutEntry
  <2>2. cut = [e820_map EXCEPT ![i] = CutEntry]  BY <2>1, <1>3, <1>5
  <2>3. CutEntry \in Descriptor  BY <1>1, CutIs
  <2> HIDE DEF cut
  <2>4. QED  BY <2>2, <2>3, <1>3, <1>5
<1> HIDE DEF cut
<1>7. moved = [j \in 0 .. Cells |-> IF j \in i + 2 .. Count THEN cut[j - 1] ELSE cut[j]]
  <2>1. DOMAIN cut = 0 .. Cells  BY <1>6
  <2>2. i + 1 + 1 = i + 2  BY <1>2
  <2>3. QED  BY <2>1, <2>2, <1>2 DEF ShiftMap
<1> HIDE DEF moved
<1>8. /\ moved \in [0 .. Cells -> Descriptor]
      /\ \A j \in 0 .. i : moved[j] = cut[j]
      /\ \A j \in i + 2 .. Count : moved[j] = cut[j - 1]
  <2>1. \A j \in i + 2 .. Count : j - 1 \in 0 .. Cells /\ j \in 0 .. Cells
    BY <1>2, <1>3, Sizes
  <2>2. \A j \in 0 .. i : j \in 0 .. Cells /\ j \notin i + 2 .. Count
    BY <1>2, <1>3, <1>5, Sizes
  <2>3. QED  BY <1>6, <1>7, <2>1, <2>2
<1>9. new \in [0 .. Cells -> Descriptor]  BY <1>8, <1>5, AreaIs
<1>10. CutAt(new, Count + 1, i)
  <2>1. \A j \in 0 .. i - 1 : new[j] = bios[j + 1]
    <3> TAKE j \in 0 .. i - 1
    <3>1. /\ j \in 0 .. Cells /\ j # i /\ j # i + 1 /\ j \in 0 .. i /\ j \in 0 .. Count - 1
      BY <1>2, <1>3, <1>5, Sizes
    <3>2. QED  BY <3>1, <1>2, <1>6, <1>8
  <2>2. new[i] = CutEntry
    <3>1. i # i + 1 /\ i \in 0 .. i  BY <1>2
    <3>2. QED  BY <3>1, <1>5, <1>6, <1>8
  <2>3. new[i + 1] = AreaEntry  BY <1>5, <1>8
  <2>4. \A j \in i + 2 .. (Count + 1) - 1 : new[j] = bios[j + Removed(Count + 1)]
    <3> TAKE j \in i + 2 .. (Count + 1) - 1
    <3>1. /\ j \in i + 2 .. Count /\ j \in 0 .. Cells /\ j # i + 1
          /\ j - 1 \in 0 .. Cells /\ j - 1 # i /\ j - 1 \in 0 .. Count - 1
          /\ (j - 1) + 1 = j /\ j + Removed(Count + 1) = j
      BY <1>2, <1>3, <1>5, Sizes DEF Removed
    <3>2. new[j] = cut[j - 1]  BY <3>1, <1>8
    <3>3. cut[j - 1] = bios[(j - 1) + 1]  BY <3>1, <1>2, <1>6
    <3>4. QED  BY <3>1, <3>2, <3>3
  <2> HIDE DEF new
  <2>5. QED  BY <2>1, <2>2, <2>3, <2>4 DEF CutAt
<1> HIDE DEF new
<1>11. TypeInv'
  <2>1. e820_size' \in 0 .. Cells /\ i' \in 0 .. Cells
    BY <1>1, <1>2, <1>3, <1>5, Sizes
  <2>2. QED  BY <1>1, <1>4, <1>9, <2>1 DEF TypeInv, TypeOK, allocVars
<1>12. RemoveInv'
  <2>1. /\ Count' = Count /\ Cover' = Cover /\ i' = i /\ bios' = bios
        /\ e820_size' = Count + 1
    BY <1>1, <1>2 DEF Count, Cover
  <2>2. Removed(Count + 1) = 0  BY <1>3 DEF Removed
  <2>3. e820_size' \in i + 1 .. Count + 1  BY <2>1, <1>2, <1>3
  <2>4. \A k \in Cover + 1 .. Count : ~(k <= Cover + Removed(Count + 1))  BY <2>2, <1>2, <1>3
  <2>5. CutAt(e820_map', e820_size', i)  BY <2>1, <1>4, <1>10
  <2>6. CutAt(e820_map, e820_size, i)'
    BY <2>1, <2>5 DEF CutAt, CutEntry, Removed
  <2>7. Removed(e820_size)' = Removed(Count + 1)  BY <2>1 DEF Removed
  <2>8. QED  BY <2>1, <2>3, <2>4, <2>6, <2>7, <1>2 DEF RemoveInv
<1>13. FillInv' /\ SearchInv' /\ MapInv' /\ MapExact'
  BY <1>1 DEF FillInv, SearchInv, MapInv, MapExact
<1>14. HdrInv' /\ LinkInv'  BY <1>1, AllocsKept DEF IInv
<1>15. QED  BY <1>11, <1>12, <1>13, <1>14 DEF IInv

\* What the count says of the entry behind the area.
LEMMA Cutting ==
  ASSUME TypeInv, RemoveInv, pc = "remove"
  PROVE  /\ i \in Nat /\ i + 1 = Cover /\ i < Count /\ Count \in Nat /\ Count <= Len(bios)
         /\ Cover \in 1 .. Len(bios) /\ Len(bios) \in Nat /\ Count < Cells
         /\ i + 2 \in 0 .. Cells /\ e820_size \in i + 1 .. Count + 1
         /\ e820_map \in [0 .. Cells -> Descriptor] /\ bios \in BiosMaps
         /\ Counted = 1 .. Count /\ Removed(e820_size) = (Count + 1) - e820_size
         /\ Removed(e820_size) \in 0 .. (Count + 1) - Cover
         /\ CutAt(e820_map, e820_size, i)
         /\ \A k \in 1 .. Len(bios) : bios[k] \in Descriptor /\ End(bios[k]) = Top(bios[k])
         /\ \A j, k \in 1 .. Len(bios) : j < k => Top(bios[j]) <= bios[k].BaseAddr
<1>1. /\ i \in Nat /\ i + 1 = Cover /\ i < Count /\ e820_size \in i + 1 .. Count + 1
      /\ CutAt(e820_map, e820_size, i) /\ e820_map \in [0 .. Cells -> Descriptor]
      /\ bios \in BiosMaps
  BY DEF TypeInv, TypeOK, RemoveInv
<1>2. /\ Count \in Nat /\ Count <= Len(bios) /\ Cover \in 1 .. Len(bios) /\ Len(bios) \in Nat
      /\ Count < Cells /\ Counted = 1 .. Count
  BY <1>1, Counts, Entries
<1>3. i + 2 \in 0 .. Cells  BY <1>1, <1>2, Sizes
<1>4. /\ Removed(e820_size) = (Count + 1) - e820_size
      /\ Removed(e820_size) \in 0 .. (Count + 1) - Cover
  BY <1>1, <1>2 DEF Removed
<1>5. QED  BY <1>1, <1>2, <1>3, <1>4, Entries

LEMMA RemoveKeeps == ASSUME IInv, RemovesCovered PROVE IInv'
<1>1. /\ TypeInv /\ RemoveInv /\ pc = "remove" /\ CoversNext
      /\ e820_map' = RemoveIndex(e820_map, i + 2) /\ e820_size' = e820_size - 1
      /\ UNCHANGED <<bios, carry, pc, i, allocVars>>
  BY DEF IInv, RemovesCovered
<1>2. /\ i \in Nat /\ i + 1 = Cover /\ i < Count /\ Count \in Nat /\ Count <= Len(bios)
      /\ Cover \in 1 .. Len(bios) /\ Len(bios) \in Nat /\ Count < Cells
      /\ i + 2 \in 0 .. Cells /\ e820_size \in i + 1 .. Count + 1
      /\ e820_map \in [0 .. Cells -> Descriptor]
      /\ Removed(e820_size) = (Count + 1) - e820_size
      /\ CutAt(e820_map, e820_size, i)
      /\ \A k \in 1 .. Len(bios) : bios[k] \in Descriptor /\ End(bios[k]) = Top(bios[k])
  BY <1>1, Cutting
<1>3. e820_size \in i + 2 .. Count + 1 /\ ResEnd > End(e820_map[i + 2])
  BY <1>1, <1>2 DEF CoversNext, Following
<1> DEFINE new == RemoveIndex(e820_map, i + 2)
<1>4. /\ new \in [0 .. Cells -> Descriptor]
      /\ \A j \in 0 .. i + 1 : new[j] = e820_map[j]
      /\ \A j \in i + 2 .. e820_size - 2 : new[j] = e820_map[j + 1]
  <2>1. new = [j \in 0 .. Cells |->
                 IF j \in i + 2 .. e820_size - 2 THEN e820_map[j + 1] ELSE e820_map[j]]
    BY <1>2 DEF RemoveIndex
  <2>2. \A j \in i + 2 .. e820_size - 2 : j + 1 \in 0 .. Cells /\ j \in 0 .. Cells
    BY <1>2, <1>3, Sizes
  <2>3. \A j \in 0 .. i + 1 : j \in 0 .. Cells /\ j \notin i + 2 .. e820_size - 2
    BY <1>2, <1>3, Sizes
  <2> HIDE DEF new
  <2>4. QED  BY <1>2, <2>1, <2>2, <2>3
<1> HIDE DEF new
<1>5. e820_map' = new  BY <1>1 DEF new
<1>6. Removed(e820_size - 1) = Removed(e820_size) + 1  BY <1>2, <1>3 DEF Removed
<1>7. CutAt(new, e820_size - 1, i)
  <2>1. \A j \in 0 .. i - 1 : new[j] = bios[j + 1]
    <3>1. \A j \in 0 .. i - 1 : j \in 0 .. i + 1  BY <1>2
    <3>2. QED  BY <3>1, <1>2, <1>4 DEF CutAt
  <2>2. new[i] = CutEntry /\ new[i + 1] = AreaEntry
    <3>1. i \in 0 .. i + 1 /\ i + 1 \in 0 .. i + 1  BY <1>2
    <3>2. QED  BY <3>1, <1>2, <1>4 DEF CutAt
  <2>3. \A j \in i + 2 .. (e820_size - 1) - 1 : new[j] = bios[j + Removed(e820_size - 1)]
    <3> TAKE j \in i + 2 .. (e820_size - 1) - 1
    <3>1. /\ j \in i + 2 .. e820_size - 2 /\ j + 1 \in i + 2 .. e820_size - 1
          /\ (j + 1) + Removed(e820_size) = j + Removed(e820_size - 1)
      BY <1>2, <1>3, <1>6
    <3>2. e820_map[j + 1] = bios[(j + 1) + Removed(e820_size)]  BY <3>1, <1>2 DEF CutAt
    <3>3. QED  BY <3>1, <3>2, <1>4
  <2>4. QED  BY <2>1, <2>2, <2>3 DEF CutAt
<1>8. ASSUME NEW k \in Cover + 1 .. Count, k <= Cover + Removed(e820_size - 1)
      PROVE  Top(bios[k]) < ResEnd
  <2>1. CASE k <= Cover + Removed(e820_size)  BY <1>1, <2>1 DEF RemoveInv
  <2>2. CASE ~(k <= Cover + Removed(e820_size))
    <3>1. k = i + 2 + Removed(e820_size)  BY <1>2, <1>6, <1>8, <2>2
    <3>2. i + 2 \in i + 2 .. e820_size - 1 /\ k \in 1 .. Len(bios)  BY <1>2, <1>3, <3>1
    <3>3. e820_map[i + 2] = bios[k]  BY <3>1, <3>2, <1>2 DEF CutAt
    <3>4. Top(bios[k]) \in Nat /\ End(bios[k]) = Top(bios[k])  BY <1>2, <3>2, Fields
    <3>5. QED  BY <1>3, <3>3, <3>4, Sizes
  <2>3. QED  BY <2>1, <2>2
<1>9. TypeInv'
  <2>1. e820_size' \in 0 .. Cells  BY <1>1, <1>2, <1>3, Sizes
  <2>2. QED  BY <1>1, <1>4, <1>5, <2>1 DEF TypeInv, TypeOK, allocVars
<1>10. RemoveInv'
  <2>1. Count' = Count /\ Cover' = Cover /\ i' = i /\ bios' = bios /\ e820_size' = e820_size - 1
    BY <1>1 DEF Count, Cover
  <2>2. e820_size' \in i + 1 .. Count + 1  BY <1>2, <1>3, <2>1
  <2>3. CutAt(e820_map, e820_size, i)'
    <3>1. CutAt(e820_map', e820_size', i)  BY <1>5, <1>7, <2>1
    <3>2. QED  BY <2>1, <3>1 DEF CutAt, CutEntry, Removed
  <2>4. Removed(e820_size)' = Removed(e820_size - 1)  BY <2>1 DEF Removed
  <2>5. QED  BY <2>1, <2>2, <2>3, <2>4, <1>2, <1>8 DEF RemoveInv
<1>11. FillInv' /\ SearchInv' /\ MapInv' /\ MapExact'
  BY <1>1 DEF FillInv, SearchInv, MapInv, MapExact
<1>12. HdrInv' /\ LinkInv'  BY <1>1, AllocsKept DEF IInv
<1>13. QED  BY <1>9, <1>10, <1>11, <1>12 DEF IInv

\* The last step leaves no counted entry behind the area that begins before its
\* end, and takes no byte beyond its end from any.
LEMMA Clips ==
  ASSUME TypeInv, RemoveInv, ClipsNext
  PROVE  /\ e820_map' \in [0 .. Cells -> Descriptor]
         /\ \A j \in 0 .. i + 1 : e820_map'[j] = e820_map[j]
         /\ \A j \in i + 2 .. e820_size - 1 :
              LET old == bios[j + Removed(e820_size)]
                  new == e820_map'[j]
              IN  /\ j + Removed(e820_size) \in Cover + 1 .. Count
                  /\ new.Type = old.Type /\ Top(new) = Top(old)
                  /\ new.BaseAddr >= ResEnd /\ new.BaseAddr >= old.BaseAddr
                  /\ new.BaseAddr = ResEnd \/ new = old
                  /\ Top(new) >= ResEnd
<1>1. pc = "remove" /\ ~CoversNext  BY DEF ClipsNext
<1>2. /\ i \in Nat /\ i + 1 = Cover /\ i < Count /\ Count \in Nat /\ Count <= Len(bios)
      /\ Cover \in 1 .. Len(bios) /\ Len(bios) \in Nat /\ Count < Cells
      /\ i + 2 \in 0 .. Cells /\ e820_size \in i + 1 .. Count + 1
      /\ e820_map \in [0 .. Cells -> Descriptor]
      /\ Removed(e820_size) = (Count + 1) - e820_size
      /\ Removed(e820_size) \in 0 .. (Count + 1) - Cover
      /\ CutAt(e820_map, e820_size, i)
      /\ \A k \in 1 .. Len(bios) : bios[k] \in Descriptor /\ End(bios[k]) = Top(bios[k])
      /\ \A j, k \in 1 .. Len(bios) : j < k => Top(bios[j]) <= bios[k].BaseAddr
  BY <1>1, Cutting
<1> DEFINE f == e820_map[i + 2]
           left == (f.Length - (ResEnd - f.BaseAddr)) % Wide
<1>3. f \in Descriptor  BY <1>2
<1>4. left \in 0 .. Wide - 1
  <2>1. f.Length - (ResEnd - f.BaseAddr) \in Int  BY <1>3, Fields, Sizes
  <2> HIDE DEF f
  <2>2. QED  BY <2>1, RemainderBelow, Sizes
<1>5. Clipped(f) = [f EXCEPT !.BaseAddr = ResEnd, !.Length = left]  BY DEF Clipped
<1> HIDE DEF f, left
<1>6. /\ Clipped(f) \in Descriptor /\ Clipped(f).BaseAddr = ResEnd /\ Clipped(f).Length = left
      /\ Clipped(f).Type = f.Type
  <2>1. ResEnd \in 0 .. Wide - 1  BY Sizes
  <2>2. QED  BY <1>3, <1>4, <1>5, <2>1 DEF Descriptor
<1>7. e820_map' = IF ResEnd > f.BaseAddr THEN [e820_map EXCEPT ![i + 2] = Clipped(f)] ELSE e820_map
  BY DEF ClipsNext, Following, f
<1>8. e820_map' \in [0 .. Cells -> Descriptor]  BY <1>2, <1>6, <1>7
<1>9. \A j \in 0 .. Cells : j # i + 2 => e820_map'[j] = e820_map[j]  BY <1>2, <1>7
<1>10. \A j \in 0 .. i + 1 : e820_map'[j] = e820_map[j]
  <2>1. \A j \in 0 .. i + 1 : j \in 0 .. Cells /\ j # i + 2  BY <1>2, Sizes
  <2>2. QED  BY <1>9, <2>1
<1>11. ASSUME NEW j \in i + 2 .. e820_size - 1
       PROVE  LET old == bios[j + Removed(e820_size)]
                  new == e820_map'[j]
              IN  /\ j + Removed(e820_size) \in Cover + 1 .. Count
                  /\ new.Type = old.Type /\ Top(new) = Top(old)
                  /\ new.BaseAddr >= ResEnd /\ new.BaseAddr >= old.BaseAddr
                  /\ new.BaseAddr = ResEnd \/ new = old
                  /\ Top(new) >= ResEnd
  <2> DEFINE s == j + Removed(e820_size)
             fs == (i + 2) + Removed(e820_size)
             old == bios[s]
             new == e820_map'[j]
  <2>1. /\ s \in Cover + 1 .. Count /\ s \in 1 .. Len(bios) /\ j \in 0 .. Cells
        /\ i + 2 \in i + 2 .. e820_size - 1 /\ fs \in 1 .. Len(bios) /\ e820_size > i + 1
        /\ j # i + 2 => fs < s
    BY <1>2, Sizes
  <2>2. e820_map[j] = old /\ f = bios[fs]  BY <1>2, <2>1 DEF CutAt, f
  <2>3. f.BaseAddr \in Nat /\ f.Length \in Nat /\ Top(f) = f.BaseAddr + f.Length /\ f.Length < Wide
    BY <1>3, Fields
  <2>4. ResEnd <= Top(f)
    <3>1. ~(ResEnd > End(f))  BY <1>1, <2>1 DEF CoversNext, Following, f
    <3>2. End(f) = Top(f)  BY <1>2, <2>1, <2>2
    <3>3. QED  BY <3>1, <3>2, <2>3, Sizes
  <2>5. old \in Descriptor  BY <1>2, <2>1
  <2> HIDE DEF s, fs
  <2>6. CASE j = i + 2 /\ ResEnd > f.BaseAddr
    <3>1. new = Clipped(f) /\ old = f  BY <1>2, <1>7, <2>1, <2>2, <2>6 DEF f
    <3> DEFINE rest == f.Length - (ResEnd - f.BaseAddr)
    <3>2. rest \in Nat /\ rest < Wide /\ ResEnd + rest = Top(f)
      BY <2>3, <2>4, <2>6, Sizes
    <3>3. left = rest  BY <3>2, SmallRemainder, Sizes DEF left
    <3>4. Top(new) = ResEnd + left  BY <1>6, <3>1 DEF Top
    <3>5. new.BaseAddr = ResEnd /\ new.Type = old.Type  BY <1>6, <3>1
    <3> HIDE DEF rest, new, old
    <3>6. Top(new) = Top(old) /\ Top(new) >= ResEnd  BY <3>1, <3>2, <3>3, <3>4, <2>4
    <3>7. new.BaseAddr >= ResEnd /\ new.BaseAddr >= old.BaseAddr  BY <3>1, <3>5, <2>3, <2>6, Sizes
    <3>8. QED  BY <2>1, <3>5, <3>6, <3>7 DEF new, old, s
  <2>7. CASE ~(j = i + 2 /\ ResEnd > f.BaseAddr)
    <3>1. new = old
      <4>1. CASE j = i + 2  BY <1>7, <2>2, <2>7, <4>1
      <4>2. CASE j # i + 2  BY <1>9, <2>1, <2>2, <4>2
      <4>3. QED  BY <4>1, <4>2
    <3>2. old.BaseAddr \in Nat /\ Top(old) = old.BaseAddr + old.Length /\ old.Length \in Nat
      BY <2>5, Fields
    <3>3. old.BaseAddr >= ResEnd
      <4>1. CASE j = i + 2
        <5>1. old = f  BY <2>2, <4>1 DEF f
        <5>2. ~(ResEnd > f.BaseAddr)  BY <2>7, <4>1
        <5>3. QED  BY <5>1, <5>2, <2>3, Sizes
      <4>2. CASE j # i + 2
        <5>1. Top(f) <= old.BaseAddr  BY <1>2, <2>1, <2>2, <4>2
        <5>2. QED  BY <5>1, <2>3, <2>4, <3>2, Sizes
      <4>3. QED  BY <4>1, <4>2
    <3> HIDE DEF new, old
    <3>4. Top(old) >= ResEnd  BY <3>2, <3>3, Sizes
    <3>5. QED  BY <2>1, <3>1, <3>2, <3>3, <3>4, Sizes DEF new, old, s
  <2>8. QED  BY <2>6, <2>7
<1>12. QED  BY <1>8, <1>10, <1>11

\* The entry of the BIOS's map a counted entry comes from.
Source(size, j) == IF j <= Cover - 1 THEN j + 1 ELSE j + Removed(size)

\* What a usable entry has of the one it comes from: all of it clear of the area
\* and, if the area begins in it, before the area.
LEMMA ClippedEntry ==
  ASSUME TypeInv, RemoveInv, ClipsNext,
         NEW j \in 0 .. e820_size - 1, e820_map'[j].Type = Free
  PROVE  LET s == Source(e820_size, j)
             new == e820_map'[j]
         IN  /\ s \in 1 .. Count /\ bios[s].Type = Free /\ new \in Descriptor
             /\ Fits(new) /\ Top(new) <= Top(bios[s]) /\ new.BaseAddr >= bios[s].BaseAddr
             /\ Top(new) <= ResBase \/ (s # Cover /\ new.BaseAddr >= ResEnd)
             /\ j <= Cover - 1 <=> s <= Cover
<1>1. pc = "remove"  BY DEF ClipsNext
<1>2. /\ i \in Nat /\ i + 1 = Cover /\ i < Count /\ Count \in Nat /\ Count <= Len(bios)
      /\ Cover \in 1 .. Len(bios) /\ Len(bios) \in Nat /\ Count < Cells
      /\ e820_size \in i + 1 .. Count + 1 /\ bios \in BiosMaps
      /\ Removed(e820_size) \in 0 .. (Count + 1) - Cover
      /\ CutAt(e820_map, e820_size, i)
  BY <1>1, Cutting
<1>3. /\ \A k \in 1 .. Len(bios) : bios[k] \in Descriptor
      /\ \A k, n \in 1 .. Len(bios) : k < n => Top(bios[k]) <= bios[n].BaseAddr
      /\ \A k \in 1 .. Len(bios) : bios[k].Type = Free =>
           /\ Fits(bios[k])
           /\ bios[k].BaseAddr > ResBase =>
                ~(ResEnd <= Top(bios[k]) /\ Top(bios[k]) < ResEnd + HdrSize)
  BY <1>2, Entries
<1> DEFINE s == Source(e820_size, j)
           new == e820_map'[j]
<1>4. new \in Descriptor
  <2>1. j \in 0 .. Cells  BY <1>2, Sizes
  <2>2. QED  BY <2>1, Clips
<1>5. /\ bios[Cover].Type = Free /\ bios[Cover].BaseAddr + HdrSize <= ResBase
      /\ ResBase < Top(bios[Cover]) /\ bios[Cover].BaseAddr \in Nat /\ Top(bios[Cover]) \in Nat
  BY <1>2, <1>3, CoverIs, Fields DEF Cover
<1>6. CASE j < i
  <2>1. /\ s = j + 1 /\ s \in 1 .. Count /\ s \in 1 .. Len(bios) /\ s < Cover
        /\ j \in 0 .. i + 1 /\ j \in 0 .. i - 1
    BY <1>2, <1>6 DEF Source
  <2>2. new = bios[s]  BY <2>1, <1>2, Clips DEF CutAt
  <2>3. Top(bios[s]) <= bios[Cover].BaseAddr  BY <1>2, <1>3, <2>1
  <2>4. Top(new) \in Nat /\ new.BaseAddr \in Nat  BY <1>4, Fields
  <2>5. Fits(new) /\ bios[s].Type = Free  BY <1>3, <2>1, <2>2
  <2> HIDE DEF s, new
  <2>6. Top(new) <= ResBase  BY <1>5, <2>2, <2>3, <2>4, Sizes
  <2>7. Top(new) <= Top(bios[s]) /\ new.BaseAddr >= bios[s].BaseAddr  BY <2>2, <2>4
  <2>8. j <= Cover - 1 <=> s <= Cover  BY <1>2, <1>6, <2>1
  <2>9. QED  BY <1>4, <2>1, <2>5, <2>6, <2>7, <2>8 DEF s, new
<1>7. CASE j = i
  <2>1. s = Cover /\ s \in 1 .. Count /\ j \in 0 .. i + 1  BY <1>2, <1>7 DEF Source
  <2>2. new = CutEntry  BY <2>1, <1>2, <1>7, Clips DEF CutAt
  <2>3. /\ Top(new) = ResBase /\ new.BaseAddr = bios[Cover].BaseAddr /\ new.Length >= HdrSize
    BY <2>2, CutIs
  <2> HIDE DEF s, new
  <2>4. Fits(new)  BY <2>3, Sizes DEF Fits
  <2>5. Top(new) <= ResBase /\ Top(new) <= Top(bios[s]) /\ new.BaseAddr >= bios[s].BaseAddr
    BY <1>5, <2>1, <2>3, Sizes
  <2>6. j <= Cover - 1 <=> s <= Cover  BY <1>2, <1>7, <2>1
  <2>7. QED  BY <1>4, <1>5, <2>1, <2>4, <2>5, <2>6 DEF s, new
<1>8. CASE j = i + 1
  <2>1. j \in 0 .. i + 1  BY <1>2, <1>8
  <2>2. new = AreaEntry  BY <2>1, <1>2, <1>8, Clips DEF CutAt
  <2>3. QED  BY <2>2, AreaIs
<1>9. CASE j > i + 1
  <2>1. /\ j \in i + 2 .. e820_size - 1 /\ s = j + Removed(e820_size)
    BY <1>2, <1>9 DEF Source
  <2>2. /\ s \in Cover + 1 .. Count
        /\ new.Type = bios[s].Type /\ Top(new) = Top(bios[s])
        /\ new.BaseAddr >= ResEnd /\ new.BaseAddr >= bios[s].BaseAddr
        /\ new.BaseAddr = ResEnd \/ new = bios[s]
        /\ Top(new) >= ResEnd
    BY <2>1, Clips
  <2>3. s \in 1 .. Count /\ s \in 1 .. Len(bios) /\ s > Cover /\ s # Cover  BY <1>2, <2>2
  <2>4. Top(bios[Cover]) <= bios[s].BaseAddr /\ bios[s].BaseAddr \in Nat
    BY <1>2, <1>3, <2>3, Fields
  <2>5. /\ new.BaseAddr \in Nat /\ new.Length \in Nat /\ Top(new) = new.BaseAddr + new.Length
    BY <1>4, Fields
  <2>6. Fits(bios[s]) /\ ~(ResEnd <= Top(bios[s]) /\ Top(bios[s]) < ResEnd + HdrSize)
    <3>1. bios[s].BaseAddr > ResBase  BY <1>5, <2>4, Sizes
    <3>2. QED  BY <1>3, <2>2, <2>3, <3>1
  <2> HIDE DEF s, new
  <2>7. Fits(new)
    <3>1. CASE new = bios[s]  BY <2>6, <3>1
    <3>2. CASE new.BaseAddr = ResEnd
      <4>1. Top(new) >= ResEnd + HdrSize  BY <2>2, <2>5, <2>6, Sizes
      <4>2. new.Length >= HdrSize  BY <2>5, <3>2, <4>1, Sizes
      <4>3. bios[s].BaseAddr # Narrow  BY <2>2, <2>4, <3>2, Sizes
      <4>4. Top(bios[s]) < Narrow  BY <2>6, <4>3 DEF Fits
      <4>5. QED  BY <2>2, <4>2, <4>4 DEF Fits
    <3>3. QED  BY <2>2, <3>1, <3>2
  <2>8. Top(new) <= Top(bios[s])  BY <2>2, <2>5
  <2>9. j <= Cover - 1 <=> s <= Cover  BY <1>2, <1>9, <2>3
  <2>10. bios[s].Type = Free  BY <2>2 DEF new
  <2>11. QED  BY <1>4, <2>2, <2>3, <2>7, <2>8, <2>9, <2>10 DEF s, new
<1>10. j < i \/ j = i \/ j = i + 1 \/ j > i + 1  BY <1>2
<1>11. QED  BY <1>6, <1>7, <1>8, <1>9, <1>10

\* Entries of the BIOS's map share no byte.
LEMMA Apart ==
  ASSUME NEW b \in BiosMaps, NEW j \in 1 .. Len(b), NEW k \in 1 .. Len(b), NEW a,
         a \in Bytes(b[j]), a \in Bytes(b[k])
  PROVE  j = k
<1>1. /\ b[j] \in Descriptor /\ b[k] \in Descriptor /\ Len(b) \in Nat
      /\ j < k => Top(b[j]) <= b[k].BaseAddr
      /\ k < j => Top(b[k]) <= b[j].BaseAddr
  BY Entries
<1>2. /\ a \in Nat /\ b[j].BaseAddr <= a /\ a < Top(b[j]) /\ b[k].BaseAddr <= a /\ a < Top(b[k])
  BY <1>1, InBytes
<1>3. /\ Top(b[j]) \in Nat /\ Top(b[k]) \in Nat /\ b[j].BaseAddr \in Nat /\ b[k].BaseAddr \in Nat
  BY <1>1, Fields
<1>4. ~(j < k) /\ ~(k < j)  BY <1>1, <1>2, <1>3
<1>5. QED  BY <1>1, <1>4

\* Nothing usable is lost but what the entry the area begins in had behind it.
LEMMA ClipLoses ==
  ASSUME TypeInv, RemoveInv, ClipsNext,
         NEW s \in 1 .. Count, bios[s].Type = Free,
         NEW a \in Bytes(bios[s]), a \notin ResBase .. ResEnd - 1, ~(s = Cover /\ a >= ResEnd)
  PROVE  \E j \in 0 .. e820_size - 1 : e820_map'[j].Type = Free /\ a \in Bytes(e820_map'[j])
<1>1. pc = "remove"  BY DEF ClipsNext
<1>2. /\ i \in Nat /\ i + 1 = Cover /\ i < Count /\ Count \in Nat /\ Count <= Len(bios)
      /\ Cover \in 1 .. Len(bios) /\ Len(bios) \in Nat /\ Count < Cells
      /\ e820_size \in i + 1 .. Count + 1 /\ bios \in BiosMaps
      /\ Removed(e820_size) = (Count + 1) - e820_size
      /\ Removed(e820_size) \in 0 .. (Count + 1) - Cover
      /\ CutAt(e820_map, e820_size, i)
      /\ \A k \in 1 .. Len(bios) : bios[k] \in Descriptor
      /\ \A k, n \in 1 .. Len(bios) : k < n => Top(bios[k]) <= bios[n].BaseAddr
  BY <1>1, Cutting
<1>3. s \in 1 .. Len(bios) /\ bios[s] \in Descriptor  BY <1>2
<1>4. /\ a \in Nat /\ bios[s].BaseAddr <= a /\ a < Top(bios[s])
      /\ Top(bios[s]) \in Nat /\ bios[s].BaseAddr \in Nat
  BY <1>3, InBytes, Fields
<1>5. a < ResBase \/ a >= ResEnd  BY <1>4, Sizes
<1>6. CASE s < Cover
  <2>1. s - 1 \in 0 .. i - 1 /\ s - 1 \in 0 .. i + 1 /\ s - 1 \in 0 .. e820_size - 1 /\ (s - 1) + 1 = s
    BY <1>2, <1>6
  <2>2. e820_map'[s - 1] = bios[s]  BY <1>2, <2>1, Clips DEF CutAt
  <2>3. QED  BY <2>1, <2>2
<1>7. CASE s = Cover
  <2>1. a < ResBase  BY <1>5, <1>7
  <2>2. i \in 0 .. i + 1 /\ i \in 0 .. e820_size - 1  BY <1>2
  <2>3. e820_map'[i] = CutEntry  BY <1>2, <2>2, Clips DEF CutAt
  <2>4. /\ CutEntry \in Descriptor /\ CutEntry.Type = Free /\ Top(CutEntry) = ResBase
        /\ CutEntry.BaseAddr = bios[s].BaseAddr
    BY <1>7, CutIs
  <2>5. a \in Bytes(CutEntry)  BY <1>4, <2>1, <2>4, InBytes
  <2>6. QED  BY <2>2, <2>3, <2>4, <2>5
<1>8. CASE s > Cover
  <2>1. Top(bios[Cover]) <= bios[s].BaseAddr /\ ResBase < Top(bios[Cover])
    BY <1>2, <1>3, <1>8, CoverIs DEF Cover
  <2>2. Top(bios[Cover]) \in Nat  BY <1>2, Fields
  <2>3. a >= ResEnd  BY <1>4, <1>5, <2>1, <2>2, Sizes
  <2>4. ~(s <= Cover + Removed(e820_size))
    <3>1. ~(Top(bios[s]) < ResEnd)  BY <1>4, <2>3, Sizes
    <3>2. s \in Cover + 1 .. Count  BY <1>2, <1>8
    <3>3. QED  BY <1>1, <3>1, <3>2 DEF RemoveInv
  <2> DEFINE j == s - Removed(e820_size)
  <2>5. /\ j \in i + 2 .. e820_size - 1 /\ j + Removed(e820_size) = s /\ j \in 0 .. e820_size - 1
        /\ j \in 0 .. Cells
    BY <1>2, <2>4, Sizes
  <2> HIDE DEF j
  <2>6. /\ e820_map'[j].Type = Free /\ Top(e820_map'[j]) = Top(bios[s])
        /\ e820_map'[j].BaseAddr = ResEnd \/ e820_map'[j] = bios[s]
        /\ e820_map'[j] \in Descriptor
    BY <2>5, Clips
  <2>7. e820_map'[j].BaseAddr <= a  BY <1>4, <2>3, <2>6
  <2>8. a \in Bytes(e820_map'[j])  BY <1>4, <2>6, <2>7, InBytes
  <2>9. QED  BY <2>5, <2>6, <2>8
<1>9. QED  BY <1>2, <1>6, <1>7, <1>8

LEMMA ClipKeeps == ASSUME IInv, ClipsNext PROVE IInv'
<1>1. /\ TypeInv /\ RemoveInv /\ pc = "remove" /\ pc' = "init" /\ i' = 0
      /\ UNCHANGED <<bios, carry, e820_size, allocVars>>
  BY DEF IInv, ClipsNext
<1>2. /\ i \in Nat /\ i + 1 = Cover /\ i < Count /\ Count \in Nat /\ Count <= Len(bios)
      /\ Cover \in 1 .. Len(bios) /\ Len(bios) \in Nat /\ Count < Cells
      /\ e820_size \in i + 1 .. Count + 1 /\ bios \in BiosMaps
      /\ Removed(e820_size) \in 0 .. (Count + 1) - Cover /\ Counted = 1 .. Count
      /\ \A k \in 1 .. Len(bios) : bios[k] \in Descriptor
      /\ \A k, n \in 1 .. Len(bios) : k < n => Top(bios[k]) <= bios[n].BaseAddr
  BY <1>1, Cutting
<1> DEFINE new == e820_map'
           size == e820_size
<1>3. TypeInv'
  <2>1. i' \in 0 .. Cells /\ e820_map' \in [0 .. Cells -> Descriptor]
    BY <1>1, Clips, Sizes
  <2>2. QED  BY <1>1, <2>1 DEF TypeInv, TypeOK, allocVars
<1>4. MapInv'
  <2>1. i' <= e820_size'  BY <1>1, <1>2
  <2>2. \A j \in 0 .. size - 1 : new[j].Type = Free => Fits(new[j])  BY <1>1, ClippedEntry
  <2>3. ASSUME NEW j \in 0 .. size - 1, NEW k \in 0 .. size - 1,
               j < k, new[j].Type = Free, new[k].Type = Free
        PROVE  Top(new[j]) <= new[k].BaseAddr
    <3> DEFINE sj == Source(size, j)
               sk == Source(size, k)
    <3>1. /\ sj \in 1 .. Count /\ Top(new[j]) <= Top(bios[sj]) /\ new[j] \in Descriptor
          /\ sk \in 1 .. Count /\ new[k].BaseAddr >= bios[sk].BaseAddr /\ new[k] \in Descriptor
          /\ (j <= Cover - 1 <=> sj <= Cover) /\ (k <= Cover - 1 <=> sk <= Cover)
      BY <1>1, <2>3, ClippedEntry
    <3>2. sj < sk
      <4>1. /\ Cover \in Nat /\ Removed(size) \in Nat /\ j \in Nat /\ k \in Nat /\ j < k
            /\ sj \in Nat /\ sk \in Nat
        BY <1>2, <2>3, <3>1
      <4>2. /\ sj = IF j <= Cover - 1 THEN j + 1 ELSE j + Removed(size)
            /\ sk = IF k <= Cover - 1 THEN k + 1 ELSE k + Removed(size)
        BY DEF Source
      <4> HIDE DEF sj, sk
      <4>3. QED  BY <3>1, <4>1, <4>2
    <3> HIDE DEF sj, sk
    <3>3. sj \in 1 .. Len(bios) /\ sk \in 1 .. Len(bios)  BY <1>2, <3>1
    <3>4. Top(bios[sj]) <= bios[sk].BaseAddr  BY <1>2, <3>2, <3>3
    <3>5. /\ Top(new[j]) \in Nat /\ Top(bios[sj]) \in Nat
          /\ new[k].BaseAddr \in Nat /\ bios[sk].BaseAddr \in Nat
      BY <1>2, <3>1, <3>3, Fields
    <3>6. QED  BY <3>1, <3>4, <3>5
  <2>4. QED  BY <1>1, <2>1, <2>2, <2>3 DEF MapInv
<1>5. MapExact'
  <2> DEFINE area == ResBase .. ResEnd - 1
             tail == {a \in Bytes(bios[Cover]) : a >= ResEnd}
             gone == IF Cover \in Counted THEN tail ELSE {}
             now == Usable(new, 0 .. size - 1)
             was == Usable(bios, Counted)
  <2>1. gone = tail  BY <1>2
  <2>2. ASSUME NEW a \in now PROVE a \in was \ (area \cup gone)
    <3>1. PICK j \in 0 .. size - 1 : new[j].Type = Free /\ a \in Bytes(new[j])
      BY <2>2, InUsable
    <3> DEFINE s == Source(size, j)
    <3>2. /\ s \in 1 .. Count /\ bios[s].Type = Free /\ new[j] \in Descriptor
          /\ Top(new[j]) <= Top(bios[s]) /\ new[j].BaseAddr >= bios[s].BaseAddr
          /\ Top(new[j]) <= ResBase \/ (s # Cover /\ new[j].BaseAddr >= ResEnd)
      BY <1>1, <3>1, ClippedEntry
    <3> HIDE DEF s
    <3>3. s \in 1 .. Len(bios) /\ bios[s] \in Descriptor  BY <1>2, <3>2
    <3>4. a \in Nat /\ new[j].BaseAddr <= a /\ a < Top(new[j])  BY <3>1, <3>2, InBytes
    <3>5. /\ Top(new[j]) \in Nat /\ Top(bios[s]) \in Nat
          /\ new[j].BaseAddr \in Nat /\ bios[s].BaseAddr \in Nat
      BY <3>2, <3>3, Fields
    <3>6. a \in Bytes(bios[s])  BY <3>2, <3>3, <3>4, <3>5, InBytes
    <3>7. a \in was  BY <1>2, <3>2, <3>6, InUsable
    <3>8. a \notin area /\ (a < ResBase \/ s # Cover)  BY <3>2, <3>4, <3>5, Sizes
    <3>9. a \notin tail
      <4>1. SUFFICES ASSUME a \in tail PROVE FALSE  OBVIOUS
      <4>2. a \in Bytes(bios[Cover]) /\ a >= ResEnd  BY <4>1
      <4>3. s = Cover  BY <1>2, <3>3, <3>6, <4>2, Apart
      <4>4. QED  BY <3>4, <3>8, <4>2, <4>3, Sizes
    <3>10. QED  BY <2>1, <3>7, <3>8, <3>9
  <2>3. ASSUME NEW a \in was \ (area \cup gone) PROVE a \in now
    <3>1. PICK s \in Counted : bios[s].Type = Free /\ a \in Bytes(bios[s])  BY <2>3, InUsable
    <3>2. s \in 1 .. Count  BY <1>2
    <3>3. a \notin area /\ a \notin tail  BY <2>1, <2>3
    <3>4. ~(s = Cover /\ a >= ResEnd)  BY <3>1, <3>3
    <3>5. \E j \in 0 .. size - 1 : new[j].Type = Free /\ a \in Bytes(new[j])
      BY <1>1, <3>1, <3>2, <3>3, <3>4, ClipLoses
    <3>6. QED  BY <3>5, InUsable
  <2>4. now = was \ (area \cup gone)  BY <2>2, <2>3
  <2>5. Usable(e820_map, 0 .. e820_size - 1)' = now  BY <1>1 DEF Usable
  <2>6. was' = was /\ gone' = gone  BY <1>1 DEF Usable, Counted, Cover
  <2>7. QED  BY <2>4, <2>5, <2>6 DEF MapExact, Cover
<1>6. FillInv' /\ SearchInv' /\ RemoveInv'  BY <1>1 DEF FillInv, SearchInv, RemoveInv
<1>7. HdrInv' /\ LinkInv'  BY <1>1, AllocsKept DEF IInv
<1>8. QED  BY <1>3, <1>4, <1>5, <1>6, <1>7 DEF IInv

-----------------------------------------------------------------------------
(* The loop of memory_init.                                                 *)

SizeAt(h, p, size) == [h EXCEPT ![p].Reserved = 0, ![p].Size = size]
NextAt(h, c, n) == [h EXCEPT ![c].NextAlloc = n, ![c].PreviousAlloc = c]

LEMMA SizeSet ==
  ASSUME NEW h \in [0 .. Narrow - 1 -> Header], NEW p \in 0 .. Narrow - 1,
         NEW size \in 0 .. Wide - 1
  PROVE  /\ SizeAt(h, p, size) \in [0 .. Narrow - 1 -> Header]
         /\ SizeAt(h, p, size)[p].Size = size
         /\ SizeAt(h, p, size)[p].NextAlloc = h[p].NextAlloc
         /\ \A q \in 0 .. Narrow - 1 : q # p => SizeAt(h, p, size)[q] = h[q]
<1> DEFINE r == [h[p] EXCEPT !.Reserved = 0, !.Size = size]
<1>1. r \in Header /\ r.Size = size /\ r.NextAlloc = h[p].NextAlloc
  <2>1. PICK x \in Header : x = h[p]  OBVIOUS
  <2>2. [x EXCEPT !.Reserved = 0, !.Size = size] \in Header  BY DEF Header
  <2>3. /\ [x EXCEPT !.Reserved = 0, !.Size = size].Size = size
        /\ [x EXCEPT !.Reserved = 0, !.Size = size].NextAlloc = x.NextAlloc
    BY DEF Header
  <2>4. QED  BY <2>1, <2>2, <2>3
<1>2. SizeAt(h, p, size) = [h EXCEPT ![p] = r]  BY DEF SizeAt
<1> HIDE DEF r
<1>3. QED  BY <1>1, <1>2

LEMMA NextSet ==
  ASSUME NEW h \in [0 .. Narrow - 1 -> Header], NEW c \in 0 .. Narrow - 1,
         NEW n \in 0 .. Narrow - 1
  PROVE  /\ NextAt(h, c, n) \in [0 .. Narrow - 1 -> Header]
         /\ NextAt(h, c, n)[c].Size = h[c].Size /\ NextAt(h, c, n)[c].NextAlloc = n
         /\ \A q \in 0 .. Narrow - 1 : q # c => NextAt(h, c, n)[q] = h[q]
<1> DEFINE r == [h[c] EXCEPT !.NextAlloc = n, !.PreviousAlloc = c]
<1>1. r \in Header /\ r.Size = h[c].Size /\ r.NextAlloc = n
  <2>1. PICK x \in Header : x = h[c]  OBVIOUS
  <2>2. [x EXCEPT !.NextAlloc = n, !.PreviousAlloc = c] \in Header  BY DEF Header
  <2>3. /\ [x EXCEPT !.NextAlloc = n, !.PreviousAlloc = c].Size = x.Size
        /\ [x EXCEPT !.NextAlloc = n, !.PreviousAlloc = c].NextAlloc = n
    BY DEF Header
  <2>4. QED  BY <2>1, <2>2, <2>3
<1>2. NextAt(h, c, n) = [h EXCEPT ![c] = r]  BY DEF NextAt
<1> HIDE DEF r
<1>3. QED  BY <1>1, <1>2

LEMMA NextCleared ==
  ASSUME NEW h \in [0 .. Narrow - 1 -> Header], NEW p \in 0 .. Narrow - 1
  PROVE  LET new == [h EXCEPT ![p].NextAlloc = NULL]
         IN  new \in [0 .. Narrow - 1 -> Header] /\ new[p].NextAlloc = NULL
<1>1. 0 \in 0 .. Narrow - 1  BY Sizes
<1>2. QED  BY <1>1 DEF Header, NULL

\* The pointer to a usable region is its address, or NULL for one at 0 or 2^32.
LEMMA RegionIs ==
  ASSUME TypeInv, MapInv, pc = "init", i < e820_size, Region.Type = Free
  PROVE  /\ Pointer(Region) \in 0 .. Narrow - 1
         /\ Low(i) => Pointer(Region) = Region.BaseAddr
         /\ Low(i) <=> Pointer(Region) # NULL
         /\ (Region.Length - HdrSize) % Wide = Region.Length - HdrSize
         /\ Region.Length - HdrSize \in 0 .. Wide - 1
<1>1. /\ i \in 0 .. e820_size - 1 /\ i \in 0 .. Cells
      /\ e820_map \in [0 .. Cells -> Descriptor]
  BY DEF TypeInv, TypeOK
<1>2. Region \in Descriptor /\ Fits(Region)  BY <1>1 DEF Region, MapInv
<1> DEFINE base == Region.BaseAddr
           len == Region.Length
<1>3. /\ base \in Nat /\ len \in Nat /\ len < Wide /\ Top(Region) = base + len
      /\ len >= HdrSize /\ (Top(Region) < Narrow \/ base = Narrow)
  BY <1>2, Fields DEF Fits
<1>4. Low(i) <=> base \in 1 .. Narrow - 1  BY DEF Low, Region
<1>5. Pointer(Region) = base % Narrow  BY DEF Pointer
<1> HIDE DEF base, len
<1>6. CASE base < Narrow
  <2>1. base % Narrow = base  BY <1>3, <1>6, SmallRemainder, Sizes
  <2>2. Low(i) <=> base # 0  BY <1>3, <1>4, <1>6, Sizes
  <2>3. Pointer(Region) \in 0 .. Narrow - 1  BY <1>3, <1>5, <1>6, <2>1, Sizes
  <2>4. len - HdrSize \in Nat /\ len - HdrSize < Wide  BY <1>3, Sizes
  <2>5. (len - HdrSize) % Wide = len - HdrSize  BY <2>4, SmallRemainder, Sizes
  <2>6. QED  BY <1>5, <2>1, <2>2, <2>3, <2>4, <2>5, Sizes DEF base, len, NULL
<1>7. CASE ~(base < Narrow)
  <2>1. base = Narrow  BY <1>3, <1>7, Sizes
  <2>2. Pointer(Region) = 0  BY <1>5, <2>1, Sizes
  <2>3. ~Low(i)  BY <1>4, <2>1, Sizes
  <2>4. len - HdrSize \in Nat /\ len - HdrSize < Wide  BY <1>3, Sizes
  <2>5. (len - HdrSize) % Wide = len - HdrSize  BY <2>4, SmallRemainder, Sizes
  <2>6. QED  BY <2>2, <2>3, <2>4, <2>5, Sizes DEF base, len, NULL
<1>8. QED  BY <1>6, <1>7

\* The array stays as it is.
LEMMA MapKept ==
  ASSUME IInv, pc = "init", i < e820_size, i' = i + 1,
         UNCHANGED <<bios, carry, e820_map, e820_size, pc>>,
         currentAlloc' \in 0 .. Narrow - 1, first' \in 0 .. Narrow - 1
  PROVE  /\ TypeInv' /\ FillInv' /\ SearchInv' /\ RemoveInv' /\ MapInv' /\ MapExact'
<1>1. /\ TypeInv /\ MapInv /\ MapExact /\ i \in 0 .. Cells /\ e820_size \in 0 .. Cells
  BY DEF IInv, TypeInv, TypeOK
<1>2. i' \in 0 .. Cells /\ i' <= e820_size'
  <2>1. e820_size' = e820_size  OBVIOUS
  <2>2. QED  BY <1>1, <2>1, Sizes
<1>3. TypeInv'  BY <1>1, <1>2 DEF TypeInv, TypeOK
<1>4. MapInv'  BY <1>1, <1>2 DEF MapInv
<1>5. MapExact'
  <2> DEFINE tail == {a \in Bytes(bios[Covering(bios)]) : a >= ResEnd}
             gone == IF Covering(bios) \in Counted THEN tail ELSE {}
  <2>1. Usable(e820_map, 0 .. e820_size - 1) =
          Usable(bios, Counted) \ (ResBase .. ResEnd - 1 \cup gone)
    BY <1>1 DEF MapExact
  <2>2. Counted' = Counted /\ gone' = gone  BY DEF Counted
  <2>3. Usable(e820_map, 0 .. e820_size - 1)' = Usable(e820_map, 0 .. e820_size - 1)
    BY DEF Usable
  <2>4. Usable(bios, Counted)' = Usable(bios, Counted)  BY <2>2 DEF Usable
  <2> HIDE DEF gone
  <2>5. Usable(e820_map, 0 .. e820_size - 1)' =
          Usable(bios, Counted)' \ (ResBase .. ResEnd - 1 \cup gone')
    BY <2>1, <2>2, <2>3, <2>4
  <2>6. QED  BY <2>5 DEF MapExact, gone
<1>6. QED  BY <1>3, <1>4, <1>5 DEF FillInv, SearchInv, RemoveInv

LEMMA FirstKeeps == ASSUME IInv, FirstRegion PROVE IInv'
<1>1. /\ TypeInv /\ MapInv /\ pc = "init" /\ i < e820_size /\ Region.Type = Free
      /\ currentAlloc = NULL /\ i' = i + 1 /\ first' = Pointer(Region) /\ currentAlloc' = first'
      /\ UNCHANGED <<bios, carry, e820_map, e820_size, pc>>
      /\ hdr \in [0 .. Narrow - 1 -> Header] /\ i \in Nat
  BY DEF IInv, FirstRegion, HdrInv, TypeInv, TypeOK
<1> DEFINE p == Pointer(Region)
           size == (Region.Length - HdrSize) % Wide
           h == [hdr EXCEPT ![p].NextAlloc = NULL]
<1>2. /\ p \in 0 .. Narrow - 1 /\ (Low(i) => p = Region.BaseAddr) /\ (Low(i) <=> p # NULL)
      /\ size = Region.Length - HdrSize /\ size \in 0 .. Wide - 1
  BY <1>1, RegionIs
<1>3. hdr' = SizeAt(h, p, size)  BY DEF FirstRegion, WithSize, SizeAt
<1>4. h \in [0 .. Narrow - 1 -> Header] /\ h[p].NextAlloc = NULL  BY <1>1, <1>2, NextCleared
<1> HIDE DEF p, size, h
<1>5. /\ hdr' \in [0 .. Narrow - 1 -> Header] /\ hdr'[p].Size = size /\ hdr'[p].NextAlloc = NULL
  BY <1>2, <1>3, <1>4, SizeSet
<1>6. /\ TypeInv' /\ FillInv' /\ SearchInv' /\ RemoveInv' /\ MapInv' /\ MapExact'
  BY <1>1, <1>2, MapKept DEF p
<1>7. first = NULL /\ \A j \in 0 .. i - 1 : ~Low(j)
  <2>1. first = NULL  BY <1>1 DEF IInv, LinkInv
  <2>2. QED  BY <1>1, <2>1 DEF IInv, LinkInv
<1>8. LinkInv'
  <2>1. CASE p = NULL
    <3>1. \A j \in 0 .. i : ~Low(j)  BY <1>1, <1>2, <1>7, <2>1
    <3>2. \A j \in 0 .. i' - 1 : ~Low(j)'  BY <1>1, <3>1 DEF Low
    <3>3. QED  BY <1>1, <2>1, <3>2 DEF LinkInv, p
  <2>2. CASE p # NULL
    <3>1. PICK n \in Nat : n = i  BY <1>1
    <3>2. first' = e820_map'[n].BaseAddr /\ Low(n)'
      BY <1>1, <1>2, <2>2, <3>1 DEF p, Low, Region
    <3>3. \A k \in 0 .. n - 1 : ~Low(k)'  BY <1>1, <1>7, <3>1 DEF Low
    <3>4. hdr'[first'].Size = e820_map'[n].Length - HdrSize /\ hdr'[first'].NextAlloc = NULL
      BY <1>1, <1>2, <1>5, <3>1 DEF p, size, Region
    <3>5. n \in 0 .. i' - 1  BY <1>1, <3>1
    <3>6. FirstIs(n)'  BY <3>2, <3>3, <3>4 DEF FirstIs
    <3>7. \E j \in 0 .. i' - 1 : FirstIs(j)'  BY <3>5, <3>6
    <3>8. QED  BY <1>1, <2>2, <3>7 DEF LinkInv, p
  <2>3. QED  BY <2>1, <2>2
<1>9. QED  BY <1>5, <1>6, <1>8 DEF IInv, HdrInv

LEMMA NextKeeps == ASSUME IInv, NextRegion PROVE IInv'
<1>1. /\ TypeInv /\ MapInv /\ pc = "init" /\ i < e820_size /\ Region.Type = Free
      /\ currentAlloc # NULL /\ i' = i + 1 /\ currentAlloc' = first
      /\ UNCHANGED <<bios, carry, e820_map, e820_size, pc, first>>
      /\ hdr \in [0 .. Narrow - 1 -> Header] /\ i \in Nat
      /\ currentAlloc = first /\ first \in 0 .. Narrow - 1
  BY DEF IInv, NextRegion, HdrInv, TypeInv, TypeOK, LinkInv
<1>2. PICK n \in 0 .. i - 1 : FirstIs(n)  BY <1>1 DEF IInv, LinkInv
<1> DEFINE p == Pointer(Region)
           size == (Region.Length - HdrSize) % Wide
           h == NextAt(hdr, first, p)
<1>3. /\ p \in 0 .. Narrow - 1 /\ (Low(i) => p = Region.BaseAddr) /\ (Low(i) <=> p # NULL)
      /\ size = Region.Length - HdrSize /\ size \in 0 .. Wide - 1
  BY <1>1, RegionIs
<1>4. hdr' = SizeAt(h, p, size)  BY <1>1 DEF NextRegion, WithSize, SizeAt, NextAt
<1>5. /\ h \in [0 .. Narrow - 1 -> Header]
      /\ h[first].Size = hdr[first].Size /\ h[first].NextAlloc = p
  <2>1. hdr \in [0 .. Narrow - 1 -> Header] /\ first \in 0 .. Narrow - 1 /\ p \in 0 .. Narrow - 1
    BY <1>1, <1>3
  <2> HIDE DEF p
  <2>2. NextAt(hdr, first, p) \in [0 .. Narrow - 1 -> Header]  BY <2>1, NextSet, ZenonT(40)
  <2>3. NextAt(hdr, first, p)[first].Size = hdr[first].Size  BY <2>1, NextSet, ZenonT(40)
  <2>4. NextAt(hdr, first, p)[first].NextAlloc = p  BY <2>1, NextSet, ZenonT(40)
  <2>5. QED  BY <2>2, <2>3, <2>4
<1> HIDE DEF p, size, h
<1>6. p # first
  <2>1. CASE p = NULL  BY <1>1, <2>1
  <2>2. CASE p # NULL
    <3>1. Low(i) /\ p = e820_map[i].BaseAddr  BY <1>3, <2>2 DEF Region
    <3>2. Low(n) /\ first = e820_map[n].BaseAddr  BY <1>2 DEF FirstIs
    <3>3. n \in 0 .. e820_size - 1 /\ i \in 0 .. e820_size - 1 /\ n < i /\ n \in 0 .. Cells
      <4>1. e820_size \in 0 .. Cells  BY <1>1 DEF TypeInv, TypeOK
      <4>2. i \in Nat /\ i < e820_size  BY <1>1
      <4>3. QED  BY <4>1, <4>2, Sizes
    <3>4. Top(e820_map[n]) <= e820_map[i].BaseAddr /\ e820_map[n].Length >= HdrSize
      BY <1>1, <3>1, <3>2, <3>3 DEF MapInv, Low, Fits
    <3>5. e820_map[n] \in Descriptor  BY <1>1, <3>3 DEF TypeInv, TypeOK
    <3>6. Top(e820_map[n]) = first + e820_map[n].Length /\ e820_map[n].Length \in Nat
      BY <3>2, <3>5, Fields
    <3>7. QED  BY <1>1, <1>3, <3>1, <3>4, <3>6, Sizes
  <2>3. QED  BY <2>1, <2>2
<1>7. /\ hdr' \in [0 .. Narrow - 1 -> Header]
      /\ hdr'[first].Size = hdr[first].Size /\ hdr'[first].NextAlloc = p
  <2>1. hdr' \in [0 .. Narrow - 1 -> Header] /\ hdr'[first] = h[first]
    <3>1. hdr' \in [0 .. Narrow - 1 -> Header]  BY <1>3, <1>4, <1>5, SizeSet
    <3>2. first \in 0 .. Narrow - 1  BY <1>1
    <3>3. \A q \in 0 .. Narrow - 1 : q # p => hdr'[q] = h[q]
      <4>1. h \in [0 .. Narrow - 1 -> Header] /\ p \in 0 .. Narrow - 1 /\ size \in 0 .. Wide - 1
        BY <1>3, <1>5
      <4>2. \A q \in 0 .. Narrow - 1 : q # p => SizeAt(h, p, size)[q] = h[q]
        BY <4>1, SizeSet, Zenon
      <4>3. QED  BY <1>4, <4>2
    <3>4. QED  BY <1>6, <3>1, <3>2, <3>3
  <2>2. QED  BY <1>5, <2>1
<1>8. /\ TypeInv' /\ FillInv' /\ SearchInv' /\ RemoveInv' /\ MapInv' /\ MapExact'
  BY <1>1, MapKept
<1>9. LinkInv'
  <2>1. first' = e820_map'[n].BaseAddr /\ Low(n)' /\ \A k \in 0 .. n - 1 : ~Low(k)'
    BY <1>1, <1>2 DEF FirstIs, Low
  <2>2. hdr'[first'].Size = e820_map'[n].Length - HdrSize  BY <1>1, <1>2, <1>7 DEF FirstIs
  <2>3. ASSUME p # NULL
        PROVE  \E k \in n + 1 .. i' - 1 : Low(k)' /\ hdr'[first'].NextAlloc = e820_map'[k].BaseAddr
    <3>1. PICK k \in Nat : k = i  BY <1>1
    <3>2. k \in n + 1 .. i' - 1  BY <1>1, <3>1
    <3>3. Low(k)' /\ p = e820_map'[k].BaseAddr  BY <1>1, <1>3, <2>3, <3>1 DEF Low, Region
    <3>4. hdr'[first'].NextAlloc = p  BY <1>1, <1>7
    <3>5. QED  BY <3>2, <3>3, <3>4
  <2>4. hdr'[first'].NextAlloc # NULL =>
          \E k \in n + 1 .. i' - 1 : Low(k)' /\ hdr'[first'].NextAlloc = e820_map'[k].BaseAddr
    BY <1>1, <1>7, <2>3
  <2>5. FirstIs(n)'  BY <2>1, <2>2, <2>4 DEF FirstIs
  <2>6. n \in 0 .. i' - 1  BY <1>1
  <2>7. \E j \in 0 .. i' - 1 : FirstIs(j)'  BY <2>5, <2>6
  <2>8. QED  BY <1>1, <2>7 DEF LinkInv
<1>10. QED  BY <1>7, <1>8, <1>9 DEF IInv, HdrInv

LEMMA ReservedKeeps == ASSUME IInv, ReservedRegion PROVE IInv'
<1>1. /\ TypeInv /\ MapInv /\ pc = "init" /\ i < e820_size /\ Region.Type # Free
      /\ i' = i + 1 /\ currentAlloc' = first
      /\ UNCHANGED <<bios, carry, e820_map, e820_size, pc, hdr, first>>
      /\ HdrInv /\ i \in Nat /\ first \in 0 .. Narrow - 1
  BY DEF IInv, ReservedRegion, TypeInv, TypeOK
<1>2. HdrInv'  BY <1>1 DEF HdrInv
<1>3. /\ TypeInv' /\ FillInv' /\ SearchInv' /\ RemoveInv' /\ MapInv' /\ MapExact'
  BY <1>1, MapKept
<1>4. LinkInv'
  <2>1. CASE first = NULL
    <3>1. \A j \in 0 .. i - 1 : ~Low(j)  BY <1>1, <2>1 DEF IInv, LinkInv
    <3>2. ~Low(i)  BY <1>1 DEF Low, Region
    <3>3. \A j \in 0 .. i : ~Low(j)  BY <1>1, <3>1, <3>2
    <3>4. \A j \in 0 .. i' - 1 : ~Low(j)'  BY <1>1, <3>3 DEF Low
    <3>5. QED  BY <1>1, <2>1, <3>4 DEF LinkInv
  <2>2. CASE first # NULL
    <3>1. PICK n \in 0 .. i - 1 : FirstIs(n)  BY <1>1, <2>2 DEF IInv, LinkInv
    <3>2. n \in 0 .. i' - 1 /\ \A k \in n + 1 .. i - 1 : k \in n + 1 .. i' - 1  BY <1>1
    <3>3. FirstIs(n)'  BY <1>1, <3>1, <3>2 DEF FirstIs, Low
    <3>4. \E j \in 0 .. i' - 1 : FirstIs(j)'  BY <3>2, <3>3
    <3>5. QED  BY <1>1, <2>2, <3>4 DEF LinkInv
  <2>3. QED  BY <2>1, <2>2
<1>5. QED  BY <1>2, <1>3, <1>4 DEF IInv

LEMMA FinishKeeps == ASSUME IInv, Finishes PROVE IInv'
<1>1. /\ TypeInv /\ MapInv /\ MapExact /\ HdrInv /\ LinkInv /\ pc = "init" /\ pc' = "done"
      /\ UNCHANGED <<bios, carry, e820_map, e820_size, i, allocVars>>
  BY DEF IInv, Finishes
<1>2. i = e820_size
  <2>1. i >= e820_size  BY DEF Finishes
  <2>2. i <= e820_size  BY <1>1 DEF MapInv
  <2>3. i \in Nat /\ e820_size \in Nat  BY <1>1 DEF TypeInv, TypeOK
  <2>4. QED  BY <2>1, <2>2, <2>3
<1>3. TypeInv' /\ HdrInv'  BY <1>1 DEF TypeInv, TypeOK, HdrInv, allocVars
<1>4. MapInv'  BY <1>1 DEF MapInv
<1>5. MapExact'  BY <1>1 DEF MapExact, Usable, Counted
<1>6. LinkInv'
  <2>1. \A j \in 0 .. i - 1 : FirstIs(j) => FirstIs(j)'  BY <1>1 DEF FirstIs, Low, allocVars
  <2>2. \A j \in 0 .. i - 1 : ~Low(j) => ~Low(j)'  BY <1>1 DEF Low
  <2>3. IF first = NULL THEN \A j \in 0 .. i - 1 : ~Low(j) ELSE \E j \in 0 .. i - 1 : FirstIs(j)
    BY <1>1 DEF LinkInv
  <2>4. currentAlloc' = first' /\ first' = first /\ i' = e820_size' /\ i' = i
    BY <1>1, <1>2 DEF LinkInv, allocVars
  <2>5. CASE first = NULL
    <3>1. \A j \in 0 .. i' - 1 : ~Low(j)'  BY <2>2, <2>3, <2>4, <2>5
    <3>2. QED  BY <1>1, <2>4, <2>5, <3>1 DEF LinkInv
  <2>6. CASE first # NULL
    <3>1. \E j \in 0 .. i' - 1 : FirstIs(j)'  BY <2>1, <2>3, <2>4, <2>6
    <3>2. QED  BY <1>1, <2>4, <2>6, <3>1 DEF LinkInv
  <2>7. QED  BY <2>5, <2>6
<1>7. FillInv' /\ SearchInv' /\ RemoveInv'  BY <1>1 DEF FillInv, SearchInv, RemoveInv
<1>8. QED  BY <1>3, <1>4, <1>5, <1>6, <1>7 DEF IInv

LEMMA StutterKeeps == ASSUME IInv, UNCHANGED vars PROVE IInv'
<1>1. UNCHANGED <<bios, carry, e820_map, e820_size, pc, i, hdr, currentAlloc, first>>
  BY DEF vars
<1>2. TypeInv' /\ HdrInv'  BY <1>1 DEF IInv, TypeInv, TypeOK, HdrInv
<1>3. FillInv'  BY <1>1 DEF IInv, FillInv
<1>4. SearchInv'  BY <1>1 DEF IInv, SearchInv, Count, Cover
<1>5. RemoveInv'
  BY <1>1 DEF IInv, RemoveInv, CutAt, CutEntry, Removed, Count, Cover
<1>6. MapInv'  BY <1>1 DEF IInv, MapInv
<1>7. MapExact'  BY <1>1 DEF IInv, MapExact, Usable, Counted
<1>8. LinkInv'  BY <1>1 DEF IInv, LinkInv, FirstIs, Low
<1>9. QED  BY <1>2, <1>3, <1>4, <1>5, <1>6, <1>7, <1>8 DEF IInv

LEMMA Invariance == Spec => []IInv
<1>1. IInv /\ [Next]_vars => IInv'
  <2> SUFFICES ASSUME IInv, [Next]_vars PROVE IInv'  OBVIOUS
  <2>1. CASE E820Entry  BY <2>1, EntryKeeps
  <2>2. CASE E820Carry  BY <2>2, CarryKeeps
  <2>3. CASE SkipsRegion  BY <2>3, SkipKeeps
  <2>4. CASE NoRegion  BY <2>4, NoRegionKeeps
  <2>5. CASE CutsRegion  BY <2>5, CutKeeps
  <2>6. CASE RemovesCovered  BY <2>6, RemoveKeeps
  <2>7. CASE ClipsNext  BY <2>7, ClipKeeps
  <2>8. CASE FirstRegion  BY <2>8, FirstKeeps
  <2>9. CASE NextRegion  BY <2>9, NextKeeps
  <2>10. CASE ReservedRegion  BY <2>10, ReservedKeeps
  <2>11. CASE Finishes  BY <2>11, FinishKeeps
  <2>12. CASE UNCHANGED vars  BY <2>12, StutterKeeps
  <2>13. QED
    BY <2>1, <2>2, <2>3, <2>4, <2>5, <2>6, <2>7, <2>8, <2>9, <2>10, <2>11, <2>12
    DEF Next, ReservesArea
<1>2. QED  BY <1>1, InitInv, PTL DEF Spec

-----------------------------------------------------------------------------
(* What is stored where the array has no room.                              *)

HasRoom == Count < Room /\ Cover + 1 < Room
Untouched == \A j \in Room .. Cells : e820_map[j] = Behind[j]

LEMMA RoomIs == ASSUME TypeInv PROVE InRoom <=> (HasRoom => Untouched)
<1>1. Count \in Nat /\ Counted = 1 .. Count /\ Cover = Covering(bios)  BY Counts DEF Cover
<1>2. Room \notin Counted <=> Count < Room  BY <1>1, Sizes
<1>3. QED  BY <1>1, <1>2 DEF InRoom, HasRoom, Untouched

LEMMA InitRoom == Init => InRoom
<1> SUFFICES ASSUME Init PROVE \A j \in Room .. Cells : e820_map[j] = Behind[j]  BY DEF InRoom
<1>1. \A j \in Room .. Cells : j \in 0 .. Cells /\ ~(j < Room)  BY Sizes
<1>2. e820_map = [j \in 0 .. Cells |-> IF j < Room THEN Empty ELSE Behind[j]]  BY DEF Init
<1>3. QED  BY <1>1, <1>2

\* A step keeps the cells behind the array of a map that has room.
LEMMA StepRoom ==
  ASSUME IInv, HasRoom, [Next]_vars, NEW j \in Room .. Cells
  PROVE  e820_map'[j] = e820_map[j]
<1>1. /\ TypeInv /\ Count \in Nat /\ Count < Room /\ Cover + 1 < Room /\ Cover \in Nat
      /\ Len(bios) \in Nat /\ Len(bios) <= Count + 1 /\ i \in Nat /\ e820_size \in Nat
      /\ e820_map \in [0 .. Cells -> Descriptor] /\ j \in 0 .. Cells /\ j \in Nat /\ j >= Room
  <2>1. TypeInv  BY DEF IInv
  <2>2. bios \in BiosMaps /\ i \in Nat /\ e820_size \in Nat /\ e820_map \in [0 .. Cells -> Descriptor]
    BY <2>1 DEF TypeInv, TypeOK
  <2>3. Len(bios) \in Nat /\ Count \in Nat /\ Cover \in Nat  BY <2>1, <2>2, Entries, Counts
  <2>4. Len(bios) <= Count + 1  BY <2>3 DEF Count
  <2>5. j \in 0 .. Cells /\ j \in Nat /\ j >= Room  BY Sizes
  <2>6. QED  BY <2>1, <2>2, <2>3, <2>4, <2>5 DEF HasRoom
<1>2. CASE E820Entry
  <2>1. i < Len(bios) /\ e820_map' = [e820_map EXCEPT ![i] = bios[i + 1]]  BY <1>2 DEF E820Entry
  <2>2. j # i  BY <1>1, <2>1, Sizes
  <2>3. QED  BY <1>1, <2>1, <2>2
<1>3. CASE CutsRegion
  <2> DEFINE cut == [e820_map EXCEPT ![i].Length = (ResBase - e820_map[i].BaseAddr) % Wide]
             moved == ShiftMap(cut, i + 1)
  <2>1. i + 1 = Cover /\ e820_size = Count
    <3>1. /\ SearchInv /\ Searching /\ End(e820_map[i]) > ResBase  BY <1>3 DEF IInv, CutsRegion
    <3>2. QED  BY <1>1, <3>1, Searched
  <2>2. e820_map' = [moved EXCEPT ![i + 1] =
                       [BaseAddr |-> ResBase, Length |-> ResLen, Type |-> Reserved]]
    BY <1>3 DEF CutsRegion
  <2>3. j # i /\ j # i + 1 /\ j \notin i + 1 + 1 .. e820_size  BY <1>1, <2>1, Sizes
  <2>4. DOMAIN cut = 0 .. Cells /\ cut[j] = e820_map[j]  BY <1>1, <2>3
  <2> HIDE DEF cut
  <2>5. DOMAIN moved = 0 .. Cells /\ moved[j] = cut[j]  BY <1>1, <2>3, <2>4 DEF ShiftMap
  <2> HIDE DEF moved
  <2>6. e820_map'[j] = moved[j]  BY <1>1, <2>2, <2>3, <2>5
  <2>7. QED  BY <2>4, <2>5, <2>6
<1>4. CASE RemovesCovered
  <2>1. RemoveInv /\ pc = "remove" /\ e820_map' = RemoveIndex(e820_map, i + 2)
    BY <1>4 DEF IInv, RemovesCovered
  <2>2. e820_size \in i + 1 .. Count + 1  BY <1>1, <2>1, Cutting
  <2>3. j \notin i + 2 .. e820_size - 2  BY <1>1, <2>2, Sizes
  <2>4. QED  BY <1>1, <2>1, <2>3 DEF RemoveIndex
<1>5. CASE ClipsNext
  <2>1. RemoveInv /\ pc = "remove"  BY <1>5 DEF IInv, ClipsNext
  <2>2. i + 1 = Cover  BY <1>1, <2>1, Cutting
  <2>3. j # i + 2  BY <1>1, <2>2, Sizes
  <2>4. e820_map' = IF ResEnd > Following.BaseAddr
                    THEN [e820_map EXCEPT ![i + 2] = Clipped(Following)] ELSE e820_map
    BY <1>5 DEF ClipsNext
  <2>5. QED  BY <1>1, <2>3, <2>4
<1>6. CASE UNCHANGED e820_map  BY <1>6
<1>7. \/ E820Entry \/ CutsRegion \/ RemovesCovered \/ ClipsNext \/ UNCHANGED e820_map
  BY DEF Next, ReservesArea, vars, E820Carry, SkipsRegion, NoRegion, FirstRegion, NextRegion,
         ReservedRegion, Finishes
<1>8. QED  BY <1>2, <1>3, <1>4, <1>5, <1>6, <1>7

LEMMA RoomKept == ASSUME IInv, InRoom, [Next]_vars, IInv' PROVE InRoom'
<1>1. TypeInv /\ TypeInv'  BY DEF IInv
<1>2. bios' = bios /\ carry' = carry
  BY DEF Next, ReservesArea, vars, E820Entry, E820Carry, SkipsRegion, NoRegion, CutsRegion,
         RemovesCovered, ClipsNext, FirstRegion, NextRegion, ReservedRegion, Finishes
<1>3. HasRoom' <=> HasRoom  BY <1>2 DEF HasRoom, Count, Cover
<1>4. HasRoom => Untouched  BY <1>1, RoomIs
<1>5. ASSUME HasRoom PROVE Untouched'
  <2>1. \A j \in Room .. Cells : e820_map'[j] = e820_map[j]  BY <1>5, StepRoom
  <2>2. QED  BY <1>4, <1>5, <2>1 DEF Untouched
<1>6. (InRoom <=> (HasRoom => Untouched))'  BY <1>1, RoomIs, PTL
<1>7. QED  BY <1>3, <1>5, <1>6

-----------------------------------------------------------------------------
(* The theorems.                                                            *)

\* The entries stay descriptors and the pointers pointers, and a map that leaves
\* a cell of memory free is cut in that memory: the reserved area costs it one
\* cell and no more (boot.asm's E820 loop, memory.c's _reserve_area, _shift_map,
\* _remove_index and memory_init).  The memory is not the array: see Confined.
THEOREM Typing == Spec => []TypeOK
<1>1. IInv => TypeOK  BY DEF IInv, TypeInv
<1>2. QED  BY <1>1, Invariance, PTL

\* _shift_map and the clipping of the next entry store nothing behind __e820_data
\* as long as boot.asm counted fewer entries than it has room for and the one the
\* reserved area begins in leaves two (memory.c:149-219, boot.asm:171-173).
THEOREM Confined == Spec => []InRoom
<1>1. IInv /\ InRoom /\ [Next]_vars /\ IInv' => InRoom'  BY RoomKept
<1>2. QED  BY <1>1, InitRoom, Invariance, PTL DEF Spec

\* _reserve_area keeps what the BIOS said is usable and boot.asm counted, to the
\* byte, less the reserved area and what its entry had behind it: for every map,
\* with as many entries inside the area as there may be (memory.c:163-219).
THEOREM Exact == Spec => []MapExact
<1>1. IInv => MapExact  BY DEF IInv
<1>2. QED  BY <1>1, Invariance, PTL

LEMMA InvReady == ASSUME IInv PROVE HeapReady
<1> SUFFICES ASSUME pc = "done", Linked # {}
             PROVE  LET h == hdr[currentAlloc]
                        end == currentAlloc + HdrSize + h.Size
                    IN  /\ \E j \in Linked : currentAlloc = e820_map[j].BaseAddr % Narrow
                                             /\ \A k \in Linked : j <= k
                        /\ h.Reserved = 0
                        /\ currentAlloc # NULL =>
                             /\ end < Narrow
                             /\ currentAlloc .. end - 1 \subseteq
                                  Usable(bios, Counted) \ (ResBase .. ResEnd - 1)
                             /\ h.NextAlloc # NULL =>
                                  h.NextAlloc >= end /\ hdr[h.NextAlloc].Reserved = 0
  BY DEF HeapReady
<1> DEFINE h == hdr[currentAlloc]
           end == currentAlloc + HdrSize + h.Size
<1>1. /\ TypeInv /\ MapInv /\ MapExact /\ LinkInv /\ i = e820_size /\ currentAlloc = first
      /\ hdr \in [0 .. Narrow - 1 -> Header] /\ first \in 0 .. Narrow - 1 /\ i \in Nat
      /\ e820_map \in [0 .. Cells -> Descriptor] /\ e820_size \in 0 .. Cells
  BY DEF IInv, HdrInv, TypeInv, TypeOK, LinkInv
<1>2. \A a \in 0 .. Narrow - 1 : hdr[a].Reserved = 0  BY <1>1 DEF Header
\* A linked entry that is not low begins at 2^32, and there is but one.
<1>3. ASSUME NEW j \in Linked
      PROVE  /\ j \in 0 .. e820_size - 1 /\ e820_map[j].Type = Free /\ e820_map[j] \in Descriptor
             /\ e820_map[j].BaseAddr \in Nat /\ e820_map[j].Length \in Nat
             /\ Top(e820_map[j]) = e820_map[j].BaseAddr + e820_map[j].Length
             /\ e820_map[j].Length >= HdrSize /\ j \in Nat
             /\ Low(j) \/ e820_map[j].BaseAddr = Narrow
             /\ Low(j) => Top(e820_map[j]) < Narrow
  <2>1. j \in 0 .. e820_size - 1 /\ e820_map[j].Type = Free /\ e820_map[j].BaseAddr # 0
    BY DEF Linked, NULL
  <2>2. e820_map[j] \in Descriptor /\ Fits(e820_map[j])
    <3>1. j \in 0 .. Cells  BY <1>1, <2>1, Sizes
    <3>2. Fits(e820_map[j])  BY <1>1, <2>1 DEF MapInv
    <3>3. QED  BY <1>1, <3>1, <3>2
  <2>3. /\ e820_map[j].BaseAddr \in Nat /\ e820_map[j].Length \in Nat
        /\ Top(e820_map[j]) = e820_map[j].BaseAddr + e820_map[j].Length
    BY <2>2, Fields
  <2>4. /\ e820_map[j].Length >= HdrSize
        /\ Top(e820_map[j]) < Narrow \/ e820_map[j].BaseAddr = Narrow
    BY <2>2 DEF Fits
  <2>5. Low(j) <=> e820_map[j].BaseAddr \in 1 .. Narrow - 1  BY <2>1 DEF Low
  <2>6. Low(j) \/ e820_map[j].BaseAddr = Narrow  BY <2>1, <2>3, <2>4, <2>5, Sizes
  <2>7. Low(j) => Top(e820_map[j]) < Narrow  BY <2>3, <2>4, <2>5, Sizes
  <2>8. QED  BY <2>1, <2>2, <2>3, <2>4, <2>6, <2>7
<1>4. ASSUME NEW j \in Linked, NEW k \in Linked, j < k
      PROVE  Top(e820_map[j]) <= e820_map[k].BaseAddr /\ Low(j)
  <2>1. Top(e820_map[j]) <= e820_map[k].BaseAddr  BY <1>1, <1>3, <1>4 DEF MapInv
  <2>2. e820_map[k].BaseAddr <= Narrow
    <3>1. CASE Low(k)  BY <3>1, Sizes DEF Low
    <3>2. CASE ~Low(k)  BY <1>3, <3>2, Sizes
    <3>3. QED  BY <3>1, <3>2
  <2>3. e820_map[j].BaseAddr # Narrow  BY <1>3, <2>1, <2>2, Sizes
  <2>4. QED  BY <1>3, <2>1, <2>3
<1>5. CASE first = NULL
  <2>1. \A j \in 0 .. e820_size - 1 : ~Low(j)  BY <1>1, <1>5 DEF LinkInv
  <2>2. PICK j \in Linked : TRUE  OBVIOUS
  <2>3. \A k \in Linked : ~Low(k) /\ k \in Nat  BY <1>3, <2>1
  <2>4. \A k \in Linked : j <= k
    <3> TAKE k \in Linked
    <3>1. ~(k < j)  BY <1>4, <2>2, <2>3
    <3>2. QED  BY <2>2, <2>3, <3>1
  <2>5. e820_map[j].BaseAddr = Narrow  BY <1>3, <2>2, <2>3
  <2>6. e820_map[j].BaseAddr % Narrow = currentAlloc  BY <1>1, <1>5, <2>5, Sizes DEF NULL
  <2>7. h.Reserved = 0  BY <1>1, <1>2
  <2>8. QED  BY <1>1, <1>5, <2>2, <2>4, <2>6, <2>7
<1>6. CASE first # NULL
  <2>1. PICK j \in 0 .. e820_size - 1 : FirstIs(j)  BY <1>1, <1>6 DEF LinkInv
  <2>2. j \in Linked /\ Low(j)  BY <2>1 DEF FirstIs, Low, Linked, NULL
  <2>3. /\ first = e820_map[j].BaseAddr /\ h.Size = e820_map[j].Length - HdrSize
        /\ \A k \in 0 .. j - 1 : ~Low(k)
    BY <1>1, <2>1 DEF FirstIs
  <2>4. end = Top(e820_map[j])
    <3>1. first \in Nat  BY <1>1
    <3>2. QED  BY <1>1, <1>3, <2>2, <2>3, <3>1, Sizes
  <2>5. currentAlloc = e820_map[j].BaseAddr % Narrow
    <3>1. first \in Nat /\ first < Narrow  BY <1>1, Sizes
    <3>2. first % Narrow = first  BY <3>1, SmallRemainder, Sizes
    <3>3. QED  BY <1>1, <2>3, <3>2
  <2>6. \A k \in Linked : j <= k
    <3> TAKE k \in Linked
    <3>1. ~(k < j)
      <4>1. SUFFICES ASSUME k < j PROVE FALSE  OBVIOUS
      <4>2. Low(k) /\ k \in Nat /\ j \in Nat  BY <1>3, <1>4, <2>2, <4>1
      <4>3. QED  BY <2>3, <4>1, <4>2
    <3>2. QED  BY <1>3, <2>2, <3>1
  <2>7. h.Reserved = 0  BY <1>1, <1>2
  <2>8. end < Narrow  BY <1>3, <2>2, <2>4
  <2>9. currentAlloc .. end - 1 \subseteq Usable(bios, Counted) \ (ResBase .. ResEnd - 1)
    <3>1. SUFFICES ASSUME NEW a \in currentAlloc .. end - 1
                   PROVE  a \in Usable(bios, Counted) \ (ResBase .. ResEnd - 1)
      OBVIOUS
    <3>2. a \in Bytes(e820_map[j])
      <4>1. currentAlloc = e820_map[j].BaseAddr /\ currentAlloc \in Nat /\ end \in Nat
        <5>1. /\ e820_map[j].BaseAddr \in Nat /\ e820_map[j].Length \in Nat
              /\ Top(e820_map[j]) = e820_map[j].BaseAddr + e820_map[j].Length
          BY <1>3, <2>2
        <5>2. currentAlloc = e820_map[j].BaseAddr  BY <1>1, <2>3
        <5>3. end \in Nat
          <6> HIDE DEF end
          <6>1. QED  BY <2>4, <5>1
        <5>4. QED  BY <5>1, <5>2, <5>3
      <4>2. a \in Nat /\ e820_map[j].BaseAddr <= a /\ a < Top(e820_map[j])
        BY <2>4, <3>1, <4>1
      <4>3. QED  BY <1>3, <2>2, <4>2, InBytes
    <3>3. a \in Usable(e820_map, 0 .. e820_size - 1)  BY <1>3, <2>2, <3>2, InUsable
    <3>4. QED  BY <1>1, <3>3 DEF MapExact
  <2>10. ASSUME h.NextAlloc # NULL
         PROVE  h.NextAlloc >= end /\ hdr[h.NextAlloc].Reserved = 0
    <3>1. PICK k \in j + 1 .. i - 1 : Low(k) /\ h.NextAlloc = e820_map[k].BaseAddr
      BY <1>1, <2>1, <2>10 DEF FirstIs
    <3>2. k \in Linked /\ j < k  BY <1>1, <2>1, <3>1 DEF Linked, Low, NULL
    <3>3. Top(e820_map[j]) <= e820_map[k].BaseAddr /\ e820_map[k].BaseAddr \in 0 .. Narrow - 1
      BY <1>4, <2>2, <3>1, <3>2, Sizes DEF Low
    <3>4. end \in Nat  BY <1>3, <2>2, <2>4
    <3>5. QED  BY <1>2, <1>3, <2>4, <3>1, <3>2, <3>3, <3>4, Sizes
  <2>11. QED  BY <2>2, <2>5, <2>6, <2>7, <2>8, <2>9, <2>10
<1>7. QED  BY <1>5, <1>6

\* malloc finds its cursor on the lowest region memory_init linked, with a header
\* that describes usable memory and nothing else, and no link below the region's
\* end (memory.c:96-119).
THEOREM Ready == Spec => []HeapReady
<1>1. IInv => HeapReady  BY InvReady
<1>2. QED  BY <1>1, Invariance, PTL
===============================================================================
