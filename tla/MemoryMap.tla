------------------------------ MODULE MemoryMap ------------------------------
(***************************************************************************)
(* How the memory map the BIOS reports becomes the heap's first region: the *)
(* E820 loop of boot.asm fills __e820_data, _reserve_area cuts the kernel   *)
(* and the low devices out of it, and memory_init writes a header into each *)
(* usable region that is left.                                              *)
(*                                                                          *)
(* Descriptors hold 64-bit values, pointers 32-bit ones.  Neither boot.asm   *)
(* nor _shift_map looks at the array's end: e820_map is the memory from      *)
(* __e820_data on, of which the array is the first Room descriptors.         *)
(***************************************************************************)
EXTENDS Integers, Sequences

CONSTANTS
  Wide, Narrow,     (* 2^64 and 2^32 on the target                          *)
  ResBase, ResLen,  (* the area memory_init reserves, 0x7C00 and 0xB8400    *)
  HdrSize,          (* sizeof(alloc)                                        *)
  Room,             (* descriptors __e820_data is declared with, 16         *)
  Cells,            (* those there is memory for before anything the code   *)
                    (* below is made of or works on                         *)
  Behind,           (* what lies behind the array: the count and data of    *)
                    (* the drives, read as descriptors                      *)
  BiosMaps          (* the maps a BIOS may report, sequences of descriptors *)

NULL == 0
Free == 1
Reserved == 2
ResEnd == ResBase + ResLen

Descriptor == [BaseAddr : 0 .. Wide - 1, Length : 0 .. Wide - 1, Type : {0, Free, Reserved}]
End(d) == (d.BaseAddr + d.Length) % Wide
Bytes(d) == d.BaseAddr .. d.BaseAddr + d.Length - 1

\* The entry the reserved area begins in.
Covering(b) == CHOOSE k \in DOMAIN b : ResBase \in Bytes(b[k])

\* What a PC reports, in as many entries as fit the memory.  Entries are sorted
\* and apart, and end before the last 64-bit address.  The boot sector was
\* loaded at ResBase, so memory from 0 to there is described and usable there.
\* Usable entries have room for a header, also once the reserved area is cut off
\* them; those below 2^32 end before it, those above begin there.
PlausibleBios(b) ==
  /\ Len(b) \in 1 .. Cells - 1
  /\ \A j, k \in DOMAIN b : j < k => b[j].BaseAddr + b[j].Length <= b[k].BaseAddr
  /\ \A k \in DOMAIN b : b[k].BaseAddr + b[k].Length < Wide
  /\ \A a \in 0 .. ResBase : \E k \in DOMAIN b : a \in Bytes(b[k])
  /\ b[Covering(b)].Type = Free
  /\ b[Covering(b)].BaseAddr + HdrSize <= ResBase
  /\ \A k \in DOMAIN b : b[k].Type = Free =>
       /\ b[k].Length >= HdrSize
       /\ End(b[k]) < Narrow \/ b[k].BaseAddr = Narrow
       /\ b[k].BaseAddr > ResBase => End(b[k]) \notin ResEnd .. ResEnd + HdrSize - 1

ASSUME MemoryMapAssumption ==
  /\ Narrow \in Nat \ {0} /\ Wide \in Nat /\ Narrow < Wide
  /\ ResBase \in Nat /\ ResLen \in Nat /\ ResEnd < Narrow
  /\ HdrSize \in Nat \ {0}
  /\ Room \in Nat \ {0} /\ Cells \in Nat \ {0, 1} /\ Behind \in [Room .. Cells -> Descriptor]
  /\ \A b \in BiosMaps : b \in Seq(Descriptor) /\ PlausibleBios(b)

VARIABLES
  bios,          (* what the BIOS reports                                    *)
  carry,         (* whether it ends with the carry flag on a call too many,  *)
                 (* instead of a zero continuation with the last entry       *)
  e820_map,      (* the descriptors from __e820_data on                      *)
  e820_size,
  pc,
  i,             (* the index of the loop under way                          *)
  hdr,           (* memory, read as headers                                  *)
  currentAlloc,  (* _currentAlloc                                            *)
  first

vars == <<bios, carry, e820_map, e820_size, pc, i, hdr, currentAlloc, first>>
allocVars == <<hdr, currentAlloc, first>>

Empty == [BaseAddr |-> 0, Length |-> 0, Type |-> 0]

Init ==
  /\ bios \in BiosMaps
  /\ carry \in BOOLEAN
  /\ e820_map = [j \in 0 .. Cells |-> IF j < Room THEN Empty ELSE Behind[j]]
  /\ e820_size = 0
  /\ pc = "e820"
  /\ i = 0
  /\ hdr = [a \in 0 .. Narrow - 1 |->
              [PreviousAlloc |-> 0, NextAlloc |-> 0, Reserved |-> 0, Size |-> 0]]
  /\ currentAlloc = NULL
  /\ first = NULL

-----------------------------------------------------------------------------
(* boot.asm: one call of the BIOS per step.                                 *)

\* The entry is in place before the loop looks at the continuation; the one
\* that comes with a zero is not counted.
E820Entry ==
  LET more == carry \/ i + 1 < Len(bios)
  IN  /\ pc = "e820"
      /\ i < Len(bios)
      /\ e820_map' = [e820_map EXCEPT ![i] = bios[i + 1]]
      /\ e820_size' = IF more THEN e820_size + 1 ELSE e820_size
      /\ pc' = IF more THEN "e820" ELSE "search"
      /\ i' = IF more THEN i + 1 ELSE 0
      /\ UNCHANGED <<bios, carry, allocVars>>

E820Carry ==
  /\ pc = "e820"
  /\ i = Len(bios)
  /\ pc' = "search"
  /\ i' = 0
  /\ UNCHANGED <<bios, carry, e820_map, e820_size, allocVars>>

-----------------------------------------------------------------------------
(* _reserve_area.                                                           *)

\* Mutant: the loop begins one further up.
ShiftMapPastEnd(map, index) ==
  [j \in DOMAIN map |-> IF j \in index + 1 .. e820_size + 1 THEN map[j - 1] ELSE map[j]]

\* _shift_map and _remove_index; the count changes with them.
ShiftMap(map, index) ==
  [j \in DOMAIN map |-> IF j \in index + 1 .. e820_size THEN map[j - 1] ELSE map[j]]

RemoveIndex(map, index) ==
  [j \in DOMAIN map |-> IF j \in index .. e820_size - 2 THEN map[j + 1] ELSE map[j]]

Searching == pc = "search" /\ i < e820_size

SkipsRegion ==
  /\ Searching
  /\ End(e820_map[i]) <= ResBase
  /\ i' = i + 1
  /\ UNCHANGED <<bios, carry, e820_map, e820_size, pc, allocVars>>

NoRegion ==
  /\ pc = "search" /\ i >= e820_size
  /\ pc' = "init"
  /\ i' = 0
  /\ UNCHANGED <<bios, carry, e820_map, e820_size, allocVars>>

\* The region is cut where the reserved area begins, and the area gets an entry.
CutsRegion ==
  LET cut == [e820_map EXCEPT ![i].Length = (ResBase - e820_map[i].BaseAddr) % Wide]
  IN  /\ Searching
      /\ End(e820_map[i]) > ResBase
      /\ e820_map' = [ShiftMap(cut, i + 1) EXCEPT
                        ![i + 1] = [BaseAddr |-> ResBase, Length |-> ResLen, Type |-> Reserved]]
      /\ e820_size' = e820_size + 1
      /\ pc' = "remove"
      /\ UNCHANGED <<bios, carry, i, allocVars>>

Following == e820_map[i + 2]

\* Mutant: only the first half of the condition.
CoversNextUncounted == ResEnd > End(Following)

\* Whether to remove the next entry.  The second half keeps the count above the
\* region's, not above the entry that is read.
CoversNext == ResEnd > End(Following) /\ e820_size > i + 1

\* Mutant: the count stays.
RemovesCoveredKeepsCount ==
  /\ pc = "remove"
  /\ CoversNext
  /\ e820_map' = RemoveIndex(e820_map, i + 2)
  /\ UNCHANGED <<bios, carry, e820_size, pc, i, allocVars>>

RemovesCovered ==
  /\ pc = "remove"
  /\ CoversNext
  /\ e820_map' = RemoveIndex(e820_map, i + 2)
  /\ e820_size' = e820_size - 1
  /\ UNCHANGED <<bios, carry, pc, i, allocVars>>

\* Mutant: the entry is shortened at its end.
ClippedKeepsBase(d) == [d EXCEPT !.Length = (@ - (ResEnd - d.BaseAddr)) % Wide]

Clipped(d) ==
  [d EXCEPT !.BaseAddr = ResEnd, !.Length = (@ - (ResEnd - d.BaseAddr)) % Wide]

\* The entry that overlaps the end of the area is cut.  The branch after it, for
\* a gap, repeats its condition and never runs.
ClipsNext ==
  /\ pc = "remove"
  /\ ~CoversNext
  /\ e820_map' = IF ResEnd > Following.BaseAddr
                 THEN [e820_map EXCEPT ![i + 2] = Clipped(Following)]
                 ELSE e820_map
  /\ pc' = "init"
  /\ i' = 0
  /\ UNCHANGED <<bios, carry, e820_size, allocVars>>

-----------------------------------------------------------------------------
(* memory_init, once the area is reserved: one entry per step.              *)

\* The region's header, once the links are set.  The cast to a pointer drops
\* the upper half of an address.
Pointer(d) == d.BaseAddr % Narrow
WithSize(h, d) ==
  [h EXCEPT ![Pointer(d)].Reserved = 0, ![Pointer(d)].Size = (d.Length - HdrSize) % Wide]

Region == e820_map[i]

FirstRegion ==
  /\ pc = "init" /\ i < e820_size
  /\ Region.Type = Free /\ currentAlloc = NULL
  /\ hdr' = WithSize([hdr EXCEPT ![Pointer(Region)].NextAlloc = NULL], Region)
  /\ first' = Pointer(Region)
  /\ currentAlloc' = first'
  /\ i' = i + 1
  /\ UNCHANGED <<bios, carry, e820_map, e820_size, pc>>

\* Mutant: the cursor stays on the region that was linked last.
NextRegionStays ==
  /\ pc = "init" /\ i < e820_size
  /\ Region.Type = Free /\ currentAlloc # NULL
  /\ hdr' = WithSize([hdr EXCEPT ![currentAlloc].NextAlloc = Pointer(Region),
                                 ![currentAlloc].PreviousAlloc = currentAlloc], Region)
  /\ currentAlloc' = Pointer(Region)
  /\ i' = i + 1
  /\ UNCHANGED <<bios, carry, e820_map, e820_size, pc, first>>

\* The region is linked behind the first, to which the cursor returns.
NextRegion ==
  /\ pc = "init" /\ i < e820_size
  /\ Region.Type = Free /\ currentAlloc # NULL
  /\ hdr' = WithSize([hdr EXCEPT ![currentAlloc].NextAlloc = Pointer(Region),
                                 ![currentAlloc].PreviousAlloc = currentAlloc], Region)
  /\ currentAlloc' = first
  /\ i' = i + 1
  /\ UNCHANGED <<bios, carry, e820_map, e820_size, pc, first>>

ReservedRegion ==
  /\ pc = "init" /\ i < e820_size
  /\ Region.Type # Free
  /\ currentAlloc' = first
  /\ i' = i + 1
  /\ UNCHANGED <<bios, carry, e820_map, e820_size, pc, hdr, first>>

Finishes ==
  /\ pc = "init" /\ i >= e820_size
  /\ pc' = "done"
  /\ UNCHANGED <<bios, carry, e820_map, e820_size, i, allocVars>>

ReservesArea == SkipsRegion \/ NoRegion \/ CutsRegion \/ RemovesCovered \/ ClipsNext
Next ==
  \/ E820Entry \/ E820Carry
  \/ ReservesArea
  \/ FirstRegion \/ NextRegion \/ ReservedRegion \/ Finishes

Spec == Init /\ [][Next]_vars /\ WF_vars(Next)

-----------------------------------------------------------------------------
(* Properties.                                                              *)

\* Every variable keeps its type, and the count is that of cells there are.
TypeOK ==
  /\ e820_map \in [0 .. Cells -> Descriptor]
  /\ e820_size \in 0 .. Cells
  /\ i \in 0 .. Cells
  /\ currentAlloc \in 0 .. Narrow - 1 /\ first \in 0 .. Narrow - 1

Usable(map, entries) == UNION {Bytes(map[k]) : k \in {j \in entries : map[j].Type = Free}}

\* The entries boot.asm counted: all of them, or all but the last.
Counted == IF carry THEN DOMAIN bios ELSE DOMAIN bios \ {Len(bios)}

\* Nothing is stored behind the array (__drive_count, __drive_data) as long as
\* boot.asm counted fewer entries than it has room for and the one the reserved
\* area begins in is before its last two: the area's own entry makes one more,
\* and what follows that is read, and may be clipped, counted or not.
InRoom ==
  Room \notin Counted /\ Covering(bios) + 1 < Room =>
    \A j \in Room .. Cells : e820_map[j] = Behind[j]

\* What the kernel may use is what the BIOS said is usable and boot.asm counted,
\* less the reserved area, whatever _reserve_area shifted, removed and cut to get
\* there: no usable byte is invented and none is lost, but for what the entry
\* that contains ResBase had behind the area.
MapExact ==
  pc \in {"init", "done"} =>
    Usable(e820_map, 0 .. e820_size - 1) =
      Usable(bios, Counted)
        \ (ResBase .. ResEnd - 1 \cup
           IF Covering(bios) \in Counted
           THEN {a \in Bytes(bios[Covering(bios)]) : a >= ResEnd} ELSE {})

\* The indices of the entries memory_init links: it takes a usable region at
\* address 0 for none.
Linked == {j \in 0 .. e820_size - 1 : e820_map[j].Type = Free /\ e820_map[j].BaseAddr # NULL}

\* malloc finds what it relies on: the cursor on the lowest region that does not
\* begin at 0, its header describing just usable memory clear of the reserved
\* area, and its link, if any, to a free header above the region.
HeapReady ==
  LET h == hdr[currentAlloc]
      end == currentAlloc + HdrSize + h.Size
  IN  pc = "done" /\ Linked # {} =>
        /\ \E j \in Linked : currentAlloc = e820_map[j].BaseAddr % Narrow
                             /\ \A k \in Linked : j <= k
        /\ h.Reserved = 0
        /\ currentAlloc # NULL =>
             /\ end < Narrow
             /\ currentAlloc .. end - 1 \subseteq Usable(bios, Counted) \ (ResBase .. ResEnd - 1)
             /\ h.NextAlloc # NULL => h.NextAlloc >= end /\ hdr[h.NextAlloc].Reserved = 0

\* Whatever the map, the loops of _reserve_area and memory_init end.
Terminates == <>(pc = "done")

\* memory.c:205: "check if there is unmapped memory otherwise", which is to get
\* an entry of its own from the end of the reserved area on.
GapMapped ==
  pc \in {"init", "done"} =>
    \A j \in 1 .. e820_size - 1 : e820_map[j - 1].BaseAddr = ResBase =>
      e820_map[j].BaseAddr = ResEnd
==============================================================================
