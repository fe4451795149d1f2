-------------------------------- MODULE Heap ---------------------------------
(***************************************************************************)
(* The kernel heap of kernel/src/system/memory.c: a chain of headers laid   *)
(* out in the memory they describe, a cursor currentAlloc (_currentAlloc in *)
(* the source), malloc that splits the block under the cursor and free that *)
(* merges a block with the one after it.  Memory is a function from         *)
(* addresses to the header that reading an `alloc` there yields, so a       *)
(* header and the payload bytes it overlaps are the same memory: the owner  *)
(* of a block scribbles over every header record its payload touches.       *)
(*                                                                          *)
(* The heap starts as memory_init leaves it.  Its first region is a          *)
(* parameter here; module MemoryMap says how it comes from the BIOS's map.  *)
(***************************************************************************)
EXTENDS Integers

CONSTANTS
  Word,        (* number of addresses: 2^32 on the target, a cast wraps at it *)
  HdrSize,     (* sizeof(alloc)                                               *)
  HeadBase,    (* base of the region memory_init left in currentAlloc        *)
  HeadSize,    (* its length less one header                                  *)
  NextRegion,  (* base of the last other usable region, NULL when none        *)
  Boot,        (* what the rest of memory holds, other regions' sizes included *)
  Sizes,       (* the sizes callers ask for                                   *)
  Scribbles,   (* what user data may look like when read as a header          *)
  MaxDepth     (* nested calls of malloc the kernel stack has room for        *)

NULL == 0
Addr == 0 .. Word - 1
Byte == 0 .. 255
Header == [PreviousAlloc : Addr, NextAlloc : Addr, Reserved : Byte, Size : Nat]

HeapEnd == HeadBase + HdrSize + HeadSize

\* The region lies below 2^32 (the pointer casts of memory_init drop the upper
\* half of an address) and not at address 0, which memory_init takes for "no
\* region yet"; the other region is above it, as the BIOS sorts its map.
ASSUME HeapAssumption ==
  /\ Word \in Nat \ {0} /\ HdrSize \in Nat \ {0}
  /\ HeadBase \in Nat \ {0} /\ HeadSize \in Nat
  /\ HeapEnd < Word
  /\ NextRegion \in Addr
  /\ NextRegion = NULL \/ (NextRegion >= HeapEnd /\ NextRegion + HdrSize <= Word)
  /\ HeadBase >= HdrSize
  /\ Boot \in [Addr -> Header]
  /\ Sizes \subseteq Addr
  /\ Scribbles \subseteq Header
  /\ MaxDepth \in Nat

VARIABLES
  hdr,           (* memory, read as headers                              *)
  currentAlloc,  (* the cursor                                           *)
  pc,            (* where malloc is; "idle" outside it                   *)
  size,          (* malloc's argument                                    *)
  depth,         (* calls of malloc on the stack beyond the first        *)
  live           (* ghost: blocks malloc returned and nobody freed since *)

vars == <<hdr, currentAlloc, pc, size, depth, live>>

-----------------------------------------------------------------------------
(* Memory.                                                                  *)

\* The record read at x shares bytes with the n bytes from lo.
Touches(x, lo, n) == x < lo + n /\ lo < x + HdrSize

\* Storing a header at a: records that overlap it read back as junk.
Store(h, a, r) ==
  [x \in Addr |-> IF x = a THEN r
                  ELSE IF Touches(x, a, HdrSize) THEN Boot[x] ELSE h[x]]

-----------------------------------------------------------------------------
(* split and merge, as functions of memory.                                 *)

\* Mutant: no test that the remainder has room for its header.
SplitResultNoHeaderRoom(h, a, n) == IF h[a].Size < n THEN 1 ELSE 0

SplitResult(h, a, n) ==
  IF h[a].Size < n THEN 1
  ELSE IF h[a].Size - n < HdrSize THEN 2
  ELSE 0

\* Where split puts the header of the remainder.
Remainder(a, n) == (a + HdrSize + n) % Word

\* Mutant: the block is not marked in use.
UsedUnmarked(h, a, n) ==
  [PreviousAlloc |-> h[a].PreviousAlloc, NextAlloc |-> Remainder(a, n),
   Reserved |-> 0, Size |-> n]

\* The two headers split leaves: the block's own and that of the remainder.
Used(h, a, n) ==
  [PreviousAlloc |-> h[a].PreviousAlloc, NextAlloc |-> Remainder(a, n),
   Reserved |-> 1, Size |-> n]

\* Mutant: the remainder keeps the bytes of its own header.
RestForgetsHeader(h, a, n) ==
  [PreviousAlloc |-> a, NextAlloc |-> h[a].NextAlloc,
   Reserved |-> 0, Size |-> (h[a].Size - n) % Word]

Rest(h, a, n) ==
  [PreviousAlloc |-> a, NextAlloc |-> h[a].NextAlloc,
   Reserved |-> 0, Size |-> (h[a].Size - n - HdrSize) % Word]

Split(h, a, n) == Store(Store(h, Remainder(a, n), Rest(h, a, n)), a, Used(h, a, n))

MergeResult(h, first, second) ==
  IF h[first].Reserved # 0 \/ h[second].Reserved # 0 THEN 1
  ELSE IF (first + h[first].Size + HdrSize) % Word # second THEN 2
  ELSE 0

\* Mutant: the second block is taken away from the first.
MergeSubtracts(h, first, second) ==
  IF MergeResult(h, first, second) # 0 THEN h
  ELSE [h EXCEPT ![first].Size = @ - (h[second].Size + HdrSize),
                 ![first].NextAlloc = h[second].NextAlloc]

Merge(h, first, second) ==
  IF MergeResult(h, first, second) # 0 THEN h
  ELSE [h EXCEPT ![first].Size = @ + h[second].Size + HdrSize,
                 ![first].NextAlloc = h[second].NextAlloc]

-----------------------------------------------------------------------------
(* The entry memory_init leaves: one region under the cursor, its NextAlloc *)
(* the last other usable region; of that one, NextAlloc stays unwritten and *)
(* Size, which nothing reads, is what Boot has there.                       *)

InitHeader ==
  [PreviousAlloc |-> IF NextRegion = NULL THEN Boot[HeadBase].PreviousAlloc ELSE HeadBase,
   NextAlloc |-> NextRegion, Reserved |-> 0, Size |-> HeadSize]

Init ==
  /\ hdr = [Boot EXCEPT ![HeadBase] = InitHeader,
                        ![NextRegion].Reserved = IF NextRegion = NULL THEN @ ELSE 0]
  /\ currentAlloc = HeadBase
  /\ pc = "idle"
  /\ size = 0
  /\ depth = 0
  /\ live = {}

-----------------------------------------------------------------------------
(* malloc, free, and the owner of a block using it.                         *)

Malloc(n) ==
  /\ pc = "idle"
  /\ pc' = "malloc"
  /\ size' = n
  /\ depth' = 0
  /\ UNCHANGED <<hdr, currentAlloc, live>>

\* Mutant: the cursor stays on the block just handed out.
MallocStays ==
  /\ pc = "malloc"
  /\ SplitResult(hdr, currentAlloc, size) = 0
  /\ hdr' = Split(hdr, currentAlloc, size)
  /\ live' = live \cup {[ptr |-> currentAlloc + HdrSize, len |-> size]}
  /\ pc' = "idle"
  /\ size' = 0
  /\ depth' = 0
  /\ UNCHANGED currentAlloc

MallocSplits ==
  /\ pc = "malloc"
  /\ SplitResult(hdr, currentAlloc, size) = 0
  /\ hdr' = Split(hdr, currentAlloc, size)
  /\ currentAlloc' = hdr'[currentAlloc].NextAlloc
  /\ live' = live \cup {[ptr |-> hdr'[currentAlloc'].PreviousAlloc + HdrSize, len |-> size]}
  /\ pc' = "idle"
  /\ size' = 0
  /\ depth' = 0

\* The block is too small: on to the loop.
MallocFails ==
  /\ pc = "malloc"
  /\ SplitResult(hdr, currentAlloc, size) # 0
  /\ pc' = "walk"
  /\ UNCHANGED <<hdr, currentAlloc, size, depth, live>>

\* One test of the loop condition, which reads NextAlloc->Reserved before it
\* compares NextAlloc with NULL: the next block when it is in use, else the
\* recursive call, which the stack may have no room for.
MallocWalks ==
  LET next == hdr[currentAlloc].NextAlloc
      skip == hdr[next].Reserved = 1 /\ next # NULL
  IN  /\ pc = "walk"
      /\ currentAlloc' = IF skip THEN next ELSE currentAlloc
      /\ pc' = IF skip THEN "walk" ELSE IF depth < MaxDepth THEN "malloc" ELSE "overflow"
      /\ depth' = IF skip \/ depth = MaxDepth THEN depth ELSE depth + 1
      /\ UNCHANGED <<hdr, size, live>>

\* Mutant: the freed block becomes the next one to split.
FreeRewinds(b) ==
  LET block == b.ptr - HdrSize
      freed == [hdr EXCEPT ![block].Reserved = 0]
  IN  /\ pc = "idle"
      /\ b \in live
      /\ hdr' = Merge(freed, block, freed[block].NextAlloc)
      /\ live' = live \ {b}
      /\ currentAlloc' = block
      /\ UNCHANGED <<pc, size, depth>>

\* The caller must own the block it frees.
Free(b) ==
  LET block == b.ptr - HdrSize
      freed == [hdr EXCEPT ![block].Reserved = 0]
  IN  /\ pc = "idle"
      /\ b \in live
      /\ hdr' = Merge(freed, block, freed[block].NextAlloc)
      /\ live' = live \ {b}
      /\ UNCHANGED <<currentAlloc, pc, size, depth>>

\* An owner fills its block; every header record that overlaps it changes.
UseBlock(b, junk) ==
  /\ pc = "idle"
  /\ b \in live
  /\ hdr' = [x \in Addr |-> IF Touches(x, b.ptr, b.len) THEN junk ELSE hdr[x]]
  /\ UNCHANGED <<currentAlloc, pc, size, depth, live>>

Next ==
  \/ \E n \in Sizes : Malloc(n)
  \/ MallocSplits
  \/ MallocFails
  \/ MallocWalks
  \/ \E b \in live : Free(b)
  \/ \E b \in live, junk \in Scribbles : UseBlock(b, junk)

Spec == Init /\ [][Next]_vars

-----------------------------------------------------------------------------
(* Properties.                                                              *)

\* Every variable of memory.c keeps its C type.
TypeOK ==
  /\ hdr \in [Addr -> Header]
  /\ currentAlloc \in Addr
  /\ pc \in {"idle", "malloc", "walk", "overflow"}
  /\ size \in Addr
  /\ depth \in 0 .. MaxDepth
  /\ live \subseteq [ptr : Addr, len : Addr]

\* The bytes of a block, header included, are those from Start to End - 1.
Start(b) == b.ptr - HdrSize
End(b) == b.ptr + b.len

\* malloc never hands out a byte twice: the blocks in use, their headers
\* included, lie apart from each other, inside the region the heap was given,
\* and clear of the header under currentAlloc, which the next split rewrites.
LiveDisjoint ==
  \A b \in live :
    /\ HeadBase <= Start(b)
    /\ End(b) <= currentAlloc /\ currentAlloc + HdrSize <= HeapEnd
    /\ \A c \in live \ {b} : End(b) <= Start(c) \/ End(c) <= Start(b)

\* Neither a split, a merge of a neighbour, nor the owners' own writes disturb
\* the header of a block in use: it is marked Reserved, so no merge absorbs it,
\* and its Size and NextAlloc still describe it when it is freed.
LiveIntact ==
  \A b \in live :
    /\ hdr[Start(b)].Reserved = 1
    /\ hdr[Start(b)].Size = b.len
    /\ hdr[Start(b)].NextAlloc = End(b)

\* The cursor describes all the memory that is left, whatever free merged
\* behind its back: no merge or write may resize or reserve it, and the bytes
\* before it are never given out again.
CursorIntact ==
  /\ hdr[currentAlloc].Reserved = 0
  /\ currentAlloc + HdrSize + hdr[currentAlloc].Size = HeapEnd

\* Nothing rewinds the heap: a step leaves currentAlloc or moves it past at
\* least one whole header.  So memory that is freed, merged or not, is never
\* handed out again, for all that free does with it.
NothingReused ==
  [][currentAlloc' # currentAlloc => currentAlloc' >= currentAlloc + HdrSize]_vars

\* Malloc and free keep what an allocator promises its callers.
Promised == INSTANCE Allocator WITH
  taken <- live, Lo <- HeadBase, Hi <- HeapEnd, Lengths <- Sizes
KeepsPromise == Promised!Spec

\* memory.c:257-259 says of malloc that it "RETURNS IMMEDIATELY IF SPLIT
\* FUNCITON DOES NOT RETURN A 0".
ReturnsIfSplitFails ==
  [][pc = "malloc" /\ SplitResult(hdr, currentAlloc, size) # 0 => pc' = "idle"]_vars
=============================================================================
