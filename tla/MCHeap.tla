------------------------------- MODULE MCHeap --------------------------------
(* A heap of 16 bytes with two-byte headers, a second region behind it, and *)
(* memory that boots full of reserved-looking junk.  What the owners write  *)
(* looks like a header in use that leads back to the start of the heap, or  *)
(* like a large free one.                                                   *)
EXTENDS Heap

MCBoot ==
  [x \in Addr |-> [PreviousAlloc |-> 0, NextAlloc |-> 0, Reserved |-> 1, Size |-> 5]]

MCScribbles ==
  {[PreviousAlloc |-> 0, NextAlloc |-> HeadBase, Reserved |-> 1, Size |-> 0],
   [PreviousAlloc |-> 0, NextAlloc |-> NextRegion, Reserved |-> 0, Size |-> HeadSize]}
=============================================================================
