------------------------------ MODULE Allocator ------------------------------
(***************************************************************************)
(* What a caller of malloc and free may rely on, whatever the bookkeeping   *)
(* behind them: a set of blocks handed out, each a run of Len bytes inside  *)
(* the heap, and no byte handed out twice while its first owner holds it.   *)
(* It says nothing of headers, of the order in which addresses are given    *)
(* out, or of when a request is granted.                                    *)
(***************************************************************************)
EXTENDS Integers

CONSTANTS
  Lo, Hi,   (* the heap is the addresses Lo .. Hi - 1 *)
  Lengths   (* the lengths a caller may ask for       *)

VARIABLE taken  (* the blocks the callers hold, [ptr, len] records *)

Block == [ptr : Lo .. Hi, len : Lengths]

\* Two blocks the caller can use independently.  Distinct pointers matter for
\* empty blocks: free is told nothing but the pointer.
Apart(b, c) == b.ptr # c.ptr /\ (b.ptr + b.len <= c.ptr \/ c.ptr + c.len <= b.ptr)

Init == taken = {}

Grant(b) ==
  /\ b.ptr + b.len <= Hi
  /\ \A c \in taken : Apart(b, c)
  /\ taken' = taken \cup {b}

Release(b) ==
  /\ b \in taken
  /\ taken' = taken \ {b}

Next == \E b \in Block : Grant(b) \/ Release(b)

Spec == Init /\ [][Next]_taken
=============================================================================
