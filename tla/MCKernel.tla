------------------------------- MODULE MCKernel -------------------------------
(* The timer, the keyboard and one disk; a division error, a protection      *)
(* fault, which comes with an error code, and a breakpoint; three tasks in   *)
(* an array of five; garbage in one slot or none; a search that starts at    *)
(* the first slot, the second, or outside the array.                         *)
EXTENDS Kernel

MCJunk == {{}, {0}}
=============================================================================
