----------------------------- MODULE TaskService ------------------------------
(***************************************************************************)
(* What the task manager promises whoever adds a task: a task is admitted   *)
(* once, and once admitted it is run to its end at most once.  The count of *)
(* the tasks that are left is exact at every moment.                        *)
(***************************************************************************)
EXTENDS Integers, Sequences, FiniteSets

CONSTANT Tasks

VARIABLES
  waiting,   (* tasks admitted and not finished    *)
  finished,  (* tasks that finished, in order      *)
  left       (* the count the manager shows        *)

serviceVars == <<waiting, finished, left>>

Init == waiting = {} /\ finished = <<>> /\ left = 0

Admit(t) ==
  /\ t \notin waiting /\ \A i \in 1 .. Len(finished) : finished[i] # t
  /\ waiting' = waiting \cup {t}
  /\ left' = left + 1
  /\ UNCHANGED finished

Finish(t) ==
  /\ t \in waiting
  /\ waiting' = waiting \ {t}
  /\ finished' = Append(finished, t)
  /\ left' = left - 1

Next == \E t \in Tasks : Admit(t) \/ Finish(t)

Spec == Init /\ [][Next]_serviceVars
=============================================================================
