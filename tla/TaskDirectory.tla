---------------------------- MODULE TaskDirectory ----------------------------
(***************************************************************************)
(* The operations of multithreading.c that take a pid, remove_task_by_pid   *)
(* and get_task, over task_manager_binary_search of algorithms.c, and       *)
(* clear_manager, on the task manager of Tasks while tasks are added and    *)
(* run.  A search step is one turn of its loop, which reads the pid through *)
(* the slot in the middle, whatever that slot holds.  Behind the array lie   *)
(* num_tasks and current_task, and behind these memory that is not modelled. *)
(***************************************************************************)
EXTENDS Tasks

CONSTANTS
  Word,      (* 2^32: unsigned arithmetic wraps                            *)
  MaxRuns    (* bound: tasks run and managers cleared                      *)

ASSUME DirectoryAssumption ==
  Word \in Nat /\ Word \div 4 > MaxTasks + 1 /\ MaxTasks > 2 /\ MaxRuns \in Nat

NotFound == MaxTasks - 1   \* 0xFF, which is also the last slot

VARIABLES
  call,          (* "none", "remove" or "get": the running call            *)
  pid,           (* of the call                                            *)
  start, end,    (* the range of the search                                *)
  result,        (* what the last search returned                          *)
  cleared        (* managers cleared                                       *)

searchVars == <<call, pid, start, end, result>>
vars == <<taskVars, searchVars, cleared>>

TypeOK ==
  /\ TaskTypeOK
  /\ call \in {"none", "remove", "get"} /\ pid \in 0 .. NumTests
  /\ {start, end, result} \subseteq 0 .. Word - 1
  /\ cleared \in 0 .. MaxRuns

Init ==
  /\ TaskInit /\ call = "none" /\ pid = 0 /\ start = 0 /\ end = 0 /\ result = 0 /\ cleared = 0

\* create_task_manager and task_create, then add_task in the order of the pids.
Adds ==
  /\ call = "none"
  /\ \/ state[0] = "none" /\ current_task = 0 /\ \E junk \in Junk : CreateTaskManager(junk)
     \/ state[0] = "none" /\ current_task = 255 /\ TaskCreate
     \/ \E p \in Pids, i \in Starts :
          /\ state[p] = "NEW" /\ \A q \in 0 .. p - 1 : state[q] # "NEW"
          /\ AddTask(p, i)
  /\ UNCHANGED <<searchVars, cleared>>

\* A turn of the scheduler that meets a task.
Runs ==
  /\ call = "none" /\ rem_tasks > 0 /\ current_task \in Slots /\ IsTask(Current)
  /\ Len(ran) < MaxRuns /\ num_tasks > 0 /\ AfterRun
  /\ UNCHANGED <<searchVars, cleared>>

\* clear_manager leaves rem_tasks alone.
Clears ==
  /\ call = "none" /\ cleared < MaxRuns /\ num_tasks # 0
  /\ tasks' = [i \in Slots |-> NULL] /\ num_tasks' = 0 /\ current_task' = 0
  /\ cleared' = cleared + 1
  /\ UNCHANGED <<rem_tasks, state, ran, searchVars>>

\* Mutant: the range ends at the last task and not one after it.
SearchesToLast(c, p) ==
  /\ call = "none" /\ state[0] # "none"
  /\ call' = c /\ pid' = p /\ start' = 0 /\ end' = (num_tasks - 1) % Word
  /\ UNCHANGED <<taskVars, result, cleared>>

\* remove_task_by_pid and get_task search the slots 0 .. num_tasks.
Searches(c, p) ==
  /\ call = "none" /\ state[0] # "none"
  /\ call' = c /\ pid' = p /\ start' = 0 /\ end' = num_tasks
  /\ UNCHANGED <<taskVars, result, cleared>>

Middle == (start + ((end - 1) % Word) \div 2) % Word

\* The word at which tasks[slot] is: its address takes four bytes a slot, and
\* wraps.
Cell(slot) == slot % (Word \div 4)

\* The pids a read through a slot may yield: any, through one that holds no
\* task or lies outside the array.
Seen(slot) ==
  IF Cell(slot) \in Slots /\ IsTask(tasks[Cell(slot)]) THEN {tasks[Cell(slot)]} ELSE 0 .. NumTests

\* The search returns to remove_task_by_pid, which stores NULL in the slot, be
\* it in the array or the counter behind it, or to get_task, which reads it.
Returns(slot) ==
  LET clears(cell) == call = "remove" /\ slot # NotFound /\ Cell(slot) = cell
  IN  /\ result' = slot /\ call' = "none"
      /\ tasks' = [i \in Slots |-> IF clears(i) THEN NULL ELSE tasks[i]]
      /\ num_tasks' = IF clears(MaxTasks) THEN 0 ELSE num_tasks
      /\ current_task' = IF clears(MaxTasks + 1) THEN 0 ELSE current_task
      /\ UNCHANGED <<rem_tasks, state, ran, pid, start, end>>

\* Mutant: the pid just looked at stays in the range.
NarrowsKeepingMiddle(seen) ==
  /\ IF seen < pid THEN start' = Middle /\ UNCHANGED end
                   ELSE end' = Middle /\ UNCHANGED start
  /\ UNCHANGED <<taskVars, call, pid, result>>

\* Mutant: the end does not wrap below zero.
NarrowsUnwrapped(seen) ==
  /\ IF seen < pid THEN start' = (Middle + 1) % Word /\ UNCHANGED end
                   ELSE end' = Middle - 1 /\ UNCHANGED start
  /\ UNCHANGED <<taskVars, call, pid, result>>

Narrows(seen) ==
  /\ IF seen < pid THEN start' = (Middle + 1) % Word /\ UNCHANGED end
                   ELSE end' = (Middle - 1) % Word /\ UNCHANGED start
  /\ UNCHANGED <<taskVars, call, pid, result>>

\* Mutant: the slot returned is the one after the middle.
FoundNext == Returns(Middle + 1)
Found == Returns(Middle)

SearchStep ==
  /\ call # "none"
  /\ \/ start > end /\ Returns(NotFound)
     \/ start <= end /\ \E seen \in Seen(Middle) : IF seen = pid THEN Found ELSE Narrows(seen)
  /\ UNCHANGED cleared

Next ==
  \/ Adds \/ Runs \/ Clears \/ SearchStep
  \/ \E p \in 0 .. NumTests : Searches("remove", p) \/ Searches("get", p)

Spec == Init /\ [][Next]_vars /\ WF_vars(SearchStep)

(***************************************************************************)
(* Whatever a search reads on its way, empty slots and memory outside the   *)
(* array included, a removal takes no task out of the array but the one     *)
(* with the pid it was given (algorithms.c:9, multithreading.c:93); through *)
(* memory outside it may still clear the manager's counters.                *)
(***************************************************************************)
RemovesOnlyAsked ==
  [][ call # "none" => \A i \in Slots : IsTask(tasks[i]) => tasks'[i] = tasks[i] \/ tasks[i] = pid ]_vars

\* At most two tasks, as add_tests adds, none of them run or removed.
Whole == num_tasks <= 2 /\ \A i \in 0 .. num_tasks - 1 : tasks[i] = i

(***************************************************************************)
(* Of the two tasks the kernel adds each is found in its slot while both    *)
(* are there.  With three the search for the first leaves the array:        *)
(* middle is start + (end - 1) / 2, not half way (algorithms.c:7).          *)
(***************************************************************************)
FindsBothTasks ==
  [][ Whole /\ call # "none" /\ call' = "none" /\ pid < num_tasks => result' = pid ]_vars

(***************************************************************************)
(* Such a search ends (algorithms.c:5).                                     *)
(***************************************************************************)
SearchEnds == Whole /\ call # "none" /\ pid < num_tasks ~> call = "none"
=============================================================================
