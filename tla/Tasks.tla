-------------------------------- MODULE Tasks ---------------------------------
(***************************************************************************)
(* The task manager of multithreading.c: an array of task pointers, a count *)
(* that only grows, and current_task, the slot the scheduler runs next,     *)
(* which add_task sets from a pid.  The tasks are those tests.c creates,    *)
(* with pids 0, 1, ... in the order they are added.                         *)
(*                                                                          *)
(* Two reads are undefined in C and are choices here.  create_task_manager  *)
(* does not clear the array malloc gave it: any set of slots in Junk may    *)
(* hold something that is no task.  add_task starts its search for a free   *)
(* slot at an index it never initialises: any value in Starts.              *)
(***************************************************************************)
EXTENDS Integers, Sequences, FiniteSets

CONSTANTS
  MaxTasks,  (* slots of the array, 256 in the source                     *)
  NumTests,  (* tasks add_tests creates, 2 in the source                  *)
  Junk,      (* the sets of slots that may hold garbage before add_tests  *)
  Starts     (* what add_task's index may start from                      *)

Slots == 0 .. MaxTasks - 1
Pids == 0 .. NumTests - 1
NULL == -1
Garbage == -2

\* The scheduler's cursor is a byte, and reaches every slot.
\* A search that starts in the array finds a slot in it: past its end lie the
\* manager's own counters.  One that starts outside is far outside.
ASSUME TasksAssumption ==
  /\ NumTests \in Nat \ {0} /\ MaxTasks \in 1 .. 256 /\ NumTests < MaxTasks
  /\ Junk \subseteq SUBSET Slots
  /\ Starts \subseteq Nat /\ MaxTasks \notin Starts
  /\ \A junk \in Junk, i \in Starts \cap Slots :
       Cardinality({k \in Slots \ junk : k >= i}) >= NumTests

VARIABLES
  tasks,        (* the array: a pid, NULL or Garbage                       *)
  num_tasks, current_task, rem_tasks,
  state,        (* of each task; "none" before task_create                 *)
  ran           (* ghost: the pids whose function returned, in order       *)

taskVars == <<tasks, num_tasks, current_task, rem_tasks, state, ran>>

States == {"none", "NEW", "READY", "RUNNING", "WAITING"}

TaskTypeOK ==
  /\ tasks \in [Slots -> Pids \cup {NULL, Garbage}]
  /\ num_tasks \in 0 .. NumTests
  /\ current_task \in 0 .. 255
  /\ rem_tasks \in 0 .. NumTests
  /\ state \in [Pids -> States]
  /\ ran \in Seq(Pids)

\* Before create_task_manager; rem_tasks is a global and starts at zero.
TaskInit ==
  /\ tasks = [i \in Slots |-> NULL]
  /\ num_tasks = 0
  /\ current_task = 0
  /\ rem_tasks = 0
  /\ state = [p \in Pids |-> "none"]
  /\ ran = <<>>

CreateTaskManager(junk) ==
  /\ tasks' = [i \in Slots |-> IF i \in junk THEN Garbage ELSE NULL]
  /\ num_tasks' = 0
  /\ current_task' = 255
  /\ UNCHANGED <<rem_tasks, state, ran>>

TaskCreate ==
  /\ state' = [p \in Pids |-> "NEW"]
  /\ UNCHANGED <<tasks, num_tasks, current_task, rem_tasks, ran>>

\* Where add_task's search from i ends.
FirstFree(i) ==
  CHOOSE k \in Slots : k >= i /\ tasks[k] = NULL /\ \A j \in i .. k - 1 : tasks[j] # NULL

AddTask(p, i) ==
  /\ num_tasks # MaxTasks
  /\ tasks' = IF i \in Slots THEN [tasks EXCEPT ![FirstFree(i)] = p] ELSE tasks
  /\ num_tasks' = num_tasks + 1
  /\ current_task' = p
  /\ state' = [state EXCEPT ![p] = "READY"]
  /\ rem_tasks' = rem_tasks + 1
  /\ UNCHANGED ran

\* The scheduler, up to the call through the current slot: what it calls.
Current == tasks[current_task]
IsTask(entry) == entry \in Pids

\* st with the state of the task in an entry set; through a slot that holds no
\* task the write lands outside the tasks.
SetState(st, entry, new) == IF IsTask(entry) THEN [st EXCEPT ![entry] = new] ELSE st

\* Mutant: the cursor runs on past the last task.
NextSlotNoWrap == current_task + 1

\* The cursor steps on, and wraps at the number of tasks ever added.
Wraps == current_task + 1 >= num_tasks
NextSlot == IF Wraps THEN (current_task + 1) % num_tasks ELSE current_task + 1

\* The task in the slot before the cursor gets WAITING, the one that ran
\* RUNNING, and when the cursor wraps the one past the last WAITING.
StatesAfterRun ==
  LET before == IF current_task = 0 THEN state
                ELSE SetState(state, tasks[current_task - 1], "WAITING")
      run    == SetState(before, Current, "RUNNING")
      past   == IF num_tasks = current_task THEN NULL ELSE tasks[num_tasks]
  IN  IF Wraps THEN SetState(run, past, "WAITING") ELSE run

\* Mutant: rem_tasks is not decremented.
AfterRunKeepsCount ==
  /\ state' = StatesAfterRun
  /\ tasks' = [tasks EXCEPT ![current_task] = NULL]
  /\ current_task' = NextSlot
  /\ ran' = Append(ran, Current)
  /\ UNCHANGED <<num_tasks, rem_tasks>>

\* The scheduler, once the call returned.
AfterRun ==
  /\ state' = StatesAfterRun
  /\ tasks' = [tasks EXCEPT ![current_task] = NULL]
  /\ rem_tasks' = rem_tasks - 1
  /\ current_task' = NextSlot
  /\ ran' = Append(ran, Current)
  /\ UNCHANGED num_tasks
=============================================================================
