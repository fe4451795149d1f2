-------------------------- MODULE TaskDirectoryProofs --------------------------
(***************************************************************************)
(* What the search of the task manager may be relied on for, however many   *)
(* slots and tasks there are and whatever it reads.                         *)
(***************************************************************************)
EXTENDS TaskDirectory, SequenceTheorems, TLAPS

LEMMA Sizes ==
  /\ MaxTasks \in Nat /\ MaxTasks > 2 /\ NumTests \in Nat /\ NumTests < MaxTasks
  /\ Word \in Nat /\ Word > 4 * MaxTasks /\ Word \div 4 \in Nat /\ Word \div 4 > MaxTasks + 1
<1>1. /\ MaxTasks \in Nat /\ MaxTasks > 2 /\ Word \in Nat /\ Word > 4 * MaxTasks
      /\ Word \div 4 \in Nat /\ Word \div 4 > MaxTasks + 1
  BY TasksAssumption, DirectoryAssumption
<1>2. NumTests \in Nat \ {0} /\ NumTests < MaxTasks  BY TasksAssumption, Zenon
<1>3. QED  BY <1>1, <1>2

LEMMA Bytes == NumTests <= 255
<1>1. NumTests \in Nat \ {0} /\ MaxTasks \in 1 .. 256 /\ NumTests < MaxTasks
  BY TasksAssumption, Zenon
<1>2. QED  BY <1>1

-----------------------------------------------------------------------------
(* The types.                                                               *)

\* Neither count passes the number of tasks added, which go in the order of
\* their pids.
CountInv ==
  /\ state[0] = "none" => num_tasks = 0 /\ rem_tasks = 0 /\ \A p \in Pids : state[p] = "none"
  /\ \A p \in Pids : state[p] = "NEW" => num_tasks <= p /\ rem_tasks <= p

TypeInv == TypeOK /\ CountInv

LEMMA SetStateKeeps ==
  ASSUME NEW st \in [Pids -> States], NEW entry, NEW new \in {"RUNNING", "WAITING"}
  PROVE  /\ SetState(st, entry, new) \in [Pids -> States]
         /\ \A p \in Pids : SetState(st, entry, new)[p] \in {st[p], "RUNNING", "WAITING"}
<1>1. CASE IsTask(entry)
  <2>1. SetState(st, entry, new) = [st EXCEPT ![entry] = new]  BY <1>1 DEF SetState
  <2>2. QED  BY <2>1 DEF States
<1>2. CASE ~IsTask(entry)
  <2>1. SetState(st, entry, new) = st  BY <1>2 DEF SetState
  <2>2. QED  BY <2>1
<1>3. QED  BY <1>1, <1>2

\* The run of a task makes no task new.
LEMMA StatesAfterRunKeeps ==
  ASSUME state \in [Pids -> States]
  PROVE  /\ StatesAfterRun \in [Pids -> States]
         /\ \A p \in Pids : StatesAfterRun[p] \in {state[p], "RUNNING", "WAITING"}
<1> DEFINE before == IF current_task = 0 THEN state
                     ELSE SetState(state, tasks[current_task - 1], "WAITING")
           run    == SetState(before, Current, "RUNNING")
           past   == IF num_tasks = current_task THEN NULL ELSE tasks[num_tasks]
           last   == SetState(run, past, "WAITING")
<1>1. before \in [Pids -> States] /\ \A p \in Pids : before[p] \in {state[p], "RUNNING", "WAITING"}
  <2>1. CASE current_task = 0  BY <2>1
  <2>2. CASE current_task # 0
    <3>1. before = SetState(state, tasks[current_task - 1], "WAITING")  BY <2>2
    <3> HIDE DEF before
    <3>2. QED  BY <3>1, SetStateKeeps
  <2>3. QED  BY <2>1, <2>2
<1> HIDE DEF before
<1>2. run \in [Pids -> States] /\ \A p \in Pids : run[p] \in {before[p], "RUNNING", "WAITING"}
  BY <1>1, SetStateKeeps
<1> HIDE DEF run, past
<1>3. last \in [Pids -> States] /\ \A p \in Pids : last[p] \in {run[p], "RUNNING", "WAITING"}
  BY <1>2, SetStateKeeps
<1>4. StatesAfterRun = IF Wraps THEN last ELSE run
  BY DEF StatesAfterRun, before, run, past
<1> HIDE DEF last
<1>5. QED  BY <1>1, <1>2, <1>3, <1>4

LEMMA TypeInit == Init => TypeInv
<1> SUFFICES ASSUME Init PROVE TypeInv  OBVIOUS
<1>1. /\ MaxRuns \in Nat /\ NumTests \in Nat /\ NumTests > 0
  BY Sizes, TasksAssumption, DirectoryAssumption
<1>2. TaskTypeOK
  <2>1. state \in [Pids -> States]  BY DEF Init, TaskInit, States
  <2>2. QED  BY <2>1, <1>1 DEF Init, TaskInit, TaskTypeOK
<1>3. TypeOK  BY <1>1, <1>2, Sizes DEF Init, TypeOK
<1>4. CountInv  BY DEF Init, TaskInit, CountInv
<1>5. QED  BY <1>3, <1>4 DEF TypeInv

LEMMA AddsTypes ==
  ASSUME TypeInv, Adds
  PROVE  TypeInv'
<1>1. /\ TaskTypeOK /\ CountInv /\ 0 \in Pids /\ Pids \subseteq Nat
      /\ NumTests \in Nat /\ NumTests <= 255
  <2>1. TaskTypeOK /\ CountInv  BY DEF TypeInv, TypeOK
  <2>2. NumTests \in Nat \ {0}  BY TasksAssumption
  <2>3. 0 \in Pids /\ Pids \subseteq Nat  BY <2>2 DEF Pids
  <2>4. QED  BY <2>1, <2>2, <2>3, Bytes
<1>2. UNCHANGED <<call, pid, start, end, result, cleared>>  BY DEF Adds, searchVars
<1>3. CASE state[0] = "none" /\ \E junk \in Junk : CreateTaskManager(junk)
  <2>1. tasks' \in [Slots -> Pids \cup {NULL, Garbage}] /\ num_tasks' = 0 /\ current_task' = 255
        /\ UNCHANGED <<rem_tasks, state, ran>>
    BY <1>3 DEF CreateTaskManager
  <2>2. rem_tasks = 0  BY <1>1, <1>3 DEF CountInv
  <2>3. TaskTypeOK' /\ CountInv'  BY <2>1, <2>2, <1>1 DEF TaskTypeOK, CountInv
  <2>4. QED  BY <2>3, <1>2 DEF TypeInv, TypeOK
<1>4. CASE state[0] = "none" /\ TaskCreate
  <2>1. /\ state' = [p \in Pids |-> "NEW"] /\ state' \in [Pids -> States]
        /\ UNCHANGED <<tasks, num_tasks, current_task, rem_tasks, ran>>
    BY <1>4 DEF TaskCreate, States
  <2>2. num_tasks = 0 /\ rem_tasks = 0  BY <1>1, <1>4 DEF CountInv
  <2>3. TaskTypeOK' /\ CountInv'  BY <2>1, <2>2, <1>1 DEF TaskTypeOK, CountInv
  <2>4. QED  BY <2>3, <1>2 DEF TypeInv, TypeOK
<1>5. ASSUME NEW p \in Pids, NEW i \in Starts, state[p] = "NEW",
             \A q \in 0 .. p - 1 : state[q] # "NEW", AddTask(p, i)
      PROVE  TypeInv'
  <2>1. p \in 0 .. NumTests - 1 /\ num_tasks <= p /\ rem_tasks <= p
        /\ num_tasks \in Nat /\ rem_tasks \in Nat
    BY <1>1, <1>5 DEF CountInv, TaskTypeOK, Pids
  <2>2. /\ tasks' \in [Slots -> Pids \cup {NULL, Garbage}]
        /\ num_tasks' = num_tasks + 1 /\ current_task' = p
        /\ rem_tasks' = rem_tasks + 1 /\ ran' = ran
        /\ state' = [state EXCEPT ![p] = "READY"]
    BY <1>1, <1>5 DEF AddTask, TaskTypeOK
  <2>3. /\ num_tasks' \in 0 .. NumTests /\ rem_tasks' \in 0 .. NumTests /\ current_task' \in 0 .. 255
        /\ num_tasks' <= p + 1 /\ rem_tasks' <= p + 1
    BY <1>1, <2>1, <2>2
  <2>4. /\ state' \in [Pids -> States] /\ state'[p] = "READY"
        /\ \A q \in Pids : q # p => state'[q] = state[q]
    <3>1. state \in [Pids -> States]  BY <1>1 DEF TaskTypeOK
    <3>2. QED  BY <2>2, <3>1 DEF States
  <2>5. TaskTypeOK'  BY <1>1, <2>2, <2>3, <2>4 DEF TaskTypeOK
  <2>6. state'[0] # "none"
    <3>1. CASE p = 0  BY <2>4, <3>1
    <3>2. CASE p # 0
      <4>1. state[0] # "none"  BY <1>1, <1>5 DEF CountInv
      <4>2. QED  BY <1>1, <2>4, <3>2, <4>1
    <3>3. QED  BY <3>1, <3>2
  <2>7. ASSUME NEW q \in Pids, state'[q] = "NEW"  PROVE num_tasks' <= q /\ rem_tasks' <= q
    <3>1. q # p /\ state[q] = "NEW"  BY <2>4, <2>7
    <3>2. q \in Nat /\ ~(q \in 0 .. p - 1)  BY <1>1, <1>5, <3>1
    <3>3. q >= p + 1  BY <2>1, <3>1, <3>2
    <3>4. QED  BY <2>1, <2>2, <2>3, <3>2, <3>3
  <2>8. CountInv'  BY <2>6, <2>7 DEF CountInv
  <2>9. QED  BY <2>5, <2>8, <1>2 DEF TypeInv, TypeOK
<1>6. QED  BY <1>3, <1>4, <1>5 DEF Adds

LEMMA RunsTypes ==
  ASSUME TypeInv, Runs
  PROVE  TypeInv'
<1>1. TaskTypeOK /\ CountInv /\ 0 \in Pids /\ NumTests \in Nat /\ NumTests <= 255
  <2>1. TaskTypeOK /\ CountInv  BY DEF TypeInv, TypeOK
  <2>2. NumTests \in Nat \ {0}  BY TasksAssumption
  <2>3. 0 \in Pids  BY <2>2 DEF Pids
  <2>4. QED  BY <2>1, <2>2, <2>3, Bytes
<1>2. UNCHANGED <<call, pid, start, end, result, cleared>>  BY DEF Runs, searchVars
<1>3. /\ rem_tasks > 0 /\ num_tasks > 0 /\ Current \in Pids /\ AfterRun
  BY DEF Runs, IsTask
<1>4. state' \in [Pids -> States] /\ \A p \in Pids : state'[p] \in {state[p], "RUNNING", "WAITING"}
  BY <1>1, <1>3, StatesAfterRunKeeps DEF AfterRun, TaskTypeOK
<1>5. /\ tasks' = [tasks EXCEPT ![current_task] = NULL] /\ rem_tasks' = rem_tasks - 1
      /\ num_tasks' = num_tasks /\ current_task' = NextSlot /\ ran' = Append(ran, Current)
  BY <1>3 DEF AfterRun
<1>6. tasks' \in [Slots -> Pids \cup {NULL, Garbage}]  BY <1>1, <1>5 DEF TaskTypeOK
<1>7. rem_tasks' \in 0 .. NumTests /\ rem_tasks' <= rem_tasks  BY <1>1, <1>3, <1>5 DEF TaskTypeOK
<1>8. current_task' \in 0 .. 255
  <2>1. num_tasks \in 1 .. NumTests /\ current_task \in 0 .. 255  BY <1>1, <1>3 DEF TaskTypeOK
  <2>2. \A c, n \in Nat : n > 0 => (c + 1) % n \in 0 .. n - 1  OBVIOUS
  <2>3. CASE Wraps
    <3>1. current_task' = (current_task + 1) % num_tasks  BY <2>3, <1>5 DEF NextSlot
    <3>2. current_task' \in 0 .. num_tasks - 1  BY <3>1, <2>1, <2>2
    <3>3. QED  BY <3>2, <2>1, <1>1
  <2>4. CASE ~Wraps
    <3>1. current_task' = current_task + 1 /\ ~(current_task + 1 >= num_tasks)
      BY <2>4, <1>5 DEF NextSlot, Wraps
    <3>2. QED  BY <3>1, <2>1, <1>1
  <2>5. QED  BY <2>3, <2>4
<1>9. ran' \in Seq(Pids)  BY <1>1, <1>3, <1>5, AppendProperties DEF TaskTypeOK
<1>10. TaskTypeOK'  BY <1>1, <1>4, <1>5, <1>6, <1>7, <1>8, <1>9 DEF TaskTypeOK
<1>11. CountInv'
  <2>1. state'[0] # "none"
    <3>1. state[0] # "none"  BY <1>1, <1>3 DEF CountInv
    <3>2. state'[0] \in {state[0], "RUNNING", "WAITING"}  BY <1>1, <1>4
    <3>3. QED  BY <3>1, <3>2
  <2>2. ASSUME NEW p \in Pids, state'[p] = "NEW" PROVE num_tasks' <= p /\ rem_tasks' <= p
    <3>1. state[p] = "NEW"  BY <2>2, <1>4
    <3>2. num_tasks <= p /\ rem_tasks <= p  BY <3>1, <1>1 DEF CountInv
    <3>3. p \in Nat /\ rem_tasks \in Nat /\ rem_tasks' \in Nat  BY <1>1, <1>7 DEF Pids, TaskTypeOK
    <3>4. QED  BY <1>5, <1>7, <3>2, <3>3
  <2>3. QED  BY <2>1, <2>2 DEF CountInv
<1>12. QED  BY <1>2, <1>10, <1>11 DEF TypeInv, TypeOK

LEMMA ClearsTypes ==
  ASSUME TypeInv, Clears
  PROVE  TypeInv'
<1>1. /\ TaskTypeOK /\ CountInv /\ cleared \in 0 .. MaxRuns /\ NumTests \in Nat /\ MaxRuns \in Nat
  BY Sizes, DirectoryAssumption DEF TypeInv, TypeOK
<1>2. /\ tasks' \in [Slots -> Pids \cup {NULL, Garbage}] /\ num_tasks' = 0 /\ current_task' = 0
      /\ cleared' \in 0 .. MaxRuns /\ num_tasks # 0
      /\ UNCHANGED <<rem_tasks, state, ran, call, pid, start, end, result>>
  BY <1>1 DEF Clears, searchVars
<1>3. state[0] # "none"  BY <1>1, <1>2 DEF CountInv
<1>4. Pids \subseteq Nat  BY DEF Pids
<1>5. TaskTypeOK' /\ CountInv'  BY <1>1, <1>2, <1>3, <1>4 DEF TaskTypeOK, CountInv
<1>6. QED  BY <1>1, <1>2, <1>5 DEF TypeInv, TypeOK

LEMMA SearchesTypes ==
  ASSUME TypeInv, NEW c \in {"remove", "get"}, NEW p \in 0 .. NumTests, Searches(c, p)
  PROVE  TypeInv'
<1>1. UNCHANGED taskVars /\ TaskTypeOK' /\ CountInv'
  BY DEF Searches, TypeInv, TypeOK, taskVars, TaskTypeOK, CountInv
<1>2. num_tasks \in 0 .. NumTests /\ {0, num_tasks} \subseteq 0 .. Word - 1
  BY Sizes DEF TypeInv, TypeOK, TaskTypeOK
<1>3. call' = c /\ pid' = p /\ start' = 0 /\ end' = num_tasks /\ UNCHANGED <<result, cleared>>
  BY DEF Searches
<1>4. QED  BY <1>1, <1>2, <1>3 DEF TypeInv, TypeOK

\* A turn of the search; its arithmetic wraps at a word.
LEMMA StepTypes ==
  ASSUME TypeInv, SearchStep
  PROVE  TypeInv'
<1>1. /\ TaskTypeOK /\ CountInv /\ {start, end, result} \subseteq 0 .. Word - 1
      /\ Word \in Nat /\ Word > 0
  BY Sizes DEF TypeInv, TypeOK
<1>2. \A w \in Nat, x \in Int : w > 0 => x % w \in 0 .. w - 1  OBVIOUS
<1>3. Middle \in 0 .. Word - 1
  <2>1. (end - 1) % Word \in Nat  BY <1>1, <1>2
  <2>2. \A n \in Nat : n \div 2 \in Nat  OBVIOUS
  <2>3. start + ((end - 1) % Word) \div 2 \in Int  BY <2>1, <2>2, <1>1
  <2>4. QED  BY <2>3, <1>1, <1>2 DEF Middle
<1>4. ASSUME NEW slot \in 0 .. Word - 1, Returns(slot), cleared' = cleared PROVE TypeInv'
  <2>1. tasks' \in [Slots -> Pids \cup {NULL, Garbage}]  BY <1>1, <1>4 DEF Returns, TaskTypeOK
  <2>2. /\ UNCHANGED <<rem_tasks, state, ran, pid, start, end>>
        /\ num_tasks' \in {num_tasks, 0} /\ current_task' \in {current_task, 0}
    BY <1>4 DEF Returns
  <2>3. Pids \subseteq Nat /\ NumTests \in Nat  BY Sizes DEF Pids
  <2>4. TaskTypeOK' /\ CountInv'  BY <2>1, <2>2, <2>3, <1>1 DEF TaskTypeOK, CountInv
  <2>5. QED  BY <2>2, <2>4, <1>4 DEF Returns, TypeInv, TypeOK
<1>5. CASE Returns(NotFound)
  <2>1. NotFound \in 0 .. Word - 1  BY Sizes DEF NotFound
  <2>2. QED  BY <2>1, <1>4, <1>5 DEF SearchStep
<1>6. CASE Found  BY <1>3, <1>4, <1>6 DEF Found, SearchStep
<1>7. CASE \E seen : Narrows(seen)
  <2>1. PICK seen : Narrows(seen)  BY <1>7
  <2>2. UNCHANGED <<taskVars, call, pid, result, cleared>>  BY <2>1 DEF Narrows, SearchStep
  <2>3. TaskTypeOK' /\ CountInv'  BY <2>2, <1>1 DEF taskVars, TaskTypeOK, CountInv
  <2>4. (Middle + 1) % Word \in 0 .. Word - 1 /\ (Middle - 1) % Word \in 0 .. Word - 1
    BY <1>1, <1>2, <1>3
  <2>5. start' \in 0 .. Word - 1 /\ end' \in 0 .. Word - 1  BY <2>1, <2>4, <1>1 DEF Narrows
  <2>6. QED  BY <2>2, <2>3, <2>5, <1>1 DEF TypeInv, TypeOK
<1>8. QED  BY <1>5, <1>6, <1>7 DEF SearchStep

(***************************************************************************)
(* However many tasks and slots there are, whatever the array held and      *)
(* whatever the searches read, the counts, the cursor, the array and the    *)
(* range of a search keep their types: rem_tasks, which clear_manager leaves *)
(* alone, never passes the number of tasks (multithreading.c:46-141).       *)
(***************************************************************************)
THEOREM Typing == Spec => []TypeOK
<1>1. TypeInv /\ [Next]_vars => TypeInv'
  <2> SUFFICES ASSUME TypeInv, [Next]_vars PROVE TypeInv'  OBVIOUS
  <2>1. CASE UNCHANGED vars
    BY <2>1 DEF vars, taskVars, searchVars, TypeInv, TypeOK, TaskTypeOK, CountInv
  <2>2. QED
    BY <2>1, AddsTypes, RunsTypes, ClearsTypes, SearchesTypes, StepTypes DEF Next
<1>2. TypeInv => TypeOK  BY DEF TypeInv
<1>3. QED  BY TypeInit, <1>1, <1>2, PTL DEF Spec
-----------------------------------------------------------------------------
(* The search.                                                              *)

\* The pid the search will see through slot i of a manager that is Whole is i,
\* so that it walks up from slot 0 until it is there.
Walk == start \in 0 .. pid /\ end = num_tasks
DirInv ==
  /\ TypeOK
  /\ call # "none" /\ Whole /\ pid < num_tasks => Walk

\* With one task or two, half of the range adds nothing to its start.
LEMMA MiddleIsStart ==
  ASSUME DirInv, Whole, Walk, pid < num_tasks
  PROVE  Middle = start
<1>1. num_tasks = 1 \/ num_tasks = 2  BY DEF DirInv, TypeOK, TaskTypeOK, Whole
<1>2. start = 0 \/ start = 1  BY <1>1 DEF Walk, DirInv, TypeOK
<1>3. Word \in Nat /\ Word > 8  BY Sizes
<1>4. \A w \in Nat : w > 8 => 0 % w = 0 /\ 1 % w = 1  OBVIOUS
<1>5. (end - 1) % Word = end - 1 /\ (end - 1 = 0 \/ end - 1 = 1)
  BY <1>1, <1>3, <1>4 DEF Walk
<1>6. ((end - 1) % Word) \div 2 = 0  BY <1>5
<1>7. start % Word = start  BY <1>2, <1>3, <1>4
<1>8. QED  BY <1>2, <1>6, <1>7 DEF Middle

\* What it sees there is the pid of that slot.
LEMMA SeesItsSlot ==
  ASSUME DirInv, Whole, Walk, pid < num_tasks
  PROVE  Seen(Middle) = {start} /\ start <= end
<1>1. start \in 0 .. num_tasks - 1 /\ start \in Slots /\ start \in Pids /\ start <= end
  BY Sizes DEF Walk, DirInv, TypeOK, TaskTypeOK, Slots, Pids
<1>2. tasks[start] = start  BY <1>1 DEF Whole
<1>3. Cell(start) = start
  <2>1. \A w, k \in Nat : k < w => k % w = k  OBVIOUS
  <2>2. start \in Nat /\ start < Word \div 4  BY <1>1, Sizes DEF Slots
  <2>3. QED  BY <2>1, <2>2, Sizes DEF Cell
<1>4. QED  BY <1>1, <1>2, <1>3, MiddleIsStart DEF Seen, IsTask

LEMMA DirInit == Init => DirInv
<1>1. Init => TypeOK  BY TypeInit DEF TypeInv
<1>2. QED  BY <1>1 DEF Init, DirInv

\* A search starts at slot 0 with the whole range before it.
LEMMA SearchesPreserves ==
  ASSUME TypeOK', DirInv, NEW c, NEW p \in 0 .. NumTests, Searches(c, p)
  PROVE  DirInv'
BY Sizes DEF Searches, taskVars, Walk, DirInv, TypeOK

\* A turn of the search steps up by one slot while it has not found the pid.
LEMMA StepPreserves ==
  ASSUME TypeOK', DirInv, SearchStep
  PROVE  DirInv'
<1>1. CASE \E slot : Returns(slot)  BY <1>1 DEF Returns, DirInv
<1>2. CASE start <= end /\ \E seen \in Seen(Middle) : seen # pid /\ Narrows(seen)
  <2>1. PICK seen \in Seen(Middle) : seen # pid /\ Narrows(seen)  BY <1>2
  <2>2. UNCHANGED <<tasks, num_tasks, pid, call>>  BY <2>1 DEF Narrows, taskVars
  <2>3. ASSUME call # "none", Whole, pid < num_tasks  PROVE Walk'
    <3>1. Walk  BY <2>3 DEF DirInv
    <3>2. seen = start /\ Middle = start
      BY <2>1, <2>3, <3>1, SeesItsSlot, MiddleIsStart
    <3>3. start \in Nat /\ pid \in Nat /\ start < pid /\ pid < Word - 1
      BY <2>1, <2>3, <3>1, <3>2, Sizes DEF Walk, DirInv, TypeOK, TaskTypeOK
    <3>4. \A w, s \in Nat : s + 1 < w => (s + 1) % w = s + 1  OBVIOUS
    <3>5. start' = start + 1 /\ end' = end
      BY <2>1, <3>2, <3>3, <3>4, Sizes DEF Narrows
    <3>6. QED  BY <2>2, <3>1, <3>3, <3>5 DEF Walk
  <2>4. QED  BY <2>2, <2>3 DEF DirInv, Whole
<1>3. QED  BY <1>1, <1>2 DEF SearchStep, Found

LEMMA Invariance == Spec => []DirInv
<1>1. DirInv /\ TypeOK' /\ [Next]_vars => DirInv'
  <2> SUFFICES ASSUME DirInv, TypeOK', [Next]_vars PROVE DirInv'  OBVIOUS
  <2>1. CASE UNCHANGED vars
    BY <2>1 DEF vars, taskVars, searchVars, DirInv, Whole, Walk
  <2>2. CASE Adds \/ Runs \/ Clears
    <3>1. call' = "none"  BY <2>2 DEF Adds, Runs, Clears, searchVars
    <3>2. QED  BY <3>1 DEF DirInv
  <2>3. QED  BY <2>1, <2>2, SearchesPreserves, StepPreserves DEF Next
<1>2. QED  BY DirInit, Typing, <1>1, PTL DEF Spec

(***************************************************************************)
(* Whatever a search reads on its way, a removal takes no task out of the   *)
(* array but the one with the pid it was given (multithreading.c:82-95).    *)
(***************************************************************************)
THEOREM Removal == Spec => RemovesOnlyAsked
<1>1. DirInv /\ [Next]_vars =>
        [call # "none" => \A i \in Slots :
            IsTask(tasks[i]) => tasks'[i] = tasks[i] \/ tasks[i] = pid]_vars
  <2> SUFFICES ASSUME DirInv, Next, call # "none",
                      NEW i \in Slots, IsTask(tasks[i]), tasks[i] # pid
               PROVE  tasks'[i] = tasks[i]
    OBVIOUS
  <2>1. SearchStep  BY DEF Next, Adds, Runs, Clears, Searches
  <2>2. CASE Returns(NotFound)  BY <2>2 DEF Returns
  <2>3. CASE pid \in Seen(Middle) /\ Returns(Middle)
    <3>1. i # Cell(Middle)  BY <2>3 DEF Seen
    <3>2. QED  BY <2>3, <3>1 DEF Returns
  <2>4. CASE \E seen : Narrows(seen)  BY <2>4 DEF Narrows, taskVars
  <2>5. QED  BY <2>1, <2>2, <2>3, <2>4 DEF SearchStep, Found
<1>2. QED  BY <1>1, Invariance, PTL DEF Spec, RemovesOnlyAsked

(***************************************************************************)
(* With one task or two, each is found in its slot while they are all there *)
(* (algorithms.c:3-22).                                                     *)
(***************************************************************************)
THEOREM Finding == Spec => FindsBothTasks
<1>1. DirInv /\ [Next]_vars =>
        [Whole /\ call # "none" /\ call' = "none" /\ pid < num_tasks => result' = pid]_vars
  <2> SUFFICES ASSUME DirInv, Next, Whole, call # "none", call' = "none", pid < num_tasks
               PROVE  result' = pid
    OBVIOUS
  <2>1. Walk  BY DEF DirInv
  <2>2. Seen(Middle) = {start} /\ start <= end /\ Middle = start
    BY <2>1, SeesItsSlot, MiddleIsStart
  <2>3. SearchStep  BY DEF Next, Adds, Runs, Clears, Searches
  <2>4. start = pid /\ Returns(Middle)
    <3>1. ~(start > end)  BY <2>1, <2>2 DEF Walk, DirInv, TypeOK, TaskTypeOK
    <3>2. QED  BY <2>2, <2>3, <3>1 DEF SearchStep, Found, Narrows
  <2>5. QED  BY <2>2, <2>4 DEF Returns
<1>2. QED  BY <1>1, Invariance, PTL DEF Spec, FindsBothTasks
=============================================================================
