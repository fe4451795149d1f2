------------------------------- MODULE Kernel ---------------------------------
(***************************************************************************)
(* The kernel from the entry of main to the tasks: main installs the        *)
(* interrupt machinery and the tasks with interrupts off, enables them and  *)
(* returns to the endless loop of boot.asm.  From then on all of it runs in *)
(* interrupt handlers: the timer interrupt counts ticks and, every Period   *)
(* ticks, calls the scheduler, which calls a task's function inside the     *)
(* handler and with interrupts off.                                         *)
(*                                                                          *)
(* What the keyboard and disk handlers do beyond their end of interrupt,    *)
(* and what the steps of main that only set up the screen, the heap and the *)
(* disks do, touches none of this state.                                    *)
(***************************************************************************)
EXTENDS Interrupts, Tasks

CONSTANT Period  (* ticks between two runs of the scheduler, 18 in the source *)

ASSUME KernelAssumption == Period \in Nat \ {0}

VARIABLES
  boot,    (* the step of main that runs next               *)
  ticks,   (* timer_ticks, modulo Period                    *)
  fired    (* ghost: how often the timer fired since sti, modulo Period *)

kernelVars == <<boot, ticks, fired>>
vars == <<intVars, taskVars, kernelVars>>

\* Mutant: interrupts are enabled before the tasks exist.
MainEnablesEarly == <<"idt_install", "isrs_install", "irq_install", "timer_install",
                      "keyboard_install", "ata_install", "sti", "create_task_manager",
                      "task_create", "add_task", "jmp $">>

\* main, in order; its first two steps, vga_init and memory_init, leave this
\* state alone.  add_tests creates the tasks, then adds one at a time.
Main == <<"idt_install", "isrs_install", "irq_install", "timer_install",
          "keyboard_install", "ata_install", "create_task_manager",
          "task_create", "add_task", "sti", "jmp $">>
Step == Main[boot]
Booted == Step = "jmp $"

Init ==
  /\ IntInit
  /\ TaskInit
  /\ boot = 1
  /\ ticks = 0
  /\ fired = 0

-----------------------------------------------------------------------------
(* Devices.                                                                 *)

\* The timer never stops.  Its period is 55 ms: between two of its pulses the
\* CPU takes a request it may take and ends a handler, but not the boot with
\* interrupts off, nor a task's function, which may take any time.
LongRunning ==
  \/ frames = <<>> /\ ~iflag
  \/ frames # <<>> /\ frames[1].at \in {"body", "resumed", "faulted", "wild", "reset"}

TimerFires ==
  /\ 0 \in irr => LongRunning
  /\ Raise(0)
  /\ fired' = IF Booted THEN (fired + 1) % Period ELSE fired
  /\ UNCHANGED <<taskVars, boot, ticks>>

DeviceRaises(l) ==
  /\ l # 0 /\ l \notin irr
  /\ Raise(l)
  /\ UNCHANGED <<taskVars, kernelVars>>

-----------------------------------------------------------------------------
(* main.  Interrupts are off until sti, so no handler is ever under way.    *)

Runs(step) == frames = <<>> /\ Step = step
NextStep == boot' = boot + 1

InstallsInterrupts ==
  /\ \/ Runs("idt_install") /\ IdtInstall
     \/ Runs("isrs_install") /\ IsrsInstall
     \/ Runs("irq_install") /\ IrqInstall
  /\ NextStep
  /\ UNCHANGED <<taskVars, ticks, fired>>

InstallsHandlers ==
  /\ \/ Runs("timer_install") /\ IrqInstallHandlers([l \in {0} |-> "timer_handler"])
     \/ Runs("keyboard_install") /\ IrqInstallHandlers([l \in {1} |-> "keyboard_handler"])
     \/ Runs("ata_install") /\ IrqInstallHandlers(
          [l \in {14, 15} |-> IF l = 14 THEN "_primary_irq" ELSE "_secondary_irq"])
  /\ NextStep
  /\ UNCHANGED <<taskVars, ticks, fired>>

InstallsTasks ==
  /\ \/ Runs("create_task_manager") /\ \E junk \in Junk : CreateTaskManager(junk)
     \/ Runs("task_create") /\ TaskCreate
  /\ NextStep
  /\ UNCHANGED <<intVars, ticks, fired>>

\* add_tests adds the tasks it created in the order of their pids.
AddsTask ==
  /\ Runs("add_task")
  /\ \E p \in Pids, i \in Starts :
       /\ state[p] = "NEW" /\ \A q \in Pids : q < p => state[q] # "NEW"
       /\ AddTask(p, i)
       /\ boot' = IF p = NumTests - 1 THEN boot + 1 ELSE boot
  /\ UNCHANGED <<intVars, ticks, fired>>

EnablesInterrupts ==
  /\ Runs("sti")
  /\ Sti
  /\ NextStep
  /\ fired' = IF 0 \in irr THEN 1 % Period ELSE 0
  /\ UNCHANGED <<taskVars, ticks>>

-----------------------------------------------------------------------------
(* Interrupts.                                                              *)

Accepts ==
  /\ \E l \in Lines : Accept(l) \/ AcceptSpurious(l)
  /\ UNCHANGED <<taskVars, kernelVars>>

RunsStub == Stub /\ UNCHANGED <<taskVars, kernelVars>>
RunsFaultHandler == FaultHandler /\ UNCHANGED <<taskVars, kernelVars>>
SendsEoi == IrqEoi /\ UNCHANGED <<taskVars, kernelVars>>
Returns == Iret /\ UNCHANGED <<taskVars, kernelVars>>

Handler == irq_routines[Top.vec - 32]
Dispatches(to) == At("handler") /\ Top.vec >= 32 /\ Handler = to

\* irq_handler without a handler, and the handlers that leave this state alone.
PassesOver ==
  /\ Dispatches("none") \/ Dispatches("keyboard_handler")
  /\ Goto("eoi")
  /\ UNCHANGED <<irr, isr, remapped, gates, irq_routines, iflag, esp, taskVars, kernelVars>>

\* The disk handlers send an end of interrupt of their own for their line.
AtaHandler(to, l) ==
  /\ Dispatches(to)
  /\ isr' = SendEoi(l, isr)
  /\ Goto("eoi")
  /\ UNCHANGED <<irr, remapped, gates, irq_routines, iflag, esp, taskVars, kernelVars>>

\* Mutant: the last task does not count.
SchedulerRunsLeavingOne(tick) == tick = 0 /\ rem_tasks > 1 /\ num_tasks > 0

SchedulerRuns(tick) == tick = 0 /\ rem_tasks > 0 /\ num_tasks > 0

\* timer_handler and the scheduler up to the call of the current task.
TimerHandler ==
  LET tick == (ticks + 1) % Period
  IN  /\ Dispatches("timer_handler")
      /\ ticks' = tick
      /\ Goto(IF ~SchedulerRuns(tick) THEN "eoi" ELSE IF IsTask(Current) THEN "body" ELSE "wild")
      /\ UNCHANGED <<irr, isr, remapped, gates, irq_routines, iflag, esp, taskVars, boot, fired>>

-----------------------------------------------------------------------------
(* A task's function, called by the scheduler.                              *)

\* It returns to the scheduler.
TaskReturns ==
  /\ At("body") \/ At("resumed")
  /\ Goto("after")
  /\ UNCHANGED <<irr, isr, remapped, gates, irq_routines, iflag, esp, taskVars, kernelVars>>

SchedulerResumes ==
  /\ At("after")
  /\ AfterRun
  /\ Goto("eoi")
  /\ UNCHANGED <<irr, isr, remapped, gates, irq_routines, iflag, esp, kernelVars>>

\* It traps (once, as a bound) and then goes on.
TaskTraps ==
  /\ At("body")
  /\ \E vec \in Traps : Enter(vec, [frames EXCEPT ![Len(frames)].at = "resumed"])
  /\ UNCHANGED <<irr, isr, remapped, gates, irq_routines, taskVars, kernelVars>>

\* It faults; the handler returns to the instruction that faults.
TaskFaults ==
  /\ At("body") \/ At("faulted")
  /\ \E vec \in Faults : Enter(vec, [frames EXCEPT ![Len(frames)].at = "faulted"])
  /\ UNCHANGED <<irr, isr, remapped, gates, irq_routines, taskVars, kernelVars>>

-----------------------------------------------------------------------------

RunsMain ==
  InstallsInterrupts \/ InstallsHandlers \/ InstallsTasks \/ AddsTask \/ EnablesInterrupts

RunsHandler ==
  \/ RunsStub \/ RunsFaultHandler \/ SendsEoi \/ Returns
  \/ PassesOver
  \/ AtaHandler("_primary_irq", 14)
  \/ AtaHandler("_secondary_irq", 15)
  \/ TimerHandler

RunsTask == TaskReturns \/ SchedulerResumes \/ TaskTraps \/ TaskFaults

CpuStep == RunsMain \/ Accepts \/ RunsHandler \/ RunsTask

Next ==
  \/ TimerFires
  \/ \E l \in Lines : DeviceRaises(l)
  \/ CpuStep

\* The CPU never stops (there is no hlt on any path) and neither does the timer.
Fairness == WF_vars(CpuStep) /\ WF_vars(TimerFires)

Spec == Init /\ [][Next]_vars /\ Fairness

-----------------------------------------------------------------------------
(* Properties.                                                              *)

\* Every variable keeps its type: no counter of the task manager leaves the
\* array and no handler leaves the states its code has.
TypeOK ==
  /\ IntTypeOK
  /\ TaskTypeOK
  /\ boot \in DOMAIN Main
  /\ ticks \in 0 .. Period - 1
  /\ fired \in 0 .. Period - 1

\* One interrupt at a time: no request is taken while a handler, the scheduler
\* or a task runs, and only an exception nests on top.  The controllers hold
\* in service at most the line being handled, so every end of interrupt, the
\* doubled ones of the disk handlers and those after a spurious interrupt
\* included, dismisses that line and never another, and none stays behind.
OneInterrupt ==
  /\ \A i \in DOMAIN frames : ~iflag /\ (i > 1 => frames[i].vec < 32)
  /\ Len(frames) <= 2
  /\ isr \subseteq IF frames = <<>> THEN {} ELSE ServiceBits(frames[1].vec - 32)
  /\ At("iret") /\ Len(frames) = 1 => isr = {}

\* Every iret pops the return address the CPU pushed, whatever vector came in
\* and whether or not the CPU pushed an error code with it, and the idle loop
\* finds the stack as it left it.
ReturnsWhereInterrupted ==
  /\ At("iret") => esp - DroppedWords = Top.sp
  /\ frames = <<>> => esp = 0

\* No interrupt finds the machinery half built: when the first one is taken the
\* controllers are remapped clear of the exceptions, every line has its gate and
\* every device its handler, and the task manager timer_handler reads is there.
MachineryReady ==
  iflag \/ frames # <<>> =>
    /\ remapped
    /\ 0 .. 47 \subseteq gates
    /\ \A l \in {0, 1, 14, 15} : irq_routines[l] # "none"
    /\ \A p \in Pids : state[p] \notin {"none", "NEW"}

\* Where add_tests puts the tasks when the array was clear and the search
\* starts at the first slot.
WellPlaced == \A i \in Slots : tasks[i] = IF i \in Pids THEN i ELSE NULL

\* From there the scheduler's cursor, set by add_task from a pid and stepped and
\* wrapped against a count that never shrinks, is on a task that has not run
\* whenever there is one, and when there is none rem_tasks keeps the scheduler
\* from being called: no call ever goes through an empty slot.
NeverCallsEmptySlot ==
  [](Step = "sti" /\ WellPlaced => [](frames # <<>> => frames[1].at # "wild"))

\* The manager keeps its promises even when the array or the index was garbage:
\* no task runs twice and rem_tasks is the number that are still to run.
Served(p) == \E i \in DOMAIN ran : ran[i] = p
Service == INSTANCE TaskService WITH
  Tasks <- Pids,
  waiting <- {p \in Pids : state[p] \notin {"none", "NEW"} /\ ~Served(p)},
  finished <- ran,
  left <- rem_tasks
RunsTasksOnce == Service!Spec

\* A task that faults, or a call through a slot that holds no task.
Stuck == frames # <<>> /\ frames[1].at \in {"wild", "faulted"}

\* If add_tests placed the tasks well, every task runs unless one of them faults.
AllTasksRun ==
  (Step = "sti" /\ WellPlaced) ~> (Stuck \/ \A p \in Pids : Served(p))

\* Whatever the other lines do, a timer interrupt is always followed by another:
\* the kernel comes back to the idle loop and takes it, unless a task faulted or
\* a call went through an empty slot.
TimerKeepsTicking ==
  \A t \in 0 .. Period - 1 : (Booted /\ ticks = t /\ Period > 1) ~> (ticks # t \/ Stuck)

\* isr.c:135: "Right now, we simply halt the system by hitting an endless loop."
HaltsOnException ==
  [][At("iret") /\ Top.vec < 32 => UNCHANGED frames]_vars

\* timer.c:11-13: "We increment the 'timer_ticks' variable every time the timer
\* fires."  Once every request was handled the two counts agree.
CountsEveryTick == Booted /\ frames = <<>> /\ 0 \notin irr => ticks = fired

\* multithreading.c:51: "ADDS TASK TO TASK ARRAY OF MANAGER".
AddsToArray ==
  \A p \in Pids : state[p] = "READY" /\ ~Served(p) => \E i \in Slots : tasks[i] = p
=============================================================================
