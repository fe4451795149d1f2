----------------------------- MODULE KernelProofs -----------------------------
(***************************************************************************)
(* What interrupts and the task manager may rely on, whatever lines, faults  *)
(* and traps there are, however many slots and tasks, and whatever period.   *)
(*                                                                          *)
(* The inductive invariant says how far main has come (BootInv), what the    *)
(* handlers that have not returned hold on the stack and in the controllers  *)
(* (FrameInv), what main has added to the array (AddedInv), and which slots  *)
(* are taken and how many tasks are left to run (SlotInv).                  *)
(***************************************************************************)
EXTENDS Kernel, SequenceTheorems, FiniteSetTheorems, TLAPS

\* How far main has come, and what is in place by then.
BootInv ==
  /\ boot \in 1 .. 11
  /\ boot < 11 => ~iflag /\ frames = <<>>
  /\ boot > 2 => 0 .. 31 \subseteq gates
  /\ boot > 3 => remapped /\ 0 .. 47 \subseteq gates
  /\ boot > 4 => irq_routines[0] # "none"
  /\ boot > 5 => irq_routines[1] # "none"
  /\ boot > 6 => irq_routines[14] # "none" /\ irq_routines[15] # "none"

\* The words on the stack where an exception handler is: eight of the timer's
\* handler under it, and what the CPU and then its stub pushed.
FaultWords(f) ==
  IF f.at # "stub" THEN 10 ELSE IF CpuPushesCode(f.vec) THEN 9 ELSE 8

\* The outermost handler is an interrupt's: at its entry the stack was empty.
Interrupted ==
  /\ ~iflag /\ frames[1].iflag
  /\ frames[1].vec \in 32 .. 47 /\ frames[1].sp = 3
  /\ isr \subseteq ServiceBits(frames[1].vec - 32)

OneFrame ==
  /\ frames[1].at # "reset"
  /\ esp = IF frames[1].at = "stub" THEN 3 ELSE 5
  /\ frames[1].at = "iret" => isr = {}

\* One on top of it is an exception's, of the task that runs in it.
TwoFrames ==
  /\ frames[1].at \in {"resumed", "faulted"}
  /\ frames[2].vec \in 0 .. 31 /\ frames[2].at \in {"stub", "handler", "iret"}
  /\ frames[2].sp = 8 /\ ~frames[2].iflag
  /\ esp = FaultWords(frames[2])

FrameInv ==
  /\ Len(frames) <= 2
  /\ Len(frames) = 0 => esp = 0 /\ isr = {}
  /\ Len(frames) > 0 => Interrupted
  /\ Len(frames) = 1 => OneFrame
  /\ Len(frames) = 2 => TwoFrames

\* A task that was added and has not run to its end.
Waiting == {p \in Pids : state[p] \notin {"none", "NEW"} /\ ~Served(p)}
InTask == Len(frames) > 0 /\ frames[1].at \in {"body", "resumed", "faulted", "after"}

\* The slots hold waiting tasks, each once at most, and the scheduler is under
\* way only in a slot that holds one.
SlotInv ==
  /\ \A i \in Slots : tasks[i] \in Pids => tasks[i] \in Waiting
  /\ \A i, j \in Slots : tasks[i] \in Pids /\ tasks[i] = tasks[j] => i = j
  /\ rem_tasks = Cardinality(Waiting)
  /\ InTask => IsTask(Current)

\* What main has done with the tasks.
AddedInv ==
  /\ boot < 9 => num_tasks = 0 /\ ran = <<>> /\ \A p \in Pids : state[p] = "none"
  /\ boot = 9 => /\ num_tasks < NumTests /\ ran = <<>>
                 /\ \A p \in Pids : state[p] = IF p < num_tasks THEN "READY" ELSE "NEW"
  /\ boot = 10 => current_task = NumTests - 1 /\ ran = <<>>
  /\ boot > 9 => /\ num_tasks = NumTests /\ current_task \in 0 .. NumTests - 1
                 /\ \A p \in Pids : state[p] \notin {"none", "NEW"}

KInv == TypeOK /\ BootInv /\ FrameInv /\ AddedInv /\ SlotInv

-----------------------------------------------------------------------------
(* The constants, the steps of main, and the frames.                        *)

LEMMA Sizes ==
  /\ NumTests \in Nat \ {0} /\ MaxTasks \in Nat /\ NumTests < MaxTasks
  /\ NumTests <= 255
  /\ Period \in Nat \ {0}
  /\ Lines \subseteq 0 .. 15 /\ Cascade \notin Lines /\ 0 \in Lines
  /\ Faults \subseteq 0 .. 31 /\ Traps \subseteq 0 .. 31
<1>1. NumTests \in Nat \ {0} /\ MaxTasks \in 1 .. 256 /\ NumTests < MaxTasks
  BY TasksAssumption, Zenon
<1>2. QED  BY <1>1, KernelAssumption, InterruptsAssumption DEF Cascade

LEMMA MainSteps ==
  ASSUME boot \in 1 .. 11
  PROVE  /\ DOMAIN Main = 1 .. 11
         /\ Step = "idt_install" <=> boot = 1
         /\ Step = "isrs_install" <=> boot = 2
         /\ Step = "irq_install" <=> boot = 3
         /\ Step = "timer_install" <=> boot = 4
         /\ Step = "keyboard_install" <=> boot = 5
         /\ Step = "ata_install" <=> boot = 6
         /\ Step = "create_task_manager" <=> boot = 7
         /\ Step = "task_create" <=> boot = 8
         /\ Step = "add_task" <=> boot = 9
         /\ Step = "sti" <=> boot = 10
<1>1. /\ Main[1] = "idt_install" /\ Main[2] = "isrs_install" /\ Main[3] = "irq_install"
      /\ Main[4] = "timer_install" /\ Main[5] = "keyboard_install" /\ Main[6] = "ata_install"
      /\ Main[7] = "create_task_manager" /\ Main[8] = "task_create" /\ Main[9] = "add_task"
      /\ Main[10] = "sti"
  BY DEF Main
<1>2. DOMAIN Main = 1 .. 11  BY DEF Main
<1>3. Main[11] \notin {"idt_install", "isrs_install", "irq_install", "timer_install",
                     "keyboard_install", "ata_install", "create_task_manager",
                     "task_create", "add_task", "sti"}
  BY DEF Main
<1>4. \/ boot = 1 \/ boot = 2 \/ boot = 3 \/ boot = 4 \/ boot = 5 \/ boot = 6
      \/ boot = 7 \/ boot = 8 \/ boot = 9 \/ boot = 10 \/ boot = 11
  OBVIOUS
<1>5. QED  BY <1>1, <1>2, <1>3, <1>4 DEF Step

\* The innermost handler moves on: nothing else of the frames changes.
LEMMA TopMoves ==
  ASSUME frames \in Seq(Frame), Len(frames) > 0, NEW p \in Places,
         NEW new, new = [frames EXCEPT ![Len(frames)].at = p]
  PROVE  /\ new \in Seq(Frame) /\ Len(new) = Len(frames)
         /\ new[Len(frames)] = [Top EXCEPT !.at = p]
         /\ \A i \in 1 .. Len(frames) : i # Len(frames) => new[i] = frames[i]
         /\ Top \in Frame
<1>1. Len(frames) \in 1 .. Len(frames) /\ Top \in Frame
  BY DEF Top
<1>2. [Top EXCEPT !.at = p] \in Frame  BY <1>1 DEF Frame
<1>3. new = [frames EXCEPT ![Len(frames)] = [Top EXCEPT !.at = p]]
  BY DEF Top
<1> DEFINE moved == [Top EXCEPT !.at = p]
<1> HIDE DEF moved
<1>4. /\ [frames EXCEPT ![Len(frames)] = moved] \in Seq(Frame)
      /\ Len([frames EXCEPT ![Len(frames)] = moved]) = Len(frames)
      /\ \A j \in 1 .. Len(frames) :
           [frames EXCEPT ![Len(frames)] = moved][j] =
             IF j = Len(frames) THEN moved ELSE frames[j]
  BY <1>1, <1>2, ExceptSeq DEF moved
<1>5. new = [frames EXCEPT ![Len(frames)] = moved]  BY <1>3 DEF moved
<1>6. /\ new \in Seq(Frame) /\ Len(new) = Len(frames)
      /\ new[Len(frames)] = moved
      /\ \A i \in 1 .. Len(frames) : i # Len(frames) => new[i] = frames[i]
  BY <1>1, <1>4, <1>5
<1>7. QED  BY <1>1, <1>6 DEF moved

LEMMA GotoFrames ==
  ASSUME frames \in Seq(Frame), Len(frames) > 0, NEW p \in Places, Goto(p)
  PROVE  /\ frames' \in Seq(Frame) /\ Len(frames') = Len(frames)
         /\ frames'[Len(frames)] = [Top EXCEPT !.at = p]
         /\ \A i \in 1 .. Len(frames) : i # Len(frames) => frames'[i] = frames[i]
         /\ Top \in Frame
BY TopMoves DEF Goto

LEMMA MovedOn ==
  ASSUME NEW f \in Frame, NEW p \in Places, NEW g, g = [f EXCEPT !.at = p]
  PROVE  g \in Frame /\ g.at = p /\ g.vec = f.vec /\ g.iflag = f.iflag /\ g.sp = f.sp
BY DEF Frame

\* An interrupt or exception enters on top of the frames below.
LEMMA EnterFrames ==
  ASSUME NEW below \in Seq(Frame), NEW vec \in 0 .. 255, esp \in Nat, iflag \in BOOLEAN,
         Enter(vec, below)
  PROVE  /\ frames' \in Seq(Frame) /\ Len(frames') = Len(below) + 1
         /\ \A i \in 1 .. Len(below) : frames'[i] = below[i]
         /\ frames'[Len(below) + 1] =
              [vec |-> vec, at |-> IF vec \in gates THEN "stub" ELSE "reset",
               iflag |-> iflag, sp |-> esp + 3]
         /\ iflag' = FALSE
         /\ esp' \in Nat /\ esp' = IF CpuPushesCode(vec) THEN esp + 4 ELSE esp + 3
<1> DEFINE new == [vec |-> vec, at |-> IF vec \in gates THEN "stub" ELSE "reset",
                   iflag |-> iflag, sp |-> esp + 3]
<1>1. new \in Frame  BY DEF Frame, Places
<1>2. frames' = Append(below, new)  BY DEF Enter
<1>3. iflag' = FALSE  BY DEF Enter, GateFlags
<1>4. esp' \in Nat /\ esp' = IF CpuPushesCode(vec) THEN esp + 4 ELSE esp + 3
  BY DEF Enter
<1> HIDE DEF new
<1>5. /\ frames' \in Seq(Frame) /\ Len(frames') = Len(below) + 1
      /\ \A i \in 1 .. Len(below) : frames'[i] = below[i]
      /\ frames'[Len(below) + 1] = new
  <2>1. /\ Append(below, new) \in Seq(Frame)
        /\ Len(Append(below, new)) = Len(below) + 1
        /\ \A i \in 1 .. Len(below) : Append(below, new)[i] = below[i]
        /\ Append(below, new)[Len(below) + 1] = new
    BY <1>1, AppendProperties
  <2>2. QED  BY <1>2, <2>1
<1>6. QED  BY <1>3, <1>4, <1>5 DEF new

-----------------------------------------------------------------------------
(* The end of interrupt.                                                    *)

\* It puts no line into service, and clears all that one line left there.
LEMMA EoiShrinks ==
  ASSUME NEW l, NEW s \in SUBSET (0 .. 15)
  PROVE  SendEoi(l, s) \subseteq s
BY DEF SendEoi, MasterEoi, SlaveEoi, WithoutFirst

LEMMA EoiClears ==
  ASSUME NEW l \in 0 .. 15, NEW s \in SUBSET (0 .. 15), s \subseteq ServiceBits(l)
  PROVE  SendEoi(l, s) = {}
<1>1. ASSUME NEW t \in SUBSET (0 .. 15), NEW k, \A i, j \in t : i = j, k \in WithoutFirst(t)
      PROVE  FALSE
  BY <1>1 DEF WithoutFirst
<1>2. CASE OnSlave(l)
  <2>1. \A i \in s : OnSlave(i) => i = l
    BY <1>2 DEF ServiceBits, Input, Cascade, OnSlave
  <2>2. \A i \in s : ~OnSlave(i) => i = 2
    BY <1>2 DEF ServiceBits, Input, Cascade, OnSlave
  <2>3. WithoutFirst({i \in s : OnSlave(i)}) = {}
    BY <1>1, <2>1
  <2>4. SlaveEoi(s) = {i \in s : ~OnSlave(i)}  BY <2>3 DEF SlaveEoi
  <2>5. WithoutFirst({i \in SlaveEoi(s) : ~OnSlave(i)}) = {}
    BY <1>1, <2>2, <2>4
  <2>6. QED  BY <1>2, <2>4, <2>5 DEF SendEoi, MasterEoi
<1>3. CASE ~OnSlave(l)
  <2>1. \A i \in s : i = l /\ ~OnSlave(i)  BY <1>3 DEF ServiceBits, Input
  <2>2. WithoutFirst({i \in s : ~OnSlave(i)}) = {}  BY <1>1, <2>1
  <2>3. QED  BY <1>3, <2>1, <2>2 DEF SendEoi, MasterEoi
<1>4. QED  BY <1>2, <1>3

-----------------------------------------------------------------------------
(* What the steps that leave a part of the state alone keep of KInv.        *)

LEMMA TasksKept ==
  ASSUME KInv, UNCHANGED <<taskVars, boot>>, InTask' => IsTask(Current)
  PROVE  TaskTypeOK' /\ AddedInv' /\ SlotInv'
<1>1. UNCHANGED <<tasks, num_tasks, current_task, rem_tasks, state, ran, boot>>
  BY DEF taskVars
<1>2. TaskTypeOK'  BY <1>1 DEF KInv, TypeOK, TaskTypeOK
<1>3. AddedInv'  BY <1>1 DEF KInv, AddedInv
<1>4. Waiting' = Waiting  BY <1>1 DEF Waiting, Served
<1>5. Current' = Current  BY <1>1 DEF Current
<1>6. SlotInv'  BY <1>1, <1>4, <1>5 DEF KInv, SlotInv, IsTask
<1>7. QED  BY <1>2, <1>3, <1>6

LEMMA BootKept ==
  ASSUME KInv, boot = 11, UNCHANGED <<boot, remapped, gates, irq_routines>>
  PROVE  BootInv'
BY DEF KInv, BootInv

LEMMA SomeHandler ==
  ASSUME KInv
  PROVE  /\ frames # <<>> <=> Len(frames) > 0
         /\ frames = <<>> <=> Len(frames) = 0
         /\ \A place : At(place) <=> Len(frames) > 0 /\ Top.at = place
<1>1. frames \in Seq(Frame)  BY DEF KInv, TypeOK, IntTypeOK
<1>2. /\ frames # <<>> <=> Len(frames) > 0
      /\ frames = <<>> <=> Len(frames) = 0
  BY <1>1
<1>3. QED  BY <1>2 DEF At

\* In a handler main is over and interrupts are off.
LEMMA InHandler ==
  ASSUME KInv, Len(frames) > 0
  PROVE  /\ boot = 11 /\ ~iflag /\ remapped /\ 0 .. 47 \subseteq gates
         /\ frames \in Seq(Frame) /\ Len(frames) > 0
         /\ Len(frames) = 1 \/ Len(frames) = 2
         /\ Top \in Frame /\ frames[1] \in Frame
<1>1. frames \in Seq(Frame)  BY DEF KInv, TypeOK, IntTypeOK
<1>2. Len(frames) \in Nat /\ Len(frames) > 0  BY <1>1
<1>3. boot = 11
  <2>1. boot \in 1 .. 11 /\ (boot < 11 => frames = <<>>)  BY DEF KInv, BootInv
  <2>2. frames # <<>>  BY SomeHandler
  <2>3. QED  BY <2>1, <2>2
<1>4. remapped /\ 0 .. 47 \subseteq gates  BY <1>3 DEF KInv, BootInv
<1>5. ~iflag /\ Len(frames) <= 2  BY <1>2 DEF KInv, FrameInv, Interrupted, OneFrame, TwoFrames
<1>6. Len(frames) = 1 \/ Len(frames) = 2
  <2>1. Len(frames) <= 2  BY DEF KInv, FrameInv, Interrupted, OneFrame, TwoFrames
  <2>2. \A n \in Nat : n > 0 /\ n <= 2 => n = 1 \/ n = 2  OBVIOUS
  <2>3. QED  BY <1>2, <2>1, <2>2
<1>7. Top \in Frame /\ frames[1] \in Frame  BY <1>1, <1>2 DEF Top
<1>8. QED  BY <1>1, <1>2, <1>3, <1>4, <1>5, <1>6, <1>7

\* Of two handlers the one on top is an exception's, and has no more than its
\* stub, its handler and its return.
LEMMA InInterrupt ==
  ASSUME KInv, Len(frames) > 0,
         Top.vec >= 32 \/ Top.at \notin {"stub", "handler", "iret"}
  PROVE  Len(frames) = 1 /\ Top = frames[1] /\ Top.vec \in 32 .. 47
<1>1. Len(frames) # 2
  <2> SUFFICES ASSUME Len(frames) = 2 PROVE FALSE  OBVIOUS
  <2>1. Top = frames[2]  BY DEF Top
  <2>2. frames[2].vec \in 0 .. 31 /\ frames[2].at \in {"stub", "handler", "iret"}
    BY DEF KInv, FrameInv, Interrupted, OneFrame, TwoFrames
  <2>3. ~(Top.vec >= 32)
    <3>1. Top.vec \in 0 .. 31  BY <2>1, <2>2
    <3>2. QED  BY <3>1
  <2>4. QED  BY <2>1, <2>2, <2>3
<1>2. Len(frames) = 1  BY <1>1, InHandler
<1>3. QED  BY <1>2 DEF KInv, FrameInv, Interrupted, OneFrame, TwoFrames, Top

\* The interrupt's handler moves on past its stub.
LEMMA InterruptMovesOn ==
  ASSUME KInv, Len(frames) = 1, frames[1].at # "stub",
         NEW p \in Places, p \notin {"stub", "reset"}, Goto(p),
         UNCHANGED <<esp, iflag>>, isr' \subseteq isr, p = "iret" => isr' = {}
  PROVE  FrameInv' /\ frames' \in Seq(Frame) /\ Len(frames') = 1 /\ frames'[1].at = p
<1>1. frames # <<>> /\ frames \in Seq(Frame)
  <2>1. frames \in Seq(Frame)  BY DEF KInv, TypeOK, IntTypeOK
  <2>2. QED  BY <2>1
<1>2. /\ frames' \in Seq(Frame) /\ Len(frames') = 1
      /\ frames'[1] = [Top EXCEPT !.at = p] /\ Top \in Frame /\ Top = frames[1]
  BY <1>1, GotoFrames DEF Top
<1>3. /\ frames'[1].at = p /\ frames'[1].vec = frames[1].vec
      /\ frames'[1].iflag = frames[1].iflag /\ frames'[1].sp = frames[1].sp
  BY <1>2, MovedOn
<1>4. /\ ~iflag /\ frames[1].iflag /\ frames[1].vec \in 32 .. 47 /\ frames[1].sp = 3
      /\ isr \subseteq ServiceBits(frames[1].vec - 32) /\ esp = 5
  BY DEF KInv, FrameInv, Interrupted, OneFrame, TwoFrames
<1>5. Interrupted'  BY <1>3, <1>4 DEF Interrupted
<1>6. OneFrame'  BY <1>3, <1>4 DEF OneFrame
<1>7. FrameInv'  BY <1>2, <1>5, <1>6 DEF FrameInv
<1>8. QED  BY <1>2, <1>3, <1>7

-----------------------------------------------------------------------------
(* Each step keeps KInv.                                                    *)

LEMMA InitHolds == Init => KInv
<1> SUFFICES ASSUME Init PROVE KInv  OBVIOUS
<1>1. /\ irr = {} /\ isr = {} /\ remapped = FALSE /\ gates = {} /\ iflag = FALSE
      /\ irq_routines = [l \in 0 .. 15 |-> "none"] /\ esp = 0 /\ frames = <<>>
  BY DEF Init, IntInit
<1>2. /\ tasks = [i \in Slots |-> NULL] /\ num_tasks = 0 /\ current_task = 0
      /\ rem_tasks = 0 /\ state = [p \in Pids |-> "none"] /\ ran = <<>>
  BY DEF Init, TaskInit
<1>3. boot = 1 /\ ticks = 0 /\ fired = 0  BY DEF Init
<1>4. IntTypeOK
  <2>1. irq_routines \in [0 .. 15 -> Handlers]  BY <1>1 DEF Handlers
  <2>2. frames \in Seq(Frame)  BY <1>1
  <2>3. QED  BY <1>1, <2>1, <2>2 DEF IntTypeOK
<1>5. TaskTypeOK  BY <1>2, Sizes DEF TaskTypeOK, States
<1>6. boot \in DOMAIN Main /\ ticks \in 0 .. Period - 1 /\ fired \in 0 .. Period - 1
  BY <1>3, MainSteps, Sizes
<1>7. BootInv  BY <1>1, <1>3 DEF BootInv
<1>8. FrameInv  BY <1>1 DEF FrameInv
<1>9. AddedInv  BY <1>2, <1>3 DEF AddedInv
<1>10. SlotInv
  <2>1. Waiting = {}  BY <1>2 DEF Waiting
  <2>2. \A i \in Slots : tasks[i] = NULL /\ NULL \notin Pids
    BY <1>2, Sizes DEF NULL, Pids
  <2>3. ~InTask  BY <1>1 DEF InTask
  <2>4. QED  BY <1>2, <2>1, <2>2, <2>3, FS_EmptySet DEF SlotInv
<1>11. QED  BY <1>4, <1>5, <1>6, <1>7, <1>8, <1>9, <1>10 DEF KInv, TypeOK

\* A device touches nothing but its request.
LEMMA DevicesPreserve ==
  ASSUME KInv, NEW l \in Lines, Raise(l), UNCHANGED <<taskVars, boot, ticks>>,
         fired' \in 0 .. Period - 1
  PROVE  KInv'
<1>1. UNCHANGED <<isr, remapped, gates, irq_routines, iflag, esp, frames>> /\ irr' = irr \cup {l}
  BY DEF Raise
<1>2. InTask' => IsTask(Current)  BY <1>1 DEF InTask, KInv, SlotInv
<1>3. TaskTypeOK' /\ AddedInv' /\ SlotInv'  BY <1>2, TasksKept
<1>4. IntTypeOK'  BY <1>1 DEF KInv, TypeOK, IntTypeOK
<1>5. BootInv'  BY <1>1 DEF KInv, BootInv
<1>6. FrameInv'
  BY <1>1 DEF KInv, FrameInv, Interrupted, OneFrame, TwoFrames
<1>7. boot' \in DOMAIN Main /\ ticks' \in 0 .. Period - 1  BY DEF KInv, TypeOK
<1>8. QED  BY <1>3, <1>4, <1>5, <1>6, <1>7 DEF KInv, TypeOK


-----------------------------------------------------------------------------
(* The CPU: taking an interrupt, the stubs, the returns.                    *)

\* With interrupts on, main is over and nothing is under way.
LEMMA WhenEnabled ==
  ASSUME KInv, iflag
  PROVE  /\ Len(frames) = 0 /\ boot = 11 /\ esp = 0 /\ isr = {} /\ remapped
         /\ 0 .. 47 \subseteq gates /\ frames \in Seq(Frame)
<1>1. frames \in Seq(Frame)  BY DEF KInv, TypeOK, IntTypeOK
<1>2. Len(frames) \in Nat  BY <1>1
<1>3. ~(Len(frames) > 0)  BY DEF KInv, FrameInv, Interrupted, OneFrame, TwoFrames
<1>4. Len(frames) = 0  BY <1>2, <1>3
<1>5. esp = 0 /\ isr = {}  BY <1>4 DEF KInv, FrameInv, Interrupted, OneFrame, TwoFrames
<1>6. boot \in 1 .. 11 /\ ~(boot < 11)  BY DEF KInv, BootInv
<1>7. boot = 11  BY <1>6
<1>8. remapped /\ 0 .. 47 \subseteq gates  BY <1>7 DEF KInv, BootInv
<1>9. QED  BY <1>1, <1>4, <1>5, <1>7, <1>8

\* Whichever line is taken, and if it is dropped before it is acknowledged, the
\* controllers hold in service what the line the CPU was told stands for, or less.
LEMMA Accepted ==
  ASSUME KInv, NEW l \in Lines, Accept(l) \/ AcceptSpurious(l)
  PROVE  /\ iflag
         /\ \E v \in 0 .. 15 : Enter(32 + v, frames) /\ isr' \subseteq ServiceBits(v)
         /\ irr' \subseteq Lines /\ isr' \subseteq Lines \cup {Cascade}
         /\ UNCHANGED <<remapped, gates, irq_routines>>
<1>1. iflag  BY DEF Accept, AcceptSpurious
<1>2. remapped /\ isr = {} /\ irr \subseteq Lines
  BY <1>1, WhenEnabled DEF KInv, TypeOK, IntTypeOK
<1>3. l \in 0 .. 15  BY Sizes
<1>4. irr' = irr \ {l} /\ UNCHANGED <<remapped, gates, irq_routines>>
  BY DEF Accept, AcceptSpurious
<1>5. CASE Accept(l)
  <2>1. isr' = ServiceBits(l) /\ Enter(32 + l, frames)
    BY <1>2, <1>5 DEF Accept, VectorOf
  <2>2. isr' \subseteq Lines \cup {Cascade}  BY <2>1 DEF ServiceBits, Input
  <2>3. QED  BY <1>1, <1>2, <1>3, <1>4, <2>1, <2>2
<1>6. CASE AcceptSpurious(l)
  <2> DEFINE v == IF OnSlave(l) THEN 15 ELSE 7
  <2>1. v \in 0 .. 15  OBVIOUS
  <2>2. isr' = ServiceBits(l) \ {l} /\ Enter(32 + v, frames)
    BY <1>2, <1>6 DEF AcceptSpurious, VectorOf
  <2>3. isr' \subseteq ServiceBits(v) /\ isr' \subseteq Lines \cup {Cascade}
    BY <2>2 DEF ServiceBits, Input, OnSlave
  <2> HIDE DEF v
  <2>4. QED  BY <1>1, <1>2, <1>4, <2>1, <2>2, <2>3
<1>7. QED  BY <1>5, <1>6

LEMMA AcceptsPreserves ==
  ASSUME KInv, Accepts
  PROVE  KInv'
<1>1. UNCHANGED <<taskVars, boot, ticks, fired>>  BY DEF Accepts, kernelVars
<1>2. PICK l \in Lines : Accept(l) \/ AcceptSpurious(l)  BY DEF Accepts
<1>3. /\ iflag /\ irr' \subseteq Lines /\ isr' \subseteq Lines \cup {Cascade}
      /\ UNCHANGED <<remapped, gates, irq_routines>>
  BY <1>2, Accepted
<1>4. PICK v \in 0 .. 15 : Enter(32 + v, frames) /\ isr' \subseteq ServiceBits(v)
  BY <1>2, Accepted
<1>5. /\ Len(frames) = 0 /\ boot = 11 /\ esp = 0 /\ 0 .. 47 \subseteq gates
      /\ frames \in Seq(Frame)
  BY <1>3, WhenEnabled
<1> DEFINE vec == 32 + v
<1>6. vec \in 0 .. 255 /\ vec \in gates /\ ~CpuPushesCode(vec)
  <2>1. vec \in 0 .. 255 /\ vec \in 0 .. 47 /\ vec >= 32  OBVIOUS
  <2> HIDE DEF vec
  <2>2. vec \in gates  BY <1>5, <2>1, Zenon
  <2>3. ~CpuPushesCode(vec)  BY <2>1 DEF CpuPushesCode
  <2>4. QED  BY <2>1, <2>2, <2>3
<1>7. /\ frames' \in Seq(Frame) /\ Len(frames') = 1
      /\ frames'[1] = [vec |-> 32 + v, at |-> "stub", iflag |-> iflag, sp |-> 3]
      /\ iflag' = FALSE /\ esp' = 3
  <2>1. Enter(vec, frames) /\ esp \in Nat /\ iflag \in BOOLEAN
    BY <1>4 DEF KInv, TypeOK, IntTypeOK
  <2> HIDE DEF vec
  <2>2. /\ frames' \in Seq(Frame) /\ Len(frames') = Len(frames) + 1
        /\ frames'[Len(frames) + 1] =
             [vec |-> vec, at |-> IF vec \in gates THEN "stub" ELSE "reset",
              iflag |-> iflag, sp |-> esp + 3]
        /\ iflag' = FALSE /\ esp' = IF CpuPushesCode(vec) THEN esp + 4 ELSE esp + 3
    BY <1>5, <1>6, <2>1, EnterFrames
  <2>3. Len(frames) + 1 = 1 /\ esp + 3 = 3  BY <1>5
  <2>4. QED  BY <1>6, <2>2, <2>3 DEF vec
<1> HIDE DEF vec
<1>8. /\ frames'[1].vec = 32 + v /\ frames'[1].at = "stub" /\ frames'[1].iflag
      /\ frames'[1].sp = 3
  BY <1>3, <1>7
<1>9. FrameInv'
  <2>1. isr' \subseteq ServiceBits((32 + v) - 32)  BY <1>4
  <2>2. Interrupted'  BY <1>7, <1>8, <2>1 DEF Interrupted
  <2>3. OneFrame'  BY <1>7, <1>8 DEF OneFrame
  <2>4. QED  BY <1>7, <2>2, <2>3 DEF FrameInv
<1>10. BootInv'  BY <1>1, <1>3, <1>5, BootKept
<1>11. TaskTypeOK' /\ AddedInv' /\ SlotInv'
  <2>1. ~InTask'  BY <1>8 DEF InTask
  <2>2. QED  BY <1>1, <2>1, TasksKept
<1>12. IntTypeOK'  BY <1>3, <1>7 DEF KInv, TypeOK, IntTypeOK
<1>13. QED  BY <1>1, <1>9, <1>10, <1>11, <1>12 DEF KInv, TypeOK

\* A handler's stub brings the stack to the same height whether or not the CPU
\* pushed an error code.
LEMMA StubPreserves ==
  ASSUME KInv, RunsStub
  PROVE  KInv'
<1>1. UNCHANGED <<taskVars, boot, ticks, fired>>  BY DEF RunsStub, kernelVars
<1>2. /\ iflag' = FALSE /\ esp' = esp + StubWords(Top.vec) /\ Goto("handler")
      /\ UNCHANGED <<irr, isr, remapped, gates, irq_routines>>
  BY DEF RunsStub, Stub
<1>3. Len(frames) > 0 /\ Top.at = "stub"  BY SomeHandler DEF RunsStub, Stub
<1>4. "handler" \in Places  BY DEF Places
<1>5. boot = 11 /\ frames \in Seq(Frame) /\ Top \in Frame /\ esp \in Nat
  BY <1>3, InHandler DEF KInv, TypeOK, IntTypeOK
<1>6. /\ frames' \in Seq(Frame) /\ Len(frames') = Len(frames)
      /\ frames'[Len(frames)] = [Top EXCEPT !.at = "handler"]
      /\ \A i \in 1 .. Len(frames) : i # Len(frames) => frames'[i] = frames[i]
  BY <1>2, <1>3, <1>4, <1>5, GotoFrames
<1>7. /\ frames'[Len(frames)].at = "handler" /\ frames'[Len(frames)].vec = Top.vec
      /\ frames'[Len(frames)].iflag = Top.iflag /\ frames'[Len(frames)].sp = Top.sp
  BY <1>4, <1>5, <1>6, MovedOn
<1>8. FrameInv' /\ (InTask' => InTask)
  <2>1. CASE Len(frames) = 1
    <3>1. /\ ~iflag' /\ frames[1].iflag /\ frames[1].vec \in 32 .. 47 /\ frames[1].sp = 3
          /\ isr \subseteq ServiceBits(frames[1].vec - 32) /\ Top = frames[1] /\ esp = 3
      BY <1>2, <1>3, <2>1 DEF KInv, FrameInv, Interrupted, OneFrame, Top
    <3>2. esp' = 5  BY <1>2, <3>1 DEF StubWords, StubReliesOnCode
    <3>3. frames'[1].at = "handler" /\ Len(frames') = 1  BY <1>6, <1>7, <2>1
    <3>4. Interrupted'  BY <1>2, <1>7, <2>1, <3>1 DEF Interrupted
    <3>5. OneFrame'  BY <3>2, <3>3 DEF OneFrame
    <3>6. FrameInv'  BY <3>3, <3>4, <3>5 DEF FrameInv
    <3>7. ~InTask'  BY <3>3 DEF InTask
    <3>8. QED  BY <3>6, <3>7
  <2>2. CASE Len(frames) = 2
    <3>1. frames'[1] = frames[1] /\ Len(frames') = 2  BY <1>6, <2>2
    <3>2. Interrupted'  BY <1>2, <2>2, <3>1 DEF KInv, FrameInv, Interrupted
    <3>3. /\ frames[1].at \in {"resumed", "faulted"}
          /\ Top.vec \in 0 .. 31 /\ Top.sp = 8 /\ ~Top.iflag
          /\ esp = IF CpuPushesCode(Top.vec) THEN 9 ELSE 8
      BY <1>3, <2>2 DEF KInv, FrameInv, TwoFrames, Top, FaultWords
    <3>4. esp' = 10
      BY <1>2, <3>3 DEF StubWords, StubReliesOnCode, CpuPushesCode
    <3>5. FaultWords(frames'[2]) = 10  BY <1>7, <2>2 DEF FaultWords
    <3>6. TwoFrames'  BY <1>7, <2>2, <3>1, <3>3, <3>4, <3>5 DEF TwoFrames
    <3>7. FrameInv'  BY <3>1, <3>2, <3>6 DEF FrameInv
    <3>8. InTask' => InTask  BY <2>2, <3>1 DEF InTask
    <3>9. QED  BY <3>7, <3>8
  <2>3. QED  BY <1>3, <2>1, <2>2, InHandler
<1>9. InTask' => IsTask(Current)
  BY <1>8 DEF KInv, SlotInv
<1>10. TaskTypeOK' /\ AddedInv' /\ SlotInv'  BY <1>1, <1>9, TasksKept
<1>11. BootInv'  BY <1>1, <1>2, <1>5, BootKept
<1>12. esp' \in Nat  BY <1>2, <1>5 DEF StubWords
<1>13. IntTypeOK'  BY <1>2, <1>6, <1>12 DEF KInv, TypeOK, IntTypeOK
<1>14. QED  BY <1>1, <1>8, <1>10, <1>11, <1>13 DEF KInv, TypeOK

LEMMA FaultHandlerPreserves ==
  ASSUME KInv, RunsFaultHandler
  PROVE  KInv'
<1>1. UNCHANGED <<taskVars, boot, ticks, fired>>  BY DEF RunsFaultHandler, kernelVars
<1>2. Goto("iret") /\ UNCHANGED <<irr, isr, remapped, gates, irq_routines, iflag, esp>>
  BY DEF RunsFaultHandler, FaultHandler
<1>3. Len(frames) > 0 /\ Top.at = "handler"
  BY SomeHandler DEF RunsFaultHandler, FaultHandler
<1>4. Top.vec < 32  BY DEF RunsFaultHandler, FaultHandler
<1>5. boot = 11 /\ frames \in Seq(Frame) /\ Top \in Frame  BY <1>3, InHandler
<1>6. Len(frames) = 2
  <2>1. ASSUME Len(frames) = 1 PROVE FALSE
    <3>1. Top.vec \in 32 .. 47  BY <2>1 DEF KInv, FrameInv, Interrupted, OneFrame, TwoFrames, Top
    <3>2. QED  BY <1>4, <3>1
  <2>2. QED  BY <1>3, <2>1, InHandler
<1>7. "iret" \in Places  BY DEF Places
<1>8. /\ frames' \in Seq(Frame) /\ Len(frames') = 2
      /\ frames'[2] = [Top EXCEPT !.at = "iret"] /\ frames'[1] = frames[1]
  BY <1>2, <1>3, <1>5, <1>6, <1>7, GotoFrames
<1>9. /\ frames'[2].at = "iret" /\ frames'[2].vec = frames[2].vec
      /\ frames'[2].iflag = frames[2].iflag /\ frames'[2].sp = frames[2].sp
  BY <1>5, <1>6, <1>7, <1>8, MovedOn DEF Top
<1>10. FrameInv'
  <2>1. Interrupted'  BY <1>2, <1>6, <1>8 DEF KInv, FrameInv, Interrupted
  <2>2. esp = 10  BY <1>3, <1>6 DEF KInv, FrameInv, TwoFrames, FaultWords, Top
  <2>3. FaultWords(frames'[2]) = 10  BY <1>9 DEF FaultWords
  <2>4. TwoFrames'
    BY <1>2, <1>6, <1>8, <1>9, <2>2, <2>3 DEF KInv, FrameInv, TwoFrames
  <2>5. QED  BY <1>8, <2>1, <2>4 DEF FrameInv
<1>11. InTask' => IsTask(Current)
  <2>1. InTask' => InTask  BY <1>6, <1>8 DEF InTask
  <2>2. QED  BY <2>1 DEF KInv, SlotInv
<1>12. TaskTypeOK' /\ AddedInv' /\ SlotInv'  BY <1>1, <1>11, TasksKept
<1>13. BootInv'  BY <1>1, <1>2, <1>5, BootKept
<1>14. IntTypeOK'  BY <1>2, <1>8 DEF KInv, TypeOK, IntTypeOK
<1>15. QED  BY <1>1, <1>10, <1>12, <1>13, <1>14 DEF KInv, TypeOK

\* An iret finds the return address: it undoes the words of the handler.
LEMMA Returning ==
  ASSUME KInv, Len(frames) > 0, Top.at = "iret"
  PROVE  \/ /\ Len(frames) = 1 /\ esp = 5 /\ Top.sp = 3 /\ isr = {} /\ Top = frames[1]
            /\ Top.iflag
         \/ /\ Len(frames) = 2 /\ esp = 10 /\ Top.sp = 8 /\ ~Top.iflag
            /\ frames[1].at \in {"resumed", "faulted"}
<1>1. CASE Len(frames) = 1
  <2>1. Top = frames[1]  BY <1>1 DEF Top
  <2>2. QED  BY <1>1, <2>1 DEF KInv, FrameInv, Interrupted, OneFrame, TwoFrames
<1>2. CASE Len(frames) = 2
  <2>1. Top = frames[2]  BY <1>2 DEF Top
  <2>2. QED  BY <1>2, <2>1 DEF KInv, FrameInv, Interrupted, OneFrame, TwoFrames, FaultWords
<1>3. QED  BY <1>1, <1>2, InHandler

LEMMA IretPreserves ==
  ASSUME KInv, Returns
  PROVE  KInv'
<1>1. UNCHANGED <<taskVars, boot, ticks, fired>>  BY DEF Returns, kernelVars
<1>2. /\ esp' = esp - 5 /\ iflag' = Top.iflag
      /\ frames' = SubSeq(frames, 1, Len(frames) - 1)
      /\ UNCHANGED <<irr, isr, remapped, gates, irq_routines>>
  <2>1. esp \in Nat  BY DEF KInv, TypeOK, IntTypeOK
  <2>2. QED  BY <2>1 DEF Returns, Iret, DroppedWords
<1>3. Len(frames) > 0 /\ Top.at = "iret"  BY SomeHandler DEF Returns, Iret
<1>4. boot = 11 /\ frames \in Seq(Frame) /\ Top \in Frame  BY <1>3, InHandler
<1>5. /\ frames' \in Seq(Frame) /\ Len(frames') = Len(frames) - 1
      /\ \A i \in 1 .. Len(frames) - 1 : frames'[i] = frames[i]
  <2> DEFINE n == Len(frames) - 1
  <2>1. n \in Nat /\ \A i \in 1 .. n : frames[i] \in Frame  BY <1>3, <1>4
  <2> HIDE DEF n
  <2>2. /\ SubSeq(frames, 1, n) \in Seq(Frame)
        /\ Len(SubSeq(frames, 1, n)) = IF 1 <= n THEN n - 1 + 1 ELSE 0
        /\ \A i \in 1 .. n - 1 + 1 : SubSeq(frames, 1, n)[i] = frames[1 + i - 1]
    BY <2>1, SubSeqProperties
  <2>3. frames' = SubSeq(frames, 1, n)  BY <1>2 DEF n
  <2>4. frames' \in Seq(Frame) /\ Len(frames') = n  BY <2>1, <2>2, <2>3
  <2>5. \A i \in 1 .. n : frames'[i] = frames[i]  BY <2>1, <2>2, <2>3
  <2>6. QED  BY <2>4, <2>5 DEF n
<1>6. FrameInv' /\ (Len(frames') > 0 => frames'[1] = frames[1] /\ Len(frames) = 2) /\ esp' \in Nat
  <2>1. CASE Len(frames) = 1
    <3>1. esp = 5 /\ isr = {}  BY <1>3, <2>1, Returning
    <3>2. Len(frames') = 0 /\ esp' = 0 /\ isr' = {}  BY <1>2, <1>5, <2>1, <3>1
    <3>3. QED  BY <3>2 DEF FrameInv
  <2>2. CASE Len(frames) = 2
    <3>1. esp = 10 /\ ~Top.iflag /\ frames[1].at \in {"resumed", "faulted"}
      BY <1>3, <2>2, Returning
    <3>2. Len(frames') = 1 /\ frames'[1] = frames[1] /\ esp' = 5 /\ ~iflag'
      BY <1>2, <1>5, <2>2, <3>1
    <3>3. Interrupted'
      BY <1>2, <2>2, <3>2 DEF KInv, FrameInv, Interrupted
    <3>4. OneFrame'  BY <3>1, <3>2 DEF OneFrame
    <3>5. FrameInv'  BY <3>2, <3>3, <3>4 DEF FrameInv
    <3>6. QED  BY <2>2, <3>2, <3>5
  <2>3. QED  BY <1>3, <2>1, <2>2, InHandler
<1>7. InTask' => IsTask(Current)
  <2>1. Len(frames') > 0 => frames'[1] = frames[1]  BY <1>6
  <2>2. InTask' => InTask  BY <1>3, <2>1 DEF InTask
  <2>3. QED  BY <2>2 DEF KInv, SlotInv
<1>8. TaskTypeOK' /\ AddedInv' /\ SlotInv'  BY <1>1, <1>7, TasksKept
<1>9. BootInv'  BY <1>1, <1>2, <1>4, BootKept
<1>10. iflag' \in BOOLEAN  BY <1>2, <1>4 DEF Frame
<1>11. IntTypeOK'  BY <1>2, <1>5, <1>6, <1>10 DEF KInv, TypeOK, IntTypeOK
<1>12. QED  BY <1>1, <1>6, <1>8, <1>9, <1>11 DEF KInv, TypeOK

-----------------------------------------------------------------------------
(* The interrupt handlers and the task they call.                           *)

LEMMA MovePreserves ==
  ASSUME KInv, Len(frames) = 1, frames[1].at # "stub",
         NEW p \in Places, p \notin {"stub", "reset"}, Goto(p),
         UNCHANGED <<irr, remapped, gates, irq_routines, iflag, esp, taskVars, boot, fired>>,
         isr' \subseteq isr, p = "iret" => isr' = {},
         p \in {"body", "resumed", "faulted", "after"} => IsTask(Current),
         ticks' \in 0 .. Period - 1
  PROVE  KInv'
<1>1. FrameInv' /\ frames' \in Seq(Frame) /\ Len(frames') = 1 /\ frames'[1].at = p
  BY InterruptMovesOn
<1>2. InTask' => IsTask(Current)  BY <1>1 DEF InTask
<1>3. TaskTypeOK' /\ AddedInv' /\ SlotInv'  BY <1>2, TasksKept
<1>4. boot = 11  BY InHandler
<1>5. BootInv'  BY <1>4, BootKept
<1>6. IntTypeOK'
  <2>1. isr' \subseteq Lines \cup {Cascade}  BY DEF KInv, TypeOK, IntTypeOK
  <2>2. QED  BY <1>1, <2>1 DEF KInv, TypeOK, IntTypeOK
<1>7. QED  BY <1>1, <1>3, <1>5, <1>6 DEF KInv, TypeOK

\* A handler that was entered, at its body or later, is past its stub.
LEMMA PastStub ==
  ASSUME KInv, NEW p, At(p),
         p \notin {"stub", "handler", "iret"} \/ (p = "handler" /\ Top.vec >= 32)
  PROVE  /\ Len(frames) = 1 /\ Top = frames[1] /\ Top.at = p /\ Top.vec \in 32 .. 47
         /\ frames[1].at # "stub" /\ Len(frames) > 0
<1>1. Len(frames) > 0 /\ Top.at = p  BY SomeHandler
<1>2. Top.vec >= 32 \/ Top.at \notin {"stub", "handler", "iret"}  BY <1>1
<1>3. Len(frames) = 1 /\ Top = frames[1] /\ Top.vec \in 32 .. 47  BY <1>1, <1>2, InInterrupt
<1>4. p # "stub"  OBVIOUS
<1>5. QED  BY <1>1, <1>3, <1>4

\* irq_handler and the handlers it calls, up to the call of a task.
LEMMA HandlersPreserve ==
  ASSUME KInv, PassesOver \/ AtaHandler("_primary_irq", 14) \/ AtaHandler("_secondary_irq", 15)
  PROVE  KInv'
<1>1. /\ At("handler") /\ Top.vec >= 32 /\ Goto("eoi")
      /\ UNCHANGED <<irr, remapped, gates, irq_routines, iflag, esp, taskVars, boot, ticks, fired>>
  BY DEF PassesOver, AtaHandler, Dispatches, kernelVars
<1>2. isr' \subseteq isr
  <2>1. isr \in SUBSET (0 .. 15)  BY Sizes DEF KInv, TypeOK, IntTypeOK, Cascade
  <2>2. SendEoi(14, isr) \subseteq isr /\ SendEoi(15, isr) \subseteq isr
    BY <2>1, EoiShrinks
  <2>3. QED  BY <2>2 DEF PassesOver, AtaHandler
<1>3. Len(frames) = 1 /\ frames[1].at # "stub"  BY <1>1, PastStub
<1>4. "eoi" \in Places  BY DEF Places
<1>5. ticks' \in 0 .. Period - 1  BY <1>1 DEF KInv, TypeOK
<1>6. QED  BY <1>1, <1>2, <1>3, <1>4, <1>5, MovePreserves

LEMMA TimerPreserves ==
  ASSUME KInv, TimerHandler
  PROVE  KInv'
<1> DEFINE tick == (ticks + 1) % Period
           p == IF ~SchedulerRuns(tick) THEN "eoi" ELSE IF IsTask(Current) THEN "body" ELSE "wild"
<1>1. /\ At("handler") /\ Top.vec >= 32 /\ Goto(p) /\ ticks' = tick
      /\ UNCHANGED <<irr, isr, remapped, gates, irq_routines, iflag, esp, taskVars, boot, fired>>
  BY DEF TimerHandler, Dispatches
<1>2. Len(frames) = 1 /\ frames[1].at # "stub"  BY <1>1, PastStub
<1>3. tick \in 0 .. Period - 1
  <2>1. Period \in Nat \ {0} /\ ticks \in 0 .. Period - 1  BY Sizes DEF KInv, TypeOK
  <2>2. QED  BY <2>1
<1>4. p \in Places /\ p \notin {"stub", "reset"} /\ p # "iret"  BY DEF Places
<1>5. p \in {"body", "resumed", "faulted", "after"} => IsTask(Current)  OBVIOUS
<1> HIDE DEF tick, p
<1>6. QED  BY <1>1, <1>2, <1>3, <1>4, <1>5, MovePreserves

\* The end of interrupt leaves nothing in service.
LEMMA EoiPreserves ==
  ASSUME KInv, SendsEoi
  PROVE  KInv'
<1>1. /\ At("eoi") /\ Goto("iret") /\ isr' = SendEoi(Top.vec - 32, isr)
      /\ UNCHANGED <<irr, remapped, gates, irq_routines, iflag, esp, taskVars, boot, ticks, fired>>
  BY DEF SendsEoi, IrqEoi, kernelVars
<1>2. /\ Len(frames) = 1 /\ frames[1].at # "stub" /\ Top = frames[1]
      /\ Top.vec \in 32 .. 47
  BY <1>1, PastStub
<1>3. isr' = {}
  <2>1. isr \subseteq ServiceBits(Top.vec - 32)
    BY <1>2 DEF KInv, FrameInv, Interrupted
  <2>2. isr \in SUBSET (0 .. 15)  BY Sizes DEF KInv, TypeOK, IntTypeOK, Cascade
  <2>3. Top.vec - 32 \in 0 .. 15  BY <1>2
  <2>4. QED  BY <1>1, <2>1, <2>2, <2>3, EoiClears
<1>4. "iret" \in Places  BY DEF Places
<1>5. ticks' \in 0 .. Period - 1  BY <1>1 DEF KInv, TypeOK
<1>6. QED  BY <1>1, <1>2, <1>3, <1>4, <1>5, MovePreserves

LEMMA TaskReturnsPreserves ==
  ASSUME KInv, TaskReturns
  PROVE  KInv'
<1>1. /\ At("body") \/ At("resumed")
      /\ Goto("after")
      /\ UNCHANGED <<irr, isr, remapped, gates, irq_routines, iflag, esp, taskVars, boot, ticks, fired>>
  BY DEF TaskReturns, kernelVars
<1>2. Len(frames) = 1 /\ frames[1].at # "stub" /\ frames[1].at \in {"body", "resumed"}
  BY <1>1, PastStub
<1>3. IsTask(Current)  BY <1>2 DEF KInv, SlotInv, InTask
<1>4. "after" \in Places  BY DEF Places
<1>5. ticks' \in 0 .. Period - 1  BY <1>1 DEF KInv, TypeOK
<1>6. QED  BY <1>1, <1>2, <1>3, <1>4, <1>5, MovePreserves

\* A trap or a fault of a task nests one handler on top of the timer's.
LEMMA ExceptionPreserves ==
  ASSUME KInv, At("body") \/ At("faulted"), NEW p \in {"resumed", "faulted"},
         NEW vec \in 0 .. 31, Enter(vec, [frames EXCEPT ![Len(frames)].at = p]),
         UNCHANGED <<irr, isr, remapped, gates, irq_routines, taskVars, boot, ticks, fired>>
  PROVE  KInv'
<1>1. /\ Len(frames) = 1 /\ Top = frames[1] /\ Len(frames) > 0
      /\ frames[1].at \in {"body", "faulted"}
  BY PastStub
<1>2. boot = 11 /\ frames \in Seq(Frame) /\ 0 .. 47 \subseteq gates /\ ~iflag
  BY <1>1, InHandler
<1>3. esp = 5 /\ frames[1].iflag
  BY <1>1 DEF KInv, FrameInv, OneFrame, Interrupted
<1> DEFINE g == [Top EXCEPT !.at = p]
           below == [frames EXCEPT ![Len(frames)].at = p]
<1>4. Top \in Frame /\ p \in Places
  <2>1. p \in Places  BY DEF Places
  <2>2. QED  BY <1>1, <2>1, InHandler
<1>5. /\ g \in Frame /\ g.at = p /\ g.vec = frames[1].vec /\ g.iflag = frames[1].iflag
      /\ g.sp = frames[1].sp
  BY <1>1, <1>4, MovedOn
<1> HIDE DEF below
<1>6. below \in Seq(Frame) /\ Len(below) = Len(frames) /\ below[Len(frames)] = g
  BY <1>1, <1>2, <1>4, TopMoves DEF below
<1> HIDE DEF g
<1>7. below \in Seq(Frame) /\ Len(below) = 1 /\ below[1] = g
  BY <1>1, <1>6
<1> USE DEF below
<1>8. Enter(vec, below)  OBVIOUS
<1> HIDE DEF below
<1>9. vec \in 0 .. 255 /\ vec \in gates
  <2>1. vec \in 0 .. 255 /\ vec \in 0 .. 47  OBVIOUS
  <2>2. QED  BY <1>2, <2>1, Zenon
<1>10. esp \in Nat /\ iflag \in BOOLEAN  BY DEF KInv, TypeOK, IntTypeOK
<1>11. /\ frames' \in Seq(Frame) /\ Len(frames') = Len(below) + 1
       /\ \A i \in 1 .. Len(below) : frames'[i] = below[i]
       /\ frames'[Len(below) + 1] =
            [vec |-> vec, at |-> IF vec \in gates THEN "stub" ELSE "reset",
             iflag |-> iflag, sp |-> esp + 3]
       /\ iflag' = FALSE
       /\ esp' \in Nat /\ esp' = IF CpuPushesCode(vec) THEN esp + 4 ELSE esp + 3
  BY <1>7, <1>8, <1>9, <1>10, EnterFrames
<1>12. Len(frames') = 2 /\ frames'[1] = g  BY <1>7, <1>11
<1>13. /\ frames'[2].vec = vec /\ frames'[2].at = "stub" /\ ~frames'[2].iflag
       /\ frames'[2].sp = 8 /\ esp' = IF CpuPushesCode(vec) THEN 9 ELSE 8
  <2>1. frames'[2] = [vec |-> vec, at |-> "stub", iflag |-> iflag, sp |-> 8]
    BY <1>3, <1>7, <1>9, <1>11
  <2>2. QED  BY <1>2, <1>3, <1>11, <2>1
<1>14. FrameInv'
  <2>1. Interrupted'
    BY <1>1, <1>5, <1>11, <1>12 DEF KInv, FrameInv, Interrupted
  <2>2. esp' = FaultWords(frames'[2])  BY <1>13 DEF FaultWords
  <2>3. TwoFrames'  BY <1>5, <1>12, <1>13, <2>2 DEF TwoFrames
  <2>4. QED  BY <1>12, <2>1, <2>3 DEF FrameInv
<1>15. IsTask(Current)  BY <1>1 DEF KInv, SlotInv, InTask
<1>16. TaskTypeOK' /\ AddedInv' /\ SlotInv'  BY <1>15, TasksKept
<1>17. BootInv'  BY <1>2, BootKept
<1>18. IntTypeOK'  BY <1>11 DEF KInv, TypeOK, IntTypeOK
<1>19. QED  BY <1>14, <1>16, <1>17, <1>18 DEF KInv, TypeOK

-----------------------------------------------------------------------------
(* The tasks: the counts and the array.                                     *)

LEMMA WaitingCount ==
  /\ IsFiniteSet(Pids) /\ Cardinality(Pids) = NumTests
  /\ \A S \in SUBSET Pids :
       IsFiniteSet(S) /\ Cardinality(S) \in Nat /\ Cardinality(S) <= NumTests
<1>1. NumTests \in Nat \ {0}  BY Sizes
<1>2. IsFiniteSet(0 .. NumTests - 1) /\ Cardinality(0 .. NumTests - 1) = NumTests
  <2>1. 0 \in Int /\ NumTests - 1 \in Int /\ ~(0 > NumTests - 1)
        /\ NumTests - 1 - 0 + 1 = NumTests
    BY <1>1
  <2>2. QED  BY <2>1, FS_Interval
<1>3. IsFiniteSet(Pids) /\ Cardinality(Pids) = NumTests  BY <1>2 DEF Pids
<1>4. \A S \in SUBSET Pids : IsFiniteSet(S) /\ Cardinality(S) <= Cardinality(Pids)
  BY <1>3, FS_Subset
<1>5. \A S \in SUBSET Pids : Cardinality(S) \in Nat  BY <1>4, FS_CardinalityType
<1>6. QED  BY <1>3, <1>4, <1>5

LEMMA SetStateKeeps ==
  ASSUME NEW st \in [Pids -> States], \A p \in Pids : st[p] \notin {"none", "NEW"},
         NEW entry, NEW new \in {"RUNNING", "WAITING"}
  PROVE  /\ SetState(st, entry, new) \in [Pids -> States]
         /\ \A p \in Pids : SetState(st, entry, new)[p] \notin {"none", "NEW"}
<1>1. CASE IsTask(entry)
  <2>1. SetState(st, entry, new) = [st EXCEPT ![entry] = new]  BY <1>1 DEF SetState
  <2>2. QED  BY <2>1 DEF States
<1>2. CASE ~IsTask(entry)
  <2>1. SetState(st, entry, new) = st  BY <1>2 DEF SetState
  <2>2. QED  BY <2>1
<1>3. QED  BY <1>1, <1>2

LEMMA StatesAfterRunType ==
  ASSUME state \in [Pids -> States], \A p \in Pids : state[p] \notin {"none", "NEW"}
  PROVE  /\ StatesAfterRun \in [Pids -> States]
         /\ \A p \in Pids : StatesAfterRun[p] \notin {"none", "NEW"}
<1> DEFINE before == IF current_task = 0 THEN state
                     ELSE SetState(state, tasks[current_task - 1], "WAITING")
           run    == SetState(before, Current, "RUNNING")
           past   == IF num_tasks = current_task THEN NULL ELSE tasks[num_tasks]
<1>1. before \in [Pids -> States] /\ \A p \in Pids : before[p] \notin {"none", "NEW"}
  <2>1. CASE current_task = 0  BY <2>1
  <2>2. CASE current_task # 0
    <3>1. before = SetState(state, tasks[current_task - 1], "WAITING")  BY <2>2
    <3> HIDE DEF before
    <3>2. QED  BY <3>1, SetStateKeeps
  <2>3. QED  BY <2>1, <2>2
<1> HIDE DEF before
<1>2. run \in [Pids -> States] /\ \A p \in Pids : run[p] \notin {"none", "NEW"}
  BY <1>1, SetStateKeeps
<1> HIDE DEF run, past
<1>3. /\ SetState(run, past, "WAITING") \in [Pids -> States]
      /\ \A p \in Pids : SetState(run, past, "WAITING")[p] \notin {"none", "NEW"}
  BY <1>2, SetStateKeeps
<1>4. StatesAfterRun = IF Wraps THEN SetState(run, past, "WAITING") ELSE run
  BY DEF StatesAfterRun, before, run, past
<1>5. QED  BY <1>2, <1>3, <1>4

\* The run of a task takes it from those that wait, and no other.
LEMMA RunServes ==
  ASSUME KInv, boot = 11, IsTask(Current), AfterRun
  PROVE  /\ Waiting' = Waiting \ {Current} /\ Current \in Waiting
         /\ state' \in [Pids -> States] /\ \A p \in Pids : state'[p] \notin {"none", "NEW"}
         /\ ran' \in Seq(Pids) /\ ran' = Append(ran, Current)
<1>1. /\ state \in [Pids -> States] /\ \A p \in Pids : state[p] \notin {"none", "NEW"}
      /\ ran \in Seq(Pids) /\ num_tasks = NumTests /\ current_task \in 0 .. NumTests - 1
  BY DEF KInv, TypeOK, TaskTypeOK, AddedInv
<1>2. state' \in [Pids -> States] /\ \A p \in Pids : state'[p] \notin {"none", "NEW"}
  BY <1>1, StatesAfterRunType DEF AfterRun
<1>3. Current \in Pids /\ ran' = Append(ran, Current)  BY DEF IsTask, AfterRun
<1> HIDE DEF Current
<1>4. /\ ran' \in Seq(Pids) /\ Len(ran') = Len(ran) + 1 /\ ran'[Len(ran) + 1] = Current
      /\ \A i \in 1 .. Len(ran) : ran'[i] = ran[i]
  BY <1>1, <1>3, AppendProperties
<1>5. \A p : Served(p)' <=> Served(p) \/ p = Current
  <2>1. DOMAIN ran = 1 .. Len(ran) /\ DOMAIN ran' = 1 .. Len(ran) + 1 /\ Len(ran) \in Nat
    BY <1>1, <1>4, LenProperties
  <2>2. ASSUME NEW p, Served(p)' PROVE Served(p) \/ p = Current
    <3>1. PICK i \in 1 .. Len(ran) + 1 : ran'[i] = p  BY <2>1, <2>2 DEF Served
    <3>2. CASE i = Len(ran) + 1  BY <1>4, <3>1, <3>2
    <3>3. CASE i # Len(ran) + 1
      <4>1. i \in 1 .. Len(ran)  BY <2>1, <3>3
      <4>2. QED  BY <1>4, <2>1, <3>1, <4>1 DEF Served
    <3>4. QED  BY <3>2, <3>3
  <2>3. ASSUME NEW p, Served(p) PROVE Served(p)'
    <3>1. PICK i \in 1 .. Len(ran) : ran[i] = p  BY <2>1, <2>3 DEF Served
    <3>2. i \in 1 .. Len(ran) + 1  BY <2>1
    <3>3. QED  BY <1>4, <2>1, <3>1, <3>2 DEF Served
  <2>4. ASSUME NEW p, p = Current PROVE Served(p)'
    <3>1. Len(ran) + 1 \in 1 .. Len(ran) + 1  BY <2>1
    <3>2. \E i \in DOMAIN ran' : ran'[i] = p  BY <1>4, <2>1, <2>4, <3>1
    <3>3. QED  BY <3>2 DEF Served
  <2>5. QED  BY <2>2, <2>3, <2>4
<1>6. Waiting' = Waiting \ {Current}  BY <1>1, <1>2, <1>5 DEF Waiting
<1>7. Current \in Waiting
  <2>1. current_task \in Slots  BY <1>1, Sizes DEF Slots
  <2>2. QED  BY <1>3, <2>1 DEF KInv, SlotInv, Current
<1>8. QED  BY <1>2, <1>3, <1>4, <1>6, <1>7

LEMMA SchedulerPreserves ==
  ASSUME KInv, SchedulerResumes
  PROVE  KInv'
<1>1. /\ At("after") /\ AfterRun /\ Goto("eoi")
      /\ UNCHANGED <<irr, isr, remapped, gates, irq_routines, iflag, esp, boot, ticks, fired>>
  BY DEF SchedulerResumes, kernelVars
<1>2. /\ Len(frames) = 1 /\ Len(frames) > 0 /\ frames[1].at # "stub"
      /\ frames[1].at = "after"
  BY <1>1, PastStub
<1>3. boot = 11  BY <1>2, InHandler
<1>4. IsTask(Current)  BY <1>2 DEF KInv, SlotInv, InTask
<1>5. "eoi" \in Places  BY DEF Places
<1>6. FrameInv' /\ frames' \in Seq(Frame) /\ Len(frames') = 1 /\ frames'[1].at = "eoi"
  BY <1>1, <1>2, <1>5, InterruptMovesOn
<1>7. IntTypeOK'  BY <1>1, <1>6 DEF KInv, TypeOK, IntTypeOK
<1>8. BootInv'  BY <1>1, <1>3, BootKept
<1>9. /\ Waiting' = Waiting \ {Current} /\ Current \in Waiting
      /\ state' \in [Pids -> States] /\ \A p \in Pids : state'[p] \notin {"none", "NEW"}
      /\ ran' \in Seq(Pids) /\ ran' = Append(ran, Current)
  BY <1>1, <1>3, <1>4, RunServes
<1>10. /\ num_tasks = NumTests /\ current_task \in 0 .. NumTests - 1
       /\ num_tasks' = num_tasks /\ current_task' = NextSlot
       /\ rem_tasks' = rem_tasks - 1 /\ rem_tasks = Cardinality(Waiting)
       /\ tasks' = [tasks EXCEPT ![current_task] = NULL]
       /\ tasks \in [Slots -> Pids \cup {NULL, Garbage}]
  BY <1>1, <1>3 DEF AfterRun, KInv, AddedInv, SlotInv, TypeOK, TaskTypeOK
<1>11. current_task' \in 0 .. NumTests - 1
  <2>1. NumTests \in Nat \ {0} /\ current_task + 1 \in Nat  BY <1>10, Sizes
  <2>2. (current_task + 1) % NumTests \in 0 .. NumTests - 1  BY <2>1
  <2>3. QED  BY <1>10, <2>1, <2>2 DEF NextSlot, Wraps
<1>12. rem_tasks' = Cardinality(Waiting') /\ rem_tasks' \in 0 .. NumTests
  <2>1. Waiting \in SUBSET Pids /\ Waiting' \in SUBSET Pids  BY <1>9 DEF Waiting
  <2>2. IsFiniteSet(Waiting) /\ Cardinality(Waiting) \in Nat  BY <2>1, WaitingCount
  <2>3. Cardinality(Waiting \ {Current}) = Cardinality(Waiting) - 1
    BY <1>9, <2>2, FS_RemoveElement
  <2>4. rem_tasks' = Cardinality(Waiting')  BY <1>9, <1>10, <2>3
  <2>5. Cardinality(Waiting') \in Nat /\ Cardinality(Waiting') <= NumTests
    BY <2>1, WaitingCount
  <2>6. NumTests \in Nat  BY Sizes
  <2>7. QED  BY <2>4, <2>5, <2>6
<1>13. TaskTypeOK'
  <2>1. tasks' \in [Slots -> Pids \cup {NULL, Garbage}]  BY <1>10
  <2>2. num_tasks' \in 0 .. NumTests  BY <1>10 DEF KInv, TypeOK, TaskTypeOK
  <2>3. current_task' \in 0 .. 255  BY <1>11, Sizes
  <2>4. QED  BY <1>9, <1>12, <2>1, <2>2, <2>3 DEF TaskTypeOK
<1>14. AddedInv'
  <2>1. boot' = 11 /\ num_tasks' = NumTests  BY <1>1, <1>3, <1>10
  <2>2. QED  BY <1>9, <1>11, <2>1 DEF AddedInv
<1>15. SlotInv'
  <2>1. NULL \notin Pids /\ current_task \in Slots  BY <1>10, Sizes DEF NULL, Pids, Slots
  <2>2. /\ tasks'[current_task] = NULL
        /\ \A i \in Slots : i # current_task => tasks'[i] = tasks[i]
    BY <1>10, <2>1
  <2>3. /\ \A i \in Slots : tasks[i] \in Pids => tasks[i] \in Waiting
        /\ \A i, j \in Slots : tasks[i] \in Pids /\ tasks[i] = tasks[j] => i = j
    BY DEF KInv, SlotInv
  <2>4. \A i \in Slots : tasks'[i] \in Pids => tasks'[i] \in Waiting'
    <3> SUFFICES ASSUME NEW i \in Slots, tasks'[i] \in Pids PROVE tasks'[i] \in Waiting'
      OBVIOUS
    <3>1. i # current_task /\ tasks'[i] = tasks[i]  BY <2>1, <2>2
    <3>2. tasks[i] \in Waiting /\ tasks[i] # Current  BY <2>1, <2>3, <3>1 DEF Current
    <3>3. QED  BY <1>9, <3>1, <3>2
  <2>5. \A i, j \in Slots : tasks'[i] \in Pids /\ tasks'[i] = tasks'[j] => i = j
    BY <2>1, <2>2, <2>3
  <2>6. ~InTask'  BY <1>6 DEF InTask
  <2>7. QED  BY <1>12, <2>4, <2>5, <2>6 DEF SlotInv
<1>16. boot' \in DOMAIN Main /\ ticks' \in 0 .. Period - 1 /\ fired' \in 0 .. Period - 1
  BY <1>1 DEF KInv, TypeOK
<1>17. QED  BY <1>6, <1>7, <1>8, <1>13, <1>14, <1>15, <1>16 DEF KInv, TypeOK

-----------------------------------------------------------------------------
(* main.                                                                    *)

LEMMA BootRange ==
  ASSUME KInv
  PROVE  boot \in 1 .. 11 /\ boot \in Nat /\ DOMAIN Main = 1 .. 11
<1>1. boot \in 1 .. 11  BY DEF KInv, BootInv
<1>2. DOMAIN Main = 1 .. 11  BY <1>1, MainSteps
<1>3. boot \in Nat  BY <1>1
<1>4. QED  BY <1>1, <1>2, <1>3

\* Until sti nothing interrupts it.
LEMMA InMain ==
  ASSUME KInv, boot \in 1 .. 10
  PROVE  frames = <<>> /\ Len(frames) = 0 /\ iflag = FALSE /\ esp = 0 /\ isr = {}
<1>1. boot < 11  OBVIOUS
<1>2. frames = <<>> /\ ~iflag  BY <1>1 DEF KInv, BootInv
<1>3. iflag = FALSE  BY <1>2 DEF KInv, TypeOK, IntTypeOK
<1>4. Len(frames) = 0  BY SomeHandler, <1>2
<1>5. esp = 0 /\ isr = {}  BY <1>4 DEF KInv, FrameInv
<1>6. QED  BY <1>2, <1>3, <1>4, <1>5

\* A step of main leaves the stack and the controllers idle.
LEMMA MainIdle ==
  ASSUME KInv, Len(frames) = 0, UNCHANGED <<frames, esp>>, isr' = {}, esp = 0
  PROVE  FrameInv' /\ ~InTask'
BY DEF FrameInv, InTask

LEMMA InterruptsPreserve ==
  ASSUME KInv, InstallsInterrupts
  PROVE  KInv'
<1>1. UNCHANGED <<taskVars, ticks, fired>> /\ boot' = boot + 1
  BY DEF InstallsInterrupts, NextStep
<1>2. Step \in {"idt_install", "isrs_install", "irq_install"}
  BY DEF InstallsInterrupts, Runs
<1>3. boot \in 1 .. 3 /\ boot \in 1 .. 10
  <2>1. boot = 1 \/ boot = 2 \/ boot = 3  BY <1>2, BootRange, MainSteps
  <2>2. QED  BY <2>1
<1>4. frames = <<>> /\ Len(frames) = 0 /\ iflag = FALSE /\ esp = 0 /\ isr = {}
  BY <1>3, InMain
<1>5. UNCHANGED <<irq_routines, iflag, esp, frames>> /\ isr' = {}
  BY <1>4 DEF InstallsInterrupts, IdtInstall, IsrsInstall, IrqInstall
<1>6. FrameInv' /\ ~InTask'  BY <1>4, <1>5, MainIdle
<1>7. BootInv' /\ IntTypeOK'
  <2>1. CASE boot = 1
    <3>1. IdtInstall  BY <2>1, BootRange, MainSteps DEF InstallsInterrupts, Runs
    <3>2. IntTypeOK'  BY <3>1 DEF IdtInstall, KInv, TypeOK, IntTypeOK
    <3>3. BootInv'  BY <1>1, <1>4, <1>5, <2>1 DEF BootInv
    <3>4. QED  BY <3>2, <3>3
  <2>2. CASE boot = 2
    <3>1. IsrsInstall  BY <2>2, BootRange, MainSteps DEF InstallsInterrupts, Runs
    <3>2. gates' = gates \cup 0 .. 31 /\ UNCHANGED <<irr, isr, remapped>>
      BY <3>1 DEF IsrsInstall
    <3>3. gates' \subseteq 0 .. 255 /\ 0 .. 31 \subseteq gates'
      BY <3>2 DEF KInv, TypeOK, IntTypeOK
    <3>4. IntTypeOK'  BY <1>5, <3>2, <3>3 DEF KInv, TypeOK, IntTypeOK
    <3>5. BootInv'  BY <1>1, <1>4, <1>5, <2>2, <3>3 DEF BootInv
    <3>6. QED  BY <3>4, <3>5
  <2>3. CASE boot = 3
    <3>1. IrqInstall  BY <2>3, BootRange, MainSteps DEF InstallsInterrupts, Runs
    <3>2. gates' = gates \cup 32 .. 47 /\ irr' = {} /\ isr' = {} /\ remapped' = TRUE
      BY <3>1 DEF IrqInstall
    <3>3. 0 .. 31 \subseteq gates  BY <2>3 DEF KInv, BootInv
    <3>4. gates' \subseteq 0 .. 255  BY <3>2 DEF KInv, TypeOK, IntTypeOK
    <3>5. 0 .. 47 \subseteq gates' /\ 0 .. 31 \subseteq gates'
      <4>1. \A k \in 0 .. 47 : k \in 0 .. 31 \/ k \in 32 .. 47  OBVIOUS
      <4>2. QED  BY <3>2, <3>3, <4>1
    <3>6. IntTypeOK'  BY <1>5, <3>2, <3>4 DEF KInv, TypeOK, IntTypeOK
    <3>7. BootInv'  BY <1>1, <1>4, <1>5, <2>3, <3>2, <3>5 DEF BootInv
    <3>8. QED  BY <3>6, <3>7
  <2>4. QED  BY <1>3, <2>1, <2>2, <2>3
<1>8. UNCHANGED <<tasks, num_tasks, current_task, rem_tasks, state, ran>>
  BY <1>1 DEF taskVars
<1>9. TaskTypeOK'  BY <1>8 DEF KInv, TypeOK, TaskTypeOK
<1>10. AddedInv'  BY <1>1, <1>3, <1>8 DEF KInv, AddedInv
<1>11. SlotInv'
  <2>1. Waiting' = Waiting  BY <1>8 DEF Waiting, Served
  <2>2. QED  BY <1>6, <1>8, <2>1 DEF KInv, SlotInv
<1>12. boot' \in DOMAIN Main /\ ticks' \in 0 .. Period - 1 /\ fired' \in 0 .. Period - 1
  <2>1. boot' \in 1 .. 11  BY <1>1, <1>3
  <2>2. DOMAIN Main = 1 .. 11  BY BootRange
  <2>3. QED  BY <1>1, <2>1, <2>2 DEF KInv, TypeOK
<1>13. QED  BY <1>6, <1>7, <1>9, <1>10, <1>11, <1>12 DEF KInv, TypeOK

LEMMA InstallsHandlersPreserve ==
  ASSUME KInv, InstallsHandlers
  PROVE  KInv'
<1>1. UNCHANGED <<taskVars, ticks, fired>> /\ boot' = boot + 1
  BY DEF InstallsHandlers, NextStep
<1>2. Step \in {"timer_install", "keyboard_install", "ata_install"}
  BY DEF InstallsHandlers, Runs
<1>3. boot \in 4 .. 6 /\ boot \in 1 .. 10
  <2>1. boot = 4 \/ boot = 5 \/ boot = 6  BY <1>2, BootRange, MainSteps
  <2>2. QED  BY <2>1
<1>4. frames = <<>> /\ Len(frames) = 0 /\ iflag = FALSE /\ esp = 0 /\ isr = {}
  BY <1>3, InMain
<1>5. UNCHANGED <<irr, isr, remapped, gates, iflag, esp, frames>>
  BY DEF InstallsHandlers, IrqInstallHandlers
<1>6. FrameInv' /\ ~InTask'  BY <1>4, <1>5, MainIdle
<1>7. irq_routines \in [0 .. 15 -> Handlers]  BY DEF KInv, TypeOK, IntTypeOK
<1>8. /\ irq_routines' \in [0 .. 15 -> Handlers]
      /\ \A l \in 0 .. 15 : irq_routines[l] # "none" => irq_routines'[l] # "none"
      /\ boot = 4 => irq_routines'[0] # "none"
      /\ boot = 5 => irq_routines'[1] # "none"
      /\ boot = 6 => irq_routines'[14] # "none" /\ irq_routines'[15] # "none"
  <2>1. CASE boot = 4
    <3>1. IrqInstallHandlers([l \in {0} |-> "timer_handler"])
      BY <2>1, BootRange, MainSteps DEF InstallsHandlers, Runs
    <3>2. irq_routines' = [l \in 0 .. 15 |-> IF l = 0 THEN "timer_handler" ELSE irq_routines[l]]
      BY <3>1 DEF IrqInstallHandlers
    <3>3. QED  BY <1>7, <2>1, <3>2 DEF Handlers
  <2>2. CASE boot = 5
    <3>1. IrqInstallHandlers([l \in {1} |-> "keyboard_handler"])
      BY <2>2, BootRange, MainSteps DEF InstallsHandlers, Runs
    <3>2. irq_routines' = [l \in 0 .. 15 |-> IF l = 1 THEN "keyboard_handler" ELSE irq_routines[l]]
      BY <3>1 DEF IrqInstallHandlers
    <3>3. QED  BY <1>7, <2>2, <3>2 DEF Handlers
  <2>3. CASE boot = 6
    <3>1. IrqInstallHandlers(
            [l \in {14, 15} |-> IF l = 14 THEN "_primary_irq" ELSE "_secondary_irq"])
      BY <2>3, BootRange, MainSteps DEF InstallsHandlers, Runs
    <3>2. irq_routines' = [l \in 0 .. 15 |-> IF l = 14 THEN "_primary_irq"
                                             ELSE IF l = 15 THEN "_secondary_irq"
                                             ELSE irq_routines[l]]
      BY <3>1 DEF IrqInstallHandlers
    <3>3. QED  BY <1>7, <2>3, <3>2 DEF Handlers
  <2>4. QED  BY <1>3, <2>1, <2>2, <2>3
<1>9. IntTypeOK'  BY <1>5, <1>8 DEF KInv, TypeOK, IntTypeOK
<1>10. BootInv'
  <2>1. boot' \in 1 .. 11 /\ boot > 2 /\ boot > 3  BY <1>1, <1>3
  <2>2. 0 .. 31 \subseteq gates' /\ remapped' /\ 0 .. 47 \subseteq gates'
    BY <1>5, <2>1 DEF KInv, BootInv
  <2>3. ~iflag' /\ frames' = <<>>  BY <1>4, <1>5
  <2>4. boot' > 4 => irq_routines'[0] # "none"
    BY <1>1, <1>3, <1>8 DEF KInv, BootInv
  <2>5. boot' > 5 => irq_routines'[1] # "none"
    BY <1>1, <1>3, <1>8 DEF KInv, BootInv
  <2>6. boot' > 6 => irq_routines'[14] # "none" /\ irq_routines'[15] # "none"
    BY <1>1, <1>3, <1>8 DEF KInv, BootInv
  <2>7. QED  BY <2>1, <2>2, <2>3, <2>4, <2>5, <2>6 DEF BootInv
<1>11. UNCHANGED <<tasks, num_tasks, current_task, rem_tasks, state, ran>>
  BY <1>1 DEF taskVars
<1>12. TaskTypeOK'  BY <1>11 DEF KInv, TypeOK, TaskTypeOK
<1>13. AddedInv'  BY <1>1, <1>3, <1>11 DEF KInv, AddedInv
<1>14. SlotInv'
  <2>1. Waiting' = Waiting  BY <1>11 DEF Waiting, Served
  <2>2. QED  BY <1>6, <1>11, <2>1 DEF KInv, SlotInv
<1>15. boot' \in DOMAIN Main /\ ticks' \in 0 .. Period - 1 /\ fired' \in 0 .. Period - 1
  <2>1. boot' \in 1 .. 11  BY <1>1, <1>3
  <2>2. DOMAIN Main = 1 .. 11  BY BootRange
  <2>3. QED  BY <1>1, <2>1, <2>2 DEF KInv, TypeOK
<1>16. QED  BY <1>6, <1>9, <1>10, <1>12, <1>13, <1>14, <1>15 DEF KInv, TypeOK

\* What main does to the tasks touches no interrupt.
LEMMA MainMovesOn ==
  ASSUME KInv, boot \in 7 .. 9, UNCHANGED <<intVars, ticks, fired>>,
         boot' = boot \/ boot' = boot + 1
  PROVE  /\ IntTypeOK' /\ BootInv' /\ FrameInv' /\ ~InTask'
         /\ boot' \in DOMAIN Main /\ ticks' \in 0 .. Period - 1 /\ fired' \in 0 .. Period - 1
<1>1. boot \in 1 .. 10  OBVIOUS
<1>2. frames = <<>> /\ Len(frames) = 0 /\ iflag = FALSE /\ esp = 0 /\ isr = {}
  BY <1>1, InMain
<1>3. UNCHANGED <<irr, isr, remapped, gates, irq_routines, iflag, esp, frames>>
  BY DEF intVars
<1>4. FrameInv' /\ ~InTask'  BY <1>2, <1>3, MainIdle
<1>5. IntTypeOK'  BY <1>3 DEF KInv, TypeOK, IntTypeOK
<1>6. BootInv'
  <2>1. boot' \in 1 .. 11 /\ boot > 2 /\ boot > 3 /\ boot > 4 /\ boot > 5 /\ boot > 6
    OBVIOUS
  <2>2. QED  BY <1>2, <1>3, <2>1 DEF KInv, BootInv
<1>7. boot' \in DOMAIN Main /\ ticks' \in 0 .. Period - 1 /\ fired' \in 0 .. Period - 1
  <2>1. boot' \in 1 .. 11  OBVIOUS
  <2>2. DOMAIN Main = 1 .. 11  BY BootRange
  <2>3. QED  BY <2>1, <2>2 DEF KInv, TypeOK
<1>8. QED  BY <1>4, <1>5, <1>6, <1>7

LEMMA InstallsTasksPreserve ==
  ASSUME KInv, InstallsTasks
  PROVE  KInv'
<1>1. UNCHANGED <<intVars, ticks, fired>> /\ boot' = boot + 1
  BY DEF InstallsTasks, NextStep
<1>2. boot = 7 \/ boot = 8
  <2>1. Step \in {"create_task_manager", "task_create"}  BY DEF InstallsTasks, Runs
  <2>2. QED  BY <2>1, BootRange, MainSteps
<1>3. boot \in 7 .. 9  BY <1>2
<1>4. /\ IntTypeOK' /\ BootInv' /\ FrameInv' /\ ~InTask'
      /\ boot' \in DOMAIN Main /\ ticks' \in 0 .. Period - 1 /\ fired' \in 0 .. Period - 1
  BY <1>1, <1>3, MainMovesOn
<1>5. num_tasks = 0 /\ ran = <<>> /\ \A p \in Pids : state[p] = "none"
  BY <1>2 DEF KInv, AddedInv
<1>6. \A i \in Slots : tasks[i] \notin Pids
  <2>1. Waiting = {}  BY <1>5 DEF Waiting
  <2>2. QED  BY <2>1 DEF KInv, SlotInv
<1>7. Waiting = {} /\ rem_tasks = Cardinality({})
  <2>1. Waiting = {}  BY <1>5 DEF Waiting
  <2>2. QED  BY <2>1 DEF KInv, SlotInv
<1>8. CASE boot = 7
  <2>1. PICK junk \in Junk : CreateTaskManager(junk)
    <3>1. Step # "task_create"  BY <1>8, BootRange, MainSteps
    <3>2. QED  BY <3>1 DEF InstallsTasks, Runs
  <2>2. /\ tasks' = [i \in Slots |-> IF i \in junk THEN Garbage ELSE NULL]
        /\ num_tasks' = 0 /\ current_task' = 255
        /\ UNCHANGED <<rem_tasks, state, ran>>
    BY <2>1 DEF CreateTaskManager
  <2>3. TaskTypeOK'  BY <2>2, Sizes DEF KInv, TypeOK, TaskTypeOK
  <2>4. AddedInv'  BY <1>1, <1>5, <1>8, <2>2 DEF AddedInv
  <2>5. \A i \in Slots : tasks'[i] \notin Pids
    <3>1. NULL \notin Pids /\ Garbage \notin Pids  BY Sizes DEF NULL, Garbage, Pids
    <3>2. QED  BY <2>2, <3>1
  <2>6. Waiting' = Waiting  BY <2>2 DEF Waiting, Served
  <2>7. SlotInv'  BY <1>4, <1>7, <2>2, <2>5, <2>6 DEF SlotInv
  <2>8. QED  BY <1>4, <2>3, <2>4, <2>7 DEF KInv, TypeOK
<1>9. CASE boot = 8
  <2>1. /\ state' = [p \in Pids |-> "NEW"]
        /\ UNCHANGED <<tasks, num_tasks, current_task, rem_tasks, ran>>
    <3>1. Step # "create_task_manager"  BY <1>9, BootRange, MainSteps
    <3>2. QED  BY <3>1 DEF InstallsTasks, Runs, TaskCreate
  <2>2. TaskTypeOK'  BY <2>1 DEF KInv, TypeOK, TaskTypeOK, States
  <2>3. AddedInv'
    <3>1. boot' = 9 /\ num_tasks' = 0 /\ 0 < NumTests  BY <1>1, <1>5, <1>9, <2>1, Sizes
    <3>2. \A p \in Pids : ~(p < 0)  BY DEF Pids
    <3>3. QED  BY <1>5, <2>1, <3>1, <3>2 DEF AddedInv
  <2>4. Waiting' = {}  BY <2>1 DEF Waiting
  <2>5. SlotInv'  BY <1>4, <1>6, <1>7, <2>1, <2>4 DEF SlotInv
  <2>6. QED  BY <1>4, <2>2, <2>3, <2>5 DEF KInv, TypeOK
<1>10. QED  BY <1>2, <1>8, <1>9

\* A task is added in the order of the pids: the next is num_tasks.
LEMMA AddsInOrder ==
  ASSUME KInv, AddsTask
  PROVE  \E i \in Starts :
           /\ num_tasks \in Pids /\ AddTask(num_tasks, i) /\ boot = 9
           /\ boot' = IF num_tasks = NumTests - 1 THEN 10 ELSE 9
<1>1. boot = 9  BY BootRange, MainSteps DEF AddsTask, Runs
<1>2. PICK p \in Pids, i \in Starts :
        /\ state[p] = "NEW" /\ \A q \in Pids : q < p => state[q] # "NEW"
        /\ AddTask(p, i)
        /\ boot' = IF p = NumTests - 1 THEN boot + 1 ELSE boot
  BY DEF AddsTask
<1>3. /\ num_tasks < NumTests /\ num_tasks \in 0 .. NumTests
      /\ \A q \in Pids : state[q] = IF q < num_tasks THEN "READY" ELSE "NEW"
  BY <1>1 DEF KInv, AddedInv, TypeOK, TaskTypeOK
<1>4. num_tasks \in Pids /\ NumTests \in Nat  BY <1>3, Sizes DEF Pids
<1>5. ~(p < num_tasks)  BY <1>2, <1>3
<1>6. ~(num_tasks < p)
  <2>1. ~(num_tasks < num_tasks)  BY <1>3, Sizes
  <2>2. state[num_tasks] = "NEW"  BY <1>3, <1>4, <2>1
  <2>3. QED  BY <1>2, <1>4, <2>2
<1>7. p = num_tasks  BY <1>3, <1>4, <1>5, <1>6 DEF Pids
<1>8. QED  BY <1>1, <1>2, <1>4, <1>7

\* What is added waits, and did not before.
LEMMA AddServes ==
  ASSUME KInv, AddsTask
  PROVE  /\ num_tasks \in Pids /\ num_tasks \notin Waiting
         /\ Waiting' = Waiting \cup {num_tasks}
         /\ ran = <<>> /\ ran' = ran /\ rem_tasks' = rem_tasks + 1
<1> DEFINE p == num_tasks
<1>1. PICK i \in Starts : p \in Pids /\ AddTask(p, i) /\ boot = 9  BY AddsInOrder
<1>2. /\ ran = <<>> /\ \A q \in Pids : state[q] = IF q < p THEN "READY" ELSE "NEW"
      /\ state \in [Pids -> States]
  BY <1>1 DEF KInv, AddedInv, TypeOK, TaskTypeOK
<1>3. state' = [state EXCEPT ![p] = "READY"] /\ ran' = ran /\ rem_tasks' = rem_tasks + 1
  BY <1>1 DEF AddTask
<1>4. p \in 0 .. NumTests - 1 /\ NumTests \in Nat /\ p \in Pids  BY <1>1, Sizes DEF Pids
<1>5. UNCHANGED ran  BY <1>3
<1> HIDE DEF p
<1>6. \A q : ~Served(q) /\ ~Served(q)'  BY <1>2, <1>3 DEF Served
<1>7. ~(p < p)  BY <1>4
<1>8. state[p] = "NEW"  BY <1>2, <1>4, <1>7
<1>9. p \notin Waiting  BY <1>8 DEF Waiting
<1>10. /\ state'[p] = "READY" /\ \A q \in Pids : q # p => state'[q] = state[q]
  BY <1>2, <1>3, <1>4
<1>11. Waiting' = Waiting \cup {p}  BY <1>4, <1>6, <1>10 DEF Waiting
<1>12. QED  BY <1>2, <1>3, <1>4, <1>9, <1>11 DEF p

LEMMA AddsPreserve ==
  ASSUME KInv, AddsTask
  PROVE  KInv'
<1>1. UNCHANGED <<intVars, ticks, fired>>  BY DEF AddsTask
<1>2. PICK i \in Starts :
        /\ num_tasks \in Pids /\ AddTask(num_tasks, i) /\ boot = 9
        /\ boot' = IF num_tasks = NumTests - 1 THEN 10 ELSE 9
  BY AddsInOrder
<1>3. boot \in 7 .. 9 /\ (boot' = boot \/ boot' = boot + 1)  BY <1>2
<1>4. /\ IntTypeOK' /\ BootInv' /\ FrameInv' /\ ~InTask'
      /\ boot' \in DOMAIN Main /\ ticks' \in 0 .. Period - 1 /\ fired' \in 0 .. Period - 1
  BY <1>1, <1>3, MainMovesOn
<1> DEFINE p == num_tasks
<1>5. /\ ran = <<>> /\ \A q \in Pids : state[q] = IF q < p THEN "READY" ELSE "NEW"
      /\ state \in [Pids -> States] /\ tasks \in [Slots -> Pids \cup {NULL, Garbage}]
  BY <1>2 DEF KInv, AddedInv, TypeOK, TaskTypeOK
<1>6. /\ num_tasks' = p + 1 /\ current_task' = p /\ state' = [state EXCEPT ![p] = "READY"]
      /\ rem_tasks' = rem_tasks + 1 /\ ran' = ran
      /\ tasks' = tasks \/ \E k : tasks' = [tasks EXCEPT ![k] = p]
  BY <1>2 DEF AddTask
<1>7. p \in 0 .. NumTests - 1 /\ NumTests \in Nat \ {0} /\ NumTests <= 255 /\ p \in Pids
  BY <1>2, Sizes DEF Pids
<1> HIDE DEF p
<1>9. p \notin Waiting /\ Waiting' = Waiting \cup {p}  BY AddServes DEF p
<1>10. rem_tasks' = Cardinality(Waiting') /\ rem_tasks' \in 0 .. NumTests
  <2>1. Waiting \in SUBSET Pids /\ Waiting' \in SUBSET Pids  BY <1>7, <1>9 DEF Waiting
  <2>2. IsFiniteSet(Waiting) /\ rem_tasks = Cardinality(Waiting)
    BY <2>1, WaitingCount DEF KInv, SlotInv
  <2>3. Cardinality(Waiting \cup {p}) = Cardinality(Waiting) + 1
    BY <1>9, <2>2, FS_AddElement
  <2>4. rem_tasks' = Cardinality(Waiting')  BY <1>6, <1>9, <2>2, <2>3
  <2>5. Cardinality(Waiting') \in Nat /\ Cardinality(Waiting') <= NumTests
    BY <2>1, WaitingCount
  <2>6. QED  BY <1>7, <2>4, <2>5
<1>11. TaskTypeOK'
  <2>1. tasks' \in [Slots -> Pids \cup {NULL, Garbage}]  BY <1>5, <1>6, <1>7
  <2>2. num_tasks' \in 0 .. NumTests /\ current_task' \in 0 .. 255  BY <1>6, <1>7
  <2>3. state' \in [Pids -> States]  BY <1>5, <1>6 DEF States
  <2>4. ran' \in Seq(Pids)  BY <1>6 DEF KInv, TypeOK, TaskTypeOK
  <2>5. QED  BY <1>10, <2>1, <2>2, <2>3, <2>4 DEF TaskTypeOK
<1>12. AddedInv'
  <2>1. \A q \in Pids : state'[q] = IF q < p + 1 THEN "READY" ELSE "NEW"
    <3> SUFFICES ASSUME NEW q \in Pids
                 PROVE  state'[q] = IF q < p + 1 THEN "READY" ELSE "NEW"
      OBVIOUS
    <3>1. q \in Nat /\ p \in Nat  BY <1>7 DEF Pids
    <3>2. CASE q = p  BY <1>5, <1>6, <1>7, <3>1, <3>2
    <3>3. CASE q # p
      <4>1. q < p + 1 <=> q < p  BY <3>1, <3>3
      <4>2. state'[q] = state[q]  BY <1>5, <1>6, <3>3
      <4>3. QED  BY <1>5, <4>1, <4>2
    <3>4. QED  BY <3>2, <3>3
  <2>2. CASE p = NumTests - 1
    <3>1. boot' = 10 /\ num_tasks' = NumTests /\ current_task' = NumTests - 1
      BY <1>2, <1>6, <1>7, <2>2 DEF p
    <3>2. \A q \in Pids : q < p + 1  BY <1>7, <2>2 DEF Pids
    <3>3. \A q \in Pids : state'[q] \notin {"none", "NEW"}  BY <2>1, <3>2
    <3>4. current_task' \in 0 .. NumTests - 1  BY <1>7, <3>1
    <3>5. QED  BY <1>5, <1>6, <3>1, <3>3, <3>4 DEF AddedInv
  <2>3. CASE p # NumTests - 1
    <3>1. boot' = 9  BY <1>2, <2>3 DEF p
    <3>2. num_tasks' < NumTests /\ num_tasks' = p + 1  BY <1>6, <1>7, <2>3
    <3>3. QED  BY <1>5, <1>6, <2>1, <3>1, <3>2 DEF AddedInv
  <2>4. QED  BY <2>2, <2>3
<1>13. SlotInv'
  <2>1. /\ \A j \in Slots : tasks[j] \in Pids => tasks[j] \in Waiting /\ tasks[j] # p
        /\ \A j, k \in Slots : tasks[j] \in Pids /\ tasks[j] = tasks[k] => j = k
    BY <1>9 DEF KInv, SlotInv
  <2>2. CASE tasks' = tasks
    BY <1>4, <1>9, <1>10, <2>1, <2>2 DEF SlotInv
  <2>3. CASE \E k : tasks' = [tasks EXCEPT ![k] = p]
    <3>1. PICK k : tasks' = [tasks EXCEPT ![k] = p]  BY <2>3
    <3>2. \A j \in Slots : tasks'[j] = IF j = k THEN p ELSE tasks[j]  BY <1>5, <3>1
    <3>3. \A j \in Slots : tasks'[j] \in Pids => tasks'[j] \in Waiting'
      BY <1>9, <2>1, <3>2
    <3>4. \A j, h \in Slots : tasks'[j] \in Pids /\ tasks'[j] = tasks'[h] => j = h
      BY <1>7, <2>1, <3>2
    <3>5. QED  BY <1>4, <1>10, <3>3, <3>4 DEF SlotInv
  <2>4. QED  BY <1>6, <2>2, <2>3
<1>14. QED  BY <1>4, <1>11, <1>12, <1>13 DEF KInv, TypeOK

LEMMA StiPreserves ==
  ASSUME KInv, EnablesInterrupts
  PROVE  KInv'
<1>1. /\ boot' = boot + 1 /\ iflag' = TRUE
      /\ fired' = IF 0 \in irr THEN 1 % Period ELSE 0
      /\ UNCHANGED <<irr, isr, remapped, gates, irq_routines, esp, frames, taskVars, ticks>>
  BY DEF EnablesInterrupts, NextStep, Sti
<1>2. boot = 10  BY BootRange, MainSteps DEF EnablesInterrupts, Runs
<1>3. boot \in 1 .. 10  BY <1>2
<1>4. frames = <<>> /\ Len(frames) = 0 /\ esp = 0 /\ isr = {}  BY <1>3, InMain
<1>5. FrameInv' /\ ~InTask'  BY <1>1, <1>4, MainIdle
<1>6. IntTypeOK'  BY <1>1 DEF KInv, TypeOK, IntTypeOK
<1>7. boot' = 11  BY <1>1, <1>2
<1>8. BootInv'
  <2>1. boot' \in 1 .. 11 /\ ~(boot' < 11)  BY <1>7
  <2>2. /\ 0 .. 31 \subseteq gates /\ remapped /\ 0 .. 47 \subseteq gates
        /\ irq_routines[0] # "none" /\ irq_routines[1] # "none"
        /\ irq_routines[14] # "none" /\ irq_routines[15] # "none"
    BY <1>2 DEF KInv, BootInv
  <2>3. QED  BY <1>1, <2>1, <2>2 DEF BootInv
<1>9. UNCHANGED <<tasks, num_tasks, current_task, rem_tasks, state, ran>>
  BY <1>1 DEF taskVars
<1>10. TaskTypeOK'  BY <1>9 DEF KInv, TypeOK, TaskTypeOK
<1>11. AddedInv'
  <2>1. /\ num_tasks = NumTests /\ current_task \in 0 .. NumTests - 1
        /\ \A p \in Pids : state[p] \notin {"none", "NEW"}
    BY <1>2 DEF KInv, AddedInv
  <2>2. QED  BY <1>7, <1>9, <2>1 DEF AddedInv
<1>12. SlotInv'
  <2>1. Waiting' = Waiting  BY <1>9 DEF Waiting, Served
  <2>2. QED  BY <1>5, <1>9, <2>1 DEF KInv, SlotInv
<1>13. boot' \in DOMAIN Main /\ ticks' \in 0 .. Period - 1 /\ fired' \in 0 .. Period - 1
  <2>1. boot' \in DOMAIN Main  BY <1>7, BootRange
  <2>2. Period \in Nat \ {0}  BY Sizes
  <2>3. 1 % Period \in 0 .. Period - 1 /\ 0 \in 0 .. Period - 1  BY <2>2
  <2>4. QED  BY <1>1, <2>1, <2>3 DEF KInv, TypeOK
<1>14. QED  BY <1>5, <1>6, <1>8, <1>10, <1>11, <1>12, <1>13 DEF KInv, TypeOK

LEMMA RaisesPreserve ==
  ASSUME KInv, TimerFires \/ \E l \in Lines : DeviceRaises(l)
  PROVE  KInv'
<1>1. CASE TimerFires
  <2>1. 0 \in Lines /\ Raise(0) /\ UNCHANGED <<taskVars, boot, ticks>>
    BY <1>1, Sizes DEF TimerFires
  <2>2. Period \in Nat \ {0} /\ fired \in 0 .. Period - 1  BY Sizes DEF KInv, TypeOK
  <2>3. (fired + 1) % Period \in 0 .. Period - 1  BY <2>2
  <2>4. fired' \in 0 .. Period - 1  BY <1>1, <2>2, <2>3 DEF TimerFires
  <2>5. QED  BY <2>1, <2>4, DevicesPreserve
<1>2. ASSUME NEW l \in Lines, DeviceRaises(l) PROVE KInv'
  <2>1. Raise(l) /\ UNCHANGED <<taskVars, boot, ticks, fired>>
    BY <1>2 DEF DeviceRaises, kernelVars
  <2>2. fired' \in 0 .. Period - 1  BY <2>1 DEF KInv, TypeOK
  <2>3. QED  BY <2>1, <2>2, DevicesPreserve
<1>3. QED  BY <1>1, <1>2

LEMMA StutterPreserves ==
  ASSUME KInv, UNCHANGED vars
  PROVE  KInv'
<1>1. UNCHANGED <<irr, isr, remapped, gates, irq_routines, iflag, esp, frames>>
  BY DEF vars, intVars
<1>2. UNCHANGED <<taskVars, boot, ticks, fired>>  BY DEF vars, kernelVars
<1>3. IntTypeOK'  BY <1>1 DEF KInv, TypeOK, IntTypeOK
<1>4. BootInv'  BY <1>1, <1>2 DEF KInv, BootInv
<1>5. FrameInv'
  BY <1>1 DEF KInv, FrameInv, Interrupted, OneFrame, TwoFrames
<1>6. InTask' => IsTask(Current)  BY <1>1 DEF InTask, KInv, SlotInv
<1>7. TaskTypeOK' /\ AddedInv' /\ SlotInv'  BY <1>2, <1>6, TasksKept
<1>8. QED  BY <1>2, <1>3, <1>4, <1>5, <1>7 DEF KInv, TypeOK

\* A task's trap or fault, its vector picked.
LEMMA ExceptionsPreserve ==
  ASSUME KInv, TaskTraps \/ TaskFaults
  PROVE  KInv'
<1>1. CASE TaskTraps
  <2>1. PICK vec \in Traps : Enter(vec, [frames EXCEPT ![Len(frames)].at = "resumed"])
    BY <1>1 DEF TaskTraps
  <2>2. /\ At("body") /\ vec \in 0 .. 31
        /\ UNCHANGED <<irr, isr, remapped, gates, irq_routines, taskVars, boot, ticks, fired>>
    BY <1>1, Sizes DEF TaskTraps, kernelVars
  <2>3. "resumed" \in {"resumed", "faulted"}  OBVIOUS
  <2>4. QED  BY <2>1, <2>2, <2>3, ExceptionPreserves
<1>2. CASE TaskFaults
  <2>1. PICK vec \in Faults : Enter(vec, [frames EXCEPT ![Len(frames)].at = "faulted"])
    BY <1>2 DEF TaskFaults
  <2>2. /\ At("body") \/ At("faulted")
        /\ vec \in 0 .. 31
        /\ UNCHANGED <<irr, isr, remapped, gates, irq_routines, taskVars, boot, ticks, fired>>
    BY <1>2, Sizes DEF TaskFaults, kernelVars
  <2>3. "faulted" \in {"resumed", "faulted"}  OBVIOUS
  <2>4. QED  BY <2>1, <2>2, <2>3, ExceptionPreserves
<1>3. QED  BY <1>1, <1>2

LEMMA StepPreserves == KInv /\ [Next]_vars => KInv'
<1> SUFFICES ASSUME KInv, [Next]_vars PROVE KInv'  OBVIOUS
<1>1. CASE RunsMain
  BY <1>1, InterruptsPreserve, InstallsHandlersPreserve, InstallsTasksPreserve,
     AddsPreserve, StiPreserves DEF RunsMain
<1>2. CASE RunsHandler
  BY <1>2, StubPreserves, FaultHandlerPreserves, EoiPreserves, IretPreserves,
     HandlersPreserve, TimerPreserves DEF RunsHandler
<1>3. CASE RunsTask
  BY <1>3, TaskReturnsPreserves, SchedulerPreserves, ExceptionsPreserve DEF RunsTask
<1>4. CASE Accepts  BY <1>4, AcceptsPreserves
<1>5. CASE TimerFires \/ \E l \in Lines : DeviceRaises(l)  BY <1>5, RaisesPreserve
<1>6. CASE UNCHANGED vars  BY <1>6, StutterPreserves
<1>7. QED  BY <1>1, <1>2, <1>3, <1>4, <1>5, <1>6 DEF Next, CpuStep

-----------------------------------------------------------------------------
(* What is proved of the kernel.                                            *)

(***************************************************************************)
(* The inductive invariant holds in every state.                            *)
(***************************************************************************)
THEOREM Invariance == Spec => []KInv
BY InitHolds, StepPreserves, PTL DEF Spec

(***************************************************************************)
(* Every variable of the kernel keeps its type: the cursor, the counts and   *)
(* the pids in the slots stay in their ranges whatever garbage the array     *)
(* held and wherever add_task started (multithreading.c:16-65, 128-158).     *)
(***************************************************************************)
THEOREM Typing == Spec => []TypeOK
<1>1. KInv => TypeOK  BY DEF KInv
<1>2. QED  BY <1>1, Invariance, PTL

(***************************************************************************)
(* One interrupt at a time, and nothing but its line in service: the ends of *)
(* interrupt of irq.c:62-74 and of the disk handlers dismiss no other.       *)
(***************************************************************************)
THEOREM Alone == Spec => []OneInterrupt
<1>1. KInv => OneInterrupt
  <2> SUFFICES ASSUME KInv PROVE OneInterrupt  OBVIOUS
  <2>1. frames \in Seq(Frame) /\ Len(frames) \in Nat /\ DOMAIN frames = 1 .. Len(frames)
    <3>1. frames \in Seq(Frame)  BY DEF KInv, TypeOK, IntTypeOK
    <3>2. QED  BY <3>1, LenProperties
  <2>2. Len(frames) <= 2  BY DEF KInv, FrameInv
  <2>3. ASSUME NEW i \in DOMAIN frames PROVE ~iflag /\ (i > 1 => frames[i].vec < 32)
    <3>1. i \in 1 .. Len(frames) /\ Len(frames) > 0  BY <2>1
    <3>2. ~iflag  BY <3>1, InHandler
    <3>3. i > 1 => i = 2 /\ Len(frames) = 2  BY <2>1, <2>2, <3>1
    <3>4. Len(frames) = 2 => frames[2].vec \in 0 .. 31  BY DEF KInv, FrameInv, TwoFrames
    <3>5. \A v \in 0 .. 31 : v < 32  OBVIOUS
    <3>6. QED  BY <3>2, <3>3, <3>4, <3>5
  <2>4. isr \subseteq IF frames = <<>> THEN {} ELSE ServiceBits(frames[1].vec - 32)
    <3>1. CASE Len(frames) = 0
      <4>1. frames = <<>>  BY <3>1, SomeHandler
      <4>2. isr = {}  BY <3>1 DEF KInv, FrameInv
      <4>3. QED  BY <4>1, <4>2
    <3>2. CASE Len(frames) > 0
      <4>1. frames # <<>>  BY <3>2, SomeHandler
      <4>2. isr \subseteq ServiceBits(frames[1].vec - 32)
        BY <3>2 DEF KInv, FrameInv, Interrupted
      <4>3. QED  BY <4>1, <4>2
    <3>3. QED  BY <2>1, <3>1, <3>2
  <2>5. At("iret") /\ Len(frames) = 1 => isr = {}
    <3>1. At("iret") => Len(frames) > 0 /\ Top.at = "iret"  BY SomeHandler
    <3>2. At("iret") /\ Len(frames) = 1 => frames[1].at = "iret"  BY <3>1 DEF Top
    <3>3. QED  BY <3>2 DEF KInv, FrameInv, OneFrame
  <2>6. QED  BY <2>2, <2>3, <2>4, <2>5 DEF OneInterrupt
<1>2. QED  BY <1>1, Invariance, PTL

(***************************************************************************)
(* Every iret pops the address the CPU pushed, for every vector, with an     *)
(* error code or without (isr_defs.asm, irq_defs.asm).                      *)
(***************************************************************************)
THEOREM StackKept == Spec => []ReturnsWhereInterrupted
<1>1. KInv => ReturnsWhereInterrupted
  <2> SUFFICES ASSUME KInv PROVE ReturnsWhereInterrupted  OBVIOUS
  <2>1. At("iret") => esp - DroppedWords = Top.sp
    <3> SUFFICES ASSUME At("iret") PROVE esp - DroppedWords = Top.sp  OBVIOUS
    <3>1. Len(frames) > 0 /\ Top.at = "iret"  BY SomeHandler
    <3>2. (esp = 5 /\ Top.sp = 3) \/ (esp = 10 /\ Top.sp = 8)  BY <3>1, Returning
    <3>3. QED  BY <3>2 DEF DroppedWords
  <2>2. frames = <<>> => esp = 0
    <3>1. frames = <<>> => Len(frames) = 0  BY SomeHandler
    <3>2. QED  BY <3>1 DEF KInv, FrameInv
  <2>3. QED  BY <2>1, <2>2 DEF ReturnsWhereInterrupted
<1>2. QED  BY <1>1, Invariance, PTL

(***************************************************************************)
(* No interrupt finds the machinery half built (main.c:20-51).              *)
(***************************************************************************)
THEOREM Ready == Spec => []MachineryReady
<1>1. KInv => MachineryReady
  <2> SUFFICES ASSUME KInv,
                      iflag \/ frames # <<>>
               PROVE  /\ remapped /\ 0 .. 47 \subseteq gates
                      /\ \A l \in {0, 1, 14, 15} : irq_routines[l] # "none"
                      /\ \A p \in Pids : state[p] \notin {"none", "NEW"}
    BY DEF MachineryReady
  <2>1. frames # <<>> => Len(frames) > 0  BY SomeHandler
  <2>2. boot = 11 /\ remapped /\ 0 .. 47 \subseteq gates
    BY <2>1, WhenEnabled, InHandler
  <2>3. /\ irq_routines[0] # "none" /\ irq_routines[1] # "none"
        /\ irq_routines[14] # "none" /\ irq_routines[15] # "none"
    BY <2>2 DEF KInv, BootInv
  <2>4. \A p \in Pids : state[p] \notin {"none", "NEW"}
    BY <2>2 DEF KInv, AddedInv
  <2>5. QED  BY <2>2, <2>3, <2>4
<1>2. QED  BY <1>1, Invariance, PTL

-----------------------------------------------------------------------------
(* The task manager keeps its promises.                                     *)

\* Only main's last steps and the end of a run touch the tasks.
LEMMA OthersKeepTasks ==
  ASSUME [Next]_vars, ~InstallsTasks, ~AddsTask, ~SchedulerResumes
  PROVE  UNCHANGED taskVars
<1>1. CASE RunsMain
  BY <1>1 DEF RunsMain, InstallsInterrupts, InstallsHandlers, EnablesInterrupts
<1>2. CASE RunsHandler
  BY <1>2 DEF RunsHandler, RunsStub, RunsFaultHandler, SendsEoi, Returns, PassesOver,
              AtaHandler, TimerHandler
<1>3. CASE RunsTask  BY <1>3 DEF RunsTask, TaskReturns, TaskTraps, TaskFaults
<1>4. CASE Accepts  BY <1>4 DEF Accepts
<1>5. CASE TimerFires \/ \E l \in Lines : DeviceRaises(l)
  BY <1>5 DEF TimerFires, DeviceRaises
<1>6. CASE UNCHANGED vars  BY <1>6 DEF vars
<1>7. QED  BY <1>1, <1>2, <1>3, <1>4, <1>5, <1>6 DEF Next, CpuStep

LEMMA ResumesServes ==
  ASSUME KInv, SchedulerResumes
  PROVE  /\ boot = 11 /\ Current \in Pids /\ Current \in Waiting
         /\ Waiting' = Waiting \ {Current}
         /\ ran' = Append(ran, Current) /\ rem_tasks' = rem_tasks - 1
         /\ AfterRun
<1>1. At("after") /\ AfterRun  BY DEF SchedulerResumes
<1>2. Len(frames) > 0 /\ frames[1].at = "after"  BY <1>1, PastStub
<1>3. boot = 11  BY <1>2, InHandler
<1>4. IsTask(Current)  BY <1>2 DEF KInv, SlotInv, InTask
<1>5. rem_tasks' = rem_tasks - 1  BY <1>1 DEF AfterRun
<1>6. QED  BY <1>1, <1>3, <1>4, <1>5, RunServes DEF IsTask

LEMMA InstallsServesNone ==
  ASSUME KInv, InstallsTasks
  PROVE  Waiting' = Waiting /\ ran' = ran /\ rem_tasks' = rem_tasks
<1>1. boot = 7 \/ boot = 8
  <2>1. Step \in {"create_task_manager", "task_create"}  BY DEF InstallsTasks, Runs
  <2>2. QED  BY <2>1, BootRange, MainSteps
<1>2. ran' = ran /\ rem_tasks' = rem_tasks
  BY DEF InstallsTasks, CreateTaskManager, TaskCreate
<1>3. \A p \in Pids : state[p] \in {"none", "NEW"}
  BY <1>1 DEF KInv, AddedInv
<1>4. \A p \in Pids : state'[p] \in {"none", "NEW"}
  BY <1>3 DEF InstallsTasks, CreateTaskManager, TaskCreate
<1>5. Waiting = {} /\ Waiting' = {}  BY <1>3, <1>4 DEF Waiting
<1>6. QED  BY <1>2, <1>5

(***************************************************************************)
(* However the array and the index start, the manager gives the service of   *)
(* TaskService: it admits a task once, runs it to its end once at most, and   *)
(* rem_tasks counts those that are left (multithreading.c:48-65, 128-158).   *)
(***************************************************************************)
THEOREM TasksOnce == Spec => RunsTasksOnce
<1>1. Init => Service!Init
  <2> SUFFICES ASSUME Init PROVE Service!Init  OBVIOUS
  <2>1. \A p \in Pids : state[p] = "none"  BY DEF Init, TaskInit
  <2>2. QED  BY <2>1 DEF Init, TaskInit, Service!Init
<1>2. KInv /\ [Next]_vars => [Service!Next]_(Service!serviceVars)
  <2> SUFFICES ASSUME KInv, [Next]_vars
               PROVE  Service!Next \/ (Waiting' = Waiting /\ ran' = ran /\ rem_tasks' = rem_tasks)
    BY DEF Service!serviceVars, Waiting
  <2>1. CASE AddsTask
    <3>1. /\ num_tasks \in Pids /\ num_tasks \notin Waiting
          /\ Waiting' = Waiting \cup {num_tasks}
          /\ ran = <<>> /\ ran' = ran /\ rem_tasks' = rem_tasks + 1
      BY <2>1, AddServes
    <3>2. PICK p \in Pids : p = num_tasks  BY <3>1
    <3>3. \A i \in 1 .. Len(ran) : ran[i] # p  BY <3>1
    <3>4. Service!Admit(p)  BY <3>1, <3>2, <3>3 DEF Service!Admit, Waiting
    <3>5. QED  BY <3>4 DEF Service!Next
  <2>2. CASE SchedulerResumes
    <3>1. /\ Current \in Pids /\ Current \in Waiting /\ Waiting' = Waiting \ {Current}
          /\ ran' = Append(ran, Current) /\ rem_tasks' = rem_tasks - 1
      BY <2>2, ResumesServes
    <3>2. PICK p \in Pids : p = Current  BY <3>1
    <3>3. Service!Finish(p)  BY <3>1, <3>2 DEF Service!Finish, Waiting
    <3>4. QED  BY <3>3 DEF Service!Next
  <2>3. CASE InstallsTasks  BY <2>3, InstallsServesNone
  <2>4. CASE ~InstallsTasks /\ ~AddsTask /\ ~SchedulerResumes
    <3>1. UNCHANGED taskVars  BY <2>4, OthersKeepTasks
    <3>2. QED  BY <3>1 DEF taskVars, Waiting, Served
  <2>5. QED  BY <2>1, <2>2, <2>3, <2>4
<1>3. QED  BY <1>1, <1>2, Invariance, PTL DEF Spec, RunsTasksOnce, Service!Spec

-----------------------------------------------------------------------------
(* The cursor of the scheduler.                                             *)

\* The cursor is on a task that has not run, with all that come after it in the
\* array, or every task has run.  add_task leaves it on the last task; once that
\* one has run it wraps to the first, and goes up to the last but one.
OnLast ==
  /\ current_task = NumTests - 1 /\ rem_tasks = NumTests
  /\ \A i \in Pids : tasks[i] = i
OnNext ==
  /\ current_task < NumTests - 1 /\ rem_tasks = NumTests - 1 - current_task
  /\ \A i \in current_task .. NumTests - 2 : tasks[i] = i
Cursor == boot > 9 /\ (rem_tasks = 0 \/ OnLast \/ OnNext)
Tame == Len(frames) > 0 => frames[1].at # "wild"

LEMMA CursorStarts ==
  ASSUME KInv, Step = "sti", WellPlaced
  PROVE  Cursor /\ Tame
<1>1. boot = 10  BY BootRange, MainSteps
<1>2. boot \in 1 .. 10 /\ boot > 9  BY <1>1
<1>3. Len(frames) = 0  BY <1>2, InMain
<1>4. /\ current_task = NumTests - 1 /\ ran = <<>>
      /\ \A p \in Pids : state[p] \notin {"none", "NEW"}
  BY <1>1 DEF KInv, AddedInv
<1>5. rem_tasks = NumTests
  <2>1. \A p : ~Served(p)  BY <1>4 DEF Served
  <2>2. Waiting = Pids  BY <1>4, <2>1 DEF Waiting
  <2>3. QED  BY <2>2, WaitingCount DEF KInv, SlotInv
<1>6. \A i \in Pids : tasks[i] = i
  BY Sizes DEF WellPlaced, Pids, Slots
<1>7. QED  BY <1>2, <1>3, <1>4, <1>5, <1>6 DEF Cursor, OnLast, Tame

\* When there is a task to run, the cursor is on one.
LEMMA CursorOnTask ==
  ASSUME KInv, Cursor, rem_tasks > 0
  PROVE  IsTask(Current)
<1>1. current_task \in 0 .. NumTests - 1 /\ NumTests \in Nat
  BY Sizes DEF KInv, AddedInv, Cursor
<1>2. CASE OnLast  BY <1>1, <1>2 DEF OnLast, IsTask, Current, Pids
<1>3. CASE OnNext
  <2>1. current_task \in current_task .. NumTests - 2 /\ current_task \in Pids
    BY <1>1, <1>3 DEF OnNext, Pids
  <2>2. QED  BY <1>3, <2>1 DEF OnNext, IsTask, Current
<1>4. rem_tasks # 0  BY DEF KInv, TypeOK, TaskTypeOK
<1>5. QED  BY <1>2, <1>3, <1>4 DEF Cursor

LEMMA CursorMoves ==
  ASSUME KInv, Cursor, SchedulerResumes
  PROVE  Cursor'
<1>1. boot = 11 /\ Current \in Waiting /\ AfterRun  BY ResumesServes
<1>2. boot' = boot  BY DEF SchedulerResumes, kernelVars
<1>3. /\ num_tasks = NumTests /\ current_task \in 0 .. NumTests - 1
      /\ rem_tasks \in 0 .. NumTests /\ tasks \in [Slots -> Pids \cup {NULL, Garbage}]
  BY <1>1 DEF KInv, AddedInv, TypeOK, TaskTypeOK
<1>4. /\ current_task' = NextSlot /\ rem_tasks' = rem_tasks - 1
      /\ tasks' = [tasks EXCEPT ![current_task] = NULL]
  BY <1>1 DEF AfterRun
<1>5. NumTests \in Nat \ {0} /\ MaxTasks \in Nat /\ NumTests < MaxTasks  BY Sizes
<1>6. \A i \in Slots : i # current_task => tasks'[i] = tasks[i]  BY <1>3, <1>4
<1>7. rem_tasks # 0
  <2>1. Waiting \in SUBSET Pids /\ rem_tasks = Cardinality(Waiting)
    BY DEF Waiting, KInv, SlotInv
  <2>2. IsFiniteSet(Waiting) /\ Waiting # {}  BY <1>1, <2>1, WaitingCount
  <2>3. QED  BY <2>1, <2>2, FS_EmptySet
<1>8. CASE OnLast
  <2>1. current_task = NumTests - 1 /\ rem_tasks = NumTests /\ \A i \in Pids : tasks[i] = i
    BY <1>8 DEF OnLast
  <2>2. NumTests % NumTests = 0  BY <1>5
  <2>3. current_task' = 0  BY <1>3, <1>4, <1>5, <2>1, <2>2 DEF NextSlot, Wraps
  <2>4. rem_tasks' = NumTests - 1  BY <1>4, <2>1
  <2>5. CASE NumTests = 1  BY <1>1, <1>2, <2>4, <2>5 DEF Cursor
  <2>6. CASE NumTests # 1
    <3>1. \A i \in 0 .. NumTests - 2 : i \in Slots /\ i \in Pids /\ i # current_task
      BY <1>5, <2>1 DEF Slots, Pids
    <3>2. \A i \in 0 .. NumTests - 2 : tasks'[i] = i  BY <1>6, <2>1, <3>1
    <3>3. OnNext'  BY <1>5, <2>3, <2>4, <2>6, <3>2 DEF OnNext
    <3>4. QED  BY <1>1, <1>2, <3>3 DEF Cursor
  <2>7. QED  BY <2>5, <2>6
<1>9. CASE OnNext
  <2>1. /\ current_task < NumTests - 1 /\ rem_tasks = NumTests - 1 - current_task
        /\ \A i \in current_task .. NumTests - 2 : tasks[i] = i
    BY <1>9 DEF OnNext
  <2>2. current_task' = current_task + 1
    BY <1>3, <1>4, <1>5, <2>1 DEF NextSlot, Wraps
  <2>3. rem_tasks' = NumTests - 1 - current_task'  BY <1>3, <1>4, <1>5, <2>1, <2>2
  <2>4. CASE current_task' = NumTests - 1  BY <1>1, <1>2, <1>5, <2>3, <2>4 DEF Cursor
  <2>5. CASE current_task' # NumTests - 1
    <3>1. current_task' < NumTests - 1  BY <1>3, <1>5, <2>1, <2>2, <2>5
    <3>2. \A i \in current_task' .. NumTests - 2 :
            i \in Slots /\ i \in current_task .. NumTests - 2 /\ i # current_task
      BY <1>3, <1>5, <2>2 DEF Slots
    <3>3. \A i \in current_task' .. NumTests - 2 : tasks'[i] = i  BY <1>6, <2>1, <3>2
    <3>4. OnNext'  BY <2>3, <3>1, <3>3 DEF OnNext
    <3>5. QED  BY <1>1, <1>2, <3>4 DEF Cursor
  <2>6. QED  BY <2>4, <2>5
<1>10. QED  BY <1>7, <1>8, <1>9 DEF Cursor

LEMMA CursorStays ==
  ASSUME KInv, Cursor, [Next]_vars
  PROVE  Cursor'
<1>1. boot \in 10 .. 11
  <2>1. boot \in 1 .. 11 /\ boot > 9  BY BootRange DEF Cursor
  <2>2. QED  BY <2>1
<1>2. ~InstallsTasks /\ ~AddsTask
  <2>1. Step \notin {"create_task_manager", "task_create", "add_task"}
    BY <1>1, BootRange, MainSteps
  <2>2. QED  BY <2>1 DEF InstallsTasks, AddsTask, Runs
<1>3. CASE SchedulerResumes  BY <1>3, CursorMoves
<1>4. CASE ~SchedulerResumes
  <2>1. UNCHANGED <<tasks, current_task, rem_tasks>>
    BY <1>2, <1>4, OthersKeepTasks DEF taskVars
  <2>2. boot' > 9
    <3>1. boot' = boot \/ boot' = boot + 1
      BY <1>2 DEF Next, CpuStep, RunsMain, RunsHandler, RunsTask, InstallsInterrupts,
         InstallsHandlers, EnablesInterrupts, NextStep, RunsStub, RunsFaultHandler, SendsEoi,
         Returns, PassesOver, AtaHandler, TimerHandler, TaskReturns, SchedulerResumes,
         TaskTraps, TaskFaults, Accepts, TimerFires, DeviceRaises, vars, kernelVars
    <3>2. QED  BY <1>1, <3>1
  <2>3. QED  BY <2>1, <2>2 DEF Cursor, OnLast, OnNext
<1>5. QED  BY <1>3, <1>4

\* A handler that moves on is in a wild call only if it moves there.
LEMMA GotoTame ==
  ASSUME KInv, Tame, NEW q, At(q), NEW p \in Places, p # "wild", Goto(p)
  PROVE  Tame'
<1>1. Len(frames) > 0  BY SomeHandler
<1>2. frames \in Seq(Frame) /\ (Len(frames) = 1 \/ Len(frames) = 2)  BY <1>1, InHandler
<1>3. /\ Len(frames') = Len(frames) /\ frames'[Len(frames)] = [Top EXCEPT !.at = p]
      /\ \A i \in 1 .. Len(frames) : i # Len(frames) => frames'[i] = frames[i]
      /\ Top \in Frame
  BY <1>1, <1>2, GotoFrames
<1>4. frames'[Len(frames)].at = p  BY <1>3, MovedOn
<1>5. CASE Len(frames) = 1  BY <1>4, <1>5 DEF Tame
<1>6. CASE Len(frames) = 2
  <2>1. frames'[1] = frames[1]  BY <1>3, <1>6
  <2>2. QED  BY <1>1, <2>1 DEF Tame
<1>7. QED  BY <1>2, <1>5, <1>6

LEMMA EnterTame ==
  ASSUME KInv, NEW below \in Seq(Frame), NEW vec \in 0 .. 255, Enter(vec, below),
         Len(below) > 0 => below[1].at # "wild"
  PROVE  Tame'
<1>1. esp \in Nat /\ iflag \in BOOLEAN  BY DEF KInv, TypeOK, IntTypeOK
<1>2. /\ Len(frames') = Len(below) + 1
      /\ \A i \in 1 .. Len(below) : frames'[i] = below[i]
      /\ frames'[Len(below) + 1] =
           [vec |-> vec, at |-> IF vec \in gates THEN "stub" ELSE "reset",
            iflag |-> iflag, sp |-> esp + 3]
  BY <1>1, EnterFrames
<1>3. Len(below) \in Nat  OBVIOUS
<1>4. CASE Len(below) = 0
  <2>1. frames'[1].at = IF vec \in gates THEN "stub" ELSE "reset"  BY <1>2, <1>4
  <2>2. QED  BY <2>1 DEF Tame
<1>5. CASE Len(below) # 0
  <2>1. 1 \in 1 .. Len(below) /\ Len(below) > 0  BY <1>3, <1>5
  <2>2. frames'[1] = below[1]  BY <1>2, <2>1
  <2>3. QED  BY <2>1, <2>2 DEF Tame
<1>6. QED  BY <1>4, <1>5

LEMMA HandlersTame ==
  ASSUME KInv, Cursor, Tame, RunsHandler
  PROVE  Tame'
<1>1. CASE RunsStub
  BY <1>1, GotoTame DEF RunsStub, Stub, Places
<1>2. CASE RunsFaultHandler
  BY <1>2, GotoTame DEF RunsFaultHandler, FaultHandler, Places
<1>3. CASE SendsEoi  BY <1>3, GotoTame DEF SendsEoi, IrqEoi, Places
<1>4. CASE PassesOver \/ AtaHandler("_primary_irq", 14) \/ AtaHandler("_secondary_irq", 15)
  BY <1>4, GotoTame DEF PassesOver, AtaHandler, Dispatches, Places
<1>5. CASE Returns
  <2>1. Len(frames) > 0 /\ frames' = SubSeq(frames, 1, Len(frames) - 1)
    BY <1>5, SomeHandler DEF Returns, Iret
  <2>2. frames \in Seq(Frame) /\ (Len(frames) = 1 \/ Len(frames) = 2)  BY <2>1, InHandler
  <2>3. CASE Len(frames) = 1
    <3>1. Len(frames') = 0  BY <2>1, <2>2, <2>3
    <3>2. QED  BY <3>1 DEF Tame
  <2>4. CASE Len(frames) = 2
    <3>1. frames'[1] = frames[1]  BY <2>1, <2>2, <2>4
    <3>2. QED  BY <2>1, <3>1 DEF Tame
  <2>5. QED  BY <2>2, <2>3, <2>4
<1>6. CASE TimerHandler
  <2> DEFINE tick == (ticks + 1) % Period
             p == IF ~SchedulerRuns(tick) THEN "eoi"
                  ELSE IF IsTask(Current) THEN "body" ELSE "wild"
  <2>1. At("handler") /\ Goto(p)  BY <1>6 DEF TimerHandler, Dispatches
  <2>2. SchedulerRuns(tick) => IsTask(Current)  BY CursorOnTask DEF SchedulerRuns
  <2>3. p \in Places /\ p # "wild"  BY <2>2 DEF Places
  <2> HIDE DEF p
  <2>4. QED  BY <2>1, <2>3, GotoTame
<1>7. QED  BY <1>1, <1>2, <1>3, <1>4, <1>5, <1>6 DEF RunsHandler

LEMMA TasksTame ==
  ASSUME KInv, Tame, RunsTask
  PROVE  Tame'
<1>1. CASE TaskReturns  BY <1>1, GotoTame DEF TaskReturns, Places
<1>2. CASE SchedulerResumes  BY <1>2, GotoTame DEF SchedulerResumes, Places
<1>3. CASE TaskTraps \/ TaskFaults
  <2>1. PICK p \in {"resumed", "faulted"}, vec \in Traps \cup Faults :
          Enter(vec, [frames EXCEPT ![Len(frames)].at = p])
    BY <1>3 DEF TaskTraps, TaskFaults
  <2>2. Len(frames) = 1 /\ Len(frames) > 0  BY <1>3, PastStub DEF TaskTraps, TaskFaults
  <2>3. frames \in Seq(Frame) /\ p \in Places /\ p # "wild"
    BY <2>2, InHandler DEF Places
  <2> DEFINE below == [frames EXCEPT ![Len(frames)].at = p]
  <2> HIDE DEF below
  <2>4. /\ below \in Seq(Frame) /\ Len(below) = 1
        /\ below[Len(frames)] = [Top EXCEPT !.at = p] /\ Top \in Frame
    BY <2>2, <2>3, TopMoves DEF below
  <2>5. below[1].at = p  BY <2>2, <2>3, <2>4, MovedOn
  <2>6. vec \in 0 .. 255  BY Sizes
  <2>7. Enter(vec, below)  BY <2>1 DEF below
  <2>8. QED  BY <2>3, <2>4, <2>5, <2>6, <2>7, EnterTame
<1>4. QED  BY <1>1, <1>2, <1>3 DEF RunsTask

LEMMA StaysTame ==
  ASSUME KInv, Cursor, Tame, [Next]_vars
  PROVE  Tame'
<1>1. CASE UNCHANGED frames  BY <1>1 DEF Tame
<1>2. CASE Accepts
  <2>1. PICK l \in Lines : Accept(l) \/ AcceptSpurious(l)  BY <1>2 DEF Accepts
  <2>2. iflag  BY <2>1, Accepted
  <2>3. PICK v \in 0 .. 15 : Enter(32 + v, frames)  BY <2>1, Accepted
  <2>4. frames \in Seq(Frame) /\ 32 + v \in 0 .. 255  BY <2>2, WhenEnabled
  <2>5. QED  BY <2>3, <2>4, EnterTame DEF Tame
<1>3. CASE RunsHandler  BY <1>3, HandlersTame
<1>4. CASE RunsTask  BY <1>4, TasksTame
<1>5. CASE RunsMain
  BY <1>1, <1>5 DEF RunsMain, InstallsInterrupts, InstallsHandlers, InstallsTasks, AddsTask,
     EnablesInterrupts, IdtInstall, IsrsInstall, IrqInstall, IrqInstallHandlers, Sti, intVars
<1>6. CASE TimerFires \/ \E l \in Lines : DeviceRaises(l)
  BY <1>1, <1>6 DEF TimerFires, DeviceRaises, Raise
<1>7. CASE UNCHANGED vars  BY <1>1, <1>7 DEF vars, intVars
<1>8. QED  BY <1>2, <1>3, <1>4, <1>5, <1>6, <1>7 DEF Next, CpuStep

(***************************************************************************)
(* When add_tests filled a clear array from its first slot, the scheduler    *)
(* never calls through a slot without a task, for any number of tasks and    *)
(* any period (multithreading.c:128-158, timer.c:14-24).                    *)
(***************************************************************************)
THEOREM NoEmptySlot == Spec => NeverCallsEmptySlot
<1>1. KInv /\ Step = "sti" /\ WellPlaced => Cursor /\ Tame  BY CursorStarts
<1>2. KInv /\ Cursor /\ Tame /\ [Next]_vars => Cursor' /\ Tame'
  BY CursorStays, StaysTame
<1>3. KInv /\ Tame => (frames # <<>> => frames[1].at # "wild")
  BY SomeHandler DEF Tame
<1>4. QED  BY <1>1, <1>2, <1>3, Invariance, PTL DEF Spec, NeverCallsEmptySlot
=============================================================================
