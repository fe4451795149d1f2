------------------------------ MODULE Interrupts ------------------------------
(***************************************************************************)
(* How an interrupt reaches kernel code and how control returns from it:    *)
(* the two 8259 controllers as irq.c programs them, the interrupt flag, the *)
(* stack words pushed by the CPU and by the assembly stubs of irq_defs.asm  *)
(* and isr_defs.asm, and the table irq_routines.                            *)
(*                                                                          *)
(* Every operator here is one step of the CPU or of a device and constrains *)
(* the variables of this module only; Kernel says who takes it and when.    *)
(***************************************************************************)
EXTENDS Integers, Sequences

CONSTANTS
  Lines,   (* the interrupt lines devices raise                     *)
  Faults,  (* exceptions that leave eip on the faulting instruction *)
  Traps    (* exceptions that leave eip on the next one             *)

Cascade == 2   \* the master input the slave is wired to

ASSUME InterruptsAssumption ==
  /\ Lines \subseteq (0 .. 15) \ {Cascade}
  /\ 0 \in Lines
  /\ Faults \subseteq 0 .. 31 /\ Traps \subseteq 0 .. 31

VARIABLES
  irr,          (* lines with a latched request                           *)
  isr,          (* lines in service, Cascade for the slave on the master  *)
  remapped,     (* whether irq_remap moved the lines to vectors 32 .. 47  *)
  gates,        (* the vectors idt_set_gate was called for                *)
  irq_routines, (* the handler of each line                               *)
  iflag,        (* the CPU's interrupt flag                               *)
  esp,          (* words on the kernel stack                              *)
  frames        (* handlers that have not returned, the innermost last    *)

intVars == <<irr, isr, remapped, gates, irq_routines, iflag, esp, frames>>

Handlers == {"none", "timer_handler", "keyboard_handler", "_primary_irq", "_secondary_irq"}

\* at: where the handler is; iflag: the saved flag; sp: the stack when the
\* return address was its top.
Places == {"stub", "reset", "handler", "body", "resumed", "faulted", "wild",
           "after", "eoi", "iret"}
Frame == [vec : 0 .. 255, at : Places, iflag : BOOLEAN, sp : Nat]

IntTypeOK ==
  /\ irr \subseteq Lines
  /\ isr \subseteq Lines \cup {Cascade}
  /\ remapped \in BOOLEAN
  /\ gates \subseteq 0 .. 255
  /\ irq_routines \in [0 .. 15 -> Handlers]
  /\ iflag \in BOOLEAN
  /\ esp \in Nat
  /\ frames \in Seq(Frame)

\* The machine as stage2 of boot.asm enters main: cli, and the controllers in
\* the BIOS's setting.
IntInit ==
  /\ irr = {}
  /\ isr = {}
  /\ remapped = FALSE
  /\ gates = {}
  /\ irq_routines = [l \in 0 .. 15 |-> "none"]
  /\ iflag = FALSE
  /\ esp = 0
  /\ frames = <<>>

-----------------------------------------------------------------------------
(* The controllers: fully nested priorities, non-specific end of interrupt. *)

OnSlave(l) == l >= 8
Input(l) == IF OnSlave(l) THEN Cascade ELSE l
ServiceBits(l) == {l, Input(l)}

Prior(l, k) == Input(l) < Input(k) \/ (Input(l) = Input(k) /\ l <= k)

\* A controller forwards a request only over what it has in service.
Unblocked(l) ==
  /\ \A k \in isr : ~OnSlave(k) => Input(l) < k
  /\ \A k \in isr : OnSlave(l) /\ OnSlave(k) => l < k

Forwarded(l) ==
  /\ l \in irr /\ Unblocked(l)
  /\ \A k \in irr : Unblocked(k) => Prior(l, k)

VectorOf(l) == IF remapped THEN 32 + l ELSE IF OnSlave(l) THEN 104 + l ELSE 8 + l

\* An end of interrupt clears the first of a controller's lines in service.
WithoutFirst(s) == {l \in s : \E k \in s : k < l}
MasterEoi(s) == {l \in s : OnSlave(l)} \cup WithoutFirst({l \in s : ~OnSlave(l)})
SlaveEoi(s) == {l \in s : ~OnSlave(l)} \cup WithoutFirst({l \in s : OnSlave(l)})

\* Mutants: the slave is forgotten; the master is.
SendEoiMasterOnly(l, s) == MasterEoi(s)
SendEoiOneChip(l, s) == IF OnSlave(l) THEN SlaveEoi(s) ELSE s

\* irq_send_eoi, and the end of irq_handler.
SendEoi(l, s) == MasterEoi(IF OnSlave(l) THEN SlaveEoi(s) ELSE s)

-----------------------------------------------------------------------------
(* The CPU.                                                                 *)

\* Every gate is set with flags 0x8E.  A gate of type 14 is an interrupt gate:
\* the CPU clears the interrupt flag on the way in; one of type 15 leaves it.
GateFlags == 142

\* Vectors for which the CPU pushes an error code in the kernel's ring and mode,
\* and those whose stub relies on it instead of pushing a zero.
CpuPushesCode(vec) == vec = 8 \/ vec \in 10 .. 14
StubReliesOnCode(vec) == vec = 8 \/ vec \in 10 .. 14

Top == frames[Len(frames)]
At(place) == frames # <<>> /\ Top.at = place
Goto(place) == frames' = [frames EXCEPT ![Len(frames)].at = place]

\* The CPU pushes eflags, cs and eip, then the error code.  below is the stack
\* of frames it interrupts.
Enter(vec, below) ==
  /\ frames' = Append(below, [vec |-> vec, at |-> IF vec \in gates THEN "stub" ELSE "reset",
                              iflag |-> iflag, sp |-> esp + 3])
  /\ esp' = esp + 3 + IF CpuPushesCode(vec) THEN 1 ELSE 0
  /\ iflag' = IF GateFlags % 16 = 14 THEN FALSE ELSE iflag

\* A device raises line l.  A request that is still latched swallows it.
Raise(l) ==
  /\ irr' = irr \cup {l}
  /\ UNCHANGED <<isr, remapped, gates, irq_routines, iflag, esp, frames>>

\* The CPU takes the request the controllers forward.
Accept(l) ==
  /\ iflag
  /\ Forwarded(l)
  /\ irr' = irr \ {l}
  /\ isr' = isr \cup ServiceBits(l)
  /\ Enter(VectorOf(l), frames)
  /\ UNCHANGED <<remapped, gates, irq_routines>>

\* A device drops its request, the only one left, before the CPU acknowledges
\* it: the controller answers with its last vector and marks nothing in
\* service, though the master has acknowledged the slave.  The timer's request
\* stays up far longer than that.
AcceptSpurious(l) ==
  /\ iflag
  /\ Forwarded(l)
  /\ l # 0 /\ irr = {l}
  /\ irr' = irr \ {l}
  /\ isr' = isr \cup (ServiceBits(l) \ {l})
  /\ Enter(VectorOf(IF OnSlave(l) THEN 15 ELSE 7), frames)
  /\ UNCHANGED <<remapped, gates, irq_routines>>

\* Mutant: every stub pushes a zero for the error code.
StubWordsAlwaysTwo(vec) == 2

\* The stub: cli, the missing error code, the vector.  What the common stub
\* pushes after that it pops itself.
StubWords(vec) == IF StubReliesOnCode(vec) THEN 1 ELSE 2

Stub ==
  /\ At("stub")
  /\ iflag' = FALSE
  /\ esp' = esp + StubWords(Top.vec)
  /\ Goto("handler")
  /\ UNCHANGED <<irr, isr, remapped, gates, irq_routines>>

\* Mutant: "add esp, 12".
DroppedWordsThree == 3

\* "add esp, 8" and iret, which pops eip, cs and eflags.
DroppedWords == 2

Iret ==
  /\ At("iret")
  /\ esp' = esp - DroppedWords - 3
  /\ iflag' = Top.iflag
  /\ frames' = SubSeq(frames, 1, Len(frames) - 1)
  /\ UNCHANGED <<irr, isr, remapped, gates, irq_routines>>

\* fault_handler prints the name of the exception and returns.
FaultHandler ==
  /\ At("handler") /\ Top.vec < 32
  /\ Goto("iret")
  /\ UNCHANGED <<irr, isr, remapped, gates, irq_routines, iflag, esp>>

\* irq_handler once the handler returned: the end of interrupt to the slave
\* for vectors from 40, then to the master.
IrqEoi ==
  /\ At("eoi")
  /\ isr' = SendEoi(Top.vec - 32, isr)
  /\ Goto("iret")
  /\ UNCHANGED <<irr, remapped, gates, irq_routines, iflag, esp>>

-----------------------------------------------------------------------------
(* Installation.                                                            *)

\* idt_install clears the table.
IdtInstall ==
  /\ gates' = {}
  /\ UNCHANGED <<irr, isr, remapped, irq_routines, iflag, esp, frames>>

IsrsInstall ==
  /\ gates' = gates \cup 0 .. 31
  /\ UNCHANGED <<irr, isr, remapped, irq_routines, iflag, esp, frames>>

\* irq_remap restarts both controllers, which forget latched requests.
IrqInstall ==
  /\ remapped' = TRUE
  /\ irr' = {}
  /\ isr' = {}
  /\ gates' = gates \cup 32 .. 47
  /\ UNCHANGED <<irq_routines, iflag, esp, frames>>

IrqInstallHandlers(new) ==
  /\ irq_routines' = [l \in 0 .. 15 |-> IF l \in DOMAIN new THEN new[l] ELSE irq_routines[l]]
  /\ UNCHANGED <<irr, isr, remapped, gates, iflag, esp, frames>>

Sti ==
  /\ iflag' = TRUE
  /\ UNCHANGED <<irr, isr, remapped, gates, irq_routines, esp, frames>>
=============================================================================
