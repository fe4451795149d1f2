---------------------------------- MODULE Ata ----------------------------------
(***************************************************************************)
(* The disk driver of ata.c over the channel of Disk, one port access a     *)
(* step, and the device table of device.c: the probe at boot, then calls of *)
(* the read and write functions it registers.  The device it registers has  *)
(* no _priv, so that which drive a call is for is read from memory nobody   *)
(* set: any of Units.  Of the secondary bus nothing is known: a status read *)
(* from it may say anything, at each read anew.  Sector numbers are small,  *)
(* so that the upper halves the driver writes are 0, but for the two shifts *)
(* by more than the width of lba, which are undefined: 0 or not.            *)
(***************************************************************************)
EXTENDS Disk, Sequences

CONSTANTS
  Units,     (* what _priv may yield: "master" and "slave" of the primary  *)
             (* bus, "secondary" for either of the other, or "unknown"     *)
  Calls,     (* pairs of the first sector and their number                 *)
  MaxCalls   (* bound: calls made                                          *)

ASSUME AtaAssumption ==
  /\ Units \subseteq {"master", "slave", "secondary", "unknown"}
  /\ Calls \subseteq Nat \X (Nat \ {0}) /\ \A c \in Calls : c[1] + c[2] <= Sectors
  /\ MaxCalls \in Nat

VARIABLES
  pc,        (* where the driver is                                        *)
  op,        (* what it is doing: "identify", "read" or "write"            *)
  regs,      (* the register writes still to do                            *)
  unit,      (* the drive of the call                                      *)
  lba, left, (* the sector it asks for; sectors to move, with it           *)
  words,     (* words to move                                              *)
  devices,   (* _devices, up to _current_id                                *)
  calls,     (* calls made                                                 *)
  began,     (* ghost: what the disk was doing when the call began         *)
  nth,       (* ghost: which of the call's sectors this is                 *)
  sound      (* ghost: the undefined shifts of the call were all 0         *)

requestVars == <<op, unit, lba, left, calls, began, nth, sound>>
vars == <<diskVars, pc, regs, words, devices, requestVars>>

TypeOK ==
  /\ DiskTypeOK
  /\ pc \in {"regs", "status", "err", "drq", "busy", "poll", "words", "flush", "idle", "panic"}
  /\ op \in {"identify", "read", "write"} /\ unit \in Units \cup {"master"}
  /\ Len(regs) \in 0 .. 8
  /\ lba \in 0 .. Sectors /\ left \in 0 .. Sectors /\ words \in 0 .. Words
  /\ devices \in {<<>>, <<"block">>} /\ calls \in 0 .. MaxCalls
  /\ began \in {"none", "read", "write", "store", "flush"}
  /\ nth \in 1 .. Sectors + 1 /\ sound \in BOOLEAN

\* _ata_identify of the primary master is called by _ata_probe.
Init ==
  /\ DiskInit
  /\ pc = "regs" /\ op = "identify" /\ unit = "master"
  /\ regs = << <<"select", 0>>, <<"count", 0>>, <<"lba", 0>>, <<"upper", 0>>, <<"command", 0>> >>
  /\ lba = 0 /\ left = 0 /\ words = 0 /\ devices = <<>>
  /\ calls = 0 /\ began = "none" /\ nth = 1 /\ sound = TRUE

\* Mutant: the upper half of the sector comes after the lower.
RequestSwapped(o, which, sector, junk) ==
  LET high == IF o = "read" THEN 1 ELSE 0
  IN  << <<"select", IF which = "slave" THEN 1 ELSE 0>>,
         <<"count", high>>, <<"lba", sector>>, <<"upper", 0>>,
         <<"count", 1 - high>>, <<"lba", 0>>, <<"upper", junk>>, <<"command", 0>> >>

\* The register writes of _ata_read_one and _ata_write_one, which differ in
\* the count: 1 then 0 asks for Many sectors, 0 then 1 for one.
Request(o, which, sector, junk) ==
  LET high == IF o = "read" THEN 1 ELSE 0
  IN  << <<"select", IF which = "slave" THEN 1 ELSE 0>>,
         <<"count", high>>, <<"lba", 0>>, <<"upper", junk>>,
         <<"count", 1 - high>>, <<"lba", sector>>, <<"upper", 0>>, <<"command", 0>> >>

\* _ata_read and _ata_write, called through the device table.
Call ==
  /\ pc = "idle" /\ devices # <<>> /\ calls < MaxCalls
  /\ \E o \in {"read", "write"}, which \in Units, c \in Calls, junk \in {0, 1} :
       /\ op' = o /\ unit' = which /\ lba' = c[1] /\ left' = c[2] /\ sound' = (junk = 0)
       /\ IF which = "unknown" THEN UNCHANGED <<pc, regs>>
          ELSE pc' = "regs" /\ regs' = Request(o, which, c[1], junk)
  /\ calls' = calls + 1 /\ began' = doing /\ nth' = 1
  /\ UNCHANGED <<diskVars, words, devices>>

\* io names the primary bus.
OnPrimary == unit # "secondary"

\* The bits of a status read through io.
Answers ==
  LET bits == {"BSY", "DRQ", "ERR"}
  IN  IF OnPrimary THEN {{b \in bits : Shows(b)}} ELSE SUBSET bits

WritesRegister ==
  /\ pc = "regs"
  /\ LET r == Head(regs)
     IN  \/ ~OnPrimary /\ UNCHANGED diskVars
         \/ OnPrimary /\ r[1] = "select" /\ Select(r[2] = 1)
         \/ OnPrimary /\ r[1] = "command" /\ Command(op)
         \/ OnPrimary /\ r[1] \in Registers /\ WriteRegister(r[1], r[2])
  /\ regs' = Tail(regs)
  /\ pc' = IF Len(regs) > 1 THEN pc ELSE IF op = "identify" THEN "status" ELSE "busy"
  /\ UNCHANGED <<words, devices, requestVars>>

\* The driver looks at the status and goes to place, or stays.
Goes(from, place) ==
  /\ pc = from /\ pc' = place
  /\ words' = IF place = "words" THEN Words ELSE words
  /\ UNCHANGED <<diskVars, regs, devices, requestVars>>

\* Mutant: the test of the loop is inverted.
WaitsForError == Goes("err", IF Shows("ERR") THEN "drq" ELSE "err")

\* _ata_identify: the first status; the loop meant for BSY, which tests bit 0;
\* the loop for DRQ.
ReadsStatus == Goes("status", IF Present THEN "err" ELSE "idle")
WaitsForNoError == Goes("err", IF Shows("ERR") THEN "err" ELSE "drq")
WaitsForIdentity ==
  Goes("drq", IF Shows("ERR") THEN "idle" ELSE IF Shows("DRQ") THEN "words" ELSE "drq")

\* Mutant: the loop for DRQ is left out.
PollsBusyOnly == \E a \in Answers : Goes("busy", IF "BSY" \in a THEN "busy" ELSE "words")

\* _ata_poll: the loop for BSY, then the one for DRQ.
PollsBusy == \E a \in Answers : Goes("busy", IF "BSY" \in a THEN "busy" ELSE "poll")

\* Mutant: the error bit is not tested.
PollsReadyOnly == \E a \in Answers : Goes("poll", IF "DRQ" \in a THEN "words" ELSE "poll")

PollsReady ==
  \E a \in Answers :
    Goes("poll", IF "ERR" \in a THEN "panic" ELSE IF "DRQ" \in a THEN "words" ELSE "poll")

\* Mutant: the sectors are not counted.
NextSectorUncounted ==
  /\ lba' = lba + 1 /\ nth' = nth + 1 /\ pc' = "regs"
  /\ \E junk \in {0, 1} :
       regs' = Request(op, unit, lba + 1, junk) /\ sound' = (sound /\ junk = 0)
  /\ UNCHANGED <<op, unit, left, calls, began>>

\* The loops of _ata_read and _ata_write go on.
NextSector ==
  /\ left' = left - 1 /\ lba' = lba + 1 /\ nth' = nth + 1
  /\ IF left = 1 THEN regs' = <<>> /\ UNCHANGED sound
     ELSE \E junk \in {0, 1} :
            regs' = Request(op, unit, lba + 1, junk) /\ sound' = (sound /\ junk = 0)
  /\ pc' = IF left > 1 THEN "regs" ELSE "idle"
  /\ UNCHANGED <<op, unit, calls, began>>

\* Mutant: the device is added by the identification and by the probe.
DeviceAddTwice == devices' = devices \o <<"block", "block">>

device_add == devices' = Append(devices, "block")

\* A word by inportw or outportw; behind the last, _ata_probe adds the device,
\* a read goes on, a write flushes.
TransfersWord ==
  /\ pc = "words" /\ words' = words - 1
  /\ IF OnPrimary THEN MoveWord(op = "write") ELSE UNCHANGED diskVars
  /\ \/ words > 1 /\ UNCHANGED <<pc, regs, devices, requestVars>>
     \/ words = 1 /\ op = "identify" /\ device_add /\ pc' = "idle" /\ UNCHANGED <<regs, requestVars>>
     \/ words = 1 /\ op = "read" /\ NextSector /\ UNCHANGED devices
     \/ words = 1 /\ op = "write" /\ pc' = "flush" /\ UNCHANGED <<regs, devices, requestVars>>

\* _ata_flush does not wait, before or after.
Flushes ==
  /\ pc = "flush" /\ NextSector /\ UNCHANGED <<words, devices>>
  /\ IF OnPrimary THEN Command("flush") ELSE UNCHANGED diskVars

DriverStep ==
  \/ WritesRegister \/ ReadsStatus \/ WaitsForNoError \/ WaitsForIdentity
  \/ PollsBusy \/ PollsReady \/ TransfersWord \/ Flushes

DiskStep == Responds /\ UNCHANGED <<pc, regs, words, devices, requestVars>>

Next == Call \/ DriverStep \/ DiskStep

Spec == Init /\ [][Next]_vars /\ WF_vars(DriverStep) /\ WF_vars(DiskStep)

(***************************************************************************)
(* On the primary bus the driver moves words only while the drive is ready  *)
(* for them, and as many as the drive has left of the sector, except in a   *)
(* direction the drive does not expect (ata.c:225, 278-299, 351, 410).      *)
(***************************************************************************)
MovesWhenReady ==
  pc = "words" /\ OnPrimary =>
    /\ "DRQ" \in status
    /\ (op = "write") = (doing = "write") => todo = words

(***************************************************************************)
(* A call for the primary bus that finds its disk idle moves the sectors it *)
(* was asked for and no others, whatever calls for the secondary bus came   *)
(* before.  Reads move all of them, in order, although each request is      *)
(* for Many sectors and those that follow are ignored while these are       *)
(* pending (ata.c:336).  A write stores its first; those after it are cut   *)
(* short by the flush that is not waited for (ata.c:423) and may be stored  *)
(* nowhere, but never in another sector.  All this if the undefined shifts  *)
(* yield 0 (ata.c:338, 397).                                                *)
(***************************************************************************)
MovesAsAsked ==
  pc = "words" /\ OnPrimary /\ op # "identify" /\ began = "none" /\ sound =>
    /\ doing = op
    /\ at = lba \/ (op = "write" /\ nth > 1 /\ at = Nowhere)

(***************************************************************************)
(* The probe registers one device if a disk answered and none otherwise     *)
(* (ata.c:236-252, device.c:6-11).                                          *)
(***************************************************************************)
RegistersDisk == pc = "idle" => Len(devices) = IF kind = "disk" THEN 1 ELSE 0

(***************************************************************************)
(* The probe ends, unless the drive answers with an error: the loop meant   *)
(* for the busy bit then waits for that error to go away (ata.c:215).       *)
(***************************************************************************)
ProbeEnds == <>(pc = "idle" \/ "ERR" \in status)

(***************************************************************************)
(* A read of the disk ends, in data or in a panic, whatever reads came      *)
(* before it, although the polls have no bound (ata.c:288, 296).  A panic   *)
(* of one for the primary bus that finds its disk idle is the shifts' fault; *)
(* on the secondary bus a drive that answers with an error is enough.       *)
(***************************************************************************)
ReadsEnd ==
  (op = "read" /\ unit = "master" /\ began \in {"none", "read"}) ~> pc \in {"idle", "panic"}
PanicsOnJunk == pc = "panic" /\ OnPrimary /\ op = "read" /\ began = "none" => ~sound
=============================================================================
