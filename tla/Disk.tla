--------------------------------- MODULE Disk ---------------------------------
(***************************************************************************)
(* The primary IDE channel as ata.c sees it, with a disk, a packet drive or *)
(* nothing as its master and no slave: QEMU's, in which run.sh starts the   *)
(* kernel.  A register written twice keeps the value before as the upper    *)
(* half (hob) of a 48-bit command.  While the drive is busy or has data to  *)
(* move it ignores registers and commands, so that a driver that does not   *)
(* wait has some of its writes taken and others not.                        *)
(***************************************************************************)
EXTENDS Integers

CONSTANTS
  Kinds,     (* what may be the master: of "disk", "packet" and "none"     *)
  Sectors,   (* sectors of the disk                                        *)
  Words,     (* words to a sector, 256                                     *)
  Many       (* what an upper half of 1 counts, 256                        *)

ASSUME DiskAssumption ==
  /\ Kinds \subseteq {"disk", "packet", "none"}
  /\ Sectors \in Nat \ {0} /\ Words \in Nat \ {0} /\ Many \in Nat \ {0, 1}

Registers == {"count", "lba", "upper"}   \* LBA1 and LBA2 are one, "upper"
Nowhere == Sectors                       \* every sector the disk does not have
Full == Many * Many                      \* the count a zero register stands for

VARIABLES
  kind,      (* what the master is                                         *)
  slave,     (* the slave is selected                                      *)
  reg, hob,  (* the registers and their values before                      *)
  status,    (* of BSY, DRQ and ERR, those that are set                    *)
  doing,     (* the command in progress                                    *)
  at,        (* the sector of the data to move                             *)
  todo       (* words of it still to move                                  *)

diskVars == <<kind, slave, reg, hob, status, doing, at, todo>>

DiskTypeOK ==
  /\ kind \in Kinds /\ slave \in BOOLEAN
  /\ reg \in [Registers -> 0 .. Full + Sectors] /\ hob \in [Registers -> 0 .. Full + Sectors]
  /\ status \subseteq {"BSY", "DRQ", "ERR"}
  /\ doing \in {"none", "identify", "read", "write", "store", "flush"}
  /\ at \in 0 .. Nowhere /\ todo \in 0 .. Words

DiskInit ==
  /\ kind \in Kinds /\ slave = FALSE
  /\ reg = [r \in Registers |-> 0] /\ hob = reg
  /\ status = {} /\ doing = "none" /\ at = 0 /\ todo = 0

Present == kind # "none" /\ ~slave
Idle == status \cap {"BSY", "DRQ"} = {}

\* The status register reads 0 where no drive answers.
Shows(bit) == Present /\ bit \in status

\* The sector the registers name.
Sector ==
  IF hob["lba"] = 0 /\ hob["upper"] = 0 /\ reg["upper"] = 0 /\ reg["lba"] < Sectors
  THEN reg["lba"] ELSE Nowhere

Advanced == [reg EXCEPT !["count"] = @ - 1, !["lba"] = @ + 1]

Select(s) ==
  /\ slave' = IF Idle THEN s ELSE slave
  /\ UNCHANGED <<kind, reg, hob, status, doing, at, todo>>

WriteRegister(r, value) ==
  /\ IF Present /\ Idle
     THEN hob' = [hob EXCEPT ![r] = IF r = "count" THEN reg[r] % Many ELSE reg[r]] /\ reg' = [reg EXCEPT ![r] = value]
     ELSE UNCHANGED <<reg, hob>>
  /\ UNCHANGED <<kind, slave, status, doing, at, todo>>

\* What the count registers of a 48-bit command ask for.
Count ==
  LET asked == Many * hob["count"] + (reg["count"] % Many) IN IF asked = 0 THEN Full ELSE asked

Command(c) ==
  /\ IF ~Present \/ ~Idle
     THEN UNCHANGED <<reg, status, doing>>
     ELSE IF kind = "packet"
     THEN status' = {"ERR"} /\ UNCHANGED <<reg, doing>>
     ELSE /\ status' = {"BSY"} /\ doing' = c
          /\ reg' = IF c \in {"read", "write"} THEN [reg EXCEPT !["count"] = Count] ELSE reg
  /\ UNCHANGED <<kind, slave, hob, at, todo>>

\* The drive has data to move or wants some.
Offers(sector) == status' = {"DRQ"} /\ at' = sector /\ todo' = Words
Rests(error) == status' = error /\ doing' = "none" /\ UNCHANGED <<at, todo>>

\* Registers take the disk's progress, whose upper halves are 0.
Progresses == reg' = Advanced /\ hob' = [hob EXCEPT !["lba"] = 0, !["upper"] = 0]

\* The drive is done with what kept it busy.
Responds ==
  /\ "BSY" \in status
  /\ \/ doing = "identify" /\ Offers(0) /\ UNCHANGED <<doing, reg, hob>>
     \/ doing = "read" /\ Sector # Nowhere /\ Offers(Sector) /\ Progresses /\ UNCHANGED doing
     \/ doing = "write" /\ Offers(Sector) /\ UNCHANGED <<doing, reg, hob>>
     \/ doing = "store" /\ Sector # Nowhere /\ Progresses
           /\ IF reg["count"] = 1 THEN Rests({})
              ELSE Offers(IF Sector + 1 < Sectors THEN Sector + 1 ELSE Nowhere) /\ doing' = "write"
     \/ doing \in {"read", "store"} /\ Sector = Nowhere /\ Rests({"ERR"}) /\ UNCHANGED <<reg, hob>>
     \/ doing = "flush" /\ Rests({}) /\ UNCHANGED <<reg, hob>>
  /\ UNCHANGED <<kind, slave>>

\* One word through the data register; the drive ignores one that goes the
\* wrong way.  After the last it stores the sector, or reads the next.
MoveWord(out) ==
  /\ IF ~Shows("DRQ") \/ out # (doing = "write")
     THEN UNCHANGED <<status, doing, todo>>
     ELSE /\ todo' = todo - 1
          /\ IF todo > 1 THEN UNCHANGED <<status, doing>>
             ELSE IF out THEN status' = {"BSY"} /\ doing' = "store"
             ELSE IF doing = "read" /\ reg["count"] > 0 THEN status' = {"BSY"} /\ UNCHANGED doing
             ELSE status' = {} /\ doing' = "none"
  /\ UNCHANGED <<kind, slave, reg, hob, at>>
=============================================================================
