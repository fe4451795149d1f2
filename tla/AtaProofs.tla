------------------------------- MODULE AtaProofs -------------------------------
(***************************************************************************)
(* What the disk driver may rely on, for any number of sectors, words,       *)
(* drives and calls, over the channel of Disk; calls for the secondary bus   *)
(* leave the channel alone and are told whatever that bus answers.           *)
(*                                                                          *)
(* The inductive invariant says what the drive's status tells of the command *)
(* it is at (DriveInv), what is left to write and to move (RegsInv,         *)
(* RangeInv, WordsInv), how far the probe has come (ProbeInv), and which     *)
(* sector the drive is at while the driver asks for one (ReadInv, WriteInv). *)
(***************************************************************************)
EXTENDS Ata, SequenceTheorems, TLAPS

-----------------------------------------------------------------------------
(* The inductive invariant.                                                 *)

\* A command is in progress while the drive is busy or has data to move.
DriveInv ==
  /\ doing = "none" <=> ("BSY" \notin status /\ "DRQ" \notin status)
  /\ "BSY" \in status => "DRQ" \notin status /\ "ERR" \notin status
  /\ "DRQ" \in status => "ERR" \notin status /\ doing \in {"identify", "read", "write"}
  /\ hob["count"] < Many
  /\ doing \in {"write", "store"} => reg["count"] > 0
  /\ doing = "read" /\ "BSY" \in status => reg["count"] > 0
  /\ slave => doing = "none"

\* The sectors of the call still to move are on the disk.
RangeInv ==
  /\ lba + left <= Sectors /\ nth + left <= Sectors + 1
  /\ pc \in {"regs", "busy", "poll", "words", "flush"} /\ op # "identify" => left > 0

Identification ==
  << <<"select", 0>>, <<"count", 0>>, <<"lba", 0>>, <<"upper", 0>>, <<"command", 0>> >>

\* What is left to write are the last of the request's registers.
RegsInv ==
  /\ regs \in Seq((Registers \cup {"select", "command"}) \X Nat)
  /\ pc = "regs" => Len(regs) > 0
  /\ pc = "regs" /\ op = "identify" =>
       /\ Len(regs) <= 5
       /\ \A i \in 1 .. 5 : (i > 5 - Len(regs) => regs[i + Len(regs) - 5] = Identification[i])
  /\ pc = "regs" /\ op # "identify" =>
       \E junk \in {0, 1} :
         /\ sound => junk = 0
         /\ \A i \in 1 .. 8 :
              (i > 8 - Len(regs) => regs[i + Len(regs) - 8] = Request(op, unit, lba, junk)[i])

\* The drive has all words of a sector, but for those moved on its bus.
WordsInv ==
  /\ pc = "words" => words > 0 /\ (OnPrimary => Present /\ "DRQ" \in status)
  /\ "DRQ" \in status =>
       todo = IF pc = "words" /\ OnPrimary /\ ((op = "write") = (doing = "write")) THEN words ELSE Words

\* The probe, and what it leaves to the calls.
ProbeInv ==
  /\ op = "identify" => pc \in {"regs", "status", "err", "drq", "words", "idle"} /\ OnPrimary
  /\ op = "identify" \/ ~OnPrimary => ~slave
  /\ op # "identify" => pc \notin {"status", "err", "drq"} /\ kind = "disk"
  /\ pc = "flush" => op = "write"
  /\ op = "identify" /\ pc = "regs" => doing = "none" /\ status = {}
  /\ op = "identify" /\ pc \in {"status", "err", "drq", "words"} =>
       \/ kind = "disk" /\ doing = "identify"
       \/ kind = "packet" /\ pc \in {"status", "err"} /\ "ERR" \in status
       \/ kind = "none" /\ pc = "status" /\ doing = "none"
  /\ pc \notin {"regs", "busy", "poll"} => ~slave
  /\ op # "identify" \/ pc = "idle" => doing # "identify"
  /\ devices = IF kind = "disk" /\ (op # "identify" \/ pc = "idle") THEN <<"block">> ELSE <<>>

\* The registers name sector l; they name it, or the one before it, or one the
\* disk does not have.
NoUpper == hob["upper"] = 0 /\ reg["upper"] = 0
Names(l) == NoUpper /\ hob["lba"] = 0 /\ reg["lba"] = l
NamesBefore(l) == NoUpper /\ (hob["lba"] = 0 /\ reg["lba"] < Sectors => reg["lba"] + 1 = l)
NamesAtMost(l) == NoUpper /\ (hob["lba"] = 0 /\ reg["lba"] < Sectors => reg["lba"] = l)

\* Every register of the request so far was taken.
Taken ==
  /\ Len(regs) \in 3 .. 5 => reg["lba"] = 0
  /\ Len(regs) <= 2 => hob["lba"] = 0 /\ reg["lba"] = lba
  /\ Len(regs) \in 2 .. 4 => reg["upper"] = 0
  /\ Len(regs) <= 1 => NoUpper

\* The call is for the primary bus and found its disk idle, and its shifts were
\* 0 so far.
Clean == OnPrimary /\ began = "none" /\ sound

\* The drive reads the sector asked for, or will once it has been asked.
Reads ==
  \/ /\ doing = "read"
     /\ "BSY" \in status => Names(lba)
     /\ "DRQ" \in status => at = lba /\ Names(lba + 1)
  \/ doing = "none" /\ (slave \/ (pc = "regs" /\ Taken))

ReadInv ==
  op = "read" /\ Clean =>
    /\ pc # "panic"
    /\ pc \in {"regs", "busy", "poll", "words"} => Reads

\* The first sector of a write.
WritesFirst ==
  \/ /\ doing = "write" /\ Names(lba) /\ pc # "regs"
     /\ "DRQ" \in status => at = lba
  \/ doing = "none" /\ (slave \/ (pc = "regs" /\ Taken))

\* Sector l comes after one that may be being stored or flushed.
WritesNext(l) ==
  /\ doing \in {"none", "store", "flush", "write"} /\ NoUpper
  /\ doing = "store" => NamesBefore(l)
  /\ doing \in {"flush", "write"} => NamesAtMost(l)
  /\ doing = "write" /\ "DRQ" \in status => at \in {l, Nowhere}
  /\ doing = "none" => slave \/ (pc = "regs" /\ Len(regs) > 2) \/ NamesAtMost(l)

WriteInv ==
  op = "write" /\ Clean =>
    /\ pc \in {"regs", "busy", "poll", "words"} => IF nth = 1 THEN WritesFirst ELSE WritesNext(lba)
    /\ pc = "flush" => WritesNext(lba + 1)

IInv ==
  /\ TypeOK /\ DriveInv /\ RangeInv /\ RegsInv /\ WordsInv /\ ProbeInv
  /\ ReadInv /\ WriteInv

-----------------------------------------------------------------------------
(* The drive.                                                               *)

LEMMA Resting == ASSUME DriveInv PROVE Idle <=> doing = "none"
<1>1. Idle <=> "BSY" \notin status /\ "DRQ" \notin status  BY DEF Idle
<1>2. QED  BY <1>1 DEF DriveInv

\* A count of 48 bits is at least one and at most Full.
LEMMA CountBounds ==
  ASSUME DiskTypeOK, DriveInv  PROVE Count \in 1 .. Full /\ 1 % Many = 1 /\ Full \in Nat
<1> DEFINE high == hob["count"]  low == reg["count"] % Many
<1>1. \A m, h, l \in Nat : m > 1 /\ h < m /\ l < m => m * h + l \in 0 .. m * m /\ 1 % m = 1
  <2> TAKE m, h, l \in Nat
  <2>1. h < m => m * h <= m * (m - 1)  OBVIOUS
  <2>2. QED  BY <2>1
<1>2. Many \in Nat /\ Many > 1  BY DiskAssumption
<1>3. high \in Nat /\ high < Many
  <2>1. Full \in Nat  BY <1>2 DEF Full
  <2>2. QED  BY <2>1, DiskAssumption DEF DiskTypeOK, DriveInv, Registers
<1>4. low \in Nat /\ low < Many
  <2>1. Full \in Nat  BY <1>2 DEF Full
  <2>2. reg["count"] \in Nat  BY <2>1, DiskAssumption DEF DiskTypeOK, Registers
  <2>3. QED  BY <2>2, <1>2
<1>5. Many * high + low \in 0 .. Full /\ 1 % Many = 1  BY <1>1, <1>2, <1>3, <1>4 DEF Full
<1>6. Full \in Nat /\ Full > 0  BY <1>2 DEF Full
<1>7. QED  BY <1>5, <1>6 DEF Count

LEMMA SelectKeeps ==
  ASSUME DiskTypeOK, DriveInv, NEW s \in BOOLEAN, Select(s)
  PROVE  DiskTypeOK' /\ DriveInv'
BY Resting DEF Select, DiskTypeOK, DriveInv

LEMMA RegisterKeeps ==
  ASSUME DiskTypeOK, DriveInv, NEW r \in Registers, NEW v \in 0 .. Full + Sectors,
         WriteRegister(r, v)
  PROVE  DiskTypeOK' /\ DriveInv'
<1>1. Many \in Nat /\ Many > 1 /\ Sectors \in Nat /\ Full \in Nat
  BY DiskAssumption, CountBounds
<1>2. CASE Present /\ Idle
  <2>1. doing = "none" /\ UNCHANGED <<kind, slave, status, doing, at, todo>>
    BY <1>2, Resting DEF WriteRegister
  <2>2. reg["count"] \in Nat  BY <1>1 DEF DiskTypeOK, Registers
  <2>3. reg["count"] % Many \in 0 .. Many - 1  BY <2>2, <1>1
  <2>4. Many - 1 <= Full + Sectors
    <3>1. \A m \in Nat : m > 1 => m <= m * m  OBVIOUS
    <3>2. QED  BY <3>1, <1>1 DEF Full
  <2>5. hob' \in [Registers -> 0 .. Full + Sectors] /\ reg' \in [Registers -> 0 .. Full + Sectors]
    BY <1>1, <1>2, <2>3, <2>4 DEF WriteRegister, DiskTypeOK
  <2>6. hob'["count"] < Many  BY <1>1, <1>2, <2>3 DEF WriteRegister, DiskTypeOK, DriveInv, Registers
  <2>7. QED  BY <2>1, <2>5, <2>6 DEF DiskTypeOK, DriveInv
<1>3. CASE ~(Present /\ Idle)
  BY <1>3 DEF WriteRegister, DiskTypeOK, DriveInv
<1>4. QED  BY <1>2, <1>3

LEMMA CommandKeeps ==
  ASSUME DiskTypeOK, DriveInv, NEW c \in {"identify", "read", "write", "flush"}, Command(c)
  PROVE  DiskTypeOK' /\ DriveInv'
<1>1. Count \in 1 .. Full /\ Full \in Nat /\ Sectors \in Nat  BY CountBounds, DiskAssumption
<1>2. CASE ~Present \/ ~Idle
  BY <1>2 DEF Command, DiskTypeOK, DriveInv
<1>3. CASE Present /\ Idle /\ kind = "packet"
  BY <1>3, Resting DEF Command, DiskTypeOK, DriveInv
<1>4. CASE Present /\ Idle /\ kind # "packet"
  <2>1. status' = {"BSY"} /\ doing' = c /\ UNCHANGED <<kind, slave, hob, at, todo>>
    BY <1>4 DEF Command
  <2>2. ~slave  BY <1>4 DEF Present
  <2>3. reg' \in [Registers -> 0 .. Full + Sectors]
    BY <1>1, <1>4 DEF Command, DiskTypeOK
  <2>4. c \in {"read", "write"} => reg'["count"] > 0
    BY <1>1, <1>4 DEF Command, DiskTypeOK, Registers
  <2>5. QED  BY <2>1, <2>2, <2>3, <2>4 DEF DiskTypeOK, DriveInv
<1>5. QED  BY <1>2, <1>3, <1>4

LEMMA RespondsKeeps ==
  ASSUME DiskTypeOK, DriveInv, Responds
  PROVE  DiskTypeOK' /\ DriveInv' /\ ("DRQ" \in status' => todo' = Words) /\ ~slave
<1>1. Full \in Nat /\ Sectors \in Nat /\ Sectors > 0 /\ Words \in Nat /\ Words > 0 /\ Many > 1
  BY CountBounds, DiskAssumption
<1>2. "BSY" \in status /\ doing # "none" /\ ~slave /\ UNCHANGED <<kind, slave>>
  BY DEF Responds, DriveInv
<1>3. reg["count"] \in 0 .. Full + Sectors /\ reg["lba"] \in 0 .. Full + Sectors
  BY DEF DiskTypeOK, Registers
<1>4. Sector \in 0 .. Nowhere  BY <1>1, <1>3 DEF Sector, Nowhere
<1>5. ASSUME Sector # Nowhere, reg["count"] > 0, Progresses
      PROVE  /\ reg' \in [Registers -> 0 .. Full + Sectors] /\ hob' \in [Registers -> 0 .. Full + Sectors]
             /\ hob'["count"] < Many /\ reg'["count"] = reg["count"] - 1
  <2>1. reg["lba"] < Sectors  BY <1>5 DEF Sector
  <2>2. reg["lba"] + 1 \in 0 .. Full + Sectors /\ reg["count"] - 1 \in 0 .. Full + Sectors
    BY <1>1, <1>3, <1>5, <2>1
  <2>3. reg' = [reg EXCEPT !["count"] = reg["count"] - 1, !["lba"] = reg["lba"] + 1]
    BY <1>5 DEF Progresses, Advanced
  <2>4. reg' \in [Registers -> 0 .. Full + Sectors]  BY <2>2, <2>3 DEF DiskTypeOK
  <2>5. hob' \in [Registers -> 0 .. Full + Sectors]
    <3>1. 0 \in 0 .. Full + Sectors  BY <1>1
    <3>2. QED  BY <1>5, <3>1 DEF Progresses, DiskTypeOK
  <2>6. hob'["count"] < Many  BY <1>5 DEF Progresses, DiskTypeOK, DriveInv, Registers
  <2>7. reg'["count"] = reg["count"] - 1  BY <2>3 DEF DiskTypeOK, Registers
  <2>8. QED  BY <2>4, <2>5, <2>6, <2>7
<1>6. CASE doing = "identify"
  BY <1>1, <1>2, <1>6 DEF Responds, Offers, DiskTypeOK, DriveInv, Nowhere
<1>7. CASE doing = "read" /\ Sector # Nowhere
  <2>1. Offers(Sector) /\ Progresses /\ UNCHANGED doing  BY <1>7 DEF Responds
  <2>2. reg["count"] > 0  BY <1>2, <1>7 DEF DriveInv
  <2>3. QED  BY <1>1, <1>2, <1>4, <1>5, <1>7, <2>1, <2>2 DEF Offers, DiskTypeOK, DriveInv
<1>8. CASE doing = "write"
  BY <1>1, <1>2, <1>4, <1>8 DEF Responds, Offers, DiskTypeOK, DriveInv
<1>9. CASE doing = "store" /\ Sector # Nowhere
  <2>1. Progresses  BY <1>9 DEF Responds
  <2>2. reg["count"] > 0  BY <1>9 DEF DriveInv
  <2>3. CASE reg["count"] = 1
    <3>1. status' = {} /\ doing' = "none" /\ UNCHANGED <<at, todo>>
      BY <1>9, <2>3 DEF Responds, Rests
    <3>2. QED  BY <1>2, <1>5, <1>9, <2>1, <2>2, <3>1 DEF DiskTypeOK, DriveInv
  <2>4. CASE reg["count"] # 1
    <3>1. Offers(IF Sector + 1 < Sectors THEN Sector + 1 ELSE Nowhere) /\ doing' = "write"
      BY <1>9, <2>4 DEF Responds
    <3>2. at' \in 0 .. Nowhere  BY <1>1, <1>4, <3>1 DEF Offers, Nowhere
    <3>3. reg["count"] - 1 > 0  BY <1>3, <2>2, <2>4
    <3>4. status' = {"DRQ"} /\ todo' = Words  BY <3>1 DEF Offers
    <3>5. QED  BY <1>1, <1>2, <1>5, <1>9, <2>1, <2>2, <3>1, <3>2, <3>3, <3>4 DEF DiskTypeOK, DriveInv
  <2>5. QED  BY <2>3, <2>4
<1>10. CASE doing \in {"read", "store"} /\ Sector = Nowhere
  <2>1. Rests({"ERR"}) /\ UNCHANGED <<reg, hob>>  BY <1>10 DEF Responds
  <2>2. QED  BY <1>2, <2>1 DEF Rests, DiskTypeOK, DriveInv
<1>11. CASE doing = "flush"
  <2>1. Rests({}) /\ UNCHANGED <<reg, hob>>  BY <1>11 DEF Responds
  <2>2. QED  BY <1>2, <2>1 DEF Rests, DiskTypeOK, DriveInv
<1>12. QED  BY <1>2, <1>6, <1>7, <1>8, <1>9, <1>10, <1>11 DEF DiskTypeOK

LEMMA MoveKeeps ==
  ASSUME DiskTypeOK, DriveInv, NEW out \in BOOLEAN, MoveWord(out), "DRQ" \in status => todo > 0
  PROVE  DiskTypeOK' /\ DriveInv'
<1>1. todo \in 0 .. Words /\ Words \in Nat  BY DiskAssumption DEF DiskTypeOK
<1>2. UNCHANGED <<kind, slave, reg, hob, at>>  BY DEF MoveWord
<1>3. CASE ~Shows("DRQ") \/ out # (doing = "write")
  <2>1. UNCHANGED <<status, doing, todo>>  BY <1>3, Zenon DEF MoveWord
  <2>2. QED  BY <1>2, <2>1 DEF DiskTypeOK, DriveInv
<1>4. CASE ~(~Shows("DRQ") \/ out # (doing = "write"))
  <2>1. "DRQ" \in status /\ ~slave /\ todo > 0  BY <1>4 DEF Shows, Present
  <2>2. todo' = todo - 1 /\ todo' \in 0 .. Words  BY <1>1, <1>4, <2>1 DEF MoveWord
  <2>3. CASE todo > 1
    <3>1. UNCHANGED <<status, doing>>  BY <1>4, <2>3 DEF MoveWord
    <3>2. QED  BY <1>2, <2>2, <3>1 DEF DiskTypeOK, DriveInv
  <2>4. CASE ~(todo > 1)
    <3>1. CASE out
      <4>1. status' = {"BSY"} /\ doing' = "store" /\ doing = "write"
        BY <1>4, <2>4, <3>1 DEF MoveWord
      <4>2. QED  BY <1>2, <2>1, <2>2, <4>1 DEF DiskTypeOK, DriveInv
    <3>2. CASE ~out /\ doing = "read" /\ reg["count"] > 0
      <4>1. status' = {"BSY"} /\ UNCHANGED doing  BY <1>4, <2>4, <3>2 DEF MoveWord
      <4>2. QED  BY <1>2, <2>1, <2>2, <3>2, <4>1 DEF DiskTypeOK, DriveInv
    <3>3. CASE ~out /\ ~(doing = "read" /\ reg["count"] > 0)
      <4>1. status' = {} /\ doing' = "none"  BY <1>4, <2>4, <3>3 DEF MoveWord
      <4>2. QED  BY <1>2, <2>1, <2>2, <4>1 DEF DiskTypeOK, DriveInv
    <3>4. QED  BY <3>1, <3>2, <3>3
  <2>5. QED  BY <2>3, <2>4
<1>5. QED  BY <1>3, <1>4

-----------------------------------------------------------------------------
(* The request.                                                             *)

\* The register written next, with its value.
Writes(r, v) == Head(regs)[1] = r /\ Head(regs)[2] = v

LEMMA SomeLeft == ASSUME RegsInv, pc = "regs" PROVE Len(regs) \in Nat /\ Len(regs) > 0
<1> DEFINE S == (Registers \cup {"select", "command"}) \X Nat
<1>1. regs \in Seq(S)  BY DEF RegsInv
<1> HIDE DEF S
<1>2. Len(regs) \in Nat  BY <1>1, LenProperties
<1>3. QED  BY <1>2 DEF RegsInv

LEMMA NextOfIdentify ==
  ASSUME RegsInv, pc = "regs", op = "identify"
  PROVE  \/ Len(regs) = 5 /\ Writes("select", 0)
         \/ Len(regs) = 4 /\ Writes("count", 0)
         \/ Len(regs) = 3 /\ Writes("lba", 0)
         \/ Len(regs) = 2 /\ Writes("upper", 0)
         \/ Len(regs) = 1 /\ Writes("command", 0)
<1> DEFINE n == Len(regs)
<1>1. n \in 1 .. 5
  <2>1. n <= 5  BY DEF RegsInv
  <2>2. n \in Nat /\ n > 0  BY SomeLeft
  <2>3. \A k \in Nat : k > 0 /\ k <= 5 => k \in 1 .. 5  OBVIOUS
  <2>4. QED  BY <2>1, <2>2, <2>3
<1>2. \A i \in 1 .. 5 : i > 5 - n => regs[i + n - 5] = Identification[i]  BY DEF RegsInv
<1>3. Head(regs) = regs[1]  BY <1>1 DEF RegsInv
<1>4. n = 5 => regs[1] = Identification[1]  BY <1>2
<1>5. n = 4 => regs[1] = Identification[2]  BY <1>2
<1>6. n = 3 => regs[1] = Identification[3]  BY <1>2
<1>7. n = 2 => regs[1] = Identification[4]  BY <1>2
<1>8. n = 1 => regs[1] = Identification[5]  BY <1>2
<1> HIDE DEF n
<1>9. QED  BY <1>1, <1>3, <1>4, <1>5, <1>6, <1>7, <1>8 DEF Writes, Identification, n

LEMMA NextOfRequest ==
  ASSUME RegsInv, pc = "regs", op # "identify", Len(regs) <= 8
  PROVE  \/ Len(regs) = 8 /\ \E v \in {0, 1} : Writes("select", v)
         \/ Len(regs) = 7 /\ \E v \in {0, 1} : Writes("count", v)
         \/ Len(regs) = 6 /\ Writes("lba", 0)
         \/ Len(regs) = 5 /\ \E v \in {0, 1} : Writes("upper", v) /\ (sound => v = 0)
         \/ Len(regs) = 4 /\ \E v \in {0, 1} : Writes("count", v)
         \/ Len(regs) = 3 /\ Writes("lba", lba)
         \/ Len(regs) = 2 /\ Writes("upper", 0)
         \/ Len(regs) = 1 /\ Writes("command", 0)
<1> DEFINE n == Len(regs)
<1>1. n \in 1 .. 8
  <2>1. n \in Nat /\ n > 0  BY SomeLeft
  <2>2. \A k \in Nat : k > 0 /\ k <= 8 => k \in 1 .. 8  OBVIOUS
  <2>3. QED  BY <2>1, <2>2
<1>2. PICK junk \in {0, 1} :
        /\ sound => junk = 0
        /\ \A i \in 1 .. 8 : i > 8 - n => regs[i + n - 8] = Request(op, unit, lba, junk)[i]
  BY DEF RegsInv
<1> DEFINE req == Request(op, unit, lba, junk)
<1>3. Head(regs) = regs[1]  BY <1>1 DEF RegsInv
<1>4. Head(regs) = req[9 - n]
  <2>1. 9 - n \in 1 .. 8 /\ 9 - n > 8 - n /\ 9 - n + n - 8 = 1  BY <1>1
  <2>2. QED  BY <1>2, <1>3, <2>1
<1>5. /\ req[1][1] = "select" /\ req[1][2] \in {0, 1}
      /\ req[2][1] = "count" /\ req[2][2] \in {0, 1}
      /\ req[3][1] = "lba" /\ req[3][2] = 0
      /\ req[4][1] = "upper" /\ req[4][2] = junk
  BY DEF Request
<1>6. /\ req[5][1] = "count" /\ req[5][2] \in {0, 1}
      /\ req[6][1] = "lba" /\ req[6][2] = lba
      /\ req[7][1] = "upper" /\ req[7][2] = 0
      /\ req[8][1] = "command" /\ req[8][2] = 0
  BY DEF Request
<1> HIDE DEF n, req
<1>7. CASE n = 8  BY <1>4, <1>5, <1>7 DEF Writes, n
<1>8. CASE n = 7  BY <1>4, <1>5, <1>8 DEF Writes, n
<1>9. CASE n = 6  BY <1>4, <1>5, <1>9 DEF Writes, n
<1>10. CASE n = 5  BY <1>2, <1>4, <1>5, <1>10 DEF Writes, n
<1>11. CASE n = 4  BY <1>4, <1>6, <1>11 DEF Writes, n
<1>12. CASE n = 3  BY <1>4, <1>6, <1>12 DEF Writes, n
<1>13. CASE n = 2  BY <1>4, <1>6, <1>13 DEF Writes, n
<1>14. CASE n = 1  BY <1>4, <1>6, <1>14 DEF Writes, n
<1>15. QED  BY <1>1, <1>7, <1>8, <1>9, <1>10, <1>11, <1>12, <1>13, <1>14 DEF n

\* What is left after a register stays the end of the request.
LEMMA TailKeeps ==
  ASSUME RegsInv, pc = "regs", regs' = Tail(regs), UNCHANGED <<op, unit, lba, sound>>,
         pc' = "regs" => Len(regs) > 1
  PROVE  RegsInv' /\ Len(regs') = Len(regs) - 1
<1> DEFINE S == (Registers \cup {"select", "command"}) \X Nat  n == Len(regs)
<1>1. regs \in Seq(S) /\ n \in Nat /\ n > 0  BY SomeLeft DEF RegsInv
<1> HIDE DEF S
<1>2. regs' \in Seq(S) /\ Len(regs') = n - 1 /\ \A i \in 1 .. n - 1 : regs'[i] = regs[i + 1]
  BY <1>1, HeadTailProperties
<1>3. ASSUME pc' = "regs", op' = "identify"
      PROVE  /\ Len(regs') <= 5
             /\ \A i \in 1 .. 5 : i > 5 - Len(regs') => regs'[i + Len(regs') - 5] = Identification[i]
  <2>1. op = "identify" /\ n <= 5 /\ n > 1  BY <1>3 DEF RegsInv
  <2>2. \A i \in 1 .. 5 : i > 5 - n => regs[i + n - 5] = Identification[i]  BY <2>1 DEF RegsInv
  <2>3. ASSUME NEW i \in 1 .. 5, i > 5 - (n - 1)
        PROVE  regs'[i + (n - 1) - 5] = Identification[i]
    <3>1. i + (n - 1) - 5 \in 1 .. n - 1 /\ i + (n - 1) - 5 + 1 = i + n - 5  BY <1>1, <2>3
    <3>2. regs'[i + (n - 1) - 5] = regs[i + n - 5]  BY <1>2, <3>1
    <3>3. QED  BY <1>1, <2>2, <2>3, <3>2
  <2>4. QED  BY <1>1, <1>2, <2>1, <2>3
<1>4. ASSUME pc' = "regs", op' # "identify"
      PROVE  \E junk \in {0, 1} :
               /\ sound' => junk = 0
               /\ \A i \in 1 .. 8 :
                    (i > 8 - Len(regs') =>
                       regs'[i + Len(regs') - 8] = Request(op', unit', lba', junk)[i])
  <2>1. op # "identify"  BY <1>4
  <2>2. PICK junk \in {0, 1} :
          /\ sound => junk = 0
          /\ \A i \in 1 .. 8 : i > 8 - n => regs[i + n - 8] = Request(op, unit, lba, junk)[i]
    BY <2>1 DEF RegsInv
  <2> DEFINE req == Request(op, unit, lba, junk)
  <2>3. req = Request(op', unit', lba', junk)  BY DEF Request
  <2> HIDE DEF req
  <2>4. \A i \in 1 .. 8 : i > 8 - n => regs[i + n - 8] = req[i]  BY <2>2 DEF req
  <2>5. ASSUME NEW i \in 1 .. 8, i > 8 - (n - 1)
        PROVE  regs'[i + (n - 1) - 8] = req[i]
    <3>1. i + (n - 1) - 8 \in Int /\ i + (n - 1) - 8 <= n - 1 /\ i + (n - 1) - 8 >= 1
          /\ i + (n - 1) - 8 + 1 = i + n - 8  BY <1>1, <2>5
    <3>2. regs'[i + (n - 1) - 8] = regs[i + n - 8]  BY <1>2, <3>1
    <3>3. i > 8 - n  BY <1>1, <2>5
    <3>4. QED  BY <2>4, <3>2, <3>3
  <2>6. QED  BY <1>1, <1>2, <2>2, <2>3, <2>5
<1>5. pc' = "regs" => Len(regs') > 0  BY <1>1, <1>2
<1>6. regs' \in Seq((Registers \cup {"select", "command"}) \X Nat)  BY <1>2 DEF S
<1>7. RegsInv'  BY <1>3, <1>4, <1>5, <1>6 DEF RegsInv
<1>8. QED  BY <1>2, <1>7

-----------------------------------------------------------------------------
(* A register is written.                                                   *)

\* The register the driver writes, with its value, k from the end of a request.
Asks(k, r, v) ==
  /\ k = 7 => r = "count"
  /\ k = 6 => r = "lba" /\ v = 0
  /\ k = 5 => r = "upper" /\ (sound => v = 0)
  /\ k = 4 => r = "count"
  /\ k = 3 => r = "lba" /\ v = lba
  /\ k = 2 => r = "upper" /\ v = 0

LEMMA Values == Full \in Nat /\ {0, 1} \subseteq 0 .. Full + Sectors /\ 0 .. Sectors \subseteq 0 .. Full + Sectors
<1>1. \A m \in Nat : m > 1 => m * m > 1  OBVIOUS
<1>2. Full \in Nat /\ Full > 1  BY <1>1, DiskAssumption DEF Full
<1>3. QED  BY <1>2, DiskAssumption

LEMMA RegisterStep ==
  ASSUME TypeOK, RegsInv, WritesRegister, OnPrimary
  PROVE  \/ /\ Len(regs) = IF op = "identify" THEN 5 ELSE 8
            /\ \E s \in BOOLEAN : Select(s) /\ (op = "identify" => ~s)
         \/ Len(regs) = 1 /\ Command(op)
         \/ /\ Len(regs) \in 2 .. 7
            /\ \E r \in Registers, v \in 0 .. Full + Sectors :
                 WriteRegister(r, v) /\ (op # "identify" => Asks(Len(regs), r, v))
<1> DEFINE n == Len(regs)
<1>1. pc = "regs" /\ n <= 8
  <2>1. pc = "regs"  BY DEF WritesRegister
  <2>2. n \in 0 .. 8  BY DEF TypeOK
  <2>3. \A k \in 0 .. 8 : k <= 8  OBVIOUS
  <2>4. QED  BY <2>1, <2>2, <2>3
<1>2. \/ Head(regs)[1] = "select" /\ Select(Head(regs)[2] = 1)
      \/ Head(regs)[1] = "command" /\ Command(op)
      \/ Head(regs)[1] \in Registers /\ WriteRegister(Head(regs)[1], Head(regs)[2])
  BY DEF WritesRegister
<1>3. ASSUME NEW v, Writes("select", v)  PROVE Select(v = 1)
  BY <1>2, <1>3 DEF Writes, Registers
<1>4. ASSUME NEW v, Writes("command", v)  PROVE Command(op)
  BY <1>2, <1>4 DEF Writes, Registers
<1>5. ASSUME NEW r \in Registers, NEW v, Writes(r, v)  PROVE WriteRegister(r, v)
  <2>1. r # "select" /\ r # "command"  BY DEF Registers
  <2>2. Head(regs)[1] = r /\ Head(regs)[2] = v  BY <1>5 DEF Writes
  <2>3. QED  BY <1>2, <2>1, <2>2
<1>6. {"count", "lba", "upper"} \subseteq Registers  BY DEF Registers
<1>7. lba \in 0 .. Full + Sectors  BY Values DEF TypeOK
<1>8. CASE op = "identify"
  <2>1. \/ n = 5 /\ Writes("select", 0)
        \/ n \in 2 .. 4 /\ \E r \in Registers : Writes(r, 0)
        \/ n = 1 /\ Writes("command", 0)
    BY <1>1, <1>6, <1>8, NextOfIdentify
  <2>2. CASE n = 5 /\ Writes("select", 0)
    <3>1. Select(FALSE)
      <4>1. (0 = 1) = FALSE  OBVIOUS
      <4>2. Select(0 = 1)  BY <1>3, <2>2
      <4>3. QED  BY <4>1, <4>2
    <3>2. QED  BY <1>8, <2>2, <3>1
  <2>3. CASE n \in 2 .. 4 /\ \E r \in Registers : Writes(r, 0)
    <3>1. PICK r \in Registers : Writes(r, 0)  BY <2>3
    <3>2. WriteRegister(r, 0)  BY <1>5, <3>1
    <3>3. 0 \in 0 .. Full + Sectors  BY Values
    <3>4. n \in 2 .. 7  BY <2>3
    <3>5. QED  BY <1>8, <3>2, <3>3, <3>4
  <2>4. CASE n = 1 /\ Writes("command", 0)  BY <1>4, <2>4
  <2>5. QED  BY <2>1, <2>2, <2>3, <2>4
<1>9. CASE op # "identify"
  <2>1. ASSUME NEW r \in Registers, NEW v \in 0 .. Full + Sectors, n \in 2 .. 7, Writes(r, v), Asks(n, r, v)
        PROVE  /\ n \in 2 .. 7
               /\ \E q \in Registers, u \in 0 .. Full + Sectors : WriteRegister(q, u) /\ Asks(n, q, u)
    BY <1>5, <2>1
  <2>2. CASE n = 8 /\ \E v \in {0, 1} : Writes("select", v)
    <3>1. PICK v \in {0, 1} : Writes("select", v)  BY <2>2
    <3>2. Select(v = 1)  BY <1>3, <3>1
    <3>3. (v = 1) \in BOOLEAN  OBVIOUS
    <3>4. QED  BY <1>9, <2>2, <3>2, <3>3
  <2>3. CASE n = 7 /\ \E v \in {0, 1} : Writes("count", v)
    <3>1. PICK v \in {0, 1} : Writes("count", v)  BY <2>3
    <3>2. Asks(n, "count", v) /\ v \in 0 .. Full + Sectors  BY <2>3, Values DEF Asks
    <3>3. QED  BY <1>6, <1>9, <2>1, <2>3, <3>1, <3>2
  <2>4. CASE n = 6 /\ Writes("lba", 0)
    <3>1. Asks(n, "lba", 0) /\ 0 \in 0 .. Full + Sectors  BY <2>4, Values DEF Asks
    <3>2. QED  BY <1>6, <1>9, <2>1, <2>4, <3>1
  <2>5. CASE n = 5 /\ \E v \in {0, 1} : Writes("upper", v) /\ (sound => v = 0)
    <3>1. PICK v \in {0, 1} : Writes("upper", v) /\ (sound => v = 0)  BY <2>5
    <3>2. Asks(n, "upper", v) /\ v \in 0 .. Full + Sectors  BY <2>5, <3>1, Values DEF Asks
    <3>3. QED  BY <1>6, <1>9, <2>1, <2>5, <3>1, <3>2
  <2>6. CASE n = 4 /\ \E v \in {0, 1} : Writes("count", v)
    <3>1. PICK v \in {0, 1} : Writes("count", v)  BY <2>6
    <3>2. Asks(n, "count", v) /\ v \in 0 .. Full + Sectors  BY <2>6, Values DEF Asks
    <3>3. QED  BY <1>6, <1>9, <2>1, <2>6, <3>1, <3>2
  <2>7. CASE n = 3 /\ Writes("lba", lba)
    <3>1. Asks(n, "lba", lba)  BY <2>7 DEF Asks
    <3>2. QED  BY <1>6, <1>7, <1>9, <2>1, <2>7, <3>1
  <2>8. CASE n = 2 /\ Writes("upper", 0)
    <3>1. Asks(n, "upper", 0) /\ 0 \in 0 .. Full + Sectors  BY <2>8, Values DEF Asks
    <3>2. QED  BY <1>6, <1>9, <2>1, <2>8, <3>1
  <2>9. CASE n = 1 /\ Writes("command", 0)  BY <1>4, <2>9
  <2>10. QED
    BY <1>1, <1>9, <2>2, <2>3, <2>4, <2>5, <2>6, <2>7, <2>8, <2>9, NextOfRequest
<1>10. QED  BY <1>8, <1>9

\* A drive that is not there, or busy, takes nothing.
LEMMA Ignores ==
  ASSUME DriveInv, NEW r, NEW v, NEW c, doing # "none" \/ slave, WriteRegister(r, v) \/ Command(c)
  PROVE  UNCHANGED diskVars
BY Resting DEF WriteRegister, Command, Present, diskVars

LEMMA IgnoresSelect ==
  ASSUME DriveInv, NEW s, doing # "none", Select(s)
  PROVE  UNCHANGED diskVars
BY Resting DEF Select, diskVars

LEMMA Frame ==
  ASSUME IInv, WritesRegister
  PROVE  /\ Len(regs) \in 1 .. 8 /\ Len(regs') = Len(regs) - 1 /\ RegsInv'
         /\ pc' = IF Len(regs) > 1 THEN "regs" ELSE IF op = "identify" THEN "status" ELSE "busy"
         /\ pc = "regs" /\ UNCHANGED <<words, devices, requestVars>>
<1>1. TypeOK /\ RegsInv  BY DEF IInv
<1>2. /\ pc = "regs" /\ UNCHANGED <<words, devices, requestVars>> /\ regs' = Tail(regs)
      /\ pc' = IF Len(regs) > 1 THEN "regs" ELSE IF op = "identify" THEN "status" ELSE "busy"
  BY DEF WritesRegister
<1>3. Len(regs) \in 1 .. 8
  <2>1. Len(regs) \in 0 .. 8  BY <1>1 DEF TypeOK
  <2>2. Len(regs) > 0  BY <1>1, <1>2, SomeLeft
  <2>3. QED  BY <2>1, <2>2
<1>4. RegsInv' /\ Len(regs') = Len(regs) - 1
  <2>1. pc' = "regs" => Len(regs) > 1  BY <1>2
  <2>2. QED  BY <1>1, <1>2, <2>1, TailKeeps DEF requestVars
<1>5. QED  BY <1>2, <1>3, <1>4

LEMMA RegisterTypes ==
  ASSUME IInv, WritesRegister, OnPrimary
  PROVE  /\ TypeOK' /\ DriveInv' /\ kind' = kind /\ todo' = todo /\ at' = at
         /\ Len(regs) > 1 => UNCHANGED <<status, doing>>
         /\ "DRQ" \in status' => "DRQ" \in status
<1>1. TypeOK /\ RegsInv /\ DriveInv  BY DEF IInv
<1>2. DiskTypeOK  BY <1>1 DEF TypeOK
<1>3. op \in {"identify", "read", "write", "flush"}  BY <1>1 DEF TypeOK
<1>4. /\ DiskTypeOK' /\ DriveInv' /\ kind' = kind /\ todo' = todo /\ at' = at
      /\ Len(regs) > 1 => UNCHANGED <<status, doing>>
      /\ "DRQ" \in status' => "DRQ" \in status
  <2>1. CASE \E s \in BOOLEAN : Select(s)
    <3>1. PICK s \in BOOLEAN : Select(s)  BY <2>1
    <3>2. DiskTypeOK' /\ DriveInv'  BY <1>1, <1>2, <3>1, SelectKeeps
    <3>3. QED  BY <3>1, <3>2 DEF Select
  <2>2. CASE Len(regs) = 1 /\ Command(op)
    <3>1. DiskTypeOK' /\ DriveInv'  BY <1>1, <1>2, <1>3, <2>2, CommandKeeps
    <3>2. kind' = kind /\ todo' = todo /\ at' = at  BY <2>2 DEF Command
    <3>3. "DRQ" \in status' => "DRQ" \in status  BY <2>2 DEF Command
    <3>4. QED  BY <2>2, <3>1, <3>2, <3>3
  <2>3. CASE \E r \in Registers, v \in 0 .. Full + Sectors : WriteRegister(r, v)
    <3>1. PICK r \in Registers, v \in 0 .. Full + Sectors : WriteRegister(r, v)  BY <2>3
    <3>2. DiskTypeOK' /\ DriveInv'  BY <1>1, <1>2, <3>1, RegisterKeeps
    <3>3. QED  BY <3>1, <3>2 DEF WriteRegister
  <2>4. QED  BY <1>1, <2>1, <2>2, <2>3, RegisterStep
<1>5. TypeOK'
  <2>1. pc' \in {"regs", "status", "busy"} /\ Len(regs') \in 0 .. 8
    <3>1. \A k \in 1 .. 8 : k - 1 \in 0 .. 8  OBVIOUS
    <3>2. QED  BY <3>1, Frame
  <2>2. UNCHANGED <<words, devices, requestVars>>  BY Frame
  <2>3. QED  BY <1>1, <1>4, <2>1, <2>2 DEF TypeOK, requestVars
<1>6. QED  BY <1>4, <1>5

LEMMA RegisterProbe == ASSUME IInv, WritesRegister, OnPrimary PROVE ProbeInv'
<1>1. TypeOK /\ RegsInv /\ DriveInv /\ ProbeInv  BY DEF IInv
<1>2. pc = "regs" /\ UNCHANGED <<devices, op, kind>> /\ OnPrimary'
  BY Frame, RegisterTypes DEF requestVars, OnPrimary
<1>3. pc' = IF Len(regs) > 1 THEN "regs" ELSE IF op = "identify" THEN "status" ELSE "busy"
  BY Frame
<1>4. ASSUME op = "identify"
      PROVE  /\ ~slave'
             /\ Len(regs) > 1 => doing' = "none" /\ status' = {}
             /\ ~(Len(regs) > 1) => \/ kind = "disk" /\ doing' = "identify"
                                    \/ kind = "packet" /\ "ERR" \in status'
                                    \/ kind = "none" /\ doing' = "none"
  <2>1. ~slave /\ doing = "none" /\ status = {}  BY <1>1, <1>2, <1>4 DEF ProbeInv
  <2>2. CASE Len(regs) = 5 /\ \E s \in BOOLEAN : Select(s) /\ ~s
    <3>1. PICK s \in BOOLEAN : Select(s) /\ ~s  BY <2>2
    <3>2. ~slave' /\ UNCHANGED <<doing, status>>  BY <2>1, <3>1 DEF Select
    <3>3. QED  BY <2>1, <2>2, <3>2
  <2>3. CASE Len(regs) = 1 /\ Command(op)
    <3>1. ~slave'  BY <2>1, <2>3 DEF Command
    <3>2. kind \in {"disk", "packet", "none"}  BY <1>1, DiskAssumption DEF TypeOK, DiskTypeOK
    <3>3. Idle /\ (Present <=> kind # "none")  BY <1>1, <2>1, Resting DEF Present
    <3>4. kind = "packet" => status' = {"ERR"}  BY <2>3, <3>3 DEF Command
    <3>5. kind = "disk" => doing' = "identify"  BY <1>4, <2>3, <3>3 DEF Command
    <3>6. kind = "none" => doing' = "none"  BY <2>1, <2>3, <3>3 DEF Command
    <3>7. QED  BY <2>3, <3>1, <3>2, <3>4, <3>5, <3>6
  <2>4. CASE Len(regs) \in 2 .. 7 /\ \E r \in Registers, v \in 0 .. Full + Sectors : WriteRegister(r, v)
    <3>1. ~slave' /\ UNCHANGED <<doing, status>>  BY <2>1, <2>4 DEF WriteRegister
    <3>2. Len(regs) > 1
      <4>1. \A k \in 2 .. 7 : k > 1  OBVIOUS
      <4>2. QED  BY <2>4, <4>1
    <3>3. QED  BY <2>1, <3>1, <3>2
  <2>5. QED  BY <1>1, <1>4, <2>2, <2>3, <2>4, RegisterStep
<1>5. CASE op = "identify"
  <2>1. devices = <<>>  BY <1>1, <1>2, <1>5 DEF ProbeInv
  <2>2. CASE Len(regs) > 1
    <3>1. pc' = "regs" /\ ~slave' /\ doing' = "none" /\ status' = {} /\ op' = "identify" /\ devices' = <<>>
      BY <1>2, <1>3, <1>4, <1>5, <2>1, <2>2
    <3>2. QED  BY <1>2, <3>1 DEF ProbeInv
  <2>3. CASE ~(Len(regs) > 1)
    <3>1. pc' = "status" /\ ~slave' /\ op' = "identify" /\ devices' = <<>> /\ kind' = kind
      BY <1>2, <1>3, <1>4, <1>5, <2>1, <2>3
    <3>2. QED  BY <1>2, <1>4, <1>5, <2>3, <3>1 DEF ProbeInv
  <2>4. QED  BY <2>2, <2>3
<1>6. CASE op # "identify"
  <2>1. pc' \in {"regs", "busy"} /\ op' # "identify" /\ kind' = "disk" /\ devices' = <<"block">>
    BY <1>1, <1>2, <1>3, <1>6 DEF ProbeInv
  <2>2. doing' # "identify"
    <3>1. doing # "identify"  BY <1>1, <1>6 DEF ProbeInv
    <3>2. ASSUME Command(op)  PROVE doing' # "identify"  BY <1>6, <3>1, <3>2 DEF Command
    <3>3. ASSUME NEW s, Select(s)  PROVE doing' = doing  BY <3>3 DEF Select
    <3>4. ASSUME NEW r, NEW v, WriteRegister(r, v)  PROVE doing' = doing  BY <3>4 DEF WriteRegister
    <3>5. QED  BY <1>1, <3>1, <3>2, <3>3, <3>4, RegisterStep
  <2>3. QED  BY <1>2, <2>1, <2>2 DEF ProbeInv
<1>7. QED  BY <1>5, <1>6

LEMMA RegisterRange == ASSUME IInv, WritesRegister, OnPrimary PROVE RangeInv' /\ WordsInv'
<1>1. pc = "regs" /\ pc' \in {"regs", "status", "busy"} /\ UNCHANGED <<words, requestVars>>  BY Frame
<1>2. RangeInv'  BY <1>1 DEF IInv, RangeInv, requestVars
<1>3. "DRQ" \in status' => todo' = Words
  <2>1. "DRQ" \in status => todo = Words  BY <1>1 DEF IInv, WordsInv
  <2>2. QED  BY <2>1, RegisterTypes
<1>4. pc' # "words"  BY <1>1
<1>5. WordsInv'  BY <1>3, <1>4 DEF WordsInv
<1>6. QED  BY <1>2, <1>5

\* What a register and the one under it hold when the drive takes a value.
LEMMA Takes ==
  ASSUME DiskTypeOK, DriveInv, NEW r \in Registers, NEW v, WriteRegister(r, v), Present, doing = "none"
  PROVE  /\ UNCHANGED <<kind, slave, status, doing, at, todo>>
         /\ reg'[r] = v /\ (r # "count" => hob'[r] = reg[r])
         /\ \A q \in Registers \ {r} : reg'[q] = reg[q] /\ hob'[q] = hob[q]
BY Resting DEF WriteRegister, DiskTypeOK

\* A request of which the drive takes every register.
LEMMA TakenKeeps ==
  ASSUME IInv, WritesRegister, OnPrimary, op # "identify", sound, doing = "none", ~slave, Taken
  PROVE  /\ Len(regs) > 1 => doing' = "none" /\ (slave' \/ Taken')
         /\ Len(regs) = 1 => Names(lba) /\ Names(lba)' /\ doing' = op /\ status' = {"BSY"} /\ ~slave'
<1>1. TypeOK /\ RegsInv /\ DriveInv /\ ProbeInv /\ DiskTypeOK  BY DEF IInv, TypeOK
<1>2. Len(regs) \in 1 .. 8 /\ Len(regs') = Len(regs) - 1 /\ lba' = lba  BY Frame DEF requestVars
<1>3. Present /\ kind = "disk"  BY <1>1 DEF ProbeInv, Present
<1>4. CASE Len(regs) = 8 /\ \E s \in BOOLEAN : Select(s)
  <2>1. Len(regs') = 7  BY <1>2, <1>4
  <2>2. doing' = "none"  BY <1>4 DEF Select
  <2>3. QED  BY <1>4, <2>1, <2>2 DEF Taken
<1>5. CASE Len(regs) = 1 /\ Command(op)
  <2>1. Idle /\ op \in {"read", "write"}  BY <1>1, Resting DEF TypeOK
  <2>2. Names(lba)  BY <1>5 DEF Taken, Names
  <2>3. /\ doing' = op /\ status' = {"BSY"} /\ ~slave' /\ hob' = hob
        /\ reg' = [reg EXCEPT !["count"] = Count]
    BY <1>3, <1>5, <2>1 DEF Command
  <2>4. reg'["lba"] = reg["lba"] /\ reg'["upper"] = reg["upper"]
    BY <1>1, <2>3 DEF DiskTypeOK, Registers
  <2>5. Names(lba)'  BY <1>2, <2>2, <2>3, <2>4 DEF Names, NoUpper
  <2>6. QED  BY <1>5, <2>2, <2>3, <2>5
<1>6. CASE /\ Len(regs) \in 2 .. 7
           /\ \E r \in Registers, v \in 0 .. Full + Sectors : WriteRegister(r, v) /\ Asks(Len(regs), r, v)
  <2>1. PICK r \in Registers, v \in 0 .. Full + Sectors :
          WriteRegister(r, v) /\ Asks(Len(regs), r, v)  BY <1>6
  <2>2. /\ doing' = "none"
        /\ reg'[r] = v /\ (r # "count" => hob'[r] = reg[r])
        /\ \A q \in Registers \ {r} : reg'[q] = reg[q] /\ hob'[q] = hob[q]
    BY <1>1, <1>3, <2>1, Takes
  <2> DEFINE k == Len(regs)
  <2>3. k \in 2 .. 7 /\ Len(regs') = k - 1  BY <1>2, <1>6
  <2>4. Asks(k, r, v) /\ Taken  BY <2>1
  <2> HIDE DEF k
  <2>5. k = 7 => Taken'  BY <2>3 DEF Taken
  <2>6. k = 6 => Taken'  BY <2>2, <2>3, <2>4 DEF Taken, Asks
  <2>7. k = 5 => Taken'
    <3>1. k = 5 => reg["lba"] = 0  BY <2>4 DEF Taken, k
    <3>2. k = 5 => r = "upper" /\ v = 0  BY <2>4 DEF Asks
    <3>3. "lba" \in Registers \ {"upper"}  BY DEF Registers
    <3>4. k = 5 => reg'["lba"] = 0 /\ reg'["upper"] = 0  BY <2>2, <3>1, <3>2, <3>3
    <3>5. QED  BY <2>3, <3>4 DEF Taken
  <2>8. k = 4 => Taken'
    <3>1. k = 4 => reg["lba"] = 0 /\ reg["upper"] = 0  BY <2>4 DEF Taken, k
    <3>2. k = 4 => r = "count"  BY <2>4 DEF Asks
    <3>3. {"lba", "upper"} \subseteq Registers \ {"count"}  BY DEF Registers
    <3>4. k = 4 => reg'["lba"] = 0 /\ reg'["upper"] = 0  BY <2>2, <3>1, <3>2, <3>3
    <3>5. QED  BY <2>3, <3>4 DEF Taken
  <2>9. ASSUME k = 3  PROVE Taken'
    <3>1. r = "lba" /\ v = lba /\ lba' = lba  BY <1>2, <2>4, <2>9 DEF Asks
    <3>2. Len(regs') = 2 /\ Len(regs) = 3  BY <2>3, <2>9 DEF k
    <3>3. reg["lba"] = 0 /\ reg["upper"] = 0  BY <2>4, <3>2 DEF Taken
    <3>4. "upper" \in Registers \ {"lba"}  BY DEF Registers
    <3>5. reg'["lba"] = lba' /\ hob'["lba"] = 0 /\ reg'["upper"] = 0
      BY <2>2, <3>1, <3>3, <3>4
    <3>6. QED  BY <3>2, <3>5 DEF Taken
  <2>10. ASSUME k = 2  PROVE Taken'
    <3>1. r = "upper" /\ v = 0 /\ lba' = lba  BY <1>2, <2>4, <2>10 DEF Asks
    <3>2. Len(regs') = 1 /\ Len(regs) = 2  BY <2>3, <2>10 DEF k
    <3>3. hob["lba"] = 0 /\ reg["lba"] = lba /\ reg["upper"] = 0  BY <2>4, <3>2 DEF Taken
    <3>4. "lba" \in Registers \ {"upper"}  BY DEF Registers
    <3>5. reg'["lba"] = lba' /\ hob'["lba"] = 0 /\ reg'["upper"] = 0 /\ hob'["upper"] = 0
      BY <2>2, <3>1, <3>3, <3>4
    <3>6. QED  BY <3>2, <3>5 DEF Taken, NoUpper
  <2>11. k > 1 /\ k # 1  BY <2>3
  <2>12. Taken'  BY <2>3, <2>5, <2>6, <2>7, <2>8, <2>9, <2>10
  <2>13. QED  BY <2>2, <2>11, <2>12 DEF k
<1>7. QED  BY <1>1, <1>4, <1>5, <1>6, RegisterStep

LEMMA BusyKeeps ==
  ASSUME IInv, WritesRegister, OnPrimary, doing # "none"
  PROVE  UNCHANGED diskVars
<1>1. TypeOK /\ RegsInv /\ DriveInv  BY DEF IInv
<1>2. ASSUME NEW s \in BOOLEAN, Select(s)  PROVE UNCHANGED diskVars  BY <1>1, <1>2, IgnoresSelect
<1>3. ASSUME Command(op)  PROVE UNCHANGED diskVars  BY <1>1, <1>3, Ignores
<1>4. ASSUME NEW r \in Registers, NEW v, WriteRegister(r, v)  PROVE UNCHANGED diskVars
  BY <1>1, <1>4, Ignores
<1>5. QED  BY <1>1, <1>2, <1>3, <1>4, RegisterStep

LEMMA AbsentKeeps ==
  ASSUME IInv, WritesRegister, OnPrimary, op # "identify", slave
  PROVE  doing' = "none" /\ UNCHANGED <<reg, hob, status>> /\ (slave' \/ Len(regs) = 8)
<1>1. TypeOK /\ RegsInv /\ DriveInv  BY DEF IInv
<1>2. doing = "none"  BY <1>1 DEF DriveInv
<1>3. ASSUME NEW s \in BOOLEAN, Select(s)  PROVE doing' = "none" /\ UNCHANGED <<reg, hob, status>>
  BY <1>2, <1>3 DEF Select
<1>4. ASSUME Command(op)  PROVE UNCHANGED diskVars  BY <1>1, <1>4, Ignores
<1>5. ASSUME NEW r \in Registers, NEW v, WriteRegister(r, v)  PROVE UNCHANGED diskVars
  BY <1>1, <1>5, Ignores
<1>6. QED  BY <1>1, <1>2, <1>3, <1>4, <1>5, RegisterStep DEF diskVars

LEMMA RegisterRead == ASSUME IInv, WritesRegister, OnPrimary PROVE ReadInv'
<1>1. pc = "regs" /\ pc' \in {"regs", "status", "busy"} /\ UNCHANGED <<op, lba, began, sound>>
  BY Frame DEF requestVars
<1>2. SUFFICES ASSUME op = "read", Clean  PROVE Reads'
  BY <1>1 DEF ReadInv, Clean
<1>3. Reads /\ DriveInv  BY <1>1, <1>2 DEF IInv, ReadInv
<1>4. pc' = "regs" <=> Len(regs) > 1  BY <1>2, Frame
<1>5. Len(regs) \in 1 .. 8 /\ Len(regs') = Len(regs) - 1  BY Frame
<1>6. CASE doing # "none"
  <2>1. UNCHANGED diskVars  BY <1>6, BusyKeeps
  <2>2. QED  BY <1>1, <1>3, <1>6, <2>1 DEF Reads, Names, NoUpper, diskVars
<1>7. CASE slave
  <2>1. doing' = "none" /\ (slave' \/ Len(regs) = 8)  BY <1>2, <1>7, AbsentKeeps
  <2>2. ASSUME Len(regs) = 8  PROVE pc' = "regs" /\ Taken'
    <3>1. Len(regs') = 7 /\ pc' = "regs"  BY <1>4, <1>5, <2>2
    <3>2. QED  BY <3>1 DEF Taken
  <2>3. QED  BY <2>1, <2>2 DEF Reads
<1>8. CASE doing = "none" /\ ~slave
  <2>1. Taken  BY <1>3, <1>8 DEF Reads
  <2>2. CASE Len(regs) > 1
    <3>1. doing' = "none" /\ (slave' \/ Taken')  BY <1>2, <1>8, <2>1, <2>2, TakenKeeps DEF Clean
    <3>2. QED  BY <1>4, <2>2, <3>1 DEF Reads
  <2>3. CASE Len(regs) = 1
    <3>1. Names(lba)' /\ doing' = "read" /\ status' = {"BSY"}
      BY <1>2, <1>8, <2>1, <2>3, TakenKeeps DEF Clean
    <3>2. QED  BY <3>1 DEF Reads, Names
  <2>4. QED  BY <1>5, <2>2, <2>3
<1>9. QED  BY <1>6, <1>7, <1>8

LEMMA RegisterWritesNext ==
  ASSUME IInv, WritesRegister, OnPrimary, op = "write", Clean, WritesNext(lba)
  PROVE  WritesNext(lba)'
<1>1. /\ TypeOK /\ RegsInv /\ DriveInv /\ ProbeInv /\ DiskTypeOK
  BY DEF IInv, TypeOK
<1>2. pc = "regs" /\ UNCHANGED <<op, lba>>  BY Frame DEF requestVars
<1>3. pc' = "regs" <=> Len(regs) > 1  BY Frame
<1>4. Len(regs) \in 1 .. 8 /\ Len(regs') = Len(regs) - 1  BY Frame
<1>5. CASE doing # "none"
  <2>1. UNCHANGED diskVars  BY <1>5, BusyKeeps
  <2>2. QED  BY <1>2, <1>5, <2>1 DEF WritesNext, NamesBefore, NamesAtMost, NoUpper, diskVars
<1>6. CASE slave
  <2>1. doing' = "none" /\ UNCHANGED <<reg, hob>> /\ (slave' \/ Len(regs) = 8)
    BY <1>6, AbsentKeeps
  <2>2. Len(regs) = 8 => pc' = "regs" /\ Len(regs') > 2  BY <1>3, <1>4
  <2>3. QED  BY <2>1, <2>2 DEF WritesNext, NoUpper
<1>7. CASE doing = "none" /\ ~slave
  <2>1. NoUpper /\ (Len(regs) > 2 \/ NamesAtMost(lba))  BY <1>7 DEF WritesNext
  <2>2. Present  BY <1>1, <1>7 DEF ProbeInv, Present
  <2>3. CASE Len(regs) = 8 /\ \E s \in BOOLEAN : Select(s)
    <3>1. doing' = "none" /\ UNCHANGED <<reg, hob>>  BY <1>7, <2>3 DEF Select
    <3>2. pc' = "regs" /\ Len(regs') > 2  BY <1>3, <1>4, <2>3
    <3>3. QED  BY <2>1, <3>1, <3>2 DEF WritesNext, NoUpper
  <2>4. CASE Len(regs) = 1 /\ Command(op)
    <3>1. Idle  BY <1>1, <1>7, Resting
    <3>2. doing' = "write" /\ status' = {"BSY"} /\ hob' = hob /\ reg' = [reg EXCEPT !["count"] = Count]
      BY <1>1, <2>2, <2>4, <3>1 DEF Command, ProbeInv
    <3>3. reg'["lba"] = reg["lba"] /\ reg'["upper"] = reg["upper"]
      BY <1>1, <3>2 DEF DiskTypeOK, Registers
    <3>4. NamesAtMost(lba)  BY <2>1, <2>4
    <3>5. QED  BY <1>2, <3>2, <3>3, <3>4 DEF WritesNext, NamesBefore, NamesAtMost, NoUpper
  <2>5. CASE /\ Len(regs) \in 2 .. 7
             /\ \E r \in Registers, v \in 0 .. Full + Sectors : WriteRegister(r, v) /\ Asks(Len(regs), r, v)
    <3>1. PICK r \in Registers, v \in 0 .. Full + Sectors :
            WriteRegister(r, v) /\ Asks(Len(regs), r, v)  BY <2>5
    <3>2. /\ doing' = "none"
          /\ reg'[r] = v /\ (r # "count" => hob'[r] = reg[r])
          /\ \A q \in Registers \ {r} : reg'[q] = reg[q] /\ hob'[q] = hob[q]
      BY <1>1, <1>7, <2>2, <3>1, Takes
    <3> DEFINE k == Len(regs)
    <3>3. k \in 2 .. 7 /\ Len(regs') = k - 1 /\ pc' = "regs"
      <4>1. \A m \in 2 .. 7 : m > 1  OBVIOUS
      <4>2. k > 1  BY <2>5, <4>1
      <4>3. QED  BY <1>3, <1>4, <2>5, <4>2
    <3>4. Asks(k, r, v) /\ sound  BY <3>1 DEF Clean
    <3>5. k > 2 \/ NamesAtMost(lba)  BY <2>1
    <3> HIDE DEF k
    <3>6. r = "upper" => v = 0
      <4>1. k \in {2, 3, 4, 5, 6, 7}  BY <3>3
      <4>2. QED  BY <3>4, <4>1 DEF Asks
    <3>7. NoUpper'
      <4>1. CASE r = "upper"  BY <2>1, <3>2, <3>6, <4>1 DEF NoUpper
      <4>2. CASE r # "upper"
        <5>1. "upper" \in Registers \ {r}  BY <4>2 DEF Registers
        <5>2. QED  BY <2>1, <3>2, <5>1 DEF NoUpper
      <4>3. QED  BY <4>1, <4>2
    <3>8. CASE k > 3
      <4>1. Len(regs') > 2  BY <3>3, <3>8
      <4>2. QED  BY <3>2, <3>3, <3>7, <4>1 DEF WritesNext
    <3>9. CASE k = 3
      <4>1. r = "lba" /\ v = lba'  BY <1>2, <3>4, <3>9 DEF Asks
      <4>2. reg'["lba"] = lba'  BY <3>2, <4>1
      <4>3. QED  BY <3>2, <3>7, <4>2 DEF WritesNext, NamesBefore, NamesAtMost
    <3>10. CASE k = 2
      <4>1. r = "upper" /\ NamesAtMost(lba)  BY <3>4, <3>5, <3>10 DEF Asks
      <4>2. "lba" \in Registers \ {r}  BY <4>1 DEF Registers
      <4>3. reg'["lba"] = reg["lba"] /\ hob'["lba"] = hob["lba"]  BY <3>2, <4>2
      <4>4. NamesAtMost(lba)'  BY <1>2, <3>7, <4>1, <4>3 DEF NamesAtMost
      <4>5. QED  BY <3>2, <3>7, <4>4 DEF WritesNext
    <3>11. QED  BY <3>3, <3>8, <3>9, <3>10
  <2>6. QED  BY <1>1, <2>3, <2>4, <2>5, RegisterStep
<1>8. QED  BY <1>5, <1>6, <1>7

LEMMA RegisterWrite == ASSUME IInv, WritesRegister, OnPrimary PROVE WriteInv'
<1>1. /\ pc = "regs" /\ pc' \in {"regs", "status", "busy"}
      /\ UNCHANGED <<op, lba, nth, began, sound>>
  BY Frame DEF requestVars
<1>2. SUFFICES ASSUME op = "write", Clean  PROVE IF nth = 1 THEN WritesFirst' ELSE WritesNext(lba)'
  BY <1>1 DEF WriteInv, Clean
<1>3. WriteInv  BY DEF IInv
<1>4. CASE nth # 1
  <2>1. WritesNext(lba)  BY <1>1, <1>2, <1>3, <1>4 DEF WriteInv
  <2>2. QED  BY <1>2, <1>4, <2>1, RegisterWritesNext
<1>5. CASE nth = 1
  <2>1. doing = "none" /\ (slave \/ Taken)  BY <1>1, <1>2, <1>3, <1>5 DEF WriteInv, WritesFirst
  <2>2. pc' = "regs" <=> Len(regs) > 1  BY <1>2, Frame
  <2>3. Len(regs) \in 1 .. 8 /\ Len(regs') = Len(regs) - 1  BY Frame
  <2>4. CASE slave
    <3>1. doing' = "none" /\ (slave' \/ Len(regs) = 8)  BY <1>2, <2>4, AbsentKeeps
    <3>2. ASSUME Len(regs) = 8  PROVE pc' = "regs" /\ Taken'
      <4>1. Len(regs') = 7 /\ pc' = "regs"  BY <2>2, <2>3, <3>2
      <4>2. QED  BY <4>1 DEF Taken
    <3>3. QED  BY <1>5, <3>1, <3>2 DEF WritesFirst
  <2>5. CASE ~slave /\ Len(regs) > 1
    <3>1. doing' = "none" /\ (slave' \/ Taken')  BY <1>2, <2>1, <2>5, TakenKeeps DEF Clean
    <3>2. QED  BY <1>5, <2>2, <2>5, <3>1 DEF WritesFirst
  <2>6. CASE ~slave /\ Len(regs) = 1
    <3>1. Names(lba)' /\ doing' = "write" /\ status' = {"BSY"}
      BY <1>2, <2>1, <2>6, TakenKeeps DEF Clean
    <3>2. pc' # "regs"  BY <2>2, <2>6
    <3>3. QED  BY <1>5, <3>1, <3>2 DEF WritesFirst
  <2>7. QED  BY <2>3, <2>4, <2>5, <2>6
<1>6. QED  BY <1>4, <1>5

LEMMA RegisterPreserves == ASSUME IInv, WritesRegister, OnPrimary PROVE IInv'
BY Frame, RegisterTypes, RegisterProbe, RegisterRange, RegisterRead, RegisterWrite DEF IInv

-----------------------------------------------------------------------------
(* A call, and the next sector of one.                                      *)

LEMMA RequestLength ==
  ASSUME NEW o, NEW which, NEW sector \in Nat, NEW junk \in {0, 1}
  PROVE  /\ Len(Request(o, which, sector, junk)) = 8
         /\ Request(o, which, sector, junk) \in Seq((Registers \cup {"select", "command"}) \X Nat)
<1> DEFINE S == (Registers \cup {"select", "command"}) \X Nat
           high == IF o = "read" THEN 1 ELSE 0
           head == IF which = "slave" THEN 1 ELSE 0
<1>1. high \in Nat /\ 1 - high \in Nat /\ head \in Nat /\ junk \in Nat  OBVIOUS
<1> HIDE DEF high, head
<1>2. /\ <<"select", head>> \in S /\ <<"count", high>> \in S /\ <<"lba", 0>> \in S
      /\ <<"upper", junk>> \in S /\ <<"count", 1 - high>> \in S /\ <<"lba", sector>> \in S
      /\ <<"upper", 0>> \in S /\ <<"command", 0>> \in S
  BY <1>1 DEF Registers
<1> HIDE DEF S
<1>3. \A a, b, c, d, e, f, g, h \in S :
        <<a, b, c, d, e, f, g, h>> \in Seq(S) /\ Len(<<a, b, c, d, e, f, g, h>>) = 8
  OBVIOUS
<1>4. Request(o, which, sector, junk) =
        << <<"select", head>>, <<"count", high>>, <<"lba", 0>>, <<"upper", junk>>,
           <<"count", 1 - high>>, <<"lba", sector>>, <<"upper", 0>>, <<"command", 0>> >>
  BY DEF Request, high, head
<1>5. QED  BY <1>2, <1>3, <1>4 DEF S

\* A whole request is left to write.
LEMMA WholeRequest ==
  ASSUME op' # "identify", lba' \in Nat, NEW junk \in {0, 1}, sound' => junk = 0,
         regs' = Request(op', unit', lba', junk)
  PROVE  RegsInv' /\ Len(regs') = 8 /\ Taken'
<1>1. /\ regs' \in Seq((Registers \cup {"select", "command"}) \X Nat)
      /\ Len(regs') = 8
  BY RequestLength
<1>2. \A i \in 1 .. 8 :
        (i > 8 - Len(regs') => regs'[i + Len(regs') - 8] = Request(op', unit', lba', junk)[i])
  BY <1>1
<1>3. Taken'  BY <1>1 DEF Taken
<1>4. RegsInv'  BY <1>1, <1>2 DEF RegsInv
<1>5. QED  BY <1>1, <1>3, <1>4

LEMMA CallPreserves == ASSUME IInv, Call PROVE IInv'
<1>1. TypeOK /\ DriveInv /\ RangeInv /\ RegsInv /\ WordsInv /\ ProbeInv  BY DEF IInv
<1>2. /\ pc = "idle" /\ devices # <<>> /\ calls < MaxCalls /\ calls' = calls + 1 /\ began' = doing
      /\ nth' = 1 /\ UNCHANGED <<diskVars, words, devices>>
  BY DEF Call
<1>3. PICK o \in {"read", "write"}, which \in Units, c \in Calls, junk \in {0, 1} :
        /\ op' = o /\ unit' = which /\ lba' = c[1] /\ left' = c[2] /\ sound' = (junk = 0)
        /\ IF which = "unknown" THEN UNCHANGED <<pc, regs>>
           ELSE pc' = "regs" /\ regs' = Request(o, which, c[1], junk)
  BY DEF Call
<1>4. c[1] \in Nat /\ c[2] \in Nat /\ c[2] > 0 /\ c[1] + c[2] <= Sectors /\ Sectors \in Nat
  BY AtaAssumption, DiskAssumption
<1>5. op' # "identify" /\ pc' \in {"regs", "idle"}  BY <1>2, <1>3
<1>6. pc' = "regs" => RegsInv' /\ Len(regs') = 8 /\ Taken'
  <2>1. ASSUME pc' = "regs"  PROVE RegsInv' /\ Len(regs') = 8 /\ Taken'
    <3>1. lba' \in Nat /\ regs' = Request(op', unit', lba', junk)  BY <1>2, <1>3, <1>4, <2>1
    <3>2. sound' => junk = 0  BY <1>3
    <3>3. QED  BY <1>5, <3>1, <3>2, WholeRequest
  <2>2. QED  BY <2>1
<1>7. pc' # "regs" => regs' = regs  BY <1>3
<1>8. ~slave /\ kind = "disk" /\ doing # "identify" /\ devices = <<"block">>
  BY <1>1, <1>2 DEF ProbeInv
<1>9. TypeOK'
  <2>1. DiskTypeOK'  BY <1>1, <1>2 DEF TypeOK, DiskTypeOK, diskVars
  <2>2. Len(regs') \in 0 .. 8  BY <1>1, <1>5, <1>6, <1>7 DEF TypeOK
  <2>3. lba' \in 0 .. Sectors /\ left' \in 0 .. Sectors /\ nth' \in 1 .. Sectors + 1
    BY <1>2, <1>3, <1>4
  <2>4. calls' \in 0 .. MaxCalls  BY <1>1, <1>2, AtaAssumption DEF TypeOK
  <2>5. began' \in {"none", "read", "write", "store", "flush"}
    BY <1>1, <1>2, <1>8 DEF TypeOK, DiskTypeOK
  <2>6. op' \in {"identify", "read", "write"} /\ unit' \in Units \cup {"master"} /\ sound' \in BOOLEAN
    BY <1>3
  <2>7. words' \in 0 .. Words /\ devices' \in {<<>>, <<"block">>}  BY <1>1, <1>2 DEF TypeOK
  <2>8. QED  BY <1>5, <2>1, <2>2, <2>3, <2>4, <2>5, <2>6, <2>7 DEF TypeOK
<1>10. DriveInv'  BY <1>1, <1>2 DEF DriveInv, diskVars
<1>11. RangeInv'  BY <1>2, <1>3, <1>4 DEF RangeInv
<1>12. RegsInv'
  <2>1. CASE pc' = "regs"  BY <1>6, <2>1
  <2>2. CASE pc' # "regs"  BY <1>1, <1>7, <2>2 DEF RegsInv
  <2>3. QED  BY <2>1, <2>2
<1>13. WordsInv'
  <2>1. "DRQ" \in status => todo = Words  BY <1>1, <1>2 DEF WordsInv
  <2>2. pc' # "words"  BY <1>5
  <2>3. QED  BY <1>2, <2>1, <2>2 DEF WordsInv, diskVars
<1>14. ProbeInv'
  <2>1. ~slave' /\ kind' = "disk" /\ doing' # "identify" /\ devices' = <<"block">>
    BY <1>2, <1>8 DEF diskVars
  <2>2. QED  BY <1>5, <2>1 DEF ProbeInv
<1>15. ReadInv' /\ WriteInv'
  <2>1. doing' = doing  BY <1>2 DEF diskVars
  <2>2. Clean' => doing' = "none"  BY <1>2, <2>1 DEF Clean
  <2>3. pc' = "regs" /\ Clean' => Reads' /\ WritesFirst'  BY <1>6, <2>2 DEF Reads, WritesFirst
  <2>4. QED  BY <1>2, <1>5, <2>3 DEF ReadInv, WriteInv
<1>16. QED  BY <1>9, <1>10, <1>11, <1>12, <1>13, <1>14, <1>15 DEF IInv

LEMMA NextSectorKeeps ==
  ASSUME TypeOK, RangeInv, RegsInv, left > 0, op \in {"read", "write"}, NextSector
  PROVE  /\ lba' = lba + 1 /\ nth' > 1 /\ nth' # 1 /\ UNCHANGED <<op, unit, calls, began>>
         /\ lba' \in 0 .. Sectors /\ left' \in 0 .. Sectors /\ nth' \in 1 .. Sectors + 1
         /\ sound' \in BOOLEAN /\ (Clean' => Clean)
         /\ pc' \in {"regs", "idle"} /\ Len(regs') \in 0 .. 8
         /\ pc' = "regs" => Len(regs') = 8 /\ Taken'
         /\ RangeInv' /\ RegsInv'
<1>1. /\ left' = left - 1 /\ lba' = lba + 1 /\ nth' = nth + 1 /\ UNCHANGED <<op, unit, calls, began>>
      /\ pc' = IF left > 1 THEN "regs" ELSE "idle"
  BY DEF NextSector
<1>2. /\ Sectors \in Nat /\ lba \in 0 .. Sectors /\ left \in 0 .. Sectors /\ nth \in 1 .. Sectors + 1
      /\ lba + left <= Sectors /\ nth + left <= Sectors + 1
  BY DiskAssumption DEF TypeOK, RangeInv
<1>3. /\ lba' \in 0 .. Sectors /\ left' \in 0 .. Sectors /\ nth' \in 1 .. Sectors + 1 /\ nth' > 1
      /\ lba' + left' <= Sectors /\ nth' + left' <= Sectors + 1
      /\ left > 1 => left' > 0
  BY <1>1, <1>2
<1>4. RangeInv'
  <2>1. pc' \in {"regs", "busy", "poll", "words", "flush"} => left > 1  BY <1>1
  <2>2. QED  BY <1>3, <2>1 DEF RangeInv
<1>5. CASE left = 1
  <2>1. regs' = <<>> /\ sound' = sound  BY <1>5 DEF NextSector
  <2>2. pc' = "idle"  BY <1>1, <1>5
  <2>3. Len(regs') \in 0 .. 8 /\ RegsInv'  BY <2>1, <2>2 DEF RegsInv
  <2>4. sound' \in BOOLEAN /\ (Clean' => Clean)  BY <1>1, <2>1 DEF TypeOK, Clean, OnPrimary
  <2>5. pc' # "regs"  BY <2>2
  <2>6. QED  BY <1>1, <1>3, <1>4, <2>2, <2>3, <2>4, <2>5
<1>6. CASE left # 1
  <2>1. PICK junk \in {0, 1} :
          regs' = Request(op, unit, lba + 1, junk) /\ sound' = (sound /\ junk = 0)
    BY <1>6 DEF NextSector
  <2>2. regs' = Request(op', unit', lba', junk)  BY <1>1, <2>1
  <2>3. op' # "identify" /\ lba' \in Nat /\ (sound' => junk = 0)
    <3>1. op' # "identify"  BY <1>1
    <3>2. lba' \in Nat  BY <1>2, <1>3
    <3>3. sound' => junk = 0  BY <2>1
    <3>4. QED  BY <3>1, <3>2, <3>3
  <2>4. RegsInv' /\ Len(regs') = 8 /\ Taken'  BY <2>2, <2>3, WholeRequest
  <2>5. sound' \in BOOLEAN /\ (Clean' => Clean)  BY <1>1, <2>1 DEF TypeOK, Clean, OnPrimary
  <2>6. Len(regs') \in 0 .. 8  BY <2>4
  <2>7. pc' \in {"regs", "idle"}  BY <1>1
  <2>8. QED  BY <1>1, <1>3, <1>4, <2>4, <2>5, <2>6, <2>7
<1>7. QED  BY <1>5, <1>6

-----------------------------------------------------------------------------
(* A word is moved, and a sector flushed.                                   *)

\* A word in the direction the drive expects takes one from what it has; the
\* others change nothing.
LEMMA Moves ==
  ASSUME IInv, TransfersWord, OnPrimary
  PROVE  /\ Present /\ "DRQ" \in status /\ words > 0 /\ doing # "none" /\ pc = "words"
         /\ DiskTypeOK' /\ DriveInv' /\ UNCHANGED <<kind, slave, reg, hob, at>>
         /\ (op = "write") # (doing = "write") => todo' = Words /\ UNCHANGED <<status, doing>>
         /\ (op = "write") = (doing = "write") /\ words > 1 =>
              todo' = words - 1 /\ UNCHANGED <<status, doing>>
         /\ (op = "write") = (doing = "write") /\ words = 1 =>
              /\ "DRQ" \notin status'
              /\ op = "write" => status' = {"BSY"} /\ doing' = "store"
              /\ op # "write" => \/ doing = "read" /\ doing' = "read"
                                 \/ doing' = "none"
<1>1. TypeOK /\ DriveInv /\ WordsInv /\ DiskTypeOK  BY DEF IInv, TypeOK
<1>2. pc = "words" /\ MoveWord(op = "write")  BY DEF TransfersWord
<1>3. Present /\ "DRQ" \in status /\ words > 0  BY <1>1, <1>2 DEF WordsInv
<1>4. doing # "none"  BY <1>1, <1>3 DEF DriveInv
<1>5. words \in 0 .. Words /\ todo \in 0 .. Words /\ Words \in Nat /\ Words > 0
  BY <1>1, DiskAssumption DEF TypeOK, DiskTypeOK
<1>6. (op = "write") = (doing = "write") => todo = words  BY <1>1, <1>2, <1>3 DEF WordsInv
<1>7. (op = "write") # (doing = "write") => todo = Words  BY <1>1, <1>2, <1>3 DEF WordsInv
<1>8. DiskTypeOK' /\ DriveInv'
  <2>1. todo > 0  BY <1>3, <1>5, <1>6, <1>7
  <2>2. (op = "write") \in BOOLEAN  OBVIOUS
  <2>3. QED  BY <1>1, <1>2, <2>1, <2>2, MoveKeeps
<1>9. UNCHANGED <<kind, slave, reg, hob, at>>  BY <1>2 DEF MoveWord
<1>10. Shows("DRQ")  BY <1>3 DEF Shows
<1>11. CASE (op = "write") # (doing = "write")
  <2>1. UNCHANGED <<status, doing, todo>>  BY <1>2, <1>11, Zenon DEF MoveWord
  <2>2. todo' = Words  BY <1>7, <1>11, <2>1
  <2>3. QED  BY <1>2, <1>3, <1>4, <1>8, <1>9, <1>11, <2>1, <2>2
<1>12. CASE (op = "write") = (doing = "write")
  <2>1. todo' = todo - 1 /\ todo = words  BY <1>2, <1>6, <1>10, <1>12 DEF MoveWord
  <2>2. todo > 1 => UNCHANGED <<status, doing>>  BY <1>2, <1>10, <1>12 DEF MoveWord
  <2>3. ~(todo > 1) /\ op = "write" => status' = {"BSY"} /\ doing' = "store"
    BY <1>2, <1>10, <1>12 DEF MoveWord
  <2>4. ~(todo > 1) /\ op # "write" => \/ doing = "read" /\ status' = {"BSY"} /\ doing' = doing
                                       \/ status' = {} /\ doing' = "none"
    BY <1>2, <1>10, <1>12 DEF MoveWord
  <2>5. words > 1 => todo' = words - 1 /\ UNCHANGED <<status, doing>>  BY <2>1, <2>2
  <2>6. words = 1 => ~(todo > 1)  BY <2>1
  <2>7. words = 1 => /\ "DRQ" \notin status'
                     /\ op = "write" => status' = {"BSY"} /\ doing' = "store"
                     /\ op # "write" => \/ doing = "read" /\ doing' = "read"
                                        \/ doing' = "none"
    BY <2>3, <2>4, <2>6
  <2>8. QED  BY <1>2, <1>3, <1>4, <1>8, <1>9, <1>12, <2>5, <2>7
<1>13. QED  BY <1>11, <1>12

LEMMA MidSector == ASSUME IInv, TransfersWord, OnPrimary, words > 1 PROVE IInv'
<1>1. TypeOK /\ RangeInv /\ RegsInv /\ ProbeInv /\ ReadInv /\ WriteInv  BY DEF IInv
<1>2. /\ Present /\ "DRQ" \in status /\ pc = "words" /\ doing # "none"
      /\ DiskTypeOK' /\ DriveInv' /\ UNCHANGED <<kind, slave, reg, hob, at, status, doing>>
      /\ (op = "write") # (doing = "write") => todo' = Words
      /\ (op = "write") = (doing = "write") => todo' = words - 1
  BY Moves
<1>3. UNCHANGED <<pc, regs, devices, requestVars>> /\ words' = words - 1
  <2>1. words # 1  BY <1>1 DEF TypeOK
  <2>2. QED  BY <2>1 DEF TransfersWord
<1>4. words' \in 0 .. Words /\ words' > 0  BY <1>1, <1>3, DiskAssumption DEF TypeOK
<1>5. TypeOK'  BY <1>1, <1>2, <1>3, <1>4 DEF TypeOK, requestVars
<1>6. RangeInv' /\ RegsInv' /\ ProbeInv'
  BY <1>1, <1>2, <1>3 DEF RangeInv, RegsInv, ProbeInv, OnPrimary, requestVars
<1>7. WordsInv'
  <2>1. Present'  BY <1>2 DEF Present
  <2>2. op' = op /\ pc' = "words" /\ "DRQ" \in status' /\ OnPrimary'
    BY <1>2, <1>3 DEF requestVars, OnPrimary
  <2>3. todo' = IF (op' = "write") = (doing' = "write") THEN words' ELSE Words
    BY <1>2, <1>3, <2>2
  <2>4. QED  BY <1>4, <2>1, <2>2, <2>3 DEF WordsInv
<1>8. ReadInv'  BY <1>1, <1>2, <1>3 DEF ReadInv, Clean, OnPrimary, Reads, Names, NoUpper, requestVars
<1>9. WriteInv'
  BY <1>1, <1>2, <1>3 DEF WriteInv, Clean, OnPrimary, WritesFirst, WritesNext, Names, NamesBefore, NamesAtMost, NoUpper,
     requestVars
<1>10. QED  BY <1>2, <1>5, <1>6, <1>7, <1>8, <1>9 DEF IInv

LEMMA LastWord == ASSUME IInv, TransfersWord, OnPrimary, words = 1 PROVE IInv'
<1>1. TypeOK /\ RangeInv /\ RegsInv /\ ProbeInv /\ ReadInv /\ WriteInv /\ DriveInv  BY DEF IInv
<1>2. /\ Present /\ "DRQ" \in status /\ pc = "words" /\ doing # "none"
      /\ DiskTypeOK' /\ DriveInv' /\ UNCHANGED <<kind, slave, reg, hob, at>>
      /\ (op = "write") # (doing = "write") => todo' = Words /\ UNCHANGED <<status, doing>>
      /\ (op = "write") = (doing = "write") =>
           /\ "DRQ" \notin status'
           /\ op = "write" => status' = {"BSY"} /\ doing' = "store"
           /\ op # "write" => \/ doing = "read" /\ doing' = "read"
                              \/ doing' = "none"
  BY Moves
<1>3. words' = 0 /\ words' \in 0 .. Words  BY DiskAssumption DEF TransfersWord
<1>4. ~slave' /\ ~slave  BY <1>2 DEF Present
<1>5. "DRQ" \in status' => todo' = Words  BY <1>2
<1>6. ASSUME pc' # "words"  PROVE WordsInv'  BY <1>5, <1>6 DEF WordsInv
<1>7. CASE op = "identify"
  <2>1. device_add /\ pc' = "idle" /\ UNCHANGED <<regs, requestVars>>  BY <1>7 DEF TransfersWord
  <2>2. kind = "disk" /\ doing = "identify" /\ devices = <<>>  BY <1>1, <1>2, <1>7 DEF ProbeInv
  <2>3. devices' = <<"block">>  BY <2>1, <2>2 DEF device_add
  <2>4. doing' = "none"  BY <1>2, <1>7, <2>2
  <2>5. TypeOK'
    <3>1. pc' \in {"idle"} /\ devices' \in {<<"block">>}  BY <2>1, <2>3
    <3>2. QED  BY <1>1, <1>2, <1>3, <2>1, <3>1 DEF TypeOK, requestVars
  <2>6. RangeInv' /\ RegsInv'  BY <1>1, <2>1 DEF RangeInv, RegsInv, requestVars
  <2>7. WordsInv'  BY <1>6, <2>1
  <2>8. op' = "identify" /\ kind' = "disk" /\ OnPrimary'
    BY <1>2, <1>7, <2>1, <2>2 DEF requestVars, OnPrimary
  <2>9. ProbeInv'  BY <1>4, <2>1, <2>3, <2>4, <2>8 DEF ProbeInv
  <2>10. ReadInv' /\ WriteInv'  BY <2>8 DEF ReadInv, WriteInv
  <2>11. QED  BY <1>2, <2>5, <2>6, <2>7, <2>9, <2>10 DEF IInv
<1>8. CASE op = "read"
  <2>1. NextSector /\ UNCHANGED devices  BY <1>8 DEF TransfersWord
  <2>2. left > 0  BY <1>1, <1>2, <1>8 DEF RangeInv
  <2>3. /\ lba' = lba + 1 /\ nth' # 1 /\ UNCHANGED <<op, unit, calls, began>>
        /\ lba' \in 0 .. Sectors /\ left' \in 0 .. Sectors /\ nth' \in 1 .. Sectors + 1
        /\ sound' \in BOOLEAN /\ (Clean' => Clean)
        /\ pc' \in {"regs", "idle"} /\ Len(regs') \in 0 .. 8
        /\ pc' = "regs" => Len(regs') = 8 /\ Taken'
        /\ RangeInv' /\ RegsInv'
    BY <1>1, <1>8, <2>1, <2>2, NextSectorKeeps
  <2>4. TypeOK'  BY <1>1, <1>2, <1>3, <2>1, <2>3 DEF TypeOK
  <2>5. WordsInv'  BY <1>6, <2>3
  <2>6. kind = "disk" /\ devices = <<"block">> /\ doing # "identify"  BY <1>1, <1>8 DEF ProbeInv
  <2>7. doing' # "identify"  BY <1>2, <1>8, <2>6
  <2>8. op' = "read" /\ kind' = "disk" /\ devices' = <<"block">>  BY <1>2, <1>8, <2>1, <2>3, <2>6
  <2>9. ProbeInv'  BY <1>4, <2>3, <2>7, <2>8 DEF ProbeInv
  <2>10. ASSUME Clean'  PROVE pc' = "regs" => Reads'
    <3>1. Reads  BY <1>1, <1>2, <1>8, <2>3, <2>10 DEF ReadInv
    <3>2. doing = "read" /\ Names(lba + 1)  BY <1>2, <3>1 DEF Reads
    <3>3. Names(lba)'  BY <1>2, <2>3, <3>2 DEF Names, NoUpper
    <3>4. CASE doing' = "none"  BY <2>3, <3>4 DEF Reads
    <3>5. CASE doing' # "none"
      <4>1. doing' = "read" /\ "DRQ" \notin status'  BY <1>2, <1>8, <3>2, <3>5
      <4>2. QED  BY <3>3, <4>1 DEF Reads
    <3>6. QED  BY <3>4, <3>5
  <2>11. ReadInv' /\ WriteInv'  BY <2>3, <2>8, <2>10 DEF ReadInv, WriteInv
  <2>12. QED  BY <1>2, <2>3, <2>4, <2>5, <2>9, <2>11 DEF IInv
<1>9. CASE op = "write"
  <2>1. pc' = "flush" /\ UNCHANGED <<regs, devices, requestVars>>  BY <1>9 DEF TransfersWord
  <2>2. TypeOK'
    <3>1. pc' \in {"flush"}  BY <2>1
    <3>2. QED  BY <1>1, <1>2, <1>3, <2>1, <3>1 DEF TypeOK, requestVars
  <2>3. RangeInv' /\ RegsInv'  BY <1>1, <1>2, <2>1 DEF RangeInv, RegsInv, requestVars
  <2>4. WordsInv'  BY <1>6, <2>1
  <2>5. kind = "disk" /\ devices = <<"block">> /\ doing # "identify"  BY <1>1, <1>9 DEF ProbeInv
  <2>6. doing' # "identify"  BY <1>2, <1>9, <2>5
  <2>7. op' = "write" /\ kind' = "disk" /\ devices' = <<"block">>
    BY <1>2, <1>9, <2>1, <2>5 DEF requestVars
  <2>8. ProbeInv'  BY <1>4, <2>1, <2>6, <2>7 DEF ProbeInv
  <2>9. ASSUME Clean'  PROVE WritesNext(lba + 1)'
    <3>1. Clean  BY <2>1, <2>9 DEF Clean, requestVars
    <3>2. IF nth = 1 THEN WritesFirst ELSE WritesNext(lba)  BY <1>1, <1>2, <1>9, <3>1 DEF WriteInv
    <3>3. doing = "write"
      <4>1. doing \in {"identify", "read", "write"}  BY <1>1, <1>2 DEF DriveInv
      <4>2. QED  BY <1>2, <3>2, <4>1 DEF WritesFirst, WritesNext
    <3>4. NamesAtMost(lba) /\ NoUpper
      BY <3>2, <3>3 DEF WritesFirst, WritesNext, Names, NamesBefore, NamesAtMost
    <3>5. status' = {"BSY"} /\ doing' = "store"  BY <1>2, <1>9, <3>3
    <3>6. lba' = lba /\ lba' \in Nat
      <4>1. lba' = lba  BY <2>1 DEF requestVars
      <4>2. lba \in Nat  BY <1>1, DiskAssumption DEF TypeOK
      <4>3. QED  BY <4>1, <4>2
    <3>7. NoUpper' /\ (hob'["lba"] = 0 /\ reg'["lba"] < Sectors => reg'["lba"] + 1 = lba' + 1)
      BY <1>2, <3>4, <3>6 DEF NamesAtMost, NoUpper
    <3>8. NamesBefore(lba + 1)'  BY <3>7 DEF NamesBefore
    <3>9. QED  BY <3>5, <3>7, <3>8 DEF WritesNext
  <2>10. ReadInv' /\ WriteInv'  BY <2>1, <2>7, <2>9 DEF ReadInv, WriteInv
  <2>11. QED  BY <1>2, <2>2, <2>3, <2>4, <2>8, <2>10 DEF IInv
<1>10. QED  BY <1>1, <1>7, <1>8, <1>9 DEF TypeOK

LEMMA TransferPreserves == ASSUME IInv, TransfersWord, OnPrimary PROVE IInv'
<1>1. words \in Nat /\ words > 0
  <2>1. words \in Nat  BY DiskAssumption DEF IInv, TypeOK
  <2>2. QED  BY <2>1, Moves
<1>2. QED  BY <1>1, MidSector, LastWord

LEMMA FlushPreserves == ASSUME IInv, Flushes, OnPrimary PROVE IInv'
<1>1. TypeOK /\ RangeInv /\ RegsInv /\ ProbeInv /\ WriteInv /\ DriveInv /\ WordsInv /\ DiskTypeOK
  BY DEF IInv, TypeOK
<1>2. pc = "flush" /\ Command("flush") /\ NextSector /\ UNCHANGED <<words, devices>>  BY DEF Flushes
<1>3. op \in {"read", "write"} /\ kind = "disk" /\ ~slave /\ devices = <<"block">>
  BY <1>1, <1>2 DEF ProbeInv, TypeOK
<1>4. left > 0  BY <1>1, <1>2, <1>3 DEF RangeInv
<1>5. /\ lba' = lba + 1 /\ nth' # 1 /\ UNCHANGED <<op, unit, calls, began>>
      /\ lba' \in 0 .. Sectors /\ left' \in 0 .. Sectors /\ nth' \in 1 .. Sectors + 1
      /\ sound' \in BOOLEAN /\ (Clean' => Clean)
      /\ pc' \in {"regs", "idle"} /\ Len(regs') \in 0 .. 8
      /\ pc' = "regs" => Len(regs') = 8 /\ Taken'
      /\ RangeInv' /\ RegsInv'
  BY <1>1, <1>2, <1>3, <1>4, NextSectorKeeps
<1>6. DiskTypeOK' /\ DriveInv'
  <2>1. "flush" \in {"identify", "read", "write", "flush"}  OBVIOUS
  <2>2. QED  BY <1>1, <1>2, <2>1, CommandKeeps
<1>7. /\ UNCHANGED <<kind, slave, hob, reg, at, todo>> /\ doing' \in {doing, "flush"}
      /\ "DRQ" \in status' => "DRQ" \in status
      /\ doing # "none" => UNCHANGED <<status, doing>>
      /\ doing = "none" => doing' = "flush" /\ status' = {"BSY"}
  <2>1. Present /\ (Idle <=> doing = "none")  BY <1>1, <1>3, Resting DEF Present
  <2>2. QED  BY <1>2, <1>3, <2>1 DEF Command
<1>8. TypeOK'  BY <1>1, <1>2, <1>5, <1>6 DEF TypeOK
<1>9. WordsInv'
  <2>1. "DRQ" \in status => todo = Words  BY <1>1, <1>2 DEF WordsInv
  <2>2. pc' # "words"  BY <1>5
  <2>3. QED  BY <1>7, <2>1, <2>2 DEF WordsInv
<1>10. ProbeInv'
  <2>1. doing # "identify"  BY <1>1, <1>3 DEF ProbeInv
  <2>2. ~slave' /\ kind' = "disk" /\ doing' # "identify" /\ devices' = <<"block">> /\ op' # "identify"
    BY <1>2, <1>3, <1>5, <1>7, <2>1
  <2>3. QED  BY <1>5, <2>2 DEF ProbeInv
<1>11. ASSUME op = "write", Clean  PROVE WritesNext(lba)'
  <2>1. WritesNext(lba + 1)  BY <1>1, <1>2, <1>11 DEF WriteInv
  <2>2. CASE doing # "none"
    BY <1>5, <1>7, <2>1, <2>2 DEF WritesNext, NamesBefore, NamesAtMost, NoUpper
  <2>3. CASE doing = "none"
    <3>1. NamesAtMost(lba + 1)  BY <1>2, <1>3, <2>1, <2>3 DEF WritesNext
    <3>2. QED  BY <1>5, <1>7, <2>3, <3>1 DEF WritesNext, NamesBefore, NamesAtMost, NoUpper
  <2>4. QED  BY <2>2, <2>3
<1>12. ReadInv' /\ WriteInv'
  <2>1. op' = "write" /\ op = "write"  BY <1>1, <1>2, <1>5 DEF ProbeInv
  <2>2. Clean' => WritesNext(lba)'  BY <1>5, <1>11, <2>1
  <2>3. QED  BY <1>5, <2>1, <2>2 DEF ReadInv, WriteInv
<1>13. QED  BY <1>5, <1>6, <1>8, <1>9, <1>10, <1>12 DEF IInv

-----------------------------------------------------------------------------
(* The drive responds.                                                      *)

\* The names of sectors, and Sector.
LEMMA Naming ==
  ASSUME DiskTypeOK, NEW l \in Nat, l <= Sectors
  PROVE  /\ Names(l) /\ l < Sectors => Sector = l /\ Sector # Nowhere
         /\ NamesAtMost(l) => Sector \in {l, Nowhere}
         /\ NamesBefore(l) /\ Sector # Nowhere => Sector + 1 = l /\ reg["lba"] + 1 = l
         /\ NamesBefore(l) /\ Sector = Nowhere => NamesAtMost(l)
<1>1. reg["lba"] \in Nat /\ Sectors \in Nat  BY Values, DiskAssumption DEF DiskTypeOK, Registers
<1>2. Sector # Nowhere <=>
        hob["lba"] = 0 /\ hob["upper"] = 0 /\ reg["upper"] = 0 /\ reg["lba"] < Sectors
  BY <1>1 DEF Sector, Nowhere
<1>3. Sector # Nowhere => Sector = reg["lba"]  BY DEF Sector
<1>4. Names(l) /\ l < Sectors => Sector = l /\ Sector # Nowhere
  BY <1>2, <1>3 DEF Names, NoUpper
<1>5. NamesAtMost(l) => Sector \in {l, Nowhere}  BY <1>2, <1>3 DEF NamesAtMost
<1>6. NamesBefore(l) /\ Sector # Nowhere => Sector + 1 = l /\ reg["lba"] + 1 = l
  BY <1>2, <1>3 DEF NamesBefore
<1>7. NamesBefore(l) /\ Sector = Nowhere => NamesAtMost(l)
  BY <1>2 DEF NamesBefore, NamesAtMost, NoUpper
<1>8. QED  BY <1>4, <1>5, <1>6, <1>7

LEMMA ProgressNames ==
  ASSUME DiskTypeOK, Progresses, NoUpper
  PROVE  NoUpper' /\ hob'["lba"] = 0 /\ reg'["lba"] = reg["lba"] + 1
BY DEF Progresses, Advanced, DiskTypeOK, Registers, NoUpper

LEMMA DiskRead == ASSUME IInv, DiskStep PROVE ReadInv'
<1>1. /\ Responds /\ "BSY" \in status /\ doing # "none"
      /\ UNCHANGED <<pc, regs, words, devices, requestVars>>
  BY DEF IInv, DriveInv, DiskStep, Responds
<1>2. DiskTypeOK /\ RangeInv /\ ReadInv  BY DEF IInv, TypeOK
<1>3. op' = op /\ lba' = lba /\ pc' = pc /\ (Clean' <=> Clean)  BY <1>1 DEF Clean, OnPrimary, requestVars
<1>4. SUFFICES ASSUME op = "read", Clean, pc \in {"regs", "busy", "poll", "words"}  PROVE Reads'
  BY <1>2, <1>3 DEF ReadInv
<1>5. Reads /\ doing = "read" /\ Names(lba)  BY <1>1, <1>2, <1>4 DEF ReadInv, Reads
<1>6. lba \in Nat /\ lba < Sectors
  <2>1. lba \in Nat /\ left \in Nat /\ Sectors \in Nat  BY DiskAssumption DEF IInv, TypeOK
  <2>2. left > 0 /\ lba + left <= Sectors  BY <1>2, <1>4 DEF RangeInv
  <2>3. QED  BY <2>1, <2>2
<1>7. Sector = lba /\ Sector # Nowhere  BY <1>2, <1>5, <1>6, Naming, DiskAssumption
<1>8. Offers(lba) /\ Progresses /\ doing' = "read"  BY <1>1, <1>5, <1>7 DEF Responds
<1>9. Names(lba + 1)'
  <2>1. NoUpper /\ reg["lba"] = lba  BY <1>5 DEF Names
  <2>2. NoUpper' /\ hob'["lba"] = 0 /\ reg'["lba"] = lba' + 1
    BY <1>2, <1>3, <1>8, <2>1, ProgressNames
  <2>3. QED  BY <2>2 DEF Names
<1>10. at' = lba /\ status' = {"DRQ"}  BY <1>8 DEF Offers
<1>11. QED  BY <1>3, <1>8, <1>9, <1>10 DEF Reads

\* The drive ends what it does for one sector of a write, and may start on the
\* next.
LEMMA DiskWritesNext ==
  ASSUME DiskTypeOK, DriveInv, Responds, NEW l \in Nat, l <= Sectors, WritesNext(l)
  PROVE  /\ doing' \in {"none", "write"} /\ NoUpper'
         /\ doing' = "write" => NamesAtMost(l)' /\ at' \in {l, Nowhere}
         /\ doing' = "none" => NamesAtMost(l)'
<1>1. "BSY" \in status /\ doing \in {"store", "flush", "write"} /\ NoUpper
  BY DEF Responds, DriveInv, WritesNext
<1>2. Sectors \in Nat  BY DiskAssumption
<1>3. CASE doing = "write"
  <2>1. Offers(Sector) /\ UNCHANGED <<doing, reg, hob>>  BY <1>3 DEF Responds
  <2>2. NamesAtMost(l)  BY <1>3 DEF WritesNext
  <2>3. at' \in {l, Nowhere}  BY <2>1, <2>2, Naming DEF Offers
  <2>4. QED  BY <1>1, <1>3, <2>1, <2>2, <2>3 DEF NamesAtMost, NoUpper
<1>4. CASE doing = "flush"
  <2>1. Rests({}) /\ UNCHANGED <<reg, hob>>  BY <1>4 DEF Responds
  <2>2. NamesAtMost(l)  BY <1>4 DEF WritesNext
  <2>3. QED  BY <1>1, <2>1, <2>2 DEF Rests, NamesAtMost, NoUpper
<1>5. CASE doing = "store" /\ Sector = Nowhere
  <2>1. Rests({"ERR"}) /\ UNCHANGED <<reg, hob>>  BY <1>5 DEF Responds
  <2>2. NamesBefore(l)  BY <1>5 DEF WritesNext
  <2>3. NamesAtMost(l)  BY <1>5, <2>2, Naming
  <2>4. QED  BY <1>1, <2>1, <2>3 DEF Rests, NamesAtMost, NoUpper
<1>6. CASE doing = "store" /\ Sector # Nowhere
  <2>1. Progresses  BY <1>6 DEF Responds
  <2>2. NamesBefore(l)  BY <1>6 DEF WritesNext
  <2>3. Sector + 1 = l /\ reg["lba"] + 1 = l  BY <1>6, <2>2, Naming
  <2>4. NoUpper' /\ reg'["lba"] = l  BY <1>1, <2>1, <2>3, ProgressNames
  <2>5. NamesAtMost(l)'  BY <2>4 DEF NamesAtMost
  <2>6. CASE reg["count"] = 1
    <3>1. doing' = "none"  BY <1>6, <2>6 DEF Responds, Rests
    <3>2. QED  BY <2>4, <2>5, <3>1
  <2>7. CASE reg["count"] # 1
    <3>1. Offers(IF Sector + 1 < Sectors THEN Sector + 1 ELSE Nowhere) /\ doing' = "write"
      BY <1>6, <2>7 DEF Responds
    <3>2. at' \in {l, Nowhere}  BY <2>3, <3>1 DEF Offers
    <3>3. QED  BY <2>4, <2>5, <3>1, <3>2
  <2>8. QED  BY <2>6, <2>7
<1>7. QED  BY <1>1, <1>3, <1>4, <1>5, <1>6

LEMMA DiskWrite == ASSUME IInv, DiskStep PROVE WriteInv'
<1>1. /\ Responds /\ "BSY" \in status /\ doing # "none"
      /\ UNCHANGED <<pc, regs, words, devices, requestVars>>
  BY DEF IInv, DriveInv, DiskStep, Responds
<1>2. DiskTypeOK /\ RangeInv /\ WriteInv /\ DriveInv  BY DEF IInv, TypeOK
<1>3. op' = op /\ lba' = lba /\ nth' = nth /\ pc' = pc /\ (Clean' <=> Clean)
  BY <1>1 DEF Clean, OnPrimary, requestVars
<1>4. SUFFICES ASSUME op = "write", Clean
               PROVE  /\ pc \in {"regs", "busy", "poll", "words"} =>
                           IF nth = 1 THEN WritesFirst' ELSE WritesNext(lba)'
                      /\ pc = "flush" => WritesNext(lba + 1)'
  BY <1>3 DEF WriteInv
<1>5. pc \in {"regs", "busy", "poll", "words", "flush"} => lba \in Nat /\ lba < Sectors /\ left > 0
  <2>1. lba \in Nat /\ left \in Nat /\ Sectors \in Nat  BY DiskAssumption DEF IInv, TypeOK
  <2>2. ASSUME left > 0  PROVE lba < Sectors  BY <1>2, <2>1, <2>2 DEF RangeInv
  <2>3. QED  BY <1>2, <1>4, <2>1, <2>2 DEF RangeInv
<1>6. ASSUME pc \in {"regs", "busy", "poll", "words"}, nth = 1  PROVE WritesFirst'
  <2>1. doing = "write" /\ Names(lba) /\ pc # "regs"
    BY <1>1, <1>2, <1>4, <1>6 DEF WriteInv, WritesFirst
  <2>2. Sector = lba  BY <1>2, <1>5, <1>6, <2>1, Naming, DiskAssumption
  <2>3. Offers(lba) /\ UNCHANGED <<doing, reg, hob>>  BY <1>1, <2>1, <2>2 DEF Responds
  <2>4. QED  BY <1>3, <2>1, <2>3 DEF WritesFirst, Offers, Names, NoUpper
<1>7. ASSUME NEW l \in Nat, l <= Sectors, WritesNext(l)
      PROVE  /\ doing' \in {"none", "write"} /\ NoUpper'
             /\ hob'["lba"] = 0 /\ reg'["lba"] < Sectors => reg'["lba"] = l
             /\ doing' = "write" => at' \in {l, Nowhere}
  <2>1. /\ doing' \in {"none", "write"} /\ NoUpper'
        /\ doing' = "write" => NamesAtMost(l)' /\ at' \in {l, Nowhere}
        /\ doing' = "none" => NamesAtMost(l)'
    BY <1>1, <1>2, <1>7, DiskWritesNext
  <2>2. NamesAtMost(l)'  BY <2>1
  <2>3. QED  BY <2>1, <2>2 DEF NamesAtMost
<1>8. ASSUME pc \in {"regs", "busy", "poll", "words"}, nth # 1  PROVE WritesNext(lba)'
  <2>1. WritesNext(lba)  BY <1>2, <1>4, <1>8 DEF WriteInv
  <2>2. lba \in Nat /\ lba <= Sectors  BY <1>5, <1>8, DiskAssumption
  <2>3. PICK l \in Nat : l = lba  BY <2>2
  <2>4. l <= Sectors /\ WritesNext(l)  BY <2>1, <2>2, <2>3
  <2>5. QED  BY <1>3, <1>7, <2>3, <2>4 DEF WritesNext, NamesAtMost
<1>9. ASSUME pc = "flush"  PROVE WritesNext(lba + 1)'
  <2>1. WritesNext(lba + 1)  BY <1>2, <1>4, <1>9 DEF WriteInv
  <2>2. lba + 1 \in Nat /\ lba + 1 <= Sectors  BY <1>5, <1>9, DiskAssumption
  <2>3. PICK l \in Nat : l = lba + 1  BY <2>2
  <2>4. l <= Sectors /\ WritesNext(l)  BY <2>1, <2>2, <2>3
  <2>5. QED  BY <1>3, <1>7, <2>3, <2>4 DEF WritesNext, NamesAtMost
<1>10. QED  BY <1>6, <1>8, <1>9

LEMMA DiskPreserves == ASSUME IInv, DiskStep PROVE IInv'
<1>1. /\ TypeOK /\ DriveInv /\ RangeInv /\ RegsInv /\ WordsInv /\ ProbeInv /\ DiskTypeOK
  BY DEF IInv, TypeOK
<1>2. /\ Responds /\ "BSY" \in status /\ doing # "none"
      /\ UNCHANGED <<pc, regs, words, devices, requestVars>>
  BY <1>1 DEF DriveInv, DiskStep, Responds
<1>3. /\ DiskTypeOK' /\ DriveInv' /\ ("DRQ" \in status' => todo' = Words) /\ ~slave
      /\ UNCHANGED <<kind, slave>>
  BY <1>1, <1>2, RespondsKeeps DEF Responds
<1>4. (pc = "words" => ~OnPrimary) /\ (OnPrimary' <=> OnPrimary)
   BY <1>1, <1>2 DEF WordsInv, DriveInv, OnPrimary, requestVars
<1>5. TypeOK'  BY <1>1, <1>2, <1>3 DEF TypeOK, requestVars
<1>6. RangeInv' /\ RegsInv'  BY <1>1, <1>2 DEF RangeInv, RegsInv, requestVars
<1>7. WordsInv'  BY <1>1, <1>2, <1>3, <1>4 DEF WordsInv
<1>8. ProbeInv'
  <2>1. doing # "identify" => doing' # "identify"  BY <1>2 DEF Responds, Rests
  <2>2. doing = "identify" => doing' = "identify"  BY <1>2 DEF Responds
  <2>3. op' = op /\ pc' = pc /\ devices' = devices /\ kind' = kind /\ slave' = slave
    BY <1>2, <1>3 DEF requestVars
  <2>4. ~(op = "identify" /\ pc = "regs")  BY <1>1, <1>2 DEF ProbeInv
  <2>5. ~("ERR" \in status)  BY <1>1, <1>2 DEF DriveInv
  <2>6. QED  BY <1>1, <1>2, <1>4, <2>1, <2>2, <2>3, <2>4, <2>5 DEF ProbeInv
<1>9. QED  BY <1>3, <1>5, <1>6, <1>7, <1>8, DiskRead, DiskWrite DEF IInv

-----------------------------------------------------------------------------
(* The driver looks at the status.                                          *)

LEMMA LookPreserves ==
  ASSUME IInv, NEW from, NEW place, Goes(from, place), OnPrimary, ProbeInv',
         place \in {"err", "drq", "busy", "poll", "words", "idle", "panic"},
         from \notin {"regs", "words", "flush"},
         place = "words" => Shows("DRQ"),
         place = "panic" => Shows("ERR"),
         place \in {"busy", "poll", "words", "panic"} /\ op # "identify" => from \in {"busy", "poll"}
  PROVE  IInv'
<1>1. /\ TypeOK /\ DriveInv /\ RangeInv /\ RegsInv /\ WordsInv /\ ProbeInv /\ DiskTypeOK
      /\ ReadInv /\ WriteInv
  BY DEF IInv, TypeOK
<1>2. /\ pc = from /\ pc' = place /\ UNCHANGED <<diskVars, regs, devices, requestVars>>
      /\ words' = IF place = "words" THEN Words ELSE words
  BY DEF Goes
<1>3. Words \in Nat /\ Words > 0  BY DiskAssumption
<1>4. TypeOK'
  <2>1. words' \in 0 .. Words  BY <1>1, <1>2, <1>3 DEF TypeOK
  <2>2. QED  BY <1>1, <1>2, <2>1 DEF TypeOK, DiskTypeOK, diskVars, requestVars
<1>5. DriveInv'  BY <1>1, <1>2 DEF DriveInv, diskVars
<1>6. RangeInv'  BY <1>1, <1>2 DEF RangeInv, requestVars
<1>7. RegsInv'  BY <1>1, <1>2 DEF RegsInv, requestVars
<1>8. WordsInv'
  <2>1. "DRQ" \in status => todo = Words  BY <1>1, <1>2 DEF WordsInv
  <2>2. place = "words" => Present /\ "DRQ" \in status  BY DEF Shows
  <2>3. Present' <=> Present  BY <1>2 DEF Present, diskVars
  <2>4. place = "words" => words' = Words /\ words' > 0  BY <1>2, <1>3
  <2>5. status' = status /\ todo' = todo /\ pc' = place  BY <1>2 DEF diskVars
  <2>6. QED  BY <2>1, <2>2, <2>3, <2>4, <2>5 DEF WordsInv
<1>9. ReadInv'
  <2>1. op' = op /\ (Clean' <=> Clean)  BY <1>2 DEF Clean, OnPrimary, requestVars
  <2>2. SUFFICES ASSUME op = "read", Clean, place \in {"busy", "poll", "words", "panic"}
                 PROVE  place # "panic" /\ Reads'
    BY <1>2, <2>1 DEF ReadInv
  <2>3. Reads /\ pc # "regs"  BY <1>1, <1>2, <2>2 DEF ReadInv
  <2>4. Reads'  BY <1>2, <2>3 DEF Reads, Names, NoUpper, diskVars, requestVars
  <2>5. ASSUME place = "panic"  PROVE FALSE
    <3>1. "ERR" \in status /\ ~slave  BY <2>5 DEF Shows, Present
    <3>2. doing = "read"  BY <2>3, <3>1 DEF Reads
    <3>3. QED  BY <1>1, <3>1, <3>2 DEF DriveInv
  <2>6. QED  BY <2>4, <2>5
<1>10. WriteInv'
  <2>1. op' = op /\ nth' = nth /\ (Clean' <=> Clean)  BY <1>2 DEF Clean, OnPrimary, requestVars
  <2>2. SUFFICES ASSUME op = "write", Clean, place \in {"busy", "poll", "words"}
                 PROVE  IF nth = 1 THEN WritesFirst' ELSE WritesNext(lba)'
    BY <1>2, <2>1 DEF WriteInv
  <2>3. pc # "regs" /\ IF nth = 1 THEN WritesFirst ELSE WritesNext(lba)
    BY <1>1, <1>2, <2>2 DEF WriteInv
  <2>4. nth = 1 => WritesFirst'
    BY <1>2, <2>3 DEF WritesFirst, Names, NoUpper, diskVars, requestVars
  <2>5. nth # 1 => WritesNext(lba)'
    BY <1>2, <2>3 DEF WritesNext, NamesBefore, NamesAtMost, NoUpper, diskVars, requestVars
  <2>6. QED  BY <2>4, <2>5
<1>11. QED  BY <1>4, <1>5, <1>6, <1>7, <1>8, <1>9, <1>10 DEF IInv

\* What the probe sees.
LEMMA Sees ==
  ASSUME IInv, op = "identify", pc \in {"status", "err", "drq"}
  PROVE  /\ ~slave /\ devices = <<>>
         /\ Present <=> kind # "none"
         /\ pc # "status" => kind \in {"disk", "packet"}
         /\ kind = "packet" => Shows("ERR") /\ pc # "drq"
         /\ kind = "disk" => ~Shows("ERR") /\ doing = "identify"
<1>1. ProbeInv /\ DriveInv  BY DEF IInv
<1>2. ~slave /\ (Present <=> kind # "none")  BY <1>1 DEF ProbeInv, Present
<1>3. devices = <<>>  BY <1>1 DEF ProbeInv
<1>4. \/ kind = "disk" /\ doing = "identify"
      \/ kind = "packet" /\ pc \in {"status", "err"} /\ "ERR" \in status
      \/ kind = "none" /\ pc = "status" /\ doing = "none"
  BY <1>1 DEF ProbeInv
<1>5. kind = "disk" => "ERR" \notin status  BY <1>1, <1>4 DEF DriveInv
<1>6. QED  BY <1>2, <1>3, <1>4, <1>5 DEF Shows

LEMMA ProbeLooks ==
  ASSUME IInv, ReadsStatus \/ WaitsForNoError \/ WaitsForIdentity
  PROVE  IInv'
<1>1. ProbeInv /\ pc \in {"status", "err", "drq"}
  BY DEF IInv, ReadsStatus, WaitsForNoError, WaitsForIdentity, Goes
<1>2. op = "identify" /\ OnPrimary  BY <1>1 DEF ProbeInv
<1>3. /\ ~slave /\ devices = <<>>
      /\ Present <=> kind # "none"
      /\ pc # "status" => kind \in {"disk", "packet"}
      /\ kind = "packet" => Shows("ERR") /\ pc # "drq"
      /\ kind = "disk" => ~Shows("ERR") /\ doing = "identify"
  BY <1>1, <1>2, Sees DEF ProbeInv
<1>4. kind \in {"disk", "packet", "none"}  BY DiskAssumption DEF IInv, TypeOK, DiskTypeOK
<1>5. ASSUME NEW place \in {"err", "drq", "words", "idle"}, pc' = place,
             UNCHANGED <<diskVars, devices, requestVars>>,
             \/ place = "idle" /\ kind = "none"
             \/ place = "err" /\ kind \in {"disk", "packet"}
             \/ place \in {"drq", "words"} /\ kind = "disk"
      PROVE  ProbeInv'
  <2>1. /\ op' = "identify" /\ ~slave' /\ devices' = <<>> /\ UNCHANGED <<kind, doing, status>>
        /\ OnPrimary'
    BY <1>2, <1>3, <1>5 DEF diskVars, requestVars, OnPrimary
  <2>2. kind = "packet" => "ERR" \in status  BY <1>3 DEF Shows
  <2>3. doing # "identify" \/ kind = "disk"
    <3>1. "ERR" \in status => doing = "none"  BY DEF IInv, DriveInv
    <3>2. QED  BY <1>1, <1>2, <3>1 DEF ProbeInv
  <2>4. QED  BY <1>3, <1>5, <2>1, <2>2, <2>3 DEF ProbeInv
<1>6. CASE ReadsStatus
  <2> DEFINE place == IF Present THEN "err" ELSE "idle"
  <2>1. Goes("status", place)  BY <1>6 DEF ReadsStatus
  <2>2. pc' = place /\ UNCHANGED <<diskVars, regs, devices, requestVars>>  BY <2>1 DEF Goes
  <2>3. ProbeInv'  BY <1>3, <1>4, <1>5, <2>2
  <2>4. QED  BY <1>2, <2>1, <2>3, LookPreserves
<1>7. CASE WaitsForNoError
  <2> DEFINE place == IF Shows("ERR") THEN "err" ELSE "drq"
  <2>1. Goes("err", place)  BY <1>7 DEF WaitsForNoError
  <2>2. pc = "err" /\ pc' = place /\ UNCHANGED <<diskVars, regs, devices, requestVars>>
    BY <2>1 DEF Goes
  <2>3. ProbeInv'  BY <1>3, <1>4, <1>5, <2>2
  <2>4. QED  BY <1>2, <2>1, <2>3, LookPreserves
<1>8. CASE WaitsForIdentity
  <2> DEFINE place == IF Shows("ERR") THEN "idle" ELSE IF Shows("DRQ") THEN "words" ELSE "drq"
  <2>1. Goes("drq", place)  BY <1>8 DEF WaitsForIdentity
  <2>2. pc = "drq" /\ pc' = place /\ UNCHANGED <<diskVars, regs, devices, requestVars>>
    BY <2>1 DEF Goes
  <2>3. kind = "disk"  BY <1>3, <2>2
  <2>4. ProbeInv'  BY <1>3, <1>5, <2>2, <2>3
  <2>5. place = "words" => Shows("DRQ")  OBVIOUS
  <2>6. QED  BY <1>2, <2>1, <2>4, <2>5, LookPreserves
<1>9. QED  BY <1>6, <1>7, <1>8

LEMMA PollPreserves == ASSUME IInv, PollsBusy \/ PollsReady, OnPrimary PROVE IInv'
<1>1. Answers = {{b \in {"BSY", "DRQ", "ERR"} : Shows(b)}}  BY DEF Answers
<1>2. ProbeInv /\ pc \in {"busy", "poll"}  BY DEF IInv, PollsBusy, PollsReady, Goes
<1>3. op # "identify" /\ kind = "disk" /\ doing # "identify" /\ devices = <<"block">>
  BY <1>2 DEF ProbeInv
<1>4. ASSUME NEW place \in {"busy", "poll", "words", "panic"}, pc' = place,
             UNCHANGED <<diskVars, devices, requestVars>>,
             place \in {"words", "panic"} => Present
      PROVE  ProbeInv'
  <2>1. /\ op' # "identify" /\ kind' = "disk" /\ doing' # "identify" /\ devices' = <<"block">>
        /\ slave' = slave /\ OnPrimary'
    BY <1>3, <1>4 DEF diskVars, requestVars, OnPrimary
  <2>2. place \in {"words", "panic"} => ~slave  BY <1>4 DEF Present
  <2>3. QED  BY <1>4, <2>1, <2>2 DEF ProbeInv
<1>5. CASE PollsBusy
  <2> DEFINE place == IF Shows("BSY") THEN "busy" ELSE "poll"
  <2>1. Goes("busy", place)  BY <1>1, <1>5 DEF PollsBusy
  <2>2. pc' = place /\ UNCHANGED <<diskVars, regs, devices, requestVars>>  BY <2>1 DEF Goes
  <2>3. ProbeInv'  BY <1>4, <2>2
  <2>4. QED  BY <1>3, <2>1, <2>3, LookPreserves
<1>6. CASE PollsReady
  <2> DEFINE place == IF Shows("ERR") THEN "panic" ELSE IF Shows("DRQ") THEN "words" ELSE "poll"
  <2>1. Goes("poll", place)  BY <1>1, <1>6 DEF PollsReady
  <2>2. pc' = place /\ UNCHANGED <<diskVars, regs, devices, requestVars>>  BY <2>1 DEF Goes
  <2>3. (place = "words" => Shows("DRQ")) /\ (place = "panic" => Shows("ERR"))  OBVIOUS
  <2>4. place \in {"words", "panic"} => Present  BY <2>3 DEF Shows
  <2>5. ProbeInv'  BY <1>4, <2>2, <2>4
  <2>6. QED  BY <1>3, <2>1, <2>3, <2>5, LookPreserves
<1>7. QED  BY <1>2, <1>5, <1>6

-----------------------------------------------------------------------------
(* A call for the secondary bus leaves the primary alone.                   *)

LEMMA SecondaryPreserves ==
  ASSUME IInv, ~OnPrimary, WritesRegister \/ PollsBusy \/ PollsReady \/ TransfersWord \/ Flushes
  PROVE  IInv'
<1>1. /\ TypeOK /\ DriveInv /\ RangeInv /\ RegsInv /\ WordsInv /\ ProbeInv
  BY DEF IInv
<1>2. /\ op \in {"read", "write"} /\ ~slave /\ kind = "disk" /\ doing # "identify" /\ devices = <<"block">>
      /\ "DRQ" \in status => todo = Words
  BY <1>1 DEF ProbeInv, WordsInv, TypeOK
<1>3. ASSUME UNCHANGED <<diskVars, devices, op, unit>>, pc' \notin {"status", "err", "drq"},
             pc' = "flush" => op = "write",
             pc' = "words" => words' > 0
      PROVE  DriveInv' /\ WordsInv' /\ ProbeInv' /\ ReadInv' /\ WriteInv' /\ DiskTypeOK'
  <2>1. /\ ~OnPrimary' /\ op' = op /\ ~slave' /\ kind' = "disk" /\ doing' # "identify"
        /\ devices' = <<"block">> /\ ("DRQ" \in status' => todo' = Words)
    BY <1>2, <1>3 DEF OnPrimary, diskVars
  <2>2. DriveInv' /\ DiskTypeOK'  BY <1>1, <1>3 DEF DriveInv, TypeOK, DiskTypeOK, diskVars
  <2>3. WordsInv'  BY <1>3, <2>1 DEF WordsInv
  <2>4. ProbeInv'  BY <1>2, <1>3, <2>1 DEF ProbeInv
  <2>5. ReadInv' /\ WriteInv'  BY <2>1 DEF ReadInv, WriteInv, Clean
  <2>6. QED  BY <2>2, <2>3, <2>4, <2>5
<1>4. CASE WritesRegister
  <2>1. /\ pc = "regs" /\ regs' = Tail(regs) /\ UNCHANGED <<diskVars, words, devices, requestVars>>
        /\ pc' = IF Len(regs) > 1 THEN "regs" ELSE "busy"
    BY <1>2, <1>4 DEF WritesRegister
  <2>2. RegsInv' /\ Len(regs') \in 0 .. 8
    <3>1. /\ Len(regs) \in 1 .. 8 /\ Len(regs') = Len(regs) - 1 /\ RegsInv'
      BY <1>4, Frame
    <3>2. \A k \in 1 .. 8 : k - 1 \in 0 .. 8  OBVIOUS
    <3>3. QED  BY <3>1, <3>2
  <2>3. RangeInv'  BY <1>1, <2>1 DEF RangeInv, requestVars
  <2>4. DriveInv' /\ WordsInv' /\ ProbeInv' /\ ReadInv' /\ WriteInv' /\ DiskTypeOK'
    BY <1>3, <2>1 DEF requestVars
  <2>5. TypeOK'
    <3>1. pc' \in {"regs", "busy"}  BY <2>1
    <3>2. QED  BY <1>1, <2>1, <2>2, <2>4, <3>1 DEF TypeOK, requestVars
  <2>6. QED  BY <2>2, <2>3, <2>4, <2>5 DEF IInv
<1>5. CASE PollsBusy \/ PollsReady
  <2>1. PICK place \in {"busy", "poll", "words", "panic"} : Goes("busy", place) \/ Goes("poll", place)
    BY <1>5 DEF PollsBusy, PollsReady
  <2>2. /\ pc \in {"busy", "poll"} /\ pc' = place /\ UNCHANGED <<diskVars, regs, devices, requestVars>>
        /\ words' = IF place = "words" THEN Words ELSE words
    BY <2>1 DEF Goes
  <2>3. Words \in Nat /\ Words > 0  BY DiskAssumption
  <2>4. RangeInv' /\ RegsInv'  BY <1>1, <2>2 DEF RangeInv, RegsInv, requestVars
  <2>5. DriveInv' /\ WordsInv' /\ ProbeInv' /\ ReadInv' /\ WriteInv' /\ DiskTypeOK'
    BY <1>3, <2>2, <2>3 DEF requestVars
  <2>6. TypeOK'
    <3>1. words' \in 0 .. Words  BY <1>1, <2>2, <2>3 DEF TypeOK
    <3>2. QED  BY <1>1, <2>2, <2>5, <3>1 DEF TypeOK, requestVars
  <2>7. QED  BY <2>4, <2>5, <2>6 DEF IInv
<1>6. CASE TransfersWord /\ ~(words = 1 /\ op = "read")
  <2>1. /\ pc = "words" /\ words' = words - 1 /\ UNCHANGED <<diskVars, regs, devices, requestVars>>
        /\ \/ words > 1 /\ pc' = pc
           \/ words = 1 /\ op = "write" /\ pc' = "flush"
    BY <1>2, <1>6 DEF TransfersWord
  <2>2. words \in 0 .. Words /\ words' \in 0 .. Words /\ (words > 1 => words' > 0)
    BY <1>1, <2>1, DiskAssumption DEF TypeOK
  <2>3. RangeInv' /\ RegsInv'  BY <1>1, <2>1 DEF RangeInv, RegsInv, requestVars
  <2>4. DriveInv' /\ WordsInv' /\ ProbeInv' /\ ReadInv' /\ WriteInv' /\ DiskTypeOK'
    BY <1>3, <2>1, <2>2 DEF requestVars
  <2>5. TypeOK'
    <3>1. pc' \in {"words", "flush"}  BY <2>1
    <3>2. QED  BY <1>1, <2>1, <2>2, <2>4, <3>1 DEF TypeOK, requestVars
  <2>6. QED  BY <2>3, <2>4, <2>5 DEF IInv
<1>7. CASE (TransfersWord /\ words = 1 /\ op = "read") \/ Flushes
  <2>1. NextSector /\ UNCHANGED <<diskVars, devices>> /\ pc \in {"words", "flush"} /\ words' \in {words, 0}
    <3>1. words = 1 => words - 1 = 0  OBVIOUS
    <3>2. QED  BY <1>7, <3>1 DEF TransfersWord, Flushes
  <2>2. left > 0  BY <1>1, <1>2, <2>1 DEF RangeInv
  <2>3. /\ UNCHANGED <<op, unit, calls, began>>
        /\ lba' \in 0 .. Sectors /\ left' \in 0 .. Sectors /\ nth' \in 1 .. Sectors + 1
        /\ sound' \in BOOLEAN /\ pc' \in {"regs", "idle"} /\ Len(regs') \in 0 .. 8
        /\ RangeInv' /\ RegsInv'
    BY <1>1, <1>2, <2>1, <2>2, NextSectorKeeps
  <2>4. DriveInv' /\ WordsInv' /\ ProbeInv' /\ ReadInv' /\ WriteInv' /\ DiskTypeOK'
    BY <1>3, <2>1, <2>3
  <2>5. TypeOK'
    <3>1. words' \in 0 .. Words  BY <1>1, <2>1, DiskAssumption DEF TypeOK
    <3>2. QED  BY <1>1, <2>1, <2>3, <2>4, <3>1 DEF TypeOK
  <2>6. QED  BY <2>3, <2>4, <2>5 DEF IInv
<1>8. QED  BY <1>4, <1>5, <1>6, <1>7

-----------------------------------------------------------------------------
(* The inductive invariant.                                                 *)

LEMMA InitHolds == Init => IInv
<1> SUFFICES ASSUME Init  PROVE IInv  OBVIOUS
<1>1. /\ Sectors \in Nat /\ Sectors > 0 /\ Words \in Nat /\ Words > 0 /\ Many \in Nat /\ Many > 1
      /\ Full \in Nat /\ MaxCalls \in Nat
  BY DiskAssumption, AtaAssumption, Values
<1>2. /\ kind \in Kinds /\ slave = FALSE /\ status = {} /\ doing = "none" /\ at = 0 /\ todo = 0
      /\ reg = [r \in Registers |-> 0] /\ hob = [r \in Registers |-> 0]
  BY DEF Init, DiskInit
<1>3. /\ pc = "regs" /\ op = "identify" /\ unit = "master"
      /\ regs = Identification
      /\ lba = 0 /\ left = 0 /\ words = 0 /\ devices = <<>> /\ calls = 0 /\ nth = 1
      /\ began = "none" /\ sound = TRUE
  BY DEF Init, Identification
<1>4. /\ regs \in Seq((Registers \cup {"select", "command"}) \X Nat) /\ Len(regs) = 5
  <2> DEFINE S == (Registers \cup {"select", "command"}) \X Nat
  <2>1. /\ <<"select", 0>> \in S /\ <<"count", 0>> \in S /\ <<"lba", 0>> \in S
        /\ <<"upper", 0>> \in S /\ <<"command", 0>> \in S
    BY DEF Registers
  <2> HIDE DEF S
  <2>2. \A a, b, c, d, e \in S : <<a, b, c, d, e>> \in Seq(S) /\ Len(<<a, b, c, d, e>>) = 5
    OBVIOUS
  <2>3. QED  BY <1>3, <2>1, <2>2 DEF Identification, S
<1>5. TypeOK
  <2>1. DiskTypeOK
    <3>1. 0 \in 0 .. Full + Sectors  BY <1>1
    <3>2. reg \in [Registers -> 0 .. Full + Sectors] /\ hob \in [Registers -> 0 .. Full + Sectors]
      BY <1>2, <3>1
    <3>3. at \in 0 .. Nowhere /\ todo \in 0 .. Words  BY <1>1, <1>2 DEF Nowhere
    <3>4. QED  BY <1>2, <3>2, <3>3 DEF DiskTypeOK
  <2>2. Len(regs) \in 0 .. 8  BY <1>4
  <2>3. /\ lba \in 0 .. Sectors /\ left \in 0 .. Sectors /\ words \in 0 .. Words
        /\ calls \in 0 .. MaxCalls /\ nth \in 1 .. Sectors + 1
    BY <1>1, <1>3
  <2>4. QED  BY <1>3, <2>1, <2>2, <2>3 DEF TypeOK
<1>6. DriveInv
  <2>1. hob["count"] = 0  BY <1>2 DEF Registers
  <2>2. QED  BY <1>1, <1>2, <2>1 DEF DriveInv
<1>7. RangeInv  BY <1>1, <1>3 DEF RangeInv
<1>8. RegsInv  BY <1>3, <1>4 DEF RegsInv
<1>9. WordsInv  BY <1>2, <1>3 DEF WordsInv
<1>10. ProbeInv  BY <1>2, <1>3 DEF ProbeInv, OnPrimary
<1>11. ReadInv /\ WriteInv  BY <1>3 DEF ReadInv, WriteInv
<1>12. QED  BY <1>5, <1>6, <1>7, <1>8, <1>9, <1>10, <1>11 DEF IInv

LEMMA StutterPreserves == ASSUME IInv, UNCHANGED vars PROVE IInv'
<1>1. UNCHANGED <<diskVars, pc, regs, words, devices, requestVars>>  BY DEF vars
<1>2. TypeOK'  BY <1>1 DEF IInv, TypeOK, DiskTypeOK, diskVars, requestVars
<1>3. DriveInv' /\ RangeInv' /\ RegsInv'
  BY <1>1 DEF IInv, DriveInv, RangeInv, RegsInv, diskVars, requestVars
<1>4. WordsInv' /\ ProbeInv'
  BY <1>1 DEF IInv, WordsInv, ProbeInv, Present, OnPrimary, diskVars, requestVars
<1>5. ReadInv'
  BY <1>1 DEF IInv, ReadInv, Clean, OnPrimary, Reads, Taken, Names, NoUpper, diskVars, requestVars
<1>6. WriteInv'
  BY <1>1 DEF IInv, WriteInv, Clean, OnPrimary, WritesFirst, WritesNext, Taken, Names,
     NamesBefore, NamesAtMost, NoUpper, diskVars, requestVars
<1>7. QED  BY <1>2, <1>3, <1>4, <1>5, <1>6 DEF IInv

LEMMA StepPreserves == ASSUME IInv, [Next]_vars PROVE IInv'
<1>1. CASE Call  BY <1>1, CallPreserves
<1>2. CASE WritesRegister /\ OnPrimary  BY <1>2, RegisterPreserves
<1>3. CASE ReadsStatus \/ WaitsForNoError \/ WaitsForIdentity  BY <1>3, ProbeLooks
<1>4. CASE (PollsBusy \/ PollsReady) /\ OnPrimary  BY <1>4, PollPreserves
<1>5. CASE TransfersWord /\ OnPrimary  BY <1>5, TransferPreserves
<1>6. CASE Flushes /\ OnPrimary  BY <1>6, FlushPreserves
<1>7. CASE (WritesRegister \/ PollsBusy \/ PollsReady \/ TransfersWord \/ Flushes) /\ ~OnPrimary
  BY <1>7, SecondaryPreserves
<1>8. CASE DiskStep  BY <1>8, DiskPreserves
<1>9. CASE UNCHANGED vars  BY <1>9, StutterPreserves
<1>10. QED  BY <1>7, <1>1, <1>2, <1>3, <1>4, <1>5, <1>6, <1>8, <1>9 DEF Next, DriverStep

-----------------------------------------------------------------------------
(* What is proved of the disk driver.                                       *)

(***************************************************************************)
(* The inductive invariant holds in every state.                            *)
(***************************************************************************)
THEOREM Invariance == Spec => []IInv
BY InitHolds, StepPreserves, PTL DEF Spec

(***************************************************************************)
(* The variables of the driver and of the channel keep their types: sectors  *)
(* stay on the disk, the 48-bit count between 1 and Full, the words left     *)
(* between 0 and a sector's (ata.c:255-424).                                *)
(***************************************************************************)
THEOREM Typing == Spec => []TypeOK
<1>1. IInv => TypeOK  BY DEF IInv
<1>2. QED  BY <1>1, Invariance, PTL

(***************************************************************************)
(* Whatever the drives answer and however calls follow each other, words are  *)
(* moved on the primary bus only while its drive is ready, and as many as it  *)
(* has left of the sector (ata.c:225, 278-299, 351, 410).                    *)
(***************************************************************************)
THEOREM WhenReady == Spec => []MovesWhenReady
<1>1. IInv => MovesWhenReady  BY DEF IInv, WordsInv, MovesWhenReady
<1>2. QED  BY <1>1, Invariance, PTL

(***************************************************************************)
(* For any disk and any calls, a call for the primary bus that finds its disk *)
(* idle moves the sectors it asks for and no others, though a read's requests after the     *)
(* first are ignored (ata.c:336) and a write's are taken in part, after a    *)
(* flush that is not waited for (ata.c:423).                                *)
(***************************************************************************)
THEOREM AsAsked == Spec => []MovesAsAsked
<1>1. ASSUME IInv, pc = "words", op # "identify", Clean
      PROVE  doing = op /\ (at = lba \/ (op = "write" /\ nth > 1 /\ at = Nowhere))
  <2>1. /\ Present /\ "DRQ" \in status /\ ~slave  BY <1>1 DEF IInv, WordsInv, Present, Clean
  <2>2. doing \in {"identify", "read", "write"}  BY <1>1, <2>1 DEF IInv, DriveInv
  <2>3. CASE op = "read"
    <3>1. Reads  BY <1>1, <2>3 DEF IInv, ReadInv
    <3>2. QED  BY <2>1, <2>2, <2>3, <3>1 DEF Reads
  <2>4. CASE op = "write" /\ nth = 1
    <3>1. WritesFirst  BY <1>1, <2>4 DEF IInv, WriteInv
    <3>2. QED  BY <2>1, <2>2, <2>4, <3>1 DEF WritesFirst
  <2>5. CASE op = "write" /\ nth # 1
    <3>1. WritesNext(lba)  BY <1>1, <2>5 DEF IInv, WriteInv
    <3>2. nth > 1  BY <1>1, <2>5, DiskAssumption DEF IInv, TypeOK
    <3>3. doing = "write"  BY <2>2, <3>1 DEF WritesNext
    <3>4. at \in {lba, Nowhere}  BY <2>1, <3>1, <3>3 DEF WritesNext
    <3>5. QED  BY <2>5, <3>2, <3>3, <3>4
  <2>6. QED  BY <1>1, <2>3, <2>4, <2>5 DEF IInv, TypeOK
<1>2. IInv => MovesAsAsked  BY <1>1 DEF MovesAsAsked, Clean
<1>3. QED  BY <1>2, Invariance, PTL

(***************************************************************************)
(* Whatever answers the probe, it registers one device for a disk and none   *)
(* for anything else (ata.c:236-252, device.c:6-11).                        *)
(***************************************************************************)
THEOREM Registered == Spec => []RegistersDisk
<1>1. ASSUME IInv, pc = "idle"  PROVE Len(devices) = IF kind = "disk" THEN 1 ELSE 0
  <2>1. devices = IF kind = "disk" THEN <<"block">> ELSE <<>>  BY <1>1 DEF IInv, ProbeInv
  <2>2. QED  BY <2>1
<1>2. IInv => RegistersDisk  BY <1>1 DEF RegistersDisk
<1>3. QED  BY <1>2, Invariance, PTL

(***************************************************************************)
(* A read of the primary bus that finds its disk idle panics only for the    *)
(* undefined shifts: in no other way does it ask for a sector the disk does  *)
(* not have, however many sectors it is for and whatever calls, for either   *)
(* bus, came before it (ata.c:288-299, 338).  Of a read of the secondary bus *)
(* nothing is claimed: it panics when a drive there answers with an error.   *)
(***************************************************************************)
THEOREM OnlyJunkPanics == Spec => []PanicsOnJunk
<1>1. IInv => PanicsOnJunk  BY DEF IInv, ReadInv, Clean, PanicsOnJunk
<1>2. QED  BY <1>1, Invariance, PTL
===============================================================================
