----------------------------- MODULE Spi_proofs -----------------------------
(***************************************************************************)
(* The SLB bus implements SlbRegs for any number of cores, registers,      *)
(* calls, tries and timeouts, while the driver moves the pins of the SPI   *)
(* port over it.                                                           *)
(*                                                                         *)
(* The invariant says what the core with the lock may rely on: the         *)
(* controller holds its address and data, and data that are there when it  *)
(* polls are those of its register, as long as no late answer of another   *)
(* register has come to a core that waits (misled): after that the         *)
(* theorems on values claim nothing.  Nobody else writes registers         *)
(* meanwhile.                                                              *)
(*                                                                         *)
(* On top of that the driver keeps its promise to the chips.  Sending says *)
(* that only the chip of the job is selected, only within a frame, and     *)
(* that it has seen exactly the bits that were clocked; with CleanOK, what *)
(* a job without a failed read has got so far is what it is to return.     *)
(***************************************************************************)
EXTENDS SpiProps, TLAPS

Held == {"low", "readhigh", "writehigh", "address", "command", "poll", "fetch", "unlock"}

\* Types, as far as the steps rely on them.
Shape ==
  /\ pc \in [Core -> Location] /\ call \in [Core -> AllCalls \cup {Null}]
  /\ got = [c \in Core |-> got[c]] /\ mem = [a \in Addr |-> mem[a]]
  /\ cells \in [Cell -> [{1, 2} -> Nat]] /\ \A a \in Cell : cells[a][2] = 0
  /\ mem[FPGA_SPI_RW] \in Pins

\* Who has the lock, and which call may be where.
Locked == \A c \in Core : lock = c <=> pc[c] \in Held
LocatedAt(c) ==
  /\ pc[c] # "idle" => call[c] \in AllCalls
  /\ pc[c] = "low" => Local(c)
  /\ pc[c] \in {"address", "command"} => ~Local(c)
  /\ pc[c] \in {"poll", "fetch"} => call[c].op = "subc_read"
  /\ stage[c] # "applied" /\ pc[c] # "readhigh" => got[c] = Null
  /\ pc[c] = "readhigh" => call[c].op = "local_read" /\ got[c] = cells[call[c].addr][1]
  /\ pc[c] = "writehigh" =>
       /\ call[c].op = "local_write" /\ got[c] = Null
       /\ cells[call[c].addr][1] = LowByte(call[c].val)
Located == \A c \in Core : LocatedAt(c)

\* The controller works for the core that has the lock, unless it is late.
ServedAt(c) ==
  /\ pc[c] = "command" => address = call[c].addr
  /\ pc[c] = "command" /\ call[c].op = "subc_write" => wdata = call[c].val
  /\ pc[c] \in {"poll", "fetch"} /\ reading # Null => reading = call[c].addr
  /\ \A a \in Addr :
       /\ call[c].addr = a
       /\ pc[c] = "fetch" \/ (pc[c] = "poll" /\ rdata # Null)
       => rdata = Shown(a)
Served == \A c \in Core : ServedAt(c)

\* Where in which job the driver is.
JobOK ==
  /\ done \in Nat /\ spi.clean \in BOOLEAN
  /\ spi.phase # "none" =>
       /\ spi.job \in {Jobs[i] : i \in DOMAIN Jobs}
       /\ spi.frame \in 1 .. LastFrame /\ spi.bit \in 1 .. LastBit
       /\ spi.phase \in {"selectR", "selectW", "releaseR", "releaseW", "done"} => spi.bit = 1
       /\ spi.phase = "done" => spi.frame = LastFrame

\* What the driver does to the pins are pins.
Driving ==
  /\ JobOK
  /\ DOMAIN spi = DOMAIN NoJob
  /\ spi.phase \in Reading \cup Writing \cup {"none", "done"}
  /\ spi.reg \in Pins
  /\ pc[Driver] # "idle" => spi.phase \in Reading \cup Writing /\ call[Driver] = Access
  /\ pc[Driver] \in {"unlock", "return"} /\ call[Driver].op = "subc_read" =>
       got[Driver] \in Pins \cup {Failed}

Inv == Shape /\ Locked /\ Located /\ Served /\ Driving

-----------------------------------------------------------------------------
\* The assumptions on the calls of the cores.
LEMMA CallRules ==
  /\ Driver \in Core /\ FPGA_SPI_RW \in Addr
  /\ \A k \in Calls : k.addr = FPGA_SPI_RW => k.op = "subc_read"
  /\ \A k \in Calls :
       \/ k.op \in {"subc_read", "subc_write"} /\ k.addr \in Addr
       \/ k.op = "local_read" /\ k.addr \in Cell
       \/ k.op = "local_write" /\ k.addr \in Cell /\ k.val \in Nat /\ k.val < 256 * 256
<1>1. \A k \in Calls :
       \/ k.op \in {"subc_read", "subc_write"} /\ k.addr \in Addr
       \/ k.op = "local_read" /\ k.addr \in Cell
       \/ k.op = "local_write" /\ k.addr \in Cell /\ k.val \in Nat /\ k.val < 256 * 256
  BY SlbAssumption, Zenon
<1>2. Driver \in Core
  BY SpiAssumption, Zenon
<1>3. FPGA_SPI_RW \in Addr
  BY SpiAssumption, Zenon
<1>4. \A k \in Calls : k.addr = FPGA_SPI_RW => k.op = "subc_read"
  BY SpiAssumption, Zenon
<1> QED
  BY <1>1, <1>2, <1>3, <1>4, Zenon

\* The high byte of the board's registers is lost on its way.
LEMMA NoHighByte ==
  /\ \A b \in Nat : HighRead(b) = 0
  /\ \A v \in Nat : v < 256 * 256 => HighWritten(v) = 0
<1>1. \A b \in Nat : HighRead(b) = 0
  BY DEF HighRead
<1>2. ASSUME NEW v \in Nat, v < 256 * 256 PROVE HighWritten(v) = 0
  <2>1. v \div 256 \in Nat /\ v \div 256 < 256
    BY <1>2
  <2>2. PICK q \in Nat : q = v \div 256 /\ q < 256
    BY <2>1, Zenon
  <2>3. PICK n \in Nat : n = q * 256 /\ n < 65536
    BY <2>2
  <2>4. n \div 65536 = 0
    BY <2>3
  <2> QED
    BY <2>2, <2>3, <2>4 DEF HighWritten
<1> QED
  BY <1>1, <1>2

\* A low byte is the whole of a value that has no more.
LEMMA OnlyLowByte ==
  /\ \A v \in Nat : LowByte(v) \in Nat
  /\ \A v \in Nat : v < 256 => LowByte(v) = v
BY DEF LowByte

\* What a call of any core is about.
LEMMA CallKinds ==
  ASSUME NEW k \in AllCalls
  PROVE  /\ k.op \in {"subc_read", "subc_write", "local_read", "local_write"}
         /\ k.op \in {"subc_read", "subc_write"} => k.addr \in Addr
         /\ k.op \in {"local_read", "local_write"} => k.addr \in Cell
         /\ k.op = "subc_write" /\ k.addr = FPGA_SPI_RW => k.val \in Pins
         /\ k.op = "local_write" => k.val \in Nat /\ k.val < 256 * 256
<1>1. CASE k \in Calls
  BY <1>1, CallRules
<1>2. CASE k = [op |-> "subc_read", addr |-> FPGA_SPI_RW]
  BY <1>2, CallRules
<1>3. ASSUME NEW p \in Pins, k = [op |-> "subc_write", addr |-> FPGA_SPI_RW, val |-> p]
      PROVE  /\ k.op = "subc_write" /\ k.addr \in Addr /\ k.val \in Pins
  BY <1>3, CallRules
<1>4. k \in Calls \/ k = [op |-> "subc_read", addr |-> FPGA_SPI_RW]
        \/ \E p \in Pins : k = [op |-> "subc_write", addr |-> FPGA_SPI_RW, val |-> p]
  BY Zenon DEF AllCalls
<1> QED
  BY <1>1, <1>2, <1>3, <1>4

\* What the register of the pins shows are pins.
LEMMA ShownPins == mem[FPGA_SPI_RW] \in Pins => Shown(FPGA_SPI_RW) \in Pins
BY DEF Shown, Pins, Bit

\* A step that does not write to the pins changes nothing of what they show.
LEMMA PinsStay ==
  ASSUME mem'[FPGA_SPI_RW] = mem[FPGA_SPI_RW], ChipsFollow \/ UNCHANGED chips,
         mem[FPGA_SPI_RW] \in Pins
  PROVE  Shown(FPGA_SPI_RW)' = Shown(FPGA_SPI_RW)
<1>1. ASSUME NEW cs \in Cs, mem[FPGA_SPI_RW].ss[cs] = 0
      PROVE  chips'[cs] = chips[cs]
  BY <1>1 DEF ChipsFollow, React, Cs
<1>2. (\E cs \in Cs : mem[FPGA_SPI_RW].ss[cs] = 0 /\ Miso(chips[cs]) = 1)'
        <=> \E cs \in Cs : mem[FPGA_SPI_RW].ss[cs] = 0 /\ Miso(chips[cs]) = 1
  BY <1>1 DEF Miso
<1> QED
  BY <1>2 DEF Shown

\* A step that writes no register changes nothing of what registers show.
LEMMA ShownStays ==
  ASSUME UNCHANGED mem, ChipsFollow \/ UNCHANGED chips, mem[FPGA_SPI_RW] \in Pins
  PROVE  \A a : Shown(a)' = Shown(a)
<1>1. Shown(FPGA_SPI_RW)' = Shown(FPGA_SPI_RW)
  BY PinsStay
<1>2. ASSUME NEW a, a # FPGA_SPI_RW PROVE Shown(a)' = Shown(a)
  BY <1>2 DEF Shown
<1> QED
  BY <1>1, <1>2

\* The jobs are of their type.
JobType ==
  [fn : {"read", "write"}, cs : Cs, page : SpiByte,
   addr : SpiByte \ {PageReg, DataPort}, data : Seq(SpiByte) \ {<<>>}]

LEMMA JobRules ==
  /\ Width \in Nat \ {0}
  /\ \A i \in DOMAIN Jobs : Jobs[i] \in JobType
  /\ \A i \in Nat : i < Len(Jobs) => i + 1 \in DOMAIN Jobs
  /\ {ReadOp, WriteOp, PageReg, DataPort, Filler} \subseteq SpiByte
<1>1. Width \in Nat \ {0} /\ {ReadOp, WriteOp, PageReg, DataPort, Filler} \subseteq SpiByte
  BY SpiAssumption, Zenon
<1>2. Jobs \in Seq(JobType)
  BY SpiAssumption, Zenon DEF JobType
<1> QED
  BY <1>1, <1>2

\* The frames of a job.
LEMMA FramesAre ==
  ASSUME NEW j \in JobType
  PROVE  /\ j.fn = "write" =>
              /\ Len(Frames(j)) = 3
              /\ Frames(j)[3] = <<WriteOp, j.addr>> \o j.data
         /\ j.fn = "read" =>
              /\ Len(Frames(j)) = 4
              /\ Frames(j)[3] = <<ReadOp, j.addr>> \o [i \in 1 .. Len(j.data) |-> Filler]
              /\ Frames(j)[4] = <<ReadOp, DataPort>> \o [i \in 1 .. Len(j.data) |-> Filler]
         /\ Frames(j)[1] = <<ReadOp, PageReg, Filler>>
         /\ Frames(j)[2] = <<WriteOp, PageReg, j.page>>
<1>1. j.fn \in {"read", "write"}
  BY DEF JobType
<1>2. CASE j.fn = "write"
  <2>1. Frames(j) = << <<ReadOp, PageReg, Filler>>, <<WriteOp, PageReg, j.page>> >>
                      \o << <<WriteOp, j.addr>> \o j.data >>
    BY <1>2 DEF Frames
  <2> HIDE DEF JobType
  <2> QED
    BY <1>2, <2>1
<1>3. CASE j.fn = "read"
  <2> DEFINE fill == [i \in 1 .. Len(j.data) |-> Filler]
  <2>1. Frames(j) = << <<ReadOp, PageReg, Filler>>, <<WriteOp, PageReg, j.page>> >>
                      \o << <<ReadOp, j.addr>> \o fill, <<ReadOp, DataPort>> \o fill >>
    BY <1>3 DEF Frames
  <2> HIDE DEF fill, JobType
  <2>2. /\ Len(Frames(j)) = 4 /\ Frames(j)[1] = <<ReadOp, PageReg, Filler>>
        /\ Frames(j)[2] = <<WriteOp, PageReg, j.page>>
        /\ Frames(j)[3] = <<ReadOp, j.addr>> \o fill
        /\ Frames(j)[4] = <<ReadOp, DataPort>> \o fill
    BY <2>1
  <2> QED
    BY <1>3, <2>2 DEF fill
<1> QED
  BY <1>1, <1>2, <1>3

\* A sequence after two bytes.
LEMMA AfterTwo ==
  ASSUME NEW a, NEW b, NEW S, NEW s \in Seq(S)
  PROVE  /\ Len(<<a, b>> \o s) = Len(s) + 2
         /\ (<<a, b>> \o s)[1] = a /\ (<<a, b>> \o s)[2] = b
         /\ \A i \in 1 .. Len(s) : (<<a, b>> \o s)[i + 2] = s[i]
         /\ a \in S /\ b \in S => <<a, b>> \o s \in Seq(S)
OBVIOUS

\* They are sequences of at least three bytes.
LEMMA FramesBytes ==
  ASSUME NEW j \in JobType, NEW f \in 1 .. Len(Frames(j))
  PROVE  Frames(j)[f] \in Seq(SpiByte) /\ Len(Frames(j)[f]) \in Nat /\ Len(Frames(j)[f]) > 2
<1> DEFINE fill == [i \in 1 .. Len(j.data) |-> Filler]
<1>1. /\ j.fn \in {"read", "write"} /\ j.page \in SpiByte /\ j.addr \in SpiByte
      /\ j.data \in Seq(SpiByte) /\ Len(j.data) \in Nat \ {0}
  <2>1. j.data \in Seq(SpiByte) \ {<<>>}
    BY DEF JobType
  <2>2. Len(j.data) \in Nat \ {0}
    BY <2>1
  <2> QED
    BY <2>1, <2>2 DEF JobType
<1>2. /\ ReadOp \in SpiByte /\ WriteOp \in SpiByte /\ PageReg \in SpiByte
      /\ DataPort \in SpiByte /\ Filler \in SpiByte
  BY JobRules
<1>3. fill \in Seq(SpiByte) /\ Len(fill) = Len(j.data)
  BY <1>1, <1>2
<1> HIDE DEF fill
<1>4. ASSUME NEW a \in SpiByte, NEW b \in SpiByte, NEW c \in SpiByte
      PROVE  <<a, b, c>> \in Seq(SpiByte) /\ Len(<<a, b, c>>) = 3
  BY <1>4
<1>5. ASSUME NEW a \in SpiByte, NEW b \in SpiByte, NEW s \in Seq(SpiByte), Len(s) \in Nat \ {0}
      PROVE  <<a, b>> \o s \in Seq(SpiByte) /\ Len(<<a, b>> \o s) > 2
                /\ Len(<<a, b>> \o s) \in Nat
  BY <1>5
<1>6. CASE j.fn = "write"
  <2>1. f \in 1 .. 3
    BY <1>6, FramesAre
  <2>2. CASE f = 1
    <3>1. Frames(j)[f] = <<ReadOp, PageReg, Filler>>
      BY <2>2, FramesAre
    <3> QED
      BY <1>1, <1>2, <1>4, <3>1
  <2>3. CASE f = 2
    <3>1. Frames(j)[f] = <<WriteOp, PageReg, j.page>>
      BY <2>3, FramesAre
    <3> QED
      BY <1>1, <1>2, <1>4, <3>1
  <2>4. CASE f = 3
    <3>1. Frames(j)[f] = <<WriteOp, j.addr>> \o j.data
      BY <1>6, <2>4, FramesAre
    <3> QED
      BY <1>1, <1>2, <1>5, <3>1
  <2> QED
    BY <2>1, <2>2, <2>3, <2>4
<1>7. CASE j.fn = "read"
  <2>1. f \in 1 .. 4
    BY <1>7, FramesAre
  <2>2. CASE f = 1
    <3>1. Frames(j)[f] = <<ReadOp, PageReg, Filler>>
      BY <2>2, FramesAre
    <3> QED
      BY <1>1, <1>2, <1>4, <3>1
  <2>3. CASE f = 2
    <3>1. Frames(j)[f] = <<WriteOp, PageReg, j.page>>
      BY <2>3, FramesAre
    <3> QED
      BY <1>1, <1>2, <1>4, <3>1
  <2>4. CASE f = 3
    <3>1. Frames(j)[f] = <<ReadOp, j.addr>> \o fill
      BY <1>7, <2>4, FramesAre DEF fill
    <3> QED
      BY <1>1, <1>2, <1>3, <1>5, <3>1
  <2>5. CASE f = 4
    <3>1. Frames(j)[f] = <<ReadOp, DataPort>> \o fill
      BY <1>7, <2>5, FramesAre DEF fill
    <3> QED
      BY <1>1, <1>2, <1>3, <1>5, <3>1
  <2> QED
    BY <2>1, <2>2, <2>3, <2>4, <2>5
<1> QED
  BY <1>1, <1>6, <1>7

\* Where bit k of a sequence of n bytes is.
LEMMA BitPlace ==
  ASSUME NEW n \in Nat, NEW k \in 1 .. Width * n
  PROVE  /\ ((k - 1) \div Width) + 1 \in 1 .. n /\ (k - 1) \div Width \in Nat
         /\ ((k - 1) % Width) + 1 \in 1 .. Width /\ (k - 1) % Width \in Nat
BY JobRules

\* What is in a sequence of bytes at bit k is a bit.
LEMMA BitIsBit ==
  ASSUME NEW s \in Seq(SpiByte), NEW k \in 1 .. Width * Len(s)
  PROVE  s[((k - 1) \div Width) + 1][((k - 1) % Width) + 1] \in Bit
<1>1. Len(s) \in Nat
  OBVIOUS
<1>2. /\ ((k - 1) \div Width) + 1 \in 1 .. Len(s)
      /\ ((k - 1) % Width) + 1 \in 1 .. Width
  BY <1>1, BitPlace
<1>3. s[((k - 1) \div Width) + 1] \in SpiByte
  BY <1>2
<1> QED
  BY <1>2, <1>3 DEF SpiByte

\* While the driver is in a job, the frame and the bit to send next are there.
LEMMA InJob ==
  ASSUME JobOK, spi.phase # "none"
  PROVE  /\ spi.job \in JobType /\ Frame \in Seq(SpiByte)
         /\ Len(Frame) \in Nat /\ Len(Frame) > 2
         /\ LastBit \in Nat /\ LastBit > 2 * Width /\ LastFrame \in {3, 4}
         /\ OutBit \in Bit
<1>1. spi.job \in JobType /\ spi.frame \in 1 .. LastFrame /\ spi.bit \in 1 .. LastBit
  BY JobRules DEF JobOK
<1>2. Frame \in Seq(SpiByte) /\ Len(Frame) \in Nat /\ Len(Frame) > 2
  BY <1>1, FramesBytes DEF Frame, LastFrame
<1>3. OutBit \in Bit
  BY <1>1, <1>2, BitIsBit DEF OutBit, LastBit
<1>4. LastFrame \in {3, 4}
  <2>1. spi.job.fn \in {"read", "write"}
    BY <1>1 DEF JobType
  <2> QED
    BY <1>1, <2>1, FramesAre DEF LastFrame
<1>5. LastBit \in Nat /\ LastBit > 2 * Width
  BY <1>2, JobRules DEF LastBit
<1> QED
  BY <1>1, <1>2, <1>3, <1>4, <1>5

\* The driver's access depends on the driver only.
LEMMA AccessSame == UNCHANGED spi => Access' = Access
BY DEF Access, Driven, Select, Deselect, PutBit, OutBit, Frame, Frames

\* So does where it is.
LEMMA JobStays == JobOK /\ UNCHANGED <<spi, done>> => JobOK'
BY DEF JobOK, LastFrame, LastBit, Frame, Frames

\* What it writes are pins.
LEMMA DrivenPins ==
  ASSUME JobOK, spi.reg \in Pins, spi.phase \in Writing
  PROVE  Driven[spi.phase] \in Pins
<1>1. OutBit \in Bit
  BY InJob DEF Writing
<1>2. Select(spi.reg) \in Pins /\ Deselect(spi.reg) \in Pins
  BY DEF Select, Deselect, Pins, Bit
<1>3. PutBit(spi.reg) \in Pins
  BY <1>1 DEF PutBit, Pins
<1>4. [spi.reg EXCEPT !.sck = 0] \in Pins /\ [spi.reg EXCEPT !.sck = 1] \in Pins
  BY DEF Pins, Bit
<1> QED
  BY <1>2, <1>3, <1>4 DEF Driven, Writing

\* Where a core is in a call, as its location tells.
StageAt(l) ==
  IF l = "idle" THEN "idle"
  ELSE IF l \in {"writehigh", "unlock", "return"} THEN "applied" ELSE "called"

\* A core that moves is at the stage of its new location, the others stay.
LEMMA StageMoves ==
  /\ \A c \in Core : stage[c] = StageAt(pc[c])
  /\ \A c \in Core, l \in Location :
       pc \in [Core -> Location] /\ pc' = [pc EXCEPT ![c] = l] =>
         stage' = [stage EXCEPT ![c] = StageAt(l)]
BY DEF stage, StageAt

\* What the registers see of a core's answer.
LEMMA AnswerMoves ==
  ASSUME NEW c \in Core,
         \A d \in Core \ {c} : stage'[d] = stage[d] /\ got'[d] = got[d]
  PROVE  answer' = [answer EXCEPT ![c] = IF stage'[c] = "applied" THEN got'[c] ELSE Null]
BY DEF answer

\* The cores that are between their two stores stay there.
WritersStay ==
  \A d \in Core :
    /\ pc'[d] = "writehigh" <=> pc[d] = "writehigh"
    /\ pc[d] = "writehigh" => call'[d] = call[d]

\* Then the board's registers are what they were.
LEMMA BoardStays ==
  ASSUME UNCHANGED cells, WritersStay
  PROVE  \A a : Board(a)' = Board(a)
<1> SUFFICES ASSUME NEW a PROVE Board(a)' = Board(a)
  OBVIOUS
<1>1. Writers(a)' = Writers(a)
  BY DEF WritersStay, Writers
<1>2. CASE Writers(a) = {}
  BY <1>1, <1>2 DEF Board
<1>3. CASE Writers(a) # {}
  <2>1. PICK w \in Writers(a) : w = CHOOSE d \in Writers(a) : TRUE
    BY <1>3
  <2>2. w = (CHOOSE d \in Writers(a) : TRUE)'
    BY <1>1, <2>1
  <2>3. call'[w] = call[w]
    BY <2>1 DEF WritersStay, Writers
  <2>4. Board(a) = call[w].val
    BY <1>3, <2>1 DEF Board
  <2>5. Board(a)' = call'[w].val
    BY <1>1, <1>3, <2>2 DEF Board
  <2> QED
    BY <2>3, <2>4, <2>5
<1> QED
  BY <1>2, <1>3

\* What a step may do that the registers do not see.
LEMMA Unseen ==
  ASSUME stage' = stage, UNCHANGED <<call, got, cells>>, WritersStay,
         \A x : Shown(x)' = Shown(x)
  PROVE  UNCHANGED Registers!vars
<1>1. answer' = answer
  BY DEF answer
<1>2. \A a : Board(a)' = Board(a)
  BY BoardStays
<1> QED
  BY <1>1, <1>2 DEF Registers!vars

\* While a core that is not between its stores has the lock, nobody is.
CellsSeen ==
  \A c \in Core : Shape /\ Locked /\ lock = c /\ pc[c] # "writehigh" =>
    \A a \in Cell : Board(a) = cells[a][1]

LEMMA NoWriters == CellsSeen
<1> SUFFICES ASSUME Shape, Locked, NEW c \in Core, lock = c, pc[c] # "writehigh"
             PROVE  \A a \in Cell : Board(a) = cells[a][1]
  BY DEF CellsSeen
<1>1. \A d \in Core : pc[d] # "writehigh"
  BY DEF Locked, Held
<1>2. ASSUME NEW a \in Cell PROVE Board(a) = cells[a][1]
  <2>1. Writers(a) = {}
    BY <1>1 DEF Writers
  <2>2. cells[a][1] \in Nat /\ cells[a][2] = 0
    BY DEF Shape
  <2>3. cells[a][1] + 256 * cells[a][2] = cells[a][1]
    BY <2>2
  <2> QED
    BY <2>1, <2>3 DEF Board
<1> QED
  BY <1>2

\* While one is, the register it writes has its value.
WriteSeen ==
  \A c \in Core : Shape /\ Locked /\ pc[c] = "writehigh" =>
    \A a \in Cell : Board(a) = IF call[c].addr = a THEN call[c].val ELSE cells[a][1]

LEMMA OneWriter == WriteSeen
<1> SUFFICES ASSUME Shape, Locked, NEW c \in Core, pc[c] = "writehigh"
             PROVE  \A a \in Cell :
                      Board(a) = IF call[c].addr = a THEN call[c].val ELSE cells[a][1]
  BY DEF WriteSeen
<1>1. \A d \in Core \ {c} : pc[d] # "writehigh"
  BY DEF Locked, Held
<1>2. ASSUME NEW a \in Cell, call[c].addr = a PROVE Board(a) = call[c].val
  <2>1. Writers(a) = {c}
    BY <1>1, <1>2 DEF Writers
  <2>2. (CHOOSE d \in {c} : TRUE) = c
    OBVIOUS
  <2> QED
    BY <2>1, <2>2 DEF Board
<1>3. ASSUME NEW a \in Cell, call[c].addr # a PROVE Board(a) = cells[a][1]
  <2>1. Writers(a) = {}
    BY <1>1, <1>3 DEF Writers
  <2>2. cells[a][1] \in Nat /\ cells[a][2] = 0
    BY DEF Shape
  <2>3. cells[a][1] + 256 * cells[a][2] = cells[a][1]
    BY <2>2
  <2> QED
    BY <2>1, <2>3 DEF Board
<1> QED
  BY <1>2, <1>3

\* A step of core c leaves alone what the others know: only the core that has the
\* lock touches the controller and writes registers.
LEMMA OthersKeep ==
  ASSUME Inv, NEW c \in Core,
         \A d \in Core \ {c} : pc'[d] = pc[d] /\ call'[d] = call[d] /\ got'[d] = got[d],
         lock' = c <=> pc'[c] \in Held,
         \A d \in Core \ {c} : lock' = d <=> lock = d,
         lock = c \/ (UNCHANGED <<control, cells>> /\ \A a \in Addr : Shown(a)' = Shown(a)),
         LocatedAt(c)', ServedAt(c)'
  PROVE  Locked' /\ Located' /\ Served'
<1> USE DEF Inv
<1>1. Locked'
  BY DEF Locked
<1>2. Located'
  <2>1. ASSUME NEW d \in Core \ {c} PROVE LocatedAt(d)'
    <3>1. LocatedAt(d) /\ stage'[d] = stage[d]
      BY DEF Located, stage
    <3>2. pc[d] \in {"readhigh", "writehigh"} => UNCHANGED cells
      BY DEF Locked, Held
    <3> QED
      BY <3>1, <3>2 DEF LocatedAt, Local
  <2> QED
    BY <2>1 DEF Located
<1>3. Served'
  <2>1. ASSUME NEW d \in Core \ {c} PROVE ServedAt(d)'
    <3>1. CASE lock = c
      BY <3>1 DEF Locked, Held, ServedAt
    <3>2. CASE UNCHANGED control /\ \A a \in Addr : Shown(a)' = Shown(a)
      BY <3>2 DEF Served, ServedAt, control
    <3> QED
      BY <3>1, <3>2
  <2> QED
    BY <2>1 DEF Served
<1> QED
  BY <1>1, <1>2, <1>3

\* A step inside a call is a step of the driver's access or none of its business.
LEMMA DriverFrame ==
  ASSUME Inv, NEW c \in Core, UNCHANGED <<spi, done>>,
         \A d \in Core \ {c} : pc'[d] = pc[d] /\ call'[d] = call[d] /\ got'[d] = got[d],
         \/ c # Driver
         \/ /\ pc[c] # "idle" /\ call'[c] = call[c]
            /\ pc'[c] \in {"unlock", "return"} /\ call[c].op = "subc_read" =>
                 got'[c] \in Pins \cup {Failed}
  PROVE  Driving'
<1>1. Access' = Access
  BY AccessSame
<1>2. Driver \in Core
  BY CallRules
<1>3. JobOK'
  BY JobStays DEF Inv, Driving
<1>4. CASE c # Driver
  BY <1>1, <1>2, <1>3, <1>4 DEF Inv, Driving, NoJob
<1>5. CASE c = Driver
  BY <1>1, <1>2, <1>3, <1>5 DEF Inv, Driving, NoJob
<1> QED
  BY <1>4, <1>5

\* The initial states.
LEMMA InitInv == Init => Inv
<1> SUFFICES ASSUME Init PROVE Inv
  OBVIOUS
<1>1. AllOnes \in Pins
  BY DEF AllOnes, Pins, Bit
<1>2. FPGA_SPI_RW \in Addr /\ Driver \in Core
  BY CallRules
<1>3. Shape
  <2>1. cells \in [Cell -> [{1, 2} -> Nat]] /\ \A a \in Cell : cells[a][2] = 0
    BY DEF Init, SlbInit
  <2> QED
    BY <1>1, <1>2, <2>1 DEF Init, SlbInit, Shape, Location
<1>4. \A c \in Core : lock # c
  BY SlbAssumption DEF Init, SlbInit
<1>5. Locked /\ Located /\ Served
  BY <1>4 DEF Init, SlbInit, Locked, Held, Located, LocatedAt, Served, ServedAt, stage
<1>6. Driving
  BY <1>1, <1>2 DEF Init, SlbInit, Driving, JobOK, NoJob
<1> QED
  BY <1>3, <1>5, <1>6 DEF Inv

\* They are initial states of the registers.
LEMMA InitMaps == Init => Registers!Init
BY DEF Init, SlbInit, Registers!Init, stage, answer

-----------------------------------------------------------------------------
(* The steps of a core on the bus.                                         *)

\* A core takes the lock.
LEMMA LockMaps ==
  ASSUME Inv, NEW c \in Core, LockStep(c)
  PROVE  Inv' /\ UNCHANGED Registers!vars
<1> DEFINE l == IF Local(c) THEN "low" ELSE "address"
<1>1. /\ pc[c] = "lock" /\ lock = Null /\ lock' = c /\ pc' = [pc EXCEPT ![c] = l]
      /\ UNCHANGED <<call, got, control, mem, cells, spi, done>> /\ ChipsFollow
  BY DEF LockStep, Lock, Goto, ChipsFollow
<1>2. l \in Location /\ l \in {"low", "address"}
  BY DEF Location
<1>3. pc' \in [Core -> Location] /\ pc'[c] = l /\ \A d \in Core \ {c} : pc'[d] = pc[d]
  BY <1>1, <1>2 DEF Inv, Shape
<1>4. \A a : Shown(a)' = Shown(a)
  BY <1>1, ShownStays DEF Inv, Shape
<1>5. stage' = stage /\ stage[c] = "called"
  BY <1>1, <1>2, <1>3, StageMoves DEF Inv, Shape, StageAt, stage
<1>6. Shape'
  BY <1>1, <1>3 DEF Inv, Shape
<1>7. LocatedAt(c)' /\ ServedAt(c)'
  BY <1>1, <1>3, <1>5 DEF Inv, Located, LocatedAt, ServedAt, Local
<1>8. Locked' /\ Located' /\ Served'
  <2>1. lock' = c <=> pc'[c] \in Held
    BY <1>1, <1>2, <1>3 DEF Held
  <2>2. \A d \in Core \ {c} : lock' = d <=> lock = d
    BY <1>1, SlbAssumption
  <2> QED
    BY <1>1, <1>3, <1>4, <1>7, <2>1, <2>2, OthersKeep
<1>9. Driving'
  BY <1>1, <1>2, <1>3, DriverFrame
<1>10. UNCHANGED Registers!vars
  <2>1. WritersStay
    BY <1>1, <1>2, <1>3 DEF WritersStay
  <2> QED
    BY <1>1, <1>4, <1>5, <2>1, Unseen
<1> QED
  BY <1>6, <1>8, <1>9, <1>10 DEF Inv

\* A core gives it back.
LEMMA UnlockMaps ==
  ASSUME Inv, NEW c \in Core, Unlock(c), ChipsFollow
  PROVE  Inv' /\ UNCHANGED Registers!vars
<1>1. /\ pc[c] = "unlock" /\ lock' = Null /\ pc' = [pc EXCEPT ![c] = "return"]
      /\ UNCHANGED <<call, got, control, mem, cells, spi, done>>
  BY DEF Unlock, Goto, ChipsFollow
<1>2. /\ pc' \in [Core -> Location] /\ pc'[c] = "return"
      /\ \A d \in Core \ {c} : pc'[d] = pc[d]
  BY <1>1 DEF Inv, Shape, Location
<1>3. \A a : Shown(a)' = Shown(a)
  BY <1>1, ShownStays DEF Inv, Shape
<1>4. stage' = stage /\ stage'[c] = "applied"
  BY <1>1, <1>2, StageMoves DEF Inv, Shape, StageAt, stage
<1>5. Shape'
  BY <1>1, <1>2 DEF Inv, Shape
<1>6. LocatedAt(c)' /\ ServedAt(c)'
  BY <1>1, <1>2, <1>4 DEF Inv, Located, LocatedAt, ServedAt
<1>7. Locked' /\ Located' /\ Served'
  <2>1. lock = c
    BY <1>1 DEF Inv, Locked, Held
  <2>2. lock' = c <=> pc'[c] \in Held
    BY <1>1, <1>2, SlbAssumption DEF Held
  <2>3. \A d \in Core \ {c} : lock' = d <=> lock = d
    BY <1>1, <2>1, SlbAssumption
  <2> QED
    BY <1>1, <1>2, <1>6, <2>1, <2>2, <2>3, OthersKeep
<1>8. Driving'
  <2>1. c = Driver /\ call[c].op = "subc_read" => got[c] \in Pins \cup {Failed}
    BY <1>1 DEF Inv, Driving
  <2> QED
    BY <1>1, <1>2, <2>1, DriverFrame
<1>9. UNCHANGED Registers!vars
  <2>1. WritersStay
    BY <1>1, <1>2 DEF WritersStay
  <2> QED
    BY <1>1, <1>3, <1>4, <2>1, Unseen
<1> QED
  BY <1>5, <1>7, <1>8, <1>9 DEF Inv

\* The low byte of one of the board's registers: there a write has its effect.
LEMMA LocalLowMaps ==
  ASSUME Inv, NEW c \in Core, LocalLow(c), ChipsFollow
  PROVE  Inv' /\ [Registers!Next]_(Registers!vars)
<1> DEFINE a == call[c].addr
           l == IF call[c].op = "local_read" THEN "readhigh" ELSE "writehigh"
<1>1. /\ pc[c] = "low" /\ pc' = [pc EXCEPT ![c] = l]
      /\ UNCHANGED <<lock, call, control, mem, spi, done>>
  BY DEF LocalLow, Goto, ChipsFollow
<1>2. /\ pc' \in [Core -> Location] /\ pc'[c] = l
      /\ \A d \in Core \ {c} : pc'[d] = pc[d]
  BY <1>1 DEF Inv, Shape, Location
<1>3. \A x : Shown(x)' = Shown(x)
  BY <1>1, ShownStays DEF Inv, Shape
<1>4. stage[c] = "called"
  BY <1>1, StageMoves DEF StageAt
<1>5. lock = c /\ call[c] \in AllCalls /\ Local(c) /\ got[c] = Null
  BY <1>1, <1>4 DEF Inv, Locked, Held, Located, LocatedAt
<1>6. a \in Cell /\ (call[c].op = "local_write" => call[c].val \in Nat)
  BY <1>5, CallKinds DEF Local
<1>7. /\ \A x \in Cell : cells[x] \in [{1, 2} -> Nat] /\ cells[x][2] = 0
      /\ \A x \in Cell : Board(x) = cells[x][1]
  BY <1>1, <1>5, NoWriters DEF CellsSeen, Inv, Shape
<1>8. CASE call[c].op = "local_read"
  <2>1. got' = [got EXCEPT ![c] = cells[a][1]] /\ UNCHANGED cells
    BY <1>8 DEF LocalLow
  <2>2. got' = [d \in Core |-> got'[d]] /\ got'[c] = cells[a][1]
    BY <2>1 DEF Inv, Shape
  <2>3. Shape'
    BY <1>1, <1>2, <2>1, <2>2 DEF Inv, Shape
  <2>4. stage' = stage
    BY <1>1, <1>2, <1>4, <1>8, StageMoves DEF Inv, Shape, StageAt, stage, Location
  <2>5. LocatedAt(c)' /\ ServedAt(c)'
    BY <1>1, <1>2, <1>5, <1>8, <2>1, <2>2 DEF LocatedAt, ServedAt, Local
  <2>6. Locked' /\ Located' /\ Served'
    <3>1. \A d \in Core \ {c} : got'[d] = got[d]
      BY <2>1
    <3>2. lock' = c <=> pc'[c] \in Held
      BY <1>1, <1>2, <1>5, <1>8 DEF Held
    <3> QED
      BY <1>1, <1>2, <1>5, <2>5, <3>1, <3>2, OthersKeep
  <2>7. Driving'
    BY <1>1, <1>2, <1>8, <2>1, DriverFrame
  <2>8. UNCHANGED Registers!vars
    <3>1. answer' = answer
      BY <1>4, <2>1, <2>4 DEF answer
    <3>2. WritersStay
      BY <1>1, <1>2, <1>8 DEF WritersStay
    <3>3. \A x : Board(x)' = Board(x)
      BY <2>1, <3>2, BoardStays
    <3> QED
      BY <1>1, <1>3, <2>4, <3>1, <3>3 DEF Registers!vars
  <2> QED
    BY <2>3, <2>6, <2>7, <2>8 DEF Inv
<1>9. CASE call[c].op # "local_read"
  <2>1. call[c].op = "local_write" /\ l = "writehigh"
    BY <1>5, <1>9 DEF Local
  <2>2. cells' = [cells EXCEPT ![a][1] = LowByte(call[c].val)] /\ UNCHANGED got
    BY <1>9 DEF LocalLow
  <2>3. LowByte(call[c].val) \in Nat
    BY <1>6, <2>1, OnlyLowByte
  <2>4. /\ cells' \in [Cell -> [{1, 2} -> Nat]] /\ \A x \in Cell : cells'[x][2] = 0
        /\ cells'[a][1] = LowByte(call[c].val)
        /\ \A x \in Cell \ {a} : cells'[x] = cells[x]
    BY <1>6, <1>7, <2>2, <2>3 DEF Inv, Shape
  <2>5. Shape'
    BY <1>1, <1>2, <2>2, <2>4 DEF Inv, Shape
  <2>6. LocatedAt(c)' /\ ServedAt(c)'
    BY <1>1, <1>2, <1>5, <2>1, <2>2, <2>4 DEF LocatedAt, ServedAt, Local
  <2>7. Locked' /\ Located' /\ Served'
    <3>1. lock' = c <=> pc'[c] \in Held
      BY <1>1, <1>2, <1>5, <2>1 DEF Held
    <3> QED
      BY <1>1, <1>2, <1>5, <2>2, <2>6, <3>1, OthersKeep
  <2>8. Driving'
    BY <1>1, <1>2, <2>1, <2>2, DriverFrame
  <2>9. \A x \in Cell : Board(x)' = IF x = a THEN call[c].val ELSE Board(x)
    <3>1. pc'[c] = "writehigh"
      BY <1>2, <2>1
    <3>2. WriteSeen'
      BY OneWriter, PTL
    <3>3. \A x \in Cell :
            Board(x)' = IF call'[c].addr = x THEN call'[c].val ELSE cells'[x][1]
      BY <2>5, <2>7, <3>1, <3>2 DEF WriteSeen
    <3> QED
      BY <1>1, <1>7, <2>4, <3>3
  <2>10. stage' = [stage EXCEPT ![c] = "applied"]
    BY <1>1, <2>1, StageMoves DEF Inv, Shape, StageAt, Location
  <2>11. answer' = [answer EXCEPT ![c] = Null]
    BY <1>2, <1>5, <2>2, AnswerMoves DEF stage
  <2>12. [x \in Cell |-> Board(x)]' = [[x \in Cell |-> Board(x)] EXCEPT ![a] = call[c].val]
    BY <1>6, <2>9
  <2>13. Registers!LocalWrite(c)
    BY <1>1, <1>3, <1>4, <2>1, <2>10, <2>11, <2>12 DEF Registers!LocalWrite, Registers!Apply
  <2> QED
    BY <2>5, <2>7, <2>8, <2>13 DEF Inv, Registers!Next
<1> QED
  BY <1>8, <1>9

\* The high byte adds nothing to what was read: there a read has its effect.
LEMMA ReadHighMaps ==
  ASSUME Inv, NEW c \in Core, ReadHigh(c), ChipsFollow
  PROVE  Inv' /\ Registers!Next
<1> DEFINE a == call[c].addr
<1>1. /\ pc[c] = "readhigh" /\ pc' = [pc EXCEPT ![c] = "unlock"]
      /\ got' = [got EXCEPT ![c] = got[c] + HighRead(cells[a][2])]
      /\ UNCHANGED <<lock, call, control, mem, cells, spi, done>>
  BY DEF ReadHigh, Goto, ChipsFollow
<1>2. /\ pc' \in [Core -> Location] /\ pc'[c] = "unlock"
      /\ \A d \in Core \ {c} : pc'[d] = pc[d]
  BY <1>1 DEF Inv, Shape, Location
<1>3. \A x : Shown(x)' = Shown(x)
  BY <1>1, ShownStays DEF Inv, Shape
<1>4. stage' = [stage EXCEPT ![c] = "applied"] /\ stage[c] = "called"
  BY <1>1, StageMoves DEF Inv, Shape, StageAt, Location
<1>5. /\ lock = c /\ call[c] \in AllCalls /\ call[c].op = "local_read"
      /\ got[c] = cells[a][1]
  BY <1>1 DEF Inv, Locked, Held, Located, LocatedAt
<1>6. a \in Cell
  BY <1>5, CallKinds
<1>7. cells[a] \in [{1, 2} -> Nat] /\ cells[a][2] = 0 /\ Board(a) = cells[a][1]
  BY <1>1, <1>5, <1>6, NoWriters DEF CellsSeen, Inv, Shape
<1>8. got' = [got EXCEPT ![c] = Board(a)]
  <2>1. cells[a][1] \in Nat /\ HighRead(cells[a][2]) = 0
    BY <1>7, NoHighByte
  <2>2. got[c] + HighRead(cells[a][2]) = Board(a)
    BY <1>5, <1>7, <2>1
  <2> QED
    BY <1>1, <2>2
<1>9. /\ got' = [d \in Core |-> got'[d]] /\ got'[c] = Board(a)
      /\ \A d \in Core \ {c} : got'[d] = got[d]
  BY <1>8 DEF Inv, Shape
<1>10. Shape'
  BY <1>1, <1>2, <1>9 DEF Inv, Shape
<1>11. LocatedAt(c)' /\ ServedAt(c)'
  <2>1. stage'[c] = "applied"
    BY <1>2 DEF stage
  <2> QED
    BY <1>1, <1>2, <1>5, <2>1 DEF LocatedAt, ServedAt
<1>12. Locked' /\ Located' /\ Served'
  <2>1. lock' = c <=> pc'[c] \in Held
    BY <1>1, <1>2, <1>5 DEF Held
  <2> QED
    BY <1>1, <1>2, <1>5, <1>9, <1>11, <2>1, OthersKeep
<1>13. Driving'
  BY <1>1, <1>2, <1>5, <1>9, DriverFrame
<1>14. Registers!LocalRead(c)
  <2>1. answer' = [answer EXCEPT ![c] = Board(a)]
    BY <1>2, <1>9, AnswerMoves DEF stage
  <2>2. WritersStay
    BY <1>1, <1>2 DEF WritersStay
  <2>3. \A x : Board(x)' = Board(x)
    BY <1>1, <2>2, BoardStays
  <2>4. Board(a) = [x \in Cell |-> Board(x)][a]
    BY <1>6
  <2> QED
    BY <1>1, <1>3, <1>4, <1>5, <2>1, <2>3, <2>4 DEF Registers!LocalRead, Registers!Apply
<1> QED
  BY <1>10, <1>12, <1>13, <1>14 DEF Inv, Registers!Next

\* The high byte is lost: nothing of it is written, and nothing is missing if there was
\* none.
LEMMA WriteHighMaps ==
  ASSUME Inv, NEW c \in Core, WriteHigh(c), ChipsFollow
  PROVE  Inv' /\ (LowBytes => UNCHANGED Registers!vars)
<1> DEFINE a == call[c].addr
<1>1. /\ pc[c] = "writehigh" /\ pc' = [pc EXCEPT ![c] = "unlock"]
      /\ cells' = [cells EXCEPT ![a][2] = HighWritten(call[c].val)]
      /\ UNCHANGED <<lock, call, got, control, mem, spi, done>>
  BY DEF WriteHigh, Goto, ChipsFollow
<1>2. /\ pc' \in [Core -> Location] /\ pc'[c] = "unlock"
      /\ \A d \in Core \ {c} : pc'[d] = pc[d]
  BY <1>1 DEF Inv, Shape, Location
<1>3. \A x : Shown(x)' = Shown(x)
  BY <1>1, ShownStays DEF Inv, Shape
<1>4. stage' = stage /\ stage'[c] = "applied"
  BY <1>1, <1>2, StageMoves DEF Inv, Shape, StageAt, stage
<1>5. /\ lock = c /\ call[c] \in AllCalls /\ call[c].op = "local_write" /\ got[c] = Null
      /\ cells[a][1] = LowByte(call[c].val)
  BY <1>1 DEF Inv, Locked, Held, Located, LocatedAt
<1>6. a \in Cell /\ call[c].val \in Nat /\ call[c].val < 256 * 256
  BY <1>5, CallKinds
<1>7. UNCHANGED cells
  <2>1. cells \in [Cell -> [{1, 2} -> Nat]] /\ cells[a][2] = 0
    BY <1>6 DEF Inv, Shape
  <2>2. HighWritten(call[c].val) = 0
    BY <1>6, NoHighByte
  <2> QED
    BY <1>1, <2>1, <2>2
<1>8. Shape'
  BY <1>1, <1>2, <1>7 DEF Inv, Shape
<1>9. LocatedAt(c)' /\ ServedAt(c)'
  BY <1>1, <1>2, <1>4, <1>5 DEF LocatedAt, ServedAt
<1>10. Locked' /\ Located' /\ Served'
  <2>1. lock' = c <=> pc'[c] \in Held
    BY <1>1, <1>2, <1>5 DEF Held
  <2> QED
    BY <1>1, <1>2, <1>5, <1>9, <2>1, OthersKeep
<1>11. Driving'
  BY <1>1, <1>2, <1>5, DriverFrame
<1>12. ASSUME LowBytes PROVE UNCHANGED Registers!vars
  <2>1. call[c].val < 256
    <3>1. call[c] \in Calls
      BY <1>5 DEF AllCalls
    <3> QED
      BY <1>5, <1>12, <3>1 DEF LowBytes
  <2>2. cells[a][1] = call[c].val
    BY <1>5, <1>6, <2>1, OnlyLowByte
  <2>3. \A x \in Cell : Board(x) = cells[x][1]
    BY <1>1, <2>2, OneWriter DEF WriteSeen, Inv
  <2>4. (\A x \in Cell : Board(x) = cells[x][1])'
    <3>1. lock' = c /\ pc'[c] # "writehigh"
      BY <1>1, <1>2, <1>5
    <3>2. CellsSeen'
      BY NoWriters, PTL
    <3> QED
      BY <1>8, <1>10, <3>1, <3>2 DEF CellsSeen
  <2>5. answer' = answer
    BY <1>1, <1>4 DEF answer
  <2> QED
    BY <1>1, <1>3, <1>4, <1>7, <2>3, <2>4, <2>5 DEF Registers!vars
<1> QED
  BY <1>8, <1>10, <1>11, <1>12 DEF Inv

\* Address, and data of a write.
LEMMA SetAddressMaps ==
  ASSUME Inv, NEW c \in Core, SetAddress(c), ChipsFollow
  PROVE  Inv' /\ UNCHANGED Registers!vars
<1>1. /\ pc[c] = "address" /\ pc' = [pc EXCEPT ![c] = "command"]
      /\ address' = call[c].addr /\ (call[c].op = "subc_write" => wdata' = call[c].val)
      /\ UNCHANGED <<lock, call, got, reading, rdata, mem, cells, spi, done>>
  BY DEF SetAddress, Goto, ChipsFollow
<1>2. /\ pc' \in [Core -> Location] /\ pc'[c] = "command"
      /\ \A d \in Core \ {c} : pc'[d] = pc[d]
  BY <1>1 DEF Inv, Shape, Location
<1>3. \A x : Shown(x)' = Shown(x)
  BY <1>1, ShownStays DEF Inv, Shape
<1>4. stage' = stage /\ stage[c] = "called" /\ stage'[c] = "called"
  BY <1>1, <1>2, StageMoves DEF Inv, Shape, StageAt, stage
<1>5. lock = c /\ call[c] \in AllCalls /\ ~Local(c) /\ got[c] = Null
  BY <1>1, <1>4 DEF Inv, Locked, Held, Located, LocatedAt
<1>6. Shape'
  BY <1>1, <1>2 DEF Inv, Shape
<1>7. LocatedAt(c)' /\ ServedAt(c)'
  BY <1>1, <1>2, <1>4, <1>5 DEF LocatedAt, ServedAt, Local
<1>8. Locked' /\ Located' /\ Served'
  <2>1. lock' = c <=> pc'[c] \in Held
    BY <1>1, <1>2, <1>5 DEF Held
  <2> QED
    BY <1>1, <1>2, <1>5, <1>7, <2>1, OthersKeep
<1>9. Driving'
  BY <1>1, <1>2, DriverFrame
<1>10. UNCHANGED Registers!vars
  <2>1. WritersStay
    BY <1>1, <1>2 DEF WritersStay
  <2> QED
    BY <1>1, <1>3, <1>4, <2>1, Unseen
<1> QED
  BY <1>6, <1>8, <1>9, <1>10 DEF Inv

\* The command of a write: there it has its effect.
LEMMA WriteCommandMaps ==
  ASSUME Inv, NEW c \in Core, WriteCommand(c), ChipsFollow
  PROVE  Inv' /\ Registers!Next
<1> DEFINE a == call[c].addr
           v == call[c].val
<1>1. /\ pc[c] = "command" /\ call[c].op = "subc_write" /\ pc' = [pc EXCEPT ![c] = "unlock"]
      /\ mem' = [mem EXCEPT ![address] = wdata]
      /\ UNCHANGED <<lock, call, got, cells, spi, done>>
  BY DEF WriteCommand, Goto, ChipsFollow
<1>2. /\ pc' \in [Core -> Location] /\ pc'[c] = "unlock"
      /\ \A d \in Core \ {c} : pc'[d] = pc[d]
  BY <1>1 DEF Inv, Shape, Location
<1>3. stage' = [stage EXCEPT ![c] = "applied"] /\ stage[c] = "called"
  BY <1>1, StageMoves DEF Inv, Shape, StageAt, Location
<1>4. lock = c /\ call[c] \in AllCalls /\ got[c] = Null /\ address = a /\ wdata = v
  BY <1>1, <1>3 DEF Inv, Locked, Held, Located, LocatedAt, Served, ServedAt
<1>5. a \in Addr /\ (a = FPGA_SPI_RW => v \in Pins)
  BY <1>1, <1>4, CallKinds
<1>6. mem' = [x \in Addr |-> mem'[x]] /\ mem'[a] = v /\ \A x \in Addr \ {a} : mem'[x] = mem[x]
  BY <1>1, <1>4, <1>5 DEF Inv, Shape
<1>7. \A x \in Addr \ {a} : Shown(x)' = Shown(x)
  <2>1. ASSUME NEW x \in Addr \ {a}, x # FPGA_SPI_RW PROVE Shown(x)' = Shown(x)
    BY <1>6, <2>1 DEF Shown
  <2>2. ASSUME FPGA_SPI_RW # a PROVE Shown(FPGA_SPI_RW)' = Shown(FPGA_SPI_RW)
    <3>1. mem'[FPGA_SPI_RW] = mem[FPGA_SPI_RW]
      BY <1>6, <2>2, CallRules
    <3> QED
      BY <3>1, PinsStay DEF Inv, Shape
  <2> QED
    BY <2>1, <2>2
<1>8. \E w \in Landing(a, v) : \A x \in Addr : x = a => Shown(x)' = w
  <2>1. CASE a = FPGA_SPI_RW
    <3>1. \A x \in Addr : x = a =>
            \/ Shown(x)' = [v EXCEPT !.miso = 0] \/ Shown(x)' = [v EXCEPT !.miso = 1]
      BY <1>6, <2>1 DEF Shown
    <3>2. \A b \in Bit : [v EXCEPT !.miso = b] \in Landing(a, v)
      BY <2>1 DEF Landing
    <3> QED
      BY <3>1, <3>2 DEF Bit
  <2>2. CASE a # FPGA_SPI_RW
    BY <1>6, <2>2 DEF Shown, Landing
  <2> QED
    BY <2>1, <2>2
<1>9. PICK w \in Landing(a, v) : \A x \in Addr : x = a => Shown(x)' = w
  BY <1>8
<1>10. Shape'
  <2>1. mem'[FPGA_SPI_RW] \in Pins
    BY <1>5, <1>6, CallRules DEF Inv, Shape
  <2> QED
    BY <1>1, <1>2, <1>6, <2>1 DEF Inv, Shape
<1>11. LocatedAt(c)' /\ ServedAt(c)'
  <2>1. stage'[c] = "applied"
    BY <1>2 DEF stage
  <2> QED
    BY <1>1, <1>2, <1>4, <2>1 DEF LocatedAt, ServedAt
<1>12. Locked' /\ Located' /\ Served'
  <2>1. lock' = c <=> pc'[c] \in Held
    BY <1>1, <1>2, <1>4 DEF Held
  <2> QED
    BY <1>1, <1>2, <1>4, <1>11, <2>1, OthersKeep
<1>13. Driving'
  BY <1>1, <1>2, DriverFrame
<1>14. Registers!SubcWrite(c)
  <2>1. [x \in Addr |-> Shown(x)]' = [[x \in Addr |-> Shown(x)] EXCEPT ![a] = w]
    BY <1>5, <1>7, <1>9
  <2>2. answer' = [answer EXCEPT ![c] = Null]
    BY <1>1, <1>2, <1>3, <1>4, AnswerMoves DEF stage
  <2>3. WritersStay
    BY <1>1, <1>2 DEF WritersStay
  <2>4. \A x : Board(x)' = Board(x)
    BY <1>1, <2>3, BoardStays
  <2> QED
    BY <1>1, <1>3, <1>9, <2>1, <2>2, <2>4 DEF Registers!SubcWrite, Registers!Apply
<1> QED
  BY <1>10, <1>12, <1>13, <1>14 DEF Inv, Registers!Next

\* The command of a read: what was answered but not fetched is gone.
LEMMA ReadCommandMaps ==
  ASSUME Inv, NEW c \in Core, ReadCommand(c), ChipsFollow
  PROVE  Inv' /\ UNCHANGED Registers!vars
<1>1. /\ pc[c] = "command" /\ call[c].op = "subc_read" /\ pc' = [pc EXCEPT ![c] = "poll"]
      /\ reading' = address /\ rdata' = Null
      /\ UNCHANGED <<lock, call, got, mem, cells, spi, done>>
  BY DEF ReadCommand, Goto, ChipsFollow
<1>2. /\ pc' \in [Core -> Location] /\ pc'[c] = "poll"
      /\ \A d \in Core \ {c} : pc'[d] = pc[d]
  BY <1>1 DEF Inv, Shape, Location
<1>3. \A x : Shown(x)' = Shown(x)
  BY <1>1, ShownStays DEF Inv, Shape
<1>4. stage' = stage /\ stage[c] = "called"
  BY <1>1, <1>2, StageMoves DEF Inv, Shape, StageAt, stage
<1>5. lock = c /\ call[c] \in AllCalls /\ got[c] = Null /\ address = call[c].addr
  BY <1>1, <1>4 DEF Inv, Locked, Held, Located, LocatedAt, Served, ServedAt
<1>6. Shape'
  BY <1>1, <1>2 DEF Inv, Shape
<1>7. LocatedAt(c)' /\ ServedAt(c)'
  BY <1>1, <1>2, <1>4, <1>5 DEF LocatedAt, ServedAt
<1>8. Locked' /\ Located' /\ Served'
  <2>1. lock' = c <=> pc'[c] \in Held
    BY <1>1, <1>2, <1>5 DEF Held
  <2> QED
    BY <1>1, <1>2, <1>5, <1>7, <2>1, OthersKeep
<1>9. Driving'
  BY <1>1, <1>2, DriverFrame
<1>10. UNCHANGED Registers!vars
  <2>1. WritersStay
    BY <1>1, <1>2 DEF WritersStay
  <2> QED
    BY <1>1, <1>3, <1>4, <2>1, Unseen
<1> QED
  BY <1>6, <1>8, <1>9, <1>10 DEF Inv

\* A poll that sees the end of the command.
LEMMA PollMaps ==
  ASSUME Inv, NEW c \in Core, Poll(c), ChipsFollow
  PROVE  Inv' /\ UNCHANGED Registers!vars
<1>1. /\ pc[c] = "poll" /\ rdata # Null /\ pc' = [pc EXCEPT ![c] = "fetch"]
      /\ UNCHANGED <<lock, call, got, control, mem, cells, spi, done>>
  BY DEF Poll, Goto, ChipsFollow
<1>2. /\ pc' \in [Core -> Location] /\ pc'[c] = "fetch"
      /\ \A d \in Core \ {c} : pc'[d] = pc[d]
  BY <1>1 DEF Inv, Shape, Location
<1>3. \A x : Shown(x)' = Shown(x)
  BY <1>1, ShownStays DEF Inv, Shape
<1>4. stage' = stage /\ stage[c] = "called"
  BY <1>1, <1>2, StageMoves DEF Inv, Shape, StageAt, stage
<1>5. lock = c /\ call[c] \in AllCalls /\ got[c] = Null /\ call[c].op = "subc_read"
  BY <1>1, <1>4 DEF Inv, Locked, Held, Located, LocatedAt
<1>6. Shape'
  BY <1>1, <1>2 DEF Inv, Shape
<1>7. LocatedAt(c)'
  BY <1>1, <1>2, <1>4, <1>5 DEF LocatedAt
<1>8. ServedAt(c)'
  BY <1>1, <1>2, <1>3 DEF Inv, Served, ServedAt, control
<1>9. Locked' /\ Located' /\ Served'
  <2>1. lock' = c <=> pc'[c] \in Held
    BY <1>1, <1>2, <1>5 DEF Held
  <2> QED
    BY <1>1, <1>2, <1>5, <1>7, <1>8, <2>1, OthersKeep
<1>10. Driving'
  BY <1>1, <1>2, DriverFrame
<1>11. UNCHANGED Registers!vars
  <2>1. WritersStay
    BY <1>1, <1>2 DEF WritersStay
  <2> QED
    BY <1>1, <1>3, <1>4, <2>1, Unseen
<1> QED
  BY <1>6, <1>9, <1>10, <1>11 DEF Inv

\* A poll that takes too long: the read starts again, or fails.
LEMMA TimeoutMaps ==
  ASSUME Inv, NEW c \in Core, Timeout(c), ChipsFollow
  PROVE  Inv' /\ [Registers!Next]_(Registers!vars)
<1>1. /\ pc[c] = "poll" /\ lock' = Null
      /\ UNCHANGED <<call, control, mem, cells, spi, done>>
  BY DEF Timeout, ChipsFollow
<1>2. \A x : Shown(x)' = Shown(x)
  BY <1>1, ShownStays DEF Inv, Shape
<1>3. stage[c] = "called"
  BY <1>1, StageMoves DEF StageAt
<1>4. lock = c /\ call[c] \in AllCalls /\ got[c] = Null /\ call[c].op = "subc_read"
  BY <1>1, <1>3 DEF Inv, Locked, Held, Located, LocatedAt
<1>5. ASSUME NEW l \in {"lock", "return"}, pc' = [pc EXCEPT ![c] = l],
             got' = [d \in Core |-> got'[d]], \A d \in Core \ {c} : got'[d] = got[d],
             IF l = "return" THEN got'[c] = Failed ELSE got'[c] = Null
      PROVE  Inv'
  <2>1. /\ pc' \in [Core -> Location] /\ pc'[c] = l
        /\ \A d \in Core \ {c} : pc'[d] = pc[d]
    BY <1>5 DEF Inv, Shape, Location
  <2>2. Shape'
    BY <1>1, <1>5, <2>1 DEF Inv, Shape
  <2>3. LocatedAt(c)' /\ ServedAt(c)'
    <3>1. stage'[c] = IF l = "return" THEN "applied" ELSE "called"
      BY <2>1 DEF stage
    <3> QED
      BY <1>1, <1>4, <1>5, <2>1, <3>1 DEF LocatedAt, ServedAt
  <2>4. Locked' /\ Located' /\ Served'
    <3>1. lock' = c <=> pc'[c] \in Held
      BY <1>1, <2>1, SlbAssumption DEF Held
    <3>2. \A d \in Core \ {c} : lock' = d <=> lock = d
      BY <1>1, <1>4, SlbAssumption
    <3> QED
      BY <1>1, <1>4, <1>5, <2>1, <2>3, <3>1, <3>2, OthersKeep
  <2>5. Driving'
    BY <1>1, <1>5, <2>1, DriverFrame
  <2> QED
    BY <2>2, <2>4, <2>5 DEF Inv
<1>6. CASE tries[c] + 1 < MaxTries
  <2>1. pc' = [pc EXCEPT ![c] = "lock"] /\ UNCHANGED got
    BY <1>6 DEF Timeout, Goto
  <2>2. Inv'
    BY <1>4, <1>5, <2>1 DEF Inv, Shape
  <2>3. stage' = stage
    BY <1>3, <2>1, StageMoves DEF Inv, Shape, StageAt, stage, Location
  <2>4. WritersStay
    BY <1>1, <2>1 DEF WritersStay, Inv, Shape
  <2> QED
    BY <1>1, <1>2, <2>1, <2>2, <2>3, <2>4, Unseen
<1>7. CASE ~(tries[c] + 1 < MaxTries)
  <2>1. pc' = [pc EXCEPT ![c] = "return"] /\ got' = [got EXCEPT ![c] = Failed]
    BY <1>7 DEF Timeout, Goto
  <2>2. Inv'
    BY <1>4, <1>5, <2>1 DEF Inv, Shape
  <2>3. stage' = [stage EXCEPT ![c] = "applied"]
    BY <2>1, StageMoves DEF Inv, Shape, StageAt, Location
  <2>4. answer' = [answer EXCEPT ![c] = Failed]
    <3>1. stage'[c] = "applied" /\ got'[c] = Failed
      BY <2>1 DEF stage, Inv, Shape
    <3>2. \A d \in Core \ {c} : stage'[d] = stage[d] /\ got'[d] = got[d]
      BY <2>1 DEF stage, Inv, Shape
    <3> QED
      BY <3>1, <3>2, AnswerMoves
  <2>5. WritersStay
    BY <1>1, <2>1 DEF WritersStay, Inv, Shape
  <2>6. \A x : Board(x)' = Board(x)
    BY <1>1, <2>5, BoardStays
  <2>7. Registers!SubcRead(c)
    BY <1>1, <1>2, <1>3, <1>4, <2>3, <2>4, <2>6 DEF Registers!SubcRead, Registers!Apply
  <2> QED
    BY <2>2, <2>7 DEF Registers!Next
<1> QED
  BY <1>6, <1>7

\* The data of a read are fetched: there it has its effect.
LEMMA FetchMaps ==
  ASSUME Inv, NEW c \in Core, Fetch(c), ChipsFollow
  PROVE  Inv' /\ Registers!Next
<1> DEFINE a == call[c].addr
<1>1. /\ pc[c] = "fetch" /\ pc' = [pc EXCEPT ![c] = "unlock"]
      /\ got' = [got EXCEPT ![c] = rdata]
      /\ UNCHANGED <<lock, call, mem, cells, spi, done>>
  BY DEF Fetch, Goto, ChipsFollow
<1>2. /\ pc' \in [Core -> Location] /\ pc'[c] = "unlock"
      /\ \A d \in Core \ {c} : pc'[d] = pc[d]
  BY <1>1 DEF Inv, Shape, Location
<1>3. \A x : Shown(x)' = Shown(x)
  BY <1>1, ShownStays DEF Inv, Shape
<1>4. stage' = [stage EXCEPT ![c] = "applied"] /\ stage[c] = "called"
  BY <1>1, StageMoves DEF Inv, Shape, StageAt, Location
<1>5. lock = c /\ call[c] \in AllCalls /\ call[c].op = "subc_read"
  BY <1>1 DEF Inv, Locked, Held, Located, LocatedAt
<1>6. a \in Addr /\ \A x \in Addr : a = x => rdata = Shown(x)
  BY <1>1, <1>5, CallKinds DEF Inv, Served, ServedAt
<1>7. got' = [d \in Core |-> got'[d]] /\ got'[c] = rdata /\ \A d \in Core \ {c} : got'[d] = got[d]
  BY <1>1 DEF Inv, Shape
<1>8. Shape'
  BY <1>1, <1>2, <1>7 DEF Inv, Shape
<1>9. LocatedAt(c)' /\ ServedAt(c)'
  <2>1. stage'[c] = "applied"
    BY <1>2 DEF stage
  <2> QED
    BY <1>1, <1>2, <1>5, <2>1 DEF LocatedAt, ServedAt
<1>10. Locked' /\ Located' /\ Served'
  <2>1. lock' = c <=> pc'[c] \in Held
    BY <1>1, <1>2, <1>5 DEF Held
  <2> QED
    BY <1>1, <1>2, <1>5, <1>7, <1>9, <2>1, OthersKeep
<1>11. Driving'
  <2>1. c = Driver => rdata \in Pins
    <3>1. ASSUME c = Driver PROVE a = FPGA_SPI_RW
      BY <1>1, <3>1 DEF Inv, Driving, Access
    <3> QED
      BY <1>6, <3>1, ShownPins, CallRules DEF Inv, Shape
  <2> QED
    BY <1>1, <1>2, <1>7, <2>1, DriverFrame
<1>12. Registers!SubcRead(c)
  <2>1. rdata = [x \in Addr |-> Shown(x)][a]
    BY <1>6
  <2>2. answer' = [answer EXCEPT ![c] = rdata]
    BY <1>2, <1>7, AnswerMoves DEF stage
  <2>3. WritersStay
    BY <1>1, <1>2 DEF WritersStay
  <2>4. \A x : Board(x)' = Board(x)
    BY <1>1, <2>3, BoardStays
  <2> QED
    BY <1>1, <1>3, <1>4, <1>5, <2>1, <2>2, <2>4 DEF Registers!SubcRead, Registers!Apply
<1> QED
  BY <1>8, <1>10, <1>11, <1>12 DEF Inv, Registers!Next

\* The controller ends the last read, in time or after it was given up.
LEMMA AnsweredMaps ==
  ASSUME Inv, Answered
  PROVE  Inv' /\ UNCHANGED Registers!vars
<1>1. /\ reading # Null /\ rdata' = Shown(reading) /\ reading' = Null
      /\ UNCHANGED <<lock, pc, call, got, address, wdata, mem, cells, spi, done>> /\ ChipsFollow
  BY DEF Answered, Answer, ChipsFollow
<1>2. \A x : Shown(x)' = Shown(x)
  BY <1>1, ShownStays DEF Inv, Shape
<1>3. stage' = stage
  BY <1>1 DEF stage
<1>4. Shape' /\ Locked'
  BY <1>1 DEF Inv, Shape, Locked
<1>5. Located'
  BY <1>1, <1>3 DEF Inv, Located, LocatedAt, Local
<1>6. Served'
  <2> SUFFICES ASSUME NEW c \in Core PROVE ServedAt(c)'
    BY DEF Served
  <2>1. ASSUME NEW a \in Addr, call[c].addr = a, pc[c] \in {"poll", "fetch"}
        PROVE  rdata' = Shown(a)'
    <3>1. reading = a
      BY <1>1, <2>1 DEF Inv, Served, ServedAt
    <3> QED
      BY <1>1, <1>2, <3>1
  <2> QED
    BY <1>1, <2>1 DEF Inv, Served, ServedAt
<1>7. Driving'
  <2>1. Access' = Access /\ JobOK'
    BY <1>1, AccessSame, JobStays DEF Inv, Driving
  <2> QED
    BY <1>1, <2>1 DEF Inv, Driving, NoJob
<1>8. UNCHANGED Registers!vars
  BY <1>1, <1>2, <1>3, Unseen DEF WritersStay
<1> QED
  BY <1>4, <1>5, <1>6, <1>7, <1>8 DEF Inv

\* An earlier one that was given up is answered, and nobody is misled by it: the core
\* that waits, waits for the same register.
LEMMA AnsweredLateMaps ==
  ASSUME Inv, AnsweredLate, ~misled'
  PROVE  Inv' /\ UNCHANGED Registers!vars
<1>1. PICK c \in Core, a \in Addr : LateAnswer(c, a, Shown(a)) /\ ChipsFollow
  BY DEF AnsweredLate
<1>2. /\ pc[c] \in {"poll", "fetch"} /\ rdata' = Shown(a) /\ call[c].addr = a
      /\ UNCHANGED <<lock, pc, call, got, address, wdata, reading, mem, cells, spi, done>>
  BY <1>1 DEF LateAnswer, ChipsFollow
<1>3. \A x : Shown(x)' = Shown(x)
  BY <1>1, <1>2, ShownStays DEF Inv, Shape
<1>4. stage' = stage
  BY <1>2 DEF stage
<1>5. Shape' /\ Locked'
  BY <1>2 DEF Inv, Shape, Locked
<1>6. Located'
  BY <1>2, <1>4 DEF Inv, Located, LocatedAt, Local
<1>7. Served'
  <2> SUFFICES ASSUME NEW d \in Core PROVE ServedAt(d)'
    BY DEF Served
  <2>1. CASE d = c
    BY <1>2, <1>3, <2>1 DEF Inv, Served, ServedAt
  <2>2. CASE d # c
    <3>1. pc[d] \notin {"poll", "fetch"}
      BY <1>2, <2>2 DEF Inv, Locked, Held
    <3> QED
      BY <1>2, <1>3, <3>1 DEF Inv, Served, ServedAt
  <2> QED
    BY <2>1, <2>2
<1>8. Driving'
  <2>1. Access' = Access /\ JobOK'
    BY <1>2, AccessSame, JobStays DEF Inv, Driving
  <2> QED
    BY <1>2, <2>1 DEF Inv, Driving, NoJob
<1>9. UNCHANGED Registers!vars
  BY <1>2, <1>3, <1>4, Unseen DEF WritersStay
<1> QED
  BY <1>5, <1>6, <1>7, <1>8, <1>9 DEF Inv

-----------------------------------------------------------------------------
(* Calls and returns.                                                      *)

\* A call begins.  What the driver does with it is shown where it begins.
LEMMA BeginMaps ==
  ASSUME Inv, NEW c \in Core, NEW k \in AllCalls, Begin(c, k),
         ChipsFollow \/ UNCHANGED chips
  PROVE  /\ Shape' /\ Locked' /\ Located' /\ Served' /\ Registers!Next
         /\ pc[c] = "idle" /\ pc'[c] = "lock" /\ call'[c] = k /\ UNCHANGED got
         /\ \A d \in Core \ {c} : pc'[d] = pc[d] /\ call'[d] = call[d]
<1>1. /\ pc[c] = "idle" /\ pc' = [pc EXCEPT ![c] = "lock"] /\ call' = [call EXCEPT ![c] = k]
      /\ UNCHANGED <<lock, got, control, mem, cells>>
  BY DEF Begin, Goto
<1>2. /\ pc' \in [Core -> Location] /\ pc'[c] = "lock" /\ call'[c] = k
      /\ call' \in [Core -> AllCalls \cup {Null}]
      /\ \A d \in Core \ {c} : pc'[d] = pc[d] /\ call'[d] = call[d]
  BY <1>1 DEF Inv, Shape, Location
<1>3. \A x : Shown(x)' = Shown(x)
  BY <1>1, ShownStays DEF Inv, Shape
<1>4. stage' = [stage EXCEPT ![c] = "called"] /\ stage[c] = "idle"
  BY <1>1, StageMoves DEF Inv, Shape, StageAt, Location
<1>5. lock # c /\ got[c] = Null
  BY <1>1, <1>4 DEF Inv, Locked, Held, Located, LocatedAt
<1>6. Shape'
  BY <1>1, <1>2 DEF Inv, Shape
<1>7. LocatedAt(c)' /\ ServedAt(c)'
  BY <1>1, <1>2, <1>5 DEF LocatedAt, ServedAt
<1>8. Locked' /\ Located' /\ Served'
  <2>1. lock' = c <=> pc'[c] \in Held
    BY <1>1, <1>2, <1>5 DEF Held
  <2> QED
    BY <1>1, <1>2, <1>3, <1>7, <2>1, OthersKeep
<1>9. Registers!Invoke(c)
  <2>1. answer' = answer
    BY <1>1, <1>2 DEF answer, stage
  <2>2. WritersStay
    BY <1>1, <1>2 DEF WritersStay
  <2>3. \A x : Board(x)' = Board(x)
    BY <1>1, <2>2, BoardStays
  <2> QED
    BY <1>1, <1>3, <1>4, <2>1, <2>3 DEF Registers!Invoke
<1> QED
  BY <1>1, <1>2, <1>6, <1>8, <1>9 DEF Registers!Next

\* A call returns.
LEMMA ReturnMaps ==
  ASSUME Inv, NEW c \in Core, Return(c), ChipsFollow \/ UNCHANGED chips
  PROVE  /\ Shape' /\ Locked' /\ Located' /\ Served' /\ Registers!Next
         /\ pc[c] = "return" /\ pc'[c] = "idle"
         /\ \A d \in Core \ {c} : pc'[d] = pc[d] /\ call'[d] = call[d] /\ got'[d] = got[d]
<1>1. /\ pc[c] = "return" /\ pc' = [pc EXCEPT ![c] = "idle"] /\ call' = [call EXCEPT ![c] = Null]
      /\ got' = [got EXCEPT ![c] = Null] /\ UNCHANGED <<lock, control, mem, cells>>
  BY DEF Return, Goto
<1>2. /\ pc' \in [Core -> Location] /\ pc'[c] = "idle"
      /\ call' \in [Core -> AllCalls \cup {Null}]
      /\ got' = [d \in Core |-> got'[d]] /\ got'[c] = Null
      /\ \A d \in Core \ {c} : pc'[d] = pc[d] /\ call'[d] = call[d] /\ got'[d] = got[d]
  BY <1>1 DEF Inv, Shape, Location
<1>3. \A x : Shown(x)' = Shown(x)
  BY <1>1, ShownStays DEF Inv, Shape
<1>4. stage' = [stage EXCEPT ![c] = "idle"] /\ stage[c] = "applied"
  BY <1>1, StageMoves DEF Inv, Shape, StageAt, Location
<1>5. lock # c
  BY <1>1 DEF Inv, Locked, Held
<1>6. Shape'
  BY <1>1, <1>2 DEF Inv, Shape
<1>7. LocatedAt(c)' /\ ServedAt(c)'
  BY <1>1, <1>2 DEF LocatedAt, ServedAt
<1>8. Locked' /\ Located' /\ Served'
  <2>1. lock' = c <=> pc'[c] \in Held
    BY <1>1, <1>2, <1>5 DEF Held
  <2> QED
    BY <1>1, <1>2, <1>3, <1>7, <2>1, OthersKeep
<1>9. Registers!Respond(c)
  <2>1. answer' = [answer EXCEPT ![c] = Null]
    BY <1>1, <1>2, AnswerMoves DEF stage
  <2>2. WritersStay
    BY <1>1, <1>2 DEF WritersStay
  <2>3. \A x : Board(x)' = Board(x)
    BY <1>1, <2>2, BoardStays
  <2> QED
    BY <1>1, <1>3, <1>4, <2>1, <2>3 DEF Registers!Respond
<1> QED
  BY <1>1, <1>2, <1>6, <1>8, <1>9 DEF Registers!Next

\* Calls of the cores that are not the driver.
LEMMA OthersMap ==
  ASSUME Inv, NEW c \in Core \ {Driver}, OtherCall(c) \/ OtherReturn(c)
  PROVE  Inv' /\ Registers!Next
<1>1. UNCHANGED <<spi, done>>
  BY DEF OtherCall, OtherReturn, ChipsFollow
<1>2. CASE OtherCall(c)
  <2>1. PICK k \in Calls : Begin(c, k) /\ ChipsFollow
    BY <1>2 DEF OtherCall
  <2>2. k \in AllCalls
    BY DEF AllCalls
  <2>3. Driving'
    BY <1>1, <2>1, <2>2, BeginMaps, DriverFrame
  <2> QED
    BY <2>1, <2>2, <2>3, BeginMaps DEF Inv
<1>3. CASE OtherReturn(c)
  <2>1. Return(c) /\ ChipsFollow
    BY <1>3 DEF OtherReturn
  <2>2. Driving'
    BY <1>1, <2>1, ReturnMaps, DriverFrame
  <2> QED
    BY <2>1, <2>2, ReturnMaps DEF Inv
<1> QED
  BY <1>2, <1>3

\* They leave the driver in a job, or in none.
LEMMA NextJob ==
  ASSUME JobOK, StartJob \/ EndJob
  PROVE  JobOK'
<1>1. done \in Nat
  BY DEF JobOK
<1>2. CASE EndJob
  <2>1. done' = done + 1 /\ spi'.phase = "none" /\ spi'.clean = TRUE
    BY <1>2 DEF EndJob, NoJob
  <2>2. done' \in Nat
    BY <1>1, <2>1
  <2>3. spi'.clean \in BOOLEAN
    BY <2>1, Zenon
  <2> QED
    BY <2>1, <2>2, <2>3, Zenon DEF JobOK
<1>3. CASE StartJob
  <2> DEFINE j == Jobs[done + 1]
  <2>1. /\ UNCHANGED done /\ done < Len(Jobs)
        /\ spi'.job = j /\ spi'.phase = "selectR" /\ spi'.frame = 1 /\ spi'.bit = 1
        /\ spi'.clean = TRUE
    BY <1>3 DEF StartJob, NoJob
  <2>2. done + 1 \in DOMAIN Jobs /\ j \in JobType
    BY <1>1, <2>1, JobRules
  <2> HIDE DEF j
  <2>3. 1 \in 1 .. Len(Frames(j))
    <3>1. j.fn \in {"read", "write"}
      BY <2>2 DEF JobType
    <3>2. Len(Frames(j)) \in {3, 4}
      BY <2>2, <3>1, FramesAre
    <3> QED
      BY <3>2
  <2>4. Len(Frames(j)[1]) \in Nat /\ Len(Frames(j)[1]) > 2
    BY <2>2, <2>3, FramesBytes
  <2>5. LastFrame' = Len(Frames(j)) /\ LastBit' = Width * Len(Frames(j)[1])
    BY <2>1 DEF LastFrame, LastBit, Frame, Frames
  <2>6. 1 \in 1 .. LastFrame' /\ 1 \in 1 .. LastBit'
    BY <2>3, <2>4, <2>5, JobRules
  <2> QED
    BY <1>1, <2>1, <2>2, <2>6 DEF JobOK, j
<1> QED
  BY <1>2, <1>3

\* The driver's own steps between its accesses.
LEMMA JobMaps ==
  ASSUME Inv, StartJob \/ EndJob
  PROVE  Inv' /\ UNCHANGED Registers!vars
<1>1. UNCHANGED <<slbVars, chips>> /\ spi.phase \in {"none", "done"}
  BY DEF StartJob, EndJob
<1>2. \A x : Shown(x)' = Shown(x)
  BY <1>1, ShownStays DEF Inv, Shape, slbVars
<1>3. stage' = stage
  BY <1>1 DEF stage, slbVars
<1>4. Shape' /\ Locked' /\ Located' /\ Served'
  BY <1>1, <1>2, <1>3 DEF Inv, Shape, Locked, Located, LocatedAt, Served, ServedAt,
                          slbVars, Local
<1>5. Driving'
  <2>1. pc[Driver] = "idle" /\ pc'[Driver] = "idle"
    BY <1>1 DEF Inv, Driving, Reading, Writing, slbVars
  <2>2. AllOnes \in Pins
    BY DEF AllOnes, Pins, Bit
  <2>3. /\ DOMAIN spi' = DOMAIN NoJob /\ spi'.reg = AllOnes
        /\ spi'.phase \in {"selectR", "none"}
    <3>1. /\ NoJob.reg = AllOnes /\ NoJob.phase = "none"
          /\ {"job", "phase", "reg"} \subseteq DOMAIN NoJob
      BY DEF NoJob
    <3>2. CASE EndJob
      BY <3>1, <3>2 DEF EndJob
    <3>3. CASE StartJob
      BY <3>1, <3>3 DEF StartJob
    <3> QED
      BY <3>2, <3>3
  <2> QED
    BY <2>1, <2>2, <2>3, NextJob DEF Inv, Driving, Reading, NoJob, AllOnes
<1>6. UNCHANGED Registers!vars
  BY <1>1, <1>2, <1>3, Unseen DEF WritersStay, slbVars
<1> QED
  BY <1>4, <1>5, <1>6 DEF Inv

\* The driver begins an access to the pins.
LEMMA AccessMaps ==
  ASSUME Inv, AccessPins
  PROVE  Inv' /\ Registers!Next
<1>1. /\ spi.phase \in Reading \cup Writing /\ Begin(Driver, Access)
      /\ UNCHANGED <<spi, done, chips>>
  BY DEF AccessPins, Inv, Driving
<1>2. Access \in AllCalls
  <2>1. CASE spi.phase \in Reading
    BY <2>1 DEF Access, AllCalls
  <2>2. CASE spi.phase \notin Reading
    <3>1. Driven[spi.phase] \in Pins
      BY <1>1, <2>2, DrivenPins DEF Inv, Driving
    <3> QED
      BY <2>2, <3>1 DEF Access, AllCalls
  <2> QED
    BY <2>1, <2>2
<1>3. Driver \in Core /\ Access' = Access /\ JobOK'
  BY <1>1, CallRules, AccessSame, JobStays DEF Inv, Driving
<1>4. pc'[Driver] = "lock" /\ call'[Driver] = Access /\ UNCHANGED got
  BY <1>1, <1>2, <1>3, BeginMaps
<1>5. Driving'
  BY <1>1, <1>3, <1>4 DEF Inv, Driving, NoJob
<1> QED
  BY <1>1, <1>2, <1>3, <1>5, BeginMaps DEF Inv

\* Where the driver goes from a phase.
LEMMA GoesOn ==
  ASSUME Inv, PinsAccessed
  PROVE  LET next == Following[spi.phase]
             v == IF got[Driver] = Failed THEN AllOnes ELSE got[Driver]
         IN /\ spi.phase \in Reading \cup Writing /\ next \in Reading \cup Writing \cup {"done"}
            /\ DOMAIN spi' = DOMAIN NoJob /\ spi'.phase = next /\ spi'.job = spi.job
            /\ spi'.reg = IF next \in {"selectR", "releaseR", "lowR", "done"} THEN AllOnes
                          ELSE IF spi.phase \in Reading THEN v ELSE Driven[spi.phase]
            /\ spi'.bits = IF spi.phase = "sample" /\ Wanted THEN Append(spi.bits, v.miso)
                           ELSE spi.bits
            /\ spi'.bit = IF spi.phase = "sample"
                          THEN IF spi.bit < LastBit THEN spi.bit + 1 ELSE 1 ELSE spi.bit
            /\ spi'.frame = IF next = "selectR" THEN spi.frame + 1 ELSE spi.frame
            /\ spi'.clean = (spi.clean /\ got[Driver] # Failed)
<1> DEFINE next == Following[spi.phase]
           v == IF got[Driver] = Failed THEN AllOnes ELSE got[Driver]
           seen == IF spi.phase \in Reading THEN v ELSE Driven[spi.phase]
<1>1. pc[Driver] = "return" /\ spi.phase \in Reading \cup Writing
  BY DEF PinsAccessed, Return, Inv, Driving
<1>2. next \in Reading \cup Writing \cup {"done"}
  BY <1>1 DEF Following, Reading, Writing
<1>3. DOMAIN spi = DOMAIN NoJob
  BY DEF Inv, Driving
<1>4. spi' = [spi EXCEPT
        !.phase = next,
        !.reg = IF next \in {"selectR", "releaseR", "lowR", "done"} THEN AllOnes ELSE seen,
        !.bits = IF spi.phase = "sample" /\ Wanted THEN Append(@, v.miso) ELSE @,
        !.bit = IF spi.phase = "sample" THEN IF @ < LastBit THEN @ + 1 ELSE 1 ELSE @,
        !.frame = IF next = "selectR" THEN @ + 1 ELSE @,
        !.clean = @ /\ got[Driver] # Failed]
  BY DEF PinsAccessed
<1> HIDE DEF seen, next, v
<1>5. /\ DOMAIN spi' = DOMAIN NoJob /\ spi'.phase = next /\ spi'.job = spi.job
      /\ spi'.reg = IF next \in {"selectR", "releaseR", "lowR", "done"} THEN AllOnes ELSE seen
      /\ spi'.bits = IF spi.phase = "sample" /\ Wanted THEN Append(spi.bits, v.miso)
                     ELSE spi.bits
      /\ spi'.bit = IF spi.phase = "sample"
                    THEN IF spi.bit < LastBit THEN spi.bit + 1 ELSE 1 ELSE spi.bit
      /\ spi'.frame = IF next = "selectR" THEN spi.frame + 1 ELSE spi.frame
      /\ spi'.clean = (spi.clean /\ got[Driver] # Failed)
  BY <1>3, <1>4 DEF NoJob
<1> QED
  BY <1>1, <1>2, <1>5 DEF seen, next, v

\* It stays in its job.
LEMMA StaysInJob ==
  ASSUME Inv, PinsAccessed
  PROVE  JobOK'
<1> DEFINE next == Following[spi.phase]
<1>1. /\ spi.phase \in Reading \cup Writing /\ next \in Reading \cup Writing \cup {"done"}
      /\ spi'.phase = next /\ spi'.job = spi.job
      /\ spi'.bit = IF spi.phase = "sample"
                    THEN IF spi.bit < LastBit THEN spi.bit + 1 ELSE 1 ELSE spi.bit
      /\ spi'.frame = IF next = "selectR" THEN spi.frame + 1 ELSE spi.frame
      /\ spi'.clean = (spi.clean /\ got[Driver] # Failed)
      /\ UNCHANGED done
  BY GoesOn DEF PinsAccessed
<1>2. JobOK /\ spi.phase # "none"
  BY <1>1 DEF Inv, Driving, Reading, Writing
<1>3. /\ spi.job \in {Jobs[i] : i \in DOMAIN Jobs}
      /\ spi.frame \in 1 .. LastFrame /\ spi.bit \in 1 .. LastBit
      /\ spi.phase \in {"selectR", "selectW", "releaseR", "releaseW", "done"} => spi.bit = 1
  BY <1>2 DEF JobOK
<1>4. LastBit \in Nat /\ LastBit > 2 * Width /\ LastFrame \in {3, 4} /\ spi.job \in JobType
  BY <1>2, InJob
<1>5. next = "selectR" => spi.phase = "releaseW" /\ spi.frame < LastFrame
  BY <1>1 DEF Following, Reading, Writing
<1>6. next = "done" => spi.phase = "releaseW" /\ spi.frame >= LastFrame
  BY <1>1, <1>3, <1>4 DEF Following, Reading, Writing
<1>7. next \in {"selectR", "selectW", "releaseR", "releaseW", "done"} =>
        \/ spi.phase \in {"selectR", "releaseR", "releaseW"}
        \/ spi.phase = "sample" /\ ~(spi.bit < LastBit)
  BY <1>1 DEF Following, Reading, Writing
<1> HIDE DEF next
<1>8. spi'.frame \in 1 .. LastFrame /\ LastFrame' = LastFrame
  BY <1>1, <1>3, <1>4, <1>5 DEF LastFrame, Frames
<1>9. next # "selectR" => LastBit' = LastBit
  BY <1>1 DEF LastBit, Frame, Frames
<1>10. next = "selectR" => LastBit' \in Nat /\ LastBit' > 2
  <2>1. Len(Frames(spi.job)[spi'.frame]) \in Nat /\ Len(Frames(spi.job)[spi'.frame]) > 2
    BY <1>4, <1>8, FramesBytes DEF LastFrame
  <2>2. LastBit' = Width * Len(Frames(spi.job)[spi'.frame])
    BY <1>1 DEF LastBit, Frame, Frames
  <2> QED
    BY <2>1, <2>2, JobRules
<1>11. spi'.bit \in 1 .. LastBit'
  BY <1>1, <1>3, <1>4, <1>5, <1>9, <1>10, JobRules
<1>12. next \in {"selectR", "selectW", "releaseR", "releaseW", "done"} => spi'.bit = 1
  BY <1>1, <1>3, <1>7
<1>13. next = "done" => spi'.frame = LastFrame
  BY <1>1, <1>3, <1>4, <1>6
<1>14. done' \in Nat /\ spi'.clean \in BOOLEAN
  BY <1>1, <1>2 DEF JobOK
<1> QED
  BY <1>1, <1>3, <1>8, <1>11, <1>12, <1>13, <1>14 DEF JobOK

\* It returns, and the driver goes on to the next one.
LEMMA AccessedMaps ==
  ASSUME Inv, PinsAccessed
  PROVE  Inv' /\ Registers!Next
<1> DEFINE v == IF got[Driver] = Failed THEN AllOnes ELSE got[Driver]
           seen == IF spi.phase \in Reading THEN v ELSE Driven[spi.phase]
           next == Following[spi.phase]
<1>1. Return(Driver) /\ UNCHANGED chips /\ Driver \in Core
  BY CallRules DEF PinsAccessed
<1>2. /\ pc[Driver] = "return" /\ pc'[Driver] = "idle"
      /\ Shape' /\ Locked' /\ Located' /\ Served' /\ Registers!Next
  BY <1>1, ReturnMaps
<1>3. /\ spi.phase \in Reading \cup Writing /\ call[Driver] = Access
      /\ call[Driver].op = "subc_read" => got[Driver] \in Pins \cup {Failed}
  BY <1>2 DEF Inv, Driving
<1>4. AllOnes \in Pins
  BY DEF AllOnes, Pins, Bit
<1>5. seen \in Pins
  <2>1. CASE spi.phase \in Reading
    <3>1. call[Driver].op = "subc_read"
      BY <1>3, <2>1 DEF Access
    <3> QED
      BY <1>3, <1>4, <2>1, <3>1
  <2>2. CASE spi.phase \notin Reading
    BY <1>3, <2>2, DrivenPins DEF Inv, Driving
  <2> QED
    BY <2>1, <2>2
<1>6. next \in Reading \cup Writing \cup {"done"}
  BY <1>3 DEF Following, Reading, Writing
<1>7. /\ DOMAIN spi' = DOMAIN NoJob /\ spi'.phase = next
      /\ spi'.reg \in {AllOnes, seen}
  BY GoesOn
<1>8. Driving'
  BY <1>2, <1>4, <1>5, <1>6, <1>7, StaysInJob DEF Driving, NoJob
<1> QED
  BY <1>2, <1>8 DEF Inv

-----------------------------------------------------------------------------
\* Who was misled stays so.
LEMMA MisledStays == misled /\ [Next]_vars => misled'
<1> SUFFICES ASSUME misled, [Next]_vars PROVE misled'
  OBVIOUS
<1>1. CASE UNCHANGED misled
  BY <1>1
<1>2. CASE AnsweredLate
  BY <1>2 DEF AnsweredLate, LateAnswer
<1>3. CASE StartJob \/ EndJob \/ UNCHANGED vars
  BY <1>1, <1>3 DEF StartJob, EndJob, vars, slbVars
<1>4. CASE AccessPins \/ PinsAccessed
  BY <1>1, <1>4 DEF AccessPins, PinsAccessed, Begin, Return, control
<1>5. CASE Answered
  BY <1>1, <1>5 DEF Answered, Answer
<1>6. ASSUME NEW c \in Core, CoreStep(c) \/ LockStep(c) PROVE UNCHANGED misled
  BY <1>6 DEF CoreStep, LockStep, Lock, Inside, Unlock, LocalLow, ReadHigh, WriteHigh,
     SetAddress, WriteCommand, ReadCommand, Poll, Timeout, Fetch, control
<1>7. ASSUME NEW c \in Core, OtherCall(c) \/ OtherReturn(c) PROVE UNCHANGED misled
  BY <1>7 DEF OtherCall, OtherReturn, Begin, Return, control
<1> QED
  BY <1>1, <1>2, <1>3, <1>4, <1>5, <1>6, <1>7 DEF Next

\* Every step that misleads nobody keeps the invariant and is a step of the
\* registers, or none; that it is takes calls that write low bytes.
LEMMA StepMaps ==
  ASSUME Inv, [Next]_vars, ~misled'
  PROVE  Inv' /\ (LowBytes => [Registers!Next]_(Registers!vars))
<1>1. CASE StartJob \/ EndJob
  BY <1>1, JobMaps
<1>2. CASE AccessPins
  BY <1>2, AccessMaps
<1>3. CASE PinsAccessed
  BY <1>3, AccessedMaps
<1>4. CASE Answered
  BY <1>4, AnsweredMaps
<1>5. CASE AnsweredLate
  BY <1>5, AnsweredLateMaps
<1>6. ASSUME NEW c \in Core, CoreStep(c)
      PROVE  Inv' /\ (LowBytes => [Registers!Next]_(Registers!vars))
  BY <1>6, UnlockMaps, LocalLowMaps, ReadHighMaps, WriteHighMaps, SetAddressMaps,
     WriteCommandMaps, ReadCommandMaps, PollMaps, TimeoutMaps, FetchMaps DEF CoreStep, Inside
<1>7. ASSUME NEW c \in Core, LockStep(c) PROVE Inv' /\ [Registers!Next]_(Registers!vars)
  BY <1>7, LockMaps
<1>8. ASSUME NEW c \in Core \ {Driver}, OtherCall(c) \/ OtherReturn(c)
      PROVE Inv' /\ [Registers!Next]_(Registers!vars)
  BY <1>8, OthersMap
<1>9. CASE UNCHANGED vars
  <2>1. UNCHANGED <<slbVars, chips, spi, done>>
    BY <1>9 DEF vars
  <2>2. \A x : Shown(x)' = Shown(x)
    BY <2>1, ShownStays DEF Inv, Shape, slbVars
  <2>3. stage' = stage
    BY <2>1 DEF stage, slbVars
  <2>4. Shape' /\ Locked' /\ Located' /\ Served'
    BY <2>1, <2>2, <2>3 DEF Inv, Shape, Locked, Located, LocatedAt, Served, ServedAt,
                            slbVars, Local
  <2>5. Driving'
    <3>1. Access' = Access /\ JobOK'
      BY <2>1, AccessSame, JobStays DEF Inv, Driving
    <3> QED
      BY <2>1, <3>1 DEF Inv, Driving, slbVars, NoJob
  <2>6. UNCHANGED Registers!vars
    BY <2>1, <2>2, <2>3, Unseen DEF WritersStay, slbVars
  <2> QED
    BY <2>4, <2>5, <2>6 DEF Inv
<1> QED
  BY <1>1, <1>2, <1>3, <1>4, <1>5, <1>6, <1>7, <1>8, <1>9 DEF Next

\* To its callers the bus is a set of registers, each read and written in one
\* instant: the polling, timing out and retrying SLB implements SlbRegs as long as no
\* core got the late answer of another register, and if no call writes more than a
\* low byte to the board's registers.
THEOREM RegistersAtomicTheorem ==
  ASSUME LowBytes
  PROVE  Spec => RegistersAtomic
<1>1. Init => Inv /\ Registers!Init
  BY InitInv, InitMaps
<1>2. (misled \/ Inv) /\ [Next]_vars =>
        (misled \/ Inv)' /\ [misled' \/ Registers!Next]_(Registers!vars)
  BY StepMaps, MisledStays
<1> QED
  BY <1>1, <1>2, PTL DEF Spec, RegistersAtomic

-----------------------------------------------------------------------------
(* What goes over the line: bits of bytes.                                 *)

\* The first n bits of a sequence of bytes.
FirstBits(s, n) ==
  [k \in 1 .. n |-> s[((k - 1) \div Width) + 1][((k - 1) % Width) + 1]]

\* One more bit.
LEMMA MoreBits ==
  ASSUME NEW s, NEW n \in Nat
  PROVE  /\ Len(FirstBits(s, n)) = n
         /\ Append(FirstBits(s, n), s[(n \div Width) + 1][(n % Width) + 1]) = FirstBits(s, n + 1)
<1> DEFINE bit(k) == s[((k - 1) \div Width) + 1][((k - 1) % Width) + 1]
<1>1. bit(n + 1) = s[(n \div Width) + 1][(n % Width) + 1]
  OBVIOUS
<1> HIDE DEF bit
<1>2. Append([k \in 1 .. n |-> bit(k)], bit(n + 1)) = [k \in 1 .. n + 1 |-> bit(k)]
  OBVIOUS
<1>3. Len([k \in 1 .. n |-> bit(k)]) = n
  OBVIOUS
<1> QED
  BY <1>1, <1>2, <1>3 DEF FirstBits, bit

\* Byte i is made of the bits that follow those of the bytes before it.
LEMMA BytePlace ==
  ASSUME NEW n \in Nat, NEW i \in 1 .. n \div Width, NEW k \in 1 .. Width,
         NEW p, p = (i - 1) * Width + k
  PROVE  /\ p \in 1 .. n /\ ((p - 1) \div Width) + 1 = i /\ ((p - 1) % Width) + 1 = k
<1>1. Width \in Nat \ {0} /\ i - 1 \in Nat /\ k - 1 \in 0 .. Width - 1
  BY JobRules
<1>2. \A a \in Nat, b \in 0 .. Width - 1 :
        (a * Width + b) \div Width = a /\ (a * Width + b) % Width = b
  BY <1>1
<1>3. p - 1 = (i - 1) * Width + (k - 1)
  BY <1>1
<1>4. p \in 1 .. n
  BY <1>1
<1> QED
  BY <1>1, <1>2, <1>3, <1>4

\* The bytes that are complete in the first bits of a sequence are its first ones.
LEMMA WholeBytes ==
  ASSUME NEW s \in Seq(SpiByte), NEW n \in Nat, n <= Width * Len(s)
  PROVE  /\ n \div Width \in Nat /\ n \div Width <= Len(s)
         /\ BytesOf(FirstBits(s, n)) = [i \in 1 .. n \div Width |-> s[i]]
<1> DEFINE bits == FirstBits(s, n)
<1>1. Len(bits) = n
  BY MoreBits
<1>2. n \div Width \in Nat /\ n \div Width <= Len(s)
  BY JobRules
<1>3. ASSUME NEW i \in 1 .. n \div Width
      PROVE  [k \in 1 .. Width |-> bits[(i - 1) * Width + k]] = s[i]
  <2>1. ASSUME NEW k \in 1 .. Width
        PROVE  bits[(i - 1) * Width + k] = s[i][k]
    <3>1. PICK p : p = (i - 1) * Width + k
      OBVIOUS
    <3>2. p \in 1 .. n /\ ((p - 1) \div Width) + 1 = i /\ ((p - 1) % Width) + 1 = k
      BY <3>1, BytePlace
    <3>3. bits[p] = s[((p - 1) \div Width) + 1][((p - 1) % Width) + 1]
      BY <3>2 DEF FirstBits
    <3> QED
      BY <3>1, <3>2, <3>3
  <2>2. s[i] \in [1 .. Width -> Bit]
    BY <1>2 DEF SpiByte
  <2> HIDE DEF bits
  <2> QED
    BY <2>1, <2>2
<1> HIDE DEF bits
<1>4. BytesOf(bits) = [i \in 1 .. n \div Width |-> s[i]]
  BY <1>1, <1>3 DEF BytesOf
<1> QED
  BY <1>2, <1>4 DEF bits

\* What a chip is made of, as far as the steps rely on it.
ChipOK(chip) ==
  /\ chip = [bits |-> chip.bits, page |-> chip.page, regs |-> chip.regs, port |-> chip.port]
  /\ chip.port \in Seq(SpiByte)
  /\ \A r \in DOMAIN chip.regs : chip.regs[r] \in Seq(SpiByte)

\* A register holds bytes.
LEMMA RegBytes ==
  ASSUME NEW chip, ChipOK(chip), NEW p, NEW a
  PROVE  RegOf(chip, p, a) \in Seq(SpiByte)
<1>1. Fresh \in Seq(SpiByte)
  BY SpiAssumption, Zenon
<1> QED
  BY <1>1 DEF RegOf, ChipOK

\* What chip has become with one more bit of sequence s, of which it had n.
Shifted(chip, s, n, new) ==
  LET m == (n + 1) \div Width
      whole == (n + 1) % Width = 0 /\ m > 2
      reg == <<chip.page, s[2]>>
  IN /\ ChipOK(new) /\ new.bits = FirstBits(s, n + 1)
     /\ ~whole => new.page = chip.page /\ new.regs = chip.regs /\ new.port = chip.port
     /\ whole /\ s[1] = WriteOp /\ s[2] = PageReg =>
          new.page = s[3] /\ new.regs = chip.regs /\ new.port = chip.port
     /\ whole /\ s[1] = WriteOp /\ s[2] # PageReg =>
          /\ new.page = chip.page /\ new.port = chip.port
          /\ new.regs = [r \in DOMAIN chip.regs \cup {reg} |->
                           IF r = reg THEN [i \in 1 .. m - 2 |-> s[i + 2]]
                           ELSE chip.regs[r]]
     /\ whole /\ s[1] = ReadOp =>
          /\ new.page = chip.page /\ new.regs = chip.regs
          /\ new.port = IF s[2] \in {PageReg, DataPort} THEN chip.port
                        ELSE RegOf(chip, chip.page, s[2])

\* A chip becomes that.
LEMMA ShiftSees ==
  ASSUME NEW chip, ChipOK(chip), NEW s \in Seq(SpiByte), NEW n \in Nat,
         n < Width * Len(s), chip.bits = FirstBits(s, n),
         NEW b, b = s[(n \div Width) + 1][(n % Width) + 1]
  PROVE  Shifted(chip, s, n, Shift(chip, b))
<1> DEFINE bits == Append(chip.bits, b)
           byte == BytesOf(bits)
           m == (n + 1) \div Width
           whole == (n + 1) % Width = 0 /\ m > 2
           data == SubSeq(byte, 3, Len(byte))
           reg == <<chip.page, byte[2]>>
           next == [chip EXCEPT !.bits = bits]
           new == Shift(chip, b)
<1>1. bits = FirstBits(s, n + 1) /\ Len(bits) = n + 1
  <2>1. bits = FirstBits(s, n + 1)
    BY MoreBits, Zenon
  <2>2. n + 1 \in Nat
    OBVIOUS
  <2>3. Len(FirstBits(s, n + 1)) = n + 1
    BY <2>2, MoreBits
  <2> QED
    BY <2>1, <2>3
<1>2. n + 1 \in Nat /\ n + 1 <= Width * Len(s)
  BY JobRules
<1>3. m \in Nat /\ m <= Len(s) /\ byte = [i \in 1 .. m |-> s[i]]
  BY <1>1, <1>2, WholeBytes
<1>4. Len(byte) = m
  BY <1>3
<1>5. new = IF ~whole \/ byte[1] \notin {ReadOp, WriteOp} THEN next
            ELSE IF byte[1] = WriteOp
            THEN IF byte[2] = PageReg THEN [next EXCEPT !.page = data[1]]
                 ELSE [next EXCEPT !.regs =
                         [r \in DOMAIN @ \cup {reg} |-> IF r = reg THEN data ELSE @[r]]]
            ELSE IF byte[2] \in {PageReg, DataPort} THEN next
                 ELSE [next EXCEPT !.port = RegOf(chip, chip.page, byte[2])]
  BY <1>1, <1>4 DEF Shift
<1>6. whole => byte[1] = s[1] /\ byte[2] = s[2] /\ data = [i \in 1 .. m - 2 |-> s[i + 2]]
                 /\ data[1] = s[3] /\ data \in Seq(SpiByte)
  <2>1. ASSUME m > 2 PROVE data = [i \in 1 .. m - 2 |-> s[i + 2]]
    BY <1>3, <1>4, <2>1
  <2> QED
    BY <1>3, <2>1
<1>7. ReadOp # WriteOp
  BY SpiAssumption, Zenon
<1>8. RegOf(chip, chip.page, byte[2]) \in Seq(SpiByte)
  BY RegBytes
<1>9. /\ chip.port \in Seq(SpiByte) /\ \A r \in DOMAIN chip.regs : chip.regs[r] \in Seq(SpiByte)
      /\ chip = [bits |-> chip.bits, page |-> chip.page, regs |-> chip.regs, port |-> chip.port]
  BY DEF ChipOK
<1> HIDE DEF bits, byte, m, data
<1>10. next = [bits |-> bits, page |-> chip.page, regs |-> chip.regs, port |-> chip.port]
  BY <1>9
<1> HIDE DEF whole, reg, next
<1> DEFINE after == [r \in DOMAIN chip.regs \cup {reg} |-> IF r = reg THEN data ELSE chip.regs[r]]
<1>11. \/ new = next /\ (~whole \/ byte[1] \notin {ReadOp, WriteOp}
                          \/ (byte[1] = ReadOp /\ byte[2] \in {PageReg, DataPort}))
       \/ /\ new = [bits |-> bits, page |-> data[1], regs |-> chip.regs, port |-> chip.port]
          /\ whole /\ byte[1] = WriteOp /\ byte[2] = PageReg
       \/ /\ new = [bits |-> bits, page |-> chip.page, regs |-> after, port |-> chip.port]
          /\ whole /\ byte[1] = WriteOp /\ byte[2] # PageReg
       \/ /\ new = [bits |-> bits, page |-> chip.page, regs |-> chip.regs,
                    port |-> RegOf(chip, chip.page, byte[2])]
          /\ whole /\ byte[1] = ReadOp /\ byte[2] \notin {PageReg, DataPort}
  BY <1>5, <1>7, <1>10
<1>12. ChipOK(new)
  <2>1. ASSUME NEW p, NEW o \in Seq(SpiByte)
        PROVE  ChipOK([bits |-> bits, page |-> p, regs |-> chip.regs, port |-> o])
    BY <1>9, <2>1 DEF ChipOK
  <2>2. whole => ChipOK([bits |-> bits, page |-> chip.page, regs |-> after, port |-> chip.port])
    BY <1>6, <1>9 DEF ChipOK
  <2>3. chip.port \in Seq(SpiByte)
    BY <1>9
  <2> QED
    BY <1>8, <1>10, <1>11, <2>1, <2>2, <2>3
<1> QED
  <2>1. new.bits = FirstBits(s, n + 1)
    BY <1>1, <1>10, <1>11
  <2>2. ~whole => new.page = chip.page /\ new.regs = chip.regs /\ new.port = chip.port
    BY <1>10, <1>11
  <2>3. whole /\ s[1] = WriteOp /\ s[2] = PageReg =>
          new.page = s[3] /\ new.regs = chip.regs /\ new.port = chip.port
    BY <1>6, <1>7, <1>11
  <2>4. whole /\ s[1] = WriteOp /\ s[2] # PageReg =>
          new.page = chip.page /\ new.port = chip.port /\ new.regs = after
    BY <1>6, <1>7, <1>11
  <2>5. whole => after = [r \in DOMAIN chip.regs \cup {<<chip.page, s[2]>>} |->
                            IF r = <<chip.page, s[2]>> THEN [i \in 1 .. m - 2 |-> s[i + 2]]
                            ELSE chip.regs[r]]
    BY <1>6 DEF reg
  <2>6. whole /\ s[1] = ReadOp =>
          /\ new.page = chip.page /\ new.regs = chip.regs
          /\ new.port = IF s[2] \in {PageReg, DataPort} THEN chip.port
                        ELSE RegOf(chip, chip.page, s[2])
    BY <1>6, <1>7, <1>10, <1>11
  <2> QED
    BY <1>12, <2>1, <2>2, <2>3, <2>4, <2>5, <2>6 DEF Shifted, whole, m

\* How the frames begin, and how long they are.
LEMMA FrameHead ==
  ASSUME JobOK, spi.phase # "none"
  PROVE  /\ spi.frame \in 1 .. 4 /\ spi.job.fn \in {"read", "write"} /\ spi.job.cs \in Cs
         /\ spi.job.addr \notin {PageReg, DataPort}
         /\ spi.job.data \in Seq(SpiByte) /\ Len(spi.job.data) \in Nat
         /\ LastFrame = IF spi.job.fn = "write" THEN 3 ELSE 4
         /\ spi.frame = 1 => Frame[1] = ReadOp /\ Frame[2] = PageReg
         /\ spi.frame = 2 => /\ Frame[1] = WriteOp /\ Frame[2] = PageReg
                             /\ Frame[3] = spi.job.page /\ Len(Frame) = 3
         /\ spi.frame = 3 /\ spi.job.fn = "write" =>
              /\ Frame[1] = WriteOp /\ Frame[2] = spi.job.addr
              /\ Len(Frame) = Len(spi.job.data) + 2
              /\ \A i \in 1 .. Len(spi.job.data) : Frame[i + 2] = spi.job.data[i]
         /\ spi.frame = 3 /\ spi.job.fn = "read" =>
              Frame[1] = ReadOp /\ Frame[2] = spi.job.addr
         /\ spi.frame = 4 =>
              /\ spi.job.fn = "read" /\ Frame[1] = ReadOp /\ Frame[2] = DataPort
              /\ Len(Frame) = Len(spi.job.data) + 2
<1> DEFINE j == spi.job
           fill == [i \in 1 .. Len(j.data) |-> Filler]
<1>1. j \in JobType /\ spi.frame \in 1 .. LastFrame
  BY JobRules DEF JobOK
<1>2. /\ j.fn \in {"read", "write"} /\ j.cs \in Cs /\ j.addr \notin {PageReg, DataPort}
      /\ j.data \in Seq(SpiByte)
  BY <1>1 DEF JobType
<1>3. Len(j.data) \in Nat
  BY <1>2
<1>4. LastFrame = IF j.fn = "write" THEN 3 ELSE 4
  BY <1>1, <1>2, FramesAre DEF LastFrame
<1>5. Filler \in SpiByte
  BY JobRules
<1>6. fill \in Seq(SpiByte) /\ Len(fill) = Len(j.data)
  BY <1>3, <1>5
<1>7. ASSUME spi.frame = 1 PROVE Frame[1] = ReadOp /\ Frame[2] = PageReg
  <2>1. Frame = <<ReadOp, PageReg, Filler>>
    BY <1>1, <1>7, FramesAre DEF Frame
  <2> QED
    BY <2>1
<1>8. ASSUME spi.frame = 2
      PROVE  Frame[1] = WriteOp /\ Frame[2] = PageReg /\ Frame[3] = j.page /\ Len(Frame) = 3
  <2>1. Frame = <<WriteOp, PageReg, j.page>>
    BY <1>1, <1>8, FramesAre DEF Frame
  <2> QED
    BY <2>1
<1>9. ASSUME spi.frame = 3, j.fn = "write"
      PROVE  /\ Frame[1] = WriteOp /\ Frame[2] = j.addr /\ Len(Frame) = Len(j.data) + 2
             /\ \A i \in 1 .. Len(j.data) : Frame[i + 2] = j.data[i]
  <2>1. Frame = <<WriteOp, j.addr>> \o j.data
    BY <1>1, <1>9, FramesAre DEF Frame
  <2> QED
    BY <1>2, <2>1, AfterTwo
<1> HIDE DEF fill
<1>10. ASSUME spi.frame = 3, j.fn = "read" PROVE Frame[1] = ReadOp /\ Frame[2] = j.addr
  <2>1. Frame = <<ReadOp, j.addr>> \o fill
    BY <1>1, <1>10, FramesAre DEF Frame, fill
  <2> QED
    BY <1>6, <2>1, AfterTwo
<1>11. ASSUME spi.frame = 4
       PROVE  /\ j.fn = "read" /\ Frame[1] = ReadOp /\ Frame[2] = DataPort
              /\ Len(Frame) = Len(j.data) + 2
  <2>1. j.fn = "read"
    BY <1>1, <1>2, <1>4, <1>11
  <2>2. Frame = <<ReadOp, DataPort>> \o fill
    BY <1>1, <1>11, <2>1, FramesAre DEF Frame, fill
  <2> QED
    BY <1>6, <2>1, <2>2, AfterTwo
<1>12. spi.frame \in 1 .. 4
  BY <1>1, <1>2, <1>4
<1> QED
  BY <1>2, <1>3, <1>4, <1>7, <1>8, <1>9, <1>10, <1>11, <1>12

\* What chip has become with the next bit of the frame.
Seen(chip, new) ==
  LET writing == spi.frame = 3 /\ spi.job.fn = "write"
  IN /\ ChipOK(new) /\ new.bits = FirstBits(Frame, spi.bit)
     /\ spi.frame # 2 => new.page = chip.page
     /\ spi.frame = 2 /\ spi.bit = LastBit => new.page = spi.job.page
     /\ ~writing => new.regs = chip.regs
     /\ writing =>
          \A r \in DOMAIN new.regs :
            r[2] = spi.job.addr \/ (r \in DOMAIN chip.regs /\ new.regs[r] = chip.regs[r])
     /\ writing /\ spi.bit = LastBit => RegOf(new, chip.page, spi.job.addr) = spi.job.data
     /\ spi.frame # 3 => new.port = chip.port
     /\ spi.frame = 3 /\ spi.job.fn = "read" /\ spi.bit = LastBit =>
          new.port = RegOf(chip, chip.page, spi.job.addr)

\* A chip that has the frame up to the bit that is sent next becomes that.
LEMMA FrameSees ==
  ASSUME JobOK, spi.phase # "none",
         NEW chip, ChipOK(chip), chip.bits = FirstBits(Frame, spi.bit - 1)
  PROVE  Seen(chip, Shift(chip, OutBit))
<1>20. PICK new : new = Shift(chip, OutBit)
  OBVIOUS
<1> DEFINE n == spi.bit - 1
           m == (n + 1) \div Width
           whole == (n + 1) % Width = 0 /\ m > 2
           j == spi.job
           reg == <<chip.page, Frame[2]>>
           data == [i \in 1 .. m - 2 |-> Frame[i + 2]]
<1>1. /\ Frame \in Seq(SpiByte) /\ Len(Frame) \in Nat /\ Len(Frame) > 2
      /\ spi.bit \in 1 .. LastBit /\ LastBit = Width * Len(Frame) /\ Width \in Nat \ {0}
  BY InJob, JobRules DEF JobOK, LastBit
<1>2. n \in Nat /\ n < Width * Len(Frame) /\ n + 1 = spi.bit
  BY <1>1
<1>3. OutBit = Frame[(n \div Width) + 1][(n % Width) + 1]
  BY DEF OutBit
<1>4. spi.bit = LastBit => whole /\ m = Len(Frame)
  <2>1. \A l \in Nat : (Width * l) \div Width = l /\ (Width * l) % Width = 0
    BY <1>1
  <2> QED
    BY <1>1, <1>2, <2>1
<1>5. ReadOp # WriteOp /\ PageReg # DataPort
  BY SpiAssumption, Zenon
<1> HIDE DEF n
<1>6. /\ ChipOK(new) /\ new.bits = FirstBits(Frame, n + 1)
      /\ ~whole => new.page = chip.page /\ new.regs = chip.regs /\ new.port = chip.port
      /\ whole /\ Frame[1] = WriteOp /\ Frame[2] = PageReg =>
           new.page = Frame[3] /\ new.regs = chip.regs /\ new.port = chip.port
      /\ whole /\ Frame[1] = WriteOp /\ Frame[2] # PageReg =>
           /\ new.page = chip.page /\ new.port = chip.port
           /\ new.regs = [r \in DOMAIN chip.regs \cup {reg} |->
                            IF r = reg THEN data ELSE chip.regs[r]]
      /\ whole /\ Frame[1] = ReadOp =>
           /\ new.page = chip.page /\ new.regs = chip.regs
           /\ new.port = IF Frame[2] \in {PageReg, DataPort} THEN chip.port
                         ELSE RegOf(chip, chip.page, Frame[2])
  <2>1. chip.bits = FirstBits(Frame, n)
    BY DEF n
  <2>2. Shifted(chip, Frame, n, new)
    BY <1>1, <1>2, <1>3, <1>20, <2>1, ShiftSees
  <2> QED
    BY <2>2 DEF Shifted
<1> HIDE DEF whole
<1>7. ASSUME spi.frame = 1 PROVE Seen(chip, new)
  BY <1>2, <1>5, <1>6, <1>7, FrameHead DEF Seen
<1>8. ASSUME spi.frame = 2 PROVE Seen(chip, new)
  BY <1>2, <1>4, <1>5, <1>6, <1>8, FrameHead DEF Seen
<1>9. ASSUME spi.frame = 3 /\ j.fn = "read" PROVE Seen(chip, new)
  BY <1>2, <1>4, <1>5, <1>6, <1>9, FrameHead DEF Seen
<1>10. ASSUME spi.frame = 4 PROVE Seen(chip, new)
  BY <1>2, <1>5, <1>6, <1>10, FrameHead DEF Seen
<1>11. ASSUME spi.frame = 3 /\ j.fn = "write" PROVE Seen(chip, new)
  <2>1. /\ Frame[1] = WriteOp /\ Frame[2] = j.addr /\ j.addr # PageReg
        /\ j.data \in Seq(SpiByte) /\ Len(Frame) = Len(j.data) + 2
        /\ \A i \in 1 .. Len(j.data) : Frame[i + 2] = j.data[i]
    BY <1>11, FrameHead
  <2>2. /\ new.page = chip.page /\ new.port = chip.port
        /\ whole => new.regs = [r \in DOMAIN chip.regs \cup {reg} |->
                                  IF r = reg THEN data ELSE chip.regs[r]]
        /\ ~whole => new.regs = chip.regs
    BY <1>6, <2>1
  <2>3. spi.bit = LastBit => data = j.data
    <3>1. ASSUME m = Len(Frame) PROVE data = j.data
      <4>1. m - 2 = Len(j.data) /\ Len(j.data) \in Nat
        BY <2>1, <3>1
      <4>2. data = [i \in 1 .. Len(j.data) |-> j.data[i]]
        BY <2>1, <4>1
      <4>3. j.data = [i \in 1 .. Len(j.data) |-> j.data[i]]
        BY <2>1
      <4> QED
        BY <4>2, <4>3, Zenon
    <3> QED
      BY <1>4, <3>1
  <2> HIDE DEF data
  <2>4. \A r \in DOMAIN new.regs :
          r[2] = j.addr \/ (r \in DOMAIN chip.regs /\ new.regs[r] = chip.regs[r])
    BY <2>1, <2>2
  <2>5. spi.bit = LastBit => RegOf(new, chip.page, j.addr) = j.data
    BY <1>4, <2>1, <2>2, <2>3 DEF RegOf
  <2> QED
    BY <1>2, <1>6, <1>11, <2>2, <2>4, <2>5 DEF Seen
<1>12. /\ spi.frame = 1 \/ spi.frame = 2 \/ spi.frame = 3 \/ spi.frame = 4
       /\ j.fn = "read" \/ j.fn = "write"
  BY FrameHead
<1> QED
  BY <1>7, <1>8, <1>9, <1>10, <1>11, <1>12, <1>20

-----------------------------------------------------------------------------
(* What the chips see of a job.                                            *)

\* The pins as they are.
Now == mem[FPGA_SPI_RW]

\* The access of the phase has been made.
Applied == pc[Driver] \in {"unlock", "return"}

\* How many bits of the frame have been clocked.
Clocked ==
  IF spi.phase \in {"releaseR", "releaseW"} THEN LastBit
  ELSE IF spi.phase = "sample" \/ (spi.phase = "high" /\ Applied) THEN spi.bit
  ELSE spi.bit - 1

\* A chip is selected, unless a read of the pins has failed.
InFrame ==
  \/ spi.phase \in {"lowR", "lowW", "data", "high", "sample", "releaseR"}
  \/ spi.phase = "selectW" /\ Applied
  \/ spi.phase = "releaseW" /\ ~Applied

\* The other cores do not write the pins.
OthersCall == \A c \in Core \ {Driver} : pc[c] # "idle" => call[c] \in Calls

ChipsOK == chips = [x \in Cs |-> chips[x]] /\ \A x \in Cs : ChipOK(chips[x])

\* Only the chip of the job is selected, and that within a frame only.  It has as
\* much of the frame as was clocked.
SelectOK ==
  \A x \in Cs :
    /\ Now.ss[x] = 0 =>
         InFrame /\ x = spi.job.cs /\ chips[x].bits = FirstBits(Frame, Clocked)
    /\ Now.ss[x] = 1 => chips[x].bits = <<>>

\* The driver's copy of the pins selects no chip that the pins do not, and moves
\* the clock and the data one after the other.
CopyOK ==
  spi.phase \in Writing =>
    /\ \A x \in Cs : spi.reg.ss[x] = 0 => x = spi.job.cs /\ spi.phase # "selectW"
    /\ spi.phase = "lowW" => \A x \in Cs : spi.reg.ss[x] = 0 => Now.ss[x] = 0
    /\ spi.phase \in {"data", "high"} \/ (spi.phase = "lowW" /\ Applied) =>
         Now.ss = spi.reg.ss /\ ((spi.phase = "high" /\ Applied) \/ Now.sck = 0)
    /\ spi.phase \in {"data", "high"} => spi.reg.sck = 0
    /\ spi.phase = "high" => spi.reg.mosi = OutBit

\* A read that has not failed has the pins.
ReadOK ==
  spi.phase \in Reading /\ Applied /\ got[Driver] # Failed => got[Driver] = Shown(FPGA_SPI_RW)

Sending == OthersCall /\ ChipsOK /\ SelectOK /\ CopyOK /\ ReadOK

\* A step that neither the chips nor the driver notice.
PinsStill ==
  /\ Now' = Now /\ UNCHANGED <<spi, chips>>
  /\ spi.phase \in Writing => (Applied' <=> Applied)

\* The driver's write reaches the pins.
PinsMove ==
  /\ spi.phase \in Writing /\ ~Applied /\ Applied'
  /\ Now' = Driven[spi.phase]
  /\ chips' = [x \in Cs |-> React(x, Now, Now')]
  /\ UNCHANGED spi

\* The driver goes on, and the bus stands still.
DriverMoves == (StartJob \/ PinsAccessed \/ EndJob) /\ Now' = Now /\ UNCHANGED chips

\* Chips do not react to pins that stay.
LEMMA ChipsStay ==
  ASSUME Inv, ChipsOK, SelectOK, Now' = Now, ChipsFollow \/ UNCHANGED chips
  PROVE  UNCHANGED chips
<1>1. CASE UNCHANGED chips
  BY <1>1
<1>2. CASE ChipsFollow
  <2>1. Now \in Pins
    BY DEF Inv, Shape, Now
  <2>2. ASSUME NEW x \in Cs PROVE React(x, Now, Now) = chips[x]
    <3>1. Now.ss[x] \in {0, 1} /\ Now.sck \in {0, 1} /\ ChipOK(chips[x])
      BY <2>1 DEF Pins, Bit, ChipsOK
    <3>2. CASE Now.ss[x] = 1
      <4>1. chips[x].bits = <<>>
        BY <3>2 DEF SelectOK
      <4>2. [chips[x] EXCEPT !.bits = <<>>] = chips[x]
        BY <3>1, <4>1 DEF ChipOK
      <4> QED
        BY <3>2, <4>2 DEF React
    <3>3. CASE Now.ss[x] = 0
      BY <3>1, <3>3 DEF React
    <3> QED
      BY <3>1, <3>2, <3>3
  <2>3. chips' = [x \in Cs |-> React(x, Now, Now)]
    BY <1>2 DEF ChipsFollow, Now
  <2> QED
    BY <2>2, <2>3 DEF ChipsOK
<1> QED
  BY <1>1, <1>2

\* A step of another core, or of the controller, leaves the pins alone.
LEMMA OtherStep ==
  ASSUME Inv, OthersCall, NEW c \in Core \ {Driver},
         CoreStep(c) \/ LockStep(c) \/ OtherCall(c) \/ OtherReturn(c)
  PROVE  /\ Now' = Now /\ UNCHANGED <<spi, done>> /\ ChipsFollow /\ OthersCall'
         /\ pc'[Driver] = pc[Driver] /\ got'[Driver] = got[Driver]
<1>1. ChipsFollow /\ UNCHANGED <<spi, done>>
  BY DEF CoreStep, LockStep, OtherCall, OtherReturn, ChipsFollow
<1>2. /\ \A d \in Core \ {c} : pc'[d] = pc[d] /\ call'[d] = call[d] /\ got'[d] = got[d]
      /\ call'[c] = call[c] \/ call'[c] \in Calls \/ pc'[c] = "idle"
      /\ pc[c] # "idle" \/ call'[c] \in Calls
      /\ mem' = mem \/ (WriteCommand(c) /\ mem' = [mem EXCEPT ![address] = wdata])
  <2>1. /\ pc = [d \in Core |-> pc[d]] /\ call = [d \in Core |-> call[d]]
        /\ got = [d \in Core |-> got[d]]
    BY DEF Inv, Shape
  <2>2. CASE CoreStep(c)
    BY <2>1, <2>2 DEF CoreStep, Inside, Unlock, LocalLow, ReadHigh, WriteHigh, SetAddress, WriteCommand,
         ReadCommand, Poll, Timeout, Fetch, Goto
  <2>3. CASE LockStep(c)
    BY <2>1, <2>3 DEF LockStep, Lock, Goto
  <2>4. CASE OtherCall(c)
    BY <2>1, <2>4 DEF OtherCall, Begin, Goto
  <2>5. CASE OtherReturn(c)
    BY <2>1, <2>5 DEF OtherReturn, Return, Goto
  <2> QED
    BY <2>2, <2>3, <2>4, <2>5
<1>3. Now' = Now
  <2>1. CASE mem' = mem
    BY <2>1 DEF Now
  <2>2. CASE WriteCommand(c) /\ mem' = [mem EXCEPT ![address] = wdata]
    <3>1. pc[c] = "command" /\ call[c].op = "subc_write"
      BY <2>2 DEF WriteCommand
    <3>2. address = call[c].addr /\ call[c] \in Calls
      BY <3>1 DEF Inv, Served, ServedAt, OthersCall
    <3>3. address # FPGA_SPI_RW
      BY <3>1, <3>2, CallRules
    <3> QED
      BY <2>2, <3>3, CallRules DEF Now, Inv, Shape
  <2> QED
    BY <1>2, <2>1, <2>2
<1>4. OthersCall'
  BY <1>2 DEF OthersCall
<1>5. Driver \in Core \ {c}
  BY CallRules
<1> QED
  BY <1>1, <1>2, <1>3, <1>4, <1>5

\* A step of the driver within an access.
LEMMA DriverStep ==
  ASSUME Inv, OthersCall, CoreStep(Driver) \/ LockStep(Driver)
  PROVE  /\ UNCHANGED <<spi, done>> /\ ChipsFollow /\ OthersCall'
         /\ \/ /\ Now' = Now /\ pc[Driver] = "unlock" /\ Applied' /\ got'[Driver] = got[Driver]
            \/ /\ Now' = Now /\ ~Applied /\ ~Applied'
            \/ /\ Now' = Now /\ ~Applied /\ Applied' /\ spi.phase \in Reading
               /\ got'[Driver] \in {Failed, Shown(FPGA_SPI_RW)}
            \/ /\ spi.phase \in Writing /\ ~Applied /\ Applied' /\ Now' = Driven[spi.phase]
<1>1. /\ Driver \in Core /\ FPGA_SPI_RW \in Addr
  BY CallRules
<1>2. ChipsFollow /\ UNCHANGED <<spi, done>>
  BY DEF CoreStep, LockStep, ChipsFollow
<1>3. /\ pc = [d \in Core |-> pc[d]] /\ call = [d \in Core |-> call[d]]
      /\ got = [d \in Core |-> got[d]] /\ mem = [a \in Addr |-> mem[a]]
  BY DEF Inv, Shape
<1>4. pc[Driver] # "idle"
  BY DEF CoreStep, Inside, Unlock, LocalLow, ReadHigh, WriteHigh, SetAddress, WriteCommand,
         ReadCommand, Poll, Timeout, Fetch, LockStep, Lock
<1>5. spi.phase \in Reading \cup Writing /\ call[Driver] = Access
  BY <1>4 DEF Inv, Driving
<1>6. /\ call[Driver].op = IF spi.phase \in Reading THEN "subc_read" ELSE "subc_write"
      /\ call[Driver].addr = FPGA_SPI_RW
      /\ spi.phase \notin Reading => call[Driver].val = Driven[spi.phase]
  BY <1>5 DEF Access
<1>7. \A c \in Core \ {Driver} : pc'[c] = pc[c] /\ call'[c] = call[c]
  BY <1>3 DEF CoreStep, Inside, Unlock, LocalLow, ReadHigh, WriteHigh, SetAddress, WriteCommand,
         ReadCommand, Poll, Timeout, Fetch, LockStep, Lock, Goto
<1>8. OthersCall'
  BY <1>7 DEF OthersCall
<1>9. ~LocalLow(Driver) /\ ~ReadHigh(Driver) /\ ~WriteHigh(Driver) /\ ~Local(Driver)
  <2>1. ~Local(Driver)
    BY <1>6 DEF Local
  <2>2. pc[Driver] \notin {"low", "readhigh", "writehigh"}
    BY <1>1, <2>1 DEF Inv, Located, LocatedAt, Local
  <2> QED
    BY <2>1, <2>2 DEF LocalLow, ReadHigh, WriteHigh
<1>10. CASE Unlock(Driver)
  BY <1>1, <1>2, <1>3, <1>8, <1>10 DEF Unlock, Goto, Applied, Now
<1>11. CASE LockStep(Driver) \/ SetAddress(Driver) \/ ReadCommand(Driver) \/ Poll(Driver)
  BY <1>1, <1>2, <1>3, <1>8, <1>9, <1>11
     DEF LockStep, Lock, SetAddress, ReadCommand, Poll, Goto, Applied, Now
<1>12. CASE Timeout(Driver)
  <2>1. pc[Driver] = "poll" /\ UNCHANGED mem
    BY <1>12 DEF Timeout
  <2>2. spi.phase \in Reading
    BY <1>1, <1>6, <2>1 DEF Inv, Located, LocatedAt
  <2>3. pc'[Driver] = "lock" \/ (pc'[Driver] = "return" /\ got'[Driver] = Failed)
    BY <1>1, <1>3, <1>12 DEF Timeout, Goto
  <2> QED
    BY <1>2, <1>8, <2>1, <2>2, <2>3 DEF Applied, Now
<1>13. CASE Fetch(Driver)
  <2>1. pc[Driver] = "fetch" /\ UNCHANGED mem /\ pc'[Driver] = "unlock" /\ got'[Driver] = rdata
    BY <1>1, <1>3, <1>13 DEF Fetch, Goto
  <2>2. spi.phase \in Reading
    BY <1>1, <1>6, <2>1 DEF Inv, Located, LocatedAt
  <2>3. rdata = Shown(FPGA_SPI_RW)
    BY <1>1, <1>6, <2>1 DEF Inv, Served, ServedAt
  <2> QED
    BY <1>2, <1>8, <2>1, <2>2, <2>3 DEF Applied, Now
<1>14. CASE WriteCommand(Driver)
  <2>1. /\ pc[Driver] = "command" /\ call[Driver].op = "subc_write"
        /\ pc'[Driver] = "unlock" /\ mem' = [mem EXCEPT ![address] = wdata]
    BY <1>1, <1>3, <1>14 DEF WriteCommand, Goto
  <2>2. address = FPGA_SPI_RW /\ wdata = call[Driver].val
    BY <1>1, <1>6, <2>1 DEF Inv, Served, ServedAt
  <2>3. spi.phase \in Writing /\ wdata = Driven[spi.phase]
    BY <1>5, <1>6, <2>1, <2>2
  <2>4. Now' = Driven[spi.phase]
    BY <1>1, <1>3, <2>1, <2>2, <2>3 DEF Now
  <2> QED
    BY <1>2, <1>8, <2>1, <2>3, <2>4 DEF Applied
<1> QED
  BY <1>9, <1>10, <1>11, <1>12, <1>13, <1>14 DEF CoreStep, Inside

\* Every step is of one of these kinds, and reads of the pins are right.
LEMMA StepKinds ==
  ASSUME Inv, OthersCall, ChipsOK, SelectOK, ReadOK, [Next]_vars
  PROVE  OthersCall' /\ ReadOK' /\ (PinsStill \/ PinsMove \/ DriverMoves)
<1>1. Driver \in Core /\ FPGA_SPI_RW \in Addr /\ Now \in Pins
  BY CallRules DEF Inv, Shape, Now
<1>2. Reading \cap Writing = {}
  BY DEF Reading, Writing
<1>3. ASSUME Now' = Now, ChipsFollow \/ UNCHANGED chips
      PROVE  Shown(FPGA_SPI_RW)' = Shown(FPGA_SPI_RW) /\ UNCHANGED chips
  BY <1>1, <1>3, PinsStay, ChipsStay DEF Now
<1>4. ASSUME Now' = Now, UNCHANGED spi, ChipsFollow \/ UNCHANGED chips,
             pc'[Driver] = pc[Driver], got'[Driver] = got[Driver]
      PROVE  ReadOK' /\ PinsStill
  BY <1>3, <1>4 DEF ReadOK, PinsStill, Applied
<1>5. ASSUME Now' = Now, UNCHANGED chips, StartJob \/ PinsAccessed \/ EndJob,
             UNCHANGED call, pc'[Driver] = "idle",
             \A c \in Core \ {Driver} : pc'[c] = pc[c]
      PROVE  OthersCall' /\ ReadOK' /\ DriverMoves
  BY <1>5 DEF ReadOK, Applied, OthersCall, DriverMoves
<1>6. CASE StartJob \/ EndJob
  <2>1. pc[Driver] = "idle"
    BY <1>6 DEF StartJob, EndJob, Inv, Driving, Reading, Writing
  <2>2. UNCHANGED <<slbVars, chips>>
    BY <1>6 DEF StartJob, EndJob
  <2> QED
    BY <1>5, <1>6, <2>1, <2>2 DEF slbVars, Now
<1>7. CASE PinsAccessed
  <2>1. Return(Driver) /\ UNCHANGED chips
    BY <1>7 DEF PinsAccessed
  <2>2. /\ pc'[Driver] = "idle" /\ UNCHANGED mem
        /\ \A c \in Core \ {Driver} : pc'[c] = pc[c] /\ call'[c] = call[c]
    BY <1>1, <2>1 DEF Return, Goto, Inv, Shape
  <2> QED
    BY <1>7, <2>1, <2>2 DEF ReadOK, Applied, OthersCall, DriverMoves, Now
<1>8. CASE AccessPins
  <2>1. Begin(Driver, Access) /\ UNCHANGED <<spi, chips>>
    BY <1>8 DEF AccessPins
  <2>2. /\ pc[Driver] = "idle" /\ pc'[Driver] = "lock" /\ UNCHANGED mem
        /\ \A c \in Core \ {Driver} : pc'[c] = pc[c] /\ call'[c] = call[c]
    BY <1>1, <2>1 DEF Begin, Goto, Inv, Shape
  <2> QED
    BY <2>1, <2>2 DEF ReadOK, Applied, OthersCall, PinsStill, Now
<1>9. CASE Answered
  <2>1. UNCHANGED <<spi, pc, got, call, mem>> /\ ChipsFollow
    BY <1>9 DEF Answered, Answer, ChipsFollow
  <2> QED
    BY <1>4, <2>1 DEF Now, OthersCall
<1>13. CASE AnsweredLate
  <2>1. UNCHANGED <<spi, pc, got, call, mem>> /\ ChipsFollow
    BY <1>13 DEF AnsweredLate, LateAnswer, ChipsFollow
  <2> QED
    BY <1>4, <2>1 DEF Now, OthersCall
<1>10. ASSUME NEW c \in Core \ {Driver},
              CoreStep(c) \/ LockStep(c) \/ OtherCall(c) \/ OtherReturn(c)
       PROVE  OthersCall' /\ ReadOK' /\ PinsStill
  BY <1>4, <1>10, OtherStep
<1>11. CASE CoreStep(Driver) \/ LockStep(Driver)
  <2>1. UNCHANGED spi /\ ChipsFollow /\ OthersCall'
    BY <1>11, DriverStep
  <2>2. CASE Now' = Now /\ pc[Driver] = "unlock" /\ Applied' /\ got'[Driver] = got[Driver]
    <3>1. Applied
      BY <2>2 DEF Applied
    <3> QED
      BY <1>3, <2>1, <2>2, <3>1 DEF ReadOK, PinsStill
  <2>3. CASE Now' = Now /\ ~Applied /\ ~Applied'
    BY <1>3, <2>1, <2>3 DEF ReadOK, PinsStill
  <2>4. CASE /\ Now' = Now /\ ~Applied /\ Applied' /\ spi.phase \in Reading
             /\ got'[Driver] \in {Failed, Shown(FPGA_SPI_RW)}
    BY <1>2, <1>3, <2>1, <2>4 DEF ReadOK, PinsStill
  <2>5. CASE spi.phase \in Writing /\ ~Applied /\ Applied' /\ Now' = Driven[spi.phase]
    BY <1>2, <2>1, <2>5 DEF ReadOK, PinsMove, ChipsFollow, Now
  <2> QED
    BY <1>11, <2>1, <2>2, <2>3, <2>4, <2>5, DriverStep
<1>12. CASE UNCHANGED vars
  BY <1>4, <1>12 DEF vars, slbVars, Now, OthersCall
<1> QED
  BY <1>6, <1>7, <1>8, <1>9, <1>10, <1>11, <1>12, <1>13 DEF Next

\* In a frame the pins and the driver's copy of them are pins.
LEMMA PinsAre ==
  ASSUME NEW p \in Pins
  PROVE  p.sck \in {0, 1} /\ \A x \in Cs : p.ss[x] \in {0, 1}
BY DEF Pins, Bit

\* Nothing that the chips see depends on more than the driver and the pins.
LEMMA StillKeeps ==
  ASSUME ChipsOK, SelectOK, CopyOK, PinsStill
  PROVE  ChipsOK' /\ SelectOK' /\ CopyOK'
<1>1. UNCHANGED <<spi, chips>> /\ Now' = Now /\ (spi.phase \in Writing => (Applied' <=> Applied))
  BY DEF PinsStill
<1>2. Frame' = Frame /\ LastBit' = LastBit /\ OutBit' = OutBit
  BY <1>1 DEF Frame, Frames, LastBit, OutBit
<1>3. Clocked' = Clocked /\ (InFrame' <=> InFrame)
  BY <1>1, <1>2 DEF Clocked, InFrame, Writing
<1>4. ChipsOK'
  BY <1>1 DEF ChipsOK
<1>5. SelectOK'
  BY <1>1, <1>2, <1>3 DEF SelectOK, FirstBits
<1>6. CopyOK'
  BY <1>1, <1>2 DEF CopyOK
<1> QED
  BY <1>4, <1>5, <1>6

\* A chip that is not selected, or is being selected, has nothing of a frame.
ChipIdle(x) ==
  /\ chips'[x] = [chips[x] EXCEPT !.bits = <<>>]
  /\ Now'.ss[x] = 1 \/ (Now'.ss[x] = 0 /\ spi.phase = "selectW" /\ x = spi.job.cs)

\* A chip that is selected sees no rising clock.
ChipWaits(x) ==
  /\ spi.phase \in {"lowW", "data"} /\ x = spi.job.cs /\ Now.ss[x] = 0 /\ Now'.ss[x] = 0
  /\ chips'[x] = chips[x] /\ chips[x].bits = FirstBits(Frame, spi.bit - 1)

\* A chip that is selected takes the next bit of the frame.
ChipTakes(x) ==
  /\ spi.phase = "high" /\ x = spi.job.cs /\ Now.ss[x] = 0 /\ Now'.ss[x] = 0
  /\ Seen(chips[x], chips'[x])

\* What the driver writes, phase by phase.
LEMMA PinsWritten ==
  ASSUME JobOK, spi.phase # "none", spi.reg \in Pins, CopyOK, PinsMove
  PROVE  /\ spi.phase = "selectW" =>
              \A x \in Cs : Now'.ss[x] = IF x = spi.job.cs THEN 0 ELSE 1
         /\ spi.phase \in {"lowW", "data", "high"} => Now'.ss = spi.reg.ss
         /\ spi.phase \in {"lowW", "data"} => Now'.sck = 0
         /\ spi.phase = "high" => Now'.sck = 1 /\ Now'.mosi = OutBit
         /\ spi.phase = "releaseW" => \A x \in Cs : Now'.ss[x] = 1
<1>1. \A x \in Cs : spi.reg.ss[x] \in {0, 1}
  BY PinsAre
<1>2. /\ spi.phase \in Writing /\ Now' = Driven[spi.phase] /\ spi.job.cs \in Cs
      /\ \A x \in Cs : spi.reg.ss[x] = 0 => x = spi.job.cs /\ spi.phase # "selectW"
      /\ spi.phase \in {"data", "high"} => spi.reg.sck = 0
      /\ spi.phase = "high" => spi.reg.mosi = OutBit
  BY FrameHead DEF PinsMove, CopyOK
<1>3. CASE spi.phase = "selectW"
  <2>1. Now' = [spi.reg EXCEPT !.ss[spi.job.cs] = 0]
    BY <1>2, <1>3 DEF Driven, Select
  <2> QED
    BY <1>1, <1>2, <1>3, <2>1 DEF Pins
<1>4. CASE spi.phase = "lowW"
  BY <1>2, <1>4 DEF Driven, Pins
<1>5. CASE spi.phase = "data"
  BY <1>2, <1>5 DEF Driven, Pins, PutBit
<1>6. CASE spi.phase = "high"
  BY <1>2, <1>6 DEF Driven, Pins
<1>7. CASE spi.phase = "releaseW"
  <2>1. Now' = [spi.reg EXCEPT !.ss[spi.job.cs] = 1]
    BY <1>2, <1>7 DEF Driven, Deselect
  <2> QED
    BY <1>1, <1>2, <1>7, <2>1 DEF Pins
<1> QED
  BY <1>2, <1>3, <1>4, <1>5, <1>6, <1>7 DEF Writing

\* What becomes of a chip.
LEMMA ChipMoves ==
  ASSUME JobOK, spi.phase # "none", spi.reg \in Pins, Now \in Pins, ChipsOK, SelectOK, CopyOK,
         PinsMove, NEW x \in Cs
  PROVE  ChipIdle(x) \/ ChipWaits(x) \/ ChipTakes(x)
<1>1. /\ spi.phase \in Writing /\ ~Applied /\ chips'[x] = React(x, Now, Now')
  BY DEF PinsMove
<1>2. /\ Now.ss[x] \in {0, 1} /\ Now.sck \in {0, 1} /\ spi.reg.ss[x] \in {0, 1}
      /\ spi.job.cs \in Cs
  BY PinsAre, FrameHead
<1>3. Now.ss[x] = 0 => InFrame /\ x = spi.job.cs /\ chips[x].bits = FirstBits(Frame, Clocked)
  BY DEF SelectOK
<1>4. CASE spi.phase = "selectW"
  <2>1. Now.ss[x] = 1
    BY <1>1, <1>2, <1>3, <1>4 DEF InFrame
  <2> QED
    BY <1>1, <1>4, <2>1, PinsWritten DEF ChipIdle, React
<1>5. CASE spi.phase = "releaseW"
  BY <1>1, <1>5, PinsWritten DEF ChipIdle, React
<1>6. CASE spi.phase \in {"lowW", "data", "high"} /\ spi.reg.ss[x] = 1
  <2>1. Now'.ss[x] = 1
    BY <1>6, PinsWritten
  <2> QED
    BY <1>1, <2>1 DEF ChipIdle, React
<1>7. CASE spi.phase \in {"lowW", "data", "high"} /\ spi.reg.ss[x] = 0
  <2>1. Now'.ss[x] = 0 /\ Now.ss[x] = 0
    BY <1>1, <1>7, PinsWritten DEF CopyOK
  <2>2. x = spi.job.cs /\ chips[x].bits = FirstBits(Frame, spi.bit - 1)
    BY <1>1, <1>3, <1>7, <2>1 DEF Clocked
  <2>3. CASE spi.phase = "high"
    <3>1. Now.sck = 0 /\ Now'.sck = 1 /\ Now'.mosi = OutBit
      BY <1>1, <2>3, PinsWritten DEF CopyOK
    <3>2. chips'[x] = Shift(chips[x], OutBit)
      BY <1>1, <2>1, <3>1 DEF React
    <3>3. Seen(chips[x], Shift(chips[x], OutBit))
      BY <2>2, FrameSees DEF ChipsOK
    <3> QED
      BY <2>1, <2>2, <2>3, <3>2, <3>3 DEF ChipTakes
  <2>4. CASE spi.phase \in {"lowW", "data"}
    <3>1. Now'.sck = 0
      BY <2>4, PinsWritten
    <3>2. chips'[x] = chips[x]
      BY <1>1, <2>1, <3>1 DEF React
    <3> QED
      BY <2>1, <2>2, <2>4, <3>2 DEF ChipWaits
  <2> QED
    BY <1>7, <2>3, <2>4
<1> QED
  BY <1>1, <1>2, <1>4, <1>5, <1>6, <1>7 DEF Writing

\* A write of the driver keeps what the chips see in step with its frame.
LEMMA MoveKeeps ==
  ASSUME JobOK, spi.phase # "none", spi.reg \in Pins, Now \in Pins, ChipsOK, SelectOK, CopyOK,
         PinsMove
  PROVE  ChipsOK' /\ SelectOK' /\ CopyOK'
<1>1. /\ spi.phase \in Writing /\ ~Applied /\ Applied' /\ UNCHANGED spi
      /\ chips' = [x \in Cs |-> React(x, Now, Now')]
  BY DEF PinsMove
<1>2. Frame' = Frame /\ LastBit' = LastBit /\ OutBit' = OutBit
  BY <1>1 DEF Frame, Frames, LastBit, OutBit
<1>3. ASSUME NEW x \in Cs
      PROVE  /\ ChipOK(chips'[x])
             /\ Now'.ss[x] = 1 => chips'[x].bits = <<>>
             /\ Now'.ss[x] = 0 => /\ InFrame' /\ x = spi.job.cs
                                  /\ chips'[x].bits = FirstBits(Frame, Clocked')
  <2>1. ChipOK(chips[x])
    BY DEF ChipsOK
  <2>2. CASE ChipIdle(x)
    <3>1. chips'[x].bits = <<>> /\ ChipOK(chips'[x])
      BY <2>1, <2>2 DEF ChipIdle, ChipOK
    <3>2. ASSUME Now'.ss[x] = 0
          PROVE  InFrame' /\ x = spi.job.cs /\ chips'[x].bits = FirstBits(Frame, Clocked')
      <4>1. spi.phase = "selectW" /\ x = spi.job.cs
        BY <2>2, <3>2 DEF ChipIdle
      <4>2. InFrame' /\ Clocked' = spi.bit - 1 /\ spi.bit = 1
        BY <1>1, <4>1 DEF InFrame, Clocked, JobOK
      <4>3. FirstBits(Frame, 0) = <<>>
        BY DEF FirstBits
      <4> QED
        BY <3>1, <4>1, <4>2, <4>3
    <3> QED
      BY <3>1, <3>2
  <2>3. CASE ChipWaits(x)
    <3>1. InFrame' /\ Clocked' = spi.bit - 1
      BY <1>1, <2>3 DEF InFrame, Clocked, ChipWaits
    <3> QED
      BY <2>1, <2>3, <3>1 DEF ChipWaits
  <2>4. CASE ChipTakes(x)
    <3>1. InFrame' /\ Clocked' = spi.bit
      BY <1>1, <2>4 DEF InFrame, Clocked, ChipTakes
    <3> QED
      BY <2>4, <3>1 DEF ChipTakes, Seen
  <2> QED
    BY <2>2, <2>3, <2>4, ChipMoves
<1>4. ChipsOK'
  BY <1>1, <1>3 DEF ChipsOK
<1>5. SelectOK'
  BY <1>1, <1>2, <1>3 DEF SelectOK, FirstBits
<1>6. CopyOK'
  <2>1. spi.phase \in {"lowW", "data", "high"} => Now'.ss = spi.reg.ss
    BY PinsWritten
  <2>2. spi.phase \in {"lowW", "data"} => Now'.sck = 0
    BY PinsWritten
  <2> QED
    BY <1>1, <1>2, <2>1, <2>2 DEF CopyOK
<1> QED
  BY <1>4, <1>5, <1>6

\* Before and after a job no chip is selected.
LEMMA JobKeeps ==
  ASSUME Now \in Pins, ChipsOK, SelectOK, DriverMoves, StartJob \/ EndJob
  PROVE  ChipsOK' /\ SelectOK' /\ CopyOK'
<1>1. /\ spi.phase \in {"none", "done"} /\ spi'.phase \in {"selectR", "none"}
      /\ UNCHANGED chips /\ Now' = Now
  <2>1. UNCHANGED chips /\ Now' = Now
    BY DEF DriverMoves
  <2>2. CASE StartJob
    BY <2>1, <2>2 DEF StartJob, NoJob
  <2>3. CASE EndJob
    BY <2>1, <2>3 DEF EndJob, NoJob
  <2> QED
    BY <2>2, <2>3
<1>2. \A x \in Cs : Now.ss[x] = 1 /\ chips[x].bits = <<>>
  BY <1>1, PinsAre DEF SelectOK, InFrame
<1>3. ChipsOK' /\ SelectOK'
  BY <1>1, <1>2 DEF ChipsOK, SelectOK
<1>4. CopyOK'
  BY <1>1 DEF CopyOK, Writing
<1> QED
  BY <1>3, <1>4

\* Where the driver is after an access, and what it knows.
LEMMA AfterAccess ==
  ASSUME Inv, ReadOK, PinsAccessed
  PROVE  /\ Applied /\ ~Applied' /\ JobOK /\ spi.phase # "none"
         /\ spi.phase \in Reading /\ got[Driver] # Failed => got[Driver] = Shown(FPGA_SPI_RW)
         /\ spi'.phase \in {"selectW", "lowW", "releaseW"} =>
              spi'.reg = IF got[Driver] = Failed THEN AllOnes ELSE got[Driver]
         /\ spi'.phase = "data" => spi'.reg = [spi.reg EXCEPT !.sck = 0]
         /\ spi'.phase = "high" => spi'.reg = PutBit(spi.reg)
         /\ spi'.phase # "selectR" => Frame' = Frame /\ LastBit' = LastBit
         /\ spi'.phase \notin {"selectR", "lowR", "releaseR"} => OutBit' = OutBit
         /\ \/ spi.phase = "selectR" /\ spi'.phase = "selectW"
            \/ spi.phase = "selectW" /\ spi'.phase = "lowR"
            \/ spi.phase = "lowR" /\ spi'.phase = "lowW"
            \/ spi.phase = "lowW" /\ spi'.phase = "data"
            \/ spi.phase = "data" /\ spi'.phase = "high"
            \/ spi.phase = "high" /\ spi'.phase = "sample"
            \/ /\ spi.phase = "sample" /\ spi'.phase = "lowR" /\ spi.bit < LastBit
               /\ spi'.bit = spi.bit + 1
            \/ /\ spi.phase = "sample" /\ spi'.phase = "releaseR" /\ spi.bit = LastBit
               /\ spi'.bit = 1
            \/ spi.phase = "releaseR" /\ spi'.phase = "releaseW"
            \/ /\ spi.phase = "releaseW" /\ spi'.phase = "selectR" /\ spi.frame < LastFrame
               /\ spi'.frame = spi.frame + 1
            \/ spi.phase = "releaseW" /\ spi'.phase = "done"
         /\ spi.phase # "sample" => spi'.bit = spi.bit
         /\ spi'.phase # "selectR" => spi'.frame = spi.frame
         /\ spi'.job = spi.job
<1>1. pc[Driver] = "return" /\ pc'[Driver] = "idle"
  BY CallRules DEF PinsAccessed, Return, Goto, Inv, Shape
<1>2. Applied /\ ~Applied'
  BY <1>1 DEF Applied
<1>3. /\ spi.phase \in Reading \cup Writing /\ spi'.phase = Following[spi.phase]
      /\ spi'.job = spi.job
      /\ spi'.frame = IF spi'.phase = "selectR" THEN spi.frame + 1 ELSE spi.frame
      /\ spi'.bit = IF spi.phase = "sample"
                    THEN IF spi.bit < LastBit THEN spi.bit + 1 ELSE 1 ELSE spi.bit
      /\ spi'.reg = IF spi'.phase \in {"selectR", "releaseR", "lowR", "done"} THEN AllOnes
                    ELSE IF spi.phase \in Reading
                    THEN IF got[Driver] = Failed THEN AllOnes ELSE got[Driver]
                    ELSE Driven[spi.phase]
  BY GoesOn
<1>4. JobOK /\ spi.phase # "none"
  BY <1>3 DEF Inv, Driving, Reading, Writing
<1>5. spi.bit \in 1 .. LastBit /\ LastBit \in Nat
  BY <1>4, InJob DEF JobOK
<1>6. \/ spi.phase = "selectR" /\ spi'.phase = "selectW"
      \/ spi.phase = "selectW" /\ spi'.phase = "lowR"
      \/ spi.phase = "lowR" /\ spi'.phase = "lowW"
      \/ spi.phase = "lowW" /\ spi'.phase = "data"
      \/ spi.phase = "data" /\ spi'.phase = "high"
      \/ spi.phase = "high" /\ spi'.phase = "sample"
      \/ spi.phase = "sample" /\ spi'.phase = "lowR" /\ spi.bit < LastBit
      \/ spi.phase = "sample" /\ spi'.phase = "releaseR" /\ ~(spi.bit < LastBit)
      \/ spi.phase = "releaseR" /\ spi'.phase = "releaseW"
      \/ spi.phase = "releaseW" /\ spi'.phase = "selectR" /\ spi.frame < LastFrame
      \/ spi.phase = "releaseW" /\ spi'.phase = "done"
  BY <1>3 DEF Following, Reading, Writing
<1>7. ~(spi.bit < LastBit) => spi.bit = LastBit
  BY <1>5
<1>8. spi'.phase # "selectR" => Frame' = Frame /\ LastBit' = LastBit
  BY <1>3 DEF Frame, Frames, LastBit
<1>9. spi'.phase \notin {"selectR", "lowR", "releaseR"} => OutBit' = OutBit
  <2>1. spi'.phase \notin {"selectR", "lowR", "releaseR"} => spi'.bit = spi.bit
    BY <1>3, <1>6
  <2> QED
    BY <1>8, <2>1 DEF OutBit
<1>10. spi.phase \in Reading /\ got[Driver] # Failed => got[Driver] = Shown(FPGA_SPI_RW)
  BY <1>2 DEF ReadOK
<1>11. spi'.phase \in {"selectW", "lowW", "releaseW"} =>
         spi'.reg = IF got[Driver] = Failed THEN AllOnes ELSE got[Driver]
  BY <1>3, <1>6 DEF Reading
<1>12. spi'.phase = "data" => spi'.reg = [spi.reg EXCEPT !.sck = 0]
  BY <1>3, <1>6 DEF Reading, Driven
<1>13. spi'.phase = "high" => spi'.reg = PutBit(spi.reg)
  BY <1>3, <1>6 DEF Reading, Driven
<1> QED
  BY <1>2, <1>3, <1>4, <1>6, <1>7, <1>8, <1>9, <1>10, <1>11, <1>12, <1>13

\* An access that returns keeps what the chips see in step with the frame.
LEMMA AccessKeeps ==
  ASSUME Inv, ReadOK, ChipsOK, SelectOK, CopyOK, DriverMoves, PinsAccessed
  PROVE  ChipsOK' /\ SelectOK' /\ CopyOK'
<1>1. UNCHANGED chips /\ Now' = Now /\ Now \in Pins /\ spi.reg \in Pins
  BY DEF DriverMoves, Inv, Driving, Shape, Now
<1>2. /\ spi.bit \in 1 .. LastBit /\ LastBit \in Nat
      /\ spi.phase \in {"selectR", "selectW", "releaseR", "releaseW"} => spi.bit = 1
  BY AfterAccess, InJob DEF JobOK
<1>3. InFrame => InFrame' /\ Clocked' = Clocked /\ Frame' = Frame
  BY <1>2, AfterAccess DEF InFrame, Clocked
<1>4. ChipsOK'
  BY <1>1 DEF ChipsOK
<1>5. SelectOK'
  BY <1>1, <1>3, AfterAccess DEF SelectOK, FirstBits
<1>6. spi'.phase \in {"selectW", "lowW", "releaseW"} =>
        \A x \in Cs : spi'.reg.ss[x] = 0 => Now.ss[x] = 0
  <2>1. Shown(FPGA_SPI_RW).ss = Now.ss
    BY <1>1 DEF Shown, Now, Pins
  <2>2. \A x \in Cs : AllOnes.ss[x] = 1
    BY DEF AllOnes
  <2>3. spi'.phase \in {"selectW", "lowW", "releaseW"} => spi.phase \in Reading
    BY AfterAccess DEF Reading
  <2> QED
    BY <2>1, <2>2, <2>3, AfterAccess
<1>7. \A x \in Cs : Now.ss[x] = 0 => x = spi.job.cs /\ InFrame
  BY DEF SelectOK
<1>8. CASE spi'.phase = "selectW"
  <2>1. ~InFrame
    BY <1>8, AfterAccess DEF InFrame
  <2> QED
    BY <1>4, <1>5, <1>6, <1>7, <1>8, <2>1 DEF CopyOK
<1>9. CASE spi'.phase \in {"lowW", "releaseW"}
  BY <1>1, <1>4, <1>5, <1>6, <1>7, <1>9, AfterAccess DEF CopyOK
<1>10. CASE spi'.phase = "data"
  <2>1. /\ spi.phase = "lowW" /\ Applied /\ ~Applied' /\ spi'.job = spi.job
        /\ spi'.reg = [spi.reg EXCEPT !.sck = 0]
    BY <1>10, AfterAccess
  <2>2. /\ Now.ss = spi.reg.ss /\ Now.sck = 0
        /\ \A x \in Cs : spi.reg.ss[x] = 0 => x = spi.job.cs
    BY <2>1 DEF CopyOK, Writing
  <2>3. spi'.reg.ss = spi.reg.ss /\ spi'.reg.sck = 0
    BY <1>1, <2>1 DEF Pins
  <2> QED
    BY <1>1, <1>4, <1>5, <1>10, <2>1, <2>2, <2>3 DEF CopyOK
<1>11. CASE spi'.phase = "high"
  <2>1. /\ spi.phase = "data" /\ ~Applied' /\ spi'.job = spi.job
        /\ spi'.reg = PutBit(spi.reg) /\ OutBit' = OutBit
    BY <1>11, AfterAccess
  <2>2. /\ Now.ss = spi.reg.ss /\ Now.sck = 0 /\ spi.reg.sck = 0
        /\ \A x \in Cs : spi.reg.ss[x] = 0 => x = spi.job.cs
    BY <2>1 DEF CopyOK, Writing
  <2>3. spi'.reg.ss = spi.reg.ss /\ spi'.reg.sck = spi.reg.sck /\ spi'.reg.mosi = OutBit
    BY <1>1, <2>1 DEF Pins, PutBit
  <2> QED
    BY <1>1, <1>4, <1>5, <1>11, <2>1, <2>2, <2>3 DEF CopyOK
<1>12. CASE spi'.phase \notin Writing
  BY <1>4, <1>5, <1>12 DEF CopyOK
<1> QED
  BY <1>8, <1>9, <1>10, <1>11, <1>12 DEF Writing

\* Every step keeps it all.
LEMMA StepSends ==
  ASSUME Inv, Sending, [Next]_vars
  PROVE  Sending'
<1>1. Now \in Pins
  BY DEF Inv, Shape, Now
<1>2. OthersCall' /\ ReadOK' /\ (PinsStill \/ PinsMove \/ DriverMoves)
  BY StepKinds DEF Sending
<1>3. CASE PinsStill
  BY <1>2, <1>3, StillKeeps DEF Sending
<1>4. CASE PinsMove
  <2>1. JobOK /\ spi.phase # "none" /\ spi.reg \in Pins
    BY <1>4 DEF PinsMove, Inv, Driving, Writing
  <2> QED
    BY <1>1, <1>2, <1>4, <2>1, MoveKeeps DEF Sending
<1>5. CASE DriverMoves
  BY <1>1, <1>2, <1>5, JobKeeps, AccessKeeps DEF Sending, DriverMoves
<1> QED
  BY <1>2, <1>3, <1>4, <1>5

\* The initial states.
LEMMA InitSends == Init => Sending
<1> SUFFICES ASSUME Init PROVE Sending
  OBVIOUS
<1>1. FPGA_SPI_RW \in Addr /\ Driver \in Core
  BY CallRules
<1>2. Now = AllOnes /\ spi = NoJob /\ chips = [x \in Cs |-> NoChip]
  BY <1>1 DEF Init, Now
<1>3. \A c \in Core : pc[c] = "idle"
  BY DEF Init, SlbInit
<1>4. ChipsOK
  <2>1. ChipOK(NoChip)
    BY DEF ChipOK, NoChip
  <2>2. \A x \in Cs : chips[x] = NoChip
    BY <1>2
  <2> QED
    BY <1>2, <2>1, <2>2 DEF ChipsOK
<1>5. SelectOK
  BY <1>2 DEF SelectOK, AllOnes, NoChip
<1>6. CopyOK /\ ReadOK /\ OthersCall
  BY <1>2, <1>3 DEF CopyOK, ReadOK, OthersCall, NoJob, Reading, Writing
<1> QED
  BY <1>4, <1>5, <1>6 DEF Sending

\* What other cores do on the bus and what reads of the pins fail: the registers
\* of a chip change only for a write to that chip, and only those with its address,
\* as long as no core got the late answer of another register.
THEOREM OnlyAddressedChangeTheorem == Spec => OnlyAddressedChange
<1> DEFINE Addressed ==
      \A cs \in Cs : chips'[cs].regs # chips[cs].regs =>
        /\ spi.phase # "none" /\ spi.job.fn = "write" /\ spi.job.cs = cs
        /\ \A r \in DOMAIN chips'[cs].regs :
             r[2] = spi.job.addr \/
               (r \in DOMAIN chips[cs].regs /\ chips'[cs].regs[r] = chips[cs].regs[r])
<1>1. Init => Inv /\ Sending
  BY InitInv, InitSends
<1>2. (misled \/ (Inv /\ Sending)) /\ [Next]_vars => (misled \/ (Inv /\ Sending))'
  BY StepMaps, StepSends, MisledStays
<1>3. ASSUME Inv, Sending, [Next]_vars
      PROVE  Addressed
  <2>1. PinsStill \/ PinsMove \/ DriverMoves
    BY <1>3, StepKinds DEF Sending
  <2>2. CASE PinsStill \/ DriverMoves
    BY <2>2 DEF PinsStill, DriverMoves
  <2>3. CASE PinsMove
    <3>1. JobOK /\ spi.phase # "none" /\ spi.reg \in Pins /\ Now \in Pins
      BY <1>3, <2>3 DEF PinsMove, Inv, Driving, Writing, Shape, Now
    <3>2. ASSUME NEW x \in Cs PROVE ChipIdle(x) \/ ChipWaits(x) \/ ChipTakes(x)
      BY <1>3, <2>3, <3>1, ChipMoves DEF Sending
    <3>3. ASSUME NEW x \in Cs, ChipIdle(x) \/ ChipWaits(x)
          PROVE  chips'[x].regs = chips[x].regs
      <4>1. ChipOK(chips[x])
        BY <1>3 DEF Sending, ChipsOK
      <4> QED
        BY <3>3, <4>1 DEF ChipIdle, ChipWaits, ChipOK
    <3>4. ASSUME NEW x \in Cs, ChipTakes(x), chips'[x].regs # chips[x].regs
          PROVE  /\ spi.job.fn = "write" /\ spi.job.cs = x
                 /\ \A r \in DOMAIN chips'[x].regs :
                      r[2] = spi.job.addr \/
                        (r \in DOMAIN chips[x].regs /\ chips'[x].regs[r] = chips[x].regs[r])
      BY <3>4 DEF ChipTakes, Seen
    <3> QED
      BY <3>1, <3>2, <3>3, <3>4
  <2> QED
    BY <2>1, <2>2, <2>3
<1>4. (misled \/ (Inv /\ Sending)) /\ [Next]_vars => [misled' \/ Addressed]_vars
  BY <1>3, MisledStays
<1>5. OnlyAddressedChange <=> [][misled' \/ Addressed]_vars
  <2>1. [misled' \/ Addressed]_vars <=>
          [\A cs \in Cs : chips'[cs].regs # chips[cs].regs /\ ~misled' =>
             /\ spi.phase # "none" /\ spi.job.fn = "write" /\ spi.job.cs = cs
             /\ \A r \in DOMAIN chips'[cs].regs :
                  r[2] = spi.job.addr \/
                    (r \in DOMAIN chips[cs].regs /\ chips'[cs].regs[r] = chips[cs].regs[r])]_vars
    BY Zenon
  <2> QED
    BY <2>1, PTL DEF OnlyAddressedChange
<1> QED
  BY <1>1, <1>2, <1>4, <1>5, PTL DEF Spec

-----------------------------------------------------------------------------
(* Jobs whose reads of the pins did not fail.                              *)

\* Frame f of the job has been sent.
FrameDone(f) ==
  spi.frame > f \/ (spi.frame = f /\ (Clocked = LastBit \/ spi.phase = "done"))

\* What the chip shows in the last frame of a read, and how many of its bits the
\* driver has.
Answering == Padded(chips[spi.job.cs].port, Len(spi.job.data))
Sampled ==
  IF spi.phase \in {"releaseR", "releaseW", "done"} THEN LastBit - 2 * Width
  ELSE IF spi.bit - 1 > 2 * Width THEN spi.bit - 1 - 2 * Width ELSE 0

\* The parts of the invariant: the chip is selected, has the page, has done what
\* the job is about, and the driver has the bits that it showed.
Selected ==
  /\ InFrame => Now.ss[spi.job.cs] = 0
  /\ spi.phase \in {"lowW", "data", "high"} => spi.reg.ss[spi.job.cs] = 0
OnPage == FrameDone(2) => chips[spi.job.cs].page = spi.job.page
JobDone ==
  FrameDone(3) => IF spi.job.fn = "write" THEN Register = spi.job.data
                  ELSE chips[spi.job.cs].port = Register
BitsRead ==
  spi.bits = IF spi.job.fn = "read" /\ spi.frame = 4 THEN FirstBits(Answering, Sampled) ELSE <<>>

CleanOK ==
  spi.phase # "none" /\ spi.clean => Selected /\ OnPage /\ JobDone /\ BitsRead

\* A step that nobody notices.
LEMMA StillClean ==
  ASSUME CleanOK, PinsStill
  PROVE  CleanOK'
<1>1. UNCHANGED <<spi, chips>> /\ Now' = Now /\ (spi.phase \in Writing => (Applied' <=> Applied))
  BY DEF PinsStill
<1>2. Frame' = Frame /\ LastBit' = LastBit
  BY <1>1 DEF Frame, Frames, LastBit
<1>3. Clocked' = Clocked /\ (InFrame' <=> InFrame)
  BY <1>1, <1>2 DEF Clocked, InFrame, Writing
<1>4. Sampled' = Sampled /\ \A f : FrameDone(f)' <=> FrameDone(f)
  BY <1>1, <1>2, <1>3 DEF Sampled, FrameDone
<1>5. Register' = Register /\ Answering' = Answering
  BY <1>1 DEF Register, RegOf, Answering, Padded
<1>6. Selected' <=> Selected
  BY <1>1, <1>3 DEF Selected
<1>7. (OnPage' <=> OnPage) /\ (JobDone' <=> JobDone)
  BY <1>1, <1>4, <1>5 DEF OnPage, JobDone
<1>8. BitsRead' <=> BitsRead
  BY <1>1, <1>4, <1>5 DEF BitsRead, FirstBits
<1> QED
  BY <1>1, <1>6, <1>7, <1>8 DEF CleanOK

\* A write to the pins.
LEMMA MoveClean ==
  ASSUME JobOK, spi.phase # "none", spi.reg \in Pins, Now \in Pins, ChipsOK, SelectOK, CopyOK,
         CleanOK, PinsMove
  PROVE  CleanOK'
<1> DEFINE x == spi.job.cs
<1>1. /\ spi.phase \in Writing /\ ~Applied /\ Applied' /\ UNCHANGED spi /\ x \in Cs
      /\ spi.bit \in 1 .. LastBit /\ LastBit \in Nat /\ spi.frame \in 1 .. 4
      /\ spi.job.fn \in {"read", "write"} /\ (spi.frame = 4 => spi.job.fn = "read")
  BY FrameHead, InJob DEF PinsMove, JobOK
<1>2. Frame' = Frame /\ LastBit' = LastBit
  BY <1>1 DEF Frame, Frames, LastBit
<1> SUFFICES ASSUME spi.clean PROVE Selected' /\ OnPage' /\ JobDone' /\ BitsRead'
  BY <1>1 DEF CleanOK
<1>3. Selected /\ OnPage /\ JobDone /\ BitsRead
  BY DEF CleanOK
<1>4. Selected'
  <2>1. spi.phase \in {"selectW", "lowW", "data", "high"} => Now'.ss[x] = 0
    BY <1>1, <1>3, PinsWritten DEF Selected
  <2>2. InFrame' => spi.phase \in {"selectW", "lowW", "data", "high"}
    BY <1>1 DEF InFrame, Writing
  <2> QED
    BY <1>1, <1>3, <2>1, <2>2 DEF Selected
<1>5. /\ ChipOK(chips[x]) /\ (ChipIdle(x) \/ ChipWaits(x) \/ ChipTakes(x))
      /\ spi.phase = "high" => ChipTakes(x)
  <2>1. ChipOK(chips[x])
    BY <1>1 DEF ChipsOK
  <2>2. ChipIdle(x) \/ ChipWaits(x) \/ ChipTakes(x)
    BY <1>1, ChipMoves
  <2>3. ASSUME spi.phase = "high" PROVE ChipTakes(x)
    <3>1. Now'.ss[x] = 0
      BY <1>3, <2>3, PinsWritten DEF Selected
    <3> QED
      BY <2>2, <2>3, <3>1 DEF ChipIdle, ChipWaits
  <2> QED
    BY <2>1, <2>2, <2>3
<1>6. CASE spi.phase = "high"
  <2>1. Seen(chips[x], chips'[x])
    BY <1>5, <1>6 DEF ChipTakes
  <2>2. Clocked' = spi.bit /\ Sampled' = Sampled
    BY <1>1, <1>2, <1>6 DEF Clocked, Sampled
  <2>3. \A f \in {2, 3} : FrameDone(f)' <=> spi.frame > f \/ (spi.frame = f /\ spi.bit = LastBit)
    BY <1>1, <1>2, <1>6, <2>2 DEF FrameDone
  <2>4. OnPage'
    BY <1>1, <1>3, <2>1, <2>3 DEF OnPage, FrameDone, Seen
  <2>5. JobDone'
    <3>1. CASE spi.frame = 3 /\ spi.bit = LastBit
      <4>1. chips[x].page = spi.job.page /\ chips'[x].page = chips[x].page
        BY <1>3, <2>1, <3>1 DEF OnPage, FrameDone, Seen
      <4>2. CASE spi.job.fn = "write"
        <5>1. RegOf(chips'[x], spi.job.page, spi.job.addr) = spi.job.data
          BY <2>1, <3>1, <4>1, <4>2 DEF Seen
        <5> QED
          BY <1>1, <4>2, <5>1 DEF JobDone, Register
      <4>3. CASE spi.job.fn = "read"
        <5>1. /\ chips'[x].port = RegOf(chips[x], spi.job.page, spi.job.addr)
              /\ chips'[x].regs = chips[x].regs
          BY <2>1, <3>1, <4>1, <4>3 DEF Seen
        <5>2. chips'[x].port = RegOf(chips'[x], spi.job.page, spi.job.addr)
          BY <5>1 DEF RegOf
        <5> QED
          BY <1>1, <4>3, <5>2 DEF JobDone, Register
      <4> QED
        BY <1>1, <4>2, <4>3
    <3>2. CASE spi.frame = 4
      <4>1. chips[x].port = RegOf(chips[x], spi.job.page, spi.job.addr)
        BY <1>1, <1>3, <3>2 DEF JobDone, FrameDone, Register
      <4>2. chips'[x].port = chips[x].port /\ chips'[x].regs = chips[x].regs
        BY <2>1, <3>2 DEF Seen
      <4>3. chips'[x].port = RegOf(chips'[x], spi.job.page, spi.job.addr)
        BY <4>1, <4>2 DEF RegOf
      <4> QED
        BY <1>1, <3>2, <4>3 DEF JobDone, Register
    <3>3. CASE ~(spi.frame = 3 /\ spi.bit = LastBit) /\ spi.frame # 4
      BY <1>1, <2>3, <3>3 DEF JobDone
    <3> QED
      BY <3>1, <3>2, <3>3
  <2>6. BitsRead'
    <3>1. spi.frame = 4 => chips'[x].port = chips[x].port
      BY <2>1 DEF Seen
    <3>2. spi.frame = 4 => Answering' = Answering
      BY <1>1, <3>1 DEF Answering, Padded
    <3>3. spi.frame = 4 => FirstBits(Answering, Sampled)' = FirstBits(Answering, Sampled)
      BY <2>2, <3>2 DEF FirstBits
    <3> QED
      BY <1>1, <1>3, <3>3 DEF BitsRead
  <2> QED
    BY <1>4, <2>4, <2>5, <2>6
<1>7. CASE spi.phase # "high"
  <2>1. /\ chips'[x].page = chips[x].page /\ chips'[x].regs = chips[x].regs
        /\ chips'[x].port = chips[x].port
    BY <1>5, <1>7 DEF ChipIdle, ChipWaits, ChipTakes, ChipOK
  <2>2. Clocked' = Clocked /\ Sampled' = Sampled
    BY <1>1, <1>2, <1>7 DEF Clocked, Sampled
  <2>3. \A f : FrameDone(f)' <=> FrameDone(f)
    BY <1>1, <1>2, <2>2 DEF FrameDone
  <2>4. Register' = Register
    BY <1>1, <2>1 DEF Register, RegOf
  <2>5. OnPage' /\ JobDone'
    BY <1>1, <1>3, <2>1, <2>3, <2>4 DEF OnPage, JobDone
  <2>6. BitsRead'
    <3>1. Answering' = Answering
      BY <1>1, <2>1 DEF Answering, Padded
    <3>2. FirstBits(Answering, Sampled)' = FirstBits(Answering, Sampled)
      BY <2>2, <3>1 DEF FirstBits
    <3> QED
      BY <1>1, <1>3, <3>2 DEF BitsRead
  <2> QED
    BY <1>4, <2>5, <2>6
<1> QED
  BY <1>6, <1>7

\* A job starts or ends.
LEMMA JobClean ==
  ASSUME StartJob \/ EndJob
  PROVE  CleanOK'
<1>1. CASE StartJob
  <2>1. spi'.phase = "selectR" /\ spi'.frame = 1 /\ spi'.bits = <<>>
    BY <1>1 DEF StartJob, NoJob
  <2>2. \A f \in {2, 3} : ~FrameDone(f)'
    BY <2>1 DEF FrameDone
  <2> QED
    BY <2>1, <2>2 DEF CleanOK, Selected, OnPage, JobDone, BitsRead, InFrame
<1>2. CASE EndJob
  BY <1>2 DEF EndJob, NoJob, CleanOK
<1> QED
  BY <1>1, <1>2

\* The value as the chip shows it is made of bytes.
LEMMA PaddedBytes ==
  ASSUME NEW v \in Seq(SpiByte), NEW n \in Nat
  PROVE  Padded(v, n) \in Seq(SpiByte) /\ Len(Padded(v, n)) = n
<1>1. Zero \in SpiByte
  BY DEF Zero, SpiByte, Bit
<1>2. \A i \in 1 .. n : (IF i <= Len(v) THEN v[i] ELSE Zero) \in SpiByte
  BY <1>1
<1> HIDE DEF SpiByte
<1>3. Padded(v, n) \in [1 .. n -> SpiByte]
  BY <1>2 DEF Padded
<1> QED
  BY <1>3 DEF Padded

\* Bits in order make bytes in order.
LEMMA Divides ==
  ASSUME NEW a \in Nat, NEW b \in 0 .. Width - 1
  PROVE  (Width * a + b) \div Width = a /\ (Width * a + b) % Width = b
BY JobRules

\* An answer of l bytes comes two bytes late.
LEMMA AnswerPlace ==
  ASSUME NEW l \in Nat, NEW n \in Nat, n > 2 * Width, n <= Width * (l + 2)
  PROVE  /\ n \div Width \in Nat /\ n \div Width >= 2
         /\ ((n - 1) \div Width) - 1 \in 1 .. l /\ ((n - 1) % Width) + 1 \in 1 .. Width
         /\ ((n - 2 * Width - 1) \div Width) + 1 = ((n - 1) \div Width) - 1
         /\ (n - 2 * Width - 1) % Width = (n - 1) % Width
<1>1. Width \in Nat \ {0}
  BY JobRules
<1>2. PICK q, r : q = (n - 1) \div Width /\ r = (n - 1) % Width
  OBVIOUS
<1>3. q \in Nat /\ r \in 0 .. Width - 1 /\ n - 1 = Width * q + r
  BY <1>1, <1>2
<1>4. q >= 2 /\ q < l + 2
  BY <1>1, <1>3
<1>5. n - 2 * Width - 1 = Width * (q - 2) + r /\ q - 2 \in Nat
  BY <1>1, <1>3, <1>4
<1>6. (n - 2 * Width - 1) \div Width = q - 2 /\ (n - 2 * Width - 1) % Width = r
  BY <1>3, <1>5, Divides
<1>7. n \div Width \in Nat /\ n \div Width >= 2
  BY <1>1
<1> QED
  BY <1>1, <1>2, <1>3, <1>4, <1>6, <1>7

\* In the last frame of a read the only chip selected shows its answer bit by bit.
LEMMA ShowsAnswer ==
  ASSUME JobOK, Now \in Pins, ChipsOK, SelectOK, spi.phase = "sample",
         Now.ss[spi.job.cs] = 0, spi.frame = 4, spi.bit > 2 * Width
  PROVE  Shown(FPGA_SPI_RW).miso
           = Answering[((spi.bit - 2 * Width - 1) \div Width) + 1]
                      [((spi.bit - 2 * Width - 1) % Width) + 1]
<1> DEFINE x == spi.job.cs
           chip == chips[x]
           n == spi.bit
           i == ((n - 1) \div Width) - 1
           k == ((n - 1) % Width) + 1
           data == spi.job.data
<1>1. /\ x \in Cs /\ data \in Seq(SpiByte) /\ Len(data) \in Nat
      /\ Frame[1] = ReadOp /\ Frame[2] = DataPort /\ Len(Frame) = Len(data) + 2
      /\ Frame \in Seq(SpiByte) /\ n \in 1 .. LastBit /\ LastBit = Width * Len(Frame)
      /\ Width \in Nat \ {0}
  BY FrameHead, InJob, JobRules DEF JobOK, LastBit
<1>2. chip.bits = FirstBits(Frame, n) /\ chip.port \in Seq(SpiByte)
  BY <1>1 DEF SelectOK, Clocked, ChipsOK, ChipOK
<1>3. n \in Nat /\ n <= Width * Len(Frame) /\ n > 2 * Width
  BY <1>1
<1>4. Len(chip.bits) = n
  BY <1>2, <1>3, MoreBits
<1>5. BytesOf(chip.bits) = [b \in 1 .. n \div Width |-> Frame[b]]
  BY <1>1, <1>2, <1>3, WholeBytes
<1>6. /\ n \div Width \in Nat /\ n \div Width >= 2 /\ i \in 1 .. Len(data) /\ k \in 1 .. Width
      /\ ((n - 2 * Width - 1) \div Width) + 1 = i
      /\ ((n - 2 * Width - 1) % Width) + 1 = k
  <2>1. n <= Width * (Len(data) + 2)
    BY <1>1, <1>3
  <2> HIDE DEF n, data
  <2> QED
    BY <1>1, <1>3, <2>1, AnswerPlace
<1>7. BytesOf(chip.bits)[1] = ReadOp /\ BytesOf(chip.bits)[2] = DataPort
  BY <1>1, <1>5, <1>6
<1> HIDE DEF i, k
<1>10. Miso(chip) = IF i <= Len(chip.port) THEN chip.port[i][k] ELSE 0
  BY <1>1, <1>3, <1>4, <1>7 DEF Miso, i, k
<1>11. Miso(chip) = Answering[i][k]
  <2>1. Answering[i] = IF i <= Len(chip.port) THEN chip.port[i] ELSE Zero
    BY <1>6 DEF Answering, Padded
  <2>2. Zero[k] = 0
    BY <1>6 DEF Zero
  <2> QED
    BY <1>10, <2>1, <2>2
<1>12. Miso(chip) \in {0, 1}
  <2>1. i <= Len(chip.port) => chip.port[i] \in SpiByte
    <3>1. \A o \in Seq(SpiByte), b \in Nat : b > 0 /\ b <= Len(o) => o[b] \in SpiByte
      OBVIOUS
    <3>2. i \in Nat /\ i > 0
      BY <1>1, <1>6
    <3> QED
      BY <1>2, <3>1, <3>2
  <2>2. i <= Len(chip.port) => chip.port[i][k] \in {0, 1}
    BY <1>6, <2>1 DEF SpiByte, Bit
  <2> QED
    BY <1>10, <2>2
<1>13. \A y \in Cs : Now.ss[y] = 0 => y = x
  BY DEF SelectOK
<1>14. Shown(FPGA_SPI_RW).miso = Miso(chip)
  <2>1. (\E y \in Cs : Now.ss[y] = 0 /\ Miso(chips[y]) = 1) <=> Miso(chip) = 1
    BY <1>1, <1>13
  <2>2. Shown(FPGA_SPI_RW).miso
          = IF \E y \in Cs : Now.ss[y] = 0 /\ Miso(chips[y]) = 1 THEN 1 ELSE 0
    BY DEF Shown, Now, Pins
  <2> QED
    BY <1>12, <2>1, <2>2
<1> QED
  BY <1>6, <1>11, <1>14

\* An access returns.
LEMMA AccessClean ==
  ASSUME Inv, ReadOK, ChipsOK, SelectOK, CopyOK, CleanOK, DriverMoves, PinsAccessed
  PROVE  CleanOK'
<1> DEFINE x == spi.job.cs
<1>1. /\ UNCHANGED chips /\ Now' = Now /\ Now \in Pins /\ spi.reg \in Pins
      /\ spi'.clean = (spi.clean /\ got[Driver] # Failed)
      /\ spi'.bits = IF spi.phase = "sample" /\ Wanted
                     THEN Append(spi.bits, (IF got[Driver] = Failed THEN AllOnes
                                            ELSE got[Driver]).miso)
                     ELSE spi.bits
  BY GoesOn DEF DriverMoves, Inv, Driving, Shape, Now
<1>2. /\ JobOK /\ spi.phase # "none" /\ spi'.job = spi.job /\ x \in Cs
      /\ spi.bit \in 1 .. LastBit /\ LastBit \in Nat /\ LastBit > 2 * Width
      /\ spi.frame \in 1 .. 4 /\ spi.job.fn \in {"read", "write"}
      /\ LastFrame = IF spi.job.fn = "write" THEN 3 ELSE 4
      /\ spi.phase \in {"selectR", "selectW", "releaseR", "releaseW"} => spi.bit = 1
      /\ spi.job.data \in Seq(SpiByte) /\ Len(spi.job.data) \in Nat
  BY AfterAccess, InJob, FrameHead DEF JobOK
<1> SUFFICES ASSUME spi.clean, got[Driver] # Failed
             PROVE  Selected' /\ OnPage' /\ JobDone' /\ BitsRead'
  BY <1>1 DEF CleanOK
<1>3. Selected /\ OnPage /\ JobDone /\ BitsRead
  BY <1>2 DEF CleanOK
<1>4. InFrame' => InFrame
  BY AfterAccess DEF InFrame
<1>5. InFrame => InFrame' /\ Clocked' = Clocked
  <2> SUFFICES ASSUME InFrame PROVE InFrame' /\ Clocked' = Clocked
    OBVIOUS
  <2>1. InFrame'
    BY AfterAccess DEF InFrame
  <2>2. Applied /\ ~Applied'
    BY AfterAccess
  <2>3. \/ /\ spi.phase # "sample" /\ spi'.phase # "sample" /\ spi'.bit = spi.bit
           /\ ~(spi.phase = "high")
           /\ spi.phase \notin {"releaseR", "releaseW"}
           /\ spi'.phase \notin {"releaseR", "releaseW"}
        \/ /\ spi.phase = "high" /\ spi'.phase = "sample" /\ spi'.bit = spi.bit
        \/ /\ spi.phase = "sample" /\ spi'.phase = "lowR" /\ spi'.bit = spi.bit + 1
        \/ /\ spi.phase = "sample" /\ spi'.phase = "releaseR" /\ spi.bit = LastBit
           /\ LastBit' = LastBit
        \/ /\ spi.phase = "releaseR" /\ spi'.phase = "releaseW" /\ LastBit' = LastBit
    BY AfterAccess DEF InFrame
  <2> QED
    BY <1>2, <2>1, <2>2, <2>3 DEF Clocked
<1>6. \A f \in {2, 3} : FrameDone(f)' => FrameDone(f)
  <2> SUFFICES ASSUME NEW f \in {2, 3}, FrameDone(f)' PROVE FrameDone(f)
    OBVIOUS
  <2>1. CASE InFrame
    <3>1. spi'.frame = spi.frame /\ LastBit' = LastBit /\ spi'.phase # "done"
      BY <2>1, AfterAccess DEF InFrame
    <3> QED
      BY <1>5, <2>1, <3>1 DEF FrameDone
  <2>2. CASE spi.phase = "selectR"
    <3>1. spi'.frame = spi.frame /\ LastBit' = LastBit /\ spi'.phase = "selectW" /\ spi'.bit = 1
      BY <1>2, <2>2, AfterAccess
    <3>2. Clocked' = 0
      BY <3>1 DEF Clocked
    <3> QED
      BY <1>2, <3>1, <3>2, JobRules DEF FrameDone
  <2>3. CASE spi.phase = "releaseW"
    <3>1. Clocked = LastBit
      BY <2>3 DEF Clocked
    <3>2. \/ spi'.phase = "done" /\ spi'.frame = spi.frame
          \/ spi'.phase = "selectR" /\ spi'.frame = spi.frame + 1 /\ spi'.bit = 1
      BY <1>2, <2>3, AfterAccess
    <3>3. spi'.frame > f => spi.frame > f \/ spi.frame = f
      BY <1>2, <3>2
    <3>4. spi'.phase = "selectR" => Clocked' = 0 /\ LastBit' # 0
      <4>1. JobOK' /\ spi'.phase # "none"
        BY <3>2, StaysInJob
      <4>2. spi'.bit \in 1 .. LastBit'
        BY <4>1 DEF JobOK
      <4> QED
        BY <3>2, <4>2 DEF Clocked
    <3> QED
      BY <3>1, <3>2, <3>3, <3>4 DEF FrameDone
  <2> QED
    BY <2>1, <2>2, <2>3, AfterAccess DEF InFrame
<1>7. Selected'
  <2>1. InFrame' => Now'.ss[x] = 0
    BY <1>1, <1>3, <1>4 DEF Selected
  <2>2. spi'.phase = "lowW" => spi'.reg.ss[x] = 0
    <3>1. ASSUME spi'.phase = "lowW" PROVE spi'.reg.ss[x] = 0
      <4>1. spi.phase = "lowR" /\ spi'.reg = Shown(FPGA_SPI_RW)
        BY <3>1, AfterAccess DEF Reading
      <4>2. Shown(FPGA_SPI_RW).ss = Now.ss
        BY <1>1 DEF Shown, Now, Pins
      <4> QED
        BY <1>3, <4>1, <4>2 DEF Selected, InFrame
    <3> QED
      BY <3>1
  <2>3. spi'.phase = "data" => spi'.reg.ss[x] = 0
    BY <1>1, <1>3, AfterAccess DEF Selected, Pins
  <2>4. spi'.phase = "high" => spi'.reg.ss[x] = 0
    BY <1>1, <1>3, AfterAccess DEF Selected, Pins, PutBit
  <2> QED
    BY <1>2, <2>1, <2>2, <2>3, <2>4 DEF Selected
<1>8. Register' = Register /\ Answering' = Answering
  BY <1>1, <1>2 DEF Register, RegOf, Answering, Padded
<1>9. OnPage' /\ JobDone'
  BY <1>1, <1>2, <1>3, <1>6, <1>8 DEF OnPage, JobDone
<1>10. BitsRead'
  <2> DEFINE last == spi.job.fn = "read" /\ spi.frame = 4
  <2>1. CASE spi.phase = "sample" /\ last /\ spi.bit > 2 * Width
    <3>1. spi.phase = "sample" /\ Wanted /\ spi'.frame = 4 /\ spi'.job.fn = "read"
      BY <1>2, <2>1, AfterAccess DEF Wanted
    <3>2. got[Driver] = Shown(FPGA_SPI_RW)
      BY <2>1, AfterAccess DEF Reading
    <3>3. spi'.bits = Append(spi.bits, Shown(FPGA_SPI_RW).miso)
      BY <1>1, <3>1, <3>2
    <3>4. spi.bits = FirstBits(Answering, Sampled)
      BY <1>3, <2>1 DEF BitsRead
    <3>5. Sampled = spi.bit - 2 * Width - 1 /\ Sampled' = Sampled + 1 /\ Sampled \in Nat
      <4>1. Sampled = spi.bit - 2 * Width - 1 /\ Sampled \in Nat
        BY <1>2, <2>1, JobRules DEF Sampled
      <4>2. LastBit' = LastBit
        BY <2>1, AfterAccess
      <4>3. Sampled' = spi.bit - 2 * Width
        BY <1>2, <2>1, <4>2, AfterAccess, JobRules DEF Sampled
      <4> QED
        BY <1>2, <4>1, <4>3, JobRules
    <3>6. Now.ss[x] = 0
      BY <1>3, <2>1 DEF Selected, InFrame
    <3>7. Shown(FPGA_SPI_RW).miso
            = Answering[(Sampled \div Width) + 1][(Sampled % Width) + 1]
      BY <1>1, <1>2, <2>1, <3>5, <3>6, ShowsAnswer
    <3>8. spi'.bits = FirstBits(Answering, Sampled + 1)
      BY <3>3, <3>4, <3>5, <3>7, MoreBits
    <3> QED
      BY <1>8, <3>1, <3>5, <3>8 DEF BitsRead, FirstBits
  <2>2. CASE ~(spi.phase = "sample" /\ last /\ spi.bit > 2 * Width)
    <3>1. spi'.bits = spi.bits
      BY <1>1, <1>2, <2>2 DEF Wanted
    <3>2. CASE spi'.phase = "selectR"
      <4>1. spi.phase = "releaseW" /\ spi.frame < LastFrame /\ spi'.bit = 1
        BY <1>2, <3>2, AfterAccess
      <4>2. spi.bits = <<>>
        BY <1>2, <1>3, <4>1 DEF BitsRead
      <4>3. Sampled' = 0
        BY <3>2, <4>1, JobRules DEF Sampled
      <4>4. FirstBits(Answering', 0) = <<>>
        BY DEF FirstBits
      <4> QED
        BY <3>1, <4>2, <4>3, <4>4 DEF BitsRead, FirstBits
    <3>3. CASE spi'.phase # "selectR"
      <4>1. spi'.frame = spi.frame /\ LastBit' = LastBit
        BY <3>3, AfterAccess
      <4>2. last => Sampled' = Sampled
        BY <1>2, <2>2, <3>3, <4>1, AfterAccess, JobRules DEF Sampled
      <4> QED
        BY <1>2, <1>3, <1>8, <3>1, <4>1, <4>2 DEF BitsRead, FirstBits
    <3> QED
      BY <3>2, <3>3
  <2> QED
    BY <2>1, <2>2
<1> QED
  BY <1>7, <1>9, <1>10

\* Every step keeps it.
LEMMA StepClean ==
  ASSUME Inv, Sending, CleanOK, [Next]_vars
  PROVE  CleanOK'
<1>1. PinsStill \/ PinsMove \/ DriverMoves
  BY StepKinds DEF Sending
<1>2. Now \in Pins
  BY DEF Inv, Shape, Now
<1>3. CASE PinsMove
  <2>1. JobOK /\ spi.phase # "none" /\ spi.reg \in Pins
    BY <1>3 DEF PinsMove, Inv, Driving, Writing
  <2> QED
    BY <1>2, <1>3, <2>1, MoveClean DEF Sending
<1>4. CASE DriverMoves
  BY <1>4, JobClean, AccessClean DEF Sending, DriverMoves
<1> QED
  BY <1>1, <1>3, <1>4, StillClean

\* When a job is done, all of its frames are, and the bits are those of the bytes.
LEMMA CleanSucceeds ==
  ASSUME Inv, Sending, CleanOK
  PROVE  CleanJobsSucceed
<1> SUFFICES ASSUME spi.phase = "done", spi.clean
             PROVE  IF spi.job.fn = "write" THEN Register = spi.job.data
                    ELSE ValueRead = Padded(Register, Len(spi.job.data))
  BY DEF CleanJobsSucceed
<1> DEFINE n == Len(spi.job.data)
<1>1. /\ JobOK /\ spi.job.cs \in Cs /\ spi.job.fn \in {"read", "write"} /\ n \in Nat
      /\ spi.frame = IF spi.job.fn = "write" THEN 3 ELSE 4
      /\ spi.frame = 4 => LastBit = Width * (n + 2)
  <2>1. JobOK
    BY DEF Inv, Driving
  <2>2. spi.frame = LastFrame
    BY <2>1 DEF JobOK
  <2> QED
    BY <2>1, <2>2, FrameHead DEF LastBit
<1>2. JobDone /\ BitsRead
  BY DEF CleanOK
<1>3. FrameDone(3)
  BY <1>1 DEF FrameDone
<1>4. CASE spi.job.fn = "write"
  BY <1>2, <1>3, <1>4 DEF JobDone
<1>5. CASE spi.job.fn = "read"
  <2>1. chips[spi.job.cs].port = Register
    BY <1>2, <1>3, <1>5 DEF JobDone
  <2>2. Register \in Seq(SpiByte)
    <3>1. ChipOK(chips[spi.job.cs])
      BY <1>1 DEF Sending, ChipsOK
    <3> QED
      BY <3>1, RegBytes DEF Register
  <2>3. PICK v : v = Padded(Register, n)
    OBVIOUS
  <2>4. v \in Seq(SpiByte) /\ Len(v) = n
    BY <1>1, <2>2, <2>3, PaddedBytes
  <2>5. spi.bits = FirstBits(v, Width * n)
    <3>1. Sampled = Width * n
      BY <1>1, <1>5, JobRules DEF Sampled
    <3> QED
      BY <1>1, <1>2, <1>5, <2>1, <2>3, <3>1 DEF BitsRead, Answering
  <2>6. (Width * n) \div Width = n /\ Width * n \in Nat
    <3>1. \A l \in Nat : (Width * l) \div Width = l /\ Width * l \in Nat
      BY JobRules
    <3> QED
      BY <1>1, <3>1
  <2>7. ValueRead = [i \in 1 .. n |-> v[i]]
    BY <2>4, <2>5, <2>6, WholeBytes DEF ValueRead
  <2>8. v = [i \in 1 .. n |-> v[i]]
    BY <2>4
  <2> QED
    BY <1>5, <2>3, <2>7, <2>8
<1> QED
  BY <1>1, <1>4, <1>5

\* If no read of the pins failed and no core got the late answer of another
\* register, a write has written its register and a read has all of it, bit for bit,
\* whatever other cores did on the bus meanwhile.
THEOREM CleanJobsSucceedTheorem == Spec => []CleanJobsSucceed
<1>1. Init => CleanOK
  BY DEF Init, CleanOK, NoJob
<1>2. Init => Inv /\ Sending
  BY InitInv, InitSends
<1>3. (misled \/ (Inv /\ Sending /\ CleanOK)) /\ [Next]_vars =>
        (misled \/ (Inv /\ Sending /\ CleanOK))'
  BY StepMaps, StepSends, StepClean, MisledStays
<1>4. misled \/ (Inv /\ Sending /\ CleanOK) => CleanJobsSucceed
  BY CleanSucceeds DEF CleanJobsSucceed
<1> QED
  BY <1>1, <1>2, <1>3, <1>4, PTL DEF Spec
-----------------------------------------------------------------------------
(***************************************************************************)
(* Every call ends if its core goes on: how many steps are left of a try,  *)
(* and how many tries there are.                                           *)
(***************************************************************************)
TryLeft ==
  [lock |-> 6, address |-> 5, command |-> 4, poll |-> 3, low |-> 3, fetch |-> 2,
   readhigh |-> 2, writehigh |-> 2, unlock |-> 1, return |-> 0]

\* Only a read that timed out in each of its tries fails for that, and it has
\* given back the bus.
TriesBounded ==
  \A c \in Core :
    /\ tries[c] \in 0 .. MaxTries
    /\ tries[c] = MaxTries => pc[c] = "return" /\ got[c] = Failed

\* A call stays where it is, comes nearer to the end of its try, or counts the try as
\* failed and gives back the bus.
Approaches(c) ==
  \/ pc'[c] = pc[c] /\ tries'[c] = tries[c]
  \/ pc[c] = "return" /\ pc'[c] = "idle"
  \/ /\ pc[c] \in DOMAIN TryLeft /\ pc'[c] \in DOMAIN TryLeft
     /\ TryLeft[pc'[c]] < TryLeft[pc[c]]
     /\ tries'[c] = tries[c]
  \/ lock = c /\ lock' = Null /\ tries'[c] = tries[c] + 1

\* All calls do, and the bus goes from its holder to nobody before anybody else has it.
CallsApproachEnd ==
  \A c \in Core :
    /\ pc[c] # "idle" => Approaches(c)
    /\ lock = c => lock' \in {c, Null}

\* The invariant behind both.  It needs nothing of what the controller answers.
Tried ==
  /\ pc \in [Core -> Location] /\ Locked /\ TriesBounded
  /\ tries = [c \in Core |-> tries[c]] /\ got = [c \in Core |-> got[c]]

\* The steps, as far as the calls are concerned.
LEMMA BusSteps ==
  ASSUME Next
  PROVE  \/ UNCHANGED <<lock, pc, tries, got>>
         \/ \E c \in Core : (\E k : Begin(c, k)) \/ Lock(c) \/ Inside(c) \/ Return(c)
<1>1. CASE StartJob \/ EndJob \/ Answered \/ AnsweredLate
  BY <1>1 DEF StartJob, EndJob, Answered, Answer, AnsweredLate, LateAnswer, slbVars
<1>2. CASE AccessPins \/ PinsAccessed
  BY <1>2, CallRules DEF AccessPins, PinsAccessed
<1>3. CASE \E c \in Core : CoreStep(c) \/ LockStep(c)
  BY <1>3 DEF CoreStep, LockStep
<1>4. CASE \E c \in Core \ {Driver} : OtherCall(c) \/ OtherReturn(c)
  BY <1>4 DEF OtherCall, OtherReturn
<1> QED
  BY <1>1, <1>2, <1>3, <1>4 DEF Next

\* A core goes on within its try.
Forward(c, l) ==
  /\ pc[c] \in DOMAIN TryLeft \ {"return"} /\ l \in DOMAIN TryLeft
  /\ TryLeft[l] < TryLeft[pc[c]]
  /\ tries' = tries /\ got' = [got EXCEPT ![c] = got'[c]]
  /\ \/ pc[c] = "lock" /\ l \in Held /\ lock = Null /\ lock' = c
     \/ pc[c] = "unlock" /\ l \notin Held /\ lock' = Null
     \/ pc[c] \notin {"lock", "unlock"} /\ l \in Held /\ lock' = lock

\* What a step of core c does to its call.
Advances(c, l) ==
  /\ pc' = [pc EXCEPT ![c] = l] /\ l \in Location
  /\ \/ /\ pc[c] = "idle" /\ l = "lock" /\ UNCHANGED <<lock, tries, got>>
     \/ /\ pc[c] = "return" /\ l = "idle" /\ lock' = lock
        /\ tries' = [tries EXCEPT ![c] = 0] /\ got' = [got EXCEPT ![c] = Null]
     \/ Forward(c, l)
     \/ /\ pc[c] = "poll" /\ l \notin Held /\ lock' = Null
        /\ tries' = [tries EXCEPT ![c] = @ + 1]
        /\ \/ tries[c] + 1 < MaxTries /\ got' = got
           \/ /\ ~(tries[c] + 1 < MaxTries) /\ l = "return"
              /\ got' = [got EXCEPT ![c] = Failed]

\* A core begins a call, goes on with it, or returns.
LEMMA CallAdvances ==
  ASSUME Tried, NEW c \in Core,
         (\E k : Begin(c, k)) \/ Lock(c) \/ Inside(c) \/ Return(c)
  PROVE  \E l : Advances(c, l)
<1>1. DOMAIN got = Core
  BY DEF Tried
<1>2. CASE \E k : Begin(c, k)
  <2>1. Advances(c, "lock")
    BY <1>2 DEF Begin, Goto, Advances, Location
  <2> QED
    BY <2>1
<1>3. CASE Return(c)
  <2>1. Advances(c, "idle")
    BY <1>3 DEF Return, Goto, Advances, Location
  <2> QED
    BY <2>1
<1>4. CASE Lock(c)
  <2>1. PICK l \in {"low", "address"} : l = IF Local(c) THEN "low" ELSE "address"
    OBVIOUS
  <2>2. got' = [got EXCEPT ![c] = got'[c]]
    BY <1>1, <1>4 DEF Lock, Tried
  <2>3. Forward(c, l)
    BY <1>4, <2>1, <2>2 DEF Lock, Forward, TryLeft, Held
  <2> QED
    BY <1>4, <2>1, <2>3 DEF Lock, Goto, Advances, Location
<1>5. CASE Inside(c)
  <2>2. \A v : got' = [got EXCEPT ![c] = v] => got' = [got EXCEPT ![c] = got'[c]]
    BY <1>1
  <2>3. got' = got => got' = [got EXCEPT ![c] = got'[c]]
    BY <1>1 DEF Tried
  <2>4. CASE Unlock(c)
    <3>1. Forward(c, "return")
      BY <2>3, <2>4 DEF Unlock, Forward, TryLeft, Held
    <3> QED
      BY <2>4, <3>1 DEF Unlock, Goto, Advances, Location
  <2>5. CASE LocalLow(c)
    <3>1. got' = [got EXCEPT ![c] = got'[c]]
      BY <2>2, <2>3, <2>5 DEF LocalLow
    <3>2. PICK l \in {"readhigh", "writehigh"} :
              l = IF call[c].op = "local_read" THEN "readhigh" ELSE "writehigh"
      OBVIOUS
    <3>3. pc[c] = "low" /\ pc' = [pc EXCEPT ![c] = l] /\ UNCHANGED <<lock, tries>>
      BY <2>5, <3>2 DEF LocalLow, Goto
    <3>4. Forward(c, l)
      BY <3>1, <3>2, <3>3 DEF Forward, TryLeft, Held
    <3> QED
      BY <3>2, <3>3, <3>4 DEF Advances, Location
  <2>6. CASE ReadHigh(c)
    <3>1. got' = [got EXCEPT ![c] = got'[c]]
      BY <2>2, <2>6 DEF ReadHigh
    <3>2. Forward(c, "unlock")
      BY <2>6, <3>1 DEF ReadHigh, Forward, TryLeft, Held
    <3> QED
      BY <2>6, <3>2 DEF ReadHigh, Goto, Advances, Location
  <2>13. CASE WriteHigh(c)
    <3>1. Forward(c, "unlock")
      BY <2>3, <2>13 DEF WriteHigh, Forward, TryLeft, Held
    <3> QED
      BY <2>13, <3>1 DEF WriteHigh, Goto, Advances, Location
  <2>7. CASE SetAddress(c)
    <3>1. Forward(c, "command")
      BY <2>3, <2>7 DEF SetAddress, Forward, TryLeft, Held
    <3> QED
      BY <2>7, <3>1 DEF SetAddress, Goto, Advances, Location
  <2>8. CASE WriteCommand(c)
    <3>1. Forward(c, "unlock")
      BY <2>3, <2>8 DEF WriteCommand, Forward, TryLeft, Held
    <3> QED
      BY <2>8, <3>1 DEF WriteCommand, Goto, Advances, Location
  <2>9. CASE ReadCommand(c)
    <3>1. Forward(c, "poll")
      BY <2>3, <2>9 DEF ReadCommand, Forward, TryLeft, Held
    <3> QED
      BY <2>9, <3>1 DEF ReadCommand, Goto, Advances, Location
  <2>10. CASE Poll(c)
    <3>1. Forward(c, "fetch")
      BY <2>3, <2>10 DEF Poll, Forward, TryLeft, Held
    <3> QED
      BY <2>10, <3>1 DEF Poll, Goto, Advances, Location
  <2>11. CASE Fetch(c)
    <3>1. got' = [got EXCEPT ![c] = got'[c]]
      BY <2>2, <2>11 DEF Fetch
    <3>2. Forward(c, "unlock")
      BY <2>11, <3>1 DEF Fetch, Forward, TryLeft, Held
    <3> QED
      BY <2>11, <3>2 DEF Fetch, Goto, Advances, Location
  <2>12. CASE Timeout(c)
    <3>1. CASE tries[c] + 1 < MaxTries
      <4>1. Advances(c, "lock")
        BY <2>12, <3>1 DEF Timeout, Goto, Advances, Location, Held
      <4> QED
        BY <4>1
    <3>2. CASE ~(tries[c] + 1 < MaxTries)
      <4>1. Advances(c, "return")
        BY <2>12, <3>2 DEF Timeout, Goto, Advances, Location, Held
      <4> QED
        BY <4>1
    <3> QED
      BY <3>1, <3>2
  <2> QED
    BY <1>5, <2>4, <2>5, <2>6, <2>7, <2>8, <2>9, <2>10, <2>11, <2>12, <2>13 DEF Inside
<1> QED
  BY <1>2, <1>3, <1>4, <1>5

\* Such a step keeps the bound and brings the end nearer.
LEMMA AdvanceCounts ==
  ASSUME Tried, NEW c \in Core, NEW l, Advances(c, l)
  PROVE  Tried' /\ CallsApproachEnd
<1>1. MaxTries \in Nat \ {0} /\ Null \notin Core
  BY SlbAssumption
<1>2. /\ pc \in [Core -> Location] /\ DOMAIN tries = Core /\ DOMAIN got = Core
      /\ \A d \in Core : tries[d] \in 0 .. MaxTries /\ (lock = d <=> pc[d] \in Held)
      /\ tries[c] = MaxTries => pc[c] = "return"
  BY DEF Tried, Locked, TriesBounded
<1>3. /\ pc'[c] = l /\ \A d \in Core \ {c} : pc'[d] = pc[d]
      /\ \A d \in Core \ {c} : tries'[d] = tries[d] /\ got'[d] = got[d]
      /\ tries' = [d \in Core |-> tries'[d]] /\ got' = [d \in Core |-> got'[d]]
  <2>1. pc' = [pc EXCEPT ![c] = l]
    BY DEF Advances
  <2>2. \E v : tries' = [tries EXCEPT ![c] = v]
    <3>1. tries' = tries => tries' = [tries EXCEPT ![c] = tries[c]]
      BY DEF Tried
    <3> QED
      BY <3>1 DEF Advances, Forward
  <2>3. \E v : got' = [got EXCEPT ![c] = v]
    <3>1. got' = got => got' = [got EXCEPT ![c] = got[c]]
      BY DEF Tried
    <3> QED
      BY <3>1 DEF Advances, Forward
  <2> QED
    BY <1>2, <2>1, <2>2, <2>3
<1>8. (pc \in [Core -> Location] /\ Locked)'
  <2>1. lock' = c <=> l \in Held
    <3>1. CASE Forward(c, l)
      <4>1. \/ l \in Held /\ lock' = c
            \/ l \notin Held /\ lock' = Null
            \/ pc[c] \in DOMAIN TryLeft \ {"return", "lock", "unlock"} /\ l \in Held /\ lock' = lock
        BY <3>1 DEF Forward
      <4>2. \A x \in DOMAIN TryLeft \ {"return", "lock", "unlock"} : x \in Held
        BY DEF TryLeft, Held
      <4> QED
        BY <1>1, <1>2, <4>1, <4>2
    <3>2. CASE ~Forward(c, l)
      BY <1>1, <1>2, <3>2 DEF Advances, Held
    <3> QED
      BY <3>1, <3>2
  <2>2. \A d \in Core \ {c} : lock' = d <=> lock = d
    BY <1>1, <1>2 DEF Advances, Forward, Held
  <2> QED
    BY <1>2, <1>3, <2>1, <2>2 DEF Advances, Locked
<1>4. CASE pc[c] = "idle" /\ l = "lock" /\ UNCHANGED <<lock, tries, got>>
  <2>1. TriesBounded'
    BY <1>2, <1>3, <1>4 DEF Tried, TriesBounded
  <2>2. CallsApproachEnd
    BY <1>3, <1>4 DEF CallsApproachEnd, Approaches
  <2> QED
    BY <1>3, <1>8, <2>1, <2>2 DEF Tried
<1>5. CASE /\ pc[c] = "return" /\ l = "idle" /\ lock' = lock
           /\ tries' = [tries EXCEPT ![c] = 0] /\ got' = [got EXCEPT ![c] = Null]
  <2>1. tries'[c] = 0 /\ 0 # MaxTries /\ 0 \in 0 .. MaxTries
    BY <1>1, <1>2, <1>5
  <2>2. TriesBounded'
    BY <1>3, <2>1 DEF Tried, TriesBounded
  <2>3. CallsApproachEnd
    BY <1>3, <1>5 DEF CallsApproachEnd, Approaches
  <2> QED
    BY <1>3, <1>8, <2>2, <2>3 DEF Tried
<1>6. CASE Forward(c, l)
  <2>1. tries[c] # MaxTries
    BY <1>2, <1>6 DEF Forward
  <2>2. TriesBounded'
    BY <1>3, <1>6, <2>1 DEF Forward, Tried, TriesBounded
  <2>3. ASSUME NEW d \in Core, lock = d PROVE lock' \in {d, Null}
    BY <1>1, <1>6, <2>3 DEF Forward
  <2>4. CallsApproachEnd
    BY <1>3, <1>6, <2>3 DEF Forward, CallsApproachEnd, Approaches
  <2> QED
    BY <1>3, <1>8, <2>2, <2>4 DEF Tried
<1>7. CASE /\ pc[c] = "poll" /\ l \notin Held /\ lock' = Null
           /\ tries' = [tries EXCEPT ![c] = @ + 1]
           /\ \/ tries[c] + 1 < MaxTries /\ got' = got
              \/ /\ ~(tries[c] + 1 < MaxTries) /\ l = "return"
                 /\ got' = [got EXCEPT ![c] = Failed]
  <2>1. tries'[c] = tries[c] + 1 /\ tries[c] # MaxTries /\ lock = c
    BY <1>2, <1>7 DEF Held
  <2>2. tries'[c] \in 0 .. MaxTries
    BY <1>1, <1>2, <2>1
  <2>3. tries'[c] = MaxTries => pc'[c] = "return" /\ got'[c] = Failed
    BY <1>1, <1>2, <1>3, <1>7, <2>1
  <2>4. TriesBounded'
    BY <1>3, <2>2, <2>3 DEF Tried, TriesBounded
  <2>5. CallsApproachEnd
    BY <1>3, <1>7, <2>1 DEF CallsApproachEnd, Approaches
  <2> QED
    BY <1>3, <1>8, <2>4, <2>5 DEF Tried
<1> QED
  BY <1>4, <1>5, <1>6, <1>7, Zenon DEF Advances

\* Every step does.
LEMMA StepCounts ==
  ASSUME Tried, Next
  PROVE  Tried' /\ CallsApproachEnd
<1>1. CASE UNCHANGED <<lock, pc, tries, got>>
  BY <1>1 DEF Tried, Locked, TriesBounded, CallsApproachEnd, Approaches
<1>2. CASE \E c \in Core : (\E k : Begin(c, k)) \/ Lock(c) \/ Inside(c) \/ Return(c)
  BY <1>2, CallAdvances, AdvanceCounts
<1> QED
  BY <1>1, <1>2, BusSteps

\* The bound holds at first.
LEMMA InitTried == Init => Tried
<1> SUFFICES ASSUME Init PROVE Tried
  OBVIOUS
<1>1. pc \in [Core -> Location] /\ Locked
  BY InitInv DEF Inv, Shape
<1>2. MaxTries \in Nat \ {0}
  BY SlbAssumption
<1>3. TriesBounded
  <2>1. \A c \in Core : tries[c] = 0
    BY DEF Init, SlbInit
  <2>2. 0 \in 0 .. MaxTries /\ 0 # MaxTries
    BY <1>2
  <2> QED
    BY <2>1, <2>2 DEF TriesBounded
<1> QED
  BY <1>1, <1>3 DEF Init, SlbInit, Tried

\* It is part of an invariant.
LEMMA TriedAlways == Spec => []Tried
<1>1. Tried /\ [Next]_vars => Tried'
  <2> SUFFICES ASSUME Tried, [Next]_vars PROVE Tried'
    OBVIOUS
  <2>1. CASE Next
    BY <2>1, StepCounts
  <2>2. CASE UNCHANGED vars
    BY <2>2 DEF Tried, Locked, TriesBounded, vars, slbVars
  <2> QED
    BY <2>1, <2>2
<1> QED
  BY <1>1, InitTried, PTL DEF Spec

\* ewx_slb_subc_read tries no more often than it should, and gives up, with the bus
\* free, only after all its tries.
THEOREM TriesBoundedTheorem == Spec => []TriesBounded
<1>1. Tried => TriesBounded
  BY DEF Tried
<1> QED
  BY <1>1, TriedAlways, PTL

\* A core that moves on inside a call comes nearer to the end of its try, or ends
\* the try and gives back the bus, and no step of another core makes the way longer
\* or takes the bus away: with boundedly many tries, this is what BusReleased needs
\* of the steps, besides fairness.
THEOREM CallsEndTheorem == Spec => [][CallsApproachEnd]_vars
<1>1. Tried /\ Next => CallsApproachEnd
  BY StepCounts
<1> QED
  BY <1>1, TriedAlways, PTL DEF Spec
=============================================================================
