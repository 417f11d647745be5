-------------------------------- MODULE Spi --------------------------------
(***************************************************************************)
(* Access to the registers of the two switch chips, ewx_spi.c, over the    *)
(* SLB bus: the core Driver moves the pins of an SPI port that are bits of *)
(* the sub-card register FPGA_SPI_RW, other cores use the bus meanwhile.   *)
(***************************************************************************)
EXTENDS Slb, Sequences

CONSTANTS
  Driver,        \* the core that calls ewx_5324_reg_read and _write
  FPGA_SPI_RW,   \* the register whose bits are the pins
  Blank, Fresh,  \* what other sub-card registers and the chips' registers hold at first
  Jobs,          \* bound: the calls it makes, in order: fn, cs, page, addr, data
  Width,         \* bits of a byte: 8 in the code
  ReadOp, WriteOp, PageReg, DataPort, Filler   \* 0x60, 0x61, 0xff, 0xf0, '?'

Bit == {0, 1}

\* A byte is its bits, the highest one first, as they are sent and received.
SpiByte == [1 .. Width -> Bit]
Zero == [k \in 1 .. Width |-> 0]
Cs == {0, 1}
Pins == [ss : [Cs -> Bit], sck : Bit, mosi : Bit, miso : Bit]

ASSUME SpiAssumption ==
  /\ Driver \in Core /\ FPGA_SPI_RW \in Addr /\ Width \in Nat \ {0}
  /\ Fresh \in Seq(SpiByte) /\ ReadOp # WriteOp /\ PageReg # DataPort
  /\ {ReadOp, WriteOp, PageReg, DataPort, Filler} \subseteq SpiByte
  /\ Jobs \in Seq([fn : {"read", "write"}, cs : Cs, page : SpiByte,
                  addr : SpiByte \ {PageReg, DataPort}, data : Seq(SpiByte) \ {<<>>}])
  /\ \A i \in DOMAIN Jobs : Jobs[i].fn = "read" => Len(Jobs[i].data) <= 3
  /\ \A k \in Calls : k.addr = FPGA_SPI_RW => k.op = "subc_read"

VARIABLES
  done,   \* how many of its jobs the driver has done
  spi,    \* the driver: job, phase, frame, bit, reg, bits received, all reads well
  chips   \* the two switch chips

vars == <<slbVars, done, spi, chips>>

-----------------------------------------------------------------------------
(* The driver.                                                             *)

\* What goes over the line for a job, frame by frame: between two frames the
\* chip is deselected.  The page is read first, to no effect.
Frames(j) ==
  << <<ReadOp, PageReg, Filler>>, <<WriteOp, PageReg, j.page>> >>
    \o IF j.fn = "write" THEN << <<WriteOp, j.addr>> \o j.data >>
       ELSE LET fill == [i \in 1 .. Len(j.data) |-> Filler]
            IN << <<ReadOp, j.addr>> \o fill, <<ReadOp, DataPort>> \o fill >>

Frame == Frames(spi.job)[spi.frame]
LastFrame == Len(Frames(spi.job))

\* The bit of the frame that is sent next.
OutBit == Frame[((spi.bit - 1) \div Width) + 1][((spi.bit - 1) % Width) + 1]
LastBit == Width * Len(Frame)

\* Only the last frame of a read has an answer that is used: what comes after
\* its first two bytes.
Wanted == spi.job.fn = "read" /\ spi.frame = LastFrame /\ spi.bit > 2 * Width

AllOnes == [ss |-> [x \in Cs |-> 1], sck |-> 1, mosi |-> 1, miso |-> 1]

Select(r) == [r EXCEPT !.ss[spi.job.cs] = 0]

\* Mutant: the select of the other chip goes up.
DeselectOther(r) == [r EXCEPT !.ss[1 - spi.job.cs] = 1]

Deselect(r) == [r EXCEPT !.ss[spi.job.cs] = 1]

\* Mutant: the bit is added to the old one instead of replacing it.
PutBitSticky(r) == [r EXCEPT !.mosi = IF @ = 1 THEN 1 ELSE OutBit]

PutBit(r) == [r EXCEPT !.mosi = OutBit]

\* What the driver writes to the pins in each phase that writes.
Driven ==
  [selectW |-> Select(spi.reg), lowW |-> [spi.reg EXCEPT !.sck = 0],
   data |-> PutBit(spi.reg), high |-> [spi.reg EXCEPT !.sck = 1],
   releaseW |-> Deselect(spi.reg)]

Reading == {"selectR", "lowR", "sample", "releaseR"}
Writing == {"selectW", "lowW", "data", "high", "releaseW"}

Access ==
  IF spi.phase \in Reading THEN [op |-> "subc_read", addr |-> FPGA_SPI_RW]
  ELSE [op |-> "subc_write", addr |-> FPGA_SPI_RW, val |-> Driven[spi.phase]]

Following ==
  [selectR |-> "selectW", selectW |-> "lowR", lowR |-> "lowW", lowW |-> "data",
   data |-> "high", high |-> "sample",
   sample |-> IF spi.bit < LastBit THEN "lowR" ELSE "releaseR",
   releaseR |-> "releaseW",
   releaseW |-> IF spi.frame < LastFrame THEN "selectR" ELSE "done"]

NoJob == [job |-> Null, phase |-> "none", frame |-> 1, bit |-> 1, reg |-> AllOnes,
          bits |-> <<>>, clean |-> TRUE]

StartJob ==
  /\ spi.phase = "none" /\ done < Len(Jobs)
  /\ spi' = [NoJob EXCEPT !.job = Jobs[done + 1], !.phase = "selectR"]
  /\ UNCHANGED <<slbVars, done, chips>>

\* The driver makes its next access to the pins.
AccessPins ==
  /\ spi.phase \notin {"none", "done"}
  /\ Begin(Driver, Access)
  /\ UNCHANGED <<done, spi, chips>>

\* The access returns.  A read that failed looks like a register full of ones.
PinsAccessed ==
  LET v == IF got[Driver] = Failed THEN AllOnes ELSE got[Driver]
      seen == IF spi.phase \in Reading THEN v ELSE Driven[spi.phase]
      next == Following[spi.phase]
  IN /\ Return(Driver)
     /\ spi' = [spi EXCEPT
          !.phase = next,
          !.reg = IF next \in {"selectR", "releaseR", "lowR", "done"} THEN AllOnes ELSE seen,
          !.bits = IF spi.phase = "sample" /\ Wanted THEN Append(@, v.miso) ELSE @,
          !.bit = IF spi.phase = "sample" THEN IF @ < LastBit THEN @ + 1 ELSE 1 ELSE @,
          !.frame = IF next = "selectR" THEN @ + 1 ELSE @,
          !.clean = @ /\ got[Driver] # Failed]
     /\ UNCHANGED <<done, chips>>

\* The bytes that are complete in a sequence of bits.
BytesOf(bits) ==
  [i \in 1 .. Len(bits) \div Width |-> [k \in 1 .. Width |-> bits[(i - 1) * Width + k]]]

\* The bytes the driver puts together, the first one lowest.  It shifts them in an
\* int, which is good for three of them.
ValueRead == BytesOf(spi.bits)

\* ewx_5324_reg_read and _write return: the one with the value, the other with 0.
EndJob ==
  /\ spi.phase = "done"
  /\ spi' = NoJob
  /\ done' = done + 1
  /\ UNCHANGED <<slbVars, chips>>

-----------------------------------------------------------------------------
(* The chips.  A frame is an operation, a register and data; the page      *)
(* register selects the page of the others.  A read of a register puts its *)
(* data at the data port, from where a second read fetches it.             *)

NoChip == [bits |-> <<>>, page |-> Zero, regs |-> <<>>, port |-> <<>>]

\* What a register holds; one that was not written yet holds Fresh.
RegOf(chip, page, addr) ==
  IF <<page, addr>> \in DOMAIN chip.regs THEN chip.regs[<<page, addr>>] ELSE Fresh

\* A chip after one more bit.
Shift(chip, b) ==
  LET bits == Append(chip.bits, b)
      byte == BytesOf(bits)
      whole == Len(bits) % Width = 0 /\ Len(byte) > 2
      data == SubSeq(byte, 3, Len(byte))
      reg == <<chip.page, byte[2]>>
      next == [chip EXCEPT !.bits = bits]
  IN IF ~whole \/ byte[1] \notin {ReadOp, WriteOp} THEN next
     ELSE IF byte[1] = WriteOp
     THEN IF byte[2] = PageReg THEN [next EXCEPT !.page = data[1]]
          ELSE [next EXCEPT !.regs =
                  [r \in DOMAIN @ \cup {reg} |-> IF r = reg THEN data ELSE @[r]]]
     ELSE IF byte[2] \in {PageReg, DataPort} THEN next
          ELSE [next EXCEPT !.port = RegOf(chip, chip.page, byte[2])]

\* Chip cs while the pins go from old to new: a falling select starts a frame, a
\* rising one ends it, a rising clock shifts.
React(cs, old, new) ==
  IF new.ss[cs] = 1 \/ old.ss[cs] = 1 THEN [chips[cs] EXCEPT !.bits = <<>>]
  ELSE IF old.sck = 0 /\ new.sck = 1 THEN Shift(chips[cs], new.mosi)
  ELSE chips[cs]

\* The bit a chip shows after the clock has risen.
Miso(chip) ==
  LET n == Len(chip.bits)
      byte == BytesOf(chip.bits)
      i == ((n - 1) \div Width) - 1
  IN IF n > 2 * Width /\ byte[1] = ReadOp /\ byte[2] = DataPort /\ i <= Len(chip.port)
     THEN chip.port[i][((n - 1) % Width) + 1]
     ELSE 0

\* What a register shows: the pin that is an input comes from the chips.
Shown(a) ==
  IF a # FPGA_SPI_RW THEN mem[a]
  ELSE [mem[a] EXCEPT !.miso =
          IF \E cs \in Cs : mem[a].ss[cs] = 0 /\ Miso(chips[cs]) = 1 THEN 1 ELSE 0]

-----------------------------------------------------------------------------
Init ==
  /\ SlbInit
  /\ mem = [a \in Addr |-> IF a = FPGA_SPI_RW THEN AllOnes ELSE Blank]
  /\ done = 0 /\ spi = NoJob
  /\ chips = [cs \in Cs |-> NoChip]

\* The chips see the pins change with the write command.
ChipsFollow ==
  /\ chips' = [cs \in Cs |-> React(cs, mem[FPGA_SPI_RW], mem'[FPGA_SPI_RW])]
  /\ UNCHANGED <<done, spi>>

\* The steps on the bus.
CoreStep(c) == Inside(c) /\ ChipsFollow
LockStep(c) == Lock(c) /\ ChipsFollow
Answered == reading # Null /\ Answer(Shown(reading)) /\ ChipsFollow
AnsweredLate == \E c \in Core, a \in Addr : LateAnswer(c, a, Shown(a)) /\ ChipsFollow
OtherCall(c) == (\E k \in Calls : Begin(c, k)) /\ ChipsFollow
OtherReturn(c) == Return(c) /\ ChipsFollow

Next ==
  \/ StartJob \/ AccessPins \/ PinsAccessed \/ EndJob
  \/ Answered \/ AnsweredLate
  \/ \E c \in Core : CoreStep(c) \/ LockStep(c)
  \/ \E c \in Core \ {Driver} : OtherCall(c) \/ OtherReturn(c)

Spec == Init /\ [][Next]_vars

\* A core inside a call goes on; the lock may still pass anyone by.
FairSpec == Spec /\ WF_vars(Answered) /\ \A c \in Core : WF_vars(CoreStep(c))
=============================================================================
