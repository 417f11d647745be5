------------------------------ MODULE SpiProps ------------------------------
(* What bus and switch access have to keep true.                           *)
EXTENDS Spi

Register == RegOf(chips[spi.job.cs], spi.job.page, spi.job.addr)

\* A value as a chip shows it to a read of n bytes.
Padded(v, n) ==
  [i \in 1 .. n |-> IF i <= Len(v) THEN v[i] ELSE Zero]

\* If no read of the pins failed and no core got the late answer of another
\* register, ewx_5324_reg_write has written the register when it returns, and
\* ewx_5324_reg_read returns as many bytes of what the register holds as it was
\* asked for, whatever other cores did on the bus.
CleanJobsSucceed ==
  spi.phase = "done" /\ spi.clean /\ ~misled =>
    IF spi.job.fn = "write" THEN Register = spi.job.data
    ELSE ValueRead = Padded(Register, Len(spi.job.data))

\* A chip's registers change only for a write to that chip and in the registers
\* with that address, after failed reads too, as long as no core got the late
\* answer of another register.  (A failed read can leave the page of an earlier job.)
OnlyAddressedChange ==
  [][\A cs \in Cs : chips'[cs].regs # chips[cs].regs /\ ~misled' =>
       /\ spi.phase # "none" /\ spi.job.fn = "write" /\ spi.job.cs = cs
       /\ \A r \in DOMAIN chips'[cs].regs :
            r[2] = spi.job.addr \/
              (r \in DOMAIN chips[cs].regs /\ chips'[cs].regs[r] = chips[cs].regs[r])]_vars

\* Whoever has the bus gives it back, through every retry and failure.
BusReleased == lock # Null ~> lock = Null

-----------------------------------------------------------------------------
(* The promise of the bus, module SlbRegs.  A write counts with its        *)
(* command or the first of its two stores, a read with the fetch of its    *)
(* data, the second of its two loads or its last timeout.                  *)

stage ==
  [c \in Core |->
     IF pc[c] = "idle" THEN "idle"
     ELSE IF pc[c] \in {"writehigh", "unlock", "return"} THEN "applied" ELSE "called"]

answer == [c \in Core |-> IF stage[c] = "applied" THEN got[c] ELSE Null]

\* Between its stores the writer of a register has the lock: nobody looks.
Writers(a) == {c \in Core : pc[c] = "writehigh" /\ call[c].addr = a}

\* What one of the board's registers holds.
Board(a) ==
  IF Writers(a) # {} THEN call[CHOOSE c \in Writers(a) : TRUE].val
  ELSE cells[a][1] + 256 * cells[a][2]

\* The calls of all cores: those of the driver are about the pins.
AllCalls ==
  Calls \cup {[op |-> "subc_read", addr |-> FPGA_SPI_RW]}
        \cup {[op |-> "subc_write", addr |-> FPGA_SPI_RW, val |-> p] : p \in Pins}

\* A write to the pins leaves the one that is an input to the chips.
Landing(a, v) == IF a = FPGA_SPI_RW THEN {[v EXCEPT !.miso = b] : b \in Bit} ELSE {v}

Registers ==
  INSTANCE SlbRegs WITH
    Calls <- AllCalls,
    Lands <- Landing,
    regs <- [a \in Addr |-> Shown(a)],
    board <- [a \in Cell |-> Board(a)],
    req <- call,
    ans <- answer

\* Nobody writes more than a low byte to the board's registers.  The high byte is
\* lost on its way (ewx_slb.c:59, 73), and RegistersAtomic with it.
LowBytes == \A k \in Calls : k.op = "local_write" => k.val < 256

\* To its callers the bus is a set of registers, each read and written in one
\* instant, in spite of polling, timeouts, retries and other cores, and of late
\* answers of the same register; for as long as none of another register comes to
\* a core that waits, which the code could not tell.
RegistersAtomic ==
  Registers!Init /\ [][misled' \/ Registers!Next]_(Registers!vars)
=============================================================================
