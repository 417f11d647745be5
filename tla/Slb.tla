-------------------------------- MODULE Slb --------------------------------
(***************************************************************************)
(* The SLB bus, ewx_slb.c.  The board's own registers are pairs of         *)
(* byte-wide cells; registers of sub-cards lie behind a controller that is *)
(* given an address, perhaps data, and a command, and is polled for the    *)
(* end of a read.  Each access of a core to bus or controller is a step.   *)
(***************************************************************************)
EXTENDS Naturals

CONSTANTS
  Core, Null,
  Addr,        \* sub-card registers: device, sub_mode and address together
  Cell,        \* addresses of the board's own registers
  Calls,       \* the calls cores make
  Failed,      \* (uint16_t)-1
  MaxTries,    \* how often a read is tried: 5 in the code
  MaxTimeouts  \* bound: how many polls time out in one behaviour

ASSUME SlbAssumption ==
  /\ Null \notin Core \cup Addr
  /\ MaxTries \in Nat \ {0} /\ MaxTimeouts \in Nat
  /\ \A k \in Calls :
       \/ k.op \in {"subc_read", "subc_write"} /\ k.addr \in Addr
       \/ k.op = "local_read" /\ k.addr \in Cell
       \/ k.op = "local_write" /\ k.addr \in Cell /\ k.val \in Nat /\ k.val < 256 * 256

VARIABLES
  lock,      \* slb_lock: the core that holds it, or Null
  pc, call, tries, got,   \* per core: location, arguments, times, value read
  address, wdata,   \* the controller's address and write data registers, Null
                    \* from the command that uses them to the next call
  reading,   \* the register the last read command is at work on, or Null
  rdata,     \* the read data registers, Null while SLB_CMD_FIN is not set and
             \* after they are fetched
  misled,    \* history: a late answer has come to a core that waited for that of
             \* another register
  mem,       \* the sub-card registers
  cells,     \* the board's registers: low and high byte
  timeouts   \* counts up to MaxTimeouts

slbVars == <<lock, pc, call, tries, got, address, wdata, reading, rdata, misled,
             mem, cells, timeouts>>
control == <<address, wdata, reading, rdata, misled>>

Location == {"idle", "lock", "low", "readhigh", "writehigh", "address",
             "command", "poll", "fetch", "unlock", "return"}

\* mem is given its first values by the modules that know the registers.
SlbInit ==
  /\ lock = Null
  /\ pc = [c \in Core |-> "idle"]
  /\ call = [c \in Core |-> Null]
  /\ tries = [c \in Core |-> 0]
  /\ got = [c \in Core |-> Null]
  /\ address = Null /\ wdata = Null
  /\ reading = Null /\ rdata = Null /\ misled = FALSE
  /\ cells = [a \in Cell |-> <<0, 0>>]
  /\ timeouts = 0

Goto(c, l) == pc' = [pc EXCEPT ![c] = l]

Local(c) == call[c].op \in {"local_read", "local_write"}

-----------------------------------------------------------------------------
(* Calls and the lock.                                                     *)

Begin(c, k) ==
  /\ pc[c] = "idle"
  /\ Goto(c, "lock")
  /\ call' = [call EXCEPT ![c] = k]
  /\ UNCHANGED <<lock, tries, got, control, mem, cells, timeouts>>

\* SLB_LOCK: spin until the lock is free.
Lock(c) ==
  /\ pc[c] = "lock" /\ lock = Null
  /\ lock' = c
  /\ Goto(c, IF Local(c) THEN "low" ELSE "address")
  /\ UNCHANGED <<call, tries, got, control, mem, cells, timeouts>>

Unlock(c) ==
  /\ pc[c] = "unlock"
  /\ lock' = Null
  /\ Goto(c, "return")
  /\ UNCHANGED <<call, tries, got, control, mem, cells, timeouts>>

Return(c) ==
  /\ pc[c] = "return"
  /\ Goto(c, "idle")
  /\ call' = [call EXCEPT ![c] = Null]
  /\ tries' = [tries EXCEPT ![c] = 0]
  /\ got' = [got EXCEPT ![c] = Null]
  /\ UNCHANGED <<lock, control, mem, cells, timeouts>>

-----------------------------------------------------------------------------
(* The board's own registers.                                              *)

LowByte(v) == v % 256

\* The high byte as ewx_slb_local_read adds it to a 16-bit value, and as
\* ewx_slb_local_write takes it out of one: both shift by 16, so nothing is left.
HighRead(b) == (b * 65536) % 65536
HighWritten(v) == ((v \div 256) * 256) \div 65536

LocalLow(c) ==
  LET a == call[c].addr
  IN /\ pc[c] = "low"
     /\ IF call[c].op = "local_read"
        THEN /\ got' = [got EXCEPT ![c] = cells[a][1]] /\ UNCHANGED cells
             /\ Goto(c, "readhigh")
        ELSE /\ cells' = [cells EXCEPT ![a][1] = LowByte(call[c].val)] /\ UNCHANGED got
             /\ Goto(c, "writehigh")
     /\ UNCHANGED <<lock, call, tries, control, mem, timeouts>>

ReadHigh(c) ==
  /\ pc[c] = "readhigh"
  /\ got' = [got EXCEPT ![c] = @ + HighRead(cells[call[c].addr][2])]
  /\ Goto(c, "unlock")
  /\ UNCHANGED <<lock, call, tries, control, mem, cells, timeouts>>

WriteHigh(c) ==
  /\ pc[c] = "writehigh"
  /\ cells' = [cells EXCEPT ![call[c].addr][2] = HighWritten(call[c].val)]
  /\ Goto(c, "unlock")
  /\ UNCHANGED <<lock, call, tries, got, control, mem, timeouts>>

-----------------------------------------------------------------------------
(* The sub-card registers.                                                 *)

\* Device, address and data registers of the controller.
SetAddress(c) ==
  /\ pc[c] = "address"
  /\ address' = call[c].addr
  /\ wdata' = IF call[c].op = "subc_write" THEN call[c].val ELSE wdata
  /\ Goto(c, "command")
  /\ UNCHANGED <<lock, call, tries, got, reading, rdata, misled, mem, cells, timeouts>>

\* The write command.  The code does not wait for its end, so it counts as done
\* at once.
WriteCommand(c) ==
  /\ pc[c] = "command" /\ call[c].op = "subc_write"
  /\ mem' = [mem EXCEPT ![address] = wdata]
  /\ address' = Null /\ wdata' = Null
  /\ Goto(c, "unlock")
  /\ UNCHANGED <<lock, call, tries, got, reading, rdata, misled, cells, timeouts>>

\* The read command.  Its store puts out the SLB_CMD_FIN of the command before, and
\* with it what was answered but not fetched.
ReadCommand(c) ==
  /\ pc[c] = "command" /\ call[c].op = "subc_read"
  /\ reading' = address /\ address' = Null /\ rdata' = Null
  /\ Goto(c, "poll")
  /\ UNCHANGED <<lock, call, tries, got, wdata, misled, mem, cells, timeouts>>

\* The controller ends the last read; v is what the register shows.
Answer(v) ==
  /\ reading # Null
  /\ rdata' = v
  /\ reading' = Null
  /\ UNCHANGED <<lock, pc, call, tries, got, address, wdata, misled, mem, cells, timeouts>>

\* A read that was given up is not called off: its answer, v of register a, may come
\* while a core waits for that of its own command, and nothing tells the two apart.
\* Which reads were given up is not kept: any register will do.  (An answer that
\* comes when nobody waits is put out by the next command.)
LateAnswer(c, a, v) ==
  /\ timeouts > 0 /\ pc[c] \in {"poll", "fetch"}
  /\ rdata' = v
  /\ misled' = (misled \/ call[c].addr # a)
  /\ UNCHANGED <<lock, pc, call, tries, got, address, wdata, reading, mem, cells, timeouts>>

\* Mutant: the lock is given away as soon as the command has ended.
PollUnlocks(c) ==
  /\ pc[c] = "poll" /\ rdata # Null
  /\ lock' = Null
  /\ Goto(c, "fetch")
  /\ UNCHANGED <<call, tries, got, control, mem, cells, timeouts>>

Poll(c) ==
  /\ pc[c] = "poll" /\ rdata # Null
  /\ Goto(c, "fetch")
  /\ UNCHANGED <<lock, call, tries, got, control, mem, cells, timeouts>>

\* Mutant: the last unlock is left to the code after the loop, as for a success.
TimeoutLocked(c) ==
  /\ pc[c] = "poll" /\ timeouts < MaxTimeouts
  /\ timeouts' = timeouts + 1
  /\ tries' = [tries EXCEPT ![c] = @ + 1]
  /\ IF tries[c] + 1 < MaxTries
     THEN lock' = Null /\ Goto(c, "lock") /\ UNCHANGED got
     ELSE lock' = lock /\ Goto(c, "return") /\ got' = [got EXCEPT ![c] = Failed]
  /\ UNCHANGED <<call, control, mem, cells>>

\* The poll has taken too long.  The bit may come between the test of the command
\* register and that of the clock, so rdata does not matter.
Timeout(c) ==
  /\ pc[c] = "poll" /\ timeouts < MaxTimeouts
  /\ timeouts' = timeouts + 1
  /\ tries' = [tries EXCEPT ![c] = @ + 1]
  /\ lock' = Null
  /\ IF tries[c] + 1 < MaxTries
     THEN Goto(c, "lock") /\ UNCHANGED got
     ELSE Goto(c, "return") /\ got' = [got EXCEPT ![c] = Failed]
  /\ UNCHANGED <<call, control, mem, cells>>

Fetch(c) ==
  /\ pc[c] = "fetch"
  /\ got' = [got EXCEPT ![c] = rdata]
  /\ rdata' = Null
  /\ Goto(c, "unlock")
  /\ UNCHANGED <<lock, call, tries, address, wdata, reading, misled, mem, cells, timeouts>>

-----------------------------------------------------------------------------
\* The steps of a core inside a call.
Inside(c) ==
  \/ Unlock(c) \/ LocalLow(c) \/ ReadHigh(c) \/ WriteHigh(c) \/ SetAddress(c)
  \/ WriteCommand(c) \/ ReadCommand(c) \/ Poll(c) \/ Timeout(c) \/ Fetch(c)
=============================================================================
