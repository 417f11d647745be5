-------------------------------- MODULE MCSpi --------------------------------
(* Small instances of Spi for TLC.  A byte has two bits.                       *)
EXTENDS SpiProps

CONSTANTS c1, c2, pins, other, board

Read == <<0, 0>>
Write == <<0, 1>>
Port == <<1, 0>>
Page == <<1, 1>>
Fill == <<0, 0>>
One == <<0, 1>>

Job(fn, cs, data) ==
  [fn |-> fn, cs |-> cs, page |-> One, addr |-> One, data |-> data]

\* Two switches: one job meets what the other one left behind.
TwoChips == <<Job("write", 0, <<Port>>), Job("read", 1, <<Fill>>)>>
Ones == <<One>>

\* What the other register holds: pins, but not as those of the chips are.
Zeros == [ss |-> [x \in Cs |-> 0], sck |-> 0, mosi |-> 0, miso |-> 0]

\* What the other core does on the bus meanwhile.
OtherOperations ==
  {[op |-> "subc_read", addr |-> other],
   [op |-> "local_read", addr |-> board],
   [op |-> "local_write", addr |-> board, val |-> 255]}

\* After a late answer was taken for another there is nothing left to check.
NotMisled == ~misled

\* A value of more than one byte, and nothing else to do.
HighByte ==
  {[op |-> "local_write", addr |-> board, val |-> 258],
   [op |-> "local_read", addr |-> board]}
NoJobs == <<>>
=============================================================================
