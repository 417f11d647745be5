# TLA+ models of libewx

libewx is a C library for bare-metal programs on Cavium OCTEON processors: many
cores run the same executable without an operating system and share memory. This
directory holds TLA+ modules translated from its source, TLC configurations that
check them on small instances, and proofs that TLAPS checks for every value of the
constants.

    tlc -config HT_pool.cfg MCHashTable     # one of the runs below
    tlapm HashTable_proofs.tla              # the proofs about the hash table

The other proof modules are `HashContents_proofs`, `Thread_proofs`, `ShellLine_proofs`,
`Console_proofs`, `Spi_proofs`, `Led_proofs` and `List_proofs`.

Modelled: the hash table, threads and timers, the shell's line editor, the console of all
cores (output lock, command table, debug level), the SLB bus with the SPI access to the
switches over it, the port LEDs and the linked lists.

## Inventory

| Part | State it keeps | Operations | Hard behaviours | What makes it correct |
|---|---|---|---|---|
| Hash table, `ewx_hash_table.c` | per bucket a chain of blocks (`next_offset`, `valid_count`, items), optional spinlock per bucket | init, search, insert, remove, show | cores interleave in the chains; allocation fails inside an insert; callbacks decide the outcome; items move between blocks | it behaves like a multiset per bucket; blocks are not lost or shared; locks come back |
| Threads and timers, `ewx_thread.c` | a work entry (WQE) with `magic`, `free`, `tick`, callback | create, timer create, process, stop | entries go through the POW queue, the timer wheel and the pool, and any core may get them; arming the timer can fail; stop races with processing | a WQE is in one place; one core at a time runs a thread; a stopped timer ends |
| Shell, `ewx_shell.c` | line buffer and index, escape state, history ring, command table, prompt | run (one key), register, unregister, execute | long key sequences; ring wrap while browsing; handlers that change the table | the ring is the list of the last commands; terminal and line agree; a name is registered once |
| UART console, `ewx_uart.c` | output lock, PCI or serial mode | printf, prints, putchar, read byte (with and without waiting) | the lock against an error message printed under it; output that bypasses the lock | lines are not mixed; nobody waits for itself |
| SLB bus, `ewx_slb.c` | bus lock, sub-controller registers | local read/write, sub-controller read/write | polling with timeout and retry, late answers | a read returns the register's value |
| SPI switch access, `ewx_spi.c` | bits of one SLB register | read and write a switch register | read-modify-write by two cores, failed reads | a transfer is not disturbed |
| Port LEDs, `ewx_led.c` | LED bits, flash state, saved packet counters | detect packets, timer process | state spread over ticks | an LED flashes while there is traffic |
| Linked list, `ewx_list.h` | circular doubly linked list | add, delete, move, replace, splice | pointer order in each operation | `next` and `prev` are inverse |
| Memory helpers, `ewx_mem.c` | named boot-memory blocks, FPA pools | arena, pool init and resize, zone init | failure between two steps, sizes in 32 bits | nothing allocated is left behind |
| Debug, log, helpers | debug level; pure conversions | - | - | - |

The parts meet in few places: shell and debug print through the UART and `ewx_debug_init`
registers a shell command (all three in `Console`); SPI works over the SLB (`Spi` extends
`Slb`); LEDs use SLB registers and timers; the hash table takes its memory from the same
boot-memory allocator as `ewx_mem.c`.

## Modules

| Module | Models | Kind |
|---|---|---|
| `HashTable` | `ewx_hash_table.c` | detailed specification, mutants of its operators |
| `HashMultiset` | what `ewx_hash_table.h` promises | abstract specification |
| `HashTableProps` | - | properties, refinement mapping `Multiset` |
| `HashTable_proofs` | - | proofs: types, locks, shape of the chains |
| `HashContents_proofs` | - | proofs, on top of the former: what the chains contain, and the refinement |
| `MCHashTable` | - | values for TLC |
| `Thread` | `ewx_thread.c` with the WQE pool, POW and timer wheel around it | detailed specification, mutants |
| `ThreadLife` | what `ewx_thread.h` promises | abstract specification |
| `ThreadProps` | - | properties, refinement mapping `Lives` |
| `Thread_proofs` | - | proofs |
| `MCThread` | - | values for TLC |
| `ShellLine` | `ewx_shell_run` in `ewx_shell.c` | detailed specification, mutants |
| `CommandLog` | what the shell's user sees | abstract specification |
| `ShellLineProps` | - | properties, refinement mapping `Log`; its `.cfg` gives the constants their values |
| `ShellLine_proofs` | - | proofs |
| `Console` | output of `ewx_uart.c`, command table and execution of `ewx_shell.c`, level of `ewx_debug.c` | detailed specification, mutants |
| `CommandDirectory` | what `ewx_shell.h` promises of commands | abstract operations |
| `ConsoleProps` | - | properties, refinement mapping `D` |
| `Console_proofs` | - | proofs |
| `Slb` | `ewx_slb.c` and the controller | detailed specification without the registers' first values, mutants |
| `SlbRegs` | what `ewx_slb.h` promises | abstract specification |
| `Spi` | `ewx_spi.c` and the two chips, on top of `Slb` | detailed specification, mutants |
| `SpiProps` | - | properties of both, refinement mapping `Registers` |
| `Spi_proofs` | - | proofs |
| `MCSpi` | - | values for TLC |
| `Led` | `ewx_led.c` with links and packets around it | detailed specification, mutants |
| `LedProps`, `Led_proofs` | - | properties; proofs |
| `List` | `ewx_list.h` | detailed specification, mutants |
| `Lists` | what `ewx_list.h` promises, on sequences | abstract operations |
| `ListProps`, `List_proofs` | - | properties, refinement mapping `L`; proofs |
| `MCList` | - | symmetry for TLC |

A definition whose comment begins with "Mutant" is a wrong variant of the one that
follows. No specification uses it; it serves to see that a property notices the error.

### HashTable

A core that calls the library goes through the locations of `pc`: `lock` (wait for the
spinlock), `walk` (the `do ... while` loop over the chain), then by operation `place`,
`grow` and `copy` (insert) or `seek` and `drop` (remove), then `unlock` and `return`.
A step reads or writes one block, which is where the cores interleave.

| State | Code |
|---|---|
| `nxt`, `cnt`, `mem` | `next_offset`, `valid_count` and the items of each block |
| `pool` | what the caller's `bucket_alloc` can still give |
| `lock` | `hash_lock[b]`, used only with `auto_lock` |
| `call`, `cur`, `pre`, `slot`, `res` | arguments and locals: `current`, `pre`, found item / `free_pos_p` / entry to remove, `result` |

| Action | Code in `ewx_hash_table.c` |
|---|---|
| `Begin`, `Reject`, `Return` | call, early returns, return |
| `Lock`, `Unlock` | spinlock; the loop of `ewx_hash_table_show` goes on to the next bucket |
| `WalkOn`, `EndOfChain`, `Found` | search loop |
| `InsertHit`, `TakeSlot`, `Place`, `NoSpace`, `Grow`, `Copy` | insert: equal item, free slot, `free_pos_p`, failing and successful `bucket_alloc`, `memcpy` |
| `RemoveHit`, `Seek`, `Move`, `Drop` | remove: equal item, way to the last block, its last entry fills the hole, a block that gets empty leaves |

Callbacks are their answers (`done` > 0, `again` = 0, `fail` < 0, `null` not given).
Items are values with a key (`KeyOf`), which is all that `compare` looks at. Show's
callback gets every item of a bucket while it is locked; what it prints is left out.
A freed overflow block loses its contents, which belong to the allocator from then on.
Without `auto_lock` the table does no locking; then the callers serialise the calls
that can touch one bucket (`Overlap`). A caller gives `free_pos_p` only where a
position is free (`KnowsFreePos`).

`HashMultiset` has, per bucket, the number of copies of each item. A call is invoked,
has its whole effect at one instant, and returns what `ewx_hash_table.h` says. `Linearizable`
says that `HashTable` implements it. One kind of call is outside that promise: an insert
that compares and has no callback to answer for an equal item. The header calls its 0 "inserted",
the code stores nothing (`ewx_hash_table.c:144`). `HashMultiset` says that it fails,
so with such a call `Linearizable` does not hold; `EqualAnswered` states that nobody makes it, and is an
assumption of the theorem.

### Thread

A WQE is in the `pool`, in the `pow` scheduler, in the timer `wheel`, with a `core`, or
`lost` (nobody will ever come back to it). Its contents are the two marks by which
`ewx_thread_process` knows a thread (`unused`, `magic`), the callback, `free`, `tick` and
the tag; they stay in memory when the WQE is freed.

| Action | Code in `ewx_thread.c` |
|---|---|
| `TimerInit` | `ewx_timer_init` |
| `Create` | `ewx_thread_create` and `ewx_timer_create`: one step, because the WQE is private until it is submitted. Refused arguments and an empty pool change nothing |
| `Check`, `FnReturn`, `Settle` | `ewx_thread_process`: the test at its top, the end of the callback, reading `free` and `tick` |
| `Free`, `Desched`, `Rearm` | the three ends of `ewx_thread_process`; the result of `cvmx_tim_add_entry` is ignored as in the code |
| `Stop` | `ewx_thread_stop`, in the callback (as the header asks) or, with `RemoteStop`, from anywhere |
| `Arrive`, `Expire`, `Get`, `PacketDone` | hardware and main loop: packets, expiry, the POW with its atomic tags, packet handling |

While a callback runs (`pc = "run"`) its core may create and stop threads. Between
`Settle` and `Free`/`Desched`/`Rearm` other cores take steps, in particular `Stop`.
`Refuses` is external: a wheel that is not started, a delay beyond it, no room.
`Careful` restricts the callers to what the header asks (`ewx_thread.h:74-86`): the wheel is
started, delays fit, and its memory covers the timers that were not freed yet. A timer
that was stopped but still waits in the wheel counts among them.

`ThreadLife` knows neither pool nor cores: a thread waits and runs in turn; one that is
to end ends with the run it is in, or else with the next one. In the mapping `Life` a
WQE counts as waiting, or as gone, from `Settle` on. So a stop during the callback is
final, and a stop that comes after `Settle` allows one more run.

### ShellLine

One step is one call of `ewx_shell_run` with one key. `line` is the buffer up to
`shell_cmd_index`, `ring` with `first`, `last`, `current`, `valid` and `browsing` the
history, `escaped` and `seqlen` the escape state, `screen` the terminal's current line
from the prompt on, `unseen` a history variable. `Enter`, `CtrlC`, `Ignored` (TAB and NUL), `Erase`, `Escape` and
`Echo` are the cases of the switch; `Second` and `Third` are the characters after ESC,
with `ArrowUp` and `ArrowDown`. A call without a key changes nothing. The command itself
(`execute_cmd`) works on a copy of the line; it is in `Console`. `Char` are printable
characters. `Silent` are control characters that the switch does not know, such as the Ctrl-U
and Ctrl-W that `ewx_shell.c` defines and does not use: the default case stores them like any other
character and puts them out, and the terminal shows nothing for them (`Shown`). From then on terminal
and line disagree: an erasure takes a visible character off the screen for a silent one in the
line, and a recall rubs out too many columns. `ScreenShowsLine` says both, that they agree until then and
that they do not afterwards, until the next prompt.

`CommandLog` is a line and a list of at most `Limit` commands without repetitions.
Its actions keep a trait of the code: Ctrl-C and an empty Enter do not end the
browsing, so the next arrow key starts from the command recalled before.

### Console

A call of a core does its work on the core's own data at once and leaves `todo`, the
steps on shared data and on the output that follow: `print` (take the lock), `write` (bytes
and the unlock), `echo` (a byte of `putchar`), and the stores of the initialisations. What cores
interleave are those steps.

| State | Code |
|---|---|
| `pci`, `desc` | `pci_console`, `pci_cons_desc_addr` being set |
| `lock`, `left` | `uart_printf_lock`, bytes left of the message |
| `tab` | `cmd_list`; it is not `CVMX_SHARED`, so each core has one |
| `shell_status`, `debug_level` | the same names; both are shared |
| `up` | history: `ewx_uart_init` has returned |

| Action | Code |
|---|---|
| `UartInit` | `ewx_uart_init`; another core may see its two stores in either order |
| `ShellInit`, `DebugInit` | `ewx_shell_init`, `ewx_debug_init` |
| `Register`, `Unregister` | `ewx_shell_cmd_register`, `ewx_shell_cmd_unregister` |
| `Execute`, `SetLevel` | `execute_cmd` with the help handler, an unknown name or one of the application's; the handler of `dlevel` |
| `Printd`, `Echo` | `ewx_printd`, `putchar` |
| `Lock`, `WriteByte`, `Unlock`, `WriteEcho`, `Store` | `uart_printf`, `uart_prints`, `uart_write_byte`; without a descriptor in PCI mode the byte writer prints an error, which puts another `print` before what is left |

Text is a number of bytes. Names fit their field. `Synced` says whether the other cores
wait until `ewx_uart_init` is over; the library leaves that to the program.

### Slb and Spi

`Slb` has one action per access to the bus lock, to a byte of the board's registers, or to
a register of the controller. `address`, `wdata`, `reading` and `rdata` are the controller: a read
command makes it work on `reading`, and `Answer` puts the value into `rdata`, where
not being `Null` stands for `SLB_CMD_FIN`. A poll times out at any time (`Timeout`), gives
the lock away and starts again, up to `MaxTries` times; the answer then comes late: while another
core has the lock, to a core that polls for its own answer (`LateAnswer`), or when nobody waits. A read that failed returns `Failed`, which is the code's `(uint16_t)-1`.
What the controller does with an address or data left from an earlier command does not
arise, because every command is preceded by both; a write counts as done with its
command, since the code does not wait.

Nothing in the code calls off a read that was given up, and nothing in the repository says that the
controller does. So after a timeout any register's value may come to any core that polls or fetches, at any time.
This allows more late answers than there were reads given up, which only makes the properties harder to keep. An
answer of the same register does no harm: the value is that of the instant at which it comes. An answer of another
register is taken for the one waited for; the history variable `misled` says that this has happened. Then the values read
mean nothing, and neither does what `Spi` writes back to the pins, so the properties about
values (`RegistersAtomic`, `CleanJobsSucceed`, `OnlyAddressedChange`) speak of the time before. The lock and the number of tries
do not depend on it (`TriesBoundedTheorem`, `CallsEndTheorem`).

| Action | Code in `ewx_slb.c` |
|---|---|
| `Begin`, `Return` | call and return of the four operations |
| `Lock`, `Unlock` | `SLB_LOCK`, `SLB_UNLOCK` |
| `LocalLow`, `ReadHigh`, `WriteHigh` | `ewx_slb_local_read`, `ewx_slb_local_write`; the high byte is shifted by 16 and lost |
| `SetAddress`, `WriteCommand` | `ewx_slb_subc_write` |
| `SetAddress`, `ReadCommand`, `Poll`, `Timeout`, `Fetch` | `ewx_slb_subc_read` |
| `Answer`, `LateAnswer` | external: the controller |

`Spi` adds the core `Driver`, which does its `Jobs` (`ewx_5324_reg_read`, `ewx_5324_reg_write`)
one after the other while other cores make any of `Calls` on the bus. A job is a few frames; for
each bit the driver reads the register of the pins, lowers the clock, puts the bit, raises the clock
and reads the answer, and each of these is a whole call of `Slb`. `phase` says which one is
next, `reg` is the local copy. A failed read looks like a register of ones, as in the code. The
chips (external) shift in what the pins show, keep a page, registers and a data port, and
answer through the pin `miso`. A byte is the sequence of its bits, of any `Width`, the highest one first as on the
line; what the code shifts in and out is what a chip has or gives, bit by bit. Delays (`u_sleep`) are left out.

`SlbRegs` has registers of 16 bits that are read and written in one instant; a read of a sub-card register may
fail. In the mapping `Registers` a write counts with its command or with the first of its two stores, a read with the fetch of its
data, with the second of its two loads or with its last timeout. Between its two stores a writer has the
lock, and `Board` takes its value for the register's. With a value of more than one byte
the code does not keep this promise (`BUS_high`).

### Led

Packets and links are the environment (`Receive`, `Send`, `LinkChanges`, external);
`LedInit` is `ewx_led_init` and `Tick` one call of `ewx_led_timer_process` with
`detect_packets` for each fiber port. `rxNew` and `txNew` say for which ports a counter differs from
the code's copy. `RxCounts` and `TxCounts` are the counters that `detect_packets` looks at, which
depends on which of them a read clears. `moved` and `still` are history: packets since
the last tick, and ticks without one.

### List

Every function of `ewx_list.h` is an action of the same name, with its assignments in the
source's order (`AddedNext`/`AddedPrev` for `__list_add`, `CutNext`/`CutPrev` for `__list_del`,
`SplicedNext`/`SplicedPrev` for `__list_splice`). Guards say what a caller has to keep: an entry is on a
list, a new node on none, a joined list is not the target's own. `StartWalk`, `StepWalk` and
`EndWalk` are `ewx_list_for_each_safe`, whose body may be any operation that leaves alone the
entry to come (`Spared`). `owner` and `todo` are history: the head of a node's list, the entries not yet visited.
`Lists` states what each operation does to sequences of entries.

## Runs

| Run | Instance | Shows |
|---|---|---|
| `HT_pool` | 2 cores, 2 buckets, blocks of 1, 2 overflow blocks; inserts that compare and such that do not, a refusing and no callback, removes, searches, the show loop; fair | blocks are neither lost nor shared, no key is stored twice (`UniqueKeys`) because only the last block of a chain has room (`ChainFull`), no hole is counted, freed blocks are not written, every lock taken is given back; the inductive invariant of the proofs; cores that interleave block by block implement the atomic multiset |
| `HT_serial` | 2 cores without `auto_lock`, 1 bucket, blocks of 2, 1 overflow block; every kind of call and callback answer, inserts at a known position of the head | calls that do not overlap implement the atomic multiset, and what search returns is the item |
| `HT_stale` | locked, one block | **violated**: the item that search returns may be gone when search returns |
| `HT_freepos` | free position in the block behind the head | **violated**: `valid_count` exceeds the block |
| `TH_life` | 2 cores, 3 WQEs, wheel for 2, careful callers, remote stops, packets | one place per WQE, exclusion by tag, foreign work refused, nothing lost, refinement of `ThreadLife` |
| `TH_live` | 2 cores, 2 WQEs, wheel for 1, callers not careful; fair | although a refused timer vanishes while it waits, the others run again and those that are to end are freed |
| `SL_keys` | ring of 2, lines of up to 2 characters: three printable ones, one that shows nothing | the ring is the list of the last commands, arrows walk along it, the screen shows the line exactly until a silent character is stored, an escape ends |
| `CONSOLE` | 2 cores, 4 names, table of 2, messages of up to 2 bytes, levels around the limits | no core waits for its own lock, messages do not mix, the level keeps its range, tables keep their promise |
| `BUS` | 2 cores: one writes a register of one switch and reads one of the other, the other core reads a sub-card register, reads and writes (one byte) a register of the board; late answers; fair | jobs without a failed read do what they promise, no other chip or register changes, the bus is given back, polling and retries implement atomic registers |
| `BUS_high` | 2 cores read and write a register of the board; the value has two bytes | **violated**: the register does not hold the value written |
| `LED` | 3 fiber ports whose counters are cleared by no read, by reads of one, of both; 1 other LED | a quiet port is lit steadily, busy ones flash, in step |
| `LIST` | 5 nodes | lists are rings, a walk stays on its list and misses no entry, every operation does to the sequences what it promises |

Why the bounds are enough. A hash chain needs three blocks for a block in the
middle (`HT_pool`: the head and two overflow blocks), two for a block that comes and goes; two slots distinguish
"full", "one left" and "last entry"; a third core could only wait for the lock or
work on a bucket of its own. Two buckets with two blocks make the allocator run dry in
the middle of an insert. Threads interact through tags, wheel capacity and pool:
three WQEs give two timers and a packet or a third thread, and the pool gets empty. A
ring of two has a first and a last entry, wraps after the third command, and then has its newest entry before its
oldest in the array; lines of length 0, 1 and 2, with and without the silent character, replace one another. `ShellLine_proofs` covers the
longer rings. On
the bus two cores give every interleaving of a holder and one that comes in between; a read is tried twice
instead of five times, so that it fails after a retry, and two polls may time out in a
behaviour, at any place. A byte has two bits: one more than a single bit for the shifting; the
two jobs meet the page and pins that the other one left. A value read is at most three bytes long
(`SpiAssumption`), because the code shifts bytes in an `int`. Three ports are one per counter mode. Five nodes are two heads
with three entries between them, which makes old and new neighbours of a moved entry the same or different nodes, on one list or two. A
table of two commands is full, empty and has a hole in front of a command.

Symmetry is used only in runs without liveness: interchangeable cores, blocks and WQEs in
`HT_stale`, `HT_freepos` and `TH_life`, nodes in `LIST`; their temporal properties
are safety formulas (a first state and a box). `TH_live` does not check for deadlock: when the wheel has refused every
WQE nothing is left to do.

Fairness. `HT_pool` assumes that a core inside an operation goes on (weak fairness of its
steps and of the return), nothing about who gets a spinlock and nothing about callers.
The cores run on bare metal without preemption, so this is what the hardware
gives. `TH_live` assumes the same of `ewx_thread_process` (callbacks return), that a
running wheel expires its entries, and strong fairness of the POW per entry: an entry
that can be handed out again and again, because its tag is free and a core asks for
work, is handed out some time. That one is an assumption about the hardware's queues; the run has no
threads that desched for ever (`tick` = 0), which the POW may prefer to new work.
`BUS` stops at states after a core was misled (`CONSTRAINT NotMisled`): the properties about values claim nothing there,
and the pins could be at any value, which multiplies the states. `BusReleased` is therefore model-checked up to that point only; its
measure is proved without that restriction. The register `other` begins with zeros, unlike the pins, so that the
value of the one is seen when it is taken for the other's.

`BUS` and `BUS_high` assume that a core inside a call goes on and that the controller answers; the lock may pass anyone by, so
nothing is said about who gets it.

## Findings

- `ewx_hash_table_search` unlocks before it returns the pointer, so with `auto_lock` the
  pointer may not designate the matching item any more (`HT_stale`,
  `ewx_hash_table.h:130`).
- With `free_pos_p` in a chained block, insert counts the item in the head block
  (`HT_freepos`, `ewx_hash_table.h:24,140`).
- The high byte of the board's registers is lost (`BUS_high`): `ewx_slb_local_write` shifts it right by 16 instead of 8
  (`ewx_slb.c:73`) and stores 0, `ewx_slb_local_read` shifts it left by 16 in a 16-bit value (line 59). The comment at
  `ewx_slb.c:41` says that address bit 24 selects the high 8 bits, and `ewx_slb.h:18,27` speaks of the value read and written.

Worth knowing, without a run:

- An insert that compares, finds an equal item and has no callback returns 0 without
  inserting (`ewx_hash_table.c:144`), against `ewx_hash_table.h:147`, where 0 is "inserted". `HashMultiset` follows the
  header; with `Insert(0, A, TRUE, "null", TRUE, "none")` among the calls of `HT_serial` TLC refutes `Linearizable`.
- A late answer of another register is taken for the one that a core polls for (`ewx_slb.c:106-124`): the controller's
  `SLB_CMD_FIN` does not say which command has ended. Whether the hardware can answer a command after it was given
  the next one, the repository does not say.
- A control character that the shell does not know is stored and not shown (`ewx_shell.c:330-331`), Ctrl-U and Ctrl-W
  for instance: what Enter executes is then not what the terminal shows.
- When the wheel refuses a timer, at creation (`ewx_thread.c:79`) or when it is armed again (line 107),
  its WQE is lost for good, and in the second case nobody is told. `NothingLost` says when this
  cannot happen.
- `ewx_5324_reg_write` returns 0 (`ewx_spi.c:219`) also when a failed read of the SLB has spoilt
  its frame; `CleanJobsSucceed` speaks of jobs without a failed read, and `OnlyAddressedChange` says that the
  damage stays in registers with that address. Two cores that use the switches at once are not
  excluded by anything in `ewx_spi.c`.
- A read of more than three bytes shifts an `int` beyond its sign (`ewx_spi.c:163`).
- `ewx_shell_cmd_register` returns -1 where `ewx_shell.h` says 1. `ewx_debug_init` on another core
  than the shell's registers `dlevel` in a table that no shell looks at.
- If a core prints while `ewx_uart_init` is between its two stores, the byte writer prints an error under the lock it
  holds and waits for itself (`ewx_uart.c:66`); with `Synced = FALSE` TLC shows it.
- `putchar` writes beside the lock (`ewx_shell.c:331`); a line longer than the
  buffer is sent with the length it would have had (`ewx_uart.c:112`); a byte that was not there is
  returned uninitialised in PCI mode (`ewx_uart.c:191`); a name of 32 characters or more is stored unterminated
  (`ewx_shell.c:109`).

## Proofs

Eight modules hold proofs. Their theorems hold for every value of the constants that meets the
named assumption of the component (`HashTableAssumption`, `ThreadAssumption` and
`ExclusiveAssumption`, `ShellLineAssumption`, `ListAssumption`, `LedAssumption`,
`ConsoleAssumption`, `SlbAssumption` and `SpiAssumption`). TLC evaluates each of them in the runs.

`HashTable_proofs` proves, under `FreePosRule` (a `free_pos_p` points into the head
block, and only callers without `auto_lock` pass one; the runs `HT_stale` and
`HT_freepos` show what happens otherwise), for any number of cores, buckets, slots and blocks:
`TypeCorrect`, `LocksReturned`, `ChainsFull`, `ChainsDisjoint` and
`FreeBlocksUntouched`. None of these is inductive alone. The invariant is
`TypeOK`, `LockDiscipline`, `Serialised` (without locks, calls that overlap exclude each other),
`ChainFull` and `Structure` together. `Structure` asserts a map from blocks to buckets:
successors stay in their bucket, no block has two predecessors, free blocks
belong to nobody, and each core's `cur` and `pre` are blocks of the bucket it works on.
From lock and serialisation follows `Apart` (two cores inside the table work on different
buckets), so a step of one core leaves alone what the other knows (`Frame`), and each
action is left with its own core (`WalkSteps`, `CountSteps`, `GrowStep`, `DropStep`, `BorderSteps`).

`HashContents_proofs` goes on from there and proves, under the same rule, `UniqueKeysTheorem`,
`NoHolesTheorem` and `BlocksAccountedTheorem`, and `SearchTheorem` (`SearchReturnsMatch`) for
tables without `auto_lock`; with it `HT_stale` shows the opposite. A chain is the least set that is
closed under the links (`Behind`), so its facts follow from sets that are closed (`AfterNext`, `AfterLink`, `AfterCut`) and
need no induction on its length. The invariant `CInv` says that counted entries are items (`Filled`),
that blocks are kept (`Kept`), that keys are unique, and what each core knows on its way (`Track`): an insert
into a bucket where all inserts compare knows that no entry outside the blocks before it, the current one
included, equals its item (`Lacks`); at the first block with room there is nothing behind, because only
the last block has room. `OwnEntry` and `ElsewhereSame` keep the buckets apart; `Settled` leaves each action with its own bucket,
where `Shrinks` serves the steps that count a slot before it is written or drop one after it was moved.

The second half of that module proves `LinearizableTheorem`, the refinement of `HashMultiset`, under the same rule and
`EqualAnswered` (an insert that compares has a callback for the equal item).
`Knows` says which answer a core is about to give: a counted slot waits for its item, an entry that matches
is still where the walk found it. What a step does to the entries of its bucket is one of four things (`Same`,
`Rewrites`, `Gains`, `Loses`), each of which changes the number of one or two items by one (`BagRewrites`, `BagGains`,
`BagLoses`); the other buckets are `Same`. A step is then an action of `HashMultiset` or a stutter (`BorderEffect`,
`MiddleEffect`, `LookEffect`, `InsertEffect`, `MoveEffect`). An insert may answer "nospace" only when the bucket is full
(`GrowFull`): all blocks of the chain are full, so the number of entries is a multiple of
`ItemNum`. `HashMultiset` adds the items up with a fold; that its sum is the number of entries needs no induction over
sets, because a sum is determined by its step (`SumUnique`, by the smallest set on which two sums would differ) and the counts
of entries satisfy that step (`TallySum`). This is why `HashTableAssumption` asks for finitely many overflow blocks and
item contents.

The safety half of `LockReleased` is two theorems. `WalksEndTheorem`: no step of any core makes the way of a walk longer, and
each step of the walk takes it to a block that was ahead and is not ahead any more (`WaysShrink`), so among finitely
many blocks every loop over a chain ends. It rests on `NoCycle`: a block that came after itself would have two predecessors.
`HoldersGoOnTheorem` (in `HashTable_proofs`): a step that is not one of those loops takes its core to a place nearer to the unlock
(`StepsLeft`), on the error paths too, and a lock that is held is given back by its holder, at its unlock of that bucket, before
anybody else has it. What is left for fairness is only that the holder is allowed to run.

`ShellLine_proofs` proves for any size of the ring and any bound on lines `EscapeEndsTheorem`,
`ScreenShowsLineTheorem`, `ArrowsMoveTheorem` and `KeepsLogTheorem`, the refinement of `CommandLog`. The
invariant adds that the used part of the ring is full up to its newest entry (`RingShape`) and that
the index browsed lies in it (`Browsed`), and that after a silent character the screen is at least one column short of
prompt and line (`InStep`, with `Showing`: what is shown of a line is the line itself or shorter). The arithmetic is in one lemma about the
two operators that step around the ring; an arrow is a step in the list (`RecallStep`), and a new command is appended
with room (`RecordRoom`) or pushes the oldest one out (`RecordFull`).

`Thread_proofs` proves for any number of cores and WQEs `ThreadTypes`, `OnePlace`,
`ForeignWorkRefused`, `CallbacksExclude`, `WheelSuffices` (for `Careful` callers) and
`LivesRefined`, the refinement of `ThreadLife`. The invariant `Safe` adds to type and place what a WQE's
contents say: a core past the test has a thread (`Judged`), a WQE
that looks like a thread was filled by a call (`ThreadsIntact`), an atomic tag is with
one core (`TagsHeldOnce`); exclusion needs all three, because tag and callback of a
WQE are related only through the call that filled it. `Sized` counts: the wheel holds
timers only, and there are at most `TimCap` of them; a timer that is being armed again
is one of them and not in the wheel, so there is room. For the refinement, each
action is shown to change the life of at most one WQE (`OtherLives`) and that change is
matched with an action of `ThreadLife` or with a stutter (`ArriveMaps` to `LeaveMaps`).

`RoundsGoDownTheorem` is the safety half of `WaitingRuns` and `StoppedIsFreed`. `RoundLeft` numbers the stages of a
thread from being armed over wheel, POW, test, callback and settling to the pool. On `Safe` a thread is at exactly one of them (`ThreadStage`),
every step, of whichever core, leaves it there or takes it down (`ProcessGoesDown`, `ProcessSpares`), and the one way up is that its core
settles a thread that is not stopped. A stop is never taken back, so a stopped thread goes down to the pool. That
a stage is left, and the wheel's tick and the POW reach everyone, is fairness and stays with `TH_live`.

`List_proofs` has three parts. The first proves for any number of entries `RingsTheorem` (`next` and `prev` are
inverse on what is linked) and `WalkOnListTheorem` (the entry a safe walk
goes to next is on its list). The invariant is the two with the types; each macro
has its lemma, and the two splices need every entry of the moved list to follow its new owner.
The walk holds because its body spares the head and the entry to come (`Spared`), whatever
else it removes, the current entry included.

The second part proves `WalkVisitsAllTheorem`. That pointers are inverse does not say that a list is
one ring and not two; `OneRing` does: every set that has the first node and the next one of each of its
nodes, up to the head, has all nodes of the list (`Covers`, `Whole`), a least closed set again instead of an
induction on its length. `TodoAhead` says the same of the walk: what is still to
be visited is on the way from the entry to come to the head. Every operation is an addition, a cut, a
replacement or a join of rings (`CoversAdded`, `CoversCut`, `CoversReplaced`, `CoversJoined`).

The third part proves `CallsKeepPromiseTheorem`: every operation does to the sequences of entries what `Lists`
promises. The invariant is that there is a layout (`Laid`): for each head a sequence of different nodes along which
`next` leads around the ring, and which has all nodes that the head owns (`Lays`). A walk over the pointers meets that
sequence (`WalkMeets`: it is the only solution of the recursive `Contents`, by descent from a place next to the end), so a layout is the
state of `Lists` (`SequencesAre`), and `Found` says that its `HeadOf` and `Place` find a node where the layout has it. Each
operation is one or two of four changes (`AllNew`, `AllMore`, `AllLess`, `AllRenamed`), which rest on facts about the places
of a sequence after something was put in or taken out (`PutPlaces`, `CutPlaces`, `PlacesShift`). The cases the code has to get right, neighbours that
are the same node, empty lists and a move within one list, are cases of the same lemmas.

`Led_proofs` proves for any number of LEDs `QuietIsSteadyTheorem`, `FirstTurnsTheorem`
and `InStepTheorem`. `QuietIsSteady` is not inductive: what was counted earlier may still be
unreported. The invariant adds that packets since the last tick will be noticed (`MovedReported`)
and that one tick without packets leaves no received packet to report, two ticks no sent one
(`QuietLeaves`).

`Spi_proofs` proves `RegistersAtomicTheorem`: `Spi` with `Slb` below it implements
`SlbRegs`, where a register is read or written in one step. Every action becomes a
step of `SlbRegs` or a stutter. The invariant it needs says that the lock is with the
core that is between lock and unlock (`Locked`), which call may be where (`Located`), and that
the controller serves the holder (`Served`): the address and data it latched are the
holder's, and data that is present while the holder polls comes from its own register, unless a core is misled.
The last part survives a timeout and a retry because the read command puts out `SLB_CMD_FIN` (or no poll could ever
wait for anything), and a late answer that comes after it carries the register's value of that instant or sets `misled`.
The theorem assumes `LowBytes`: nobody writes more than one byte to the board's registers, where `BUS_high` shows the
opposite. `StageMoves`, `OthersKeep` and `DriverFrame` say what a step of one core leaves alone.

The safety half of `BusReleased` is `TriesBoundedTheorem` and `CallsEndTheorem`. A read tries at most `MaxTries` times, and
one that has used them all has failed and is without the lock. Inside a call `TryLeft` numbers what is left of a
try: a core that moves on comes nearer to its end, or the try timed out, is counted, and the lock is given back in the same step; no other core takes the lock
away or sets a call back. The invariant is `Tried`, the one of the refinement with the bound on tries: it has to say that
a core with all tries used is past its call, or the next timeout would count one more. Fairness then only has to let
the holder run and the poll end, by an answer or by its timeout.

On the same invariant rest `OnlyAddressedChangeTheorem` and `CleanJobsSucceedTheorem`, for any jobs, other calls, failed
reads and width of a byte, as long as no core is misled; they need no `LowBytes`. `Sending` says that a chip is selected only if it is the job's and only within a frame, that it has then seen
exactly the bits clocked so far (`SelectOK`), and that the driver's copy of the pins never selects another chip, even
after a failed read that looks like ones (`CopyOK`). A step of the bus is a step of the pins only when the driver's write
takes effect (`PinsMove`), so chips and driver are looked at there alone. `CleanOK` says what a job without a failed
read has reached: its page, its register, the bits that have come in.

`Console_proofs` proves, when the other cores wait for `ewx_uart_init` (`Synced`),
`NoSelfDeadlockTheorem` and `WholeMessagesTheorem` for any number of cores, names and bytes.
The invariant says that the lock is with the core whose next step is the write (`Held`, `LeftHeld`),
that a write is only ever the first step left (`WriteFirst`), that before the console
is up only the control core has steps left (`StartAlone`), and that the descriptor is there once the
console is (`Started`): a core can only wait for the
lock it holds in a write without a descriptor, and there is none after the start.

`CommandsKeepPromise` needs no `Synced`: whenever the cores start, each call does to the names of its core's table what
`CommandDirectory` promises: a new name is added or, without room, refused; a known one is removed; an unknown one is refused. The invariant `TablesOK` is that no name is in two slots of a table; so the names are as many
as the taken slots, a table has room in the sense of the promise exactly if it has a free slot (`RoomLeft`), and the first
free slot, of which the code makes use, exists then (`FirstSlot`).

Model-checked only is all liveness (`LockReleased`, `WaitingRuns`, `StoppedIsFreed`, `BusReleased`), which TLAPS
does not prove; for each of them a theorem above gives the measure that every step decreases or keeps. Every safety property of a passing run has its theorem.

## Plan

What is left:

The start of the library as one sequence: table, pools and named memory, with failing allocations.

## Not modelled

- `ewx_mem.c`: one call each of the SDK's bootmem allocator and FPA at the start, with an error
  number when it fails; nothing of it runs concurrently.
- `ewx_helper.c`, `ewx.h`: address conversions and byte macros, pure functions.
- `ewx_log.c` and what the dumps print: formatting and text. That a message is a number of bytes
  under a lock, and which level lets it through, is in `Console`.
- The blocking loop of `shell()` and `change_prompt`; what a key does is in `ShellLine`, what a line calls in
  `Console`. Of `ewx_uart.c`, `uart_wait_idle` and the byte reads, which poll a device register.
- The delays (`u_sleep`) of the SPI pins: they order nothing between cores.
- The failing allocations inside `ewx_hash_table_init`, which happen before the table is shared.
- Build files and `config/`.
- The contents of packets and parameters.
- Weak memory order: each model takes the memory of OCTEON with its locks as sequentially consistent. The
  exception is `Console`, where the stores of `ewx_uart_init` may be seen in either order.
