------------------------------ MODULE Console ------------------------------
(***************************************************************************)
(* The console of all cores: the UART output of ewx_uart.c with its lock,  *)
(* the command table of ewx_shell.c and the debug level of ewx_debug.c.    *)
(* The table is private to each core; lock, console mode, shell status and *)
(* level are shared.  What a call does to the core's own data is one step, *)
(* what follows on shared data and the output is left in todo.             *)
(***************************************************************************)
EXTENDS FiniteSetsExt, Integers, SequencesExt

CONSTANTS
  Core, Control, Null,
  Name,                \* names of commands, short enough for the table
  help, h, dlevel,     \* the names the library registers itself
  Func,                \* handlers of the application
  MaxCmds,             \* MAX_CMDS: 64 in the code
  Levels,              \* levels that messages have
  Typed,               \* numbers typed after dlevel
  Synced,              \* whether other cores wait until ewx_uart_init is over
  MaxBytes             \* bound: bytes of a message

ASSUME ConsoleAssumption ==
  /\ Control \in Core /\ Null \notin Core \cup Name \cup Func
  /\ {help, h, dlevel} \subseteq Name
  /\ MaxCmds \in Nat \ {0, 1} /\ MaxBytes \in Nat \ {0}
  /\ Levels \subseteq 0 .. 255 /\ Typed \subseteq Nat /\ Synced \in BOOLEAN

VARIABLES
  pci, desc,      \* pci_console, pci_cons_desc_addr # 0
  lock,           \* uart_printf_lock: the core that holds it, or Null
  todo,           \* per core: what is left of its call
  left,           \* per core: bytes left of the message it writes
  tab,            \* per core: cmd_list
  shell_status, debug_level,
  up              \* history: ewx_uart_init has returned

output == <<pci, desc, lock, left>>
shared == <<shell_status, debug_level, up>>
vars == <<output, todo, tab, shared>>

Slots == 1 .. MaxCmds
Blank == [name |-> Null, func |-> Null]

Init ==
  /\ pci = FALSE /\ desc = FALSE /\ lock = Null
  /\ todo = [c \in Core |-> <<>>] /\ left = [c \in Core |-> 0]
  /\ tab = [c \in Core |-> [i \in Slots |-> Blank]]
  /\ shell_status = 0 /\ debug_level = 0 /\ up = FALSE

\* A core that is in no call may make one; before ewx_uart_init only Control
\* does anything, if cores are synchronised.
Ready(c) == todo[c] = <<>> /\ (up \/ (c # Control /\ ~Synced))

-----------------------------------------------------------------------------
(* The command table.  A table is a function from slots to commands.       *)

SlotsOf(t, n) == {i \in Slots : t[i].name = n}

\* Mutant: the search for the name ends at the first free slot.
KnownBeforeHole(t, n) ==
  \E i \in SlotsOf(t, n) : \A k \in Slots : k < i => t[k].name # Null

Known(t, n) == SlotsOf(t, n) # {}

CanRegister(t, n) == ~Known(t, n) /\ SlotsOf(t, Null) # {}

\* ewx_shell_cmd_register: the first free slot is taken.
Registered(t, n, f) ==
  IF CanRegister(t, n)
  THEN [t EXCEPT ![Min(SlotsOf(t, Null))] = [name |-> n, func |-> f]] ELSE t

\* ewx_shell_cmd_unregister: the name is blanked in its slot.
Unregistered(t, n) ==
  IF Known(t, n) THEN [t EXCEPT ![Min(SlotsOf(t, n))] = Blank] ELSE t

\* The call of c leaves t as its table and steps for later.
Does(c, t, steps) ==
  /\ tab' = [tab EXCEPT ![c] = t]
  /\ todo' = [todo EXCEPT ![c] = steps]
  /\ UNCHANGED <<output, shared>>

\* Both print a message when they fail.
Complain(fine) == IF fine THEN <<>> ELSE <<"print">>

Register(c, n, f) ==
  /\ Ready(c)
  /\ Does(c, Registered(tab[c], n, f), Complain(CanRegister(tab[c], n)))

Unregister(c, n) ==
  /\ Ready(c)
  /\ Does(c, Unregistered(tab[c], n), Complain(Known(tab[c], n)))

\* ewx_shell_init: the status follows when the prompt is printed.
ShellInit ==
  LET empty == [i \in Slots |-> Blank]
  IN /\ Ready(Control)
     /\ Does(Control, Registered(Registered(empty, help, help), h, help),
             <<"print", "loaded">>)

\* ewx_debug_init, on any core.
DebugInit(c) ==
  /\ Ready(c)
  /\ IF shell_status = 1
     THEN Does(c, Registered(tab[c], dlevel, dlevel),
               Complain(CanRegister(tab[c], dlevel)))
     ELSE Does(c, tab[c], <<>>)

-----------------------------------------------------------------------------
(* Output that a call asks for.                                            *)

\* ewx_printd compares the level before it prints.
Printd(c, l) ==
  /\ Ready(c)
  /\ Does(c, tab[c], IF debug_level >= l THEN <<"print">> ELSE <<>>)

\* putchar, with which the shell echoes a key.
Echo ==
  /\ Ready(Control)
  /\ Does(Control, tab[Control], <<"echo">>)

\* execute_cmd for a line with a command other than dlevel, then the prompt.
Execute(n) ==
  LET t == tab[Control]
      used == Cardinality(Slots \ SlotsOf(t, Null))
      lines == IF Known(t, n) /\ t[Min(SlotsOf(t, n))].func = help THEN 1 + used ELSE 1
  IN /\ Ready(Control) /\ ~ (Known(t, n) /\ t[Min(SlotsOf(t, n))].func = dlevel)
     /\ Does(Control, t, [i \in 1 .. lines + 2 |-> "print"])

\* The value typed, cut to a byte and taken as int8_t.
Int8(v) == IF v % 256 < 128 THEN v % 256 ELSE (v % 256) - 256

\* Mutant: only the upper limit is checked.
LegalBelow(v) == Int8(v) <= 9

Legal(v) == Int8(v) >= 0 /\ Int8(v) <= 9

\* The line "dlevel v": set_debug_level_shell_cmd.
SetLevel(v) ==
  /\ Ready(Control) /\ Known(tab[Control], dlevel)
  /\ tab[Control][Min(SlotsOf(tab[Control], dlevel))].func = dlevel
  /\ debug_level' = IF Legal(v) THEN Int8(v) % 256 ELSE debug_level
  /\ todo' = [todo EXCEPT ![Control] =
       [i \in 1 .. IF Legal(v) THEN 2 ELSE 3 |-> "print"]]
  /\ UNCHANGED <<output, tab, shell_status, up>>

\* Mutant: without a PCI console the mode is set all the same.
InitStepsAlways(found) == {<<"pci", "print", "up">>}

\* What ewx_uart_init does for a PCI console.  Other cores may see the two stores
\* in either order.
InitSteps(found) ==
  IF ~found THEN {<<"print", "up">>}
  ELSE {<<"desc", "pci", "print", "up">>, <<"pci", "desc", "print", "up">>}

UartInit ==
  /\ ~up /\ todo[Control] = <<>>
  /\ \E found \in BOOLEAN : \E s \in InitSteps(found) : Does(Control, tab[Control], s)

-----------------------------------------------------------------------------
(* The steps of a call.                                                    *)

Doing(c, s) == todo[c] # <<>> /\ Head(todo[c]) = s
Done(c) == todo' = [todo EXCEPT ![c] = Tail(@)]

\* A store to shared data.
Store(c) ==
  /\ \/ Doing(c, "desc") /\ desc' = TRUE /\ UNCHANGED <<pci, shell_status, up>>
     \/ Doing(c, "pci") /\ pci' = TRUE /\ UNCHANGED <<desc, shell_status, up>>
     \/ Doing(c, "loaded") /\ shell_status' = 1 /\ UNCHANGED <<desc, pci, up>>
     \/ Doing(c, "up") /\ up' = TRUE /\ UNCHANGED <<desc, pci, shell_status>>
  /\ Done(c)
  /\ UNCHANGED <<lock, left, tab, debug_level>>

\* cvmx_spinlock_lock in uart_printf and uart_prints.
Lock(c) ==
  /\ Doing(c, "print") /\ lock = Null
  /\ lock' = c
  /\ todo' = [todo EXCEPT ![c] = <<"write">> \o Tail(@)]
  /\ \E n \in 1 .. MaxBytes : left' = [left EXCEPT ![c] = n]
  /\ UNCHANGED <<pci, desc, tab, shared>>

\* In PCI mode without a descriptor uart_write_byte writes nothing but calls printf.
Lost == pci /\ ~desc

\* A byte of a message; a message about a lost one comes before what is left.
WriteByte(c) ==
  /\ Doing(c, "write") /\ left[c] > 0
  /\ left' = [left EXCEPT ![c] = @ - 1]
  /\ todo' = IF Lost THEN [todo EXCEPT ![c] = <<"print">> \o @] ELSE todo
  /\ UNCHANGED <<pci, desc, lock, tab, shared>>

\* Mutant: the lock is given back before the last byte.
UnlockEarly(c) ==
  /\ Doing(c, "write") /\ left[c] <= 1
  /\ lock' = Null
  /\ IF left[c] = 0 THEN Done(c) ELSE todo' = todo
  /\ UNCHANGED <<pci, desc, left, tab, shared>>

Unlock(c) ==
  /\ Doing(c, "write") /\ left[c] = 0
  /\ lock' = Null
  /\ Done(c)
  /\ UNCHANGED <<pci, desc, left, tab, shared>>

\* putchar takes no lock.
WriteEcho(c) ==
  /\ Doing(c, "echo")
  /\ IF Lost THEN todo' = [todo EXCEPT ![c] = <<"print">> \o Tail(@)] ELSE Done(c)
  /\ UNCHANGED <<output, tab, shared>>

-----------------------------------------------------------------------------
Step(c) == Store(c) \/ WriteByte(c) \/ Unlock(c) \/ WriteEcho(c)

Next ==
  \/ UartInit \/ ShellInit \/ Echo
  \/ \E c \in Core :
       \/ Step(c) \/ Lock(c) \/ DebugInit(c) \/ \E l \in Levels : Printd(c, l)
       \/ \E n \in Name : Unregister(c, n) \/ \E f \in Func : Register(c, n, f)
  \/ \E n \in Name : Execute(n)
  \/ \E v \in Typed : SetLevel(v)

Spec == Init /\ [][Next]_vars
=============================================================================
