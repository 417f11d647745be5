---------------------------- MODULE ConsoleProps ----------------------------
(* What the console has to keep true.                                      *)
EXTENDS Console

\* Types, and the level stays in the range that the dlevel command accepts.
TypeOK ==
  /\ lock \in Core \cup {Null} /\ left \in [Core -> 0 .. MaxBytes]
  /\ \A c \in Core : ToSet(todo[c]) \subseteq
       {"print", "write", "echo", "desc", "pci", "loaded", "up"}
  /\ \A c \in Core, i \in Slots :
       tab[c][i] = Blank \/ (tab[c][i].name \in Name /\ tab[c][i].func # Null)
  /\ shell_status \in {0, 1} /\ debug_level \in 0 .. 9

\* No core waits for the lock it holds, which would stop all output for ever: the
\* error message of the byte writer is never called for.
NoSelfDeadlock == \A c \in Core : lock = c => Doing(c, "write")

\* Two messages are never half written at once: lines of cores do not mix.
WholeMessages == \A c, d \in Core : left[c] > 0 /\ left[d] > 0 => c = d

-----------------------------------------------------------------------------
(* The promise of the table, module CommandDirectory.                      *)

NamesOf(t) == {t[i].name : i \in Slots} \ {Null}

D ==
  INSTANCE CommandDirectory WITH
    dir <- [c \in Core |->
              [n \in NamesOf(tab[c]) |->
                 tab[c][CHOOSE i \in Slots : tab[c][i].name = n].func]]

\* Whatever holes unregistering left in the tables: a new name is registered if
\* there is room and refused (with a message) otherwise; a name that is known is
\* gone after it was unregistered, and only an unknown one is refused;
\* ewx_debug_init registers dlevel like any other name when the shell is loaded,
\* and does nothing when it is not; cores do not touch each other's names.
CallsKeepPromise ==
  /\ D!Init
  /\ [][/\ \A c \in Core, n \in Name :
             /\ \A f \in Func : Register(c, n, f) =>
                  IF D!CanAdd(c, n) THEN D!Add(c, n, f) /\ todo'[c] = <<>>
                  ELSE UNCHANGED D!vars /\ todo'[c] # <<>>
             /\ Unregister(c, n) =>
                  IF D!Knows(c, n) THEN D!Remove(c, n) /\ todo'[c] = <<>>
                  ELSE UNCHANGED D!vars /\ todo'[c] # <<>>
        /\ ShellInit => D!Reset(Control, [n \in {help, h} |-> help])
        /\ \A c \in Core : DebugInit(c) =>
             IF shell_status = 1 /\ D!CanAdd(c, dlevel)
             THEN D!Add(c, dlevel, dlevel) /\ todo'[c] = <<>>
             ELSE UNCHANGED D!vars /\ (shell_status = 1 => todo'[c] # <<>>)]_vars
=============================================================================
