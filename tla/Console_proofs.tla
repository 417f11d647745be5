--------------------------- MODULE Console_proofs ---------------------------
(***************************************************************************)
(* If the cores wait until ewx_uart_init is over: for any number of cores, *)
(* commands and levels no core waits for the lock it holds, lines of cores *)
(* do not mix, and the level stays in its range.                           *)
(*                                                                         *)
(* The invariant says that the lock is with the core whose next step is a  *)
(* byte, and how far ewx_uart_init is, so that nobody writes while pci is  *)
(* set and desc is not.                                                    *)
(*                                                                         *)
(* The promise of the command table needs no such order: its invariant is  *)
(* that no name is in two slots of a table, wherever the holes are, and a  *)
(* count of slots and names shows that "no slot is free" is "full".        *)
(***************************************************************************)
EXTENDS ConsoleProps, FiniteSetTheorems, TLAPS, WellFoundedInduction

Items == {"print", "write", "echo", "desc", "pci", "loaded", "up"}
Later == {"print", "write", "echo", "loaded"}

Handlers == Func \cup {help, dlevel}
Commands == {Blank} \cup [name : Name, func : Handlers]
Tables == [Slots -> Commands]

WellTyped ==
  /\ pci \in BOOLEAN /\ desc \in BOOLEAN /\ up \in BOOLEAN
  /\ lock \in Core \cup {Null}
  /\ todo \in [Core -> Seq(Items)]
  /\ left \in [Core -> 0 .. MaxBytes]
  /\ tab \in [Core -> Tables]
  /\ shell_status \in {0, 1} /\ debug_level \in 0 .. 9

\* The lock is with the core that writes a message, and only that core has bytes
\* left.
Held == \A c \in Core : lock = c <=> Doing(c, "write")
LeftHeld == \A c \in Core : left[c] > 0 => lock = c

\* Writing is never put off.
WriteFirst == \A c \in Core : \A i \in 2 .. Len(todo[c]) : todo[c][i] # "write"

\* The store to pci comes before the one to desc only while nobody prints.
Starting ==
  \/ todo[Control] = <<>> /\ ~pci
  \/ todo[Control] = <<"desc", "pci", "print", "up">> /\ ~pci
  \/ todo[Control] = <<"pci", "desc", "print", "up">>
  \/ todo[Control] = <<"pci", "print", "up">> /\ desc
  \/ todo[Control] = <<"desc", "print", "up">>
  \/ todo[Control] \in {<<"print", "up">>, <<"write", "up">>, <<"up">>} /\ ~Lost

StartAlone == ~up => Starting /\ \A c \in Core \ {Control} : todo[c] = <<>>

Started == up => ~Lost /\ \A c \in Core : \A i \in 1 .. Len(todo[c]) : todo[c][i] \in Later

Inv == WellTyped /\ Held /\ LeftHeld /\ WriteFirst /\ StartAlone /\ Started

\* What Tail leaves of the steps of a call.
LEMMA Tails ==
  ASSUME NEW s \in Seq(Items), s # <<>>
  PROVE /\ Head(s) = s[1] /\ Head(s) \in Items /\ Len(s) >= 1
        /\ Tail(s) \in Seq(Items) /\ Len(Tail(s)) = Len(s) - 1
        /\ \A i \in 1 .. Len(s) - 1 : Tail(s)[i] = s[i + 1]
OBVIOUS

\* Sequences with the same elements are the same.
LEMMA SameSeq ==
  ASSUME NEW s \in Seq(Items), NEW t \in Seq(Items), Len(s) = Len(t),
         \A i \in 1 .. Len(s) : s[i] = t[i]
  PROVE s = t
OBVIOUS

\* What is left of the start of the UART after each of its steps.
LEMMA StartTails ==
  /\ Tail(<<"desc", "pci", "print", "up">>) = <<"pci", "print", "up">>
  /\ Tail(<<"pci", "desc", "print", "up">>) = <<"desc", "print", "up">>
  /\ Tail(<<"pci", "print", "up">>) = <<"print", "up">>
  /\ Tail(<<"desc", "print", "up">>) = <<"print", "up">>
  /\ Tail(<<"write", "up">>) = <<"up">>
  /\ Tail(<<"up">>) = <<>>
<1>1. Tail(<<"desc", "pci", "print", "up">>) = <<"pci", "print", "up">>
  OBVIOUS
<1>2. Tail(<<"pci", "print", "up">>) = <<"print", "up">>
  OBVIOUS
<1>4. Tail(<<"write", "up">>) = <<"up">>
  OBVIOUS
<1>5. Tail(<<"up">>) = <<>>
  OBVIOUS
<1>6. Tail(<<"desc", "print", "up">>) = <<"print", "up">>
  OBVIOUS
<1>7. Tail(<<"pci", "desc", "print", "up">>) = <<"desc", "print", "up">>
  OBVIOUS
<1> QED
  BY <1>1, <1>2, <1>4, <1>5, <1>6, <1>7

\* A step is put in the place of the first one.
LEMMA HeadReplaced ==
  ASSUME NEW s \in Seq(Items), s # <<>>, NEW x \in Items
  PROVE /\ <<x>> \o Tail(s) \in Seq(Items) /\ Len(<<x>> \o Tail(s)) = Len(s)
        /\ (<<x>> \o Tail(s))[1] = x
        /\ \A i \in 2 .. Len(s) : (<<x>> \o Tail(s))[i] = s[i]
<1>1. /\ Tail(s) \in Seq(Items) /\ Len(Tail(s)) = Len(s) - 1 /\ Len(s) >= 1
      /\ \A i \in 1 .. Len(s) - 1 : Tail(s)[i] = s[i + 1]
  BY Tails
<1>2. <<x>> \in Seq(Items) /\ Len(<<x>>) = 1 /\ <<x>>[1] = x
  OBVIOUS
<1> DEFINE t == <<x>> \o Tail(s)
<1>3. t \in Seq(Items) /\ Len(t) = Len(s)
  BY <1>1, <1>2
<1>4. t[1] = x
  BY <1>1, <1>2
<1>5. ASSUME NEW i \in 2 .. Len(s) PROVE t[i] = s[i]
  <2>1. t[i] = Tail(s)[i - 1]
    BY <1>1, <1>2
  <2> QED
    BY <1>1, <2>1
<1> QED
  BY <1>3, <1>4, <1>5

\* The lock is taken for the message about the console that was found.
LEMMA StartWrites == <<"write">> \o Tail(<<"print", "up">>) = <<"write", "up">>
<1> DEFINE s == <<"print", "up">>
           t == <<"write", "up">>
<1>1. s \in Seq(Items) /\ s # <<>> /\ Len(s) = 2 /\ s[2] = "up" /\ "write" \in Items
  BY DEF Items
<1>2. t \in Seq(Items) /\ Len(t) = 2 /\ t[1] = "write" /\ t[2] = "up"
  BY DEF Items
<1> HIDE DEF s
<1>3. /\ <<"write">> \o Tail(s) \in Seq(Items) /\ Len(<<"write">> \o Tail(s)) = 2
      /\ (<<"write">> \o Tail(s))[1] = "write" /\ (<<"write">> \o Tail(s))[2] = "up"
  <2>1. \A i \in 2 .. Len(s) : (<<"write">> \o Tail(s))[i] = s[i]
    BY <1>1, HeadReplaced, Zenon
  <2>2. /\ <<"write">> \o Tail(s) \in Seq(Items) /\ Len(<<"write">> \o Tail(s)) = Len(s)
        /\ (<<"write">> \o Tail(s))[1] = "write"
    BY <1>1, HeadReplaced, Zenon
  <2>3. 2 \in 2 .. Len(s)
    BY <1>1
  <2>4. (<<"write">> \o Tail(s))[2] = s[2]
    BY <2>1, <2>3, Zenon
  <2> QED
    BY <1>1, <2>2, <2>4, Zenon
<1> HIDE DEF t
<1>4. <<"write">> \o Tail(s) = t
  <2>1. \A i \in 1 .. 2 : (<<"write">> \o Tail(s))[i] = t[i]
    BY <1>2, <1>3
  <2> QED
    BY <1>2, <1>3, <2>1, SameSeq
<1> QED
  BY <1>4 DEF s, t

\* At first nothing is to be done.
LEMMA InitInv == Init => Inv
<1> SUFFICES ASSUME Init PROVE Inv
  OBVIOUS
<1>1. WellTyped
  <2>1. todo \in [Core -> Seq(Items)]
    BY DEF Init
  <2>2. left \in [Core -> 0 .. MaxBytes]
    BY ConsoleAssumption DEF Init
  <2>3. tab \in [Core -> Tables]
    BY DEF Init, Tables, Commands
  <2>4. pci \in BOOLEAN /\ desc \in BOOLEAN /\ up \in BOOLEAN /\ lock \in Core \cup {Null}
    BY DEF Init
  <2>5. shell_status \in {0, 1} /\ debug_level \in 0 .. 9
    BY DEF Init
  <2> QED
    BY <2>1, <2>2, <2>3, <2>4, <2>5 DEF WellTyped
<1>2. \A c \in Core : todo[c] = <<>> /\ left[c] = 0 /\ lock # c
  BY ConsoleAssumption DEF Init
<1>3. Held /\ LeftHeld /\ WriteFirst
  BY <1>2 DEF Held, LeftHeld, WriteFirst, Doing
<1>4. StartAlone /\ Started
  BY <1>2, ConsoleAssumption DEF Init, StartAlone, Starting, Started
<1> QED
  BY <1>1, <1>3, <1>4 DEF Inv

\* A call leaves steps for later that are not writing.
LEMMA CallKeeps ==
  ASSUME Inv, Synced, NEW c \in Core, Ready(c), NEW t \in Tables, NEW s \in Seq(Items),
         \A i \in 1 .. Len(s) : s[i] \in {"print", "echo", "loaded"},
         tab' = [tab EXCEPT ![c] = t], todo' = [todo EXCEPT ![c] = s],
         debug_level' \in 0 .. 9, UNCHANGED <<output, shell_status, up>>
  PROVE Inv'
<1> USE DEF Inv, output
<1>1. up /\ todo[c] = <<>>
  BY DEF Ready
<1>2. todo' \in [Core -> Seq(Items)] /\ todo'[c] = s
  BY DEF WellTyped
<1>3. \A d \in Core \ {c} : todo'[d] = todo[d]
  BY DEF WellTyped
<1>4. WellTyped'
  <2>1. tab' \in [Core -> Tables]
    BY DEF WellTyped
  <2> QED
    BY <1>2, <2>1 DEF WellTyped
<1>5. Held'
  <2> SUFFICES ASSUME NEW d \in Core PROVE (lock = d)' <=> Doing(d, "write")'
    BY DEF Held
  <2>1. CASE d = c
    <3>1. lock # c
      BY <1>1 DEF Held, Doing
    <3>2. ASSUME s # <<>> PROVE Head(s) # "write"
      <4>1. Head(s) = s[1] /\ Len(s) >= 1 /\ Len(s) \in Nat
        BY <3>2, Tails
      <4> QED
        BY <4>1
    <3> QED
      BY <1>2, <2>1, <3>1, <3>2 DEF Doing
  <2>2. CASE d # c
    BY <1>3, <2>2 DEF Held, Doing
  <2> QED
    BY <2>1, <2>2
<1>6. LeftHeld'
  BY DEF LeftHeld
<1>7. WriteFirst'
  BY <1>2, <1>3 DEF WriteFirst
<1>8. StartAlone'
  BY <1>1 DEF StartAlone
<1>9. Started'
  BY <1>1, <1>2, <1>3 DEF Started, Lost, Later
<1> QED
  BY <1>4, <1>5, <1>6, <1>7, <1>8, <1>9

\* Calls leave a table a table.
LEMMA TablesStay ==
  ASSUME NEW t \in Tables, NEW n \in Name
  PROVE /\ \A f \in Handlers : Registered(t, n, f) \in Tables
        /\ Unregistered(t, n) \in Tables
        /\ [i \in Slots |-> Blank] \in Tables
<1>1. ASSUME NEW f \in Handlers PROVE [name |-> n, func |-> f] \in Commands
  BY <1>1 DEF Commands
<1>2. Blank \in Commands
  BY DEF Commands
<1>3. ASSUME NEW x, NEW v \in Commands PROVE [t EXCEPT ![x] = v] \in Tables
  BY DEF Tables
<1> QED
  BY <1>1, <1>2, <1>3 DEF Registered, Unregistered, Tables

\* A message about a failure.
LEMMA Complaints ==
  ASSUME NEW b \in BOOLEAN
  PROVE /\ Complain(b) \in Seq(Items)
        /\ \A i \in 1 .. Len(Complain(b)) : Complain(b)[i] \in {"print", "echo", "loaded"}
<1>1. <<>> \in Seq(Items) /\ Len(<<>>) = 0
  OBVIOUS
<1>2. <<"print">> \in Seq(Items) /\ Len(<<"print">>) = 1 /\ <<"print">>[1] = "print"
  BY DEF Items
<1>3. CASE b
  BY <1>1, <1>3 DEF Complain
<1>4. CASE ~b
  BY <1>2, <1>4 DEF Complain
<1> QED
  BY <1>3, <1>4

\* A number of lines.
LEMMA Lines ==
  ASSUME NEW k \in Nat
  PROVE LET s == [i \in 1 .. k |-> "print"]
        IN s \in Seq(Items) /\ \A i \in 1 .. Len(s) : s[i] \in {"print", "echo", "loaded"}
BY DEF Items

\* The step that a call has done is gone.
LEMMA DoneKeeps ==
  ASSUME Inv, NEW c \in Core, todo[c] # <<>>, Done(c)
  PROVE /\ todo' \in [Core -> Seq(Items)] /\ WriteFirst'
        /\ todo'[c] = Tail(todo[c]) /\ ~Doing(c, "write")'
        /\ \A d \in Core \ {c} : todo'[d] = todo[d]
        /\ \A i \in 1 .. Len(todo'[c]) : i + 1 \in 2 .. Len(todo[c]) /\ todo'[c][i] = todo[c][i + 1]
<1>1. todo \in [Core -> Seq(Items)]
  BY DEF Inv, WellTyped
<1>2. todo'[c] = Tail(todo[c]) /\ \A d \in Core \ {c} : todo'[d] = todo[d]
  BY <1>1 DEF Done
<1>3. /\ Tail(todo[c]) \in Seq(Items) /\ Len(Tail(todo[c])) = Len(todo[c]) - 1
      /\ \A i \in 1 .. Len(todo[c]) - 1 : Tail(todo[c])[i] = todo[c][i + 1]
      /\ Len(todo[c]) \in Nat
  BY <1>1, Tails
<1>4. todo' \in [Core -> Seq(Items)]
  BY <1>1, <1>3 DEF Done
<1>5. \A i \in 1 .. Len(todo'[c]) : i + 1 \in 2 .. Len(todo[c]) /\ todo'[c][i] = todo[c][i + 1]
  BY <1>2, <1>3
<1>6. WriteFirst'
  <2>1. ASSUME NEW i \in 2 .. Len(todo'[c]) PROVE todo'[c][i] # "write"
    <3>1. Len(todo'[c]) \in Nat /\ i \in 1 .. Len(todo'[c])
      BY <1>2, <1>3
    <3> QED
      BY <3>1, <1>5 DEF Inv, WriteFirst
  <2>2. ASSUME NEW d \in Core \ {c} PROVE \A i \in 2 .. Len(todo'[d]) : todo'[d][i] # "write"
    BY <1>2, <2>2 DEF Inv, WriteFirst
  <2> QED
    BY <2>1, <2>2 DEF WriteFirst
<1>7. ~Doing(c, "write")'
  <2> SUFFICES ASSUME todo'[c] # <<>> PROVE Head(todo'[c]) # "write"
    BY DEF Doing
  <2>1. Head(todo'[c]) = todo'[c][1] /\ Len(todo'[c]) >= 1 /\ Len(todo'[c]) \in Nat
    BY <1>2, <1>3, Tails
  <2> QED
    BY <2>1, <1>5 DEF Inv, WriteFirst
<1> QED
  BY <1>2, <1>4, <1>5, <1>6, <1>7

\* While the UART is started, the next step tells how far it is.
LEMMA WhileStarting ==
  ASSUME Inv, ~up, NEW c \in Core, todo[c] # <<>>
  PROVE /\ c = Control
        /\ Doing(c, "print") => todo[c] = <<"print", "up">> /\ ~Lost
        /\ Doing(c, "write") => todo[c] = <<"write", "up">> /\ ~Lost
        /\ Doing(c, "up") => todo[c] = <<"up">> /\ ~Lost
        /\ ~Doing(c, "echo") /\ ~Doing(c, "loaded")
        /\ Doing(c, "pci") => \/ todo[c] = <<"pci", "desc", "print", "up">>
                              \/ todo[c] = <<"pci", "print", "up">> /\ desc
        /\ Doing(c, "desc") => \/ todo[c] = <<"desc", "pci", "print", "up">> /\ ~pci
                               \/ todo[c] = <<"desc", "print", "up">>
<1>1. c = Control /\ Starting
  BY DEF Inv, StartAlone
<1>2. /\ Head(<<"desc", "pci", "print", "up">>) = "desc"
      /\ Head(<<"pci", "desc", "print", "up">>) = "pci"
      /\ Head(<<"pci", "print", "up">>) = "pci" /\ Head(<<"desc", "print", "up">>) = "desc"
      /\ Head(<<"print", "up">>) = "print" /\ Head(<<"write", "up">>) = "write"
      /\ Head(<<"up">>) = "up"
  OBVIOUS
<1> QED
  BY <1>1, <1>2 DEF Starting, Doing

\* A store to shared data.
LEMMA StoreKeeps ==
  ASSUME Inv, NEW c \in Core, Store(c)
  PROVE Inv'
<1> USE DEF Inv
<1>1. todo[c] # <<>> /\ Done(c) /\ UNCHANGED <<lock, left, tab, debug_level>>
  BY DEF Store, Doing
<1>2. /\ todo' \in [Core -> Seq(Items)] /\ WriteFirst'
      /\ todo'[c] = Tail(todo[c]) /\ ~Doing(c, "write")'
      /\ \A d \in Core \ {c} : todo'[d] = todo[d]
      /\ \A i \in 1 .. Len(todo'[c]) : i + 1 \in 2 .. Len(todo[c]) /\ todo'[c][i] = todo[c][i + 1]
  BY <1>1, DoneKeeps
<1>3. WellTyped'
  BY <1>1, <1>2 DEF WellTyped, Store
<1>4. ~Doing(c, "write")
  BY DEF Store, Doing
<1>5. Held' /\ LeftHeld'
  <2>1. lock # c
    BY <1>4 DEF Held
  <2>2. \A d \in Core \ {c} : Doing(d, "write")' <=> Doing(d, "write")
    BY <1>2 DEF Doing
  <2> QED
    BY <1>1, <1>2, <2>1, <2>2 DEF Held, LeftHeld
<1>6. CASE up
  <2>1. Head(todo[c]) \in Later
    <3>1. todo[c] \in Seq(Items) /\ Len(todo[c]) \in Nat
      BY DEF WellTyped
    <3>2. Head(todo[c]) = todo[c][1] /\ Len(todo[c]) >= 1
      BY <1>1, <3>1, Tails
    <3> QED
      BY <1>6, <3>1, <3>2 DEF Started
  <2>2. UNCHANGED <<pci, desc, up>>
    BY <2>1 DEF Store, Doing, Later
  <2>3. \A d \in Core : \A i \in 1 .. Len(todo'[d]) : todo'[d][i] \in Later
    <3>1. Len(todo[c]) \in Nat
      BY DEF WellTyped
    <3>2. \A i \in 2 .. Len(todo[c]) : todo[c][i] \in Later
      BY <1>6, <3>1 DEF Started
    <3> QED
      BY <1>2, <1>6, <3>2 DEF Started
  <2> QED
    BY <1>2, <1>3, <1>5, <1>6, <2>2, <2>3 DEF StartAlone, Started, Lost
<1>7. CASE ~up
  <2>1. c = Control /\ \A d \in Core \ {Control} : todo'[d] = <<>>
    BY <1>1, <1>2, <1>7, WhileStarting DEF StartAlone
  <2>2. CASE Doing(c, "pci")
    <3>1. pci' = TRUE /\ UNCHANGED <<desc, shell_status, up>>
      BY <2>2 DEF Store, Doing
    <3>2. \/ todo'[Control] = <<"desc", "print", "up">>
          \/ todo'[Control] = <<"print", "up">> /\ desc
      BY <1>1, <1>2, <1>7, <2>1, <2>2, WhileStarting, StartTails
    <3> QED
      BY <1>2, <1>3, <1>5, <1>7, <2>1, <3>1, <3>2 DEF StartAlone, Starting, Started, Lost
  <2>3. CASE Doing(c, "desc")
    <3>1. desc' = TRUE /\ UNCHANGED <<pci, shell_status, up>>
      BY <2>3 DEF Store, Doing
    <3>2. todo'[Control] \in {<<"pci", "print", "up">>, <<"print", "up">>}
      BY <1>1, <1>2, <1>7, <2>1, <2>3, WhileStarting, StartTails
    <3> QED
      BY <1>2, <1>3, <1>5, <1>7, <2>1, <3>1, <3>2 DEF StartAlone, Starting, Started, Lost
  <2>4. CASE Doing(c, "up")
    <3>1. up' = TRUE /\ UNCHANGED <<pci, desc, shell_status>>
      BY <2>4 DEF Store, Doing
    <3>2. todo'[Control] = <<>> /\ ~Lost
      BY <1>1, <1>2, <1>7, <2>1, <2>4, WhileStarting, StartTails
    <3>3. \A d \in Core : todo'[d] = <<>>
      BY <2>1, <3>2
    <3> QED
      BY <1>2, <1>3, <1>5, <3>1, <3>2, <3>3 DEF StartAlone, Started, Lost
  <2>5. ~Doing(c, "loaded")
    BY <1>1, <1>7, WhileStarting
  <2> QED
    BY <2>2, <2>3, <2>4, <2>5 DEF Store
<1> QED
  BY <1>6, <1>7

\* The lock is taken for a message.
LEMMA LockKeeps ==
  ASSUME Inv, NEW c \in Core, Lock(c)
  PROVE Inv'
<1> USE DEF Inv
<1>1. /\ todo[c] # <<>> /\ Head(todo[c]) = "print" /\ lock = Null /\ lock' = c
      /\ UNCHANGED <<pci, desc, tab, shared>>
  BY DEF Lock, Doing
<1>2. todo[c] \in Seq(Items) /\ Len(todo[c]) \in Nat /\ Len(todo[c]) >= 1
  BY <1>1, Tails DEF WellTyped
<1> DEFINE s == <<"write">> \o Tail(todo[c])
<1>3. /\ s \in Seq(Items) /\ Len(s) = Len(todo[c]) /\ s[1] = "write"
      /\ \A i \in 2 .. Len(todo[c]) : s[i] = todo[c][i]
  <2>1. "write" \in Items
    BY DEF Items
  <2> QED
    BY <1>1, <1>2, <2>1, HeadReplaced, Zenon
<1>4. todo' = [todo EXCEPT ![c] = s]
  BY DEF Lock
<1> HIDE DEF s
<1>5. todo' \in [Core -> Seq(Items)] /\ todo'[c] = s /\ \A d \in Core \ {c} : todo'[d] = todo[d]
  BY <1>3, <1>4 DEF WellTyped
<1>6. PICK n \in 1 .. MaxBytes : left' = [left EXCEPT ![c] = n]
  BY DEF Lock
<1>7. WellTyped'
  <2>1. n \in 0 .. MaxBytes
    BY <1>6, ConsoleAssumption
  <2>2. left' \in [Core -> 0 .. MaxBytes]
    BY <1>6, <2>1 DEF WellTyped
  <2> QED
    BY <1>1, <1>5, <2>2 DEF WellTyped, shared
<1>8. Doing(c, "write")'
  <2>1. s # <<>> /\ Head(s) = s[1]
    BY <1>2, <1>3
  <2> QED
    BY <1>3, <1>5, <2>1 DEF Doing
<1>9. Held' /\ LeftHeld'
  <2>1. \A d \in Core : lock # d
    BY <1>1, ConsoleAssumption
  <2>2. \A d \in Core \ {c} : (Doing(d, "write")' <=> Doing(d, "write")) /\ left'[d] = left[d]
    BY <1>5, <1>6 DEF Doing, WellTyped
  <2> QED
    BY <1>1, <1>8, <2>1, <2>2 DEF Held, LeftHeld
<1>10. WriteFirst'
  BY <1>2, <1>3, <1>5 DEF WriteFirst
<1>11. CASE up
  <2>1. \A i \in 1 .. Len(s) : s[i] \in Later
    BY <1>2, <1>3, <1>11 DEF Started, Later
  <2> QED
    BY <1>1, <1>5, <1>7, <1>9, <1>10, <1>11, <2>1 DEF StartAlone, Started, Lost, shared
<1>12. CASE ~up
  <2>1. c = Control /\ todo[c] = <<"print", "up">> /\ ~Lost
    BY <1>1, <1>12, WhileStarting DEF Doing
  <2>2. todo'[Control] = <<"write", "up">>
    BY <1>5, <2>1, StartWrites DEF s
  <2>3. \A d \in Core \ {Control} : todo'[d] = <<>>
    BY <1>5, <1>12, <2>1 DEF StartAlone
  <2> QED
    BY <1>1, <1>7, <1>9, <1>10, <1>12, <2>1, <2>2, <2>3
    DEF StartAlone, Starting, Started, Lost, shared
<1> QED
  BY <1>11, <1>12

\* No byte is lost.
LEMMA NoneLost ==
  ASSUME Inv, NEW c \in Core, Doing(c, "write") \/ Doing(c, "echo")
  PROVE ~Lost
<1>1. todo[c] # <<>>
  BY DEF Doing
<1> QED
  BY <1>1, WhileStarting DEF Inv, Started

\* A byte is written.
LEMMA WriteKeeps ==
  ASSUME Inv, NEW c \in Core, WriteByte(c)
  PROVE Inv'
<1> USE DEF Inv
<1>1. ~Lost
  BY NoneLost DEF WriteByte
<1>2. /\ left[c] > 0 /\ left' = [left EXCEPT ![c] = @ - 1]
      /\ UNCHANGED <<pci, desc, lock, todo, tab, shared>>
  BY <1>1 DEF WriteByte
<1>3. left[c] \in 0 .. MaxBytes /\ MaxBytes \in Nat
  BY ConsoleAssumption DEF WellTyped
<1>4. left' \in [Core -> 0 .. MaxBytes] /\ \A d \in Core : left'[d] <= left[d]
  BY <1>2, <1>3 DEF WellTyped
<1>5. WellTyped'
  BY <1>2, <1>4 DEF WellTyped, shared
<1>6. LeftHeld'
  <2> SUFFICES ASSUME NEW d \in Core, left'[d] > 0 PROVE lock = d
    BY <1>2 DEF LeftHeld
  <2>1. left[d] \in Int /\ left'[d] \in Int
    BY <1>3, <1>4 DEF WellTyped
  <2> QED
    BY <1>4, <2>1 DEF LeftHeld
<1>7. Held' /\ WriteFirst' /\ StartAlone' /\ Started'
  BY <1>2 DEF Held, WriteFirst, StartAlone, Starting, Started, Lost, Doing, shared
<1> QED
  BY <1>5, <1>6, <1>7

\* The lock is given back.
LEMMA UnlockKeeps ==
  ASSUME Inv, NEW c \in Core, Unlock(c)
  PROVE Inv'
<1> USE DEF Inv
<1>1. /\ Doing(c, "write") /\ todo[c] # <<>> /\ left[c] = 0 /\ lock' = Null /\ Done(c)
      /\ UNCHANGED <<pci, desc, left, tab, shared>>
  BY DEF Unlock, Doing
<1>2. /\ todo' \in [Core -> Seq(Items)] /\ WriteFirst'
      /\ todo'[c] = Tail(todo[c]) /\ ~Doing(c, "write")'
      /\ \A d \in Core \ {c} : todo'[d] = todo[d]
      /\ \A i \in 1 .. Len(todo'[c]) : i + 1 \in 2 .. Len(todo[c]) /\ todo'[c][i] = todo[c][i + 1]
  BY <1>1, DoneKeeps
<1>3. WellTyped'
  BY <1>1, <1>2 DEF WellTyped, shared
<1>4. lock = c /\ lock' = Null /\ \A d \in Core : Null # d
  BY <1>1, ConsoleAssumption DEF Held
<1>5. Held' /\ LeftHeld'
  <2>1. \A d \in Core \ {c} : (Doing(d, "write")' <=> Doing(d, "write")) /\ lock # d
    BY <1>2, <1>4 DEF Doing
  <2>2. Held'
    BY <1>2, <1>4, <2>1 DEF Held
  <2>3. LeftHeld'
    BY <1>1, <2>1 DEF LeftHeld
  <2> QED
    BY <2>2, <2>3
<1>6. CASE up
  <2>1. \A d \in Core : \A i \in 1 .. Len(todo'[d]) : todo'[d][i] \in Later
    <3>1. Len(todo[c]) \in Nat
      BY DEF WellTyped
    <3>2. \A i \in 2 .. Len(todo[c]) : todo[c][i] \in Later
      BY <1>6, <3>1 DEF Started
    <3> QED
      BY <1>2, <1>6, <3>2 DEF Started
  <2> QED
    BY <1>1, <1>2, <1>3, <1>5, <1>6, <2>1 DEF StartAlone, Started, Lost, shared
<1>7. CASE ~up
  <2>1. c = Control /\ todo[c] = <<"write", "up">> /\ ~Lost
    BY <1>1, <1>7, WhileStarting
  <2>2. todo'[Control] = <<"up">>
    BY <1>2, <2>1, StartTails
  <2>3. \A d \in Core \ {Control} : todo'[d] = <<>>
    BY <1>2, <1>7, <2>1 DEF StartAlone
  <2> QED
    BY <1>1, <1>2, <1>3, <1>5, <1>7, <2>1, <2>2, <2>3
    DEF StartAlone, Starting, Started, Lost, shared
<1> QED
  BY <1>6, <1>7

\* A key is echoed.
LEMMA EchoKeeps ==
  ASSUME Inv, NEW c \in Core, WriteEcho(c)
  PROVE Inv'
<1> USE DEF Inv
<1>1. ~Lost
  BY NoneLost DEF WriteEcho
<1>2. Doing(c, "echo") /\ todo[c] # <<>> /\ Done(c) /\ UNCHANGED <<output, tab, shared>>
  BY <1>1 DEF WriteEcho, Doing
<1>3. /\ todo' \in [Core -> Seq(Items)] /\ WriteFirst'
      /\ todo'[c] = Tail(todo[c]) /\ ~Doing(c, "write")'
      /\ \A d \in Core \ {c} : todo'[d] = todo[d]
      /\ \A i \in 1 .. Len(todo'[c]) : i + 1 \in 2 .. Len(todo[c]) /\ todo'[c][i] = todo[c][i + 1]
  BY <1>2, DoneKeeps
<1>4. WellTyped'
  BY <1>2, <1>3 DEF WellTyped, output, shared
<1>5. Held' /\ LeftHeld'
  <2>1. lock # c
    BY <1>2 DEF Held, Doing
  <2>2. \A d \in Core \ {c} : Doing(d, "write")' <=> Doing(d, "write")
    BY <1>3 DEF Doing
  <2> QED
    BY <1>2, <1>3, <2>1, <2>2 DEF Held, LeftHeld, output
<1>6. up
  BY <1>2, WhileStarting
<1>7. \A d \in Core : \A i \in 1 .. Len(todo'[d]) : todo'[d][i] \in Later
  <2>1. Len(todo[c]) \in Nat
    BY DEF WellTyped
  <2>2. \A i \in 2 .. Len(todo[c]) : todo[c][i] \in Later
    BY <1>6, <2>1 DEF Started
  <2> QED
    BY <1>3, <1>6, <2>2 DEF Started
<1> QED
  BY <1>2, <1>3, <1>4, <1>5, <1>6, <1>7 DEF StartAlone, Started, Lost, output, shared

\* The start of the UART.
LEMMA UartInitKeeps ==
  ASSUME Inv, UartInit
  PROVE Inv'
<1> USE DEF Inv
<1>1. PICK found \in BOOLEAN : \E s \in InitSteps(found) : Does(Control, tab[Control], s)
  BY DEF UartInit
<1>2. PICK s \in InitSteps(found) : Does(Control, tab[Control], s)
  BY <1>1
<1>3. /\ ~up /\ todo[Control] = <<>> /\ Control \in Core
      /\ tab' = [tab EXCEPT ![Control] = tab[Control]]
      /\ todo' = [todo EXCEPT ![Control] = s] /\ UNCHANGED <<output, shared>>
  BY <1>2, ConsoleAssumption DEF UartInit, Does
<1>4. ~pci
  BY <1>3 DEF StartAlone, Starting
<1>5. s \in {<<"print", "up">>, <<"desc", "pci", "print", "up">>, <<"pci", "desc", "print", "up">>}
  BY <1>2 DEF InitSteps
<1>6. /\ s \in Seq(Items) /\ s # <<>> /\ Head(s) # "write"
      /\ \A i \in 1 .. Len(s) : s[i] # "write"
  <2>1. CASE s = <<"print", "up">>
    BY <2>1 DEF Items
  <2>2. CASE s = <<"desc", "pci", "print", "up">>
    BY <2>2 DEF Items
  <2>3. CASE s = <<"pci", "desc", "print", "up">>
    BY <2>3 DEF Items
  <2> QED
    BY <1>5, <2>1, <2>2, <2>3
<1>7. todo' \in [Core -> Seq(Items)] /\ todo'[Control] = s
      /\ \A d \in Core \ {Control} : todo'[d] = todo[d]
  BY <1>3, <1>6 DEF WellTyped
<1>8. WellTyped'
  <2>1. tab' \in [Core -> Tables]
    BY <1>3 DEF WellTyped
  <2> QED
    BY <1>3, <1>7, <2>1 DEF WellTyped, output, shared
<1>9. Held' /\ LeftHeld'
  <2>1. ~Doing(Control, "write")' /\ ~Doing(Control, "write")
    BY <1>3, <1>6, <1>7 DEF Doing
  <2>2. \A d \in Core \ {Control} : Doing(d, "write")' <=> Doing(d, "write")
    BY <1>7 DEF Doing
  <2> QED
    BY <1>3, <2>1, <2>2 DEF Held, LeftHeld, output
<1>10. WriteFirst'
  <2>1. Len(s) \in Nat
    BY <1>6
  <2> QED
    BY <1>6, <1>7, <2>1 DEF WriteFirst
<1>11. Starting'
  BY <1>3, <1>4, <1>5, <1>7 DEF Starting, Lost, output
<1> QED
  BY <1>3, <1>7, <1>8, <1>9, <1>10, <1>11 DEF StartAlone, Started, shared

\* A call that does something to the caller's table and leaves steps for later.
LEMMA DoesKeeps ==
  ASSUME Inv, Synced, NEW c \in Core, Ready(c), NEW t \in Tables, NEW s \in Seq(Items),
         \A i \in 1 .. Len(s) : s[i] \in {"print", "echo", "loaded"}, Does(c, t, s)
  PROVE Inv'
<1>1. debug_level' \in 0 .. 9
  BY DEF Does, shared, Inv, WellTyped
<1>2. /\ tab' = [tab EXCEPT ![c] = t] /\ todo' = [todo EXCEPT ![c] = s]
      /\ UNCHANGED <<output, shell_status, up>>
  BY DEF Does, shared
<1> QED
  BY <1>1, <1>2, CallKeeps

\* The calls on the command table.
LEMMA TableKeeps ==
  ASSUME Inv, Synced
  PROVE /\ ShellInit => Inv'
        /\ \A c \in Core : DebugInit(c) => Inv'
        /\ \A c \in Core, n \in Name : Unregister(c, n) => Inv'
        /\ \A c \in Core, n \in Name, f \in Func : Register(c, n, f) => Inv'
<1>1. \A c \in Core : tab[c] \in Tables
  BY DEF Inv, WellTyped
<1>2. /\ help \in Name /\ h \in Name /\ dlevel \in Name /\ help \in Handlers
      /\ dlevel \in Handlers /\ Func \subseteq Handlers
  BY ConsoleAssumption DEF Handlers
<1>3. ASSUME ShellInit PROVE Inv'
  <2> DEFINE empty == [i \in Slots |-> Blank]
             s == <<"print", "loaded">>
             t == Registered(Registered(empty, help, help), h, help)
  <2>1. Control \in Core /\ empty \in Tables
    BY <1>1, <1>2, ConsoleAssumption, TablesStay
  <2>2. t \in Tables
    <3> HIDE DEF empty
    <3>1. Registered(empty, help, help) \in Tables
      BY <1>2, <2>1, TablesStay
    <3> QED
      BY <1>2, <3>1, TablesStay
  <2>3. s \in Seq(Items) /\ \A i \in 1 .. Len(s) : s[i] \in {"print", "echo", "loaded"}
    BY DEF Items
  <2>4. Ready(Control) /\ Does(Control, t, s)
    BY <1>3 DEF ShellInit
  <2> HIDE DEF t, s
  <2> QED
    BY <2>1, <2>2, <2>3, <2>4, DoesKeeps
<1>4. ASSUME NEW c \in Core, DebugInit(c) PROVE Inv'
  <2>1. CASE shell_status = 1
    <3>1. Registered(tab[c], dlevel, dlevel) \in Tables
      BY <1>1, <1>2, TablesStay
    <3>2. CanRegister(tab[c], dlevel) \in BOOLEAN
      BY DEF CanRegister, Known
    <3> DEFINE s == Complain(CanRegister(tab[c], dlevel))
    <3>3. s \in Seq(Items) /\ \A i \in 1 .. Len(s) : s[i] \in {"print", "echo", "loaded"}
      BY <3>2, Complaints
    <3>4. Ready(c) /\ Does(c, Registered(tab[c], dlevel, dlevel), s)
      BY <1>4, <2>1 DEF DebugInit
    <3> HIDE DEF s
    <3> QED
      BY <3>1, <3>3, <3>4, DoesKeeps
  <2>2. CASE shell_status # 1
    <3>1. Ready(c) /\ Does(c, tab[c], <<>>)
      BY <1>4, <2>2 DEF DebugInit
    <3>2. <<>> \in Seq(Items) /\ \A i \in 1 .. Len(<<>>) : <<>>[i] \in {"print", "echo", "loaded"}
      OBVIOUS
    <3> QED
      BY <1>1, <3>1, <3>2, DoesKeeps
  <2> QED
    BY <2>1, <2>2
<1>5. ASSUME NEW c \in Core, NEW n \in Name, Unregister(c, n) PROVE Inv'
  <2> DEFINE s == Complain(Known(tab[c], n))
  <2>1. Unregistered(tab[c], n) \in Tables
    BY <1>1, TablesStay
  <2>2. s \in Seq(Items) /\ \A i \in 1 .. Len(s) : s[i] \in {"print", "echo", "loaded"}
    <3>1. Known(tab[c], n) \in BOOLEAN
      BY DEF Known
    <3> QED
      BY <3>1, Complaints
  <2>3. Ready(c) /\ Does(c, Unregistered(tab[c], n), s)
    BY <1>5 DEF Unregister
  <2> HIDE DEF s
  <2> QED
    BY <2>1, <2>2, <2>3, DoesKeeps
<1>6. ASSUME NEW c \in Core, NEW n \in Name, NEW f \in Func, Register(c, n, f) PROVE Inv'
  <2> DEFINE s == Complain(CanRegister(tab[c], n))
  <2>1. Registered(tab[c], n, f) \in Tables
    BY <1>1, <1>2, TablesStay
  <2>2. s \in Seq(Items) /\ \A i \in 1 .. Len(s) : s[i] \in {"print", "echo", "loaded"}
    <3>1. CanRegister(tab[c], n) \in BOOLEAN
      BY DEF CanRegister, Known
    <3> QED
      BY <3>1, Complaints
  <2>3. Ready(c) /\ Does(c, Registered(tab[c], n, f), s)
    BY <1>6 DEF Register
  <2> HIDE DEF s
  <2> QED
    BY <2>1, <2>2, <2>3, DoesKeeps
<1> QED
  BY <1>3, <1>4, <1>5, <1>6

\* The calls for output.
LEMMA OutputKeeps ==
  ASSUME Inv, Synced
  PROVE /\ Echo => Inv'
        /\ \A c \in Core, l \in Levels : Printd(c, l) => Inv'
        /\ \A n \in Name : Execute(n) => Inv'
        /\ \A v \in Typed : SetLevel(v) => Inv'
<1>1. Control \in Core /\ \A c \in Core : tab[c] \in Tables
  BY ConsoleAssumption DEF Inv, WellTyped
<1>2. ASSUME Echo PROVE Inv'
  <2> DEFINE s == <<"echo">>
  <2>1. s \in Seq(Items) /\ \A i \in 1 .. Len(s) : s[i] \in {"print", "echo", "loaded"}
    BY DEF Items
  <2>2. Ready(Control) /\ Does(Control, tab[Control], s)
    BY <1>2 DEF Echo
  <2> HIDE DEF s
  <2> QED
    BY <1>1, <2>1, <2>2, DoesKeeps
<1>3. ASSUME NEW c \in Core, NEW l \in Levels, Printd(c, l) PROVE Inv'
  <2> DEFINE s == IF debug_level >= l THEN <<"print">> ELSE <<>>
  <2>1. s \in Seq(Items) /\ \A i \in 1 .. Len(s) : s[i] \in {"print", "echo", "loaded"}
    <3>1. s = Complain(TRUE) \/ s = Complain(FALSE)
      BY DEF Complain
    <3> HIDE DEF s
    <3> QED
      BY <3>1, Complaints
  <2>2. Ready(c) /\ Does(c, tab[c], s)
    BY <1>3 DEF Printd
  <2> HIDE DEF s
  <2> QED
    BY <1>1, <2>1, <2>2, DoesKeeps
<1>4. ASSUME NEW n \in Name, Execute(n) PROVE Inv'
  <2> DEFINE t == tab[Control]
             used == Cardinality(Slots \ SlotsOf(t, Null))
             lines == IF Known(t, n) /\ t[Min(SlotsOf(t, n))].func = help
                      THEN 1 + used ELSE 1
             s == [i \in 1 .. lines + 2 |-> "print"]
  <2>1. used \in Nat
    <3>1. IsFiniteSet(Slots)
      BY ConsoleAssumption, FS_Interval DEF Slots
    <3>2. IsFiniteSet(Slots \ SlotsOf(t, Null))
      BY <3>1, FS_Subset
    <3> QED
      BY <3>2, FS_CardinalityType
  <2>2. lines + 2 \in Nat
    <3> HIDE DEF used
    <3> QED
      BY <2>1
  <2>3. Ready(Control) /\ Does(Control, t, s)
    BY <1>4 DEF Execute
  <2> HIDE DEF lines
  <2>4. s \in Seq(Items) /\ \A i \in 1 .. Len(s) : s[i] \in {"print", "echo", "loaded"}
    BY <2>2, Lines
  <2> HIDE DEF s
  <2> QED
    BY <1>1, <2>3, <2>4, DoesKeeps
<1>5. ASSUME NEW v \in Typed, SetLevel(v) PROVE Inv'
  <2> DEFINE k == IF Legal(v) THEN 2 ELSE 3
             s == [i \in 1 .. k |-> "print"]
  <2>1. s \in Seq(Items) /\ \A i \in 1 .. Len(s) : s[i] \in {"print", "echo", "loaded"}
    BY Lines
  <2>2. /\ Ready(Control) /\ todo' = [todo EXCEPT ![Control] = s]
        /\ UNCHANGED <<output, tab, shell_status, up>>
    BY <1>5 DEF SetLevel
  <2>3. debug_level' \in 0 .. 9
    <3>1. v \in Nat
      BY ConsoleAssumption
    <3>2. Int8(v) \in Int
      BY <3>1 DEF Int8
    <3>3. ASSUME Legal(v) PROVE Int8(v) % 256 \in 0 .. 9
      BY <3>2, <3>3 DEF Legal
    <3> QED
      BY <1>5, <3>3 DEF SetLevel, Inv, WellTyped
  <2>4. tab' = [tab EXCEPT ![Control] = tab[Control]]
    BY <2>2 DEF Inv, WellTyped
  <2> HIDE DEF s
  <2> QED
    BY <1>1, <2>1, <2>2, <2>3, <2>4, CallKeeps
<1> QED
  BY <1>2, <1>3, <1>4, <1>5

\* If cores wait for the start of the UART, every step keeps the invariant.
LEMMA StepInv == Synced /\ Inv /\ [Next]_vars => Inv'
<1> SUFFICES ASSUME Synced, Inv, [Next]_vars PROVE Inv'
  OBVIOUS
<1>1. CASE UartInit
  BY <1>1, UartInitKeeps
<1>2. CASE ShellInit
  BY <1>2, TableKeeps
<1>3. CASE Echo
  BY <1>3, OutputKeeps
<1>4. ASSUME NEW c \in Core, Step(c) \/ Lock(c) PROVE Inv'
  BY <1>4, StoreKeeps, LockKeeps, WriteKeeps, UnlockKeeps, EchoKeeps DEF Step
<1>5. ASSUME NEW c \in Core, DebugInit(c) \/ \E l \in Levels : Printd(c, l) PROVE Inv'
  BY <1>5, TableKeeps, OutputKeeps
<1>6. ASSUME NEW c \in Core, NEW n \in Name,
             Unregister(c, n) \/ \E f \in Func : Register(c, n, f)
      PROVE Inv'
  BY <1>6, TableKeeps
<1>7. ASSUME NEW n \in Name, Execute(n) PROVE Inv'
  BY <1>7, OutputKeeps
<1>8. ASSUME NEW v \in Typed, SetLevel(v) PROVE Inv'
  BY <1>8, OutputKeeps
<1>9. CASE UNCHANGED vars
  BY <1>9 DEF vars, output, shared, Inv, WellTyped, Held, LeftHeld, WriteFirst, StartAlone,
              Starting, Started, Doing, Lost
<1> QED
  BY <1>1, <1>2, <1>3, <1>4, <1>5, <1>6, <1>7, <1>8, <1>9 DEF Next

\* The invariant holds for good.
LEMMA Always == ASSUME Synced PROVE Spec => []Inv
<1>1. Inv /\ [Next]_vars => Inv'
  BY StepInv
<1> QED
  BY <1>1, InitInv, PTL DEF Spec

\* Types, and the level stays in the range that the dlevel command accepts.
THEOREM ConsoleTypeOK == ASSUME Synced PROVE Spec => []TypeOK
<1>1. Inv => TypeOK
  <2> SUFFICES ASSUME Inv PROVE TypeOK
    OBVIOUS
  <2>1. ASSUME NEW c \in Core
        PROVE ToSet(todo[c]) \subseteq {"print", "write", "echo", "desc", "pci", "loaded", "up"}
    <3>1. todo[c] \in Seq(Items)
      BY DEF Inv, WellTyped
    <3> QED
      BY <3>1 DEF ToSet, Items
  <2>2. ASSUME NEW c \in Core, NEW i \in Slots
        PROVE tab[c][i] = Blank \/ (tab[c][i].name \in Name /\ tab[c][i].func # Null)
    <3>1. tab[c][i] \in Commands
      BY DEF Inv, WellTyped, Tables
    <3>2. Null \notin Handlers
      BY ConsoleAssumption DEF Handlers
    <3> QED
      BY <3>1, <3>2 DEF Commands
  <2> QED
    BY <2>1, <2>2 DEF Inv, WellTyped, TypeOK
<1> QED
  BY <1>1, Always, PTL

\* No core waits for the lock it holds.
THEOREM NoSelfDeadlockTheorem == ASSUME Synced PROVE Spec => []NoSelfDeadlock
<1>1. Inv => NoSelfDeadlock
  BY DEF Inv, Held, NoSelfDeadlock
<1> QED
  BY <1>1, Always, PTL

\* Lines of cores do not mix.
THEOREM WholeMessagesTheorem == ASSUME Synced PROVE Spec => []WholeMessages
<1>1. Inv => WholeMessages
  BY DEF Inv, LeftHeld, WholeMessages
<1> QED
  BY <1>1, Always, PTL

-----------------------------------------------------------------------------
(* The promise of the table, which needs no order between the cores: what   *)
(* counts is that no name is in two slots of a table, holes or not.         *)

\* A name is in one slot at most.
Unique(t) == \A i, j \in Slots : t[i].name = t[j].name /\ t[i].name # Null => i = j

GoodTable(t) == t \in Tables /\ Unique(t)

TablesOK ==
  DOMAIN todo = Core /\ tab \in [Core -> Tables] /\ \A c \in Core : GoodTable(tab[c])

\* What CommandDirectory sees of a table.
DirOf(t) == [n \in NamesOf(t) |-> t[CHOOSE i \in Slots : t[i].name = n].func]

\* Slots have a first one.
LEMMA FirstSlot ==
  ASSUME NEW S \in SUBSET Slots, S # {}
  PROVE Min(S) \in S
<1>1. S \in SUBSET Nat
  BY ConsoleAssumption DEF Slots
<1>2. PICK m \in S : \A k \in S : <<k, m>> \notin OpToRel(<, Nat)
  BY <1>1, WFMin, NatLessThanWellFounded, Zenon
<1>3. \A k \in S : ~(k < m)
  BY <1>1, <1>2, Zenon DEF OpToRel
<1>4. \A k \in S : m <= k
  BY <1>1, <1>3
<1> QED
  BY <1>4 DEF Min

\* The first slot with a given name holds it.
LEMMA FirstOf ==
  ASSUME NEW t, NEW n, SlotsOf(t, n) # {}
  PROVE Min(SlotsOf(t, n)) \in Slots /\ t[Min(SlotsOf(t, n))].name = n
<1>1. SlotsOf(t, n) \in SUBSET Slots
  BY DEF SlotsOf
<1>2. Min(SlotsOf(t, n)) \in SlotsOf(t, n)
  BY <1>1, FirstSlot
<1> QED
  BY <1>2 DEF SlotsOf

\* The fields of a slot.
LEMMA SlotFields ==
  ASSUME NEW t \in Tables, NEW i \in Slots
  PROVE /\ t[i].name = Null => t[i] = Blank
        /\ t[i].name # Null => t[i].name \in Name
<1>1. t[i] \in Commands
  BY DEF Tables
<1> QED
  BY <1>1, ConsoleAssumption DEF Commands, Blank

\* A table knows the names in its slots.
LEMMA KnownNames ==
  ASSUME NEW t, NEW n \in Name
  PROVE Known(t, n) <=> n \in NamesOf(t)
<1>1. n # Null
  BY ConsoleAssumption
<1> QED
  BY <1>1 DEF Known, SlotsOf, NamesOf

\* The directory has the handler of each slot that is used.
LEMMA HandlerOf ==
  ASSUME NEW t, Unique(t), NEW i \in Slots, t[i].name # Null
  PROVE t[i].name \in NamesOf(t) /\ DirOf(t)[t[i].name] = t[i].func
<1> DEFINE n == t[i].name
           j == CHOOSE k \in Slots : t[k].name = n
<1>1. n \in NamesOf(t)
  BY DEF NamesOf
<1>2. j \in Slots /\ t[j].name = n
  BY Zenon
<1>3. j = i
  BY <1>2 DEF Unique
<1>4. DirOf(t)[n] = t[j].func
  BY <1>1 DEF DirOf
<1> QED
  BY <1>1, <1>3, <1>4

\* Two functions with one domain and the same values are one.
LEMMA SameFunction ==
  ASSUME NEW S, NEW f, NEW g, f = [x \in S |-> f[x]], g = [x \in S |-> g[x]],
         \A x \in S : f[x] = g[x]
  PROVE f = g
OBVIOUS

\* A table is full when as many names are known as there are slots.
LEMMA RoomLeft ==
  ASSUME NEW t, GoodTable(t)
  PROVE /\ IsFiniteSet(NamesOf(t))
        /\ Cardinality(NamesOf(t)) < MaxCmds <=> SlotsOf(t, Null) # {}
<1> DEFINE used == Slots \ SlotsOf(t, Null)
           f == [i \in used |-> t[i].name]
<1>1. used \in SUBSET Slots /\ (used = Slots <=> SlotsOf(t, Null) = {})
  BY DEF SlotsOf
<1>2. IsFiniteSet(Slots) /\ Cardinality(Slots) = MaxCmds
  BY ConsoleAssumption, FS_Interval DEF Slots
<1>3. \A i \in used : i \in Slots /\ t[i].name # Null
  BY DEF SlotsOf
<1>4. \A n \in NamesOf(t) : \E i \in used : t[i].name = n
  BY DEF NamesOf, SlotsOf
<1>5. \A i \in used : t[i].name \in NamesOf(t)
  BY <1>3 DEF NamesOf
<1> HIDE DEF used
<1>6. f \in [used -> NamesOf(t)]
  BY <1>5
<1>7. f \in Injection(used, NamesOf(t))
  <2>1. \A i, j \in used : f[i] = f[j] => i = j
    BY <1>3 DEF GoodTable, Unique
  <2> QED
    BY <1>6, <2>1 DEF Injection, IsInjective
<1>8. f \in Surjection(used, NamesOf(t))
  BY <1>4, <1>6 DEF Surjection
<1>9. ExistsBijection(used, NamesOf(t))
  BY <1>7, <1>8 DEF ExistsBijection, Bijection
<1>10. /\ IsFiniteSet(used) /\ Cardinality(used) <= MaxCmds
       /\ Cardinality(used) = MaxCmds => used = Slots
  BY <1>1, <1>2, FS_Subset
<1>11. IsFiniteSet(NamesOf(t)) /\ Cardinality(NamesOf(t)) = Cardinality(used)
  BY <1>9, <1>10, FS_Bijection
<1>12. Cardinality(used) \in Nat
  BY <1>10, FS_CardinalityType
<1> QED
  BY <1>1, <1>2, <1>10, <1>11, <1>12, ConsoleAssumption

\* A name that is registered is added to the directory, wherever the hole is.
LEMMA RegisterAdds ==
  ASSUME NEW t, GoodTable(t), NEW n \in Name, NEW f \in Handlers, CanRegister(t, n)
  PROVE /\ GoodTable(Registered(t, n, f))
        /\ DirOf(Registered(t, n, f)) = D!Extended(DirOf(t), n, f)
<1> DEFINE k == Min(SlotsOf(t, Null))
           u == Registered(t, n, f)
<1>1. k \in Slots /\ t[k].name = Null
  BY FirstOf DEF CanRegister
<1>2. n # Null /\ n \notin NamesOf(t)
  BY KnownNames, ConsoleAssumption DEF CanRegister
<1>3. u \in Tables
  BY TablesStay DEF GoodTable
<1> HIDE DEF k
<1>4. t \in [Slots -> Commands]
  BY DEF GoodTable, Tables
<1>5. /\ u = [t EXCEPT ![k] = [name |-> n, func |-> f]]
      /\ u[k].name = n /\ u[k].func = f /\ \A i \in Slots \ {k} : u[i] = t[i]
  BY <1>1, <1>4 DEF Registered, k
<1> HIDE DEF u
<1>6. \A i \in Slots \ {k} : t[i].name # n
  BY <1>2 DEF NamesOf
<1>7. Unique(u)
  BY <1>1, <1>2, <1>5, <1>6 DEF Unique, GoodTable
<1>8. NamesOf(u) = NamesOf(t) \cup {n}
  <2>1. \A x \in NamesOf(u) : x \in NamesOf(t) \cup {n}
    BY <1>5 DEF NamesOf
  <2>2. \A x \in NamesOf(t) : x \in NamesOf(u)
    <3> SUFFICES ASSUME NEW i \in Slots, t[i].name # Null PROVE t[i].name \in NamesOf(u)
      BY DEF NamesOf
    <3>1. i \in Slots \ {k} /\ u[i].name = t[i].name
      BY <1>1, <1>5
    <3> QED
      BY <3>1 DEF NamesOf
  <2>3. n \in NamesOf(u)
    BY <1>1, <1>2, <1>5 DEF NamesOf
  <2> QED
    BY <2>1, <2>2, <2>3, Zenon
<1> DEFINE e == D!Extended(DirOf(t), n, f)
<1>9. e = [x \in NamesOf(t) \cup {n} |-> IF x = n THEN f ELSE DirOf(t)[x]]
  <2>1. DOMAIN DirOf(t) = NamesOf(t)
    BY DEF DirOf
  <2> QED
    BY <2>1 DEF D!Extended
<1>10. ASSUME NEW x \in NamesOf(u) PROVE DirOf(u)[x] = e[x]
  <2>1. PICK i \in Slots : u[i].name = x /\ x # Null
    BY DEF NamesOf
  <2>2. DirOf(u)[x] = u[i].func
    BY <1>7, <2>1, HandlerOf
  <2>3. CASE i = k
    BY <1>5, <1>8, <1>9, <2>1, <2>2, <2>3
  <2>4. CASE i # k
    <3>1. u[i] = t[i] /\ t[i].name = x /\ x # n
      BY <1>5, <1>6, <2>1, <2>4
    <3>2. x \in NamesOf(t) /\ DirOf(t)[x] = t[i].func
      BY <2>1, <3>1, HandlerOf DEF GoodTable
    <3> QED
      BY <1>9, <2>2, <3>1, <3>2
  <2> QED
    BY <2>3, <2>4
<1>11. DirOf(u) = e
  <2>1. DirOf(u) = [x \in NamesOf(u) |-> DirOf(u)[x]]
    BY DEF DirOf
  <2>2. e = [x \in NamesOf(u) |-> e[x]]
    BY <1>8, <1>9
  <2> HIDE DEF e
  <2> QED
    BY <1>10, <2>1, <2>2, SameFunction, Zenon
<1> QED
  BY <1>3, <1>7, <1>11 DEF GoodTable, u

\* A name that is unregistered is gone from the directory.
LEMMA UnregisterRemoves ==
  ASSUME NEW t, GoodTable(t), NEW n \in Name, Known(t, n)
  PROVE /\ GoodTable(Unregistered(t, n))
        /\ DirOf(Unregistered(t, n)) = [x \in NamesOf(t) \ {n} |-> DirOf(t)[x]]
<1> DEFINE k == Min(SlotsOf(t, n))
           u == Unregistered(t, n)
<1>1. k \in Slots /\ t[k].name = n
  BY FirstOf DEF Known
<1>2. n # Null
  BY ConsoleAssumption
<1>3. u \in Tables
  BY TablesStay DEF GoodTable
<1> HIDE DEF k
<1>4. t \in [Slots -> Commands]
  BY DEF GoodTable, Tables
<1>5. u[k].name = Null /\ \A i \in Slots \ {k} : u[i] = t[i]
  BY <1>1, <1>4 DEF Unregistered, Blank, k
<1> HIDE DEF u
<1>6. \A i \in Slots \ {k} : t[i].name # n
  BY <1>1, <1>2 DEF Unique, GoodTable
<1>7. Unique(u)
  BY <1>1, <1>5 DEF Unique, GoodTable
<1>8. NamesOf(u) = NamesOf(t) \ {n}
  <2>1. \A x \in NamesOf(u) : x \in NamesOf(t) \ {n}
    BY <1>5, <1>6 DEF NamesOf
  <2>2. \A x \in NamesOf(t) \ {n} : x \in NamesOf(u)
    <3> SUFFICES ASSUME NEW i \in Slots, t[i].name # Null, t[i].name # n
                 PROVE t[i].name \in NamesOf(u)
      BY DEF NamesOf
    <3>1. i \in Slots \ {k} /\ u[i].name = t[i].name
      BY <1>1, <1>5
    <3> QED
      BY <3>1 DEF NamesOf
  <2> QED
    BY <2>1, <2>2, Zenon
<1> DEFINE e == [x \in NamesOf(t) \ {n} |-> DirOf(t)[x]]
<1>9. ASSUME NEW x \in NamesOf(u) PROVE DirOf(u)[x] = e[x]
  <2>1. PICK i \in Slots : u[i].name = x /\ x # Null
    BY DEF NamesOf
  <2>2. DirOf(u)[x] = u[i].func
    BY <1>7, <2>1, HandlerOf
  <2>3. u[i] = t[i] /\ t[i].name = x
    BY <1>5, <2>1
  <2>4. DirOf(t)[x] = t[i].func
    BY <2>1, <2>3, HandlerOf DEF GoodTable
  <2> QED
    BY <1>8, <2>2, <2>3, <2>4
<1>10. DirOf(u) = e
  <2>1. DirOf(u) = [x \in NamesOf(u) |-> DirOf(u)[x]]
    BY DEF DirOf
  <2>2. e = [x \in NamesOf(u) |-> e[x]]
    BY <1>8
  <2> HIDE DEF e
  <2> QED
    BY <1>9, <2>1, <2>2, SameFunction, Zenon
<1> QED
  BY <1>3, <1>7, <1>10 DEF GoodTable, u

\* Registering leaves a good table whether or not there is room.
LEMMA RegisterGood ==
  ASSUME NEW t, GoodTable(t), NEW n \in Name, NEW f \in Handlers
  PROVE GoodTable(Registered(t, n, f))
<1>1. CASE CanRegister(t, n)
  BY <1>1, RegisterAdds
<1>2. CASE ~CanRegister(t, n)
  BY <1>2 DEF Registered
<1> QED
  BY <1>1, <1>2

\* So does unregistering.
LEMMA UnregisterGood ==
  ASSUME NEW t, GoodTable(t), NEW n \in Name
  PROVE GoodTable(Unregistered(t, n))
<1>1. CASE Known(t, n)
  BY <1>1, UnregisterRemoves
<1>2. CASE ~Known(t, n)
  BY <1>2 DEF Unregistered
<1> QED
  BY <1>1, <1>2

\* A fresh table with the shell's own commands: there is room for both.
LEMMA FreshTable ==
  LET empty == [i \in Slots |-> Blank]
      t == Registered(Registered(empty, help, help), h, help)
  IN /\ GoodTable(empty) /\ NamesOf(empty) = {}
     /\ GoodTable(t) /\ DirOf(t) = [n \in {help, h} |-> help]
<1> DEFINE empty == [i \in Slots |-> Blank]
           one == Registered(empty, help, help)
           t == Registered(one, h, help)
<1>1. help \in Name /\ h \in Name /\ help \in Handlers
  BY ConsoleAssumption DEF Handlers
<1>2. GoodTable(empty) /\ NamesOf(empty) = {} /\ SlotsOf(empty, Null) = Slots
  <2>1. empty \in Tables
    BY DEF Tables, Commands
  <2>2. \A i \in Slots : empty[i].name = Null
    BY DEF Blank
  <2> HIDE DEF empty
  <2> QED
    BY <2>1, <2>2 DEF GoodTable, Unique, NamesOf, SlotsOf
<1> HIDE DEF empty
<1>3. CanRegister(empty, help)
  <2>1. 1 \in Slots
    BY ConsoleAssumption DEF Slots
  <2> QED
    BY <1>1, <1>2, <2>1, KnownNames DEF CanRegister
<1>4. GoodTable(one) /\ DirOf(one) = D!Extended(DirOf(empty), help, help)
  BY <1>1, <1>2, <1>3, RegisterAdds
<1> HIDE DEF one
<1>5. DirOf(one) = [n \in {help} |-> help]
  <2>1. DOMAIN DirOf(empty) = {}
    BY <1>2 DEF DirOf
  <2> QED
    BY <1>4, <2>1 DEF D!Extended
<1>6. NamesOf(one) = {help}
  <2>1. DOMAIN DirOf(one) = NamesOf(one)
    BY DEF DirOf
  <2> QED
    BY <1>5, <2>1
<1>7. CASE h = help
  <2>1. t = one
    BY <1>1, <1>6, <1>7, KnownNames DEF Registered, CanRegister
  <2> HIDE DEF t
  <2>2. {help, h} = {help}
    BY <1>7
  <2> QED
    BY <1>2, <1>4, <1>5, <2>1, <2>2 DEF empty, one, t
<1>8. CASE h # help
  <2>1. CanRegister(one, h)
    <3>1. Cardinality(NamesOf(one)) < MaxCmds
      <4>1. Cardinality(NamesOf(one)) = 1
        BY <1>6, FS_Singleton
      <4> QED
        BY <4>1, ConsoleAssumption
    <3>2. SlotsOf(one, Null) # {}
      BY <1>4, <3>1, RoomLeft
    <3> QED
      BY <1>1, <1>6, <1>8, <3>2, KnownNames DEF CanRegister
  <2>2. GoodTable(t) /\ DirOf(t) = D!Extended(DirOf(one), h, help)
    BY <1>1, <1>4, <2>1, RegisterAdds
  <2> HIDE DEF t
  <2>3. DirOf(t) = [n \in {help} \cup {h} |-> IF n = h THEN help ELSE DirOf(one)[n]]
    BY <1>5, <2>2 DEF D!Extended
  <2>4. {help} \cup {h} = {help, h} /\ \A n \in {help, h} : n # h => DirOf(one)[n] = help
    BY <1>5
  <2>5. DirOf(t) = [n \in {help, h} |-> help]
    BY <2>3, <2>4
  <2> QED
    BY <1>2, <2>2, <2>5 DEF empty, one, t
<1> QED
  BY <1>7, <1>8

\* A call leaves the tables good if it leaves a good one to its caller.
LEMMA GoodCall ==
  ASSUME TablesOK, NEW c \in Core, NEW t, NEW s, Does(c, t, s), GoodTable(t)
  PROVE TablesOK'
<1>1. tab' = [tab EXCEPT ![c] = t] /\ t \in Tables
  BY DEF Does, GoodTable
<1>2. tab' \in [Core -> Tables] /\ \A d \in Core : tab'[d] = IF d = c THEN t ELSE tab[d]
  BY <1>1 DEF TablesOK
<1>3. \A d \in Core : GoodTable(tab'[d])
  BY <1>2 DEF TablesOK
<1>4. DOMAIN todo' = Core
  BY DEF Does, TablesOK
<1> QED
  BY <1>2, <1>3, <1>4 DEF TablesOK

\* No step puts a name in a second slot.
LEMMA TablesGood == TablesOK /\ [Next]_vars => TablesOK'
<1> SUFFICES ASSUME TablesOK, [Next]_vars PROVE TablesOK'
  OBVIOUS
<1>1. /\ Control \in Core /\ help \in Name /\ h \in Name /\ dlevel \in Name
      /\ dlevel \in Handlers /\ Func \subseteq Handlers
  BY ConsoleAssumption DEF Handlers
<1>2. \A c \in Core : GoodTable(tab[c])
  BY DEF TablesOK
<1>3. CASE UartInit
  BY <1>1, <1>2, <1>3, GoodCall DEF UartInit
<1>4. CASE ShellInit
  <2> DEFINE t == Registered(Registered([i \in Slots |-> Blank], help, help), h, help)
  <2>1. Does(Control, t, <<"print", "loaded">>)
    BY <1>4 DEF ShellInit
  <2>2. GoodTable(t)
    BY FreshTable
  <2> QED
    BY <1>1, <2>1, <2>2, GoodCall
<1>5. CASE Echo
  BY <1>1, <1>2, <1>5, GoodCall DEF Echo
<1>6. ASSUME NEW c \in Core, Step(c) \/ Lock(c) PROVE TablesOK'
  <2>1. UNCHANGED tab
    BY <1>6 DEF Step, Lock, Store, WriteByte, Unlock, WriteEcho
  <2>2. DOMAIN todo' = DOMAIN todo
    BY <1>6 DEF Step, Lock, Store, WriteByte, Unlock, WriteEcho, Done
  <2> QED
    BY <2>1, <2>2 DEF TablesOK
<1>7. ASSUME NEW c \in Core, DebugInit(c) PROVE TablesOK'
  BY <1>1, <1>2, <1>7, RegisterGood, GoodCall DEF DebugInit
<1>8. ASSUME NEW c \in Core, NEW l \in Levels, Printd(c, l) PROVE TablesOK'
  BY <1>2, <1>8, GoodCall DEF Printd
<1>9. ASSUME NEW c \in Core, NEW n \in Name, Unregister(c, n) PROVE TablesOK'
  BY <1>2, <1>9, UnregisterGood, GoodCall DEF Unregister
<1>10. ASSUME NEW c \in Core, NEW n \in Name, NEW f \in Func, Register(c, n, f)
       PROVE TablesOK'
  BY <1>1, <1>2, <1>10, RegisterGood, GoodCall DEF Register
<1>11. ASSUME NEW n \in Name, Execute(n) PROVE TablesOK'
  BY <1>1, <1>2, <1>11, GoodCall DEF Execute
<1>12. ASSUME NEW v \in Typed, SetLevel(v) PROVE TablesOK'
  BY <1>12 DEF SetLevel, TablesOK
<1>13. CASE UNCHANGED vars
  BY <1>13 DEF vars, TablesOK
<1> QED
  BY <1>3, <1>4, <1>5, <1>6, <1>7, <1>8, <1>9, <1>10, <1>11, <1>12, <1>13 DEF Next

\* The tables are good for good.
LEMMA AlwaysGood == Spec => []TablesOK
<1>1. Init => TablesOK
  <2> SUFFICES ASSUME Init PROVE TablesOK
    OBVIOUS
  <2>1. tab = [c \in Core |-> [i \in Slots |-> Blank]]
    BY DEF Init
  <2>2. GoodTable([i \in Slots |-> Blank])
    BY FreshTable
  <2>3. DOMAIN todo = Core
    BY DEF Init
  <2> QED
    BY <2>1, <2>2, <2>3 DEF TablesOK, GoodTable
<1> QED
  BY <1>1, TablesGood, PTL DEF Spec

\* What a call does to its caller's table, it does to the caller's directory only.
LEMMA CallBecomes ==
  ASSUME TablesOK, NEW c \in Core, NEW t, NEW s, Does(c, t, s)
  PROVE D!Becomes(c, DirOf(t)) /\ todo'[c] = s
        /\ DOMAIN DirOf(tab[c]) = NamesOf(tab[c])
<1>1. \A d \in Core : tab'[d] = IF d = c THEN t ELSE tab[d]
  BY DEF TablesOK, Does
<1>2. [d \in Core |-> DirOf(tab'[d])] = [[d \in Core |-> DirOf(tab[d])] EXCEPT ![c] = DirOf(t)]
  BY <1>1
<1>3. todo'[c] = s
  BY DEF TablesOK, Does
<1>4. DOMAIN DirOf(tab[c]) = NamesOf(tab[c])
  BY DEF DirOf
<1> QED
  BY <1>2, <1>3, <1>4 DEF D!Becomes, DirOf

\* A call that leaves its caller's table alone changes no directory.
LEMMA CallLeaves ==
  ASSUME TablesOK, NEW c \in Core, NEW s, Does(c, tab[c], s)
  PROVE UNCHANGED D!vars /\ todo'[c] = s
<1>1. tab' = tab
  BY DEF TablesOK, Does
<1>2. todo'[c] = s
  BY DEF TablesOK, Does
<1> QED
  BY <1>1, <1>2 DEF D!vars

\* The directory's way to count is the usual one.
LEMMA SameCount == \A S : D!Cardinality(S) = Cardinality(S)
BY DEF D!Cardinality, Cardinality

\* Whether a directory takes a name, and what its operations do, seen from the
\* table that stands for it.
LEMMA SeenFromTable ==
  ASSUME TablesOK, NEW c \in Core, NEW n \in Name, NEW t, t = tab[c]
  PROVE /\ D!Knows(c, n) <=> Known(t, n)
        /\ D!CanAdd(c, n) <=> CanRegister(t, n)
        /\ \A f : D!Becomes(c, D!Extended(DirOf(t), n, f)) /\ D!CanAdd(c, n) => D!Add(c, n, f)
        /\ D!Becomes(c, [x \in NamesOf(t) \ {n} |-> DirOf(t)[x]]) /\ n \in NamesOf(t) =>
             D!Remove(c, n)
<1>1. GoodTable(t)
  BY DEF TablesOK
<1> DEFINE dir == [d \in Core |->
                     [m \in NamesOf(tab[d]) |->
                        tab[d][CHOOSE i \in Slots : tab[d][i].name = m].func]]
<1>2. dir[c] = DirOf(t)
  BY DEF DirOf
<1>3. DOMAIN DirOf(t) = NamesOf(t)
  BY DEF DirOf
<1>4. D!CanAdd(c, n) <=> n \notin DOMAIN dir[c] /\ D!Cardinality(DOMAIN dir[c]) < MaxCmds
  BY DEF D!CanAdd, D!Knows
<1>5. D!Knows(c, n) <=> Known(t, n)
  BY <1>1, <1>2, <1>3, KnownNames DEF D!Knows
<1>6. D!CanAdd(c, n) <=> CanRegister(t, n)
  BY <1>1, <1>2, <1>3, <1>4, SameCount, RoomLeft, KnownNames DEF CanRegister
<1>7. ASSUME NEW f, D!Becomes(c, D!Extended(DirOf(t), n, f)), D!CanAdd(c, n)
      PROVE D!Add(c, n, f)
  BY <1>2, <1>7 DEF D!Add, D!Becomes
<1>8. ASSUME D!Becomes(c, [x \in NamesOf(t) \ {n} |-> DirOf(t)[x]]), n \in NamesOf(t)
      PROVE D!Remove(c, n)
  BY <1>2, <1>3, <1>8 DEF D!Remove, D!Becomes, D!Knows
<1> QED
  BY <1>5, <1>6, <1>7, <1>8

\* A name is registered once, and refused only when it is known or the table is
\* full, whatever holes the table has.
LEMMA RegisterPromise ==
  ASSUME TablesOK, NEW c \in Core, NEW n \in Name, NEW f \in Func, Register(c, n, f)
  PROVE IF D!CanAdd(c, n) THEN D!Add(c, n, f) /\ todo'[c] = <<>>
        ELSE UNCHANGED D!vars /\ todo'[c] # <<>>
<1>1. PICK t : t = tab[c]
  OBVIOUS
<1>2. GoodTable(t) /\ f \in Handlers
  BY <1>1 DEF TablesOK, Handlers
<1>3. Does(c, Registered(t, n, f), Complain(CanRegister(t, n)))
  BY <1>1 DEF Register
<1>4. CASE CanRegister(t, n)
  <2>1. DirOf(Registered(t, n, f)) = D!Extended(DirOf(t), n, f)
    BY <1>2, <1>4, RegisterAdds
  <2>2. D!Becomes(c, DirOf(Registered(t, n, f))) /\ todo'[c] = Complain(CanRegister(t, n))
    BY <1>3, CallBecomes
  <2>3. D!CanAdd(c, n)
    BY <1>1, <1>4, SeenFromTable
  <2>4. D!Add(c, n, f)
    BY <1>1, <2>1, <2>2, <2>3, SeenFromTable
  <2>5. todo'[c] = <<>>
    BY <1>4, <2>2 DEF Complain
  <2> QED
    BY <2>3, <2>4, <2>5
<1>5. CASE ~CanRegister(t, n)
  <2>1. UNCHANGED D!vars /\ todo'[c] = <<"print">>
    BY <1>1, <1>3, <1>5, CallLeaves DEF Registered, Complain
  <2>2. ~D!CanAdd(c, n)
    BY <1>1, <1>5, SeenFromTable
  <2>3. <<"print">> # <<>>
    OBVIOUS
  <2> QED
    BY <2>1, <2>2, <2>3
<1> QED
  BY <1>4, <1>5

\* A known name that is unregistered is gone, and only that one; an unknown name is
\* refused.
LEMMA UnregisterPromise ==
  ASSUME TablesOK, NEW c \in Core, NEW n \in Name, Unregister(c, n)
  PROVE IF D!Knows(c, n) THEN D!Remove(c, n) /\ todo'[c] = <<>>
        ELSE UNCHANGED D!vars /\ todo'[c] # <<>>
<1>1. PICK t : t = tab[c]
  OBVIOUS
<1>2. GoodTable(t)
  BY <1>1 DEF TablesOK
<1>3. Does(c, Unregistered(t, n), Complain(Known(t, n)))
  BY <1>1 DEF Unregister
<1>4. CASE Known(t, n)
  <2>1. DirOf(Unregistered(t, n)) = [x \in NamesOf(t) \ {n} |-> DirOf(t)[x]]
    BY <1>2, <1>4, UnregisterRemoves
  <2>2. D!Becomes(c, DirOf(Unregistered(t, n))) /\ todo'[c] = Complain(Known(t, n))
    BY <1>3, CallBecomes
  <2>3. n \in NamesOf(t)
    BY <1>4, KnownNames
  <2>4. D!Remove(c, n)
    BY <1>1, <2>1, <2>2, <2>3, SeenFromTable
  <2>5. D!Knows(c, n)
    BY <1>1, <1>4, SeenFromTable
  <2>6. todo'[c] = <<>>
    BY <1>4, <2>2 DEF Complain
  <2> QED
    BY <2>4, <2>5, <2>6
<1>5. CASE ~Known(t, n)
  <2>1. UNCHANGED D!vars /\ todo'[c] = <<"print">>
    BY <1>1, <1>3, <1>5, CallLeaves DEF Unregistered, Complain
  <2>2. <<"print">> # <<>>
    OBVIOUS
  <2>3. ~D!Knows(c, n)
    BY <1>1, <1>5, SeenFromTable
  <2> QED
    BY <2>1, <2>2, <2>3
<1> QED
  BY <1>4, <1>5

\* The shell starts with its own commands and no other.
LEMMA ShellInitPromise ==
  ASSUME TablesOK, ShellInit
  PROVE D!Reset(Control, [n \in {help, h} |-> help])
<1> DEFINE t == Registered(Registered([i \in Slots |-> Blank], help, help), h, help)
<1>1. Does(Control, t, <<"print", "loaded">>)
  BY DEF ShellInit
<1>2. DirOf(t) = [n \in {help, h} |-> help]
  BY FreshTable
<1>3. Control \in Core
  BY ConsoleAssumption
<1> HIDE DEF t
<1>4. D!Becomes(Control, DirOf(t))
  BY <1>1, <1>3, CallBecomes
<1> QED
  BY <1>2, <1>4 DEF D!Reset

\* The debug level's command is added when the shell is loaded and has room for a
\* name it does not know; nothing is otherwise.
LEMMA DebugInitPromise ==
  ASSUME TablesOK, NEW c \in Core, DebugInit(c)
  PROVE IF shell_status = 1 /\ D!CanAdd(c, dlevel)
        THEN D!Add(c, dlevel, dlevel) /\ todo'[c] = <<>>
        ELSE UNCHANGED D!vars /\ (shell_status = 1 => todo'[c] # <<>>)
<1>1. PICK t : t = tab[c]
  OBVIOUS
<1>2. GoodTable(t) /\ dlevel \in Name /\ dlevel \in Handlers
  BY <1>1, ConsoleAssumption DEF TablesOK, Handlers
<1>3. CASE shell_status = 1 /\ CanRegister(t, dlevel)
  <2>1. Does(c, Registered(t, dlevel, dlevel), Complain(CanRegister(t, dlevel)))
    BY <1>1, <1>3 DEF DebugInit
  <2>2. /\ D!Becomes(c, DirOf(Registered(t, dlevel, dlevel)))
        /\ todo'[c] = Complain(CanRegister(t, dlevel))
    BY <2>1, CallBecomes
  <2>3. DirOf(Registered(t, dlevel, dlevel)) = D!Extended(DirOf(t), dlevel, dlevel)
    BY <1>2, <1>3, RegisterAdds
  <2>4. D!CanAdd(c, dlevel)
    BY <1>1, <1>2, <1>3, SeenFromTable
  <2>5. D!Add(c, dlevel, dlevel)
    BY <1>1, <1>2, <2>2, <2>3, <2>4, SeenFromTable
  <2>6. todo'[c] = <<>>
    BY <1>3, <2>2 DEF Complain
  <2> QED
    BY <1>3, <2>4, <2>5, <2>6
<1>4. CASE shell_status = 1 /\ ~CanRegister(t, dlevel)
  <2>1. UNCHANGED D!vars /\ todo'[c] = <<"print">>
    BY <1>1, <1>4, CallLeaves DEF DebugInit, Registered, Complain
  <2>2. ~D!CanAdd(c, dlevel)
    BY <1>1, <1>2, <1>4, SeenFromTable
  <2>3. <<"print">> # <<>>
    OBVIOUS
  <2> QED
    BY <2>1, <2>2, <2>3
<1>5. CASE shell_status # 1
  <2>1. UNCHANGED D!vars
    BY <1>5, CallLeaves DEF DebugInit
  <2> QED
    BY <1>5, <2>1
<1> QED
  BY <1>3, <1>4, <1>5

\* Every call keeps the promise of the table: whatever holes unregistering left, a
\* new name is registered unless the table is full, a known name that is
\* unregistered is gone, everything else is refused with a message, and no other
\* core's names change.
THEOREM CommandsKeepPromise == Spec => CallsKeepPromise
<1> DEFINE Promise ==
      /\ \A c \in Core, n \in Name :
           /\ \A f \in Func : Register(c, n, f) =>
                IF D!CanAdd(c, n) THEN D!Add(c, n, f) /\ todo'[c] = <<>>
                ELSE UNCHANGED D!vars /\ todo'[c] # <<>>
           /\ Unregister(c, n) =>
                IF D!Knows(c, n) THEN D!Remove(c, n) /\ todo'[c] = <<>>
                ELSE UNCHANGED D!vars /\ todo'[c] # <<>>
      /\ ShellInit => D!Reset(Control, [n \in {help, h} |-> help])
      /\ \A c \in Core : DebugInit(c) =>
           IF shell_status = 1 /\ D!CanAdd(c, dlevel)
           THEN D!Add(c, dlevel, dlevel) /\ todo'[c] = <<>>
           ELSE UNCHANGED D!vars /\ (shell_status = 1 => todo'[c] # <<>>)
<1>1. CallsKeepPromise <=> D!Init /\ [][Promise]_vars
  BY DEF CallsKeepPromise
<1>2. Init => D!Init
  <2> SUFFICES ASSUME Init, NEW c \in Core PROVE NamesOf(tab[c]) = {}
    BY DEF D!Init
  <2>1. tab[c] = [i \in Slots |-> Blank]
    BY DEF Init
  <2> QED
    BY <2>1, FreshTable
<1>3. TablesOK => Promise
  <2> SUFFICES ASSUME TablesOK PROVE Promise
    OBVIOUS
  <2>1. ASSUME NEW c \in Core, NEW n \in Name, NEW f \in Func, Register(c, n, f)
        PROVE IF D!CanAdd(c, n) THEN D!Add(c, n, f) /\ todo'[c] = <<>>
              ELSE UNCHANGED D!vars /\ todo'[c] # <<>>
    BY <2>1, RegisterPromise
  <2>2. ASSUME NEW c \in Core, NEW n \in Name, Unregister(c, n)
        PROVE IF D!Knows(c, n) THEN D!Remove(c, n) /\ todo'[c] = <<>>
              ELSE UNCHANGED D!vars /\ todo'[c] # <<>>
    BY <2>2, UnregisterPromise
  <2>3. ASSUME ShellInit PROVE D!Reset(Control, [n \in {help, h} |-> help])
    BY <2>3, ShellInitPromise
  <2>4. ASSUME NEW c \in Core, DebugInit(c)
        PROVE IF shell_status = 1 /\ D!CanAdd(c, dlevel)
              THEN D!Add(c, dlevel, dlevel) /\ todo'[c] = <<>>
              ELSE UNCHANGED D!vars /\ (shell_status = 1 => todo'[c] # <<>>)
    BY <2>4, DebugInitPromise
  <2> QED
    BY <2>1, <2>2, <2>3, <2>4
<1> HIDE DEF Promise
<1>4. TablesOK /\ [Next]_vars => [Promise]_vars
  BY <1>3
<1> QED
  BY <1>1, <1>2, <1>4, AlwaysGood, PTL DEF Spec
=============================================================================
