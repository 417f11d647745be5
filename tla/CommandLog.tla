----------------------------- MODULE CommandLog -----------------------------
(***************************************************************************)
(* What the shell's user sees: a line to edit and the last Limit commands, *)
(* oldest first, without the same command twice in a row.  at is the       *)
(* command that was recalled last, 0 before any was.                       *)
(***************************************************************************)
EXTENDS Integers, Sequences

CONSTANTS Char, Limit

VARIABLES line, log, at

vars == <<line, log, at>>

Init == line = <<>> /\ log = <<>> /\ at = 0

Type(ch) == line' = Append(line, ch) /\ UNCHANGED <<log, at>>

Erase ==
  /\ line # <<>>
  /\ line' = SubSeq(line, 1, Len(line) - 1)
  /\ UNCHANGED <<log, at>>

\* Ctrl-C, or Enter on an empty line: the recalled command stays current.
Clear == line' = <<>> /\ UNCHANGED <<log, at>>

Newest(s) == s # <<>> /\ log # <<>> /\ log[Len(log)] = s

Run ==
  /\ line # <<>>
  /\ line' = <<>>
  /\ at' = 0
  /\ log' = IF Newest(line) THEN log
            ELSE IF Len(log) < Limit THEN Append(log, line)
            ELSE Append(Tail(log), line)

Recall(i) ==
  /\ i \in 1 .. Len(log)
  /\ at' = i
  /\ line' = log[i]
  /\ UNCHANGED log

Up == IF at = 0 THEN Recall(Len(log)) ELSE Recall(at - 1)

Down == at # 0 /\ Recall(at + 1)

Next == Erase \/ Clear \/ Run \/ Up \/ Down \/ \E ch \in Char : Type(ch)

Spec == Init /\ [][Next]_vars
=============================================================================
