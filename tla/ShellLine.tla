------------------------------ MODULE ShellLine ------------------------------
(***************************************************************************)
(* ewx_shell_run of ewx_shell.c: one call handles one key of the console.  *)
(* The line buffer, the history ring, the recognition of the arrow keys'   *)
(* escape sequences, and what the terminal shows.                          *)
(***************************************************************************)
EXTENDS Integers, Sequences, FiniteSets

CONSTANTS
  Char,     \* printable characters, "[", "A" and "B" among them
  Silent,   \* control characters that the switch does not know, Ctrl-U for one
  History,  \* MAX_HISTORY_CMDS
  MaxLine,  \* bound on a line; CMD_BUF_SIZE - 1 in the code, which no test keeps
  Prompt    \* the prompt as one character of the screen

\* Characters that the shell stores in the line.
Typed == Char \cup Silent

Key == Typed \cup {"enter", "tab", "ctrl_c", "erase", "esc", "nul"}

ASSUME ShellLineAssumption ==
  /\ History \in Nat \ {0}
  /\ MaxLine \in Nat
  /\ {"[", "A", "B"} \subseteq Char
  /\ Char \cap Silent = {}
  /\ Typed \cap {"enter", "tab", "ctrl_c", "erase", "esc", "nul"} = {}
  /\ Prompt \notin Typed

VARIABLES
  line,      \* shell_cmd_buf up to shell_cmd_index
  ring,      \* history_shell_cmd
  first,     \* first_history_index
  last,      \* last_history_index
  current,   \* current_history_index
  valid,     \* valid_history_entry
  browsing,  \* browsing_history
  escaped,   \* escape_pressed
  seqlen,    \* escape_seq_len
  screen,    \* the terminal's current line, from the prompt on
  unseen     \* history: a silent character has come into the line since the prompt

history == <<ring, first, last, valid>>
terminal == <<screen, unseen>>
vars == <<line, ring, first, last, current, valid, browsing, escaped, seqlen, screen, unseen>>

Index == 0 .. History - 1

Init ==
  /\ line = <<>>
  /\ ring = [i \in Index |-> <<>>]
  /\ first = 0
  /\ last = History - 1
  /\ current = 0
  /\ valid = 0
  /\ browsing = FALSE
  /\ escaped = FALSE
  /\ seqlen = 0
  /\ screen = <<Prompt>>
  /\ unseen = FALSE

\* printf("\b \b"), n times.
RubOut(s, n) == SubSeq(s, 1, IF n <= Len(s) THEN Len(s) - n ELSE 0)

\* What the terminal shows of s: a silent character takes no column.
Shown(s) ==
  LET seen == {i \in DOMAIN s : s[i] \in Char}
  IN [k \in 1 .. Cardinality(seen) |->
        s[CHOOSE i \in seen : Cardinality({j \in seen : j <= i}) = k]]

\* No silent character is in s.
AllShown(s) == \A i \in DOMAIN s : s[i] \in Char

\* A newline and the prompt.
FreshLine == line' = <<>> /\ screen' = <<Prompt>> /\ unseen' = FALSE

EndEscape == escaped' = FALSE /\ UNCHANGED seqlen

-----------------------------------------------------------------------------
\* Mutant: the index does not wrap.
AfterNoWrap(i) == i + 1

After(i) == (i + 1) % History
Before(i) == (i - 1 + History) % History

\* The command is the one that was run before.
Repeats(s) == valid > 0 /\ ring[last] = s

Record(s) ==
  /\ last' = After(last)
  /\ IF valid < History
     THEN valid' = valid + 1 /\ UNCHANGED first
     ELSE first' = After(first) /\ UNCHANGED valid
  /\ ring' = [ring EXCEPT ![last'] = s]

\* Mutant: running a command does not end the browsing.
EnterBrowsing ==
  /\ FreshLine
  /\ EndEscape
  /\ IF line = <<>> \/ Repeats(line) THEN UNCHANGED history ELSE Record(line)
  /\ UNCHANGED <<current, browsing>>

\* Enter: execute_cmd works on a copy of the line, and what the command prints
\* comes before the new prompt.
Enter ==
  /\ FreshLine
  /\ EndEscape
  /\ IF line = <<>> THEN UNCHANGED <<history, browsing>>
     ELSE /\ browsing' = FALSE
          /\ IF Repeats(line) THEN UNCHANGED history ELSE Record(line)
  /\ UNCHANGED current

CtrlC == FreshLine /\ EndEscape /\ UNCHANGED <<history, current, browsing>>

\* TAB rings the bell; a NUL only ends an escape sequence.
Ignored == EndEscape /\ UNCHANGED <<line, terminal, history, current, browsing>>

Erase ==
  /\ EndEscape
  /\ IF line = <<>> THEN UNCHANGED <<line, screen>>
     ELSE line' = RubOut(line, 1) /\ screen' = RubOut(screen, 1)
  /\ UNCHANGED <<unseen, history, current, browsing>>

Escape ==
  /\ escaped' = TRUE
  /\ seqlen' = 0
  /\ UNCHANGED <<line, terminal, history, current, browsing>>

\* Any other character is stored and put out, also when the terminal shows
\* nothing for it.  Line 330 has no bound of its own: MaxLine is the user's.
Echo(ch) ==
  /\ ~escaped
  /\ Len(line) < MaxLine
  /\ line' = Append(line, ch)
  /\ IF ch \in Char THEN screen' = Append(screen, ch) /\ UNCHANGED unseen
     ELSE unseen' = TRUE /\ UNCHANGED screen
  /\ UNCHANGED <<history, current, browsing, escaped, seqlen>>

-----------------------------------------------------------------------------
(* The characters of an escape sequence are not part of the line.            *)

\* Mutant: the line on the screen is not rubbed out first.
RecallOver(i) ==
  /\ current' = i
  /\ line' = ring[i]
  /\ screen' = screen \o Shown(ring[i])
  /\ unseen' = (unseen \/ ~AllShown(ring[i]))

Recall(i) ==
  /\ current' = i
  /\ line' = ring[i]
  /\ screen' = RubOut(screen, Len(line)) \o Shown(ring[i])
  /\ unseen' = (unseen \/ ~AllShown(ring[i]))

\* Mutant: going up stops at the start of the array.
OlderInArray == current # 0

\* There is a command before the one recalled last.
Older == current # first

ArrowUp ==
  IF ~browsing
  THEN IF valid > 0 THEN Recall(last) /\ browsing' = TRUE
       ELSE UNCHANGED <<line, terminal, current, browsing>>
  ELSE /\ IF Older THEN Recall(Before(current))
          ELSE UNCHANGED <<line, terminal, current>>
       /\ UNCHANGED browsing

ArrowDown ==
  /\ IF browsing /\ current # last THEN Recall(After(current))
     ELSE UNCHANGED <<line, terminal, current>>
  /\ UNCHANGED browsing

\* The character after ESC.
Second(ch) ==
  /\ seqlen = 0
  /\ seqlen' = 1
  /\ escaped' = (ch = "[")
  /\ UNCHANGED <<line, terminal, history, current, browsing>>

\* Mutant: the arrow keys do not end their sequence.
ThirdOpen(ch) ==
  /\ seqlen = 1
  /\ seqlen' = 2
  /\ IF ch = "A" THEN ArrowUp /\ UNCHANGED escaped
     ELSE IF ch = "B" THEN ArrowDown /\ UNCHANGED escaped
     ELSE escaped' = FALSE /\ UNCHANGED <<line, terminal, current, browsing>>
  /\ UNCHANGED history

\* The character after ESC [.
Third(ch) ==
  /\ seqlen = 1
  /\ seqlen' = 2
  /\ escaped' = FALSE
  /\ IF ch = "A" THEN ArrowUp
     ELSE IF ch = "B" THEN ArrowDown
     ELSE UNCHANGED <<line, terminal, current, browsing>>
  /\ UNCHANGED history

\* Without a key waiting (-1) the call changes nothing.
Press(key) ==
  \/ key = "enter" /\ Enter
  \/ key = "ctrl_c" /\ CtrlC
  \/ key \in {"tab", "nul"} /\ Ignored
  \/ key = "erase" /\ Erase
  \/ key = "esc" /\ Escape
  \/ key \in Typed /\ Echo(key)
  \/ key \in Typed /\ escaped /\ (Second(key) \/ Third(key))

Next == \E key \in Key : Press(key)

Spec == Init /\ [][Next]_vars
=============================================================================
