--------------------------- MODULE ShellLineProps ---------------------------
(* The properties of ShellLine, and its refinement of CommandLog.            *)
EXTENDS ShellLine

Line == UNION {[1 .. n -> Typed] : n \in 0 .. MaxLine}

\* Types: above all the indices stay inside the ring.
TypeOK ==
  /\ line \in Line
  /\ ring \in [Index -> Line]
  /\ {first, last, current} \subseteq Index
  /\ valid \in 0 .. History
  /\ {browsing, escaped, unseen} \subseteq BOOLEAN
  /\ seqlen \in 0 .. 2

\* The commands in the ring, oldest first.
Recorded == [i \in 1 .. valid |-> ring[(first + i - 1) % History]]

\* What the user sees behind the prompt is the line that Enter will execute:
\* echo, erasure and recall keep buffer and terminal in step, until a control
\* character that shows nothing is stored or recalled.  From then on they
\* disagree, whatever is erased or recalled after it, until the next prompt.
ScreenShowsLine == (screen = <<Prompt>> \o line) <=> ~unseen

\* An escape sequence is given up after at most two characters, so the buffer
\* for it (16 bytes) is never exceeded and the user's keys come through again.
EscapeEnds == escaped => seqlen <= 1

\* The place, among the commands recorded, of the one recalled last.
Position == IF browsing THEN 1 + ((current - first + History) % History) ELSE 0

Log == INSTANCE CommandLog WITH
  Char <- Typed,
  log <- Recorded,
  at <- Position,
  Limit <- History

\* The ring and its four indices are a list of the last commands, and the
\* arrow keys move along that list and stop at its ends.
KeepsLog == Log!Spec

\* Every arrow key moves by one command, also across the ends of the array,
\* unless the list ends there: no recorded command is out of reach.
ArrowsMove ==
  [][escaped /\ seqlen = 1 =>
       /\ Press("A") => Position' = IF Position = 0 THEN valid
                                    ELSE IF Position > 1 THEN Position - 1 ELSE 1
       /\ Press("B") => Position' = IF Position \in 1 .. valid - 1
                                    THEN Position + 1 ELSE Position]_vars
=============================================================================
