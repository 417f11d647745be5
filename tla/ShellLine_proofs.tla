-------------------------- MODULE ShellLine_proofs --------------------------
(***************************************************************************)
(* For any size of the history and any bound on lines: the indices stay in *)
(* the ring, the screen shows the line exactly as long as no silent        *)
(* character was stored, escape sequences end, and the ring is the list of *)
(* commands of CommandLog.                                                 *)
(***************************************************************************)
EXTENDS ShellLineProps, SequenceTheorems, FiniteSetTheorems, TLAPS

\* An index that has passed the end of the array at most once.
Wrapped(i) == IF i < History THEN i ELSE i - History

\* The ring fills from the start of the array; last is its newest entry.
RingShape ==
  /\ valid < History => first = 0
  /\ last = IF valid = 0 THEN History - 1 ELSE Wrapped(first + valid - 1)

\* Who browses stands on a recorded command.
Browsed == browsing => valid > 0 /\ (valid < History => current < valid)

\* A sequence of whatever elements.
Sequenced(s) == \E S : s \in Seq(S)

\* The terminal shows the line, or it is behind by a column at least.
InStep ==
  /\ Sequenced(screen)
  /\ unseen \in BOOLEAN
  /\ IF unseen THEN Len(screen) <= Len(line) ELSE screen = <<Prompt>> \o line

Inv == TypeOK /\ EscapeEnds /\ InStep /\ RingShape /\ Browsed

-----------------------------------------------------------------------------
\* One step along the ring, and the index of a place in the list.
LEMMA Indices ==
  /\ \A i \in Index : After(i) = Wrapped(i + 1) /\ After(i) \in Index
  /\ \A i \in Index : Before(i) = (IF i = 0 THEN History - 1 ELSE i - 1) /\ Before(i) \in Index
  /\ \A i \in 0 .. 2 * History - 1 : i % History = Wrapped(i) /\ Wrapped(i) \in Index
<1>1. History \in Nat \ {0}
  BY ShellLineAssumption
<1>2. ASSUME NEW i \in 0 .. 2 * History - 1
      PROVE  i % History = Wrapped(i) /\ Wrapped(i) \in Index
  <2>1. CASE i < History
    BY <1>1, <2>1 DEF Wrapped, Index
  <2>2. CASE i >= History
    BY <1>1, <2>2 DEF Wrapped, Index
  <2> QED
    BY <1>1, <2>1, <2>2
<1>3. ASSUME NEW i \in Index PROVE After(i) = Wrapped(i + 1) /\ After(i) \in Index
  <2>1. i + 1 \in 0 .. 2 * History - 1
    BY <1>1 DEF Index
  <2> QED
    BY <1>2, <2>1 DEF After
<1>4. ASSUME NEW i \in Index
      PROVE  Before(i) = (IF i = 0 THEN History - 1 ELSE i - 1) /\ Before(i) \in Index
  <2>1. i - 1 + History \in 0 .. 2 * History - 1
    BY <1>1 DEF Index
  <2>2. Before(i) = Wrapped(i - 1 + History)
    BY <1>2, <2>1 DEF Before
  <2> QED
    BY <1>1, <2>2 DEF Wrapped, Index
<1> QED
  BY <1>2, <1>3, <1>4

\* Lines are the sequences of characters up to the bound.
LEMMA Lines == Line = {s \in Seq(Typed) : Len(s) <= MaxLine}
<1>1. ASSUME NEW n \in 0 .. MaxLine, NEW s \in [1 .. n -> Typed]
      PROVE  s \in Seq(Typed) /\ Len(s) <= MaxLine
  BY ShellLineAssumption
<1>2. ASSUME NEW s \in Seq(Typed), Len(s) <= MaxLine
      PROVE  \E n \in 0 .. MaxLine : s \in [1 .. n -> Typed]
  <2>1. Len(s) \in 0 .. MaxLine /\ s \in [1 .. Len(s) -> Typed]
    BY <1>2, ShellLineAssumption
  <2> QED
    BY <2>1
<1> QED
  BY <1>1, <1>2 DEF Line

-----------------------------------------------------------------------------
(* What the terminal shows after echo, erasure and recall.                   *)

\* What is behind the prompt.
LEMMA Behind ==
  ASSUME NEW s \in Seq(Typed)
  PROVE  /\ <<Prompt>> \o s \in Seq(Typed \cup {Prompt})
         /\ Len(<<Prompt>> \o s) = Len(s) + 1
         /\ (<<Prompt>> \o s)[1] = Prompt
         /\ \A i \in 1 .. Len(s) : (<<Prompt>> \o s)[i + 1] = s[i]
<1> DEFINE S == Typed \cup {Prompt}
<1>1. s \in Seq(S) /\ <<Prompt>> \in Seq(S) /\ Len(<<Prompt>>) = 1 /\ <<Prompt>>[1] = Prompt
  OBVIOUS
<1> HIDE DEF S
<1>2. /\ <<Prompt>> \o s \in Seq(S)
      /\ Len(<<Prompt>> \o s) = 1 + Len(s)
      /\ \A i \in 1 .. 1 + Len(s) :
           (<<Prompt>> \o s)[i] = IF i <= 1 THEN <<Prompt>>[i] ELSE s[i - 1]
  BY <1>1, ConcatProperties
<1>3. Len(s) \in Nat
  BY <1>1, LenProperties
<1> QED
  BY <1>1, <1>2, <1>3 DEF S

\* A character echoed behind the line.
LEMMA Echoed ==
  ASSUME NEW s \in Seq(Typed), NEW ch \in Typed
  PROVE  Append(<<Prompt>> \o s, ch) = <<Prompt>> \o Append(s, ch)
<1> DEFINE S == Typed \cup {Prompt}
           t == <<Prompt>> \o s
           u == Append(s, ch)
<1>1. /\ u \in Seq(Typed) /\ Len(u) = Len(s) + 1 /\ u[Len(u)] = ch
      /\ \A i \in 1 .. Len(s) : u[i] = s[i]
  OBVIOUS
<1>2. /\ t \in Seq(S) /\ Len(t) = Len(s) + 1 /\ t[1] = Prompt
      /\ \A i \in 1 .. Len(s) : t[i + 1] = s[i]
  BY Behind
<1>3. ch \in S /\ Len(s) \in Nat
  OBVIOUS
<1> HIDE DEF S, t, u
<1>4. /\ <<Prompt>> \o u \in Seq(S) /\ Len(<<Prompt>> \o u) = Len(s) + 2
      /\ (<<Prompt>> \o u)[1] = Prompt
      /\ \A i \in 1 .. Len(u) : (<<Prompt>> \o u)[i + 1] = u[i]
  BY <1>1, <1>3, Behind DEF S
<1>5. /\ Append(t, ch) \in Seq(S) /\ Len(Append(t, ch)) = Len(s) + 2
      /\ \A i \in 1 .. Len(t) : Append(t, ch)[i] = t[i]
      /\ Append(t, ch)[Len(s) + 2] = ch
  BY <1>2, <1>3
<1>6. ASSUME NEW i \in 1 .. Len(s) + 2 PROVE Append(t, ch)[i] = (<<Prompt>> \o u)[i]
  <2>1. CASE i = 1
    BY <1>2, <1>3, <1>4, <1>5, <2>1
  <2>2. CASE i = Len(s) + 2
    <3>1. (<<Prompt>> \o u)[Len(u) + 1] = u[Len(u)]
      BY <1>1, <1>3, <1>4
    <3> QED
      BY <1>1, <1>3, <1>5, <2>2, <3>1
  <2>3. CASE i \in 2 .. Len(s) + 1
    <3> DEFINE j == i - 1
    <3>1. j \in 1 .. Len(s) /\ i = j + 1
      BY <1>3, <2>3
    <3>2. t[j + 1] = s[j] /\ (<<Prompt>> \o u)[j + 1] = u[j] /\ u[j] = s[j]
      BY <1>1, <1>2, <1>3, <1>4, <3>1
    <3>3. Append(t, ch)[i] = t[i]
      BY <1>2, <1>3, <1>5, <2>3
    <3> QED
      BY <3>1, <3>2, <3>3
  <2>4. i = 1 \/ i = Len(s) + 2 \/ i \in 2 .. Len(s) + 1
    BY <1>3
  <2> QED
    BY <2>1, <2>2, <2>3, <2>4, Zenon
<1>7. Append(t, ch) = <<Prompt>> \o u
  BY <1>4, <1>5, <1>6, SeqEqual
<1> QED
  BY <1>7 DEF t, u

\* The last character rubbed out on the screen and in the line.
LEMMA RubbedOut ==
  ASSUME NEW s \in Seq(Typed), s # <<>>
  PROVE  /\ RubOut(<<Prompt>> \o s, 1) = <<Prompt>> \o RubOut(s, 1)
         /\ RubOut(s, 1) = SubSeq(s, 1, Len(s) - 1)
         /\ RubOut(s, 1) \in Seq(Typed) /\ Len(RubOut(s, 1)) = Len(s) - 1
<1> DEFINE S == Typed \cup {Prompt}
           t == <<Prompt>> \o s
           u == RubOut(s, 1)
           v == RubOut(t, 1)
<1>1. Len(s) \in Nat /\ Len(s) >= 1
  OBVIOUS
<1>2. u = SubSeq(s, 1, Len(s) - 1)
  BY <1>1 DEF RubOut
<1>3. /\ u \in Seq(Typed) /\ Len(u) = Len(s) - 1
      /\ \A i \in 1 .. Len(s) - 1 : u[i] = s[i]
  BY <1>1, <1>2
<1>4. /\ t \in Seq(S) /\ Len(t) = Len(s) + 1 /\ t[1] = Prompt
      /\ \A i \in 1 .. Len(s) : t[i + 1] = s[i]
  BY Behind
<1>5. v = SubSeq(t, 1, Len(s))
  BY <1>1, <1>4 DEF RubOut
<1> HIDE DEF S, t, u, v
<1>6. /\ v \in Seq(S) /\ Len(v) = Len(s)
      /\ \A i \in 1 .. Len(s) : v[i] = t[i]
  BY <1>1, <1>4, <1>5
<1>7. /\ <<Prompt>> \o u \in Seq(S) /\ Len(<<Prompt>> \o u) = Len(s)
      /\ (<<Prompt>> \o u)[1] = Prompt
      /\ \A i \in 1 .. Len(u) : (<<Prompt>> \o u)[i + 1] = u[i]
  BY <1>1, <1>3, Behind DEF S
<1>8. ASSUME NEW i \in 1 .. Len(s) PROVE v[i] = (<<Prompt>> \o u)[i]
  <2>1. CASE i = 1
    BY <1>1, <1>4, <1>6, <1>7, <2>1
  <2>2. CASE i \in 2 .. Len(s)
    <3> DEFINE j == i - 1
    <3>1. j \in 1 .. Len(s) - 1 /\ j \in 1 .. Len(s) /\ j \in 1 .. Len(u) /\ i = j + 1
      BY <1>1, <1>3, <2>2
    <3>2. t[j + 1] = s[j] /\ (<<Prompt>> \o u)[j + 1] = u[j] /\ u[j] = s[j]
      BY <1>3, <1>4, <1>7, <3>1
    <3> QED
      BY <1>6, <3>1, <3>2
  <2>3. i = 1 \/ i \in 2 .. Len(s)
    BY <1>1
  <2> QED
    BY <2>1, <2>2, <2>3, Zenon
<1>9. v = <<Prompt>> \o u
  BY <1>1, <1>6, <1>7, <1>8, SeqEqual
<1> QED
  BY <1>2, <1>3, <1>9 DEF t, u, v

\* The whole line rubbed out.
LEMMA Cleared ==
  ASSUME NEW s \in Seq(Typed)
  PROVE  RubOut(<<Prompt>> \o s, Len(s)) = <<Prompt>>
<1> DEFINE S == Typed \cup {Prompt}
           t == <<Prompt>> \o s
<1>1. t \in Seq(S) /\ Len(t) = Len(s) + 1 /\ t[1] = Prompt /\ Len(s) \in Nat
  BY Behind
<1> HIDE DEF t
<1>2. RubOut(t, Len(s)) = SubSeq(t, 1, 1)
  BY <1>1 DEF RubOut
<1>3. SubSeq(t, 1, 1) = <<Prompt>>
  <2> DEFINE a == SubSeq(t, 1, 1)
             b == <<Prompt>>
  <2>1. a \in Seq(S) /\ Len(a) = 1 /\ a[1] = t[1]
    BY <1>1
  <2>2. b \in Seq(S) /\ Len(b) = 1 /\ b[1] = Prompt
    OBVIOUS
  <2> HIDE DEF S, a, b
  <2>3. \A i \in 1 .. Len(a) : a[i] = b[i]
    BY <1>1, <2>1, <2>2
  <2>4. a = b
    BY <2>1, <2>2, <2>3, SeqEqual
  <2> QED
    BY <2>4 DEF a, b
<1> QED
  BY <1>2, <1>3 DEF t

-----------------------------------------------------------------------------
(* What it shows once a silent character was stored: at least a column less. *)

\* Length of two sequences in a row.
LEMMA Joined ==
  ASSUME NEW s, NEW t, Sequenced(s), Sequenced(t)
  PROVE  Sequenced(s \o t) /\ Len(s \o t) = Len(s) + Len(t)
<1>1. PICK S : s \in Seq(S)
  BY DEF Sequenced
<1>2. PICK T : t \in Seq(T)
  BY DEF Sequenced
<1>3. s \in Seq(S \cup T) /\ t \in Seq(S \cup T)
  BY <1>1, <1>2
<1>4. s \o t \in Seq(S \cup T) /\ Len(s \o t) = Len(s) + Len(t)
  BY <1>3, ConcatProperties
<1> QED
  BY <1>4 DEF Sequenced

\* Length after one more element.
LEMMA Longer ==
  ASSUME NEW s, NEW e, Sequenced(s)
  PROVE  Sequenced(Append(s, e)) /\ Len(Append(s, e)) = Len(s) + 1
<1>1. PICK S : s \in Seq(S)
  BY DEF Sequenced
<1>2. s \in Seq(S \cup {e}) /\ e \in S \cup {e}
  BY <1>1
<1>3. Append(s, e) \in Seq(S \cup {e}) /\ Len(Append(s, e)) = Len(s) + 1
  BY <1>2
<1> QED
  BY <1>3 DEF Sequenced

\* Length after rubbing out: a terminal stops at its first column.
LEMMA Shorter ==
  ASSUME NEW s, NEW n \in Nat, Sequenced(s)
  PROVE  /\ Sequenced(RubOut(s, n)) /\ Len(s) \in Nat
         /\ Len(RubOut(s, n)) = IF n <= Len(s) THEN Len(s) - n ELSE 0
<1>1. PICK S : s \in Seq(S)
  BY DEF Sequenced
<1>2. Len(s) \in Nat
  BY <1>1
<1> DEFINE m == IF n <= Len(s) THEN Len(s) - n ELSE 0
<1>3. m \in 0 .. Len(s)
  BY <1>2
<1> HIDE DEF m
<1>4. SubSeq(s, 1, m) \in Seq(S) /\ Len(SubSeq(s, 1, m)) = m
  BY <1>1, <1>2, <1>3
<1>5. RubOut(s, n) = SubSeq(s, 1, m)
  BY DEF RubOut, m
<1> QED
  BY <1>2, <1>4, <1>5 DEF Sequenced, m

\* What is shown of a line: all of it, or less than its length.
LEMMA Showing ==
  ASSUME NEW s \in Seq(Typed)
  PROVE  /\ Sequenced(Shown(s)) /\ Len(Shown(s)) \in Nat
         /\ AllShown(s) => Shown(s) = s
         /\ ~AllShown(s) => Len(Shown(s)) < Len(s)
<1> DEFINE seen == {i \in DOMAIN s : s[i] \in Char}
           n == Len(s)
           size == Cardinality(seen)
           place(k) == CHOOSE i \in seen : Cardinality({j \in seen : j <= i}) = k
<1>1. n \in Nat /\ DOMAIN s = 1 .. n /\ s = [i \in 1 .. n |-> s[i]]
  OBVIOUS
<1>2. Shown(s) = [k \in 1 .. size |-> s[place(k)]]
  BY Zenon DEF Shown
<1>3. IsFiniteSet(1 .. n) /\ Cardinality(1 .. n) = n
  <2>1. 1 \in Int /\ n \in Int
    BY <1>1
  <2> HIDE DEF n
  <2>2. /\ IsFiniteSet(1 .. n)
        /\ Cardinality(1 .. n) = IF 1 > n THEN 0 ELSE n - 1 + 1
    BY <2>1, FS_Interval, Zenon
  <2> QED
    BY <1>1, <2>2
<1>4. seen \subseteq 1 .. n
  BY <1>1
<1>5. size \in Nat /\ size <= n /\ (size = n => seen = 1 .. n)
  <2> HIDE DEF seen
  <2>1. /\ IsFiniteSet(seen) /\ size <= Cardinality(1 .. n)
        /\ size = Cardinality(1 .. n) => seen = 1 .. n
    BY <1>3, <1>4, FS_Subset
  <2>2. size \in Nat
    BY <2>1, FS_CardinalityType
  <2> QED
    BY <1>3, <2>1, <2>2
<1>6. Sequenced(Shown(s)) /\ Len(Shown(s)) = size
  <2> DEFINE S == {s[place(k)] : k \in 1 .. size}
             f == [k \in 1 .. size |-> s[place(k)]]
  <2>1. f \in [1 .. size -> S]
    BY Zenon
  <2>2. Shown(s) = f
    BY <1>2, Zenon
  <2> HIDE DEF S, f, size
  <2>3. f \in Seq(S) /\ Len(f) = size
    BY <1>5, <2>1
  <2> QED
    BY <2>2, <2>3 DEF Sequenced
<1>7. ASSUME AllShown(s) PROVE Shown(s) = s
  <2>1. seen = 1 .. n
    BY <1>1, <1>7 DEF AllShown
  <2>2. size = n
    BY <1>3, <2>1
  <2>3. ASSUME NEW k \in 1 .. n PROVE place(k) = k
    <3>1. ASSUME NEW i \in seen PROVE Cardinality({j \in seen : j <= i}) = i
      <4>1. i \in 1 .. n
        BY <2>1
      <4>2. {j \in seen : j <= i} = 1 .. i
        BY <1>1, <2>1, <4>1
      <4>3. Cardinality(1 .. i) = i
        BY <1>1, <4>1, FS_Interval
      <4> QED
        BY <4>2, <4>3
    <3>2. k \in seen
      BY <2>1
    <3>3. place(k) \in seen /\ Cardinality({j \in seen : j <= place(k)}) = k
      BY <3>1, <3>2, Zenon
    <3> QED
      BY <3>1, <3>3, Zenon
  <2> HIDE DEF place, size
  <2> QED
    BY <1>1, <1>2, <2>2, <2>3
<1>8. ASSUME ~AllShown(s) PROVE size < n
  <2>1. seen # 1 .. n
    BY <1>1, <1>8 DEF AllShown
  <2> HIDE DEF seen, size
  <2> QED
    BY <1>1, <1>5, <2>1
<1> QED
  BY <1>5, <1>6, <1>7, <1>8, Zenon

\* The line behind the prompt is a column longer.
LEMMA Prompted ==
  ASSUME NEW s \in Seq(Typed)
  PROVE  /\ Sequenced(<<Prompt>> \o s)
         /\ Len(<<Prompt>> \o s) = Len(s) + 1 /\ Len(s) \in Nat
<1>1. <<Prompt>> \o s \in Seq(Typed \cup {Prompt}) /\ Len(<<Prompt>> \o s) = Len(s) + 1
  BY Behind
<1> QED
  BY <1>1 DEF Sequenced

\* The screen is a sequence of at most one column more than the line.
LEMMA Columns ==
  ASSUME Inv
  PROVE  /\ Sequenced(screen) /\ Len(screen) \in Nat
         /\ line \in Seq(Typed) /\ Len(line) \in Nat
         /\ Len(screen) <= Len(line) + 1
         /\ unseen => Len(screen) <= Len(line)
<1>1. line \in Seq(Typed)
  BY Lines DEF Inv, TypeOK
<1>2. Sequenced(screen) /\ Len(screen) \in Nat
  BY Shorter DEF Inv, InStep
<1>3. Len(<<Prompt>> \o line) = Len(line) + 1 /\ Len(line) \in Nat
  BY <1>1, Prompted
<1> QED
  BY <1>1, <1>2, <1>3 DEF Inv, InStep

-----------------------------------------------------------------------------
(* The list of commands and the place in it.                                 *)

\* The v entries of ring r from index f on.
Entries(r, f, v) == [i \in 1 .. v |-> r[(f + i - 1) % History]]

\* They are lines, and where they come from.
LEMMA RingRead ==
  ASSUME NEW r \in [Index -> Line], NEW f \in Index, NEW v \in 0 .. History
  PROVE  /\ Entries(r, f, v) \in Seq(Line) /\ Len(Entries(r, f, v)) = v
         /\ \A i \in 1 .. v : /\ Entries(r, f, v)[i] = r[Wrapped(f + i - 1)]
                               /\ Wrapped(f + i - 1) \in Index
<1>1. History \in Nat \ {0} /\ f \in 0 .. History - 1
  BY ShellLineAssumption DEF Index
<1>2. \A i \in 1 .. v : f + i - 1 \in 0 .. 2 * History - 1
  BY <1>1
<1>3. \A i \in 1 .. v : /\ (f + i - 1) % History = Wrapped(f + i - 1)
                        /\ Wrapped(f + i - 1) \in Index
  BY <1>2, Indices
<1>4. Entries(r, f, v) \in [1 .. v -> Line]
  BY <1>3 DEF Entries
<1>5. Entries(r, f, v) \in Seq(Line) /\ Len(Entries(r, f, v)) = v
  BY <1>1, <1>4
<1>6. \A i \in 1 .. v : Entries(r, f, v)[i] = r[Wrapped(f + i - 1)]
  BY <1>3 DEF Entries
<1> QED
  BY <1>3, <1>5, <1>6

\* The list has the entries of the ring in order; the newest one is at last.
LEMMA ListOfRing ==
  ASSUME Inv
  PROVE  /\ Recorded \in Seq(Line) /\ Len(Recorded) = valid
         /\ \A i \in 1 .. valid : Recorded[i] = ring[Wrapped(first + i - 1)]
         /\ valid > 0 => Recorded[valid] = ring[last]
<1>1. valid \in 0 .. History /\ first \in Index /\ ring \in [Index -> Line]
  BY DEF Inv, TypeOK
<1>2. /\ Recorded \in Seq(Line) /\ Len(Recorded) = valid
      /\ \A i \in 1 .. valid : Recorded[i] = ring[Wrapped(first + i - 1)]
  <2>1. Recorded = Entries(ring, first, valid)
    BY DEF Recorded, Entries
  <2> QED
    BY <1>1, <2>1, RingRead, Zenon
<1>3. valid > 0 => Recorded[valid] = ring[last]
  BY <1>1, <1>2, ShellLineAssumption DEF Inv, RingShape
<1> QED
  BY <1>2, <1>3

\* The place of the command recalled last.
LEMMA Places ==
  ASSUME Inv
  PROVE  /\ browsing => /\ Position = (IF current >= first THEN current - first + 1
                                       ELSE current - first + History + 1)
                        /\ Position \in 1 .. valid
                        /\ Position = 1 <=> current = first
                        /\ Position = valid <=> current = last
         /\ ~browsing => Position = 0
<1>1. /\ History \in Nat \ {0} /\ valid \in 0 .. History /\ first \in 0 .. History - 1
      /\ last \in 0 .. History - 1 /\ current \in 0 .. History - 1
  BY ShellLineAssumption DEF Inv, TypeOK, Index
<1>2. current - first + History \in 0 .. 2 * History - 1
  BY <1>1
<1>3. (current - first + History) % History =
        IF current >= first THEN current - first ELSE current - first + History
  BY <1>1, <1>2, Indices DEF Wrapped
<1>4. CASE browsing
  BY <1>1, <1>3, <1>4 DEF Inv, RingShape, Browsed, Wrapped, Position
<1>5. CASE ~browsing
  BY <1>5 DEF Position
<1> QED
  BY <1>4, <1>5

\* Initially the list is empty.
LEMMA InitInv == Init => Inv /\ Log!Init
<1> SUFFICES ASSUME Init PROVE Inv /\ Log!Init
  OBVIOUS
<1>1. History \in Nat \ {0} /\ MaxLine \in Nat
  BY ShellLineAssumption
<1>2. <<>> \in Line
  BY <1>1, Lines
<1>3. TypeOK
  <2>1. {browsing, escaped, unseen} \subseteq BOOLEAN
    BY Zenon DEF Init
  <2>2. line \in Line /\ ring \in [Index -> Line]
    BY <1>2, Zenon DEF Init
  <2> QED
    BY <1>1, <2>1, <2>2 DEF Init, TypeOK, Index
<1>4. InStep
  <2>1. <<Prompt>> \in Seq({Prompt})
    OBVIOUS
  <2>2. <<Prompt>> \o <<>> = <<Prompt>>
    BY <2>1, ConcatEmptySeq
  <2> QED
    BY <2>1, <2>2 DEF Init, InStep, Sequenced
<1>5. Inv
  BY <1>1, <1>3, <1>4 DEF Init, Inv, EscapeEnds, RingShape, Browsed
<1>6. Recorded = <<>>
  BY <1>5, ListOfRing DEF Init
<1> QED
  BY <1>5, <1>6, Places DEF Log!Init, Init

-----------------------------------------------------------------------------
(* Keys that leave the list alone.                                           *)

\* The invariant needs to be looked at only where a key changes something.
LEMMA Edits ==
  ASSUME Inv, UNCHANGED <<history, current, browsing>>, line' \in Line,
         InStep', EscapeEnds', escaped' \in BOOLEAN, seqlen' \in 0 .. 2
  PROVE  Inv' /\ UNCHANGED <<Recorded, Position>>
<1>1. UNCHANGED <<ring, first, last, valid, current, browsing>>
  BY DEF history
<1>2. TypeOK'
  BY <1>1 DEF Inv, TypeOK, InStep
<1>3. RingShape' /\ Browsed'
  BY <1>1 DEF Inv, RingShape, Browsed
<1>4. UNCHANGED <<Recorded, Position>>
  BY <1>1 DEF Recorded, Position
<1> QED
  BY <1>2, <1>3, <1>4 DEF Inv

\* The prompt alone shows the empty line.
LEMMA Fresh == FreshLine => line' = <<>> /\ line' \in Line /\ InStep'
<1>1. <<>> \in Line
  BY ShellLineAssumption, Lines
<1>2. <<Prompt>> \in Seq({Prompt})
  OBVIOUS
<1>3. <<Prompt>> \o <<>> = <<Prompt>>
  BY <1>2, ConcatEmptySeq
<1> QED
  BY <1>1, <1>2, <1>3 DEF FreshLine, InStep, Sequenced

\* An escape sequence that ends or starts.
LEMMA Escapes ==
  ASSUME Inv
  PROVE  /\ EndEscape => EscapeEnds' /\ escaped' \in BOOLEAN /\ seqlen' \in 0 .. 2
         /\ Escape => EscapeEnds' /\ escaped' \in BOOLEAN /\ seqlen' \in 0 .. 2
<1>1. seqlen \in 0 .. 2
  BY DEF Inv, TypeOK
<1>2. ASSUME EndEscape PROVE EscapeEnds' /\ escaped' \in BOOLEAN /\ seqlen' \in 0 .. 2
  <2>1. escaped' = FALSE /\ seqlen' = seqlen
    BY <1>2 DEF EndEscape
  <2> QED
    BY <1>1, <2>1, Zenon DEF EscapeEnds
<1>3. ASSUME Escape PROVE EscapeEnds' /\ escaped' \in BOOLEAN /\ seqlen' \in 0 .. 2
  <2>1. escaped' = TRUE /\ seqlen' = 0
    BY <1>3 DEF Escape
  <2>2. escaped' \in BOOLEAN
    BY <2>1, Zenon
  <2> QED
    BY <2>1, <2>2 DEF EscapeEnds
<1> QED
  BY <1>2, <1>3, Zenon

\* Ctrl-C gives the line up.
LEMMA CtrlCStep == ASSUME Inv, CtrlC PROVE Inv' /\ Log!Next
<1>1. Inv' /\ UNCHANGED <<Recorded, Position>> /\ line' = <<>>
  BY Fresh, Escapes, Edits DEF CtrlC
<1> QED
  BY <1>1 DEF Log!Next, Log!Clear

\* Keys that change neither line nor list.
LEMMA SilentStep ==
  ASSUME Inv, Ignored \/ Escape \/ \E ch \in Typed : Second(ch)
  PROVE  Inv' /\ UNCHANGED Log!vars
<1>1. UNCHANGED <<line, terminal, history, current, browsing>>
  BY DEF Ignored, Escape, Second
<1>2. line' \in Line /\ InStep'
  BY <1>1 DEF Inv, TypeOK, InStep, terminal
<1>3. EscapeEnds' /\ escaped' \in BOOLEAN /\ seqlen' \in 0 .. 2
  <2>1. CASE Ignored \/ Escape
    BY <2>1, Escapes, Zenon DEF Ignored
  <2>2. ASSUME NEW ch \in Typed, Second(ch)
        PROVE  EscapeEnds' /\ escaped' \in BOOLEAN /\ seqlen' \in 0 .. 2
    <3>1. escaped' \in BOOLEAN
      BY <2>2, Zenon DEF Second
    <3> QED
      BY <2>2, <3>1 DEF Second, EscapeEnds
  <2> QED
    BY <2>1, <2>2, Zenon
<1>4. Inv' /\ UNCHANGED <<Recorded, Position>>
  BY <1>1, <1>2, <1>3, Edits
<1> QED
  BY <1>1, <1>4 DEF Log!vars

\* A character is echoed.
LEMMA EchoStep == ASSUME Inv, NEW ch \in Typed, Echo(ch) PROVE Inv' /\ Log!Next
<1>1. line \in Seq(Typed) /\ Len(line) < MaxLine /\ MaxLine \in Nat
  BY Lines, ShellLineAssumption DEF Inv, TypeOK, Echo
<1>2. line' \in Line
  <2>1. Append(line, ch) \in Seq(Typed) /\ Len(Append(line, ch)) = Len(line) + 1
    BY <1>1
  <2> QED
    BY <1>1, <2>1, Lines DEF Echo
<1>3. InStep'
  <2>1. Sequenced(screen) /\ line' = Append(line, ch) /\ Len(line') = Len(line) + 1
    BY <1>1, Columns DEF Echo
  <2>2. CASE ch \in Char /\ ~unseen
    <3>1. screen = <<Prompt>> \o line /\ screen' = Append(screen, ch) /\ unseen' = unseen
      BY <2>2 DEF Inv, InStep, Echo
    <3>2. screen' = <<Prompt>> \o line'
      BY <1>1, <2>1, <3>1, Echoed
    <3> QED
      BY <2>1, <2>2, <3>1, <3>2, Longer DEF Inv, InStep
  <2>3. CASE ch \in Char /\ unseen
    <3>1. screen' = Append(screen, ch) /\ unseen' = unseen
      BY <2>3 DEF Echo
    <3>2. Sequenced(screen') /\ Len(screen') = Len(screen) + 1
      BY <2>1, <3>1, Longer
    <3> QED
      BY <1>1, <2>1, <2>3, <3>1, <3>2, Columns DEF Inv, InStep
  <2>4. CASE ch \notin Char
    <3>1. screen' = screen /\ unseen' = TRUE
      BY <2>4 DEF Echo
    <3>2. unseen' \in BOOLEAN
      BY <3>1, Zenon
    <3> QED
      BY <1>1, <2>1, <3>1, <3>2, Columns DEF InStep
  <2> QED
    BY <2>2, <2>3, <2>4, Zenon
<1>4. EscapeEnds' /\ escaped' \in BOOLEAN /\ seqlen' \in 0 .. 2
  BY DEF Inv, TypeOK, EscapeEnds, Echo
<1>5. Inv' /\ UNCHANGED <<Recorded, Position>>
  BY <1>2, <1>3, <1>4, Edits DEF Echo
<1> QED
  BY <1>5 DEF Echo, Log!Next, Log!Type

\* The last character is erased, if there is one.
LEMMA EraseStep == ASSUME Inv, Erase PROVE Inv' /\ [Log!Next]_(Log!vars)
<1>1. line \in Seq(Typed) /\ Len(line) <= MaxLine /\ MaxLine \in Nat
  BY Lines, ShellLineAssumption DEF Inv, TypeOK
<1>2. EscapeEnds' /\ escaped' \in BOOLEAN /\ seqlen' \in 0 .. 2
  BY Escapes DEF Erase
<1>3. CASE line = <<>>
  <2>1. line' = line /\ line' \in Line /\ InStep'
    BY <1>3 DEF Inv, TypeOK, InStep, Erase
  <2> QED
    BY <1>2, <2>1, Edits DEF Erase, Log!vars
<1>4. CASE line # <<>>
  <2>1. line' = SubSeq(line, 1, Len(line) - 1) /\ line' \in Seq(Typed) /\ Len(line') = Len(line) - 1
    BY <1>1, <1>4, RubbedOut DEF Erase
  <2>2. line' \in Line
    BY <1>1, <2>1, Lines
  <2>3. InStep'
    <3>1. screen' = RubOut(screen, 1) /\ unseen' = unseen /\ line' = RubOut(line, 1)
      BY <1>4 DEF Erase
    <3>2. /\ Sequenced(screen') /\ Len(screen) \in Nat
          /\ Len(screen') = IF 1 <= Len(screen) THEN Len(screen) - 1 ELSE 0
      BY <3>1, Columns, Shorter
    <3>3. CASE unseen
      <4>1. Len(screen') <= Len(line')
        BY <2>1, <3>2, <3>3, Columns, <1>4
      <4> QED
        BY <3>1, <3>2, <3>3, <4>1 DEF Inv, InStep
    <3>4. CASE ~unseen
      <4>1. screen = <<Prompt>> \o line
        BY <3>4 DEF Inv, InStep
      <4>2. screen' = <<Prompt>> \o line'
        BY <1>1, <1>4, <3>1, <4>1, RubbedOut
      <4> QED
        BY <3>1, <3>2, <3>4, <4>2 DEF Inv, InStep
    <3> QED
      BY <3>3, <3>4
  <2>4. Inv' /\ UNCHANGED <<Recorded, Position>>
    BY <1>2, <2>2, <2>3, Edits DEF Erase
  <2> QED
    BY <1>4, <2>1, <2>4 DEF Log!Next, Log!Erase
<1> QED
  BY <1>3, <1>4

-----------------------------------------------------------------------------
(* Arrow keys.                                                               *)

\* The command at place p is fetched.
LEMMA RecallStep ==
  ASSUME Inv, NEW p \in 1 .. valid, NEW i, i = Wrapped(first + p - 1), Recall(i),
         browsing' = TRUE, UNCHANGED history, escaped' = FALSE, seqlen' = 2
  PROVE  Inv' /\ Position' = p /\ Log!Recall(p)
<1>1. /\ History \in Nat \ {0} /\ valid \in 0 .. History /\ first \in 0 .. History - 1
      /\ ring \in [Index -> Line]
  BY ShellLineAssumption DEF Inv, TypeOK, Index
<1>2. i \in Index /\ i \in 0 .. History - 1
  <2>1. first + p - 1 \in 0 .. 2 * History - 1
    BY <1>1
  <2> QED
    BY <2>1, Indices DEF Index
<1>3. UNCHANGED <<ring, first, last, valid, Recorded>>
  BY DEF history, Recorded
<1>4. line' = ring[i] /\ line' \in Line /\ current' = i
  BY <1>1, <1>2 DEF Recall
<1>5. TypeOK'
  <2>1. {browsing', escaped'} \subseteq BOOLEAN
    BY Zenon
  <2>2. unseen' \in BOOLEAN
    BY DEF Recall
  <2> QED
    BY <1>2, <1>3, <1>4, <2>1, <2>2 DEF Inv, TypeOK
<1>6. InStep'
  <2> DEFINE rest == RubOut(screen, Len(line))
  <2>1. line \in Seq(Typed) /\ Len(line) \in Nat /\ Len(screen) \in Nat
    BY Columns
  <2>2. Sequenced(rest) /\ Len(rest) = IF Len(line) <= Len(screen) THEN Len(screen) - Len(line) ELSE 0
    BY <2>1, Columns, Shorter
  <2>3. line' \in Seq(Typed) /\ Len(line') \in Nat
    BY <1>4, Lines
  <2>4. /\ screen' = rest \o Shown(line')
        /\ unseen' = (unseen \/ ~AllShown(line'))
    BY <1>4 DEF Recall
  <2>5. /\ Sequenced(Shown(line')) /\ Len(Shown(line')) \in Nat
        /\ AllShown(line') => Shown(line') = line'
        /\ ~AllShown(line') => Len(Shown(line')) < Len(line')
    BY <2>3, Showing
  <2> HIDE DEF rest
  <2>6. Sequenced(screen') /\ Len(screen') = Len(rest) + Len(Shown(line'))
    BY <2>2, <2>4, <2>5, Joined
  <2>7. unseen' \in BOOLEAN
    BY <2>4
  <2>8. CASE ~unseen /\ AllShown(line')
    <3>1. screen = <<Prompt>> \o line
      BY <2>8 DEF Inv, InStep
    <3>2. rest = <<Prompt>>
      BY <2>1, <3>1, Cleared DEF rest
    <3>3. screen' = <<Prompt>> \o line' /\ ~unseen'
      BY <2>4, <2>5, <2>8, <3>2
    <3> QED
      BY <2>6, <2>7, <3>3 DEF InStep
  <2>9. CASE unseen \/ ~AllShown(line')
    <3>1. Len(rest) <= 1 /\ (unseen => Len(rest) = 0)
      BY <2>1, <2>2, Columns
    <3>2. Len(Shown(line')) <= Len(line') /\ (~AllShown(line') => Len(Shown(line')) < Len(line'))
      BY <2>3, <2>5
    <3>3. Len(rest) \in Nat
      BY <2>1, <2>2
    <3>4. ASSUME unseen PROVE Len(screen') <= Len(line')
      BY <2>3, <2>5, <2>6, <3>1, <3>2, <3>3, <3>4
    <3>5. ASSUME ~AllShown(line') PROVE Len(screen') <= Len(line')
      BY <2>3, <2>5, <2>6, <3>1, <3>2, <3>3, <3>5
    <3>6. Len(screen') <= Len(line')
      BY <2>9, <3>4, <3>5, Zenon
    <3>7. unseen' = TRUE
      BY <2>4, <2>9, Zenon
    <3> QED
      BY <2>6, <2>7, <3>6, <3>7 DEF InStep
  <2> QED
    BY <2>8, <2>9
<1>7. EscapeEnds' /\ RingShape'
  BY <1>3 DEF Inv, EscapeEnds, RingShape
<1>8. Browsed'
  BY <1>1, <1>3, <1>4 DEF Inv, RingShape, Browsed, Wrapped
<1>9. Position' = p
  <2>1. i - first + History \in 0 .. 2 * History - 1
    BY <1>1, <1>2
  <2>2. (i - first + History) % History = Wrapped(i - first + History)
    BY <2>1, Indices
  <2>3. 1 + Wrapped(i - first + History) = p
    BY <1>1, <1>2 DEF Wrapped
  <2> QED
    BY <1>3, <1>4, <2>2, <2>3 DEF Position
<1>10. Log!Recall(p)
  BY <1>3, <1>4, <1>9, ListOfRing DEF Log!Recall
<1> QED
  BY <1>5, <1>6, <1>7, <1>8, <1>9, <1>10 DEF Inv

\* The end of an escape sequence that recalls nothing.
LEMMA StayStep ==
  ASSUME Inv, UNCHANGED <<line, terminal, history, current, browsing>>,
         escaped' = FALSE, seqlen' = 2
  PROVE  Inv' /\ UNCHANGED <<line, Recorded, Position>>
<1>1. line' \in Line /\ InStep'
  BY DEF Inv, TypeOK, InStep, terminal
<1>2. escaped' \in BOOLEAN
  BY Zenon
<1> QED
  BY <1>1, <1>2, Edits DEF EscapeEnds

\* What the up key does to the place.
PlaceUp == IF Position = 0 THEN valid ELSE IF Position > 1 THEN Position - 1 ELSE 1

\* And the down key.
PlaceDown == IF Position \in 1 .. valid - 1 THEN Position + 1 ELSE Position

\* The key up: the newest command, or the one before.
LEMMA UpStep ==
  ASSUME Inv, Third("A")
  PROVE  Inv' /\ [Log!Next]_(Log!vars) /\ Position' = PlaceUp
<1>1. ArrowUp /\ UNCHANGED history /\ escaped' = FALSE /\ seqlen' = 2
  BY DEF Third
<1>2. /\ History \in Nat \ {0} /\ valid \in 0 .. History /\ first \in 0 .. History - 1
      /\ current \in 0 .. History - 1
  BY ShellLineAssumption DEF Inv, TypeOK, Index
<1>3. Len(Recorded) = valid
  BY ListOfRing
<1>4. CASE ~browsing /\ valid > 0
  <2>1. Recall(last) /\ browsing' = TRUE
    BY <1>1, <1>4 DEF ArrowUp
  <2>2. last = Wrapped(first + valid - 1) /\ valid \in 1 .. valid
    BY <1>2, <1>4 DEF Inv, RingShape
  <2>3. Inv' /\ Position' = valid /\ Log!Recall(valid)
    BY <1>1, <2>1, <2>2, RecallStep
  <2> QED
    BY <1>3, <1>4, <2>3, Places DEF PlaceUp, Log!Next, Log!Up
<1>5. CASE ~browsing /\ ~(valid > 0)
  <2>1. UNCHANGED <<line, terminal, current, browsing>>
    BY <1>1, <1>5 DEF ArrowUp
  <2>2. Inv' /\ UNCHANGED <<line, Recorded, Position>>
    BY <1>1, <2>1, StayStep
  <2> QED
    BY <1>2, <1>5, <2>2, Places DEF PlaceUp, Log!vars
<1>6. CASE browsing /\ current # first
  <2>1. Recall(Before(current)) /\ browsing' = TRUE
    <3>1. Recall(Before(current)) /\ browsing' = browsing
      BY <1>1, <1>6 DEF ArrowUp, Older
    <3>2. browsing = TRUE
      BY <1>6 DEF Inv, TypeOK
    <3> QED
      BY <3>1, <3>2
  <2>2. Position \in 1 .. valid /\ Position # 1
    BY <1>6, Places
  <2>3. Position - 1 \in 1 .. valid /\ Position \in Nat /\ Position > 1
    BY <1>2, <2>2
  <2>4. Before(current) = Wrapped(first + (Position - 1) - 1)
    <3>1. Position = IF current >= first THEN current - first + 1
                     ELSE current - first + History + 1
      BY <1>6, Places
    <3>2. Before(current) = IF current = 0 THEN History - 1 ELSE current - 1
      BY <1>2, Indices DEF Index
    <3> QED
      BY <1>2, <1>6, <3>1, <3>2 DEF Wrapped
  <2>5. Inv' /\ Position' = Position - 1 /\ Log!Recall(Position - 1)
    BY <1>1, <2>1, <2>3, <2>4, RecallStep
  <2> QED
    BY <2>3, <2>5 DEF PlaceUp, Log!Next, Log!Up
<1>7. CASE browsing /\ current = first
  <2>1. UNCHANGED <<line, terminal, current, browsing>>
    BY <1>1, <1>7 DEF ArrowUp, Older
  <2>2. Inv' /\ UNCHANGED <<line, Recorded, Position>>
    BY <1>1, <2>1, StayStep
  <2>3. Position = 1
    BY <1>7, Places
  <2> QED
    BY <2>2, <2>3 DEF PlaceUp, Log!vars
<1> QED
  BY <1>4, <1>5, <1>6, <1>7, Zenon

\* The key down: the command after, if there is one.
LEMMA DownStep ==
  ASSUME Inv, Third("B")
  PROVE  Inv' /\ [Log!Next]_(Log!vars) /\ Position' = PlaceDown
<1>1. ArrowDown /\ UNCHANGED history /\ escaped' = FALSE /\ seqlen' = 2
  BY DEF Third
<1>2. /\ History \in Nat \ {0} /\ valid \in 0 .. History /\ first \in 0 .. History - 1
      /\ current \in 0 .. History - 1
  BY ShellLineAssumption DEF Inv, TypeOK, Index
<1>3. Len(Recorded) = valid
  BY ListOfRing
<1>4. CASE browsing /\ current # last
  <2>1. Recall(After(current)) /\ browsing' = TRUE
    <3>1. Recall(After(current)) /\ browsing' = browsing
      BY <1>1, <1>4 DEF ArrowDown
    <3>2. browsing = TRUE
      BY <1>4 DEF Inv, TypeOK
    <3> QED
      BY <3>1, <3>2
  <2>2. Position \in 1 .. valid /\ Position # valid
    BY <1>4, Places
  <2>3. Position \in 1 .. valid - 1 /\ Position + 1 \in 1 .. valid /\ Position # 0
    BY <1>2, <2>2
  <2>4. After(current) = Wrapped(first + (Position + 1) - 1)
    <3>1. Position = IF current >= first THEN current - first + 1
                     ELSE current - first + History + 1
      BY <1>4, Places
    <3>2. After(current) = Wrapped(current + 1)
      BY <1>2, Indices DEF Index
    <3> QED
      BY <1>2, <1>4, <2>3, <3>1, <3>2 DEF Wrapped, Inv, RingShape
  <2>5. Inv' /\ Position' = Position + 1 /\ Log!Recall(Position + 1)
    BY <1>1, <2>1, <2>3, <2>4, RecallStep
  <2> QED
    BY <2>3, <2>5 DEF PlaceDown, Log!Next, Log!Down
<1>5. CASE ~(browsing /\ current # last)
  <2>1. UNCHANGED <<line, terminal, current, browsing>>
    BY <1>1, <1>5 DEF ArrowDown
  <2>2. Inv' /\ UNCHANGED <<line, Recorded, Position>>
    BY <1>1, <2>1, StayStep
  <2>3. Position \notin 1 .. valid - 1
    <3>1. Position = 0 \/ Position = valid
      BY <1>5, Places
    <3> QED
      BY <1>2, <3>1
  <2> QED
    BY <2>2, <2>3 DEF PlaceDown, Log!vars
<1> QED
  BY <1>4, <1>5

\* Any other character ends the sequence.
LEMMA OtherThird ==
  ASSUME Inv, NEW ch \in Typed, ch # "A", ch # "B", Third(ch)
  PROVE  Inv' /\ UNCHANGED Log!vars
<1>1. UNCHANGED <<line, terminal, history, current, browsing>> /\ escaped' = FALSE /\ seqlen' = 2
  BY DEF Third
<1> QED
  BY <1>1, StayStep DEF Log!vars

-----------------------------------------------------------------------------
(* Enter.                                                                    *)

\* A command recorded while there is room.
LEMMA RecordRoom ==
  ASSUME Inv, Record(line), valid < History
  PROVE  Recorded' = Append(Recorded, line)
<1>1. /\ History \in Nat \ {0} /\ valid \in 0 .. History /\ first = 0
      /\ ring \in [Index -> Line] /\ line \in Line
  BY ShellLineAssumption DEF Inv, TypeOK, RingShape
<1>2. last' = valid
  BY <1>1, Indices DEF Inv, RingShape, TypeOK, Record, Wrapped
<1>3. valid' = valid + 1 /\ first' = 0 /\ ring' = [ring EXCEPT ![valid] = line]
  BY <1>1, <1>2 DEF Record
<1>4. /\ ring' \in [Index -> Line] /\ first' \in Index /\ valid' \in 0 .. History
      /\ valid \in Index
  BY <1>1, <1>3 DEF Index
<1> DEFINE s == Recorded'
           t == Recorded
<1>5. /\ s \in Seq(Line) /\ Len(s) = valid + 1
      /\ \A i \in 1 .. valid + 1 : s[i] = ring'[Wrapped(first' + i - 1)]
  <2>1. s = Entries(ring', first', valid')
    BY DEF Recorded, Entries
  <2>2. ring' \in [Index -> Line] /\ first' \in Index /\ valid' \in 0 .. History
    BY <1>3, <1>4, Zenon
  <2>3. /\ Entries(ring', first', valid') \in Seq(Line)
        /\ Len(Entries(ring', first', valid')) = valid'
        /\ \A i \in 1 .. valid' :
             Entries(ring', first', valid')[i] = ring'[Wrapped(first' + i - 1)]
    BY <2>2, RingRead, Zenon
  <2> HIDE DEF s
  <2> QED
    BY <1>3, <2>1, <2>3, Zenon
<1>6. /\ t \in Seq(Line) /\ Len(t) = valid
      /\ \A i \in 1 .. valid : t[i] = ring[Wrapped(first + i - 1)]
  BY ListOfRing
<1>7. /\ Append(t, line) \in Seq(Line) /\ Len(Append(t, line)) = valid + 1
      /\ \A i \in 1 .. valid : Append(t, line)[i] = t[i]
      /\ Append(t, line)[valid + 1] = line
  <2> HIDE DEF t
  <2> QED
    BY <1>1, <1>6
<1> HIDE DEF s, t
<1>8. ASSUME NEW i \in 1 .. valid + 1 PROVE s[i] = Append(t, line)[i]
  <2>1. Wrapped(first' + i - 1) = i - 1 /\ Wrapped(first + i - 1) = i - 1
    BY <1>1, <1>3 DEF Wrapped
  <2>2. s[i] = ring'[i - 1]
    BY <1>5, <2>1
  <2>3. CASE i = valid + 1
    BY <1>1, <1>3, <1>4, <1>7, <2>2, <2>3
  <2>4. CASE i \in 1 .. valid
    <3>1. i - 1 \in Index /\ i - 1 # valid
      BY <1>1, <2>4 DEF Index
    <3>2. ring'[i - 1] = ring[i - 1]
      BY <1>1, <1>3, <3>1
    <3> QED
      BY <1>6, <1>7, <2>1, <2>2, <2>4, <3>2
  <2>5. i = valid + 1 \/ i \in 1 .. valid
    BY <1>1
  <2> QED
    BY <2>3, <2>4, <2>5, Zenon
<1>9. Len(s) = Len(Append(t, line)) /\ \A i \in 1 .. Len(s) : s[i] = Append(t, line)[i]
  BY <1>5, <1>7, <1>8
<1>10. s = Append(t, line)
  BY <1>5, <1>7, <1>9, SeqEqual
<1> QED
  BY <1>10 DEF s, t

\* A command recorded over the oldest one.
LEMMA RecordFull ==
  ASSUME Inv, Record(line), ~(valid < History)
  PROVE  Recorded' = Append(Tail(Recorded), line)
<1>1. /\ History \in Nat \ {0} /\ valid = History /\ first \in 0 .. History - 1
      /\ ring \in [Index -> Line] /\ line \in Line
  BY ShellLineAssumption DEF Inv, TypeOK, RingShape, Index
<1>2. last' = first
  <2>1. last = Wrapped(first + History - 1) /\ last \in Index
    BY <1>1 DEF Inv, RingShape, TypeOK
  <2>2. After(last) = Wrapped(last + 1)
    BY <2>1, Indices
  <2> QED
    BY <1>1, <2>1, <2>2 DEF Record, Wrapped
<1>3. valid' = History /\ ring' = [ring EXCEPT ![first] = line]
  BY <1>1, <1>2 DEF Record
<1>4. first' = Wrapped(first + 1) /\ first' \in Index /\ first \in Index
  BY <1>1, Indices DEF Record, Index
<1>5. ring' \in [Index -> Line] /\ valid' \in 0 .. History
  BY <1>1, <1>3, <1>4
<1> DEFINE s == Recorded'
           t == Recorded
           u == Tail(t)
<1>6. /\ s \in Seq(Line) /\ Len(s) = History
      /\ \A i \in 1 .. History : s[i] = ring'[Wrapped(first' + i - 1)]
  <2>1. s = Entries(ring', first', valid')
    BY DEF Recorded, Entries
  <2>2. ring' \in [Index -> Line] /\ first' \in Index /\ valid' \in 0 .. History
    BY <1>3, <1>4, <1>5, Zenon
  <2>3. /\ Entries(ring', first', valid') \in Seq(Line)
        /\ Len(Entries(ring', first', valid')) = valid'
        /\ \A i \in 1 .. valid' :
             Entries(ring', first', valid')[i] = ring'[Wrapped(first' + i - 1)]
    BY <2>2, RingRead, Zenon
  <2> HIDE DEF s
  <2> QED
    BY <1>3, <2>1, <2>3, Zenon
<1>7. /\ t \in Seq(Line) /\ Len(t) = History
      /\ \A i \in 1 .. History : t[i] = ring[Wrapped(first + i - 1)]
  BY <1>1, ListOfRing
<1> HIDE DEF s, t
<1>8. /\ u \in Seq(Line) /\ Len(u) = History - 1
      /\ \A i \in 1 .. History - 1 : u[i] = t[i + 1]
  BY <1>1, <1>7
<1> HIDE DEF u
<1>9. /\ Append(u, line) \in Seq(Line) /\ Len(Append(u, line)) = History
      /\ \A i \in 1 .. History - 1 : Append(u, line)[i] = u[i]
      /\ Append(u, line)[History] = line
  BY <1>1, <1>8
<1>10. ASSUME NEW i \in 1 .. History PROVE s[i] = Append(u, line)[i]
  <2>1. s[i] = ring'[Wrapped(first' + i - 1)]
    BY <1>6
  <2>2. CASE i = History
    <3>1. Wrapped(first' + i - 1) = first
      BY <1>1, <1>4, <2>2 DEF Wrapped
    <3>2. ring'[first] = line
      BY <1>1, <1>3, <1>4
    <3> QED
      BY <1>9, <2>1, <2>2, <3>1, <3>2
  <2>3. CASE i \in 1 .. History - 1
    <3>1. /\ Wrapped(first' + i - 1) = Wrapped(first + (i + 1) - 1)
          /\ Wrapped(first' + i - 1) \in Index /\ Wrapped(first' + i - 1) # first
      BY <1>1, <1>4, <2>3 DEF Wrapped, Index
    <3>2. ring'[Wrapped(first' + i - 1)] = ring[Wrapped(first' + i - 1)]
      BY <1>1, <1>3, <3>1
    <3>3. i + 1 \in 1 .. History
      BY <1>1, <2>3
    <3>4. t[i + 1] = ring[Wrapped(first + (i + 1) - 1)]
      BY <1>7, <3>3
    <3> QED
      BY <1>8, <1>9, <2>1, <2>3, <3>1, <3>2, <3>4
  <2>4. i = History \/ i \in 1 .. History - 1
    BY <1>1
  <2> QED
    BY <2>2, <2>3, <2>4, Zenon
<1>11. Len(s) = Len(Append(u, line)) /\ \A i \in 1 .. Len(s) : s[i] = Append(u, line)[i]
  BY <1>6, <1>9, <1>10
<1>12. s = Append(u, line)
  BY <1>6, <1>9, <1>11, SeqEqual
<1> QED
  BY <1>12 DEF s, t, u

\* Recording keeps types and shape of the ring.
LEMMA RecordShape ==
  ASSUME Inv, Record(line)
  PROVE  /\ RingShape' /\ ring' \in [Index -> Line]
         /\ {first', last'} \subseteq Index /\ valid' \in 0 .. History
<1>1. /\ History \in Nat \ {0} /\ valid \in 0 .. History
      /\ first \in 0 .. History - 1 /\ last \in 0 .. History - 1
      /\ ring \in [Index -> Line] /\ line \in Line
  BY ShellLineAssumption DEF Inv, TypeOK, Index
<1>2. /\ After(last) = Wrapped(last + 1) /\ After(last) \in Index
      /\ After(first) = Wrapped(first + 1) /\ After(first) \in Index
  BY <1>1, Indices DEF Index
<1>3. last' = After(last) /\ ring' = [ring EXCEPT ![After(last)] = line]
  BY DEF Record
<1>4. ring' \in [Index -> Line]
  BY <1>1, <1>2, <1>3
<1>5. CASE valid < History
  <2>1. valid' = valid + 1 /\ first' = first
    BY <1>5 DEF Record
  <2> QED
    BY <1>1, <1>2, <1>3, <1>4, <1>5, <2>1 DEF Inv, RingShape, Wrapped, Index
<1>6. CASE ~(valid < History)
  <2>1. valid' = valid /\ first' = After(first)
    BY <1>6 DEF Record
  <2> QED
    BY <1>1, <1>2, <1>3, <1>4, <1>6, <2>1 DEF Inv, RingShape, Wrapped, Index
<1> QED
  BY <1>5, <1>6

\* Enter runs the line and records it.
LEMMA EnterStep == ASSUME Inv, Enter PROVE Inv' /\ Log!Next
<1>1. line' = <<>> /\ line' \in Line /\ InStep'
  BY Fresh DEF Enter
<1>2. EscapeEnds' /\ escaped' \in BOOLEAN /\ seqlen' \in 0 .. 2
  BY Escapes DEF Enter
<1>3. UNCHANGED current
  BY DEF Enter
<1>4. Len(Recorded) = valid /\ (valid > 0 => Recorded[valid] = ring[last])
  BY ListOfRing
<1>5. valid \in 0 .. History /\ History \in Nat \ {0}
  BY ShellLineAssumption DEF Inv, TypeOK
<1>6. CASE line = <<>>
  <2>1. UNCHANGED <<history, browsing>>
    BY <1>6 DEF Enter
  <2>2. Inv' /\ UNCHANGED <<Recorded, Position>>
    BY <1>1, <1>2, <1>3, <2>1, Edits
  <2> QED
    BY <1>1, <2>2 DEF Log!Next, Log!Clear
<1>7. CASE line # <<>> /\ Repeats(line)
  <2>1. UNCHANGED history /\ browsing' = FALSE
    BY <1>7 DEF Enter
  <2>2. UNCHANGED <<ring, first, last, valid, Recorded>>
    BY <2>1 DEF history, Recorded
  <2>3. Position' = 0
    BY <2>1 DEF Position
  <2>4. Inv'
    <3>1. {browsing', escaped', unseen'} \subseteq BOOLEAN
      BY <1>1, <1>2, <2>1, Zenon DEF InStep
    <3>2. TypeOK'
      BY <1>1, <1>2, <1>3, <2>2, <3>1 DEF Inv, TypeOK
    <3>3. RingShape' /\ Browsed'
      BY <2>1, <2>2 DEF Inv, RingShape, Browsed
    <3> QED
      BY <1>1, <1>2, <3>2, <3>3 DEF Inv
  <2>5. Log!Newest(line)
    <3>1. valid > 0 /\ ring[last] = line
      BY <1>7 DEF Repeats
    <3>2. Recorded # <<>>
      BY <1>4, <3>1
    <3> QED
      BY <1>4, <1>7, <3>1, <3>2 DEF Log!Newest
  <2>6. Log!Run
    BY <1>1, <1>7, <2>2, <2>3, <2>5 DEF Log!Run
  <2> QED
    BY <2>4, <2>6 DEF Log!Next
<1>8. CASE line # <<>> /\ ~Repeats(line)
  <2>1. Record(line) /\ browsing' = FALSE
    BY <1>8 DEF Enter
  <2>2. Position' = 0
    BY <2>1 DEF Position
  <2>3. Inv'
    <3>1. {browsing', escaped', unseen'} \subseteq BOOLEAN
      BY <1>1, <1>2, <2>1, Zenon DEF InStep
    <3>2. /\ RingShape' /\ ring' \in [Index -> Line]
          /\ {first', last'} \subseteq Index /\ valid' \in 0 .. History
      BY <2>1, RecordShape
    <3>3. TypeOK'
      BY <1>1, <1>2, <1>3, <3>1, <3>2 DEF Inv, TypeOK
    <3>4. Browsed'
      BY <2>1 DEF Browsed
    <3> QED
      BY <1>1, <1>2, <3>2, <3>3, <3>4 DEF Inv
  <2>4. ~Log!Newest(line)
    <3>1. ~(valid > 0 /\ ring[last] = line)
      BY <1>8 DEF Repeats
    <3>2. valid = 0 => Recorded = <<>>
      BY <1>4, ListOfRing
    <3> QED
      BY <1>4, <1>5, <3>1, <3>2 DEF Log!Newest
  <2>5. Recorded' = IF valid < History THEN Append(Recorded, line)
                    ELSE Append(Tail(Recorded), line)
    BY <2>1, RecordRoom, RecordFull
  <2>6. Log!Run
    BY <1>1, <1>4, <1>8, <2>2, <2>4, <2>5 DEF Log!Run
  <2> QED
    BY <2>3, <2>6 DEF Log!Next
<1> QED
  BY <1>6, <1>7, <1>8, Zenon

-----------------------------------------------------------------------------
\* A key keeps the invariant and is an action of the list.
LEMMA PressStep ==
  ASSUME Inv, NEW key \in Key, Press(key)
  PROVE  Inv' /\ [Log!Next]_(Log!vars)
<1>1. CASE Enter
  BY <1>1, EnterStep
<1>2. CASE CtrlC
  BY <1>2, CtrlCStep
<1>3. CASE Ignored \/ Escape \/ \E ch \in Typed : Second(ch)
  BY <1>3, SilentStep
<1>4. CASE Erase
  BY <1>4, EraseStep
<1>5. CASE key \in Typed /\ Echo(key)
  BY <1>5, EchoStep
<1>6. CASE key \in Typed /\ Third(key)
  BY <1>6, UpStep, DownStep, OtherThird
<1> QED
  BY <1>1, <1>2, <1>3, <1>4, <1>5, <1>6, Zenon DEF Press

\* The invariant holds and the list is refined at every step.
LEMMA Stepwise == Inv /\ [Next]_vars => Inv' /\ [Log!Next]_(Log!vars)
<1> SUFFICES ASSUME Inv, [Next]_vars PROVE Inv' /\ [Log!Next]_(Log!vars)
  OBVIOUS
<1>1. CASE Next
  BY <1>1, PressStep DEF Next
<1>2. CASE UNCHANGED vars
  <2>1. UNCHANGED <<line, history, current, browsing, screen, unseen, escaped, seqlen>>
    BY <1>2 DEF vars, history
  <2>2. Inv'
    BY <1>2 DEF vars, Inv, TypeOK, EscapeEnds, InStep, RingShape, Browsed
  <2>3. UNCHANGED Log!vars
    BY <1>2 DEF vars, Log!vars, Recorded, Position
  <2> QED
    BY <2>2, <2>3
<1> QED
  BY <1>1, <1>2

\* The invariant holds always.
LEMMA Always == Spec => []Inv
  BY InitInv, Stepwise, PTL DEF Spec

\* Indices stay inside the ring, and lines inside their bound, whatever is typed.
THEOREM ShellTypeOK == Spec => []TypeOK
<1>1. Inv => TypeOK
  BY DEF Inv
<1> QED
  BY <1>1, Always, PTL

\* An escape sequence is given up after two characters at most.
THEOREM EscapeEndsTheorem == Spec => []EscapeEnds
<1>1. Inv => EscapeEnds
  BY DEF Inv
<1> QED
  BY <1>1, Always, PTL

\* Echo, erasure and recall keep terminal and line buffer in step exactly as
\* long as no control character that shows nothing was stored since the prompt.
THEOREM ScreenShowsLineTheorem == Spec => []ScreenShowsLine
<1>1. Inv => ScreenShowsLine
  <2> SUFFICES ASSUME Inv PROVE ScreenShowsLine
    OBVIOUS
  <2>1. CASE unseen
    <3>1. Len(screen) <= Len(line) /\ Len(line) \in Nat /\ line \in Seq(Typed)
      BY <2>1, Columns
    <3>2. Len(<<Prompt>> \o line) = Len(line) + 1
      BY <3>1, Prompted
    <3>3. screen # <<Prompt>> \o line
      BY <3>1, <3>2
    <3> QED
      BY <2>1, <3>3 DEF ScreenShowsLine
  <2>2. CASE ~unseen
    BY <2>2 DEF Inv, InStep, ScreenShowsLine
  <2> QED
    BY <2>1, <2>2
<1> QED
  BY <1>1, Always, PTL

\* Ring and indices implement the list of the last commands.
THEOREM KeepsLogTheorem == Spec => KeepsLog
  BY InitInv, Stepwise, PTL DEF Spec, KeepsLog, Log!Spec

\* An arrow key moves by one command unless the list ends there.
THEOREM ArrowsMoveTheorem == Spec => ArrowsMove
<1> DEFINE Move == escaped /\ seqlen = 1 =>
             /\ Press("A") => Position' = PlaceUp
             /\ Press("B") => Position' = PlaceDown
<1>1. Inv /\ [Next]_vars => [Move]_vars
  <2> SUFFICES ASSUME Inv, escaped, seqlen = 1
               PROVE  /\ Press("A") => Position' = PlaceUp
                      /\ Press("B") => Position' = PlaceDown
    OBVIOUS
  <2>1. ASSUME NEW ch \in {"A", "B"}, Press(ch) PROVE Third(ch)
    BY <2>1, ShellLineAssumption DEF Press, Echo, Second
  <2> QED
    BY <2>1, UpStep, DownStep
<1>2. ArrowsMove <=> [][Move]_vars
  BY DEF ArrowsMove, PlaceUp, PlaceDown
<1> QED
  BY <1>1, <1>2, Always, PTL DEF Spec
=============================================================================
