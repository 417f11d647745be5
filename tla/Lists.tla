------------------------------- MODULE Lists -------------------------------
(***************************************************************************)
(* What ewx_list.h promises: nodes head or are entries of sequences.       *)
(***************************************************************************)
EXTENDS SequencesExt

CONSTANT Node

VARIABLE lists   \* for each head the sequence of its entries

vars == <<lists>>

Heads == DOMAIN lists
Entries == UNION {ToSet(lists[h]) : h \in Heads}
Linked == Heads \cup Entries
Free == Node \ Linked

\* The list that x heads or is on, and the place of x in it: 0 for the head.
HeadOf(x) == CHOOSE h \in Heads : x = h \/ x \in ToSet(lists[h])
Place(x) == LET s == lists[HeadOf(x)] IN SelectInSeq(s, LAMBDA y : y = x)

\* All lists but those with the heads in gone; the sequence of h becomes s.
Without(gone) == [h \in Heads \ gone |-> lists[h]]
With(ls, h, s) == [x \in DOMAIN ls \cup {h} |-> IF x = h THEN s ELSE ls[x]]

\* The sequence s comes k places behind the head in the list of head h.
Put(ls, h, k, s) ==
  [ls EXCEPT ![h] = SubSeq(@, 1, k) \o s \o SubSeq(@, k + 1, Len(@))]

\* Behind x, or before x, for which the head is the end.
Behind(x) == Place(x)
Before(x) == IF x \in Heads THEN Len(lists[x]) ELSE Place(x) - 1

Taken(e) == [lists EXCEPT ![HeadOf(e)] = RemoveAt(@, Place(e))]

Init == lists = <<>>

New(n) == n \in Free /\ lists' = With(lists, n, <<>>)

CanAdd(n, x) ==
  x \in Linked \ {n} /\ (n \in Free \/ (n \in Heads /\ lists[n] = <<>>))
AddBehind(n, x) ==
  CanAdd(n, x) /\ lists' = Put(Without({n}), HeadOf(x), Behind(x), <<n>>)
AddBefore(n, x) ==
  CanAdd(n, x) /\ lists' = Put(Without({n}), HeadOf(x), Before(x), <<n>>)

Delete(e) == e \in Entries /\ lists' = Taken(e)
DeleteInit(e) == e \in Entries /\ lists' = With(Taken(e), e, <<>>)

\* n takes the place of o, as a head or as an entry.
Replaced(o, n) ==
  IF o \in Heads THEN With(Without({o}), n, lists[o])
  ELSE [h \in Heads |-> [i \in 1 .. Len(lists[h]) |->
                           IF lists[h][i] = o THEN n ELSE lists[h][i]]]
Replace(o, n) == o \in Linked /\ n \in Free /\ lists' = Replaced(o, n)
ReplaceInit(o, n) ==
  o \in Linked /\ n \in Free /\ lists' = With(Replaced(o, n), o, <<>>)

\* The entry e goes next to x: places behind e in the same list count one less.
Moved(e, x, k) ==
  LET shift == IF HeadOf(e) = HeadOf(x) /\ Place(e) <= k THEN 1 ELSE 0
  IN Put(Taken(e), HeadOf(x), k - shift, <<e>>)
MoveBehind(e, x) ==
  e \in Entries /\ x \in Linked \ {e} /\ lists' = Moved(e, x, Behind(x))
MoveBefore(e, x) ==
  e \in Entries /\ x \in Linked \ {e} /\ lists' = Moved(e, x, Before(x))

CanJoin(l, x) == l \in Heads /\ x \in Linked /\ HeadOf(x) # l
Joined(l, x) == Put(Without({l}), HeadOf(x), Behind(x), lists[l])
Join(l, x) ==
  /\ CanJoin(l, x)
  /\ lists' = IF lists[l] = <<>> THEN lists ELSE Joined(l, x)
JoinInit(l, x) == CanJoin(l, x) /\ lists' = With(Joined(l, x), l, <<>>)
=============================================================================
