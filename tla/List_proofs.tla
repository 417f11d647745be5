---------------------------- MODULE List_proofs ----------------------------
(***************************************************************************)
(* For every set of nodes: the pointers of all lists are rings at all      *)
(* times, and a walk that spares the entry to come stays on its list and   *)
(* visits all entries that are there until its end.                        *)
(*                                                                         *)
(* TypeOK, Rings and WalkOnList are inductive together.  Every operation   *)
(* changes the pointers of a few nodes only, and Rings says of each node   *)
(* and its neighbours what the next operation needs to know; owner, a      *)
(* history variable, tells nodes of different lists apart without          *)
(* following pointers.  That a walk misses nothing needs more: each list   *)
(* is one ring, the second part.  The third part is about sequences: every *)
(* operation does to the entries of a list what module Lists promises.     *)
(* There is a layout, a sequence for each head along which the pointers    *)
(* lead; a walk meets that sequence and no other, and each operation is    *)
(* one of four changes of the layout: a new list, nodes that come in, one  *)
(* that leaves, one that takes the place of another.                       *)
(***************************************************************************)
EXTENDS ListProps, WellFoundedInduction, TLAPS

Inv == TypeOK /\ Rings /\ WalkOnList

\* A new list is a ring of its head.
LEMMA EwxListHeadInitKeeps ==
  ASSUME Inv, NEW n \in Node, EWX_LIST_HEAD_INIT(n)
  PROVE  Inv'
<1> USE ListAssumption DEF Inv, EWX_LIST_HEAD_INIT,
                          Heads, Free, Linked, Entries, Spared, Pointer
<1>1. TypeOK'
  BY DEF TypeOK
<1>2. Rings'
  BY DEF TypeOK, Rings
<1>3. WalkOnList'
  BY DEF TypeOK, Rings, WalkOnList
<1> QED
  BY <1>1, <1>2, <1>3

\* An entry goes between a node and its next one, which may be the same.
LEMMA EwxListAddKeeps ==
  ASSUME Inv, NEW n \in Node, NEW h \in Node, ewx_list_add(n, h)
  PROVE  Inv'
<1> USE ListAssumption DEF Inv, ewx_list_add, AddedNext, AddedPrev, Addable,
                          Heads, Free, Linked, Entries, Spared, Pointer
<1>1. TypeOK'
  BY DEF TypeOK
<1>2. Rings'
  BY DEF TypeOK, Rings
<1>3. WalkOnList'
  BY DEF TypeOK, Rings, WalkOnList
<1> QED
  BY <1>1, <1>2, <1>3

\* An entry goes between a node and the one before, which may be the same.
LEMMA EwxListAddTailKeeps ==
  ASSUME Inv, NEW n \in Node, NEW h \in Node, ewx_list_add_tail(n, h)
  PROVE  Inv'
<1> USE ListAssumption DEF Inv, ewx_list_add_tail, AddedNext, AddedPrev, Addable,
                          Heads, Free, Linked, Entries, Spared, Pointer
<1>1. TypeOK'
  BY DEF TypeOK
<1>2. Rings'
  BY DEF TypeOK, Rings
<1>3. WalkOnList'
  BY DEF TypeOK, Rings, WalkOnList
<1> QED
  BY <1>1, <1>2, <1>3

\* The neighbours of an entry that is deleted close the ring.
LEMMA EwxListDelKeeps ==
  ASSUME Inv, NEW e \in Node, ewx_list_del(e)
  PROVE  Inv'
<1> USE ListAssumption DEF Inv, ewx_list_del, CutNext, CutPrev,
                          Heads, Free, Linked, Entries, Spared, Pointer
<1>1. TypeOK'
  BY DEF TypeOK
<1>2. Rings'
  BY DEF TypeOK, Rings
<1>3. WalkOnList'
  BY DEF TypeOK, Rings, WalkOnList
<1> QED
  BY <1>1, <1>2, <1>3

\* So they do when it becomes a list of its own.
LEMMA ListDelInitKeeps ==
  ASSUME Inv, NEW e \in Node, list_del_init(e)
  PROVE  Inv'
<1> USE ListAssumption DEF Inv, list_del_init, CutNext, CutPrev,
                          Heads, Free, Linked, Entries, Spared, Pointer
<1>1. TypeOK'
  BY DEF TypeOK
<1>2. Rings'
  BY DEF TypeOK, Rings
<1>3. WalkOnList'
  BY DEF TypeOK, Rings, WalkOnList
<1> QED
  BY <1>1, <1>2, <1>3

\* The new node takes over both neighbours, for an empty head itself.
LEMMA ListReplaceKeeps ==
  ASSUME Inv, NEW o \in Node, NEW n \in Node, list_replace(o, n)
  PROVE  Inv'
<1> USE ListAssumption DEF Inv, list_replace, ReplacedNext, ReplacedPrev, ReplacedOwner,
                          Heads, Free, Linked, Entries, Spared, Pointer
<1>1. TypeOK'
  BY DEF TypeOK
<1>2. Rings'
  BY DEF TypeOK, Rings
<1>3. WalkOnList'
  BY DEF TypeOK, Rings, WalkOnList
<1> QED
  BY <1>1, <1>2, <1>3

\* So it does when the old node becomes an empty list.
LEMMA ListReplaceInitKeeps ==
  ASSUME Inv, NEW o \in Node, NEW n \in Node, list_replace_init(o, n)
  PROVE  Inv'
<1> USE ListAssumption DEF Inv, list_replace_init, ReplacedNext, ReplacedPrev, ReplacedOwner,
                          Heads, Free, Linked, Entries, Spared, Pointer
<1>1. TypeOK'
  BY DEF TypeOK
<1>2. Rings'
  BY DEF TypeOK, Rings
<1>3. WalkOnList'
  BY DEF TypeOK, Rings, WalkOnList
<1> QED
  BY <1>1, <1>2, <1>3

\* An entry that moves leaves one ring and enters another one, or its own again.
LEMMA EwxListMoveKeeps ==
  ASSUME Inv, NEW e \in Node, NEW h \in Node, ewx_list_move(e, h)
  PROVE  Inv'
<1> USE ListAssumption DEF Inv, ewx_list_move, CutNext, CutPrev, AddedNext, AddedPrev,
                          Heads, Free, Linked, Entries, Spared, Pointer
<1>1. TypeOK'
  BY DEF TypeOK
<1>2. Rings'
  BY DEF TypeOK, Rings
<1>3. WalkOnList'
  BY DEF TypeOK, Rings, WalkOnList
<1> QED
  BY <1>1, <1>2, <1>3

\* So it does when it goes before a node.
LEMMA EwxListMoveTailKeeps ==
  ASSUME Inv, NEW e \in Node, NEW h \in Node, ewx_list_move_tail(e, h)
  PROVE  Inv'
<1> USE ListAssumption DEF Inv, ewx_list_move_tail, CutNext, CutPrev, AddedNext, AddedPrev,
                          Heads, Free, Linked, Entries, Spared, Pointer
<1>1. TypeOK'
  BY DEF TypeOK
<1>2. Rings'
  BY DEF TypeOK, Rings
<1>3. WalkOnList'
  BY DEF TypeOK, Rings, WalkOnList
<1> QED
  BY <1>1, <1>2, <1>3

\* Joining opens two rings and closes one that has the nodes of both but a head.
LEMMA EwxListSpliceKeeps ==
  ASSUME Inv, NEW l \in Node, NEW h \in Node, ewx_list_splice(l, h)
  PROVE  Inv'
<1> DEFINE f == nxt[l]
           t == prv[l]
           a == nxt[h]
<1> USE ListAssumption DEF Inv, Heads, Free, Linked, Entries, Pointer
<1>1. CASE Empty(l)
  BY <1>1 DEF TypeOK, Rings, WalkOnList, ewx_list_splice, Joinable, links
<1>2. CASE ~Empty(l)
  <2>1. nxt' = SplicedNext(l, h) /\ prv' = SplicedPrev(l, h)
        /\ owner' = SplicedOwner(l, h, None)
    BY <1>2 DEF ewx_list_splice
  <2>2. /\ l \in Heads /\ h \in Linked /\ owner[h] \in Heads /\ owner[h] # l /\ h # l
        /\ f \in Linked /\ t \in Linked /\ a \in Linked
        /\ owner[f] = l /\ owner[t] = l /\ owner[a] = owner[h]
        /\ prv[f] = l /\ nxt[t] = l /\ prv[a] = h
        /\ f # l /\ t # l
    BY <1>2 DEF TypeOK, Rings, ewx_list_splice, Joinable, Empty
  <2>3. /\ nxt' \in [Node -> Pointer] /\ prv' \in [Node -> Pointer]
        /\ owner' \in [Node -> Node \cup {None}]
    BY <2>1, <2>2 DEF TypeOK, SplicedNext, SplicedPrev, SplicedOwner
  <2>4. \A x \in Node :
          /\ nxt'[x] = IF x = t THEN a ELSE IF x = h THEN f ELSE nxt[x]
          /\ prv'[x] = IF x = a THEN t ELSE IF x = f THEN h ELSE prv[x]
          /\ owner'[x] = IF x = l THEN None
                         ELSE IF owner[x] = l THEN owner[h] ELSE owner[x]
    BY <2>1, <2>2 DEF TypeOK, SplicedNext, SplicedPrev, SplicedOwner
  <2>5. Linked' = Linked \ {l} /\ Heads' = Heads \ {l}
    BY <2>2, <2>4
  <2>6. TypeOK'
    <3>1. \A n \in Linked' : owner'[n] \in Heads'
      BY <2>2, <2>4, <2>5 DEF TypeOK
    <3> QED
      BY <2>3, <3>1 DEF TypeOK, ewx_list_splice
  <2>7. Rings'
    BY <2>2, <2>4, <2>5 DEF TypeOK, Rings
  <2>8. WalkOnList'
    BY <2>2, <2>4, <2>5 DEF TypeOK, WalkOnList, ewx_list_splice, Joinable
  <2> QED
    BY <2>6, <2>7, <2>8
<1> QED
  BY <1>1, <1>2

\* So it does when the head that is left over becomes an empty list.
LEMMA EwxListSpliceInitKeeps ==
  ASSUME Inv, NEW l \in Node, NEW h \in Node, ewx_list_splice_init(l, h)
  PROVE  Inv'
<1> DEFINE f == nxt[l]
           t == prv[l]
           a == nxt[h]
<1> USE ListAssumption DEF Inv, Heads, Free, Linked, Entries, Pointer
<1>1. CASE Empty(l)
  BY <1>1 DEF TypeOK, Rings, WalkOnList, ewx_list_splice_init, Joinable, links
<1>2. CASE ~Empty(l)
  <2>1. nxt' = [SplicedNext(l, h) EXCEPT ![l] = l] /\ prv' = [SplicedPrev(l, h) EXCEPT ![l] = l]
        /\ owner' = SplicedOwner(l, h, l)
    BY <1>2 DEF ewx_list_splice_init
  <2>2. /\ l \in Heads /\ h \in Linked /\ owner[h] \in Heads /\ owner[h] # l /\ h # l
        /\ f \in Linked /\ t \in Linked /\ a \in Linked
        /\ owner[f] = l /\ owner[t] = l /\ owner[a] = owner[h]
        /\ prv[f] = l /\ nxt[t] = l /\ prv[a] = h
        /\ f # l /\ t # l
    BY <1>2 DEF TypeOK, Rings, ewx_list_splice_init, Joinable, Empty
  <2>3. /\ nxt' \in [Node -> Pointer] /\ prv' \in [Node -> Pointer]
        /\ owner' \in [Node -> Node \cup {None}]
    BY <2>1, <2>2 DEF TypeOK, SplicedNext, SplicedPrev, SplicedOwner
  <2>4. \A x \in Node :
          /\ nxt'[x] = IF x = l THEN l ELSE IF x = t THEN a ELSE IF x = h THEN f ELSE nxt[x]
          /\ prv'[x] = IF x = l THEN l ELSE IF x = a THEN t ELSE IF x = f THEN h ELSE prv[x]
          /\ owner'[x] = IF x = l THEN l
                         ELSE IF owner[x] = l THEN owner[h] ELSE owner[x]
    BY <2>1, <2>2 DEF TypeOK, SplicedNext, SplicedPrev, SplicedOwner
  <2>5. Linked' = Linked /\ Heads' = Heads
    BY <2>2, <2>4
  <2>6. TypeOK'
    <3>1. \A n \in Linked' : owner'[n] \in Heads'
      BY <2>2, <2>4, <2>5 DEF TypeOK
    <3> QED
      BY <2>3, <3>1 DEF TypeOK, ewx_list_splice_init
  <2>7. Rings'
    BY <2>2, <2>4, <2>5 DEF TypeOK, Rings
  <2>8. WalkOnList'
    BY <2>2, <2>4, <2>5 DEF TypeOK, WalkOnList, ewx_list_splice_init, Joinable
  <2> QED
    BY <2>6, <2>7, <2>8
<1> QED
  BY <1>1, <1>2

\* A walk does not touch the lists, and next is on the one it began with.
LEMMA WalkKeeps ==
  ASSUME Inv, (\E h \in Node : StartWalk(h)) \/ StepWalk \/ EndWalk
  PROVE  Inv'
<1> USE ListAssumption DEF Inv, Heads, Free, Linked, Entries, Pointer, links
<1>1. CASE \E h \in Node : StartWalk(h)
  <2> PICK h \in Node : StartWalk(h)
    BY <1>1
  <2> QED
    BY DEF StartWalk, TypeOK, Rings, WalkOnList
<1>2. CASE StepWalk
  BY <1>2 DEF StepWalk, Following, NextOf, TypeOK, Rings, WalkOnList
<1>3. CASE EndWalk
  BY <1>3 DEF EndWalk, TypeOK, Rings, WalkOnList
<1> QED
  BY <1>1, <1>2, <1>3

\* No node is on a list at first.
LEMMA InitInv == Init => Inv
BY ListAssumption DEF Init, Inv, TypeOK, Rings, WalkOnList, Heads, Free, Linked,
                      Entries, Pointer

\* One case for each operation.
LEMMA NextKeeps == Inv /\ [Next]_vars => Inv'
<1> SUFFICES ASSUME Inv, [Next]_vars PROVE Inv'
  OBVIOUS
<1>1. CASE UNCHANGED vars
  BY <1>1 DEF Inv, TypeOK, Rings, WalkOnList, vars, Heads, Free, Linked, Entries
<1>2. CASE \E n \in Node :
             EWX_LIST_HEAD_INIT(n) \/ ewx_list_del(n) \/ list_del_init(n)
  BY <1>2, EwxListHeadInitKeeps, EwxListDelKeeps, ListDelInitKeeps
<1>3. CASE \E n, h \in Node :
             \/ ewx_list_add(n, h) \/ ewx_list_add_tail(n, h)
             \/ list_replace(n, h) \/ list_replace_init(n, h)
  BY <1>3, EwxListAddKeeps, EwxListAddTailKeeps, ListReplaceKeeps, ListReplaceInitKeeps
<1>4. CASE \E n, h \in Node :
             \/ ewx_list_move(n, h) \/ ewx_list_move_tail(n, h)
             \/ ewx_list_splice(n, h) \/ ewx_list_splice_init(n, h)
  BY <1>4, EwxListMoveKeeps, EwxListMoveTailKeeps, EwxListSpliceKeeps,
     EwxListSpliceInitKeeps
<1>5. CASE (\E h \in Node : StartWalk(h)) \/ StepWalk \/ EndWalk
  BY <1>5, WalkKeeps
<1> QED
  BY <1>1, <1>2, <1>3, <1>4, <1>5 DEF Next

\* All three hold in every state of every behaviour.
LEMMA AlwaysInv == Spec => []Inv
  BY InitInv, NextKeeps, PTL DEF Spec

\* In every state each pointer of a node on a list leads to a node of the same
\* list that points back, for any number of nodes and lists.
THEOREM RingsTheorem == Spec => []Rings
<1>1. Inv => Rings
  BY DEF Inv
<1> QED
  BY <1>1, AlwaysInv, PTL

\* A walk whose body spares the next entry never leaves its list, whatever else
\* is done to the lists meanwhile.
THEOREM WalkOnListTheorem == Spec => []WalkOnList
<1>1. Inv => WalkOnList
  BY DEF Inv
<1> QED
  BY <1>1, AlwaysInv, PTL

\* Pointers are nodes or poison, and what is on a list is on that of a head.
THEOREM ListTypeOK == Spec => []TypeOK
<1>1. Inv => TypeOK
  BY DEF Inv
<1> QED
  BY <1>1, AlwaysInv, PTL

-----------------------------------------------------------------------------
(***************************************************************************)
(* A walk visits all entries.  For this each list has to be one ring: what *)
(* has the same owner is met on the way from the head back to the head.    *)
(* That way is the least set that is closed under the pointers, so it      *)
(* needs no induction: a closed set is not smaller.                        *)
(***************************************************************************)

\* The nodes on the list of h, when ow are the owners.
On(ow, h) == {x \in Node : ow[x] = h}

\* Who goes from s along nx, in the ring R, until he is at h meets all of T.
Covers(nx, R, s, h, T) ==
  \A S \in SUBSET R : s \in S /\ (\A x \in S \ {h} : nx[x] \in S) => T \subseteq S

\* The list of h has no entries that cannot be reached from h.
Whole(nx, ow, h) == Covers(nx, On(ow, h), nx[h], h, On(ow, h))

OneRing == \A h \in Heads : Whole(nxt, owner, h)

\* What a walk still has to visit lies between its next entry and the head.
TodoAhead ==
  walk # None =>
    /\ Covers(nxt, On(owner, walk.head), walk.next, walk.head, todo)
    /\ todo \subseteq On(owner, walk.head) \ {walk.head}
    /\ walk.pos = walk.head => todo = {}

WalkInv == Inv /\ OneRing /\ TodoAhead

\* Pointers that are not changed.
LEMMA CoversSame ==
  ASSUME NEW R, NEW nx, NEW m, NEW h, NEW s, NEW T, NEW U,
         \A x \in R \ {h} : m[x] = nx[x], U \subseteq T,
         Covers(nx, R, s, h, T)
  PROVE  Covers(m, R, s, h, U)
BY DEF Covers

\* The pointers m of a ring R after n was put between p and its next one.
Added(nx, m, R, p, n) ==
  /\ p \in R /\ n \notin R /\ \A x \in R : nx[x] \in R
  /\ m[p] = n /\ m[n] = nx[p] /\ \A x \in R : x # p => m[x] = nx[x]

\* Whoever is before that meets the same ones as ever.
LEMMA CoversAdded ==
  ASSUME NEW R, NEW nx, NEW m, NEW h \in R, NEW p, NEW n, Added(nx, m, R, p, n),
         NEW s \in R, NEW T \in SUBSET R, Covers(nx, R, s, h, T)
  PROVE  Covers(m, R \cup {n}, s, h, T)
<1> USE DEF Added
<1> SUFFICES ASSUME NEW S \in SUBSET (R \cup {n}), s \in S, \A x \in S \ {h} : m[x] \in S
             PROVE  T \subseteq S
  BY DEF Covers
<1>1. ASSUME NEW x \in (S \ {n}) \ {h} PROVE nx[x] \in S \ {n}
  <2>1. x \in R /\ nx[x] \in R
    OBVIOUS
  <2>2. CASE x = p
    <3>1. n \in S
      BY <2>2
    <3>2. m[n] \in S
      BY <3>1
    <3> QED
      BY <2>1, <2>2, <3>2
  <2>3. CASE x # p
    BY <2>1, <2>3
  <2> QED
    BY <2>2, <2>3
<1> QED
  BY <1>1 DEF Covers

\* The whole ring with the new node.
LEMMA RingAdded ==
  ASSUME NEW R, NEW nx, NEW m, NEW h \in R, NEW p, NEW n, Added(nx, m, R, p, n),
         Covers(nx, R, nx[h], h, R)
  PROVE  Covers(m, R \cup {n}, m[h], h, R \cup {n})
<1> USE DEF Added
<1> SUFFICES ASSUME NEW S \in SUBSET (R \cup {n}), m[h] \in S, \A x \in S \ {h} : m[x] \in S
             PROVE  R \cup {n} \subseteq S
  BY DEF Covers
<1>1. nx[h] \in S
  <2>1. CASE h = p
    <3>1. n \in S /\ n # h
      BY <2>1
    <3> QED
      BY <2>1, <3>1
  <2> QED
    BY <2>1
<1>2. R \subseteq S
  <2>1. Covers(m, R \cup {n}, nx[h], h, R)
    BY CoversAdded
  <2> QED
    BY <1>1, <2>1 DEF Covers
<1>3. n \in S
  BY <1>2
<1> QED
  BY <1>2, <1>3

\* The pointers m of a ring R after e was taken from between p and its next one.
Cut(nx, m, R, p, e) ==
  /\ p \in R /\ e \in R /\ e # p /\ nx[e] # e /\ \A x \in R : nx[x] \in R
  /\ nx[p] = e /\ \A x \in R : nx[x] = e => x = p
  /\ m[p] = nx[e] /\ \A x \in R : x \notin {p, e} => m[x] = nx[x]

\* Whoever was at e is at the next one.
LEMMA CoversCut ==
  ASSUME NEW R, NEW nx, NEW m, NEW h, NEW e, NEW p, Cut(nx, m, R, p, e), e # h,
         NEW s \in R, NEW t \in R \ {e}, s = t \/ (s = e /\ t = nx[e]),
         NEW T \in SUBSET R, Covers(nx, R, s, h, T)
  PROVE  Covers(m, R \ {e}, t, h, T \ {e})
<1> USE DEF Cut
<1> SUFFICES ASSUME NEW S \in SUBSET (R \ {e}), t \in S, \A x \in S \ {h} : m[x] \in S
             PROVE  T \ {e} \subseteq S
  BY DEF Covers
<1>1. CASE nx[e] \in S
  <2>1. S \cup {e} \in SUBSET R /\ s \in S \cup {e}
    OBVIOUS
  <2>2. ASSUME NEW x \in (S \cup {e}) \ {h} PROVE nx[x] \in S \cup {e}
    BY <1>1
  <2>3. T \subseteq S \cup {e}
    BY <2>1, <2>2 DEF Covers
  <2> QED
    BY <2>3
<1>2. CASE nx[e] \notin S
  <2>1. S \in SUBSET R /\ s \in S
    BY <1>2
  <2>2. ASSUME NEW x \in S \ {h} PROVE nx[x] \in S
    <3>1. x # p /\ x # e
      BY <1>2
    <3> QED
      BY <3>1
  <2>3. T \subseteq S
    BY <2>1, <2>2 DEF Covers
  <2> QED
    BY <2>3
<1> QED
  BY <1>1, <1>2

\* The whole ring without the node.
LEMMA RingCut ==
  ASSUME NEW R, NEW nx, NEW m, NEW h \in R, NEW e, NEW p, Cut(nx, m, R, p, e), e # h,
         Covers(nx, R, nx[h], h, R)
  PROVE  Covers(m, R \ {e}, m[h], h, R \ {e})
<1> USE DEF Cut
<1>1. m[h] \in R \ {e} /\ (nx[h] = m[h] \/ (nx[h] = e /\ m[h] = nx[e]))
  <2>1. CASE h = p
    BY <2>1
  <2>2. CASE h # p
    <3>1. m[h] = nx[h] /\ nx[h] # e /\ nx[h] \in R
      BY <2>2
    <3> QED
      BY <3>1
  <2> QED
    BY <2>1, <2>2
<1>2. nx[e] \in R \ {e} /\ nx[h] \in R /\ R \in SUBSET R
  OBVIOUS
<1> QED
  BY <1>1, <1>2, CoversCut

\* A node by its new name.
Renamed(x, o, n) == IF x = o THEN n ELSE x

\* The pointers m of a ring R after n took the place of o.
Replaced(nx, m, R, o, n) ==
  /\ o \in R /\ n \notin R
  /\ \A x \in R : nx[x] \in R /\ m[Renamed(x, o, n)] = Renamed(nx[x], o, n)

\* Everybody is met as before, n for o.
LEMMA CoversReplaced ==
  ASSUME NEW R, NEW nx, NEW m, NEW h \in R, NEW o, NEW n, Replaced(nx, m, R, o, n),
         NEW s \in R, NEW T \in SUBSET R, Covers(nx, R, s, h, T)
  PROVE  Covers(m, (R \ {o}) \cup {n}, Renamed(s, o, n), Renamed(h, o, n),
                {Renamed(x, o, n) : x \in T})
<1> USE DEF Replaced
<1> SUFFICES ASSUME NEW S \in SUBSET ((R \ {o}) \cup {n}), Renamed(s, o, n) \in S,
                    \A x \in S \ {Renamed(h, o, n)} : m[x] \in S
             PROVE  {Renamed(x, o, n) : x \in T} \subseteq S
  BY DEF Covers
<1> DEFINE B == {x \in R : Renamed(x, o, n) \in S}
<1>1. B \in SUBSET R /\ s \in B
  OBVIOUS
<1>2. ASSUME NEW x \in B \ {h} PROVE nx[x] \in B
  <2>1. x \in R /\ nx[x] \in R /\ Renamed(x, o, n) \in S
    OBVIOUS
  <2>2. Renamed(x, o, n) # Renamed(h, o, n)
    BY <2>1 DEF Renamed
  <2>3. m[Renamed(x, o, n)] \in S
    BY <2>1, <2>2
  <2> QED
    BY <2>1, <2>3
<1>3. T \subseteq B
  <2> HIDE DEF B
  <2> QED
    BY <1>1, <1>2 DEF Covers
<1> QED
  BY <1>3

\* The pointers m after the entries of a ring Q with head l and last entry t went
\* into a ring R behind p.
Joined(nx, m, R, Q, p, l, t) ==
  /\ R \cap Q = {} /\ p \in R /\ l \in Q /\ t \in Q
  /\ nx[t] = l /\ t # l /\ \A x \in Q : nx[x] = l => x = t
  /\ (\A x \in R : nx[x] \in R) /\ \A x \in Q : nx[x] \in Q
  /\ m[p] = nx[l] /\ m[t] = nx[p]
  /\ \A x \in R \cup Q : x \notin {l, p, t} => m[x] = nx[x]

\* Whoever walked in R meets the same ones as ever.
LEMMA CoversJoined ==
  ASSUME NEW R, NEW Q, NEW nx, NEW m, NEW h \in R, NEW l, NEW p, NEW t,
         Joined(nx, m, R, Q, p, l, t), Covers(nx, Q, nx[l], l, Q),
         NEW s \in R, NEW T \in SUBSET R, Covers(nx, R, s, h, T)
  PROVE  Covers(m, R \cup (Q \ {l}), s, h, T)
<1> USE DEF Joined
<1> SUFFICES ASSUME NEW S \in SUBSET (R \cup (Q \ {l})), s \in S,
                    \A x \in S \ {h} : m[x] \in S
             PROVE  T \subseteq S
  BY DEF Covers
<1> DEFINE B == S \cap R
           C == (S \cap Q) \cup {l}
<1>1. ASSUME p \in S, p # h PROVE nx[p] \in S
  <2>1. nx[l] \in C
    BY <1>1
  <2>2. ASSUME NEW x \in C \ {l} PROVE nx[x] \in C
    <3>1. x \in S /\ x \in Q /\ x # h /\ x # p
      OBVIOUS
    <3>2. m[x] \in S
      BY <3>1
    <3> QED
      BY <3>1, <3>2
  <2>3. C \in SUBSET Q
    OBVIOUS
  <2>4. Q \subseteq C
    <3> HIDE DEF C
    <3> QED
      BY <2>1, <2>2, <2>3 DEF Covers
  <2>5. t \in S /\ t # h
    BY <2>4
  <2> QED
    BY <2>5
<1>2. ASSUME NEW x \in B \ {h} PROVE nx[x] \in B
  <2>1. CASE x = p
    BY <1>1, <2>1
  <2>2. CASE x # p
    <3>1. m[x] = nx[x] /\ m[x] \in S /\ nx[x] \in R
      BY <2>2
    <3> QED
      BY <3>1
  <2> QED
    BY <2>1, <2>2
<1>3. B \in SUBSET R /\ s \in B
  OBVIOUS
<1>4. T \subseteq B
  <2> HIDE DEF B
  <2> QED
    BY <1>2, <1>3 DEF Covers
<1> QED
  BY <1>4

\* The whole ring after joining.
LEMMA RingJoined ==
  ASSUME NEW R, NEW Q, NEW nx, NEW m, NEW h \in R, NEW l, NEW p, NEW t,
         Joined(nx, m, R, Q, p, l, t), Covers(nx, Q, nx[l], l, Q), Covers(nx, R, nx[h], h, R)
  PROVE  Covers(m, R \cup (Q \ {l}), m[h], h, R \cup (Q \ {l}))
<1>0. Covers(m, R \cup (Q \ {l}), nx[h], h, R)
  <2>1. PICK s \in R : s = nx[h]
    BY DEF Joined
  <2>2. PICK T \in SUBSET R : T = R
    OBVIOUS
  <2>3. Covers(nx, R, s, h, T)
    BY <2>1, <2>2
  <2>4. Covers(m, R \cup (Q \ {l}), s, h, T)
    BY <2>3, CoversJoined
  <2> QED
    BY <2>1, <2>2, <2>4
<1> USE DEF Joined
<1> SUFFICES ASSUME NEW S \in SUBSET (R \cup (Q \ {l})), m[h] \in S,
                    \A x \in S \ {h} : m[x] \in S
             PROVE  R \cup (Q \ {l}) \subseteq S
  BY DEF Covers
<1> DEFINE C == (S \cap Q) \cup {l}
<1>1. ASSUME nx[l] \in S PROVE Q \ {l} \subseteq S
  <2>1. nx[l] \in C
    BY <1>1
  <2>2. ASSUME NEW x \in C \ {l} PROVE nx[x] \in C
    <3>1. x \in S /\ x \in Q /\ x # h /\ x # p
      OBVIOUS
    <3>2. m[x] \in S
      BY <3>1
    <3> QED
      BY <3>1, <3>2
  <2>3. C \in SUBSET Q
    OBVIOUS
  <2>4. Q \subseteq C
    <3> HIDE DEF C
    <3> QED
      BY <2>1, <2>2, <2>3 DEF Covers
  <2> QED
    BY <2>4
<1>2. nx[h] \in S
  <2>1. CASE p = h
    <3>1. t \in S /\ t # h
      BY <1>1, <2>1
    <3> QED
      BY <2>1, <3>1
  <2>2. CASE p # h
    <3>1. m[h] = nx[h]
      BY <2>2
    <3> QED
      BY <3>1
  <2> QED
    BY <2>1, <2>2
<1>3. R \subseteq S
  BY <1>0, <1>2 DEF Covers
<1>4. nx[l] \in S
  <2>1. p \in S
    BY <1>3
  <2>2. CASE p = h
    BY <2>2
  <2>3. CASE p # h
    <3>1. m[p] \in S
      BY <2>1, <2>3
    <3> QED
      BY <3>1
  <2> QED
    BY <2>2, <2>3
<1> QED
  BY <1>1, <1>3, <1>4

-----------------------------------------------------------------------------
(* The same for all lists at once: nx, ow before a change, m, ow2 after it.   *)

\* Pointers of nodes on a list stay on it, and it has a head.
Onward(nx, ow) ==
  \A x \in Node : ow[x] # None =>
    ow[x] \in Node /\ ow[ow[x]] = ow[x] /\ nx[x] \in Node /\ ow[nx[x]] = ow[x]

AllWhole(nx, ow) == \A h \in Node : ow[h] = h => Whole(nx, ow, h)

\* The way of a walk with head w and next entry s does not lose entries.
WayKept(nx, ow, m, ow2, w, s, T, U) ==
  Covers(nx, On(ow, w), s, w, T) => Covers(m, On(ow2, w), s, w, U)

\* Lists that are not changed.
LEMMA OtherWhole ==
  ASSUME NEW nx, NEW ow, NEW m, NEW ow2, NEW h \in Node,
         \A x \in Node : ow2[x] = h <=> ow[x] = h,
         \A x \in Node : ow[x] = h => m[x] = nx[x],
         ow[h] = h
  PROVE  /\ Whole(nx, ow, h) => Whole(m, ow2, h)
         /\ \A s, T, U : U \subseteq T => WayKept(nx, ow, m, ow2, h, s, T, U)
<1>1. On(ow2, h) = On(ow, h) /\ m[h] = nx[h] /\ \A x \in On(ow, h) : m[x] = nx[x]
  BY DEF On
<1>2. \A s, T, U : U \subseteq T => WayKept(nx, ow, m, ow2, h, s, T, U)
  BY <1>1, CoversSame DEF WayKept
<1>3. Whole(nx, ow, h) => Whole(m, ow2, h)
  BY <1>1, CoversSame DEF Whole
<1> QED
  BY <1>2, <1>3

\* A node n, alone or on no list, goes behind p.
Adding(nx, ow, m, ow2, p, n) ==
  /\ n # p /\ ow[p] \in Node /\ ow[p] # None
  /\ ow[n] = None \/ ow[n] = n
  /\ \A x \in Node : x # n => ow[x] # n
  /\ m[p] = n /\ m[n] = nx[p]
  /\ \A x \in Node : x \notin {p, n} => m[x] = nx[x]
  /\ ow2[n] = ow[p]
  /\ \A x \in Node : x # n => ow2[x] = ow[x]

\* What was on the way to visit still is then.
LEMMA AddKeepsWhole ==
  ASSUME NEW nx, NEW ow, NEW m, NEW ow2, Onward(nx, ow), None \notin Node,
         NEW p \in Node, NEW n \in Node, Adding(nx, ow, m, ow2, p, n)
  PROVE  /\ AllWhole(nx, ow) => AllWhole(m, ow2)
         /\ \A w \in Node \ {n}, s \in Node : \A T, U :
              ow[w] = w /\ ow[s] = w /\ T \subseteq On(ow, w) /\ U \subseteq T
                => WayKept(nx, ow, m, ow2, w, s, T, U)
<1> USE DEF Adding
<1> DEFINE g == ow[p]
<1>1. /\ g \in Node /\ ow[g] = g /\ g # n /\ g # None
      /\ g \in On(ow, g) /\ p \in On(ow, g) /\ n \notin On(ow, g)
      /\ Added(nx, m, On(ow, g), p, n)
      /\ On(ow2, g) = On(ow, g) \cup {n}
  BY DEF Onward, On, Added
<1>2. ASSUME NEW w \in Node, ow2[w] = w, w # g
      PROVE  /\ w # n /\ ow[w] = w
             /\ \A x \in Node : ow2[x] = w <=> ow[x] = w
             /\ \A x \in Node : ow[x] = w => m[x] = nx[x]
  BY <1>1, <1>2
<1>3. ASSUME AllWhole(nx, ow), NEW w \in Node, ow2[w] = w PROVE Whole(m, ow2, w)
  <2>1. CASE w = g
    <3>1. Covers(nx, On(ow, g), nx[g], g, On(ow, g))
      BY <1>1, <1>3 DEF AllWhole, Whole
    <3>2. Covers(m, On(ow, g) \cup {n}, m[g], g, On(ow, g) \cup {n})
      BY <1>1, <3>1, RingAdded
    <3> QED
      BY <1>1, <2>1, <3>2 DEF Whole
  <2>2. CASE w # g
    <3>1. /\ w # n /\ ow[w] = w
          /\ \A x \in Node : ow2[x] = w <=> ow[x] = w
          /\ \A x \in Node : ow[x] = w => m[x] = nx[x]
      BY <1>2, <1>3, <2>2
    <3>2. Whole(nx, ow, w)
      BY <1>3, <3>1 DEF AllWhole
    <3> QED
      BY <3>1, <3>2, OtherWhole
  <2> QED
    BY <2>1, <2>2
<1>4. ASSUME NEW w \in Node \ {n}, NEW s \in Node, NEW T, NEW U,
             ow[w] = w, ow[s] = w, T \subseteq On(ow, w), U \subseteq T
      PROVE  WayKept(nx, ow, m, ow2, w, s, T, U)
  <2>1. CASE w = g
    <3> SUFFICES ASSUME Covers(nx, On(ow, g), s, g, T)
                 PROVE  Covers(m, On(ow, g) \cup {n}, s, g, U)
      BY <1>1, <2>1 DEF WayKept
    <3>1. s \in On(ow, g) /\ T \in SUBSET On(ow, g)
      BY <1>4, <2>1 DEF On
    <3>2. Covers(m, On(ow, g) \cup {n}, s, g, T)
      BY <1>1, <3>1, CoversAdded
    <3> QED
      BY <1>4, <3>2 DEF Covers
  <2>2. CASE w # g
    <3>1. /\ w # n /\ ow[w] = w
          /\ \A x \in Node : ow2[x] = w <=> ow[x] = w
          /\ \A x \in Node : ow[x] = w => m[x] = nx[x]
      BY <1>2, <1>4, <2>2
    <3> QED
      BY <1>4, <3>1, OtherWhole
  <2> QED
    BY <2>1, <2>2
<1> QED
  BY <1>3, <1>4 DEF AllWhole

\* A head without entries is the whole of its list.
LEMMA AloneWhole ==
  ASSUME NEW m, NEW ow2, NEW e \in Node, m[e] = e, ow2[e] = e,
         \A x \in Node : ow2[x] = e => x = e
  PROVE  Whole(m, ow2, e)
<1>1. On(ow2, e) = {e}
  BY DEF On
<1> QED
  BY <1>1 DEF Whole, Covers

\* An entry is not its own neighbour.
LEMMA EntryHasNeighbour ==
  ASSUME NEW nx, NEW ow, Onward(nx, ow), AllWhole(nx, ow), None \notin Node,
         NEW e \in Node, NEW p \in Node, ow[e] # None, ow[e] # e,
         \A x \in Node : ow[x] = ow[e] /\ nx[x] = e => x = p
  PROVE  e # p /\ nx[e] # e
<1> DEFINE g == ow[e]
           S == On(ow, g) \ {e}
<1> SUFFICES ASSUME e = p PROVE FALSE
  OBVIOUS
<1>1. /\ g \in Node /\ ow[g] = g /\ g # e /\ e \in On(ow, g)
      /\ \A x \in On(ow, g) : x \in Node /\ ow[x] = g /\ nx[x] \in On(ow, g)
  BY DEF Onward, On
<1>2. \A x \in S : nx[x] \in S
  BY <1>1
<1>3. g \in S
  BY <1>1 DEF On
<1>4. Covers(nx, On(ow, g), nx[g], g, On(ow, g))
  BY <1>1 DEF AllWhole, Whole
<1>5. On(ow, g) \subseteq S
  <2>1. S \in SUBSET On(ow, g) /\ nx[g] \in S /\ \A x \in S \ {g} : nx[x] \in S
    BY <1>2, <1>3
  <2> QED
    BY <1>4, <2>1 DEF Covers
<1> QED
  BY <1>1, <1>5

\* An entry e leaves its place behind p, for nowhere or to be a list of its own.
LEMMA CutKeepsWhole ==
  ASSUME NEW nx, NEW ow, NEW m, NEW ow2, Onward(nx, ow), AllWhole(nx, ow),
         None \notin Node,
         NEW e \in Node, NEW p \in Node, ow[e] # None, ow[e] # e, ow[p] = ow[e],
         nx[p] = e, \A x \in Node : ow[x] = ow[e] /\ nx[x] = e => x = p,
         m[p] = nx[e], \A x \in Node : x \notin {p, e} => m[x] = nx[x],
         ow2[e] = None \/ (ow2[e] = e /\ m[e] = e),
         \A x \in Node : x # e => ow2[x] = ow[x]
  PROVE  /\ AllWhole(m, ow2)
         /\ Onward(m, ow2)
         /\ \A w \in Node, s \in Node \ {e} : \A T, U :
              ow[w] = w /\ ow[s] = w /\ T \subseteq On(ow, w) /\ U \subseteq T \ {e}
                => WayKept(nx, ow, m, ow2, w, s, T, U)
<1> DEFINE g == ow[e]
<1>1. /\ g \in Node /\ ow[g] = g /\ g # e /\ g # None /\ e # p /\ nx[e] # e
      /\ g \in On(ow, g) /\ Cut(nx, m, On(ow, g), p, e)
      /\ On(ow2, g) = On(ow, g) \ {e}
  <2>1. e # p /\ nx[e] # e
    BY EntryHasNeighbour
  <2>2. g \in Node /\ ow[g] = g /\ g # e /\ g # None
    BY DEF Onward
  <2>3. \A x \in Node : ow[x] = g => nx[x] \in Node /\ ow[nx[x]] = g
    BY <2>2 DEF Onward
  <2>4. g \in On(ow, g) /\ Cut(nx, m, On(ow, g), p, e)
    BY <2>1, <2>2, <2>3 DEF Cut, On
  <2>5. On(ow2, g) = On(ow, g) \ {e}
    BY <2>2 DEF On
  <2> QED
    BY <2>1, <2>2, <2>4, <2>5
<1>2. ASSUME NEW w \in Node, ow[w] = w, w # g
      PROVE  /\ w # e /\ ow2[w] = w
             /\ \A x \in Node : ow2[x] = w <=> ow[x] = w
             /\ \A x \in Node : ow[x] = w => m[x] = nx[x]
  BY <1>1, <1>2
<1>3. Onward(m, ow2)
  <2> SUFFICES ASSUME NEW x \in Node, ow2[x] # None
               PROVE  /\ ow2[x] \in Node /\ ow2[ow2[x]] = ow2[x]
                      /\ m[x] \in Node /\ ow2[m[x]] = ow2[x]
    BY DEF Onward
  <2>1. CASE x = e
    BY <2>1
  <2>2. CASE x # e
    <3>1. ow2[x] = ow[x] /\ ow[x] \in Node /\ ow[ow[x]] = ow[x] /\ ow[x] # e
          /\ nx[x] \in Node /\ ow[nx[x]] = ow[x]
      BY <2>2 DEF Onward
    <3>2. nx[e] \in Node /\ ow[nx[e]] = g /\ nx[e] # e
      BY <1>1 DEF Onward
    <3>3. CASE x = p
      BY <3>1, <3>2, <3>3
    <3>4. CASE x # p
      <4>1. m[x] = nx[x] /\ nx[x] # e
        BY <2>2, <3>1, <3>4, <1>1 DEF Onward
      <4> QED
        BY <3>1, <4>1
    <3> QED
      BY <3>3, <3>4
  <2> QED
    BY <2>1, <2>2
<1>4. ASSUME NEW w \in Node, ow2[w] = w PROVE Whole(m, ow2, w)
  <2>1. CASE w = g
    <3>1. Covers(nx, On(ow, g), nx[g], g, On(ow, g))
      BY <1>1 DEF AllWhole, Whole
    <3>2. Covers(m, On(ow, g) \ {e}, m[g], g, On(ow, g) \ {e})
      BY <1>1, <3>1, RingCut
    <3> QED
      BY <1>1, <2>1, <3>2 DEF Whole
  <2>2. CASE w = e
    <3>1. m[e] = e /\ \A x \in Node : ow2[x] = e => x = e
      BY <1>1, <1>4, <2>2 DEF Onward
    <3> QED
      BY <1>4, <2>2, <3>1, AloneWhole
  <2>3. CASE w # g /\ w # e
    <3>1. ow[w] = w
      BY <1>4, <2>3
    <3>2. /\ \A x \in Node : ow2[x] = w <=> ow[x] = w
          /\ \A x \in Node : ow[x] = w => m[x] = nx[x]
      BY <1>2, <2>3, <3>1
    <3>3. Whole(nx, ow, w)
      BY <3>1 DEF AllWhole
    <3> QED
      BY <3>1, <3>2, <3>3, OtherWhole
  <2> QED
    BY <2>1, <2>2, <2>3
<1>5. ASSUME NEW w \in Node, NEW s \in Node \ {e}, NEW T, NEW U,
             ow[w] = w, ow[s] = w, T \subseteq On(ow, w), U \subseteq T \ {e}
      PROVE  WayKept(nx, ow, m, ow2, w, s, T, U)
  <2>1. CASE w = g
    <3> SUFFICES ASSUME Covers(nx, On(ow, g), s, g, T)
                 PROVE  Covers(m, On(ow, g) \ {e}, s, g, U)
      BY <1>1, <2>1 DEF WayKept
    <3>1. s \in On(ow, g) \ {e} /\ s \in On(ow, g) /\ T \in SUBSET On(ow, g)
      BY <1>5, <2>1 DEF On
    <3>2. Covers(m, On(ow, g) \ {e}, s, g, T \ {e})
      BY <1>1, <3>1, CoversCut
    <3> QED
      BY <1>5, <3>2 DEF Covers
  <2>2. CASE w # g
    <3>1. /\ \A x \in Node : ow2[x] = w <=> ow[x] = w
          /\ \A x \in Node : ow[x] = w => m[x] = nx[x]
      BY <1>2, <1>5, <2>2
    <3>2. U \subseteq T
      BY <1>5
    <3> QED
      BY <1>5, <3>1, <3>2, OtherWhole
  <2> QED
    BY <2>1, <2>2
<1> QED
  BY <1>3, <1>4, <1>5 DEF AllWhole

\* A node n takes the place of o, which ends nowhere or as a list of its own.
LEMMA ReplaceKeepsWhole ==
  ASSUME NEW nx, NEW ow, NEW m, NEW ow2, Onward(nx, ow), AllWhole(nx, ow),
         None \notin Node,
         NEW o \in Node, NEW n \in Node, ow[o] # None, ow[n] = None,
         \A x \in Node : ow[x] = ow[o] => m[Renamed(x, o, n)] = Renamed(nx[x], o, n),
         \A x \in Node : ow[x] \notin {None, ow[o]} => m[x] = nx[x],
         ow2[o] = None \/ (ow2[o] = o /\ m[o] = o),
         ow2[n] = Renamed(ow[o], o, n),
         \A x \in Node : x \notin {o, n} => ow2[x] = Renamed(ow[x], o, n)
  PROVE  /\ AllWhole(m, ow2)
         /\ \A w \in Node \ {o}, s \in Node \ {o} : \A T, U :
              ow[w] = w /\ ow[s] = w /\ T \subseteq On(ow, w) /\ U \subseteq T \ {o}
                => WayKept(nx, ow, m, ow2, w, s, T, U)
<1> DEFINE g == ow[o]
           k == Renamed(g, o, n)
<1>1. /\ g \in Node /\ ow[g] = g /\ g # n /\ g # None /\ o # n /\ k \in Node /\ k # o
      /\ g \in On(ow, g) /\ Replaced(nx, m, On(ow, g), o, n)
      /\ On(ow2, k) = (On(ow, g) \ {o}) \cup {n}
      /\ m[k] = Renamed(nx[g], o, n) /\ nx[g] \in On(ow, g)
  <2>1. g \in Node /\ ow[g] = g /\ g # n /\ g # None /\ o # n /\ k \in Node /\ k # o
    BY DEF Onward, Renamed
  <2>2. \A x \in Node : ow[x] = g => nx[x] \in Node /\ ow[nx[x]] = g
    BY <2>1 DEF Onward
  <2>3. g \in On(ow, g) /\ Replaced(nx, m, On(ow, g), o, n)
    BY <2>1, <2>2 DEF Replaced, On
  <2>4. ASSUME NEW x \in Node PROVE ow2[x] = k <=> (x = n \/ (x # o /\ ow[x] = g))
    <3>1. CASE x = o
      BY <2>1, <3>1
    <3>2. CASE x = n
      BY <2>1, <3>2
    <3>3. CASE x # o /\ x # n
      BY <2>1, <3>3 DEF Renamed, Onward
    <3> QED
      BY <3>1, <3>2, <3>3
  <2>5. On(ow2, k) = (On(ow, g) \ {o}) \cup {n}
    BY <2>1, <2>4 DEF On
  <2>6. m[k] = Renamed(nx[g], o, n) /\ nx[g] \in On(ow, g)
    BY <2>1, <2>2 DEF On
  <2> QED
    BY <2>1, <2>3, <2>5, <2>6
<1>2. ASSUME NEW w \in Node, ow[w] = w, w # g
      PROVE  /\ w # o /\ w # n
             /\ \A x \in Node : ow2[x] = w <=> ow[x] = w
             /\ \A x \in Node : ow[x] = w => m[x] = nx[x]
  <2>1. w # o /\ w # n /\ w # k
    BY <1>1, <1>2 DEF Renamed
  <2>2. ASSUME NEW x \in Node PROVE ow2[x] = w <=> ow[x] = w
    <3>1. CASE x = o
      BY <1>1, <1>2, <2>1, <3>1
    <3>2. CASE x = n
      BY <1>1, <1>2, <2>1, <3>2
    <3>3. CASE x # o /\ x # n
      BY <1>1, <1>2, <2>1, <3>3 DEF Renamed, Onward
    <3> QED
      BY <3>1, <3>2, <3>3
  <2>3. \A x \in Node : ow[x] = w => m[x] = nx[x]
    BY <1>2
  <2> QED
    BY <2>1, <2>2, <2>3
<1>3. ASSUME NEW w \in Node, ow2[w] = w PROVE Whole(m, ow2, w)
  <2>1. CASE w = k
    <3>1. Covers(nx, On(ow, g), nx[g], g, On(ow, g))
      BY <1>1 DEF AllWhole, Whole
    <3>2. On(ow, g) \in SUBSET On(ow, g)
      OBVIOUS
    <3>3. Covers(m, (On(ow, g) \ {o}) \cup {n}, Renamed(nx[g], o, n), Renamed(g, o, n),
                 {Renamed(x, o, n) : x \in On(ow, g)})
      BY <1>1, <3>1, <3>2, CoversReplaced
    <3>4. Covers(m, On(ow2, k), m[k], k, {Renamed(x, o, n) : x \in On(ow, g)})
      BY <1>1, <3>3
    <3>5. On(ow2, k) \subseteq {Renamed(x, o, n) : x \in On(ow, g)}
      <4>1. o \in On(ow, g) /\ n = Renamed(o, o, n)
        BY <1>1 DEF On, Renamed
      <4>2. \A x \in On(ow, g) \ {o} : x = Renamed(x, o, n)
        BY DEF Renamed
      <4> QED
        BY <1>1, <4>1, <4>2
    <3> QED
      BY <2>1, <3>4, <3>5 DEF Whole, Covers
  <2>2. CASE w = o
    <3>1. m[o] = o /\ \A x \in Node : ow2[x] = o => x = o
      <4>1. m[o] = o
        BY <1>3, <2>2
      <4>2. ASSUME NEW x \in Node, ow2[x] = o, x # o PROVE FALSE
        <5>1. x # n
          BY <1>1, <4>2
        <5>2. ow2[x] = Renamed(ow[x], o, n)
          BY <4>2, <5>1
        <5> QED
          BY <1>1, <4>2, <5>2 DEF Renamed
      <4> QED
        BY <4>1, <4>2
    <3> QED
      BY <1>3, <2>2, <3>1, AloneWhole
  <2>3. CASE w # k /\ w # o
    <3>1. ow[w] = w /\ w # g
      BY <1>1, <1>3, <2>3 DEF Renamed, Onward
    <3>2. /\ \A x \in Node : ow2[x] = w <=> ow[x] = w
          /\ \A x \in Node : ow[x] = w => m[x] = nx[x]
      BY <1>2, <3>1
    <3>3. Whole(nx, ow, w)
      BY <3>1 DEF AllWhole
    <3> QED
      BY <3>1, <3>2, <3>3, OtherWhole
  <2> QED
    BY <2>1, <2>2, <2>3
<1>4. ASSUME NEW w \in Node \ {o}, NEW s \in Node \ {o}, NEW T, NEW U,
             ow[w] = w, ow[s] = w, T \subseteq On(ow, w), U \subseteq T \ {o}
      PROVE  WayKept(nx, ow, m, ow2, w, s, T, U)
  <2>1. CASE w = g
    <3>1. k = w /\ Renamed(s, o, n) = s /\ Renamed(g, o, n) = w
      BY <1>1, <1>4, <2>1 DEF Renamed
    <3> SUFFICES ASSUME Covers(nx, On(ow, g), s, g, T)
                 PROVE  Covers(m, On(ow2, k), s, w, U)
      BY <2>1, <3>1 DEF WayKept
    <3>2. s \in On(ow, g) /\ T \in SUBSET On(ow, g)
      BY <1>4, <2>1 DEF On
    <3>3. Covers(m, (On(ow, g) \ {o}) \cup {n}, Renamed(s, o, n), Renamed(g, o, n),
                 {Renamed(x, o, n) : x \in T})
      BY <1>1, <3>2, CoversReplaced
    <3>4. Covers(m, On(ow2, k), s, w, {Renamed(x, o, n) : x \in T})
      BY <1>1, <3>1, <3>3
    <3>5. U \subseteq {Renamed(x, o, n) : x \in T}
      BY <1>4 DEF Renamed
    <3> QED
      BY <3>4, <3>5 DEF Covers
  <2>2. CASE w # g
    <3>1. /\ \A x \in Node : ow2[x] = w <=> ow[x] = w
          /\ \A x \in Node : ow[x] = w => m[x] = nx[x]
      BY <1>2, <1>4, <2>2
    <3>2. U \subseteq T
      BY <1>4
    <3> QED
      BY <1>4, <3>1, <3>2, OtherWhole
  <2> QED
    BY <2>1, <2>2
<1> QED
  BY <1>3, <1>4 DEF AllWhole

\* The entries of the list of l, the last of which is t, go behind p on another
\* list; l ends nowhere or as an empty list.
Joining(nx, ow, m, ow2, l, p, t) ==
  /\ ow[l] = l /\ ow[p] # None /\ ow[p] # l /\ ow[t] = l /\ nx[t] = l /\ t # l
  /\ \A x \in Node : ow[x] = l /\ nx[x] = l => x = t
  /\ m[p] = nx[l] /\ m[t] = nx[p]
  /\ \A x \in Node : x \notin {l, p, t} => m[x] = nx[x]
  /\ ow2[l] = None \/ (ow2[l] = l /\ m[l] = l)
  /\ \A x \in Node : x # l => ow2[x] = IF ow[x] = l THEN ow[p] ELSE ow[x]

\* What was on the way to visit still is then.
LEMMA JoinKeepsWhole ==
  ASSUME NEW nx, NEW ow, NEW m, NEW ow2, Onward(nx, ow), AllWhole(nx, ow),
         None \notin Node,
         NEW l \in Node, NEW p \in Node, NEW t \in Node, Joining(nx, ow, m, ow2, l, p, t)
  PROVE  /\ AllWhole(m, ow2)
         /\ \A w \in Node \ {l}, s \in Node : \A T, U :
              ow[w] = w /\ ow[s] = w /\ T \subseteq On(ow, w) /\ U \subseteq T
                => WayKept(nx, ow, m, ow2, w, s, T, U)
<1> USE DEF Joining
<1> DEFINE g == ow[p]
<1>1. /\ g \in Node /\ ow[g] = g /\ g # l /\ g # None
      /\ g \in On(ow, g) /\ Joined(nx, m, On(ow, g), On(ow, l), p, l, t)
      /\ On(ow2, g) = On(ow, g) \cup (On(ow, l) \ {l})
      /\ Covers(nx, On(ow, l), nx[l], l, On(ow, l))
  <2>1. g \in Node /\ ow[g] = g /\ g # l /\ g # None /\ l # None
    BY DEF Onward
  <2>2. \A x \in Node : ow[x] \in {g, l} => nx[x] \in Node /\ ow[nx[x]] = ow[x]
    BY <2>1 DEF Onward
  <2>3. g \in On(ow, g) /\ Joined(nx, m, On(ow, g), On(ow, l), p, l, t)
    BY <2>1, <2>2 DEF Joined, On
  <2>4. On(ow2, g) = On(ow, g) \cup (On(ow, l) \ {l})
    BY <2>1 DEF On
  <2>5. Covers(nx, On(ow, l), nx[l], l, On(ow, l))
    BY DEF AllWhole, Whole
  <2> QED
    BY <2>1, <2>3, <2>4, <2>5
<1>2. ASSUME NEW w \in Node, ow[w] = w, w # g, w # l
      PROVE  /\ \A x \in Node : ow2[x] = w <=> ow[x] = w
             /\ \A x \in Node : ow[x] = w => m[x] = nx[x]
  BY <1>1, <1>2
<1>3. ASSUME NEW w \in Node, ow2[w] = w PROVE Whole(m, ow2, w)
  <2>1. CASE w = g
    <3>1. Covers(nx, On(ow, g), nx[g], g, On(ow, g))
      BY <1>1 DEF AllWhole, Whole
    <3>2. Covers(m, On(ow, g) \cup (On(ow, l) \ {l}), m[g], g,
                 On(ow, g) \cup (On(ow, l) \ {l}))
      BY <1>1, <3>1, RingJoined
    <3> QED
      BY <1>1, <2>1, <3>2 DEF Whole
  <2>2. CASE w = l
    <3>1. m[l] = l /\ \A x \in Node : ow2[x] = l => x = l
      BY <1>1, <1>3, <2>2
    <3> QED
      BY <1>3, <2>2, <3>1, AloneWhole
  <2>3. CASE w # g /\ w # l
    <3>1. ow[w] = w
      BY <1>3, <2>3
    <3>2. /\ \A x \in Node : ow2[x] = w <=> ow[x] = w
          /\ \A x \in Node : ow[x] = w => m[x] = nx[x]
      BY <1>2, <2>3, <3>1
    <3>3. Whole(nx, ow, w)
      BY <3>1 DEF AllWhole
    <3> QED
      BY <3>1, <3>2, <3>3, OtherWhole
  <2> QED
    BY <2>1, <2>2, <2>3
<1>4. ASSUME NEW w \in Node \ {l}, NEW s \in Node, NEW T, NEW U,
             ow[w] = w, ow[s] = w, T \subseteq On(ow, w), U \subseteq T
      PROVE  WayKept(nx, ow, m, ow2, w, s, T, U)
  <2>1. CASE w = g
    <3> SUFFICES ASSUME Covers(nx, On(ow, g), s, g, T)
                 PROVE  Covers(m, On(ow2, g), s, g, U)
      BY <2>1 DEF WayKept
    <3>1. s \in On(ow, g) /\ T \in SUBSET On(ow, g)
      BY <1>4, <2>1 DEF On
    <3>2. Covers(m, On(ow2, g), s, g, T)
      BY <1>1, <3>1, CoversJoined
    <3> QED
      BY <1>4, <3>2 DEF Covers
  <2>2. CASE w # g
    <3>1. /\ \A x \in Node : ow2[x] = w <=> ow[x] = w
          /\ \A x \in Node : ow[x] = w => m[x] = nx[x]
      BY <1>2, <1>4, <2>2
    <3> QED
      BY <1>4, <3>1, OtherWhole
  <2> QED
    BY <2>1, <2>2
<1> QED
  BY <1>3, <1>4 DEF AllWhole

-----------------------------------------------------------------------------
(* The operations.                                                         *)

\* What the lemmas above ask of the lists and of the walk.
LEMMA ListFacts ==
  ASSUME WalkInv
  PROVE  /\ Onward(nxt, owner) /\ AllWhole(nxt, owner) /\ None \notin Node
         /\ walk # None =>
              /\ walk.head \in Node /\ owner[walk.head] = walk.head
              /\ walk.next \in Node /\ owner[walk.next] = walk.head
              /\ todo \subseteq On(owner, walk.head)
<1>1. Onward(nxt, owner)
  BY ListAssumption DEF WalkInv, Inv, TypeOK, Rings, Onward, Linked, Free, Heads
<1>2. AllWhole(nxt, owner)
  BY DEF WalkInv, OneRing, AllWhole, Heads
<1>3. walk # None =>
              /\ walk.head \in Node /\ owner[walk.head] = walk.head
              /\ walk.next \in Node /\ owner[walk.next] = walk.head
              /\ todo \subseteq On(owner, walk.head)
  BY DEF WalkInv, Inv, WalkOnList, TodoAhead, Heads, Linked, Free
<1> QED
  BY <1>1, <1>2, <1>3, ListAssumption

\* What is left to show of a step that leaves the walk where it is.
LEMMA WalkStays ==
  ASSUME WalkInv, Inv', AllWhole(nxt', owner'), walk' = walk, todo' \subseteq todo,
         walk # None =>
           /\ \A x \in todo' : owner'[x] = walk.head
           /\ WayKept(nxt, owner, nxt', owner', walk.head, walk.next, todo, todo')
  PROVE  WalkInv'
<1>1. OneRing'
  BY DEF OneRing, AllWhole, Heads
<1>2. TodoAhead'
  <2> SUFFICES ASSUME walk # None
               PROVE  /\ Covers(nxt', On(owner', walk.head), walk.next, walk.head, todo')
                      /\ todo' \subseteq On(owner', walk.head) \ {walk.head}
                      /\ walk.pos = walk.head => todo' = {}
    BY DEF TodoAhead
  <2>1. /\ Covers(nxt, On(owner, walk.head), walk.next, walk.head, todo)
        /\ todo \subseteq On(owner, walk.head) \ {walk.head}
        /\ walk.pos = walk.head => todo = {}
    BY DEF WalkInv, TodoAhead
  <2>2. Covers(nxt', On(owner', walk.head), walk.next, walk.head, todo')
    BY <2>1 DEF WayKept
  <2>3. todo' \subseteq On(owner', walk.head) \ {walk.head}
    BY <2>1 DEF On
  <2> QED
    BY <2>1, <2>2, <2>3
<1> QED
  BY <1>1, <1>2 DEF WalkInv

\* A new list has its head only.
LEMMA HeadInitVisits ==
  ASSUME WalkInv, NEW n \in Node, EWX_LIST_HEAD_INIT(n)
  PROVE  WalkInv'
<1>1. /\ n \in Node /\ owner[n] = None /\ walk' = walk /\ todo' = todo
      /\ nxt'[n] = n /\ \A x \in Node : x # n => nxt'[x] = nxt[x]
      /\ owner'[n] = n /\ \A x \in Node : x # n => owner'[x] = owner[x]
  BY DEF EWX_LIST_HEAD_INIT, WalkInv, Inv, TypeOK, Free
<1>2. Inv'
  BY EwxListHeadInitKeeps DEF WalkInv
<1>3. ASSUME NEW w \in Node, owner[w] = w
      PROVE  /\ \A x \in Node : owner'[x] = w <=> owner[x] = w
             /\ \A x \in Node : owner[x] = w => nxt'[x] = nxt[x]
  BY <1>1, <1>3, ListAssumption
<1>4. AllWhole(nxt', owner')
  <2> SUFFICES ASSUME NEW w \in Node, owner'[w] = w PROVE Whole(nxt', owner', w)
    BY DEF AllWhole
  <2>1. CASE w = n
    <3>1. \A x \in Node : owner'[x] = n => x = n
      BY <1>1, ListFacts DEF Onward
    <3> QED
      BY <1>1, <2>1, <3>1, AloneWhole
  <2>2. CASE w # n
    <3>1. owner[w] = w
      BY <1>1, <2>2
    <3>2. Whole(nxt, owner, w)
      BY <3>1, ListFacts DEF AllWhole
    <3> QED
      BY <1>3, <3>1, <3>2, OtherWhole
  <2> QED
    BY <2>1, <2>2
<1>5. ASSUME walk # None
      PROVE  /\ \A x \in todo' : owner'[x] = walk.head
             /\ WayKept(nxt, owner, nxt', owner', walk.head, walk.next, todo, todo')
  <2>1. walk.head \in Node /\ owner[walk.head] = walk.head /\ todo \subseteq On(owner, walk.head)
    BY <1>5, ListFacts
  <2>2. \A x \in todo' : owner'[x] = walk.head
    BY <1>1, <1>3, <2>1 DEF On
  <2>3. todo' \subseteq todo
    BY <1>1
  <2> QED
    BY <1>3, <2>1, <2>2, <2>3, OtherWhole
<1>6. walk' = walk /\ todo' \subseteq todo
  BY <1>1
<1> QED
  BY <1>2, <1>4, <1>5, <1>6, WalkStays

\* An entry that is added lies on the way, what was on it still does.
LEMMA AddVisits ==
  ASSUME WalkInv, Inv', NEW n \in Node, NEW p \in Node, n \in Addable, p \in Linked \ {n},
         Spared(n), walk' = walk, todo' = todo,
         nxt'[p] = n, nxt'[n] = nxt[p], \A x \in Node : x \notin {p, n} => nxt'[x] = nxt[x],
         owner'[n] = owner[p], \A x \in Node : x # n => owner'[x] = owner[x]
  PROVE  WalkInv'
<1>1. /\ Onward(nxt, owner) /\ AllWhole(nxt, owner) /\ None \notin Node
      /\ n # p /\ owner[p] \in Node /\ owner[p] # None
      /\ owner[n] = None \/ owner[n] = n
      /\ \A x \in Node : x # n => owner[x] # n
  BY ListFacts DEF Addable, Free, Linked, Heads, Entries, Onward
<1>2. /\ AllWhole(nxt', owner')
      /\ \A w \in Node \ {n}, s \in Node : \A T, U :
           owner[w] = w /\ owner[s] = w /\ T \subseteq On(owner, w) /\ U \subseteq T
             => WayKept(nxt, owner, nxt', owner', w, s, T, U)
  <2>1. Adding(nxt, owner, nxt', owner', p, n)
    BY <1>1 DEF Adding
  <2> QED
    BY <1>1, <2>1, AddKeepsWhole
<1>3. ASSUME walk # None
      PROVE  /\ \A x \in todo' : owner'[x] = walk.head
             /\ WayKept(nxt, owner, nxt', owner', walk.head, walk.next, todo, todo')
  <2>1. /\ walk.head \in Node \ {n} /\ owner[walk.head] = walk.head
        /\ walk.next \in Node /\ owner[walk.next] = walk.head
        /\ todo \subseteq On(owner, walk.head)
    BY <1>3, ListFacts DEF Spared
  <2>2. \A x \in todo' : owner'[x] = walk.head
    BY <1>1, <2>1 DEF On
  <2> QED
    BY <1>2, <2>1, <2>2
<1> QED
  BY <1>2, <1>3, WalkStays

\* Behind h.
LEMMA ListAddVisits ==
  ASSUME WalkInv, NEW n \in Node, NEW h \in Node, ewx_list_add(n, h)
  PROVE  WalkInv'
<1>1. Inv'
  BY EwxListAddKeeps DEF WalkInv
<1>2. /\ n \in Addable /\ h \in Linked \ {n} /\ Spared(n) /\ walk' = walk /\ todo' = todo
      /\ nxt'[h] = n /\ nxt'[n] = nxt[h] /\ \A x \in Node : x \notin {h, n} => nxt'[x] = nxt[x]
      /\ owner'[n] = owner[h] /\ \A x \in Node : x # n => owner'[x] = owner[x]
  BY DEF ewx_list_add, AddedNext, WalkInv, Inv, TypeOK
<1> QED
  BY <1>1, <1>2, AddVisits

\* Before h, which is behind the node before it.
LEMMA ListAddTailVisits ==
  ASSUME WalkInv, NEW n \in Node, NEW h \in Node, ewx_list_add_tail(n, h)
  PROVE  WalkInv'
<1>1. Inv'
  BY EwxListAddTailKeeps DEF WalkInv
<1>2. PICK p \in Node : p = prv[h]
  BY DEF ewx_list_add_tail, WalkInv, Inv, Rings, Linked
<1>3. p \in Linked \ {n} /\ nxt[p] = h /\ owner[p] = owner[h]
  BY <1>2, ListAssumption
  DEF ewx_list_add_tail, WalkInv, Inv, TypeOK, Rings, Linked, Free, Addable, Heads, Entries
<1>4. /\ n \in Addable /\ Spared(n) /\ walk' = walk /\ todo' = todo
      /\ nxt'[p] = n /\ nxt'[n] = nxt[p] /\ \A x \in Node : x \notin {p, n} => nxt'[x] = nxt[x]
      /\ owner'[n] = owner[p] /\ \A x \in Node : x # n => owner'[x] = owner[x]
  BY <1>2, <1>3 DEF ewx_list_add_tail, AddedNext, WalkInv, Inv, TypeOK
<1> QED
  BY <1>1, <1>3, <1>4, AddVisits

\* What an operation that takes the entry e out finds.
LEMMA EntryFacts ==
  ASSUME WalkInv, NEW e \in Entries
  PROVE  /\ e \in Node /\ prv[e] \in Node /\ owner[e] # None /\ owner[e] # e
         /\ owner[prv[e]] = owner[e] /\ nxt[prv[e]] = e /\ nxt[e] \in Node
         /\ owner[nxt[e]] = owner[e]
         /\ \A x \in Node : owner[x] = owner[e] /\ nxt[x] = e => x = prv[e]
         /\ prv[e] # e /\ nxt[e] # e
<1>1. /\ e \in Node /\ prv[e] \in Node /\ owner[e] # None /\ owner[e] # e
      /\ owner[prv[e]] = owner[e] /\ nxt[prv[e]] = e /\ nxt[e] \in Node
      /\ owner[nxt[e]] = owner[e]
      /\ \A x \in Node : owner[x] = owner[e] /\ nxt[x] = e => x = prv[e]
  BY DEF WalkInv, Inv, Rings, Entries, Linked, Free, Heads
<1>2. prv[e] # e /\ nxt[e] # e
  BY <1>1, ListFacts, EntryHasNeighbour
<1> QED
  BY <1>1, <1>2

\* An entry that is taken out is not to be visited any more, all others are.
LEMMA CutVisits ==
  ASSUME WalkInv, Inv', NEW e \in Node, e \in Entries, Spared(e),
         walk' = walk, todo' = todo \ {e}, nxt'[prv[e]] = nxt[e],
         \A x \in Node : x \notin {prv[e], e} => nxt'[x] = nxt[x],
         owner'[e] = None \/ (owner'[e] = e /\ nxt'[e] = e),
         \A x \in Node : x # e => owner'[x] = owner[x]
  PROVE  WalkInv'
<1> DEFINE p == prv[e]
<1>1. /\ Onward(nxt, owner) /\ AllWhole(nxt, owner) /\ None \notin Node
      /\ p \in Node /\ owner[e] # None /\ owner[e] # e /\ owner[p] = owner[e]
      /\ nxt[p] = e /\ \A x \in Node : owner[x] = owner[e] /\ nxt[x] = e => x = p
  BY ListFacts, EntryFacts
<1>2. /\ AllWhole(nxt', owner')
      /\ \A w \in Node, s \in Node \ {e} : \A T, U :
           owner[w] = w /\ owner[s] = w /\ T \subseteq On(owner, w) /\ U \subseteq T \ {e}
             => WayKept(nxt, owner, nxt', owner', w, s, T, U)
  BY <1>1, CutKeepsWhole
<1>3. ASSUME walk # None
      PROVE  /\ \A x \in todo' : owner'[x] = walk.head
             /\ WayKept(nxt, owner, nxt', owner', walk.head, walk.next, todo, todo')
  <2>1. /\ walk.head \in Node /\ owner[walk.head] = walk.head
        /\ walk.next \in Node \ {e} /\ owner[walk.next] = walk.head
        /\ todo \subseteq On(owner, walk.head)
    BY <1>3, ListFacts DEF Spared
  <2>2. \A x \in todo' : owner'[x] = walk.head
    BY <2>1 DEF On
  <2>3. todo' \subseteq todo \ {e}
    OBVIOUS
  <2> QED
    BY <1>2, <2>1, <2>2, <2>3
<1> QED
  BY <1>2, <1>3, WalkStays

\* An entry that is deleted.
LEMMA ListDelVisits ==
  ASSUME WalkInv, NEW e \in Node, ewx_list_del(e)
  PROVE  WalkInv'
<1>1. Inv'
  BY EwxListDelKeeps DEF WalkInv
<1>2. e \in Entries /\ Spared(e) /\ prv[e] # e
  BY EntryFacts DEF ewx_list_del
<1>3. /\ walk' = walk /\ todo' = todo \ {e} /\ nxt'[prv[e]] = nxt[e]
      /\ \A x \in Node : x \notin {prv[e], e} => nxt'[x] = nxt[x]
      /\ owner'[e] = None /\ \A x \in Node : x # e => owner'[x] = owner[x]
  BY <1>2, EntryFacts DEF ewx_list_del, CutNext, WalkInv, Inv, TypeOK
<1> QED
  BY <1>1, <1>2, <1>3, CutVisits

\* An entry that becomes a list of its own.
LEMMA ListDelInitVisits ==
  ASSUME WalkInv, NEW e \in Node, list_del_init(e)
  PROVE  WalkInv'
<1>1. Inv'
  BY ListDelInitKeeps DEF WalkInv
<1>2. e \in Entries /\ Spared(e) /\ prv[e] # e
  BY EntryFacts DEF list_del_init
<1>3. /\ walk' = walk /\ todo' = todo \ {e} /\ nxt'[prv[e]] = nxt[e]
      /\ \A x \in Node : x \notin {prv[e], e} => nxt'[x] = nxt[x]
      /\ owner'[e] = e /\ nxt'[e] = e /\ \A x \in Node : x # e => owner'[x] = owner[x]
  BY <1>2, EntryFacts DEF list_del_init, CutNext, WalkInv, Inv, TypeOK
<1> QED
  BY <1>1, <1>2, <1>3, CutVisits

\* An entry that moves is taken out, which gives the pointers nx, and put behind q.
LEMMA MoveVisits ==
  ASSUME WalkInv, Inv', NEW e \in Node, NEW q \in Node, NEW nx,
         e \in Entries, Spared(e), q \in Linked \ {e},
         walk' = walk, todo' = todo \ {e},
         nx[prv[e]] = nxt[e], \A x \in Node : x # prv[e] => nx[x] = nxt[x],
         nxt'[q] = e, nxt'[e] = nx[q], \A x \in Node : x \notin {q, e} => nxt'[x] = nx[x],
         owner'[e] = owner[q], \A x \in Node : x # e => owner'[x] = owner[x]
  PROVE  WalkInv'
<1> DEFINE p == prv[e]
<1>1. /\ Onward(nxt, owner) /\ AllWhole(nxt, owner) /\ None \notin Node
      /\ p \in Node /\ owner[e] # None /\ owner[e] # e /\ owner[p] = owner[e]
      /\ nxt[p] = e /\ \A x \in Node : owner[x] = owner[e] /\ nxt[x] = e => x = p
  BY ListFacts, EntryFacts
<1>2. PICK ow : ow = [x \in Node |-> IF x = e THEN None ELSE owner[x]]
  OBVIOUS
<1>3. ow[e] = None /\ \A x \in Node : x # e => ow[x] = owner[x]
  BY <1>2
<1>4. /\ AllWhole(nx, ow) /\ Onward(nx, ow)
      /\ \A w \in Node, s \in Node \ {e} : \A T, U :
           owner[w] = w /\ owner[s] = w /\ T \subseteq On(owner, w) /\ U \subseteq T \ {e}
             => WayKept(nxt, owner, nx, ow, w, s, T, U)
  <2>1. \A x \in Node : x \notin {p, e} => nx[x] = nxt[x]
    OBVIOUS
  <2> QED
    BY <1>1, <1>3, <2>1, CutKeepsWhole
<1>5. /\ ow[q] = owner[q] /\ ow[q] \in Node /\ ow[q] # None /\ q # e
      /\ \A x \in Node : x # e => ow[x] # e
      /\ owner'[e] = ow[q] /\ \A x \in Node : x # e => owner'[x] = ow[x]
  <2>1. owner[q] # None /\ q # e
    BY DEF Linked, Free
  <2>2. \A x \in Node : owner[x] # e
    BY <1>1 DEF Onward
  <2> QED
    BY <1>1, <1>3, <2>1, <2>2 DEF Onward
<1>6. /\ AllWhole(nxt', owner')
      /\ \A w \in Node \ {e}, s \in Node : \A T, U :
           ow[w] = w /\ ow[s] = w /\ T \subseteq On(ow, w) /\ U \subseteq T
             => WayKept(nx, ow, nxt', owner', w, s, T, U)
  <2>1. Adding(nx, ow, nxt', owner', q, e)
    BY <1>1, <1>3, <1>4, <1>5 DEF Adding
  <2> QED
    BY <1>1, <1>3, <1>4, <2>1, AddKeepsWhole
<1>7. ASSUME walk # None
      PROVE  /\ \A x \in todo' : owner'[x] = walk.head
             /\ WayKept(nxt, owner, nxt', owner', walk.head, walk.next, todo, todo')
  <2>1. /\ walk.head \in Node /\ owner[walk.head] = walk.head /\ walk.head # e
        /\ walk.next \in Node \ {e} /\ owner[walk.next] = walk.head
        /\ todo \subseteq On(owner, walk.head)
    BY <1>7, ListFacts DEF Spared
  <2>2. \A x \in todo' : owner'[x] = walk.head
    BY <2>1 DEF On
  <2>3. /\ todo' \subseteq todo \ {e} /\ todo' \subseteq todo' /\ todo' \subseteq On(ow, walk.head)
        /\ ow[walk.head] = walk.head /\ ow[walk.next] = walk.head
    BY <1>3, <2>1 DEF On
  <2>4. WayKept(nxt, owner, nx, ow, walk.head, walk.next, todo, todo')
    BY <1>4, <2>1, <2>3
  <2>5. WayKept(nx, ow, nxt', owner', walk.head, walk.next, todo', todo')
    BY <1>6, <2>1, <2>3
  <2> QED
    BY <2>2, <2>4, <2>5 DEF WayKept
<1> QED
  BY <1>6, <1>7, WalkStays

\* Behind h.
LEMMA ListMoveVisits ==
  ASSUME WalkInv, NEW e \in Node, NEW h \in Node, ewx_list_move(e, h)
  PROVE  WalkInv'
<1>1. Inv'
  BY EwxListMoveKeeps DEF WalkInv
<1>2. /\ e \in Entries /\ Spared(e) /\ h \in Linked \ {e}
      /\ walk' = walk /\ todo' = todo \ {e}
  BY DEF ewx_list_move
<1>3. PICK nx : nx = [nxt EXCEPT ![prv[e]] = nxt[e]]
  OBVIOUS
<1>4. nx[prv[e]] = nxt[e] /\ \A x \in Node : x # prv[e] => nx[x] = nxt[x]
  BY <1>2, <1>3, EntryFacts DEF WalkInv, Inv, TypeOK
<1>5. nxt' = [nx EXCEPT ![e] = nx[h], ![h] = e]
  BY <1>3 DEF ewx_list_move, AddedNext, CutNext
<1>6. nxt'[h] = e /\ nxt'[e] = nx[h] /\ \A x \in Node : x \notin {h, e} => nxt'[x] = nx[x]
  BY <1>2, <1>3, <1>5 DEF WalkInv, Inv, TypeOK
<1>7. owner'[e] = owner[h] /\ \A x \in Node : x # e => owner'[x] = owner[x]
  BY DEF ewx_list_move, WalkInv, Inv, TypeOK
<1> QED
  BY <1>1, <1>2, <1>4, <1>6, <1>7, MoveVisits

\* Before h, which is behind the node before it when the entry is out.
LEMMA ListMoveTailVisits ==
  ASSUME WalkInv, NEW e \in Node, NEW h \in Node, ewx_list_move_tail(e, h)
  PROVE  WalkInv'
<1>1. Inv'
  BY EwxListMoveTailKeeps DEF WalkInv
<1>2. /\ e \in Entries /\ Spared(e) /\ h \in Linked \ {e}
      /\ walk' = walk /\ todo' = todo \ {e}
  BY DEF ewx_list_move_tail
<1>3. PICK nx : nx = [nxt EXCEPT ![prv[e]] = nxt[e]]
  OBVIOUS
<1>4. nx[prv[e]] = nxt[e] /\ \A x \in Node : x # prv[e] => nx[x] = nxt[x]
  BY <1>2, <1>3, EntryFacts DEF WalkInv, Inv, TypeOK
<1>5. PICK q : q = IF h = nxt[e] THEN prv[e] ELSE prv[h]
  OBVIOUS
<1>6. q = CutPrev(prv, prv[e], nxt[e])[h]
  BY <1>2, <1>5, EntryFacts DEF CutPrev, WalkInv, Inv, TypeOK
<1>7. q \in Linked \ {e} /\ q \in Node /\ nx[q] = h /\ owner[q] = owner[h]
  <2>1. prv[h] \in Node /\ nxt[prv[h]] = h /\ owner[prv[h]] = owner[h] /\ owner[h] # None
    BY <1>2 DEF WalkInv, Inv, Rings, Linked, Free
  <2>2. CASE h = nxt[e]
    BY <1>2, <1>4, <1>5, <2>2, EntryFacts DEF Linked, Free
  <2>3. CASE h # nxt[e]
    <3>1. prv[h] # prv[e] /\ prv[h] # e
      BY <1>2, <2>1, <2>3, EntryFacts
    <3> QED
      BY <1>4, <1>5, <2>1, <2>3, <3>1 DEF Linked, Free
  <2> QED
    BY <2>2, <2>3
<1>8. nxt' = [nx EXCEPT ![e] = h, ![q] = e]
  BY <1>3, <1>6 DEF ewx_list_move_tail, AddedNext, CutNext
<1>9. nxt'[q] = e /\ nxt'[e] = nx[q] /\ \A x \in Node : x \notin {q, e} => nxt'[x] = nx[x]
  BY <1>2, <1>3, <1>7, <1>8 DEF WalkInv, Inv, TypeOK
<1>10. owner'[e] = owner[q] /\ \A x \in Node : x # e => owner'[x] = owner[x]
  BY <1>7 DEF ewx_list_move_tail, WalkInv, Inv, TypeOK
<1> QED
  BY <1>1, <1>2, <1>4, <1>7, <1>9, <1>10, MoveVisits

\* The new node takes the place of the old one, as an entry or as the head.
LEMMA ReplaceVisits ==
  ASSUME WalkInv, Inv', NEW o \in Node, NEW n \in Node, o \in Linked, n \in Free, Spared(o),
         walk' = walk, todo' = todo \ {o},
         \A x \in Node : x # o => nxt'[x] = ReplacedNext(o, n)[x],
         owner'[o] = None \/ (owner'[o] = o /\ nxt'[o] = o),
         \A x \in Node : x # o => owner'[x] = ReplacedOwner(o, n, None)[x]
  PROVE  WalkInv'
<1>1. /\ Onward(nxt, owner) /\ AllWhole(nxt, owner) /\ None \notin Node
      /\ owner[o] # None /\ owner[n] = None /\ o # n
  BY ListFacts DEF Linked, Free
<1>2. /\ nxt[o] \in Node /\ prv[o] \in Node /\ owner[nxt[o]] = owner[o]
      /\ owner[prv[o]] = owner[o] /\ nxt[prv[o]] = o /\ prv[nxt[o]] = o
      /\ \A x \in Node : owner[x] = owner[o] /\ nxt[x] = o => x = prv[o]
  BY <1>1 DEF WalkInv, Inv, Rings, Linked, Free
<1>3. PICK q : q = IF nxt[o] = o THEN n ELSE prv[o]
  OBVIOUS
<1>4. ReplacedPrev(o, n)[n] = q /\ q \in Node
  BY <1>1, <1>2, <1>3 DEF ReplacedPrev, WalkInv, Inv, TypeOK
<1>5. \A x \in Node : x # o =>
        nxt'[x] = IF x = q THEN n ELSE IF x = n THEN nxt[o] ELSE nxt[x]
  BY <1>4 DEF ReplacedNext, WalkInv, Inv, TypeOK
<1>6. ASSUME NEW x \in Node, owner[x] = owner[o]
      PROVE  nxt'[Renamed(x, o, n)] = Renamed(nxt[x], o, n)
  <2>1. CASE x = o
    BY <1>1, <1>2, <1>3, <1>5, <2>1 DEF Renamed
  <2>2. CASE x # o
    <3>1. x # n /\ nxt'[x] = IF x = q THEN n ELSE nxt[x]
      BY <1>1, <1>5, <1>6, <2>2
    <3>2. x = q <=> nxt[x] = o
      BY <1>1, <1>2, <1>3, <1>6, <2>2, <3>1
    <3> QED
      BY <2>2, <3>1, <3>2 DEF Renamed
  <2> QED
    BY <2>1, <2>2
<1>7. ASSUME NEW x \in Node, owner[x] \notin {None, owner[o]} PROVE nxt'[x] = nxt[x]
  BY <1>1, <1>2, <1>3, <1>5, <1>7
<1>8. /\ owner'[n] = Renamed(owner[o], o, n)
      /\ \A x \in Node : x \notin {o, n} => owner'[x] = Renamed(owner[x], o, n)
  <2>1. o \in Heads <=> owner[o] = o
    BY DEF Heads
  <2>2. \A x \in Node : owner[x] = o => owner[o] = o
    BY <1>1 DEF Onward
  <2> QED
    BY <1>1, <2>1, <2>2 DEF ReplacedOwner, Renamed
<1>9. /\ AllWhole(nxt', owner')
      /\ \A w \in Node \ {o}, s \in Node \ {o} : \A T, U :
           owner[w] = w /\ owner[s] = w /\ T \subseteq On(owner, w) /\ U \subseteq T \ {o}
             => WayKept(nxt, owner, nxt', owner', w, s, T, U)
  BY <1>1, <1>6, <1>7, <1>8, ReplaceKeepsWhole
<1>10. ASSUME walk # None
       PROVE  /\ \A x \in todo' : owner'[x] = walk.head
              /\ WayKept(nxt, owner, nxt', owner', walk.head, walk.next, todo, todo')
  <2>1. /\ walk.head \in Node \ {o} /\ owner[walk.head] = walk.head
        /\ walk.next \in Node \ {o} /\ owner[walk.next] = walk.head
        /\ todo \subseteq On(owner, walk.head)
    BY <1>10, ListFacts DEF Spared
  <2>2. \A x \in todo' : owner'[x] = walk.head
    <3> SUFFICES ASSUME NEW x \in todo' PROVE owner'[x] = walk.head
      OBVIOUS
    <3>1. x \in Node /\ owner[x] = walk.head /\ x # o
      BY <2>1 DEF On
    <3>2. x # n
      BY <1>1, <2>1, <3>1
    <3> QED
      BY <1>8, <2>1, <3>1, <3>2 DEF Renamed
  <2>3. todo' \subseteq todo \ {o}
    OBVIOUS
  <2> QED
    BY <1>9, <2>1, <2>2, <2>3
<1> QED
  BY <1>9, <1>10, WalkStays

\* The old node is left as it was.
LEMMA ListReplaceVisits ==
  ASSUME WalkInv, NEW o \in Node, NEW n \in Node, list_replace(o, n)
  PROVE  WalkInv'
<1>1. Inv'
  BY ListReplaceKeeps DEF WalkInv
<1>2. /\ o \in Linked /\ n \in Free /\ Spared(o) /\ walk' = walk /\ todo' = todo \ {o}
      /\ nxt' = ReplacedNext(o, n) /\ owner' = ReplacedOwner(o, n, None)
  BY DEF list_replace
<1>3. owner'[o] = None
  BY <1>2 DEF ReplacedOwner
<1> QED
  BY <1>1, <1>2, <1>3, ReplaceVisits

\* The old node becomes an empty list.
LEMMA ListReplaceInitVisits ==
  ASSUME WalkInv, NEW o \in Node, NEW n \in Node, list_replace_init(o, n)
  PROVE  WalkInv'
<1>1. Inv'
  BY ListReplaceInitKeeps DEF WalkInv
<1>2. /\ o \in Linked /\ n \in Free /\ Spared(o) /\ walk' = walk /\ todo' = todo \ {o}
      /\ nxt' = [ReplacedNext(o, n) EXCEPT ![o] = o] /\ owner' = ReplacedOwner(o, n, o)
  BY DEF list_replace_init
<1>3. o \in DOMAIN ReplacedNext(o, n) /\ DOMAIN ReplacedNext(o, n) = Node
  BY DEF ReplacedNext, WalkInv, Inv, TypeOK
<1>4. nxt'[o] = o /\ \A x \in Node : x # o => nxt'[x] = ReplacedNext(o, n)[x]
  BY <1>2, <1>3
<1>5. owner'[o] = o /\ \A x \in Node : x # o => owner'[x] = ReplacedOwner(o, n, None)[x]
  BY <1>2 DEF ReplacedOwner
<1>6. /\ o \in Linked /\ n \in Free /\ Spared(o) /\ walk' = walk /\ todo' = todo \ {o}
      /\ owner'[o] = None \/ (owner'[o] = o /\ nxt'[o] = o)
  BY <1>2, <1>4, <1>5
<1> QED
  BY <1>1, <1>4, <1>5, <1>6, ReplaceVisits

\* The entries of another list come onto the way, what was on it still is.
LEMMA JoinVisits ==
  ASSUME WalkInv, Inv', NEW l \in Node, NEW h \in Node, Joinable(l, h), ~Empty(l),
         walk' = walk, todo' = todo,
         \A x \in Node : x # l => nxt'[x] = SplicedNext(l, h)[x],
         owner'[l] = None \/ (owner'[l] = l /\ nxt'[l] = l),
         \A x \in Node : x # l => owner'[x] = SplicedOwner(l, h, None)[x]
  PROVE  WalkInv'
<1>1. PICK t : t = prv[l]
  OBVIOUS
<1>2. /\ Onward(nxt, owner) /\ AllWhole(nxt, owner) /\ None \notin Node
      /\ owner[l] = l /\ owner[h] # None /\ owner[h] # l
      /\ t \in Node /\ owner[t] = l /\ nxt[t] = l /\ t # l
      /\ \A x \in Node : owner[x] = l /\ nxt[x] = l => x = t
  BY <1>1, ListFacts DEF Joinable, Empty, WalkInv, Inv, Rings, Heads, Linked, Free
<1>3. /\ nxt'[h] = nxt[l] /\ nxt'[t] = nxt[h]
      /\ \A x \in Node : x \notin {l, h, t} => nxt'[x] = nxt[x]
  BY <1>1, <1>2 DEF SplicedNext, WalkInv, Inv, TypeOK
<1>4. \A x \in Node : x # l => owner'[x] = IF owner[x] = l THEN owner[h] ELSE owner[x]
  BY DEF SplicedOwner
<1>5. /\ AllWhole(nxt', owner')
      /\ \A w \in Node \ {l}, s \in Node : \A T, U :
           owner[w] = w /\ owner[s] = w /\ T \subseteq On(owner, w) /\ U \subseteq T
             => WayKept(nxt, owner, nxt', owner', w, s, T, U)
  <2>1. Joining(nxt, owner, nxt', owner', l, h, t)
    BY <1>2, <1>3, <1>4 DEF Joining
  <2> QED
    BY <1>2, <2>1, JoinKeepsWhole
<1>6. ASSUME walk # None
      PROVE  /\ \A x \in todo' : owner'[x] = walk.head
             /\ WayKept(nxt, owner, nxt', owner', walk.head, walk.next, todo, todo')
  <2>1. /\ walk.head \in Node \ {l} /\ owner[walk.head] = walk.head
        /\ walk.next \in Node /\ owner[walk.next] = walk.head
        /\ todo \subseteq On(owner, walk.head)
    BY <1>6, ListFacts DEF Joinable
  <2>2. \A x \in todo' : owner'[x] = walk.head
    BY <1>2, <1>4, <2>1 DEF On
  <2> QED
    BY <1>5, <2>1, <2>2
<1> QED
  BY <1>5, <1>6, WalkStays

\* Nothing but the time has changed.
LEMMA NothingVisits ==
  ASSUME WalkInv, UNCHANGED vars
  PROVE  WalkInv'
BY DEF vars, WalkInv, OneRing, TodoAhead, Inv, TypeOK, Rings, WalkOnList,
       Heads, Linked, Entries, Free

\* The head of the joined list is left as it was.
LEMMA ListSpliceVisits ==
  ASSUME WalkInv, NEW l \in Node, NEW h \in Node, ewx_list_splice(l, h)
  PROVE  WalkInv'
<1>1. CASE Empty(l)
  BY <1>1, NothingVisits DEF ewx_list_splice, links, vars
<1>2. CASE ~Empty(l)
  <2>1. Inv'
    BY EwxListSpliceKeeps DEF WalkInv
  <2>2. /\ Joinable(l, h) /\ walk' = walk /\ todo' = todo
        /\ nxt' = SplicedNext(l, h) /\ owner' = SplicedOwner(l, h, None)
    BY <1>2 DEF ewx_list_splice
  <2>3. owner'[l] = None
    BY <2>2 DEF SplicedOwner
  <2> QED
    BY <1>2, <2>1, <2>2, <2>3, JoinVisits
<1> QED
  BY <1>1, <1>2

\* The head of the joined list becomes an empty one.
LEMMA ListSpliceInitVisits ==
  ASSUME WalkInv, NEW l \in Node, NEW h \in Node, ewx_list_splice_init(l, h)
  PROVE  WalkInv'
<1>1. CASE Empty(l)
  BY <1>1, NothingVisits DEF ewx_list_splice_init, links, vars
<1>2. CASE ~Empty(l)
  <2>1. Inv'
    BY EwxListSpliceInitKeeps DEF WalkInv
  <2>2. /\ Joinable(l, h) /\ walk' = walk /\ todo' = todo
        /\ nxt' = [SplicedNext(l, h) EXCEPT ![l] = l] /\ owner' = SplicedOwner(l, h, l)
    BY <1>2 DEF ewx_list_splice_init
  <2>3. DOMAIN SplicedNext(l, h) = Node
    BY DEF SplicedNext, WalkInv, Inv, TypeOK
  <2>4. nxt'[l] = l /\ \A x \in Node : x # l => nxt'[x] = SplicedNext(l, h)[x]
    BY <2>2, <2>3
  <2>5. owner'[l] = l /\ \A x \in Node : x # l => owner'[x] = SplicedOwner(l, h, None)[x]
    BY <2>2 DEF SplicedOwner
  <2> QED
    BY <1>2, <2>1, <2>2, <2>4, <2>5, JoinVisits
<1> QED
  BY <1>1, <1>2

\* At the start everything behind the first entry is still to come: it is on the
\* way from the second one, because the list is one ring.
LEMMA StartWalkVisits ==
  ASSUME WalkInv, NEW h \in Node, StartWalk(h)
  PROVE  WalkInv'
<1> DEFINE R == On(owner, h)
           f == nxt[h]
           s == nxt[f]
           T == {n \in Entries : owner[n] = h} \ {f}
<1>1. /\ walk' = [head |-> h, pos |-> f, next |-> s] /\ todo' = T
      /\ nxt' = nxt /\ prv' = prv /\ owner' = owner /\ owner[h] = h
  BY DEF StartWalk, links, Heads
<1>2. /\ h \in R /\ f \in R /\ s \in R /\ T \subseteq R \ {h, f} /\ R \ {h, f} \subseteq T
      /\ Covers(nxt, R, f, h, R)
  <2>1. Onward(nxt, owner) /\ AllWhole(nxt, owner) /\ None \notin Node
    BY ListFacts
  <2>2. Covers(nxt, R, f, h, R)
    BY <1>1, <2>1 DEF AllWhole, Whole
  <2>3. h \in R /\ f \in R /\ s \in R
    BY <1>1, <2>1 DEF Onward, On
  <2>4. T \subseteq R \ {h, f} /\ R \ {h, f} \subseteq T
    BY <1>1, <2>1 DEF Onward, On, Entries, Linked, Free, Heads
  <2> QED
    BY <2>2, <2>3, <2>4
<1> HIDE DEF T
<1>3. Covers(nxt, R, s, h, T)
  <2> SUFFICES ASSUME NEW S \in SUBSET R, s \in S, \A x \in S \ {h} : nxt[x] \in S
               PROVE  T \subseteq S
    BY DEF Covers
  <2>1. S \cup {f} \in SUBSET R /\ \A x \in (S \cup {f}) \ {h} : nxt[x] \in S \cup {f}
    BY <1>2
  <2>2. R \subseteq S \cup {f}
    BY <1>2, <2>1 DEF Covers
  <2> QED
    BY <1>2, <2>2
<1>4. f = h => T = {}
  <2> SUFFICES ASSUME f = h PROVE T = {}
    OBVIOUS
  <2>1. {h} \in SUBSET R /\ f \in {h} /\ \A x \in {h} \ {h} : nxt[x] \in {h}
    BY <1>2
  <2>2. R \subseteq {h}
    BY <1>2, <2>1 DEF Covers
  <2> QED
    BY <1>2, <2>2
<1>5. Inv'
  BY WalkKeeps DEF WalkInv
<1>6. OneRing'
  BY <1>1 DEF WalkInv, OneRing, Heads
<1>7. TodoAhead'
  <2>1. walk'.head = h /\ walk'.pos = f /\ walk'.next = s
    BY <1>1
  <2>2. Covers(nxt', On(owner', h), s, h, todo') /\ todo' \subseteq On(owner', h) \ {h}
    BY <1>1, <1>2, <1>3
  <2> QED
    BY <1>1, <1>4, <2>1, <2>2 DEF TodoAhead
<1> QED
  BY <1>5, <1>6, <1>7 DEF WalkInv

\* A step visits the next entry.  When that is the head, nothing is to come.
LEMMA StepWalkVisits ==
  ASSUME WalkInv, StepWalk
  PROVE  WalkInv'
<1> DEFINE h == walk.head
           n == walk.next
           R == On(owner, h)
<1>1. /\ walk # None /\ h \in Node /\ owner[h] = h /\ n \in R /\ h \in R
      /\ Covers(nxt, R, n, h, todo) /\ todo \subseteq R \ {h}
      /\ \A x \in R : nxt[x] \in R
  BY ListFacts DEF StepWalk, WalkInv, TodoAhead, Onward, On
<1>2. /\ walk'.head = h /\ walk'.pos = n /\ walk'.next = nxt[n] /\ todo' = todo \ {n}
      /\ nxt' = nxt /\ prv' = prv /\ owner' = owner
  BY <1>1 DEF StepWalk, Following, NextOf, links, On, WalkInv, Inv, TypeOK
<1>3. Covers(nxt, R, nxt[n], h, todo \ {n})
  <2> SUFFICES ASSUME NEW S \in SUBSET R, nxt[n] \in S, \A x \in S \ {h} : nxt[x] \in S
               PROVE  todo \ {n} \subseteq S
    BY DEF Covers
  <2>1. S \cup {n} \in SUBSET R /\ \A x \in (S \cup {n}) \ {h} : nxt[x] \in S \cup {n}
    BY <1>1
  <2>2. todo \subseteq S \cup {n}
    BY <1>1, <2>1 DEF Covers
  <2> QED
    BY <2>2
<1>4. n = h => todo = {}
  <2> SUFFICES ASSUME n = h PROVE todo = {}
    OBVIOUS
  <2>1. {h} \in SUBSET R /\ n \in {h} /\ \A x \in {h} \ {h} : nxt[x] \in {h}
    BY <1>1
  <2>2. todo \subseteq {h}
    BY <1>1, <2>1 DEF Covers
  <2> QED
    BY <1>1, <2>2
<1>5. Inv'
  BY WalkKeeps DEF WalkInv
<1>6. OneRing'
  BY <1>2 DEF WalkInv, OneRing, Heads
<1>7. TodoAhead'
  <2>1. Covers(nxt', On(owner', h), nxt[n], h, todo') /\ todo' \subseteq On(owner', h) \ {h}
    BY <1>1, <1>2, <1>3
  <2> QED
    BY <1>2, <1>4, <2>1 DEF TodoAhead
<1> QED
  BY <1>5, <1>6, <1>7 DEF WalkInv

\* No walk, nothing to visit.
LEMMA EndWalkVisits ==
  ASSUME WalkInv, EndWalk
  PROVE  WalkInv'
<1>1. Inv'
  BY WalkKeeps DEF WalkInv
<1> QED
  BY <1>1 DEF EndWalk, links, WalkInv, OneRing, TodoAhead, Heads

\* No list, no walk.
LEMMA InitWalkInv == Init => WalkInv
<1> SUFFICES ASSUME Init PROVE WalkInv
  OBVIOUS
<1>1. Inv
  BY InitInv
<1> QED
  BY <1>1, ListAssumption DEF Init, WalkInv, OneRing, TodoAhead, Heads

\* One case for each operation.
LEMMA NextVisits == WalkInv /\ [Next]_vars => WalkInv'
<1> SUFFICES ASSUME WalkInv, [Next]_vars PROVE WalkInv'
  OBVIOUS
<1>1. CASE UNCHANGED vars
  BY <1>1, NothingVisits
<1>2. CASE \E n \in Node :
             EWX_LIST_HEAD_INIT(n) \/ ewx_list_del(n) \/ list_del_init(n) \/ StartWalk(n)
  BY <1>2, HeadInitVisits, ListDelVisits, ListDelInitVisits, StartWalkVisits
<1>3. CASE \E n, h \in Node :
             \/ ewx_list_add(n, h) \/ ewx_list_add_tail(n, h)
             \/ list_replace(n, h) \/ list_replace_init(n, h)
  BY <1>3, ListAddVisits, ListAddTailVisits, ListReplaceVisits, ListReplaceInitVisits
<1>4. CASE \E n, h \in Node :
             \/ ewx_list_move(n, h) \/ ewx_list_move_tail(n, h)
             \/ ewx_list_splice(n, h) \/ ewx_list_splice_init(n, h)
  BY <1>4, ListMoveVisits, ListMoveTailVisits, ListSpliceVisits, ListSpliceInitVisits
<1>5. CASE StepWalk \/ EndWalk
  BY <1>5, StepWalkVisits, EndWalkVisits
<1> QED
  BY <1>1, <1>2, <1>3, <1>4, <1>5 DEF Next

\* The lists are rings and what a walk has to visit lies ahead of it, always.
LEMMA AlwaysWalkInv == Spec => []WalkInv
  BY InitWalkInv, NextVisits, PTL DEF Spec

\* A walk that has come back to the head of its list has visited every entry that
\* was there from its start to its end, whatever its body did to the entry it was
\* at and to the rest of the lists.
THEOREM WalkVisitsAllTheorem == Spec => []WalkVisitsAll
<1>1. WalkInv => WalkVisitsAll
  BY DEF WalkInv, TodoAhead, WalkVisitsAll
<1> QED
  BY <1>1, AlwaysWalkInv, PTL

\* From the head of a list its next pointers lead to every node of the list: no
\* operation splits a ring, loses an entry or leaves a ring without a head.
THEOREM OneRingTheorem == Spec => []OneRing
<1>1. WalkInv => OneRing
  BY DEF WalkInv
<1> QED
  BY <1>1, AlwaysWalkInv, PTL

-----------------------------------------------------------------------------
(* The sequences of entries, module Lists.                                 *)

\* The sequence t goes behind the first k elements of s.
PutIn(s, k, t) == SubSeq(s, 1, k) \o t \o SubSeq(s, k + 1, Len(s))

\* The element k leaves s.
CutOut(s, k) == SubSeq(s, 1, k - 1) \o SubSeq(s, k + 1, Len(s))

\* What a part of a sequence is.
LEMMA Parts ==
  ASSUME NEW S, NEW s \in Seq(S), NEW i \in Nat, NEW j \in Nat, 1 <= i, j <= Len(s), i <= j + 1
  PROVE /\ SubSeq(s, i, j) \in Seq(S) /\ Len(SubSeq(s, i, j)) = j + 1 - i
        /\ \A x \in 1 .. j + 1 - i : SubSeq(s, i, j)[x] = s[i + x - 1]
OBVIOUS

\* The sequence c is a and then b.
Joint(S, a, b, c) ==
  /\ c \in Seq(S) /\ Len(c) = Len(a) + Len(b)
  /\ \A i \in 1 .. Len(a) : c[i] = a[i]
  /\ \A i \in 1 .. Len(b) : c[Len(a) + i] = b[i]

\* Two sequences, one behind the other.
LEMMA Joins ==
  ASSUME NEW S, NEW a \in Seq(S), NEW b \in Seq(S)
  PROVE Joint(S, a, b, a \o b)
<1>1. a \o b \in Seq(S) /\ Len(a \o b) = Len(a) + Len(b)
  OBVIOUS
<1>2. \A i \in 1 .. Len(a) : (a \o b)[i] = a[i]
  OBVIOUS
<1>3. \A i \in 1 .. Len(b) : (a \o b)[Len(a) + i] = b[i]
  OBVIOUS
<1> QED
  BY <1>1, <1>2, <1>3 DEF Joint

\* The sequence u is s with t behind its first k elements.
Widened(S, s, k, t, u) ==
  /\ u \in Seq(S) /\ Len(u) = Len(s) + Len(t)
  /\ \A i \in 1 .. k : u[i] = s[i]
  /\ \A i \in 1 .. Len(t) : u[k + i] = t[i]
  /\ \A i \in k + 1 .. Len(s) : u[i + Len(t)] = s[i]

\* Where the elements are after something was put in.
LEMMA PutPlaces ==
  ASSUME NEW S, NEW s \in Seq(S), NEW t \in Seq(S), NEW k \in 0 .. Len(s)
  PROVE Widened(S, s, k, t, PutIn(s, k, t))
<1>1. PICK a : a = SubSeq(s, 1, k)
  OBVIOUS
<1>2. PICK b : b = SubSeq(s, k + 1, Len(s))
  OBVIOUS
<1>3. a \in Seq(S) /\ Len(a) = k /\ \A i \in 1 .. k : a[i] = s[i]
  BY <1>1, Parts
<1>4. b \in Seq(S) /\ Len(b) = Len(s) - k /\ \A i \in 1 .. Len(s) - k : b[i] = s[k + i]
  BY <1>2, Parts
<1>5. PutIn(s, k, t) = a \o t \o b
  BY <1>1, <1>2 DEF PutIn
<1>6. PICK c : c = a \o t
  OBVIOUS
<1>7. /\ c \in Seq(S) /\ Len(c) = k + Len(t) /\ \A i \in 1 .. k : c[i] = s[i]
      /\ \A i \in 1 .. Len(t) : c[k + i] = t[i]
  <2>1. Joint(S, a, t, a \o t)
    BY <1>3, Joins
  <2> QED
    BY <1>3, <1>6, <2>1 DEF Joint
<1>8. /\ c \o b \in Seq(S) /\ Len(c \o b) = Len(s) + Len(t)
      /\ \A i \in 1 .. Len(c) : (c \o b)[i] = c[i]
      /\ \A i \in 1 .. Len(b) : (c \o b)[Len(c) + i] = b[i]
  <2>1. Joint(S, c, b, c \o b)
    BY <1>4, <1>7, Joins
  <2>2. Len(s) \in Nat /\ Len(t) \in Nat
    OBVIOUS
  <2>3. Len(c) + Len(b) = Len(s) + Len(t)
    BY <1>4, <1>7, <2>2
  <2> QED
    BY <2>1, <2>3 DEF Joint
<1>9. ASSUME NEW i \in k + 1 .. Len(s) PROVE (c \o b)[i + Len(t)] = s[i]
  <2>1. i - k \in 1 .. Len(b) /\ Len(c) + (i - k) = i + Len(t) /\ k + (i - k) = i
    BY <1>4, <1>7
  <2>2. (c \o b)[Len(c) + (i - k)] = b[i - k] /\ b[i - k] = s[k + (i - k)]
    BY <1>4, <1>8, <2>1
  <2> QED
    BY <2>1, <2>2
<1> QED
  BY <1>5, <1>6, <1>7, <1>8, <1>9 DEF Widened

\* The sequence u is s without its element k.
Narrowed(S, s, k, u) ==
  /\ u \in Seq(S) /\ Len(u) = Len(s) - 1
  /\ \A i \in 1 .. k - 1 : u[i] = s[i]
  /\ \A i \in k .. Len(s) - 1 : u[i] = s[i + 1]

\* Where the elements are after one was taken out.
LEMMA CutPlaces ==
  ASSUME NEW S, NEW s \in Seq(S), NEW k \in 1 .. Len(s)
  PROVE Narrowed(S, s, k, CutOut(s, k))
<1>1. PICK a : a = SubSeq(s, 1, k - 1)
  OBVIOUS
<1>2. PICK b : b = SubSeq(s, k + 1, Len(s))
  OBVIOUS
<1>3. a \in Seq(S) /\ Len(a) = k - 1 /\ \A i \in 1 .. k - 1 : a[i] = s[i]
  BY <1>1, Parts
<1>4. b \in Seq(S) /\ Len(b) = Len(s) - k /\ \A i \in 1 .. Len(s) - k : b[i] = s[k + i]
  BY <1>2, Parts
<1>5. /\ a \o b \in Seq(S) /\ Len(a \o b) = Len(s) - 1
      /\ \A i \in 1 .. Len(a) : (a \o b)[i] = a[i]
      /\ \A i \in 1 .. Len(b) : (a \o b)[Len(a) + i] = b[i]
  <2>1. Joint(S, a, b, a \o b)
    BY <1>3, <1>4, Joins
  <2>2. Len(a) + Len(b) = Len(s) - 1
    BY <1>3, <1>4
  <2> QED
    BY <2>1, <2>2 DEF Joint
<1>6. ASSUME NEW i \in k .. Len(s) - 1 PROVE (a \o b)[i] = s[i + 1]
  <2>1. i + 1 - k \in 1 .. Len(b) /\ Len(a) + (i + 1 - k) = i /\ k + (i + 1 - k) = i + 1
    <3>1. Len(s) \in Nat /\ k \in Nat /\ i \in Nat /\ k <= i /\ i <= Len(s) - 1
      OBVIOUS
    <3>2. Len(b) = Len(s) - k /\ Len(a) = k - 1
      BY <1>3, <1>4
    <3> QED
      BY <3>1, <3>2
  <2>2. (a \o b)[Len(a) + (i + 1 - k)] = b[i + 1 - k] /\ b[i + 1 - k] = s[k + (i + 1 - k)]
    BY <1>4, <1>5, <2>1
  <2> QED
    BY <2>1, <2>2
<1> QED
  BY <1>1, <1>2, <1>3, <1>5, <1>6 DEF CutOut, Narrowed

\* Node i on the way around the ring of h with the entries s; h is at both ends.
At(h, s, i) == IF i \in 1 .. Len(s) THEN s[i] ELSE h

\* The pointers nx lead from h to each element of s in turn and back to h, and
\* these are all nodes that the owners ow give to h.
Lays(nx, ow, h, s) ==
  /\ s \in Seq(Node)
  /\ \A i, j \in 1 .. Len(s) : s[i] = s[j] => i = j
  /\ \A i \in 1 .. Len(s) : s[i] # h
  /\ \A x \in Node : ow[x] = h <=> x = h \/ \E i \in 1 .. Len(s) : s[i] = x
  /\ \A i \in 0 .. Len(s) : nx[At(h, s, i)] = At(h, s, i + 1)

\* What the walk meets, for given pointers and owners.
ContentsOf(nx, ow, h) ==
  LET from[n \in Node] ==
        IF n = h THEN <<>> ELSE <<n>> \o IF ow[n] = h THEN from[nx[n]] ELSE <<>>
  IN from[nx[h]]

\* The contents are what the walk meets now,
LEMMA ContentsAre == \A h : Contents(h) = ContentsOf(nxt, owner, h)
BY DEF Contents, ContentsOf

\* and after the next step what it meets then.
LEMMA ContentsWillBe == \A h : Contents(h)' = ContentsOf(nxt', owner', h)
BY DEF Contents, ContentsOf

\* The rest of a sequence is its first element and the rest behind that.
LEMMA RestIs ==
  ASSUME NEW s \in Seq(Node), NEW i \in 1 .. Len(s)
  PROVE SubSeq(s, i, Len(s)) = <<s[i]>> \o SubSeq(s, i + 1, Len(s))
<1>1. PICK a : a = SubSeq(s, i, Len(s))
  OBVIOUS
<1>2. PICK b : b = SubSeq(s, i + 1, Len(s))
  OBVIOUS
<1>3. PICK o : o = <<s[i]>>
  OBVIOUS
<1>4. a \in Seq(Node) /\ Len(a) = Len(s) + 1 - i /\ \A x \in 1 .. Len(a) : a[x] = s[i + x - 1]
  BY <1>1, Parts
<1>5. b \in Seq(Node) /\ Len(b) = Len(s) - i /\ \A x \in 1 .. Len(b) : b[x] = s[i + x]
  BY <1>2, Parts
<1>6. o \in Seq(Node) /\ Len(o) = 1 /\ o[1] = s[i]
  BY <1>3
<1>7. PICK c : c = o \o b
  OBVIOUS
<1>8. Joint(Node, o, b, c)
  BY <1>5, <1>6, <1>7, Joins
<1>9. c \in Seq(Node) /\ Len(c) = Len(a)
  BY <1>4, <1>5, <1>6, <1>8 DEF Joint
<1>10. ASSUME NEW x \in 1 .. Len(a) PROVE c[x] = a[x]
  <2>1. CASE x = 1
    BY <1>4, <1>6, <1>8, <2>1 DEF Joint
  <2>2. CASE x # 1
    <3>1. x - 1 \in 1 .. Len(b) /\ 1 + (x - 1) = x /\ i + (x - 1) = i + x - 1
      BY <1>4, <1>5, <2>2
    <3>2. c[1 + (x - 1)] = b[x - 1]
      BY <1>6, <1>8, <3>1 DEF Joint
    <3>3. b[x - 1] = s[i + (x - 1)] /\ a[x] = s[i + x - 1]
      BY <1>4, <1>5, <3>1
    <3> QED
      BY <3>1, <3>2, <3>3
  <2> QED
    BY <2>1, <2>2
<1>11. c = a
  BY <1>4, <1>9, <1>10
<1> QED
  BY <1>1, <1>2, <1>3, <1>7, <1>11

\* If the pointers lay s out, the walk meets s.
LEMMA WalkMeets ==
  ASSUME NEW nx, NEW ow, NEW h \in Node, NEW s, Lays(nx, ow, h, s)
  PROVE ContentsOf(nx, ow, h) = s
<1> DEFINE F(f) == [n \in Node |->
                      IF n = h THEN <<>>
                      ELSE <<n>> \o IF ow[n] = h THEN f[nx[n]] ELSE <<>>]
           from == CHOOSE f : f = F(f)
           idx(n) == CHOOSE i \in 1 .. Len(s) : s[i] = n
           g == [n \in Node |->
                   IF n = h THEN <<>>
                   ELSE IF ow[n] = h THEN SubSeq(s, idx(n), Len(s)) ELSE <<n>>]
<1>1. s \in Seq(Node) /\ Len(s) \in Nat
  BY DEF Lays
<1>2. ASSUME NEW i \in 1 .. Len(s)
      PROVE /\ s[i] \in Node /\ s[i] # h /\ ow[s[i]] = h /\ idx(s[i]) = i
            /\ nx[s[i]] = IF i = Len(s) THEN h ELSE s[i + 1]
  <2>1. s[i] \in Node /\ s[i] # h
    BY <1>1 DEF Lays
  <2>2. ow[s[i]] = h
    BY <2>1 DEF Lays
  <2>3. idx(s[i]) \in 1 .. Len(s) /\ s[idx(s[i])] = s[i]
    OBVIOUS
  <2>4. idx(s[i]) = i
    BY <2>3 DEF Lays
  <2>5. nx[At(h, s, i)] = At(h, s, i + 1)
    BY <1>1 DEF Lays
  <2>6. nx[s[i]] = IF i = Len(s) THEN h ELSE s[i + 1]
    BY <1>1, <2>5 DEF At
  <2> QED
    BY <2>1, <2>2, <2>4, <2>6
<1>3. SubSeq(s, Len(s) + 1, Len(s)) = <<>>
  BY <1>1
<1>4. ASSUME NEW i \in 1 .. Len(s)
      PROVE g[s[i]] = SubSeq(s, i, Len(s))
  BY <1>2
<1>5. g = F(g)
  <2>1. ASSUME NEW n \in Node PROVE g[n] = F(g)[n]
    <3>1. CASE n = h
      BY <3>1
    <3>2. CASE n # h /\ ow[n] # h
      <4>1. <<n>> \o <<>> = <<n>>
        OBVIOUS
      <4> QED
        BY <3>2, <4>1
    <3>3. CASE n # h /\ ow[n] = h
      <4>1. PICK i \in 1 .. Len(s) : s[i] = n
        BY <3>3 DEF Lays
      <4>2. g[n] = <<n>> \o SubSeq(s, i + 1, Len(s))
        <5>1. g[n] = SubSeq(s, i, Len(s))
          BY <1>4, <4>1
        <5> HIDE DEF g
        <5> QED
          BY <1>1, <4>1, <5>1, RestIs
      <4>3. g[nx[n]] = SubSeq(s, i + 1, Len(s))
        <5>1. CASE i = Len(s)
          BY <1>2, <1>3, <4>1, <5>1
        <5>2. CASE i # Len(s)
          <6>1. i + 1 \in 1 .. Len(s) /\ nx[n] = s[i + 1]
            BY <1>1, <1>2, <4>1, <5>2
          <6> HIDE DEF g
          <6> QED
            BY <1>4, <6>1
        <5> QED
          BY <5>1, <5>2
      <4> HIDE DEF g
      <4> QED
        BY <3>3, <4>2, <4>3
    <3> QED
      BY <3>1, <3>2, <3>3
  <2>2. g = [n \in Node |-> g[n]]
    OBVIOUS
  <2> HIDE DEF g
  <2> QED
    BY <2>1, <2>2
<1>6. from = F(from)
  <2> HIDE DEF g, F
  <2> QED
    BY <1>5
<1>7. ContentsOf(nx, ow, h) = from[nx[h]]
  BY DEF ContentsOf
<1> HIDE DEF from
<1>8. PICK f : f = from
  OBVIOUS
<1>9. \A n \in Node : f[n] = IF n = h THEN <<>>
                              ELSE <<n>> \o IF ow[n] = h THEN f[nx[n]] ELSE <<>>
  BY <1>6, <1>8
<1> HIDE DEF F
\* The rest of the walk from each place, from the end on.
<1> DEFINE bad == {j \in 0 .. Len(s) :
                     f[At(h, s, Len(s) + 1 - j)] # SubSeq(s, Len(s) + 1 - j, Len(s))}
<1>10. ASSUME bad # {} PROVE FALSE
  <2>1. bad \in SUBSET Nat
    BY <1>1
  <2>2. PICK j \in bad : \A k \in bad : <<k, j>> \notin OpToRel(<, Nat)
    <3> HIDE DEF bad
    <3> QED
      BY <1>10, <2>1, WFMin, NatLessThanWellFounded, Zenon
  <2>3. \A k \in bad : ~(k < j)
    <3> HIDE DEF bad
    <3> QED
      BY <2>1, <2>2, Zenon DEF OpToRel
  <2>4. j \in 0 .. Len(s)
    OBVIOUS
  <2>5. CASE j = 0
    <3>1. At(h, s, Len(s) + 1 - j) = h /\ Len(s) + 1 - j = Len(s) + 1
      BY <1>1, <2>5 DEF At
    <3> QED
      BY <1>3, <1>9, <3>1
  <2>6. CASE j # 0
    <3>1. PICK i : i = Len(s) + 1 - j
      OBVIOUS
    <3>2. i \in 1 .. Len(s) /\ j - 1 \in 0 .. Len(s) /\ Len(s) + 1 - (j - 1) = i + 1
      BY <1>1, <2>4, <2>6, <3>1
    <3>3. f[At(h, s, i + 1)] = SubSeq(s, i + 1, Len(s))
      <4>1. j - 1 \notin bad
        <5> HIDE DEF bad
        <5> QED
          BY <2>3, <2>4
      <4> QED
        BY <3>2, <4>1
    <3>4. f[s[i]] = <<s[i]>> \o f[nx[s[i]]]
      BY <1>2, <1>9, <3>2
    <3>5. nx[s[i]] = At(h, s, i + 1) /\ At(h, s, i) = s[i]
      BY <1>1, <1>2, <3>2 DEF At
    <3>6. f[At(h, s, i)] = SubSeq(s, i, Len(s))
      BY <1>1, <3>2, <3>3, <3>4, <3>5, RestIs
    <3> QED
      BY <3>1, <3>6
  <2> QED
    BY <2>5, <2>6
<1>11. f[At(h, s, 1)] = SubSeq(s, 1, Len(s))
  <2>1. Len(s) \in 0 .. Len(s) /\ Len(s) + 1 - Len(s) = 1
    BY <1>1
  <2>2. Len(s) \notin bad
    <3> HIDE DEF bad
    <3> QED
      BY <1>10
  <2> QED
    BY <2>1, <2>2
<1>12. nx[h] = At(h, s, 1)
  <2>1. nx[At(h, s, 0)] = At(h, s, 0 + 1)
    BY <1>1 DEF Lays
  <2> QED
    BY <1>1, <2>1 DEF At
<1>13. SubSeq(s, 1, Len(s)) = s
  BY <1>1
<1> QED
  BY <1>7, <1>8, <1>11, <1>12, <1>13

-----------------------------------------------------------------------------
(* What the pointers lay out after each kind of change.                    *)

\* Nodes at different places are different, but for the ends.
LEMMA PlacesDiffer ==
  ASSUME NEW nx, NEW ow, NEW h \in Node, NEW s, Lays(nx, ow, h, s),
         NEW i \in 0 .. Len(s), NEW j \in 0 .. Len(s), At(h, s, i) = At(h, s, j)
  PROVE i = j
BY DEF Lays, At

\* Every node of a list has its place.
LEMMA PlaceOf ==
  ASSUME NEW nx, NEW ow, NEW h \in Node, NEW s, Lays(nx, ow, h, s), NEW x \in Node, ow[x] = h
  PROVE \E k \in 0 .. Len(s) : At(h, s, k) = x
<1>1. Len(s) \in Nat
  BY DEF Lays
<1>2. CASE x = h
  <2>1. At(h, s, 0) = h
    BY <1>1 DEF At
  <2> QED
    BY <1>1, <1>2, <2>1
<1>3. CASE x # h
  <2>1. PICK i \in 1 .. Len(s) : s[i] = x
    BY <1>3 DEF Lays
  <2>2. i \in 0 .. Len(s) /\ At(h, s, i) = x
    BY <1>1, <2>1 DEF At
  <2> QED
    BY <2>2
<1> QED
  BY <1>2, <1>3

\* The node x is on the list of h.
IsOn(ow, h, x) == x \in Node /\ ow[x] = h

\* Each place has a node of the list.
LEMMA AtIsOn ==
  ASSUME NEW nx, NEW ow, NEW h \in Node, NEW s, Lays(nx, ow, h, s), NEW k \in Int
  PROVE IsOn(ow, h, At(h, s, k))
<1>1. Len(s) \in Nat /\ ow[h] = h
  BY DEF Lays
<1>2. CASE k \in 1 .. Len(s)
  <2>1. s[k] \in Node
    BY <1>2 DEF Lays
  <2>2. ow[s[k]] = h
    BY <1>2, <2>1 DEF Lays
  <2> QED
    BY <1>2, <2>1, <2>2 DEF At, IsOn
<1>3. CASE k \notin 1 .. Len(s)
  BY <1>1, <1>3 DEF At, IsOn
<1> QED
  BY <1>2, <1>3

\* The list of h did not change.
Still(nx, ow, m, w, h) ==
  \A x \in Node : (w[x] = h <=> ow[x] = h) /\ (ow[x] = h => m[x] = nx[x])

\* The pointers of a list that did not change.
LEMMA LaysStill ==
  ASSUME NEW nx, NEW ow, NEW m, NEW w, NEW h \in Node, NEW s, Lays(nx, ow, h, s),
         Still(nx, ow, m, w, h)
  PROVE Lays(m, w, h, s)
<1> USE DEF Still
<1>1. \A i \in 0 .. Len(s) : m[At(h, s, i)] = nx[At(h, s, i)]
  <2> SUFFICES ASSUME NEW i \in 0 .. Len(s) PROVE m[At(h, s, i)] = nx[At(h, s, i)]
    OBVIOUS
  <2>1. i \in Int
    OBVIOUS
  <2>2. IsOn(ow, h, At(h, s, i))
    BY <2>1, AtIsOn, Zenon
  <2> QED
    BY <2>2 DEF IsOn
<1> QED
  BY <1>1 DEF Lays

\* The pointers m of the nodes t, which come into a ring behind its place k.
Linking(nx, m, h, s, k, t) ==
  /\ m[At(h, s, k)] = t[1] /\ m[t[Len(t)]] = nx[At(h, s, k)]
  /\ \A i \in 1 .. Len(t) - 1 : m[t[i]] = t[i + 1]

\* They come from other lists or none, and nothing else happens to the list of h.
Coming(nx, ow, m, w, h, s, k, t) ==
  /\ t \in Seq(Node) /\ t # <<>> /\ k \in 0 .. Len(s)
  /\ \A i, j \in 1 .. Len(t) : t[i] = t[j] => i = j
  /\ \A i \in 1 .. Len(t) : ow[t[i]] # h
  /\ Linking(nx, m, h, s, k, t)
  /\ \A x \in Node : ow[x] = h /\ x # At(h, s, k) => m[x] = nx[x]
  /\ \A x \in Node : w[x] = h <=> ow[x] = h \/ \E i \in 1 .. Len(t) : t[i] = x

\* New nodes of a ring.
LEMMA LaysMore ==
  ASSUME NEW nx, NEW ow, NEW m, NEW w, NEW h \in Node, NEW s, Lays(nx, ow, h, s),
         NEW k, NEW t, Coming(nx, ow, m, w, h, s, k, t)
  PROVE Lays(m, w, h, PutIn(s, k, t))
<1> USE DEF Coming
<1>1. s \in Seq(Node) /\ Len(s) \in Nat /\ Len(t) \in Nat /\ Len(t) >= 1 /\ k \in Nat /\ k <= Len(s)
  BY DEF Lays
<1>2. PICK u : u = PutIn(s, k, t)
  OBVIOUS
<1>3. PICK n : n = Len(t)
  OBVIOUS
<1>4. PICK l : l = Len(s)
  OBVIOUS
<1>5. /\ u \in Seq(Node) /\ Len(u) = l + n
      /\ \A i \in 1 .. k : u[i] = s[i]
      /\ \A i \in 1 .. n : u[k + i] = t[i]
      /\ \A i \in k + 1 .. l : u[i + n] = s[i]
  <2>1. Widened(Node, s, k, t, u)
    BY <1>1, <1>2, PutPlaces
  <2> QED
    BY <1>3, <1>4, <2>1 DEF Widened
<1>6. ASSUME NEW i \in 1 .. l + n
      PROVE \/ i \in 1 .. k /\ u[i] = s[i]
            \/ i - k \in 1 .. n /\ u[i] = t[i - k]
            \/ i - n \in k + 1 .. l /\ u[i] = s[i - n]
  <2>1. CASE i <= k
    BY <1>5, <2>1
  <2>2. CASE i > k /\ i <= k + n
    <3>1. i - k \in 1 .. n /\ k + (i - k) = i
      BY <1>1, <1>3, <2>2
    <3> QED
      BY <1>5, <3>1
  <2>3. CASE i > k + n
    <3>1. i - n \in k + 1 .. l /\ (i - n) + n = i
      BY <1>1, <1>3, <1>4, <2>3
    <3> QED
      BY <1>5, <3>1
  <2> QED
    BY <1>1, <1>3, <1>4, <2>1, <2>2, <2>3
<1>7. \A i \in 1 .. l, j \in 1 .. n : s[i] # t[j] /\ s[i] # h /\ t[j] # h
  <2>1. ASSUME NEW i \in 1 .. l PROVE s[i] \in Node /\ s[i] # h /\ ow[s[i]] = h
    <3>1. s[i] \in Node /\ s[i] # h
      BY <1>1, <1>4 DEF Lays
    <3>2. \E j \in 1 .. Len(s) : s[j] = s[i]
      BY <1>4
    <3> QED
      BY <3>1, <3>2 DEF Lays
  <2>2. ow[h] = h
    BY DEF Lays
  <2>3. ASSUME NEW j \in 1 .. n PROVE ow[t[j]] # h
    BY <1>3
  <2> QED
    BY <2>1, <2>2, <2>3
<1>8. ASSUME NEW i \in 1 .. l + n, NEW j \in 1 .. l + n, u[i] = u[j] PROVE i = j
  <2>1. l \in Nat /\ n \in Nat /\ k \in 0 .. l
    BY <1>1, <1>3, <1>4
  <2>2. \A x, y \in 1 .. l : s[x] = s[y] => x = y
    BY <1>4 DEF Lays
  <2>3. \A x, y \in 1 .. n : t[x] = t[y] => x = y
    BY <1>3
  <2>4. /\ \/ i \in 1 .. k /\ u[i] = s[i]
           \/ i - k \in 1 .. n /\ u[i] = t[i - k]
           \/ i - n \in k + 1 .. l /\ u[i] = s[i - n]
        /\ \/ j \in 1 .. k /\ u[j] = s[j]
           \/ j - k \in 1 .. n /\ u[j] = t[j - k]
           \/ j - n \in k + 1 .. l /\ u[j] = s[j - n]
    BY <1>6
  <2>5. CASE i \in 1 .. k /\ u[i] = s[i]
    BY <1>7, <1>8, <2>1, <2>2, <2>4, <2>5
  <2>6. CASE i - k \in 1 .. n /\ u[i] = t[i - k]
    BY <1>7, <1>8, <2>1, <2>3, <2>4, <2>6
  <2>7. CASE i - n \in k + 1 .. l /\ u[i] = s[i - n]
    BY <1>7, <1>8, <2>1, <2>2, <2>4, <2>7
  <2> QED
    BY <2>4, <2>5, <2>6, <2>7
<1>9. \A i \in 1 .. l + n : u[i] # h
  <2> SUFFICES ASSUME NEW i \in 1 .. l + n PROVE u[i] # h
    OBVIOUS
  <2>1. k \in 0 .. l /\ l \in Nat /\ 1 \in 1 .. n
    BY <1>1, <1>3, <1>4
  <2>2. \A x \in 1 .. l : s[x] # h
    BY <1>7, <2>1
  <2>3. \A x \in 1 .. n : t[x] # h
    <3>1. ow[h] = h
      BY DEF Lays
    <3> QED
      BY <1>3, <3>1
  <2> QED
    BY <1>6, <2>1, <2>2, <2>3
<1>10. ASSUME NEW x \in Node PROVE w[x] = h <=> x = h \/ \E i \in 1 .. l + n : u[i] = x
  <2>1. ASSUME NEW i \in 1 .. l, s[i] = x PROVE \E j \in 1 .. l + n : u[j] = x
    <3>1. CASE i <= k
      <4>1. i \in 1 .. l + n /\ u[i] = x
        BY <1>1, <1>3, <1>4, <1>5, <2>1, <3>1
      <4> QED
        BY <4>1
    <3>2. CASE i > k
      <4>1. i \in k + 1 .. l /\ i + n \in 1 .. l + n
        BY <1>1, <1>3, <1>4, <3>2
      <4>2. u[i + n] = x
        BY <1>5, <2>1, <4>1
      <4> QED
        BY <4>1, <4>2
    <3> QED
      BY <1>1, <3>1, <3>2
  <2>2. ASSUME NEW i \in 1 .. n, t[i] = x PROVE \E j \in 1 .. l + n : u[j] = x
    <3>1. k + i \in 1 .. l + n /\ u[k + i] = x
      BY <1>1, <1>3, <1>4, <1>5, <2>2
    <3> QED
      BY <3>1
  <2>3. ASSUME NEW i \in 1 .. l + n, u[i] = x
        PROVE (\E j \in 1 .. l : s[j] = x) \/ (\E j \in 1 .. n : t[j] = x)
    <3>1. k \in 0 .. l /\ l \in Nat
      BY <1>1, <1>4
    <3> QED
      BY <1>6, <2>3, <3>1
  <2>4. ow[x] = h <=> x = h \/ \E i \in 1 .. l : s[i] = x
    BY <1>4 DEF Lays
  <2>5. w[x] = h <=> ow[x] = h \/ \E i \in 1 .. n : t[i] = x
    BY <1>3
  <2> QED
    BY <2>1, <2>2, <2>3, <2>4, <2>5
<1>11. ASSUME NEW i \in 0 .. l + n PROVE m[At(h, u, i)] = At(h, u, i + 1)
  <2>1. l \in Nat /\ n \in Nat /\ n >= 1 /\ k \in 0 .. l /\ Len(u) = l + n
    BY <1>1, <1>3, <1>4, <1>5
  <2>2. \A j \in 0 .. l : j # k => m[At(h, s, j)] = At(h, s, j + 1)
    <3> SUFFICES ASSUME NEW j \in 0 .. l, j # k PROVE m[At(h, s, j)] = At(h, s, j + 1)
      OBVIOUS
    <3>1. At(h, s, j) # At(h, s, k)
      BY <1>4, PlacesDiffer
    <3>2. IsOn(ow, h, At(h, s, j))
      <4>1. j \in Int
        BY <2>1
      <4> QED
        BY <4>1, AtIsOn, Zenon
    <3>3. nx[At(h, s, j)] = At(h, s, j + 1)
      BY <1>4 DEF Lays
    <3> QED
      BY <3>1, <3>2, <3>3 DEF IsOn
  <2>3. m[t[n]] = At(h, s, k + 1)
    <3>1. nx[At(h, s, k)] = At(h, s, k + 1)
      BY DEF Lays
    <3> QED
      BY <1>3, <3>1 DEF Linking
  <2>4. \A j \in 0 .. k : At(h, u, j) = At(h, s, j)
    BY <1>4, <1>5, <2>1 DEF At
  <2>5. \A j \in k + 1 .. l + 1 : At(h, u, j + n) = At(h, s, j)
    <3> SUFFICES ASSUME NEW j \in k + 1 .. l + 1 PROVE At(h, u, j + n) = At(h, s, j)
      OBVIOUS
    <3>1. CASE j = l + 1
      BY <1>4, <2>1, <3>1 DEF At
    <3>2. CASE j # l + 1
      <4>1. j \in k + 1 .. l /\ j + n \in 1 .. l + n
        BY <2>1, <3>2
      <4> QED
        BY <1>4, <1>5, <2>1, <4>1 DEF At
    <3> QED
      BY <3>1, <3>2
  <2>6. \A j \in 1 .. n : At(h, u, k + j) = t[j]
    BY <1>5, <2>1 DEF At
  <2>7. CASE i < k
    <3>1. i \in 0 .. k /\ i + 1 \in 0 .. k /\ i \in 0 .. l /\ i # k
      BY <2>1, <2>7
    <3> QED
      BY <2>2, <2>4, <3>1
  <2>8. CASE i = k
    <3>1. k \in 0 .. k /\ 1 \in 1 .. n
      BY <2>1
    <3>2. At(h, u, k) = At(h, s, k) /\ At(h, u, k + 1) = t[1]
      BY <2>4, <2>6, <3>1
    <3> QED
      BY <2>8, <3>2 DEF Linking
  <2>9. CASE k < i /\ i < k + n
    <3>1. i - k \in 1 .. n - 1 /\ i - k \in 1 .. n /\ i - k + 1 \in 1 .. n
          /\ k + (i - k) = i /\ k + (i - k + 1) = i + 1
      BY <2>1, <2>9
    <3>2. At(h, u, i) = t[i - k] /\ At(h, u, i + 1) = t[i - k + 1]
      BY <2>6, <3>1
    <3>3. m[t[i - k]] = t[i - k + 1]
      BY <1>3, <3>1 DEF Linking
    <3> QED
      BY <3>2, <3>3
  <2>10. CASE i = k + n
    <3>1. n \in 1 .. n /\ k + 1 \in k + 1 .. l + 1 /\ k + 1 + n = i + 1
      BY <2>1, <2>10
    <3>2. At(h, u, i) = t[n] /\ At(h, u, i + 1) = At(h, s, k + 1)
      BY <2>5, <2>6, <2>10, <3>1
    <3> QED
      BY <2>3, <3>2
  <2>11. CASE i > k + n
    <3>1. /\ i - n \in k + 1 .. l + 1 /\ i - n + 1 \in k + 1 .. l + 1 /\ i - n \in 0 .. l
          /\ i - n # k /\ i - n + n = i /\ i - n + 1 + n = i + 1
      BY <2>1, <2>11
    <3>2. At(h, u, i) = At(h, s, i - n) /\ At(h, u, i + 1) = At(h, s, i - n + 1)
      BY <2>5, <3>1
    <3>3. m[At(h, s, i - n)] = At(h, s, i - n + 1)
      BY <2>2, <3>1
    <3> QED
      BY <3>2, <3>3
  <2> QED
    BY <2>1, <2>7, <2>8, <2>9, <2>10, <2>11
<1> QED
  BY <1>2, <1>5, <1>8, <1>9, <1>10, <1>11 DEF Lays

\* The node at place k leaves the list of h, to which nothing else happens.
Going(nx, ow, m, w, h, s, k) ==
  /\ k \in 1 .. Len(s) /\ m[At(h, s, k - 1)] = nx[s[k]]
  /\ \A x \in Node : ow[x] = h /\ x \notin {s[k], At(h, s, k - 1)} => m[x] = nx[x]
  /\ \A x \in Node : w[x] = h <=> ow[x] = h /\ x # s[k]

\* One node less on a ring.
LEMMA LaysLess ==
  ASSUME NEW nx, NEW ow, NEW m, NEW w, NEW h \in Node, NEW s, Lays(nx, ow, h, s),
         NEW k, Going(nx, ow, m, w, h, s, k)
  PROVE Lays(m, w, h, CutOut(s, k))
<1> USE DEF Going
<1>1. PICK u : u = CutOut(s, k)
  OBVIOUS
<1>2. PICK l : l = Len(s)
  OBVIOUS
<1>3. s \in Seq(Node) /\ l \in Nat /\ k \in 1 .. l /\ l - 1 \in Nat
  BY <1>2 DEF Lays
<1>4. /\ u \in Seq(Node) /\ Len(u) = l - 1
      /\ \A i \in 1 .. k - 1 : u[i] = s[i]
      /\ \A i \in k .. l - 1 : u[i] = s[i + 1]
  <2>1. Narrowed(Node, s, k, u)
    BY <1>1, <1>3, CutPlaces
  <2> QED
    BY <1>2, <2>1 DEF Narrowed
<1>5. \A i \in 1 .. l - 1 : \/ i < k /\ i \in 1 .. l /\ u[i] = s[i]
                            \/ i >= k /\ i + 1 \in 1 .. l /\ u[i] = s[i + 1]
  BY <1>3, <1>4
<1>6. \A i, j \in 1 .. l : s[i] = s[j] => i = j
  BY <1>2 DEF Lays
<1>7. \A i, j \in 1 .. l - 1 : u[i] = u[j] => i = j
  <2> HIDE DEF Going
  <2> SUFFICES ASSUME NEW i \in 1 .. l - 1, NEW j \in 1 .. l - 1, u[i] = u[j] PROVE i = j
    OBVIOUS
  <2>1. CASE i < k /\ j < k
    <3>1. i \in 1 .. l /\ u[i] = s[i] /\ j \in 1 .. l /\ u[j] = s[j]
      BY <1>3, <1>5, <2>1
    <3> QED
      BY <1>6, <3>1
  <2>2. CASE i >= k /\ j >= k
    <3>1. i + 1 \in 1 .. l /\ u[i] = s[i + 1] /\ j + 1 \in 1 .. l /\ u[j] = s[j + 1]
      BY <1>3, <1>5, <2>2
    <3>2. i + 1 = j + 1
      BY <1>6, <3>1
    <3> QED
      BY <3>2
  <2>3. CASE i < k /\ j >= k
    <3>1. i \in 1 .. l /\ u[i] = s[i] /\ j + 1 \in 1 .. l /\ u[j] = s[j + 1]
      BY <1>3, <1>5, <2>3
    <3>2. i = j + 1
      BY <1>6, <3>1
    <3> QED
      BY <1>3, <2>3, <3>2
  <2>4. CASE i >= k /\ j < k
    <3>1. i + 1 \in 1 .. l /\ u[i] = s[i + 1] /\ j \in 1 .. l /\ u[j] = s[j]
      BY <1>3, <1>5, <2>4
    <3>2. i + 1 = j
      BY <1>6, <3>1
    <3> QED
      BY <1>3, <2>4, <3>2
  <2> QED
    BY <1>3, <2>1, <2>2, <2>3, <2>4
<1>8. \A i \in 1 .. l - 1 : u[i] # h
  BY <1>2, <1>5 DEF Lays
<1>9. ASSUME NEW x \in Node PROVE w[x] = h <=> x = h \/ \E i \in 1 .. l - 1 : u[i] = x
  <2>1. ow[x] = h <=> x = h \/ \E i \in 1 .. l : s[i] = x
    BY <1>2 DEF Lays
  <2>2. s[k] # h
    BY DEF Lays
  <2>3. ASSUME NEW i \in 1 .. l, s[i] = x, x # s[k] PROVE \E j \in 1 .. l - 1 : u[j] = x
    <3>1. CASE i < k
      <4>1. i \in 1 .. l - 1 /\ u[i] = x
        BY <1>3, <1>4, <2>3, <3>1
      <4> QED
        BY <4>1
    <3>2. CASE i > k
      <4>1. i - 1 \in k .. l - 1 /\ i - 1 \in 1 .. l - 1 /\ i - 1 + 1 = i
        BY <1>3, <3>2
      <4>2. u[i - 1] = x
        BY <1>4, <2>3, <4>1
      <4> QED
        BY <4>1, <4>2
    <3> QED
      BY <1>3, <2>3, <3>1, <3>2
  <2>4. ASSUME NEW i \in 1 .. l - 1, u[i] = x PROVE x # s[k] /\ \E j \in 1 .. l : s[j] = x
    <3>1. CASE i < k
      <4>1. i \in 1 .. l /\ s[i] = x /\ i # k
        BY <1>3, <1>5, <2>4, <3>1
      <4> QED
        BY <1>3, <1>6, <4>1
    <3>2. CASE i >= k
      <4>1. i + 1 \in 1 .. l /\ s[i + 1] = x /\ i + 1 # k
        BY <1>3, <1>5, <2>4, <3>2
      <4> QED
        BY <1>3, <1>6, <4>1
    <3> QED
      BY <1>3, <3>1, <3>2
  <2> QED
    BY <2>1, <2>2, <2>3, <2>4
<1>10. ASSUME NEW i \in 0 .. l - 1 PROVE m[At(h, u, i)] = At(h, u, i + 1)
  <2>1. \A j \in 0 .. k - 1 : At(h, u, j) = At(h, s, j)
    BY <1>2, <1>3, <1>4 DEF At
  <2>2. \A j \in k .. l : At(h, u, j) = At(h, s, j + 1)
    <3> SUFFICES ASSUME NEW j \in k .. l PROVE At(h, u, j) = At(h, s, j + 1)
      OBVIOUS
    <3>1. CASE j = l
      BY <1>2, <1>3, <1>4, <3>1 DEF At
    <3>2. CASE j # l
      <4>1. j \in k .. l - 1 /\ j \in 1 .. l - 1 /\ j + 1 \in 1 .. l
        BY <1>3, <3>2
      <4> QED
        BY <1>2, <1>4, <4>1 DEF At
    <3> QED
      BY <3>1, <3>2
  <2>3. \A j \in 0 .. l : nx[At(h, s, j)] = At(h, s, j + 1)
    BY <1>2 DEF Lays
  <2>4. At(h, s, k) = s[k] /\ k \in 0 .. l /\ k - 1 \in 0 .. l
    BY <1>2, <1>3 DEF At
  <2>5. ASSUME NEW j \in 0 .. l, j # k, j # k - 1
        PROVE m[At(h, s, j)] = At(h, s, j + 1)
    <3>1. At(h, s, j) # At(h, s, k) /\ At(h, s, j) # At(h, s, k - 1)
      BY <1>2, <2>4, <2>5, PlacesDiffer
    <3>2. IsOn(ow, h, At(h, s, j))
      <4>1. j \in Int
        BY <1>3
      <4> QED
        BY <4>1, AtIsOn, Zenon
    <3> QED
      BY <2>3, <2>4, <3>1, <3>2 DEF IsOn
  <2>6. CASE i < k - 1
    <3>1. i \in 0 .. k - 1 /\ i + 1 \in 0 .. k - 1 /\ i \in 0 .. l /\ i # k /\ i # k - 1
      BY <1>3, <2>6
    <3> QED
      BY <2>1, <2>5, <3>1
  <2>7. CASE i = k - 1
    <3>1. k - 1 \in 0 .. k - 1 /\ k \in k .. l /\ i + 1 = k
      BY <1>3, <2>7
    <3>2. At(h, u, i) = At(h, s, k - 1) /\ At(h, u, i + 1) = At(h, s, k + 1)
      BY <2>1, <2>2, <2>7, <3>1
    <3> QED
      BY <2>3, <2>4, <3>2
  <2>8. CASE i >= k
    <3>1. /\ i \in k .. l /\ i + 1 \in k .. l /\ i + 1 \in 0 .. l
          /\ i + 1 # k /\ i + 1 # k - 1
      BY <1>3, <2>8
    <3> QED
      BY <2>2, <2>5, <3>1
  <2> QED
    BY <1>3, <2>6, <2>7, <2>8
<1>11. 0 .. Len(u) = 0 .. l - 1
  BY <1>4
<1> QED
  BY <1>1, <1>4, <1>7, <1>8, <1>9, <1>10, <1>11 DEF Lays

\* In the ring of h the node n, from outside, takes the place of o.
Renaming(nx, ow, m, w, h, o, n) ==
  /\ o \in Node /\ n \in Node /\ ow[o] = h /\ ow[n] # h
  /\ \A x \in Node : ow[x] = h => m[Renamed(x, o, n)] = Renamed(nx[x], o, n)
  /\ \A x \in Node : w[x] = Renamed(h, o, n) <=> x = n \/ (ow[x] = h /\ x # o)

\* A ring in which n, from outside, takes the place of o: of an entry or of the head.
LEMMA LaysRenamed ==
  ASSUME NEW nx, NEW ow, NEW m, NEW w, NEW h \in Node, NEW s, Lays(nx, ow, h, s),
         NEW o, NEW n, Renaming(nx, ow, m, w, h, o, n)
  PROVE Lays(m, w, Renamed(h, o, n), [i \in 1 .. Len(s) |-> Renamed(s[i], o, n)])
<1> USE DEF Renaming
<1>1. PICK u : u = [i \in 1 .. Len(s) |-> Renamed(s[i], o, n)]
  OBVIOUS
<1>2. PICK g : g = Renamed(h, o, n)
  OBVIOUS
<1>3. s \in Seq(Node) /\ Len(s) \in Nat
  BY DEF Lays
<1>4. \A i \in 1 .. Len(s) : s[i] \in Node /\ ow[s[i]] = h /\ s[i] # n /\ s[i] # h
  BY <1>3 DEF Lays
<1>5. u \in Seq(Node) /\ Len(u) = Len(s) /\ \A i \in 1 .. Len(s) : u[i] = Renamed(s[i], o, n)
  BY <1>1, <1>3, <1>4 DEF Renamed
<1>6. h # n
  BY DEF Lays
<1>7. \A i, j \in 1 .. Len(s) : u[i] = u[j] => i = j
  <2>1. \A i, j \in 1 .. Len(s) : s[i] = s[j] => i = j
    BY DEF Lays
  <2> QED
    BY <1>4, <1>5, <2>1 DEF Renamed
<1>8. \A i \in 1 .. Len(s) : u[i] # g
  BY <1>2, <1>4, <1>5, <1>6 DEF Renamed
<1>9. ASSUME NEW x \in Node PROVE w[x] = g <=> x = g \/ \E i \in 1 .. Len(s) : u[i] = x
  <2>1. \A y \in Node : ow[y] = h <=> y = h \/ \E i \in 1 .. Len(s) : s[i] = y
    BY DEF Lays
  <2>2. w[x] = g <=> x = n \/ (ow[x] = h /\ x # o)
    BY <1>2
  <2>3. CASE x = n
    <3>1. CASE o = h
      BY <1>2, <2>2, <2>3, <3>1 DEF Renamed
    <3>2. CASE o # h
      <4>1. PICK i \in 1 .. Len(s) : s[i] = o
        BY <2>1, <3>2
      <4>2. u[i] = x
        BY <1>5, <2>3, <4>1 DEF Renamed
      <4> QED
        BY <2>2, <2>3, <4>2
    <3> QED
      BY <3>1, <3>2
  <2>4. CASE x # n
    <3>1. x = g <=> x = h /\ x # o
      BY <1>2, <2>4 DEF Renamed
    <3>2. \A i \in 1 .. Len(s) : u[i] = x <=> s[i] = x /\ x # o
      BY <1>4, <1>5, <2>4 DEF Renamed
    <3> QED
      BY <2>1, <2>2, <2>4, <3>1, <3>2
  <2> QED
    BY <2>3, <2>4
<1>10. ASSUME NEW i \in Int PROVE At(g, u, i) = Renamed(At(h, s, i), o, n)
  BY <1>2, <1>5 DEF At
<1>11. ASSUME NEW i \in 0 .. Len(s) PROVE m[At(g, u, i)] = At(g, u, i + 1)
  <2>1. i \in Int /\ i + 1 \in Int
    BY <1>3
  <2>2. At(g, u, i) = Renamed(At(h, s, i), o, n)
    BY <1>10, <2>1
  <2>3. At(g, u, i + 1) = Renamed(At(h, s, i + 1), o, n)
    BY <1>10, <2>1
  <2>4. IsOn(ow, h, At(h, s, i))
    BY <2>1, AtIsOn, Zenon
  <2>5. nx[At(h, s, i)] = At(h, s, i + 1)
    BY DEF Lays
  <2> QED
    BY <2>2, <2>3, <2>4, <2>5 DEF IsOn
<1>12. Lays(m, w, g, u)
  BY <1>5, <1>7, <1>8, <1>9, <1>11 DEF Lays
<1> QED
  BY <1>1, <1>2, <1>12

-----------------------------------------------------------------------------
(* All lists at once.                                                      *)

\* The heads, for given owners.
HeadsOf(ow) == {x \in Node : ow[x] = x}

\* ls has for each head the sequence that the pointers lay out.
LaysAll(nx, ow, ls) ==
  /\ ls = [h \in HeadsOf(ow) |-> ls[h]]
  /\ \A h \in HeadsOf(ow) : Lays(nx, ow, h, ls[h])

\* All lists but the one of n.
WithoutIn(ls, n) == [h \in DOMAIN ls \ {n} |-> ls[h]]

\* There is one way to lay them out, and it is what the walks meet.
LEMMA AllMeet ==
  ASSUME NEW nx, NEW ow, NEW ls, LaysAll(nx, ow, ls)
  PROVE ls = [h \in HeadsOf(ow) |-> ContentsOf(nx, ow, h)]
<1>1. \A h \in HeadsOf(ow) : ls[h] = ContentsOf(nx, ow, h)
  BY WalkMeets DEF LaysAll, HeadsOf
<1>2. ls = [h \in HeadsOf(ow) |-> ls[h]]
  BY DEF LaysAll
<1> QED
  BY <1>1, <1>2

\* The nodes t, on no list or on the one of n that ends, come onto the list of g.
Arriving(nx, ow, m, w, ls, n, g, k, t) ==
  /\ n \in Node /\ g \in HeadsOf(ow) \ {n}
  /\ t \in Seq(Node) /\ t # <<>> /\ k \in 0 .. Len(ls[g])
  /\ \A i, j \in 1 .. Len(t) : t[i] = t[j] => i = j
  /\ \A i \in 1 .. Len(t) : ow[t[i]] \notin Node \ {n}
  /\ Linking(nx, m, g, ls[g], k, t)
  /\ \A x \in Node : ow[x] \in Node \ {n} /\ x # At(g, ls[g], k) => m[x] = nx[x]
  /\ \A x \in Node : w[x] = g <=> ow[x] = g \/ \E i \in 1 .. Len(t) : t[i] = x
  /\ \A h \in Node \ {g, n} : \A x \in Node : w[x] = h <=> ow[x] = h
  /\ w[n] # n

\* New nodes of the list of g.
LEMMA AllMore ==
  ASSUME NEW nx, NEW ow, NEW m, NEW w, NEW ls, LaysAll(nx, ow, ls),
         NEW n, NEW g, NEW k, NEW t, Arriving(nx, ow, m, w, ls, n, g, k, t)
  PROVE LaysAll(m, w, L!Put(WithoutIn(ls, n), g, k, t))
<1> USE DEF Arriving
<1>1. /\ ls = [h \in HeadsOf(ow) |-> ls[h]] /\ DOMAIN ls = HeadsOf(ow)
      /\ \A h \in HeadsOf(ow) : Lays(nx, ow, h, ls[h])
  BY DEF LaysAll
<1>2. g \in Node /\ ow[g] = g /\ g # n
  BY DEF HeadsOf
<1>3. HeadsOf(w) = HeadsOf(ow) \ {n}
  <2>1. ASSUME NEW x \in Node PROVE x \in HeadsOf(w) <=> x \in HeadsOf(ow) \ {n}
    BY <1>2 DEF HeadsOf
  <2> QED
    BY <2>1 DEF HeadsOf
<1>4. PICK u : u = L!Put(WithoutIn(ls, n), g, k, t)
  OBVIOUS
<1>5. /\ u = [h \in HeadsOf(w) |-> u[h]]
      /\ u[g] = PutIn(ls[g], k, t)
      /\ \A h \in HeadsOf(w) \ {g} : u[h] = ls[h]
  <2>1. WithoutIn(ls, n) = [h \in HeadsOf(w) |-> ls[h]]
    BY <1>1, <1>3 DEF WithoutIn
  <2>2. u = [WithoutIn(ls, n) EXCEPT ![g] = PutIn(@, k, t)]
    BY <1>4 DEF L!Put, PutIn
  <2>3. g \in HeadsOf(w)
    BY <1>3
  <2> QED
    BY <2>1, <2>2, <2>3
<1>6. Lays(m, w, g, u[g])
  <2>1. Lays(nx, ow, g, ls[g])
    BY <1>1
  <2>2. \A i \in 1 .. Len(t) : ow[t[i]] # g
    BY <1>2
  <2>3. \A x \in Node : ow[x] = g /\ x # At(g, ls[g], k) => m[x] = nx[x]
    BY <1>2
  <2>4. Coming(nx, ow, m, w, g, ls[g], k, t)
    BY <1>2, <2>1, <2>2, <2>3 DEF Coming
  <2>5. Lays(m, w, g, PutIn(ls[g], k, t))
    BY <1>2, <2>1, <2>4, LaysMore
  <2> QED
    BY <1>5, <2>5
<1>7. ASSUME NEW h \in HeadsOf(w) \ {g} PROVE Lays(m, w, h, u[h])
  <2>1. h \in Node \ {g, n} /\ h \in HeadsOf(ow) /\ Lays(nx, ow, h, ls[h])
    BY <1>1, <1>3 DEF HeadsOf
  <2>2. \A x \in Node : ow[x] = h => m[x] = nx[x]
    <3> SUFFICES ASSUME NEW x \in Node, ow[x] = h PROVE m[x] = nx[x]
      OBVIOUS
    <3>1. k \in Int
      <4>1. ls[g] \in Seq(Node)
        BY <1>1 DEF Lays
      <4> QED
        BY <4>1
    <3>2. IsOn(ow, g, At(g, ls[g], k))
      <4>1. Lays(nx, ow, g, ls[g])
        BY <1>1
      <4> QED
        BY <1>2, <3>1, <4>1, AtIsOn, Zenon
    <3> QED
      BY <2>1, <3>2 DEF IsOn
  <2>3. \A x \in Node : w[x] = h <=> ow[x] = h
    BY <2>1
  <2>4. Lays(m, w, h, ls[h])
    <3>1. Still(nx, ow, m, w, h)
      BY <2>2, <2>3 DEF Still
    <3> QED
      BY <2>1, <3>1, LaysStill
  <2> QED
    BY <1>5, <2>4
<1> QED
  BY <1>4, <1>5, <1>6, <1>7 DEF LaysAll

\* A new empty list.
LEMMA AllNew ==
  ASSUME NEW nx, NEW ow, NEW m, NEW w, NEW ls, LaysAll(nx, ow, ls),
         NEW n \in Node, ow[n] \notin Node, m[n] = n, w[n] = n,
         \A x \in Node : ow[x] \in Node => m[x] = nx[x],
         \A x \in Node \ {n} : w[x] = ow[x] \/ (w[x] \notin Node /\ ow[x] \notin Node),
         \A x \in Node : ow[x] # n
  PROVE LaysAll(m, w, L!With(ls, n, <<>>))
<1>1. /\ ls = [h \in HeadsOf(ow) |-> ls[h]] /\ DOMAIN ls = HeadsOf(ow)
      /\ \A h \in HeadsOf(ow) : Lays(nx, ow, h, ls[h])
  BY DEF LaysAll
<1>2. HeadsOf(w) = HeadsOf(ow) \cup {n} /\ n \notin HeadsOf(ow)
  BY DEF HeadsOf
<1>3. PICK u : u = L!With(ls, n, <<>>)
  OBVIOUS
<1>4. u = [h \in HeadsOf(w) |-> u[h]] /\ u[n] = <<>> /\ \A h \in HeadsOf(ow) : u[h] = ls[h]
  BY <1>1, <1>2, <1>3 DEF L!With
<1>5. Lays(m, w, n, <<>>)
  <2>1. \A x \in Node : w[x] = n <=> x = n
    OBVIOUS
  <2>2. <<>> \in Seq(Node) /\ Len(<<>>) = 0
    OBVIOUS
  <2> QED
    BY <2>1, <2>2 DEF Lays, At
<1>6. ASSUME NEW h \in HeadsOf(ow) PROVE Lays(m, w, h, ls[h])
  <2>1. h \in Node /\ h # n /\ Lays(nx, ow, h, ls[h])
    BY <1>1, <1>2 DEF HeadsOf
  <2>2. \A x \in Node : ow[x] = h => m[x] = nx[x]
    BY <2>1
  <2>3. \A x \in Node : w[x] = h <=> ow[x] = h
    BY <2>1
  <2> QED
    <3>1. Still(nx, ow, m, w, h)
      BY <2>2, <2>3 DEF Still
    <3> QED
      BY <2>1, <3>1, LaysStill
<1> QED
  BY <1>2, <1>3, <1>4, <1>5, <1>6 DEF LaysAll

\* The list of head g without its element k.
CutFrom(ls, g, k) == [ls EXCEPT ![g] = CutOut(@, k)]

\* The element k of the list of g, which is e, is taken out; the pointer of e
\* itself is left open.
Leaving(nx, ow, m, w, ls, g, k, e) ==
  /\ g \in HeadsOf(ow) /\ k \in 1 .. Len(ls[g]) /\ e = ls[g][k]
  /\ m[At(g, ls[g], k - 1)] = nx[e]
  /\ \A x \in Node : ow[x] \in Node /\ x \notin {e, At(g, ls[g], k - 1)} => m[x] = nx[x]
  /\ w[e] \notin Node /\ \A x \in Node \ {e} : w[x] = ow[x]

\* An entry less on the list of g.
LEMMA AllLess ==
  ASSUME NEW nx, NEW ow, NEW m, NEW w, NEW ls, LaysAll(nx, ow, ls),
         NEW g, NEW k, NEW e, Leaving(nx, ow, m, w, ls, g, k, e)
  PROVE LaysAll(m, w, CutFrom(ls, g, k))
<1> USE DEF Leaving
<1>1. /\ ls = [h \in HeadsOf(ow) |-> ls[h]] /\ DOMAIN ls = HeadsOf(ow)
      /\ \A h \in HeadsOf(ow) : Lays(nx, ow, h, ls[h])
  BY DEF LaysAll
<1>2. g \in Node /\ ow[g] = g /\ ls[g] \in Seq(Node) /\ Lays(nx, ow, g, ls[g])
  BY <1>1 DEF HeadsOf, Lays
<1>3. e \in Node /\ ow[e] = g /\ e # g
  <2>1. e \in Node
    BY <1>2
  <2> QED
    BY <1>2, <2>1 DEF Lays
<1>4. HeadsOf(w) = HeadsOf(ow)
  BY <1>3 DEF HeadsOf
<1>5. PICK u : u = CutFrom(ls, g, k)
  OBVIOUS
<1>6. /\ u = [h \in HeadsOf(w) |-> u[h]] /\ u[g] = CutOut(ls[g], k)
      /\ \A h \in HeadsOf(w) \ {g} : u[h] = ls[h]
  BY <1>1, <1>4, <1>5 DEF CutFrom
<1>7. Lays(m, w, g, u[g])
  <2>1. \A x \in Node : ow[x] = g /\ x \notin {ls[g][k], At(g, ls[g], k - 1)} => m[x] = nx[x]
    BY <1>2
  <2>2. \A x \in Node : w[x] = g <=> ow[x] = g /\ x # ls[g][k]
    BY <1>2, <1>3
  <2>3. Going(nx, ow, m, w, g, ls[g], k)
    BY <2>1, <2>2 DEF Going
  <2>4. Lays(m, w, g, CutOut(ls[g], k))
    BY <1>2, <2>3, LaysLess
  <2> QED
    BY <1>6, <2>4
<1>8. ASSUME NEW h \in HeadsOf(w) \ {g} PROVE Lays(m, w, h, u[h])
  <2>1. h \in Node /\ h \in HeadsOf(ow) /\ Lays(nx, ow, h, ls[h])
    BY <1>1, <1>4 DEF HeadsOf
  <2>2. \A x \in Node : ow[x] = h => m[x] = nx[x]
    <3> SUFFICES ASSUME NEW x \in Node, ow[x] = h PROVE m[x] = nx[x]
      OBVIOUS
    <3>1. k - 1 \in Int
      BY <1>2
    <3>2. IsOn(ow, g, At(g, ls[g], k - 1))
      BY <1>2, <3>1, AtIsOn, Zenon
    <3> QED
      BY <1>3, <2>1, <3>2 DEF IsOn
  <2>3. \A x \in Node : w[x] = h <=> ow[x] = h
    BY <1>3, <2>1
  <2>4. Lays(m, w, h, ls[h])
    <3>1. Still(nx, ow, m, w, h)
      BY <2>2, <2>3 DEF Still
    <3> QED
      BY <2>1, <3>1, LaysStill
  <2> QED
    BY <1>6, <2>4
<1> QED
  BY <1>5, <1>6, <1>7, <1>8 DEF LaysAll

\* n in the place of o in all lists.
RenamedIn(ls, o, n) ==
  IF o \in DOMAIN ls THEN L!With(WithoutIn(ls, o), n, ls[o])
  ELSE [h \in DOMAIN ls |-> [i \in 1 .. Len(ls[h]) |-> IF ls[h][i] = o THEN n ELSE ls[h][i]]]

\* The node n, which was on no list, comes for o on the list of g; o is on none then.
Succeeding(nx, ow, m, w, o, n, g) ==
  /\ o \in Node /\ n \in Node /\ g \in HeadsOf(ow) /\ ow[o] = g /\ ow[n] \notin Node
  /\ \A x \in Node : ow[x] \in Node => ow[x] \in HeadsOf(ow)
  /\ \A x \in Node : ow[x] = g => m[Renamed(x, o, n)] = Renamed(nx[x], o, n)
  /\ \A x \in Node : ow[x] \in Node \ {g} => m[x] = nx[x]
  /\ w[o] \notin Node /\ w[n] = Renamed(g, o, n)
  /\ \A x \in Node \ {o, n} : w[x] = Renamed(ow[x], o, n)

\* A successor.
LEMMA AllRenamed ==
  ASSUME NEW nx, NEW ow, NEW m, NEW w, NEW ls, LaysAll(nx, ow, ls),
         NEW o, NEW n, NEW g, Succeeding(nx, ow, m, w, o, n, g)
  PROVE LaysAll(m, w, RenamedIn(ls, o, n))
<1> USE DEF Succeeding
<1>1. /\ ls = [h \in HeadsOf(ow) |-> ls[h]] /\ DOMAIN ls = HeadsOf(ow)
      /\ \A h \in HeadsOf(ow) : Lays(nx, ow, h, ls[h])
  BY DEF LaysAll
<1>2. g \in Node /\ ow[g] = g /\ ls[g] \in Seq(Node) /\ Lays(nx, ow, g, ls[g]) /\ n # g /\ n # o
  BY <1>1 DEF HeadsOf, Lays
<1>3. PICK d : d = Renamed(g, o, n)
  OBVIOUS
<1>4. PICK r : r = [i \in 1 .. Len(ls[g]) |-> Renamed(ls[g][i], o, n)]
  OBVIOUS
<1>5. PICK u : u = RenamedIn(ls, o, n)
  OBVIOUS
<1>6. d \in Node /\ HeadsOf(w) = (HeadsOf(ow) \ {g}) \cup {d} /\ (o # g => o \notin HeadsOf(ow))
  <2>1. CASE o = g
    <3>1. d = n /\ \A x \in Node : w[x] = x <=> x = n \/ (ow[x] = x /\ x # g)
      BY <1>2, <1>3, <2>1 DEF Renamed
    <3> QED
      BY <1>2, <2>1, <3>1 DEF HeadsOf
  <2>2. CASE o # g
    <3>1. d = g /\ \A x \in Node : w[x] = x <=> ow[x] = x
      BY <1>2, <1>3, <2>2 DEF Renamed
    <3> QED
      BY <1>2, <2>2, <3>1 DEF HeadsOf
  <2> QED
    BY <2>1, <2>2
<1>7. Lays(m, w, d, r)
  <2>1. ow[n] # g
    BY <1>2
  <2>2. \A x \in Node : w[x] = d <=> x = n \/ (ow[x] = g /\ x # o)
    <3>1. CASE o = g
      <4>1. d = n /\ w[n] = n
        BY <1>3, <3>1 DEF Renamed
      <4>2. ASSUME NEW x \in Node \ {o, n} PROVE w[x] = n <=> ow[x] = g
        <5>1. ow[x] # n
          BY DEF HeadsOf
        <5> QED
          BY <3>1, <5>1 DEF Renamed
      <4>3. w[o] # d
        BY <1>6
      <4> QED
        BY <1>2, <2>1, <3>1, <4>1, <4>2, <4>3
    <3>2. CASE o # g
      <4>1. d = g /\ w[n] = g
        BY <1>3, <3>2 DEF Renamed
      <4>2. ASSUME NEW x \in Node \ {o, n} PROVE w[x] = ow[x]
        <5>1. CASE ow[x] = o
          BY <1>6, <3>2, <5>1
        <5>2. CASE ow[x] # o
          BY <5>2 DEF Renamed
        <5> QED
          BY <5>1, <5>2
      <4>3. w[o] # d
        BY <1>6
      <4> SUFFICES ASSUME NEW x \in Node PROVE w[x] = d <=> x = n \/ (ow[x] = g /\ x # o)
        OBVIOUS
      <4>4. CASE x = n
        BY <4>1, <4>4
      <4>5. CASE x = o
        BY <1>2, <4>3, <4>5
      <4>6. CASE x \notin {n, o}
        BY <4>1, <4>2, <4>6
      <4> QED
        BY <4>4, <4>5, <4>6
    <3> QED
      BY <3>1, <3>2
  <2>3. Lays(m, w, Renamed(g, o, n), [i \in 1 .. Len(ls[g]) |-> Renamed(ls[g][i], o, n)])
    <3>1. Renaming(nx, ow, m, w, g, o, n)
      BY <1>2, <1>3, <2>1, <2>2 DEF Renaming
    <3> QED
      BY <1>2, <3>1, LaysRenamed
  <2> QED
    BY <1>3, <1>4, <2>3
<1>8. ASSUME NEW h \in HeadsOf(ow) \ {g} PROVE h # d /\ Lays(m, w, h, ls[h])
  <2>1. h \in Node /\ Lays(nx, ow, h, ls[h]) /\ ow[h] = h /\ h # n /\ h # o
    BY <1>1, <1>2, <1>6 DEF HeadsOf
  <2>2. h # d
    BY <1>3, <2>1 DEF Renamed
  <2>3. \A x \in Node : w[x] = h <=> ow[x] = h
    <3> SUFFICES ASSUME NEW x \in Node PROVE w[x] = h <=> ow[x] = h
      OBVIOUS
    <3>1. CASE x = o
      BY <2>1, <3>1
    <3>2. CASE x = n
      BY <1>3, <2>1, <2>2, <3>2
    <3>3. CASE x \notin {o, n}
      BY <2>1, <3>3 DEF Renamed
    <3> QED
      BY <3>1, <3>2, <3>3
  <2>4. Still(nx, ow, m, w, h)
    BY <2>1, <2>3 DEF Still
  <2> QED
    BY <2>1, <2>2, <2>4, LaysStill
<1>9. ASSUME NEW h \in HeadsOf(ow) \ {g}
      PROVE ls[h] = [i \in 1 .. Len(ls[h]) |-> IF ls[h][i] = o THEN n ELSE ls[h][i]]
  <2>1. Lays(nx, ow, h, ls[h]) /\ h # g
    BY <1>1
  <2>2. \A i \in 1 .. Len(ls[h]) : ls[h][i] # o
    BY <2>1 DEF Lays
  <2>3. ls[h] \in Seq(Node)
    BY <2>1 DEF Lays
  <2> QED
    BY <2>2, <2>3
<1>10. /\ u = [h \in HeadsOf(w) |-> u[h]] /\ u[d] = r
       /\ \A h \in HeadsOf(ow) \ {g} : u[h] = ls[h]
  <2>1. CASE o = g
    <3>1. d = n /\ r = ls[g]
      <4>1. \A i \in 1 .. Len(ls[g]) : Renamed(ls[g][i], o, n) = ls[g][i]
        BY <1>2, <2>1 DEF Lays, Renamed
      <4>2. r = ls[g]
        BY <1>2, <1>4, <4>1
      <4> QED
        BY <1>3, <2>1, <4>2 DEF Renamed
    <3>2. u = L!With(WithoutIn(ls, o), n, ls[o])
      BY <1>1, <1>5, <2>1 DEF RenamedIn
    <3>3. WithoutIn(ls, o) = [h \in HeadsOf(ow) \ {g} |-> ls[h]]
      BY <1>1, <2>1 DEF WithoutIn
    <3>4. u = [h \in HeadsOf(w) |-> IF h = n THEN ls[o] ELSE [x \in HeadsOf(ow) \ {g} |-> ls[x]][h]]
      BY <1>6, <3>1, <3>2, <3>3 DEF L!With
    <3> QED
      BY <1>6, <1>8, <2>1, <3>1, <3>4
  <2>2. CASE o # g
    <3>1. d = g /\ HeadsOf(w) = HeadsOf(ow)
      BY <1>2, <1>3, <1>6, <2>2 DEF Renamed
    <3>2. u = [h \in HeadsOf(ow) |->
                 [i \in 1 .. Len(ls[h]) |-> IF ls[h][i] = o THEN n ELSE ls[h][i]]]
      BY <1>1, <1>5, <1>6, <2>2 DEF RenamedIn
    <3>3. u[g] = r
      BY <1>4, <3>2 DEF Renamed
    <3>4. \A h \in HeadsOf(ow) \ {g} : u[h] = ls[h]
      BY <1>9, <3>2
    <3> QED
      BY <3>1, <3>2, <3>3, <3>4
  <2> QED
    BY <2>1, <2>2
<1>11. \A h \in HeadsOf(w) : Lays(m, w, h, u[h])
  BY <1>6, <1>7, <1>8, <1>10
<1> QED
  BY <1>5, <1>10, <1>11 DEF LaysAll

-----------------------------------------------------------------------------
(* The sequences of the promise.                                           *)

\* They are what the pointers lay out now,
LEMMA SequencesAre ==
  ASSUME NEW ls, LaysAll(nxt, owner, ls)
  PROVE [h \in Heads |-> Contents(h)] = ls
<1>1. ls = [h \in HeadsOf(owner) |-> ContentsOf(nxt, owner, h)]
  BY AllMeet
<1>2. Heads = HeadsOf(owner)
  BY DEF Heads, HeadsOf
<1> QED
  BY <1>1, <1>2, ContentsAre

\* and after the next step what they lay out then.
LEMMA SequencesWillBe ==
  ASSUME NEW ls, LaysAll(nxt', owner', ls)
  PROVE [h \in Heads |-> Contents(h)]' = ls
<1>1. ls = [h \in HeadsOf(owner') |-> ContentsOf(nxt', owner', h)]
  BY AllMeet
<1>2. Heads' = HeadsOf(owner')
  BY DEF Heads, HeadsOf
<1>3. [h \in Heads |-> Contents(h)]' = [h \in Heads' |-> Contents(h)']
  OBVIOUS
<1> QED
  BY <1>1, <1>2, <1>3, ContentsWillBe

\* The lists of the promise, when ls has their sequences.
Shown(ls) ==
  /\ L!Heads = Heads /\ L!Free = Free /\ L!Linked = Linked /\ L!Entries = Entries
  /\ DOMAIN ls = Heads
  /\ \A h \in Heads : Lays(nxt, owner, h, ls[h])

\* Where x is on them.
Located(ls, x) ==
  /\ owner[x] \in Heads /\ L!HeadOf(x) = owner[x]
  /\ L!Place(x) \in 0 .. Len(ls[owner[x]])
  /\ At(owner[x], ls[owner[x]], L!Place(x)) = x

\* The promise speaks of the same heads, entries and free nodes.
LEMMA SameNodes ==
  ASSUME TypeOK, NEW ls, LaysAll(nxt, owner, ls)
  PROVE Shown(ls)
<1>1. [h \in Heads |-> Contents(h)] = ls
  BY SequencesAre
<1>2. DOMAIN ls = Heads /\ \A h \in Heads : Lays(nxt, owner, h, ls[h])
  BY DEF LaysAll, Heads, HeadsOf
<1>3. L!Heads = Heads
  BY DEF L!Heads
<1>4. L!Entries = UNION {L!ToSet(ls[h]) : h \in Heads}
  BY <1>1, <1>3 DEF L!Entries
<1>5. ASSUME NEW h \in Heads PROVE L!ToSet(ls[h]) = {x \in Node : owner[x] = h /\ x # h}
  <2>1. Lays(nxt, owner, h, ls[h])
    BY <1>2
  <2>2. L!ToSet(ls[h]) = {ls[h][i] : i \in 1 .. Len(ls[h])}
    BY <2>1 DEF L!ToSet, Lays
  <2>3. \A i \in 1 .. Len(ls[h]) : ls[h][i] \in Node
    BY <2>1 DEF Lays
  <2> QED
    BY <2>1, <2>2, <2>3 DEF Lays
<1>6. L!Entries = Entries
  <2>1. L!Entries = UNION {{x \in Node : owner[x] = h /\ x # h} : h \in Heads}
    BY <1>4, <1>5
  <2>2. \A x : x \in L!Entries <=> \E h \in Heads : x \in Node /\ owner[x] = h /\ x # h
    BY <2>1
  <2>3. \A x : x \in Entries <=> \E h \in Heads : x \in Node /\ owner[x] = h /\ x # h
    BY ListAssumption DEF TypeOK, Entries, Linked, Free, Heads
  <2>4. \A x : x \in L!Entries <=> x \in Entries
    BY <2>2, <2>3, Zenon
  <2> QED
    BY <2>4
<1>7. L!Linked = Linked /\ L!Free = Free
  BY <1>3, <1>6, ListAssumption DEF L!Linked, L!Free, Entries, Linked, Free, Heads
<1> QED
  BY <1>2, <1>3, <1>6, <1>7 DEF Shown

\* It finds a node where it is.
LEMMA Found ==
  ASSUME TypeOK, NEW ls, LaysAll(nxt, owner, ls), NEW x \in Linked
  PROVE Located(ls, x)
<1>1. [h \in Heads |-> Contents(h)] = ls
  BY SequencesAre
<1>2. Shown(ls)
  BY SameNodes
<1>3. owner[x] \in Heads /\ x \in Node
  BY DEF TypeOK, Linked
<1>4. PICK o : o = owner[x]
  OBVIOUS
<1>5. PICK s : s = ls[o]
  OBVIOUS
<1>6. Lays(nxt, owner, o, s) /\ o \in Node
  BY <1>2, <1>3, <1>4, <1>5 DEF Shown, Heads
<1>7. L!HeadOf(x) = CHOOSE h \in Heads : x = h \/ x \in L!ToSet(ls[h])
  BY <1>1, <1>2 DEF L!HeadOf, Shown
<1>8. ASSUME NEW h \in Heads PROVE (x = h \/ x \in L!ToSet(ls[h])) <=> h = owner[x]
  <2>1. Lays(nxt, owner, h, ls[h]) /\ h \in Node /\ owner[h] = h
    BY <1>2 DEF Shown, Heads
  <2>2. L!ToSet(ls[h]) = {ls[h][i] : i \in 1 .. Len(ls[h])}
    BY <2>1 DEF L!ToSet, Lays
  <2> QED
    BY <1>3, <2>1, <2>2 DEF Lays
<1>9. L!HeadOf(x) = o
  BY <1>3, <1>4, <1>7, <1>8
<1>10. L!Place(x) = L!SelectInSeq(s, LAMBDA y : y = x)
  BY <1>1, <1>5, <1>9 DEF L!Place
<1>11. L!Place(x) \in 0 .. Len(s) /\ At(o, s, L!Place(x)) = x
  <2>1. CASE x = o
    <3>1. \A i \in 1 .. Len(s) : s[i] # x
      BY <1>6, <2>1 DEF Lays
    <3>2. L!Place(x) = 0
      BY <1>10, <3>1 DEF L!SelectInSeq
    <3> QED
      BY <1>6, <2>1, <3>2 DEF At, Lays
  <2>2. CASE x # o
    <3>1. PICK i \in 1 .. Len(s) : s[i] = x
      BY <1>3, <1>4, <1>6, <2>2 DEF Lays
    <3>2. \A j \in 1 .. Len(s) : s[j] = x => j = i
      BY <1>6, <3>1 DEF Lays
    <3>3. {j \in 1 .. Len(s) : s[j] = x} = {i}
      BY <3>1, <3>2
    <3>4. L!Place(x) = i
      BY <1>10, <3>1, <3>3 DEF L!SelectInSeq, L!Min
    <3> QED
      BY <1>6, <3>1, <3>4 DEF At, Lays
  <2> QED
    BY <2>1, <2>2
<1> QED
  BY <1>3, <1>4, <1>5, <1>9, <1>11 DEF Located

\* The sequences are ls and become u.
Turns(ls, u) ==
  /\ [h \in Heads |-> Contents(h)] = ls /\ [h \in Heads |-> Contents(h)]' = u
  /\ LaysAll(nxt', owner', u)

\* From what the pointers lay out before and after a step.
LEMMA TurnsInto ==
  ASSUME NEW ls, LaysAll(nxt, owner, ls), NEW u, LaysAll(nxt', owner', u)
  PROVE Turns(ls, u)
BY SequencesAre, SequencesWillBe DEF Turns

\* A new list.
LEMMA HeadInitShows ==
  ASSUME Inv, NEW ls, LaysAll(nxt, owner, ls), NEW n \in Node, EWX_LIST_HEAD_INIT(n)
  PROVE L!New(n) /\ \E u : LaysAll(nxt', owner', u)
<1> USE DEF Inv
<1>1. PICK u : u = L!With(ls, n, <<>>)
  OBVIOUS
<1>2. n \in Free /\ Shown(ls)
  BY SameNodes DEF EWX_LIST_HEAD_INIT
<1>3. LaysAll(nxt', owner', u)
  <2>1. owner[n] \notin Node /\ nxt'[n] = n /\ owner'[n] = n
    BY ListAssumption DEF EWX_LIST_HEAD_INIT, TypeOK, Free
  <2>2. \A x \in Node : owner[x] \in Node => nxt'[x] = nxt[x]
    BY ListAssumption DEF EWX_LIST_HEAD_INIT, TypeOK, Free
  <2>3. \A x \in Node \ {n} : owner'[x] = owner[x]
    BY DEF EWX_LIST_HEAD_INIT, TypeOK
  <2>4. \A x \in Node : owner[x] # n
    BY ListAssumption DEF EWX_LIST_HEAD_INIT, TypeOK, Free, Linked, Heads
  <2> QED
    BY <1>1, <2>1, <2>2, <2>3, <2>4, AllNew
<1>4. Turns(ls, u)
  BY <1>3, TurnsInto
<1>5. L!New(n)
  BY <1>1, <1>2, <1>4 DEF Turns, Shown, L!New
<1> QED
  BY <1>3, <1>5

\* The pointers m and owners w once the entry e is taken out; its own pointer is
\* left open.
TakenOut(m, w, e) ==
  /\ m[prv[e]] = nxt[e] /\ w[e] \notin Node
  /\ \A x \in Node \ {e, prv[e]} : m[x] = nxt[x]
  /\ \A x \in Node \ {e} : w[x] = owner[x]

\* The place of an entry on its list, and the node before it.
Between(ls, e, k) ==
  /\ e \in Node /\ owner[e] \in Heads /\ owner[e] # e
  /\ k = L!Place(e) /\ k \in 1 .. Len(ls[owner[e]]) /\ ls[owner[e]][k] = e
  /\ At(owner[e], ls[owner[e]], k - 1) = prv[e]
  /\ prv[e] \in Node \ {e} /\ nxt[e] \in Node \ {e}

\* Every entry has them.
LEMMA EntryBetween ==
  ASSUME Inv, NEW ls, LaysAll(nxt, owner, ls), NEW e \in Entries, NEW k, k = L!Place(e)
  PROVE Between(ls, e, k)
<1> USE DEF Inv
<1>1. e \in Node /\ e \in Linked /\ owner[e] \in Heads /\ owner[e] # e
  BY DEF TypeOK, Entries, Linked, Heads
<1>2. PICK g : g = owner[e]
  OBVIOUS
<1>3. PICK s : s = ls[g]
  OBVIOUS
<1>4. Lays(nxt, owner, g, s) /\ g \in Node
  <2>1. Shown(ls)
    BY SameNodes
  <2> QED
    BY <1>1, <1>2, <1>3, <2>1 DEF Shown, Heads
<1>5. k \in 0 .. Len(s) /\ At(g, s, k) = e
  <2>1. Located(ls, e)
    BY <1>1, Found
  <2> QED
    BY <1>2, <1>3, <2>1 DEF Located
<1>6. k \in 1 .. Len(s) /\ s[k] = e
  BY <1>1, <1>2, <1>4, <1>5 DEF At, Lays
<1>7. Len(s) \in Nat /\ k - 1 \in 0 .. Len(s) /\ k - 1 \in Int /\ (k - 1) + 1 = k
  BY <1>4, <1>6 DEF Lays
<1>8. nxt[At(g, s, k - 1)] = e
  BY <1>4, <1>5, <1>7 DEF Lays
<1>9. IsOn(owner, g, At(g, s, k - 1))
  BY <1>4, <1>7, AtIsOn, Zenon
<1>10. At(g, s, k - 1) \in Linked
  BY <1>4, <1>9, ListAssumption DEF IsOn, Linked, Free
<1>11. prv[e] = At(g, s, k - 1)
  BY <1>8, <1>10 DEF Rings
<1>12. prv[e] \in Node /\ nxt[e] \in Node
  BY <1>1 DEF Rings, Linked
<1>13. prv[e] # e
  <2>1. k - 1 # k
    BY <1>7
  <2> QED
    BY <1>4, <1>5, <1>7, <1>11, <2>1, PlacesDiffer
<1>14. nxt[e] # e
  BY <1>1, <1>13 DEF Rings
<1> QED
  BY <1>1, <1>2, <1>3, <1>6, <1>11, <1>12, <1>13, <1>14 DEF Between

\* What the promise takes out.
LEMMA TakenIs ==
  ASSUME Inv, NEW ls, LaysAll(nxt, owner, ls), NEW e \in Entries, NEW k, k = L!Place(e)
  PROVE L!Taken(e) = CutFrom(ls, owner[e], k)
<1>1. [h \in Heads |-> Contents(h)] = ls
  BY SequencesAre
<1>2. L!HeadOf(e) = owner[e]
  BY Found DEF Inv, Located, Entries
<1> QED
  BY <1>1, <1>2 DEF L!Taken, L!RemoveAt, CutOut, CutFrom

\* What is laid out without it.
LEMMA TakenLays ==
  ASSUME Inv, NEW ls, LaysAll(nxt, owner, ls), NEW e \in Entries, NEW k, k = L!Place(e),
         NEW m, NEW w, TakenOut(m, w, e)
  PROVE LaysAll(m, w, CutFrom(ls, owner[e], k))
<1>1. Between(ls, e, k)
  BY EntryBetween
<1>2. PICK g : g = owner[e]
  OBVIOUS
<1>3. PICK p : p = prv[e]
  OBVIOUS
<1>4. PICK c : c = nxt[e]
  OBVIOUS
<1>5. g \in HeadsOf(owner) /\ k \in 1 .. Len(ls[g]) /\ e = ls[g][k] /\ p = At(g, ls[g], k - 1)
  BY <1>1, <1>2, <1>3 DEF Between, Heads, HeadsOf
<1>6. m[p] = nxt[e] /\ w[e] \notin Node
  BY <1>3 DEF TakenOut
<1>7. \A x \in Node : owner[x] \in Node /\ x \notin {e, p} => m[x] = nxt[x]
  BY <1>3 DEF TakenOut
<1>8. \A x \in Node \ {e} : w[x] = owner[x]
  BY DEF TakenOut
<1>9. Leaving(nxt, owner, m, w, ls, g, k, e)
  BY <1>5, <1>6, <1>7, <1>8 DEF Leaving
<1> QED
  BY <1>2, <1>9, AllLess

\* An entry less.
LEMMA ListDelShows ==
  ASSUME Inv, NEW ls, LaysAll(nxt, owner, ls), NEW e \in Node, ewx_list_del(e)
  PROVE L!Delete(e) /\ \E u : LaysAll(nxt', owner', u)
<1>1. PICK k : k = L!Place(e)
  OBVIOUS
<1>2. e \in Entries /\ Shown(ls)
  BY SameNodes DEF ewx_list_del, Inv
<1>3. PICK u : u = CutFrom(ls, owner[e], k)
  OBVIOUS
<1>4. LaysAll(nxt', owner', u)
  <2>1. TakenOut(nxt', owner', e)
    <3>1. prv[e] \in Node \ {e} /\ nxt[e] \in Node \ {e}
      BY <1>1, <1>2, EntryBetween DEF Between
    <3> QED
      BY <3>1, ListAssumption DEF ewx_list_del, TakenOut, CutNext, Inv, TypeOK
  <2> QED
    BY <1>1, <1>2, <1>3, <2>1, TakenLays
<1>5. Turns(ls, u)
  BY <1>4, TurnsInto
<1>6. L!Taken(e) = u
  BY <1>1, <1>2, <1>3, TakenIs
<1>7. L!Delete(e)
  BY <1>2, <1>5, <1>6 DEF Turns, Shown, L!Delete
<1> QED
  BY <1>4, <1>7

\* An entry that becomes a list of its own.
LEMMA ListDelInitShows ==
  ASSUME Inv, NEW ls, LaysAll(nxt, owner, ls), NEW e \in Node, list_del_init(e)
  PROVE L!DeleteInit(e) /\ \E u : LaysAll(nxt', owner', u)
<1>1. PICK k : k = L!Place(e)
  OBVIOUS
<1>2. e \in Entries /\ Shown(ls)
  BY SameNodes DEF list_del_init, Inv
<1>3. PICK v : v = CutFrom(ls, owner[e], k)
  OBVIOUS
<1>4. PICK w : w = [owner EXCEPT ![e] = None]
  OBVIOUS
<1>5. PICK u : u = L!With(v, e, <<>>)
  OBVIOUS
<1>6. LaysAll(nxt', w, v)
  <2>1. TakenOut(nxt', w, e)
    <3>1. prv[e] \in Node \ {e} /\ nxt[e] \in Node \ {e}
      BY <1>1, <1>2, EntryBetween DEF Between
    <3> QED
      BY <1>4, <3>1, ListAssumption DEF list_del_init, TakenOut, CutNext, Inv, TypeOK
  <2> QED
    BY <1>1, <1>2, <1>3, <2>1, TakenLays
<1>7. LaysAll(nxt', owner', u)
  <2>1. w[e] \notin Node /\ nxt'[e] = e /\ owner'[e] = e
    BY <1>4, ListAssumption DEF list_del_init, CutNext, Inv, TypeOK
  <2>2. \A x \in Node \ {e} : owner'[x] = w[x]
    BY <1>4 DEF list_del_init, Inv, TypeOK
  <2>3. \A x \in Node : w[x] # e
    BY <1>2, <1>4, ListAssumption DEF Inv, TypeOK, Entries, Linked, Free, Heads
  <2> QED
    BY <1>5, <1>6, <2>1, <2>2, <2>3, AllNew
<1>8. Turns(ls, u)
  BY <1>7, TurnsInto
<1>9. L!Taken(e) = v
  BY <1>1, <1>2, <1>3, TakenIs
<1>10. L!DeleteInit(e)
  BY <1>2, <1>5, <1>8, <1>9 DEF Turns, Shown, L!DeleteInit
<1> QED
  BY <1>7, <1>10

\* The node n, on no list or the head of an empty one, comes onto the list of g.
Inserting(nx, ow, m, w, ls, n, g, k) ==
  /\ n \in Node /\ g \in HeadsOf(ow) \ {n} /\ k \in 0 .. Len(ls[g])
  /\ ow[n] \notin Node \ {n} /\ \A x \in Node \ {n} : ow[x] # n
  /\ m[At(g, ls[g], k)] = n /\ m[n] = nx[At(g, ls[g], k)]
  /\ \A x \in Node \ {n, At(g, ls[g], k)} : m[x] = nx[x]
  /\ w[n] = g /\ \A x \in Node \ {n} : w[x] = ow[x]

\* One more entry.
LEMMA InsertLays ==
  ASSUME NEW nx, NEW ow, NEW m, NEW w, NEW ls, LaysAll(nx, ow, ls),
         NEW n, NEW g, NEW k, Inserting(nx, ow, m, w, ls, n, g, k)
  PROVE LaysAll(m, w, L!Put(WithoutIn(ls, n), g, k, <<n>>))
<1> USE DEF Inserting
<1>1. PICK t : t = <<n>>
  OBVIOUS
<1>2. t \in Seq(Node) /\ t # <<>> /\ Len(t) = 1 /\ t[1] = n
  BY <1>1
<1>3. 1 \in 1 .. Len(t) /\ \A i \in 1 .. Len(t) : i = 1 /\ t[i] = n
  BY <1>2
<1>4. Linking(nx, m, g, ls[g], k, t)
  BY <1>2 DEF Linking
<1>5. \A i, j \in 1 .. Len(t) : t[i] = t[j] => i = j
  BY <1>3
<1>6. \A x \in Node : w[x] = g <=> ow[x] = g \/ \E i \in 1 .. Len(t) : t[i] = x
  <2>1. \A x : (\E i \in 1 .. Len(t) : t[i] = x) <=> x = n
    BY <1>2, <1>3
  <2> QED
    BY <2>1
<1>7. \A x \in Node : ow[x] \in Node \ {n} /\ x # At(g, ls[g], k) => m[x] = nx[x]
  OBVIOUS
<1>8. \A h \in Node \ {g, n} : \A x \in Node : w[x] = h <=> ow[x] = h
  OBVIOUS
<1>9. Arriving(nx, ow, m, w, ls, n, g, k, t)
  BY <1>2, <1>3, <1>4, <1>5, <1>6, <1>7, <1>8 DEF Arriving
<1> QED
  BY <1>1, <1>9, AllMore

\* The promise leaves out the same list.
LEMMA WithoutIs ==
  ASSUME NEW ls, LaysAll(nxt, owner, ls), NEW n
  PROVE L!Without({n}) = WithoutIn(ls, n)
<1>1. [h \in Heads |-> Contents(h)] = ls
  BY SequencesAre
<1> QED
  BY <1>1 DEF L!Without, L!Heads, WithoutIn

\* A node that the header allows to be added is one the promise allows.
LEMMA MayAdd ==
  ASSUME Inv, NEW ls, LaysAll(nxt, owner, ls), NEW n \in Addable, NEW h \in Linked \ {n}
  PROVE L!CanAdd(n, h)
<1>1. Shown(ls)
  BY SameNodes DEF Inv
<1>2. ASSUME n \in Heads PROVE ls[n] = <<>>
  <2>1. Lays(nxt, owner, n, ls[n]) /\ \A e \in Entries : owner[e] # n
    BY <1>1, <1>2, ListAssumption DEF Shown, Addable, Heads, Free
  <2>2. ASSUME NEW i \in 1 .. Len(ls[n]) PROVE FALSE
    BY <1>2, <2>1, ListAssumption DEF Lays, Entries, Linked, Free, Heads
  <2> QED
    BY <2>1, <2>2 DEF Lays
<1>3. [x \in Heads |-> Contents(x)] = ls
  BY SequencesAre
<1>4. n \in Free \/ n \in Heads
  BY DEF Addable
<1> QED
  BY <1>1, <1>2, <1>3, <1>4 DEF L!CanAdd, Shown

\* Place k on the list that x heads or is on; p is there.
Spot(ls, x, k, p) ==
  /\ owner[x] \in Heads /\ p \in Node /\ owner[p] = owner[x]
  /\ k \in 0 .. Len(ls[owner[x]]) /\ At(owner[x], ls[owner[x]], k) = p

\* The promise puts behind x what comes behind x,
LEMMA BehindIs ==
  ASSUME Inv, NEW ls, LaysAll(nxt, owner, ls), NEW x \in Linked, NEW k, k = L!Behind(x)
  PROVE Spot(ls, x, k, x)
<1>1. Located(ls, x)
  BY Found DEF Inv
<1> QED
  BY <1>1 DEF L!Behind, Located, Spot, Linked

\* and before x what comes behind the node before x.
LEMMA BeforeIs ==
  ASSUME Inv, NEW ls, LaysAll(nxt, owner, ls), NEW x \in Linked, NEW k, k = L!Before(x)
  PROVE Spot(ls, x, k, prv[x])
<1> USE DEF Inv
<1>1. [h \in Heads |-> Contents(h)] = ls /\ Shown(ls)
  BY SequencesAre, SameNodes
<1>2. x \in Node /\ owner[x] \in Heads /\ prv[x] \in Node /\ owner[prv[x]] = owner[x]
  BY DEF TypeOK, Rings, Linked
<1>3. CASE x \in Heads
  <2>1. owner[x] = x
    BY <1>3 DEF Heads
  <2>2. PICK s : s = ls[x]
    OBVIOUS
  <2>3. k = Len(s) /\ Lays(nxt, owner, x, s)
    BY <1>1, <1>3, <2>2 DEF L!Before, Shown
  <2>4. Len(s) \in Nat /\ nxt[At(x, s, Len(s))] = At(x, s, Len(s) + 1)
    BY <2>3 DEF Lays
  <2>5. At(x, s, Len(s) + 1) = x /\ Len(s) \in Int
    BY <2>4 DEF At
  <2>6. IsOn(owner, x, At(x, s, Len(s)))
    BY <1>2, <2>3, <2>5, AtIsOn, Zenon
  <2>7. At(x, s, Len(s)) \in Linked
    BY <2>6, <1>2, ListAssumption DEF IsOn, Linked, Free
  <2>8. At(x, s, Len(s)) = prv[x]
    BY <2>4, <2>5, <2>7 DEF Rings
  <2> QED
    BY <1>2, <2>1, <2>2, <2>3, <2>4, <2>8 DEF Spot
<1>4. CASE x \notin Heads
  <2>1. PICK j : j = L!Place(x)
    OBVIOUS
  <2>2. k = j - 1
    BY <1>1, <1>4, <2>1 DEF L!Before, Shown
  <2>3. Between(ls, x, j)
    BY <1>4, <2>1, EntryBetween DEF Entries
  <2>4. Len(ls[owner[x]]) \in Nat
    BY <1>1, <1>2 DEF Shown, Lays
  <2>5. k \in 0 .. Len(ls[owner[x]])
    BY <2>2, <2>3, <2>4 DEF Between
  <2> QED
    BY <1>2, <2>2, <2>3, <2>5 DEF Between, Spot
<1> QED
  BY <1>3, <1>4

\* The node n between the node p at place k of the list of x and the one after it.
Entering(ls, n, x, k, p) ==
  /\ n \in Addable /\ x \in Linked \ {n} /\ Spot(ls, x, k, p)
  /\ nxt' = AddedNext(nxt, n, p, nxt[p]) /\ owner' = [owner EXCEPT ![n] = owner[x]]

\* What an added node makes of the sequences.
LEMMA EnterTurns ==
  ASSUME Inv, NEW ls, LaysAll(nxt, owner, ls), NEW n, NEW x, NEW k, NEW p,
         Entering(ls, n, x, k, p)
  PROVE Turns(ls, L!Put(WithoutIn(ls, n), owner[x], k, <<n>>))
<1> USE DEF Inv, Entering
<1>1. PICK g : g = owner[x]
  OBVIOUS
<1>2. n \in Node /\ x \in Node /\ g \in Heads /\ owner[p] = g /\ p \in Node
  BY <1>1 DEF Addable, Free, Linked, Spot, Heads
<1>3. owner[n] \notin Node \ {n} /\ \A y \in Node \ {n} : owner[y] # n
  <2>1. CASE n \in Free
    BY <2>1, ListAssumption DEF TypeOK, Free, Linked, Heads
  <2>2. CASE n \in Heads /\ \A e \in Entries : owner[e] # n
    BY <2>2, ListAssumption DEF Entries, Linked, Free, Heads
  <2> QED
    BY <2>1, <2>2 DEF Addable
<1>4. g # n /\ p # n
  BY <1>1, <1>2, <1>3, ListAssumption DEF Heads
<1>5. Inserting(nxt, owner, nxt', owner', ls, n, g, k)
  <2>1. g \in HeadsOf(owner) \ {n}
    BY <1>2, <1>4 DEF Heads, HeadsOf
  <2>2. k \in 0 .. Len(ls[g]) /\ At(g, ls[g], k) = p
    BY <1>1 DEF Spot
  <2>3. /\ nxt'[p] = n /\ nxt'[n] = nxt[p]
        /\ \A y \in Node \ {n, p} : nxt'[y] = nxt[y]
    BY <1>2, <1>4 DEF AddedNext, TypeOK
  <2>4. owner'[n] = g /\ \A y \in Node \ {n} : owner'[y] = owner[y]
    BY <1>1, <1>2 DEF TypeOK
  <2> QED
    BY <1>2, <1>3, <2>1, <2>2, <2>3, <2>4 DEF Inserting
<1>6. PICK u : u = L!Put(WithoutIn(ls, n), g, k, <<n>>)
  OBVIOUS
<1>7. LaysAll(nxt', owner', u)
  BY <1>5, <1>6, InsertLays
<1>8. Turns(ls, u)
  BY <1>7, TurnsInto
<1> QED
  BY <1>1, <1>6, <1>8

\* An entry behind another node.
LEMMA ListAddShows ==
  ASSUME Inv, NEW ls, LaysAll(nxt, owner, ls), NEW n \in Node, NEW h \in Node,
         ewx_list_add(n, h)
  PROVE L!AddBehind(n, h) /\ \E u : LaysAll(nxt', owner', u)
<1>1. PICK k : k = L!Behind(h)
  OBVIOUS
<1>2. n \in Addable /\ h \in Linked \ {n}
  BY DEF ewx_list_add
<1>3. Entering(ls, n, h, k, h)
  BY <1>1, <1>2, BehindIs DEF ewx_list_add, Entering
<1>4. PICK u : u = L!Put(WithoutIn(ls, n), owner[h], k, <<n>>)
  OBVIOUS
<1>5. Turns(ls, u)
  BY <1>3, <1>4, EnterTurns
<1>6. L!CanAdd(n, h) /\ L!Without({n}) = WithoutIn(ls, n) /\ L!HeadOf(h) = owner[h]
  BY <1>2, MayAdd, WithoutIs, Found DEF Inv, Located
<1>7. L!AddBehind(n, h)
  BY <1>1, <1>4, <1>5, <1>6 DEF L!AddBehind, Turns
<1> QED
  BY <1>5, <1>7 DEF Turns

\* An entry before another node.
LEMMA ListAddTailShows ==
  ASSUME Inv, NEW ls, LaysAll(nxt, owner, ls), NEW n \in Node, NEW h \in Node,
         ewx_list_add_tail(n, h)
  PROVE L!AddBefore(n, h) /\ \E u : LaysAll(nxt', owner', u)
<1>1. PICK k : k = L!Before(h)
  OBVIOUS
<1>2. n \in Addable /\ h \in Linked \ {n}
  BY DEF ewx_list_add_tail
<1>3. Entering(ls, n, h, k, prv[h])
  <2>1. nxt[prv[h]] = h
    BY <1>2 DEF Inv, Rings
  <2> QED
    BY <1>1, <1>2, <2>1, BeforeIs DEF ewx_list_add_tail, Entering
<1>4. PICK u : u = L!Put(WithoutIn(ls, n), owner[h], k, <<n>>)
  OBVIOUS
<1>5. Turns(ls, u)
  BY <1>3, <1>4, EnterTurns
<1>6. L!CanAdd(n, h) /\ L!Without({n}) = WithoutIn(ls, n) /\ L!HeadOf(h) = owner[h]
  BY <1>2, MayAdd, WithoutIs, Found DEF Inv, Located
<1>7. L!AddBefore(n, h)
  BY <1>1, <1>4, <1>5, <1>6 DEF L!AddBefore, Turns
<1> QED
  BY <1>5, <1>7 DEF Turns

\* The pointers m and owners w once n has taken the place of o; the pointer of o
\* itself is left open.
InPlaceOf(m, w, o, n) ==
  /\ o \in Linked /\ n \in Free
  /\ \A x \in Node : x # o => m[x] = ReplacedNext(o, n)[x]
  /\ w = ReplacedOwner(o, n, None)

\* The node n in the place of o.
LEMMA ReplacedLays ==
  ASSUME Inv, NEW ls, LaysAll(nxt, owner, ls), NEW m, NEW w, NEW o \in Node, NEW n \in Node,
         InPlaceOf(m, w, o, n)
  PROVE LaysAll(m, w, RenamedIn(ls, o, n))
<1> USE DEF InPlaceOf
<1>1. PICK g : g = owner[o]
  OBVIOUS
<1>2. /\ None \notin Node /\ owner[o] # None /\ owner[n] = None /\ o # n
      /\ g \in Node /\ owner[g] = g
  BY <1>1, ListAssumption DEF Inv, TypeOK, Linked, Free, Heads
<1>3. /\ nxt[o] \in Node /\ prv[o] \in Node /\ owner[nxt[o]] = owner[o]
      /\ owner[prv[o]] = owner[o] /\ nxt[prv[o]] = o /\ prv[nxt[o]] = o
      /\ \A x \in Node : owner[x] = owner[o] /\ nxt[x] = o => x = prv[o]
  BY <1>2 DEF Inv, Rings, Linked, Free
<1>4. PICK q : q = IF nxt[o] = o THEN n ELSE prv[o]
  OBVIOUS
<1>5. ReplacedPrev(o, n)[n] = q /\ q \in Node
  BY <1>2, <1>3, <1>4 DEF ReplacedPrev, Inv, TypeOK
<1>6. \A x \in Node : x # o =>
        m[x] = IF x = q THEN n ELSE IF x = n THEN nxt[o] ELSE nxt[x]
  BY <1>5 DEF ReplacedNext, Inv, TypeOK
<1>7. ASSUME NEW x \in Node, owner[x] = g
      PROVE  m[Renamed(x, o, n)] = Renamed(nxt[x], o, n)
  <2>1. CASE x = o
    BY <1>2, <1>3, <1>4, <1>6, <2>1 DEF Renamed
  <2>2. CASE x # o
    <3>1. x # n /\ m[x] = IF x = q THEN n ELSE nxt[x]
      BY <1>1, <1>2, <1>6, <1>7, <2>2
    <3>2. x = q <=> nxt[x] = o
      BY <1>1, <1>2, <1>3, <1>4, <1>7, <2>2, <3>1
    <3> QED
      BY <2>2, <3>1, <3>2 DEF Renamed
  <2> QED
    BY <2>1, <2>2
<1>8. ASSUME NEW x \in Node, owner[x] \in Node \ {g} PROVE m[x] = nxt[x]
  BY <1>1, <1>2, <1>3, <1>4, <1>6, <1>8
<1>9. ASSUME NEW x \in Node, owner[x] \in Node PROVE owner[x] \in HeadsOf(owner)
  BY <1>2, <1>9 DEF Inv, TypeOK, Linked, Free, Heads, HeadsOf
<1>10. /\ w[o] \notin Node /\ w[n] = Renamed(g, o, n)
       /\ \A x \in Node \ {o, n} : w[x] = Renamed(owner[x], o, n)
  <2>1. o \in Heads <=> owner[o] = o
    BY DEF Heads
  <2>2. \A x \in Node : owner[x] = o => owner[o] = o
    BY <1>9 DEF HeadsOf
  <2> QED
    BY <1>1, <1>2, <2>1, <2>2 DEF ReplacedOwner, Renamed
<1>11. owner[n] \notin Node /\ g \in HeadsOf(owner)
  BY <1>2 DEF HeadsOf
<1>12. Succeeding(nxt, owner, m, w, o, n, g)
  BY <1>1, <1>7, <1>8, <1>9, <1>10, <1>11 DEF Succeeding
<1> QED
  BY <1>12, AllRenamed

\* The promise puts n where o was.
LEMMA ReplacedIs ==
  ASSUME NEW ls, LaysAll(nxt, owner, ls), NEW o, NEW n
  PROVE L!Replaced(o, n) = RenamedIn(ls, o, n)
<1>1. [h \in Heads |-> Contents(h)] = ls
  BY SequencesAre
<1>2. L!Without({o}) = WithoutIn(ls, o)
  BY WithoutIs
<1> QED
  BY <1>1, <1>2 DEF L!Replaced, L!Heads, RenamedIn

\* A node in the place of another one.
LEMMA ListReplaceShows ==
  ASSUME Inv, NEW ls, LaysAll(nxt, owner, ls), NEW o \in Node, NEW n \in Node,
         list_replace(o, n)
  PROVE L!Replace(o, n) /\ \E u : LaysAll(nxt', owner', u)
<1>1. o \in Linked /\ n \in Free /\ Shown(ls)
  BY SameNodes DEF list_replace, Inv
<1>2. PICK u : u = RenamedIn(ls, o, n)
  OBVIOUS
<1>3. LaysAll(nxt', owner', u)
  <2>1. InPlaceOf(nxt', owner', o, n)
    BY <1>1 DEF list_replace, InPlaceOf
  <2> QED
    BY <1>2, <2>1, ReplacedLays
<1>4. Turns(ls, u) /\ L!Replaced(o, n) = u
  BY <1>2, <1>3, TurnsInto, ReplacedIs
<1>5. L!Replace(o, n)
  BY <1>1, <1>4 DEF L!Replace, Turns, Shown
<1> QED
  BY <1>3, <1>5

\* A node in the place of another one, which becomes a list of its own.
LEMMA ListReplaceInitShows ==
  ASSUME Inv, NEW ls, LaysAll(nxt, owner, ls), NEW o \in Node, NEW n \in Node,
         list_replace_init(o, n)
  PROVE L!ReplaceInit(o, n) /\ \E u : LaysAll(nxt', owner', u)
<1>1. o \in Linked /\ n \in Free /\ Shown(ls) /\ o # n
  BY SameNodes DEF list_replace_init, Inv, Linked, Free
<1>2. PICK v : v = RenamedIn(ls, o, n)
  OBVIOUS
<1>3. PICK w : w = ReplacedOwner(o, n, None)
  OBVIOUS
<1>4. PICK u : u = L!With(v, o, <<>>)
  OBVIOUS
<1>5. nxt'[o] = o /\ \A x \in Node : x # o => nxt'[x] = ReplacedNext(o, n)[x]
  <2>1. nxt' = [ReplacedNext(o, n) EXCEPT ![o] = o]
    BY DEF list_replace_init
  <2>2. DOMAIN ReplacedNext(o, n) = Node
    BY DEF ReplacedNext, Inv, TypeOK
  <2> QED
    BY <2>1, <2>2
<1>6. LaysAll(nxt', w, v)
  <2>1. InPlaceOf(nxt', w, o, n)
    BY <1>1, <1>3, <1>5 DEF InPlaceOf
  <2> QED
    BY <1>2, <2>1, ReplacedLays
<1>7. LaysAll(nxt', owner', u)
  <2>1. w[o] \notin Node /\ owner'[o] = o
    BY <1>3, ListAssumption DEF list_replace_init, ReplacedOwner
  <2>2. \A x \in Node \ {o} : owner'[x] = w[x]
    BY <1>3 DEF list_replace_init, ReplacedOwner
  <2>3. \A x \in Node : w[x] # o
    <3>1. o \notin Heads => \A x \in Node : owner[x] # o
      BY <1>1, ListAssumption DEF Inv, TypeOK, Linked, Free, Heads
    <3>2. o \in Heads <=> owner[o] = o
      BY DEF Heads
    <3> QED
      BY <1>1, <1>3, <3>1, <3>2, ListAssumption DEF ReplacedOwner
  <2> QED
    BY <1>4, <1>5, <1>6, <2>1, <2>2, <2>3, AllNew
<1>8. Turns(ls, u) /\ L!Replaced(o, n) = v
  BY <1>2, <1>7, TurnsInto, ReplacedIs
<1>9. L!ReplaceInit(o, n)
  BY <1>1, <1>4, <1>8 DEF L!ReplaceInit, Turns, Shown
<1> QED
  BY <1>7, <1>9

\* Where place k of a list is once its entry i is taken out.
Shifted(same, i, k) == IF same /\ i <= k THEN k - 1 ELSE k

\* Place k of the list s is place j of v, or the one before it if k is i.
PlaceStays(h, s, i, k, v, j) ==
  j \in 0 .. Len(v) /\ At(h, v, j) = IF k = i THEN At(h, s, i - 1) ELSE At(h, s, k)

\* The places of a list from which the entry i is taken.
LEMMA PlacesShift ==
  ASSUME NEW h, NEW s \in Seq(Node), NEW i \in 1 .. Len(s), NEW k \in 0 .. Len(s)
  PROVE  PlaceStays(h, s, i, k, CutOut(s, i), Shifted(TRUE, i, k))
<1>1. PICK v : v = CutOut(s, i)
  OBVIOUS
<1>2. PICK l : l = Len(s)
  OBVIOUS
<1>3. PICK j : j = Shifted(TRUE, i, k)
  OBVIOUS
<1>4. /\ Len(v) = l - 1
      /\ \A x \in 1 .. i - 1 : v[x] = s[x]
      /\ \A x \in i .. l - 1 : v[x] = s[x + 1]
  <2>1. Narrowed(Node, s, i, v)
    BY <1>1, CutPlaces
  <2> QED
    BY <1>2, <2>1 DEF Narrowed
<1>5. l \in Nat /\ i \in Int /\ k \in Int /\ 1 <= i /\ i <= l /\ 0 <= k /\ k <= l
  BY <1>2
<1>6. \A x : At(h, v, x) = IF x \in 1 .. l - 1 THEN v[x] ELSE h
  BY <1>4 DEF At
<1>7. \A x : At(h, s, x) = IF x \in 1 .. l THEN s[x] ELSE h
  BY <1>2 DEF At
<1>8. j \in 0 .. l - 1
  BY <1>3, <1>5 DEF Shifted
<1>9. ASSUME NEW x \in 0 .. i - 1 PROVE At(h, v, x) = At(h, s, x)
  <2>1. CASE x = 0
    BY <1>6, <1>7, <2>1
  <2>2. CASE x # 0
    <3>1. x \in 1 .. i - 1 /\ x \in 1 .. l /\ x \in 1 .. l - 1
      BY <1>5, <2>2
    <3> QED
      BY <1>4, <1>6, <1>7, <3>1
  <2> QED
    BY <2>1, <2>2
<1>10. At(h, v, j) = IF k = i THEN At(h, s, i - 1) ELSE At(h, s, k)
  <2>1. CASE k < i
    <3>1. j = k /\ k # i /\ k \in 0 .. i - 1
      BY <1>3, <1>5, <2>1 DEF Shifted
    <3> QED
      BY <1>9, <3>1
  <2>2. CASE k = i
    <3>1. j = i - 1 /\ i - 1 \in 0 .. i - 1
      BY <1>3, <1>5, <2>2 DEF Shifted
    <3> QED
      BY <1>9, <2>2, <3>1
  <2>3. CASE k > i
    <3>1. /\ j = k - 1 /\ k # i /\ j \in i .. l - 1 /\ j \in 1 .. l - 1 /\ j + 1 = k
          /\ k \in 1 .. l
      BY <1>3, <1>5, <2>3 DEF Shifted
    <3>2. v[j] = s[j + 1]
      BY <1>4, <3>1
    <3> QED
      BY <1>6, <1>7, <3>1, <3>2
  <2> QED
    BY <1>5, <2>1, <2>2, <2>3
<1> QED
  BY <1>1, <1>3, <1>4, <1>8, <1>10 DEF PlaceStays

\* The entry e comes to the node p at place k of the list of x, or, if that is e
\* itself, to the one before it; both nodes without e.
Moving(ls, e, x, k, p) ==
  /\ e \in Entries /\ x \in Linked \ {e} /\ Spot(ls, x, k, p)
  /\ LET nx == CutNext(nxt, prv[e], nxt[e])
         q == IF p = e THEN prv[e] ELSE p
     IN nxt' = AddedNext(nx, e, q, nx[q])
  /\ owner' = [owner EXCEPT ![e] = owner[x]]

\* What a moved entry makes of the sequences.
LEMMA MoveTurns ==
  ASSUME Inv, NEW ls, LaysAll(nxt, owner, ls), NEW e, NEW x, NEW k, NEW p,
         Moving(ls, e, x, k, p)
  PROVE Turns(ls, L!Moved(e, x, k))
<1> USE DEF Inv, Moving
<1>1. PICK i : i = L!Place(e)
  OBVIOUS
<1>2. Between(ls, e, i) /\ Shown(ls)
  BY <1>1, EntryBetween, SameNodes
<1>3. PICK g : g = owner[x]
  OBVIOUS
<1>4. PICK ge : ge = owner[e]
  OBVIOUS
<1>5. PICK v : v = CutFrom(ls, ge, i)
  OBVIOUS
<1>6. PICK m : m = CutNext(nxt, prv[e], nxt[e])
  OBVIOUS
<1>7. PICK w : w = [owner EXCEPT ![e] = None]
  OBVIOUS
<1>8. PICK q : q = IF p = e THEN prv[e] ELSE p
  OBVIOUS
<1>9. PICK j : j = Shifted(g = ge, i, k)
  OBVIOUS
<1>10. /\ e \in Node /\ g \in Heads /\ g \in Node /\ ge \in Heads /\ ge \in Node /\ g # e
       /\ owner[p] = g /\ p \in Node /\ prv[e] \in Node \ {e} /\ nxt[e] \in Node \ {e}
       /\ owner[prv[e]] = ge
  BY <1>2, <1>3, <1>4 DEF Between, Spot, Heads, Entries, Rings
<1>11. LaysAll(m, w, v)
  <2>1. TakenOut(m, w, e)
    BY <1>6, <1>7, <1>10, ListAssumption DEF TakenOut, CutNext, TypeOK
  <2> QED
    BY <1>1, <1>4, <1>5, <2>1, TakenLays
<1>12. j \in 0 .. Len(v[g]) /\ At(g, v[g], j) = q
  <2>1. k \in 0 .. Len(ls[g]) /\ At(g, ls[g], k) = p
    BY <1>3 DEF Spot
  <2>2. Lays(nxt, owner, g, ls[g]) /\ g \in DOMAIN ls
    BY <1>2, <1>10 DEF Shown
  <2>3. CASE g = ge
    <3>1. v[g] = CutOut(ls[g], i)
      BY <1>5, <2>2, <2>3 DEF CutFrom
    <3>2. ls[g] \in Seq(Node) /\ i \in 1 .. Len(ls[g]) /\ At(g, ls[g], i - 1) = prv[e]
          /\ ls[g][i] = e
      BY <1>2, <1>4, <2>2, <2>3 DEF Between, Lays
    <3>3. /\ j \in 0 .. Len(CutOut(ls[g], i))
          /\ At(g, CutOut(ls[g], i), j) =
               IF k = i THEN At(g, ls[g], i - 1) ELSE At(g, ls[g], k)
      <4>1. j = Shifted(TRUE, i, k)
        BY <1>9, <2>3
      <4>2. PlaceStays(g, ls[g], i, k, CutOut(ls[g], i), Shifted(TRUE, i, k))
        BY <2>1, <3>2, PlacesShift
      <4> QED
        BY <4>1, <4>2 DEF PlaceStays
    <3>4. k = i <=> p = e
      <4>1. At(g, ls[g], i) = e
        BY <3>2 DEF At
      <4>2. i \in 0 .. Len(ls[g])
        BY <3>2
      <4> QED
        BY <1>10, <2>1, <2>2, <4>1, <4>2, PlacesDiffer
    <3> QED
      BY <1>8, <2>1, <3>1, <3>2, <3>3, <3>4
  <2>4. CASE g # ge
    <3>1. v[g] = ls[g] /\ j = k /\ q = p
      BY <1>4, <1>5, <1>8, <1>9, <1>10, <2>2, <2>4 DEF CutFrom, Shifted
    <3> QED
      BY <2>1, <3>1
  <2> QED
    BY <2>3, <2>4
<1>13. Inserting(m, w, nxt', owner', v, e, g, j)
  <2>1. g \in HeadsOf(w) \ {e}
    BY <1>7, <1>10 DEF TypeOK, Heads, HeadsOf
  <2>2. w[e] \notin Node \ {e} /\ \A y \in Node \ {e} : w[y] # e
    BY <1>7, <1>10, ListAssumption DEF TypeOK, Entries, Linked, Free, Heads
  <2>3. q \in Node \ {e}
    BY <1>8, <1>10
  <2>4. nxt' = AddedNext(m, e, q, m[q])
    BY <1>6, <1>8
  <2>5. DOMAIN m = Node
    BY <1>6 DEF CutNext, TypeOK
  <2>6. nxt'[q] = e /\ nxt'[e] = m[q] /\ \A y \in Node \ {e, q} : nxt'[y] = m[y]
    BY <1>10, <2>3, <2>4, <2>5 DEF AddedNext
  <2>7. owner'[e] = g /\ \A y \in Node \ {e} : owner'[y] = w[y]
    BY <1>3, <1>7, <1>10 DEF TypeOK
  <2> QED
    BY <1>10, <1>12, <2>1, <2>2, <2>6, <2>7 DEF Inserting
<1>14. PICK u : u = L!Put(WithoutIn(v, e), g, j, <<e>>)
  OBVIOUS
<1>15. Turns(ls, u)
  <2>1. LaysAll(nxt', owner', u)
    BY <1>11, <1>13, <1>14, InsertLays
  <2> QED
    BY <2>1, TurnsInto
<1>16. WithoutIn(v, e) = v
  <2>1. v = [h \in Heads |-> v[h]] /\ e \notin Heads
    BY <1>2, <1>5 DEF Shown, CutFrom, Entries
  <2> QED
    BY <2>1 DEF WithoutIn
<1>17. L!Taken(e) = v /\ L!HeadOf(e) = ge /\ L!HeadOf(x) = g
  BY <1>1, <1>3, <1>4, <1>5, TakenIs, Found DEF Located, Entries
<1>18. k - (IF g = ge /\ i <= k THEN 1 ELSE 0) = j
  <2>1. k \in Int
    <3>1. Lays(nxt, owner, g, ls[g])
      BY <1>2, <1>10 DEF Shown
    <3> QED
      BY <1>3, <3>1 DEF Spot, Lays
  <2> QED
    BY <1>9, <2>1 DEF Shifted
<1>19. L!Moved(e, x, k) = L!Put(v, g, j, <<e>>)
  BY <1>1, <1>17, <1>18 DEF L!Moved
<1> QED
  BY <1>14, <1>15, <1>16, <1>19

\* An entry goes behind another node.
LEMMA ListMoveShows ==
  ASSUME Inv, NEW ls, LaysAll(nxt, owner, ls), NEW e \in Node, NEW h \in Node,
         ewx_list_move(e, h)
  PROVE L!MoveBehind(e, h) /\ \E u : LaysAll(nxt', owner', u)
<1>1. PICK k : k = L!Behind(h)
  OBVIOUS
<1>2. e \in Entries /\ h \in Linked \ {e} /\ Shown(ls)
  BY SameNodes DEF ewx_list_move, Inv
<1>3. Moving(ls, e, h, k, h)
  BY <1>1, <1>2, BehindIs DEF ewx_list_move, Moving
<1>4. PICK u : u = L!Moved(e, h, k)
  OBVIOUS
<1>5. Turns(ls, u)
  BY <1>3, <1>4, MoveTurns
<1>6. L!MoveBehind(e, h)
  BY <1>1, <1>2, <1>4, <1>5 DEF L!MoveBehind, Turns, Shown
<1> QED
  BY <1>5, <1>6 DEF Turns

\* An entry goes before another node.
LEMMA ListMoveTailShows ==
  ASSUME Inv, NEW ls, LaysAll(nxt, owner, ls), NEW e \in Node, NEW h \in Node,
         ewx_list_move_tail(e, h)
  PROVE L!MoveBefore(e, h) /\ \E u : LaysAll(nxt', owner', u)
<1>1. PICK k : k = L!Before(h)
  OBVIOUS
<1>2. e \in Entries /\ h \in Linked \ {e} /\ Shown(ls)
  BY SameNodes DEF ewx_list_move_tail, Inv
<1>3. Moving(ls, e, h, k, prv[h])
  <2>1. PICK m : m = CutNext(nxt, prv[e], nxt[e])
    OBVIOUS
  <2>2. PICK pv : pv = CutPrev(prv, prv[e], nxt[e])
    OBVIOUS
  <2>3. PICK q : q = IF prv[h] = e THEN prv[e] ELSE prv[h]
    OBVIOUS
  <2>4. /\ e \in Node /\ h \in Node /\ prv[e] \in Node /\ nxt[e] \in Node /\ prv[h] \in Node
        /\ nxt[prv[h]] = h /\ nxt[prv[e]] = e /\ prv[nxt[e]] = e
    BY <1>2 DEF Inv, Rings, Linked, Entries
  <2>5. pv[h] = q
    BY <2>2, <2>3, <2>4 DEF CutPrev, Inv, TypeOK
  <2>6. m[q] = h
    <3>1. CASE prv[h] = e
      BY <2>1, <2>3, <2>4, <3>1 DEF CutNext, Inv, TypeOK
    <3>2. CASE prv[h] # e
      BY <1>2, <2>1, <2>3, <2>4, <3>2 DEF CutNext, Inv, TypeOK
    <3> QED
      BY <3>1, <3>2
  <2>7. nxt' = AddedNext(m, e, q, m[q])
    BY <2>1, <2>2, <2>5, <2>6 DEF ewx_list_move_tail
  <2>8. Spot(ls, h, k, prv[h]) /\ owner' = [owner EXCEPT ![e] = owner[h]]
    BY <1>1, <1>2, BeforeIs DEF ewx_list_move_tail
  <2> QED
    BY <1>2, <2>1, <2>3, <2>7, <2>8 DEF Moving
<1>4. PICK u : u = L!Moved(e, h, k)
  OBVIOUS
<1>5. Turns(ls, u)
  BY <1>3, <1>4, MoveTurns
<1>6. L!MoveBefore(e, h)
  BY <1>1, <1>2, <1>4, <1>5 DEF L!MoveBefore, Turns, Shown
<1> QED
  BY <1>5, <1>6 DEF Turns

\* The pointers m and owners w once the entries of l are behind x; the pointer of
\* l itself is left open.
JoinedTo(m, w, l, x) ==
  /\ l \in Heads /\ x \in Linked /\ owner[x] # l /\ ~Empty(l)
  /\ \A y \in Node \ {l} : m[y] = SplicedNext(l, x)[y]
  /\ w = SplicedOwner(l, x, None)

\* A list in another one.
LEMMA JoinedLays ==
  ASSUME Inv, NEW ls, LaysAll(nxt, owner, ls), NEW m, NEW w, NEW l, NEW x, JoinedTo(m, w, l, x),
         NEW k, Spot(ls, x, k, x)
  PROVE LaysAll(m, w, L!Put(WithoutIn(ls, l), owner[x], k, ls[l]))
<1> USE DEF JoinedTo, Inv
<1>1. PICK g : g = owner[x]
  OBVIOUS
<1>2. PICK t : t = ls[l]
  OBVIOUS
<1>3. PICK e : e = prv[l]
  OBVIOUS
<1>4. /\ l \in Node /\ x \in Node /\ owner[l] = l /\ g \in Heads /\ g \in Node /\ owner[g] = g
      /\ g # l /\ x # l /\ e \in Node /\ owner[e] = l /\ nxt[e] = l /\ nxt[l] # l
  BY <1>1, <1>3, ListAssumption DEF TypeOK, Rings, Linked, Heads, Free, Empty
<1>5. Lays(nxt, owner, l, t)
  <2>1. Shown(ls)
    BY SameNodes
  <2> QED
    BY <1>2, <2>1 DEF Shown
<1>6. t \in Seq(Node) /\ Len(t) \in Nat /\ t # <<>> /\ Len(t) >= 1 /\ nxt[l] = t[1]
  <2>1. t \in Seq(Node) /\ Len(t) \in Nat /\ nxt[At(l, t, 0)] = At(l, t, 0 + 1)
    BY <1>5 DEF Lays
  <2>2. nxt[l] = At(l, t, 1)
    BY <2>1 DEF At
  <2>3. 1 \in 1 .. Len(t)
    BY <1>4, <2>2 DEF At
  <2> QED
    BY <2>1, <2>2, <2>3 DEF At
<1>7. ASSUME NEW i \in 1 .. Len(t)
      PROVE t[i] \in Node /\ owner[t[i]] = l /\ t[i] # l /\ t[i] # x
  BY <1>1, <1>4, <1>5, <1>6 DEF Lays
<1>8. ASSUME NEW i \in 1 .. Len(t)
      PROVE nxt[t[i]] = IF i = Len(t) THEN l ELSE t[i + 1]
  <2>1. nxt[At(l, t, i)] = At(l, t, i + 1)
    BY <1>5, <1>6 DEF Lays
  <2> QED
    BY <1>6, <2>1 DEF At
<1>9. e = t[Len(t)]
  <2>1. Len(t) \in 1 .. Len(t)
    BY <1>6
  <2>2. t[Len(t)] \in Linked /\ nxt[t[Len(t)]] = l
    BY <1>4, <1>7, <1>8, <2>1, ListAssumption DEF Linked, Free
  <2> QED
    BY <1>3, <2>2 DEF Rings
<1>10. \A y \in Node \ {l} : m[y] = IF y = e THEN nxt[x] ELSE IF y = x THEN nxt[l] ELSE nxt[y]
  BY <1>3, <1>4 DEF SplicedNext, TypeOK
<1>11. e # x /\ e # l
  BY <1>6, <1>7, <1>9
<1>12. Linking(nxt, m, g, ls[g], k, t)
  <2>1. At(g, ls[g], k) = x
    BY <1>1 DEF Spot
  <2>2. m[x] = t[1]
    BY <1>4, <1>6, <1>10, <1>11
  <2>3. m[t[Len(t)]] = nxt[x]
    BY <1>4, <1>9, <1>10, <1>11
  <2>4. ASSUME NEW i \in 1 .. Len(t) - 1 PROVE m[t[i]] = t[i + 1]
    <3>1. i \in 1 .. Len(t) /\ Len(t) \in 1 .. Len(t) /\ i # Len(t)
      BY <1>6
    <3>2. t[i] # e
      BY <1>5, <1>9, <3>1 DEF Lays
    <3> QED
      BY <1>7, <1>8, <1>10, <3>1, <3>2
  <2> QED
    BY <2>1, <2>2, <2>3, <2>4 DEF Linking
<1>13. ASSUME NEW y \in Node, owner[y] \in Node \ {l}, y # At(g, ls[g], k) PROVE m[y] = nxt[y]
  <2>1. y # x /\ y # e /\ y # l
    BY <1>1, <1>4, <1>13 DEF Spot
  <2> QED
    BY <1>10, <2>1
<1>14. ASSUME NEW y \in Node PROVE w[y] = g <=> owner[y] = g \/ \E i \in 1 .. Len(t) : t[i] = y
  <2>1. owner[y] = l <=> y = l \/ \E i \in 1 .. Len(t) : t[i] = y
    BY <1>5 DEF Lays
  <2>2. w[y] = IF y = l THEN None ELSE IF owner[y] = l THEN g ELSE owner[y]
    BY <1>1 DEF SplicedOwner
  <2>3. ~\E i \in 1 .. Len(t) : t[i] = l
    BY <1>7
  <2> QED
    BY <1>4, <2>1, <2>2, <2>3, ListAssumption
<1>15. ASSUME NEW h \in Node \ {g, l}, NEW y \in Node PROVE w[y] = h <=> owner[y] = h
  <2>1. w[y] = IF y = l THEN None ELSE IF owner[y] = l THEN g ELSE owner[y]
    BY <1>1 DEF SplicedOwner
  <2> QED
    BY <1>4, <2>1, ListAssumption
<1>16. w[l] # l
  BY <1>4, ListAssumption DEF SplicedOwner
<1>17. k \in 0 .. Len(ls[g]) /\ g \in HeadsOf(owner) \ {l}
  BY <1>1, <1>4 DEF Spot, HeadsOf
<1>18. \A i, j \in 1 .. Len(t) : t[i] = t[j] => i = j
  BY <1>5 DEF Lays
<1>19. \A i \in 1 .. Len(t) : owner[t[i]] \notin Node \ {l}
  BY <1>7
<1>20. Arriving(nxt, owner, m, w, ls, l, g, k, t)
  BY <1>4, <1>6, <1>12, <1>13, <1>14, <1>15, <1>16, <1>17, <1>18, <1>19 DEF Arriving
<1> QED
  BY <1>1, <1>2, <1>20, AllMore

\* A list is empty when its head points to itself.
LEMMA EmptyIs ==
  ASSUME Inv, NEW ls, LaysAll(nxt, owner, ls), NEW l \in Heads
  PROVE Empty(l) <=> ls[l] = <<>>
<1>1. PICK t : t = ls[l]
  OBVIOUS
<1>2. Lays(nxt, owner, l, t)
  <2>1. Shown(ls)
    BY SameNodes DEF Inv
  <2> QED
    BY <1>1, <2>1 DEF Shown
<1>3. t \in Seq(Node) /\ Len(t) \in Nat /\ nxt[At(l, t, 0)] = At(l, t, 0 + 1)
  BY <1>2 DEF Lays
<1>4. nxt[l] = At(l, t, 1)
  BY <1>3 DEF At
<1>5. CASE t = <<>>
  BY <1>1, <1>3, <1>4, <1>5 DEF At, Empty
<1>6. CASE t # <<>>
  <2>1. 1 \in 1 .. Len(t)
    BY <1>3, <1>6
  <2> QED
    BY <1>1, <1>2, <1>4, <1>6, <2>1 DEF At, Empty, Lays
<1> QED
  BY <1>5, <1>6

\* What the promise makes of a list in another one.
LEMMA JoinedIs ==
  ASSUME Inv, NEW ls, LaysAll(nxt, owner, ls), NEW l, NEW x \in Linked, NEW k, k = L!Behind(x)
  PROVE L!Joined(l, x) = L!Put(WithoutIn(ls, l), owner[x], k, ls[l])
<1>1. [h \in Heads |-> Contents(h)] = ls
  BY SequencesAre
<1>2. L!Without({l}) = WithoutIn(ls, l) /\ L!HeadOf(x) = owner[x]
  BY WithoutIs, Found DEF Inv, Located
<1> QED
  BY <1>1, <1>2 DEF L!Joined

\* Entries of another list behind a node; the other list ends unless it is empty.
LEMMA ListSpliceShows ==
  ASSUME Inv, NEW ls, LaysAll(nxt, owner, ls), NEW l \in Node, NEW x \in Node,
         ewx_list_splice(l, x)
  PROVE L!Join(l, x) /\ \E u : LaysAll(nxt', owner', u)
<1>1. PICK k : k = L!Behind(x)
  OBVIOUS
<1>2. l \in Heads /\ x \in Linked /\ owner[x] # l /\ Shown(ls)
  BY SameNodes DEF ewx_list_splice, Joinable, Inv
<1>3. L!CanJoin(l, x)
  BY <1>2, Found DEF L!CanJoin, Inv, Shown, Located
<1>4. Empty(l) <=> ls[l] = <<>>
  BY <1>2, EmptyIs
<1>5. CASE Empty(l)
  <2>1. nxt' = nxt /\ owner' = owner
    BY <1>5 DEF ewx_list_splice, links
  <2>2. LaysAll(nxt', owner', ls)
    BY <2>1
  <2>3. Turns(ls, ls)
    BY <2>2, TurnsInto
  <2>4. L!Join(l, x)
    BY <1>3, <1>4, <1>5, <2>3 DEF L!Join, Turns
  <2> QED
    BY <2>2, <2>4
<1>6. CASE ~Empty(l)
  <2>1. PICK u : u = L!Put(WithoutIn(ls, l), owner[x], k, ls[l])
    OBVIOUS
  <2>2. LaysAll(nxt', owner', u)
    <3>1. JoinedTo(nxt', owner', l, x)
      BY <1>2, <1>6 DEF ewx_list_splice, JoinedTo
    <3>2. Spot(ls, x, k, x)
      BY <1>1, <1>2, BehindIs
    <3> QED
      BY <2>1, <3>1, <3>2, JoinedLays
  <2>3. Turns(ls, u) /\ L!Joined(l, x) = u
    BY <1>1, <1>2, <2>1, <2>2, TurnsInto, JoinedIs
  <2>4. L!Join(l, x)
    BY <1>3, <1>4, <1>6, <2>3 DEF L!Join, Turns
  <2> QED
    BY <2>2, <2>4
<1> QED
  BY <1>5, <1>6

\* An empty list in another one and again a list of its own: nothing changes.
LEMMA EmptyJoins ==
  ASSUME NEW nx, NEW ow, NEW ls, LaysAll(nx, ow, ls), NEW l \in HeadsOf(ow), ls[l] = <<>>,
         NEW g \in HeadsOf(ow) \ {l}, NEW k \in 0 .. Len(ls[g])
  PROVE L!With(L!Put(WithoutIn(ls, l), g, k, <<>>), l, <<>>) = ls
<1>1. ls = [h \in HeadsOf(ow) |-> ls[h]] /\ ls[g] \in Seq(Node)
  BY DEF LaysAll, Lays
<1>2. PutIn(ls[g], k, <<>>) = ls[g]
  <2>1. PICK s \in Seq(Node) : s = ls[g]
    BY <1>1
  <2>2. Widened(Node, s, k, <<>>, PutIn(s, k, <<>>))
    <3>1. <<>> \in Seq(Node) /\ k \in 0 .. Len(s)
      BY <2>1
    <3> QED
      BY <3>1, PutPlaces
  <2>3. PICK u : u = PutIn(s, k, <<>>)
    OBVIOUS
  <2>4. /\ u \in Seq(Node) /\ Len(u) = Len(s) /\ \A i \in 1 .. k : u[i] = s[i]
        /\ \A i \in k + 1 .. Len(s) : u[i] = s[i]
    BY <2>1, <2>2, <2>3 DEF Widened
  <2>5. \A i \in 1 .. Len(s) : u[i] = s[i]
    BY <2>1, <2>4
  <2> QED
    BY <2>1, <2>3, <2>4, <2>5
<1>3. L!Put(WithoutIn(ls, l), g, k, <<>>) = WithoutIn(ls, l)
  BY <1>1, <1>2 DEF L!Put, WithoutIn, PutIn
<1>4. L!With(WithoutIn(ls, l), l, <<>>) = ls
  BY <1>1 DEF L!With, WithoutIn
<1> QED
  BY <1>3, <1>4

\* Entries of another list behind a node; the other list is empty then.
LEMMA ListSpliceInitShows ==
  ASSUME Inv, NEW ls, LaysAll(nxt, owner, ls), NEW l \in Node, NEW x \in Node,
         ewx_list_splice_init(l, x)
  PROVE L!JoinInit(l, x) /\ \E u : LaysAll(nxt', owner', u)
<1>1. PICK k : k = L!Behind(x)
  OBVIOUS
<1>2. l \in Heads /\ x \in Linked /\ owner[x] # l /\ Shown(ls)
  BY SameNodes DEF ewx_list_splice_init, Joinable, Inv
<1>3. L!CanJoin(l, x)
  BY <1>2, Found DEF L!CanJoin, Inv, Shown, Located
<1>4. Empty(l) <=> ls[l] = <<>>
  BY <1>2, EmptyIs
<1>5. Spot(ls, x, k, x)
  BY <1>1, <1>2, BehindIs
<1>6. L!Joined(l, x) = L!Put(WithoutIn(ls, l), owner[x], k, ls[l])
  BY <1>1, <1>2, JoinedIs
<1>7. CASE Empty(l)
  <2>1. nxt' = nxt /\ owner' = owner
    BY <1>7 DEF ewx_list_splice_init, links
  <2>2. LaysAll(nxt', owner', ls)
    BY <2>1
  <2>3. Turns(ls, ls)
    BY <2>2, TurnsInto
  <2>4. L!With(L!Joined(l, x), l, <<>>) = ls
    <3>1. PICK g : g = owner[x]
      OBVIOUS
    <3>2. l \in HeadsOf(owner) /\ g \in HeadsOf(owner) \ {l} /\ k \in 0 .. Len(ls[g])
      BY <1>2, <1>5, <3>1 DEF Spot, Heads, HeadsOf
    <3>3. L!With(L!Put(WithoutIn(ls, l), g, k, <<>>), l, <<>>) = ls
      BY <1>4, <1>7, <3>2, EmptyJoins
    <3> QED
      BY <1>4, <1>6, <1>7, <3>1, <3>3
  <2>5. L!JoinInit(l, x)
    BY <1>3, <2>3, <2>4 DEF L!JoinInit, Turns
  <2> QED
    BY <2>2, <2>5
<1>8. CASE ~Empty(l)
  <2>1. PICK v : v = L!Put(WithoutIn(ls, l), owner[x], k, ls[l])
    OBVIOUS
  <2>2. PICK w : w = SplicedOwner(l, x, None)
    OBVIOUS
  <2>3. PICK u : u = L!With(v, l, <<>>)
    OBVIOUS
  <2>4. /\ nxt' = [SplicedNext(l, x) EXCEPT ![l] = l] /\ owner' = SplicedOwner(l, x, l)
        /\ DOMAIN SplicedNext(l, x) = Node
    BY <1>8 DEF ewx_list_splice_init, SplicedNext, Inv, TypeOK
  <2>5. LaysAll(nxt', w, v)
    <3>1. JoinedTo(nxt', w, l, x)
      BY <1>2, <1>8, <2>2, <2>4 DEF JoinedTo
    <3> QED
      BY <1>5, <2>1, <3>1, JoinedLays
  <2>6. LaysAll(nxt', owner', u)
    <3>1. w[l] \notin Node /\ nxt'[l] = l /\ owner'[l] = l
      BY <2>2, <2>4, ListAssumption DEF SplicedOwner
    <3>2. \A y \in Node \ {l} : owner'[y] = w[y]
      BY <2>2, <2>4 DEF SplicedOwner
    <3>3. \A y \in Node : w[y] # l
      BY <1>2, <2>2, ListAssumption DEF SplicedOwner
    <3> QED
      BY <2>3, <2>5, <3>1, <3>2, <3>3, AllNew
  <2>7. Turns(ls, u)
    BY <2>6, TurnsInto
  <2>8. L!JoinInit(l, x)
    BY <1>3, <1>6, <2>1, <2>3, <2>7 DEF L!JoinInit, Turns
  <2> QED
    BY <2>6, <2>8
<1> QED
  BY <1>7, <1>8

\* There is a layout of all lists.
Laid == \E ls : LaysAll(nxt, owner, ls)

\* A step of a walk leaves the lists alone.
LEMMA WalkShows ==
  ASSUME Laid, UNCHANGED links
  PROVE  L!vars' = L!vars /\ Laid'
<1>1. PICK ls : LaysAll(nxt, owner, ls)
  BY DEF Laid
<1>2. nxt' = nxt /\ owner' = owner
  BY DEF links
<1>3. LaysAll(nxt', owner', ls)
  BY <1>1, <1>2
<1>4. Turns(ls, ls)
  BY <1>1, <1>3, TurnsInto
<1> QED
  BY <1>3, <1>4 DEF Turns, Laid, L!vars

\* At first there are no lists.
LEMMA InitShows == Init => L!Init /\ Laid
<1> SUFFICES ASSUME Init PROVE L!Init /\ Laid
  OBVIOUS
<1>1. HeadsOf(owner) = {}
  BY ListAssumption DEF Init, HeadsOf
<1>2. LaysAll(nxt, owner, <<>>)
  BY <1>1 DEF LaysAll
<1>3. [h \in Heads |-> Contents(h)] = <<>>
  BY <1>2, SequencesAre
<1> QED
  BY <1>2, <1>3 DEF L!Init, Laid

\* After each step there is a layout again.
LEMMA NextLaid == Inv /\ Laid /\ [Next]_vars => Laid'
<1> SUFFICES ASSUME Inv, Laid, [Next]_vars PROVE Laid'
  OBVIOUS
<1>1. PICK ls : LaysAll(nxt, owner, ls)
  BY DEF Laid
<1>2. CASE UNCHANGED vars
  BY <1>2, WalkShows DEF vars, links
<1>3. CASE \E n \in Node :
             EWX_LIST_HEAD_INIT(n) \/ ewx_list_del(n) \/ list_del_init(n)
  BY <1>1, <1>3, HeadInitShows, ListDelShows, ListDelInitShows DEF Laid
<1>4. CASE \E n, h \in Node :
             \/ ewx_list_add(n, h) \/ ewx_list_add_tail(n, h)
             \/ list_replace(n, h) \/ list_replace_init(n, h)
  BY <1>1, <1>4, ListAddShows, ListAddTailShows, ListReplaceShows, ListReplaceInitShows
     DEF Laid
<1>5. CASE \E n, h \in Node :
             \/ ewx_list_move(n, h) \/ ewx_list_move_tail(n, h)
             \/ ewx_list_splice(n, h) \/ ewx_list_splice_init(n, h)
  BY <1>1, <1>5, ListMoveShows, ListMoveTailShows, ListSpliceShows, ListSpliceInitShows
     DEF Laid
<1>6. CASE (\E h \in Node : StartWalk(h)) \/ StepWalk \/ EndWalk
  BY <1>6, WalkShows DEF StartWalk, StepWalk, EndWalk
<1> QED
  BY <1>2, <1>3, <1>4, <1>5, <1>6 DEF Next

\* There is a layout in every state of every behaviour.
LEMMA AlwaysLaid == Spec => [](Inv /\ Laid)
<1>1. Init => Inv /\ Laid
  BY InitInv, InitShows
<1>2. Inv /\ Laid /\ [Next]_vars => (Inv /\ Laid)'
  BY NextKeeps, NextLaid
<1> QED
  BY <1>1, <1>2, PTL DEF Spec

\* Each operation of ewx_list.h does to the sequence of entries what it promises:
\* an entry comes directly behind or before the node given, leaves, changes its
\* place or its name, or the entries of a list come into another one, all others
\* keep their order.  So for any number of nodes and lists, those without entries
\* and neighbours that are the same node included, and the walk changes nothing.
THEOREM CallsKeepPromiseTheorem == Spec => CallsKeepPromise
<1> DEFINE Promise ==
        /\ \A n \in Node :
             /\ EWX_LIST_HEAD_INIT(n) => L!New(n)
             /\ ewx_list_del(n) => L!Delete(n)
             /\ list_del_init(n) => L!DeleteInit(n)
        /\ \A n, h \in Node :
             /\ ewx_list_add(n, h) => L!AddBehind(n, h)
             /\ ewx_list_add_tail(n, h) => L!AddBefore(n, h)
             /\ list_replace(n, h) => L!Replace(n, h)
             /\ list_replace_init(n, h) => L!ReplaceInit(n, h)
             /\ ewx_list_move(n, h) => L!MoveBehind(n, h)
             /\ ewx_list_move_tail(n, h) => L!MoveBefore(n, h)
             /\ ewx_list_splice(n, h) => L!Join(n, h)
             /\ ewx_list_splice_init(n, h) => L!JoinInit(n, h)
        /\ walk' # walk => L!vars' = L!vars
<1>1. CallsKeepPromise <=> L!Init /\ [][Promise]_vars
  BY DEF CallsKeepPromise
<1>2. ASSUME Inv, Laid, Next PROVE Promise
  <2>1. PICK ls : LaysAll(nxt, owner, ls)
    BY <1>2 DEF Laid
  <2>2. ASSUME NEW n \in Node
        PROVE  /\ EWX_LIST_HEAD_INIT(n) => L!New(n)
               /\ ewx_list_del(n) => L!Delete(n)
               /\ list_del_init(n) => L!DeleteInit(n)
    BY <1>2, <2>1, HeadInitShows, ListDelShows, ListDelInitShows
  <2>3. ASSUME NEW n \in Node, NEW h \in Node
        PROVE  /\ ewx_list_add(n, h) => L!AddBehind(n, h)
               /\ ewx_list_add_tail(n, h) => L!AddBefore(n, h)
               /\ list_replace(n, h) => L!Replace(n, h)
               /\ list_replace_init(n, h) => L!ReplaceInit(n, h)
    BY <1>2, <2>1, ListAddShows, ListAddTailShows, ListReplaceShows, ListReplaceInitShows
  <2>4. ASSUME NEW n \in Node, NEW h \in Node
        PROVE  /\ ewx_list_move(n, h) => L!MoveBehind(n, h)
               /\ ewx_list_move_tail(n, h) => L!MoveBefore(n, h)
               /\ ewx_list_splice(n, h) => L!Join(n, h)
               /\ ewx_list_splice_init(n, h) => L!JoinInit(n, h)
    BY <1>2, <2>1, ListMoveShows, ListMoveTailShows, ListSpliceShows, ListSpliceInitShows
  <2>5. ASSUME walk' # walk PROVE L!vars' = L!vars
    <3>1. UNCHANGED links
      BY <1>2, <2>5 DEF Next, EWX_LIST_HEAD_INIT, ewx_list_del, list_del_init, ewx_list_add,
         ewx_list_add_tail, list_replace, list_replace_init, ewx_list_move,
         ewx_list_move_tail, ewx_list_splice, ewx_list_splice_init, StartWalk, StepWalk,
         EndWalk
    <3> QED
      BY <1>2, <3>1, WalkShows
  <2> QED
    BY <2>2, <2>3, <2>4, <2>5
<1> HIDE DEF Promise
<1>3. Inv /\ Laid /\ [Next]_vars => [Promise]_vars
  BY <1>2
<1> QED
  BY <1>1, <1>3, InitShows, AlwaysLaid, PTL DEF Spec
=============================================================================
