-------------------------------- MODULE List --------------------------------
(***************************************************************************)
(* The doubly linked lists of ewx_list.h: every operation, pointer by      *)
(* pointer, called as the header asks, and the walk that allows the entry  *)
(* it is at to be taken out.                                               *)
(***************************************************************************)
EXTENDS Naturals

CONSTANTS
  Node,               \* the struct ewx_list_head there are
  Poison1, Poison2,   \* LIST_POISON1, LIST_POISON2
  None

ASSUME ListAssumption ==
  /\ Poison1 \notin Node /\ Poison2 \notin Node /\ None \notin Node

VARIABLES
  nxt, prv,   \* the pointers of each node
  owner,      \* history: the head of the list a node is on, None if on none
  walk,       \* ewx_list_for_each_safe: head, pos and n, or None
  todo        \* history: entries since the start of the walk, not yet visited

links == <<nxt, prv, owner>>
vars == <<nxt, prv, owner, walk, todo>>

Heads == {n \in Node : owner[n] = n}
Free == {n \in Node : owner[n] = None}
Linked == Node \ Free
Entries == Linked \ Heads

\* ewx_list_empty
Empty(h) == nxt[h] = h

\* Nodes that can be put on a list: those on none, and heads without entries.
Addable == Free \cup {h \in Heads : \A e \in Entries : owner[e] # h}

\* What the body of a walk may not take out: the entry that comes next.  It may
\* not give the walked list another head either.
Spared(n) == walk # None => n \notin {walk.head, walk.next}

Init ==
  /\ nxt = [n \in Node |-> Poison1] /\ prv = [n \in Node |-> Poison2]
  /\ owner = [n \in Node |-> None]
  /\ walk = None /\ todo = {}

-----------------------------------------------------------------------------
(* The helpers: pointers after __list_add and __list_del.                  *)

AddedNext(nx, n, before, after) == [nx EXCEPT ![n] = after, ![before] = n]

\* Mutant: the entry after the new one keeps its back pointer.
AddedPrevOnly(pv, n, before, after) == [pv EXCEPT ![n] = before]

AddedPrev(pv, n, before, after) == [pv EXCEPT ![after] = n, ![n] = before]

CutNext(nx, before, after) == [nx EXCEPT ![before] = after]
CutPrev(pv, before, after) == [pv EXCEPT ![after] = before]

-----------------------------------------------------------------------------
(* The operations.                                                         *)

EWX_LIST_HEAD_INIT(n) ==
  /\ n \in Free
  /\ nxt' = [nxt EXCEPT ![n] = n] /\ prv' = [prv EXCEPT ![n] = n]
  /\ owner' = [owner EXCEPT ![n] = n]
  /\ UNCHANGED <<walk, todo>>

ewx_list_add(n, h) ==
  /\ n \in Addable /\ h \in Linked \ {n} /\ Spared(n)
  /\ nxt' = AddedNext(nxt, n, h, nxt[h])
  /\ prv' = AddedPrev(prv, n, h, nxt[h])
  /\ owner' = [owner EXCEPT ![n] = owner[h]]
  /\ UNCHANGED <<walk, todo>>

ewx_list_add_tail(n, h) ==
  /\ n \in Addable /\ h \in Linked \ {n} /\ Spared(n)
  /\ nxt' = AddedNext(nxt, n, prv[h], h)
  /\ prv' = AddedPrev(prv, n, prv[h], h)
  /\ owner' = [owner EXCEPT ![n] = owner[h]]
  /\ UNCHANGED <<walk, todo>>

ewx_list_del(e) ==
  /\ e \in Entries /\ Spared(e)
  /\ nxt' = [CutNext(nxt, prv[e], nxt[e]) EXCEPT ![e] = Poison1]
  /\ prv' = [CutPrev(prv, prv[e], nxt[e]) EXCEPT ![e] = Poison2]
  /\ owner' = [owner EXCEPT ![e] = None]
  /\ todo' = todo \ {e}
  /\ UNCHANGED walk

list_del_init(e) ==
  /\ e \in Entries /\ Spared(e)
  /\ nxt' = [CutNext(nxt, prv[e], nxt[e]) EXCEPT ![e] = e]
  /\ prv' = [CutPrev(prv, prv[e], nxt[e]) EXCEPT ![e] = e]
  /\ owner' = [owner EXCEPT ![e] = e]
  /\ todo' = todo \ {e}
  /\ UNCHANGED walk

\* Mutant: the head of an empty list is copied as it is.
ReplacedPrevCopied(o, n) == [prv EXCEPT ![nxt[o]] = n, ![n] = prv[o]]

\* The four assignments of list_replace.  For a head without entries the second
\* one changes what the third one reads.
ReplacedPrev(o, n) ==
  LET pv == [prv EXCEPT ![nxt[o]] = n] IN [pv EXCEPT ![n] = pv[o]]
ReplacedNext(o, n) ==
  [nxt EXCEPT ![n] = nxt[o], ![ReplacedPrev(o, n)[n]] = n]

\* The new owners when n takes the place of o, which ends as new.
ReplacedOwner(o, n, new) ==
  [x \in Node |->
     IF x = o THEN new
     ELSE IF o \in Heads /\ (x = n \/ owner[x] = o) THEN n
     ELSE IF x = n THEN owner[o] ELSE owner[x]]

list_replace(o, n) ==
  /\ o \in Linked /\ n \in Free /\ Spared(o)
  /\ prv' = ReplacedPrev(o, n) /\ nxt' = ReplacedNext(o, n)
  /\ owner' = ReplacedOwner(o, n, None)
  /\ todo' = todo \ {o}
  /\ UNCHANGED walk

list_replace_init(o, n) ==
  /\ o \in Linked /\ n \in Free /\ Spared(o)
  /\ prv' = [ReplacedPrev(o, n) EXCEPT ![o] = o]
  /\ nxt' = [ReplacedNext(o, n) EXCEPT ![o] = o]
  /\ owner' = ReplacedOwner(o, n, o)
  /\ todo' = todo \ {o}
  /\ UNCHANGED walk

ewx_list_move(e, h) ==
  LET nx == CutNext(nxt, prv[e], nxt[e])
      pv == CutPrev(prv, prv[e], nxt[e])
  IN /\ e \in Entries /\ h \in Linked \ {e} /\ Spared(e)
     /\ nxt' = AddedNext(nx, e, h, nx[h])
     /\ prv' = AddedPrev(pv, e, h, nx[h])
     /\ owner' = [owner EXCEPT ![e] = owner[h]]
     /\ todo' = todo \ {e}
     /\ UNCHANGED walk

ewx_list_move_tail(e, h) ==
  LET nx == CutNext(nxt, prv[e], nxt[e])
      pv == CutPrev(prv, prv[e], nxt[e])
  IN /\ e \in Entries /\ h \in Linked \ {e} /\ Spared(e)
     /\ nxt' = AddedNext(nx, e, pv[h], h)
     /\ prv' = AddedPrev(pv, e, pv[h], h)
     /\ owner' = [owner EXCEPT ![e] = owner[h]]
     /\ todo' = todo \ {e}
     /\ UNCHANGED walk

\* __list_splice of the list l after h.
SplicedNext(l, h) == [nxt EXCEPT ![h] = nxt[l], ![prv[l]] = nxt[h]]
SplicedPrev(l, h) == [prv EXCEPT ![nxt[l]] = h, ![nxt[h]] = prv[l]]

\* l ends as new, its entries belong to the list of h.
SplicedOwner(l, h, new) ==
  [x \in Node |-> IF x = l THEN new ELSE IF owner[x] = l THEN owner[h] ELSE owner[x]]

Joinable(l, h) ==
  /\ l \in Heads /\ h \in Linked /\ owner[h] # l
  /\ walk # None => l # walk.head /\ owner[walk.next] # l

\* The head of the joined list keeps its pointers and is of no use any more.
ewx_list_splice(l, h) ==
  /\ Joinable(l, h)
  /\ IF Empty(l) THEN UNCHANGED links
     ELSE nxt' = SplicedNext(l, h) /\ prv' = SplicedPrev(l, h)
          /\ owner' = SplicedOwner(l, h, None)
  /\ UNCHANGED <<walk, todo>>

ewx_list_splice_init(l, h) ==
  /\ Joinable(l, h)
  /\ IF Empty(l) THEN UNCHANGED links
     ELSE /\ nxt' = [SplicedNext(l, h) EXCEPT ![l] = l]
          /\ prv' = [SplicedPrev(l, h) EXCEPT ![l] = l]
          /\ owner' = SplicedOwner(l, h, l)
  /\ UNCHANGED <<walk, todo>>

-----------------------------------------------------------------------------
(* The walk.                                                               *)

StartWalk(h) ==
  /\ walk = None /\ h \in Heads
  /\ walk' = [head |-> h, pos |-> nxt[h], next |-> nxt[nxt[h]]]
  /\ todo' = {n \in Entries : owner[n] = h} \ {nxt[h]}
  /\ UNCHANGED links

\* Mutant: the step of ewx_list_for_each, which is not safe.
StepTo == nxt[walk.pos]

\* Mutant: n moves on before pos takes it.
FollowingLate == IF walk.next = walk.head THEN walk.head ELSE nxt[walk.next]

Following == walk.next

\* A poisoned pointer leads nowhere.
NextOf(n) == IF n \in Node THEN nxt[n] ELSE n

StepWalk ==
  /\ walk # None /\ walk.pos # walk.head
  /\ walk' = [walk EXCEPT !.pos = Following, !.next = NextOf(Following)]
  /\ todo' = todo \ {Following}
  /\ UNCHANGED links

EndWalk ==
  /\ walk # None /\ walk.pos = walk.head
  /\ walk' = None /\ todo' = {}
  /\ UNCHANGED links

-----------------------------------------------------------------------------
Next ==
  \/ \E n \in Node :
       \/ EWX_LIST_HEAD_INIT(n) \/ ewx_list_del(n) \/ list_del_init(n) \/ StartWalk(n)
  \/ \E n, h \in Node :
       \/ ewx_list_add(n, h) \/ ewx_list_add_tail(n, h)
       \/ list_replace(n, h) \/ list_replace_init(n, h)
       \/ ewx_list_move(n, h) \/ ewx_list_move_tail(n, h)
       \/ ewx_list_splice(n, h) \/ ewx_list_splice_init(n, h)
  \/ StepWalk \/ EndWalk

Spec == Init /\ [][Next]_vars
=============================================================================
