----------------------------- MODULE ListProps -----------------------------
(* What the lists have to keep true.                                       *)
EXTENDS List, Sequences

Pointer == Node \cup {Poison1, Poison2}

\* Types, and what is on a list has a head that heads itself.
TypeOK ==
  /\ nxt \in [Node -> Pointer] /\ prv \in [Node -> Pointer]
  /\ owner \in [Node -> Node \cup {None}]
  /\ \A n \in Linked : owner[n] \in Heads
  /\ walk = None \/ walk \in [head : Node, pos : Pointer, next : Pointer]
  /\ todo \subseteq Node

\* Every list is a ring in both directions: on it, forward and back undo each
\* other and stay on the list.  No pointer of a list leads to a node that was
\* taken out, poisoned or given to another list.
Rings ==
  \A n \in Linked :
    /\ nxt[n] \in Linked /\ prv[n] \in Linked
    /\ prv[nxt[n]] = n /\ nxt[prv[n]] = n
    /\ owner[nxt[n]] = owner[n] /\ owner[prv[n]] = owner[n]

\* A walk that spares the entry to come stays on its list, whatever its body does
\* to the entry it is at and to the rest of the lists.
WalkOnList ==
  walk # None =>
    walk.head \in Heads /\ walk.next \in Linked /\ owner[walk.next] = walk.head

\* At its end it has visited all entries that were there all the time.
WalkVisitsAll == walk # None /\ walk.pos = walk.head => todo = {}

-----------------------------------------------------------------------------
(* The promise, module Lists.                                              *)

\* The entries of h in the order in which ewx_list_for_each meets them, up to the
\* first that is not on the list.
Contents(h) ==
  LET from[n \in Node] ==
        IF n = h THEN <<>>
        ELSE <<n>> \o IF owner[n] = h THEN from[nxt[n]] ELSE <<>>
  IN from[nxt[h]]

L == INSTANCE Lists WITH lists <- [h \in Heads |-> Contents(h)]

\* Each call does to the sequences what it promises, in particular when old and
\* new neighbours are the same node, and everything else leaves them alone.
CallsKeepPromise ==
  /\ L!Init
  /\ [][/\ \A n \in Node :
             /\ EWX_LIST_HEAD_INIT(n) => L!New(n)
             /\ ewx_list_del(n) => L!Delete(n)
             /\ list_del_init(n) => L!DeleteInit(n)
        /\ \A n, h \in Node :
             /\ ewx_list_add(n, h) => L!AddBehind(n, h)
             /\ ewx_list_add_tail(n, h) => L!AddBefore(n, h)
             /\ list_replace(n, h) => L!Replace(n, h)
             /\ list_replace_init(n, h) => L!ReplaceInit(n, h)
             /\ ewx_list_move(n, h) => L!MoveBehind(n, h)
             /\ ewx_list_move_tail(n, h) => L!MoveBefore(n, h)
             /\ ewx_list_splice(n, h) => L!Join(n, h)
             /\ ewx_list_splice_init(n, h) => L!JoinInit(n, h)
        /\ walk' # walk => L!vars' = L!vars]_vars
=============================================================================
