----------------------------- MODULE MCHashTable -----------------------------
(* Small instances of HashTable for TLC.                                     *)
EXTENDS HashTableProps, TLC

CONSTANTS a, A, b, d, x1, x2, c1, c2

TwoCores == {c1, c2}
OneCore == {c1}
NoBlock == {}
OneBlock == {x1}
TwoBlocks == {x1, x2}

\* a and A are different items with the same key.
TwoKeys == {a, A, b}
ThreeKeys == {a, A, b, d}
MCKeyOf == (a :> "ka") @@ (A :> "ka") @@ (b :> "kb") @@ (d :> "kd")

Search(h, it) == [op |-> "search", hash |-> h, this |-> it]
Insert(h, it, cmp, cb, alloc, at) ==
  [op |-> "insert", hash |-> h, this |-> it, cmp |-> cmp, cb |-> cb,
   alloc |-> alloc, at |-> at]
Remove(h, it, cb) ==
  [op |-> "remove", hash |-> h, this |-> it, cb |-> cb, free |-> TRUE]
Show(s) == [op |-> "show", hash |-> 0, show |-> s]

\* Two buckets that compete for the allocator's blocks, and the show loop.  Who
\* inserts into bucket 0 looks for an equal item first and is refused if there is
\* one.
PoolCalls ==
  {Insert(0, it, TRUE, "fail", TRUE, "none") : it \in {a, b, d}}
    \cup {Remove(0, a, "again"), Search(0, a)}
    \cup {Insert(1, b, FALSE, "null", TRUE, "none"), Show(TRUE)}

\* Every kind of call with every answer of its callback, equal items allowed, by
\* callers that serialise their calls and may know where the next item goes.
SerialCalls ==
  {Insert(0, it, FALSE, cb, TRUE, "head") :
     it \in {a, b}, cb \in {"null", "again", "done", "fail"}}
    \cup {Insert(0, A, FALSE, "null", TRUE, "none"),
          Insert(0, b, FALSE, "null", FALSE, "none")}
    \cup {Insert(0, A, TRUE, cb, TRUE, "none") : cb \in {"again", "done", "fail"}}
    \cup {Remove(0, it, cb) : it \in {a, b}, cb \in Callback}
    \cup {Search(0, a), Search(BucketNum, a), Show(FALSE), Show(TRUE)}

\* For a bucket without overflow blocks: a search races a remove.
StaleCalls ==
  {Insert(0, it, FALSE, "null", FALSE, "none") : it \in {a, b}}
    \cup {Search(0, a), Remove(0, a, "null")}

\* The next free position may be in the block behind the head.
FreePosCalls ==
  {Insert(0, a, FALSE, "null", TRUE, at) : at \in {"none", "behind"}}

Perms == Permutations(Core) \cup Permutations(Overflow)
=============================================================================
