----------------------------- MODULE HashMultiset -----------------------------
(***************************************************************************)
(* What the hash table promises its callers: every bucket is a multiset of *)
(* items, and each call takes effect at one instant between its invocation *)
(* and its return.  There are no blocks, no chains, no locks and no walks. *)
(***************************************************************************)
EXTENDS Integers, FiniteSets, FiniteSetsExt

CONSTANTS Core, BucketNum, ItemNum, Item, KeyOf, Calls, Null

Bucket == 0 .. BucketNum - 1

VARIABLES
  bag,    \* how many times each bucket holds each item
  stage,  \* of each core's call: "idle", "called" or "applied"
  req,    \* the call of each core
  ans     \* its answer once it has been applied

vars == <<bag, stage, req, ans>>

Init ==
  /\ bag = [b \in Bucket |-> [it \in Item |-> 0]]
  /\ stage = [c \in Core |-> "idle"]
  /\ req = [c \in Core |-> Null]
  /\ ans = [c \in Core |-> Null]

\* The items of the call's bucket on which its compare callback returns 0.
Equal(k) ==
  LET B == bag[k.hash]
  IN {it \in Item : B[it] > 0 /\ KeyOf[it] = KeyOf[k.this]}

\* A bucket is full when its items fill its blocks to the last slot.
Full(b) ==
  LET size == MapThenSumSet(LAMBDA it : bag[b][it], Item)
  IN size > 0 /\ size % ItemNum = 0

Add(b, it) == bag' = [bag EXCEPT ![b][it] = @ + 1]
Take(b, it) == bag' = [bag EXCEPT ![b][it] = @ - 1]

\* A core calls.
Invoke(c, k) ==
  /\ stage[c] = "idle"
  /\ stage' = [stage EXCEPT ![c] = "called"]
  /\ req' = [req EXCEPT ![c] = k]
  /\ UNCHANGED <<bag, ans>>

Pending(c, op) == stage[c] = "called" /\ req[c].op = op

Answer(c, a) ==
  /\ stage' = [stage EXCEPT ![c] = "applied"]
  /\ ans' = [ans EXCEPT ![c] = a]

Search(c) ==
  LET k == req[c]
  IN /\ Pending(c, "search")
     /\ Answer(c, IF k.hash < BucketNum /\ Equal(k) # {} THEN "ok" ELSE "notfound")
     /\ UNCHANGED <<bag, req>>

\* An equal item is there and nobody asks for another one: the call answers what
\* the callback answers, and "done" has rewritten the item.  Without a callback
\* nothing is stored, and an insert that stores nothing has failed: "0: inserted;
\* otherwise the insert failed" (ewx_hash_table.h:147).
InsertOnEqual(c) ==
  LET k == req[c]
  IN /\ Pending(c, "insert") /\ k.at = "none" /\ k.cmp
     /\ k.cb # "again"
     /\ Answer(c, IF k.cb = "null" THEN "fail" ELSE k.cb)
     /\ Equal(k) # {}
     /\ IF k.cb = "done"
        THEN \E it \in Equal(k) :
               bag' = [bag EXCEPT ![k.hash] =
                        [i \in Item |-> @[i] - (IF i = it THEN 1 ELSE 0)
                                             + (IF i = k.this THEN 1 ELSE 0)]]
        ELSE UNCHANGED bag
     /\ UNCHANGED req

\* The caller knows a free position: nothing is compared, the callback sees the
\* free slot and says whether the item is to be added.
InsertAt(c) ==
  LET k == req[c]
  IN /\ Pending(c, "insert") /\ k.at # "none"
     /\ IF k.cb \in {"done", "fail"} THEN Answer(c, k.cb) /\ UNCHANGED bag
        ELSE Answer(c, "ok") /\ Add(k.hash, k.this)
     /\ UNCHANGED req

\* A new item is added, next to an equal one if no callback is there to object.
\* Only a bucket that is full may run out of space.
InsertNew(c) ==
  LET k == req[c]
  IN /\ Pending(c, "insert") /\ k.at = "none"
     /\ \/ Answer(c, "ok") /\ Add(k.hash, k.this)
        \/ Answer(c, "nospace") /\ Full(k.hash) /\ UNCHANGED bag
     /\ k.cmp => Equal(k) = {} \/ k.cb \in {"null", "again"}
     /\ UNCHANGED req

\* One matching item goes, unless the callback says that it saw to it.
Remove(c) ==
  LET k == req[c]
  IN /\ Pending(c, "remove")
     /\ IF Equal(k) = {} THEN Answer(c, "notfound") /\ UNCHANGED bag
        ELSE IF k.cb \in {"done", "fail"} THEN Answer(c, k.cb) /\ UNCHANGED bag
        ELSE Answer(c, "ok") /\ \E it \in Equal(k) : Take(k.hash, it)
     /\ UNCHANGED req

\* ewx_hash_table_show goes through the buckets one after the other and
\* reports no state of the table as a whole.
Show(c) ==
  /\ Pending(c, "show")
  /\ Answer(c, "ok")
  /\ UNCHANGED <<bag, req>>

\* The bucket that show is at moves on.
ShowNext(c) ==
  /\ Pending(c, "show")
  /\ req[c].hash + 1 < BucketNum
  /\ req' = [req EXCEPT ![c].hash = @ + 1]
  /\ UNCHANGED <<bag, stage, ans>>

Respond(c) ==
  /\ stage[c] = "applied"
  /\ stage' = [stage EXCEPT ![c] = "idle"]
  /\ req' = [req EXCEPT ![c] = Null]
  /\ ans' = [ans EXCEPT ![c] = Null]
  /\ UNCHANGED bag

Next ==
  \E c \in Core :
    \/ \E k \in Calls : Invoke(c, k)
    \/ Search(c) \/ InsertOnEqual(c) \/ InsertAt(c) \/ InsertNew(c) \/ Remove(c)
    \/ Show(c) \/ ShowNext(c) \/ Respond(c)

Spec == Init /\ [][Next]_vars
=============================================================================
