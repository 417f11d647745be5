------------------------------ MODULE HashTable ------------------------------
(***************************************************************************)
(* The hash table of ewx_hash_table.c: buckets chained from fixed-size     *)
(* blocks, one optional spinlock per bucket, and operations that several   *)
(* cores run at once.                                                      *)
(*                                                                         *)
(* A block is a memory area: a bucket header (next_offset, valid_count)    *)
(* followed by item slots.  The head block of bucket b is preallocated at  *)
(* base_ptr + bucket_size * b and is named b here; overflow blocks come    *)
(* from the caller's bucket_alloc callback and go back to bucket_free.     *)
(* Each step of a core reads or writes one block, so the cores interleave  *)
(* inside the operations.                                                  *)
(***************************************************************************)
EXTENDS Integers, FiniteSets

CONSTANTS
  Core,       \* the cores that call the library
  BucketNum,  \* hash_table_p->bucket_num
  ItemNum,    \* hash_table_p->item_num: slots per block
  Overflow,   \* the blocks bucket_alloc can hand out
  Item,       \* contents of a slot
  KeyOf,      \* the part of an item that the compare callback looks at
  Calls,      \* the calls the cores make
  AutoLock,   \* auto_lock of ewx_hash_table_init
  Null        \* NULL; also "no core" and uninitialised memory

Bucket == 0 .. BucketNum - 1
Block == Bucket \cup Overflow
Slot == Block \X (1 .. ItemNum)

(***************************************************************************)
(* A call and its arguments.  cb says how the insert or remove callback    *)
(* answers: "null" (no callback given), "done" (> 0), "again" (0) or       *)
(* "fail" (< 0).  at tells where free_pos_p points: "none" (NULL), the     *)
(* first free slot of the "head" block, or that of the block chained right *)
(* "behind" the head.                                                      *)
(***************************************************************************)
Callback == {"null", "done", "again", "fail"}
Call ==
  [op : {"search"}, hash : Nat, this : Item]
    \cup [op : {"insert"}, hash : Bucket, this : Item, cmp : BOOLEAN,
          cb : Callback, alloc : BOOLEAN, at : {"none", "head", "behind"}]
    \cup [op : {"remove"}, hash : Bucket, this : Item, cb : Callback,
          free : BOOLEAN]
    \cup [op : {"show"}, hash : Bucket, show : BOOLEAN]

\* The allocator's memory is finite and so are the contents of item_size bytes.
ASSUME HashTableAssumption ==
  /\ BucketNum \in Nat \ {0}
  /\ ItemNum \in Nat \ {0}
  /\ Overflow \cap Bucket = {} /\ IsFiniteSet(Overflow)
  /\ IsFiniteSet(Item)
  /\ Null \notin Block \cup Item \cup Core \cup Slot
  /\ Calls \subseteq Call
  /\ \A k \in Calls : k.op = "show" => k.hash = 0
  /\ AutoLock \in BOOLEAN

VARIABLES
  nxt,   \* next_offset of every block
  cnt,   \* valid_count of every block
  mem,   \* the item slots of every block
  pool,  \* overflow blocks the allocator has free
  lock,  \* the spinlock of every bucket: Null or the core that holds it
  pc,    \* where each core is
  call,  \* the call it is in
  cur,   \* its local variable current
  pre,   \* its local variable pre
  slot,  \* found item, free_pos_p, or the entry to remove: <<block, index>>
  res    \* its local variable result

heap == <<nxt, cnt, mem, pool>>
local == <<call, cur, pre, slot, res>>
vars == <<nxt, cnt, mem, pool, lock, pc, call, cur, pre, slot, res>>

Result == {"ok", "done", "fail", "nospace", "notfound"}
Active == {"walk", "place", "copy", "grow", "seek", "drop", "unlock"}
Location == {"idle", "lock", "return"} \cup Active

Init ==
  /\ nxt = [x \in Block |-> Null]
  /\ cnt = [x \in Block |-> 0]
  /\ mem = [x \in Block |-> [i \in 1 .. ItemNum |-> Null]]
  /\ pool = Overflow
  /\ lock = [b \in Bucket |-> Null]
  /\ pc = [c \in Core |-> "idle"]
  /\ call = [c \in Core |-> Null]
  /\ cur = [c \in Core |-> Null]
  /\ pre = [c \in Core |-> Null]
  /\ slot = [c \in Core |-> Null]
  /\ res = [c \in Core |-> "ok"]

-----------------------------------------------------------------------------
(* Entering and leaving an operation.                                      *)

Goto(c, l) == pc' = [pc EXCEPT ![c] = l]

\* Two calls that may touch the same bucket.
Overlap(k, m) == k.op = "show" \/ m.op = "show" \/ k.hash = m.hash

\* The free slot the caller passes as free_pos_p, Null for none.
FreePos(k) ==
  IF k.op # "insert" \/ k.at = "none" THEN Null
  ELSE LET x == IF k.at = "head" THEN k.hash ELSE nxt[k.hash]
       IN <<x, cnt[x] + 1>>

\* The caller knows a free position only where there is one.
KnowsFreePos(k) ==
  k.op = "insert" =>
    /\ k.at = "head" => cnt[k.hash] < ItemNum
    /\ k.at = "behind" => nxt[k.hash] # Null /\ cnt[nxt[k.hash]] < ItemNum

\* A core calls the library.  Without auto_lock the table does no locking at
\* all and its users serialise the calls on a bucket themselves.
Begin(c, k) ==
  /\ pc[c] = "idle"
  /\ AutoLock \/ \A d \in Core : pc[d] # "idle" => ~Overlap(k, call[d])
  /\ KnowsFreePos(k)
  /\ Goto(c, "lock")
  /\ call' = [call EXCEPT ![c] = k]
  /\ slot' = [slot EXCEPT ![c] = FreePos(k)]
  /\ res' = [res EXCEPT ![c] = "ok"]
  /\ UNCHANGED <<heap, lock, cur, pre>>

\* ewx_hash_table_search refuses a hash past the last bucket and
\* ewx_hash_table_show a NULL callback, before anything is locked.
Rejected(k) ==
  \/ k.op = "search" /\ k.hash >= BucketNum
  \/ k.op = "show" /\ ~k.show

Reject(c) ==
  /\ pc[c] = "lock"
  /\ Rejected(call[c])
  /\ Goto(c, "return")
  /\ UNCHANGED <<heap, lock, local>>

\* cvmx_spinlock_lock and the computation of the head block's address.
Lock(c) ==
  LET k == call[c]
      h == k.hash
  IN /\ pc[c] = "lock"
     /\ ~Rejected(k)
     /\ IF AutoLock
        THEN lock[h] = Null /\ lock' = [lock EXCEPT ![h] = c]
        ELSE UNCHANGED lock
     /\ cur' = [cur EXCEPT ![c] = h]
     /\ pre' = [pre EXCEPT ![c] = h]
     /\ Goto(c, IF slot[c] = Null THEN "walk" ELSE "place")
     /\ UNCHANGED <<heap, call, slot, res>>

\* cvmx_spinlock_unlock.  The show loop then goes on with the next bucket.
Unlock(c) ==
  LET k == call[c]
      more == k.op = "show" /\ k.hash + 1 < BucketNum
  IN /\ pc[c] = "unlock"
     /\ lock' = IF AutoLock THEN [lock EXCEPT ![k.hash] = Null] ELSE lock
     /\ call' = IF more THEN [call EXCEPT ![c].hash = @ + 1] ELSE call
     /\ Goto(c, IF more THEN "lock" ELSE "return")
     /\ UNCHANGED <<heap, cur, pre, slot, res>>

\* The call returns and its local variables are gone.
Return(c) ==
  /\ pc[c] = "return"
  /\ Goto(c, "idle")
  /\ call' = [call EXCEPT ![c] = Null]
  /\ cur' = [cur EXCEPT ![c] = Null]
  /\ pre' = [pre EXCEPT ![c] = Null]
  /\ slot' = [slot EXCEPT ![c] = Null]
  /\ res' = [res EXCEPT ![c] = "ok"]
  /\ UNCHANGED <<heap, lock>>

-----------------------------------------------------------------------------
(* Walking the chain: one step handles one block.                          *)

Matches(it, this) == it # Null /\ KeyOf[it] = KeyOf[this]

\* Mutant: the loop over the entries stops one short.
HitsShort(c) ==
  {i \in 1 .. cnt[cur[c]] - 1 :
     call[c].op # "show" /\ Matches(mem[cur[c]][i], call[c].this)}

\* The valid entries of the current block on which compare returns 0.
Hits(c) ==
  LET k == call[c]
  IN IF k.op = "show" \/ (k.op = "insert" /\ ~k.cmp) THEN {}
     ELSE {i \in 1 .. cnt[cur[c]] : Matches(mem[cur[c]][i], k.this)}

\* The loops stop at the first hit.
Hit(c) == CHOOSE i \in Hits(c) : \A j \in Hits(c) : i <= j

\* Mutants: a block is taken for full with a slot left, or for one slot larger.
HasRoomBut1(c) == cnt[cur[c]] < ItemNum - 1
HasRoomPlus1(c) == cnt[cur[c]] <= ItemNum

\* The current block has a free slot.
HasRoom(c) == cnt[cur[c]] # ItemNum

\* The callback answered 0, or there is none: the operation takes place.
Proceeds(k) == k.cb \in {"null", "again"}

\* A match ends an insert unless its callback asks for a new item as well.
StopsInsert(c) == Hits(c) # {} /\ call[c].cb # "again"

\* Nothing in this block ends the walk.
Passes(c) ==
  IF call[c].op = "insert" THEN ~StopsInsert(c) /\ ~HasRoom(c)
  ELSE Hits(c) = {}

WalkOn(c) ==
  /\ pc[c] = "walk"
  /\ Passes(c)
  /\ nxt[cur[c]] # Null
  /\ pre' = [pre EXCEPT ![c] = cur[c]]
  /\ cur' = [cur EXCEPT ![c] = nxt[cur[c]]]
  /\ UNCHANGED <<heap, lock, pc, call, slot, res>>

EndOfChain(c) ==
  /\ pc[c] = "walk"
  /\ Passes(c)
  /\ nxt[cur[c]] = Null
  /\ pre' = [pre EXCEPT ![c] = cur[c]]
  /\ res' = IF call[c].op \in {"search", "remove"}
            THEN [res EXCEPT ![c] = "notfound"] ELSE res
  /\ Goto(c, IF call[c].op = "insert" THEN "grow" ELSE "unlock")
  /\ UNCHANGED <<heap, lock, call, cur, slot>>

\* Mutant: the item pointer has moved on when the loop ends.
FoundPast(c) ==
  /\ pc[c] = "walk"
  /\ call[c].op = "search"
  /\ Hits(c) # {}
  /\ slot' = [slot EXCEPT ![c] = <<cur[c], (Hit(c) % ItemNum) + 1>>]
  /\ Goto(c, "unlock")
  /\ UNCHANGED <<heap, lock, call, cur, pre, res>>

Found(c) ==
  /\ pc[c] = "walk"
  /\ call[c].op = "search"
  /\ Hits(c) # {}
  /\ slot' = [slot EXCEPT ![c] = <<cur[c], Hit(c)>>]
  /\ Goto(c, "unlock")
  /\ UNCHANGED <<heap, lock, call, cur, pre, res>>

-----------------------------------------------------------------------------
(* ewx_hash_table_insert.                                                  *)

\* What the return value becomes when a callback ends the operation.
CallbackResult(k) == IF k.cb = "null" THEN "ok" ELSE k.cb

\* An equal item is there.  A callback that answers "done" has rewritten it;
\* without a callback the operation returns 0 and stores nothing.
InsertHit(c) ==
  /\ pc[c] = "walk"
  /\ call[c].op = "insert"
  /\ StopsInsert(c)
  /\ mem' = IF call[c].cb = "done"
            THEN [mem EXCEPT ![cur[c]][Hit(c)] = call[c].this] ELSE mem
  /\ res' = [res EXCEPT ![c] = CallbackResult(call[c])]
  /\ Goto(c, "unlock")
  /\ UNCHANGED <<nxt, cnt, pool, lock, call, cur, pre, slot>>

\* The first block with a free slot: valid_count grows before the item is
\* written.
TakeSlot(c) ==
  /\ pc[c] = "walk"
  /\ call[c].op = "insert"
  /\ ~StopsInsert(c)
  /\ HasRoom(c)
  /\ cnt' = [cnt EXCEPT ![cur[c]] = @ + 1]
  /\ slot' = [slot EXCEPT ![c] = <<cur[c], cnt[cur[c]] + 1>>]
  /\ Goto(c, "copy")
  /\ UNCHANGED <<nxt, mem, pool, lock, call, cur, pre, res>>

\* free_pos_p was given: the callback sees that slot, and if the insertion
\* proceeds it is the head block whose valid_count grows.
Place(c) ==
  LET k == call[c]
      s == slot[c]
  IN /\ pc[c] = "place"
     /\ IF Proceeds(k)
        THEN /\ cnt' = [cnt EXCEPT ![cur[c]] = @ + 1]
             /\ Goto(c, "copy")
             /\ UNCHANGED <<mem, res>>
        ELSE /\ mem' = IF k.cb = "done"
                       THEN [mem EXCEPT ![s[1]][s[2]] = k.this] ELSE mem
             /\ res' = [res EXCEPT ![c] = k.cb]
             /\ Goto(c, "unlock")
             /\ UNCHANGED cnt
     /\ UNCHANGED <<nxt, pool, lock, call, cur, pre, slot>>

\* Mutant: this error path returns without the unlock.
NoSpaceLocked(c) ==
  /\ pc[c] = "grow"
  /\ ~call[c].alloc \/ pool = {}
  /\ res' = [res EXCEPT ![c] = "nospace"]
  /\ Goto(c, "return")
  /\ UNCHANGED <<heap, lock, call, cur, pre, slot>>

\* bucket_alloc is missing or returns NULL.
NoSpace(c) ==
  /\ pc[c] = "grow"
  /\ ~call[c].alloc \/ pool = {}
  /\ res' = [res EXCEPT ![c] = "nospace"]
  /\ Goto(c, "unlock")
  /\ UNCHANGED <<heap, lock, call, cur, pre, slot>>

\* A new block is linked behind the last one.  Its slots are uninitialised.
Grow(c, x) ==
  /\ pc[c] = "grow"
  /\ call[c].alloc
  /\ x \in pool
  /\ pool' = pool \ {x}
  /\ nxt' = [nxt EXCEPT ![pre[c]] = x, ![x] = Null]
  /\ cnt' = [cnt EXCEPT ![x] = 1]
  /\ slot' = [slot EXCEPT ![c] = <<x, 1>>]
  /\ Goto(c, "copy")
  /\ UNCHANGED <<mem, lock, call, cur, pre, res>>

\* memcpy(free_pos_p, this, item_size).
Copy(c) ==
  /\ pc[c] = "copy"
  /\ mem' = [mem EXCEPT ![slot[c][1]][slot[c][2]] = call[c].this]
  /\ Goto(c, "unlock")
  /\ UNCHANGED <<nxt, cnt, pool, lock, local>>

-----------------------------------------------------------------------------
(* ewx_hash_table_remove.                                                  *)

RemoveHit(c) ==
  /\ pc[c] = "walk"
  /\ call[c].op = "remove"
  /\ Hits(c) # {}
  /\ IF Proceeds(call[c])
     THEN /\ slot' = [slot EXCEPT ![c] = <<cur[c], Hit(c)>>]
          /\ Goto(c, "seek")
          /\ UNCHANGED res
     ELSE /\ res' = [res EXCEPT ![c] = call[c].cb]
          /\ Goto(c, "unlock")
          /\ UNCHANGED slot
  /\ UNCHANGED <<heap, lock, call, cur, pre>>

\* Mutant: the block before the last one is lost track of.
SeekStale(c) ==
  /\ pc[c] = "seek"
  /\ nxt[cur[c]] # Null
  /\ cur' = [cur EXCEPT ![c] = nxt[cur[c]]]
  /\ UNCHANGED <<heap, lock, pc, call, pre, slot, res>>

\* On to the last block, whose last entry will fill the hole.
Seek(c) ==
  /\ pc[c] = "seek"
  /\ nxt[cur[c]] # Null
  /\ pre' = [pre EXCEPT ![c] = cur[c]]
  /\ cur' = [cur EXCEPT ![c] = nxt[cur[c]]]
  /\ UNCHANGED <<heap, lock, pc, call, slot, res>>

\* Mutant: only an entry of another block is replaced.
NeedsMoveAcross(c) == slot[c][1] # cur[c]

\* The entry to remove is not the last entry of the last block.
NeedsMove(c) == slot[c][1] # cur[c] \/ slot[c][2] # cnt[cur[c]]

\* memcpy(dst, src, item_size).
Move(c) ==
  /\ pc[c] = "seek"
  /\ nxt[cur[c]] = Null
  /\ mem' = IF NeedsMove(c)
            THEN [mem EXCEPT ![slot[c][1]][slot[c][2]] =
                               mem[cur[c]][cnt[cur[c]]]]
            ELSE mem
  /\ Goto(c, "drop")
  /\ UNCHANGED <<nxt, cnt, pool, lock, local>>

\* Mutants: the head block is freed like any other; an empty block stays.
EmptiesAny(c) == cnt[cur[c]] = 1
EmptiesLate(c) == cnt[cur[c]] = 0 /\ cur[c] # call[c].hash

\* The last block loses its only entry and is not the head block.
Empties(c) == cnt[cur[c]] = 1 /\ cur[c] # call[c].hash

\* Mutant: the block goes back to the allocator while it is still chained.
DropLinked(c) ==
  LET x == cur[c]
  IN /\ pc[c] = "drop"
     /\ IF Empties(c)
        THEN pool' = pool \cup {x} /\ UNCHANGED cnt
        ELSE cnt' = [cnt EXCEPT ![x] = @ - 1] /\ UNCHANGED pool
     /\ Goto(c, "unlock")
     /\ UNCHANGED <<nxt, mem, lock, local>>

\* The last entry goes, and with it a block that it empties.  What a freed
\* block holds is the allocator's business.
Drop(c) ==
  LET x == cur[c]
  IN /\ pc[c] = "drop"
     /\ IF Empties(c)
        THEN /\ nxt' = [nxt EXCEPT ![pre[c]] = Null]
             /\ pool' = IF call[c].free THEN pool \cup {x} ELSE pool
             /\ mem' = [mem EXCEPT ![x] = [i \in 1 .. ItemNum |-> Null]]
             /\ UNCHANGED cnt
        ELSE /\ cnt' = [cnt EXCEPT ![x] = @ - 1]
             /\ UNCHANGED <<nxt, pool, mem>>
     /\ Goto(c, "unlock")
     /\ UNCHANGED <<lock, local>>

-----------------------------------------------------------------------------
\* The steps inside an operation, from the moment the lock is held.
Inside(c) ==
  \/ WalkOn(c) \/ EndOfChain(c) \/ Found(c)
  \/ InsertHit(c) \/ TakeSlot(c) \/ Place(c) \/ NoSpace(c) \/ Copy(c)
  \/ \E x \in Overflow : Grow(c, x)
  \/ RemoveHit(c) \/ Seek(c) \/ Move(c) \/ Drop(c)
  \/ Unlock(c)

Next ==
  \E c \in Core :
    \/ \E k \in Calls : Begin(c, k)
    \/ Reject(c) \/ Lock(c) \/ Inside(c) \/ Return(c)

Spec == Init /\ [][Next]_vars

\* A core runs the executive on bare metal: nothing preempts it for good inside
\* an operation.  The spinlock is no queue, so nothing is assumed of who gets it.
FairSpec == Spec /\ \A c \in Core : WF_vars(Inside(c) \/ Return(c))
=============================================================================
