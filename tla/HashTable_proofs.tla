--------------------------- MODULE HashTable_proofs ---------------------------
(***************************************************************************)
(* Proofs about ewx_hash_table.c for any number of cores, buckets, slots   *)
(* and overflow blocks, and for any set of calls that obeys FreePosRule.   *)
(***************************************************************************)
EXTENDS HashTableProps, WellFoundedInduction, TLAPS

\* The calls of one kind and what they carry.
LEMMA CallShape ==
  ASSUME NEW k \in Call
  PROVE  /\ k.op \in {"search", "insert", "remove", "show"}
         /\ k.hash \in Nat
         /\ k.op # "search" => k.hash \in Bucket
         /\ k.op \in {"insert", "remove"} => k.cb \in Callback
         /\ k.op = "insert" => k.at \in {"none", "head", "behind"}
         /\ k.op # "show" => k.this \in Item
         /\ k.op = "show" /\ k.hash + 1 < BucketNum =>
              [k EXCEPT !.hash = @ + 1] \in Call
<1>1. /\ Bucket \subseteq Nat
      /\ \A h \in Nat : h + 1 < BucketNum => h + 1 \in Bucket
  BY HashTableAssumption DEF Bucket
<1>2. CASE k \in [op : {"search"}, hash : Nat, this : Item]
  BY <1>2
<1>3. CASE k \in [op : {"insert"}, hash : Bucket, this : Item, cmp : BOOLEAN,
                  cb : Callback, alloc : BOOLEAN, at : {"none", "head", "behind"}]
  BY <1>1, <1>3
<1>4. CASE k \in [op : {"remove"}, hash : Bucket, this : Item, cb : Callback,
                  free : BOOLEAN]
  BY <1>1, <1>4
<1>5. CASE k \in [op : {"show"}, hash : Bucket, show : BOOLEAN]
  <2>1. k.op = "show" /\ k.hash \in Nat /\ k.hash \in Bucket
    BY <1>1, <1>5
  <2>2. k.hash + 1 < BucketNum => [k EXCEPT !.hash = @ + 1] \in Call
    <3>1. SUFFICES ASSUME k.hash + 1 < BucketNum
                   PROVE  [k EXCEPT !.hash = @ + 1]
                            \in [op : {"show"}, hash : Bucket, show : BOOLEAN]
      BY DEF Call
    <3>2. k.hash + 1 \in Bucket
      BY <1>1, <2>1, <3>1
    <3> QED BY <1>5, <3>2
  <2> QED BY <2>1, <2>2
<1> QED BY <1>2, <1>3, <1>4, <1>5 DEF Call

-----------------------------------------------------------------------------
(* Locking.                                                                *)

\* The operations' own steps: all but those that take or give back a lock.
Work(c) ==
  \/ WalkOn(c) \/ EndOfChain(c) \/ Found(c)
  \/ InsertHit(c) \/ TakeSlot(c) \/ Place(c) \/ NoSpace(c) \/ Copy(c)
  \/ \E x \in Overflow : Grow(c, x)
  \/ RemoveHit(c) \/ Seek(c) \/ Move(c) \/ Drop(c)

\* They leave the core inside its operation and all locks as they are.
LEMMA WorkStays ==
  ASSUME NEW c \in Core, pc \in [Core -> Location], Work(c)
  PROVE  /\ pc[c] \in Active
         /\ \E l \in Active : pc' = [pc EXCEPT ![c] = l]
         /\ UNCHANGED <<lock, call>>
<1> USE DEF Active, Goto, heap, local
<1>1. CASE WalkOn(c)      BY <1>1 DEF WalkOn, Location
<1>2. CASE EndOfChain(c)  BY <1>2 DEF EndOfChain
<1>3. CASE Found(c)       BY <1>3 DEF Found
<1>4. CASE InsertHit(c)   BY <1>4 DEF InsertHit
<1>5. CASE TakeSlot(c)    BY <1>5 DEF TakeSlot
<1>6. CASE Place(c)       BY <1>6 DEF Place
<1>7. CASE NoSpace(c)     BY <1>7 DEF NoSpace
<1>8. CASE Copy(c)        BY <1>8 DEF Copy
<1>9. CASE \E x \in Overflow : Grow(c, x)  BY <1>9 DEF Grow
<1>10. CASE RemoveHit(c)  BY <1>10 DEF RemoveHit
<1>11. CASE Seek(c)       BY <1>11 DEF Seek
<1>12. CASE Move(c)       BY <1>12 DEF Move
<1>13. CASE Drop(c)       BY <1>13 DEF Drop
<1> QED BY <1>1, <1>2, <1>3, <1>4, <1>5, <1>6, <1>7, <1>8, <1>9, <1>10, <1>11,
           <1>12, <1>13 DEF Work

LEMMA NextCases ==
  ASSUME Next
  PROVE  \E c \in Core :
           \/ \E k \in Calls : Begin(c, k)
           \/ Reject(c) \/ Lock(c) \/ Work(c) \/ Unlock(c) \/ Return(c)
<1>1. PICK c \in Core :
        \/ \E k \in Calls : Begin(c, k)
        \/ Reject(c) \/ Lock(c) \/ Inside(c) \/ Return(c)
  BY DEF Next
<1>2. Inside(c) => Work(c) \/ Unlock(c)
  BY DEF Inside, Work
<1> QED BY <1>1, <1>2

\* Locks: what LockDiscipline and Serialised say survives every step.
LEMMA LockStep ==
  ASSUME TypeOK, LockDiscipline, Serialised,
         \A c \in Core : pc[c] \in Active => call[c].hash \in Bucket,
         [Next]_vars
  PROVE  LockDiscipline' /\ Serialised'
<1> USE HashTableAssumption
<1>0. CASE UNCHANGED vars
  BY <1>0 DEF LockDiscipline, Serialised, vars, Overlap
<1> SUFFICES ASSUME NEW c \in Core,
                    \/ \E k \in Calls : Begin(c, k)
                    \/ Reject(c) \/ Lock(c) \/ Work(c) \/ Unlock(c) \/ Return(c)
             PROVE  LockDiscipline' /\ Serialised'
  BY <1>0, NextCases
<1> USE DEF TypeOK, LockDiscipline, Serialised, Goto, heap, local, Active
<1>1. CASE \E k \in Calls : Begin(c, k)
  <2> PICK k \in Calls : Begin(c, k)
    BY <1>1
  <2>1. pc' = [pc EXCEPT ![c] = "lock"] /\ call' = [call EXCEPT ![c] = k] /\ lock' = lock
    BY DEF Begin
  <2>2. pc[c] = "idle" /\ (AutoLock \/ \A d \in Core : pc[d] # "idle" => ~Overlap(k, call[d]))
    BY DEF Begin
  <2>3. LockDiscipline'
    BY <2>1, <2>2
  <2>4. Serialised'
    BY <2>1, <2>2 DEF Overlap
  <2> QED BY <2>3, <2>4
<1>2. CASE Reject(c)
  BY <1>2 DEF Reject, Overlap
<1>3. CASE Lock(c)
  <2>1. /\ pc[c] = "lock" /\ UNCHANGED call
        /\ \E l \in {"walk", "place"} : pc' = [pc EXCEPT ![c] = l]
        /\ IF AutoLock THEN lock[call[c].hash] = Null /\ lock' = [lock EXCEPT ![call[c].hash] = c]
           ELSE UNCHANGED lock
    BY <1>3 DEF Lock
  <2>2. call[c].hash \in Bucket
    <3>1. call[c] \in Call /\ ~Rejected(call[c])
      BY <1>3 DEF Lock
    <3>2. call[c].hash \in Nat /\ (call[c].op # "search" => call[c].hash \in Bucket)
      BY <3>1, CallShape
    <3> QED BY <3>1, <3>2 DEF Rejected, Bucket
  <2>3. LockDiscipline'
    BY <2>1, <2>2
  <2>4. Serialised'
    BY <2>1 DEF Overlap
  <2> QED BY <2>3, <2>4
<1>4. CASE Work(c)
  <2>1. /\ pc[c] \in Active
        /\ \E l \in Active : pc' = [pc EXCEPT ![c] = l]
        /\ UNCHANGED <<lock, call>>
    BY <1>4, WorkStays
  <2>2. LockDiscipline'
    BY <2>1
  <2>3. Serialised'
    BY <2>1 DEF Overlap
  <2> QED BY <2>2, <2>3
<1>5. CASE Unlock(c)
  <2>1. /\ pc[c] = "unlock"
        /\ pc' = [pc EXCEPT ![c] = "lock"] \/ pc' = [pc EXCEPT ![c] = "return"]
        /\ lock' = IF AutoLock THEN [lock EXCEPT ![call[c].hash] = Null] ELSE lock
    BY <1>5 DEF Unlock
  <2>2. \/ call' = call
        \/ call[c].op = "show" /\ call' = [call EXCEPT ![c].hash = call[c].hash + 1]
    BY <1>5, Zenon DEF Unlock
  <2>3. \A d \in Core \ {c} : call'[d] = call[d]
    BY <2>2
  <2>4. call[c].op = "show" /\ call' = [call EXCEPT ![c].hash = call[c].hash + 1] => call'[c].op = "show"
    <3> SUFFICES ASSUME call[c].op = "show", call' = [call EXCEPT ![c].hash = call[c].hash + 1]
                 PROVE  call'[c].op = "show"
      OBVIOUS
    <3>1. call[c] \in [op : {"show"}, hash : Bucket, show : BOOLEAN]
      BY <2>1 DEF Call
    <3> QED BY <3>1
  <2>5. LockDiscipline'
    BY <2>1, <2>3
  <2>6. Serialised'
    <3>1. ASSUME NEW d \in Core, d # c, ~AutoLock, pc'[d] # "idle"
          PROVE  ~Overlap(call[c], call[d]) /\ ~Overlap(call[d], call[c])
      BY <2>1, <3>1
    <3>2. ASSUME NEW d \in Core, d # c, ~AutoLock, pc'[d] # "idle"
          PROVE  ~Overlap(call'[c], call'[d]) /\ ~Overlap(call'[d], call'[c])
      BY <2>2, <2>3, <3>1, <3>2 DEF Overlap
    <3>3. ASSUME NEW d \in Core, NEW e \in Core, d # c, e # c, d # e, ~AutoLock,
                 pc'[d] # "idle", pc'[e] # "idle"
          PROVE  ~Overlap(call'[d], call'[e])
      BY <2>1, <2>3, <3>3
    <3> QED BY <3>2, <3>3
  <2> QED BY <2>5, <2>6
<1>6. CASE Return(c)
  BY <1>6 DEF Return, Overlap
<1> QED BY <1>1, <1>2, <1>3, <1>4, <1>5, <1>6

-----------------------------------------------------------------------------
(* The chains.                                                             *)

IInv == TypeOK /\ LockDiscipline /\ Serialised /\ ChainFull /\ Structure

\* A core inside an operation has its bucket for itself, also against a call
\* that waits with a free position in hand.
Engaged(d) == pc[d] \in Active \/ (pc[d] = "lock" /\ slot[d] # Null)

LEMMA Apart ==
  ASSUME TypeOK, LockDiscipline, Serialised, NEW own \in Owner,
         \A e \in Core : Holds(own, e),
         NEW c \in Core, NEW d \in Core, c # d, pc[c] \in Active, Engaged(d)
  PROVE  /\ call[c].hash \in Bucket /\ call[d].hash \in Bucket
         /\ call[c].hash # call[d].hash
<1>1. call[c].hash \in Bucket
  BY DEF Holds
<1>2. call[d].hash \in Bucket
  <2>1. CASE pc[d] \in Active
    BY <2>1 DEF Holds
  <2>2. CASE pc[d] = "lock" /\ slot[d] # Null
    <3>1. call[d].op = "insert"
      BY <2>2 DEF Holds
    <3>2. call[d] \in Call
      BY <2>2 DEF TypeOK
    <3> QED BY <3>1, <3>2, CallShape
  <2> QED BY <2>1, <2>2 DEF Engaged
<1>3. CASE ~AutoLock
  <2>1. pc[c] # "idle" /\ pc[d] # "idle"
    BY DEF Engaged, Active
  <2>2. ~Overlap(call[c], call[d])
    BY <1>3, <2>1 DEF Serialised
  <2> QED BY <1>1, <1>2, <2>2 DEF Overlap
<1>4. CASE AutoLock
  <2>1. pc[d] \in Active
    BY <1>4 DEF Engaged, Holds
  <2>2. lock[call[c].hash] = c
    BY <1>1, <1>4 DEF LockDiscipline
  <2>3. lock[call[d].hash] = d
    BY <1>2, <1>4, <2>1 DEF LockDiscipline
  <2> QED BY <1>1, <1>2, <2>2, <2>3
<1> QED BY <1>1, <1>2, <1>3, <1>4

\* What a core does to the blocks of its bucket, or to a block on no chain, is
\* of no concern to the others.
LEMMA Frame ==
  ASSUME TypeOK, LockDiscipline, Serialised,
         NEW own \in Owner, NEW own2 \in Owner, Chained(own),
         \A d \in Core : Holds(own, d),
         NEW c \in Core, pc[c] \in Active,
         \A d \in Core \ {c} :
           /\ pc'[d] = pc[d] /\ call'[d] = call[d] /\ cur'[d] = cur[d]
           /\ pre'[d] = pre[d] /\ slot'[d] = slot[d],
         \A x \in Block :
           own[x] \notin {call[c].hash, Null} =>
             own2[x] = own[x] /\ nxt'[x] = nxt[x] /\ cnt'[x] = cnt[x],
         NEW d \in Core \ {c}
  PROVE  Holds(own2, d)'
<1>1. CASE Engaged(d)
  <2>1. /\ call[d].hash \in Bucket /\ call[c].hash # call[d].hash
        /\ call[d].hash # Null
    BY <1>1, Apart, HashTableAssumption DEF Block
  <2>2. \A x \in Block : own[x] = call[d].hash =>
          own2[x] = own[x] /\ nxt'[x] = nxt[x] /\ cnt'[x] = cnt[x]
    BY <2>1
  <2>3. call[d].hash \in Block /\ own[call[d].hash] = call[d].hash
    BY <2>1 DEF Block, Chained
  <2>4. Holds(own, d)
    OBVIOUS
  <2>5. /\ pc'[d] = pc[d] /\ call'[d] = call[d] /\ cur'[d] = cur[d]
        /\ pre'[d] = pre[d] /\ slot'[d] = slot[d]
    OBVIOUS
  <2>6. slot[d] \in Slot => slot[d][1] \in Block
    BY DEF Slot
  <2> QED BY <2>1, <2>2, <2>3, <2>4, <2>5, <2>6 DEF Holds, Active
<1>2. CASE ~Engaged(d)
  BY <1>2 DEF Engaged, Holds, Active
<1> QED BY <1>1, <1>2

-----------------------------------------------------------------------------
(* Steps inside an operation.                                              *)

LEMMA LeastOfNaturals ==
  ASSUME NEW S \in SUBSET Nat, S # {}
  PROVE  \E m \in S : \A k \in S : m <= k
<1>1. PICK m \in S : \A k \in S : <<k, m>> \notin OpToRel(<, Nat)
  BY WFMin, NatLessThanWellFounded, Zenon
<1>2. \A k \in S : ~(k < m)
  BY <1>1, Zenon DEF OpToRel
<1> QED BY <1>2

\* Hit is one of the hits.
LEMMA HitIsHit ==
  ASSUME TypeOK, NEW c \in Core, cur[c] \in Block, Hits(c) # {}
  PROVE  /\ Hit(c) \in Hits(c)
         /\ Hit(c) \in 1 .. cnt[cur[c]] /\ Hit(c) \in 1 .. ItemNum
         /\ cnt[cur[c]] > 0
<1>1. /\ Hits(c) \subseteq 1 .. cnt[cur[c]]
      /\ cnt[cur[c]] \in 0 .. ItemNum
  BY DEF Hits, TypeOK
<1>2. Hits(c) \in SUBSET Nat
  BY <1>1
<1>3. Hit(c) \in Hits(c)
  BY <1>2, LeastOfNaturals DEF Hit
<1> QED BY <1>1, <1>3, HashTableAssumption

\* Steps that change neither a link nor a count keep the structure if the core
\* that takes them keeps its own part of it.
LEMMA Quiet ==
  ASSUME TypeOK, LockDiscipline, Serialised, ChainFull,
         NEW own \in Owner, Chained(own), \A d \in Core : Holds(own, d),
         NEW c \in Core,
         \A d \in Core \ {c} :
           /\ pc'[d] = pc[d] /\ call'[d] = call[d] /\ cur'[d] = cur[d]
           /\ pre'[d] = pre[d] /\ slot'[d] = slot[d],
         UNCHANGED <<nxt, cnt, pool>>, Holds(own, c)'
  PROVE  ChainFull' /\ Structure'
<1>1. ChainFull'
  BY DEF ChainFull
<1>2. Chained(own)'
  BY DEF Chained
<1>3. \A d \in Core \ {c} : Holds(own, d)'
  BY DEF Holds
<1> QED BY <1>1, <1>2, <1>3 DEF Structure

\* The steps of a walk and of a remove before it drops the last entry.
LEMMA WalkSteps ==
  ASSUME IInv, NEW c \in Core,
         \/ WalkOn(c) \/ EndOfChain(c) \/ Found(c) \/ InsertHit(c)
         \/ NoSpace(c) \/ Copy(c) \/ RemoveHit(c) \/ Seek(c) \/ Move(c)
  PROVE  TypeOK' /\ ChainFull' /\ Structure'
<1> USE HashTableAssumption
<1>1. PICK own \in Owner : Chained(own) /\ \A d \in Core : Holds(own, d)
  BY DEF IInv, Structure
<1> DEFINE x == cur[c]
           h == call[c].hash
<1>2. /\ TypeOK /\ LockDiscipline /\ Serialised /\ ChainFull
      /\ pc[c] \in Active \ {"unlock"} /\ pc[c] # "idle"
  BY DEF IInv, Active, WalkOn, EndOfChain, Found, InsertHit, NoSpace, Copy, RemoveHit,
         Seek, Move
<1>3. /\ x \in Block /\ own[x] = h /\ pre[c] \in Block /\ own[pre[c]] = h
      /\ h \in Bucket /\ call[c] \in Call
  BY <1>1, <1>2 DEF Holds, TypeOK
<1>4. UNCHANGED <<nxt, cnt, pool>>
  BY DEF WalkOn, EndOfChain, Found, InsertHit, NoSpace, Copy, RemoveHit,
         Seek, Move, heap
<1>5. \A d \in Core \ {c} :
        /\ pc'[d] = pc[d] /\ call'[d] = call[d] /\ cur'[d] = cur[d]
        /\ pre'[d] = pre[d] /\ slot'[d] = slot[d]
  BY <1>2 DEF TypeOK, WalkOn, EndOfChain, Found, InsertHit, NoSpace, Copy, RemoveHit,
         Seek, Move, heap, local, Goto
<1> SUFFICES TypeOK' /\ Holds(own, c)'
  BY <1>1, <1>2, <1>4, <1>5, Quiet
<1> USE <1>1, <1>2, <1>3, <1>4 DEF TypeOK, Goto, heap, local, Active, Location
<1>6. CASE WalkOn(c)
  <2>1. nxt[x] \in Block /\ own[nxt[x]] = h /\ own[x] # Null
    BY <1>6 DEF WalkOn, Chained, Block
  <2>2. TypeOK'
    BY <1>6, <2>1 DEF WalkOn
  <2>3. Holds(own, c)'
    BY <1>6, <2>1 DEF WalkOn, Holds
  <2> QED BY <2>2, <2>3
<1>7. CASE EndOfChain(c)
  <2>1. call[c].op = "insert" => cnt[x] = ItemNum
    BY <1>7 DEF EndOfChain, Passes, HasRoom
  <2>2. TypeOK'
    BY <1>7 DEF EndOfChain, Result
  <2>3. Holds(own, c)'
    BY <1>7, <2>1 DEF EndOfChain, Holds
  <2> QED BY <2>2, <2>3
<1>8. CASE Found(c)
  <2>1. <<x, Hit(c)>> \in Slot
    BY <1>8, HitIsHit DEF Found, Slot
  <2>2. TypeOK'
    BY <1>8, <2>1 DEF Found
  <2>3. Holds(own, c)'
    BY <1>8 DEF Found, Holds
  <2> QED BY <2>2, <2>3
<1>9. CASE InsertHit(c)
  <2>1. Hit(c) \in 1 .. ItemNum
    BY <1>9, HitIsHit DEF InsertHit, StopsInsert
  <2>2. call[c].this \in Item /\ CallbackResult(call[c]) \in Result
    BY <1>9, CallShape DEF InsertHit, StopsInsert, CallbackResult, Result, Callback
  <2>3. TypeOK'
    BY <1>9, <2>1, <2>2 DEF InsertHit
  <2>4. Holds(own, c)'
    BY <1>9 DEF InsertHit, Holds
  <2> QED BY <2>3, <2>4
<1>10. CASE NoSpace(c)
  BY <1>10 DEF NoSpace, Holds, Result
<1>11. CASE Copy(c)
  <2>1. slot[c] \in Slot
    BY <1>11 DEF Copy, Holds
  <2>2. call[c].this \in Item
    BY <1>11, CallShape DEF Copy, Holds
  <2>3. TypeOK'
    BY <1>11, <2>1, <2>2 DEF Copy, Slot
  <2>4. Holds(own, c)'
    BY <1>11 DEF Copy, Holds
  <2> QED BY <2>3, <2>4
<1>12. CASE RemoveHit(c)
  <2>1. <<x, Hit(c)>> \in Slot /\ cnt[x] > 0
    BY <1>12, HitIsHit DEF RemoveHit, Slot
  <2>2. CASE Proceeds(call[c])
    <3>1. /\ slot' = [slot EXCEPT ![c] = <<x, Hit(c)>>] /\ pc' = [pc EXCEPT ![c] = "seek"]
          /\ UNCHANGED <<nxt, cnt, mem, pool, lock, call, cur, pre, res>>
          /\ pc[c] = "walk" /\ call[c].op = "remove"
      BY <1>12, <2>2 DEF RemoveHit
    <3>2. TypeOK'
      BY <2>1, <3>1
    <3>3. Holds(own, c)'
      BY <2>1, <3>1 DEF Holds
    <3> QED BY <3>2, <3>3
  <2>3. CASE ~Proceeds(call[c])
    <3>1. /\ res' = [res EXCEPT ![c] = call[c].cb] /\ pc' = [pc EXCEPT ![c] = "unlock"]
          /\ UNCHANGED <<nxt, cnt, mem, pool, lock, call, cur, pre, slot>>
      BY <1>12, <2>3 DEF RemoveHit
    <3>2. call[c].cb \in Result
      BY <1>12, <2>3, CallShape DEF RemoveHit, Proceeds, Callback, Result
    <3>3. TypeOK'
      BY <3>1, <3>2
    <3>4. Holds(own, c)'
      BY <3>1 DEF Holds
    <3> QED BY <3>3, <3>4
  <2> QED BY <2>2, <2>3
<1>13. CASE Seek(c)
  <2>1. nxt[x] \in Overflow /\ nxt[x] \in Block /\ own[nxt[x]] = h /\ h # Null
    BY <1>13 DEF Seek, Chained, Block
  <2>2. cnt[nxt[x]] > 0
    BY <2>1 DEF Chained
  <2>3. TypeOK'
    BY <1>13, <2>1 DEF Seek
  <2>4. Holds(own, c)'
    BY <1>13, <2>1, <2>2 DEF Seek, Holds
  <2> QED BY <2>3, <2>4
<1>14. CASE Move(c)
  <2>1. slot[c] \in Slot /\ cnt[x] \in 1 .. ItemNum
    BY <1>14 DEF Move, Holds
  <2>2. TypeOK'
    BY <1>14, <2>1 DEF Move, Slot
  <2>3. Holds(own, c)'
    BY <1>14 DEF Move, Holds
  <2> QED BY <2>2, <2>3
<1> QED BY <1>6, <1>7, <1>8, <1>9, <1>10, <1>11, <1>12, <1>13, <1>14

\* TakeSlot and Place: the count of a block with a free slot grows.
LEMMA CountSteps ==
  ASSUME IInv, NEW c \in Core, TakeSlot(c) \/ Place(c)
  PROVE  TypeOK' /\ ChainFull' /\ Structure'
<1> USE HashTableAssumption
<1>1. PICK own \in Owner : Chained(own) /\ \A d \in Core : Holds(own, d)
  BY DEF IInv, Structure
<1> DEFINE x == cur[c]
           h == call[c].hash
<1>2. /\ TypeOK /\ LockDiscipline /\ Serialised /\ ChainFull
      /\ pc[c] \in {"walk", "place"}
  BY DEF IInv, TakeSlot, Place
<1>3. /\ x \in Block /\ own[x] = h /\ pre[c] \in Block /\ own[pre[c]] = h
      /\ h \in Bucket /\ call[c] \in Call /\ cnt[x] \in 0 .. ItemNum
  BY <1>1, <1>2 DEF Holds, TypeOK, Active
<1>4. call[c].op = "insert"
  <2>1. CASE TakeSlot(c)
    BY <2>1 DEF TakeSlot
  <2>2. CASE Place(c)
    <3>1. pc[c] = "place" /\ Holds(own, c)
      BY <1>1, <2>2 DEF Place
    <3> QED BY <3>1 DEF Holds
  <2> QED BY <2>1, <2>2
<1>5. cnt[x] < ItemNum /\ (Place(c) => slot[c] = <<x, cnt[x] + 1>>)
  <2>1. CASE TakeSlot(c)
    BY <1>3, <2>1 DEF TakeSlot, HasRoom, Place
  <2>2. CASE Place(c)
    <3>1. pc[c] = "place" /\ Holds(own, c)
      BY <1>1, <2>2 DEF Place
    <3> QED BY <3>1 DEF Holds
  <2> QED BY <2>1, <2>2
<1>6. CASE TakeSlot(c) \/ Proceeds(call[c])
  <2>1. /\ cnt' = [cnt EXCEPT ![x] = @ + 1] /\ pc' = [pc EXCEPT ![c] = "copy"]
        /\ UNCHANGED <<nxt, mem, pool, lock, call, cur, pre, res>>
        /\ slot' = [slot EXCEPT ![c] = <<x, cnt[x] + 1>>]
    <3>1. CASE TakeSlot(c)
      BY <3>1 DEF TakeSlot, Goto
    <3>2. CASE Place(c) /\ Proceeds(call[c])
      BY <1>2, <1>5, <3>2 DEF Place, Goto, TypeOK
    <3> QED BY <1>6, <3>1, <3>2
  <2>2. <<x, cnt[x] + 1>> \in Slot
    BY <1>3, <1>5 DEF Slot
  <2>3. TypeOK'
    BY <1>2, <1>3, <1>5, <2>1, <2>2 DEF TypeOK, Location, Active
  <2>4. ChainFull'
    BY <1>2, <1>3, <1>5, <2>1 DEF ChainFull, TypeOK
  <2>5. Chained(own)'
    BY <1>1, <1>2, <1>3, <2>1 DEF Chained, TypeOK, Block
  <2>6. Holds(own, c)'
    BY <1>2, <1>3, <1>4, <2>1, <2>2 DEF Holds, TypeOK, Active
  <2>7. \A d \in Core \ {c} : Holds(own, d)'
    <3>1. \A d \in Core \ {c} :
            /\ pc'[d] = pc[d] /\ call'[d] = call[d] /\ cur'[d] = cur[d]
            /\ pre'[d] = pre[d] /\ slot'[d] = slot[d]
      BY <1>2, <2>1 DEF TypeOK
    <3>2. \A y \in Block : own[y] \notin {h, Null} =>
            own[y] = own[y] /\ nxt'[y] = nxt[y] /\ cnt'[y] = cnt[y]
      BY <1>2, <1>3, <2>1 DEF TypeOK
    <3>3. pc[c] \in Active
      BY <1>2 DEF Active
    <3> QED BY <1>1, <1>2, <3>1, <3>2, <3>3, Frame
  <2> QED BY <1>1, <2>3, <2>4, <2>5, <2>6, <2>7 DEF Structure
<1>7. CASE Place(c) /\ ~Proceeds(call[c])
  <2>1. /\ mem' = mem \/ mem' = [mem EXCEPT ![slot[c][1]][slot[c][2]] = call[c].this]
        /\ res' = [res EXCEPT ![c] = call[c].cb] /\ pc' = [pc EXCEPT ![c] = "unlock"]
        /\ UNCHANGED <<nxt, cnt, pool, lock, call, cur, pre, slot>>
    BY <1>7 DEF Place, Goto
  <2>2. slot[c] = <<x, cnt[x] + 1>> /\ slot[c][1] \in Block /\ slot[c][2] \in 1 .. ItemNum
    BY <1>3, <1>5, <1>7
  <2>3. call[c].cb \in Result /\ call[c].this \in Item
    BY <1>3, <1>4, <1>7, CallShape DEF Proceeds, Callback, Result
  <2>4. TypeOK'
    <3>1. mem' \in [Block -> [1 .. ItemNum -> Item \cup {Null}]]
      <4>1. mem \in [Block -> [1 .. ItemNum -> Item \cup {Null}]]
        BY <1>2 DEF TypeOK
      <4> DEFINE y == slot[c][1]
                 i == slot[c][2]
      <4>2. [mem EXCEPT ![y][i] = call[c].this]
              \in [Block -> [1 .. ItemNum -> Item \cup {Null}]]
        <5> HIDE DEF y, i
        <5> QED BY <2>3, <4>1
      <4> QED BY <2>1, <4>1, <4>2
    <3>2. pc' \in [Core -> Location] /\ res' \in [Core -> Result]
      BY <1>2, <2>1, <2>3 DEF TypeOK, Location, Active
    <3>3. \A d \in Core : pc'[d] # "idle" => call'[d] \in Call
      BY <1>2, <1>3, <2>1 DEF TypeOK
    <3> QED BY <1>2, <2>1, <3>1, <3>2, <3>3 DEF TypeOK
  <2>5. Holds(own, c)'
    BY <1>1, <1>2, <1>3, <2>1 DEF Holds, TypeOK, Active
  <2>6. \A d \in Core \ {c} :
          /\ pc'[d] = pc[d] /\ call'[d] = call[d] /\ cur'[d] = cur[d]
          /\ pre'[d] = pre[d] /\ slot'[d] = slot[d]
    BY <1>2, <2>1 DEF TypeOK
  <2> QED BY <1>1, <1>2, <2>1, <2>4, <2>5, <2>6, Quiet
<1> QED BY <1>6, <1>7

\* Grow: the new block was on no chain and becomes the last one of this bucket.
LEMMA GrowStep ==
  ASSUME IInv, NEW c \in Core, NEW x \in Overflow, Grow(c, x)
  PROVE  TypeOK' /\ ChainFull' /\ Structure'
<1> USE HashTableAssumption
<1>1. PICK own \in Owner : Chained(own) /\ \A d \in Core : Holds(own, d)
  BY DEF IInv, Structure
<1> DEFINE p == pre[c]
           h == call[c].hash
<1>2. /\ TypeOK /\ LockDiscipline /\ Serialised /\ ChainFull
      /\ pc[c] = "grow" /\ pc[c] \in Active /\ pc[c] # "idle"
  BY DEF IInv, Grow, Active
<1>3. /\ p \in Block /\ own[p] = h /\ nxt[p] = Null /\ cnt[p] = ItemNum
      /\ h \in Bucket /\ call[c] \in Call /\ call[c].op = "insert"
      /\ cur[c] \in Block /\ own[cur[c]] = h
  BY <1>1, <1>2 DEF Holds, TypeOK, Active
<1>4. /\ pool' = pool \ {x} /\ x \in pool
      /\ nxt' = [nxt EXCEPT ![p] = x, ![x] = Null]
      /\ cnt' = [cnt EXCEPT ![x] = 1]
      /\ slot' = [slot EXCEPT ![c] = <<x, 1>>]
      /\ pc' = [pc EXCEPT ![c] = "copy"]
      /\ UNCHANGED <<mem, lock, call, cur, pre, res>>
  BY DEF Grow, Goto
<1>5. /\ own[x] = Null /\ x # p /\ x \in Block /\ x \notin Bucket /\ h # Null
      /\ x # cur[c] /\ x # Null
  BY <1>1, <1>3, <1>4 DEF Chained, Block
<1>6. nxt[x] = Null /\ \A y \in Block : nxt[y] # x
  BY <1>1, <1>5 DEF Chained
<1>7. PICK own2 \in Owner : own2 = [own EXCEPT ![x] = h]
  BY <1>3, <1>5 DEF Owner
<1>8. TypeOK'
  <2>1. nxt' \in [Block -> Overflow \cup {Null}] /\ cnt' \in [Block -> 0 .. ItemNum]
    <3>1. 1 \in 0 .. ItemNum
      OBVIOUS
    <3>2. nxt' \in [Block -> Overflow \cup {Null}]
      BY <1>2, <1>4 DEF TypeOK
    <3> QED BY <1>2, <1>4, <3>1, <3>2 DEF TypeOK
  <2>2. slot' \in [Core -> Slot \cup {Null}] /\ pc' \in [Core -> Location]
    BY <1>2, <1>4, <1>5 DEF TypeOK, Slot, Location, Active
  <2>3. \A d \in Core : pc'[d] # "idle" => call'[d] \in Call
    BY <1>2, <1>3, <1>4 DEF TypeOK
  <2> QED BY <1>2, <1>4, <2>1, <2>2, <2>3 DEF TypeOK
<1>9. /\ nxt'[p] = x /\ nxt'[x] = Null /\ cnt'[x] = 1
      /\ \A y \in Block \ {p, x} : nxt'[y] = nxt[y]
      /\ \A y \in Block \ {x} : cnt'[y] = cnt[y]
      /\ own2[x] = h /\ \A y \in Block \ {x} : own2[y] = own[y]
  BY <1>2, <1>3, <1>4, <1>5, <1>7 DEF TypeOK, Owner
<1>10. ChainFull'
  BY <1>2, <1>3, <1>5, <1>9 DEF ChainFull
<1>11. Chained(own2)'
  <2>1. \A b \in Bucket : own2[b] = b
    BY <1>1, <1>5, <1>9 DEF Chained, Block
  <2>2. \A y \in pool' : own2[y] = Null
    BY <1>1, <1>2, <1>4, <1>9 DEF Chained, Block, TypeOK
  <2>3. \A y \in Block : nxt'[y] # Null => own2[y] # Null /\ own2[nxt'[y]] = own2[y]
    <3> SUFFICES ASSUME NEW y \in Block, nxt'[y] # Null
                 PROVE  own2[y] # Null /\ own2[nxt'[y]] = own2[y]
      OBVIOUS
    <3>1. CASE y = p
      BY <1>3, <1>5, <1>9, <3>1
    <3>2. CASE y # p
      <4>1. y # x /\ nxt'[y] = nxt[y] /\ nxt[y] # x /\ nxt[y] \in Block
        BY <1>2, <1>6, <1>9, <3>2 DEF TypeOK, Block
      <4> QED BY <1>1, <1>9, <4>1 DEF Chained
    <3> QED BY <3>1, <3>2
  <2>4. \A y, z \in Block : nxt'[y] # Null /\ nxt'[y] = nxt'[z] => y = z
    <3> SUFFICES ASSUME NEW y \in Block, NEW z \in Block,
                        nxt'[y] # Null, nxt'[y] = nxt'[z]
                 PROVE  y = z
      OBVIOUS
    <3>1. y # x /\ z # x
      BY <1>9
    <3>2. y = p <=> z = p
      BY <1>6, <1>9, <3>1
    <3> QED BY <1>1, <1>9, <3>1, <3>2 DEF Chained
  <2>5. \A y \in Overflow : own2[y] # Null => cnt'[y] > 0
    BY <1>1, <1>9 DEF Chained, Block
  <2> QED BY <2>1, <2>2, <2>3, <2>4, <2>5 DEF Chained
<1>12. Holds(own2, c)'
  <2>1. /\ pc'[c] = "copy" /\ slot'[c] = <<x, 1>> /\ call'[c] = call[c]
        /\ cur'[c] = cur[c] /\ pre'[c] = p
    BY <1>2, <1>4 DEF TypeOK
  <2>2. <<x, 1>> \in Slot
    BY <1>5 DEF Slot
  <2> QED BY <1>3, <1>5, <1>9, <2>1, <2>2 DEF Holds, Active
<1>13. \A d \in Core \ {c} : Holds(own2, d)'
  <2>1. \A d \in Core \ {c} :
          /\ pc'[d] = pc[d] /\ call'[d] = call[d] /\ cur'[d] = cur[d]
          /\ pre'[d] = pre[d] /\ slot'[d] = slot[d]
    BY <1>2, <1>4 DEF TypeOK
  <2>2. \A y \in Block : own[y] \notin {h, Null} =>
          own2[y] = own[y] /\ nxt'[y] = nxt[y] /\ cnt'[y] = cnt[y]
    BY <1>3, <1>5, <1>9
  <2> QED BY <1>1, <1>2, <1>7, <2>1, <2>2, Frame
<1> QED BY <1>7, <1>8, <1>10, <1>11, <1>12, <1>13 DEF Structure

\* Drop: an emptied block leaves the chain of its bucket, whose new last block
\* is the one before it.
LEMMA DropStep ==
  ASSUME IInv, NEW c \in Core, Drop(c)
  PROVE  TypeOK' /\ ChainFull' /\ Structure'
<1> USE HashTableAssumption
<1>1. PICK own \in Owner : Chained(own) /\ \A d \in Core : Holds(own, d)
  BY DEF IInv, Structure
<1> DEFINE x == cur[c]
           p == pre[c]
           h == call[c].hash
<1>2. /\ TypeOK /\ LockDiscipline /\ Serialised /\ ChainFull
      /\ pc[c] = "drop" /\ pc[c] \in Active /\ pc[c] # "idle"
  BY DEF IInv, Drop, Active
<1>3. /\ x \in Block /\ own[x] = h /\ p \in Block /\ own[p] = h
      /\ nxt[x] = Null /\ cnt[x] \in 1 .. ItemNum
      /\ x = h \/ nxt[p] = x
      /\ h \in Bucket /\ h # Null /\ call[c] \in Call
      /\ call[c].op = "show" => slot[c] = Null
  BY <1>1, <1>2 DEF Holds, TypeOK, Active, Block
<1>4. x # h => x \in Overflow /\ nxt[p] = x /\ p # x /\ nxt[p] # Null
  BY <1>1, <1>3 DEF Chained, Block
<1>5. /\ pc' = [pc EXCEPT ![c] = "unlock"]
      /\ UNCHANGED <<lock, call, cur, pre, slot, res>>
  BY DEF Drop, Goto, local
<1>6. /\ pc' \in [Core -> Location] /\ pc'[c] = "unlock"
      /\ \A d \in Core : pc'[d] # "idle" => call'[d] \in Call
      /\ \A d \in Core \ {c} :
           /\ pc'[d] = pc[d] /\ call'[d] = call[d] /\ cur'[d] = cur[d]
           /\ pre'[d] = pre[d] /\ slot'[d] = slot[d]
  BY <1>2, <1>3, <1>5 DEF TypeOK, Location, Active
<1>7. CASE Empties(c)
  <2>1. /\ nxt' = [nxt EXCEPT ![p] = Null] /\ UNCHANGED cnt
        /\ pool' = pool \cup {x} \/ pool' = pool
        /\ mem' = [mem EXCEPT ![x] = [i \in 1 .. ItemNum |-> Null]]
    BY <1>7 DEF Drop
  <2>2. x \in Overflow /\ x \notin Bucket /\ nxt[p] = x /\ p # x /\ nxt[p] # Null
    BY <1>4, <1>7 DEF Empties
  <2>3. PICK own2 \in Owner : own2 = [own EXCEPT ![x] = Null]
    BY DEF Owner
  <2>4. /\ nxt'[p] = Null /\ \A y \in Block \ {p} : nxt'[y] = nxt[y]
        /\ own2[x] = Null /\ \A y \in Block \ {x} : own2[y] = own[y]
    BY <1>2, <1>3, <2>1, <2>3 DEF TypeOK, Owner
  <2>5. TypeOK'
    <3>1. nxt' \in [Block -> Overflow \cup {Null}] /\ pool' \in SUBSET Overflow
      BY <1>2, <2>1, <2>2 DEF TypeOK
    <3>2. mem' \in [Block -> [1 .. ItemNum -> Item \cup {Null}]]
      BY <1>2, <2>1 DEF TypeOK
    <3> QED BY <1>2, <1>5, <1>6, <2>1, <3>1, <3>2 DEF TypeOK
  <2>6. ChainFull'
    BY <1>2, <2>1, <2>4 DEF ChainFull
  <2>7. Chained(own2)'
    <3>1. \A b \in Bucket : own2[b] = b
      BY <1>1, <2>2, <2>4 DEF Chained, Block
    <3>2. \A y \in pool' : own2[y] = Null
      <4>1. \A y \in pool : y \in Block /\ own[y] = Null
        BY <1>1, <1>2 DEF Chained, Block, TypeOK
      <4>2. \A y \in pool' : y = x \/ y \in pool
        BY <2>1
      <4> QED BY <2>4, <4>1, <4>2
    <3>3. \A y \in Block : nxt'[y] # Null => own2[y] # Null /\ own2[nxt'[y]] = own2[y]
      <4> SUFFICES ASSUME NEW y \in Block, nxt'[y] # Null
                   PROVE  own2[y] # Null /\ own2[nxt'[y]] = own2[y]
        OBVIOUS
      <4>1. y # p /\ y # x /\ nxt'[y] = nxt[y]
        BY <1>3, <2>4
      <4>2. nxt[y] # x /\ nxt[y] \in Block
        BY <1>1, <1>2, <1>3, <2>2, <4>1 DEF Chained, TypeOK, Block
      <4> QED BY <1>1, <2>4, <4>1, <4>2 DEF Chained
    <3>4. \A y, z \in Block : nxt'[y] # Null /\ nxt'[y] = nxt'[z] => y = z
      BY <1>1, <2>4 DEF Chained
    <3>5. \A y \in Overflow : own2[y] # Null => cnt'[y] > 0
      BY <1>1, <2>1, <2>4 DEF Chained, Block
    <3> QED BY <3>1, <3>2, <3>3, <3>4, <3>5 DEF Chained
  <2>8. Holds(own2, c)'
    BY <1>3, <1>5, <1>6 DEF Holds, Active
  <2>9. \A d \in Core \ {c} : Holds(own2, d)'
    <3>1. \A y \in Block : own[y] \notin {h, Null} =>
            own2[y] = own[y] /\ nxt'[y] = nxt[y] /\ cnt'[y] = cnt[y]
      BY <1>3, <2>1, <2>4
    <3> QED BY <1>1, <1>2, <1>6, <2>3, <3>1, Frame
  <2> QED BY <2>5, <2>6, <2>7, <2>8, <2>9 DEF Structure
<1>8. CASE ~Empties(c)
  <2>1. cnt' = [cnt EXCEPT ![x] = @ - 1] /\ UNCHANGED <<nxt, pool, mem>>
    BY <1>8 DEF Drop
  <2>2. x # h => cnt[x] > 1
    BY <1>3, <1>8 DEF Empties
  <2>3. cnt'[x] = cnt[x] - 1 /\ \A y \in Block \ {x} : cnt'[y] = cnt[y]
    BY <1>2, <1>3, <2>1 DEF TypeOK
  <2>4. TypeOK'
    <3>1. cnt[x] - 1 \in 0 .. ItemNum
      BY <1>3
    <3>2. cnt' \in [Block -> 0 .. ItemNum]
      BY <1>2, <2>1, <3>1 DEF TypeOK
    <3> QED BY <1>2, <1>5, <1>6, <2>1, <3>2 DEF TypeOK
  <2>5. ChainFull'
    BY <1>2, <1>3, <2>1, <2>3 DEF ChainFull
  <2>6. Chained(own)'
    <3>1. \A y \in Overflow : own[y] # Null => cnt'[y] > 0
      <4> SUFFICES ASSUME NEW y \in Overflow, own[y] # Null
                   PROVE  cnt'[y] > 0
        OBVIOUS
      <4>1. CASE y = x
        <5>1. x # h
          BY <1>3, <4>1
        <5> QED BY <1>3, <2>2, <2>3, <4>1, <5>1
      <4>2. CASE y # x
        BY <1>1, <2>3, <4>2 DEF Chained, Block
      <4> QED BY <4>1, <4>2
    <3> QED BY <1>1, <2>1, <3>1 DEF Chained
  <2>7. Holds(own, c)'
    BY <1>3, <1>5, <1>6 DEF Holds, Active
  <2>8. \A d \in Core \ {c} : Holds(own, d)'
    <3>1. \A y \in Block : own[y] \notin {h, Null} =>
            own[y] = own[y] /\ nxt'[y] = nxt[y] /\ cnt'[y] = cnt[y]
      BY <1>3, <2>1, <2>3
    <3> QED BY <1>1, <1>2, <1>6, <3>1, Frame
  <2> QED BY <2>4, <2>5, <2>6, <2>7, <2>8 DEF Structure
<1> QED BY <1>7, <1>8

-----------------------------------------------------------------------------
(* Entering and leaving.                                                   *)

LEMMA BorderSteps ==
  ASSUME IInv, FreePosRule, NEW c \in Core,
         \/ \E k \in Calls : Begin(c, k)
         \/ Reject(c) \/ Lock(c) \/ Unlock(c) \/ Return(c)
  PROVE  TypeOK' /\ ChainFull' /\ Structure'
<1> USE HashTableAssumption
<1>1. PICK own \in Owner : Chained(own) /\ \A d \in Core : Holds(own, d)
  BY DEF IInv, Structure
<1>2. TypeOK /\ LockDiscipline /\ Serialised /\ ChainFull
  BY DEF IInv
<1>3. UNCHANGED <<nxt, cnt, mem, pool>>
  BY DEF Begin, Reject, Lock, Unlock, Return, heap
<1>4. \A d \in Core \ {c} :
        /\ pc'[d] = pc[d] /\ call'[d] = call[d] /\ cur'[d] = cur[d]
        /\ pre'[d] = pre[d] /\ slot'[d] = slot[d]
  BY <1>2 DEF TypeOK, Begin, Reject, Lock, Unlock, Return, heap, local, Goto
<1> SUFFICES TypeOK' /\ Holds(own, c)'
  BY <1>1, <1>2, <1>3, <1>4, Quiet
<1>5. ASSUME NEW k \in Calls, Begin(c, k)
      PROVE  TypeOK' /\ Holds(own, c)'
  <2>1. /\ pc' = [pc EXCEPT ![c] = "lock"]
        /\ call' = [call EXCEPT ![c] = k] /\ k \in Call
        /\ slot' = [slot EXCEPT ![c] = FreePos(k)]
        /\ res' = [res EXCEPT ![c] = "ok"]
        /\ UNCHANGED <<nxt, cnt, mem, pool, lock, cur, pre>>
    BY <1>5 DEF Begin, Goto, heap
  <2>2. \/ FreePos(k) = Null
        \/ /\ k.op = "insert" /\ ~AutoLock /\ k.hash \in Bucket
           /\ cnt[k.hash] < ItemNum /\ FreePos(k) = <<k.hash, cnt[k.hash] + 1>>
    <3> SUFFICES ASSUME FreePos(k) # Null
                 PROVE  /\ k.op = "insert" /\ ~AutoLock /\ k.hash \in Bucket
                        /\ cnt[k.hash] < ItemNum /\ FreePos(k) = <<k.hash, cnt[k.hash] + 1>>
      OBVIOUS
    <3>1. k.op = "insert" /\ k.at # "none"
      BY DEF FreePos
    <3>2. k.at = "head" /\ ~AutoLock
      BY <3>1 DEF FreePosRule
    <3>3. k.hash \in Bucket
      BY <2>1, <3>1, CallShape
    <3>4. cnt[k.hash] < ItemNum
      BY <1>5, <3>1, <3>2 DEF Begin, KnowsFreePos
    <3> QED BY <3>1, <3>2, <3>3, <3>4 DEF FreePos
  <2>3. FreePos(k) = Null \/ FreePos(k) \in Slot
    <3> SUFFICES ASSUME k.hash \in Bucket, cnt[k.hash] < ItemNum
                 PROVE  <<k.hash, cnt[k.hash] + 1>> \in Slot
      BY <2>2
    <3>1. k.hash \in Block /\ cnt[k.hash] \in 0 .. ItemNum
      BY <1>2 DEF TypeOK, Block
    <3> QED BY <3>1 DEF Slot
  <2>4. k.op = "show" => FreePos(k) = Null
    BY DEF FreePos
  <2>5. TypeOK'
    BY <1>2, <2>1, <2>3 DEF TypeOK, Location, Result
  <2>6. /\ pc'[c] = "lock" /\ call'[c] = k /\ slot'[c] = FreePos(k) /\ cnt' = cnt
    BY <1>2, <2>1 DEF TypeOK
  <2>7. Holds(own, c)'
    BY <2>2, <2>4, <2>6 DEF Holds, Active
  <2> QED BY <2>5, <2>7
<1>6. CASE Reject(c)
  <2>1. /\ pc' = [pc EXCEPT ![c] = "return"] /\ pc[c] = "lock"
        /\ UNCHANGED <<nxt, cnt, mem, pool, lock, call, cur, pre, slot, res>>
    BY <1>6 DEF Reject, Goto, heap, local
  <2>2. TypeOK'
    BY <1>2, <2>1 DEF TypeOK, Location
  <2>3. Holds(own, c)'
    BY <1>1, <1>2, <2>1 DEF TypeOK, Holds, Active
  <2> QED BY <2>2, <2>3
<1>7. CASE Lock(c)
  <2> DEFINE h == call[c].hash
  <2>1. /\ pc[c] = "lock" /\ call[c] \in Call
        /\ lock' = lock \/ lock' = [lock EXCEPT ![h] = c]
        /\ cur' = [cur EXCEPT ![c] = h] /\ pre' = [pre EXCEPT ![c] = h]
        /\ pc' = [pc EXCEPT ![c] = IF slot[c] = Null THEN "walk" ELSE "place"]
        /\ UNCHANGED <<nxt, cnt, mem, pool, call, slot, res>>
    BY <1>2, <1>7 DEF Lock, Goto, heap, TypeOK
  <2>2. h \in Bucket /\ h \in Block /\ own[h] = h
    <3>1. h \in Nat /\ (call[c].op # "search" => h \in Bucket)
      BY <2>1, CallShape
    <3>2. h \in Bucket
      BY <1>7, <3>1 DEF Lock, Rejected, Bucket
    <3> QED BY <1>1, <3>2 DEF Chained, Block
  <2>3. TypeOK'
    <3>1. lock' \in [Bucket -> Core \cup {Null}]
      BY <1>2, <2>1 DEF TypeOK
    <3>2. pc' \in [Core -> Location]
      BY <1>2, <2>1 DEF TypeOK, Location, Active
    <3> QED BY <1>2, <2>1, <2>2, <3>1, <3>2 DEF TypeOK
  <2>4. /\ pc'[c] = (IF slot[c] = Null THEN "walk" ELSE "place")
        /\ cur'[c] = h /\ pre'[c] = h
    BY <1>2, <2>1 DEF TypeOK
  <2>5. Holds(own, c)'
    BY <1>1, <2>1, <2>2, <2>4 DEF Holds, Active
  <2> QED BY <2>3, <2>5
<1>8. CASE Unlock(c)
  <2> DEFINE more == call[c].op = "show" /\ call[c].hash + 1 < BucketNum
  <2>1. /\ pc[c] = "unlock" /\ call[c] \in Call
        /\ lock' = lock \/ lock' = [lock EXCEPT ![call[c].hash] = Null]
        /\ UNCHANGED <<nxt, cnt, mem, pool, cur, pre, slot, res>>
    BY <1>2, <1>8 DEF Unlock, heap, TypeOK
  <2>2. /\ call' = IF more THEN [call EXCEPT ![c].hash = call[c].hash + 1] ELSE call
        /\ pc' = [pc EXCEPT ![c] = IF more THEN "lock" ELSE "return"]
    BY <1>8, Zenon DEF Unlock, Goto
  <2>3. /\ call' \in [Core -> Call \cup {Null}] /\ call'[c] \in Call
        /\ more => call[c].op = "show"
    <3>1. CASE more
      <4>1. [call[c] EXCEPT !.hash = @ + 1] \in Call
        BY <2>1, <3>1, CallShape
      <4>2. call' = [call EXCEPT ![c] = [call[c] EXCEPT !.hash = @ + 1]]
        BY <2>2, <3>1
      <4> HIDE DEF more
      <4> QED BY <1>2, <3>1, <4>1, <4>2 DEF TypeOK, more
    <3>2. CASE ~more
      BY <1>2, <2>1, <2>2, <3>2 DEF TypeOK
    <3> QED BY <3>1, <3>2
  <2>4. TypeOK'
    <3>1. lock' \in [Bucket -> Core \cup {Null}]
      BY <1>2, <2>1 DEF TypeOK
    <3>2. pc' \in [Core -> Location]
      BY <1>2, <2>2 DEF TypeOK, Location
    <3>3. \A d \in Core : pc'[d] # "idle" => call'[d] \in Call
      BY <1>2, <1>4, <2>3 DEF TypeOK
    <3> QED BY <1>2, <2>1, <2>3, <3>1, <3>2, <3>3 DEF TypeOK
  <2>5. pc'[c] \in {"lock", "return"} /\ (pc'[c] = "lock" => more)
    BY <1>2, <2>2 DEF TypeOK
  <2>6. more => slot[c] = Null
    BY <1>1, <2>1 DEF Holds
  <2>7. pc'[c] = "return" => call'[c] = call[c]
    BY <1>2, <2>2 DEF TypeOK
  <2>8. Holds(own, c)'
    BY <1>1, <2>1, <2>5, <2>6, <2>7 DEF Holds, Active
  <2> QED BY <2>4, <2>8
<1>9. CASE Return(c)
  <2>1. /\ pc' = [pc EXCEPT ![c] = "idle"] /\ call' = [call EXCEPT ![c] = Null]
        /\ cur' = [cur EXCEPT ![c] = Null] /\ pre' = [pre EXCEPT ![c] = Null]
        /\ slot' = [slot EXCEPT ![c] = Null] /\ res' = [res EXCEPT ![c] = "ok"]
        /\ UNCHANGED <<nxt, cnt, mem, pool, lock>>
    BY <1>9 DEF Return, Goto, heap
  <2>2. TypeOK'
    BY <1>2, <2>1 DEF TypeOK, Location, Result
  <2>3. Holds(own, c)'
    BY <1>2, <2>1 DEF TypeOK, Holds, Active
  <2> QED BY <2>2, <2>3
<1> QED BY <1>5, <1>6, <1>7, <1>8, <1>9

-----------------------------------------------------------------------------
(* The invariant and what follows from it.                                 *)

LEMMA InitInv ==
  ASSUME Init
  PROVE  IInv
<1> USE HashTableAssumption DEF Init
<1>1. TypeOK
  BY DEF TypeOK, Location, Result, Block
<1>2. LockDiscipline
  BY DEF LockDiscipline, Active
<1>3. Serialised /\ ChainFull
  BY DEF Serialised, ChainFull
<1>4. PICK own \in Owner : own = [x \in Block |-> IF x \in Bucket THEN x ELSE Null]
  BY DEF Owner
<1>5. Chained(own)
  BY <1>4 DEF Chained, Block
<1>6. \A c \in Core : Holds(own, c)
  BY DEF Holds, Active
<1> QED BY <1>1, <1>2, <1>3, <1>5, <1>6 DEF IInv, Structure

LEMMA StepInv ==
  ASSUME FreePosRule, IInv, [Next]_vars
  PROVE  IInv'
<1>1. LockDiscipline' /\ Serialised'
  BY LockStep DEF IInv, Structure, Holds
<1>2. CASE UNCHANGED vars
  <2>1. UNCHANGED <<nxt, cnt, mem, pool, lock, pc, call, cur, pre, slot, res>>
    BY <1>2 DEF vars
  <2>2. PICK own \in Owner : Chained(own) /\ \A d \in Core : Holds(own, d)
    BY DEF IInv, Structure
  <2>3. TypeOK' /\ ChainFull'
    BY <2>1 DEF IInv, TypeOK, ChainFull
  <2>4. Chained(own)' /\ \A d \in Core : Holds(own, d)'
    BY <2>1, <2>2 DEF Chained, Holds
  <2> QED BY <1>1, <2>3, <2>4 DEF IInv, Structure
<1>3. CASE Next
  <2>1. PICK c \in Core :
          \/ \E k \in Calls : Begin(c, k)
          \/ Reject(c) \/ Lock(c) \/ Work(c) \/ Unlock(c) \/ Return(c)
    BY <1>3, NextCases
  <2>2. CASE Work(c)
    <3>1. TypeOK' /\ ChainFull' /\ Structure'
      BY <2>2, WalkSteps, CountSteps, GrowStep, DropStep DEF Work
    <3> QED BY <1>1, <3>1 DEF IInv
  <2>3. CASE \/ \E k \in Calls : Begin(c, k)
             \/ Reject(c) \/ Lock(c) \/ Unlock(c) \/ Return(c)
    BY <1>1, <2>3, BorderSteps DEF IInv
  <2> QED BY <2>1, <2>2, <2>3
<1> QED BY <1>2, <1>3

\* The invariant holds in every behaviour, whatever the numbers of cores,
\* buckets, slots and overflow blocks.
THEOREM Invariance ==
  ASSUME FreePosRule
  PROVE  Spec => []IInv
<1>1. Init => IInv
  BY InitInv
<1>2. IInv /\ [Next]_vars => IInv'
  BY StepInv
<1> QED BY <1>1, <1>2, PTL DEF Spec

\* Types, and no block ever counts more entries than it has slots.
THEOREM TypeCorrect ==
  ASSUME FreePosRule
  PROVE  Spec => []TypeOK
<1>1. IInv => TypeOK
  BY DEF IInv
<1> QED BY <1>1, Invariance, PTL

\* A lock is held exactly by the core that is inside an operation on its
\* bucket: no path forgets the unlock and none unlocks another's lock.
THEOREM LocksReturned ==
  ASSUME FreePosRule
  PROVE  Spec => []LockDiscipline
<1>1. IInv => LockDiscipline
  BY DEF IInv
<1> QED BY <1>1, Invariance, PTL

\* Only the last block of a chain has free slots.
THEOREM ChainsFull ==
  ASSUME FreePosRule
  PROVE  Spec => []ChainFull
<1>1. IInv => ChainFull
  BY DEF IInv
<1> QED BY <1>1, Invariance, PTL

\* Every block is on one chain at most, free blocks are on none, and each core
\* stands on blocks of the bucket that it works on.
THEOREM ChainsDisjoint ==
  ASSUME FreePosRule
  PROVE  Spec => []Structure
<1>1. IInv => Structure
  BY DEF IInv
<1> QED BY <1>1, Invariance, PTL

\* No step writes to a free block.
THEOREM FreeBlocksUntouched ==
  ASSUME FreePosRule
  PROVE  Spec => NoWriteAfterFree
<1> DEFINE Untouched ==
      \A x \in pool \cap pool' :
        nxt'[x] = nxt[x] /\ cnt'[x] = cnt[x] /\ mem'[x] = mem[x]
<1>1. ASSUME IInv, [Next]_vars
      PROVE  [Untouched]_vars
  <2> SUFFICES ASSUME Next PROVE Untouched
    BY <1>1
  <2>1. PICK own \in Owner : Chained(own) /\ \A d \in Core : Holds(own, d)
    BY <1>1 DEF IInv, Structure
  <2>2. PICK c \in Core :
          \/ \E k \in Calls : Begin(c, k)
          \/ Reject(c) \/ Lock(c) \/ Work(c) \/ Unlock(c) \/ Return(c)
    BY NextCases
  <2>3. /\ TypeOK
        /\ \A x \in pool : x \in Block /\ own[x] = Null
    BY <1>1, <2>1 DEF IInv, TypeOK, Chained, Block
  <2>4. CASE ~Work(c)
    BY <2>2, <2>4 DEF Begin, Reject, Lock, Unlock, Return, heap
  <2>5. CASE Work(c)
    <3> DEFINE h == call[c].hash
    <3>1. h # Null /\ h \notin pool /\ pc[c] \in Active
      BY <2>1, <2>3, <2>5, WorkStays, HashTableAssumption DEF Holds, Chained, Block, TypeOK
    <3>2. pc[c] # "unlock" => own[cur[c]] = h /\ own[pre[c]] = h
      BY <2>1, <3>1 DEF Holds
    <3>3. pc[c] # "unlock" => cur[c] \notin pool /\ pre[c] \notin pool
      BY <2>3, <3>1, <3>2
    <3>4. pc[c] \in {"copy", "seek", "place"} => slot[c][1] \notin pool
      BY <2>1, <2>3, <3>1 DEF Holds
    <3> HIDE DEF h
    <3>5. CASE WalkOn(c) \/ EndOfChain(c) \/ Found(c) \/ NoSpace(c) \/ RemoveHit(c)
               \/ Seek(c)
      BY <3>5 DEF WalkOn, EndOfChain, Found, NoSpace, RemoveHit, Seek, heap
    <3>6. CASE InsertHit(c)
      BY <2>3, <3>3, <3>6 DEF InsertHit, TypeOK
    <3>7. CASE TakeSlot(c)
      BY <2>3, <3>3, <3>7 DEF TakeSlot, TypeOK
    <3>8. CASE Place(c)
      BY <2>3, <3>3, <3>4, <3>8 DEF Place, TypeOK
    <3>9. CASE Copy(c)
      BY <2>3, <3>4, <3>9 DEF Copy, TypeOK
    <3>10. CASE Move(c)
      BY <2>3, <3>4, <3>10 DEF Move, TypeOK
    <3>11. CASE Drop(c)
      BY <2>3, <3>3, <3>11 DEF Drop, TypeOK
    <3>12. CASE \E x \in Overflow : Grow(c, x)
      <4> PICK x \in Overflow : Grow(c, x)
        BY <3>12
      <4>1. /\ pool' = pool \ {x} /\ mem' = mem /\ pc[c] = "grow"
            /\ nxt' = [nxt EXCEPT ![pre[c]] = x, ![x] = Null]
            /\ cnt' = [cnt EXCEPT ![x] = 1]
        BY DEF Grow
      <4> QED BY <2>3, <3>3, <4>1 DEF TypeOK
    <3> QED BY <2>5, <3>5, <3>6, <3>7, <3>8, <3>9, <3>10, <3>11, <3>12 DEF Work
  <2> QED BY <2>4, <2>5
<1>2. IInv /\ [Next]_vars => [Untouched]_vars
  BY <1>1
<1> QED BY <1>2, Invariance, PTL DEF Spec, NoWriteAfterFree

-----------------------------------------------------------------------------
(* Locks come back.                                                        *)

\* How far a place inside an operation is from the unlock.
StepsLeft ==
  [l \in Active |->
     CASE l = "walk" -> 4
       [] l = "seek" -> 3
       [] l \in {"grow", "place", "drop"} -> 2
       [] l = "copy" -> 1
       [] l = "unlock" -> 0]

\* Inside an operation no step leads to a place further from the unlock than
\* the one before: a core that moves on comes nearer to it or, behind it, has
\* given its lock back, on the error paths as well.
HoldersComeNearer ==
  \A c \in Core :
    pc[c] \in Active /\ pc'[c] # pc[c] =>
      IF pc'[c] \in Active THEN StepsLeft[pc'[c]] < StepsLeft[pc[c]]
      ELSE pc[c] = "unlock" /\ (AutoLock => lock'[call[c].hash] = Null)

\* A lock that is held is given back by its holder, at the unlock of a call on
\* that bucket, before any other core has it.
OnlyHolderUnlocks ==
  \A b \in Bucket :
    lock[b] # Null /\ lock'[b] # lock[b] =>
      /\ lock'[b] = Null
      /\ \E c \in Core : lock[b] = c /\ pc[c] = "unlock" /\ call[c].hash = b

\* The safety half of LockReleased, for the loops see the ways of the walks.
HoldersGoOn == HoldersComeNearer /\ OnlyHolderUnlocks

\* The steps inside an operation lead towards its unlock.
LEMMA WorkComesNearer ==
  ASSUME NEW c \in Core, pc \in [Core -> Location], Work(c), pc'[c] # pc[c]
  PROVE  pc'[c] \in Active /\ StepsLeft[pc'[c]] < StepsLeft[pc[c]]
<1>0. /\ StepsLeft["walk"] = 4 /\ StepsLeft["seek"] = 3
      /\ StepsLeft["grow"] = 2 /\ StepsLeft["place"] = 2 /\ StepsLeft["drop"] = 2
      /\ StepsLeft["copy"] = 1 /\ StepsLeft["unlock"] = 0
  BY DEF StepsLeft, Active
<1>1. pc'[c] \in Active
  BY WorkStays
<1>2. CASE WalkOn(c) \/ EndOfChain(c) \/ Found(c) \/ InsertHit(c) \/ TakeSlot(c)
           \/ RemoveHit(c)
  <2>1. pc[c] = "walk" /\ pc'[c] \in {"grow", "unlock", "copy", "seek"}
    BY <1>2 DEF WalkOn, EndOfChain, Found, InsertHit, TakeSlot, RemoveHit, Goto
  <2> QED BY <1>0, <1>1, <2>1
<1>3. CASE Place(c) \/ NoSpace(c) \/ \E x \in Overflow : Grow(c, x)
  <2>1. pc[c] \in {"grow", "place"} /\ pc'[c] \in {"unlock", "copy"}
    BY <1>3 DEF Place, NoSpace, Grow, Goto
  <2> QED BY <1>0, <1>1, <2>1
<1>4. CASE Copy(c) \/ Drop(c)
  <2>1. pc[c] \in {"copy", "drop"} /\ pc'[c] = "unlock"
    BY <1>4 DEF Copy, Drop, Goto
  <2> QED BY <1>0, <1>1, <2>1
<1>5. CASE Seek(c) \/ Move(c)
  <2>1. pc[c] = "seek" /\ pc'[c] = "drop"
    BY <1>5 DEF Seek, Move, Goto
  <2> QED BY <1>0, <1>1, <2>1
<1> QED BY <1>2, <1>3, <1>4, <1>5 DEF Work

\* Whoever holds a bucket's lock goes on to its unlock and gives it back, and
\* nobody else does: with WalksEndTheorem of HashContents_proofs, all that
\* LockReleased needs besides fairness.
THEOREM HoldersGoOnTheorem ==
  ASSUME FreePosRule
  PROVE  Spec => [][HoldersGoOn]_vars
<1>1. ASSUME IInv, Next
      PROVE  HoldersGoOn
  <2>1. PICK c \in Core :
          \/ \E k \in Calls : Begin(c, k)
          \/ Reject(c) \/ Lock(c) \/ Work(c) \/ Unlock(c) \/ Return(c)
    BY <1>1, NextCases
  <2>2. /\ pc \in [Core -> Location] /\ lock \in [Bucket -> Core \cup {Null}]
        /\ Null \notin Core
    BY <1>1, HashTableAssumption DEF IInv, TypeOK
  <2>3. \A b \in Bucket, d \in Core :
          lock[b] = d <=> AutoLock /\ pc[d] \in Active /\ call[d].hash = b
    BY <1>1 DEF IInv, LockDiscipline
  <2>4. CASE Work(c)
    <3>1. UNCHANGED lock /\ \A d \in Core \ {c} : pc'[d] = pc[d]
      BY <2>2, <2>4, WorkStays
    <3>2. pc'[c] # pc[c] =>
            pc'[c] \in Active /\ StepsLeft[pc'[c]] < StepsLeft[pc[c]]
      BY <2>2, <2>4, WorkComesNearer
    <3> QED BY <3>1, <3>2 DEF HoldersGoOn, HoldersComeNearer, OnlyHolderUnlocks
  <2>5. CASE Unlock(c)
    <3>1. /\ pc[c] = "unlock" /\ pc'[c] \notin Active
          /\ \A d \in Core \ {c} : pc'[d] = pc[d]
          /\ lock' = IF AutoLock THEN [lock EXCEPT ![call[c].hash] = Null] ELSE lock
      BY <2>2, <2>5 DEF Unlock, Goto, Active
    <3>2. call[c].hash \in Bucket
      BY <1>1, <3>1 DEF IInv, Structure, Holds, Active
    <3>3. HoldersComeNearer
      BY <2>2, <3>1, <3>2 DEF HoldersComeNearer
    <3>4. OnlyHolderUnlocks
      BY <2>2, <2>3, <3>1, <3>2 DEF OnlyHolderUnlocks, Active
    <3> QED BY <3>3, <3>4 DEF HoldersGoOn
  <2>6. CASE Lock(c)
    <3>1. /\ pc[c] \notin Active
          /\ \A d \in Core \ {c} : pc'[d] = pc[d]
          /\ \A b \in Bucket : lock[b] # Null => lock'[b] = lock[b]
      BY <2>2, <2>6 DEF Lock, Goto, Active
    <3> QED BY <3>1 DEF HoldersGoOn, HoldersComeNearer, OnlyHolderUnlocks
  <2>7. CASE (\E k \in Calls : Begin(c, k)) \/ Reject(c) \/ Return(c)
    <3>1. /\ pc[c] \notin Active
          /\ \A d \in Core \ {c} : pc'[d] = pc[d]
          /\ UNCHANGED lock
      BY <2>2, <2>7 DEF Begin, Reject, Return, Goto, Active, heap
    <3> QED BY <3>1 DEF HoldersGoOn, HoldersComeNearer, OnlyHolderUnlocks
  <2> QED BY <2>1, <2>4, <2>5, <2>6, <2>7
<1>2. IInv /\ [Next]_vars => [HoldersGoOn]_vars
  BY <1>1
<1> QED BY <1>2, Invariance, PTL DEF Spec
=============================================================================
