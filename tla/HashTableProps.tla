---------------------------- MODULE HashTableProps ----------------------------
(***************************************************************************)
(* What ewx_hash_table.c has to keep true while cores interleave in it.    *)
(***************************************************************************)
EXTENDS HashTable

\* What comes after block x, if anything does, is in S.
Leads(x, S) == nxt[x] # Null => nxt[x] \in S

\* The blocks after x on its chain: those in every set that has the successors of
\* x and of its own members.
Behind(x) ==
  LET linked == {S \in SUBSET Overflow : \A y \in S \cup {x} : Leads(y, S)}
  IN {y \in Overflow : \A S \in linked : y \in S}

\* The chain of bucket b, from its head.
Chain(b) == {b} \cup Behind(b)

\* Slots counted by valid_count that are not entries at the moment: the one an
\* insert is about to write, and the last one once a remove has moved it.
Transient ==
  {slot[c] : c \in {d \in Core : pc[d] = "copy"}}
    \cup {<<cur[c], cnt[cur[c]]>> : c \in {d \in Core : pc[d] = "drop"}}

Entries(b) ==
  (UNION {{x} \X (1 .. cnt[x]) : x \in Chain(b)}) \ Transient

At(s) == mem[s[1]][s[2]]

-----------------------------------------------------------------------------
(* Invariants.                                                             *)

\* Types; valid_count never exceeds item_num, so no entry lies past the end of
\* its block, and a core outside the library has no call.
TypeOK ==
  /\ nxt \in [Block -> Overflow \cup {Null}]
  /\ cnt \in [Block -> 0 .. ItemNum]
  /\ mem \in [Block -> [1 .. ItemNum -> Item \cup {Null}]]
  /\ pool \in SUBSET Overflow
  /\ lock \in [Bucket -> Core \cup {Null}]
  /\ pc \in [Core -> Location]
  /\ call \in [Core -> Call \cup {Null}]
  /\ cur \in [Core -> Block \cup {Null}]
  /\ pre \in [Core -> Block \cup {Null}]
  /\ slot \in [Core -> Slot \cup {Null}]
  /\ res \in [Core -> Result]
  /\ \A c \in Core : pc[c] # "idle" => call[c] \in Call

\* The lock of a bucket is held by the core that is inside an operation on that
\* bucket and by nobody else: every way out of an operation, error paths and
\* the show loop included, gives back the one lock it took.
LockDiscipline ==
  \A b \in Bucket, c \in Core :
    lock[b] = c <=> AutoLock /\ pc[c] \in Active /\ call[c].hash = b

\* Every block but the last of a chain is full.  insert relies on it: it stops
\* looking for an equal item at the first block that has room.
ChainFull == \A x \in Block : nxt[x] # Null => cnt[x] = ItemNum

\* A counted entry is an item somebody inserted, never an uninitialised or a
\* freed slot, and a chained block has at least one.
NoHoles ==
  \A b \in Bucket :
    /\ \A s \in Entries(b) : At(s) \in Item
    /\ \A x \in Chain(b) \ {b} : cnt[x] > 0

\* An overflow block is on one chain at most and then not free; if every remove
\* passes bucket_free, no block is lost.
BlocksAccounted ==
  /\ \A b \in Bucket : Chain(b) \cap pool = {}
  /\ \A b1, b2 \in Bucket : b1 # b2 => Chain(b1) \cap Chain(b2) = {}
  /\ (\A k \in Calls : k.op = "remove" => k.free) =>
       Overflow \subseteq pool \cup UNION {Chain(b) : b \in Bucket}

\* Every insert into bucket b looks for an equal item and is content with it.
Compares(b) ==
  \A k \in Calls :
    k.op = "insert" /\ k.hash = b => k.cmp /\ k.cb # "again" /\ k.at = "none"

\* In a bucket where every insert compares, a key is stored at most once.
UniqueKeys ==
  \A b \in Bucket :
    Compares(b) =>
      \A s, t \in Entries(b) : s # t => KeyOf[At(s)] # KeyOf[At(t)]

\* valid_count is "the number of items in this bucket" (ewx_hash_table.h:24), and
\* no block has room for more than item_num.
CountWithinBlock == \A x \in Block : cnt[x] <= ItemNum

\* "!= NULL: the pointer to the matching item" (ewx_hash_table.h:130): what
\* search returns points to a stored item with the key searched for.
SearchReturnsMatch ==
  \A c \in Core :
    pc[c] = "return" /\ call[c].op = "search" /\ slot[c] # Null =>
      /\ \E b \in Bucket : slot[c] \in Entries(b)
      /\ Matches(At(slot[c]), call[c].this)

-----------------------------------------------------------------------------
(* Action property.                                                        *)

\* No step writes to a block that the allocator has back.
NoWriteAfterFree ==
  [][\A x \in pool \cap pool' :
       nxt'[x] = nxt[x] /\ cnt'[x] = cnt[x] /\ mem'[x] = mem[x]]_vars

-----------------------------------------------------------------------------
(* The inductive invariant.                                                *)

\* How free_pos_p may be used: on the head block, and by callers that serialise
\* their calls.  Under auto_lock a free position can be gone before the lock is
\* taken, and with it everything below.
FreePosRule ==
  \A k \in Calls :
    k.op = "insert" /\ k.at # "none" => k.at = "head" /\ ~AutoLock

\* How the compare callback of insert may be used: with an insert callback that
\* says what becomes of an equal item.  Without one ewx_hash_table_insert stores
\* nothing and still returns 0 (ewx_hash_table.c:144), which its header calls
\* inserted: for such a call Linearizable is false.
EqualAnswered ==
  \A k \in Calls :
    k.op = "insert" /\ k.cmp /\ k.at = "none" => k.cb # "null"

\* Without auto_lock, calls that may touch the same bucket exclude each other.
Serialised ==
  \A c, d \in Core :
    ~AutoLock /\ c # d /\ pc[c] # "idle" /\ pc[d] # "idle" =>
      ~Overlap(call[c], call[d])

\* own says which bucket's chain a block is on, Null for a block on none.
Owner == [Block -> Bucket \cup {Null}]

Chained(own) ==
  /\ \A b \in Bucket : own[b] = b
  /\ \A x \in pool : own[x] = Null
  /\ \A x \in Block : nxt[x] # Null => own[x] # Null /\ own[nxt[x]] = own[x]
  /\ \A x, y \in Block : nxt[x] # Null /\ nxt[x] = nxt[y] => x = y
  /\ \A x \in Overflow : own[x] # Null => cnt[x] > 0

\* What a core inside an operation knows of its local variables.
Holds(own, c) ==
  LET h == call[c].hash
  IN /\ pc[c] \in Active => h \in Bucket
     /\ pc[c] \in Active \ {"unlock"} =>
          cur[c] \in Block /\ own[cur[c]] = h /\ pre[c] \in Block /\ own[pre[c]] = h
     /\ pc[c] \in {"walk", "seek", "drop"} =>
          cur[c] = h \/ nxt[pre[c]] = cur[c]
     /\ pc[c] = "grow" => nxt[pre[c]] = Null /\ cnt[pre[c]] = ItemNum
     /\ pc[c] \in {"seek", "drop"} => cnt[cur[c]] > 0
     /\ pc[c] = "drop" => nxt[cur[c]] = Null
     /\ pc[c] \in {"copy", "seek"} => slot[c] \in Slot /\ own[slot[c][1]] = h
     /\ pc[c] \in {"grow", "copy"} => call[c].op = "insert"
     /\ pc[c] = "place" => cur[c] = h
     /\ pc[c] # "idle" /\ call[c].op = "show" => slot[c] = Null
     /\ pc[c] = "place" \/ (pc[c] = "lock" /\ slot[c] # Null) =>
          /\ ~AutoLock /\ call[c].op = "insert"
          /\ cnt[h] < ItemNum /\ slot[c] = <<h, cnt[h] + 1>>

\* Where the chains are and where each core stands on them.
Structure ==
  \E own \in Owner : Chained(own) /\ \A c \in Core : Holds(own, c)

-----------------------------------------------------------------------------
(* Liveness.                                                               *)

\* Whoever takes the lock of a bucket gives it back: no walk runs for ever and
\* none ends without the unlock.
LockReleased == \A b \in Bucket : lock[b] # Null ~> lock[b] = Null

-----------------------------------------------------------------------------
(* The promise of the table, module HashMultiset, as a function of its     *)
(* state.  A call takes effect with the step that decides its result.      *)

bag ==
  [b \in Bucket |->
    LET E == Entries(b)
    IN [it \in Item |-> Cardinality({s \in E : At(s) = it})]]

stage ==
  [c \in Core |->
    CASE pc[c] = "idle" -> "idle"
      [] pc[c] = "return" \/ (pc[c] \in {"unlock", "drop"} /\ call[c].op # "show")
           -> "applied"
      [] OTHER -> "called"]

ans ==
  [c \in Core |->
    IF stage[c] # "applied" THEN Null
    ELSE IF call[c].op = "search" /\ slot[c] = Null THEN "notfound"
    ELSE res[c]]

Multiset == INSTANCE HashMultiset WITH req <- call

\* Each call has its whole effect at one instant between its invocation and its
\* return, and returns what that instant calls for: cores that interleave block
\* by block cannot tell the table from a multiset.  True of callers that keep
\* FreePosRule and EqualAnswered.
Linearizable == Multiset!Spec
=============================================================================
