------------------------ MODULE HashContents_proofs ------------------------
(***************************************************************************)
(* What the chains of the hash table contain, for any number of cores,     *)
(* buckets, slots and blocks: no holes, no key twice where every insert    *)
(* compares, and no block lost; and that the table implements the multiset *)
(* of HashMultiset, each call at one instant.                              *)
(*                                                                         *)
(* A chain is the least set that is closed under the links, so its facts   *)
(* need no induction: a set that is closed is not smaller.  The number of  *)
(* a bucket's items is a sum over Item, which its step determines.         *)
(***************************************************************************)
EXTENDS HashTable_proofs, FiniteSetTheorems

Links == [Block -> Overflow \cup {Null}]

Closed(n, x, S) == \A y \in S \cup {x} : n[y] # Null => n[y] \in S

\* The blocks after x when the links are n.
After(n, x) == {y \in Overflow : \A S \in SUBSET Overflow : Closed(n, x, S) => y \in S}

\* Chains are made of the links of the state.
LEMMA ChainAfter ==
  /\ \A x : Behind(x) = After(nxt, x) /\ Behind(x)' = After(nxt', x)
  /\ \A b : Chain(b) = {b} \cup After(nxt, b) /\ Chain(b)' = {b} \cup After(nxt', b)
<1>1. \A x : Behind(x) = After(nxt, x)
  BY DEF Behind, Leads, After, Closed
<1>2. \A x : Behind(x)' = After(nxt', x)
  BY DEF Behind, Leads, After, Closed
<1> QED
  BY <1>1, <1>2 DEF Chain

\* They are closed, and a closed set is not smaller.
LEMMA AfterFacts ==
  ASSUME NEW n \in Links, NEW x \in Block
  PROVE  /\ After(n, x) \in SUBSET Overflow /\ Closed(n, x, After(n, x))
         /\ \A S \in SUBSET Overflow : Closed(n, x, S) => After(n, x) \subseteq S
         /\ n[x] = Null => After(n, x) = {}
<1>1. After(n, x) \in SUBSET Overflow
  BY DEF After
<1>2. \A S \in SUBSET Overflow : Closed(n, x, S) => After(n, x) \subseteq S
  BY DEF After
<1>3. ASSUME NEW y \in After(n, x) \cup {x}, n[y] # Null PROVE n[y] \in After(n, x)
  <2>1. y \in Block
    BY <1>1 DEF Block
  <2>2. n[y] \in Overflow
    BY <1>3, <2>1 DEF Links
  <2>3. ASSUME NEW S \in SUBSET Overflow, Closed(n, x, S) PROVE n[y] \in S
    <3>1. y \in S \cup {x}
      BY <1>2, <2>3
    <3> QED
      BY <1>3, <2>3, <3>1 DEF Closed
  <2> QED
    BY <2>2, <2>3 DEF After
<1>4. n[x] = Null => After(n, x) = {}
  <2>1. n[x] = Null => Closed(n, x, {})
    BY DEF Closed
  <2> QED
    BY <1>2, <2>1
<1> QED
  BY <1>1, <1>2, <1>3, <1>4 DEF Closed

\* What comes after a block is its successor and what comes after that.
LEMMA AfterNext ==
  ASSUME NEW n \in Links, NEW x \in Block, n[x] # Null
  PROVE  n[x] \in Overflow /\ After(n, x) = {n[x]} \cup After(n, n[x])
<1> DEFINE y == n[x]
<1>1. y \in Overflow /\ y \in Block /\ y # Null
  BY DEF Links, Block
<1>2. /\ After(n, y) \in SUBSET Overflow /\ Closed(n, y, After(n, y))
      /\ After(n, x) \in SUBSET Overflow /\ Closed(n, x, After(n, x))
  BY <1>1, AfterFacts
<1>3. After(n, x) \subseteq {y} \cup After(n, y)
  <2>1. Closed(n, x, {y} \cup After(n, y))
    BY <1>2 DEF Closed
  <2>2. {y} \cup After(n, y) \in SUBSET Overflow
    BY <1>1, <1>2
  <2> QED
    BY <2>1, <2>2, AfterFacts
<1>4. y \in After(n, x)
  BY <1>1, <1>2 DEF Closed
<1>5. After(n, y) \subseteq After(n, x)
  <2>1. Closed(n, y, After(n, x))
    BY <1>2, <1>4 DEF Closed
  <2> QED
    BY <1>1, <1>2, <2>1, AfterFacts
<1> QED
  BY <1>1, <1>3, <1>4, <1>5

\* Links that are not changed.
LEMMA AfterSame ==
  ASSUME NEW n \in Links, NEW m \in Links, NEW x \in Block,
         \A y \in {x} \cup After(n, x) : m[y] = n[y]
  PROVE  After(m, x) = After(n, x)
<1>1. /\ After(n, x) \in SUBSET Overflow /\ Closed(n, x, After(n, x))
      /\ After(m, x) \in SUBSET Overflow /\ Closed(m, x, After(m, x))
  BY AfterFacts
<1>2. After(m, x) \subseteq After(n, x)
  <2>1. Closed(m, x, After(n, x))
    BY <1>1 DEF Closed
  <2> QED
    BY <1>1, <2>1, AfterFacts
<1>3. After(n, x) \subseteq After(m, x)
  <2>1. Closed(n, x, After(m, x))
    BY <1>1, <1>2 DEF Closed
  <2> QED
    BY <1>1, <2>1, AfterFacts
<1> QED
  BY <1>2, <1>3

\* A block x without successor is linked behind p, the last of the chain.
LEMMA AfterLink ==
  ASSUME NEW n \in Links, NEW m \in Links, NEW b \in Block, NEW p \in {b} \cup After(n, b),
         NEW x \in Overflow, n[p] = Null, n[x] = Null, x # p,
         m[p] = x, m[x] = Null, \A y \in Block : y \notin {p, x} => m[y] = n[y]
  PROVE  After(m, b) = After(n, b) \cup {x}
<1>1. /\ After(n, b) \in SUBSET Overflow /\ Closed(n, b, After(n, b))
      /\ After(m, b) \in SUBSET Overflow /\ Closed(m, b, After(m, b))
  BY AfterFacts
<1>2. p \in Block /\ x \in Block /\ x # Null
  BY <1>1, HashTableAssumption DEF Block
<1>3. m[p] = x /\ m[x] = Null /\ \A y \in Block : y # p => m[y] = n[y]
  OBVIOUS
<1>4. After(m, b) \subseteq After(n, b) \cup {x}
  <2>1. Closed(m, b, After(n, b) \cup {x})
    BY <1>1, <1>3 DEF Closed, Block
  <2>2. After(n, b) \cup {x} \in SUBSET Overflow
    BY <1>1
  <2> QED
    BY <2>1, <2>2, AfterFacts
<1>5. After(n, b) \subseteq After(m, b)
  <2>1. Closed(n, b, After(m, b))
    BY <1>1, <1>3 DEF Closed, Block
  <2> QED
    BY <1>1, <2>1, AfterFacts
<1>6. x \in After(m, b)
  BY <1>1, <1>2, <1>3, <1>5 DEF Closed
<1> QED
  BY <1>4, <1>5, <1>6

\* The last block x is cut off behind p.
LEMMA AfterCut ==
  ASSUME NEW n \in Links, NEW m \in Links, NEW b \in Block, NEW p \in Block,
         NEW x \in Overflow, n[p] = x, n[x] = Null,
         \A y \in Block : n[y] = x => y = p,
         m[p] = Null, \A y \in Block : y # p => m[y] = n[y]
  PROVE  After(m, b) = After(n, b) \ {x}
<1>1. /\ After(n, b) \in SUBSET Overflow /\ Closed(n, b, After(n, b))
      /\ After(m, b) \in SUBSET Overflow /\ Closed(m, b, After(m, b))
  BY AfterFacts
<1>2. m[p] = Null /\ \A y \in Block : y # p => m[y] = n[y]
  OBVIOUS
<1>3. After(m, b) \subseteq After(n, b) \ {x}
  <2>1. Closed(m, b, After(n, b) \ {x})
    BY <1>1, <1>2 DEF Closed, Block
  <2>2. After(n, b) \ {x} \in SUBSET Overflow
    BY <1>1
  <2> QED
    BY <2>1, <2>2, AfterFacts
<1>4. After(n, b) \subseteq After(m, b) \cup {x}
  <2>1. Closed(n, b, After(m, b) \cup {x})
    BY <1>1, <1>2 DEF Closed, Block
  <2>2. After(m, b) \cup {x} \in SUBSET Overflow
    BY <1>1
  <2> QED
    BY <2>1, <2>2, AfterFacts
<1> QED
  BY <1>3, <1>4

-----------------------------------------------------------------------------
(* The invariant.                                                          *)

\* Counted entries are items.
Filled == \A b \in Bucket : \A s \in Entries(b) : At(s) \in Item

\* No block is lost if every remove gives its block back.
Kept ==
  (\A k \in Calls : k.op = "remove" => k.free) =>
    \A x \in Overflow : x \in pool \/ \E b \in Bucket : x \in Chain(b)

\* The entries of bucket b outside S differ from it.
Lacks(b, S, it) == \A s \in Entries(b) : s[1] \notin S => ~Matches(At(s), it)

\* A call that looks for an equal item and does not ask for a second one.
Compared(k) == k.op \in {"search", "remove"} \/ (k.op = "insert" /\ k.cmp /\ k.cb # "again")

\* Where a core stands, and what it knows of the entries it has passed.
Track(c) ==
  LET k == call[c]
      h == call[c].hash
  IN /\ pc[c] # "idle" /\ k.op # "show" => k \in Calls
     /\ pc[c] = "place" \/ (pc[c] = "lock" /\ slot[c] # Null) => k.at # "none"
     /\ pc[c] \in {"walk", "grow", "seek", "drop"} => cur[c] \in Chain(h) /\ pre[c] \in Chain(h)
     /\ pc[c] \in {"seek", "drop"} => k.op = "remove"
     /\ pc[c] = "walk" /\ Compared(k) => Lacks(h, {cur[c]} \cup Behind(cur[c]), k.this)
     /\ pc[c] \in {"grow", "copy"} /\ Compared(k) /\ k.at = "none" => Lacks(h, {}, k.this)

CInv == Filled /\ UniqueKeys /\ Kept /\ \A c \in Core : Track(c)

\* A pair is an entry if its block is chained, its index counted, and no core is
\* about to write it or has just moved it.
LEMMA EntryShape ==
  ASSUME NEW b, NEW s
  PROVE  s \in Entries(b) <=>
           /\ \E x \in Chain(b) : \E i \in 1 .. cnt[x] : s = <<x, i>>
           /\ s \notin Transient
<1> DEFINE U == UNION {{x} \X (1 .. cnt[x]) : x \in Chain(b)}
<1>1. s \in U <=> \E x \in Chain(b) : \E i \in 1 .. cnt[x] : s = <<x, i>>
  OBVIOUS
<1>2. Entries(b) = U \ Transient
  BY DEF Entries
<1> HIDE DEF U
<1> QED
  BY <1>1, <1>2, Zenon

\* The same of the next state.
LEMMA EntryShapeNext ==
  ASSUME NEW b, NEW s
  PROVE  s \in Entries(b)' <=>
           /\ \E x \in Chain(b)' : \E i \in 1 .. cnt'[x] : s = <<x, i>>
           /\ s \notin Transient'
<1> DEFINE U == UNION {{x} \X (1 .. cnt'[x]) : x \in Chain(b)'}
<1>1. s \in U <=> \E x \in Chain(b)' : \E i \in 1 .. cnt'[x] : s = <<x, i>>
  OBVIOUS
<1>2. Entries(b)' = U \ Transient'
  BY DEF Entries
<1> HIDE DEF U
<1> QED
  BY <1>1, <1>2, Zenon

\* What core d contributes to the transient slots.
Moving(d) ==
  IF pc[d] = "copy" THEN {slot[d]} ELSE IF pc[d] = "drop" THEN {<<cur[d], cnt[cur[d]]>>} ELSE {}

\* Transient slots belong to cores.
LEMMA TransientShape ==
  /\ \A s : s \in Transient <=> \E d \in Core : s \in Moving(d)
  /\ \A s : s \in Transient' <=> \E d \in Core : s \in Moving(d)'
<1>1. \A s : s \in Transient <=> \E d \in Core : s \in Moving(d)
  BY DEF Transient, Moving
<1>2. \A s : s \in Transient' <=> \E d \in Core : s \in Moving(d)'
  BY DEF Transient, Moving
<1> QED
  BY <1>1, <1>2

\* Blocks of a chain belong to its bucket.
LEMMA ChainOwned ==
  ASSUME TypeOK, NEW own \in Owner, Chained(own), NEW b \in Bucket
  PROVE  /\ Chain(b) \subseteq Block /\ b \in Chain(b)
         /\ \A x \in Chain(b) : own[x] = b
<1> DEFINE S == {x \in Overflow : own[x] = b}
<1>1. nxt \in Links /\ b \in Block
  BY DEF TypeOK, Links, Block
<1>2. Closed(nxt, b, S)
  <2>1. ASSUME NEW y \in S \cup {b}, nxt[y] # Null PROVE nxt[y] \in S
    <3>1. y \in Block /\ own[y] = b
      BY DEF Block, Chained
    <3>2. nxt[y] \in Overflow
      BY <2>1, <3>1 DEF TypeOK
    <3>3. own[nxt[y]] = own[y]
      BY <2>1, <3>1 DEF Chained
    <3> QED
      BY <3>1, <3>2, <3>3
  <2> QED
    BY <2>1 DEF Closed
<1>3. After(nxt, b) \subseteq S
  BY <1>1, <1>2, AfterFacts
<1> QED
  BY <1>1, <1>3, ChainAfter DEF Block, Chained

\* What the chain of a bucket's block leads to is on the chain.
LEMMA ChainOn ==
  ASSUME TypeOK, NEW b \in Bucket, NEW x \in Chain(b), nxt[x] # Null
  PROVE  /\ nxt[x] \in Chain(b)
         /\ Behind(x) = {nxt[x]} \cup Behind(nxt[x])
<1>1. nxt \in Links /\ b \in Block
  BY DEF TypeOK, Links, Block
<1>2. Closed(nxt, b, After(nxt, b)) /\ After(nxt, b) \in SUBSET Overflow
  BY <1>1, AfterFacts
<1>3. nxt[x] \in Chain(b) /\ x \in Block
  BY <1>1, <1>2, ChainAfter DEF Closed, Block
<1>4. After(nxt, x) = {nxt[x]} \cup After(nxt, nxt[x])
  BY <1>1, <1>3, AfterNext
<1> QED
  BY <1>3, <1>4, ChainAfter

\* The last block of a chain leads nowhere.
LEMMA ChainEnd ==
  ASSUME TypeOK, NEW x \in Block, nxt[x] = Null
  PROVE  Behind(x) = {}
<1>1. nxt \in Links
  BY DEF TypeOK, Links
<1> QED
  BY <1>1, AfterFacts, ChainAfter

-----------------------------------------------------------------------------
(* Other buckets.                                                          *)

\* The other cores keep their local variables.
Alone(c) ==
  \A d \in Core \ {c} :
    /\ pc'[d] = pc[d] /\ call'[d] = call[d] /\ cur'[d] = cur[d]
    /\ pre'[d] = pre[d] /\ slot'[d] = slot[d]

\* Nothing changes in bucket b.
Untouched(b) ==
  /\ Chain(b)' = Chain(b) /\ Entries(b)' = Entries(b)
  /\ \A s \in Entries(b) : At(s)' = At(s)
  /\ \A x \in Chain(b) : Behind(x)' = Behind(x) /\ cnt'[x] = cnt[x]

\* Slot u is in use.
Counted(b, u) == u[1] \in Chain(b) /\ u[2] \in 1 .. cnt[u[1]]

\* What a step does to the entries of a bucket: nothing; entry u is rewritten;
\* entry u is new; entry u goes and the last one, l, takes its place.
Same(b) == Entries(b)' = Entries(b) /\ \A s \in Entries(b) : At(s)' = At(s)
Rewrites(b, u, it) ==
  /\ u \in Entries(b) /\ Entries(b)' = Entries(b)
  /\ \A s \in Entries(b) : At(s)' = IF s = u THEN it ELSE At(s)
Gains(b, u, it) ==
  /\ u \in Slot \ Entries(b) /\ Entries(b)' = Entries(b) \cup {u} /\ At(u)' = it
  /\ \A s \in Entries(b) : At(s)' = At(s)
Loses(b, u, l) ==
  /\ l \in Entries(b) /\ Entries(b)' = Entries(b) \ {l}
  /\ \A s \in Entries(b)' : At(s)' = IF s = u THEN At(l) ELSE At(s)

\* What a core does in its bucket h is not seen in another one.
LEMMA ElsewhereSame ==
  ASSUME TypeOK, TypeOK', NEW own \in Owner, Chained(own), \A d \in Core : Holds(own, d),
         NEW c \in Core, NEW h, Alone(c),
         \A x \in Block : own[x] \notin {h, Null} =>
           nxt'[x] = nxt[x] /\ cnt'[x] = cnt[x] /\ mem'[x] = mem[x],
         \A s \in Moving(c) \cup Moving(c)' : own[s[1]] \in {h, Null},
         NEW b \in Bucket, b # h
  PROVE  Untouched(b)
<1>1. /\ Chain(b) \subseteq Block /\ b \in Chain(b) /\ \A x \in Chain(b) : own[x] = b
      /\ b # Null /\ b \in Block
  BY ChainOwned, HashTableAssumption DEF Block
<1>2. \A x \in Chain(b) : nxt'[x] = nxt[x] /\ cnt'[x] = cnt[x] /\ mem'[x] = mem[x]
  BY <1>1
<1>3. nxt \in Links /\ nxt' \in Links
  BY DEF TypeOK, Links
<1>4. Closed(nxt, b, After(nxt, b))
  BY <1>1, <1>3, AfterFacts
<1>5. ASSUME NEW x \in Chain(b) PROVE Behind(x)' = Behind(x) /\ Behind(x) \subseteq Chain(b)
  <2>1. x \in Block
    BY <1>1
  <2>2. After(nxt, x) \subseteq After(nxt, b)
    <3>1. Closed(nxt, x, After(nxt, b))
      BY <1>4, <1>5, ChainAfter DEF Closed
    <3>2. After(nxt, b) \in SUBSET Overflow
      BY <1>1, <1>3, AfterFacts
    <3> QED
      BY <1>3, <2>1, <3>1, <3>2, AfterFacts
  <2>3. {x} \cup After(nxt, x) \subseteq Chain(b)
    BY <1>5, <2>2, ChainAfter
  <2>4. After(nxt', x) = After(nxt, x)
    BY <1>2, <1>3, <2>1, <2>3, AfterSame
  <2> QED
    BY <2>3, <2>4, ChainAfter
<1>6. Chain(b)' = Chain(b)
  <2>1. Behind(b)' = Behind(b)
    BY <1>1, <1>5
  <2> QED
    BY <2>1 DEF Chain
<1>7. ASSUME NEW x \in Chain(b), NEW i PROVE <<x, i>> \in Transient <=> <<x, i>> \in Transient'
  <2>1. <<x, i>>[1] = x /\ own[x] \notin {h, Null}
    BY <1>1
  <2>2. <<x, i>> \notin Moving(c) /\ <<x, i>> \notin Moving(c)'
    BY <2>1
  <2>3. ASSUME NEW d \in Core \ {c} PROVE <<x, i>> \in Moving(d) <=> <<x, i>> \in Moving(d)'
    <3>1. pc'[d] = pc[d] /\ cur'[d] = cur[d] /\ slot'[d] = slot[d]
      BY DEF Alone
    <3>2. CASE pc[d] = "drop"
      <4>1. cur[d] = x => cnt'[cur[d]] = cnt[cur[d]]
        BY <1>2
      <4> QED
        BY <3>1, <3>2, <4>1 DEF Moving
    <3>3. CASE pc[d] # "drop"
      BY <3>1, <3>3 DEF Moving
    <3> QED
      BY <3>2, <3>3
  <2> QED
    BY <2>2, <2>3, TransientShape
<1>8. ASSUME NEW s PROVE s \in Entries(b)' <=> s \in Entries(b)
  BY <1>2, <1>6, <1>7, EntryShape, EntryShapeNext
<1>9. ASSUME NEW s \in Entries(b) PROVE At(s)' = At(s)
  <2>1. PICK x \in Chain(b) : \E i \in 1 .. cnt[x] : s = <<x, i>>
    BY EntryShape
  <2> QED
    BY <1>2, <2>1 DEF At
<1> QED
  BY <1>2, <1>5, <1>6, <1>8, <1>9 DEF Untouched

\* A core whose bucket is untouched knows what it knew.
LEMMA OthersTrack ==
  ASSUME NEW c \in Core, Alone(c), NEW d \in Core \ {c}, Track(d),
         NEW h, h = call[d].hash, pc[d] \in Active => Untouched(h)
  PROVE  Track(d)'
<1>1. /\ pc'[d] = pc[d] /\ call'[d] = call[d] /\ cur'[d] = cur[d]
      /\ pre'[d] = pre[d] /\ slot'[d] = slot[d]
  BY DEF Alone
<1>3. CASE pc[d] \in Active
  <2>1. Untouched(h)
    BY <1>3
  <2>2. \A S, it : Lacks(h, S, it) => Lacks(h, S, it)'
    BY <1>1, <2>1 DEF Untouched, Lacks, Matches
  <2>3. cur[d] \in Chain(h) => ({cur[d]} \cup Behind(cur[d]))' = {cur[d]} \cup Behind(cur[d])
    <3>1. cur[d] \in Chain(h) => Behind(cur[d])' = After(nxt', cur[d])
      BY <1>1, ChainAfter
    <3>2. cur[d] \in Chain(h) => After(nxt', cur[d]) = Behind(cur[d])
      BY <2>1, ChainAfter DEF Untouched
    <3> QED
      BY <1>1, <3>1, <3>2
  <2>4. Chain(h)' = Chain(h)
    BY <1>1, <2>1, ChainAfter DEF Untouched
  <2> QED
    BY <1>1, <2>2, <2>3, <2>4 DEF Track
<1>4. CASE pc[d] \notin Active
  BY <1>1, <1>4 DEF Track, Active
<1> QED
  BY <1>3, <1>4

\* A step that changes no link, no count and moves no entry leaves the entries
\* where they are.
LEMMA StillEntries ==
  ASSUME NEW c \in Core, Alone(c), UNCHANGED <<nxt, cnt>>,
         pc[c] \notin {"copy", "drop"}, pc'[c] \notin {"copy", "drop"}
  PROVE  /\ \A b : Chain(b)' = Chain(b) /\ Entries(b)' = Entries(b)
         /\ \A x : Behind(x)' = Behind(x)
<1>1. \A b : Chain(b)' = Chain(b) /\ \A x : Behind(x)' = Behind(x)
  BY ChainAfter
<1>2. \A s : s \in Transient <=> s \in Transient'
  <2>1. Moving(c) = {} /\ Moving(c)' = {}
    BY DEF Moving
  <2>2. \A d \in Core \ {c} : Moving(d)' = Moving(d)
    BY DEF Moving, Alone
  <2> QED
    BY <2>1, <2>2, TransientShape
<1>3. ASSUME NEW b PROVE Entries(b)' = Entries(b)
  <2>1. \A s : s \in Entries(b)' <=> s \in Entries(b)
    BY <1>1, <1>2, EntryShape, EntryShapeNext
  <2> QED
    BY <2>1, Zenon
<1> QED
  BY <1>1, <1>3

\* If it leaves all blocks alone, it changes no contents.
LEMMA QuietSame ==
  ASSUME NEW c \in Core, Alone(c), UNCHANGED <<nxt, cnt, mem, pool>>,
         pc[c] \notin {"copy", "drop"}, pc'[c] \notin {"copy", "drop"}
  PROVE  /\ \A b : Chain(b)' = Chain(b) /\ Entries(b)' = Entries(b)
         /\ \A x : Behind(x)' = Behind(x)
         /\ \A s : At(s)' = At(s)
         /\ \A b, S, it : Lacks(b, S, it) => Lacks(b, S, it)'
<1>1. /\ \A b : Chain(b)' = Chain(b) /\ Entries(b)' = Entries(b)
      /\ \A x : Behind(x)' = Behind(x)
  BY StillEntries
<1>2. \A s : At(s)' = At(s)
  BY DEF At
<1>3. \A b, S, it : Lacks(b, S, it) => Lacks(b, S, it)'
  BY <1>1, <1>2 DEF Lacks, Matches
<1> QED
  BY <1>1, <1>2, <1>3

\* It keeps the invariant if its core knows what it has to.
LEMMA QuietContents ==
  ASSUME CInv, NEW c \in Core, Alone(c), UNCHANGED <<nxt, cnt, mem, pool>>,
         pc[c] \notin {"copy", "drop"}, pc'[c] \notin {"copy", "drop"}, Track(c)'
  PROVE  CInv'
<1>1. /\ \A b : Chain(b)' = Chain(b) /\ Entries(b)' = Entries(b)
      /\ \A x : Behind(x)' = Behind(x)
      /\ \A s : At(s)' = At(s)
  BY QuietSame
<1>2. Filled' /\ UniqueKeys'
  BY <1>1 DEF CInv, Filled, UniqueKeys, Compares
<1>3. Kept'
  BY <1>1 DEF CInv, Kept
<1>4. ASSUME NEW d \in Core \ {c} PROVE Track(d)'
  <2>1. PICK h : h = call[d].hash
    OBVIOUS
  <2>2. Untouched(h)
    BY <1>1 DEF Untouched
  <2>3. Track(d)
    BY DEF CInv
  <2> QED
    BY <2>1, <2>2, <2>3, OthersTrack
<1> QED
  BY <1>2, <1>3, <1>4 DEF CInv

\* A step inside an operation: its own bucket is looked at alone.
LEMMA Settled ==
  ASSUME IInv, TypeOK', CInv, NEW own \in Owner, Chained(own), \A d \in Core : Holds(own, d),
         NEW c \in Core, pc[c] \in Active \ {"unlock"}, Alone(c),
         NEW h, h = call[c].hash,
         \A x \in Block : own[x] \notin {h, Null} =>
           nxt'[x] = nxt[x] /\ cnt'[x] = cnt[x] /\ mem'[x] = mem[x],
         \A s \in Moving(c)' : own[s[1]] \in {h, Null},
         \A s \in Entries(h)' : At(s)' \in Item,
         Compares(h) =>
           \A s, t \in Entries(h)' : s # t => KeyOf[At(s)'] # KeyOf[At(t)'],
         Kept', Track(c)'
  PROVE  CInv'
<1>1. TypeOK /\ LockDiscipline /\ Serialised
  BY DEF IInv
<1>2. \A s \in Moving(c) : own[s[1]] \in {h, Null}
  BY DEF Holds, Moving
<1>3. \A b \in Bucket : b # h => Untouched(b)
  BY <1>1, <1>2, ElsewhereSame
<1>4. Filled'
  <2>1. ASSUME NEW b \in Bucket, NEW s \in Entries(b)' PROVE At(s)' \in Item
    <3>1. CASE b = h
      BY <2>1, <3>1
    <3>2. CASE b # h
      BY <1>3, <2>1, <3>2 DEF Untouched, CInv, Filled
    <3> QED
      BY <3>1, <3>2
  <2> QED
    BY <2>1 DEF Filled
<1>5. UniqueKeys'
  <2>1. ASSUME NEW b \in Bucket, Compares(b), NEW s \in Entries(b)', NEW t \in Entries(b)', s # t
        PROVE  KeyOf[At(s)'] # KeyOf[At(t)']
    <3>1. CASE b = h
      BY <2>1, <3>1
    <3>2. CASE b # h
      <4>1. /\ s \in Entries(b) /\ t \in Entries(b)
            /\ At(s)' = At(s) /\ At(t)' = At(t)
        BY <1>3, <2>1, <3>2 DEF Untouched
      <4> QED
        BY <2>1, <4>1 DEF CInv, UniqueKeys
    <3> QED
      BY <3>1, <3>2
  <2> QED
    BY <2>1 DEF UniqueKeys, Compares
<1>6. ASSUME NEW d \in Core \ {c} PROVE Track(d)'
  <2>1. PICK k : k = call[d].hash
    OBVIOUS
  <2>2. pc[d] \in Active => k \in Bucket /\ k # h
    BY <1>1, <2>1, Apart DEF Engaged
  <2>3. pc[d] \in Active => Untouched(k)
    BY <1>3, <2>2
  <2>4. Track(d)
    BY DEF CInv
  <2> QED
    BY <2>1, <2>3, <2>4, OthersTrack
<1> QED
  BY <1>4, <1>5, <1>6 DEF CInv

\* Entries that go, or stay as they are, break nothing.
LEMMA Shrinks ==
  ASSUME CInv, NEW h \in Bucket, \A s \in Entries(h)' : s \in Entries(h) /\ At(s)' = At(s)
  PROVE  /\ \A s \in Entries(h)' : At(s)' \in Item
         /\ Compares(h) =>
              \A s, t \in Entries(h)' : s # t => KeyOf[At(s)'] # KeyOf[At(t)']
         /\ \A it : Lacks(h, {}, it) => Lacks(h, {}, it)'
BY DEF CInv, Filled, UniqueKeys, Lacks, Matches

-----------------------------------------------------------------------------
(* Steps that leave the blocks alone.                                      *)

\* A block that a comparing call passes has no equal item.
LEMMA PassedLacks ==
  ASSUME TypeOK, NEW c \in Core, NEW h \in Bucket, h = call[c].hash, Track(c),
         pc[c] = "walk", Compared(call[c]), Passes(c) \/ TakeSlot(c)
  PROVE  Lacks(h, Behind(cur[c]), call[c].this)
<1>1. Hits(c) = {}
  BY DEF Compared, Passes, TakeSlot, StopsInsert
<1>2. \A i \in 1 .. cnt[cur[c]] : ~Matches(mem[cur[c]][i], call[c].this)
  BY <1>1 DEF Hits, Compared
<1>3. Lacks(h, {cur[c]} \cup Behind(cur[c]), call[c].this)
  BY DEF Track
<1> SUFFICES ASSUME NEW s \in Entries(h), s[1] \notin Behind(cur[c])
             PROVE  ~Matches(At(s), call[c].this)
  BY DEF Lacks
<1>4. CASE s[1] = cur[c]
  <2>1. PICK x \in Chain(h) : \E i \in 1 .. cnt[x] : s = <<x, i>>
    BY EntryShape
  <2> QED
    BY <1>2, <1>4, <2>1 DEF At
<1>5. CASE s[1] # cur[c]
  BY <1>3, <1>5 DEF Lacks
<1> QED
  BY <1>4, <1>5

\* Entering and leaving an operation.
LEMMA BorderContents ==
  ASSUME IInv, CInv, NEW c \in Core,
         \/ \E k \in Calls : Begin(c, k)
         \/ Reject(c) \/ Lock(c) \/ Unlock(c) \/ Return(c)
  PROVE  CInv'
<1>1. TypeOK
  BY DEF IInv
<1>2. Alone(c) /\ UNCHANGED <<nxt, cnt, mem, pool>>
  BY <1>1 DEF TypeOK, Alone, Begin, Reject, Lock, Unlock, Return, heap, local, Goto
<1>3. pc[c] \notin {"copy", "drop"} /\ pc'[c] \notin {"copy", "drop"}
  BY <1>1 DEF TypeOK, Begin, Reject, Lock, Unlock, Return, Goto
<1>4. Track(c)
  BY DEF CInv
<1> SUFFICES Track(c)'
  BY <1>2, <1>3, QuietContents
<1>5. ASSUME NEW k \in Calls, Begin(c, k) PROVE Track(c)'
  <2>1. /\ pc'[c] = "lock" /\ call'[c] = k /\ slot'[c] = FreePos(k)
    BY <1>1, <1>5 DEF TypeOK, Begin, Goto
  <2>2. FreePos(k) # Null => k.at # "none"
    BY DEF FreePos
  <2> QED
    BY <2>1, <2>2 DEF Track
<1>6. CASE Reject(c)
  <2>1. pc[c] = "lock" /\ pc'[c] = "return" /\ call'[c] = call[c]
    BY <1>1, <1>6 DEF TypeOK, Reject, Goto, local
  <2> QED
    BY <1>4, <2>1 DEF Track
<1>7. CASE Lock(c)
  <2>1. PICK h : h = call[c].hash
    OBVIOUS
  <2>2. /\ pc[c] = "lock" /\ call'[c] = call[c] /\ cur'[c] = h /\ pre'[c] = h
        /\ slot'[c] = slot[c]
        /\ pc'[c] = IF slot[c] = Null THEN "walk" ELSE "place"
    BY <1>1, <1>7, <2>1 DEF TypeOK, Lock, Goto
  <2>3. h \in Chain(h)' /\ \A it : Lacks(h, {h} \cup Behind(h), it)'
    <3>1. h \in Chain(h)' /\ \A b : Chain(b)' = {b} \cup Behind(b)'
      BY ChainAfter
    <3>2. \A s \in Entries(h)' : s[1] \in Chain(h)'
      BY EntryShapeNext
    <3> QED
      BY <3>1, <3>2 DEF Lacks
  <2>4. \A it : Lacks(h, {cur[c]} \cup Behind(cur[c]), it)'
    BY <2>2, <2>3
  <2> QED
    BY <1>4, <2>1, <2>2, <2>3, <2>4 DEF Track
<1>8. CASE Unlock(c)
  <2>1. /\ pc[c] = "unlock"
        /\ pc'[c] \in {"lock", "return"} /\ slot'[c] = slot[c]
    BY <1>1, <1>8 DEF TypeOK, Unlock, Goto
  <2>2. CASE call'[c] = call[c] /\ pc'[c] = "return"
    BY <1>4, <2>1, <2>2 DEF Track
  <2>3. CASE ~(call'[c] = call[c] /\ pc'[c] = "return")
    <3>1. call[c].op = "show" /\ call' = [call EXCEPT ![c].hash = @ + 1]
      BY <1>1, <1>8, <2>3 DEF TypeOK, Unlock, Goto
    <3>2. call[c] \in [op : {"show"}, hash : Bucket, show : BOOLEAN]
      BY <1>1, <2>1, <3>1 DEF TypeOK, Call
    <3>3. call'[c].op = "show"
      BY <1>1, <3>1, <3>2 DEF TypeOK
    <3>4. slot[c] = Null
      BY <2>1, <3>1, <1>1 DEF IInv, Structure, Holds
    <3> QED
      BY <2>1, <3>3, <3>4 DEF Track
  <2> QED
    BY <2>2, <2>3
<1>9. CASE Return(c)
  <2>1. pc'[c] = "idle"
    BY <1>1, <1>9 DEF TypeOK, Return, Goto
  <2> QED
    BY <2>1 DEF Track
<1> QED
  BY <1>5, <1>6, <1>7, <1>8, <1>9

\* Walking, not finding, and choosing the entry to remove.
LEMMA LookContents ==
  ASSUME IInv, CInv, NEW c \in Core,
         \/ WalkOn(c) \/ EndOfChain(c) \/ Found(c) \/ NoSpace(c)
         \/ RemoveHit(c) \/ Seek(c)
  PROVE  CInv'
<1>1. TypeOK /\ pc[c] \in {"walk", "grow", "seek"}
  BY DEF IInv, WalkOn, EndOfChain, Found, NoSpace, RemoveHit, Seek
<1>2. Alone(c) /\ UNCHANGED <<nxt, cnt, mem, pool>> /\ call'[c] = call[c]
  BY <1>1 DEF TypeOK, Alone, WalkOn, EndOfChain, Found, NoSpace, RemoveHit, Seek, heap, Goto
<1>3. pc[c] \notin {"copy", "drop"} /\ pc'[c] \in {"walk", "grow", "seek", "unlock"}
  BY <1>1 DEF TypeOK, WalkOn, EndOfChain, Found, NoSpace, RemoveHit, Seek, Goto
<1>4. Track(c)
  BY DEF CInv
<1> SUFFICES Track(c)'
  BY <1>2, <1>3, QuietContents
<1>5. PICK h : h = call[c].hash
  OBVIOUS
<1>6. h \in Bucket
  BY <1>1, <1>5 DEF IInv, Structure, Holds, Active
<1>7. /\ \A b : Chain(b)' = Chain(b)
      /\ \A x : Behind(x)' = Behind(x)
      /\ \A b, S, it : Lacks(b, S, it) => Lacks(b, S, it)'
  BY <1>2, <1>3, QuietSame
<1>8. cur[c] \in Chain(h) /\ pre[c] \in Chain(h)
  BY <1>1, <1>4, <1>5 DEF Track
<1>9. CASE WalkOn(c)
  <2>1. PICK y : y = nxt[cur[c]]
    OBVIOUS
  <2>2. /\ pc[c] = "walk" /\ Passes(c) /\ y # Null /\ pc'[c] = pc[c]
        /\ cur'[c] = y /\ pre'[c] = cur[c]
    BY <1>1, <1>9, <2>1 DEF WalkOn, TypeOK
  <2>3. y \in Chain(h) /\ Behind(cur[c]) = {y} \cup Behind(y)
    BY <1>1, <1>6, <1>8, <2>1, <2>2, ChainOn
  <2>4. Compared(call[c]) => Lacks(h, {y} \cup Behind(y), call[c].this)'
    <3> SUFFICES ASSUME Compared(call[c])
                 PROVE  Lacks(h, {y} \cup Behind(y), call[c].this)'
      OBVIOUS
    <3>1. Lacks(h, {y} \cup Behind(y), call[c].this)
      BY <1>1, <1>4, <1>5, <1>6, <2>2, <2>3, PassedLacks
    <3>2. \A S, it : Lacks(h, S, it) => Lacks(h, S, it)'
      BY <1>7
    <3> QED
      BY <1>2, <1>7, <3>1 DEF Lacks, At
  <2> QED
    BY <1>2, <1>4, <1>5, <1>7, <1>8, <2>2, <2>3, <2>4 DEF Track
<1>10. CASE EndOfChain(c)
  <2>1. /\ pc[c] = "walk" /\ Passes(c) /\ nxt[cur[c]] = Null
        /\ pc'[c] = IF call[c].op = "insert" THEN "grow" ELSE "unlock"
        /\ cur'[c] = cur[c] /\ pre'[c] = cur[c]
    BY <1>1, <1>10 DEF EndOfChain, TypeOK, Goto
  <2>2. Compared(call[c]) => Lacks(h, {}, call[c].this)'
    <3> SUFFICES ASSUME Compared(call[c])
                 PROVE  Lacks(h, {}, call[c].this)'
      OBVIOUS
    <3>1. cur[c] \in Block
      BY <1>1 DEF IInv, Structure, Holds, Active
    <3>2. Behind(cur[c]) = {}
      BY <1>1, <2>1, <3>1, ChainEnd
    <3>3. Lacks(h, Behind(cur[c]), call[c].this)
      BY <1>1, <1>4, <1>5, <1>6, <2>1, PassedLacks
    <3> QED
      BY <1>2, <1>7, <3>2, <3>3 DEF Lacks, At
  <2> QED
    BY <1>2, <1>4, <1>5, <1>7, <1>8, <2>1, <2>2 DEF Track
<1>11. CASE Found(c) \/ NoSpace(c)
  <2>1. pc'[c] = "unlock" /\ pc[c] # "idle"
    BY <1>1, <1>11 DEF Found, NoSpace, TypeOK, Goto
  <2> QED
    BY <1>2, <1>4, <2>1 DEF Track
<1>12. CASE RemoveHit(c)
  <2>1. /\ pc'[c] \in {"seek", "unlock"} /\ pc[c] = "walk" /\ call[c].op = "remove"
        /\ cur'[c] = cur[c] /\ pre'[c] = pre[c]
    BY <1>1, <1>12 DEF RemoveHit, TypeOK, Goto
  <2> QED
    BY <1>2, <1>4, <1>5, <1>7, <1>8, <2>1 DEF Track
<1>13. CASE Seek(c)
  <2>1. /\ pc'[c] = "seek" /\ pc[c] = "seek" /\ nxt[cur[c]] # Null
        /\ cur'[c] = nxt[cur[c]] /\ pre'[c] = cur[c]
    BY <1>1, <1>13 DEF Seek, TypeOK
  <2>2. nxt[cur[c]] \in Chain(h)
    BY <1>1, <1>6, <1>8, <2>1, ChainOn
  <2> QED
    BY <1>2, <1>4, <1>5, <1>7, <1>8, <2>1, <2>2 DEF Track
<1> QED
  BY <1>9, <1>10, <1>11, <1>12, <1>13

-----------------------------------------------------------------------------
(* Steps that write a block.                                               *)

\* A core inside an operation has its bucket to itself: what the others are about
\* to write or have moved is on other chains.
LEMMA OthersMove ==
  ASSUME IInv, NEW own \in Owner, Chained(own), \A d \in Core : Holds(own, d),
         NEW c \in Core, pc[c] \in Active, NEW h, h = call[c].hash,
         NEW x \in Block, own[x] \in {h, Null}, NEW i, NEW d \in Core \ {c}
  PROVE  <<x, i>> \notin Moving(d)
<1>1. TypeOK /\ LockDiscipline /\ Serialised /\ Holds(own, d)
  BY DEF IInv
<1>2. PICK k : k = call[d].hash
  OBVIOUS
<1>3. pc[d] \in Active => k \in Bucket /\ k # h /\ k # Null
  BY <1>1, <1>2, Apart, HashTableAssumption DEF Engaged, Block
<1>4. CASE pc[d] = "copy"
  <2>1. slot[d] \in Slot /\ own[slot[d][1]] = k
    BY <1>1, <1>2, <1>4 DEF Holds
  <2> QED
    BY <1>3, <1>4, <2>1 DEF Moving, Active
<1>5. CASE pc[d] = "drop"
  <2>1. own[cur[d]] = k
    BY <1>1, <1>2, <1>5 DEF Holds, Active
  <2> QED
    BY <1>3, <1>5, <2>1 DEF Moving, Active
<1>6. CASE pc[d] \notin {"copy", "drop"}
  BY <1>6 DEF Moving
<1> QED
  BY <1>4, <1>5, <1>6

\* In its own bucket a core sees only the slot that it is moving itself.
LEMMA OwnEntry ==
  ASSUME IInv, NEW own \in Owner, Chained(own), \A d \in Core : Holds(own, d),
         NEW c \in Core, pc[c] \in Active, Alone(c), NEW h, h = call[c].hash,
         \A y \in Block : own[y] \notin {h, Null} => cnt'[y] = cnt[y],
         NEW x \in Block, own[x] \in {h, Null}, NEW i
  PROVE  /\ <<x, i>> \in Transient <=> <<x, i>> \in Moving(c)
         /\ <<x, i>> \in Transient' <=> <<x, i>> \in Moving(c)'
<1>1. TypeOK /\ LockDiscipline /\ Serialised
  BY DEF IInv
<1>2. ASSUME NEW d \in Core \ {c}
      PROVE  <<x, i>> \notin Moving(d) /\ <<x, i>> \notin Moving(d)'
  <2>1. <<x, i>> \notin Moving(d)
    BY OthersMove
  <2>2. /\ pc'[d] = pc[d] /\ cur'[d] = cur[d] /\ slot'[d] = slot[d]
    BY DEF Alone
  <2>3. PICK k : k = call[d].hash
    OBVIOUS
  <2>4. CASE pc[d] = "drop"
    <3>1. k # h /\ k # Null
      BY <1>1, <2>3, <2>4, Apart, HashTableAssumption DEF Engaged, Active, Block
    <3>2. cur[d] \in Block /\ own[cur[d]] = k
      BY <2>3, <2>4 DEF Holds, Active
    <3> QED
      BY <2>2, <2>4, <3>1, <3>2 DEF Moving
  <2>5. CASE pc[d] # "drop"
    BY <2>1, <2>2, <2>5 DEF Moving
  <2> QED
    BY <2>1, <2>4, <2>5
<1> QED
  BY <1>2, TransientShape

\* What the steps that write a block have in common.
LEMMA WritesHere ==
  ASSUME IInv, NEW own \in Owner, Chained(own), \A d \in Core : Holds(own, d),
         NEW c \in Core,
         \/ InsertHit(c) \/ TakeSlot(c) \/ Place(c) \/ Copy(c)
         \/ (\E x \in Overflow : Grow(c, x)) \/ Move(c) \/ Drop(c)
  PROVE  /\ TypeOK /\ pc[c] \in Active \ {"unlock"} /\ Alone(c) /\ call'[c] = call[c]
         /\ call[c].hash \in Bucket /\ call[c] \in Call
         /\ cur[c] \in Block /\ own[cur[c]] = call[c].hash
         /\ pre[c] \in Block /\ own[pre[c]] = call[c].hash
         /\ \A y \in Block : own[y] \notin {call[c].hash, Null} =>
              nxt'[y] = nxt[y] /\ cnt'[y] = cnt[y] /\ mem'[y] = mem[y]
<1>1. TypeOK /\ pc[c] \in Active \ {"unlock"}
  BY DEF IInv, Active, InsertHit, TakeSlot, Place, Copy, Grow, Move, Drop
<1>2. Alone(c) /\ call'[c] = call[c]
  BY <1>1 DEF TypeOK, Alone, InsertHit, TakeSlot, Place, Copy, Grow, Move, Drop, Goto, local
<1>3. PICK h : h = call[c].hash
  OBVIOUS
<1>4. Holds(own, c)
  OBVIOUS
<1>5. /\ h \in Bucket /\ cur[c] \in Block /\ own[cur[c]] = h
      /\ pre[c] \in Block /\ own[pre[c]] = h /\ call[c] \in Call
  BY <1>1, <1>3, <1>4 DEF Holds, Active, TypeOK
<1>6. ASSUME NEW y \in Block, own[y] \notin {h, Null}
      PROVE  nxt'[y] = nxt[y] /\ cnt'[y] = cnt[y] /\ mem'[y] = mem[y]
  <2>1. y # cur[c] /\ y # pre[c]
    BY <1>5, <1>6
  <2>2. CASE InsertHit(c)
    BY <1>1, <1>6, <2>1, <2>2 DEF InsertHit, TypeOK
  <2>3. CASE TakeSlot(c)
    BY <1>1, <1>6, <2>1, <2>3 DEF TakeSlot, TypeOK
  <2>4. CASE Place(c)
    <3>1. pc[c] = "place"
      BY <2>4 DEF Place
    <3>2. slot[c][1] = h /\ h # y
      BY <1>3, <1>4, <1>5, <1>6, <3>1 DEF Holds, Chained
    <3> QED
      BY <1>1, <1>6, <2>1, <2>4, <3>2 DEF Place, TypeOK
  <2>5. CASE Copy(c) \/ Move(c)
    <3>1. pc[c] \in {"copy", "seek"}
      BY <2>5 DEF Copy, Move
    <3>2. slot[c][1] # y
      BY <1>3, <1>4, <1>6, <3>1 DEF Holds
    <3> QED
      BY <1>1, <1>6, <2>1, <2>5, <3>2 DEF Copy, Move, TypeOK
  <2>6. CASE \E x \in Overflow : Grow(c, x)
    <3>1. PICK x \in Overflow : Grow(c, x)
      BY <2>6
    <3>2. x # y
      BY <1>6, <3>1 DEF Grow, Chained
    <3> QED
      BY <1>1, <1>6, <2>1, <3>1, <3>2 DEF Grow, TypeOK
  <2>7. CASE Drop(c)
    BY <1>1, <1>6, <2>1, <2>7 DEF Drop, TypeOK
  <2> QED
    BY <2>2, <2>3, <2>4, <2>5, <2>6, <2>7
<1> QED
  BY <1>1, <1>2, <1>3, <1>5, <1>6

\* Two entries of a bucket do not share a block and an index, and an entry's
\* block and index are those of a slot.
LEMMA EntrySlot ==
  ASSUME TypeOK, NEW own \in Owner, Chained(own), NEW h \in Bucket, NEW s \in Entries(h)
  PROVE  /\ s \in Slot /\ s = <<s[1], s[2]>> /\ s[1] \in Chain(h) /\ own[s[1]] = h
         /\ s[2] \in 1 .. cnt[s[1]] /\ s[2] \in 1 .. ItemNum
<1>1. PICK x \in Chain(h) : \E i \in 1 .. cnt[x] : s = <<x, i>>
  BY EntryShape
<1>2. PICK i \in 1 .. cnt[x] : s = <<x, i>>
  BY <1>1
<1>3. x \in Block /\ own[x] = h
  BY ChainOwned
<1>4. cnt[x] \in 0 .. ItemNum /\ ItemNum \in Nat
  BY <1>3, HashTableAssumption DEF TypeOK
<1>5. i \in 1 .. ItemNum
  BY <1>4
<1> QED
  BY <1>2, <1>3, <1>5 DEF Slot

\* A write of one item leaves every other place as it is.
LEMMA OnePlace ==
  ASSUME TypeOK, NEW u \in Slot, NEW it, mem' = [mem EXCEPT ![u[1]][u[2]] = it],
         NEW s \in Slot
  PROVE  At(s)' = IF s = u THEN it ELSE At(s)
<1>1. /\ s = <<s[1], s[2]>> /\ s[1] \in Block /\ s[2] \in 1 .. ItemNum
      /\ u = <<u[1], u[2]>> /\ u[1] \in Block /\ u[2] \in 1 .. ItemNum
  BY DEF Slot
<1>2. At(s) = mem[s[1]][s[2]] /\ At(s)' = mem'[s[1]][s[2]]
  BY DEF At
<1>3. DOMAIN mem = Block /\ DOMAIN mem[u[1]] = 1 .. ItemNum
  BY <1>1 DEF TypeOK
<1>4. CASE s[1] # u[1]
  <2>1. mem'[s[1]] = mem[s[1]]
    BY <1>1, <1>3, <1>4
  <2> QED
    BY <1>2, <1>4, <2>1
<1>5. CASE s[1] = u[1]
  <2>1. mem'[s[1]] = [mem[u[1]] EXCEPT ![u[2]] = it]
    BY <1>1, <1>3, <1>5
  <2>2. CASE s[2] # u[2]
    <3>1. mem'[s[1]][s[2]] = mem[u[1]][s[2]]
      BY <1>1, <1>3, <2>1, <2>2
    <3> QED
      BY <1>2, <1>5, <2>2, <3>1
  <2>3. CASE s[2] = u[2]
    <3>1. mem'[s[1]][s[2]] = it
      BY <1>1, <1>3, <2>1, <2>3
    <3>2. s = u
      BY <1>1, <1>5, <2>3
    <3> QED
      BY <1>2, <3>1, <3>2
  <2> QED
    BY <2>2, <2>3
<1> QED
  BY <1>4, <1>5

\* A hit is an entry.
LEMMA HitEntry ==
  ASSUME IInv, CInv, NEW c \in Core, pc[c] = "walk", Hits(c) # {},
         NEW h, h = call[c].hash
  PROVE  /\ h \in Bucket /\ <<cur[c], Hit(c)>> \in Entries(h)
         /\ Matches(At(<<cur[c], Hit(c)>>), call[c].this)
<1>1. PICK own \in Owner : Chained(own) /\ \A d \in Core : Holds(own, d)
  BY DEF IInv, Structure
<1>2. PICK x : x = cur[c]
  OBVIOUS
<1>3. PICK i : i = Hit(c)
  OBVIOUS
<1>4. TypeOK /\ h \in Bucket /\ x \in Block /\ own[x] = h /\ x \in Chain(h)
  BY <1>1, <1>2 DEF CInv, Track, IInv, Holds, Active
<1>5. i \in 1 .. cnt[x] /\ Matches(mem[x][i], call[c].this)
  BY <1>2, <1>3, <1>4, HitIsHit DEF Hits
<1>6. \A s : s \in Transient => \E d \in Core : s \in Moving(d)
  BY TransientShape
<1>7. ASSUME NEW d \in Core PROVE <<x, i>> \notin Moving(d)
  <2>1. CASE d = c
    BY <2>1 DEF Moving
  <2>2. CASE d # c
    BY <1>1, <1>4, <2>2, OthersMove DEF Active
  <2> QED
    BY <2>1, <2>2
<1>8. <<x, i>> \in Entries(h)
  BY <1>4, <1>5, <1>6, <1>7, EntryShape
<1> QED
  BY <1>2, <1>3, <1>4, <1>5, <1>8 DEF At

\* An insert that finds an equal item rewrites it at most.
LEMMA RewriteContents ==
  ASSUME IInv, TypeOK', CInv, NEW c \in Core, InsertHit(c)
  PROVE  /\ CInv'
         /\ IF call[c].cb = "done"
            THEN Rewrites(call[c].hash, <<cur[c], Hit(c)>>, call[c].this)
            ELSE Same(call[c].hash)
<1>1. PICK own \in Owner : Chained(own) /\ \A d \in Core : Holds(own, d)
  BY DEF IInv, Structure
<1>2. PICK h : h = call[c].hash
  OBVIOUS
<1>3. /\ TypeOK /\ pc[c] \in Active \ {"unlock"} /\ Alone(c) /\ call'[c] = call[c]
      /\ h \in Bucket /\ call[c] \in Call /\ cur[c] \in Block /\ own[cur[c]] = h
      /\ \A y \in Block : own[y] \notin {h, Null} =>
           nxt'[y] = nxt[y] /\ cnt'[y] = cnt[y] /\ mem'[y] = mem[y]
  BY <1>1, <1>2, WritesHere
<1>4. /\ UNCHANGED <<nxt, cnt, pool>> /\ pc[c] = "walk" /\ pc'[c] = "unlock"
      /\ call[c].op = "insert" /\ Hits(c) # {}
      /\ mem' = IF call[c].cb = "done"
                THEN [mem EXCEPT ![cur[c]][Hit(c)] = call[c].this] ELSE mem
  BY <1>3 DEF InsertHit, StopsInsert, TypeOK, Goto
<1>5. /\ \A b : Chain(b)' = Chain(b) /\ Entries(b)' = Entries(b)
  BY <1>3, <1>4, StillEntries
<1>6. /\ Hit(c) \in 1 .. ItemNum /\ Matches(mem[cur[c]][Hit(c)], call[c].this)
      /\ call[c].this \in Item
  BY <1>3, <1>4, HitIsHit, CallShape DEF Hits
<1>7. ASSUME NEW s \in Entries(h)
      PROVE  /\ At(s)' \in Item /\ KeyOf[At(s)'] = KeyOf[At(s)]
             /\ At(s)' = IF call[c].cb = "done" /\ s = <<cur[c], Hit(c)>>
                        THEN call[c].this ELSE At(s)
  <2>1. s \in Slot /\ At(s) \in Item
    BY <1>1, <1>3, EntrySlot DEF CInv, Filled
  <2>2. PICK u : u = <<cur[c], Hit(c)>>
    OBVIOUS
  <2>3. u \in Slot /\ u[1] = cur[c] /\ u[2] = Hit(c) /\ At(u) = mem[cur[c]][Hit(c)]
    BY <1>3, <1>6, <2>2 DEF Slot, At
  <2>4. CASE call[c].cb = "done"
    <3>1. PICK it : it = call[c].this
      OBVIOUS
    <3>2. mem' = [mem EXCEPT ![u[1]][u[2]] = it]
      BY <1>4, <2>3, <2>4, <3>1
    <3>3. At(s)' = IF s = u THEN it ELSE At(s)
      BY <1>3, <2>1, <2>3, <3>2, OnePlace
    <3> QED
      BY <1>6, <2>1, <2>2, <2>3, <2>4, <3>1, <3>3 DEF Matches
  <2>5. CASE call[c].cb # "done"
    <3>1. At(s)' = At(s)
      BY <1>4, <2>5 DEF At
    <3> QED
      BY <2>1, <2>5, <3>1
  <2> QED
    BY <2>4, <2>5
<1>8. /\ \A s \in Entries(h)' : At(s)' \in Item
      /\ Compares(h) =>
           \A s, t \in Entries(h)' : s # t => KeyOf[At(s)'] # KeyOf[At(t)']
  BY <1>3, <1>5, <1>7 DEF CInv, UniqueKeys
<1>9. Kept'
  BY <1>4, <1>5 DEF CInv, Kept
<1>10. Track(c)' /\ Moving(c)' = {}
  BY <1>3, <1>4 DEF CInv, Track, Moving, Active
<1>11. CInv'
  BY <1>1, <1>2, <1>3, <1>8, <1>9, <1>10, Settled
<1>12. <<cur[c], Hit(c)>> \in Entries(h)
  BY <1>2, <1>4, HitEntry
<1>13. call[c].cb = "done" => Rewrites(h, <<cur[c], Hit(c)>>, call[c].this)
  BY <1>5, <1>7, <1>12 DEF Rewrites
<1>14. call[c].cb # "done" => Same(h)
  BY <1>5, <1>7 DEF Same
<1> QED
  BY <1>2, <1>11, <1>13, <1>14

\* A slot is counted before it is written: it is not an entry yet.
LEMMA CountContents ==
  ASSUME IInv, TypeOK', CInv, NEW c \in Core,
         TakeSlot(c) \/ (Place(c) /\ Proceeds(call[c]))
  PROVE  CInv' /\ Same(call[c].hash)
<1>1. PICK own \in Owner : Chained(own) /\ \A d \in Core : Holds(own, d)
  BY DEF IInv, Structure
<1>2. PICK h : h = call[c].hash
  OBVIOUS
<1>3. PICK x : x = cur[c]
  OBVIOUS
<1>4. /\ TypeOK /\ pc[c] \in Active \ {"unlock"} /\ Alone(c) /\ call'[c] = call[c]
      /\ h \in Bucket /\ call[c] \in Call /\ x \in Block /\ own[x] = h
      /\ \A y \in Block : own[y] \notin {h, Null} =>
           nxt'[y] = nxt[y] /\ cnt'[y] = cnt[y] /\ mem'[y] = mem[y]
  BY <1>1, <1>2, <1>3, WritesHere
<1>5. Track(c) /\ Holds(own, c)
  BY <1>1 DEF CInv
<1>6. /\ UNCHANGED <<nxt, mem, pool>> /\ pc[c] \in {"walk", "place"} /\ pc'[c] = "copy"
      /\ cnt' = [cnt EXCEPT ![x] = @ + 1] /\ cnt[x] \in Nat
      /\ slot'[c] = <<x, cnt[x] + 1>> /\ call[c].op = "insert"
  <2>1. CASE TakeSlot(c)
    BY <1>3, <1>4, <2>1 DEF TakeSlot, TypeOK, Goto
  <2>2. CASE Place(c) /\ Proceeds(call[c])
    <3>1. pc[c] = "place" /\ x = h
      BY <1>2, <1>3, <1>5, <2>2 DEF Place, Holds
    <3> QED
      BY <1>2, <1>3, <1>4, <1>5, <2>2, <3>1 DEF Place, Holds, TypeOK, Goto
  <2> QED
    BY <2>1, <2>2
<1>7. \A b : Chain(b)' = Chain(b)
  BY <1>6, ChainAfter
<1>8. cnt'[x] = cnt[x] + 1 /\ \A y \in Block : y # x => cnt'[y] = cnt[y]
  BY <1>4, <1>6 DEF TypeOK
<1>9. ASSUME NEW s \in Entries(h)' PROVE s \in Entries(h) /\ At(s)' = At(s)
  <2>1. PICK y \in Chain(h) : \E i \in 1 .. cnt'[y] : s = <<y, i>>
    BY <1>7, EntryShapeNext
  <2>2. PICK i \in 1 .. cnt'[y] : s = <<y, i>>
    BY <2>1
  <2>3. y \in Block /\ own[y] = h
    BY <1>1, <1>4, ChainOwned
  <2>4. s \notin Transient' /\ (s \in Transient <=> s \in Moving(c))
        /\ (s \in Transient' <=> s \in Moving(c)')
    BY <1>1, <1>2, <1>4, <2>2, <2>3, OwnEntry, EntryShapeNext
  <2>5. s # <<x, cnt[x] + 1>> /\ s \notin Transient
    BY <1>6, <2>4 DEF Moving
  <2>6. i \in 1 .. cnt[y]
    BY <1>6, <1>8, <2>2, <2>3, <2>5
  <2> QED
    BY <1>6, <2>2, <2>5, <2>6, EntryShape DEF At
<1>10. /\ \A s \in Entries(h)' : At(s)' \in Item
       /\ Compares(h) =>
            \A s, t \in Entries(h)' : s # t => KeyOf[At(s)'] # KeyOf[At(t)']
       /\ \A it : Lacks(h, {}, it) => Lacks(h, {}, it)'
  BY <1>4, <1>9, Shrinks
<1>11. Kept'
  BY <1>6, <1>7 DEF CInv, Kept
<1>12. ASSUME Compared(call[c]), call[c].at = "none" PROVE Lacks(h, {}, call[c].this)
  <2>1. TakeSlot(c) /\ pc[c] = "walk"
    BY <1>5, <1>12 DEF TakeSlot, Place, Track
  <2>2. cnt[x] # ItemNum /\ ~StopsInsert(c)
    BY <1>3, <2>1 DEF TakeSlot, HasRoom
  <2>3. nxt[x] = Null
    BY <1>4, <2>2 DEF IInv, ChainFull
  <2>4. Behind(x) = {}
    BY <1>4, <2>3, ChainEnd
  <2>5. Lacks(h, Behind(cur[c]), call[c].this)
    BY <1>2, <1>4, <1>5, <1>12, <2>1, PassedLacks
  <2> QED
    BY <1>3, <2>4, <2>5
<1>13. Track(c)'
  <2>1. Compared(call[c]) /\ call[c].at = "none" => Lacks(h, {}, call[c].this)'
    BY <1>4, <1>10, <1>12 DEF Lacks
  <2> QED
    BY <1>2, <1>4, <1>5, <1>6, <2>1 DEF Track
<1>14. \A s \in Moving(c)' : own[s[1]] \in {h, Null}
  BY <1>4, <1>6 DEF Moving
<1>15. ASSUME NEW s \in Entries(h) PROVE s \in Entries(h)'
  <2>1. PICK y \in Chain(h) : \E i \in 1 .. cnt[y] : s = <<y, i>>
    BY EntryShape
  <2>2. PICK i \in 1 .. cnt[y] : s = <<y, i>>
    BY <2>1
  <2>3. y \in Block /\ own[y] = h /\ cnt[y] \in Nat
    BY <1>1, <1>4, ChainOwned DEF TypeOK
  <2>4. s \in Transient' <=> s \in Moving(c)'
    BY <1>1, <1>2, <1>4, <2>2, <2>3, OwnEntry
  <2>5. s # <<x, cnt[x] + 1>>
    BY <1>6, <2>2, <2>3
  <2>6. s \notin Transient'
    BY <1>6, <2>4, <2>5 DEF Moving
  <2>7. i \in 1 .. cnt'[y]
    BY <1>8, <2>2, <2>3
  <2> QED
    BY <1>7, <2>1, <2>2, <2>6, <2>7, EntryShapeNext
<1>16. Same(h)
  <2>1. Entries(h)' = Entries(h)
    BY <1>9, <1>15
  <2> QED
    BY <1>9, <2>1 DEF Same
<1>17. CInv'
  BY <1>1, <1>2, <1>4, <1>10, <1>11, <1>13, <1>14, Settled
<1> QED
  BY <1>2, <1>16, <1>17

\* A callback that ends the insert at a free position leaves the slot uncounted.
LEMMA DeclineContents ==
  ASSUME IInv, TypeOK', CInv, NEW c \in Core, Place(c), ~Proceeds(call[c])
  PROVE  CInv' /\ Same(call[c].hash)
<1>1. PICK own \in Owner : Chained(own) /\ \A d \in Core : Holds(own, d)
  BY DEF IInv, Structure
<1>2. PICK h : h = call[c].hash
  OBVIOUS
<1>3. /\ TypeOK /\ pc[c] \in Active \ {"unlock"} /\ Alone(c) /\ call'[c] = call[c]
      /\ h \in Bucket
      /\ \A y \in Block : own[y] \notin {h, Null} =>
           nxt'[y] = nxt[y] /\ cnt'[y] = cnt[y] /\ mem'[y] = mem[y]
  BY <1>1, <1>2, WritesHere
<1>4. Track(c) /\ Holds(own, c) /\ pc[c] = "place"
  BY <1>1 DEF CInv, Place
<1>5. /\ UNCHANGED <<nxt, cnt, pool>> /\ pc'[c] = "unlock"
      /\ h \in Block /\ cnt[h] \in Nat
      /\ \A y \in Block, i \in 1 .. ItemNum :
           ~(y = h /\ i = cnt[h] + 1) => mem'[y][i] = mem[y][i]
  <2>1. slot[c] = <<h, cnt[h] + 1>> /\ h \in Block /\ cnt[h] \in Nat
    BY <1>2, <1>3, <1>4 DEF Holds, TypeOK, Block
  <2>2. /\ UNCHANGED <<nxt, cnt, pool>> /\ pc'[c] = "unlock"
        /\ mem' = mem \/ mem' = [mem EXCEPT ![slot[c][1]][slot[c][2]] = call[c].this]
    BY <1>3 DEF Place, TypeOK, Goto
  <2>3. mem' = mem \/ mem' = [mem EXCEPT ![h][cnt[h] + 1] = call[c].this]
    BY <2>1, <2>2
  <2>4. ASSUME NEW y \in Block, NEW i \in 1 .. ItemNum, ~(y = h /\ i = cnt[h] + 1)
        PROVE  mem'[y][i] = mem[y][i]
    <3>1. mem \in [Block -> [1 .. ItemNum -> Item \cup {Null}]]
      BY <1>3 DEF TypeOK
    <3>2. PICK j : j = cnt[h] + 1
      OBVIOUS
    <3>3. mem' = mem \/ mem' = [mem EXCEPT ![h] = [mem[h] EXCEPT ![j] = call[c].this]]
      BY <2>3, <3>2
    <3>4. mem[h] \in [1 .. ItemNum -> Item \cup {Null}]
      BY <2>1, <3>1
    <3>5. PICK f : f = [mem[h] EXCEPT ![j] = call[c].this]
      OBVIOUS
    <3>6. y = h => f[i] = mem[h][i]
      <4>1. y = h => i # j
        BY <2>4, <3>2
      <4> QED
        BY <3>4, <3>5, <4>1
    <3>7. mem' = mem \/ mem' = [mem EXCEPT ![h] = f]
      BY <3>3, <3>5
    <3> QED
      BY <2>1, <3>1, <3>6, <3>7
  <2> QED
    BY <2>1, <2>2, <2>4, Zenon
<1>6. \A b : Chain(b)' = Chain(b) /\ Entries(b)' = Entries(b)
  BY <1>3, <1>4, <1>5, StillEntries
<1>7. ASSUME NEW s \in Entries(h)' PROVE s \in Entries(h) /\ At(s)' = At(s)
  <2>1. s \in Entries(h)
    BY <1>6
  <2>2. s \in Slot /\ s[2] \in 1 .. cnt[s[1]]
    BY <1>1, <1>3, <2>1, EntrySlot
  <2>3. ~(s[1] = h /\ s[2] = cnt[h] + 1)
    BY <1>5, <2>2
  <2> QED
    BY <1>3, <1>5, <2>1, <2>2, <2>3 DEF At, Slot, TypeOK
<1>8. /\ \A s \in Entries(h)' : At(s)' \in Item
      /\ Compares(h) =>
           \A s, t \in Entries(h)' : s # t => KeyOf[At(s)'] # KeyOf[At(t)']
  BY <1>3, <1>7, Shrinks
<1>9. Kept'
  BY <1>5, <1>6 DEF CInv, Kept
<1>10. Track(c)' /\ Moving(c)' = {}
  BY <1>3, <1>4, <1>5 DEF Track, Moving
<1>11. CInv'
  BY <1>1, <1>2, <1>3, <1>8, <1>9, <1>10, Settled
<1>12. Same(h)
  BY <1>6, <1>7 DEF Same
<1> QED
  BY <1>2, <1>11, <1>12

\* A new block joins the chain with one slot that is still to be written.
LEMMA GrowContents ==
  ASSUME IInv, TypeOK', CInv, NEW c \in Core, NEW x \in Overflow, Grow(c, x)
  PROVE  CInv' /\ Same(call[c].hash)
<1>1. PICK own \in Owner : Chained(own) /\ \A d \in Core : Holds(own, d)
  BY DEF IInv, Structure
<1>2. PICK h : h = call[c].hash
  OBVIOUS
<1>3. PICK p : p = pre[c]
  OBVIOUS
<1>4. /\ TypeOK /\ pc[c] \in Active \ {"unlock"} /\ Alone(c) /\ call'[c] = call[c]
      /\ h \in Bucket /\ p \in Block /\ own[p] = h
      /\ \A y \in Block : own[y] \notin {h, Null} =>
           nxt'[y] = nxt[y] /\ cnt'[y] = cnt[y] /\ mem'[y] = mem[y]
  BY <1>1, <1>2, <1>3, WritesHere
<1>5. Track(c) /\ Holds(own, c) /\ pc[c] = "grow"
  BY <1>1 DEF CInv, Grow
<1>6. /\ pool' = pool \ {x} /\ x \in pool /\ UNCHANGED mem
      /\ nxt' = [nxt EXCEPT ![p] = x, ![x] = Null]
      /\ cnt' = [cnt EXCEPT ![x] = 1]
      /\ slot'[c] = <<x, 1>> /\ pc'[c] = "copy" /\ call[c].op = "insert"
  BY <1>3, <1>4, <1>5 DEF Grow, TypeOK, Goto, Holds
<1>7. own[x] = Null /\ x \in Block /\ h \in Block /\ h # Null
  BY <1>1, <1>4, <1>6, HashTableAssumption DEF Chained, Block
<1>8. nxt[x] = Null /\ nxt[p] = Null /\ x # p /\ p \in Chain(h)
  BY <1>1, <1>2, <1>3, <1>4, <1>5, <1>7 DEF Chained, Holds, Track
<1>9. Chain(h)' = Chain(h) \cup {x}
  <2>1. nxt \in Links /\ nxt' \in Links
    BY <1>4 DEF TypeOK, Links
  <2>2. p \in {h} \cup After(nxt, h)
    BY <1>8, ChainAfter
  <2>3. After(nxt', h) = After(nxt, h) \cup {x}
    <3>1. /\ nxt[p] = Null /\ nxt[x] = Null /\ x # p /\ h \in Block
          /\ nxt'[p] = x /\ nxt'[x] = Null
          /\ \A y \in Block : y \notin {p, x} => nxt'[y] = nxt[y]
      BY <1>4, <1>6, <1>7, <1>8 DEF TypeOK
    <3> QED
      BY <2>1, <2>2, <3>1, AfterLink
  <2> QED
    BY <2>3, ChainAfter
<1>10. cnt'[x] = 1 /\ \A y \in Block : y # x => cnt'[y] = cnt[y]
  BY <1>4, <1>6, <1>7 DEF TypeOK
<1>11. ASSUME NEW s \in Entries(h)' PROVE s \in Entries(h) /\ At(s)' = At(s)
  <2>1. PICK y \in Chain(h) \cup {x} : \E i \in 1 .. cnt'[y] : s = <<y, i>>
    BY <1>9, EntryShapeNext
  <2>2. PICK i \in 1 .. cnt'[y] : s = <<y, i>>
    BY <2>1
  <2>3. y \in Block /\ own[y] \in {h, Null}
    BY <1>1, <1>4, <1>7, ChainOwned
  <2>4. s \notin Transient' /\ (s \in Transient <=> s \in Moving(c))
        /\ (s \in Transient' <=> s \in Moving(c)')
    BY <1>1, <1>2, <1>4, <2>2, <2>3, OwnEntry, EntryShapeNext
  <2>5. s # <<x, 1>> /\ s \notin Transient
    BY <1>5, <1>6, <2>4 DEF Moving
  <2>6. y # x
    BY <1>10, <2>2, <2>5
  <2>7. i \in 1 .. cnt[y] /\ y \in Chain(h)
    BY <1>10, <2>1, <2>2, <2>3, <2>6
  <2> QED
    BY <1>6, <2>2, <2>5, <2>7, EntryShape DEF At
<1>12. /\ \A s \in Entries(h)' : At(s)' \in Item
       /\ Compares(h) =>
            \A s, t \in Entries(h)' : s # t => KeyOf[At(s)'] # KeyOf[At(t)']
       /\ \A it : Lacks(h, {}, it) => Lacks(h, {}, it)'
  BY <1>4, <1>11, Shrinks
<1>13. \A s \in Moving(c) \cup Moving(c)' : own[s[1]] \in {h, Null}
  BY <1>5, <1>6, <1>7 DEF Moving
<1>14. Kept'
  <2>1. \A b \in Bucket : b # h => Untouched(b)
    BY <1>1, <1>4, <1>13, ElsewhereSame
  <2>2. \A b \in Bucket : Chain(b) \subseteq Chain(b)'
    BY <1>9, <2>1 DEF Untouched
  <2>3. x \in Chain(h)'
    BY <1>9
  <2> QED
    BY <1>4, <1>6, <2>2, <2>3 DEF CInv, Kept
<1>15. Track(c)'
  <2>1. Compared(call[c]) /\ call[c].at = "none" => Lacks(h, {}, call[c].this)'
    BY <1>2, <1>4, <1>5, <1>12 DEF Lacks, Track
  <2> QED
    BY <1>2, <1>4, <1>5, <1>6, <2>1 DEF Track
<1>16. ASSUME NEW s \in Entries(h) PROVE s \in Entries(h)'
  <2>1. PICK y \in Chain(h) : \E i \in 1 .. cnt[y] : s = <<y, i>>
    BY EntryShape
  <2>2. PICK i \in 1 .. cnt[y] : s = <<y, i>>
    BY <2>1
  <2>3. y \in Block /\ own[y] = h /\ y # x
    BY <1>1, <1>4, <1>7, ChainOwned
  <2>4. s \in Transient' <=> s \in Moving(c)'
    BY <1>1, <1>2, <1>4, <2>2, <2>3, OwnEntry
  <2>5. s \notin Transient'
    BY <1>6, <2>2, <2>3, <2>4 DEF Moving
  <2> QED
    BY <1>9, <1>10, <2>1, <2>2, <2>3, <2>5, EntryShapeNext
<1>17. Same(h)
  <2>1. Entries(h)' = Entries(h)
    BY <1>11, <1>16
  <2> QED
    BY <1>11, <2>1 DEF Same
<1>18. CInv'
  BY <1>1, <1>2, <1>4, <1>12, <1>13, <1>14, <1>15, Settled
<1> QED
  BY <1>2, <1>17, <1>18

\* The item is written: an entry more, unlike the others where inserts compare.
LEMMA CopyContents ==
  ASSUME IInv, TypeOK', CInv, NEW c \in Core, Copy(c)
  PROVE  /\ CInv'
         /\ Counted(call[c].hash, slot[c]) => Gains(call[c].hash, slot[c], call[c].this)
<1>1. PICK own \in Owner : Chained(own) /\ \A d \in Core : Holds(own, d)
  BY DEF IInv, Structure
<1>2. PICK h : h = call[c].hash
  OBVIOUS
<1>3. PICK u : u = slot[c]
  OBVIOUS
<1>4. PICK it : it = call[c].this
  OBVIOUS
<1>5. /\ TypeOK /\ pc[c] \in Active \ {"unlock"} /\ Alone(c) /\ call'[c] = call[c]
      /\ h \in Bucket /\ call[c] \in Call
      /\ \A y \in Block : own[y] \notin {h, Null} =>
           nxt'[y] = nxt[y] /\ cnt'[y] = cnt[y] /\ mem'[y] = mem[y]
  BY <1>1, <1>2, WritesHere
<1>6. Track(c) /\ Holds(own, c) /\ pc[c] = "copy"
  BY <1>1 DEF CInv, Copy
<1>7. /\ UNCHANGED <<nxt, cnt, pool>> /\ pc'[c] = "unlock"
      /\ mem' = [mem EXCEPT ![u[1]][u[2]] = it]
      /\ u \in Slot /\ it \in Item
  BY <1>3, <1>4, <1>5, <1>6, CallShape DEF Copy, Holds, TypeOK, Goto, local
<1>8. \A b : Chain(b)' = Chain(b)
  BY <1>7, ChainAfter
<1>9. Moving(c) = {u} /\ Moving(c)' = {}
  BY <1>3, <1>6, <1>7 DEF Moving
<1>10. ASSUME NEW s \in Entries(h)' PROVE s \in Slot /\ (s = u \/ s \in Entries(h))
  <2>1. PICK y \in Chain(h) : \E i \in 1 .. cnt[y] : s = <<y, i>>
    BY <1>7, <1>8, EntryShapeNext
  <2>2. PICK i \in 1 .. cnt[y] : s = <<y, i>>
    BY <2>1
  <2>3. y \in Block /\ own[y] = h
    BY <1>1, <1>5, ChainOwned
  <2>4. s \in Transient <=> s \in Moving(c)
    BY <1>1, <1>2, <1>5, <2>2, <2>3, OwnEntry
  <2>5. s = u \/ s \in Entries(h)
    BY <1>9, <2>1, <2>4, EntryShape
  <2> QED
    BY <1>1, <1>5, <1>7, <2>5, EntrySlot
<1>11. ASSUME NEW s \in Slot PROVE At(s)' = IF s = u THEN it ELSE At(s)
  <2>1. TypeOK /\ u \in Slot /\ mem' = [mem EXCEPT ![u[1]][u[2]] = it]
    BY <1>5, <1>7
  <2> QED
    BY <2>1, OnePlace
<1>12. \A s \in Entries(h)' : At(s)' \in Item
  BY <1>5, <1>7, <1>10, <1>11 DEF CInv, Filled
<1>13. ASSUME Compares(h), NEW s \in Entries(h)', NEW t \in Entries(h)', s # t
       PROVE  KeyOf[At(s)'] # KeyOf[At(t)']
  <2>1. Lacks(h, {}, it)
    <3>1. call[c] \in Calls /\ call[c].op = "insert"
      BY <1>6 DEF Track, Holds
    <3>2. Compared(call[c]) /\ call[c].at = "none"
      BY <1>2, <1>13, <3>1 DEF Compares, Compared
    <3> QED
      BY <1>2, <1>4, <1>6, <3>2 DEF Track
  <2>2. ASSUME NEW r \in Entries(h) PROVE KeyOf[At(r)] # KeyOf[it]
    <3>1. At(r) # Null
      BY <1>5, HashTableAssumption DEF CInv, Filled
    <3> QED
      BY <2>1, <3>1 DEF Lacks, Matches
  <2>3. CASE s = u \/ t = u
    BY <1>10, <1>11, <1>13, <2>2, <2>3
  <2>4. CASE s # u /\ t # u
    BY <1>5, <1>10, <1>11, <1>13, <2>4 DEF CInv, UniqueKeys
  <2> QED
    BY <2>3, <2>4
<1>14. Kept'
  BY <1>7, <1>8 DEF CInv, Kept
<1>15. Track(c)'
  BY <1>5, <1>6, <1>7 DEF Track
<1>16. CInv'
  BY <1>1, <1>2, <1>5, <1>9, <1>12, <1>13, <1>14, <1>15, Settled
<1>17. ASSUME Counted(h, u) PROVE Gains(h, u, it)
  <2>1. u \in Transient
    BY <1>9, TransientShape
  <2>2. u \notin Entries(h)
    BY <2>1 DEF Entries
  <2>3. ASSUME NEW s \in Entries(h) \cup {u} PROVE s \in Entries(h)'
    <3>1. PICK y \in Chain(h) : \E i \in 1 .. cnt[y] : s = <<y, i>>
      <4>1. u = <<u[1], u[2]>>
        BY <1>7 DEF Slot
      <4> QED
        BY <1>17, <2>3, <4>1, EntryShape DEF Counted
    <3>2. PICK i \in 1 .. cnt[y] : s = <<y, i>>
      BY <3>1
    <3>3. y \in Block /\ own[y] = h
      BY <1>1, <1>5, ChainOwned
    <3>4. s \notin Transient'
      BY <1>1, <1>2, <1>5, <1>9, <3>2, <3>3, OwnEntry
    <3> QED
      BY <1>7, <1>8, <3>1, <3>2, <3>4, EntryShapeNext
  <2>4. Entries(h)' = Entries(h) \cup {u}
    BY <1>10, <2>3
  <2>5. At(u)' = it /\ \A s \in Entries(h) : At(s)' = At(s)
    <3>1. \A s \in Entries(h) : s \in Slot /\ s # u
      BY <1>1, <1>5, <2>2, EntrySlot
    <3> QED
      BY <1>7, <1>11, <3>1
  <2> QED
    BY <1>7, <2>2, <2>4, <2>5 DEF Gains
<1> QED
  BY <1>2, <1>3, <1>4, <1>16, <1>17

\* The last entry of the bucket takes the place of the one to remove.
LEMMA MoveContents ==
  ASSUME IInv, TypeOK', CInv, NEW c \in Core, Move(c)
  PROVE  CInv' /\ \E l : Loses(call[c].hash, slot[c], l)
<1>1. PICK own \in Owner : Chained(own) /\ \A d \in Core : Holds(own, d)
  BY DEF IInv, Structure
<1>2. PICK h : h = call[c].hash
  OBVIOUS
<1>3. PICK u : u = slot[c]
  OBVIOUS
<1>4. PICK l : l = <<cur[c], cnt[cur[c]]>>
  OBVIOUS
<1>5. /\ TypeOK /\ pc[c] \in Active \ {"unlock"} /\ Alone(c) /\ call'[c] = call[c]
      /\ h \in Bucket /\ cur[c] \in Block /\ own[cur[c]] = h
      /\ \A y \in Block : own[y] \notin {h, Null} =>
           nxt'[y] = nxt[y] /\ cnt'[y] = cnt[y] /\ mem'[y] = mem[y]
  BY <1>1, <1>2, WritesHere
<1>6. Track(c) /\ Holds(own, c) /\ pc[c] = "seek"
  BY <1>1 DEF CInv, Move
<1>7. /\ UNCHANGED <<nxt, cnt, pool>> /\ pc'[c] = "drop"
      /\ cur'[c] = cur[c] /\ pre'[c] = pre[c]
      /\ mem' = IF NeedsMove(c) THEN [mem EXCEPT ![u[1]][u[2]] = mem[cur[c]][cnt[cur[c]]]]
                ELSE mem
      /\ u \in Slot /\ cnt[cur[c]] \in 1 .. ItemNum /\ cur[c] \in Chain(h)
  <2>1. cnt[cur[c]] \in 0 .. ItemNum /\ cnt[cur[c]] > 0
    BY <1>5, <1>6 DEF Holds, TypeOK
  <2> QED
    BY <1>2, <1>3, <1>5, <1>6, <2>1, HashTableAssumption DEF Move, Holds, Track, TypeOK, Goto, local
<1>8. \A b : Chain(b)' = Chain(b)
  BY <1>7, ChainAfter
<1>9. Moving(c) = {} /\ Moving(c)' = {l}
  BY <1>4, <1>6, <1>7 DEF Moving
<1>10. /\ l \in Entries(h) /\ At(l) = mem[cur[c]][cnt[cur[c]]]
       /\ NeedsMove(c) <=> u # l
  <2>1. l \notin Transient
    BY <1>1, <1>2, <1>4, <1>5, <1>9, OwnEntry
  <2>2. u = <<u[1], u[2]>>
    BY <1>7 DEF Slot
  <2> QED
    BY <1>3, <1>4, <1>7, <2>1, <2>2, EntryShape DEF At, NeedsMove
<1>11. ASSUME NEW s \in Entries(h)' PROVE s \in Entries(h) /\ s # l /\ s \in Slot
  <2>1. PICK y \in Chain(h) : \E i \in 1 .. cnt[y] : s = <<y, i>>
    BY <1>7, <1>8, EntryShapeNext
  <2>2. PICK i \in 1 .. cnt[y] : s = <<y, i>>
    BY <2>1
  <2>3. y \in Block /\ own[y] = h
    BY <1>1, <1>5, ChainOwned
  <2>4. s \notin Transient' /\ (s \in Transient <=> s \in Moving(c))
        /\ (s \in Transient' <=> s \in Moving(c)')
    BY <1>1, <1>2, <1>5, <2>2, <2>3, OwnEntry, EntryShapeNext
  <2>5. s \in Entries(h) /\ s # l
    BY <1>9, <2>1, <2>4, EntryShape
  <2> QED
    BY <1>1, <1>5, <2>5, EntrySlot
<1>12. ASSUME NEW s \in Slot, s # l PROVE At(s)' = IF s = u THEN At(l) ELSE At(s)
  <2>2. PICK it : it = At(l)
    OBVIOUS
  <2>3. mem' = IF u # l THEN [mem EXCEPT ![u[1]][u[2]] = it] ELSE mem
    BY <1>7, <1>10, <2>2
  <2>4. CASE u # l
    <3>1. mem' = [mem EXCEPT ![u[1]][u[2]] = it]
      BY <2>3, <2>4
    <3>2. At(s)' = IF s = u THEN it ELSE At(s)
      <4>1. TypeOK /\ u \in Slot
        BY <1>5, <1>7
      <4> QED
        BY <3>1, <4>1, OnePlace
    <3> QED
      BY <2>2, <3>2
  <2>5. CASE u = l
    BY <1>12, <2>3, <2>5 DEF At
  <2> QED
    BY <2>4, <2>5
<1>13. PICK f : f = [s \in Slot |-> IF s = u THEN l ELSE s]
  OBVIOUS
<1>14. ASSUME NEW s \in Entries(h)'
       PROVE  s \in Slot /\ f[s] \in Entries(h) /\ At(s)' = At(f[s])
  <2>1. s \in Slot /\ s \in Entries(h) /\ s # l
    BY <1>11
  <2>2. f[s] = IF s = u THEN l ELSE s
    BY <1>13, <2>1
  <2> QED
    BY <1>10, <1>12, <2>1, <2>2
<1>15. ASSUME NEW s \in Entries(h)', NEW t \in Entries(h)', s # t PROVE f[s] # f[t]
  BY <1>11, <1>13, <1>15
<1>16. \A s \in Entries(h)' : At(s)' \in Item
  BY <1>5, <1>14 DEF CInv, Filled
<1>17. ASSUME Compares(h), NEW s \in Entries(h)', NEW t \in Entries(h)', s # t
       PROVE  KeyOf[At(s)'] # KeyOf[At(t)']
  <2>1. /\ f[s] \in Entries(h) /\ At(s)' = At(f[s])
        /\ f[t] \in Entries(h) /\ At(t)' = At(f[t]) /\ f[s] # f[t]
    BY <1>14, <1>15, <1>17
  <2>2. KeyOf[At(f[s])] # KeyOf[At(f[t])]
    BY <1>5, <1>17, <2>1 DEF CInv, UniqueKeys
  <2> QED
    BY <2>1, <2>2
<1>18. Kept'
  BY <1>7, <1>8 DEF CInv, Kept
<1>19. Track(c)'
  BY <1>2, <1>5, <1>6, <1>7, <1>8 DEF Track
<1>20. \A s \in Moving(c)' : own[s[1]] \in {h, Null}
  BY <1>4, <1>5, <1>9
<1>21. CInv'
  BY <1>1, <1>2, <1>5, <1>16, <1>17, <1>18, <1>19, <1>20, Settled
<1>22. ASSUME NEW s \in Entries(h), s # l PROVE s \in Entries(h)'
  <2>1. PICK y \in Chain(h) : \E i \in 1 .. cnt[y] : s = <<y, i>>
    BY EntryShape
  <2>2. PICK i \in 1 .. cnt[y] : s = <<y, i>>
    BY <2>1
  <2>3. y \in Block /\ own[y] = h
    BY <1>1, <1>5, ChainOwned
  <2>4. s \notin Transient'
    BY <1>1, <1>2, <1>5, <1>9, <1>22, <2>2, <2>3, OwnEntry
  <2> QED
    BY <1>7, <1>8, <2>1, <2>2, <2>4, EntryShapeNext
<1>23. Loses(h, u, l)
  <2>1. Entries(h)' = Entries(h) \ {l}
    BY <1>11, <1>22
  <2>2. \A s \in Entries(h)' : At(s)' = IF s = u THEN At(l) ELSE At(s)
    BY <1>11, <1>12
  <2> QED
    BY <1>10, <2>1, <2>2 DEF Loses
<1> QED
  BY <1>2, <1>3, <1>21, <1>23

\* The last slot, or the last block, goes; its entry was no entry any more.
LEMMA DropContents ==
  ASSUME IInv, TypeOK', CInv, NEW c \in Core, Drop(c)
  PROVE  CInv' /\ Same(call[c].hash)
<1>1. PICK own \in Owner : Chained(own) /\ \A d \in Core : Holds(own, d)
  BY DEF IInv, Structure
<1>2. PICK h : h = call[c].hash
  OBVIOUS
<1>3. PICK x : x = cur[c]
  OBVIOUS
<1>4. PICK p : p = pre[c]
  OBVIOUS
<1>5. /\ TypeOK /\ pc[c] \in Active \ {"unlock"} /\ Alone(c) /\ call'[c] = call[c]
      /\ h \in Bucket /\ x \in Block /\ own[x] = h /\ p \in Block /\ own[p] = h
      /\ \A y \in Block : own[y] \notin {h, Null} =>
           nxt'[y] = nxt[y] /\ cnt'[y] = cnt[y] /\ mem'[y] = mem[y]
  BY <1>1, <1>2, <1>3, <1>4, WritesHere
<1>6. Track(c) /\ Holds(own, c) /\ pc[c] = "drop"
  BY <1>1 DEF CInv, Drop
<1>7. /\ cnt[x] \in Nat /\ cnt[x] > 0 /\ nxt[x] = Null /\ (x = h \/ nxt[p] = x)
      /\ call[c] \in Calls /\ call[c].op = "remove" /\ pc'[c] = "unlock"
  BY <1>2, <1>3, <1>4, <1>5, <1>6 DEF Holds, Track, Drop, TypeOK, Goto
<1>8. Moving(c) = {<<x, cnt[x]>>} /\ Moving(c)' = {}
  BY <1>3, <1>6, <1>7 DEF Moving
<1>9. Track(c)'
  BY <1>5, <1>6, <1>7 DEF Track
<1>10. CASE Empties(c)
  <2>1. /\ UNCHANGED cnt /\ cnt[x] = 1 /\ x # h
        /\ nxt' = [nxt EXCEPT ![p] = Null]
        /\ pool' = IF call[c].free THEN pool \cup {x} ELSE pool
        /\ mem' = [mem EXCEPT ![x] = [i \in 1 .. ItemNum |-> Null]]
    BY <1>2, <1>3, <1>4, <1>10 DEF Drop, Empties
  <2>2. x \in Overflow /\ x # Null /\ h \in Block /\ nxt[p] = x
    BY <1>1, <1>5, <1>7, <2>1, HashTableAssumption DEF Chained, Block
  <2>3. Chain(h)' = Chain(h) \ {x}
    <3>1. nxt \in Links /\ nxt' \in Links
      BY <1>5 DEF TypeOK, Links
    <3>2. nxt'[p] = Null /\ \A y \in Block : y # p => nxt'[y] = nxt[y]
      BY <1>5, <2>1 DEF TypeOK
    <3>3. \A y \in Block : nxt[y] = x => y = p
      BY <1>1, <1>5, <2>2 DEF Chained
    <3>4. After(nxt', h) = After(nxt, h) \ {x}
      BY <1>5, <1>7, <2>2, <3>1, <3>2, <3>3, AfterCut
    <3> QED
      BY <2>1, <3>4, ChainAfter
  <2>4. ASSUME NEW s \in Entries(h)' PROVE s \in Entries(h) /\ At(s)' = At(s)
    <3>1. PICK y \in Chain(h) \ {x} : \E i \in 1 .. cnt[y] : s = <<y, i>>
      BY <2>1, <2>3, EntryShapeNext
    <3>2. PICK i \in 1 .. cnt[y] : s = <<y, i>>
      BY <3>1
    <3>3. y \in Block /\ own[y] = h
      BY <1>1, <1>5, ChainOwned
    <3>4. s \in Transient <=> s \in Moving(c)
      BY <1>1, <1>2, <1>5, <3>2, <3>3, OwnEntry
    <3>5. s \notin Transient
      BY <1>8, <3>2, <3>4
    <3>6. mem'[y] = mem[y]
      BY <1>5, <2>1, <3>3 DEF TypeOK
    <3> QED
      BY <3>1, <3>2, <3>5, <3>6, EntryShape DEF At
  <2>5. /\ \A s \in Entries(h)' : At(s)' \in Item
        /\ Compares(h) =>
             \A s, t \in Entries(h)' : s # t => KeyOf[At(s)'] # KeyOf[At(t)']
    BY <1>5, <2>4, Shrinks
  <2>6. Kept'
    <3>1. \A b \in Bucket : b # h => Untouched(b)
      <4>1. \A s \in Moving(c) \cup Moving(c)' : own[s[1]] \in {h, Null}
        BY <1>5, <1>8
      <4> QED
        BY <1>1, <1>5, <4>1, ElsewhereSame
    <3>2. \A b \in Bucket : Chain(b) \subseteq Chain(b)' \cup {x}
      BY <2>3, <3>1 DEF Untouched
    <3>3. (\A k \in Calls : k.op = "remove" => k.free) => pool' = pool \cup {x}
      BY <1>7, <2>1
    <3> QED
      BY <3>2, <3>3 DEF CInv, Kept
  <2>7. CInv'
    BY <1>1, <1>2, <1>5, <1>8, <1>9, <2>5, <2>6, Settled
  <2>8. ASSUME NEW s \in Entries(h) PROVE s \in Entries(h)'
    <3>1. PICK y \in Chain(h) : \E i \in 1 .. cnt[y] : s = <<y, i>>
      BY EntryShape
    <3>2. PICK i \in 1 .. cnt[y] : s = <<y, i>>
      BY <3>1
    <3>3. y \in Block /\ own[y] = h
      BY <1>1, <1>5, ChainOwned
    <3>4. s \notin Transient'
      BY <1>1, <1>2, <1>5, <1>8, <3>2, <3>3, OwnEntry
    <3>5. s \notin Moving(c)
      BY <1>8, <2>8, EntryShape, TransientShape
    <3>6. y # x
      BY <1>8, <2>1, <3>2, <3>5
    <3> QED
      BY <2>1, <2>3, <3>1, <3>2, <3>4, <3>6, EntryShapeNext
  <2>9. Entries(h)' = Entries(h)
    BY <2>4, <2>8
  <2>10. Same(h)
    BY <2>4, <2>9 DEF Same
  <2> QED
    BY <1>2, <2>7, <2>10
<1>11. CASE ~Empties(c)
  <2>1. /\ cnt' = [cnt EXCEPT ![x] = @ - 1] /\ UNCHANGED <<nxt, pool, mem>>
    BY <1>3, <1>11 DEF Drop
  <2>2. cnt'[x] = cnt[x] - 1 /\ \A y \in Block : y # x => cnt'[y] = cnt[y]
    BY <1>5, <2>1 DEF TypeOK
  <2>3. \A b : Chain(b)' = Chain(b)
    BY <2>1, ChainAfter
  <2>4. ASSUME NEW s \in Entries(h)' PROVE s \in Entries(h) /\ At(s)' = At(s)
    <3>1. PICK y \in Chain(h) : \E i \in 1 .. cnt'[y] : s = <<y, i>>
      BY <2>3, EntryShapeNext
    <3>2. PICK i \in 1 .. cnt'[y] : s = <<y, i>>
      BY <3>1
    <3>3. y \in Block /\ own[y] = h
      BY <1>1, <1>5, ChainOwned
    <3>4. s \in Transient <=> s \in Moving(c)
      BY <1>1, <1>2, <1>5, <3>2, <3>3, OwnEntry
    <3>5. i \in 1 .. cnt[y] /\ ~(y = x /\ i = cnt[x])
      BY <1>7, <2>2, <3>2, <3>3
    <3>6. s \notin Transient
      BY <1>8, <3>2, <3>4, <3>5
    <3> QED
      BY <2>1, <3>2, <3>5, <3>6, EntryShape DEF At
  <2>5. /\ \A s \in Entries(h)' : At(s)' \in Item
        /\ Compares(h) =>
             \A s, t \in Entries(h)' : s # t => KeyOf[At(s)'] # KeyOf[At(t)']
    BY <1>5, <2>4, Shrinks
  <2>6. Kept'
    BY <2>1, <2>3 DEF CInv, Kept
  <2>7. CInv'
    BY <1>1, <1>2, <1>5, <1>8, <1>9, <2>5, <2>6, Settled
  <2>8. ASSUME NEW s \in Entries(h) PROVE s \in Entries(h)'
    <3>1. PICK y \in Chain(h) : \E i \in 1 .. cnt[y] : s = <<y, i>>
      BY EntryShape
    <3>2. PICK i \in 1 .. cnt[y] : s = <<y, i>>
      BY <3>1
    <3>3. y \in Block /\ own[y] = h /\ cnt[y] \in Nat
      BY <1>1, <1>5, ChainOwned DEF TypeOK
    <3>4. s \notin Transient'
      BY <1>1, <1>2, <1>5, <1>8, <3>2, <3>3, OwnEntry
    <3>5. s # <<x, cnt[x]>>
      BY <1>8, <2>8, EntryShape, TransientShape
    <3>6. i \in 1 .. cnt'[y]
      BY <1>7, <2>2, <3>2, <3>3, <3>5
    <3> QED
      BY <2>3, <3>1, <3>2, <3>4, <3>6, EntryShapeNext
  <2>9. Entries(h)' = Entries(h)
    BY <2>4, <2>8
  <2>10. Same(h)
    BY <2>4, <2>9 DEF Same
  <2> QED
    BY <1>2, <2>7, <2>10
<1> QED
  BY <1>10, <1>11

-----------------------------------------------------------------------------
(* The invariant and what follows from it.                                 *)

\* Every chain is its head, and every head is empty.
LEMMA InitContents ==
  ASSUME Init
  PROVE  CInv
<1>1. TypeOK
  BY InitInv DEF IInv
<1>2. \A c \in Core : Moving(c) = {}
  BY DEF Init, Moving
<1>3. ASSUME NEW b \in Bucket PROVE Entries(b) = {} /\ Chain(b) = {b}
  <2>1. b \in Block /\ nxt[b] = Null
    BY DEF Init, Block
  <2>2. Chain(b) = {b}
    BY <1>1, <2>1, ChainEnd DEF Chain
  <2>3. \A s : s \notin Entries(b)
    BY <2>1, <2>2, EntryShape DEF Init
  <2> QED
    BY <2>2, <2>3, Zenon
<1>4. Filled /\ UniqueKeys
  BY <1>3 DEF Filled, UniqueKeys
<1>5. Kept
  BY DEF Init, Kept
<1>6. \A c \in Core : Track(c)
  BY DEF Init, Track
<1> QED
  BY <1>4, <1>5, <1>6 DEF CInv

\* Every step keeps the contents in order.
LEMMA StepContents ==
  ASSUME FreePosRule, IInv, CInv, [Next]_vars
  PROVE  CInv'
<1>1. TypeOK'
  BY StepInv DEF IInv
<1>2. CASE UNCHANGED vars
  <2>1. UNCHANGED <<nxt, cnt, mem, pool, lock, pc, call, cur, pre, slot, res>>
    BY <1>2 DEF vars
  <2>2. \A b : Chain(b)' = Chain(b) /\ \A x : Behind(x)' = Behind(x)
    BY <2>1, ChainAfter
  <2>3. \A s : s \in Transient' <=> s \in Transient
    BY <2>1 DEF Transient
  <2>4. ASSUME NEW b PROVE Entries(b)' = Entries(b)
    <3>1. \A s : s \in Entries(b)' <=> s \in Entries(b)
      BY <2>1, <2>2, <2>3, EntryShape, EntryShapeNext
    <3> QED
      BY <3>1, Zenon
  <2>5. \A s : At(s)' = At(s)
    BY <2>1 DEF At
  <2>6. Filled' /\ UniqueKeys'
    BY <2>4, <2>5 DEF CInv, Filled, UniqueKeys, Compares
  <2>7. Kept'
    BY <2>1, <2>2 DEF CInv, Kept
  <2>8. ASSUME NEW c \in Core PROVE Track(c)'
    <3>1. PICK h : h = call[c].hash
      OBVIOUS
    <3>2. PICK x : x = cur[c]
      OBVIOUS
    <3>3. \A S, it : Lacks(h, S, it) => Lacks(h, S, it)'
      BY <2>4, <2>5 DEF Lacks, Matches
    <3>4. Track(c)
      BY DEF CInv
    <3> QED
      BY <2>1, <2>2, <3>1, <3>2, <3>3, <3>4 DEF Track
  <2> QED
    BY <2>6, <2>7, <2>8 DEF CInv
<1>3. CASE Next
  <2>1. PICK c \in Core :
          \/ \E k \in Calls : Begin(c, k)
          \/ Reject(c) \/ Lock(c) \/ Work(c) \/ Unlock(c) \/ Return(c)
    BY <1>3, NextCases
  <2>2. CASE Work(c)
    <3>1. CASE \/ WalkOn(c) \/ EndOfChain(c) \/ Found(c) \/ NoSpace(c)
               \/ RemoveHit(c) \/ Seek(c)
      BY <3>1, LookContents
    <3>2. CASE InsertHit(c)
      BY <1>1, <3>2, RewriteContents
    <3>3. CASE TakeSlot(c)
      BY <1>1, <3>3, CountContents
    <3>4. CASE Place(c)
      BY <1>1, <3>4, CountContents, DeclineContents
    <3>5. CASE Copy(c)
      BY <1>1, <3>5, CopyContents
    <3>6. CASE \E x \in Overflow : Grow(c, x)
      BY <1>1, <3>6, GrowContents
    <3>7. CASE Move(c)
      BY <1>1, <3>7, MoveContents
    <3>8. CASE Drop(c)
      BY <1>1, <3>8, DropContents
    <3> QED
      BY <2>2, <3>1, <3>2, <3>3, <3>4, <3>5, <3>6, <3>7, <3>8 DEF Work
  <2>3. CASE \/ \E k \in Calls : Begin(c, k)
             \/ Reject(c) \/ Lock(c) \/ Unlock(c) \/ Return(c)
    BY <2>3, BorderContents
  <2> QED
    BY <2>1, <2>2, <2>3
<1> QED
  BY <1>2, <1>3

\* What the chains contain is as it should be in every behaviour.
THEOREM ContentsInvariance ==
  ASSUME FreePosRule
  PROVE  Spec => [](IInv /\ CInv)
<1>1. Init => IInv /\ CInv
  BY InitInv, InitContents
<1>2. (IInv /\ CInv) /\ [Next]_vars => (IInv /\ CInv)'
  <2>1. ASSUME IInv, CInv, [Next]_vars PROVE IInv' /\ CInv'
    BY <2>1, StepInv, StepContents
  <2> QED
    BY <2>1
<1> QED
  BY <1>1, <1>2, PTL DEF Spec

\* Where every insert compares, no two entries of a bucket have the same key,
\* although insert looks at a block at a time and stops at the first one that
\* has room.
THEOREM UniqueKeysTheorem ==
  ASSUME FreePosRule
  PROVE  Spec => []UniqueKeys
<1>1. IInv /\ CInv => UniqueKeys
  BY DEF CInv
<1> QED
  BY <1>1, ContentsInvariance, PTL

\* Every counted entry is an item: neither the slot that an insert counts before
\* it writes it nor the hole that a remove makes is ever taken for one.
THEOREM NoHolesTheorem ==
  ASSUME FreePosRule
  PROVE  Spec => []NoHoles
<1>1. IInv /\ CInv => NoHoles
  <2> SUFFICES ASSUME IInv, CInv, NEW b \in Bucket
               PROVE  /\ \A s \in Entries(b) : At(s) \in Item
                      /\ \A x \in Chain(b) \ {b} : cnt[x] > 0
    BY DEF NoHoles
  <2>1. PICK own \in Owner : Chained(own)
    BY DEF IInv, Structure
  <2>2. ASSUME NEW x \in Chain(b) \ {b} PROVE cnt[x] > 0
    <3>1. own[x] = b /\ b # Null
      BY <2>1, ChainOwned, HashTableAssumption DEF IInv, Block
    <3>2. x \in Overflow
      BY DEF Chain, Behind
    <3> QED
      BY <2>1, <3>1, <3>2 DEF Chained
  <2> QED
    BY <2>2 DEF CInv, Filled
<1> QED
  BY <1>1, ContentsInvariance, PTL

\* A block is free, or on one chain, and never both; none is lost if every remove
\* passes bucket_free.
THEOREM BlocksAccountedTheorem ==
  ASSUME FreePosRule
  PROVE  Spec => []BlocksAccounted
<1>1. IInv /\ CInv => BlocksAccounted
  <2> SUFFICES ASSUME IInv, CInv PROVE BlocksAccounted
    OBVIOUS
  <2>1. PICK own \in Owner : Chained(own)
    BY DEF IInv, Structure
  <2>2. \A b \in Bucket : b # Null /\ \A x \in Chain(b) : own[x] = b
    BY <2>1, ChainOwned, HashTableAssumption DEF IInv, Block
  <2>3. \A x \in pool : own[x] = Null
    BY <2>1 DEF Chained
  <2>4. \A b \in Bucket : Chain(b) \cap pool = {}
    BY <2>2, <2>3
  <2>5. \A b1, b2 \in Bucket : b1 # b2 => Chain(b1) \cap Chain(b2) = {}
    BY <2>2
  <2>6. (\A k \in Calls : k.op = "remove" => k.free) =>
          Overflow \subseteq pool \cup UNION {Chain(b) : b \in Bucket}
    BY DEF CInv, Kept
  <2> QED
    BY <2>4, <2>5, <2>6 DEF BlocksAccounted
<1> QED
  BY <1>1, ContentsInvariance, PTL

-----------------------------------------------------------------------------
(* What search returns.                                                    *)

\* An operation's steps are not seen in another bucket.
LEMMA BucketFrame ==
  ASSUME IInv, TypeOK', NEW c \in Core, Work(c), NEW b \in Bucket, b # call[c].hash
  PROVE  Untouched(b)
<1>1. PICK own \in Owner : Chained(own) /\ \A d \in Core : Holds(own, d)
  BY DEF IInv, Structure
<1>2. PICK h : h = call[c].hash
  OBVIOUS
<1>3. CASE \/ WalkOn(c) \/ EndOfChain(c) \/ Found(c) \/ NoSpace(c)
           \/ RemoveHit(c) \/ Seek(c)
  <2>1. TypeOK /\ pc[c] \in {"walk", "grow", "seek"}
    BY <1>3 DEF IInv, WalkOn, EndOfChain, Found, NoSpace, RemoveHit, Seek
  <2>2. Alone(c) /\ UNCHANGED <<nxt, cnt, mem, pool>>
    BY <1>3, <2>1 DEF TypeOK, Alone, WalkOn, EndOfChain, Found, NoSpace, RemoveHit, Seek, heap, Goto
  <2>3. pc'[c] \in {"walk", "grow", "seek", "unlock"}
    BY <1>3, <2>1 DEF TypeOK, WalkOn, EndOfChain, Found, NoSpace, RemoveHit, Seek, Goto
  <2> QED
    BY <2>1, <2>2, <2>3, QuietSame DEF Untouched
<1>4. CASE \/ InsertHit(c) \/ TakeSlot(c) \/ Place(c) \/ Copy(c)
           \/ (\E x \in Overflow : Grow(c, x)) \/ Move(c) \/ Drop(c)
  <2>1. /\ TypeOK /\ pc[c] \in Active \ {"unlock"} /\ Alone(c)
        /\ h \in Bucket /\ cur[c] \in Block /\ own[cur[c]] = h
        /\ \A y \in Block : own[y] \notin {h, Null} =>
             nxt'[y] = nxt[y] /\ cnt'[y] = cnt[y] /\ mem'[y] = mem[y]
    BY <1>1, <1>2, <1>4, WritesHere
  <2>2. Holds(own, c)
    BY <1>1
  <2>3. \A s \in Moving(c) : own[s[1]] \in {h, Null}
    BY <1>2, <2>1, <2>2 DEF Holds, Moving
  <2>4. \A s \in Moving(c)' : own[s[1]] \in {h, Null}
    <3>1. CASE InsertHit(c) \/ Copy(c) \/ Drop(c)
      <4>1. pc'[c] = "unlock"
        BY <2>1, <3>1 DEF InsertHit, Copy, Drop, TypeOK, Goto
      <4> QED
        BY <4>1 DEF Moving
    <3>2. CASE TakeSlot(c)
      <4>1. pc'[c] = "copy" /\ slot'[c][1] = cur[c]
        BY <2>1, <3>2 DEF TakeSlot, TypeOK, Goto
      <4> QED
        BY <2>1, <4>1 DEF Moving
    <3>3. CASE Place(c)
      <4>1. pc'[c] \in {"copy", "unlock"} /\ slot'[c] = slot[c] /\ pc[c] = "place"
        BY <2>1, <3>3 DEF Place, TypeOK, Goto
      <4>2. slot[c] = <<h, cnt[h] + 1>> /\ own[h] = h
        BY <1>1, <1>2, <2>1, <2>2, <4>1 DEF Holds, Chained
      <4> QED
        BY <4>1, <4>2 DEF Moving
    <3>4. CASE \E x \in Overflow : Grow(c, x)
      <4>1. PICK x \in Overflow : Grow(c, x)
        BY <3>4
      <4>2. pc'[c] = "copy" /\ slot'[c] = <<x, 1>> /\ x \in pool
        BY <2>1, <4>1 DEF Grow, TypeOK, Goto
      <4>3. own[x] = Null
        BY <1>1, <4>2 DEF Chained
      <4> QED
        BY <4>2, <4>3 DEF Moving
    <3>5. CASE Move(c)
      <4>1. pc'[c] = "drop" /\ cur'[c] = cur[c]
        BY <2>1, <3>5 DEF Move, TypeOK, Goto, local
      <4> QED
        BY <2>1, <4>1 DEF Moving
    <3> QED
      BY <1>4, <3>1, <3>2, <3>3, <3>4, <3>5
  <2>5. \A s \in Moving(c) \cup Moving(c)' : own[s[1]] \in {h, Null}
    BY <2>3, <2>4
  <2> QED
    BY <1>1, <1>2, <2>1, <2>5, ElsewhereSame
<1> QED
  BY <1>3, <1>4 DEF Work

\* A search has no item until it finds one, and then it has an entry that
\* matches.
Sought(c) ==
  LET k == call[c]
      h == call[c].hash
  IN /\ pc[c] = "walk" => slot[c] = Null
     /\ pc[c] \in {"unlock", "return"} /\ k.op = "search" /\ slot[c] # Null =>
          h \in Bucket /\ slot[c] \in Entries(h) /\ Matches(At(slot[c]), k.this)

\* It keeps it while the users of the table serialise their calls.
LEMMA StepSought ==
  ASSUME ~AutoLock, IInv, CInv, TypeOK', [Next]_vars, \A c \in Core : Sought(c), NEW e \in Core
  PROVE  Sought(e)'
<1>1. TypeOK /\ Serialised
  BY DEF IInv
<1>2. PICK h : h = call[e].hash
  OBVIOUS
<1>3. PICK u : u = slot[e]
  OBVIOUS
<1>4. Sought(e)
  OBVIOUS
<1>5. ASSUME NEW c \in Core, Alone(c), UNCHANGED <<nxt, cnt, mem, pool>>,
             pc[c] \notin {"copy", "drop"}, pc'[c] \notin {"copy", "drop"}
      PROVE  /\ \A b : Entries(b)' = Entries(b)
             /\ \A s : At(s)' = At(s)
  BY <1>5, QuietSame
<1>6. CASE UNCHANGED vars
  <2>1. UNCHANGED <<nxt, cnt, mem, pool, pc, call, cur, pre, slot>>
    BY <1>6 DEF vars
  <2>2. \A b : Chain(b)' = Chain(b)
    BY <2>1, ChainAfter
  <2>3. \A s : s \in Transient' <=> s \in Transient
    BY <2>1 DEF Transient
  <2>4. u \in Entries(h) => u \in Entries(h)'
    BY <2>1, <2>2, <2>3, EntryShape, EntryShapeNext
  <2> QED
    BY <1>2, <1>3, <1>4, <2>1, <2>4 DEF Sought, At, Matches
<1>7. CASE Next
  <2>1. PICK c \in Core :
          \/ \E k \in Calls : Begin(c, k)
          \/ Reject(c) \/ Lock(c) \/ Work(c) \/ Unlock(c) \/ Return(c)
    BY <1>7, NextCases
  <2>2. CASE \/ \E k \in Calls : Begin(c, k)
             \/ Reject(c) \/ Lock(c) \/ Unlock(c) \/ Return(c)
    <3>1. Alone(c) /\ UNCHANGED <<nxt, cnt, mem, pool>>
      BY <1>1, <2>2 DEF TypeOK, Alone, Begin, Reject, Lock, Unlock, Return, heap, local, Goto
    <3>2. pc[c] \notin {"copy", "drop"} /\ pc'[c] \notin {"copy", "drop"}
      BY <1>1, <2>2 DEF TypeOK, Begin, Reject, Lock, Unlock, Return, Goto
    <3>3. Entries(h)' = Entries(h) /\ At(u)' = At(u)
      BY <1>5, <3>1, <3>2
    <3>4. CASE e # c
      BY <1>2, <1>3, <1>4, <3>1, <3>3, <3>4 DEF Alone, Sought, At, Matches
    <3>5. CASE e = c
      <4>1. CASE \E k \in Calls : Begin(c, k)
        <5>1. pc'[c] = "lock"
          BY <1>1, <4>1 DEF TypeOK, Begin, Goto
        <5> QED
          BY <3>5, <5>1 DEF Sought
      <4>2. CASE Reject(c)
        <5>1. /\ pc[c] = "lock" /\ pc'[c] = "return"
              /\ call'[c] = call[c] /\ slot'[c] = slot[c]
          BY <1>1, <4>2 DEF TypeOK, Reject, Goto, local
        <5>2. slot[c] # Null => call[c].op = "insert"
          BY <5>1 DEF IInv, Structure, Holds
        <5> QED
          BY <3>5, <5>1, <5>2 DEF Sought
      <4>3. CASE Lock(c)
        <5>1. /\ slot'[c] = slot[c]
              /\ pc'[c] = IF slot[c] = Null THEN "walk" ELSE "place"
          BY <1>1, <4>3 DEF TypeOK, Lock, Goto
        <5> QED
          BY <3>5, <5>1 DEF Sought
      <4>4. CASE Unlock(c)
        <5>1. /\ pc[c] = "unlock" /\ slot'[c] = slot[c]
              /\ pc'[c] \in {"lock", "return"}
              /\ call[c].op = "search" => call'[c] = call[c]
          BY <1>1, <4>4 DEF TypeOK, Unlock, Goto
        <5>2. CASE call[c].op = "search"
          BY <1>2, <1>3, <1>4, <3>3, <3>5, <5>1, <5>2 DEF Sought, At, Matches
        <5>3. CASE call[c].op # "search"
          <6>1. pc'[c] = "return" => call'[c] = call[c]
            BY <1>1, <4>4 DEF TypeOK, Unlock, Goto
          <6> QED
            BY <3>5, <5>1, <5>3, <6>1 DEF Sought
        <5> QED
          BY <5>2, <5>3
      <4>5. CASE Return(c)
        <5>1. pc'[c] = "idle"
          BY <1>1, <4>5 DEF TypeOK, Return, Goto
        <5> QED
          BY <3>5, <5>1 DEF Sought
      <4> QED
        BY <2>2, <4>1, <4>2, <4>3, <4>4, <4>5
    <3> QED
      BY <3>4, <3>5
  <2>3. CASE Work(c)
    <3>1. pc[c] \in Active /\ pc[c] # "idle"
      BY <1>1, <2>3, WorkStays DEF TypeOK, Active
    <3>2. CASE e # c
      <4>1. /\ pc'[e] = pc[e] /\ call'[e] = call[e] /\ slot'[e] = slot[e]
        BY <1>1, <2>3, <3>2 DEF TypeOK, Work, WalkOn, EndOfChain, Found, InsertHit, TakeSlot,
             Place, NoSpace, Copy, Grow, RemoveHit, Seek, Move, Drop, Goto, heap, local
      <4>2. CASE pc[e] \in {"unlock", "return"} /\ call[e].op = "search" /\ u # Null
        <5>1. h \in Bucket /\ h # call[c].hash
          BY <1>1, <1>2, <1>3, <1>4, <3>1, <3>2, <4>2 DEF Serialised, Overlap, Sought
        <5>2. Untouched(h)
          BY <2>3, <5>1, BucketFrame
        <5>3. u \in Entries(h)' /\ At(u)' = At(u)
          BY <1>2, <1>3, <1>4, <4>2, <5>2 DEF Untouched, Sought
        <5> QED
          BY <1>2, <1>3, <1>4, <4>1, <4>2, <5>1, <5>3 DEF Sought, At, Matches
      <4>3. CASE ~(pc[e] \in {"unlock", "return"} /\ call[e].op = "search" /\ u # Null)
        BY <1>3, <1>4, <4>1, <4>3 DEF Sought
      <4> QED
        BY <4>2, <4>3
    <3>3. CASE e = c
      <4>1. call'[c] = call[c] /\ pc'[c] # "return" /\ h \in Bucket
        BY <1>1, <1>2, <2>3, <3>1, <3>3, WorkStays DEF IInv, Structure, Holds, Active, TypeOK
      <4>2. CASE call[c].op # "search"
        <5>1. pc'[c] = "walk" => slot'[c] = slot[c] /\ pc[c] = "walk"
          BY <1>1, <2>3 DEF TypeOK, Work, WalkOn, EndOfChain, Found, InsertHit, TakeSlot,
             Place, NoSpace, Copy, Grow, RemoveHit, Seek, Move, Drop, Goto, heap, local
        <5> QED
          BY <1>4, <3>3, <4>1, <4>2, <5>1 DEF Sought
      <4>3. CASE call[c].op = "search"
        <5>1. WalkOn(c) \/ EndOfChain(c) \/ Found(c)
          <6>1. Track(c) /\ ~Place(c) /\ ~NoSpace(c) /\ ~Copy(c)
            BY <4>3 DEF CInv, IInv, Structure, Holds, Place, NoSpace, Copy
          <6>2. ~(\E x \in Overflow : Grow(c, x))
            BY <4>3 DEF IInv, Structure, Holds, Grow
          <6>3. ~Seek(c) /\ ~Move(c) /\ ~Drop(c)
            BY <4>3, <6>1 DEF Track, Seek, Move, Drop
          <6>4. ~InsertHit(c) /\ ~TakeSlot(c) /\ ~RemoveHit(c)
            BY <4>3 DEF InsertHit, TakeSlot, RemoveHit
          <6> QED
            BY <2>3, <6>1, <6>2, <6>3, <6>4 DEF Work
        <5>2. pc[c] = "walk" /\ slot[c] = Null
          BY <1>4, <3>3, <5>1 DEF WalkOn, EndOfChain, Found, Sought
        <5>3. CASE WalkOn(c) \/ EndOfChain(c)
          <6>1. slot'[c] = Null
            BY <5>2, <5>3 DEF WalkOn, EndOfChain
          <6> QED
            BY <3>3, <6>1 DEF Sought
        <5>4. CASE Found(c)
          <6>1. PICK x : x = cur[c]
            OBVIOUS
          <6>2. PICK i : i = Hit(c)
            OBVIOUS
          <6>3. slot'[c] = <<x, i>> /\ pc'[c] = "unlock" /\ Hits(c) # {}
            BY <1>1, <5>4, <6>1, <6>2 DEF Found, TypeOK, Goto
          <6>4. x \in Block /\ x \in Chain(h)
            BY <1>2, <3>3, <5>2, <6>1 DEF CInv, Track, IInv, Structure, Holds, Active
          <6>5. /\ i \in 1 .. cnt[x] /\ Matches(mem[x][i], call[c].this)
            BY <1>1, <6>1, <6>2, <6>3, <6>4, HitIsHit DEF Hits
          <6>6. Alone(c) /\ UNCHANGED <<nxt, cnt, mem, pool>>
            BY <1>1, <5>4 DEF TypeOK, Alone, Found, heap, Goto
          <6>7. <<x, i>> \notin Transient
            <7>1. PICK own \in Owner : Chained(own) /\ \A d \in Core : Holds(own, d)
              BY DEF IInv, Structure
            <7>2. own[x] = h
              BY <1>1, <4>1, <6>4, <7>1, ChainOwned
            <7>3. Moving(c) = {}
              BY <5>2 DEF Moving
            <7> QED
              BY <1>2, <3>1, <3>3, <6>4, <6>6, <7>1, <7>2, <7>3, OwnEntry
          <6>8. <<x, i>> \in Entries(h)
            BY <6>4, <6>5, <6>7, EntryShape
          <6>9. <<x, i>> \in Entries(h)' /\ \A s : At(s)' = At(s)
            BY <1>5, <5>2, <6>3, <6>6, <6>8
          <6>10. Matches(At(<<x, i>>)', call[c].this)
            BY <6>5, <6>9 DEF At
          <6>11. PICK it : it = At(<<x, i>>)'
            OBVIOUS
          <6> QED
            BY <1>2, <3>3, <4>1, <6>3, <6>9, <6>10 DEF Sought, At, Matches
        <5> QED
          BY <5>1, <5>3, <5>4
      <4> QED
        BY <4>2, <4>3
    <3> QED
      BY <3>2, <3>3
  <2> QED
    BY <2>1, <2>2, <2>3
<1> QED
  BY <1>6, <1>7

\* What a search returns points to a stored item with the key searched for, as
\* long as the users of the table serialise their calls: auto_lock gives the
\* entry free before the caller has it.
THEOREM SearchTheorem ==
  ASSUME FreePosRule, ~AutoLock
  PROVE  Spec => []SearchReturnsMatch
<1> DEFINE Searches == \A c \in Core : Sought(c)
<1>1. Init => Searches
  BY DEF Init, Sought
<1>2. IInv /\ CInv /\ IInv' /\ Searches /\ [Next]_vars => Searches'
  <2> SUFFICES ASSUME IInv, CInv, IInv', Searches, [Next]_vars
               PROVE  Searches'
    OBVIOUS
  <2>1. TypeOK'
    BY DEF IInv
  <2>2. \A c \in Core : Sought(c)
    OBVIOUS
  <2>3. ASSUME NEW c \in Core PROVE Sought(c)'
    BY <2>1, <2>2, StepSought
  <2> QED
    BY <2>3
<1>3. Searches => SearchReturnsMatch
  BY DEF Sought, SearchReturnsMatch
<1> HIDE DEF Searches
<1> QED
  BY <1>1, <1>2, <1>3, ContentsInvariance, PTL DEF Spec

-----------------------------------------------------------------------------
(* How many there are: sums over the items, and counts of entries.         *)

\* One step of the sum over a set of items.
First(s) == CHOOSE x \in s : TRUE
Sums(v, f) ==
  f = [s \in SUBSET Item |-> IF s = {} THEN 0 ELSE v[First(s)] + f[s \ {First(s)}]]

\* How many entries of E hold an item, and what they are when w says what each
\* one holds.
Tally(E, w) == [it \in Item |-> Cardinality({e \in E : w[e] = it})]

\* A sum is determined by its step: the smallest set on which two sums differ
\* would have a smaller one.
LEMMA SumUnique ==
  ASSUME IsFiniteSet(Item), NEW v, NEW f, Sums(v, f), NEW g, Sums(v, g)
  PROVE  f[Item] = g[Item]
<1> SUFFICES ASSUME f[Item] # g[Item] PROVE FALSE
  OBVIOUS
<1> DEFINE B == {n \in Nat : \E s \in SUBSET Item : f[s] # g[s] /\ Cardinality(s) = n}
<1>1. \A s \in SUBSET Item : IsFiniteSet(s) /\ Cardinality(s) \in Nat
  BY FS_Subset, FS_CardinalityType
<1>2. B # {}
  BY <1>1
<1>3. PICK n \in B : \A m \in B : n <= m
  BY <1>2, LeastOfNaturals
<1>4. PICK s \in SUBSET Item : f[s] # g[s] /\ Cardinality(s) = n
  OBVIOUS
<1>5. /\ f[s] = IF s = {} THEN 0 ELSE v[First(s)] + f[s \ {First(s)}]
      /\ g[s] = IF s = {} THEN 0 ELSE v[First(s)] + g[s \ {First(s)}]
  BY DEF Sums
<1>6. s # {} /\ f[s \ {First(s)}] # g[s \ {First(s)}]
  BY <1>4, <1>5
<1>7. First(s) \in s
  BY <1>6 DEF First
<1>8. Cardinality(s \ {First(s)}) = n - 1 /\ n \in Nat
  BY <1>1, <1>4, <1>7, FS_RemoveElement
<1>9. Cardinality(s \ {First(s)}) \in Nat /\ s \ {First(s)} \in SUBSET Item
  BY <1>1
<1>10. n - 1 \in B
  BY <1>6, <1>8, <1>9
<1> QED
  BY <1>3, <1>8, <1>10

\* The tally of the entries sums up to their number.
LEMMA TallySum ==
  ASSUME NEW E, IsFiniteSet(E), NEW w, \A e \in E : w[e] \in Item
  PROVE  \E g : Sums(Tally(E, w), g) /\ g[Item] = Cardinality(E)
<1> DEFINE G(s) == {e \in E : w[e] \in s}
           g == [s \in SUBSET Item |-> Cardinality(G(s))]
<1>1. \A s : IsFiniteSet(G(s)) /\ Cardinality(G(s)) \in Nat
  BY FS_Subset, FS_CardinalityType
<1>2. ASSUME NEW s \in SUBSET Item
      PROVE  Cardinality(G(s)) = IF s = {} THEN 0
               ELSE Tally(E, w)[First(s)] + Cardinality(G(s \ {First(s)}))
  <2>1. CASE s = {}
    <3>1. G(s) = {}
      BY <2>1
    <3> QED
      BY <2>1, <3>1, FS_EmptySet
  <2>2. CASE s # {}
    <3>1. PICK x : x = First(s)
      OBVIOUS
    <3>2. x \in s /\ x \in Item
      BY <2>2, <3>1 DEF First
    <3>3. PICK T : T = {e \in E : w[e] = x}
      OBVIOUS
    <3>4. PICK R : R = G(s \ {x})
      OBVIOUS
    <3>5. G(s) = T \cup R /\ T \cap R = {}
      BY <3>2, <3>3, <3>4
    <3>6. IsFiniteSet(T) /\ IsFiniteSet(R)
      BY <1>1, <3>3, <3>4, FS_Subset
    <3>7. Cardinality(T \cup R) = Cardinality(T) + Cardinality(R)
      <4>1. Cardinality({}) = 0
        BY FS_EmptySet
      <4>2. Cardinality(T) \in Nat /\ Cardinality(R) \in Nat
        BY <3>6, FS_CardinalityType
      <4>3. Cardinality(T \cup R) = Cardinality(T) + Cardinality(R) - Cardinality(T \cap R)
        BY <3>6, FS_Union
      <4>4. Cardinality(T \cap R) = 0
        BY <3>5, <4>1
      <4> QED
        BY <4>2, <4>3, <4>4
    <3>8. Tally(E, w)[x] = Cardinality(T)
      BY <3>2, <3>3 DEF Tally
    <3> QED
      BY <2>2, <3>1, <3>4, <3>5, <3>7, <3>8
  <2> QED
    BY <2>1, <2>2
<1>3. Sums(Tally(E, w), g)
  <2>1. \A s \in SUBSET Item : g[s] = Cardinality(G(s)) /\ g[s \ {First(s)}] = Cardinality(G(s \ {First(s)}))
    OBVIOUS
  <2>2. \A s \in SUBSET Item : g[s] = IF s = {} THEN 0 ELSE Tally(E, w)[First(s)] + g[s \ {First(s)}]
    BY <1>2, <2>1
  <2>3. PICK k : k = g
    OBVIOUS
  <2>4. k = [s \in SUBSET Item |-> k[s]]
    BY <2>3
  <2>5. \A s \in SUBSET Item : k[s] = IF s = {} THEN 0 ELSE Tally(E, w)[First(s)] + k[s \ {First(s)}]
    BY <2>2, <2>3
  <2>6. Sums(Tally(E, w), k)
    BY <2>4, <2>5 DEF Sums
  <2> QED
    BY <2>3, <2>6
<1>4. g[Item] = Cardinality(E)
  <2>1. G(Item) = E
    OBVIOUS
  <2> QED
    BY <2>1
<1> QED
  BY <1>3, <1>4

\* How HashMultiset adds up the items of a bucket.
LEMMA FullIs ==
  ASSUME NEW b
  PROVE  Multiset!Full(b) <=>
           LET f == CHOOSE g : Sums(bag[b], g)
           IN f[Item] > 0 /\ f[Item] % ItemNum = 0
  BY Zenon DEF Multiset!Full, Multiset!MapThenSumSet, Multiset!MapThenFoldSet, Sums, First

\* A bag that tallies a whole number of blocks, one at least, is full.
LEMMA FullCount ==
  ASSUME IsFiniteSet(Item), NEW b \in Bucket, NEW E, IsFiniteSet(E),
         NEW w, \A e \in E : w[e] \in Item, bag[b] = Tally(E, w),
         Cardinality(E) > 0, Cardinality(E) % ItemNum = 0
  PROVE  Multiset!Full(b)
<1>1. PICK g : Sums(bag[b], g) /\ g[Item] = Cardinality(E)
  BY TallySum
<1>2. PICK f : f = CHOOSE k : Sums(bag[b], k)
  OBVIOUS
<1>3. Sums(bag[b], f)
  BY <1>1, <1>2
<1>4. f[Item] = Cardinality(E)
  BY <1>1, <1>3, SumUnique
<1> QED
  BY <1>2, <1>4, FullIs

\* How many entries of E hold item it.
Count(E, w, it) == Cardinality({e \in E : w[e] = it})

\* How the number changes when entry x comes, when what entry u holds changes
\* from v[u] to w[u], and when entry u goes and l takes its place.
Raised(E, x, w, it) ==
  /\ Count(E, w, it) \in Nat
  /\ Count(E \cup {x}, w, it) = Count(E, w, it) + (IF w[x] = it THEN 1 ELSE 0)
Swapped(E, u, v, w, it) ==
  /\ Count(E, v, it) \in Nat
  /\ Count(E, w, it) = Count(E, v, it) - (IF v[u] = it THEN 1 ELSE 0)
                                       + (IF w[u] = it THEN 1 ELSE 0)
Lowered(E, u, l, v, w, it) ==
  /\ Count(E, v, it) \in Nat
  /\ Count(E \ {l}, w, it) = Count(E, v, it) - (IF v[u] = it THEN 1 ELSE 0)

\* One entry more.
LEMMA CountAdd ==
  ASSUME NEW E, IsFiniteSet(E), NEW x, x \notin E, NEW w, NEW it
  PROVE  Raised(E, x, w, it)
<1>1. PICK S : S = {e \in E : w[e] = it}
  OBVIOUS
<1>2. IsFiniteSet(S) /\ x \notin S /\ Cardinality(S) \in Nat
  BY <1>1, FS_Subset, FS_CardinalityType
<1>3. CASE w[x] = it
  <2>1. {e \in E \cup {x} : w[e] = it} = S \cup {x}
    BY <1>1, <1>3
  <2>2. Cardinality(S \cup {x}) = Cardinality(S) + 1
    BY <1>2, FS_AddElement
  <2>3. Count(E, w, it) = Cardinality(S) /\ Count(E \cup {x}, w, it) = Cardinality(S \cup {x})
    BY <1>1, <2>1 DEF Count
  <2> QED
    BY <1>2, <1>3, <2>2, <2>3 DEF Raised
<1>4. CASE w[x] # it
  <2>1. {e \in E \cup {x} : w[e] = it} = S
    BY <1>1, <1>4
  <2>2. Count(E, w, it) = Cardinality(S) /\ Count(E \cup {x}, w, it) = Cardinality(S)
    BY <1>1, <2>1 DEF Count
  <2> QED
    BY <1>2, <1>4, <2>2 DEF Raised
<1> QED
  BY <1>3, <1>4

\* The same contents are counted alike.
LEMMA CountAlike ==
  ASSUME NEW E, NEW v, NEW w, \A e \in E : v[e] = w[e], NEW it
  PROVE  Count(E, v, it) = Count(E, w, it)
<1>1. {e \in E : v[e] = it} = {e \in E : w[e] = it}
  OBVIOUS
<1> QED
  BY <1>1 DEF Count

\* One entry rewritten: its old content goes, its new one comes.
LEMMA CountRewrite ==
  ASSUME NEW E, IsFiniteSet(E), NEW u \in E, NEW v, NEW w,
         \A e \in E : e # u => v[e] = w[e], NEW it
  PROVE  Swapped(E, u, v, w, it)
<1>1. PICK R : R = E \ {u}
  OBVIOUS
<1>2. u \notin R /\ IsFiniteSet(R)
  BY <1>1, FS_RemoveElement
<1>3. Count(R, v, it) = Count(R, w, it)
  BY <1>1, CountAlike
<1>4. /\ Count(R, v, it) \in Nat
      /\ Count(R \cup {u}, v, it) = Count(R, v, it) + (IF v[u] = it THEN 1 ELSE 0)
      /\ Count(R \cup {u}, w, it) = Count(R, w, it) + (IF w[u] = it THEN 1 ELSE 0)
  <2>1. Raised(R, u, v, it) /\ Raised(R, u, w, it)
    BY <1>2, CountAdd
  <2> QED
    BY <2>1 DEF Raised
<1>5. Count(E, v, it) = Count(R \cup {u}, v, it) /\ Count(E, w, it) = Count(R \cup {u}, w, it)
  <2>1. E = R \cup {u}
    BY <1>1
  <2> QED
    BY <2>1
<1>6. PICK i \in Nat : i = IF v[u] = it THEN 1 ELSE 0
  OBVIOUS
<1>7. PICK j \in Nat : j = IF w[u] = it THEN 1 ELSE 0
  OBVIOUS
<1>8. Count(R, v, it) \in Nat /\ Count(E, v, it) = Count(R, v, it) + i
      /\ Count(E, w, it) = Count(R, v, it) + j
  BY <1>3, <1>4, <1>5, <1>6, <1>7
<1>9. Count(E, w, it) = Count(E, v, it) - i + j /\ Count(E, v, it) \in Nat
  BY <1>8
<1> QED
  BY <1>6, <1>7, <1>9 DEF Swapped

\* Entry u goes and the last one, l, takes its place.
LEMMA CountLose ==
  ASSUME NEW E, IsFiniteSet(E), NEW u \in E, NEW l \in E, NEW v, NEW w,
         \A e \in E \ {l} : w[e] = IF e = u THEN v[l] ELSE v[e], NEW it
  PROVE  Lowered(E, u, l, v, w, it)
<1>1. PICK R : R = E \ {l}
  OBVIOUS
<1>2. l \notin R /\ IsFiniteSet(R)
  BY <1>1, FS_RemoveElement
<1>3. /\ Count(R, v, it) \in Nat
      /\ Count(E, v, it) = Count(R, v, it) + (IF v[l] = it THEN 1 ELSE 0)
  <2>1. Raised(R, l, v, it)
    BY <1>2, CountAdd
  <2>2. E = R \cup {l}
    BY <1>1
  <2> QED
    BY <2>1, <2>2 DEF Raised
<1>4. CASE u = l
  <2>1. Count(R, w, it) = Count(R, v, it)
    BY <1>1, <1>4, CountAlike
  <2>2. PICK j \in Nat : j = IF v[l] = it THEN 1 ELSE 0
    OBVIOUS
  <2>3. Count(R, w, it) = Count(E, v, it) - j /\ Count(E, v, it) \in Nat
    BY <1>3, <2>1, <2>2
  <2> QED
    BY <1>1, <1>4, <2>2, <2>3 DEF Lowered
<1>5. CASE u # l
  <2>1. u \in R /\ w[u] = v[l] /\ \A e \in R : e # u => v[e] = w[e]
    BY <1>1, <1>5
  <2>2. Swapped(R, u, v, w, it)
    BY <1>2, <2>1, CountRewrite
  <2>3. PICK i \in Nat : i = IF v[u] = it THEN 1 ELSE 0
    OBVIOUS
  <2>4. PICK j \in Nat : j = IF v[l] = it THEN 1 ELSE 0
    OBVIOUS
  <2>5. Count(R, w, it) = Count(R, v, it) - i + j
    BY <2>1, <2>2, <2>3, <2>4 DEF Swapped
  <2>6. Count(R, v, it) \in Nat /\ Count(E, v, it) = Count(R, v, it) + j
    BY <1>3, <2>4
  <2>7. Count(R, w, it) = Count(E, v, it) - i /\ Count(E, v, it) \in Nat
    BY <2>5, <2>6
  <2> QED
    BY <1>1, <2>3, <2>7 DEF Lowered
<1> QED
  BY <1>4, <1>5

-----------------------------------------------------------------------------
(* The bags.                                                               *)

Filling == [s \in Slot |-> At(s)]

\* A bucket has finitely many entries, and its bag counts them.
LEMMA BagIs ==
  IInv => \A b \in Bucket :
    /\ IsFiniteSet(Entries(b)) /\ Entries(b) \in SUBSET Slot
    /\ \A s \in Entries(b) : Filling[s] = At(s)
    /\ bag[b] = [it \in Item |-> Count(Entries(b), Filling, it)]
<1> SUFFICES ASSUME IInv, NEW b \in Bucket
             PROVE  /\ IsFiniteSet(Entries(b)) /\ Entries(b) \in SUBSET Slot
                    /\ \A s \in Entries(b) : Filling[s] = At(s)
                    /\ bag[b] = [it \in Item |-> Count(Entries(b), Filling, it)]
  OBVIOUS
<1>1. PICK own \in Owner : Chained(own)
  BY DEF IInv, Structure
<1>2. \A s \in Entries(b) : s \in Slot
  BY <1>1, EntrySlot DEF IInv
<1>3. IsFiniteSet(Slot)
  <2>1. IsFiniteSet(Bucket) /\ IsFiniteSet(1 .. ItemNum)
    BY FS_Interval, HashTableAssumption DEF Bucket
  <2>2. IsFiniteSet(Block)
    BY <2>1, FS_Union, HashTableAssumption DEF Block
  <2> QED
    BY <2>1, <2>2, FS_Product DEF Slot
<1>4. Entries(b) \in SUBSET Slot /\ IsFiniteSet(Entries(b))
  BY <1>2, <1>3, FS_Subset
<1>5. \A s \in Entries(b) : Filling[s] = At(s)
  BY <1>2 DEF Filling
<1>6. ASSUME NEW it PROVE {s \in Entries(b) : At(s) = it} = {s \in Entries(b) : Filling[s] = it}
  BY <1>5
<1>7. bag[b] = [it \in Item |-> Count(Entries(b), Filling, it)]
  BY <1>6 DEF bag, Count
<1> QED
  BY <1>4, <1>5, <1>7

\* The same of the next state.
LEMMA BagIsNext ==
  (IInv => \A b \in Bucket :
    /\ IsFiniteSet(Entries(b)) /\ Entries(b) \in SUBSET Slot
    /\ \A s \in Entries(b) : Filling[s] = At(s)
    /\ bag[b] = [it \in Item |-> Count(Entries(b), Filling, it)])'
BY BagIs, PTL

\* The same in the form the steps need.
LEMMA BagIsPrimed ==
  ASSUME IInv', NEW b \in Bucket
  PROVE  /\ IsFiniteSet(Entries(b)') /\ Entries(b)' \in SUBSET Slot
         /\ \A s \in Entries(b)' : Filling'[s] = At(s)'
         /\ bag'[b] = [it \in Item |-> Count(Entries(b)', Filling', it)]
BY BagIsNext

\* A bucket that is not touched keeps its bag.
LEMMA BagSame ==
  ASSUME IInv, IInv', NEW b \in Bucket, Same(b)
  PROVE  bag'[b] = bag[b]
<1>1. /\ Entries(b)' = Entries(b)
      /\ \A s \in Entries(b) : Filling[s] = At(s) /\ Filling'[s] = At(s)'
      /\ bag[b] = [it \in Item |-> Count(Entries(b), Filling, it)]
      /\ bag'[b] = [it \in Item |-> Count(Entries(b), Filling', it)]
  BY BagIs, BagIsPrimed DEF Same
<1>2. \A s \in Entries(b) : Filling[s] = Filling'[s]
  BY <1>1 DEF Same
<1>3. ASSUME NEW it PROVE Count(Entries(b), Filling, it) = Count(Entries(b), Filling', it)
  BY <1>2, CountAlike
<1> QED
  BY <1>1, <1>3

\* An item more.
LEMMA BagGains ==
  ASSUME IInv, IInv', NEW b \in Bucket, NEW u, NEW it \in Item, Gains(b, u, it)
  PROVE  bag'[b] = [bag[b] EXCEPT ![it] = @ + 1]
<1>1. /\ Entries(b)' = Entries(b) \cup {u} /\ u \notin Entries(b) /\ IsFiniteSet(Entries(b))
      /\ \A s \in Entries(b) : Filling[s] = At(s) /\ Filling'[s] = At(s)'
      /\ Filling'[u] = it
      /\ bag[b] = [i \in Item |-> Count(Entries(b), Filling, i)]
      /\ bag'[b] = [i \in Item |-> Count(Entries(b)', Filling', i)]
  <2>1. Entries(b)' = Entries(b) \cup {u} /\ u \notin Entries(b) /\ At(u)' = it
    BY DEF Gains
  <2>2. /\ \A s \in Entries(b)' : Filling'[s] = At(s)'
        /\ bag'[b] = [i \in Item |-> Count(Entries(b)', Filling', i)]
    BY BagIsPrimed
  <2>3. Filling'[u] = it
    BY <2>1, <2>2
  <2> QED
    BY <2>1, <2>2, <2>3, BagIs
<1>2. \A s \in Entries(b) : Filling[s] = Filling'[s]
  BY <1>1 DEF Gains
<1>3. ASSUME NEW i \in Item
      PROVE  bag[b][i] \in Nat /\ bag'[b][i] = IF i = it THEN bag[b][i] + 1 ELSE bag[b][i]
  <2>1. Count(Entries(b), Filling, i) = Count(Entries(b), Filling', i)
    BY <1>2, CountAlike
  <2>2. Raised(Entries(b), u, Filling', i)
    BY <1>1, CountAdd
  <2>3. bag[b][i] = Count(Entries(b), Filling', i)
    BY <1>1, <2>1
  <2>4. bag'[b][i] = Count(Entries(b) \cup {u}, Filling', i)
    BY <1>1
  <2>5. Filling'[u] = it
    BY <1>1
  <2> QED
    BY <2>2, <2>3, <2>4, <2>5 DEF Raised
<1>4. bag[b] = [i \in Item |-> bag[b][i]] /\ bag'[b] = [i \in Item |-> bag'[b][i]]
  BY <1>1
<1> QED
  BY <1>3, <1>4

\* An item less.
LEMMA BagLoses ==
  ASSUME IInv, IInv', NEW b \in Bucket, NEW u \in Entries(b), NEW l, Loses(b, u, l),
         At(u) \in Item
  PROVE  bag'[b] = [bag[b] EXCEPT ![At(u)] = @ - 1]
<1>1. PICK E : E = Entries(b)
  OBVIOUS
<1>2. PICK it \in Item : it = At(u)
  OBVIOUS
<1>3. /\ Entries(b)' = E \ {l} /\ l \in E /\ u \in E /\ IsFiniteSet(E)
      /\ \A s \in E : Filling[s] = At(s)
      /\ \A s \in E \ {l} : Filling'[s] = At(s)'
      /\ bag[b] = [i \in Item |-> Count(E, Filling, i)]
      /\ bag'[b] = [i \in Item |-> Count(E \ {l}, Filling', i)]
  <2>1. /\ \A s \in Entries(b)' : Filling'[s] = At(s)'
        /\ bag'[b] = [i \in Item |-> Count(Entries(b)', Filling', i)]
    BY BagIsPrimed
  <2>2. Entries(b)' = E \ {l} /\ l \in E
    BY <1>1 DEF Loses
  <2> QED
    BY <1>1, <2>1, <2>2, BagIs
<1>4. \A s \in E \ {l} : Filling'[s] = IF s = u THEN Filling[l] ELSE Filling[s]
  BY <1>1, <1>3 DEF Loses
<1>5. Filling[u] = it
  BY <1>2, <1>3
<1>6. ASSUME NEW i \in Item
      PROVE  bag[b][i] \in Nat /\ bag'[b][i] = IF i = it THEN bag[b][i] - 1 ELSE bag[b][i]
  <2>1. Lowered(E, u, l, Filling, Filling', i)
    BY <1>3, <1>4, CountLose
  <2>2. bag[b][i] = Count(E, Filling, i) /\ bag'[b][i] = Count(E \ {l}, Filling', i)
    BY <1>3
  <2> QED
    BY <1>5, <2>1, <2>2 DEF Lowered
<1> QED
  BY <1>2, <1>3, <1>6

\* An item for another.
LEMMA BagRewrites ==
  ASSUME IInv, IInv', NEW b \in Bucket, NEW u, NEW it \in Item, Rewrites(b, u, it)
  PROVE  bag'[b] = [i \in Item |-> bag[b][i] - (IF i = At(u) THEN 1 ELSE 0)
                                             + (IF i = it THEN 1 ELSE 0)]
<1>1. PICK E : E = Entries(b)
  OBVIOUS
<1>2. PICK old : old = At(u)
  OBVIOUS
<1>3. /\ u \in E /\ IsFiniteSet(E)
      /\ \A s \in E : Filling[s] = At(s) /\ Filling'[s] = At(s)'
      /\ bag[b] = [i \in Item |-> Count(E, Filling, i)]
      /\ bag'[b] = [i \in Item |-> Count(E, Filling', i)]
  BY <1>1, BagIs, BagIsPrimed DEF Rewrites
<1>4. \A s \in E : s # u => Filling[s] = Filling'[s]
  BY <1>1, <1>3 DEF Rewrites
<1>5. Filling[u] = old /\ Filling'[u] = it
  BY <1>1, <1>2, <1>3 DEF Rewrites
<1>6. ASSUME NEW i \in Item
      PROVE  bag'[b][i] = bag[b][i] - (IF i = old THEN 1 ELSE 0) + (IF i = it THEN 1 ELSE 0)
  <2>1. Swapped(E, u, Filling, Filling', i)
    BY <1>3, <1>4, CountRewrite
  <2>2. bag[b][i] = Count(E, Filling, i) /\ bag'[b][i] = Count(E, Filling', i)
    BY <1>3
  <2>3. (IF Filling[u] = i THEN 1 ELSE 0) = (IF i = old THEN 1 ELSE 0)
    BY <1>5
  <2>4. (IF Filling'[u] = i THEN 1 ELSE 0) = (IF i = it THEN 1 ELSE 0)
    BY <1>5
  <2> QED
    BY <2>1, <2>2, <2>3, <2>4 DEF Swapped
<1> QED
  BY <1>2, <1>3, <1>6

\* A bag has what the bucket has.
LEMMA BagHas ==
  ASSUME IInv, NEW b \in Bucket, NEW it \in Item
  PROVE  bag[b][it] > 0 <=> \E s \in Entries(b) : At(s) = it
<1>1. PICK S : S = {s \in Entries(b) : At(s) = it}
  OBVIOUS
<1>2. IsFiniteSet(S) /\ S \in SUBSET Entries(b)
  <2>1. IsFiniteSet(Entries(b))
    BY BagIs
  <2> QED
    BY <1>1, <2>1, FS_Subset
<1>3. Cardinality(S) \in Nat
  BY <1>2, FS_CardinalityType
<1>4. bag[b][it] = Cardinality(S)
  BY <1>1 DEF bag
<1>5. Cardinality(S) = 0 <=> S = {}
  BY <1>2, FS_EmptySet
<1>6. S # {} <=> \E s \in Entries(b) : At(s) = it
  BY <1>1
<1> QED
  BY <1>3, <1>4, <1>5, <1>6

\* The equal items of a bucket are those of its entries that match.
LEMMA EqualHas ==
  ASSUME IInv, NEW k, k.hash \in Bucket, NEW s \in Entries(k.hash), At(s) \in Item,
         Matches(At(s), k.this)
  PROVE  At(s) \in Multiset!Equal(k) /\ Multiset!Equal(k) # {}
<1>1. bag[k.hash][At(s)] > 0
  BY BagHas
<1> QED
  BY <1>1 DEF Multiset!Equal, Matches

\* A bucket without a matching entry has no equal item.
LEMMA EqualNone ==
  ASSUME IInv, NEW k, k.hash \in Bucket, Lacks(k.hash, {}, k.this)
  PROVE  Multiset!Equal(k) = {}
<1> SUFFICES ASSUME NEW it \in Item, bag[k.hash][it] > 0, KeyOf[it] = KeyOf[k.this]
             PROVE  FALSE
  BY DEF Multiset!Equal
<1>1. PICK s \in Entries(k.hash) : At(s) = it
  BY BagHas
<1>2. it # Null
  BY HashTableAssumption
<1> QED
  BY <1>1, <1>2 DEF Lacks, Matches

\* A multiple of the block size leaves no remainder.
LEMMA ModZero ==
  ASSUME NEW m \in Nat, NEW n \in Nat \ {0}
  PROVE  (m * n) % n = 0
<1>1. PICK q \in Int : q = (m * n) \div n
  OBVIOUS
<1>2. PICK r \in 0 .. n - 1 : r = (m * n) % n
  OBVIOUS
<1>3. m * n = n * q + r
  BY <1>1, <1>2
<1>4. r = n * (m - q)
  BY <1>3
<1> QED
  BY <1>2, <1>4

-----------------------------------------------------------------------------
(* When insert grows a chain, all of it is full.                           *)

\* The last block is the only one without a successor.
LEMMA LastBlock ==
  ASSUME TypeOK, NEW b \in Bucket, NEW p \in Chain(b), nxt[p] = Null,
         NEW x \in Chain(b), nxt[x] = Null
  PROVE  x = p
<1>1. nxt \in Links /\ b \in Block /\ b \in Chain(b)
  BY ChainAfter DEF TypeOK, Links, Block
<1>2. \A y \in Chain(b) : y \in Block
  BY <1>1, AfterFacts, ChainAfter DEF Block
<1> DEFINE S == {y \in After(nxt, b) : p \in {y} \cup After(nxt, y)}
<1>3. p \in {b} \cup After(nxt, b)
  BY ChainAfter
<1>4. ASSUME NEW y \in S \cup {b}, nxt[y] # Null PROVE nxt[y] \in S
  <2>1. y \in Chain(b) /\ p \in {y} \cup After(nxt, y)
    BY <1>3, ChainAfter
  <2>2. nxt[y] \in Chain(b) /\ nxt[y] \in Overflow /\ After(nxt, y) = {nxt[y]} \cup After(nxt, nxt[y])
    BY <1>1, <1>2, <1>4, <2>1, ChainOn, AfterNext
  <2>3. y # p
    BY <1>4
  <2>4. nxt[y] \in After(nxt, b)
    <3>1. Closed(nxt, b, After(nxt, b))
      BY <1>1, AfterFacts
    <3> QED
      BY <1>4, <2>1, <3>1, ChainAfter DEF Closed
  <2> QED
    BY <2>1, <2>2, <2>3, <2>4
<1>5. After(nxt, b) \subseteq S
  <2>1. Closed(nxt, b, S)
    BY <1>4 DEF Closed
  <2>2. S \in SUBSET Overflow
    BY <1>1, AfterFacts
  <2> QED
    BY <1>1, <2>1, <2>2, AfterFacts
<1>6. p \in {x} \cup After(nxt, x)
  BY <1>3, <1>5, ChainAfter
<1>7. After(nxt, x) = {}
  BY <1>1, <1>2, AfterFacts
<1> QED
  BY <1>6, <1>7

\* The bucket is full: its entries are a whole number of blocks.
LEMMA GrowFull ==
  ASSUME IInv, CInv, NEW c \in Core, pc[c] = "grow", NEW h, h = call[c].hash
  PROVE  h \in Bucket /\ Multiset!Full(h)
<1>1. PICK own \in Owner : Chained(own) /\ \A d \in Core : Holds(own, d)
  BY DEF IInv, Structure
<1>2. PICK p : p = pre[c]
  OBVIOUS
<1>3. /\ TypeOK /\ h \in Bucket /\ p \in Chain(h) /\ nxt[p] = Null /\ cnt[p] = ItemNum
  BY <1>1, <1>2 DEF CInv, Track, IInv, Holds, Active
<1>4. ASSUME NEW x \in Chain(h) PROVE x \in Block /\ own[x] = h /\ cnt[x] = ItemNum
  <2>1. x \in Block /\ own[x] = h
    BY <1>1, <1>3, ChainOwned
  <2>2. CASE nxt[x] = Null
    BY <1>3, <2>1, <2>2, LastBlock
  <2>3. CASE nxt[x] # Null
    BY <2>1, <2>3 DEF IInv, ChainFull
  <2> QED
    BY <2>1, <2>2, <2>3
<1>5. ASSUME NEW s PROVE s \in Entries(h) <=> s \in Chain(h) \X (1 .. ItemNum)
  <2>1. ASSUME NEW x \in Chain(h), NEW i PROVE <<x, i>> \notin Transient
    <3>1. ASSUME NEW d \in Core PROVE <<x, i>> \notin Moving(d)
      <4>1. CASE d = c
        BY <4>1 DEF Moving
      <4>2. CASE d # c
        BY <1>1, <1>4, <4>2, OthersMove DEF Active
      <4> QED
        BY <4>1, <4>2
    <3> QED
      BY <3>1, TransientShape
  <2>2. (\E x \in Chain(h) : \E i \in 1 .. cnt[x] : s = <<x, i>>)
          <=> (\E x \in Chain(h) : \E i \in 1 .. ItemNum : s = <<x, i>>)
    BY <1>4
  <2> QED
    BY <2>1, <2>2, EntryShape
<1>6. Entries(h) = Chain(h) \X (1 .. ItemNum)
  BY <1>5, Zenon
<1>7. IsFiniteSet(Chain(h)) /\ Cardinality(Chain(h)) \in Nat \ {0}
  <2>1. Chain(h) \in SUBSET Block /\ h \in Chain(h)
    BY <1>1, <1>3, ChainOwned
  <2>2. IsFiniteSet(Bucket)
    BY FS_Interval, HashTableAssumption DEF Bucket
  <2>3. IsFiniteSet(Block)
    BY <2>2, FS_Union, HashTableAssumption DEF Block
  <2>4. IsFiniteSet(Chain(h)) /\ Cardinality(Chain(h)) \in Nat
    BY <2>1, <2>3, FS_Subset, FS_CardinalityType
  <2> QED
    BY <2>1, <2>4, FS_EmptySet
<1>8. PICK m \in Nat \ {0} : m = Cardinality(Chain(h))
  BY <1>7
<1>9. PICK n \in Nat \ {0} : n = ItemNum
  BY HashTableAssumption
<1>10. Cardinality(Entries(h)) = m * n
  <2>1. IsFiniteSet(1 .. n) /\ Cardinality(1 .. n) = n
    BY FS_Interval
  <2>2. Cardinality(Chain(h) \X (1 .. n)) = m * n
    BY <1>7, <1>8, <2>1, FS_Product
  <2> QED
    BY <1>6, <1>9, <2>2
<1>11. m * n > 0 /\ (m * n) % n = 0
  BY ModZero
<1>12. PICK E : E = Entries(h)
  OBVIOUS
<1>13. PICK w : w = Filling
  OBVIOUS
<1>14. IsFiniteSet(E) /\ (\A e \in E : w[e] \in Item) /\ bag[h] = Tally(E, w)
  <2>1. /\ IsFiniteSet(E) /\ \A s \in E : w[s] = At(s)
        /\ bag[h] = [it \in Item |-> Count(E, w, it)]
    BY <1>3, <1>12, <1>13, BagIs
  <2> QED
    BY <1>3, <1>12, <2>1 DEF Tally, Count, CInv, Filled
<1>15. Cardinality(E) > 0 /\ Cardinality(E) % ItemNum = 0
  BY <1>9, <1>10, <1>11, <1>12
<1> QED
  BY <1>3, <1>14, <1>15, FullCount, HashTableAssumption

-----------------------------------------------------------------------------
(* What a core knows of the answer it is about to give.                    *)

Knows(c) ==
  LET k == call[c]
      h == call[c].hash
  IN /\ pc[c] \notin {"unlock", "return"} => res[c] = "ok"
     /\ pc[c] # "idle" /\ k.op = "show" => res[c] = "ok"
     /\ pc[c] = "walk" => slot[c] = Null
     /\ pc[c] \in {"walk", "grow"} /\ k.op = "insert" => k.at = "none"
     /\ pc[c] = "lock" /\ k.op = "insert" /\ slot[c] = Null => k.at = "none"
     /\ pc[c] # "idle" /\ k.op = "insert" /\ k.cmp /\ k.at = "none" => k.cb # "null"
     /\ pc[c] = "copy" => Counted(h, slot[c]) /\ (k.at # "none" => Proceeds(k))
     /\ pc[c] = "seek" =>
          Proceeds(k) /\ slot[c] \in Entries(h) /\ Matches(At(slot[c]), k.this)

\* Other cores learn and forget nothing.
Aside(c) == Alone(c) /\ \A d \in Core \ {c} : res'[d] = res[d]

\* A core whose bucket is untouched knows what it knew.
LEMMA OthersKnow ==
  ASSUME NEW c \in Core, Aside(c), NEW d \in Core \ {c}, Knows(d),
         NEW h, h = call[d].hash, pc[d] \in Active => Untouched(h)
  PROVE  Knows(d)'
<1>1. /\ pc'[d] = pc[d] /\ call'[d] = call[d] /\ slot'[d] = slot[d] /\ res'[d] = res[d]
  BY DEF Aside, Alone
<1>2. PICK u : u = slot[d]
  OBVIOUS
<1>3. CASE pc[d] = "copy"
  <2>1. Untouched(h) /\ Counted(h, u)
    BY <1>2, <1>3 DEF Active, Knows
  <2>2. u[1] \in Chain(h)' /\ u[2] \in 1 .. cnt'[u[1]]
    BY <2>1 DEF Untouched, Counted
  <2> QED
    BY <1>1, <1>2, <1>3, <2>2 DEF Knows, Counted, Proceeds
<1>4. CASE pc[d] = "seek"
  <2>1. Untouched(h) /\ u \in Entries(h) /\ Matches(At(u), call[d].this)
    BY <1>2, <1>4 DEF Active, Knows
  <2>2. u \in Entries(h)' /\ At(u)' = At(u)
    BY <2>1 DEF Untouched
  <2> QED
    BY <1>1, <1>2, <1>4, <2>1, <2>2 DEF Knows, Proceeds, At, Matches
<1>5. CASE pc[d] \notin {"copy", "seek"}
  BY <1>1, <1>5 DEF Knows
<1> QED
  BY <1>3, <1>4, <1>5

\* Entering and leaving an operation.
LEMMA BorderKnows ==
  ASSUME FreePosRule, EqualAnswered, IInv, NEW c \in Core, Knows(c),
         \/ \E k \in Calls : Begin(c, k)
         \/ Reject(c) \/ Lock(c) \/ Unlock(c) \/ Return(c)
  PROVE  Knows(c)'
<1>1. TypeOK
  BY DEF IInv
<1>2. ASSUME NEW k \in Calls, Begin(c, k) PROVE Knows(c)'
  <2>1. /\ pc'[c] = "lock" /\ call'[c] = k /\ slot'[c] = FreePos(k) /\ res'[c] = "ok"
        /\ KnowsFreePos(k) /\ k \in Call
    BY <1>1, <1>2, HashTableAssumption DEF TypeOK, Begin, Goto
  <2>2. k.op = "insert" /\ k.at # "none" => FreePos(k) # Null
    <3> SUFFICES ASSUME k.op = "insert", k.at # "none" PROVE FreePos(k) # Null
      OBVIOUS
    <3>1. k.at = "head" /\ k.hash \in Block
      BY <2>1, CallShape DEF FreePosRule, Block
    <3>2. cnt[k.hash] \in 0 .. ItemNum /\ cnt[k.hash] < ItemNum /\ ItemNum \in Nat
      BY <1>1, <2>1, <3>1, HashTableAssumption DEF KnowsFreePos, TypeOK
    <3>3. FreePos(k) = <<k.hash, cnt[k.hash] + 1>>
      BY <3>1 DEF FreePos
    <3>4. cnt[k.hash] + 1 \in 1 .. ItemNum
      BY <3>2
    <3>5. FreePos(k) \in Slot
      BY <3>1, <3>3, <3>4 DEF Slot
    <3> QED
      BY <3>5, HashTableAssumption
  <2> QED
    BY <2>1, <2>2 DEF Knows, EqualAnswered
<1>3. CASE Reject(c)
  <2>1. /\ pc[c] = "lock" /\ pc'[c] = "return" /\ call'[c] = call[c] /\ res'[c] = res[c]
    BY <1>1, <1>3 DEF TypeOK, Reject, Goto, local
  <2> QED
    BY <2>1 DEF Knows
<1>4. CASE Lock(c)
  <2>1. /\ pc[c] = "lock" /\ call'[c] = call[c] /\ slot'[c] = slot[c] /\ res'[c] = res[c]
        /\ pc'[c] = IF slot[c] = Null THEN "walk" ELSE "place"
    BY <1>1, <1>4 DEF TypeOK, Lock, Goto
  <2> QED
    BY <2>1 DEF Knows
<1>5. CASE Unlock(c)
  <2>1. /\ pc[c] = "unlock" /\ res'[c] = res[c] /\ slot'[c] = slot[c]
        /\ \/ pc'[c] = "return" /\ call'[c] = call[c]
           \/ pc'[c] = "lock" /\ call[c].op = "show" /\ call' = [call EXCEPT ![c].hash = @ + 1]
    BY <1>1, <1>5 DEF TypeOK, Unlock, Goto
  <2>2. CASE pc'[c] = "return"
    BY <2>1, <2>2 DEF Knows
  <2>3. CASE pc'[c] # "return"
    <3>1. call[c] \in [op : {"show"}, hash : Bucket, show : BOOLEAN]
      BY <1>1, <2>1, <2>3 DEF TypeOK, Call
    <3>2. call'[c].op = "show" /\ res'[c] = "ok"
      BY <1>1, <2>1, <2>3, <3>1 DEF TypeOK, Knows
    <3> QED
      BY <2>1, <2>3, <3>2 DEF Knows
  <2> QED
    BY <2>2, <2>3
<1>6. CASE Return(c)
  <2>1. pc'[c] = "idle" /\ res'[c] = "ok"
    BY <1>1, <1>6 DEF TypeOK, Return, Goto
  <2> QED
    BY <2>1 DEF Knows
<1> QED
  BY <1>2, <1>3, <1>4, <1>5, <1>6

\* A step inside an operation.
LEMMA WorkKnows ==
  ASSUME IInv, CInv, TypeOK', NEW c \in Core, Knows(c), Work(c)
  PROVE  Knows(c)'
<1>1. TypeOK /\ Track(c) /\ call'[c] = call[c]
  BY DEF IInv, CInv, Work, TypeOK, WalkOn, EndOfChain, Found, InsertHit, TakeSlot, Place, NoSpace,
         Copy, Grow, RemoveHit, Seek, Move, Drop, Goto, heap, local
<1>2. PICK own \in Owner : Chained(own) /\ \A d \in Core : Holds(own, d)
  BY DEF IInv, Structure
<1>3. PICK h : h = call[c].hash
  OBVIOUS
<1>4. CASE WalkOn(c)
  <2>1. pc[c] = "walk" /\ pc'[c] = "walk" /\ slot'[c] = slot[c] /\ res'[c] = res[c]
    BY <1>1, <1>4 DEF WalkOn, TypeOK
  <2> QED
    BY <1>1, <2>1 DEF Knows
<1>5. CASE EndOfChain(c)
  <2>1. /\ pc[c] = "walk" /\ pc'[c] = IF call[c].op = "insert" THEN "grow" ELSE "unlock"
        /\ call[c].op \notin {"search", "remove"} => res'[c] = res[c]
    BY <1>1, <1>5 DEF EndOfChain, TypeOK, Goto
  <2> QED
    BY <1>1, <2>1 DEF Knows
<1>6. CASE Found(c) \/ InsertHit(c) \/ NoSpace(c) \/ (Place(c) /\ ~Proceeds(call[c]))
  <2>1. pc[c] # "idle" /\ pc'[c] = "unlock" /\ call[c].op # "show"
    BY <1>1, <1>2, <1>6 DEF Found, InsertHit, NoSpace, Place, TypeOK, Goto, Holds
  <2> QED
    BY <1>1, <2>1 DEF Knows
<1>7. CASE Copy(c) \/ Drop(c)
  <2>1. /\ pc'[c] = "unlock" /\ pc[c] \in {"copy", "drop"} /\ res'[c] = res[c]
    BY <1>1, <1>7 DEF Copy, Drop, TypeOK, Goto, local
  <2> QED
    BY <1>1, <2>1 DEF Knows
<1>8. CASE TakeSlot(c) \/ (Place(c) /\ Proceeds(call[c]))
  <2>1. PICK x : x = cur[c]
    OBVIOUS
  <2>2. /\ pc[c] \in {"walk", "place"} /\ pc'[c] = "copy" /\ res'[c] = res[c]
        /\ UNCHANGED nxt /\ cnt' = [cnt EXCEPT ![x] = @ + 1] /\ call[c].op = "insert"
    BY <1>1, <1>2, <1>8, <2>1 DEF TakeSlot, Place, Holds, TypeOK, Goto
  <2>3. x \in Block /\ x \in Chain(h) /\ cnt[x] \in Nat /\ slot'[c] = <<x, cnt[x] + 1>>
    <3>1. x \in Block /\ h \in Bucket /\ cnt[x] \in Nat
      BY <1>1, <1>2, <1>3, <2>1, <2>2 DEF Holds, Active, TypeOK
    <3>2. CASE TakeSlot(c)
      BY <1>1, <1>3, <2>1, <3>1, <3>2 DEF TakeSlot, Track, TypeOK
    <3>3. CASE Place(c)
      <4>1. pc[c] = "place" /\ slot'[c] = slot[c]
        BY <3>3 DEF Place
      <4>2. x = h /\ slot[c] = <<h, cnt[h] + 1>>
        BY <1>2, <1>3, <2>1, <4>1 DEF Holds
      <4> QED
        BY <3>1, <4>1, <4>2, ChainAfter
    <3> QED
      BY <1>8, <3>1, <3>2, <3>3
  <2>4. cnt'[x] = cnt[x] + 1 /\ Chain(h)' = Chain(h)
    BY <1>1, <2>2, <2>3, ChainAfter DEF TypeOK
  <2>5. slot'[c][1] \in Chain(h)' /\ slot'[c][2] \in 1 .. cnt'[slot'[c][1]]
    BY <2>3, <2>4
  <2>6. call[c].at # "none" => Proceeds(call[c])
    BY <1>8, <2>2 DEF Knows, TakeSlot
  <2>7. res'[c] = "ok"
    BY <2>2 DEF Knows
  <2> QED
    BY <1>1, <1>3, <2>2, <2>5, <2>6, <2>7 DEF Knows, Counted, Proceeds
<1>9. ASSUME NEW x \in Overflow, Grow(c, x) PROVE Knows(c)'
  <2>1. /\ pc[c] = "grow" /\ pc'[c] = "copy" /\ res'[c] = res[c] /\ slot'[c] = <<x, 1>>
        /\ nxt' = [nxt EXCEPT ![pre[c]] = x, ![x] = Null] /\ cnt' = [cnt EXCEPT ![x] = 1]
        /\ x \in pool
    BY <1>1, <1>9 DEF Grow, TypeOK, Goto
  <2>2. call[c].op = "insert" /\ call[c].at = "none"
    BY <1>2, <2>1 DEF Holds, Knows
  <2>3. PICK p : p = pre[c]
    OBVIOUS
  <2>4. p \in Chain(h) /\ p \in Block /\ x \in Block /\ h \in Bucket
    BY <1>1, <1>2, <1>3, <2>1, <2>3 DEF Track, Holds, Active, Block
  <2>5. x \in Chain(h)'
    <3>1. nxt \in Links /\ nxt' \in Links /\ h \in Block /\ x # Null
      BY <1>1, <2>4, HashTableAssumption DEF TypeOK, Links, Block
    <3>2. own[x] = Null /\ own[p] = h /\ h # Null /\ nxt[p] = Null
      BY <1>2, <1>3, <2>1, <2>3, <2>4, HashTableAssumption DEF Chained, Holds, Active, Block
    <3>3. nxt[x] = Null /\ x # p
      BY <1>2, <2>4, <3>2 DEF Chained
    <3>4. /\ nxt'[p] = x /\ nxt'[x] = Null
          /\ \A y \in Block : y \notin {p, x} => nxt'[y] = nxt[y]
      BY <1>1, <2>1, <2>3, <2>4, <3>3 DEF TypeOK
    <3>5. p \in {h} \cup After(nxt, h)
      BY <2>4, ChainAfter
    <3>6. After(nxt', h) = After(nxt, h) \cup {x}
      BY <3>1, <3>2, <3>3, <3>4, <3>5, AfterLink
    <3> QED
      BY <3>6, ChainAfter
  <2>6. cnt'[x] = 1
    BY <1>1, <2>1, <2>4 DEF TypeOK
  <2>7. res'[c] = "ok"
    BY <2>1 DEF Knows
  <2> QED
    BY <1>1, <1>3, <2>1, <2>2, <2>5, <2>6, <2>7 DEF Knows, Counted
<1>10. CASE RemoveHit(c)
  <2>1. /\ pc[c] = "walk" /\ Hits(c) # {} /\ UNCHANGED <<nxt, cnt, mem, pool>> /\ Alone(c)
        /\ call[c].op = "remove"
    BY <1>1, <1>10 DEF RemoveHit, TypeOK, Alone, heap, Goto
  <2>2. \/ pc'[c] = "unlock"
        \/ /\ pc'[c] = "seek" /\ res'[c] = res[c] /\ slot'[c] = <<cur[c], Hit(c)>>
           /\ Proceeds(call[c])
    BY <1>1, <1>10 DEF RemoveHit, TypeOK, Goto
  <2>3. PICK u : u = <<cur[c], Hit(c)>>
    OBVIOUS
  <2>4. u \in Entries(h) /\ Matches(At(u), call[c].this)
    BY <1>3, <2>1, <2>3, HitEntry
  <2>5. u \in Entries(h)' /\ At(u)' = At(u)
    BY <2>1, <2>2, <2>4, QuietSame
  <2>6. res[c] = "ok"
    BY <2>1 DEF Knows
  <2> QED
    BY <1>1, <1>3, <2>1, <2>2, <2>3, <2>4, <2>5, <2>6 DEF Knows, Proceeds, At, Matches
<1>11. CASE Seek(c)
  <2>1. /\ pc[c] = "seek" /\ pc'[c] = "seek" /\ UNCHANGED <<nxt, cnt, mem, pool>> /\ Alone(c)
        /\ res'[c] = res[c] /\ slot'[c] = slot[c]
    BY <1>1, <1>11 DEF Seek, TypeOK, Alone, heap
  <2>2. PICK u : u = slot[c]
    OBVIOUS
  <2>3. u \in Entries(h) /\ Matches(At(u), call[c].this)
    BY <1>3, <2>1, <2>2 DEF Knows
  <2>4. u \in Entries(h)' /\ At(u)' = At(u)
    BY <2>1, <2>3, QuietSame
  <2> QED
    BY <1>1, <1>3, <2>1, <2>2, <2>3, <2>4 DEF Knows, Proceeds, At, Matches
<1>12. CASE Move(c)
  <2>1. pc[c] = "seek" /\ pc'[c] = "drop" /\ res'[c] = res[c]
    BY <1>1, <1>12 DEF Move, TypeOK, Goto, local
  <2> QED
    BY <1>1, <2>1 DEF Knows
<1> QED
  BY <1>4, <1>5, <1>6, <1>7, <1>8, <1>9, <1>10, <1>11, <1>12 DEF Work

\* Who else is inside an operation works on another bucket.
LEMMA OthersElsewhere ==
  ASSUME IInv, TypeOK', NEW c \in Core, Work(c), NEW d \in Core \ {c}, pc[d] \in Active,
         NEW h, h = call[d].hash
  PROVE  Untouched(h)
<1>1. PICK own \in Owner : Chained(own) /\ \A e \in Core : Holds(own, e)
  BY DEF IInv, Structure
<1>2. TypeOK /\ LockDiscipline /\ Serialised
  BY DEF IInv
<1>3. pc[c] \in Active
  BY <1>2, WorkStays DEF TypeOK, Active
<1>4. h \in Bucket /\ h # call[c].hash
  BY <1>1, <1>2, <1>3, Apart DEF Engaged
<1>5. PICK b \in Bucket : b = h
  BY <1>4
<1>6. Untouched(b)
  BY <1>4, <1>5, BucketFrame
<1> QED
  BY <1>5, <1>6

\* A step of one core leaves the local variables of the others alone.
LEMMA StepAside ==
  ASSUME TypeOK, NEW c \in Core,
         \/ \E k \in Calls : Begin(c, k)
         \/ Reject(c) \/ Lock(c) \/ Work(c) \/ Unlock(c) \/ Return(c)
  PROVE  Aside(c)
<1>1. CASE \/ \E k \in Calls : Begin(c, k)
           \/ Reject(c) \/ Lock(c) \/ Unlock(c) \/ Return(c)
  BY <1>1 DEF TypeOK, Aside, Alone, Begin, Reject, Lock, Unlock, Return, local, Goto
<1>2. CASE Work(c)
  BY <1>2 DEF TypeOK, Aside, Alone, Work, WalkOn, EndOfChain, Found, InsertHit, TakeSlot, Place,
         NoSpace, Copy, Grow, RemoveHit, Seek, Move, Drop, Goto, local
<1> QED
  BY <1>1, <1>2

\* Outside an operation no block is touched.
LEMMA BorderQuiet ==
  ASSUME TypeOK, NEW c \in Core,
         \/ \E k \in Calls : Begin(c, k)
         \/ Reject(c) \/ Lock(c) \/ Unlock(c) \/ Return(c)
  PROVE  \A b : Untouched(b) /\ Same(b)
<1>1. Alone(c) /\ UNCHANGED <<nxt, cnt, mem, pool>>
  BY DEF TypeOK, Alone, Begin, Reject, Lock, Unlock, Return, heap, local, Goto
<1>2. pc[c] \notin {"copy", "drop"} /\ pc'[c] \notin {"copy", "drop"}
  BY DEF TypeOK, Begin, Reject, Lock, Unlock, Return, Goto
<1> QED
  BY <1>1, <1>2, QuietSame DEF Untouched, Same

\* Every step keeps what every core knows.
LEMMA StepKnows ==
  ASSUME FreePosRule, EqualAnswered, IInv, CInv, IInv', [Next]_vars,
         \A c \in Core : Knows(c), NEW e \in Core
  PROVE  Knows(e)'
<1>1. TypeOK /\ TypeOK'
  BY DEF IInv
<1>2. CASE UNCHANGED vars
  <2>1. UNCHANGED <<nxt, cnt, mem, pool, pc, call, cur, pre, slot, res>>
    BY <1>2 DEF vars
  <2>2. PICK h : h = call[e].hash
    OBVIOUS
  <2>3. PICK u : u = slot[e]
    OBVIOUS
  <2>4. Chain(h)' = Chain(h)
    BY <2>1, ChainAfter
  <2>5. \A s : s \in Transient' <=> s \in Transient
    BY <2>1 DEF Transient
  <2>6. u \in Entries(h) => u \in Entries(h)'
    BY <2>1, <2>4, <2>5, EntryShape, EntryShapeNext
  <2>7. Counted(h, u) => Counted(h, u)'
    BY <2>1, <2>4 DEF Counted
  <2>8. Knows(e)
    OBVIOUS
  <2> QED
    BY <2>1, <2>2, <2>3, <2>6, <2>7, <2>8 DEF Knows, At, Matches, Proceeds, Counted
<1>3. CASE Next
  <2>1. PICK c \in Core :
          \/ \E k \in Calls : Begin(c, k)
          \/ Reject(c) \/ Lock(c) \/ Work(c) \/ Unlock(c) \/ Return(c)
    BY <1>3, NextCases
  <2>2. Aside(c)
    BY <1>1, <2>1, StepAside
  <2>3. CASE Work(c)
    <3>1. CASE e = c
      BY <1>1, <2>3, <3>1, WorkKnows
    <3>2. CASE e # c
      <4>1. PICK h : h = call[e].hash
        OBVIOUS
      <4>2. pc[e] \in Active => Untouched(h)
        BY <1>1, <2>3, <3>2, <4>1, OthersElsewhere
      <4> QED
        BY <2>2, <3>2, <4>1, <4>2, OthersKnow
    <3> QED
      BY <3>1, <3>2
  <2>4. CASE \/ \E k \in Calls : Begin(c, k)
             \/ Reject(c) \/ Lock(c) \/ Unlock(c) \/ Return(c)
    <3>1. CASE e = c
      BY <2>4, <3>1, BorderKnows
    <3>2. CASE e # c
      <4>1. PICK h : h = call[e].hash
        OBVIOUS
      <4>2. Untouched(h)
        BY <1>1, <2>4, BorderQuiet
      <4> QED
        BY <2>2, <3>2, <4>1, <4>2, OthersKnow
    <3> QED
      BY <3>1, <3>2
  <2> QED
    BY <2>1, <2>3, <2>4
<1> QED
  BY <1>2, <1>3

-----------------------------------------------------------------------------
(* Steps of the table as steps of the multiset.                            *)

Phase(c) ==
  IF pc[c] = "idle" THEN "idle"
  ELSE IF pc[c] = "return" \/ (pc[c] \in {"unlock", "drop"} /\ call[c].op # "show")
       THEN "applied" ELSE "called"
Reply(c) ==
  IF Phase(c) # "applied" THEN Null
  ELSE IF call[c].op = "search" /\ slot[c] = Null THEN "notfound"
  ELSE res[c]

\* Where the calls are, core by core.
LEMMA StageIs ==
  /\ stage = [c \in Core |-> Phase(c)] /\ ans = [c \in Core |-> Reply(c)]
  /\ stage' = [c \in Core |-> Phase(c)'] /\ ans' = [c \in Core |-> Reply(c)']
<1>1. \A c \in Core : (CASE pc[c] = "idle" -> "idle"
      [] pc[c] = "return" \/ (pc[c] \in {"unlock", "drop"} /\ call[c].op # "show")
           -> "applied"
      [] OTHER -> "called") = Phase(c)
  BY DEF Phase
<1>2. \A c \in Core : (CASE pc'[c] = "idle" -> "idle"
      [] pc'[c] = "return" \/ (pc'[c] \in {"unlock", "drop"} /\ call'[c].op # "show")
           -> "applied"
      [] OTHER -> "called") = Phase(c)'
  BY DEF Phase
<1>3. stage = [c \in Core |-> Phase(c)]
  BY <1>1 DEF stage
<1>4. stage' = [c \in Core |-> Phase(c)']
  BY <1>2 DEF stage
<1>5. ans = [c \in Core |-> Reply(c)]
  BY <1>3 DEF ans, Reply
<1>6. ans' = [c \in Core |-> Reply(c)']
  BY <1>4 DEF ans, Reply
<1> QED
  BY <1>3, <1>4, <1>5, <1>6

\* A step moves one call.
LEMMA OneCall ==
  ASSUME TypeOK, TypeOK', NEW c \in Core, Aside(c), NEW p, p = Phase(c)', NEW a, a = Reply(c)',
         NEW k, k = call'[c]
  PROVE  /\ stage' = [stage EXCEPT ![c] = p] /\ ans' = [ans EXCEPT ![c] = a]
         /\ call' = [call EXCEPT ![c] = k]
         /\ stage[c] = Phase(c) /\ ans[c] = Reply(c)
<1>1. ASSUME NEW d \in Core \ {c}
      PROVE  Phase(d)' = Phase(d) /\ Reply(d)' = Reply(d) /\ call'[d] = call[d]
  <2>1. /\ pc'[d] = pc[d] /\ call'[d] = call[d] /\ slot'[d] = slot[d] /\ res'[d] = res[d]
    BY DEF Aside, Alone
  <2>2. Phase(d)' = Phase(d)
    BY <2>1 DEF Phase
  <2> QED
    BY <2>1, <2>2 DEF Reply
<1>2. stage' = [stage EXCEPT ![c] = p]
  BY <1>1, StageIs
<1>3. ans' = [ans EXCEPT ![c] = a]
  BY <1>1, StageIs
<1>4. call' = [call EXCEPT ![c] = k]
  BY <1>1 DEF TypeOK
<1>5. stage[c] = Phase(c) /\ ans[c] = Reply(c)
  BY StageIs
<1> QED
  BY <1>2, <1>3, <1>4, <1>5

\* The bags of the other buckets stay.
LEMMA BagsStay ==
  ASSUME IInv, IInv', \A b \in Bucket : Same(b)
  PROVE  bag' = bag
<1>1. \A b \in Bucket : bag'[b] = bag[b]
  BY BagSame
<1> QED
  BY <1>1 DEF bag

\* All bags but one stay.
LEMMA BagsBut ==
  ASSUME IInv, IInv', NEW h \in Bucket, \A b \in Bucket : b # h => Same(b), NEW B, bag'[h] = B
  PROVE  bag' = [bag EXCEPT ![h] = B]
<1>1. \A b \in Bucket : b # h => bag'[b] = bag[b]
  BY BagSame
<1>2. bag = [b \in Bucket |-> bag[b]] /\ bag' = [b \in Bucket |-> bag'[b]]
  BY DEF bag
<1> QED
  BY <1>1, <1>2

\* What a step of core c is to the multiset.
Effect(c) ==
  \/ UNCHANGED <<bag, stage, call, ans>>
  \/ \E k \in Calls : Multiset!Invoke(c, k)
  \/ Multiset!Search(c) \/ Multiset!InsertOnEqual(c) \/ Multiset!InsertAt(c)
  \/ Multiset!InsertNew(c) \/ Multiset!Remove(c)
  \/ Multiset!Show(c) \/ Multiset!ShowNext(c) \/ Multiset!Respond(c)

\* A step that does not change where the call is.
LEMMA NoEffect ==
  ASSUME TypeOK, TypeOK', NEW c \in Core, Aside(c), bag' = bag, call'[c] = call[c],
         Phase(c)' = Phase(c), Reply(c)' = Reply(c)
  PROVE  Effect(c)
<1>1. PICK p : p = Phase(c)'
  OBVIOUS
<1>2. PICK a : a = Reply(c)'
  OBVIOUS
<1>3. /\ stage' = [stage EXCEPT ![c] = p] /\ ans' = [ans EXCEPT ![c] = a]
      /\ call' = [call EXCEPT ![c] = call'[c]] /\ stage[c] = p /\ ans[c] = a
  BY <1>1, <1>2, OneCall
<1>4. stage' = stage /\ ans' = ans
  BY <1>3, StageIs
<1>5. call' = call
  BY <1>3 DEF TypeOK
<1> QED
  BY <1>4, <1>5 DEF Effect

\* A step that decides the result of the call.
LEMMA Decides ==
  ASSUME TypeOK, TypeOK', NEW c \in Core, Aside(c), call'[c] = call[c],
         Phase(c) = "called", Phase(c)' = "applied", NEW a, a = Reply(c)'
  PROVE  Multiset!Answer(c, a) /\ UNCHANGED call /\ stage[c] = "called"
<1>1. PICK p : p = Phase(c)'
  OBVIOUS
<1>2. /\ stage' = [stage EXCEPT ![c] = p] /\ ans' = [ans EXCEPT ![c] = a]
      /\ call' = [call EXCEPT ![c] = call'[c]] /\ stage[c] = Phase(c)
  BY <1>1, OneCall
<1>3. call' = call
  BY <1>2 DEF TypeOK
<1> QED
  BY <1>1, <1>2, <1>3 DEF Multiset!Answer

\* Steps that leave the core inside an operation with nothing decided, or decided
\* already.
LEMMA QuietEffect ==
  ASSUME TypeOK, TypeOK', NEW c \in Core, Aside(c), bag' = bag, call'[c] = call[c],
         \/ pc[c] \notin {"idle", "return", "unlock", "drop"} /\ pc'[c] \notin {"idle", "return", "unlock", "drop"}
         \/ call[c].op = "show" /\ pc[c] \notin {"idle", "return"} /\ pc'[c] \notin {"idle", "return"}
         \/ /\ call[c].op # "show" /\ pc[c] \in {"unlock", "drop"} /\ pc'[c] \in {"unlock", "return"}
            /\ slot'[c] = slot[c] /\ res'[c] = res[c]
  PROVE  Effect(c)
<1>1. Phase(c)' = Phase(c)
  BY DEF Phase
<1>2. Reply(c)' = Reply(c)
  BY <1>1 DEF Reply, Phase
<1> QED
  BY <1>1, <1>2, NoEffect

\* Entering and leaving an operation.
LEMMA BorderEffect ==
  ASSUME IInv, IInv', NEW c \in Core, Knows(c),
         \/ \E k \in Calls : Begin(c, k)
         \/ Reject(c) \/ Lock(c) \/ Unlock(c) \/ Return(c)
  PROVE  Effect(c)
<1>1. TypeOK /\ TypeOK'
  BY DEF IInv
<1>2. Aside(c)
  BY <1>1, StepAside
<1>3. bag' = bag
  BY <1>1, BorderQuiet, BagsStay
<1>4. PICK own \in Owner : Chained(own) /\ Holds(own, c)
  BY DEF IInv, Structure
<1>5. ASSUME NEW k \in Calls, Begin(c, k) PROVE Multiset!Invoke(c, k)
  <2>1. pc[c] = "idle" /\ pc'[c] = "lock" /\ call'[c] = k
    BY <1>1, <1>5 DEF TypeOK, Begin, Goto
  <2>2. Phase(c) = "idle" /\ Phase(c)' = "called" /\ Reply(c) = Null /\ Reply(c)' = Null
    BY <2>1 DEF Phase, Reply
  <2>3. /\ stage' = [stage EXCEPT ![c] = "called"] /\ ans' = [ans EXCEPT ![c] = Null]
        /\ call' = [call EXCEPT ![c] = k] /\ stage[c] = "idle" /\ ans[c] = Null
    BY <1>1, <1>2, <2>1, <2>2, OneCall
  <2>4. ans' = ans
    BY <2>3, StageIs
  <2> QED
    BY <1>3, <2>3, <2>4 DEF Multiset!Invoke
<1>6. CASE Reject(c)
  <2>1. /\ pc[c] = "lock" /\ pc'[c] = "return" /\ call'[c] = call[c]
        /\ slot'[c] = slot[c] /\ res'[c] = res[c] /\ Rejected(call[c])
    BY <1>1, <1>6 DEF TypeOK, Reject, Goto, local
  <2>2. Phase(c) = "called" /\ Phase(c)' = "applied"
    BY <2>1 DEF Phase
  <2>3. PICK a : a = Reply(c)'
    OBVIOUS
  <2>4. Multiset!Answer(c, a) /\ UNCHANGED call /\ stage[c] = "called"
    BY <1>1, <1>2, <2>1, <2>2, <2>3, Decides
  <2>5. CASE call[c].op = "search"
    <3>1. slot[c] = Null
      BY <1>4, <2>1, <2>5 DEF Holds
    <3>2. a = "notfound"
      BY <2>1, <2>2, <2>3, <2>5, <3>1 DEF Reply
    <3>3. ~(call[c].hash < BucketNum)
      <4>1. call[c].hash >= BucketNum /\ call[c] \in Call
        BY <1>1, <2>1, <2>5 DEF Rejected, TypeOK
      <4>2. call[c].hash \in Nat /\ BucketNum \in Nat
        BY <2>5, <4>1, HashTableAssumption DEF Call, Bucket
      <4> QED
        BY <4>1, <4>2
    <3>4. Multiset!Search(c)
      BY <1>3, <2>4, <2>5, <3>2, <3>3 DEF Multiset!Search, Multiset!Pending
    <3> QED
      BY <3>4 DEF Effect
  <2>6. CASE call[c].op = "show"
    <3>1. a = "ok"
      BY <2>1, <2>2, <2>3, <2>6 DEF Reply, Knows
    <3>2. Multiset!Show(c)
      BY <1>3, <2>4, <2>6, <3>1 DEF Multiset!Show, Multiset!Pending
    <3> QED
      BY <3>2 DEF Effect
  <2> QED
    BY <2>1, <2>5, <2>6 DEF Rejected
<1>7. CASE Lock(c)
  <2>1. /\ pc[c] = "lock" /\ pc'[c] \in {"walk", "place"} /\ call'[c] = call[c]
    BY <1>1, <1>7 DEF TypeOK, Lock, Goto
  <2> QED
    BY <1>1, <1>2, <1>3, <2>1, QuietEffect
<1>8. CASE Unlock(c)
  <2>1. pc[c] = "unlock" /\ slot'[c] = slot[c] /\ res'[c] = res[c]
    BY <1>1, <1>8 DEF TypeOK, Unlock, Goto
  <2>2. CASE call[c].op # "show"
    <3>1. pc'[c] = "return" /\ call'[c] = call[c]
      BY <1>1, <1>8, <2>2 DEF TypeOK, Unlock, Goto
    <3> QED
      BY <1>1, <1>2, <1>3, <2>1, <2>2, <3>1, QuietEffect
  <2>3. CASE call[c].op = "show" /\ ~(call[c].hash + 1 < BucketNum)
    <3>1. pc'[c] = "return" /\ call'[c] = call[c]
      BY <1>1, <1>8, <2>3 DEF TypeOK, Unlock, Goto
    <3>2. Phase(c) = "called" /\ Phase(c)' = "applied"
      BY <2>1, <2>3, <3>1 DEF Phase
    <3>3. "ok" = Reply(c)'
      BY <2>1, <2>3, <3>1, <3>2 DEF Reply, Knows
    <3>4. Multiset!Answer(c, "ok") /\ UNCHANGED call /\ stage[c] = "called"
      BY <1>1, <1>2, <3>1, <3>2, <3>3, Decides
    <3>5. Multiset!Show(c)
      BY <1>3, <2>3, <3>4 DEF Multiset!Show, Multiset!Pending
    <3> QED
      BY <3>5 DEF Effect
  <2>4. CASE call[c].op = "show" /\ call[c].hash + 1 < BucketNum
    <3>1. pc'[c] = "lock" /\ call' = [call EXCEPT ![c].hash = @ + 1]
      BY <1>1, <1>8, <2>4 DEF TypeOK, Unlock, Goto
    <3>2. call[c] \in [op : {"show"}, hash : Bucket, show : BOOLEAN]
      BY <1>1, <2>1, <2>4 DEF TypeOK, Call
    <3>3. call'[c].op = "show"
      BY <1>1, <3>1, <3>2 DEF TypeOK
    <3>4. Phase(c) = "called" /\ Phase(c)' = "called"
      BY <2>1, <2>4, <3>1, <3>3 DEF Phase
    <3>5. Reply(c) = Null /\ Reply(c)' = Null
      BY <3>4 DEF Reply
    <3>6. /\ stage' = [stage EXCEPT ![c] = "called"] /\ ans' = [ans EXCEPT ![c] = Null]
          /\ stage[c] = "called" /\ ans[c] = Null
      <4>1. PICK k : k = call'[c]
        OBVIOUS
      <4> QED
        BY <1>1, <1>2, <3>4, <3>5, <4>1, OneCall
    <3>7. stage' = stage /\ ans' = ans
      BY <3>6, StageIs
    <3>8. Multiset!ShowNext(c)
      BY <1>3, <2>4, <3>1, <3>6, <3>7 DEF Multiset!ShowNext, Multiset!Pending
    <3> QED
      BY <3>8 DEF Effect
  <2> QED
    BY <2>2, <2>3, <2>4
<1>9. CASE Return(c)
  <2>1. pc[c] = "return" /\ pc'[c] = "idle" /\ call'[c] = Null
    BY <1>1, <1>9 DEF TypeOK, Return, Goto
  <2>2. Phase(c) = "applied" /\ Phase(c)' = "idle" /\ Reply(c)' = Null
    BY <2>1 DEF Phase, Reply
  <2>3. /\ stage' = [stage EXCEPT ![c] = "idle"] /\ ans' = [ans EXCEPT ![c] = Null]
        /\ call' = [call EXCEPT ![c] = Null] /\ stage[c] = "applied"
    BY <1>1, <1>2, <2>1, <2>2, OneCall
  <2>4. Multiset!Respond(c)
    BY <1>3, <2>3 DEF Multiset!Respond
  <2> QED
    BY <2>4 DEF Effect
<1> QED
  BY <1>5, <1>6, <1>7, <1>8, <1>9 DEF Effect

\* What every step inside an operation has in common.
LEMMA WorkFrame ==
  ASSUME IInv, CInv, IInv', NEW c \in Core, Work(c), NEW h, h = call[c].hash
  PROVE  /\ TypeOK /\ TypeOK' /\ Aside(c) /\ Track(c) /\ call'[c] = call[c] /\ h \in Bucket
         /\ call[c] \in Call
         /\ \A b \in Bucket : b # h => Same(b)
         /\ Same(h) => bag' = bag
<1>1. TypeOK /\ TypeOK' /\ Track(c)
  BY DEF IInv, CInv
<1>2. pc[c] \in Active /\ call' = call
  BY <1>1, WorkStays DEF TypeOK
<1>3. h \in Bucket /\ call[c] \in Call
  BY <1>1, <1>2 DEF IInv, Structure, Holds, TypeOK, Active
<1>4. \A b \in Bucket : b # h => Same(b)
  BY <1>1, BucketFrame DEF Untouched, Same
<1>5. Same(h) => bag' = bag
  BY <1>4, BagsStay
<1> QED
  BY <1>1, <1>2, <1>3, <1>4, <1>5, StepAside

\* Steps that decide nothing.
LEMMA MiddleEffect ==
  ASSUME IInv, CInv, IInv', NEW c \in Core, Knows(c),
         \/ WalkOn(c) \/ Seek(c) \/ TakeSlot(c) \/ \E x \in Overflow : Grow(c, x)
         \/ Drop(c)
         \/ (Place(c) /\ Proceeds(call[c]))
         \/ (RemoveHit(c) /\ Proceeds(call[c]))
         \/ (EndOfChain(c) /\ call[c].op \in {"insert", "show"})
  PROVE  Effect(c)
<1>1. PICK h : h = call[c].hash
  OBVIOUS
<1>2. /\ TypeOK /\ TypeOK' /\ Aside(c) /\ Track(c) /\ call'[c] = call[c] /\ h \in Bucket
      /\ Same(h) => bag' = bag
  <2>1. Work(c)
    BY DEF Work
  <2> QED
    BY <1>1, <2>1, WorkFrame
<1>3. CASE \/ WalkOn(c) \/ Seek(c) \/ (RemoveHit(c) /\ Proceeds(call[c]))
           \/ (EndOfChain(c) /\ call[c].op \in {"insert", "show"})
  <2>1. UNCHANGED <<nxt, cnt, mem, pool>> /\ pc[c] \in {"walk", "seek"}
    BY <1>3 DEF WalkOn, Seek, RemoveHit, EndOfChain, heap
  <2>2. \/ pc'[c] \in {"walk", "seek", "grow"}
        \/ pc'[c] = "unlock" /\ call[c].op = "show"
    BY <1>2, <1>3 DEF WalkOn, Seek, RemoveHit, EndOfChain, TypeOK, Goto
  <2>3. Same(h)
    <3>1. Alone(c)
      BY <1>2 DEF Aside
    <3>2. pc[c] \notin {"copy", "drop"} /\ pc'[c] \notin {"copy", "drop"}
      BY <2>1, <2>2
    <3> QED
      BY <2>1, <3>1, <3>2, QuietSame DEF Same
  <2> QED
    BY <1>2, <2>1, <2>2, <2>3, QuietEffect
<1>4. CASE TakeSlot(c) \/ (Place(c) /\ Proceeds(call[c]))
  <2>1. pc[c] \in {"walk", "place"} /\ pc'[c] = "copy"
    BY <1>2, <1>4 DEF TakeSlot, Place, TypeOK, Goto
  <2>2. Same(h)
    BY <1>1, <1>2, <1>4, CountContents
  <2> QED
    BY <1>2, <2>1, <2>2, QuietEffect
<1>5. ASSUME NEW x \in Overflow, Grow(c, x) PROVE Effect(c)
  <2>1. pc[c] = "grow" /\ pc'[c] = "copy"
    BY <1>2, <1>5 DEF Grow, TypeOK, Goto
  <2>2. Same(h)
    BY <1>1, <1>2, <1>5, GrowContents
  <2> QED
    BY <1>2, <2>1, <2>2, QuietEffect
<1>6. (\E x \in Overflow : Grow(c, x)) => Effect(c)
  BY <1>5
<1>7. CASE Drop(c)
  <2>1. pc[c] = "drop" /\ pc'[c] = "unlock" /\ slot'[c] = slot[c] /\ res'[c] = res[c]
    BY <1>2, <1>7 DEF Drop, TypeOK, Goto, local
  <2>2. call[c].op # "show"
    BY <1>2, <2>1 DEF Track
  <2>3. Same(h)
    BY <1>1, <1>2, <1>7, DropContents
  <2> QED
    BY <1>2, <2>1, <2>2, <2>3, QuietEffect
<1> QED
  BY <1>3, <1>4, <1>6, <1>7

\* The walk of a search or a remove ends without a match, or with one.
LEMMA LookEffect ==
  ASSUME IInv, CInv, IInv', NEW c \in Core, Knows(c),
         \/ Found(c)
         \/ (EndOfChain(c) /\ call[c].op \in {"search", "remove"})
         \/ (RemoveHit(c) /\ ~Proceeds(call[c]))
  PROVE  Effect(c)
<1>1. PICK h : h = call[c].hash
  OBVIOUS
<1>2. /\ TypeOK /\ TypeOK' /\ Aside(c) /\ Track(c) /\ call'[c] = call[c] /\ h \in Bucket
      /\ Same(h) => bag' = bag
      /\ call[c] \in Call
  <2>1. Work(c)
    BY DEF Work
  <2> QED
    BY <1>1, <2>1, WorkFrame
<1>3. /\ UNCHANGED <<nxt, cnt, mem, pool>> /\ pc[c] = "walk" /\ pc'[c] = "unlock"
      /\ call[c].op \in {"search", "remove"}
  BY <1>2 DEF Found, EndOfChain, RemoveHit, heap, TypeOK, Goto
<1>4. Phase(c) = "called" /\ Phase(c)' = "applied"
  BY <1>2, <1>3 DEF Phase
<1>5. bag' = bag
  <2>1. Same(h)
    BY <1>2, <1>3, QuietSame DEF Same, Aside
  <2> QED
    BY <1>2, <2>1
<1>6. PICK a : a = Reply(c)'
  OBVIOUS
<1>7. Multiset!Answer(c, a) /\ UNCHANGED call /\ stage[c] = "called"
  BY <1>2, <1>4, <1>6, Decides
<1>8. ASSUME Hits(c) # {} PROVE Multiset!Equal(call[c]) # {}
  <2>1. PICK u : u = <<cur[c], Hit(c)>>
    OBVIOUS
  <2>2. u \in Entries(h) /\ Matches(At(u), call[c].this)
    BY <1>1, <1>3, <1>8, <2>1, HitEntry
  <2>3. At(u) \in Item
    BY <1>2, <2>2 DEF CInv, Filled
  <2> QED
    BY <1>1, <1>2, <2>2, <2>3, EqualHas
<1>9. CASE EndOfChain(c)
  <2>1. Passes(c) /\ nxt[cur[c]] = Null /\ res'[c] = "notfound"
    BY <1>2, <1>3, <1>9 DEF EndOfChain, TypeOK
  <2>2. Lacks(h, {}, call[c].this)
    <3>1. Compared(call[c])
      BY <1>3 DEF Compared
    <3>2. Lacks(h, Behind(cur[c]), call[c].this)
      BY <1>1, <1>2, <1>3, <2>1, <3>1, PassedLacks
    <3>3. cur[c] \in Block
      BY <1>3 DEF IInv, Structure, Holds, Active
    <3>4. Behind(cur[c]) = {}
      BY <1>2, <2>1, <3>3, ChainEnd
    <3> QED
      BY <3>2, <3>4
  <2>3. Multiset!Equal(call[c]) = {}
    BY <1>1, <1>2, <2>2, EqualNone
  <2>4. a = "notfound"
    BY <1>4, <1>6, <2>1 DEF Reply
  <2>5. Multiset!Search(c) \/ Multiset!Remove(c)
    BY <1>3, <1>5, <1>7, <2>3, <2>4 DEF Multiset!Search, Multiset!Remove, Multiset!Pending
  <2> QED
    BY <2>5 DEF Effect
<1>10. CASE Found(c)
  <2>1. /\ Hits(c) # {} /\ call[c].op = "search" /\ slot'[c] = <<cur[c], Hit(c)>>
        /\ res'[c] = res[c]
    BY <1>2, <1>10 DEF Found, TypeOK
  <2>2. slot'[c] # Null
    <3>1. cur[c] \in Block
      BY <1>3 DEF IInv, Structure, Holds, Active
    <3>2. Hit(c) \in 1 .. ItemNum
      BY <1>2, <2>1, <3>1, HitIsHit
    <3>3. slot'[c] \in Slot
      BY <2>1, <3>1, <3>2 DEF Slot
    <3> QED
      BY <3>3, HashTableAssumption
  <2>3. a = "ok"
    BY <1>2, <1>3, <1>4, <1>6, <2>1, <2>2 DEF Reply, Knows
  <2>4. call[c].hash < BucketNum
    BY <1>1, <1>2, HashTableAssumption DEF Bucket
  <2>5. Multiset!Search(c)
    BY <1>5, <1>7, <1>8, <2>1, <2>3, <2>4 DEF Multiset!Search, Multiset!Pending
  <2> QED
    BY <2>5 DEF Effect
<1>11. CASE RemoveHit(c) /\ ~Proceeds(call[c])
  <2>1. Hits(c) # {} /\ call[c].op = "remove" /\ res'[c] = call[c].cb
    BY <1>2, <1>11 DEF RemoveHit, TypeOK
  <2>2. call[c].cb \in {"done", "fail"}
    BY <1>2, <1>11, <2>1, CallShape DEF Callback, Proceeds
  <2>3. a = call[c].cb
    BY <1>2, <1>4, <1>6, <2>1 DEF Reply
  <2>4. Multiset!Remove(c)
    BY <1>5, <1>7, <1>8, <2>1, <2>2, <2>3 DEF Multiset!Remove, Multiset!Pending
  <2> QED
    BY <2>4 DEF Effect
<1> QED
  BY <1>9, <1>10, <1>11

\* The steps that decide an insert.
LEMMA InsertEffect ==
  ASSUME IInv, CInv, IInv', NEW c \in Core, Knows(c),
         InsertHit(c) \/ NoSpace(c) \/ Copy(c) \/ (Place(c) /\ ~Proceeds(call[c]))
  PROVE  Effect(c)
<1>1. PICK h : h = call[c].hash
  OBVIOUS
<1>2. /\ TypeOK /\ TypeOK' /\ Aside(c) /\ Track(c) /\ call'[c] = call[c] /\ h \in Bucket
      /\ (Same(h) => bag' = bag) /\ \A b \in Bucket : b # h => Same(b)
      /\ call[c] \in Call
  <2>1. Work(c)
    BY DEF Work
  <2> QED
    BY <1>1, <2>1, WorkFrame
<1>3. pc[c] \in {"walk", "grow", "copy", "place"} /\ pc'[c] = "unlock" /\ call[c].op = "insert"
  <2>1. pc[c] \in {"walk", "grow", "copy", "place"} /\ pc'[c] = "unlock"
    BY <1>2 DEF InsertHit, NoSpace, Copy, Place, TypeOK, Goto
  <2>2. InsertHit(c) \/ pc[c] \in {"grow", "copy", "place"}
    BY DEF NoSpace, Copy, Place
  <2>3. \E own \in Owner : Holds(own, c)
    BY DEF IInv, Structure
  <2> QED
    BY <2>1, <2>2, <2>3 DEF InsertHit, Holds
<1>4. Phase(c) = "called" /\ Phase(c)' = "applied"
  BY <1>2, <1>3 DEF Phase
<1>5. res'[c] = Reply(c)'
  BY <1>2, <1>3, <1>4 DEF Reply
<1>6. Multiset!Answer(c, res'[c]) /\ UNCHANGED call /\ Multiset!Pending(c, "insert")
  BY <1>2, <1>3, <1>4, <1>5, Decides DEF Multiset!Pending
<1>7. call[c].this \in Item /\ call[c].cb \in Callback
  BY <1>2, <1>3, CallShape
<1>8. CASE InsertHit(c)
  <2>1. /\ pc[c] = "walk" /\ Hits(c) # {} /\ call[c].cmp /\ call[c].cb # "again"
        /\ res'[c] = IF call[c].cb = "null" THEN "ok" ELSE call[c].cb
        /\ call[c].op = "insert"
    BY <1>2, <1>3, <1>8 DEF InsertHit, StopsInsert, Hits, CallbackResult, TypeOK
  <2>2. call[c].at = "none" /\ call[c].cb # "null"
    BY <1>3, <2>1 DEF Knows
  <2>3. PICK u : u = <<cur[c], Hit(c)>>
    OBVIOUS
  <2>4. PICK it : it = At(u)
    OBVIOUS
  <2>5. it \in Multiset!Equal(call[c]) /\ Multiset!Equal(call[c]) # {}
    <3>1. u \in Entries(h) /\ Matches(At(u), call[c].this)
      BY <1>1, <2>1, <2>3, HitEntry
    <3>2. At(u) \in Item
      BY <1>2, <3>1 DEF CInv, Filled
    <3> QED
      BY <1>1, <1>2, <2>4, <3>1, <3>2, EqualHas
  <2>6. IF call[c].cb = "done" THEN Rewrites(h, u, call[c].this) ELSE Same(h)
    BY <1>1, <1>2, <1>8, <2>3, RewriteContents
  <2>7. CASE call[c].cb = "done"
    <3>1. bag'[h] = [i \in Item |-> bag[h][i] - (IF i = it THEN 1 ELSE 0)
                                              + (IF i = call[c].this THEN 1 ELSE 0)]
      BY <1>2, <1>7, <2>4, <2>6, <2>7, BagRewrites
    <3>2. bag' = [bag EXCEPT ![h] = bag'[h]]
      BY <1>2, BagsBut
    <3>3. bag' = [bag EXCEPT ![h] =
                   [i \in Item |-> @[i] - (IF i = it THEN 1 ELSE 0)
                                        + (IF i = call[c].this THEN 1 ELSE 0)]]
      BY <3>1, <3>2
    <3>4. Multiset!InsertOnEqual(c)
      BY <1>1, <1>6, <2>1, <2>2, <2>5, <2>7, <3>3 DEF Multiset!InsertOnEqual
    <3> QED
      BY <3>4 DEF Effect
  <2>8. CASE call[c].cb # "done"
    <3>1. Multiset!InsertOnEqual(c)
      BY <1>2, <1>6, <2>1, <2>2, <2>5, <2>6, <2>8 DEF Multiset!InsertOnEqual
    <3> QED
      BY <3>1 DEF Effect
  <2> QED
    BY <2>7, <2>8
<1>9. CASE NoSpace(c)
  <2>1. pc[c] = "grow" /\ UNCHANGED <<nxt, cnt, mem, pool>> /\ res'[c] = "nospace"
    BY <1>2, <1>9 DEF NoSpace, heap, TypeOK
  <2>2. call[c].at = "none"
    BY <1>3, <2>1 DEF Knows
  <2>3. bag' = bag
    <3>1. Same(h)
      BY <1>2, <1>3, <2>1, QuietSame DEF Same, Aside
    <3> QED
      BY <1>2, <3>1
  <2>4. Multiset!Full(h)
    BY <1>1, <2>1, GrowFull
  <2>5. call[c].cmp => Multiset!Equal(call[c]) = {} \/ call[c].cb = "again"
    <3>1. call[c].cmp /\ call[c].cb # "again" => Lacks(h, {}, call[c].this)
      BY <1>1, <1>2, <1>3, <2>1, <2>2 DEF Track, Compared
    <3> QED
      BY <1>1, <1>2, <3>1, EqualNone
  <2>6. Multiset!InsertNew(c)
    BY <1>1, <1>6, <2>1, <2>2, <2>3, <2>4, <2>5 DEF Multiset!InsertNew
  <2> QED
    BY <2>6 DEF Effect
<1>10. CASE Copy(c)
  <2>1. pc[c] = "copy" /\ res'[c] = res[c]
    BY <1>10 DEF Copy, local
  <2>2. /\ res'[c] = "ok" /\ Counted(h, slot[c])
        /\ call[c].at # "none" => Proceeds(call[c])
    BY <1>1, <2>1 DEF Knows
  <2>3. Gains(h, slot[c], call[c].this)
    BY <1>1, <1>2, <1>10, <2>2, CopyContents
  <2>4. bag'[h] = [bag[h] EXCEPT ![call[c].this] = @ + 1]
    <3>1. PICK u : u = slot[c]
      OBVIOUS
    <3>2. PICK it \in Item : it = call[c].this
      BY <1>7
    <3> QED
      BY <1>2, <2>3, <3>1, <3>2, BagGains
  <2>5. bag' = [bag EXCEPT ![h] = bag'[h]]
    BY <1>2, BagsBut
  <2>6. Multiset!Add(h, call[c].this)
    BY <2>4, <2>5 DEF Multiset!Add
  <2>7. CASE call[c].at = "none"
    <3>1. call[c].cmp => Multiset!Equal(call[c]) = {} \/ call[c].cb = "again"
      <4>1. call[c].cmp /\ call[c].cb # "again" => Lacks(h, {}, call[c].this)
        BY <1>1, <1>2, <1>3, <2>1, <2>7 DEF Track, Compared
      <4> QED
        BY <1>1, <1>2, <4>1, EqualNone
    <3>2. Multiset!InsertNew(c)
      BY <1>1, <1>6, <2>2, <2>6, <2>7, <3>1 DEF Multiset!InsertNew
    <3> QED
      BY <3>2 DEF Effect
  <2>8. CASE call[c].at # "none"
    <3>1. call[c].cb \notin {"done", "fail"}
      BY <2>2, <2>8 DEF Proceeds
    <3>2. Multiset!InsertAt(c)
      BY <1>1, <1>6, <2>2, <2>6, <2>8, <3>1 DEF Multiset!InsertAt
    <3> QED
      BY <3>2 DEF Effect
  <2> QED
    BY <2>7, <2>8
<1>11. CASE Place(c) /\ ~Proceeds(call[c])
  <2>1. pc[c] = "place" /\ res'[c] = call[c].cb
    BY <1>2, <1>11 DEF Place, TypeOK
  <2>2. call[c].at # "none" /\ call[c].cb \in {"done", "fail"}
    BY <1>2, <1>7, <1>11, <2>1 DEF Track, Callback, Proceeds
  <2>3. bag' = bag
    BY <1>1, <1>2, <1>11, DeclineContents
  <2>4. Multiset!InsertAt(c)
    BY <1>6, <2>1, <2>2, <2>3 DEF Multiset!InsertAt
  <2> QED
    BY <2>4 DEF Effect
<1> QED
  BY <1>8, <1>9, <1>10, <1>11

\* The step that takes the item out.
LEMMA MoveEffect ==
  ASSUME IInv, CInv, IInv', NEW c \in Core, Knows(c), Move(c)
  PROVE  Effect(c)
<1>1. PICK h : h = call[c].hash
  OBVIOUS
<1>2. /\ TypeOK /\ TypeOK' /\ Aside(c) /\ Track(c) /\ call'[c] = call[c] /\ h \in Bucket
      /\ \A b \in Bucket : b # h => Same(b)
  <2>1. Work(c)
    BY DEF Work
  <2> QED
    BY <1>1, <2>1, WorkFrame
<1>3. /\ pc[c] = "seek" /\ pc'[c] = "drop" /\ call[c].op = "remove" /\ res'[c] = res[c]
  BY <1>2 DEF Move, TypeOK, Goto, local, Track
<1>4. Phase(c) = "called" /\ Phase(c)' = "applied"
  BY <1>2, <1>3 DEF Phase
<1>5. "ok" = Reply(c)'
  BY <1>2, <1>3, <1>4 DEF Reply, Knows
<1>6. Multiset!Answer(c, "ok") /\ UNCHANGED call /\ Multiset!Pending(c, "remove")
  BY <1>2, <1>3, <1>4, <1>5, Decides DEF Multiset!Pending
<1>7. PICK u : u = slot[c]
  OBVIOUS
<1>8. Proceeds(call[c]) /\ u \in Entries(h) /\ Matches(At(u), call[c].this)
  BY <1>1, <1>3, <1>7 DEF Knows
<1>9. At(u) \in Item
  BY <1>2, <1>8 DEF CInv, Filled
<1>10. PICK l : Loses(h, u, l)
  BY <1>1, <1>2, <1>7, MoveContents
<1>11. PICK it : it = At(u)
  OBVIOUS
<1>12. bag'[h] = [bag[h] EXCEPT ![it] = @ - 1]
  BY <1>2, <1>8, <1>9, <1>10, <1>11, BagLoses
<1>13. bag' = [bag EXCEPT ![h] = bag'[h]]
  BY <1>2, BagsBut
<1>14. Multiset!Take(h, it)
  BY <1>12, <1>13 DEF Multiset!Take
<1>15. it \in Multiset!Equal(call[c]) /\ Multiset!Equal(call[c]) # {}
  BY <1>1, <1>2, <1>8, <1>9, <1>11, EqualHas
<1>16. Multiset!Remove(c)
  BY <1>1, <1>6, <1>8, <1>14, <1>15 DEF Multiset!Remove, Proceeds
<1> QED
  BY <1>16 DEF Effect

\* Every step of the table is a step of the multiset, or nothing to it.
LEMMA StepEffect ==
  ASSUME IInv, CInv, IInv', [Next]_vars, \A c \in Core : Knows(c)
  PROVE  [Multiset!Next]_(Multiset!vars)
<1>1. CASE UNCHANGED vars
  <2>1. UNCHANGED <<nxt, cnt, mem, pool, lock, pc, call, cur, pre, slot, res>>
    BY <1>1 DEF vars
  <2>2. \A s : s \in Transient' <=> s \in Transient
    BY <2>1 DEF Transient
  <2>3. ASSUME NEW b PROVE Same(b)
    <3>1. \A s : s \in Entries(b)' <=> s \in Entries(b)
      BY <2>1, <2>2, ChainAfter, EntryShape, EntryShapeNext
    <3>2. Entries(b)' = Entries(b)
      BY <3>1, Zenon
    <3> QED
      BY <2>1, <3>2 DEF Same, At
  <2>4. bag' = bag
    BY <2>3, BagsStay
  <2>5. \A c \in Core : Phase(c)' = Phase(c) /\ Reply(c)' = Reply(c)
    BY <2>1 DEF Phase, Reply
  <2>6. stage' = stage /\ ans' = ans
    BY <2>5, StageIs
  <2> QED
    BY <2>1, <2>4, <2>6 DEF Multiset!vars
<1>2. CASE Next
  <2>1. PICK c \in Core :
          \/ \E k \in Calls : Begin(c, k)
          \/ Reject(c) \/ Lock(c) \/ Work(c) \/ Unlock(c) \/ Return(c)
    BY <1>2, NextCases
  <2>2. Knows(c)
    OBVIOUS
  <2>3. Effect(c)
    <3>1. CASE \/ \E k \in Calls : Begin(c, k)
               \/ Reject(c) \/ Lock(c) \/ Unlock(c) \/ Return(c)
      BY <2>2, <3>1, BorderEffect
    <3>2. CASE \/ WalkOn(c) \/ Seek(c) \/ TakeSlot(c) \/ \E x \in Overflow : Grow(c, x)
               \/ Drop(c)
               \/ (Place(c) /\ Proceeds(call[c]))
         \/ (RemoveHit(c) /\ Proceeds(call[c]))
               \/ (EndOfChain(c) /\ call[c].op \in {"insert", "show"})
      BY <2>2, <3>2, MiddleEffect
    <3>3. CASE \/ Found(c)
               \/ (EndOfChain(c) /\ call[c].op \in {"search", "remove"})
               \/ (RemoveHit(c) /\ ~Proceeds(call[c]))
      BY <2>2, <3>3, LookEffect
    <3>4. CASE InsertHit(c) \/ NoSpace(c) \/ Copy(c) \/ (Place(c) /\ ~Proceeds(call[c]))
      BY <2>2, <3>4, InsertEffect
    <3>5. CASE Move(c)
      BY <2>2, <3>5, MoveEffect
    <3>6. EndOfChain(c) => call[c].op \in {"insert", "show", "search", "remove"}
      <4>1. EndOfChain(c) => call[c] \in Call
        BY DEF IInv, TypeOK, EndOfChain
      <4> QED
        BY <4>1, CallShape
    <3> QED
      BY <2>1, <3>1, <3>2, <3>3, <3>4, <3>5, <3>6 DEF Work
  <2>4. Multiset!Next \/ UNCHANGED <<bag, stage, call, ans>>
    BY <2>3 DEF Effect, Multiset!Next
  <2> QED
    BY <2>4 DEF Multiset!vars
<1> QED
  BY <1>1, <1>2

\* At the start nobody knows anything and all bags are empty.
LEMMA InitEffect ==
  ASSUME Init
  PROVE  (\A c \in Core : Knows(c)) /\ Multiset!Init
<1>1. TypeOK
  BY InitInv DEF IInv
<1>2. \A c \in Core : Knows(c)
  BY DEF Init, Knows
<1>3. ASSUME NEW b \in Bucket, NEW it \in Item PROVE bag[b][it] = 0
  <2>1. b \in Block /\ nxt[b] = Null /\ cnt[b] = 0
    BY DEF Init, Block
  <2>2. Chain(b) = {b}
    BY <1>1, <2>1, ChainEnd DEF Chain
  <2>3. \A s : s \notin Entries(b)
    BY <2>1, <2>2, EntryShape
  <2>4. {s \in Entries(b) : At(s) = it} = {}
    BY <2>3
  <2>5. bag[b][it] = Cardinality({s \in Entries(b) : At(s) = it})
    BY DEF bag
  <2> QED
    BY <2>4, <2>5, FS_EmptySet
<1>4. bag = [b \in Bucket |-> [it \in Item |-> 0]]
  BY <1>3 DEF bag
<1>5. \A c \in Core : Phase(c) = "idle" /\ Reply(c) = Null
  BY DEF Init, Phase, Reply
<1>6. stage = [c \in Core |-> "idle"] /\ ans = [c \in Core |-> Null]
  BY <1>5, StageIs
<1> QED
  BY <1>2, <1>4, <1>6 DEF Multiset!Init, Multiset!Bucket, Bucket, Init

\* Each call of the table, walks, locks, growing and shrinking chains and all,
\* has its whole effect on the multiset at one instant between its invocation and
\* its return, and returns what that instant calls for: the table implements
\* HashMultiset, for any number of cores, buckets, slots and blocks, if callers
\* that compare say what becomes of an equal item.
THEOREM LinearizableTheorem ==
  ASSUME FreePosRule, EqualAnswered
  PROVE  Spec => Linearizable
<1>1. Init => (\A c \in Core : Knows(c)) /\ Multiset!Init
  BY InitEffect
<1>2. IInv /\ CInv /\ IInv' /\ [Next]_vars /\ (\A c \in Core : Knows(c))
        => (\A c \in Core : Knows(c))'
  <2>1. ASSUME IInv, CInv, IInv', [Next]_vars, \A c \in Core : Knows(c), NEW e \in Core
        PROVE  Knows(e)'
    BY <2>1, StepKnows
  <2> QED
    BY <2>1
<1>3. IInv /\ CInv /\ IInv' /\ [Next]_vars /\ (\A c \in Core : Knows(c))
        => [Multiset!Next]_(Multiset!vars)
  BY StepEffect
<1>4. Spec => [](IInv /\ CInv)
  BY ContentsInvariance
<1> QED
  BY <1>1, <1>2, <1>3, <1>4, PTL DEF Spec, Linearizable, Multiset!Spec

-----------------------------------------------------------------------------
(* Walks come to an end.                                                   *)

\* The blocks that a core has ahead of it.
Ahead(c) == Behind(cur[c])

\* Nothing makes the way of a walk longer: every step, of whatever core, leaves it
\* as it is or takes it to a block that was ahead and is not ahead any more.
WaysShrink ==
  \A c \in Core :
    pc[c] \in {"walk", "seek"} /\ pc'[c] \in {"walk", "seek"} =>
      \/ cur'[c] = cur[c] /\ Ahead(c)' = Ahead(c)
      \/ cur'[c] \in Ahead(c) \ Ahead(c)' /\ Ahead(c)' \subseteq Ahead(c)

\* No block of a chain comes after itself, or it would have a predecessor on the
\* way to it and another one on the way around.
LEMMA NoCycle ==
  ASSUME TypeOK, NEW own \in Owner, Chained(own), NEW b \in Bucket, NEW x \in Chain(b)
  PROVE  x \notin Behind(x)
<1> DEFINE S == {y \in After(nxt, b) : y \notin After(nxt, y)}
<1>1. nxt \in Links /\ b \in Block /\ b \notin Overflow
  BY HashTableAssumption DEF TypeOK, Links, Block
<1>2. Closed(nxt, b, After(nxt, b)) /\ After(nxt, b) \in SUBSET Overflow
  BY <1>1, AfterFacts
<1>3. ASSUME NEW y \in S \cup {b}, nxt[y] # Null PROVE nxt[y] \in S
  <2>1. PICK z : z = nxt[y]
    OBVIOUS
  <2>2. y \in Block /\ y \notin After(nxt, y) /\ z \in After(nxt, b) /\ z \in Block
    <3>1. After(nxt, b) \subseteq Overflow
      BY <1>2
    <3>2. y \in After(nxt, b) \cup {b} /\ y \notin After(nxt, y)
      BY <1>1, <3>1
    <3>3. z \in After(nxt, b)
      BY <1>2, <1>3, <2>1, <3>2 DEF Closed
    <3> QED
      BY <1>1, <3>1, <3>2, <3>3 DEF Block
  <2>3. After(nxt, y) = {z} \cup After(nxt, z)
    BY <1>1, <1>3, <2>1, <2>2, AfterNext
  <2>4. y # z /\ y \notin After(nxt, z)
    BY <2>2, <2>3
  <2>5. /\ After(nxt, z) \in SUBSET Overflow /\ Closed(nxt, z, After(nxt, z))
        /\ \A T \in SUBSET Overflow : Closed(nxt, z, T) => After(nxt, z) \subseteq T
    BY <1>1, <2>2, AfterFacts
  <2>6. Closed(nxt, z, After(nxt, z) \ {z})
    <3>1. ASSUME NEW w \in After(nxt, z) \cup {z}, nxt[w] # Null PROVE nxt[w] \in After(nxt, z) \ {z}
      <4>1. nxt[w] \in After(nxt, z) /\ w \in Block
        BY <2>2, <2>5, <3>1 DEF Closed, Block
      <4>2. nxt[w] # z
        BY <1>3, <2>1, <2>2, <2>4, <4>1 DEF Chained
      <4> QED
        BY <4>1, <4>2
    <3> QED
      BY <3>1 DEF Closed
  <2>7. z \notin After(nxt, z)
    <3>1. After(nxt, z) \ {z} \in SUBSET Overflow
      BY <2>5
    <3> QED
      BY <2>5, <2>6, <3>1
  <2> QED
    BY <2>1, <2>2, <2>7
<1>4. Closed(nxt, b, S)
  BY <1>3 DEF Closed
<1>5. S \in SUBSET Overflow
  BY <1>2
<1>6. After(nxt, b) \subseteq S
  BY <1>1, <1>4, <1>5, AfterFacts
<1>7. b \notin After(nxt, b)
  BY <1>1, <1>2
<1> QED
  BY <1>6, <1>7, ChainAfter

\* A step of the walk itself.
LEMMA WalkShrinks ==
  ASSUME TypeOK, NEW own \in Owner, Chained(own), NEW c \in Core, Track(c),
         WalkOn(c) \/ Seek(c), NEW b \in Bucket, b = call[c].hash
  PROVE  cur'[c] \in Ahead(c) \ Ahead(c)' /\ Ahead(c)' \subseteq Ahead(c)
<1>1. PICK x : x = cur[c]
  OBVIOUS
<1>2. PICK y : y = nxt[x]
  OBVIOUS
<1>3. x \in Chain(b) /\ y # Null /\ cur'[c] = y /\ UNCHANGED nxt
  BY <1>1, <1>2 DEF WalkOn, Seek, Track, TypeOK, heap
<1>4. y \in Chain(b) /\ Behind(x) = {y} \cup Behind(y)
  BY <1>2, <1>3, ChainOn
<1>5. y \notin Behind(y)
  BY <1>4, NoCycle
<1>6. Behind(y)' = Behind(y)
  BY <1>3, ChainAfter
<1>7. Ahead(c)' = Behind(y)
  BY <1>3, <1>6, ChainAfter DEF Ahead
<1> QED
  BY <1>1, <1>3, <1>4, <1>5, <1>7 DEF Ahead

\* The way of a walk never gets longer, whatever the other cores insert, remove
\* and free meanwhile, and each step of the walk makes it shorter by a block: with
\* finitely many blocks the loops of search, insert, remove and show end.
THEOREM WalksEndTheorem ==
  ASSUME FreePosRule
  PROVE  Spec => [][WaysShrink]_vars
<1>1. ASSUME IInv, CInv, IInv', Next PROVE WaysShrink
  <2>1. PICK c \in Core :
          \/ \E k \in Calls : Begin(c, k)
          \/ Reject(c) \/ Lock(c) \/ Work(c) \/ Unlock(c) \/ Return(c)
    BY <1>1, NextCases
  <2>2. TypeOK /\ TypeOK' /\ Aside(c)
    BY <1>1, <2>1, StepAside DEF IInv
  <2>3. PICK own \in Owner : Chained(own) /\ \A d \in Core : Holds(own, d)
    BY <1>1 DEF IInv, Structure
  <2>4. ASSUME NEW d \in Core, pc[d] \in {"walk", "seek"}, pc'[d] \in {"walk", "seek"}
        PROVE  \/ cur'[d] = cur[d] /\ Ahead(d)' = Ahead(d)
               \/ cur'[d] \in Ahead(d) \ Ahead(d)' /\ Ahead(d)' \subseteq Ahead(d)
    <3>1. PICK h : h = call[d].hash
      OBVIOUS
    <3>2. PICK x : x = cur[d]
      OBVIOUS
    <3>3. h \in Bucket /\ x \in Chain(h) /\ Track(d)
      BY <1>1, <2>3, <2>4, <3>1, <3>2 DEF CInv, Track, Holds, Active
    <3>4. CASE d = c
      <4>1. WalkOn(c) \/ Seek(c) \/ RemoveHit(c)
        BY <2>1, <2>2, <2>4, <3>4 DEF Begin, Reject, Lock, Unlock, Return, Work, EndOfChain, Found,
           InsertHit, TakeSlot, Place, NoSpace, Copy, Grow, Move, Drop, Goto, TypeOK
      <4>2. CASE WalkOn(c) \/ Seek(c)
        BY <2>2, <2>3, <3>1, <3>3, <3>4, <4>2, WalkShrinks
      <4>3. CASE RemoveHit(c)
        <5>1. cur'[d] = cur[d] /\ UNCHANGED nxt
          BY <4>3 DEF RemoveHit, heap
        <5>2. Behind(x)' = Behind(x)
          BY <5>1, ChainAfter
        <5> QED
          BY <3>2, <5>1, <5>2, ChainAfter DEF Ahead
      <4> QED
        BY <4>1, <4>2, <4>3
    <3>5. CASE d # c
      <4>1. cur'[d] = x
        BY <2>2, <3>2, <3>5 DEF Aside, Alone
      <4>2. Untouched(h)
        <5>1. CASE Work(c)
          BY <1>1, <2>2, <2>4, <3>1, <3>5, <5>1, OthersElsewhere DEF Active
        <5>2. CASE ~Work(c)
          BY <2>1, <2>2, <5>2, BorderQuiet
        <5> QED
          BY <5>1, <5>2
      <4>3. Behind(x)' = Behind(x)
        BY <3>3, <4>2 DEF Untouched
      <4>4. Ahead(d)' = Behind(x)
        BY <4>1, <4>3, ChainAfter DEF Ahead
      <4> QED
        BY <3>2, <4>1, <4>4 DEF Ahead
    <3> QED
      BY <3>4, <3>5
  <2> QED
    BY <2>4 DEF WaysShrink
<1>2. IInv /\ CInv /\ (IInv /\ CInv)' /\ [Next]_vars => [WaysShrink]_vars
  BY <1>1
<1>3. Spec => [](IInv /\ CInv)
  BY ContentsInvariance
<1> QED
  BY <1>2, <1>3, PTL DEF Spec
=============================================================================
