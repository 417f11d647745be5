---------------------------- MODULE Thread_proofs ----------------------------
(***************************************************************************)
(* Proofs about Thread for any number of cores, WQEs and callbacks.        *)
(***************************************************************************)
EXTENDS ThreadProps, FiniteSetTheorems, TLAPS

(***************************************************************************)
(* What a WQE holds fits what its core does with it.                       *)
(***************************************************************************)
Judged ==
  /\ \A c \in Core : pc[c] \in Processing \ {"check"} => IsThread(work[c])
  /\ \A c \in Core : pc[c] = "packet" => ~IsThread(work[c])
  /\ \A c \in Core : pc[c] = "rearm" => wqe[work[c]].tick > 0

\* A WQE that looks like a thread was filled by a call.
ThreadsIntact == \A w \in Wqe : IsThread(w) => Intact(w)

\* The POW's promise: an atomic tag is with one core.
TagsHeldOnce ==
  \A c, d \in Core :
    /\ work[c] # Null /\ work[d] # Null
    /\ wqe[work[c]].tag = wqe[work[d]].tag
    /\ wqe[work[c]].tag \in AtomicTag
    => c = d

Safe == TypeOK /\ Placed /\ Judged /\ ThreadsIntact /\ TagsHeldOnce

-----------------------------------------------------------------------------
\* What a call fills in is well typed and is a thread.
LEMMA FillType ==
  ASSUME NEW k \in Calls
  PROVE  /\ Fill(k) \in Contents
         /\ Made(Fill(k), k)
         /\ k.tick \in Nat
  BY ThreadAssumption DEF Call, Fill, Made, Contents

\* Where a call puts its WQE.
LEMMA DestinationPlace ==
  ASSUME NEW k
  PROVE  Destination(k) \in {"pow", "lost", "wheel"}
  BY DEF Destination

\* The steps of Next, one by one.
LEMMA NextCases ==
  ASSUME Next
  PROVE  \/ TimerInit
         \/ \E mark, magic \in BOOLEAN : Arrive(mark, magic)
         \/ \E w \in Wqe : Expire(w)
         \/ \E c \in Core, k \in Calls : Create(c, k)
         \/ \E c \in Core, w \in Wqe : Get(c, w)
         \/ \E c \in Core, w \in Wqe : Stop(c, w)
         \/ \E c \in Core : Check(c) \/ FnReturn(c) \/ Settle(c)
         \/ \E c \in Core, p \in Place \ {"core"} :
              /\ pc[c] \in {"free", "desched", "rearm", "packet"}
              /\ Leave(c, p)
  <1>1. ASSUME NEW c \in Core, Process(c)
        PROVE  \/ Check(c) \/ FnReturn(c) \/ Settle(c)
               \/ \E p \in Place \ {"core"} :
                    /\ pc[c] \in {"free", "desched", "rearm", "packet"}
                    /\ Leave(c, p)
    BY <1>1 DEF Process, Free, Desched, Rearm, PacketDone, Place
  <1> QED
    BY <1>1 DEF Next

\* A WQE in the pool, the POW or the wheel is with no core.
LEMMA NotAtCore ==
  ASSUME Placed, NEW w \in Wqe, where[w] # "core", NEW c \in Core,
         work[c] # Null
  PROVE  work[c] # w
  BY DEF Placed

-----------------------------------------------------------------------------
\* The invariant holds before the first step.
LEMMA SafeInit == ASSUME Init PROVE Safe
  <1>1. TypeOK
    BY ThreadAssumption DEF Init, TypeOK, Place, Contents, Tag, Location
  <1>2. Placed
    BY DEF Init, Placed, At
  <1>3. Judged
    BY DEF Init, Judged, Processing
  <1>4. ThreadsIntact
    BY DEF Init, ThreadsIntact, IsThread
  <1>5. TagsHeldOnce
    BY DEF Init, TagsHeldOnce
  <1> QED
    BY <1>1, <1>2, <1>3, <1>4, <1>5 DEF Safe

(***************************************************************************)
(* Writing one WQE that no core has, and moving it among the places that   *)
(* are not a core, preserves the invariant as long as a WQE that looks     *)
(* like a thread was filled by a call.                                     *)
(***************************************************************************)
LEMMA OutsideStep ==
  ASSUME Safe, NEW w \in Wqe, where[w] # "core",
         NEW q \in Contents, NEW p \in Place \ {"core"},
         wqe' = [wqe EXCEPT ![w] = q],
         where' = [where EXCEPT ![w] = p],
         q.mark /\ q.magic => \E k \in Calls : Made(q, k),
         ticking' \in BOOLEAN, UNCHANGED <<pc, work>>
  PROVE  Safe'
  <1> USE DEF Safe
  <1>1. TypeOK'
    BY DEF TypeOK
  <1>2. \A c \in Core : work[c] # Null => work[c] # w /\ work[c] \in Wqe
    BY NotAtCore DEF TypeOK
  <1>3. Placed'
    BY <1>2 DEF Placed, At, TypeOK
  <1>4. \A c \in Core : work[c] # Null => wqe'[work[c]] = wqe[work[c]]
    BY <1>2 DEF TypeOK
  <1>5. \A c \in Core : pc[c] # "idle" => work[c] # Null
    BY DEF TypeOK
  <1>6. Judged'
    BY <1>4, <1>5 DEF Judged, IsThread, Processing
  <1>7. ThreadsIntact'
    <2> SUFFICES ASSUME NEW v \in Wqe, IsThread(v)'
                 PROVE  Intact(v)'
      BY DEF ThreadsIntact
    <2>1. CASE v = w
      BY <2>1 DEF TypeOK, IsThread, Intact
    <2>2. CASE v # w
      <3>1. wqe'[v] = wqe[v]
        BY <2>2 DEF TypeOK
      <3> QED
        BY <3>1 DEF ThreadsIntact, IsThread, Intact
    <2> QED
      BY <2>1, <2>2
  <1>8. TagsHeldOnce'
    BY <1>4 DEF TagsHeldOnce
  <1> QED
    BY <1>1, <1>3, <1>6, <1>7, <1>8

\* A core that leaves its WQE somewhere else preserves the invariant.
LEMMA LeaveStep ==
  ASSUME Safe, NEW c \in Core, NEW p \in Place \ {"core"},
         pc[c] # "idle", Leave(c, p)
  PROVE  Safe'
  <1> USE DEF Safe, Leave
  <1>1. work[c] \in Wqe
    BY DEF TypeOK
  <1>2. TypeOK'
    BY <1>1 DEF TypeOK, Location
  <1>3. \A d \in Core : d # c => work'[d] = work[d] /\ pc'[d] = pc[d]
    BY DEF TypeOK
  <1>4. work'[c] = Null /\ pc'[c] = "idle"
    BY DEF TypeOK
  <1>5. Placed'
    <2>1. \A d \in Core : work'[d] # Null => where'[work'[d]] = "core"
      BY <1>1, <1>3, <1>4 DEF Placed, TypeOK
    <2>2. \A d, e \in Core : work'[d] = work'[e] /\ work'[d] # Null => d = e
      BY <1>3, <1>4 DEF Placed
    <2>3. \A w \in Wqe : where'[w] = "core" => \E d \in Core : work'[d] = w
      BY <1>1, <1>3 DEF Placed, TypeOK, At
    <2> QED
      BY <2>1, <2>2, <2>3 DEF Placed, At
  <1>6. Judged'
    BY <1>3, <1>4 DEF Judged, IsThread, Processing
  <1>7. ThreadsIntact'
    BY DEF ThreadsIntact, IsThread, Intact, Made
  <1>8. TagsHeldOnce'
    BY <1>3, <1>4 DEF TagsHeldOnce
  <1> QED
    BY <1>2, <1>5, <1>6, <1>7, <1>8

\* So does a core that goes on to a place its WQE justifies.
LEMMA GotoStep ==
  ASSUME Safe, NEW c \in Core, NEW l \in Location \ {"idle"},
         pc[c] # "idle", Goto(c, l), UNCHANGED <<where, wqe, ticking>>,
         l \in Processing \ {"check"} => IsThread(work[c]),
         l = "packet" => ~IsThread(work[c]),
         l = "rearm" => wqe[work[c]].tick > 0
  PROVE  Safe'
  <1> USE DEF Safe, Goto
  <1>1. TypeOK'
    BY DEF TypeOK
  <1>2. Placed'
    BY DEF Placed, At
  <1>3. Judged'
    BY DEF Judged, IsThread, TypeOK
  <1>4. ThreadsIntact'
    BY DEF ThreadsIntact, IsThread, Intact, Made
  <1>5. TagsHeldOnce'
    BY DEF TagsHeldOnce
  <1> QED
    BY <1>1, <1>2, <1>3, <1>4, <1>5

LEMMA GetStep ==
  ASSUME Safe, NEW c \in Core, NEW w \in Wqe, Get(c, w)
  PROVE  Safe'
  <1> USE DEF Safe, Get
  <1>1. TypeOK'
    BY ThreadAssumption DEF TypeOK, Place, Location, Processing
  <1>2. \A d \in Core : d # c => work'[d] = work[d] /\ pc'[d] = pc[d]
    BY DEF TypeOK
  <1>3. work'[c] = w /\ pc'[c] = "check" /\ w # Null
    BY ThreadAssumption DEF TypeOK
  <1>4. \A d \in Core : work[d] # w
    BY ThreadAssumption DEF Placed
  <1>5. Placed'
    <2>1. \A d \in Core : work'[d] # Null => where'[work'[d]] = "core"
      BY <1>2, <1>3 DEF Placed, TypeOK
    <2>2. \A d, e \in Core : work'[d] = work'[e] /\ work'[d] # Null => d = e
      BY <1>2, <1>3, <1>4 DEF Placed
    <2>3. \A v \in Wqe : where'[v] = "core" => \E d \in Core : work'[d] = v
      <3> SUFFICES ASSUME NEW v \in Wqe, where'[v] = "core", v # w
                   PROVE  \E d \in Core : work'[d] = v
        BY <1>3
      <3>1. PICK d \in Core : work[d] = v
        BY DEF Placed, At, TypeOK
      <3>2. d # c
        BY <3>1, ThreadAssumption DEF TypeOK
      <3> QED
        BY <3>1, <3>2, <1>2
    <2> QED
      BY <2>1, <2>2, <2>3 DEF Placed, At
  <1>6. Judged'
    BY <1>2, <1>3 DEF Judged, IsThread, Processing
  <1>7. ThreadsIntact'
    BY DEF ThreadsIntact, IsThread, Intact, Made
  <1>8. TagsHeldOnce'
    BY <1>2, <1>3 DEF TagsHeldOnce, Holds
  <1> QED
    BY <1>1, <1>5, <1>6, <1>7, <1>8

LEMMA StopStep ==
  ASSUME Safe, NEW c \in Core, NEW w \in Wqe, Stop(c, w)
  PROVE  Safe'
  <1> USE DEF Safe, Stop
  <1>1. IsThread(w)
    BY DEF Stoppable, Judged, Processing
  <1>2. wqe[w] \in Contents
    BY DEF TypeOK
  <1>3. \A v \in Wqe :
          /\ wqe'[v].mark = wqe[v].mark /\ wqe'[v].magic = wqe[v].magic
          /\ wqe'[v].fn = wqe[v].fn /\ wqe'[v].tick = wqe[v].tick
          /\ wqe'[v].tag = wqe[v].tag
          /\ wqe[v].free => wqe'[v].free
    BY <1>2 DEF TypeOK, Contents
  <1>4. TypeOK'
    BY DEF TypeOK, Contents
  <1>5. Placed'
    BY DEF Placed, At
  <1>6. \A d \in Core : pc[d] # "idle" => work[d] \in Wqe
    BY DEF TypeOK
  <1>7. Judged'
    BY <1>3, <1>6 DEF Judged, IsThread, Processing
  <1>8. ThreadsIntact'
    BY <1>3 DEF ThreadsIntact, IsThread, Intact, Made
  <1>9. TagsHeldOnce'
    BY <1>3 DEF TagsHeldOnce, TypeOK
  <1> QED
    BY <1>4, <1>5, <1>7, <1>8, <1>9

-----------------------------------------------------------------------------
\* Every step preserves the invariant.
LEMMA SafeStep == ASSUME Safe, [Next]_vars PROVE Safe'
  <1>1. CASE UNCHANGED vars
    BY <1>1 DEF vars, Safe, TypeOK, Placed, Judged, ThreadsIntact,
         TagsHeldOnce, At, IsThread, Intact, Made
  <1>2. CASE TimerInit
    BY <1>2 DEF TimerInit, Safe, TypeOK, Placed, Judged, ThreadsIntact,
         TagsHeldOnce, At, IsThread, Intact, Made
  <1>3. ASSUME NEW mark \in BOOLEAN, NEW magic \in BOOLEAN, Arrive(mark, magic)
        PROVE  Safe'
    <2>1. PICK w \in At("pool") :
            /\ wqe' = [wqe EXCEPT ![w].mark = mark, ![w].magic = magic,
                                  ![w].tag = Ordered]
            /\ where' = [where EXCEPT ![w] = "pow"]
      BY <1>3 DEF Arrive
    <2>2. wqe[w] \in Contents /\ w \in Wqe /\ where[w] = "pool"
      BY <2>1 DEF Safe, TypeOK, At
    <2>3. PICK q \in Contents : /\ wqe' = [wqe EXCEPT ![w] = q]
                                /\ q.mark = mark /\ q.magic = magic
      <3> DEFINE q == [wqe[w] EXCEPT !.mark = mark, !.magic = magic,
                                     !.tag = Ordered]
      <3>1. q \in Contents /\ q.mark = mark /\ q.magic = magic
        BY <2>2 DEF Contents, Tag
      <3>2. wqe' = [wqe EXCEPT ![w] = q]
        BY <2>1
      <3> QED
        BY <3>1, <3>2
    <2>4. ticking' \in BOOLEAN /\ UNCHANGED <<pc, work>> /\ ~(mark /\ magic)
      BY <1>3 DEF Arrive, Safe, TypeOK
    <2> QED
      BY <2>1, <2>2, <2>3, <2>4, OutsideStep DEF Place
  <1>4. ASSUME NEW w \in Wqe, Expire(w) PROVE Safe'
    <2>1. wqe[w] \in Contents /\ wqe' = [wqe EXCEPT ![w] = wqe[w]]
      BY <1>4 DEF Expire, Safe, TypeOK
    <2>2. wqe[w].mark /\ wqe[w].magic => \E k \in Calls : Made(wqe[w], k)
      BY DEF Safe, ThreadsIntact, IsThread, Intact
    <2> QED
      BY <1>4, <2>1, <2>2, OutsideStep DEF Expire, Place, Safe, TypeOK
  <1>5. ASSUME NEW c \in Core, NEW k \in Calls, Create(c, k) PROVE Safe'
    <2>1. PICK w \in At("pool") :
            /\ wqe' = [wqe EXCEPT ![w] = Fill(k)]
            /\ where' = [where EXCEPT ![w] = Destination(k)]
      BY <1>5 DEF Create
    <2>2. ticking' \in BOOLEAN /\ UNCHANGED <<pc, work>>
      BY <1>5 DEF Create, Safe, TypeOK
    <2>3. Destination(k) \in Place \ {"core"}
      BY DestinationPlace DEF Place
    <2> QED
      BY <2>1, <2>2, <2>3, FillType, OutsideStep DEF At
  <1>6. ASSUME NEW c \in Core, Check(c) \/ FnReturn(c) \/ Settle(c) PROVE Safe'
    <2>1. pc[c] # "idle"
      BY <1>6 DEF Check, FnReturn, Settle
    <2>2. CASE Check(c)
      <3>1. CASE ~IsThread(work[c])
        <4>1. Goto(c, "packet")
          BY <2>2, <3>1 DEF Check
        <4> QED
          BY <2>1, <2>2, <3>1, <4>1, GotoStep DEF Check, Location, Processing
      <3>2. CASE IsThread(work[c])
        <4>1. Goto(c, "run") \/ Goto(c, "settle")
          BY <2>2, <3>2 DEF Check
        <4> QED
          BY <2>1, <2>2, <3>2, <4>1, GotoStep DEF Check, Location, Processing
      <3> QED
        BY <3>1, <3>2
    <2>3. CASE FnReturn(c)
      <3>1. IsThread(work[c])
        BY <2>3 DEF FnReturn, Safe, Judged, Processing
      <3> QED
        BY <2>1, <2>3, <3>1, GotoStep DEF FnReturn, Location, Processing
    <2>4. CASE Settle(c)
      <3>1. IsThread(work[c]) /\ wqe[work[c]].tick \in Nat
        BY <2>1, <2>4 DEF Settle, Safe, Judged, Processing, TypeOK, Contents
      <3>2. Decision(work[c]) \in {"free", "desched", "rearm"}
        BY DEF Decision
      <3>3. Decision(work[c]) = "rearm" => wqe[work[c]].tick > 0
        BY <3>1 DEF Decision
      <3> QED
        BY <2>1, <2>4, <3>1, <3>2, <3>3, GotoStep
           DEF Settle, Location, Processing
    <2> QED
      BY <1>6, <2>2, <2>3, <2>4
  <1>7. ASSUME NEW c \in Core, NEW p \in Place,
               pc[c] \in {"free", "desched", "rearm", "packet"}, Leave(c, p),
               p # "core"
        PROVE  Safe'
    BY <1>7, LeaveStep
  <1> QED
    BY <1>1, <1>2, <1>3, <1>4, <1>5, <1>6, <1>7, GetStep, StopStep, NextCases
       DEF Place

-----------------------------------------------------------------------------
(***************************************************************************)
(* The wheel is large enough for careful callers: it holds timers only,    *)
(* there are at most TimCap of them, and it was started before the first.  *)
(***************************************************************************)
Sized ==
  /\ At("lost") = {}
  /\ At("wheel") \subseteq Timers
  /\ \A w \in Timers : ticking /\ wqe[w].tick <= MaxTick
  /\ Cardinality(Timers) <= TimCap

LEMMA TimersFinite ==
  /\ IsFiniteSet(Timers)
  /\ Cardinality(Timers) \in Nat
  /\ \A S : S \subseteq Timers =>
       IsFiniteSet(S) /\ Cardinality(S) \in Nat
         /\ Cardinality(S) <= Cardinality(Timers)
  <1>1. IsFiniteSet(Timers)
    BY ThreadAssumption, FS_Subset DEF Timers
  <1> QED
    BY <1>1, FS_Subset, FS_CardinalityType

\* A timer that is not in the wheel finds room there.
LEMMA RoomForOne ==
  ASSUME Safe, Sized, NEW w \in Timers, where[w] # "wheel"
  PROVE  ~Refuses(wqe[w].tick)
  <1>1. At("wheel") \subseteq Timers \ {w}
    BY DEF Sized, At
  <1>2. IsFiniteSet(Timers \ {w})
        /\ Cardinality(Timers \ {w}) = Cardinality(Timers) - 1
    BY TimersFinite, FS_RemoveElement
  <1>3. Cardinality(At("wheel")) <= Cardinality(Timers \ {w})
    BY <1>1, <1>2, FS_Subset
  <1>4. Cardinality(At("wheel")) \in Nat /\ Cardinality(Timers) \in Nat
    BY TimersFinite, <1>1
  <1>5. Cardinality(At("wheel")) < TimCap
    BY <1>2, <1>3, <1>4, ThreadAssumption DEF Sized
  <1>6. wqe[w].tick \in Nat
    BY DEF Safe, TypeOK, Contents, Timers
  <1>7. wqe[w].tick <= MaxTick /\ ticking
    BY DEF Sized
  <1> QED
    BY <1>4, <1>5, <1>6, <1>7, ThreadAssumption DEF Refuses

\* A step that makes no timer, loses no WQE and puts only timers in the wheel.
LEMMA NoNewTimer ==
  ASSUME Sized, Timers' \subseteq Timers, At("lost")' = {},
         At("wheel")' \subseteq Timers', ticking => ticking',
         \A w \in Timers' : wqe'[w].tick = wqe[w].tick
  PROVE  Sized'
  <1>1. Cardinality(Timers') <= Cardinality(Timers)
        /\ Cardinality(Timers') \in Nat /\ Cardinality(Timers) \in Nat
    BY TimersFinite
  <1> QED
    BY <1>1, ThreadAssumption DEF Sized

LEMMA SizedInit == ASSUME Init PROVE Sized
  <1>1. Timers = {} /\ At("lost") = {} /\ At("wheel") = {}
    BY DEF Init, Timers, At
  <1>2. Cardinality(Timers) = 0
    BY <1>1, FS_EmptySet
  <1> QED
    BY <1>1, <1>2, ThreadAssumption DEF Sized

LEMMA SizedStep ==
  ASSUME Careful, Safe, Sized, [Next]_vars
  PROVE  Sized'
  <1> USE DEF Safe
  <1>1. CASE UNCHANGED vars
    BY <1>1 DEF vars, Sized, Timers, At, IsThread
  <1>2. CASE TimerInit
    BY <1>2 DEF TimerInit, Sized, Timers, At, IsThread
  <1>3. ASSUME NEW mark \in BOOLEAN, NEW magic \in BOOLEAN, Arrive(mark, magic)
        PROVE  Sized'
    <2>1. PICK w \in Wqe :
            /\ where[w] = "pool"
            /\ wqe' = [wqe EXCEPT ![w].mark = mark, ![w].magic = magic,
                                  ![w].tag = Ordered]
            /\ where' = [where EXCEPT ![w] = "pow"]
      BY <1>3 DEF Arrive, At
    <2>2. \A v \in Wqe : v # w => wqe'[v] = wqe[v] /\ where'[v] = where[v]
      BY <2>1 DEF TypeOK
    <2>3. ~IsThread(w)' /\ where'[w] = "pow" /\ w \notin Timers
      <3>1. wqe[w] \in Contents
        BY <2>1 DEF TypeOK
      <3> QED
        BY <1>3, <2>1, <3>1 DEF TypeOK, IsThread, Arrive, Timers, Contents
    <2>4. Timers' \subseteq Timers
      BY <2>2, <2>3 DEF Timers, IsThread
    <2>5. At("lost")' = {} /\ At("wheel")' \subseteq Timers'
      BY <2>2, <2>3 DEF Sized, At, Timers, IsThread
    <2>6. \A v \in Timers' : wqe'[v].tick = wqe[v].tick
      BY <2>2, <2>3 DEF Timers
    <2> QED
      BY <1>3, <2>4, <2>5, <2>6, NoNewTimer DEF Arrive
  <1>4. ASSUME NEW w \in Wqe, Expire(w) PROVE Sized'
    <2>1. Timers' \subseteq Timers
      BY <1>4 DEF Expire, Timers, IsThread, TypeOK
    <2>2. At("lost")' = {} /\ At("wheel")' \subseteq Timers'
      BY <1>4 DEF Expire, Sized, At, Timers, IsThread, TypeOK
    <2> QED
      BY <1>4, <2>1, <2>2, NoNewTimer DEF Expire
  <1>5. ASSUME NEW c \in Core, NEW k \in Calls, Create(c, k) PROVE Sized'
    <2>1. PICK w \in Wqe :
            /\ where[w] = "pool"
            /\ wqe' = [wqe EXCEPT ![w] = Fill(k)]
            /\ where' = [where EXCEPT ![w] = Destination(k)]
      BY <1>5 DEF Create, At
    <2>2. \A v \in Wqe : v # w => wqe'[v] = wqe[v] /\ where'[v] = where[v]
      BY <2>1 DEF TypeOK
    <2>3. /\ IsThread(w)' /\ wqe'[w].tick = k.tick /\ k.tick \in Nat
          /\ where'[w] = Destination(k)
          /\ w \notin Timers
      BY <2>1, FillType DEF TypeOK, IsThread, Made, Timers
    <2>4. CASE k.tick = 0
      <3>1. Destination(k) = "pow"
        BY <2>4 DEF Destination
      <3>2. Timers' \subseteq Timers
        BY <2>2, <2>3, <2>4 DEF Timers, IsThread
      <3>3. At("lost")' = {} /\ At("wheel")' \subseteq Timers'
        BY <2>2, <2>3, <3>1 DEF Sized, At, Timers, IsThread
      <3>4. \A v \in Timers' : wqe'[v].tick = wqe[v].tick
        BY <2>2, <2>3, <3>2 DEF Timers
      <3> QED
        BY <1>5, <3>2, <3>3, <3>4, NoNewTimer DEF Create, Timers
    <2>5. CASE k.tick # 0
      <3>1. ticking /\ k.tick <= MaxTick /\ Cardinality(Timers) < TimCap
        BY <1>5, <2>3, <2>5 DEF Create, MayStart
      <3>2. Cardinality(At("wheel")) <= Cardinality(Timers)
            /\ Cardinality(At("wheel")) \in Nat /\ Cardinality(Timers) \in Nat
        BY TimersFinite DEF Sized
      <3>3. Destination(k) = "wheel"
        BY <2>3, <2>5, <3>1, <3>2, ThreadAssumption DEF Destination, Refuses
      <3>4. Timers' \subseteq Timers \cup {w}
        BY <2>2 DEF Timers, IsThread
      <3>5. At("lost")' = {} /\ At("wheel")' \subseteq Timers'
        <4>1. At("lost")' = {}
          BY <2>2, <2>3, <3>3 DEF Sized, At
        <4>2. \A v \in Wqe : where'[v] = "wheel" => v \in Timers'
          BY <2>2, <2>3, <2>5, <3>3 DEF Sized, At, Timers, IsThread
        <4> QED
          BY <4>1, <4>2 DEF At
      <3>6. IsFiniteSet(Timers \cup {w})
            /\ Cardinality(Timers \cup {w}) = Cardinality(Timers) + 1
        BY <2>3, TimersFinite, FS_AddElement
      <3>7. Cardinality(Timers') <= Cardinality(Timers) + 1
            /\ Cardinality(Timers') \in Nat
        BY <3>4, <3>6, FS_Subset, FS_CardinalityType
      <3>8. Cardinality(Timers') <= TimCap
        BY <3>1, <3>2, <3>7, ThreadAssumption
      <3>9. \A v \in Timers' : ticking' /\ wqe'[v].tick <= MaxTick
        BY <1>5, <2>2, <2>3, <3>1, <3>4 DEF Sized, Create, Timers
      <3> QED
        BY <3>5, <3>8, <3>9 DEF Sized
    <2> QED
      BY <2>4, <2>5
  <1>6. ASSUME NEW c \in Core, NEW w \in Wqe, Get(c, w) PROVE Sized'
    <2>1. Timers' \subseteq Timers
      BY <1>6 DEF Get, Timers, IsThread, TypeOK
    <2>2. At("lost")' = {} /\ At("wheel")' \subseteq Timers'
      BY <1>6 DEF Get, Sized, At, Timers, IsThread, TypeOK
    <2> QED
      BY <1>6, <2>1, <2>2, NoNewTimer DEF Get
  <1>7. ASSUME NEW c \in Core, NEW w \in Wqe, Stop(c, w) PROVE Sized'
    <2>1. \A v \in Wqe : /\ wqe'[v].tick = wqe[v].tick
                         /\ IsThread(v)' = IsThread(v)
      <3>1. wqe[w] \in Contents
        BY DEF TypeOK
      <3> QED
        BY <1>7, <3>1 DEF Stop, TypeOK, IsThread, Contents
    <2>2. Timers' \subseteq Timers
      BY <1>7, <2>1 DEF Stop, Timers
    <2>3. At("lost")' = {} /\ At("wheel")' \subseteq Timers'
      BY <1>7, <2>1 DEF Stop, Sized, At, Timers
    <2> QED
      BY <1>7, <2>1, <2>2, <2>3, NoNewTimer DEF Stop, Timers
  <1>8. ASSUME NEW c \in Core, Check(c) \/ FnReturn(c) \/ Settle(c) PROVE Sized'
    <2>1. UNCHANGED <<where, wqe, ticking>>
      BY <1>8 DEF Check, FnReturn, Settle
    <2>2. Timers' = Timers /\ At("lost")' = At("lost")
          /\ At("wheel")' = At("wheel")
      BY <2>1 DEF Timers, At, IsThread
    <2> QED
      BY <2>1, <2>2, NoNewTimer DEF Sized
  <1>9. ASSUME NEW c \in Core, pc[c] # "idle", NEW p \in {"pool", "pow"},
               Leave(c, p)
        PROVE  Sized'
    <2>1. work[c] \in Wqe
      BY <1>9 DEF TypeOK
    <2>2. Timers' \subseteq Timers
      BY <1>9, <2>1 DEF Leave, Timers, IsThread, TypeOK, Placed
    <2>3. At("lost")' = {} /\ At("wheel")' \subseteq Timers'
      BY <1>9, <2>1 DEF Leave, Sized, At, Timers, IsThread, TypeOK
    <2> QED
      BY <1>9, <2>2, <2>3, NoNewTimer DEF Leave
  <1>10. ASSUME NEW c \in Core, Rearm(c) PROVE Sized'
    <2>1. /\ work[c] \in Wqe /\ where[work[c]] = "core"
          /\ IsThread(work[c]) /\ wqe[work[c]].tick > 0
      BY <1>10 DEF Rearm, TypeOK, Placed, Judged, Processing
    <2>2. work[c] \in Timers
      BY <2>1 DEF Timers
    <2>3. Leave(c, "wheel")
      BY <1>10, <2>1, <2>2, RoomForOne DEF Rearm
    <2>4. Timers' \subseteq Timers
      BY <2>1, <2>2, <2>3 DEF Leave, Timers, IsThread, TypeOK
    <2>5. At("lost")' = {} /\ At("wheel")' \subseteq Timers'
      BY <2>1, <2>2, <2>3 DEF Leave, Sized, At, Timers, IsThread, TypeOK
    <2> QED
      BY <2>3, <2>4, <2>5, NoNewTimer DEF Leave
  <1>11. ASSUME NEW c \in Core, Process(c) PROVE Sized'
    <2>1. CASE Free(c) \/ Desched(c) \/ PacketDone(c)
      BY <2>1, <1>9 DEF Free, Desched, PacketDone
    <2> QED
      BY <1>8, <1>10, <1>11, <2>1 DEF Process
  <1> QED
    BY <1>1, <1>2, <1>3, <1>4, <1>5, <1>6, <1>7, <1>11 DEF Next

-----------------------------------------------------------------------------
(***************************************************************************)
(* The life of a WQE, read off its place or off the core that has it.      *)
(***************************************************************************)
LEMMA LifeAtCore ==
  ASSUME TypeOK, Placed, NEW c \in Core, work[c] # Null
  PROVE  Life(work[c]) =
           IF ~IsThread(work[c]) \/ pc[c] = "free" THEN "none"
           ELSE IF pc[c] \in {"run", "settle"} THEN "running" ELSE "waiting"
  <1>1. Doing(work[c]) = {pc[c]}
    BY DEF Doing, Placed
  <1>2. where[work[c]] = "core"
    BY DEF Placed
  <1> QED
    BY <1>1, <1>2 DEF Life

LEMMA LifeElsewhere ==
  ASSUME Placed, NEW w \in Wqe, Null \notin Wqe, where[w] # "core"
  PROVE  Life(w) = IF IsThread(w) /\ where[w] \notin {"pool", "lost"}
                   THEN "waiting" ELSE "none"
  <1>1. \A c \in Core : work[c] # w
    BY DEF Placed
  <1>2. Doing(w) = {}
    BY <1>1 DEF Doing
  <1> QED
    BY <1>2 DEF Life

\* The life of a WQE that a step does not touch stays what it was.
LEMMA LifeFrame ==
  ASSUME NEW w \in Wqe, where'[w] = where[w], IsThread(w)' = IsThread(w),
         Doing(w)' = Doing(w)
  PROVE  Life(w)' = Life(w)
  BY DEF Life

\* The two functions that stand for the variables of ThreadLife.
lives == [w \in Wqe |-> Life(w)]
ending == [w \in Wqe |-> Life(w) # "none" /\ wqe[w].free]

(***************************************************************************)
(* A step that changes the life of one WQE and of no other is the step of  *)
(* ThreadLife that changes it that way.                                    *)
(***************************************************************************)
LEMMA OneLife ==
  ASSUME NEW w \in Wqe, wqe' \in [Wqe -> Contents], wqe \in [Wqe -> Contents],
         \A v \in Wqe \ {w} : Life(v)' = Life(v) /\ wqe'[v].free = wqe[v].free
  PROVE  /\ lives' = [lives EXCEPT ![w] = Life(w)']
         /\ ending' = [ending EXCEPT ![w] = Life(w)' # "none" /\ wqe'[w].free]
  <1>1. lives' = [lives EXCEPT ![w] = Life(w)']
    BY DEF lives
  <1>2. \A v \in Wqe : ending'[v] =
          [ending EXCEPT ![w] = Life(w)' # "none" /\ wqe'[w].free][v]
    BY DEF ending
  <1>3. ending' = [v \in Wqe |-> ending'[v]]
    BY DEF ending
  <1> QED
    BY <1>1, <1>2, <1>3 DEF ending

\* If that life does not change either, ThreadLife stutters.
LEMMA NoLife ==
  ASSUME NEW w \in Wqe, wqe' \in [Wqe -> Contents], wqe \in [Wqe -> Contents],
         \A v \in Wqe \ {w} : Life(v)' = Life(v) /\ wqe'[v].free = wqe[v].free,
         Life(w)' = Life(w), Life(w) # "none" => wqe'[w].free = wqe[w].free
  PROVE  UNCHANGED <<lives, ending>>
  <1>1. lives' = [lives EXCEPT ![w] = Life(w)]
    BY OneLife
  <1>2. ending' = [ending EXCEPT ![w] = Life(w)' # "none" /\ wqe'[w].free]
    BY OneLife
  <1>3. (Life(w)' # "none" /\ wqe'[w].free) = ending[w]
    BY DEF ending
  <1> QED
    BY <1>1, <1>2, <1>3 DEF lives, ending

\* Only the lives of the WQEs that a step takes hold of can change.
LEMMA OtherLives ==
  ASSUME Safe, NEW w \in Wqe, wqe' \in [Wqe -> Contents],
         \A v \in Wqe \ {w} : where'[v] = where[v] /\ wqe'[v] = wqe[v],
         \/ UNCHANGED <<pc, work>>
         \/ \E c \in Core : /\ work[c] \in {w, Null}
                            /\ work'[c] \in {w, Null}
                            /\ \A d \in Core \ {c} : pc'[d] = pc[d]
                                                     /\ work'[d] = work[d]
  PROVE  \A v \in Wqe \ {w} : Life(v)' = Life(v) /\ wqe'[v].free = wqe[v].free
  <1> SUFFICES ASSUME NEW v \in Wqe \ {w}
               PROVE  Life(v)' = Life(v) /\ wqe'[v].free = wqe[v].free
    OBVIOUS
  <1>1. Doing(v)' = Doing(v)
    BY ThreadAssumption DEF Doing
  <1>2. IsThread(v)' = IsThread(v)
    BY DEF IsThread
  <1> QED
    BY <1>1, <1>2, LifeFrame

\* The initial states are initial states of ThreadLife.
LEMMA LifeInit == ASSUME Init PROVE Lives!Init
  <1>1. \A w \in Wqe : Life(w) = "none"
    BY DEF Init, Life, IsThread
  <1> QED
    BY <1>1 DEF Lives!Init

-----------------------------------------------------------------------------
(* The steps outside ewx_thread_process.                                     *)

LEMMA ArriveMaps ==
  ASSUME Safe, Safe', NEW mark \in BOOLEAN, NEW magic \in BOOLEAN,
         Arrive(mark, magic)
  PROVE  UNCHANGED <<lives, ending>>
  <1>1. PICK w \in Wqe :
          /\ where[w] = "pool"
          /\ wqe' = [wqe EXCEPT ![w].mark = mark, ![w].magic = magic,
                                ![w].tag = Ordered]
          /\ where' = [where EXCEPT ![w] = "pow"]
    BY DEF Arrive, At
  <1>2. wqe \in [Wqe -> Contents] /\ wqe' \in [Wqe -> Contents]
    BY DEF Safe, TypeOK
  <1>3. \A v \in Wqe \ {w} : Life(v)' = Life(v) /\ wqe'[v].free = wqe[v].free
    BY <1>1, <1>2, OtherLives DEF Arrive, Safe, TypeOK
  <1>4. Life(w) = "none"
    BY <1>1 DEF Life
  <1>5. ~IsThread(w)'
    BY <1>1, <1>2 DEF IsThread, Arrive, Contents
  <1>6. Life(w)' = "none"
    BY <1>5 DEF Life
  <1> QED
    BY <1>2, <1>3, <1>4, <1>6, NoLife

LEMMA ExpireMaps ==
  ASSUME Safe, Safe', NEW w \in Wqe, Expire(w)
  PROVE  UNCHANGED <<lives, ending>>
  <1>1. wqe \in [Wqe -> Contents] /\ wqe' \in [Wqe -> Contents]
    BY DEF Safe, TypeOK
  <1>2. \A v \in Wqe \ {w} : Life(v)' = Life(v) /\ wqe'[v].free = wqe[v].free
    BY <1>1, OtherLives DEF Expire, Safe, TypeOK
  <1>3. where[w] = "wheel" /\ where'[w] = "pow" /\ wqe' = wqe
    BY DEF Expire, Safe, TypeOK
  <1>4. Life(w) = IF IsThread(w) THEN "waiting" ELSE "none"
    BY <1>3, LifeElsewhere, ThreadAssumption DEF Safe
  <1>5. \A c \in Core : work'[c] # w
    BY <1>3, ThreadAssumption DEF Safe, Placed, Expire
  <1>6. Doing(w)' = {}
    BY <1>5 DEF Doing
  <1>7. Life(w)' = Life(w)
    BY <1>3, <1>4, <1>6 DEF Life, IsThread
  <1> QED
    BY <1>1, <1>2, <1>3, <1>7, NoLife

LEMMA CreateMaps ==
  ASSUME Safe, Safe', NEW c \in Core, NEW k \in Calls, Create(c, k)
  PROVE  [Lives!Next]_<<lives, ending>>
  <1>1. PICK w \in Wqe :
          /\ where[w] = "pool"
          /\ wqe' = [wqe EXCEPT ![w] = Fill(k)]
          /\ where' = [where EXCEPT ![w] = Destination(k)]
    BY DEF Create, At
  <1>2. wqe \in [Wqe -> Contents] /\ wqe' \in [Wqe -> Contents]
    BY DEF Safe, TypeOK
  <1>3. \A v \in Wqe \ {w} : Life(v)' = Life(v) /\ wqe'[v].free = wqe[v].free
    BY <1>1, <1>2, OtherLives DEF Create, Safe, TypeOK
  <1>4. Life(w) = "none"
    BY <1>1 DEF Life
  <1>5. where'[w] = Destination(k) /\ wqe'[w] = Fill(k)
    BY <1>1 DEF Safe, TypeOK
  <1>6. IsThread(w)'
    BY <1>5, FillType DEF IsThread, Made
  <1>7. CASE Destination(k) = "lost"
    <2>1. Life(w)' = "none"
      BY <1>5, <1>7 DEF Life
    <2> QED
      BY <1>2, <1>3, <1>4, <2>1, NoLife
  <1>8. CASE Destination(k) # "lost"
    <2>1. \A d \in Core : work'[d] # w
      BY <1>1, ThreadAssumption DEF Create, Safe, Placed
    <2>2. Doing(w)' = {}
      BY <2>1 DEF Doing
    <2>3. Life(w)' = "waiting"
      BY <1>5, <1>6, <1>8, <2>2, DestinationPlace DEF Life
    <2>4. wqe'[w].free = (k.api = "thread")
      BY <1>5 DEF Fill
    <2>5. lives' = [lives EXCEPT ![w] = "waiting"]
          /\ ending' = [ending EXCEPT ![w] = (k.api = "thread")]
      BY <1>2, <1>3, <2>3, <2>4, OneLife
    <2>6. lives[w] = "none"
      BY <1>4 DEF lives
    <2>7. Lives!Create(w, k.api = "thread")
      BY <2>5, <2>6 DEF Lives!Create, lives, ending
    <2>8. (k.api = "thread") \in BOOLEAN
      OBVIOUS
    <2> QED
      BY <2>7, <2>8 DEF Lives!Next
  <1> QED
    BY <1>7, <1>8

LEMMA GetMaps ==
  ASSUME Safe, Safe', NEW c \in Core, NEW w \in Wqe, Get(c, w)
  PROVE  UNCHANGED <<lives, ending>>
  <1>1. wqe \in [Wqe -> Contents] /\ wqe' \in [Wqe -> Contents] /\ wqe' = wqe
    BY DEF Safe, TypeOK, Get
  <1>2. /\ work[c] = Null /\ work'[c] = w /\ pc'[c] = "check" /\ w # Null
        /\ \A d \in Core \ {c} : pc'[d] = pc[d] /\ work'[d] = work[d]
    BY ThreadAssumption DEF Get, Safe, TypeOK
  <1>3. \A v \in Wqe \ {w} : Life(v)' = Life(v) /\ wqe'[v].free = wqe[v].free
    BY <1>1, <1>2, OtherLives DEF Get, Safe, TypeOK
  <1>4. Life(w) = IF IsThread(w) THEN "waiting" ELSE "none"
    BY LifeElsewhere, ThreadAssumption DEF Safe, Get
  <1>5. where'[w] = "core"
    BY DEF Get, Safe, TypeOK
  <1>6. Doing(w)' = {"check"}
    BY <1>2 DEF Doing, Safe, Placed
  <1>7. Life(w)' = Life(w)
    BY <1>1, <1>4, <1>5, <1>6 DEF Life, IsThread
  <1> QED
    BY <1>1, <1>3, <1>7, NoLife

LEMMA StopMaps ==
  ASSUME Safe, Safe', NEW c \in Core, NEW w \in Wqe, Stop(c, w)
  PROVE  [Lives!Next]_<<lives, ending>>
  <1>1. wqe \in [Wqe -> Contents] /\ wqe' \in [Wqe -> Contents]
    BY DEF Safe, TypeOK
  <1>2. \A v \in Wqe \ {w} : Life(v)' = Life(v) /\ wqe'[v].free = wqe[v].free
    BY <1>1, OtherLives DEF Stop, Safe, TypeOK
  <1>3. IsThread(w)' = IsThread(w) /\ wqe'[w].free
    BY <1>1 DEF Stop, IsThread, Contents
  <1>4. Doing(w)' = Doing(w)
    BY DEF Doing, Stop
  <1>5. Life(w)' = Life(w)
    BY <1>3, <1>4, LifeFrame DEF Stop
  <1>6. CASE Life(w) = "none"
    BY <1>1, <1>2, <1>5, <1>6, NoLife
  <1>7. CASE Life(w) # "none"
    <2>1. ending' = [ending EXCEPT ![w] = TRUE] /\ lives' = lives
      <3>1. lives' = [lives EXCEPT ![w] = Life(w)]
        BY <1>1, <1>2, <1>5, OneLife
      <3>2. (Life(w)' # "none" /\ wqe'[w].free) = TRUE
        BY <1>3, <1>5, <1>7
      <3> QED
        BY <1>1, <1>2, <3>1, <3>2, OneLife DEF lives
    <2>2. lives[w] # "none"
      BY <1>7 DEF lives
    <2>3. Lives!Stop(w)
      BY <2>1, <2>2 DEF Lives!Stop, lives, ending
    <2> QED
      BY <2>3 DEF Lives!Next
  <1> QED
    BY <1>6, <1>7

-----------------------------------------------------------------------------
(* The steps of ewx_thread_process.                                          *)

\* A core that goes on from one location to another.
LEMMA GotoLife ==
  ASSUME Safe, Safe', NEW c \in Core, pc[c] # "idle", NEW l \in Location,
         Goto(c, l), UNCHANGED <<where, wqe, ticking>>, NEW w, w = work[c]
  PROVE  /\ w \in Wqe
         /\ wqe \in [Wqe -> Contents] /\ wqe' \in [Wqe -> Contents]
         /\ \A v \in Wqe \ {w} : Life(v)' = Life(v) /\ wqe'[v].free = wqe[v].free
         /\ Life(w) = IF ~IsThread(w) \/ pc[c] = "free" THEN "none"
              ELSE IF pc[c] \in {"run", "settle"} THEN "running" ELSE "waiting"
         /\ Life(w)' = IF ~IsThread(w) \/ l = "free" THEN "none"
              ELSE IF l \in {"run", "settle"} THEN "running" ELSE "waiting"
  <1>1. w \in Wqe /\ work'[c] = w /\ pc'[c] = l
    BY DEF Goto, Safe, TypeOK
  <1>2. wqe \in [Wqe -> Contents] /\ wqe' \in [Wqe -> Contents]
    BY DEF Safe, TypeOK
  <1>3. \A d \in Core \ {c} : pc'[d] = pc[d] /\ work'[d] = work[d]
    BY DEF Goto, Safe, TypeOK
  <1>4. \A v \in Wqe \ {w} : Life(v)' = Life(v) /\ wqe'[v].free = wqe[v].free
    BY <1>1, <1>2, <1>3, OtherLives
  <1>5. w # Null
    BY <1>1, ThreadAssumption
  <1>6. Life(w) = IF ~IsThread(w) \/ pc[c] = "free" THEN "none"
          ELSE IF pc[c] \in {"run", "settle"} THEN "running" ELSE "waiting"
    BY <1>5, LifeAtCore DEF Safe
  <1>7. Doing(w)' = {l}
    BY <1>1, <1>5 DEF Doing, Safe, Placed
  <1>8. where'[w] = "core" /\ IsThread(w)' = IsThread(w)
    BY <1>1, <1>5 DEF Safe, Placed, IsThread
  <1>9. Life(w)' = IF ~IsThread(w) \/ l = "free" THEN "none"
          ELSE IF l \in {"run", "settle"} THEN "running" ELSE "waiting"
    BY <1>7, <1>8 DEF Life
  <1> QED
    BY <1>1, <1>2, <1>4, <1>6, <1>9

LEMMA CheckMaps ==
  ASSUME Safe, Safe', NEW c \in Core, Check(c)
  PROVE  [Lives!Next]_<<lives, ending>>
  <1>1. PICK w : w = work[c]
    OBVIOUS
  <1>2. pc[c] = "check" /\ UNCHANGED <<where, wqe, ticking>>
    BY DEF Check
  <1>3. CASE ~IsThread(w)
    <2>1. Goto(c, "packet")
      BY <1>1, <1>3 DEF Check
    <2>2. /\ w \in Wqe
          /\ wqe \in [Wqe -> Contents] /\ wqe' \in [Wqe -> Contents]
          /\ \A v \in Wqe \ {w} :
               Life(v)' = Life(v) /\ wqe'[v].free = wqe[v].free
          /\ Life(w) = "none" /\ Life(w)' = "none"
      BY <1>1, <1>2, <1>3, <2>1, GotoLife DEF Location
    <2> QED
      BY <2>2, NoLife
  <1>4. CASE IsThread(w)
    <2>1. PICK l \in {"run", "settle"} : Goto(c, l)
      BY <1>1, <1>4 DEF Check
    <2>2. /\ w \in Wqe
          /\ wqe \in [Wqe -> Contents] /\ wqe' \in [Wqe -> Contents]
          /\ \A v \in Wqe \ {w} :
               Life(v)' = Life(v) /\ wqe'[v].free = wqe[v].free
          /\ Life(w) = "waiting" /\ Life(w)' = "running"
      BY <1>1, <1>2, <1>4, <2>1, GotoLife DEF Location, Processing
    <2>3. lives' = [lives EXCEPT ![w] = "running"]
          /\ ending' = [ending EXCEPT ![w] = wqe[w].free]
      <3>1. (Life(w)' # "none" /\ wqe'[w].free) = wqe[w].free
        BY <1>2, <2>2 DEF Contents
      <3> QED
        BY <2>2, <3>1, OneLife
    <2>4. lives[w] = "waiting" /\ ending[w] = wqe[w].free
      BY <2>2 DEF lives, ending, Contents
    <2>5. ending' = ending
      BY <2>3, <2>4 DEF ending
    <2>6. Lives!Start(w)
      BY <2>3, <2>4, <2>5 DEF Lives!Start, lives, ending
    <2> QED
      BY <2>2, <2>6 DEF Lives!Next
  <1> QED
    BY <1>3, <1>4

LEMMA FnReturnMaps ==
  ASSUME Safe, Safe', NEW c \in Core, FnReturn(c)
  PROVE  UNCHANGED <<lives, ending>>
  <1>1. PICK w : w = work[c]
    OBVIOUS
  <1>2. pc[c] = "run" /\ Goto(c, "settle") /\ UNCHANGED <<where, wqe, ticking>>
    BY DEF FnReturn
  <1>3. /\ w \in Wqe
        /\ wqe \in [Wqe -> Contents] /\ wqe' \in [Wqe -> Contents]
        /\ \A v \in Wqe \ {w} :
             Life(v)' = Life(v) /\ wqe'[v].free = wqe[v].free
        /\ Life(w)' = Life(w)
    BY <1>1, <1>2, GotoLife DEF Location, Processing
  <1> QED
    BY <1>2, <1>3, NoLife

LEMMA SettleMaps ==
  ASSUME Safe, Safe', NEW c \in Core, Settle(c)
  PROVE  [Lives!Next]_<<lives, ending>>
  <1>1. PICK w : w = work[c]
    OBVIOUS
  <1>2. PICK l \in {"free", "desched", "rearm"} : l = Decision(w)
    BY DEF Decision
  <1>3. pc[c] = "settle" /\ Goto(c, l) /\ UNCHANGED <<where, wqe, ticking>>
    BY <1>1, <1>2 DEF Settle
  <1>4. IsThread(w)
    BY <1>1, <1>3 DEF Safe, Judged, Processing
  <1>5. /\ w \in Wqe
        /\ wqe \in [Wqe -> Contents] /\ wqe' \in [Wqe -> Contents]
        /\ \A v \in Wqe \ {w} :
             Life(v)' = Life(v) /\ wqe'[v].free = wqe[v].free
        /\ Life(w) = "running"
        /\ Life(w)' = IF l = "free" THEN "none" ELSE "waiting"
    BY <1>1, <1>2, <1>3, <1>4, GotoLife DEF Location, Processing
  <1>6. wqe[w].free \in BOOLEAN /\ wqe'[w].free = wqe[w].free
    BY <1>3, <1>5 DEF Contents
  <1>7. lives[w] = "running" /\ ending[w] = wqe[w].free
    BY <1>5, <1>6 DEF lives, ending
  <1>8. CASE wqe[w].free
    <2>1. l = "free"
      BY <1>2, <1>8 DEF Decision
    <2>2. lives' = [lives EXCEPT ![w] = "none"]
          /\ ending' = [ending EXCEPT ![w] = FALSE]
      <3>1. (Life(w)' # "none" /\ wqe'[w].free) = FALSE
        BY <1>5, <2>1
      <3> QED
        BY <1>5, <2>1, <3>1, OneLife
    <2>3. Lives!End(w)
      BY <1>7, <1>8, <2>2 DEF Lives!End, Lives!Vanish, lives, ending
    <2> QED
      BY <1>5, <2>3 DEF Lives!Next
  <1>9. CASE ~wqe[w].free
    <2>1. l # "free"
      BY <1>2, <1>9 DEF Decision
    <2>2. lives' = [lives EXCEPT ![w] = "waiting"]
          /\ ending' = [ending EXCEPT ![w] = FALSE]
      <3>1. (Life(w)' # "none" /\ wqe'[w].free) = FALSE
        BY <1>6, <1>9
      <3> QED
        BY <1>5, <2>1, <3>1, OneLife
    <2>3. ending' = ending
      BY <1>6, <1>7, <1>9, <2>2 DEF ending
    <2>4. Lives!Again(w)
      BY <1>6, <1>7, <1>9, <2>2, <2>3 DEF Lives!Again, lives, ending
    <2> QED
      BY <1>5, <2>4 DEF Lives!Next
  <1> QED
    BY <1>6, <1>8, <1>9

\* A core that is done with its WQE.
LEMMA LeaveMaps ==
  ASSUME Safe, Safe', NEW c \in Core, NEW p \in Place \ {"core"}, Leave(c, p),
         pc[c] \in {"free", "packet"} => p = "pool",
         pc[c] \in {"desched", "rearm"} => p # "pool",
         p = "lost" => ~Careful,
         pc[c] \in {"free", "desched", "rearm", "packet"}
  PROVE  [Lives!Next]_<<lives, ending>>
  <1>1. PICK w : w = work[c]
    OBVIOUS
  <1>2. w \in Wqe /\ w # Null
    BY <1>1, ThreadAssumption DEF Safe, TypeOK
  <1>3. wqe \in [Wqe -> Contents] /\ wqe' \in [Wqe -> Contents] /\ wqe' = wqe
    BY DEF Safe, TypeOK, Leave
  <1>4. /\ work'[c] = Null /\ where'[w] = p
        /\ \A d \in Core \ {c} : pc'[d] = pc[d] /\ work'[d] = work[d]
        /\ \A v \in Wqe \ {w} : where'[v] = where[v]
    BY <1>1, <1>2 DEF Leave, Safe, TypeOK
  <1>5. \A v \in Wqe \ {w} : Life(v)' = Life(v) /\ wqe'[v].free = wqe[v].free
    BY <1>1, <1>2, <1>3, <1>4, OtherLives
  <1>6. Life(w) = IF ~IsThread(w) \/ pc[c] = "free" THEN "none" ELSE "waiting"
    BY <1>1, <1>2, LifeAtCore DEF Safe
  <1>7. \A d \in Core : work'[d] # w
    BY <1>1, <1>2, <1>4 DEF Safe, Placed
  <1>8. Doing(w)' = {}
    BY <1>7 DEF Doing
  <1>9. Life(w)' = IF IsThread(w) /\ p \notin {"pool", "lost"}
                   THEN "waiting" ELSE "none"
    BY <1>3, <1>4, <1>8 DEF Life, IsThread, Place
  <1>10. CASE pc[c] \in {"free", "packet"}
    <2>1. Life(w) = "none" /\ Life(w)' = "none"
      BY <1>1, <1>6, <1>9, <1>10 DEF Safe, Judged
    <2> QED
      BY <1>2, <1>3, <1>5, <2>1, NoLife
  <1>11. CASE pc[c] \in {"desched", "rearm"} /\ p # "lost"
    <2>1. Life(w)' = Life(w)
      BY <1>6, <1>9, <1>11
    <2> QED
      BY <1>2, <1>3, <1>5, <2>1, NoLife
  <1>12. CASE pc[c] \in {"desched", "rearm"} /\ p = "lost"
    <2>1. IsThread(w)
      BY <1>1, <1>12 DEF Safe, Judged, Processing
    <2>2. Life(w) = "waiting" /\ Life(w)' = "none"
      BY <1>6, <1>9, <1>12, <2>1
    <2>3. lives' = [lives EXCEPT ![w] = "none"]
          /\ ending' = [ending EXCEPT ![w] = FALSE]
      <3>1. (Life(w)' # "none" /\ wqe'[w].free) = FALSE
        BY <2>2
      <3> QED
        BY <1>2, <1>3, <1>5, <2>2, <3>1, OneLife
    <2>4. lives[w] = "waiting"
      BY <1>2, <2>2 DEF lives
    <2>5. Lives!Lose(w)
      BY <1>12, <2>3, <2>4 DEF Lives!Lose, Lives!Vanish, lives, ending
    <2> QED
      BY <1>2, <2>5 DEF Lives!Next
  <1> QED
    BY <1>10, <1>11, <1>12

\* Every step is a step of ThreadLife or leaves all lives alone.
LEMMA LifeStep ==
  ASSUME Safe, Safe', Careful => Sized', [Next]_vars
  PROVE  [Lives!Next]_Lives!vars
  <1>1. SUFFICES [Lives!Next]_<<lives, ending>>
    BY DEF Lives!vars, lives, ending
  <1>2. CASE UNCHANGED <<where, wqe, pc, work>>
    BY <1>2 DEF lives, ending, Life, IsThread, Doing
  <1>3. CASE TimerInit \/ UNCHANGED vars
    BY <1>2, <1>3 DEF TimerInit, vars
  <1>4. ASSUME NEW c \in Core, NEW p \in Place \ {"core"}, Leave(c, p),
               pc[c] \in {"free", "desched", "rearm", "packet"}
        PROVE  p = "lost" => ~Careful
    <2>1. work[c] \in Wqe
      BY <1>4 DEF Safe, TypeOK
    <2>2. where'[work[c]] = p
      BY <1>4, <2>1 DEF Leave, Safe, TypeOK
    <2> QED
      BY <2>1, <2>2 DEF Sized, At
  <1>5. ASSUME NEW c \in Core, Process(c)
        PROVE  [Lives!Next]_<<lives, ending>>
    <2>1. CASE Check(c)
      BY <2>1, CheckMaps
    <2>2. CASE FnReturn(c)
      BY <2>2, FnReturnMaps
    <2>3. CASE Settle(c)
      BY <2>3, SettleMaps
    <2>4. CASE Free(c) \/ PacketDone(c)
      BY <2>4, LeaveMaps DEF Free, PacketDone, Place
    <2>5. CASE Desched(c)
      BY <2>5, LeaveMaps DEF Desched, Place
    <2>6. CASE Rearm(c)
      <3>1. PICK p \in {"lost", "wheel"} : Leave(c, p)
        BY <2>6 DEF Rearm
      <3> QED
        BY <1>4, <2>6, <3>1, LeaveMaps DEF Rearm, Place
    <2> QED
      BY <1>5, <2>1, <2>2, <2>3, <2>4, <2>5, <2>6 DEF Process
  <1> QED
    BY <1>3, <1>5, ArriveMaps, ExpireMaps, CreateMaps, GetMaps, StopMaps
       DEF Next

-----------------------------------------------------------------------------
(***************************************************************************)
(* The inductive invariant holds in every behaviour: a WQE is in one       *)
(* place, is treated as what it is, and an atomic tag is with one core.    *)
(***************************************************************************)
THEOREM SafeAlways == Spec => []Safe
  BY SafeInit, SafeStep, PTL DEF Spec

(***************************************************************************)
(* ewx_thread_process and the create functions keep every variable of its  *)
(* type.                                                                   *)
(***************************************************************************)
THEOREM ThreadTypes == Spec => []TypeOK
  <1>1. Safe => TypeOK
    BY DEF Safe
  <1> QED
    BY <1>1, SafeAlways, PTL

(***************************************************************************)
(* The WQE that ewx_thread_process works on is with its core alone.        *)
(***************************************************************************)
THEOREM OnePlace == Spec => []Placed
  <1>1. Safe => Placed
    BY DEF Safe
  <1> QED
    BY <1>1, SafeAlways, PTL

(***************************************************************************)
(* Only what thread_create or timer_create filled in gets past the test at *)
(* the top of ewx_thread_process.                                          *)
(***************************************************************************)
THEOREM ForeignWorkRefused == Spec => []OnlyThreadsRun
  <1>1. Safe => OnlyThreadsRun
    <2> SUFFICES ASSUME Safe, NEW c \in Core, pc[c] \in Processing \ {"check"}
                 PROVE  Intact(work[c])
      BY DEF OnlyThreadsRun
    <2>1. IsThread(work[c]) /\ work[c] \in Wqe
      BY DEF Safe, Judged, TypeOK, Processing
    <2> QED
      BY <2>1 DEF Safe, ThreadsIntact
  <1> QED
    BY <1>1, SafeAlways, PTL

(***************************************************************************)
(* Callbacks that are created with one atomic tag exclude each other on    *)
(* any number of cores, whichever way their WQEs reach the POW.            *)
(***************************************************************************)
THEOREM CallbacksExclude == Spec => []MutualExclusion
  <1>1. Safe => MutualExclusion
    <2> SUFFICES ASSUME Safe, NEW c \in Core, NEW d \in Core,
                        pc[c] = "run", pc[d] = "run",
                        wqe[work[c]].fn = wqe[work[d]].fn,
                        wqe[work[c]].fn \in Exclusive
                 PROVE  c = d
      BY DEF MutualExclusion
    <2>1. /\ IsThread(work[c]) /\ IsThread(work[d])
          /\ work[c] \in Wqe /\ work[d] \in Wqe
          /\ work[c] # Null /\ work[d] # Null
      BY DEF Safe, Judged, TypeOK, Processing
    <2>2. PICK j \in Calls : Made(wqe[work[c]], j)
      BY <2>1 DEF Safe, ThreadsIntact, Intact
    <2>3. PICK k \in Calls : Made(wqe[work[d]], k)
      BY <2>1 DEF Safe, ThreadsIntact, Intact
    <2>4. wqe[work[c]].tag = wqe[work[d]].tag /\ wqe[work[c]].tag \in AtomicTag
      BY <2>2, <2>3, ExclusiveAssumption DEF Made
    <2> QED
      BY <2>1, <2>4 DEF Safe, TagsHeldOnce
  <1> QED
    BY <1>1, SafeAlways, PTL

(***************************************************************************)
(* A wheel that is started before the first timer and has room for all     *)
(* timers that were not freed never refuses one, so no WQE is lost.        *)
(***************************************************************************)
THEOREM WheelSuffices == ASSUME Careful PROVE Spec => []NothingLost
  <1>1. Init => Sized
    BY SizedInit
  <1>2. Safe /\ Sized /\ [Next]_vars => Sized'
    BY SizedStep
  <1>3. Sized => NothingLost
    BY DEF Sized, NothingLost
  <1> QED
    BY <1>1, <1>2, <1>3, SafeAlways, PTL DEF Spec

(***************************************************************************)
(* Threads and timers live as ThreadLife promises: every behaviour of the  *)
(* pool, the POW, the wheel and the cores is one of ThreadLife's, without  *)
(* lost threads when the callers are careful.                              *)
(***************************************************************************)
THEOREM LivesRefined == Spec => LivesAsPromised
  <1>1. Spec => [](Careful => Sized)
    <2>1. CASE Careful
      <3>1. Init => Sized
        BY SizedInit
      <3>2. Safe /\ Sized /\ [Next]_vars => Sized'
        BY <2>1, SizedStep
      <3>3. Sized => (Careful => Sized)
        OBVIOUS
      <3> QED
        BY <3>1, <3>2, <3>3, SafeAlways, PTL DEF Spec
    <2>2. CASE ~Careful
      <3>1. Careful => Sized
        BY <2>2
      <3> QED
        BY <3>1, PTL
    <2> QED
      BY <2>1, <2>2
  <1>2. Init => Lives!Init
    BY LifeInit
  <1>3. Safe /\ Safe' /\ (Careful => Sized)' /\ [Next]_vars
          => [Lives!Next]_Lives!vars
    BY LifeStep
  <1> QED
    BY <1>1, <1>2, <1>3, SafeAlways, PTL DEF Spec, LivesAsPromised, Lives!Spec
-----------------------------------------------------------------------------
(***************************************************************************)
(* The way of a thread, round after round: how many stages are left of it. *)
(* Whoever cannot stay at a stage for ever gets to the next one.           *)
(***************************************************************************)
RoundLeft ==
  [desched |-> 7, rearm |-> 7, wheel |-> 6, pow |-> 5, check |-> 4, run |-> 3,
   settle |-> 2, free |-> 1, pool |-> 0, lost |-> 0]

\* Where a WQE is, or at what its core is.
Stage(w) == (Doing(w) \cup {where[w]}) \ {"core"}

\* Another round begins only if nobody has stopped the thread when its core settles.
Downward(w, s, t) ==
  \/ t = s
  \/ RoundLeft[t] < RoundLeft[s]
  \/ s = "settle" /\ ~wqe[w].free /\ t \in {"desched", "rearm"}

\* The WQE of a thread is at one stage before and after a step, and it only goes
\* down; a stop is not taken back.
GoesDown(w) ==
  /\ IsThread(w)'
  /\ wqe[w].free => wqe'[w].free
  /\ \E s, t \in DOMAIN RoundLeft :
       Stage(w) = {s} /\ Stage(w)' = {t} /\ Downward(w, s, t)

\* This holds of every thread that is not freed.
RoundsGoDown == \A w \in Wqe : IsThread(w) /\ where[w] # "pool" => GoesDown(w)

\* The stage of a WQE that no core has ...
LEMMA StageElsewhere ==
  ASSUME Safe, NEW w \in Wqe, where[w] # "core" PROVE Stage(w) = {where[w]}
  <1>1. Doing(w) = {}
    BY ThreadAssumption DEF Safe, Placed, Doing
  <1> QED
    BY <1>1 DEF Stage

\* ... and of one that a core has.
LEMMA StageAtCore ==
  ASSUME Safe, NEW c \in Core, work[c] # Null
  PROVE  Stage(work[c]) = {pc[c]} /\ where[work[c]] = "core"
  <1>1. Doing(work[c]) = {pc[c]}
    BY DEF Safe, Placed, Doing
  <1>2. where[work[c]] = "core" /\ pc[c] # "core"
    BY DEF Safe, Placed, TypeOK, Location, Processing
  <1> QED
    BY <1>1, <1>2 DEF Stage

\* The same of the next state.
LEMMA StageElsewhereNext ==
  (\A w \in Wqe : Safe /\ where[w] # "core" => Stage(w) = {where[w]})'
  <1>1. \A w \in Wqe : Safe /\ where[w] # "core" => Stage(w) = {where[w]}
    BY StageElsewhere
  <1> QED
    BY <1>1, PTL

\* The same of the next state.
LEMMA StageAtCoreNext ==
  (\A c \in Core : Safe /\ work[c] # Null => Stage(work[c]) = {pc[c]})'
  <1>1. \A c \in Core : Safe /\ work[c] # Null => Stage(work[c]) = {pc[c]}
    BY StageAtCore
  <1> QED
    BY <1>1, PTL

\* The stages of threads.
LEMMA ThreadStage ==
  ASSUME Safe, NEW w \in Wqe, IsThread(w)
  PROVE  \E s \in DOMAIN RoundLeft : Stage(w) = {s}
  <1>1. CASE where[w] # "core"
    <2>1. where[w] \in DOMAIN RoundLeft
      BY <1>1 DEF Safe, TypeOK, Place, RoundLeft
    <2> QED
      BY <1>1, <2>1, StageElsewhere
  <1>2. CASE where[w] = "core"
    <2>1. PICK c \in Core : work[c] = w
      BY <1>2 DEF Safe, Placed, At
    <2>2. w # Null /\ pc[c] \notin {"idle", "packet"}
      BY <2>1, ThreadAssumption DEF Safe, TypeOK, Judged
    <2>3. pc[c] \in DOMAIN RoundLeft
      BY <2>2 DEF Safe, TypeOK, Location, Processing, RoundLeft
    <2> QED
      BY <2>1, <2>2, <2>3, StageAtCore
  <1> QED
    BY <1>1, <1>2

\* A thread that a step leaves where it is.
LEMMA StageKept ==
  ASSUME Safe, NEW w \in Wqe, IsThread(w), IsThread(w)', wqe[w].free => wqe'[w].free,
         where'[w] = where[w], Doing(w)' = Doing(w)
  PROVE  GoesDown(w)
  <1>1. Stage(w)' = Stage(w)
    BY DEF Stage
  <1> QED
    BY <1>1, ThreadStage DEF GoesDown, Downward

\* A thread that is with a core, before and after a step.
LEMMA StageGoes ==
  ASSUME Safe, Safe', NEW c \in Core, NEW w, w = work[c], pc[c] # "idle", IsThread(w),
         NEW l \in Location \cap DOMAIN RoundLeft, Goto(c, l),
         UNCHANGED <<where, wqe, ticking>>, Downward(w, pc[c], l)
  PROVE  GoesDown(w)
  <1>1. w \in Wqe /\ w # Null /\ work'[c] = w /\ pc'[c] = l
    BY ThreadAssumption DEF Goto, Safe, TypeOK
  <1>2. Stage(w) = {pc[c]}
    BY <1>1, StageAtCore
  <1>3. Stage(w)' = {l}
    BY <1>1, StageAtCoreNext
  <1>4. pc[c] \in DOMAIN RoundLeft
    <2>1. PICK s \in DOMAIN RoundLeft : Stage(w) = {s}
      BY <1>1, ThreadStage
    <2> QED
      BY <1>2, <2>1
  <1>5. IsThread(w)' /\ wqe'[w] = wqe[w]
    BY DEF IsThread
  <1> QED
    BY <1>2, <1>3, <1>4, <1>5 DEF GoesDown

\* A thread that its core leaves.
LEMMA StageLeft ==
  ASSUME Safe, Safe', NEW c \in Core, NEW w, w = work[c],
         pc[c] \in {"free", "desched", "rearm"},
         NEW p \in {"pool", "pow", "wheel", "lost"}, Leave(c, p),
         pc[c] = "free" => p = "pool"
  PROVE  GoesDown(w)
  <1>1. w \in Wqe /\ w # Null /\ where'[w] = p /\ IsThread(w)
    BY ThreadAssumption DEF Leave, Safe, TypeOK, Judged, Processing
  <1>2. Stage(w) = {pc[c]}
    BY <1>1, StageAtCore
  <1>3. Stage(w)' = {p}
    BY <1>1, StageElsewhereNext
  <1>4. IsThread(w)' /\ wqe'[w] = wqe[w]
    BY <1>1 DEF Leave, IsThread
  <1>5. pc[c] \in DOMAIN RoundLeft /\ p \in DOMAIN RoundLeft /\ Downward(w, pc[c], p)
    BY DEF RoundLeft, Downward
  <1> QED
    BY <1>2, <1>3, <1>4, <1>5 DEF GoesDown

\* The steps of ewx_thread_process take the thread of their core further.
LEMMA ProcessGoesDown ==
  ASSUME Safe, Safe', NEW c \in Core, Process(c), NEW w, w = work[c], IsThread(w)
  PROVE  GoesDown(w)
  <1>1. pc[c] \notin {"packet", "idle"}
    BY DEF Safe, Judged, Process, Check, FnReturn, Settle, Free, Desched, Rearm, PacketDone
  <1>2. CASE Check(c)
    <2>1. PICK l \in {"run", "settle"} : Goto(c, l)
      BY <1>2 DEF Check
    <2>2. Downward(w, pc[c], l) /\ l \in Location \cap DOMAIN RoundLeft
      BY <1>2 DEF Check, Downward, RoundLeft, Location, Processing
    <2> QED
      BY <1>1, <1>2, <2>1, <2>2, StageGoes DEF Check
  <1>3. CASE FnReturn(c)
    <2>1. Downward(w, pc[c], "settle") /\ "settle" \in Location \cap DOMAIN RoundLeft
      BY <1>3 DEF FnReturn, Downward, RoundLeft, Location, Processing
    <2> QED
      BY <1>1, <1>3, <2>1, StageGoes DEF FnReturn
  <1>4. CASE Settle(c)
    <2>1. PICK l \in {"free", "desched", "rearm"} : l = Decision(w)
      BY DEF Decision
    <2>2. l = "free" \/ ~wqe[w].free
      BY <2>1 DEF Decision
    <2>3. Downward(w, pc[c], l) /\ l \in Location \cap DOMAIN RoundLeft
      BY <1>4, <2>2 DEF Settle, Downward, RoundLeft, Location, Processing
    <2>4. Goto(c, l) /\ UNCHANGED <<where, wqe, ticking>>
      BY <1>4, <2>1 DEF Settle
    <2> QED
      BY <1>1, <2>3, <2>4, StageGoes
  <1>5. CASE Free(c)
    BY <1>5, StageLeft DEF Free
  <1>6. CASE Desched(c)
    BY <1>6, StageLeft DEF Desched
  <1>7. CASE Rearm(c)
    <2>1. PICK p \in {"lost", "wheel"} : Leave(c, p)
      BY <1>7 DEF Rearm
    <2> QED
      BY <1>7, <2>1, StageLeft DEF Rearm
  <1> QED
    BY <1>1, <1>2, <1>3, <1>4, <1>5, <1>6, <1>7 DEF Process, PacketDone

\* They leave the others where they are.
LEMMA ProcessSpares ==
  ASSUME Safe, NEW c \in Core, Process(c), NEW w \in Wqe, work[c] # w, IsThread(w)
  PROVE  GoesDown(w)
  <1>1. /\ wqe' = wqe /\ where'[w] = where[w]
        /\ \A d \in Core \ {c} : pc'[d] = pc[d] /\ work'[d] = work[d]
        /\ work'[c] # w
    BY ThreadAssumption DEF Process, Check, FnReturn, Settle, Free, Desched, Rearm, PacketDone,
       Leave, Goto, Safe, TypeOK
  <1>2. Doing(w)' = Doing(w)
    BY <1>1 DEF Doing
  <1> QED
    BY <1>1, <1>2, StageKept DEF IsThread

(***************************************************************************)
(* A thread only goes down its way, from the wheel through the POW to its  *)
(* core, its callback and the pool, whatever other cores create, stop and  *)
(* process meanwhile.  It goes round again only if it was not stopped when *)
(* its core settled, and a stop is not undone: this is what WaitingRuns    *)
(* and StoppedIsFreed need of the steps, besides fairness.                 *)
(***************************************************************************)
THEOREM RoundsGoDownTheorem == Spec => [][RoundsGoDown]_vars
  <1>1. Safe /\ Safe' /\ Next => RoundsGoDown
    <2> SUFFICES ASSUME Safe, Safe', Next, NEW w \in Wqe, IsThread(w), where[w] # "pool"
                 PROVE  GoesDown(w)
      BY DEF RoundsGoDown
    <2>1. ASSUME UNCHANGED <<pc, work>>, where'[w] = where[w], wqe'[w] = wqe[w]
          PROVE  GoesDown(w)
      <3>1. Doing(w)' = Doing(w) /\ IsThread(w)'
        BY <2>1 DEF Doing, IsThread
      <3> QED
        BY <2>1, <3>1, StageKept
    <2>2. CASE TimerInit
      BY <2>1, <2>2 DEF TimerInit
    <2>3. ASSUME NEW mark \in BOOLEAN, NEW magic \in BOOLEAN, Arrive(mark, magic)
          PROVE  GoesDown(w)
      <3>1. UNCHANGED <<pc, work>> /\ where'[w] = where[w] /\ wqe'[w] = wqe[w]
        BY <2>3 DEF Arrive, At, Safe, TypeOK
      <3> QED
        BY <2>1, <3>1
    <2>4. ASSUME NEW c \in Core, NEW k \in Calls, Create(c, k) PROVE GoesDown(w)
      <3>1. UNCHANGED <<pc, work>> /\ where'[w] = where[w] /\ wqe'[w] = wqe[w]
        BY <2>4 DEF Create, At, Safe, TypeOK
      <3> QED
        BY <2>1, <3>1
    <2>5. ASSUME NEW v \in Wqe, Expire(v) PROVE GoesDown(w)
      <3>1. CASE v # w
        <4>1. UNCHANGED <<pc, work>> /\ where'[w] = where[w] /\ wqe'[w] = wqe[w]
          BY <2>5, <3>1 DEF Expire, Safe, TypeOK
        <4> QED
          BY <2>1, <4>1
      <3>2. CASE v = w
        <4>1. where[w] = "wheel" /\ where'[w] = "pow" /\ wqe' = wqe
          BY <2>5, <3>2 DEF Expire, Safe, TypeOK
        <4>2. Stage(w) = {"wheel"} /\ Stage(w)' = {"pow"}
          BY <4>1, StageElsewhere, StageElsewhereNext
        <4>3. {"wheel", "pow"} \subseteq DOMAIN RoundLeft /\ Downward(w, "wheel", "pow")
          BY DEF RoundLeft, Downward
        <4> QED
          BY <4>1, <4>2, <4>3 DEF GoesDown, IsThread
      <3> QED
        BY <3>1, <3>2
    <2>6. ASSUME NEW c \in Core, NEW v \in Wqe, Get(c, v) PROVE GoesDown(w)
      <3>1. /\ work[c] = Null /\ work'[c] = v /\ pc'[c] = "check" /\ wqe' = wqe
            /\ \A d \in Core \ {c} : pc'[d] = pc[d] /\ work'[d] = work[d]
            /\ Null \notin Wqe
        BY <2>6, ThreadAssumption DEF Get, Safe, TypeOK
      <3>2. CASE v # w
        <4>1. where'[w] = where[w]
          BY <2>6, <3>2 DEF Get, Safe, TypeOK
        <4>2. Doing(w)' = Doing(w)
          BY <3>1, <3>2 DEF Doing
        <4> QED
          BY <3>1, <4>1, <4>2, StageKept DEF IsThread
      <3>3. CASE v = w
        <4>1. Stage(w) = {"pow"}
          BY <2>6, <3>3, StageElsewhere DEF Get
        <4>2. Stage(w)' = {"check"}
          BY <3>1, <3>3, StageAtCoreNext
        <4>3. {"pow", "check"} \subseteq DOMAIN RoundLeft /\ Downward(w, "pow", "check")
          BY DEF RoundLeft, Downward
        <4> QED
          BY <3>1, <4>1, <4>2, <4>3 DEF GoesDown, IsThread
      <3> QED
        BY <3>2, <3>3
    <2>7. ASSUME NEW c \in Core, NEW v \in Wqe, Stop(c, v) PROVE GoesDown(w)
      <3>1. IsThread(w)' /\ (wqe[w].free => wqe'[w].free)
        BY <2>7 DEF Stop, IsThread, Safe, TypeOK, Contents
      <3>2. Doing(w)' = Doing(w) /\ where'[w] = where[w]
        BY <2>7 DEF Stop, Doing
      <3> QED
        BY <3>1, <3>2, StageKept
    <2>8. ASSUME NEW c \in Core, Process(c) PROVE GoesDown(w)
      BY <2>8, ProcessGoesDown, ProcessSpares
    <2> QED
      BY <2>2, <2>3, <2>4, <2>5, <2>6, <2>7, <2>8 DEF Next
  <1> QED
    BY <1>1, SafeAlways, PTL DEF Spec
=============================================================================
