------------------------------- MODULE Thread -------------------------------
(***************************************************************************)
(* Threads and timers of ewx_thread.c.  A thread is a work queue entry     *)
(* (WQE) with a callback in it: it is taken from the FPA pool, handed to   *)
(* the POW scheduler or to the timer wheel, given by the POW to any core   *)
(* that asks for work, run there by ewx_thread_process, and then freed,    *)
(* descheduled, or armed again.  Packets travel in WQEs of the same pool.  *)
(***************************************************************************)
EXTENDS Integers, FiniteSets

CONSTANTS
  Core,        \* the cores that process work
  Wqe,         \* the entries of CVMX_FPA_WQE_POOL
  Fn,          \* callbacks
  AtomicTag,   \* tags of type CVMX_POW_TAG_TYPE_ATOMIC
  Ordered,     \* any tag of type CVMX_POW_TAG_TYPE_ORDERED
  Calls,       \* the calls of thread_create and timer_create
  TimCap,      \* entries that CVMX_FPA_TIMER_POOL has room for
  MaxTick,     \* max_ticks of ewx_timer_init
  Careful,     \* callers start no more timers than the wheel is sized for
  RemoteStop,  \* thread_stop is called outside the thread's own callback too
  Null         \* NULL

Tag == AtomicTag \cup {Ordered}

(***************************************************************************)
(* A call: api says which function; fits says that grp < 16 and that the   *)
(* parameter fits into the WQE.                                            *)
(***************************************************************************)
Call == [api : {"thread", "timer"}, fn : Fn \cup {Null}, tag : Tag,
         tick : Nat, fits : BOOLEAN]

ASSUME ThreadAssumption ==
  /\ Calls \subseteq Call
  /\ \A k \in Calls : k.api = "thread" => k.tick = 0
  /\ TimCap \in Nat
  /\ MaxTick \in Nat
  /\ Careful \in BOOLEAN
  /\ RemoteStop \in BOOLEAN
  /\ Null \notin Wqe \cup Fn
  /\ Ordered \notin AtomicTag
  /\ IsFiniteSet(Wqe)

VARIABLES
  where,    \* where each WQE is
  wqe,      \* its contents
  ticking,  \* the timer wheel was set up and started
  pc,       \* what each core is doing
  work      \* the WQE it does it for

vars == <<where, wqe, ticking, pc, work>>

(***************************************************************************)
(* The contents that matter: mark is unused = EWX_THREAD_WORK_UNUSED,      *)
(* magic is magic = EWX_THREAD_MAGIC_NUM; the tag type and the tag are     *)
(* one value.                                                              *)
(***************************************************************************)
Contents == [mark : BOOLEAN, magic : BOOLEAN, fn : Fn \cup {Null},
             free : BOOLEAN, tick : Nat, tag : Tag]
Place == {"pool", "pow", "wheel", "core", "lost"}
Processing == {"check", "run", "settle", "free", "desched", "rearm"}
Location == {"idle", "packet"} \cup Processing

Init ==
  /\ where = [w \in Wqe |-> "pool"]
  /\ wqe = [w \in Wqe |-> [mark |-> FALSE, magic |-> FALSE, fn |-> Null,
                           free |-> FALSE, tick |-> 0, tag |-> Ordered]]
  /\ ticking = FALSE
  /\ pc = [c \in Core |-> "idle"]
  /\ work = [c \in Core |-> Null]

At(p) == {w \in Wqe : where[w] = p}
\* Mutant of IsThread: the mark in the unused field is not looked at.
HasMagic(w) == wqe[w].magic

IsThread(w) == wqe[w].mark /\ wqe[w].magic

(***************************************************************************)
(* The timer wheel: cvmx_tim_add_entry refuses an entry when the wheel is  *)
(* not set up, the delay is beyond it, or it has no memory left.           *)
(***************************************************************************)
Refuses(tick) ==
  \/ ~ticking
  \/ tick > MaxTick
  \/ Cardinality(At("wheel")) >= TimCap

TimerInit ==
  /\ ~ticking
  /\ ticking' = TRUE
  /\ UNCHANGED <<where, wqe, pc, work>>

-----------------------------------------------------------------------------
(***************************************************************************)
(* Creation, from the main loop, a packet handler or a callback.  The WQE  *)
(* is the caller's own until it is submitted, so a call is one step.  A    *)
(* call that does not fit, or that finds the pool empty, changes nothing.  *)
(***************************************************************************)
MayCall(c) == pc[c] \in {"idle", "packet", "run"}

\* The timers that were created and are not freed yet.
Timers ==
  {w \in Wqe : IsThread(w) /\ wqe[w].tick > 0 /\ where[w] \notin {"pool", "lost"}}

MayStart(k) ==
  Careful /\ k.tick > 0 =>
    ticking /\ k.tick <= MaxTick /\ Cardinality(Timers) < TimCap

\* Mutant of Fill: a timer's WQE keeps the tag that memset left.
FillUntagged(k) ==
  [mark |-> TRUE, magic |-> TRUE, fn |-> k.fn, free |-> k.api = "thread",
   tick |-> k.tick, tag |-> IF k.api = "timer" THEN Ordered ELSE k.tag]

Fill(k) ==
  [mark |-> TRUE, magic |-> TRUE, fn |-> k.fn, free |-> k.api = "thread",
   tick |-> k.tick, tag |-> k.tag]

\* Mutant of Destination: an immediate thread goes through the wheel as well.
DestinationWheel(k) == IF Refuses(k.tick) THEN "lost" ELSE "wheel"

\* A refused timer leaves its WQE with nobody.
Destination(k) ==
  IF k.tick = 0 THEN "pow" ELSE IF Refuses(k.tick) THEN "lost" ELSE "wheel"

Create(c, k) ==
  /\ MayCall(c)
  /\ k.fits
  /\ MayStart(k)
  /\ \E w \in At("pool") :
       /\ wqe' = [wqe EXCEPT ![w] = Fill(k)]
       /\ where' = [where EXCEPT ![w] = Destination(k)]
  /\ UNCHANGED <<ticking, pc, work>>

-----------------------------------------------------------------------------
(***************************************************************************)
(* The hardware: packets arrive in WQEs, timers expire into the POW, and   *)
(* the POW gives a core a WQE whose atomic tag no other core holds.        *)
(***************************************************************************)
Arrive(mark, magic) ==
  /\ ~(mark /\ magic)
  /\ \E w \in At("pool") :
       /\ wqe' = [wqe EXCEPT ![w].mark = mark, ![w].magic = magic,
                             ![w].tag = Ordered]
       /\ where' = [where EXCEPT ![w] = "pow"]
  /\ UNCHANGED <<ticking, pc, work>>

Expire(w) ==
  /\ where[w] = "wheel"
  /\ where' = [where EXCEPT ![w] = "pow"]
  /\ UNCHANGED <<wqe, ticking, pc, work>>

Holds(c, tag) == work[c] # Null /\ wqe[work[c]].tag = tag

Get(c, w) ==
  /\ pc[c] = "idle"
  /\ where[w] = "pow"
  /\ wqe[w].tag \in AtomicTag => \A d \in Core : ~Holds(d, wqe[w].tag)
  /\ where' = [where EXCEPT ![w] = "core"]
  /\ pc' = [pc EXCEPT ![c] = "check"]
  /\ work' = [work EXCEPT ![c] = w]
  /\ UNCHANGED <<wqe, ticking>>

-----------------------------------------------------------------------------
(* ewx_thread_process *)

Goto(c, l) == pc' = [pc EXCEPT ![c] = l] /\ UNCHANGED work

\* Mutant of Check: a timer is armed again before its callback runs.
CheckArms(c) ==
  LET w == work[c]
  IN /\ pc[c] = "check"
     /\ Goto(c, IF ~IsThread(w) THEN "packet" ELSE "run")
     /\ where' = [where EXCEPT ![w] =
                    IF IsThread(w) /\ wqe[w].tick > 0 THEN "wheel" ELSE @]
     /\ UNCHANGED <<wqe, ticking>>

Check(c) ==
  LET w == work[c]
  IN /\ pc[c] = "check"
     /\ Goto(c, IF ~IsThread(w) THEN "packet"
                ELSE IF wqe[w].fn # Null THEN "run" ELSE "settle")
     /\ UNCHANGED <<where, wqe, ticking>>

FnReturn(c) ==
  /\ pc[c] = "run"
  /\ Goto(c, "settle")
  /\ UNCHANGED <<where, wqe, ticking>>

\* Mutant of Decision: tick is looked at before free.
DecisionTick(w) ==
  IF wqe[w].tick = 0 THEN "desched"
  ELSE IF wqe[w].free THEN "free" ELSE "rearm"

\* The decision reads free and tick once; a stop may come after it.
Decision(w) ==
  IF wqe[w].free THEN "free"
  ELSE IF wqe[w].tick = 0 THEN "desched" ELSE "rearm"

Settle(c) ==
  /\ pc[c] = "settle"
  /\ Goto(c, Decision(work[c]))
  /\ UNCHANGED <<where, wqe, ticking>>

\* Mutant of Leave: the core keeps the WQE, and its tag, when it goes idle.
LeaveHolding(c, p) ==
  /\ where' = [where EXCEPT ![work[c]] = p]
  /\ pc' = [pc EXCEPT ![c] = "idle"]
  /\ UNCHANGED <<wqe, ticking, work>>

\* The core is done with its WQE, which goes to place p.
Leave(c, p) ==
  /\ where' = [where EXCEPT ![work[c]] = p]
  /\ pc' = [pc EXCEPT ![c] = "idle"]
  /\ work' = [work EXCEPT ![c] = Null]
  /\ UNCHANGED <<wqe, ticking>>

Free(c) == pc[c] = "free" /\ Leave(c, "pool")

Desched(c) == pc[c] = "desched" /\ Leave(c, "pow")

\* The result of cvmx_tim_add_entry is not looked at.
Rearm(c) ==
  /\ pc[c] = "rearm"
  /\ Leave(c, IF Refuses(wqe[work[c]].tick) THEN "lost" ELSE "wheel")

\* EWX_NOT_TIM_WQE: the main loop handles the packet and frees the WQE.
PacketDone(c) == pc[c] = "packet" /\ Leave(c, "pool")

-----------------------------------------------------------------------------
(***************************************************************************)
(* ewx_thread_stop: by the callback for its own thread; with RemoteStop    *)
(* by anyone for a thread that was not freed yet.                          *)
(***************************************************************************)
Stoppable(c, w) ==
  \/ pc[c] = "run" /\ work[c] = w
  \/ RemoteStop /\ MayCall(c) /\ IsThread(w) /\ where[w] \notin {"pool", "lost"}

Stop(c, w) ==
  /\ Stoppable(c, w)
  /\ wqe' = [wqe EXCEPT ![w].free = TRUE]
  /\ UNCHANGED <<where, ticking, pc, work>>

-----------------------------------------------------------------------------
Process(c) ==
  \/ Check(c) \/ FnReturn(c) \/ Settle(c)
  \/ Free(c) \/ Desched(c) \/ Rearm(c) \/ PacketDone(c)

Next ==
  \/ TimerInit
  \/ \E mark, magic \in BOOLEAN : Arrive(mark, magic)
  \/ \E w \in Wqe : Expire(w)
  \/ \E c \in Core :
       \/ Process(c)
       \/ \E k \in Calls : Create(c, k)
       \/ \E w \in Wqe : Get(c, w) \/ Stop(c, w)

Spec == Init /\ [][Next]_vars

(***************************************************************************)
(* Fairness: a core goes on with its work and its callbacks return; a      *)
(* running wheel expires its entries; the POW gives out every entry that   *)
(* it can give out again and again.  Nobody has to create or stop.         *)
(***************************************************************************)
Fairness ==
  /\ \A c \in Core : WF_vars(Process(c))
  /\ \A w \in Wqe : WF_vars(Expire(w)) /\ SF_vars(\E c \in Core : Get(c, w))

FairSpec == Spec /\ Fairness
=============================================================================
