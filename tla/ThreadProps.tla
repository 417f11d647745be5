----------------------------- MODULE ThreadProps -----------------------------
(* The properties of Thread, and its refinement of ThreadLife.               *)
EXTENDS Thread

CONSTANT Exclusive  \* callbacks that are always created with one atomic tag

\* What the callers promise about the callbacks in Exclusive.
ASSUME ExclusiveAssumption ==
  \A j, k \in Calls :
    /\ k.fn \in Exclusive => k.tag \in AtomicTag
    /\ j.fn = k.fn /\ k.fn \in Exclusive => j.tag = k.tag

\* Every variable has its type, and a core has a WQE exactly while it is busy.
TypeOK ==
  /\ where \in [Wqe -> Place]
  /\ wqe \in [Wqe -> Contents]
  /\ ticking \in BOOLEAN
  /\ pc \in [Core -> Location]
  /\ work \in [Core -> Wqe \cup {Null}]
  /\ \A c \in Core : pc[c] = "idle" <=> work[c] = Null

(***************************************************************************)
(* A WQE that ewx_thread_process works on is with that core alone: it is   *)
(* not in the pool, the POW or the wheel, and no other core has it.        *)
(***************************************************************************)
Placed ==
  /\ \A c \in Core : work[c] # Null => where[work[c]] = "core"
  /\ \A c, d \in Core : work[c] = work[d] /\ work[c] # Null => c = d
  /\ \A w \in At("core") : \E c \in Core : work[c] = w

(***************************************************************************)
(* Two cores are never inside the same callback at once, when the callback *)
(* is only created with one atomic tag ("tag, used for mutual exclusion",  *)
(* ewx_thread.h:27): threads, fresh timers and timers that were armed      *)
(* again all carry the tag they were created with.                         *)
(***************************************************************************)
MutualExclusion ==
  \A c, d \in Core :
    /\ pc[c] = "run" /\ pc[d] = "run"
    /\ wqe[work[c]].fn = wqe[work[d]].fn
    /\ wqe[work[c]].fn \in Exclusive
    => c = d

(***************************************************************************)
(* ewx_thread_process calls, frees or arms nothing but WQEs that were      *)
(* created as threads: a packet that happens to carry the mark or the      *)
(* magic number gets past no check.                                        *)
(***************************************************************************)
Made(q, k) ==
  /\ q.mark /\ q.magic
  /\ q.fn = k.fn /\ q.tick = k.tick /\ q.tag = k.tag
  /\ k.api = "thread" => q.free

Intact(w) == \E k \in Calls : Made(wqe[w], k)

OnlyThreadsRun ==
  \A c \in Core : pc[c] \in Processing \ {"check"} => Intact(work[c])

(***************************************************************************)
(* No WQE is lost for good: a timer wheel as large as the number of timers *)
(* that were not freed yet (ewx_thread.h:79) never refuses one, neither    *)
(* when it is created nor when it is armed again after its callback.       *)
(***************************************************************************)
NothingLost == At("lost") = {}

(***************************************************************************)
(* The life of each thread.  A WQE that its core has settled about already *)
(* counts as waiting again, or as gone.                                    *)
(***************************************************************************)
Doing(w) == {pc[c] : c \in {d \in Core : work[d] = w}}

Life(w) ==
  IF ~IsThread(w) \/ where[w] \in {"pool", "lost"} \/ "free" \in Doing(w)
    THEN "none"
  ELSE IF Doing(w) \cap {"run", "settle"} # {} THEN "running"
  ELSE "waiting"

Lives ==
  INSTANCE ThreadLife WITH
    life <- [w \in Wqe |-> Life(w)],
    ends <- [w \in Wqe |-> Life(w) # "none" /\ wqe[w].free],
    Losable <- ~Careful

(***************************************************************************)
(* Threads and timers live as ThreadLife says: a thread runs once; a timer *)
(* runs again and again; a stop inside the callback makes that call the    *)
(* last, a stop at any other time allows at most one more.                 *)
(***************************************************************************)
LivesAsPromised == Lives!Spec

(***************************************************************************)
(* Under fairness a thread that waits gets to run, unless it is lost ...   *)
(***************************************************************************)
WaitingRuns ==
  \A w \in Wqe :
    Life(w) = "waiting" ~> Life(w) = "running" \/ where[w] = "lost"

(* ... and a stopped timer gives its WQE back to the pool, with the same   *)
(* exception: a wheel that refuses it while it waits for its last run.     *)
StoppedIsFreed ==
  \A w \in Wqe :
    where[w] # "pool" /\ IsThread(w) /\ wqe[w].free
      ~> where[w] \in {"pool", "lost"}
=============================================================================
