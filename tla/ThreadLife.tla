----------------------------- MODULE ThreadLife -----------------------------
(***************************************************************************)
(* What ewx_thread.h promises of a thread, without pools, queues and       *)
(* cores.  A thread waits and runs in turn.  One that is to end - every    *)
(* thread_create thread from the start, a timer once it is stopped - is    *)
(* gone after the run that it is in, or else after its next one.           *)
(***************************************************************************)
CONSTANTS
  Wqe,      \* a thread is named by its work queue entry
  Losable   \* a waiting thread may vanish: its timer cannot be armed

VARIABLES
  life,  \* "none", "waiting" or "running"
  ends   \* the thread is to end

vars == <<life, ends>>

TypeOK ==
  /\ life \in [Wqe -> {"none", "waiting", "running"}]
  /\ ends \in [Wqe -> BOOLEAN]

Init ==
  /\ life = [w \in Wqe |-> "none"]
  /\ ends = [w \in Wqe |-> FALSE]

Create(w, once) ==
  /\ life[w] = "none"
  /\ life' = [life EXCEPT ![w] = "waiting"]
  /\ ends' = [ends EXCEPT ![w] = once]

Start(w) ==
  /\ life[w] = "waiting"
  /\ life' = [life EXCEPT ![w] = "running"]
  /\ UNCHANGED ends

Stop(w) ==
  /\ life[w] # "none"
  /\ ends' = [ends EXCEPT ![w] = TRUE]
  /\ UNCHANGED life

Again(w) ==
  /\ life[w] = "running"
  /\ ~ends[w]
  /\ life' = [life EXCEPT ![w] = "waiting"]
  /\ UNCHANGED ends

Vanish(w) ==
  /\ life' = [life EXCEPT ![w] = "none"]
  /\ ends' = [ends EXCEPT ![w] = FALSE]

End(w) == life[w] = "running" /\ ends[w] /\ Vanish(w)

Lose(w) == Losable /\ life[w] = "waiting" /\ Vanish(w)

Next ==
  \E w \in Wqe :
    \/ \E once \in BOOLEAN : Create(w, once)
    \/ Start(w) \/ Stop(w) \/ Again(w) \/ End(w) \/ Lose(w)

Spec == Init /\ [][Next]_vars
=============================================================================
