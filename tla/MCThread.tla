------------------------------ MODULE MCThread ------------------------------
(* Small instances of Thread for TLC.                                        *)
EXTENDS ThreadProps, TLC

CONSTANTS c1, c2, w1, w2, w3, f, g, A

TwoCores == {c1, c2}
TwoWqes == {w1, w2}
ThreeWqes == {w1, w2, w3}

Thread(fn, tag) ==
  [api |-> "thread", fn |-> fn, tag |-> tag, tick |-> 0, fits |-> TRUE]
Timer(fn, tag, tick) ==
  [api |-> "timer", fn |-> fn, tag |-> tag, tick |-> tick, fits |-> TRUE]

\* f is always created with tag A; g and the empty callback run in any order.
LifeCalls ==
  {Thread(f, A), Timer(f, A, 0), Timer(f, A, 1), Timer(g, Ordered, 1),
   Thread(Null, Ordered), [Thread(g, Ordered) EXCEPT !.fits = FALSE]}

\* One of these delays is beyond the wheel.
WheelCalls ==
  {Thread(f, A), Timer(f, A, 1), Timer(g, Ordered, 1), Timer(g, Ordered, 2)}

Perms == Permutations(Core) \cup Permutations(Wqe)
=============================================================================
