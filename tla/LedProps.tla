------------------------------ MODULE LedProps ------------------------------
(* What the port LEDs have to show.                                        *)
EXTENDS Led

\* Types; a LED of a port that is no fiber port is never touched.
TypeOK ==
  /\ enabled \in BOOLEAN
  /\ status \in [Led -> {0, 2, 3}]
  /\ \A l \in Led \ Fiber : status[l] = 0
  /\ link \subseteq Ports /\ rxNew \subseteq Ports /\ txNew \subseteq Ports
  /\ still \in [Led -> 0 .. 3]

\* A port that is quiet stops flashing: packets that were sent and received in one
\* interval, or before the link came up again, last for two ticks and no longer.
QuietIsSteady == \A l \in Led : still[l] = 3 => status[l] = 2

\* The first port with packets turns its light at every tick, if the ports before
\* it are quiet or down for long enough to have none left to report.
FirstTurns ==
  [][Tick => \A l \in Fiber :
       /\ l \in Watched /\ Port(l) \in moved
       /\ \A k \in Fiber : k < l => k \notin Watched \/ (still[k] = 3 /\ Port(k) \notin moved)
       => status'[l] # status[l]]_vars

\* Ports with packets flash in step, whenever each of them began.
InStep ==
  [][Tick => \A k, l \in Watched :
       Port(k) \in moved /\ Port(l) \in moved => status'[k] = status'[l]]_vars
=============================================================================
