----------------------------- MODULE Led_proofs -----------------------------
(***************************************************************************)
(* For any set of LEDs and any mode of their counters: a quiet port is lit *)
(* steadily, the first port with packets turns its light at every tick,    *)
(* and ports with packets flash in step.                                   *)
(*                                                                         *)
(* The invariant says what a tick leaves of the differences between the    *)
(* counters and what the code remembers: after one tick without packets no *)
(* received packet is left to report, after two no sent one.               *)
(***************************************************************************)
EXTENDS LedProps, TLAPS

\* Counted packets are reported by the next look at the port.
MovedReported ==
  \A l \in Fiber : Port(l) \in moved => Detect(l)

\* What is left after one tick, and after two, without packets.
QuietLeaves ==
  \A l \in Fiber : Port(l) \notin moved =>
    /\ still[l] >= 1 /\ RxCounts(l) => Port(l) \notin rxNew
    /\ still[l] >= 2 /\ TxCounts(l) => Port(l) \notin txNew

Inv == TypeOK /\ moved \subseteq Ports /\ MovedReported /\ QuietLeaves /\ QuietIsSteady

\* Fiber ports are numbered LEDs.
LEMMA FiberInts == \A l \in Fiber : l \in Led /\ l \in 0 .. 7 /\ l \in Int
<1> TAKE l \in Fiber
<1>1. l \in Led
  BY LedAssumption, Zenon
<1>2. l \in 0 .. 7
  BY <1>1, LedAssumption, Zenon
<1>3. l \in Int
  BY <1>2
<1> QED
  BY <1>1, <1>2, <1>3

\* Each fiber port belongs to one LED.
LEMMA OneLed == \A l \in Fiber : Port(l) \in Ports /\ LedOf(Port(l)) = l
<1> TAKE l \in Fiber
<1>1. ASSUME NEW k \in Fiber, Port(k) = Port(l) PROVE k = l
  <2>1. k \in Int /\ l \in Int /\ k \in 0 .. 7 /\ l \in 0 .. 7
    BY FiberInts
  <2> QED
    BY <1>1, <2>1 DEF Port
<1> QED
  BY <1>1 DEF Ports, LedOf

\* Each port belongs to a LED.
LEMMA PortHasLed == \A p \in Ports : LedOf(p) \in Fiber /\ Port(LedOf(p)) = p
  BY DEF Ports, LedOf

\* At first nothing was counted and all lights are out.
LEMMA InitInv == Init => Inv
<1> SUFFICES ASSUME Init PROVE Inv
  OBVIOUS
<1>1. TypeOK
  <2>1. status \in [Led -> {0, 2, 3}] /\ \A l \in Led \ Fiber : status[l] = 0
    BY DEF Init
  <2>2. still \in [Led -> 0 .. 3]
    BY DEF Init
  <2> QED
    BY <2>1, <2>2 DEF Init, TypeOK
<1>2. \A l \in Led : still[l] = 0
  BY DEF Init
<1>3. moved \subseteq Ports /\ MovedReported
  BY DEF Init, MovedReported
<1>4. QuietLeaves
  BY <1>2, FiberInts DEF QuietLeaves
<1>5. QuietIsSteady
  BY <1>2 DEF QuietIsSteady
<1> QED
  BY <1>1, <1>3, <1>4, <1>5 DEF Inv

\* A port that was quiet at two ticks and is still quiet has nothing to report.
LEMMA QuietUnseen ==
  ASSUME Inv, NEW l \in Fiber, still[l] >= 2, Port(l) \notin moved
  PROVE  ~Detect(l)
<1>1. still[l] \in 0 .. 3
  BY FiberInts DEF Inv, TypeOK
<1>2. still[l] >= 1
  BY <1>1
<1> QED
  BY <1>2 DEF Inv, QuietLeaves, Detect

\* The steps of the environment count packets as moved when they can be reported.
LEMMA EnvironmentKeeps ==
  ASSUME Inv, NEW p \in Ports, Receive(p) \/ Send(p) \/ LinkChanges(p)
  PROVE  Inv'
<1> USE LedAssumption, PortHasLed, OneLed DEF Inv
<1>1. TypeOK' /\ (moved \subseteq Ports)'
  BY DEF TypeOK, Receive, Send, LinkChanges
<1>2. MovedReported'
  BY DEF MovedReported, Detect, Receive, Send, LinkChanges
<1>3. QuietLeaves'
  BY DEF QuietLeaves, Receive, Send, LinkChanges
<1>4. QuietIsSteady'
  BY DEF QuietIsSteady, Receive, Send, LinkChanges
<1> QED
  BY <1>1, <1>2, <1>3, <1>4

\* A tick clears what it looked at.
LEMMA TickKeeps ==
  ASSUME Inv, Tick
  PROVE  Inv'
<1> USE LedAssumption DEF Inv
<1>1. TypeOK'
  <2>1. \A l \in Led : Light(l) \in {0, 2, 3}
    BY DEF Light, Flash, Toggled, TypeOK
  <2>2. \A l \in Led \ Fiber : Light(l) = 0
    BY DEF Light, Flashing, Watched, TypeOK
  <2>3. still' \in [Led -> 0 .. 3]
    BY DEF Tick, TypeOK
  <2> QED
    BY <2>1, <2>2, <2>3 DEF TypeOK, Tick
<1>2. (moved \subseteq Ports)' /\ MovedReported'
  BY DEF MovedReported, Tick
<1>3. QuietLeaves'
  <2> SUFFICES ASSUME NEW l \in Fiber
               PROVE  /\ still'[l] >= 1 /\ RxCounts(l) => Port(l) \notin rxNew'
                      /\ still'[l] >= 2 /\ TxCounts(l) => Port(l) \notin txNew'
    BY DEF QuietLeaves
  <2>1. LedOf(Port(l)) = l
    BY OneLed
  <2>2. ASSUME still'[l] >= 1 PROVE l \in Watched /\ Port(l) \notin moved
    BY <2>2 DEF Tick
  <2>3. ASSUME still'[l] >= 2 PROVE still[l] >= 1
    <3>1. still[l] \in 0 .. 3
      BY FiberInts DEF TypeOK
    <3>2. still'[l] = IF l \notin Watched \/ Port(l) \in moved THEN 0
                      ELSE IF still[l] = 3 THEN 3 ELSE still[l] + 1
      BY FiberInts DEF Tick
    <3> QED
      BY <2>3, <3>1, <3>2
  <2>4. ASSUME still'[l] >= 1, RxCounts(l) PROVE Port(l) \notin rxNew'
    BY <2>1, <2>2, <2>4 DEF Tick, RxLeft
  <2>5. ASSUME still'[l] >= 2, TxCounts(l) PROVE Port(l) \notin txNew'
    <3>1. l \in Watched /\ Port(l) \notin moved /\ still[l] >= 1
      BY <2>2, <2>3, <2>5 DEF Tick, TypeOK
    <3>2. CASE RxCounts(l)
      BY <2>1, <2>5, <3>1, <3>2 DEF Tick, TxLeft, QuietLeaves
    <3>3. CASE ~RxCounts(l)
      BY <2>1, <2>5, <3>1, <3>3 DEF Tick, TxLeft, RxCounts
    <3> QED
      BY <3>2, <3>3
  <2> QED
    BY <2>4, <2>5
<1>4. QuietIsSteady'
  <2> SUFFICES ASSUME NEW l \in Led, still'[l] = 3 PROVE status'[l] = 2
    BY DEF QuietIsSteady
  <2>1. l \in Watched /\ Port(l) \notin moved /\ still[l] >= 2
    BY DEF Tick, TypeOK
  <2>2. l \notin Flashing
    BY <2>1, QuietUnseen DEF Flashing, Watched
  <2> QED
    BY <2>1, <2>2 DEF Tick, Light
<1> QED
  BY <1>1, <1>2, <1>3, <1>4

LEMMA NextKeeps == Inv /\ [Next]_vars => Inv'
<1> SUFFICES ASSUME Inv, [Next]_vars PROVE Inv'
  OBVIOUS
<1>1. CASE LedInit
  BY <1>1 DEF LedInit, Inv, TypeOK, MovedReported, Detect, QuietLeaves, QuietIsSteady
<1>2. CASE Tick
  BY <1>2, TickKeeps
<1>3. CASE \E p \in Ports : Receive(p) \/ Send(p) \/ LinkChanges(p)
  BY <1>3, EnvironmentKeeps
<1>4. CASE UNCHANGED vars
  BY <1>4 DEF vars, Inv, TypeOK, MovedReported, Detect, QuietLeaves, QuietIsSteady
<1> QED
  BY <1>1, <1>2, <1>3, <1>4 DEF Next

LEMMA AlwaysInv == Spec => []Inv
  BY InitInv, NextKeeps, PTL DEF Spec

\* Lights are off, on or flashing, and those of ports without fiber stay off.
THEOREM LedTypeOK == Spec => []TypeOK
<1>1. Inv => TypeOK
  BY DEF Inv
<1> QED
  BY <1>1, AlwaysInv, PTL

\* A port that stays quiet for three ticks is lit steadily, whatever its counters
\* saw before.
THEOREM QuietIsSteadyTheorem == Spec => []QuietIsSteady
<1>1. Inv => QuietIsSteady
  BY DEF Inv
<1> QED
  BY <1>1, AlwaysInv, PTL

\* The first of all ports with packets turns its light at every tick, if those
\* before it have nothing left to report.
THEOREM FirstTurnsTheorem == Spec => FirstTurns
<1> DEFINE Turns == Tick => \A l \in Fiber :
       /\ l \in Watched /\ Port(l) \in moved
       /\ \A k \in Fiber : k < l => k \notin Watched \/ (still[k] = 3 /\ Port(k) \notin moved)
       => status'[l] # status[l]
<1>1. Inv /\ [Next]_vars => [Turns]_vars
  <2> SUFFICES ASSUME Inv, Tick, NEW l \in Fiber, l \in Watched, Port(l) \in moved,
                      \A k \in Fiber : k < l =>
                        k \notin Watched \/ (still[k] = 3 /\ Port(k) \notin moved)
               PROVE  status'[l] # status[l]
    OBVIOUS
  <2>1. l \in Flashing
    BY DEF Inv, MovedReported, Flashing
  <2>2. \A k \in Flashing : k \in Int /\ l <= k
    <3> TAKE k \in Flashing
    <3>1. k \in Fiber /\ k \in Watched /\ Detect(k) /\ k \in Int /\ l \in Int
      BY FiberInts DEF Flashing, Watched
    <3>2. ASSUME k < l PROVE FALSE
      BY <3>1, <3>2, QuietUnseen
    <3> QED
      BY <3>1, <3>2
  <2>3. l \in Int
    BY FiberInts
  <2>4. Min(Flashing) = l
    <3>1. \A k \in Flashing : (\A j \in Flashing : k <= j) => k = l
      BY <2>1, <2>2, <2>3
    <3>2. \A j \in Flashing : l <= j
      BY <2>2
    <3> QED
      BY <2>1, <3>1, <3>2 DEF Min
  <2>5. status'[l] = Toggled(status[l])
    BY <2>1, <2>4, LedAssumption DEF Tick, Light, Flash
  <2>6. status[l] \in {0, 2, 3}
    BY LedAssumption DEF Inv, TypeOK
  <2> QED
    BY <2>5, <2>6 DEF Toggled
<1> QED
  BY <1>1, AlwaysInv, PTL DEF Spec, FirstTurns

\* Ports with packets take over one light.
THEOREM InStepTheorem == Spec => InStep
<1> DEFINE Same == Tick => \A k, l \in Watched :
       Port(k) \in moved /\ Port(l) \in moved => status'[k] = status'[l]
<1>1. Inv /\ [Next]_vars => [Same]_vars
  <2> SUFFICES ASSUME Inv, Tick, NEW k \in Watched, NEW l \in Watched,
                      Port(k) \in moved, Port(l) \in moved
               PROVE  status'[k] = status'[l]
    OBVIOUS
  <2>1. k \in Flashing /\ l \in Flashing /\ k \in Led /\ l \in Led
    BY LedAssumption DEF Inv, MovedReported, Flashing, Watched
  <2> QED
    BY <2>1 DEF Tick, Light, Flash
<1> QED
  BY <1>1, AlwaysInv, PTL DEF Spec, InStep
=============================================================================
