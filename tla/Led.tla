-------------------------------- MODULE Led --------------------------------
(***************************************************************************)
(* The port LEDs, ewx_led.c.  Packets and links are the environment; the   *)
(* code runs when its timer ticks.  Of a LED's status only the two low     *)
(* bits are used: 0 is off, 2 on, and a LED flashes between 2 and 3.       *)
(***************************************************************************)
EXTENDS FiniteSetsExt, Integers

CONSTANTS
  Led,                  \* LED numbers, below EWX_MAX_LED
  Fiber,                \* LEDs of ports in 1000 base-x mode
  RxClears, TxClears,   \* LEDs whose receive, send counter is cleared by a read
  Interfaces, Sgmii     \* the interfaces, those among them in SGMII mode

ASSUME LedAssumption ==
  /\ Led \subseteq 0 .. 7 /\ IsFiniteSet(Led)
  /\ Fiber \cup RxClears \cup TxClears \subseteq Led
  /\ Sgmii \subseteq Interfaces

VARIABLES
  enabled,   \* the LED hardware is set up, and the timer started
  status,    \* status[l]: the low bits of LED l's register
  link,      \* the fiber ports with a link
  rxNew, txNew,   \* fiber ports whose counter is not what the code remembers, or not 0
                  \* where reading clears it
  moved,     \* history: ports with a counted packet since the last tick
  still      \* history: for how many ticks a port was up without one, at most 3

vars == <<enabled, status, link, rxNew, txNew, moved, still>>

\* get_ipd_port_from_led_index
Port(l) == IF l < 4 THEN l ELSE l - 4 + 16
Ports == {Port(l) : l \in Fiber}
LedOf(p) == CHOOSE l \in Fiber : Port(l) = p

\* Where one of the two counters is cleared by reads, the code looks at no other.
RxCounts(l) == l \in RxClears \/ l \notin TxClears
TxCounts(l) == l \in TxClears \/ l \notin RxClears

\* Packets may have been counted before the program starts.
Init ==
  /\ enabled = FALSE
  /\ status = [l \in Led |-> 0]
  /\ link \in SUBSET Ports
  /\ rxNew \in SUBSET Ports /\ txNew \in SUBSET Ports /\ moved = {}
  /\ still = [l \in Led |-> 0]

\* ewx_led_init: the LEDs are set up if an interface is SGMII.
LedInit ==
  /\ ~enabled
  /\ enabled' = (Sgmii # {})
  /\ UNCHANGED <<status, link, rxNew, txNew, moved, still>>

-----------------------------------------------------------------------------
(* The environment.                                                        *)

Receive(p) ==
  /\ enabled /\ p \in link
  /\ rxNew' = rxNew \cup {p}
  /\ moved' = IF RxCounts(LedOf(p)) THEN moved \cup {p} ELSE moved
  /\ UNCHANGED <<enabled, status, link, txNew, still>>

Send(p) ==
  /\ enabled /\ p \in link
  /\ txNew' = txNew \cup {p}
  /\ moved' = IF TxCounts(LedOf(p)) THEN moved \cup {p} ELSE moved
  /\ UNCHANGED <<enabled, status, link, rxNew, still>>

LinkChanges(p) ==
  /\ enabled
  /\ link' = IF p \in link THEN link \ {p} ELSE link \cup {p}
  /\ UNCHANGED <<enabled, status, rxNew, txNew, moved, still>>

-----------------------------------------------------------------------------
(* The timer.                                                              *)

\* The LEDs whose port is looked at.
Watched == {l \in Fiber : Port(l) \in link}

\* Mutant: packets sent do not count beside received ones.
DetectReceived(l) == RxCounts(l) /\ Port(l) \in rxNew

\* detect_packets: what it returns and what it leaves of the differences.
Detect(l) ==
  \/ RxCounts(l) /\ Port(l) \in rxNew
  \/ TxCounts(l) /\ Port(l) \in txNew

\* Mutant: the counter seen last is not remembered for packets sent.
TxLeftAlways(l) == Port(l) \in txNew /\ l \notin TxClears

RxLeft(l) == Port(l) \in rxNew /\ ~RxCounts(l)

\* Where both are remembered, packets sent wait for a tick without received ones.
TxLeft(l) == Port(l) \in txNew /\ (TxCounts(l) => l \notin TxClears /\ Port(l) \in rxNew)

Flashing == {l \in Watched : Detect(l)}

\* (status | 2) ^ 1
Toggled(s) == IF s \in {1, 3} THEN 2 ELSE 3

\* Mutant: the light of the first LED is saved before it turns.
FlashSavedEarly(l) ==
  IF l = Min(Flashing) THEN Toggled(status[l]) ELSE status[Min(Flashing)]

\* The first LED with packets turns its light and the others take it over.
Flash(l) == Toggled(status[Min(Flashing)])

Light(l) ==
  IF l \in Flashing THEN Flash(l)
  ELSE IF l \in Watched THEN 2
  ELSE IF l \in Fiber THEN 0 ELSE status[l]

\* ewx_led_timer_process
Tick ==
  /\ enabled
  /\ status' = [l \in Led |-> Light(l)]
  /\ rxNew' = {p \in rxNew : LedOf(p) \in Watched => RxLeft(LedOf(p))}
  /\ txNew' = {p \in txNew : LedOf(p) \in Watched => TxLeft(LedOf(p))}
  /\ moved' = {}
  /\ still' = [l \in Led |->
       IF l \notin Watched \/ Port(l) \in moved THEN 0
       ELSE IF still[l] = 3 THEN 3 ELSE still[l] + 1]
  /\ UNCHANGED <<enabled, link>>

Next ==
  \/ LedInit \/ Tick
  \/ \E p \in Ports : Receive(p) \/ Send(p) \/ LinkChanges(p)

Spec == Init /\ [][Next]_vars
=============================================================================
