------------------------------ MODULE SlbRegs ------------------------------
(***************************************************************************)
(* What ewx_slb.h promises: registers that are read and written in one     *)
(* instant each, the 16 bits of them: "the value read", "the value         *)
(* written" (ewx_slb.h:18, 27).  A read of a sub-card register may fail    *)
(* instead.                                                                *)
(***************************************************************************)
EXTENDS Naturals

CONSTANTS
  Core, Null,
  Calls,        \* the calls cores make
  Failed,       \* what a read that failed returns
  Lands(_, _)   \* the values register a may have after v was written to it

VARIABLES
  regs,   \* the registers behind the controller
  board,  \* the board's own registers
  req,    \* the call a core is in, Null if in none
  stage,  \* "idle", "called", "applied"
  ans     \* what an applied read returns

vars == <<regs, board, req, stage, ans>>

Init ==
  /\ req = [c \in Core |-> Null]
  /\ stage = [c \in Core |-> "idle"]
  /\ ans = [c \in Core |-> Null]

Invoke(c) ==
  /\ stage[c] = "idle"
  /\ \E k \in Calls : req' = [req EXCEPT ![c] = k]
  /\ stage' = [stage EXCEPT ![c] = "called"]
  /\ UNCHANGED <<regs, board, ans>>

\* The call of core c takes effect and will return v.
Apply(c, op, v) ==
  /\ stage[c] = "called" /\ req[c].op = op
  /\ stage' = [stage EXCEPT ![c] = "applied"]
  /\ ans' = [ans EXCEPT ![c] = v]
  /\ UNCHANGED req

SubcRead(c) ==
  /\ \/ Apply(c, "subc_read", regs[req[c].addr])
     \/ Apply(c, "subc_read", Failed)
  /\ UNCHANGED <<regs, board>>

SubcWrite(c) ==
  /\ Apply(c, "subc_write", Null)
  /\ \E v \in Lands(req[c].addr, req[c].val) : regs' = [regs EXCEPT ![req[c].addr] = v]
  /\ UNCHANGED board

LocalRead(c) ==
  /\ Apply(c, "local_read", board[req[c].addr])
  /\ UNCHANGED <<regs, board>>

LocalWrite(c) ==
  /\ Apply(c, "local_write", Null)
  /\ board' = [board EXCEPT ![req[c].addr] = req[c].val]
  /\ UNCHANGED regs

Respond(c) ==
  /\ stage[c] = "applied"
  /\ req' = [req EXCEPT ![c] = Null]
  /\ stage' = [stage EXCEPT ![c] = "idle"]
  /\ ans' = [ans EXCEPT ![c] = Null]
  /\ UNCHANGED <<regs, board>>

Next ==
  \E c \in Core :
    \/ Invoke(c) \/ Respond(c)
    \/ SubcRead(c) \/ SubcWrite(c) \/ LocalRead(c) \/ LocalWrite(c)

Spec == Init /\ [][Next]_vars
=============================================================================
