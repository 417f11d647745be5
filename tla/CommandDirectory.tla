-------------------------- MODULE CommandDirectory --------------------------
(***************************************************************************)
(* What ewx_shell.h promises of commands: each core has a directory of at  *)
(* most MaxCmds names with one handler each.                               *)
(***************************************************************************)
EXTENDS FiniteSets, Naturals

CONSTANTS Core, MaxCmds

VARIABLE dir   \* dir[c]: a function from the names that are known

vars == <<dir>>

Becomes(c, d) == dir' = [dir EXCEPT ![c] = d]

Init == \A c \in Core : DOMAIN dir[c] = {}

Knows(c, n) == n \in DOMAIN dir[c]

CanAdd(c, n) == ~Knows(c, n) /\ Cardinality(DOMAIN dir[c]) < MaxCmds

Extended(d, n, f) == [x \in DOMAIN d \cup {n} |-> IF x = n THEN f ELSE d[x]]

Add(c, n, f) == CanAdd(c, n) /\ Becomes(c, Extended(dir[c], n, f))

Remove(c, n) ==
  Knows(c, n) /\ Becomes(c, [x \in DOMAIN dir[c] \ {n} |-> dir[c][x]])

Reset(c, d) == Becomes(c, d)
=============================================================================
