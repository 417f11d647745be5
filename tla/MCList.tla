------------------------------- MODULE MCList -------------------------------
(* A small instance of List for TLC.                                         *)
EXTENDS ListProps, TLC

\* Nodes differ in their pointers only.
Renamings == Permutations(Node)
=============================================================================
