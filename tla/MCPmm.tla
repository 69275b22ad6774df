------------------------------- MODULE MCPmm -------------------------------
(***************************************************************************)
(* Instances of Pmm: a memory map of two usable entries, one of which ends *)
(* in less than a page, and a page stack one page too short for them.      *)
(***************************************************************************)
EXTENDS Pmm

\* pages of 12 units, each with room for the blocks of three pages together
SmallBlocks == <<[base |-> 12, length |-> 26], [base |-> 48, length |-> 24]>>

\* three pages of 8 units in a row
LargeBlocks == <<[base |-> 8, length |-> 24]>>
=============================================================================
