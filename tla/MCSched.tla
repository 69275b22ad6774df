------------------------------ MODULE MCSched ------------------------------
(***************************************************************************)
(* Small instances of Sched for TLC.                                       *)
(***************************************************************************)
EXTENDS Sched

\* neighbours that all exit, in any interleaving
MCAllMortal == 1 .. NumProcs - 1

\* every other process exits, the newest one included when NumProcs is even
MCOddMortal == {p \in 1 .. NumProcs - 1 : p % 2 = 1}
=============================================================================
