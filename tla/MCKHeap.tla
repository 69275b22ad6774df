------------------------------ MODULE MCKHeap ------------------------------
(***************************************************************************)
(* An instance of KHeap: four fresh pages, handed out from the highest     *)
(* address down, after that of the head; and the block at address 0.       *)
(***************************************************************************)
EXTENDS KHeap

FourPages == <<4, 3, 2, 1>>
=============================================================================
