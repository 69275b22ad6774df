--------------------------- MODULE MCKHeapShared ---------------------------
(***************************************************************************)
(* An instance of KHeapShared: "idle", which does not exit, and three      *)
(* processes with neighbouring blocks that do.                             *)
(***************************************************************************)
EXTENDS KHeapShared
=============================================================================
