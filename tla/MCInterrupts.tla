---------------------------- MODULE MCInterrupts ----------------------------
(***************************************************************************)
(* Instances of Interrupts: the timer, the keyboard and the disk of the    *)
(* second controller; two processes and the boot process.                  *)
(***************************************************************************)
EXTENDS Interrupts
=============================================================================
