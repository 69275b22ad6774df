------------------------------- MODULE MCVmm -------------------------------
(***************************************************************************)
(* An instance of Vmm: tables of three entries, of which the last two are  *)
(* the kernel's in a PML4.  The boot code maps one page in the kernel's    *)
(* half and one at its own address; one PML4 entry of the kernel's half    *)
(* stays unused until somebody maps there.                                 *)
(***************************************************************************)
EXTENDS Vmm

Text  == <<1, 0, 0, 0>>
Late  == <<2, 0, 0, 0>>
User  == <<0, 0, 0, 0>>
User2 == <<0, 1, 0, 1>>

MCPool     == [i \in 1 .. 11 |-> i]
MCFrames   == {20}
MCVAddrs   == {Text, Late, User, User2}
MCFlags    == {{"P", "W"}}
MCBootMaps == <<[va |-> Text, frame |-> 20, flags |-> {"P", "U"}],
                [va |-> User, frame |-> 20, flags |-> {"P", "W", "U"}]>>
=============================================================================
