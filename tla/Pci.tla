-------------------------------- MODULE Pci --------------------------------
(***************************************************************************)
(* The enumeration of PCI functions in sys/pci.c: the walk over buses,     *)
(* slots, functions and bridges, and Pci_Exists on top of it.              *)
(*                                                                         *)
(* A configuration space c gives a bus, a slot and a function number to    *)
(* what is there.  Firmware numbers the bus behind a bridge higher than    *)
(* the bridge's own; if it left 0 there the walk would never end.          *)
(***************************************************************************)
EXTENDS Integers, FiniteSets, SequencesExt

CONSTANTS MaxBus, MaxSlot, MaxFunc     \* 255, 31 and 7

ASSUME PciAssumption == MaxBus \in Nat /\ MaxSlot \in Nat /\ MaxFunc \in 0 .. MaxBus

\* vendor PCI_NONE: a read of what is not there gives ones
PCI_NONE == 65535
Absent == [there |-> FALSE]

\* a function of some class and subclass, or a bridge to a bus
PCI_TYPE_BRIDGE == 1540
PCI_TYPE_SATA == 262
Device(id, header) ==
    [there |-> TRUE, id |-> id, header |-> header, type |-> PCI_TYPE_SATA]
Bridge(id, header, bus) ==
    [there |-> TRUE, id |-> id, header |-> header, type |-> PCI_TYPE_BRIDGE, secondary |-> bus]

\* where a function may be, and what may be on a bus
Places == (0 .. MaxBus) \X (0 .. MaxSlot) \X (0 .. MaxFunc)
DeviceNumbers == 0 .. 65535
VendorNumbers == DeviceNumbers \ {0, PCI_NONE}
Numbers == [vendor : VendorNumbers, device : DeviceNumbers]
Headers == 0 .. 255
Types == 0 .. 65535
FunctionsOn(bus) ==
    {Absent}
    \cup [there : {TRUE}, id : Numbers, header : Headers, type : Types \ {PCI_TYPE_BRIDGE}]
    \cup [there : {TRUE}, id : Numbers, header : Headers, type : {PCI_TYPE_BRIDGE},
           secondary : bus + 1 .. MaxBus]

HeaderType(f) == IF f.there THEN f.header ELSE 255
MultiFunction(f) == HeaderType(f) >= 128
AnyType == -1

\* Pci_ScanFunc and Pci_ScanHit: the calls of f, in their order; behind[b]
\* are those of the scan of bus b
Pci_ScanFunc(c, type, dev, behind) ==
    (IF type \in {AnyType, c[dev].type} THEN <<dev>> ELSE <<>>)
    \o (IF c[dev].type = PCI_TYPE_BRIDGE THEN behind[c[dev].secondary] ELSE <<>>)

OtherFuncs(c, type, bus, slot, behind) ==
    FlattenSeq([n \in 1 .. MaxFunc |->
        IF c[<<bus, slot, n>>].there THEN Pci_ScanFunc(c, type, <<bus, slot, n>>, behind)
                                     ELSE <<>>])

\* mutant: the other functions of a slot only if function 0 is no bridge
ScanSlotDevices(c, type, bus, slot, behind) ==
    IF ~c[<<bus, slot, 0>>].there THEN <<>>
    ELSE Pci_ScanFunc(c, type, <<bus, slot, 0>>, behind)
         \o (IF c[<<bus, slot, 0>>].header = 128
               THEN OtherFuncs(c, type, bus, slot, behind) ELSE <<>>)

\* Pci_ScanSlot: nothing without function 0; the others if the header is not 0
Pci_ScanSlot(c, type, bus, slot, behind) ==
    IF ~c[<<bus, slot, 0>>].there THEN <<>>
    ELSE Pci_ScanFunc(c, type, <<bus, slot, 0>>, behind)
         \o (IF c[<<bus, slot, 0>>].header # 0
               THEN OtherFuncs(c, type, bus, slot, behind) ELSE <<>>)

\* Pci_ScanBus, for every bus, from the last one down
Pci_ScanBus(c, type) ==
    LET scan[bus \in 0 .. MaxBus] ==
            FlattenSeq([i \in 1 .. MaxSlot + 1 |-> Pci_ScanSlot(c, type, bus, i - 1, scan)])
    IN  scan

\* the functions of the host bridge, up to the first that is not there
HostFuncs(c) == {n \in 0 .. MaxFunc : \A m \in 0 .. n : c[<<0, 0, m>>].there}

\* Pci_Scan: bus 0; or one bus for each function of the host bridge; or, if
\* there is no host bridge, every bus
Pci_Scan(c, type) ==
    LET scan == Pci_ScanBus(c, type)
        last == IF ~MultiFunction(c[<<0, 0, 0>>]) THEN 0
                ELSE IF HostFuncs(c) # {} THEN Cardinality(HostFuncs(c)) - 1 ELSE MaxBus
    IN  FlattenSeq([i \in 1 .. last + 1 |-> scan[i - 1]])

\* mutant: each device overwrites what was found before
ExistsLast(c, vendor, device) ==
    LET scan == Pci_Scan(c, AnyType)
    IN  scan # <<>> /\ vendor # 0 /\ c[Last(scan)].id.device = device

(***************************************************************************)
(* Pci_Exists.  Its callback assigns to vendor_id what it should compare,  *)
(* vendor && device_id == device, so that the vendor found plays no part.  *)
(***************************************************************************)
Pci_Exists(c, vendor, device) ==
    \E i \in DOMAIN Pci_Scan(c, AnyType) :
        vendor # 0 /\ c[Pci_Scan(c, AnyType)[i]].id.device = device
=============================================================================
