----------------------------- MODULE MCLibrary -----------------------------
(***************************************************************************)
(* The inputs of Library: host bridges with one and two functions, or none;*)
(* devices and bridges, of one or of several functions, on three buses;    *)
(* all short strings; and small screens.                                   *)
(***************************************************************************)
EXTENDS Library

Id(v, d) == [vendor |-> v, device |-> d]

\* what may be at a bus
Simple == {Absent, Device(Id(1, 1), 0), Device(Id(2, 1), 128)}
BridgesTo(buses) == {Bridge(Id(1, 2), h, b) : h \in {1, 129}, b \in buses}

MCConfigSpaces ==
    {[d \in {0, 1, 2} \X {0, 1} \X {0, 1} |->
        CASE d = <<0, 0, 0>> -> h0 [] d = <<0, 0, 1>> -> h1
          [] d = <<0, 1, 0>> -> s0 [] d = <<0, 1, 1>> -> s1
          [] d = <<1, 0, 0>> -> b0 [] d = <<1, 0, 1>> -> b1
          [] d = <<2, 1, 0>> -> Device(Id(1, 1), 0)
          [] OTHER -> Absent] :
        h0 \in Simple, h1 \in {Absent, Device(Id(2, 2), 0)},
        s0 \in Simple \cup BridgesTo({1, 2}), s1 \in Simple \cup BridgesTo({2}),
        b0 \in {Absent, Device(Id(2, 3), 0)} \cup BridgesTo({2}), b1 \in Simple}

MCTexts == BoundedSeq({"a", "/"}, 5)
MCFollowers == {a \o <<NUL, NUL>> : a \in BoundedSeq({"a", "/"}, 2)}

MCScreens == {[width |-> w, height |-> h] : w \in {16, 20, 40}, h \in {32, 40}}
MCOutputs == BoundedSeq({"glyph", "newline", "tab"}, 7)

\* strings that are searched in, or searched for; and tokens of a command line
MCWords1 == BoundedSeq({1, 2}, 5)
MCWords2 == BoundedSeq({1, 2}, 3)
MCOptions == BoundedSeq({1, 2, Equals}, 5)
=============================================================================
