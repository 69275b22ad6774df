------------------------------ MODULE Strings ------------------------------
(***************************************************************************)
(* memory/memory.c, the string functions of klibc, and CmdLine_GetOption   *)
(* on top of them.                                                         *)
(*                                                                         *)
(* Memory is a sequence of bytes and a pointer an index into it.  The      *)
(* loops run byte by byte, so that where source and destination overlap    *)
(* their order matters.                                                    *)
(***************************************************************************)
EXTENDS Integers, SequencesExt

CONSTANT PointerSize    \* 8

ASSUME StringsAssumption == PointerSize \in Nat

Terminator == 0
Equals == 3             \* '='
NULL == 0

\* the first index from i on at which a loop stops
FirstFrom(i, last, Stops(_)) == CHOOSE k \in i .. last : Stops(k) /\ \A j \in i .. k - 1 : ~Stops(j)

Up(n) == [i \in 1 .. n |-> i - 1]

\* byte after byte, at the offsets in the order given
Copy(mem, dest, src, order) ==
    LET copied[k \in 0 .. Len(order)] ==
            IF k = 0 THEN mem
            ELSE [copied[k - 1] EXCEPT ![dest + order[k]] = copied[k - 1][src + order[k]]]
    IN  copied[Len(order)]

\* mutant: from the first byte on, always
MoveUp(mem, dest, src, n) == Copy(mem, dest, src, Up(n))

memmove(mem, dest, src, n) ==
    CASE src > dest -> Copy(mem, dest, src, Up(n))
      [] src < dest -> Copy(mem, dest, src, Reverse(Up(n)))
      [] OTHER -> mem

memcmp(mem, a, b, n) ==
    LET i == FirstFrom(0, n, LAMBDA k : k = n \/ mem[a + k] # mem[b + k])
    IN  IF i = n THEN 0 ELSE IF mem[a + i] < mem[b + i] THEN -1 ELSE 1

StringLength(mem, s) == FirstFrom(s, Len(mem), LAMBDA k : mem[k] = Terminator) - s

CompareStringsN(mem, a, b, n) ==
    LET i == FirstFrom(0, n, LAMBDA k : \/ k = n
                                        \/ mem[a + k] = Terminator
                                        \/ mem[a + k] # mem[b + k])
    IN  IF i = n THEN 0 ELSE mem[a + i] - mem[b + i]

CompareStrings(mem, a, b) == CompareStringsN(mem, a, b, Len(mem))

CopyStringN(mem, dst, src, n) ==
    Copy(mem, dst, src, Up(IF n > StringLength(mem, src) THEN StringLength(mem, src) + 1 ELSE n))

CharFromString(mem, s, c) ==
    LET k == FirstFrom(s, Len(mem), LAMBDA i : mem[i] \in {c, Terminator})
    IN  IF mem[k] = c THEN k ELSE NULL

\* the first place in s1 at which s2 is; the terminator of s1 is not tried
StringFromString(mem, s1, s2) ==
    LET stop == s1 + StringLength(mem, s1)
        k == FirstFrom(s1, stop, LAMBDA i : i = stop \/ memcmp(mem, i, s2, StringLength(mem, s2)) = 0)
    IN  IF k = stop THEN NULL ELSE k

StringRemove(mem, str, sub) ==
    LET p == StringFromString(mem, str, sub)
        rest == p + StringLength(mem, sub)
    IN  IF p = NULL THEN mem ELSE memmove(mem, p, rest, StringLength(mem, rest) + 1)

\* The token is cut at its '=', whether it is about the key or not; of the
\* value as many bytes are copied as a pointer has.
CmdLine_GetOption(mem, key, value, token) ==
    LET p == CharFromString(mem, token, Equals)
        cut == [mem EXCEPT ![p] = Terminator]
    IN  IF p = NULL THEN mem
        ELSE IF CompareStrings(cut, key, token) = 0
               THEN CopyStringN(cut, value, p + 1, PointerSize)
               ELSE cut
=============================================================================
