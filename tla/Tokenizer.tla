----------------------------- MODULE Tokenizer -----------------------------
(***************************************************************************)
(* klibc/string/TokenizeString.c: a caller passes its string once, then    *)
(* NULL, until it gets NULL; between the calls the position is static.     *)
(*                                                                         *)
(* Memory is a sequence of characters: the copy of the string with its     *)
(* terminator, and what follows it on the heap up to the first two NULs in *)
(* a row, where a caller who goes on comes to a halt.                      *)
(***************************************************************************)
EXTENDS Integers, SequencesExt

NUL == "nul"
Delimiter == "/"

\* where a loop over characters that are, or are not, delimiters ends
SkipDelimiters(mem, i) ==
    CHOOSE j \in i .. Len(mem) :
        mem[j] # Delimiter /\ \A k \in i .. j - 1 : mem[k] = Delimiter

SkipWord(mem, i) ==
    CHOOSE j \in i .. Len(mem) :
        mem[j] \in {NUL, Delimiter} /\ \A k \in i .. j - 1 : mem[k] \notin {NUL, Delimiter}

\* mutant: the terminator is not stepped over
TokenizeStays(mem, last) ==
    LET from == SkipDelimiters(mem, last)
        to == SkipWord(mem, from)
    IN  IF mem[from] = NUL THEN [word |-> <<>>, last |-> from, mem |-> mem]
        ELSE [word |-> SubSeq(mem, from, to - 1), last |-> to,
              mem |-> [mem EXCEPT ![to] = NUL]]

\* one call: the word, and the position and the memory it leaves; the
\* terminator is written, and stepped over, even where one stood already
TokenizeString(mem, last) ==
    LET from == SkipDelimiters(mem, last)
        to == SkipWord(mem, from)
    IN  IF mem[from] = NUL THEN [word |-> <<>>, last |-> from, mem |-> mem]
        ELSE [word |-> SubSeq(mem, from, to - 1), last |-> to + 1,
              mem |-> [mem EXCEPT ![to] = NUL]]
=============================================================================
