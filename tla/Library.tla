------------------------------ MODULE Library ------------------------------
(***************************************************************************)
(* The kernel's pure algorithms, called with every input of a small set,   *)
(* and what each of them should compute, defined without its loops.        *)
(***************************************************************************)
EXTENDS Pci, Tokenizer, Console, Strings

CONSTANTS
    ConfigSpaces,   \* configuration spaces, in which a bus is behind a lower one
    Vendors, Ids,   \* what Pci_Exists is asked for
    Texts, Followers, \* strings, and what may lie behind them on the heap
    Screens, Outputs, \* screen sizes, and texts to print
    Words1, Words2, Options, \* strings without and with '='
    MemorySize      \* how many bytes are moved around, or compared

ASSUME LibraryAssumption ==
    /\ \A c \in ConfigSpaces :
          DOMAIN c = Places /\ \A d \in Places : c[d] \in FunctionsOn(d[1])
    /\ Texts \subseteq Seq(STRING \ {NUL})
    /\ \A after \in Followers :
          /\ after \in Seq(STRING) /\ Len(after) >= 2
          /\ after[Len(after) - 1] = NUL /\ after[Len(after)] = NUL
    /\ Screens \subseteq [width : Nat \ {0}, height : Nat \ {0}]
    /\ Outputs \subseteq Seq({"glyph", "newline", "tab"})
    /\ Words1 \cup Words2 \cup Options \subseteq Seq(1 .. 255)
    /\ MemorySize \in Nat

VARIABLES call, result

vars == <<call, result>>

Pending == [done |-> FALSE]

Moves ==
    {m \in [of : {"memmove"}, dest : 1 .. MemorySize, src : 1 .. MemorySize, n : 0 .. MemorySize] :
        m.dest + m.n =< MemorySize + 1 /\ m.src + m.n =< MemorySize + 1}

Called ==
    \/ call \in [of : {"Pci_Scan"}, space : ConfigSpaces,
                 type : {AnyType, PCI_TYPE_BRIDGE, PCI_TYPE_SATA}]
    \/ call \in [of : {"Pci_Exists"}, space : ConfigSpaces, vendor : Vendors, device : Ids]
    \/ call \in [of : {"TokenizeString"}, text : Texts, after : Followers]
    \/ call \in [of : {"sterm_put_string"}, screen : Screens, text : Outputs]
    \/ call \in Moves
    \/ call \in [of : {"StringRemove"}, str : Words1, sub : Words2]
    \/ call \in [of : {"CompareStringsN"}, a : Words2, b : Words2, n : 0 .. MemorySize]
    \/ call \in [of : {"CmdLine_GetOption"}, key : Words2, token : Options]

Init == Called /\ result = Pending

Returns(name, value) ==
    /\ call.of = name /\ result = Pending
    /\ result' = [done |-> TRUE, value |-> value]
    /\ UNCHANGED call

Scan == Returns("Pci_Scan", Pci_Scan(call.space, call.type))

Exists == Returns("Pci_Exists", Pci_Exists(call.space, call.vendor, call.device))

\* a caller that goes on until it gets NULL
Tokens(mem) ==
    LET calls[n \in 0 .. Len(mem)] ==
            IF n = 0 THEN [word |-> <<NUL>>, last |-> 1, mem |-> mem]
            ELSE IF calls[n - 1].word = <<>> THEN calls[n - 1]
            ELSE TokenizeString(calls[n - 1].mem, calls[n - 1].last)
        got == {n \in 1 .. Len(mem) : calls[n].word # <<>>}
    IN  [n \in 1 .. Cardinality(got) |-> calls[n].word]

Tokenize == Returns("TokenizeString", Tokens(call.text \o <<NUL>> \o call.after))

PrintText == Returns("sterm_put_string", Glyphs(call.screen, call.text))

\* the bytes of memory differ, so that each can be told from the others
Memory == [i \in 1 .. MemorySize |-> i]

Move == Returns("memmove", memmove(Memory, call.dest, call.src, call.n))

C(string) == string \o <<Terminator>>

RemoveText ==
    Returns("StringRemove",
            StringRemove(C(call.str) \o C(call.sub), 1, Len(call.str) + 2))

Compare ==
    Returns("CompareStringsN",
            CompareStringsN(C(call.a) \o C(call.b), 1, Len(call.a) + 2, call.n))

\* behind the token is the field for the value, and one more byte
Untouched == 9
Field == [i \in 1 .. PointerSize + 1 |-> Untouched]
KeyAt == 1
TokenAt == Len(call.key) + 2
FieldAt == TokenAt + Len(call.token) + 1

GetOption ==
    Returns("CmdLine_GetOption",
            CmdLine_GetOption(C(call.key) \o C(call.token) \o Field, KeyAt, FieldAt, TokenAt))

Next ==
    \/ Scan
    \/ Exists
    \/ Tokenize
    \/ PrintText
    \/ Move
    \/ RemoveText
    \/ Compare
    \/ GetOption

Spec == Init /\ [][Next]_vars

Returned(name) == call.of = name /\ result.done

-----------------------------------------------------------------------------
\* where the scan starts: the host bridge, one for each of its functions, or
\* anywhere
Roots(c) ==
    LET host == c[<<0, 0, 0>>]
    IN  IF ~host.there THEN 0 .. MaxBus
        ELSE IF ~MultiFunction(host) THEN {0}
        ELSE {b \in 0 .. MaxFunc : \A n \in 0 .. b : c[<<0, 0, n>>].there}

\* the functions that answer when asked as PCI prescribes
Announced(c) ==
    {d \in DOMAIN c : c[d].there /\ c[<<d[1], d[2], 0>>].there
                      /\ (d[3] = 0 \/ c[<<d[1], d[2], 0>>].header # 0)}

IsBridge(f) == f.type = PCI_TYPE_BRIDGE

\* the ways to a bus: a start there, and the bridges in front of it
Ways(c, on, b) ==
    Cardinality({d \in Announced(c) : d[1] \in on /\ IsBridge(c[d]) /\ c[d].secondary = b})
    + IF b \in Roots(c) THEN 1 ELSE 0

\* the least set of buses that has the roots and what is behind its bridges
Reached(c) ==
    LET closed == {on \in SUBSET (0 .. MaxBus) :
                      /\ Roots(c) \subseteq on
                      /\ \A d \in Announced(c) :
                            d[1] \in on /\ IsBridge(c[d]) => c[d].secondary \in on}
    IN  {b \in 0 .. MaxBus : \A on \in closed : b \in on}

(***************************************************************************)
(* Pci_Scan calls back for each function of the asked type on each bus     *)
(* that can be reached, and for no other; and only once, if one way leads  *)
(* to each bus ("calling the given function for each device found ...      *)
(* Also performs recursive scans of bridges", pci.c:107-113).              *)
(***************************************************************************)
ScanFindsReachable ==
    Returned("Pci_Scan") =>
        LET c == call.space
            wanted == {d \in Announced(c) :
                          /\ d[1] \in Reached(c)
                          /\ call.type \in {AnyType, c[d].type}}
        IN  /\ ToSet(result.value) = wanted
            /\ (\A b \in Reached(c) : Ways(c, Reached(c), b) = 1) => IsInjective(result.value)

\* the vendors and devices that can be reached, and the one that is asked for
ReachedIds(c) == {c[d].id : d \in {e \in Announced(c) : e[1] \in Reached(c)}}

AskedFor == [vendor |-> call.vendor, device |-> call.device]

(***************************************************************************)
(* Pci_Exists(vendorId, deviceId) misses no device of that vendor that can *)
(* be reached, behind whatever bridges, and whatever is found after it     *)
(* (pci.c:144-168).  The converse, that it finds no other, does not hold:  *)
(* pci.c:150 assigns the vendor in place of comparing it.                  *)
(***************************************************************************)
ExistsNeverMisses ==
    Returned("Pci_Exists") /\ AskedFor \in ReachedIds(call.space) => result.value

\* the words of a text, the longest stretches without a delimiter, in order
Starts(text) ==
    {i \in DOMAIN text : text[i] # Delimiter /\ (i = 1 \/ text[i - 1] = Delimiter)}
WordAt(text, i) ==
    LET end == CHOOSE j \in i .. Len(text) :
                  /\ \A k \in i .. j : text[k] # Delimiter
                  /\ j = Len(text) \/ text[j + 1] = Delimiter
    IN  SubSeq(text, i, end)
Nth(text, n) ==
    CHOOSE i \in Starts(text) : Cardinality({j \in Starts(text) : j =< i}) = n
Words(text) ==
    [n \in 1 .. Cardinality(Starts(text)) |-> WordAt(text, Nth(text, n))]

(***************************************************************************)
(* The tokens are the words of the string, in order.  More may follow, out *)
(* of the memory behind the string, if it ends in a word and what is there *)
(* is not 0 (TokenizeString.c:45-50).                                      *)
(***************************************************************************)
TokensAreWords ==
    Returned("TokenizeString") =>
        LET words == Words(call.text)
        IN  /\ IsPrefix(words, result.value)
            /\ \/ result.value = words
               \/ Last(call.text) # Delimiter /\ Head(call.after) # NUL

(***************************************************************************)
(* A glyph starts inside the screen, whatever newlines and tabs precede    *)
(* it; and no other is drawn at its place before the screen is full, if    *)
(* the text has no tabs, which go to column 4 even from behind it          *)
(* (sterm.c:123-171).                                                      *)
(***************************************************************************)
GlyphsApart ==
    Returned("sterm_put_string") =>
        /\ \A g \in result.value :
              g.corner.x < call.screen.width /\ g.corner.y < call.screen.height
        /\ "tab" \notin ToSet(call.text) =>
              Cardinality({g.corner : g \in result.value}) = Cardinality(result.value)

\* what is left of a text without its first sub; an empty sub changes nothing
Without(text, sub) ==
    LET at == {i \in 1 .. Len(text) - Len(sub) + 1 : SubSeq(text, i, i + Len(sub) - 1) = sub}
        first == CHOOSE i \in at : \A j \in at : i =< j
    IN  IF at = {} THEN text
        ELSE SubSeq(text, 1, first - 1) \o SubSeq(text, first + Len(sub), Len(text))

\* string s cut after n bytes, and the order of dictionaries
Cut(s, n) == SubSeq(s, 1, IF n < Len(s) THEN n ELSE Len(s))
Before(s, t) ==
    \E i \in 0 .. Len(s) :
        /\ i < Len(t) /\ SubSeq(s, 1, i) = SubSeq(t, 1, i)
        /\ i = Len(s) \/ s[i + 1] < t[i + 1]

\* the place of the first '=' of a token, which has one
FirstEquals(token) ==
    CHOOSE i \in DOMAIN token :
        token[i] = Equals /\ Equals \notin ToSet(SubSeq(token, 1, i - 1))

(***************************************************************************)
(* Moving bytes between ranges that overlap moves what was there before,   *)
(* and nothing else (memory.c:28-43); removing a substring leaves the text *)
(* around it, and writes nothing behind it (StringRemove.c); the           *)
(* comparison is the one of dictionaries, up to n bytes                    *)
(* (CompareStringsN.c); an option's value reaches the field of its key,    *)
(* and never more of it than the size of a pointer (cmdline.c:8-15).       *)
(***************************************************************************)
StringsAsSpecified ==
    /\ Returned("memmove") =>
          result.value = [i \in DOMAIN Memory |->
                             IF i \in call.dest .. call.dest + call.n - 1
                               THEN Memory[i - call.dest + call.src] ELSE Memory[i]]
    /\ Returned("StringRemove") =>
          LET left == C(Without(call.str, call.sub)) IN
          /\ IsPrefix(left, result.value)
          /\ IsSuffix(C(call.sub), result.value)
    /\ Returned("CompareStringsN") =>
          LET a == Cut(call.a, call.n)
              b == Cut(call.b, call.n)
          IN  (result.value = 0 <=> a = b) /\ (result.value < 0 <=> Before(a, b))
    /\ Returned("CmdLine_GetOption") =>
          LET field == SubSeq(result.value, FieldAt, Len(result.value))
              at == FirstEquals(call.token)
              found == Equals \in ToSet(call.token) /\ SubSeq(call.token, 1, at - 1) = call.key
              copied == Cut(C(SubSeq(call.token, at + 1, Len(call.token))), PointerSize)
          IN  field = IF found THEN copied \o SubSeq(Field, Len(copied) + 1, Len(Field))
                               ELSE Field
=============================================================================
