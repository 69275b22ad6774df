------------------------------ MODULE Console ------------------------------
(***************************************************************************)
(* Where trdparty/sterm.c, the terminal behind ConIO_Print and the logger, *)
(* draws the characters of a text: glyphs of 8 by 16 pixels on a screen of *)
(* s.width by s.height, from the top left corner again when it is full.    *)
(***************************************************************************)
EXTENDS Integers, FiniteSets, SequencesExt

FontWidth == 8
TabStop == 8 * 4

\* sterm_clear
Origin == [x |-> 0, y |-> 0, top |-> 0]

NextLine(at) == [x |-> 0, y |-> at.y + 16, top |-> at.top]

\* mutant: the line is only wrapped once the screen was found not to be full
WrappedLate(s, at) ==
    LET screen == IF at.y >= s.height THEN [x |-> 0, y |-> 0, top |-> at.top + 1] ELSE at
    IN  IF screen.x >= s.width THEN NextLine(screen) ELSE screen

\* the two tests before a character; top counts the returns to the top
Wrapped(s, at) ==
    LET line == IF at.x >= s.width THEN NextLine(at) ELSE at
    IN  IF line.y >= s.height THEN [x |-> 0, y |-> 0, top |-> at.top + 1] ELSE line

\* sterm_put_char: where the cursor is afterwards
sterm_put_char(s, at, char) ==
    CASE char = "newline" -> NextLine(at)
      [] char = "tab" -> [Wrapped(s, at) EXCEPT !.x = TabStop]
      [] OTHER -> [Wrapped(s, at) EXCEPT !.x = @ + FontWidth]

\* sterm_put_string: where it is after each character
sterm_put_string(s, text) ==
    LET at[n \in 0 .. Len(text)] ==
            IF n = 0 THEN Origin ELSE sterm_put_char(s, at[n - 1], text[n])
    IN  at

\* the corner of each glyph that is drawn
Glyphs(s, text) ==
    LET at == sterm_put_string(s, text)
    IN  {[n |-> n, corner |-> Wrapped(s, at[n - 1])] :
            n \in {m \in DOMAIN text : text[m] \notin {"newline", "tab"}}}
=============================================================================
