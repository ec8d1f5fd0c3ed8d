------------------------------ MODULE MCTextWrap ------------------------------
(* Instances of TextWrap for TLC.                                          *)
EXTENDS TextWrap, TLC

\* Letters: a narrow and a wide one, a combining mark without advance.
Letters == {"n", "w", "o", " ", "/"}

RECURSIVE Kinds(_), Offsets(_)

Kinds(s) ==
  IF s = << >> THEN << >>
  ELSE Append(Kinds(SubSeq(s, 1, Len(s) - 1)),
              CASE s[Len(s)] = " " -> "space" [] s[Len(s)] = "/" -> "newline" [] OTHER -> "ink")

AdvanceAt(s, i) ==
  CASE s[i] = "n" -> 1 [] s[i] = "w" -> 3 [] s[i] = "o" -> 0 [] s[i] = "/" -> 0
    [] s[i] = " " -> IF i > 1 /\ s[i - 1] = " " THEN 0 ELSE 1

Offsets(s) ==
  IF s = << >> THEN (0 :> 0)
  ELSE LET shorter == Offsets(SubSeq(s, 1, Len(s) - 1))
       IN  shorter @@ (Len(s) :> shorter[Len(s) - 1] + AdvanceAt(s, Len(s)))

Text(s, dots, size, w, h, y, outline) ==
  [chars |-> Kinds(s), offset |-> Offsets(s), space |-> 1, dots |-> dots,
   size |-> size, w |-> w, h |-> h, y |-> y, outline |-> outline]

Strings(glyphs, n) == UNION {[1..m -> glyphs] : m \in 0..n}

\* Every string of four letters and longer ones of fewer letters, up to the
\* limit and over it, in boxes of several widths and heights and without; two
\* texts one after the other, with an outline, without size or box, and at the
\* end of i64's range.  Lines without a box, or of one 6 wide, are as long as the
\* limit, an ellipsis included.
MCJobs ==
  {<<Text(s, 3, 1, w, h, 0, FALSE)>> : s \in Strings(Letters, 4), w \in {None, 2, 4}, h \in {None, 1, 3}} \cup
  {<<Text(s, 2, 1, 3, h, 0, FALSE)>> : s \in Strings({"n", " ", "/"}, 7), h \in {None, 3}} \cup
  {<<Text(s, 1, 1, w, 1, 0, FALSE)>> : s \in Strings({"n", " ", "/"}, 7), w \in {None, 6}} \cup
  {<<Text(s, 2, 2, w, h, y, TRUE), Text(<<"n">>, 1, 0, 0, 3, y, FALSE)>> :
     s \in Strings(Letters, 3), w \in {0, 3}, h \in {1, 5}, y \in {-4, 250}}
=============================================================================
