------------------------------- MODULE TextWrap -------------------------------
(***************************************************************************)
(* The text layer (image/text.rs): generate_text_svg takes the texts one   *)
(* after another, breaks each into lines that fit a box, by the advances   *)
(* of the font's glyphs or by the heuristic ones, and writes a text        *)
(* element per line, preceded by its outline.                              *)
(*                                                                         *)
(* A character is "ink", "space" or "newline", and a line is the span of   *)
(* the text it shows.  Widths are differences of an offset that grows      *)
(* along the text and counts a run of spaces as one, as wrapping does;     *)
(* they are integers and added exactly.  Colours, weights and the rest of  *)
(* the markup are left out.                                                *)
(***************************************************************************)
EXTENDS Integers, Sequences, FiniteSets

CONSTANTS
  Jobs,    \* the texts of a request each, in order
  Limit,   \* max_text_length
  Half,    \* 2^63: an i64 is in -Half..Half - 1
  None

\* A TextConfig: its characters ('+' decoded), how far the text reaches after
\* each of them, the advances of ' ' and of the ellipsis, font_size, max_width,
\* max_height, y and whether an outline is asked for.
IsText(t) ==
  /\ t.chars \in Seq({"ink", "space", "newline"})
  /\ t.offset \in [0..Len(t.chars) -> Nat]
  /\ t.space \in Nat /\ t.dots \in Nat /\ t.size \in Nat
  /\ t.w \in Nat \cup {None} /\ t.h \in Nat \cup {None}
  /\ t.y \in Int /\ t.outline \in BOOLEAN

Spaces(t, i, k) == \A m \in i..k : t.chars[m] = "space"
Inked(t, i, k) == \A m \in i..k : t.chars[m] = "ink"

\* Advances are not negative, and ' ' is as wide as the run it stands for.
IsMeasured(t) ==
  /\ \A i, k \in 0..Len(t.chars) : i <= k => t.offset[i] <= t.offset[k]
  /\ \A i, k \in 1..Len(t.chars) :
       i + 1 < k /\ t.chars[i] = "ink" /\ Spaces(t, i + 1, k - 1) =>
         t.offset[k - 1] = t.offset[i] + t.space

ASSUME LimitAssumption == Limit \in Nat /\ Half \in Nat \ {0} /\ None \notin Nat

ASSUME JobAssumption ==
  \A j \in Jobs : Len(j) \in Nat /\ \A n \in 1..Len(j) : IsText(j[n]) /\ IsMeasured(j[n])

VARIABLES
  job,     \* what generate_text_svg is called with
  nth,     \* the text being laid out
  stage,   \* "texts", "paragraph", "breaking", "fitting", "ellipsis", "drawing" or "done"
  pos,     \* the next character wrap_paragraph or break_word reads
  stop,    \* last character of the word break_word is at
  cur,     \* cur: the line being filled
  width,   \* cur_w
  saw,     \* saw_word
  lines,   \* lines (out), done so far
  row,     \* lines already drawn
  drawn    \* text elements written, of all texts

vars == <<job, nth, stage, pos, stop, cur, width, saw, lines, row, drawn>>

text == job[nth]

MinOf(m, n) == IF m <= n THEN m ELSE n
MaxOf(m, n) == IF m >= n THEN m ELSE n

-----------------------------------------------------------------------------
(* Measures and limits.                                                    *)

Line(first, last) == [first |-> first, last |-> last, dots |-> FALSE]
Empty(l) == l.last < l.first

\* No character yet, the next one at i.
BlankAt(i) == Line(i, i - 1)

\* A variant: the text is not cut.
CountUncut(t) == Len(t.chars)

\* take(max_text_length)
Count(t) == MinOf(Len(t.chars), Limit)

\* Where a paragraph ends: at a '\n' and at the end of the text.
Ends(t, i) == i = Count(t) + 1 \/ (i \in 1..Count(t) /\ t.chars[i] = "newline")

\* Characters i..k are a word of split_whitespace.
IsWord(t, i, k) ==
  /\ 1 <= i /\ i <= k /\ k <= Count(t)
  /\ Inked(t, i, k)
  /\ k < Count(t) => t.chars[k + 1] # "ink"

\* text_width
Advance(t, i, k) == t.offset[k] - t.offset[i - 1]

\* A maximum of 0 is none.
Wraps(t) == t.w \notin {None, 0}

\* A variant: rounded up.
MaxLinesCeiling(t) ==
  IF t.h \in {None, 0} \/ t.size = 0 THEN None
  ELSE MaxOf((5 * t.h + 6 * t.size - 1) \div (6 * t.size), 1)

\* Another: not at least one.
MaxLinesFloor(t) ==
  IF t.h \in {None, 0} \/ t.size = 0 THEN None ELSE (5 * t.h) \div (6 * t.size)

\* max_lines, None for usize::MAX: max_height by a line height of 1.2 * size.
MaxLines(t) ==
  IF t.h \in {None, 0} \/ t.size = 0 THEN None ELSE MaxOf((5 * t.h) \div (6 * t.size), 1)

TooMany(t, n) == MaxLines(t) # None /\ n > MaxLines(t)

-----------------------------------------------------------------------------
Init ==
  /\ job \in Jobs
  /\ nth = 0
  /\ stage = "texts"
  /\ pos = 1 /\ stop = 0
  /\ cur = BlankAt(1) /\ width = 0 /\ saw = FALSE
  /\ lines = << >>
  /\ row = 0
  /\ drawn = << >>

\* The next TextConfig; an empty one is skipped.
NextText ==
  /\ stage = "texts"
  /\ nth < Len(job)
  /\ nth' = nth + 1
  /\ stage' = IF job[nth + 1].chars = << >> THEN "texts" ELSE "paragraph"
  /\ pos' = 1 /\ cur' = BlankAt(1) /\ width' = 0 /\ saw' = FALSE
  /\ lines' = << >>
  /\ row' = 0
  /\ UNCHANGED <<job, stop, drawn>>

AllTexts ==
  /\ stage = "texts"
  /\ nth = Len(job)
  /\ stage' = "done"
  /\ UNCHANGED <<job, nth, pos, stop, cur, width, saw, lines, row, drawn>>

-----------------------------------------------------------------------------
(* wrap_lines, wrap_paragraph and break_word                               *)

\* The paragraph that ends at e is laid out: on to the next one, unless it was
\* the last or there are too many lines already.
Leave(e) ==
  /\ stage' = IF e = Count(text) + 1 \/ TooMany(text, Len(lines')) THEN "fitting" ELSE "paragraph"
  /\ pos' = e + 1
  /\ cur' = BlankAt(e + 1) /\ width' = 0 /\ saw' = FALSE
  /\ UNCHANGED <<job, nth, stop, row, drawn>>

\* Without a maximal width a paragraph is a line.
Verbatim(e) ==
  /\ stage = "paragraph" /\ ~Wraps(text)
  /\ pos <= e /\ Ends(text, e)
  /\ \A i \in pos..(e - 1) : ~Ends(text, i)
  /\ lines' = Append(lines, Line(pos, e - 1))
  /\ Leave(e)

\* The next word of the paragraph is i..k.
ReadsWord(i, k) ==
  /\ stage = "paragraph" /\ Wraps(text)
  /\ pos <= i /\ Spaces(text, pos, i - 1)
  /\ IsWord(text, i, k)

TooLong(i, k) == Advance(text, i, k) > text.w /\ k > i

\* Variants of Joins: the space left out; a line exactly as wide as the box
\* taken for too wide.
JoinsUnspaced(i, k) == width + Advance(text, i, k) <= text.w
JoinsStrictly(i, k) == width + text.space + Advance(text, i, k) < text.w

Joins(i, k) == width + text.space + Advance(text, i, k) <= text.w

\* `out.push(take(cur))`, if there is anything to push.
Flushed == IF Empty(cur) THEN lines ELSE Append(lines, cur)

\* A variant: cur is not pushed before the word is broken.
LongWordUnflushed(i, k) ==
  /\ ReadsWord(i, k) /\ TooLong(i, k)
  /\ stage' = "breaking"
  /\ pos' = i /\ stop' = k
  /\ cur' = BlankAt(i) /\ width' = 0 /\ saw' = TRUE
  /\ UNCHANGED <<job, nth, lines, row, drawn>>

LongWord(i, k) ==
  /\ ReadsWord(i, k) /\ TooLong(i, k)
  /\ stage' = "breaking"
  /\ pos' = i /\ stop' = k
  /\ lines' = Flushed
  /\ cur' = BlankAt(i) /\ width' = 0 /\ saw' = TRUE
  /\ UNCHANGED <<job, nth, row, drawn>>

\* A word that starts a line, the one before being full or not begun.
WordStarts(i, k) ==
  /\ ReadsWord(i, k) /\ ~TooLong(i, k)
  /\ Empty(cur) \/ ~Joins(i, k)
  /\ lines' = Flushed
  /\ cur' = Line(i, k) /\ width' = Advance(text, i, k) /\ saw' = TRUE
  /\ pos' = k + 1
  /\ UNCHANGED <<job, nth, stage, stop, row, drawn>>

WordJoins(i, k) ==
  /\ ReadsWord(i, k) /\ ~TooLong(i, k)
  /\ ~Empty(cur) /\ Joins(i, k)
  /\ cur' = [cur EXCEPT !.last = k] /\ width' = width + text.space + Advance(text, i, k)
  /\ saw' = TRUE
  /\ pos' = k + 1
  /\ UNCHANGED <<job, nth, stage, stop, lines, row, drawn>>

\* A variant: a glyph that does not fit is left for the next line, even by a
\* line without any.
BreakGlyphOrWait ==
  /\ stage = "breaking"
  /\ IF width + Advance(text, pos, pos) > text.w
     THEN /\ lines' = Append(lines, cur)
          /\ cur' = BlankAt(pos) /\ width' = 0
          /\ UNCHANGED <<pos, stage>>
     ELSE /\ cur' = [cur EXCEPT !.last = pos]
          /\ width' = width + Advance(text, pos, pos)
          /\ pos' = pos + 1
          /\ stage' = IF pos = stop THEN "paragraph" ELSE "breaking"
          /\ UNCHANGED lines
  /\ UNCHANGED <<job, nth, stop, saw, row, drawn>>

\* The next glyph of a long word; the last chunk stays in cur.
BreakGlyph ==
  /\ stage = "breaking"
  /\ IF ~Empty(cur) /\ width + Advance(text, pos, pos) > text.w
     THEN /\ lines' = Append(lines, cur)
          /\ cur' = Line(pos, pos)
          /\ width' = Advance(text, pos, pos)
     ELSE /\ cur' = [cur EXCEPT !.last = pos]
          /\ width' = width + Advance(text, pos, pos)
          /\ UNCHANGED lines
  /\ pos' = pos + 1
  /\ stage' = IF pos = stop THEN "paragraph" ELSE "breaking"
  /\ UNCHANGED <<job, nth, stop, saw, row, drawn>>

\* No word is left up to e: the trailing line, or a blank one.
EndParagraph(e) ==
  /\ stage = "paragraph" /\ Wraps(text)
  /\ pos <= e /\ Spaces(text, pos, e - 1) /\ Ends(text, e)
  /\ lines' = IF ~Empty(cur) \/ ~saw THEN Append(lines, cur) ELSE lines
  /\ Leave(e)

-----------------------------------------------------------------------------
(* The vertical fit and ellipsize                                          *)

AllFit ==
  /\ stage = "fitting"
  /\ ~TooMany(text, Len(lines))
  /\ stage' = "drawing"
  /\ UNCHANGED <<job, nth, pos, stop, cur, width, saw, lines, row, drawn>>

Truncate ==
  /\ stage = "fitting"
  /\ TooMany(text, Len(lines))
  /\ lines' = SubSeq(lines, 1, MaxLines(text))
  /\ stage' = "ellipsis"
  /\ UNCHANGED <<job, nth, pos, stop, cur, width, saw, row, drawn>>

LastLine == lines[Len(lines)]

\* A variant: the loop does not end at an empty line.
CrowdsEvenEmpty(l) == Wraps(text) /\ Advance(text, l.first, l.last) + text.dots > text.w

\* No room for the ellipsis behind l.
Crowds(l) ==
  Wraps(text) /\ ~Empty(l) /\ Advance(text, l.first, l.last) + text.dots > text.w

\* chars.pop()
Shorten ==
  /\ stage = "ellipsis"
  /\ Crowds(LastLine)
  /\ lines' = [lines EXCEPT ![Len(lines)].last = IF Empty(LastLine) THEN @ ELSE @ - 1]
  /\ UNCHANGED <<job, nth, stage, pos, stop, cur, width, saw, row, drawn>>

\* Spaces behind character e are trimmed and the ellipsis is set.
Ellipsize(e) ==
  /\ stage = "ellipsis"
  /\ ~Crowds(LastLine)
  /\ e <= LastLine.last /\ Spaces(text, e + 1, LastLine.last)
  /\ e = LastLine.first - 1 \/ (e >= LastLine.first /\ text.chars[e] # "space")
  /\ lines' = [lines EXCEPT ![Len(lines)].last = e, ![Len(lines)].dots = TRUE]
  /\ stage' = "drawing"
  /\ UNCHANGED <<job, nth, pos, stop, cur, width, saw, row, drawn>>

-----------------------------------------------------------------------------
(* The elements                                                            *)

AsI64(n) == ((n + Half) % (2 * Half)) - Half

\* (index * lh) as i64, lh being 1.2 * size in f64: cut to an integer, a whole
\* number may come out one less.
Descents(t, n) ==
  LET k == (6 * t.size * n) \div 5
  IN  {d \in {k - 1, k} : 0 <= d /\ 6 * t.size * n <= 5 * (d + 1)}

\* line_y: the additions wrap around in the release profile.
Baselines(t, n) == {AsI64(AsI64(t.y + t.size) + d) : d \in Descents(t, n)}

\* Where the characters of line l come from: wrapping joins words with one ' ',
\* a line that was not wrapped has all its spaces.
Glyphs(l) ==
  {m \in l.first..l.last :
     Wraps(text) /\ m > l.first /\ text.chars[m] = "space" => text.chars[m - 1] # "space"}

Length(l) == Cardinality(Glyphs(l)) + IF l.dots THEN 1 ELSE 0

\* sanitize_text takes max_text_length characters of the line once more.
Shown(l) ==
  IF Length(l) <= Limit THEN l
  ELSE Line(l.first, CHOOSE m \in (l.first - 1)..l.last : Length(Line(l.first, m)) = Limit)

Draw ==
  /\ stage = "drawing"
  /\ row < Len(lines)
  /\ \E y \in Baselines(text, row) :
       LET l == Shown(lines[row + 1])
           At(ink) == [text |-> nth, line |-> l, y |-> y, ink |-> ink]
       IN  drawn' = drawn \o
             IF Empty(l) /\ ~l.dots THEN << >>
             ELSE IF text.outline THEN <<At("stroke"), At("fill")>> ELSE <<At("fill")>>
  /\ row' = row + 1
  /\ UNCHANGED <<job, nth, stage, pos, stop, cur, width, saw, lines>>

Drawn ==
  /\ stage = "drawing"
  /\ row = Len(lines)
  /\ stage' = "texts"
  /\ UNCHANGED <<job, nth, pos, stop, cur, width, saw, lines, row, drawn>>

\* Characters of the text, and the place behind the last.
Places == IF nth = 0 THEN {} ELSE 1..(Count(text) + 1)

Next ==
  \/ NextText \/ AllTexts
  \/ \E e \in Places : Verbatim(e) \/ EndParagraph(e) \/ Ellipsize(e - 1)
  \/ \E i, k \in Places : LongWord(i, k) \/ WordStarts(i, k) \/ WordJoins(i, k)
  \/ BreakGlyph
  \/ AllFit \/ Truncate \/ Shorten
  \/ Draw \/ Drawn

Spec == Init /\ [][Next]_vars

\* Straight-line code, run by one thread.
FairSpec == Spec /\ WF_vars(Next)

-----------------------------------------------------------------------------
(* Properties                                                              *)

Spans == [first: Nat \ {0}, last: Nat, dots: BOOLEAN]

TypeOK ==
  /\ nth \in 0..Len(job)
  /\ stage \in {"texts", "paragraph", "breaking", "fitting", "ellipsis", "drawing", "done"}
  /\ pos \in Nat /\ stop \in Nat
  /\ cur \in Spans /\ width \in Nat /\ saw \in BOOLEAN
  /\ lines \in Seq(Spans)
  /\ stage \in {"fitting", "ellipsis", "drawing"} => lines # << >>
  /\ row \in 0..Len(lines)
  /\ stage \notin {"drawing", "texts", "done"} => row = 0
  /\ drawn \in Seq([text: 1..Len(job), line: Spans, y: Int, ink: {"stroke", "fill"}])

\* "a layout that fits by this measure will not overflow" (text.rs:65-67): no
\* line is wider than the box, its ellipsis included, but a single glyph and an
\* ellipsis alone.
LinesFit ==
  nth > 0 /\ Wraps(text) =>
    \A n \in 1..Len(lines) :
      LET l == lines[n]
          wide == Advance(text, l.first, l.last) + IF l.dots THEN text.dots ELSE 0
      IN  wide <= text.w \/ (IF l.dots THEN Empty(l) ELSE l.first = l.last)

\* Nothing but spaces and one '\n' lies between characters i and k.
Breaks(t, i, k) ==
  /\ i < k
  /\ \A m \in (i + 1)..(k - 1) : t.chars[m] # "ink"
  /\ \A m, n \in (i + 1)..(k - 1) : t.chars[m] = "newline" /\ t.chars[n] = "newline" => m = n

\* The text ends with the last line, or behind it where the box is full.
Covered(t) ==
  IF LastLine.dots THEN Len(lines) = MaxLines(t) /\ LastLine.last < Count(t)
  ELSE ~TooMany(t, Len(lines)) /\ Spaces(t, LastLine.last + 1, Count(t))

\* Lines show the whole text in order, blank lines included, or end with an
\* ellipsis that stands for what is left of it; and an ellipsis is set only
\* where the box is full and something is left.
NothingLost ==
  stage = "drawing" =>
    /\ Breaks(text, 0, lines[1].first)
    /\ \A n \in 1..(Len(lines) - 1) :
         ~lines[n].dots /\ Breaks(text, lines[n].last, lines[n + 1].first)
    /\ Covered(text)

\* Line l had to end before the next one began at i.
Forced(t, l, i) ==
  Spaces(t, l.last + 1, i - 1) =>
    IF i = l.last + 1
    THEN Inked(t, l.first, l.last) /\ Advance(t, l.first, i) > t.w
    ELSE \A k \in i..Count(t) : IsWord(t, i, k) => Advance(t, l.first, k) > t.w

\* "greedily word-wrapped (long words are broken across lines)" (text.rs:143):
\* a line breaks within a paragraph only where the next word would not fit
\* behind it, and within a word only if the word is all the line holds and not
\* one more glyph fits.
BreaksForced ==
  nth > 0 /\ Wraps(text) =>
    \A n \in 1..(Len(lines) - 1) : Forced(text, lines[n], lines[n + 1].first)

\* The two cuts to max_text_length never meet: what wrapping made of the cut
\* text is drawn in full, the ellipsis included.
DrawnWhole == stage = "drawing" => \A n \in 1..Len(lines) : Shown(lines[n]) = lines[n]

\* A box at least one line high holds every baseline, and they go down the box.
Fits(t) == t.y >= -Half /\ t.y + t.size + MaxOf(2 * t.size, 2) * (Count(t) + 1) < Half

BaselinesInBox ==
  \A n \in 1..Len(drawn) :
    LET t == job[drawn[n].text]
    IN  Fits(t) =>
          /\ t.y + t.size <= drawn[n].y
          /\ MaxLines(t) # None /\ 6 * t.size <= 5 * t.h => drawn[n].y <= t.y + t.h
          /\ \A m \in 1..(n - 1) : drawn[m].text = drawn[n].text => drawn[m].y <= drawn[n].y

\* The inductive invariant.  A line lies in the text and in the box,
Held(t, l) ==
  /\ l.first - 1 <= l.last /\ l.last <= Count(t)
  /\ Wraps(t) => Advance(t, l.first, l.last) <= t.w \/ l.first = l.last

\* is followed by one that begins at i,
Follows(t, l, i) ==
  /\ ~l.dots
  /\ l.last < Count(t)
  /\ Breaks(t, l.last, i)
  /\ Wraps(t) => Forced(t, l, i)

\* and so are all lines of ls;
Chained(t, ls) ==
  /\ ls # << >> => Breaks(t, 0, ls[1].first)
  /\ \A n \in 1..Len(ls) : Held(t, ls[n]) /\ n <= ls[n].first
  /\ \A n \in 1..(Len(ls) - 1) : Follows(t, ls[n], ls[n + 1].first)

\* the line being filled follows them and ends where reading has come to;
Filling(t) ==
  /\ lines = << >> => Breaks(t, 0, cur.first)
  /\ lines # << >> => Follows(t, LastLine, cur.first)
  /\ Len(lines) < cur.first
  /\ pos <= Count(t) + 1 /\ cur.last = pos - 1 /\ cur.first <= pos /\ ~cur.dots
  /\ Wraps(t) =>
       /\ width = Advance(t, cur.first, cur.last)
       /\ ~Empty(cur) => width <= t.w \/ cur.first = cur.last

\* between words it ends with one, or a paragraph begins,
BetweenWords(t) ==
  /\ Empty(cur) <=> ~saw
  /\ Empty(cur) /\ lines # << >> => LastLine.last < pos - 1 /\ t.chars[pos - 1] = "newline"
  /\ ~Empty(cur) => Wraps(t) /\ t.chars[pos - 1] = "ink" /\ (pos <= Count(t) => t.chars[pos] # "ink")

\* and inside a word it holds nothing else;
InsideWord(t) ==
  /\ Wraps(t) /\ saw
  /\ pos <= stop /\ stop <= Count(t)
  /\ Inked(t, cur.first, stop)
  /\ stop < Count(t) => t.chars[stop + 1] # "ink"

\* a line with an ellipsis is short enough for it;
Dotted(t, l) == Wraps(t) => Empty(l) \/ Advance(t, l.first, l.last) + t.dots <= t.w

\* and the text is covered once it is laid out.
LinesAgree ==
  \/ nth = 0 /\ lines = << >> /\ stage \in {"texts", "done"}
  \/ /\ nth > 0
     /\ Chained(text, lines)
     /\ stage = "paragraph" => Filling(text) /\ BetweenWords(text)
     /\ stage = "breaking" => Filling(text) /\ InsideWord(text)
     /\ stage \in {"fitting", "ellipsis"} => ~LastLine.dots
     /\ stage = "fitting" /\ ~TooMany(text, Len(lines)) => Covered(text)
     /\ stage = "drawing" => Covered(text)
     /\ stage = "ellipsis" => Len(lines) = MaxLines(text) /\ LastLine.last < Count(text)
     /\ lines # << >> /\ LastLine.dots => Dotted(text, LastLine)

IInv == job \in Jobs /\ TypeOK /\ LinesAgree

\* Of the text being laid out nothing is drawn before its turn, and then nothing
\* below where the next line goes.
DrawnAgree ==
  \A n \in 1..Len(drawn) :
    /\ drawn[n].text <= nth
    /\ drawn[n].text = nth /\ stage \notin {"texts", "done"} =>
         /\ stage = "drawing"
         /\ Fits(text) => \A y \in Baselines(text, row) : drawn[n].y <= y

\* What is left to do for the text: first in stages,
Ahead(s) ==
  CASE s \in {"paragraph", "breaking"} -> 5
    [] s = "fitting" -> 4 [] s = "ellipsis" -> 3 [] s = "drawing" -> 2
    [] s = "texts" -> 1 [] s = "done" -> 0

\* and then in the stage: characters to read, a word to break counting once
\* more, characters an ellipsis may take the place of, lines to draw.
Left ==
  CASE stage = "paragraph" -> 2 * (Count(text) + 2 - pos) + 1
    [] stage = "breaking" -> 2 * (Count(text) + 2 - pos)
    [] stage = "ellipsis" -> LastLine.last
    [] stage = "drawing" -> Len(lines) - row
    [] OTHER -> 0

Progressed ==
  \/ nth' > nth
  \/ nth' = nth /\ Ahead(stage') < Ahead(stage)
  \/ nth' = nth /\ Ahead(stage') = Ahead(stage) /\ Left' < Left

\* "so progress is always made even when a glyph alone exceeds the width"
\* (text.rs:295): no step goes back to an earlier text or stage, and within a
\* stage each leaves less to do, a natural number.
MakesProgress == [][Progressed /\ Left \in Nat]_vars

\* So layout comes to an end.
EndsLayout == <>(stage = "done")
=============================================================================
