--------------------------- MODULE TextWrapProofs ---------------------------
(***************************************************************************)
(* Proofs about TextWrap, for every text, font and box.                    *)
(***************************************************************************)
EXTENDS TextWrap, SequenceTheorems, FiniteSetTheorems, TLAPS

-----------------------------------------------------------------------------
(* Measures.                                                               *)

LEMMA CountType ==
  ASSUME NEW t, IsText(t)
  PROVE  /\ Count(t) \in Nat /\ Count(t) <= Len(t.chars) /\ Count(t) <= Limit
         /\ Len(t.chars) \in Nat
BY LimitAssumption DEF IsText, Count, MinOf

\* A span has a width, and a longer one is not narrower.
LEMMA AdvanceGrows ==
  ASSUME NEW t, IsText(t), IsMeasured(t),
         NEW h \in Nat \ {0}, NEW i \in Nat \ {0}, NEW k \in Nat,
         h <= i, i - 1 <= k, k <= Count(t)
  PROVE  /\ Advance(t, i, k) \in Nat
         /\ Advance(t, h, k) \in Nat
         /\ Advance(t, i, k) <= Advance(t, h, k)
<1>1. i - 1 \in 0..Len(t.chars) /\ h - 1 \in 0..Len(t.chars) /\ k \in 0..Len(t.chars)
  BY CountType
<1>2. t.offset[i - 1] \in Nat /\ t.offset[h - 1] \in Nat /\ t.offset[k] \in Nat
  BY <1>1 DEF IsText
<1>3. t.offset[h - 1] <= t.offset[i - 1] /\ t.offset[i - 1] <= t.offset[k]
  BY <1>1 DEF IsMeasured
<1> QED BY <1>2, <1>3 DEF Advance

LEMMA AdvanceShrinks ==
  ASSUME NEW t, IsText(t), IsMeasured(t),
         NEW i \in Nat \ {0}, NEW j \in Nat, NEW k \in Nat,
         i - 1 <= j, j <= k, k <= Count(t)
  PROVE  /\ Advance(t, i, j) \in Nat
         /\ Advance(t, i, k) \in Nat
         /\ Advance(t, i, j) <= Advance(t, i, k)
<1>1. i - 1 \in 0..Len(t.chars) /\ j \in 0..Len(t.chars) /\ k \in 0..Len(t.chars)
  BY CountType
<1>2. t.offset[i - 1] \in Nat /\ t.offset[j] \in Nat /\ t.offset[k] \in Nat
  BY <1>1 DEF IsText
<1>3. t.offset[j] <= t.offset[k] /\ t.offset[i - 1] <= t.offset[j]
  BY <1>1 DEF IsMeasured
<1> QED BY <1>2, <1>3 DEF Advance

LEMMA AdvanceNone ==
  ASSUME NEW t, IsText(t), NEW i \in Nat \ {0}, i - 1 <= Count(t)
  PROVE  Advance(t, i, i - 1) = 0
<1>1. i - 1 \in 0..Len(t.chars)
  BY CountType
<1>2. t.offset[i - 1] \in Nat
  BY <1>1 DEF IsText
<1> QED BY <1>2 DEF Advance

\* The width of a line is the sum of the widths of its pieces ...
LEMMA AdvanceAdds ==
  ASSUME NEW t, IsText(t), NEW i \in Nat \ {0}, NEW j \in Nat, NEW k \in Nat,
         i - 1 <= j, j <= k, k <= Count(t)
  PROVE  Advance(t, i, k) = Advance(t, i, j) + Advance(t, j + 1, k)
<1>1. i - 1 \in 0..Len(t.chars) /\ j \in 0..Len(t.chars) /\ k \in 0..Len(t.chars)
  BY CountType
<1>2. t.offset[i - 1] \in Nat /\ t.offset[j] \in Nat /\ t.offset[k] \in Nat
  BY <1>1 DEF IsText
<1>3. (j + 1) - 1 = j
  OBVIOUS
<1> QED BY <1>2, <1>3 DEF Advance

\* ... and one ' ' for the spaces between two words.
LEMMA AdvanceJoins ==
  ASSUME NEW t, IsText(t), IsMeasured(t),
         NEW f \in Nat \ {0}, NEW p \in Nat \ {0}, NEW i \in Nat, NEW k \in Nat,
         f < p, p < i, i <= k, k <= Count(t),
         t.chars[p - 1] = "ink", Spaces(t, p, i - 1)
  PROVE  Advance(t, f, k) = Advance(t, f, p - 1) + t.space + Advance(t, i, k)
<1>1. f - 1 \in 0..Len(t.chars) /\ p - 1 \in 1..Len(t.chars) /\ i \in 1..Len(t.chars)
      /\ i - 1 \in 0..Len(t.chars) /\ k \in 0..Len(t.chars)
  BY CountType
<1>2. t.offset[f - 1] \in Nat /\ t.offset[p - 1] \in Nat /\ t.offset[i - 1] \in Nat
      /\ t.offset[k] \in Nat /\ t.space \in Nat
  <2>1. t.offset \in [0..Len(t.chars) -> Nat] /\ t.space \in Nat
    BY DEF IsText
  <2>2. p - 1 \in 0..Len(t.chars)
    BY <1>1
  <2> QED BY <1>1, <2>1, <2>2
<1>3. (p - 1) + 1 = p
  OBVIOUS
<1>4. t.offset[i - 1] = t.offset[p - 1] + t.space
  BY <1>1, <1>3 DEF IsMeasured
<1> QED BY <1>2, <1>4 DEF Advance

\* A box has room for at least a line.
LEMMA MaxLinesType ==
  ASSUME NEW t, IsText(t)
  PROVE  MaxLines(t) = None \/ (MaxLines(t) \in Nat /\ MaxLines(t) >= 1)
<1>1. CASE t.h \in {None, 0} \/ t.size = 0
  BY <1>1 DEF MaxLines
<1>2. CASE ~(t.h \in {None, 0} \/ t.size = 0)
  <2>1. t.h \in Nat /\ t.size \in Nat /\ 6 * t.size > 0
    BY <1>2 DEF IsText
  <2>2. (5 * t.h) \div (6 * t.size) \in Int
    BY <2>1
  <2>3. MaxLines(t) = MaxOf((5 * t.h) \div (6 * t.size), 1)
    BY <1>2 DEF MaxLines
  <2> QED BY <2>2, <2>3 DEF MaxOf
<1> QED BY <1>1, <1>2

-----------------------------------------------------------------------------
(* Where lines break.                                                      *)

LEMMA BreaksLater ==
  ASSUME NEW t, NEW a \in Nat, NEW b \in Nat, NEW c \in Nat,
         Breaks(t, a, b), b <= c, Spaces(t, b, c - 1)
  PROVE  Breaks(t, a, c)
<1>1. a < c
  BY DEF Breaks
<1>2. \A m \in (a + 1)..(c - 1) : m \in (a + 1)..(b - 1) \/ m \in b..(c - 1)
  OBVIOUS
<1>3. \A m \in b..(c - 1) : t.chars[m] = "space"
  BY DEF Spaces
<1> QED BY <1>1, <1>2, <1>3 DEF Breaks

\* Spaces and then the end of the paragraph.
LEMMA BreaksAtEnd ==
  ASSUME NEW t, NEW a \in Nat, NEW e \in Nat, a < e,
         Spaces(t, a + 1, e - 1), t.chars[e] = "newline"
  PROVE  Breaks(t, a, e + 1)
<1>1. \A m \in (a + 1)..((e + 1) - 1) : m \in (a + 1)..(e - 1) \/ m = e
  OBVIOUS
<1>2. \A m \in (a + 1)..(e - 1) : t.chars[m] = "space"
  BY DEF Spaces
<1> QED BY <1>1, <1>2 DEF Breaks

\* No line is joined over the end of a paragraph.
LEMMA ForcedByEnd ==
  ASSUME NEW t, NEW l \in Spans, NEW i \in Nat, NEW m \in Nat,
         l.last < m, m < i, t.chars[m] = "newline"
  PROVE  Forced(t, l, i)
<1>1. m \in (l.last + 1)..(i - 1)
  BY DEF Spans
<1> QED BY <1>1 DEF Forced, Spaces

LEMMA WordsAgree ==
  ASSUME NEW t, NEW i \in Nat, NEW k \in Nat, NEW n \in Nat, Count(t) \in Nat,
         IsWord(t, i, k), IsWord(t, i, n)
  PROVE  n = k
<1>1. ~(n < k)
  <2> SUFFICES ASSUME n < k PROVE FALSE
    OBVIOUS
  <2>1. n + 1 \in i..k /\ n < Count(t)
    BY DEF IsWord
  <2> QED BY <2>1 DEF IsWord, Inked
<1>2. ~(k < n)
  <2> SUFFICES ASSUME k < n PROVE FALSE
    OBVIOUS
  <2>1. k + 1 \in i..n /\ k < Count(t)
    BY DEF IsWord
  <2> QED BY <2>1 DEF IsWord, Inked
<1> QED BY <1>1, <1>2

-----------------------------------------------------------------------------
(* Chains of lines.                                                        *)

LEMMA ChainGrows ==
  ASSUME NEW t, NEW ls \in Seq(Spans), NEW l \in Spans,
         Chained(t, ls), Held(t, l), Len(ls) < l.first,
         ls = << >> => Breaks(t, 0, l.first),
         ls # << >> => Follows(t, ls[Len(ls)], l.first)
  PROVE  Chained(t, Append(ls, l))
<1> DEFINE new == Append(ls, l)
<1>1. /\ new \in Seq(Spans) /\ Len(new) = Len(ls) + 1 /\ new[Len(ls) + 1] = l
      /\ \A n \in 1..Len(ls) : new[n] = ls[n]
  OBVIOUS
<1>2. Len(ls) \in Nat /\ l.first \in Nat
  BY DEF Spans
<1>3. Breaks(t, 0, new[1].first)
  <2>1. CASE ls = << >>
    BY <2>1, <1>1
  <2>2. CASE ls # << >>
    <3>1. 1 \in 1..Len(ls)
      BY <2>2, <1>2
    <3> QED BY <2>2, <3>1, <1>1 DEF Chained
  <2> QED BY <2>1, <2>2
<1>4. ASSUME NEW n \in 1..Len(new) PROVE Held(t, new[n]) /\ n <= new[n].first
  <2>1. CASE n \in 1..Len(ls)
    BY <2>1, <1>1 DEF Chained
  <2>2. CASE n = Len(ls) + 1
    BY <2>2, <1>1, <1>2
  <2> QED BY <2>1, <2>2, <1>1, <1>2
<1>5. ASSUME NEW n \in 1..(Len(new) - 1) PROVE Follows(t, new[n], new[n + 1].first)
  <2>1. CASE n \in 1..(Len(ls) - 1)
    <3>1. n \in 1..Len(ls) /\ n + 1 \in 1..Len(ls)
      BY <2>1, <1>2
    <3>2. Follows(t, ls[n], ls[n + 1].first)
      BY <2>1 DEF Chained
    <3> QED BY <3>1, <3>2, <1>1
  <2>2. CASE n = Len(ls)
    <3>1. ls # << >> /\ n \in 1..Len(ls)
      BY <2>2, <1>2, <1>1
    <3> QED BY <2>2, <3>1, <1>1
  <2> QED BY <2>1, <2>2, <1>1, <1>2
<1> QED BY <1>3, <1>4, <1>5 DEF Chained

\* The last line may get shorter.
LEMMA ChainEnds ==
  ASSUME NEW t, NEW ls \in Seq(Spans), NEW l \in Spans, ls # << >>,
         Chained(t, ls), Held(t, l), l.first = ls[Len(ls)].first
  PROVE  /\ [ls EXCEPT ![Len(ls)] = l] \in Seq(Spans)
         /\ Len([ls EXCEPT ![Len(ls)] = l]) = Len(ls)
         /\ [ls EXCEPT ![Len(ls)] = l][Len(ls)] = l
         /\ Chained(t, [ls EXCEPT ![Len(ls)] = l])
<1> DEFINE new == [ls EXCEPT ![Len(ls)] = l]
<1>1. Len(ls) \in 1..Len(ls) /\ Len(ls) \in Nat
  OBVIOUS
<1>2. /\ new \in Seq(Spans) /\ Len(new) = Len(ls) /\ new[Len(ls)] = l
      /\ \A n \in 1..Len(ls) : n # Len(ls) => new[n] = ls[n]
  BY <1>1
<1>3. \A n \in 1..Len(ls) : new[n].first = ls[n].first
  BY <1>2
<1> HIDE DEF new
<1>5. Breaks(t, 0, new[1].first)
  <2>1. 1 \in 1..Len(ls)
    BY <1>1
  <2> QED BY <2>1, <1>3 DEF Chained
<1>6. ASSUME NEW n \in 1..Len(new) PROVE Held(t, new[n]) /\ n <= new[n].first
  <2>1. n \in 1..Len(ls)
    BY <1>2
  <2>2. n <= new[n].first
    BY <2>1, <1>3 DEF Chained
  <2>3. Held(t, new[n])
    BY <2>1, <1>2 DEF Chained
  <2> QED BY <2>2, <2>3
<1>7. ASSUME NEW n \in 1..(Len(new) - 1) PROVE Follows(t, new[n], new[n + 1].first)
  <2>1. n \in 1..(Len(ls) - 1) /\ n \in 1..Len(ls) /\ n + 1 \in 1..Len(ls) /\ n # Len(ls)
    BY <1>2, <1>1
  <2>2. Follows(t, ls[n], ls[n + 1].first)
    BY <2>1 DEF Chained
  <2> QED BY <2>1, <2>2, <1>2, <1>3
<1>8. Chained(t, new)
  BY <1>5, <1>6, <1>7 DEF Chained
<1> QED BY <1>2, <1>8 DEF new

LEMMA ChainCut ==
  ASSUME NEW t, NEW ls \in Seq(Spans), Chained(t, ls), NEW n \in Nat, 1 <= n, n < Len(ls)
  PROVE  /\ SubSeq(ls, 1, n) \in Seq(Spans)
         /\ Len(SubSeq(ls, 1, n)) = n
         /\ SubSeq(ls, 1, n)[n] = ls[n]
         /\ Chained(t, SubSeq(ls, 1, n))
         /\ Follows(t, ls[n], ls[n + 1].first)
<1> DEFINE new == SubSeq(ls, 1, n)
<1>1. Len(ls) \in Nat
  OBVIOUS
<1>2. /\ new \in Seq(Spans) /\ Len(new) = n
      /\ \A m \in 1..n : new[m] = ls[m]
  BY <1>1
<1>3. Breaks(t, 0, new[1].first)
  <2>1. 1 \in 1..n /\ ls # << >>
    BY <1>1
  <2> QED BY <2>1, <1>2 DEF Chained
<1>4. ASSUME NEW m \in 1..Len(new) PROVE Held(t, new[m]) /\ m <= new[m].first
  <2>1. m \in 1..n /\ m \in 1..Len(ls)
    BY <1>1, <1>2
  <2> QED BY <2>1, <1>2 DEF Chained
<1>5. ASSUME NEW m \in 1..(Len(new) - 1) PROVE Follows(t, new[m], new[m + 1].first)
  <2>1. m \in 1..(Len(ls) - 1) /\ m \in 1..n /\ m + 1 \in 1..n
    BY <1>1, <1>2
  <2>2. Follows(t, ls[m], ls[m + 1].first)
    BY <2>1 DEF Chained
  <2> QED BY <2>1, <2>2, <1>2
<1>6. n \in 1..(Len(ls) - 1) /\ n \in 1..n
  BY <1>1
<1>7. Follows(t, ls[n], ls[n + 1].first)
  BY <1>6 DEF Chained
<1>8. Chained(t, new)
  BY <1>2, <1>3, <1>4, <1>5 DEF Chained
<1> QED BY <1>2, <1>6, <1>7, <1>8

-----------------------------------------------------------------------------
(* The invariant.                                                          *)

LEMMA TextKnown ==
  ASSUME IInv, nth > 0
  PROVE  /\ IsText(text) /\ IsMeasured(text)
         /\ Count(text) \in Nat
         /\ Chained(text, lines)
         /\ Wraps(text) => text.w \in Nat
<1>1. nth \in 1..Len(job) /\ job \in Jobs
  <2>1. Len(job) \in Nat /\ job \in Jobs
    BY JobAssumption DEF IInv
  <2> QED BY <2>1 DEF IInv, TypeOK
<1>2. IsText(text) /\ IsMeasured(text)
  BY <1>1, JobAssumption DEF text
<1>3. Count(text) \in Nat
  BY <1>2, CountType
<1>4. Chained(text, lines)
  BY DEF IInv, LinesAgree
<1>5. Wraps(text) => text.w \in Nat
  BY <1>2 DEF IsText, Wraps
<1> QED BY <1>2, <1>3, <1>4, <1>5

LEMMA Started ==
  ASSUME IInv, stage \notin {"texts", "done"}
  PROVE  nth > 0
BY DEF IInv, LinesAgree

\* Reading a paragraph: cur ends where reading has come to.
LEMMA Reading ==
  ASSUME IInv, stage \in {"paragraph", "breaking"}
  PROVE  /\ pos \in Nat \ {0} /\ cur \in Spans /\ lines \in Seq(Spans) /\ Len(lines) \in Nat
         /\ cur.first \in Nat \ {0} /\ cur.last \in Nat
         /\ Filling(text)
         /\ cur.last = pos - 1 /\ cur.first <= pos /\ pos <= Count(text) + 1
<1>1. Filling(text)
  BY DEF IInv, LinesAgree
<1>2. pos \in Nat /\ cur \in Spans /\ lines \in Seq(Spans)
  BY DEF IInv, TypeOK
<1>3. cur.first \in Nat \ {0} /\ cur.last \in Nat
  BY <1>2 DEF Spans
<1>4. cur.last = pos - 1 /\ cur.first <= pos /\ pos <= Count(text) + 1
  BY <1>1 DEF Filling
<1> QED BY <1>1, <1>2, <1>3, <1>4

\* The line being filled lies in the text and in the box.
LEMMA FillingHeld ==
  ASSUME IInv, stage \in {"paragraph", "breaking"}
  PROVE  Held(text, cur)
<1>1. /\ cur.first \in Nat \ {0} /\ cur.last \in Nat /\ Filling(text) /\ pos \in Nat \ {0}
      /\ cur.last = pos - 1 /\ cur.first <= pos /\ pos <= Count(text) + 1
  BY Reading
<1>2. IsText(text) /\ IsMeasured(text) /\ Count(text) \in Nat /\ (Wraps(text) => text.w \in Nat)
  BY Started, TextKnown
<1>3. cur.first - 1 <= cur.last /\ cur.last <= Count(text)
  BY <1>1, <1>2
<1>4. ASSUME Wraps(text) PROVE Advance(text, cur.first, cur.last) <= text.w \/ cur.first = cur.last
  <2>1. width = Advance(text, cur.first, cur.last)
    BY <1>1, <1>4 DEF Filling
  <2>2. CASE Empty(cur)
    <3>1. cur.last = cur.first - 1
      BY <2>2, <1>1, <1>3 DEF Empty
    <3>2. Advance(text, cur.first, cur.first - 1) = 0
      BY <1>1, <1>2, <1>3, <3>1, AdvanceNone
    <3> QED BY <3>1, <3>2, <1>2, <1>4
  <2>3. CASE ~Empty(cur)
    BY <2>1, <2>3, <1>1, <1>4 DEF Filling
  <2> QED BY <2>2, <2>3
<1> QED BY <1>3, <1>4 DEF Held

\* A paragraph ends: its last line l, up to spaces before e, is appended.
LEMMA Closing ==
  ASSUME IInv, stage = "paragraph",
         NEW l \in Spans, l.first = cur.first, ~l.dots, Held(text, l),
         NEW e \in Nat, pos <= e, Ends(text, e),
         pos - 1 <= l.last, l.last < e, Spaces(text, l.last + 1, e - 1),
         lines' = Append(lines, l), Leave(e)
  PROVE  IInv'
<1>1. /\ cur.first \in Nat \ {0} /\ cur.last \in Nat /\ Filling(text) /\ pos \in Nat \ {0}
      /\ cur.last = pos - 1 /\ cur.first <= pos /\ pos <= Count(text) + 1
      /\ lines \in Seq(Spans) /\ Len(lines) \in Nat
  BY Reading
<1>2. nth > 0
  BY Started
<1>3. IsText(text) /\ IsMeasured(text) /\ Count(text) \in Nat /\ Chained(text, lines)
  BY <1>2, TextKnown
<1>4. l.first \in Nat \ {0} /\ l.last \in Nat
  BY DEF Spans
<1>5. UNCHANGED <<job, nth, stop, row, drawn>> /\ text' = text
  BY DEF Leave, text
<1>6. Chained(text, lines')
  <2>1. lines = << >> => Breaks(text, 0, l.first)
    BY <1>1 DEF Filling
  <2>2. lines # << >> => Follows(text, lines[Len(lines)], l.first)
    BY <1>1 DEF Filling, LastLine
  <2>3. Len(lines) < l.first
    BY <1>1 DEF Filling
  <2> QED BY <2>1, <2>2, <2>3, <1>1, <1>3, ChainGrows
<1>7. /\ lines' \in Seq(Spans) /\ Len(lines') = Len(lines) + 1 /\ LastLine' = l
      /\ lines' # << >>
  BY <1>1 DEF LastLine
<1>8. BlankAt(e + 1) \in Spans /\ BlankAt(e + 1) = [first |-> e + 1, last |-> e, dots |-> FALSE]
  <2>1. (e + 1) - 1 = e
    OBVIOUS
  <2> QED BY <2>1 DEF BlankAt, Line, Spans
<1>9. TypeOK'
  <2>1. row' \in 0..Len(lines') /\ row' = 0
    <3>1. row \in 0..Len(lines) /\ row = 0
      BY DEF IInv, TypeOK
    <3> QED BY <3>1, <1>5, <1>7
  <2>2. stage' = "paragraph" \/ stage' = "fitting"
    BY DEF Leave
  <2>3. pos' = e + 1 /\ width' = 0 /\ cur' = BlankAt(e + 1) /\ saw' = FALSE
    BY DEF Leave
  <2>4. pos' \in Nat /\ width' \in Nat /\ cur' \in Spans
    BY <2>3, <1>8
  <2>5. saw' \in BOOLEAN
    BY <2>3
  <2> QED BY <2>1, <2>2, <2>4, <2>5, <1>5, <1>7 DEF IInv, TypeOK
<1>10. ASSUME e # Count(text) + 1
       PROVE  /\ e \in 1..Count(text) /\ text.chars[e] = "newline"
              /\ Follows(text, l, e + 1)
  <2>1. e \in 1..Count(text) /\ text.chars[e] = "newline"
    BY <1>10 DEF Ends
  <2>2. Breaks(text, l.last, e + 1)
    BY <2>1, <1>4, BreaksAtEnd
  <2>3. Forced(text, l, e + 1)
    <3>1. e + 1 \in Nat /\ e < e + 1
      OBVIOUS
    <3>2. text.chars[e] = "newline"
      BY <2>1
    <3> QED BY ONLY <3>1, <3>2, l \in Spans, e \in Nat, l.last < e, ForcedByEnd
  <2>4. l.last < Count(text)
    BY <2>1, <1>3, <1>4
  <2> QED BY <2>1, <2>2, <2>3, <2>4 DEF Follows
<1>11. ASSUME stage' = "paragraph" PROVE Filling(text)' /\ BetweenWords(text)'
  <2>1. e # Count(text) + 1
    BY <1>11 DEF Leave
  <2>2. /\ pos' = e + 1 /\ cur'.first = e + 1 /\ cur'.last = e /\ ~cur'.dots
        /\ width' = 0 /\ ~saw'
    BY <1>8 DEF Leave
  <2>3. e \in 1..Count(text) /\ text.chars[e] = "newline" /\ Follows(text, l, e + 1)
    BY <2>1, <1>10
  <2>4. Advance(text, e + 1, e) = 0
    <3>1. (e + 1) - 1 = e
      OBVIOUS
    <3> QED BY <3>1, <2>3, <1>3, AdvanceNone
  <2>5. Empty(cur)'
    BY <2>2 DEF Empty
  <2>6. Len(lines') < e + 1
    <3>1. Len(lines) < cur.first
      BY <1>1 DEF Filling
    <3> QED BY <3>1, <1>1, <1>7
  <2>7. Filling(text)'
    BY <2>2, <2>3, <2>4, <2>5, <2>6, <1>3, <1>5, <1>7 DEF Filling
  <2>8. LastLine'.last < pos' - 1 /\ pos' - 1 = e
    BY <2>2, <1>7, <1>4
  <2>9. BetweenWords(text)'
    BY <2>2, <2>3, <2>5, <2>8, <1>5 DEF BetweenWords
  <2> QED BY <2>7, <2>9
<1>12. ASSUME stage' = "fitting", ~TooMany(text, Len(lines'))
       PROVE  Covered(text)'
  <2>1. e = Count(text) + 1
    BY <1>12 DEF Leave
  <2>2. e - 1 = Count(text)
    BY <2>1, <1>3
  <2> QED BY <2>2, <1>5, <1>7, <1>12 DEF Covered, TooMany
<1>13. stage' = "paragraph" \/ stage' = "fitting"
  BY DEF Leave
<1>14. LinesAgree'
  <2> USE <1>2, <1>5, <1>6, <1>7, <1>13
  <2>1. nth' > 0 /\ Chained(text', lines') /\ ~LastLine'.dots
    OBVIOUS
  <2>2. stage' = "paragraph" => (Filling(text) /\ BetweenWords(text))'
    BY <1>11
  <2>3. (stage = "fitting" /\ ~TooMany(text, Len(lines)) => Covered(text))'
    BY <1>12
  <2> QED BY <2>1, <2>2, <2>3 DEF LinesAgree
<1> QED BY <1>5, <1>9, <1>14 DEF IInv

LEMMA VerbatimKeeps ==
  ASSUME IInv, NEW e \in Nat, Verbatim(e)
  PROVE  IInv'
<1>1. stage = "paragraph" /\ ~Wraps(text) /\ pos <= e /\ Ends(text, e)
      /\ lines' = Append(lines, Line(pos, e - 1)) /\ Leave(e)
  BY DEF Verbatim
<1>2. /\ cur.first \in Nat \ {0} /\ cur.last \in Nat /\ pos \in Nat \ {0}
      /\ cur.last = pos - 1 /\ cur.first <= pos
  BY <1>1, Reading
<1>3. Count(text) \in Nat
  BY <1>1, Started, TextKnown
<1>4. cur.first = pos
  <2>1. Empty(cur)
    BY <1>1 DEF IInv, LinesAgree, BetweenWords
  <2> QED BY <2>1, <1>2 DEF Empty
<1>5. e - 1 \in Nat
  BY <1>1, <1>2
<1>6. Line(pos, e - 1) \in Spans /\ Line(pos, e - 1) = [first |-> pos, last |-> e - 1, dots |-> FALSE]
  BY <1>2, <1>5 DEF Line, Spans
<1>7. e <= Count(text) + 1
  BY <1>1, <1>3 DEF Ends
<1>8. Held(text, Line(pos, e - 1))
  BY <1>1, <1>2, <1>3, <1>6, <1>7 DEF Held
<1>9. Spaces(text, (e - 1) + 1, e - 1)
  BY DEF Spaces
<1> QED BY <1>1, <1>2, <1>4, <1>5, <1>6, <1>8, <1>9, Closing

LEMMA EndParagraphKeeps ==
  ASSUME IInv, NEW e \in Nat, EndParagraph(e)
  PROVE  IInv'
<1>1. stage = "paragraph" /\ pos <= e /\ Spaces(text, pos, e - 1) /\ Ends(text, e) /\ Leave(e)
  BY DEF EndParagraph
<1>2. /\ cur \in Spans /\ cur.last \in Nat /\ pos \in Nat \ {0} /\ cur.last = pos - 1
      /\ Filling(text)
  BY <1>1, Reading
<1>3. lines' = Append(lines, cur)
  <2>1. Empty(cur) <=> ~saw
    BY <1>1 DEF IInv, LinesAgree, BetweenWords
  <2> QED BY <2>1 DEF EndParagraph
<1>4. Held(text, cur)
  BY <1>1, FillingHeld
<1>5. ~cur.dots
  BY <1>2 DEF Filling
<1>6. cur.last + 1 = pos /\ cur.last < e /\ pos - 1 <= cur.last
  BY <1>1, <1>2
<1> QED BY <1>1, <1>2, <1>3, <1>4, <1>5, <1>6, Closing

\* A word to be read: the place of a word behind cur.
LEMMA NextWord ==
  ASSUME IInv, NEW i \in Nat, NEW k \in Nat, ReadsWord(i, k)
  PROVE  /\ stage = "paragraph" /\ Wraps(text) /\ saw \in BOOLEAN
         /\ pos <= i /\ 1 <= i /\ i <= k /\ k <= Count(text)
         /\ Spaces(text, pos, i - 1) /\ Inked(text, i, k)
         /\ text.chars[i] = "ink" /\ text.chars[k] = "ink"
         /\ k < Count(text) => text.chars[k + 1] # "ink"
         /\ ~Empty(cur) => pos < i /\ text.chars[pos - 1] = "ink"
<1>1. stage = "paragraph" /\ Wraps(text) /\ pos <= i /\ Spaces(text, pos, i - 1) /\ IsWord(text, i, k)
  BY DEF ReadsWord
<1>2. 1 <= i /\ i <= k /\ k <= Count(text) /\ Inked(text, i, k)
      /\ (k < Count(text) => text.chars[k + 1] # "ink")
  BY <1>1 DEF IsWord
<1>3. i \in i..k /\ k \in i..k
  BY <1>2
<1>4. text.chars[i] = "ink" /\ text.chars[k] = "ink"
  BY <1>2, <1>3 DEF Inked
<1>5. BetweenWords(text)
  BY <1>1 DEF IInv, LinesAgree
<1>6. ASSUME ~Empty(cur) PROVE pos < i /\ text.chars[pos - 1] = "ink"
  <2>1. text.chars[pos - 1] = "ink" /\ (pos <= Count(text) => text.chars[pos] # "ink")
    BY <1>5, <1>6 DEF BetweenWords
  <2>2. pos \in Nat /\ Count(text) \in Nat
    BY <1>1, Reading, Started, TextKnown
  <2>3. pos # i
    BY <2>1, <2>2, <1>2, <1>4
  <2> QED BY <2>1, <2>2, <2>3, <1>1
<1>7. saw \in BOOLEAN
  BY DEF IInv, TypeOK
<1> QED BY <1>1, <1>2, <1>4, <1>6, <1>7

\* cur is pushed, and a line may begin at the next word, if that word does not
\* fit behind cur.
LEMMA Flushing ==
  ASSUME IInv, NEW i \in Nat, NEW k \in Nat, ReadsWord(i, k),
         ~Empty(cur) => Advance(text, cur.first, k) > text.w
  PROVE  /\ Flushed \in Seq(Spans) /\ Len(Flushed) < i /\ Len(Flushed) \in Nat
         /\ Chained(text, Flushed)
         /\ Flushed = << >> => Breaks(text, 0, i)
         /\ Flushed # << >> => Follows(text, Flushed[Len(Flushed)], i)
<1>1. /\ stage = "paragraph" /\ pos <= i /\ 1 <= i /\ i <= k /\ k <= Count(text)
      /\ Spaces(text, pos, i - 1) /\ Wraps(text)
      /\ (~Empty(cur) => pos < i)
  BY NextWord
<1>2. /\ pos \in Nat \ {0} /\ cur \in Spans /\ lines \in Seq(Spans) /\ Len(lines) \in Nat
      /\ cur.first \in Nat \ {0} /\ cur.last \in Nat /\ Filling(text)
      /\ cur.last = pos - 1 /\ cur.first <= pos /\ pos <= Count(text) + 1
  BY <1>1, Reading
<1>3. Count(text) \in Nat /\ Chained(text, lines)
  BY <1>1, Started, TextKnown
<1>4. Len(lines) < cur.first
  BY <1>2 DEF Filling
<1>5. BetweenWords(text)
  BY <1>1 DEF IInv, LinesAgree
<1>6. CASE Empty(cur)
  <2>1. Flushed = lines
    BY <1>6 DEF Flushed
  <2>2. cur.first = pos
    BY <1>6, <1>2 DEF Empty
  <2>3. ASSUME lines = << >> PROVE Breaks(text, 0, i)
    <3>1. Breaks(text, 0, pos)
      BY <2>2, <2>3, <1>2 DEF Filling
    <3> QED BY <3>1, <1>1, <1>2, BreaksLater
  <2>4. ASSUME lines # << >> PROVE Follows(text, LastLine, i)
    <3>1. Follows(text, LastLine, pos)
      BY <2>2, <2>4, <1>2 DEF Filling
    <3>2. LastLine \in Spans
      BY <2>4, <1>2 DEF LastLine
    <3>3. LastLine.last \in Nat
      BY <3>2 DEF Spans
    <3>4. LastLine.last < pos - 1 /\ text.chars[pos - 1] = "newline"
      BY <2>4, <1>5, <1>6 DEF BetweenWords
    <3>5. Breaks(text, LastLine.last, i)
      <4>1. Breaks(text, LastLine.last, pos)
        BY <3>1 DEF Follows
      <4> QED BY <4>1, <3>3, <1>1, <1>2, BreaksLater
    <3>6. Forced(text, LastLine, i)
      <4>1. pos - 1 \in Nat /\ pos - 1 < i
        BY <1>1, <1>2
      <4> QED BY ONLY <4>1, <3>2, <3>4, i \in Nat, ForcedByEnd
    <3> QED BY <3>1, <3>5, <3>6 DEF Follows
  <2> QED BY <2>1, <2>2, <2>3, <2>4, <1>1, <1>2, <1>3, <1>4 DEF LastLine
<1>7. CASE ~Empty(cur)
  <2>1. Flushed = Append(lines, cur)
    BY <1>7 DEF Flushed
  <2>2. /\ Flushed \in Seq(Spans) /\ Len(Flushed) = Len(lines) + 1
        /\ Flushed[Len(Flushed)] = cur /\ Flushed # << >>
    BY <2>1, <1>2
  <2>3. Chained(text, Flushed)
    <3>1. Held(text, cur)
      BY <1>1, FillingHeld
    <3>2. lines = << >> => Breaks(text, 0, cur.first)
      BY <1>2 DEF Filling
    <3>3. lines # << >> => Follows(text, lines[Len(lines)], cur.first)
      BY <1>2 DEF Filling, LastLine
    <3> QED BY <3>1, <3>2, <3>3, <2>1, <1>2, <1>3, <1>4, ChainGrows
  <2>4. Len(Flushed) < i
    BY <2>2, <1>1, <1>2, <1>4, <1>7
  <2>5. Follows(text, cur, i)
    <3>1. ~cur.dots
      BY <1>2 DEF Filling
    <3>2. cur.last < Count(text) /\ cur.last + 1 = pos /\ pos < i
      BY <1>1, <1>2, <1>3, <1>7
    <3>3. Breaks(text, cur.last, i)
      BY <3>2, <1>1, <1>2 DEF Breaks, Spaces
    <3>4. ASSUME NEW n \in i..Count(text), IsWord(text, i, n)
          PROVE  Advance(text, cur.first, n) > text.w
      <4>1. IsWord(text, i, k)
        BY DEF ReadsWord
      <4>2. n = k
        BY <4>1, <3>4, <1>3, WordsAgree
      <4> QED BY <4>2, <1>7
    <3>5. Forced(text, cur, i)
      BY <3>2, <3>4, <1>2 DEF Forced
    <3> QED BY <3>1, <3>2, <3>3, <3>5 DEF Follows
  <2> QED BY <2>2, <2>3, <2>4, <2>5, <1>2
<1> QED BY <1>6, <1>7

\* A line begins behind ls: cur is written from there on.
LEMMA Beginning ==
  ASSUME IInv, stage \in {"paragraph", "breaking"},
         NEW ls \in Seq(Spans), NEW c \in Spans, Len(ls) \in Nat,
         Len(ls) < c.first, Chained(text, ls),
         ls = << >> => Breaks(text, 0, c.first),
         ls # << >> => Follows(text, ls[Len(ls)], c.first),
         ~c.dots, pos' \in Nat, c.last = pos' - 1, c.first <= pos', pos' <= Count(text) + 1,
         width' = Advance(text, c.first, c.last),
         ~Empty(c) => width' <= text.w \/ c.first = c.last,
         lines' = ls, cur' = c,
         stage' \in {"paragraph", "breaking"},
         saw' \in BOOLEAN, stop' \in Nat, UNCHANGED <<job, nth, row, drawn>>
  PROVE  /\ TypeOK' /\ text' = text /\ Chained(text, lines)' /\ Filling(text)' /\ nth' > 0
         /\ (lines # << >> => ~LastLine.dots)'
<1>1. IsText(text) /\ IsMeasured(text) /\ Count(text) \in Nat /\ nth > 0
  BY Started, TextKnown
<1>2. text' = text
  BY DEF text
<1>3. width' \in Nat
  <2>1. c.last \in Nat /\ c.first \in Nat \ {0}
    BY DEF Spans
  <2>2. c.first - 1 <= c.last
    BY <2>1
  <2>3. c.last <= Count(text)
    BY <1>1
  <2>4. Advance(text, c.first, c.last) \in Nat
    BY <2>1, <2>2, <2>3, <1>1, AdvanceGrows
  <2> QED BY <2>4
<1>4. TypeOK'
  <2>1. row' \in 0..Len(lines') /\ row' = 0
    <3>1. row \in 0..Len(lines) /\ row = 0
      BY DEF IInv, TypeOK
    <3> QED BY <3>1
  <2> QED BY <2>1, <1>3 DEF IInv, TypeOK
<1>5. Filling(text)'
  <2>1. lines' # << >> => LastLine' = ls[Len(ls)]
    BY DEF LastLine
  <2>2. Empty(cur)' <=> Empty(c)
    BY DEF Empty
  <2> QED BY <2>1, <2>2, <1>2 DEF Filling
<1>6. (lines # << >> => ~LastLine.dots)'
  BY DEF LastLine, Follows
<1> QED BY <1>1, <1>2, <1>4, <1>5, <1>6

LEMMA LongWordKeeps ==
  ASSUME IInv, NEW i \in Nat, NEW k \in Nat, LongWord(i, k)
  PROVE  IInv'
<1>1. ReadsWord(i, k) /\ TooLong(i, k)
  BY DEF LongWord
<1>2. /\ stage = "paragraph" /\ Wraps(text) /\ pos <= i /\ 1 <= i /\ i <= k /\ k <= Count(text)
      /\ Inked(text, i, k) /\ (k < Count(text) => text.chars[k + 1] # "ink")
  BY <1>1, NextWord
<1>3. IsText(text) /\ IsMeasured(text) /\ Count(text) \in Nat /\ text.w \in Nat
  BY <1>2, Started, TextKnown
<1>4. /\ cur.first \in Nat \ {0} /\ cur.last \in Nat /\ cur.last = pos - 1 /\ cur.first <= pos
      /\ pos \in Nat \ {0}
  BY <1>2, Reading
<1>5. Advance(text, cur.first, k) > text.w
  <2>1. /\ Advance(text, i, k) \in Nat /\ Advance(text, cur.first, k) \in Nat
        /\ Advance(text, i, k) <= Advance(text, cur.first, k)
    BY <1>2, <1>3, <1>4, AdvanceGrows
  <2>2. Advance(text, i, k) > text.w
    BY <1>1 DEF TooLong
  <2> QED BY <2>1, <2>2, <1>3
<1>6. /\ Flushed \in Seq(Spans) /\ Len(Flushed) < i /\ Len(Flushed) \in Nat
      /\ Chained(text, Flushed)
      /\ (Flushed = << >> => Breaks(text, 0, i))
      /\ (Flushed # << >> => Follows(text, Flushed[Len(Flushed)], i))
  BY <1>1, <1>5, Flushing
<1>7. /\ BlankAt(i) = [first |-> i, last |-> i - 1, dots |-> FALSE]
      /\ BlankAt(i) \in Spans /\ Empty(BlankAt(i))
  <2>1. i - 1 \in Nat /\ i - 1 < i
    BY <1>2
  <2> QED BY <2>1, <1>2 DEF BlankAt, Line, Spans, Empty
<1>8. Advance(text, i, i - 1) = 0
  BY <1>2, <1>3, AdvanceNone
<1>9. /\ stage' = "breaking" /\ pos' = i /\ stop' = k /\ lines' = Flushed
      /\ cur' = BlankAt(i) /\ width' = 0 /\ saw' = TRUE /\ UNCHANGED <<job, nth, row, drawn>>
  BY DEF LongWord
<1>10. /\ TypeOK' /\ text' = text /\ Chained(text, lines)' /\ Filling(text)' /\ nth' > 0
       /\ (lines # << >> => ~LastLine.dots)'
  <2>1. saw' \in BOOLEAN
    BY <1>9
  <2>2. i \in Nat \ {0} /\ i <= Count(text) + 1
    BY <1>2, <1>3
  <2> QED BY <2>1, <2>2, <1>2, <1>6, <1>7, <1>8, <1>9, Beginning
<1>11. InsideWord(text)'
  <2>1. cur'.first = i
    BY <1>7, <1>9
  <2>2. saw'
    BY <1>9
  <2>3. Inked(text', cur'.first, stop')
    BY <2>1, <1>2, <1>9, <1>10
  <2>4. pos' <= stop' /\ stop' <= Count(text') /\ (stop' < Count(text') => text'.chars[stop' + 1] # "ink")
    BY <1>2, <1>9, <1>10
  <2>5. Wraps(text')
    BY <1>2, <1>10
  <2> QED BY <2>2, <2>3, <2>4, <2>5 DEF InsideWord
<1> QED BY <1>9, <1>10, <1>11 DEF IInv, LinesAgree

LEMMA WordStartsKeeps ==
  ASSUME IInv, NEW i \in Nat, NEW k \in Nat, WordStarts(i, k)
  PROVE  IInv'
<1>1. ReadsWord(i, k) /\ ~TooLong(i, k) /\ (Empty(cur) \/ ~Joins(i, k))
  BY DEF WordStarts
<1>2. /\ stage = "paragraph" /\ Wraps(text) /\ pos <= i /\ 1 <= i /\ i <= k /\ k <= Count(text)
      /\ Spaces(text, pos, i - 1)
      /\ text.chars[k] = "ink" /\ (k < Count(text) => text.chars[k + 1] # "ink")
      /\ (~Empty(cur) => pos < i /\ text.chars[pos - 1] = "ink")
  BY <1>1, NextWord
<1>3. IsText(text) /\ IsMeasured(text) /\ Count(text) \in Nat /\ text.w \in Nat
  BY <1>2, Started, TextKnown
<1>4. /\ cur.first \in Nat \ {0} /\ cur.last \in Nat /\ cur.last = pos - 1 /\ cur.first <= pos
      /\ pos \in Nat \ {0} /\ Filling(text)
  BY <1>2, Reading
<1>5. ASSUME ~Empty(cur) PROVE Advance(text, cur.first, k) > text.w
  <2>1. cur.first < pos
    BY <1>4, <1>5 DEF Empty
  <2>2. Advance(text, cur.first, k)
          = Advance(text, cur.first, pos - 1) + text.space + Advance(text, i, k)
    BY <2>1, <1>2, <1>3, <1>4, <1>5, AdvanceJoins
  <2>3. width = Advance(text, cur.first, pos - 1)
    BY <1>2, <1>4 DEF Filling
  <2>4. ~(width + text.space + Advance(text, i, k) <= text.w)
    BY <1>1, <1>5 DEF Joins
  <2>5. Advance(text, i, k) \in Nat /\ width \in Nat /\ text.space \in Nat
    <3>1. i \in Nat \ {0} /\ i <= i /\ i - 1 <= k
      BY <1>2
    <3>2. Advance(text, i, k) \in Nat
      BY <3>1, <1>2, <1>3, AdvanceGrows
    <3> QED BY <3>2, <1>3 DEF IInv, TypeOK, IsText
  <2> QED BY <2>2, <2>3, <2>4, <2>5, <1>3
<1>6. /\ Flushed \in Seq(Spans) /\ Len(Flushed) < i /\ Len(Flushed) \in Nat
      /\ Chained(text, Flushed)
      /\ (Flushed = << >> => Breaks(text, 0, i))
      /\ (Flushed # << >> => Follows(text, Flushed[Len(Flushed)], i))
  BY <1>1, <1>5, Flushing
<1>7. /\ Line(i, k) = [first |-> i, last |-> k, dots |-> FALSE]
      /\ Line(i, k) \in Spans /\ ~Empty(Line(i, k))
  BY <1>2 DEF Line, Spans, Empty
<1>8. Advance(text, i, k) <= text.w \/ i = k
  <2>1. Advance(text, i, k) \in Nat
    <3>1. i <= i /\ i - 1 <= k
      BY <1>2
    <3> QED BY <3>1, <1>2, <1>3, AdvanceGrows
  <2> QED BY <2>1, <1>1, <1>2, <1>3 DEF TooLong
<1>9. /\ stage' = "paragraph" /\ pos' = k + 1 /\ lines' = Flushed
      /\ cur' = Line(i, k) /\ width' = Advance(text, i, k) /\ saw' = TRUE
      /\ UNCHANGED <<job, nth, stop, row, drawn>>
  BY <1>2 DEF WordStarts
<1>10. /\ TypeOK' /\ text' = text /\ Chained(text, lines)' /\ Filling(text)' /\ nth' > 0
       /\ (lines # << >> => ~LastLine.dots)'
  <2>1. saw' \in BOOLEAN /\ stop' \in Nat
    BY <1>9 DEF IInv, TypeOK
  <2>2. i \in Nat \ {0} /\ i <= k + 1 /\ k = (k + 1) - 1 /\ k + 1 <= Count(text) + 1
    BY <1>2, <1>3
  <2> QED BY <2>1, <2>2, <1>2, <1>6, <1>7, <1>8, <1>9, Beginning
<1>11. BetweenWords(text)'
  <2>1. ~Empty(cur)'
    BY <1>7, <1>9 DEF Empty
  <2>2. pos' - 1 = k /\ (pos' <= Count(text) => k < Count(text))
    BY <1>3, <1>9
  <2>3. Wraps(text') /\ text'.chars[pos' - 1] = "ink" /\ (pos' <= Count(text') => text'.chars[pos'] # "ink")
    BY <2>2, <1>2, <1>9, <1>10
  <2>4. saw'
    BY <1>9
  <2> QED BY <2>1, <2>3, <2>4 DEF BetweenWords
<1> QED BY <1>9, <1>10, <1>11 DEF IInv, LinesAgree

LEMMA WordJoinsKeeps ==
  ASSUME IInv, NEW i \in Nat, NEW k \in Nat, WordJoins(i, k)
  PROVE  IInv'
<1>1. ReadsWord(i, k) /\ ~Empty(cur) /\ Joins(i, k)
  BY DEF WordJoins
<1>2. /\ stage = "paragraph" /\ Wraps(text) /\ pos <= i /\ 1 <= i /\ i <= k /\ k <= Count(text)
      /\ Spaces(text, pos, i - 1)
      /\ text.chars[k] = "ink" /\ (k < Count(text) => text.chars[k + 1] # "ink")
      /\ pos < i /\ text.chars[pos - 1] = "ink"
  BY <1>1, NextWord
<1>3. IsText(text) /\ IsMeasured(text) /\ Count(text) \in Nat /\ text.w \in Nat
      /\ Chained(text, lines)
  BY <1>2, Started, TextKnown
<1>4. /\ cur.first \in Nat \ {0} /\ cur.last \in Nat /\ cur.last = pos - 1 /\ cur.first <= pos
      /\ pos \in Nat \ {0} /\ Filling(text) /\ cur \in Spans
      /\ lines \in Seq(Spans) /\ Len(lines) \in Nat
  BY <1>2, Reading
<1> DEFINE c == [cur EXCEPT !.last = k]
<1>5. c \in Spans /\ c.first = cur.first /\ c.last = k /\ c.dots = cur.dots
  BY <1>4 DEF Spans
<1>6. cur.first < pos
  BY <1>1, <1>4 DEF Empty
<1>7. ~Empty(c)
  BY <1>2, <1>4, <1>5, <1>6 DEF Empty
<1>8. /\ stage' = "paragraph" /\ pos' = k + 1 /\ lines' = lines
      /\ cur' = c /\ width' = width + text.space + Advance(text, i, k) /\ saw' = TRUE
      /\ UNCHANGED <<job, nth, stop, row, drawn>>
  BY <1>2 DEF WordJoins
<1> HIDE DEF c
<1>9. width' = Advance(text, cur.first, k)
  <2>1. Advance(text, cur.first, k)
          = Advance(text, cur.first, pos - 1) + text.space + Advance(text, i, k)
    BY <1>2, <1>3, <1>4, <1>6, AdvanceJoins
  <2>2. width = Advance(text, cur.first, pos - 1)
    BY <1>2, <1>4 DEF Filling
  <2> QED BY <2>1, <2>2, <1>8
<1>10. width' <= text.w
  BY <1>1, <1>8 DEF Joins
<1>11. /\ TypeOK' /\ text' = text /\ Chained(text, lines)' /\ Filling(text)' /\ nth' > 0
       /\ (lines # << >> => ~LastLine.dots)'
  <2>1. saw' \in BOOLEAN /\ stop' \in Nat
    BY <1>8 DEF IInv, TypeOK
  <2>2. cur.first <= k + 1 /\ k = (k + 1) - 1 /\ k + 1 <= Count(text) + 1
    BY <1>2, <1>3, <1>4
  <2>3. /\ Len(lines) < cur.first /\ ~c.dots
        /\ (lines = << >> => Breaks(text, 0, cur.first))
        /\ (lines # << >> => Follows(text, lines[Len(lines)], cur.first))
    BY <1>4, <1>5 DEF Filling, LastLine
  <2>4. width' = Advance(text, cur.first, c.last)
    BY <1>5, <1>9
  <2>5. pos' \in Nat /\ c.last = pos' - 1 /\ cur.first <= pos' /\ pos' <= Count(text) + 1
    BY <2>2, <1>5, <1>8
  <2>6. stage' \in {"paragraph", "breaking"} /\ stage \in {"paragraph", "breaking"}
    BY <1>2, <1>8
  <2> QED BY <2>1, <2>3, <2>4, <2>5, <2>6, <1>3, <1>4, <1>5, <1>8, <1>10, Beginning
<1>12. BetweenWords(text)'
  <2>1. ~Empty(cur)'
    BY <1>7, <1>8 DEF Empty
  <2>2. pos' - 1 = k /\ (pos' <= Count(text) => k < Count(text))
    BY <1>3, <1>8
  <2>3. Wraps(text') /\ text'.chars[pos' - 1] = "ink" /\ (pos' <= Count(text') => text'.chars[pos'] # "ink")
    BY <2>2, <1>2, <1>8, <1>11
  <2>4. saw'
    BY <1>8
  <2> QED BY <2>1, <2>3, <2>4 DEF BetweenWords
<1> QED BY <1>8, <1>11, <1>12 DEF IInv, LinesAgree

\* The next glyph of a long word is in the text.
LEMMA NextGlyph ==
  ASSUME IInv, stage = "breaking"
  PROVE  /\ Wraps(text) /\ saw /\ pos <= stop /\ stop <= Count(text) /\ stop \in Nat
         /\ Inked(text, cur.first, stop)
         /\ stop < Count(text) => text.chars[stop + 1] # "ink"
         /\ Advance(text, pos, pos) \in Nat
<1>1. InsideWord(text)
  BY DEF IInv, LinesAgree
<1>2. stop \in Nat
  BY DEF IInv, TypeOK
<1>3. pos \in Nat \ {0} /\ pos <= stop /\ stop <= Count(text)
  BY <1>1, Reading DEF InsideWord
<1>4. IsText(text) /\ IsMeasured(text) /\ Count(text) \in Nat
  BY Started, TextKnown
<1>5. pos <= pos /\ pos - 1 <= pos /\ pos <= Count(text) /\ pos \in Nat
  BY <1>2, <1>3, <1>4
<1>6. Advance(text, pos, pos) \in Nat
  BY <1>3, <1>4, <1>5, AdvanceGrows
<1> QED BY <1>1, <1>2, <1>6 DEF InsideWord

LEMMA BreakGlyphKeeps ==
  ASSUME IInv, BreakGlyph
  PROVE  IInv'
<1>1. stage = "breaking" /\ pos' = pos + 1 /\ UNCHANGED <<job, nth, stop, saw, row, drawn>>
  BY DEF BreakGlyph
<1>2. /\ Wraps(text) /\ saw /\ pos <= stop /\ stop <= Count(text) /\ stop \in Nat
      /\ Inked(text, cur.first, stop)
      /\ (stop < Count(text) => text.chars[stop + 1] # "ink")
      /\ Advance(text, pos, pos) \in Nat
  BY <1>1, NextGlyph
<1>3. IsText(text) /\ IsMeasured(text) /\ Count(text) \in Nat /\ text.w \in Nat
      /\ Chained(text, lines)
  BY <1>1, <1>2, Started, TextKnown
<1>4. /\ cur.first \in Nat \ {0} /\ cur.last \in Nat /\ cur.last = pos - 1 /\ cur.first <= pos
      /\ pos \in Nat \ {0} /\ Filling(text) /\ cur \in Spans
      /\ lines \in Seq(Spans) /\ Len(lines) \in Nat
  BY <1>1, Reading
<1>5. /\ Len(lines) < cur.first /\ ~cur.dots
      /\ (lines = << >> => Breaks(text, 0, cur.first))
      /\ (lines # << >> => Follows(text, lines[Len(lines)], cur.first))
      /\ width = Advance(text, cur.first, pos - 1)
  BY <1>2, <1>4 DEF Filling, LastLine
<1>6. width \in Nat
  BY DEF IInv, TypeOK
<1>7. stage' = IF pos = stop THEN "paragraph" ELSE "breaking"
  BY DEF BreakGlyph
<1>8. /\ TypeOK' /\ text' = text /\ Chained(text, lines)' /\ Filling(text)' /\ nth' > 0
      /\ (lines # << >> => ~LastLine.dots)'
      /\ cur.first <= cur'.first /\ cur'.first <= pos
  <2>1. /\ saw' \in BOOLEAN /\ stop' \in Nat /\ pos' \in Nat
        /\ stage' \in {"paragraph", "breaking"} /\ stage \in {"paragraph", "breaking"}
    <3>1. saw' \in BOOLEAN
      BY <1>1 DEF IInv, TypeOK
    <3> QED BY <3>1, <1>1, <1>2, <1>4, <1>7
  <2>2. pos = pos' - 1 /\ pos' <= Count(text) + 1 /\ pos <= pos' /\ cur.first <= pos'
    BY <1>1, <1>2, <1>3, <1>4
  <2>3. CASE ~Empty(cur) /\ width + Advance(text, pos, pos) > text.w
    <3>1. lines' = Append(lines, cur) /\ cur' = Line(pos, pos) /\ width' = Advance(text, pos, pos)
      BY <2>3 DEF BreakGlyph
    <3>2. /\ Line(pos, pos) = [first |-> pos, last |-> pos, dots |-> FALSE]
          /\ Line(pos, pos) \in Spans
      BY <1>4 DEF Line, Spans
    <3>3. /\ Append(lines, cur) \in Seq(Spans) /\ Len(Append(lines, cur)) = Len(lines) + 1
          /\ Append(lines, cur) # << >> /\ Append(lines, cur)[Len(Append(lines, cur))] = cur
      BY <1>4
    <3>4. Chained(text, Append(lines, cur))
      <4>1. Held(text, cur)
        BY <1>1, FillingHeld
      <4> QED BY <4>1, <1>3, <1>4, <1>5, ChainGrows
    <3>5. cur.first < pos
      BY <2>3, <1>4 DEF Empty
    <3>6. Follows(text, cur, pos)
      <4>1. cur.last < Count(text) /\ pos = cur.last + 1
        BY <1>2, <1>3, <1>4
      <4>2. Breaks(text, cur.last, pos)
        BY <4>1, <1>4 DEF Breaks
      <4>3. Advance(text, cur.first, pos) = width + Advance(text, pos, pos)
        <5>1. cur.first - 1 <= pos - 1 /\ pos - 1 <= pos /\ pos <= Count(text) /\ pos - 1 \in Nat
              /\ (pos - 1) + 1 = pos
          BY <1>2, <1>3, <1>4
        <5>2. Advance(text, cur.first, pos)
                = Advance(text, cur.first, pos - 1) + Advance(text, (pos - 1) + 1, pos)
          BY <5>1, <1>3, <1>4, AdvanceAdds
        <5> QED BY <5>1, <5>2, <1>5
      <4>4. Inked(text, cur.first, cur.last)
        BY <4>1, <1>2, <1>4 DEF Inked
      <4>5. Forced(text, cur, pos)
        BY <4>1, <4>3, <4>4, <2>3 DEF Forced
      <4> QED BY <4>1, <4>2, <4>5, <1>5 DEF Follows
    <3>7. Len(Append(lines, cur)) < pos
      BY <3>3, <3>5, <1>4, <1>5
    <3> DEFINE c == Line(pos, pos)
               ls == Append(lines, cur)
    <3>8. /\ c \in Spans /\ c.first = pos /\ c.last = pos /\ ~c.dots
      BY <3>2
    <3>9. /\ ls \in Seq(Spans) /\ Len(ls) \in Nat /\ Chained(text, ls) /\ Len(ls) < c.first
          /\ (ls = << >> => Breaks(text, 0, c.first))
          /\ (ls # << >> => Follows(text, ls[Len(ls)], c.first))
      BY <3>3, <3>4, <3>6, <3>7, <3>8, <1>4
    <3>10. /\ lines' = ls /\ cur' = c /\ width' = Advance(text, c.first, c.last)
          /\ c.last = pos' - 1 /\ c.first <= pos' /\ c.first = c.last
      BY <3>1, <3>8, <2>2
    <3> HIDE DEF c, ls
    <3>11. /\ TypeOK' /\ text' = text /\ Chained(text, lines)' /\ Filling(text)' /\ nth' > 0
          /\ (lines # << >> => ~LastLine.dots)'
      BY <2>1, <2>2, <3>8, <3>9, <3>10, <1>1, Beginning
    <3>12. cur'.first = pos
      BY <3>1, <3>2
    <3> QED BY <3>11, <3>12, <1>4
  <2>4. CASE ~(~Empty(cur) /\ width + Advance(text, pos, pos) > text.w)
    <3> DEFINE c == [cur EXCEPT !.last = pos]
    <3>1. c \in Spans /\ c.first = cur.first /\ c.last = pos /\ c.dots = cur.dots
      BY <1>4 DEF Spans
    <3>2. lines' = lines /\ cur' = c /\ width' = width + Advance(text, pos, pos)
      BY <2>4 DEF BreakGlyph
    <3> HIDE DEF c
    <3>3. width' = Advance(text, cur.first, pos)
      <4>1. cur.first - 1 <= pos - 1 /\ pos - 1 <= pos /\ pos <= Count(text) /\ pos - 1 \in Nat
            /\ (pos - 1) + 1 = pos
        BY <1>2, <1>3, <1>4
      <4>2. Advance(text, cur.first, pos)
              = Advance(text, cur.first, pos - 1) + Advance(text, (pos - 1) + 1, pos)
        BY <4>1, <1>3, <1>4, AdvanceAdds
      <4> QED BY <4>1, <4>2, <3>2, <1>5
    <3>4. width' <= text.w \/ c.first = c.last
      <4>1. CASE Empty(cur)
        BY <4>1, <3>1, <1>4 DEF Empty
      <4>2. CASE ~Empty(cur)
        BY <4>2, <2>4, <3>2, <1>2, <1>3, <1>6
      <4> QED BY <4>1, <4>2
    <3>5. width' = Advance(text, c.first, c.last) /\ ~c.dots /\ c.last = pos' - 1
          /\ c.first <= pos' /\ Len(lines) < c.first
          /\ (lines = << >> => Breaks(text, 0, c.first))
          /\ (lines # << >> => Follows(text, lines[Len(lines)], c.first))
      BY <3>1, <3>3, <2>2, <1>5
    <3>6. /\ TypeOK' /\ text' = text /\ Chained(text, lines)' /\ Filling(text)' /\ nth' > 0
          /\ (lines # << >> => ~LastLine.dots)'
      BY <2>1, <2>2, <3>1, <3>2, <3>4, <3>5, <1>1, <1>3, <1>4, Beginning
    <3> QED BY <3>1, <3>2, <3>6, <1>4
  <2> QED BY <2>3, <2>4
<1>9. ASSUME pos = stop PROVE BetweenWords(text)' /\ stage' = "paragraph"
  <2>1. cur'.last = pos
    BY <1>1, <1>4, <1>8 DEF Filling
  <2>2. ~Empty(cur)'
    BY <2>1, <1>4, <1>8 DEF Empty, TypeOK, Spans
  <2>3. stop \in cur.first..stop
    BY <1>2, <1>4, <1>9
  <2>4. text.chars[stop] = "ink"
    BY <2>3, <1>2 DEF Inked
  <2>5. pos' - 1 = stop /\ (pos' <= Count(text') => stop < Count(text) /\ pos' = stop + 1)
    BY <1>1, <1>2, <1>3, <1>8, <1>9
  <2>6. Wraps(text') /\ text'.chars[pos' - 1] = "ink" /\ (pos' <= Count(text') => text'.chars[pos'] # "ink")
    BY <2>4, <2>5, <1>2, <1>8
  <2>7. saw'
    BY <1>1, <1>2
  <2> QED BY <2>2, <2>6, <2>7, <1>7, <1>9 DEF BetweenWords
<1>10. ASSUME pos # stop PROVE InsideWord(text)' /\ stage' = "breaking"
  <2>1. pos' <= stop' /\ stop' <= Count(text')
    BY <1>1, <1>2, <1>4, <1>8, <1>10
  <2>2. Inked(text', cur'.first, stop')
    <3>1. cur'.first \in Nat
      BY <1>8 DEF TypeOK, Spans
    <3>2. \A m \in cur'.first..stop : m \in cur.first..stop
      BY <3>1, <1>2, <1>4, <1>8
    <3> QED BY <3>2, <1>1, <1>2, <1>8 DEF Inked
  <2>3. stop' < Count(text') => text'.chars[stop' + 1] # "ink"
    BY <1>1, <1>2, <1>8
  <2>4. saw'
    BY <1>1, <1>2
  <2>5. Wraps(text')
    BY <1>2, <1>8
  <2> QED BY <2>1, <2>2, <2>3, <2>4, <2>5, <1>7, <1>10 DEF InsideWord
<1> QED BY <1>1, <1>8, <1>9, <1>10 DEF IInv, LinesAgree

-----------------------------------------------------------------------------
LEMMA AllFitKeeps ==
  ASSUME IInv, AllFit
  PROVE  IInv'
<1>1. /\ stage = "fitting" /\ stage' = "drawing" /\ ~TooMany(text, Len(lines))
      /\ UNCHANGED <<job, nth, pos, stop, cur, width, saw, lines, row, drawn>>
  BY DEF AllFit
<1>2. nth > 0 /\ Chained(text, lines) /\ Covered(text) /\ ~LastLine.dots
  BY <1>1, Started, TextKnown DEF IInv, LinesAgree
<1>3. text' = text /\ LastLine' = LastLine
  BY <1>1 DEF text, LastLine
<1>4. Covered(text)'
  BY <1>1, <1>2, <1>3 DEF Covered
<1>5. TypeOK'
  BY <1>1 DEF IInv, TypeOK
<1>6. LinesAgree'
  BY <1>1, <1>2, <1>3, <1>4 DEF LinesAgree
<1> QED BY <1>1, <1>5, <1>6 DEF IInv

LEMMA TruncateKeeps ==
  ASSUME IInv, Truncate
  PROVE  IInv'
<1>1. /\ stage = "fitting" /\ stage' = "ellipsis" /\ TooMany(text, Len(lines))
      /\ lines' = SubSeq(lines, 1, MaxLines(text))
      /\ UNCHANGED <<job, nth, pos, stop, cur, width, saw, row, drawn>>
  BY DEF Truncate
<1>2. nth > 0 /\ IsText(text) /\ Chained(text, lines)
  BY <1>1, Started, TextKnown
<1>3. lines \in Seq(Spans) /\ row = 0
  BY <1>1 DEF IInv, TypeOK
<1> DEFINE n == MaxLines(text)
<1>4. n \in Nat /\ 1 <= n /\ n < Len(lines)
  BY <1>1, <1>2, <1>3, MaxLinesType DEF TooMany
<1>5. /\ lines' \in Seq(Spans) /\ Len(lines') = n /\ lines'[n] = lines[n]
      /\ Chained(text, lines')
      /\ Follows(text, lines[n], lines[n + 1].first)
  BY <1>1, <1>2, <1>3, <1>4, ChainCut
<1>6. text' = text /\ LastLine' = lines[n]
  BY <1>1, <1>5 DEF text, LastLine
<1>7. ~LastLine'.dots /\ LastLine'.last < Count(text) /\ Len(lines') = MaxLines(text')
  BY <1>5, <1>6 DEF Follows
<1>8. lines' # << >>
  BY <1>4, <1>5
<1>9. TypeOK'
  <2>1. row' \in 0..Len(lines') /\ row' = 0
    BY <1>1, <1>3, <1>4, <1>5
  <2> QED BY <2>1, <1>1, <1>5, <1>8 DEF IInv, TypeOK
<1>10. LinesAgree'
  BY <1>1, <1>2, <1>5, <1>6, <1>7 DEF LinesAgree
<1> QED BY <1>1, <1>9, <1>10 DEF IInv

\* The last line is cut for the ellipsis.
LEMMA LastLineKnown ==
  ASSUME IInv, stage = "ellipsis"
  PROVE  /\ lines \in Seq(Spans) /\ lines # << >> /\ Len(lines) \in Nat \ {0} /\ row = 0
         /\ LastLine \in Spans /\ LastLine.first \in Nat \ {0} /\ LastLine.last \in Nat
         /\ Held(text, LastLine) /\ ~LastLine.dots
         /\ Len(lines) = MaxLines(text) /\ LastLine.last < Count(text)
<1>1. lines \in Seq(Spans) /\ lines # << >> /\ row = 0
  BY DEF IInv, TypeOK
<1>2. Len(lines) \in Nat \ {0} /\ Len(lines) \in 1..Len(lines)
  BY <1>1
<1>3. LastLine \in Spans
  BY <1>1, <1>2 DEF LastLine
<1>4. LastLine.first \in Nat \ {0} /\ LastLine.last \in Nat
  BY <1>3 DEF Spans
<1>5. Chained(text, lines)
  BY Started, TextKnown
<1>6. Held(text, LastLine)
  BY <1>2, <1>5 DEF Chained, LastLine
<1>7. ~LastLine.dots /\ Len(lines) = MaxLines(text) /\ LastLine.last < Count(text)
  BY DEF IInv, LinesAgree
<1> QED BY <1>1, <1>2, <1>3, <1>4, <1>6, <1>7

\* Fewer characters fit as well.
LEMMA HeldShorter ==
  ASSUME NEW t, IsText(t), IsMeasured(t), Wraps(t) => t.w \in Nat,
         NEW l \in Spans, Held(t, l), NEW m \in Spans,
         m.first = l.first, m.first - 1 <= m.last, m.last <= l.last
  PROVE  Held(t, m)
<1>1. l.first \in Nat \ {0} /\ l.last \in Nat /\ m.last \in Nat
  BY DEF Spans
<1>2. Count(t) \in Nat
  BY CountType
<1>3. l.first - 1 <= m.last /\ m.last <= l.last /\ l.last <= Count(t) /\ m.last <= Count(t)
  BY <1>1, <1>2 DEF Held
<1>4. ASSUME Wraps(t) PROVE Advance(t, m.first, m.last) <= t.w \/ m.first = m.last
  <2>1. Advance(t, l.first, m.last) \in Nat /\ Advance(t, l.first, l.last) \in Nat
        /\ Advance(t, l.first, m.last) <= Advance(t, l.first, l.last)
    BY <1>1, <1>3, AdvanceShrinks
  <2>2. CASE Advance(t, l.first, l.last) <= t.w
    BY <2>1, <2>2, <1>4
  <2>3. CASE l.first = l.last
    <3>1. CASE m.last = l.last
      BY <2>3, <3>1
    <3>2. CASE m.last # l.last
      <4>1. m.last = l.first - 1
        BY <2>3, <3>2, <1>1, <1>3
      <4>2. l.first - 1 <= Count(t)
        BY <4>1, <1>3
      <4>3. Advance(t, l.first, l.first - 1) = 0
        BY <4>2, <1>1, AdvanceNone
      <4> QED BY <4>1, <4>3, <1>4
    <3> QED BY <3>1, <3>2
  <2> QED BY <2>2, <2>3, <1>4 DEF Held
<1> QED BY <1>3, <1>4 DEF Held

\* The cut keeps the invariant; an ellipsis is set where it has room.
LEMMA CutKeeps ==
  ASSUME IInv, stage = "ellipsis", NEW m \in Spans,
         m.first = LastLine.first, m.first - 1 <= m.last, m.last <= LastLine.last,
         lines' = [lines EXCEPT ![Len(lines)] = m],
         \/ stage' = "ellipsis" /\ ~m.dots
         \/ stage' = "drawing" /\ m.dots /\ Dotted(text, m),
         UNCHANGED <<job, nth, pos, stop, cur, width, saw, row, drawn>>
  PROVE  IInv'
<1>1. /\ lines \in Seq(Spans) /\ lines # << >> /\ Len(lines) \in Nat \ {0} /\ row = 0
      /\ LastLine \in Spans /\ LastLine.last \in Nat /\ Held(text, LastLine)
      /\ Len(lines) = MaxLines(text) /\ LastLine.last < Count(text)
  BY LastLineKnown
<1>2. /\ nth > 0 /\ IsText(text) /\ IsMeasured(text) /\ (Wraps(text) => text.w \in Nat)
      /\ Count(text) \in Nat /\ Chained(text, lines)
  BY Started, TextKnown
<1>3. Held(text, m)
  BY <1>1, <1>2, HeldShorter
<1>4. /\ lines' \in Seq(Spans) /\ Len(lines') = Len(lines) /\ lines'[Len(lines)] = m
      /\ Chained(text, lines')
  <2>1. m.first = lines[Len(lines)].first
    BY DEF LastLine
  <2>2. /\ [lines EXCEPT ![Len(lines)] = m] \in Seq(Spans)
        /\ Len([lines EXCEPT ![Len(lines)] = m]) = Len(lines)
        /\ [lines EXCEPT ![Len(lines)] = m][Len(lines)] = m
        /\ Chained(text, [lines EXCEPT ![Len(lines)] = m])
    BY <2>1, <1>1, <1>2, <1>3, ChainEnds
  <2> QED BY <2>2
<1>5. text' = text /\ LastLine' = m /\ lines' # << >>
  BY <1>1, <1>4 DEF text, LastLine
<1>6. m.last < Count(text)
  BY <1>1, <1>2 DEF Spans
<1>7. TypeOK'
  <2>1. row' \in 0..Len(lines') /\ row' = 0
    BY <1>1, <1>4
  <2> QED BY <2>1, <1>4, <1>5 DEF IInv, TypeOK
<1>8. LinesAgree'
  <2>1. CASE stage' = "ellipsis" /\ ~m.dots
    BY <2>1, <1>1, <1>2, <1>4, <1>5, <1>6 DEF LinesAgree
  <2>2. CASE stage' = "drawing" /\ m.dots /\ Dotted(text, m)
    <3>1. Covered(text)'
      BY <2>2, <1>1, <1>4, <1>5, <1>6 DEF Covered
    <3> QED BY <2>2, <3>1, <1>2, <1>4, <1>5 DEF LinesAgree
  <2> QED BY <2>1, <2>2
<1> QED BY <1>7, <1>8 DEF IInv

LEMMA ShortenKeeps ==
  ASSUME IInv, Shorten
  PROVE  IInv'
<1>1. /\ stage = "ellipsis" /\ stage' = "ellipsis" /\ ~Empty(LastLine)
      /\ UNCHANGED <<job, nth, pos, stop, cur, width, saw, row, drawn>>
  BY DEF Shorten, Crowds
<1>2. /\ lines \in Seq(Spans) /\ lines # << >> /\ Len(lines) \in Nat \ {0}
      /\ LastLine \in Spans /\ LastLine.first \in Nat \ {0} /\ LastLine.last \in Nat
      /\ ~LastLine.dots
  BY <1>1, LastLineKnown
<1> DEFINE m == [LastLine EXCEPT !.last = LastLine.last - 1]
<1>3. LastLine.first <= LastLine.last /\ LastLine.last - 1 \in Nat
  BY <1>1, <1>2 DEF Empty
<1>4. m \in Spans /\ m.first = LastLine.first /\ m.last = LastLine.last - 1 /\ ~m.dots
  BY <1>2, <1>3 DEF Spans
<1>5. lines' = [lines EXCEPT ![Len(lines)] = m]
  BY <1>1, <1>2 DEF Shorten, LastLine
<1>6. m.first - 1 <= m.last /\ m.last <= LastLine.last
  BY <1>2, <1>3, <1>4
<1> QED BY <1>1, <1>4, <1>5, <1>6, CutKeeps

LEMMA EllipsizeKeeps ==
  ASSUME IInv, NEW e \in Nat, Ellipsize(e)
  PROVE  IInv'
<1>1. /\ stage = "ellipsis" /\ stage' = "drawing" /\ ~Crowds(LastLine)
      /\ e <= LastLine.last /\ LastLine.first - 1 <= e
      /\ UNCHANGED <<job, nth, pos, stop, cur, width, saw, row, drawn>>
  BY LastLineKnown DEF Ellipsize
<1>2. /\ lines \in Seq(Spans) /\ lines # << >> /\ Len(lines) \in Nat \ {0}
      /\ LastLine \in Spans /\ LastLine.first \in Nat \ {0} /\ LastLine.last \in Nat
      /\ LastLine.last < Count(text)
  BY <1>1, LastLineKnown
<1>3. IsText(text) /\ IsMeasured(text) /\ Count(text) \in Nat /\ (Wraps(text) => text.w \in Nat)
  BY <1>1, Started, TextKnown
<1> DEFINE m == [LastLine EXCEPT !.last = e, !.dots = TRUE]
<1>4. m \in Spans /\ m.first = LastLine.first /\ m.last = e /\ m.dots
  BY <1>2 DEF Spans
<1>5. lines' = [lines EXCEPT ![Len(lines)] = m]
  BY <1>2 DEF Ellipsize, LastLine
<1>6. Dotted(text, m)
  <2> HIDE DEF m
  <2> SUFFICES ASSUME Wraps(text), ~Empty(m)
               PROVE  Advance(text, m.first, m.last) + text.dots <= text.w
    BY DEF Dotted
  <2>1. ~Empty(LastLine)
    BY <1>1, <1>2, <1>4 DEF Empty
  <2>2. ~(Advance(text, LastLine.first, LastLine.last) + text.dots > text.w)
    BY <2>1, <1>1 DEF Crowds
  <2>3. LastLine.last <= Count(text)
    BY <1>2, <1>3
  <2>4. /\ Advance(text, LastLine.first, e) \in Nat
        /\ Advance(text, LastLine.first, LastLine.last) \in Nat
        /\ Advance(text, LastLine.first, e) <= Advance(text, LastLine.first, LastLine.last)
    BY <2>3, <1>1, <1>2, <1>3, AdvanceShrinks
  <2>5. text.dots \in Nat
    BY <1>3 DEF IsText
  <2> QED BY <2>2, <2>4, <2>5, <1>3, <1>4
<1> QED BY <1>1, <1>2, <1>4, <1>5, <1>6, CutKeeps

-----------------------------------------------------------------------------
LEMMA NextTextKeeps ==
  ASSUME IInv, NextText
  PROVE  IInv'
<1>1. /\ stage = "texts" /\ nth < Len(job) /\ nth' = nth + 1
      /\ stage' = IF job[nth + 1].chars = << >> THEN "texts" ELSE "paragraph"
      /\ pos' = 1 /\ cur' = BlankAt(1) /\ width' = 0 /\ saw' = FALSE
      /\ lines' = << >> /\ row' = 0 /\ UNCHANGED <<job, stop, drawn>>
  BY DEF NextText
<1>2. job \in Jobs /\ nth \in 0..Len(job) /\ Len(job) \in Nat /\ stop \in Nat
  <2>1. job \in Jobs /\ TypeOK
    BY DEF IInv
  <2>2. Len(job) \in Nat
    BY <2>1, JobAssumption
  <2> QED BY <2>1, <2>2 DEF TypeOK
<1>3. nth + 1 \in 1..Len(job) /\ nth' > 0
  BY <1>1, <1>2
<1>4. IsText(text') /\ IsMeasured(text')
  BY <1>1, <1>2, <1>3, JobAssumption DEF text
<1>5. Count(text') \in Nat
  BY <1>4, CountType
<1>6. BlankAt(1) = [first |-> 1, last |-> 0, dots |-> FALSE] /\ BlankAt(1) \in Spans
  BY DEF BlankAt, Line, Spans
<1>7. stage' = "texts" \/ stage' = "paragraph"
  BY <1>1
<1>8. Len(lines') = 0 /\ lines' \in Seq(Spans) /\ lines' = << >>
  BY <1>1
<1>9. TypeOK'
  <2>1. saw' \in BOOLEAN
    BY <1>1
  <2>2. drawn' \in Seq([text: 1..Len(job'), line: Spans, y: Int, ink: {"stroke", "fill"}])
    BY <1>1 DEF IInv, TypeOK
  <2>3. nth' \in 0..Len(job') /\ pos' \in Nat /\ width' \in Nat /\ stop' \in Nat /\ row' = 0
    BY <1>1, <1>2, <1>3
  <2>4. cur' \in Spans
    BY <1>1, <1>6
  <2> QED BY <2>1, <2>2, <2>3, <2>4, <1>7, <1>8 DEF TypeOK
<1>10. Chained(text', lines')
  BY <1>8 DEF Chained
<1>11. Filling(text)' /\ BetweenWords(text)'
  <2>1. cur'.first = 1 /\ cur'.last = 0 /\ ~cur'.dots /\ pos' = 1 /\ width' = 0
    BY <1>1, <1>6
  <2>2. ~saw'
    BY <1>1
  <2>3. Empty(cur)'
    BY <2>1 DEF Empty
  <2>4. Breaks(text', 0, 1)
    BY DEF Breaks
  <2>5. Advance(text', 1, 0) = 0
    <3>1. 1 \in Nat \ {0} /\ 1 - 1 <= Count(text') /\ 1 - 1 = 0
      BY <1>5
    <3>2. Advance(text', 1, 1 - 1) = 0
      BY <3>1, <1>4, AdvanceNone
    <3> QED BY <3>1, <3>2
  <2>6. Filling(text)'
    BY <2>1, <2>3, <2>4, <2>5, <1>5, <1>8 DEF Filling
  <2>7. BetweenWords(text)'
    BY <2>2, <2>3, <1>8 DEF BetweenWords
  <2> QED BY <2>6, <2>7
<1>12. LinesAgree'
  BY <1>3, <1>7, <1>8, <1>10, <1>11 DEF LinesAgree
<1> QED BY <1>1, <1>2, <1>9, <1>12 DEF IInv

\* Steps that leave the lines alone.
LEMMA LinesKept ==
  ASSUME IInv, UNCHANGED <<job, nth, pos, stop, cur, width, saw, lines>>,
         stage \in {"texts", "drawing"},
         \/ stage' = stage
         \/ stage' = "texts" /\ nth > 0
         \/ stage' = "done"
  PROVE  LinesAgree'
<1>1. text' = text /\ LastLine' = LastLine
  BY DEF text, LastLine
<1>2. Covered(text)' <=> Covered(text)
  BY <1>1 DEF Covered
<1>3. CASE nth = 0
  BY <1>3 DEF IInv, LinesAgree
<1>4. CASE nth > 0
  BY <1>1, <1>2, <1>4 DEF IInv, LinesAgree
<1> QED BY <1>3, <1>4 DEF IInv, LinesAgree

LEMMA AllTextsKeeps ==
  ASSUME IInv, AllTexts
  PROVE  IInv'
<1>1. /\ stage = "texts" /\ stage' = "done"
      /\ UNCHANGED <<job, nth, pos, stop, cur, width, saw, lines, row, drawn>>
  BY DEF AllTexts
<1>2. TypeOK'
  BY <1>1 DEF IInv, TypeOK
<1>3. LinesAgree'
  BY <1>1, LinesKept
<1> QED BY <1>1, <1>2, <1>3 DEF IInv

LEMMA DrawnKeeps ==
  ASSUME IInv, Drawn
  PROVE  IInv'
<1>1. /\ stage = "drawing" /\ stage' = "texts"
      /\ UNCHANGED <<job, nth, pos, stop, cur, width, saw, lines, row, drawn>>
  BY DEF Drawn
<1>2. TypeOK'
  BY <1>1 DEF IInv, TypeOK
<1>3. LinesAgree'
  BY <1>1, Started, LinesKept
<1> QED BY <1>1, <1>2, <1>3 DEF IInv

\* A baseline is an i64.
LEMMA BaselineType ==
  ASSUME NEW t, IsText(t), NEW n \in Nat
  PROVE  Baselines(t, n) \subseteq Int
<1>1. ASSUME NEW k \in Int PROVE AsI64(k) \in Int
  <2>1. 2 * Half \in Nat /\ 2 * Half > 0 /\ Half \in Int
    BY LimitAssumption
  <2>2. (k + Half) % (2 * Half) \in Int
    BY <2>1
  <2> QED BY <2>1, <2>2 DEF AsI64
<1>2. t.y + t.size \in Int /\ t.size \in Nat
  BY DEF IsText
<1>3. 6 * t.size * n \in Int
  BY <1>2
<1>4. (6 * t.size * n) \div 5 \in Int
  BY <1>3
<1>5. AsI64(t.y + t.size) \in Int
  BY <1>1, <1>2
<1>6. Descents(t, n) \subseteq Int
  BY <1>4 DEF Descents
<1>7. \A d \in Descents(t, n) : AsI64(t.y + t.size) + d \in Int
  BY <1>5, <1>6
<1> QED BY <1>1, <1>7 DEF Baselines

\* The second cut is no cut: a line is no longer than the text, and shorter
\* if it has an ellipsis.
LEMMA ShownWhole ==
  ASSUME IInv, stage = "drawing", NEW n \in 1..Len(lines)
  PROVE  Shown(lines[n]) = lines[n] /\ lines[n] \in Spans
<1>1. lines \in Seq(Spans) /\ Limit \in Nat
  BY LimitAssumption DEF IInv, TypeOK
<1>2. lines[n] \in Spans
  BY <1>1
<1>3. lines[n].first \in Nat \ {0} /\ lines[n].last \in Nat
  BY <1>2 DEF Spans
<1>4. IsText(text) /\ Chained(text, lines)
  BY Started, TextKnown
<1>5. Count(text) \in Nat /\ Count(text) <= Limit
  BY <1>4, CountType
<1>6. lines[n].last <= Count(text)
  BY <1>4 DEF Chained, Held
<1>7. ASSUME lines[n].dots PROVE lines[n].last < Count(text)
  <2>1. CASE n = Len(lines)
    <3>1. Covered(text)
      BY DEF IInv, LinesAgree
    <3> QED BY <2>1, <3>1, <1>7 DEF Covered, LastLine
  <2>2. CASE n # Len(lines)
    <3>1. n \in 1..(Len(lines) - 1)
      BY <2>2, <1>1
    <3>2. ~lines[n].dots
      BY <3>1, <1>4 DEF Chained, Follows
    <3> QED BY <3>2, <1>7
  <2> QED BY <2>1, <2>2
<1>8. Length(lines[n]) <= Limit
  <2> DEFINE Span == lines[n].first..lines[n].last
  <2>1. /\ IsFiniteSet(Span)
        /\ Cardinality(Span) =
             IF lines[n].first > lines[n].last THEN 0 ELSE lines[n].last - lines[n].first + 1
    <3>1. lines[n].first \in Int /\ lines[n].last \in Int
      BY <1>3
    <3> HIDE DEF Span
    <3>2. \A a, b \in Int :
            IsFiniteSet(a..b) /\ Cardinality(a..b) = IF a > b THEN 0 ELSE b - a + 1
      BY FS_Interval
    <3> QED BY <3>1, <3>2 DEF Span
  <2>2. Glyphs(lines[n]) \in SUBSET Span
    BY DEF Glyphs
  <2>3. /\ IsFiniteSet(Glyphs(lines[n]))
        /\ Cardinality(Glyphs(lines[n])) <= Cardinality(Span)
    BY <2>1, <2>2, FS_Subset
  <2>4. Cardinality(Glyphs(lines[n])) \in Nat
    BY <2>3, FS_CardinalityType
  <2>5. Cardinality(Span) \in Nat /\ Cardinality(Span) <= lines[n].last
    BY <2>1, <1>3
  <2> HIDE DEF Span
  <2>6. CASE lines[n].dots
    BY <2>3, <2>4, <2>5, <2>6, <1>1, <1>3, <1>5, <1>7 DEF Length
  <2>7. CASE ~lines[n].dots
    BY <2>3, <2>4, <2>5, <2>7, <1>1, <1>3, <1>5, <1>6 DEF Length
  <2> QED BY <2>6, <2>7
<1> QED BY <1>2, <1>8 DEF Shown

LEMMA DrawKeeps ==
  ASSUME IInv, Draw
  PROVE  IInv'
<1>1. /\ stage = "drawing" /\ row < Len(lines) /\ row' = row + 1
      /\ UNCHANGED <<job, nth, stage, pos, stop, cur, width, saw, lines>>
  BY DEF Draw
<1>2. nth > 0 /\ IsText(text)
  BY <1>1, Started, TextKnown
<1>3. /\ lines \in Seq(Spans) /\ row \in 0..Len(lines) /\ nth \in 1..Len(job)
      /\ drawn \in Seq([text: 1..Len(job), line: Spans, y: Int, ink: {"stroke", "fill"}])
  BY <1>2 DEF IInv, TypeOK
<1>4. row + 1 \in 1..Len(lines) /\ row \in Nat /\ row' \in 0..Len(lines)
  BY <1>1, <1>3
<1> DEFINE l == Shown(lines[row + 1])
<1>5. PICK y \in Baselines(text, row) :
           drawn' = drawn \o
             (IF Empty(l) /\ ~l.dots THEN << >>
              ELSE IF text.outline
                   THEN <<[text |-> nth, line |-> l, y |-> y, ink |-> "stroke"],
                          [text |-> nth, line |-> l, y |-> y, ink |-> "fill"]>>
                   ELSE <<[text |-> nth, line |-> l, y |-> y, ink |-> "fill"]>>)
  BY DEF Draw
<1> DEFINE At(ink) == [text |-> nth, line |-> l, y |-> y, ink |-> ink]
           Element == [text: 1..Len(job), line: Spans, y: Int, ink: {"stroke", "fill"}]
<1>6. y \in Int /\ l \in Spans
  <2>1. l \in Spans
    BY <1>1, <1>4, ShownWhole
  <2> QED BY <2>1, <1>2, <1>4, <1>5, BaselineType
<1>7. At("stroke") \in Element /\ At("fill") \in Element
  <2> HIDE DEF l
  <2> QED BY <1>3, <1>6
<1>8. drawn' = drawn \o
        (IF Empty(l) /\ ~l.dots THEN << >>
         ELSE IF text.outline THEN <<At("stroke"), At("fill")>> ELSE <<At("fill")>>)
  BY <1>5
<1> HIDE DEF l
<1> HIDE DEF At, Element
<1>9. << >> \in Seq(Element) /\ <<At("stroke"), At("fill")>> \in Seq(Element)
      /\ <<At("fill")>> \in Seq(Element)
  BY <1>7
<1>10. drawn' \in Seq(Element)
  <2>1. drawn \in Seq(Element)
    BY <1>3 DEF Element
  <2>2. \A s \in Seq(Element) : drawn \o s \in Seq(Element)
    BY <2>1
  <2> QED BY <2>2, <1>8, <1>9
<1>11. TypeOK'
  BY <1>1, <1>4, <1>10 DEF IInv, TypeOK, Element
<1>12. LinesAgree'
  BY <1>1, LinesKept
<1> QED BY <1>1, <1>11, <1>12 DEF IInv

-----------------------------------------------------------------------------
LEMMA InitHolds == Init => IInv
<1> SUFFICES ASSUME Init PROVE IInv
  OBVIOUS
<1>1. job \in Jobs /\ Len(job) \in Nat
  BY JobAssumption DEF Init
<1>2. cur \in Spans
  BY DEF Init, BlankAt, Line, Spans
<1>3. lines \in Seq(Spans) /\ Len(lines) = 0
      /\ drawn \in Seq([text: 1..Len(job), line: Spans, y: Int, ink: {"stroke", "fill"}])
  BY DEF Init
<1>4. TypeOK
  <2>1. saw \in BOOLEAN
    BY DEF Init
  <2>2. nth = 0 /\ stage = "texts" /\ pos = 1 /\ stop = 0 /\ width = 0 /\ row = 0
    BY DEF Init
  <2> QED BY <2>1, <2>2, <1>1, <1>2, <1>3 DEF TypeOK
<1>5. LinesAgree
  BY DEF Init, LinesAgree
<1> QED BY <1>1, <1>4, <1>5 DEF IInv

LEMMA NextKeeps == IInv /\ [Next]_vars => IInv'
<1> SUFFICES ASSUME IInv, [Next]_vars PROVE IInv'
  OBVIOUS
<1>1. ASSUME NextText \/ AllTexts PROVE IInv'
  BY <1>1, NextTextKeeps, AllTextsKeeps
<1>2. ASSUME AllFit \/ Truncate \/ Shorten \/ Draw \/ Drawn \/ BreakGlyph PROVE IInv'
  BY <1>2, AllFitKeeps, TruncateKeeps, ShortenKeeps, DrawKeeps, DrawnKeeps, BreakGlyphKeeps
<1>3. Places \subseteq Nat \ {0}
  <2>1. CASE nth = 0
    BY <2>1 DEF Places
  <2>2. CASE nth # 0
    <3>1. nth > 0
      BY <2>2 DEF IInv, TypeOK
    <3>2. Count(text) \in Nat
      BY <3>1, TextKnown
    <3> QED BY <3>2, <2>2 DEF Places
  <2> QED BY <2>1, <2>2
<1>4. ASSUME NEW e \in Places, Verbatim(e) \/ EndParagraph(e) \/ Ellipsize(e - 1) PROVE IInv'
  <2>1. e \in Nat /\ e - 1 \in Nat
    BY <1>3
  <2> QED BY <2>1, <1>4, VerbatimKeeps, EndParagraphKeeps, EllipsizeKeeps
<1>5. ASSUME NEW i \in Places, NEW k \in Places,
             LongWord(i, k) \/ WordStarts(i, k) \/ WordJoins(i, k)
      PROVE  IInv'
  BY <1>3, <1>5, LongWordKeeps, WordStartsKeeps, WordJoinsKeeps
<1>6. ASSUME UNCHANGED vars PROVE IInv'
  BY <1>6 DEF vars, IInv, TypeOK, LinesAgree, Chained, Covered, Filling, BetweenWords, InsideWord,
              LastLine, text, Spans
<1> QED BY <1>1, <1>2, <1>4, <1>5, <1>6 DEF Next

THEOREM Inductive == Spec => []IInv
<1> QED BY InitHolds, NextKeeps, PTL DEF Spec

\* Every state variable keeps its type.
THEOREM TypeCorrect == Spec => []TypeOK
<1>1. IInv => TypeOK
  BY DEF IInv
<1> QED BY <1>1, Inductive, PTL

\* Wrapping keeps every line of every text in its box, a single glyph that is
\* wider and an ellipsis that stands alone excepted.
THEOREM BoxRespected == Spec => []LinesFit
<1>1. IInv => LinesFit
  <2> SUFFICES ASSUME IInv, nth > 0, Wraps(text), NEW n \in 1..Len(lines)
               PROVE  LET l == lines[n]
                          wide == Advance(text, l.first, l.last) + IF l.dots THEN text.dots ELSE 0
                      IN  wide <= text.w \/ (IF l.dots THEN Empty(l) ELSE l.first = l.last)
    BY DEF LinesFit
  <2>1. /\ Chained(text, lines) /\ IsText(text) /\ IsMeasured(text) /\ Count(text) \in Nat
        /\ text.w \in Nat
    BY TextKnown
  <2>2. lines \in Seq(Spans) /\ lines[n] \in Spans /\ Len(lines) \in Nat
    BY DEF IInv, TypeOK
  <2>3. Held(text, lines[n])
    BY <2>1 DEF Chained
  <2>4. Advance(text, lines[n].first, lines[n].last) \in Nat
    <3>1. lines[n].first \in Nat \ {0} /\ lines[n].last \in Nat /\ lines[n].first <= lines[n].first
      BY <2>2 DEF Spans
    <3> QED BY <3>1, <2>1, <2>3, AdvanceGrows DEF Held
  <2>5. CASE ~lines[n].dots
    BY <2>1, <2>3, <2>4, <2>5 DEF Held
  <2>6. CASE lines[n].dots
    <3>1. n = Len(lines)
      <4> SUFFICES ASSUME n # Len(lines) PROVE FALSE
        OBVIOUS
      <4>1. n \in 1..(Len(lines) - 1)
        BY <2>2
      <4> QED BY <4>1, <2>1, <2>6 DEF Chained, Follows
    <3>2. Dotted(text, lines[n])
      BY <3>1, <2>2, <2>6 DEF IInv, LinesAgree, LastLine
    <3> QED BY <3>2, <2>6 DEF Dotted
  <2> QED BY <2>5, <2>6
<1> QED BY <1>1, Inductive, PTL

\* No character but spaces and newlines is lost between lines, and what the
\* box has no room for is behind an ellipsis.
THEOREM TextKept == Spec => []NothingLost
<1>1. IInv => NothingLost
  <2> SUFFICES ASSUME IInv, stage = "drawing"
               PROVE  /\ Breaks(text, 0, lines[1].first)
                      /\ \A n \in 1..(Len(lines) - 1) :
                           ~lines[n].dots /\ Breaks(text, lines[n].last, lines[n + 1].first)
                      /\ Covered(text)
    BY DEF NothingLost
  <2>1. Chained(text, lines)
    BY Started, TextKnown
  <2>2. lines # << >>
    BY DEF IInv, TypeOK
  <2>3. Covered(text)
    BY DEF IInv, LinesAgree
  <2> QED BY <2>1, <2>2, <2>3 DEF Chained, Follows
<1> QED BY <1>1, Inductive, PTL

\* Wrapping is greedy, and breaks within words only where it must.
THEOREM Greedy == Spec => []BreaksForced
<1>1. IInv => BreaksForced
  <2> SUFFICES ASSUME IInv, nth > 0, Wraps(text), NEW n \in 1..(Len(lines) - 1)
               PROVE  Forced(text, lines[n], lines[n + 1].first)
    BY DEF BreaksForced
  <2>1. Chained(text, lines)
    BY TextKnown
  <2> QED BY <2>1 DEF Chained, Follows
<1> QED BY <1>1, Inductive, PTL

\* The second cut to max_text_length cuts nothing off a line.
THEOREM CutOnce == Spec => []DrawnWhole
<1>1. IInv => DrawnWhole
  BY ShownWhole DEF DrawnWhole
<1> QED BY <1>1, Inductive, PTL

-----------------------------------------------------------------------------
(* Baselines.                                                              *)

LEMMA Quotient ==
  ASSUME NEW a \in Nat, NEW b \in Nat \ {0}
  PROVE  a \div b \in Nat /\ b * (a \div b) <= a /\ a < b * (a \div b) + b
OBVIOUS

\* What is in the range of an i64 is not wrapped around.
LEMMA AsI64Exact ==
  ASSUME NEW n \in Int, -Half <= n, n < Half
  PROVE  AsI64(n) = n
<1>1. Half \in Nat /\ 2 * Half \in Nat /\ n + Half \in Nat /\ n + Half < 2 * Half
  BY LimitAssumption
<1>2. ASSUME NEW a \in Nat, NEW b \in Nat, a < b PROVE a % b = a
  BY <1>2
<1>3. (n + Half) % (2 * Half) = n + Half
  BY <1>1, <1>2
<1> QED BY <1>1, <1>3 DEF AsI64

\* A descent is 1.2 * size for each line above, cut to an integer or one less.
LEMMA DescentRange ==
  ASSUME NEW t, IsText(t), NEW n \in Nat, NEW d \in Descents(t, n)
  PROVE  /\ d \in Nat
         /\ 5 * d <= 6 * (t.size * n)
         /\ 6 * (t.size * n) <= 5 * (d + 1)
<1>1. t.size \in Nat /\ t.size * n \in Nat
  BY DEF IsText
<1>2. 6 * t.size * n = 6 * (t.size * n)
  BY <1>1
<1> DEFINE a == 6 * (t.size * n)
           k == a \div 5
<1>3. a \in Nat /\ k \in Nat /\ 5 * k <= a /\ a < 5 * k + 5
  <2>1. a \in Nat
    BY <1>1
  <2> HIDE DEF a
  <2> QED BY <2>1
<1>4. d \in {k - 1, k} /\ 0 <= d /\ a <= 5 * (d + 1)
  BY <1>2 DEF Descents
<1> HIDE DEF k
<1>5. d \in Nat /\ 5 * d <= a /\ a <= 5 * (d + 1)
  <2> HIDE DEF a
  <2> QED BY <1>3, <1>4
<1> QED BY <1>5

\* Lower lines are not drawn higher.
LEMMA DescentsRise ==
  ASSUME NEW t, IsText(t), NEW n \in Nat, NEW m \in Nat, n < m,
         NEW d \in Descents(t, n), NEW e \in Descents(t, m)
  PROVE  d <= e
<1> DEFINE a == t.size * n
           b == t.size * m
<1>1. t.size \in Nat /\ a \in Nat /\ b \in Nat
  BY DEF IsText
<1>2. b >= a + t.size
  <2>1. b = a + t.size * (m - n)
    BY <1>1
  <2>2. m - n >= 1 /\ m - n \in Nat
    OBVIOUS
  <2>3. \A s \in Nat, k \in Nat : k >= 1 => s * k >= s
    OBVIOUS
  <2>4. t.size * (m - n) >= t.size /\ t.size * (m - n) \in Nat
    BY <1>1, <2>2, <2>3
  <2> HIDE DEF a, b
  <2> QED BY <1>1, <2>1, <2>4
<1>3. d \in Nat /\ e \in Nat /\ 5 * d <= 6 * a /\ 6 * b <= 5 * (e + 1)
  BY DescentRange
<1>4. t.size = 0 => a = 0
  BY <1>1
<1> HIDE DEF a, b
<1> QED BY <1>1, <1>2, <1>3, <1>4

LEMMA BaselineExact ==
  ASSUME NEW t, IsText(t), Fits(t), NEW n \in Nat, n <= Count(t) + 1,
         NEW y \in Baselines(t, n)
  PROVE  \E d \in Descents(t, n) : y = t.y + t.size + d
<1>1. PICK d \in Descents(t, n) : y = AsI64(AsI64(t.y + t.size) + d)
  BY DEF Baselines
<1>2. t.y \in Int /\ t.size \in Nat /\ t.size * n \in Nat /\ Count(t) \in Nat
  BY CountType DEF IsText
<1> DEFINE c == MaxOf(2 * t.size, 2) * (Count(t) + 1)
<1>3. d \in Nat /\ 5 * d <= 6 * (t.size * n)
  BY DescentRange
<1>4. d <= c /\ c \in Nat
  <2>1. t.size * n <= t.size * (Count(t) + 1) /\ t.size * (Count(t) + 1) \in Nat
    <3>1. \A i, j, k \in Nat : j <= k => i * j <= i * k
      OBVIOUS
    <3> QED BY <3>1, <1>2
  <2>2. MaxOf(2 * t.size, 2) \in Nat /\ MaxOf(2 * t.size, 2) >= 2 * t.size
    BY <1>2 DEF MaxOf
  <2>3. c >= (2 * t.size) * (Count(t) + 1) /\ c \in Nat
    <3>1. \A i, j, k \in Nat : j <= k => j * i <= k * i
      OBVIOUS
    <3> QED BY <3>1, <2>2, <1>2
  <2>4. (2 * t.size) * (Count(t) + 1) = 2 * (t.size * (Count(t) + 1))
    BY <1>2
  <2> HIDE DEF c
  <2> QED BY <1>2, <1>3, <2>1, <2>3, <2>4
<1>5. -Half <= t.y /\ t.y + t.size + c < Half /\ Half \in Nat
  BY LimitAssumption DEF Fits
<1> HIDE DEF c
<1>6. AsI64(t.y + t.size) = t.y + t.size
  BY <1>2, <1>4, <1>5, AsI64Exact
<1>7. AsI64(t.y + t.size + d) = t.y + t.size + d
  BY <1>2, <1>3, <1>4, <1>5, AsI64Exact
<1> QED BY <1>1, <1>6, <1>7

\* A box one line high has room for all lines it is said to hold.
LEMMA LowestLine ==
  ASSUME NEW t, IsText(t), MaxLines(t) # None, 6 * t.size <= 5 * t.h,
         NEW n \in Nat, n < MaxLines(t), NEW d \in Descents(t, n)
  PROVE  t.size + d <= t.h
<1>1. t.h \in Nat \ {0} /\ t.size \in Nat \ {0}
  BY DEF MaxLines, IsText
<1> DEFINE q == (5 * t.h) \div (6 * t.size)
<1>2. q \in Nat /\ (6 * t.size) * q <= 5 * t.h
  <2>1. 5 * t.h \in Nat /\ 6 * t.size \in Nat \ {0}
    BY <1>1
  <2> QED BY <2>1, Quotient
<1>3. MaxLines(t) = MaxOf(q, 1)
  BY <1>1, LimitAssumption DEF MaxLines
<1>4. d \in Nat /\ 5 * d <= 6 * (t.size * n)
  BY DescentRange
<1> HIDE DEF q
<1>5. CASE n = 0
  <2>1. d = 0
    BY <1>4, <1>5, <1>1
  <2> QED BY <2>1, <1>1
<1>6. CASE n # 0
  <2>1. n + 1 <= q
    BY <1>2, <1>3, <1>6 DEF MaxOf
  <2>2. t.size * (n + 1) <= t.size * q /\ t.size * q \in Nat /\ t.size * n \in Nat
    <3>1. \A i, j, k \in Nat : j <= k => i * j <= i * k
      OBVIOUS
    <3> QED BY <3>1, <2>1, <1>1, <1>2
  <2>3. t.size * (n + 1) = t.size * n + t.size
    <3>1. \A i, k \in Nat : i * (k + 1) = i * k + i
      OBVIOUS
    <3> QED BY <3>1, <1>1
  <2>4. (6 * t.size) * q = 6 * (t.size * q)
    BY <1>1, <1>2
  <2> QED BY <1>1, <1>2, <1>4, <2>2, <2>3, <2>4
<1> QED BY <1>5, <1>6

LEMMA BaselinesRise ==
  ASSUME NEW t, IsText(t), Fits(t), NEW n \in Nat, NEW m \in Nat, n < m, m <= Count(t) + 1,
         NEW y \in Baselines(t, n), NEW z \in Baselines(t, m)
  PROVE  y <= z
<1>1. n <= Count(t) + 1
  BY CountType
<1>2. PICK d \in Descents(t, n) : y = t.y + t.size + d
  BY <1>1, BaselineExact
<1>3. PICK e \in Descents(t, m) : z = t.y + t.size + e
  BY BaselineExact
<1>4. d <= e
  BY DescentsRise
<1>5. d \in Nat /\ e \in Nat
  BY DescentRange
<1>6. t.y \in Int /\ t.size \in Int
  BY DEF IsText
<1> QED BY <1>2, <1>3, <1>4, <1>5, <1>6

LEMMA BaselineHeld ==
  ASSUME NEW t, IsText(t), Fits(t), NEW n \in Nat, n <= Count(t),
         MaxLines(t) = None \/ n < MaxLines(t), NEW y \in Baselines(t, n)
  PROVE  /\ t.y + t.size <= y
         /\ MaxLines(t) # None /\ 6 * t.size <= 5 * t.h => y <= t.y + t.h
<1>1. n <= Count(t) + 1
  BY CountType
<1>2. PICK d \in Descents(t, n) : y = t.y + t.size + d
  BY <1>1, BaselineExact
<1>3. d \in Nat
  BY DescentRange
<1>4. t.y \in Int /\ t.size \in Int
  BY DEF IsText
<1>5. ASSUME MaxLines(t) # None, 6 * t.size <= 5 * t.h PROVE y <= t.y + t.h
  <2>1. t.size + d <= t.h
    BY <1>5, LowestLine
  <2>2. t.h \in Int
    BY <1>5 DEF MaxLines, IsText
  <2> QED BY <2>1, <2>2, <1>2, <1>3, <1>4
<1> QED BY <1>2, <1>3, <1>4, <1>5

\* Lines of a layout are no more than its characters, and no more than the box holds.
LEMMA LinesCounted ==
  ASSUME IInv, stage = "drawing"
  PROVE  /\ Len(lines) \in Nat /\ Len(lines) <= Count(text) + 1
         /\ MaxLines(text) = None \/ Len(lines) <= MaxLines(text)
<1>1. lines \in Seq(Spans) /\ lines # << >> /\ Len(lines) \in Nat
  BY DEF IInv, TypeOK
<1>2. Chained(text, lines) /\ Count(text) \in Nat /\ IsText(text)
  BY Started, TextKnown
<1>3. Len(lines) \in 1..Len(lines)
  BY <1>1
<1>4. Held(text, LastLine) /\ Len(lines) <= LastLine.first
  BY <1>2, <1>3 DEF Chained, LastLine
<1>5. LastLine.first \in Nat /\ LastLine.last \in Nat
  <2>1. LastLine \in Spans
    BY <1>1, <1>3 DEF LastLine
  <2> QED BY <2>1 DEF Spans
<1>6. Covered(text)
  BY DEF IInv, LinesAgree
<1>7. MaxLines(text) = None \/ MaxLines(text) \in Nat
  BY <1>2, MaxLinesType
<1>8. MaxLines(text) = None \/ Len(lines) <= MaxLines(text)
  BY <1>1, <1>6, <1>7 DEF Covered, TooMany
<1> QED BY <1>1, <1>2, <1>4, <1>5, <1>8 DEF Held

\* Drawing a line appends elements with one of its baselines, if any.
LEMMA Drawing ==
  ASSUME IInv, Draw
  PROVE  \E y \in Baselines(text, row) :
           \A n \in 1..Len(drawn') :
             \/ n \in 1..Len(drawn) /\ drawn'[n] = drawn[n]
             \/ n > Len(drawn) /\ drawn'[n].text = nth /\ drawn'[n].y = y
<1> DEFINE l == Shown(lines[row + 1])
           At(y, ink) == [text |-> nth, line |-> l, y |-> y, ink |-> ink]
<1>1. PICK y \in Baselines(text, row) :
           drawn' = drawn \o
             (IF Empty(l) /\ ~l.dots THEN << >>
              ELSE IF text.outline THEN <<At(y, "stroke"), At(y, "fill")>> ELSE <<At(y, "fill")>>)
  BY DEF Draw
<1>2. /\ At(y, "stroke").text = nth /\ At(y, "stroke").y = y
      /\ At(y, "fill").text = nth /\ At(y, "fill").y = y
  OBVIOUS
<1> HIDE DEF At, l
<1> DEFINE Element == [text: 1..Len(job), line: Spans, y: Int, ink: {"stroke", "fill"}]
<1>3. drawn \in Seq(Element) /\ Len(drawn) \in Nat
  BY DEF IInv, TypeOK
<1>4. \E s : /\ drawn' = drawn \o s
             /\ s = << >> \/ s = <<At(y, "stroke"), At(y, "fill")>> \/ s = <<At(y, "fill")>>
  BY <1>1
<1>5. PICK s : /\ drawn' = drawn \o s
               /\ s = << >> \/ s = <<At(y, "stroke"), At(y, "fill")>> \/ s = <<At(y, "fill")>>
  BY <1>4
<1> HIDE DEF Element
<1>6. /\ s \in Seq({At(y, "stroke"), At(y, "fill")}) /\ Len(s) \in Nat
      /\ \A i \in 1..Len(s) : s[i].text = nth /\ s[i].y = y
  <2>1. CASE s = << >>
    BY <2>1
  <2>2. CASE s = <<At(y, "stroke"), At(y, "fill")>>
    <3>1. Len(s) = 2 /\ s[1] = At(y, "stroke") /\ s[2] = At(y, "fill")
      BY <2>2
    <3>2. \A i \in 1..Len(s) : i = 1 \/ i = 2
      BY <3>1
    <3> QED BY <2>2, <3>1, <3>2, <1>2
  <2>3. CASE s = <<At(y, "fill")>>
    BY <2>3, <1>2
  <2> QED BY <2>1, <2>2, <2>3, <1>5
<1>7. /\ Len(drawn') = Len(drawn) + Len(s)
      /\ \A n \in 1..Len(drawn') :
           drawn'[n] = IF n <= Len(drawn) THEN drawn[n] ELSE s[n - Len(drawn)]
  BY <1>3, <1>5, <1>6
<1>8. ASSUME NEW n \in 1..Len(drawn')
      PROVE  \/ n \in 1..Len(drawn) /\ drawn'[n] = drawn[n]
             \/ n > Len(drawn) /\ drawn'[n].text = nth /\ drawn'[n].y = y
  <2>1. CASE n <= Len(drawn)
    BY <2>1, <1>3, <1>7
  <2>2. CASE n > Len(drawn)
    <3>1. n - Len(drawn) \in 1..Len(s) /\ drawn'[n] = s[n - Len(drawn)]
      BY <2>2, <1>3, <1>6, <1>7
    <3> QED BY <2>2, <3>1, <1>6
  <2> QED BY <2>1, <2>2, <1>3, <1>6, <1>7
<1> QED BY <1>8

LEMMA DrawnType ==
  ASSUME IInv
  PROVE  /\ Len(drawn) \in Nat
         /\ \A n \in 1..Len(drawn) : drawn[n].text \in Nat /\ drawn[n].y \in Int
<1> DEFINE Element == [text: 1..Len(job), line: Spans, y: Int, ink: {"stroke", "fill"}]
<1>1. drawn \in Seq(Element)
  BY DEF IInv, TypeOK
<1>2. \A e \in Element : e.text \in Nat /\ e.y \in Int
  OBVIOUS
<1> HIDE DEF Element
<1> QED BY <1>1, <1>2

LEMMA DrawBelow ==
  ASSUME IInv, DrawnAgree, BaselinesInBox, Draw
  PROVE  DrawnAgree' /\ BaselinesInBox'
<1>1. /\ stage = "drawing" /\ row < Len(lines) /\ row' = row + 1
      /\ UNCHANGED <<job, nth, stage, lines>> /\ text' = text
  BY DEF Draw, text
<1>2. nth > 0 /\ IsText(text) /\ Count(text) \in Nat
  BY <1>1, Started, TextKnown
<1>3. row \in Nat /\ Len(drawn) \in Nat /\ nth \in Nat /\ \A n \in 1..Len(drawn) : drawn[n].y \in Int
  <2>1. row \in Nat /\ nth \in Nat
    <3>1. row \in 0..Len(lines) /\ lines \in Seq(Spans)
      BY DEF IInv, TypeOK
    <3>2. nth \in 0..Len(job)
      BY DEF IInv, TypeOK
    <3> QED BY <3>1, <3>2
  <2> QED BY <2>1, DrawnType
<1>4. /\ Len(lines) \in Nat /\ Len(lines) <= Count(text) + 1
      /\ MaxLines(text) = None \/ Len(lines) <= MaxLines(text)
  BY <1>1, LinesCounted
<1>5. /\ row <= Count(text) /\ row + 1 \in Nat /\ row + 1 <= Count(text) + 1
      /\ MaxLines(text) = None \/ row < MaxLines(text)
  <2>1. MaxLines(text) = None \/ MaxLines(text) \in Nat
    BY <1>2, MaxLinesType
  <2> QED BY <2>1, <1>1, <1>2, <1>3, <1>4
<1>6. PICK y \in Baselines(text, row) :
           \A n \in 1..Len(drawn') :
             \/ n \in 1..Len(drawn) /\ drawn'[n] = drawn[n]
             \/ n > Len(drawn) /\ drawn'[n].text = nth /\ drawn'[n].y = y
  BY Drawing
<1>7. y \in Int
  BY <1>2, <1>3, BaselineType
<1>8. ASSUME Fits(text) PROVE \A z \in Baselines(text, row') : z \in Int /\ y <= z
  <2>1. \A z \in Baselines(text, row + 1) : y <= z
    BY <1>2, <1>3, <1>5, <1>8, BaselinesRise
  <2>2. Baselines(text, row + 1) \subseteq Int
    BY <1>2, <1>5, BaselineType
  <2> QED BY <2>1, <2>2, <1>1
\* What was drawn of this text lies above y, and y in the box.
<1>9. ASSUME NEW n \in 1..Len(drawn), drawn[n].text = nth, Fits(text) PROVE drawn[n].y <= y
  BY <1>1, <1>9 DEF DrawnAgree
<1>10. ASSUME Fits(text)
       PROVE  /\ text.y + text.size <= y
              /\ MaxLines(text) # None /\ 6 * text.size <= 5 * text.h => y <= text.y + text.h
  BY <1>2, <1>3, <1>5, <1>10, BaselineHeld
<1>11. DrawnAgree'
  <2> SUFFICES ASSUME NEW n \in 1..Len(drawn')
               PROVE  /\ drawn'[n].text <= nth
                      /\ drawn'[n].text = nth /\ Fits(text) =>
                           \A z \in Baselines(text, row') : drawn'[n].y <= z
    BY <1>1 DEF DrawnAgree
  <2>1. CASE n \in 1..Len(drawn) /\ drawn'[n] = drawn[n]
    <3>1. drawn[n].text <= nth /\ drawn[n].y \in Int
      BY <2>1, <1>3 DEF DrawnAgree
    <3>2. drawn[n].text = nth /\ Fits(text) => drawn[n].y <= y
      BY <2>1, <1>9
    <3> QED BY <2>1, <3>1, <3>2, <1>7, <1>8
  <2>2. CASE drawn'[n].text = nth /\ drawn'[n].y = y
    BY <2>2, <1>3, <1>8
  <2> QED BY <2>1, <2>2, <1>6
<1>12. BaselinesInBox'
  <2> DEFINE t(n) == job[drawn'[n].text]
  <2> SUFFICES ASSUME NEW n \in 1..Len(drawn'), Fits(t(n))
               PROVE  /\ t(n).y + t(n).size <= drawn'[n].y
                      /\ MaxLines(t(n)) # None /\ 6 * t(n).size <= 5 * t(n).h =>
                           drawn'[n].y <= t(n).y + t(n).h
                      /\ \A m \in 1..(n - 1) :
                           drawn'[m].text = drawn'[n].text => drawn'[m].y <= drawn'[n].y
    BY <1>1 DEF BaselinesInBox
  <2>1. CASE n \in 1..Len(drawn) /\ drawn'[n] = drawn[n]
    <3>1. \A m \in 1..(n - 1) : m \in 1..Len(drawn) /\ m \in 1..Len(drawn') /\ drawn'[m] = drawn[m]
      BY <2>1, <1>3, <1>6
    <3> QED BY <2>1, <3>1 DEF BaselinesInBox
  <2>2. CASE drawn'[n].text = nth /\ drawn'[n].y = y
    <3>1. t(n) = text /\ Fits(text)
      BY <2>2 DEF text
    <3>2. ASSUME NEW m \in 1..(n - 1), drawn'[m].text = nth PROVE drawn'[m].y <= y
      <4>1. m \in 1..Len(drawn')
        OBVIOUS
      <4>2. CASE m \in 1..Len(drawn) /\ drawn'[m] = drawn[m]
        BY <4>2, <3>1, <3>2, <1>9
      <4>3. CASE drawn'[m].y = y
        BY <4>3, <1>7
      <4> QED BY <4>1, <4>2, <4>3, <1>6
    <3> QED BY <2>2, <3>1, <3>2, <1>10
  <2> QED BY <2>1, <2>2, <1>6
<1> QED BY <1>11, <1>12

LEMMA BaselinesKept ==
  ASSUME IInv, DrawnAgree, BaselinesInBox, [Next]_vars
  PROVE  DrawnAgree' /\ BaselinesInBox'
<1>1. nth \in Nat /\ Len(drawn) \in Nat /\ \A n \in 1..Len(drawn) : drawn[n].text \in Nat
  <2>1. nth \in 0..Len(job)
    BY DEF IInv, TypeOK
  <2> QED BY <2>1, DrawnType
<1>2. ASSUME UNCHANGED <<job, drawn>> PROVE BaselinesInBox'
  BY <1>2 DEF BaselinesInBox
<1>3. CASE Draw
  BY <1>3, DrawBelow
<1>4. CASE NextText
  <2>1. UNCHANGED <<job, drawn>> /\ nth' = nth + 1
    BY <1>4 DEF NextText
  <2>2. DrawnAgree'
    BY <2>1, <1>1 DEF DrawnAgree
  <2> QED BY <2>1, <2>2, <1>2
<1>5. CASE AllTexts \/ Drawn
  <2>1. UNCHANGED <<job, nth, drawn>> /\ stage' \in {"texts", "done"}
    BY <1>5 DEF AllTexts, Drawn
  <2>2. DrawnAgree'
    BY <2>1 DEF DrawnAgree
  <2> QED BY <2>1, <2>2, <1>2
<1>6. ASSUME stage \notin {"texts", "drawing", "done"}, UNCHANGED <<job, nth, drawn>>
      PROVE  DrawnAgree' /\ BaselinesInBox'
  <2>1. \A n \in 1..Len(drawn) : drawn[n].text <= nth /\ drawn[n].text # nth
    BY <1>6 DEF DrawnAgree
  <2>2. DrawnAgree'
    BY <2>1, <1>6 DEF DrawnAgree
  <2> QED BY <2>2, <1>2, <1>6
<1>7. ASSUME NEW e \in Places, Verbatim(e) \/ EndParagraph(e) \/ Ellipsize(e - 1)
      PROVE  DrawnAgree' /\ BaselinesInBox'
  <2>1. stage \notin {"texts", "drawing", "done"} /\ UNCHANGED <<job, nth, drawn>>
    BY <1>7 DEF Verbatim, EndParagraph, Ellipsize, Leave
  <2> QED BY <2>1, <1>6
<1>8. ASSUME NEW i \in Places, NEW k \in Places,
             LongWord(i, k) \/ WordStarts(i, k) \/ WordJoins(i, k)
      PROVE  DrawnAgree' /\ BaselinesInBox'
  <2>1. stage \notin {"texts", "drawing", "done"} /\ UNCHANGED <<job, nth, drawn>>
    BY <1>8 DEF LongWord, WordStarts, WordJoins, ReadsWord
  <2> QED BY <2>1, <1>6
<1>9. CASE BreakGlyph \/ AllFit \/ Truncate \/ Shorten
  <2>1. stage \notin {"texts", "drawing", "done"} /\ UNCHANGED <<job, nth, drawn>>
    BY <1>9 DEF BreakGlyph, AllFit, Truncate, Shorten
  <2> QED BY <2>1, <1>6
<1>10. CASE UNCHANGED vars
  BY <1>10 DEF vars, DrawnAgree, BaselinesInBox, text
<1> QED BY <1>3, <1>4, <1>5, <1>7, <1>8, <1>9, <1>10 DEF Next

\* A text whose offsets stay clear of the ends of i64 is drawn downwards and
\* inside its box, if that is at least one line high.
THEOREM DrawnInBox == Spec => []BaselinesInBox
<1>1. Init => DrawnAgree /\ BaselinesInBox
  BY DEF Init, DrawnAgree, BaselinesInBox
<1>2. IInv /\ DrawnAgree /\ BaselinesInBox /\ [Next]_vars => DrawnAgree' /\ BaselinesInBox'
  BY BaselinesKept
<1> QED BY <1>1, <1>2, Inductive, PTL DEF Spec

-----------------------------------------------------------------------------
(* Progress.                                                               *)

LEMMA LeftType ==
  ASSUME IInv
  PROVE  Left \in Nat
<1>1. CASE stage \in {"paragraph", "breaking"}
  <2>1. pos \in Nat /\ pos <= Count(text) + 1
    BY <1>1, Reading
  <2>2. Count(text) \in Nat
    BY <1>1, Started, TextKnown
  <2> QED BY <1>1, <2>1, <2>2 DEF Left
<1>2. CASE stage = "ellipsis"
  <2>1. LastLine.last \in Nat
    BY <1>2, LastLineKnown
  <2> QED BY <1>2, <2>1 DEF Left
<1>3. CASE stage = "drawing"
  <2>1. row \in 0..Len(lines) /\ lines \in Seq(Spans)
    BY DEF IInv, TypeOK
  <2>2. Len(lines) \in Nat
    BY <2>1
  <2> QED BY <1>3, <2>1, <2>2 DEF Left
<1>4. CASE stage \notin {"paragraph", "breaking", "ellipsis", "drawing"}
  BY <1>4 DEF Left
<1> QED BY <1>1, <1>2, <1>3, <1>4

\* A step that reads on in a paragraph.
LEMMA ReadsOn ==
  ASSUME IInv, stage \in {"paragraph", "breaking"}, UNCHANGED <<job, nth>>,
         stage' \in {"paragraph", "breaking"}, pos' \in Nat,
         pos' > pos \/ (pos' = pos /\ stage = "paragraph" /\ stage' = "breaking")
  PROVE  Ahead(stage') = Ahead(stage) /\ Left' < Left
<1>1. text' = text
  BY DEF text
<1>2. pos \in Nat /\ Count(text) \in Nat
  BY Started, TextKnown, Reading
<1>3. Ahead(stage') = Ahead(stage)
  BY DEF Ahead
<1>4. Left = 2 * (Count(text) + 2 - pos) + (IF stage = "paragraph" THEN 1 ELSE 0)
  BY <1>2 DEF Left
<1>5. Left' = 2 * (Count(text) + 2 - pos') + (IF stage' = "paragraph" THEN 1 ELSE 0)
  BY <1>1, <1>2 DEF Left
<1> QED BY <1>2, <1>3, <1>4, <1>5

LEMMA LeaveProgresses ==
  ASSUME IInv, stage = "paragraph", NEW e \in Nat, pos <= e, Leave(e)
  PROVE  Progressed
<1>1. UNCHANGED <<job, nth>> /\ pos' = e + 1 /\ (stage' = "fitting" \/ stage' = "paragraph")
  BY DEF Leave
<1>2. CASE stage' = "fitting"
  BY <1>1, <1>2 DEF Progressed, Ahead
<1>3. CASE stage' = "paragraph"
  <2>1. pos \in Nat
    BY Reading
  <2>2. Ahead(stage') = Ahead(stage) /\ Left' < Left
    BY <1>1, <1>3, <2>1, ReadsOn
  <2> QED BY <1>1, <2>2 DEF Progressed
<1> QED BY <1>1, <1>2, <1>3

LEMMA StepProgresses ==
  ASSUME IInv, Next
  PROVE  Progressed
<1>1. nth \in Nat /\ Places \subseteq Nat
  <2>1. nth \in Nat
    BY DEF IInv, TypeOK
  <2>2. CASE nth = 0
    BY <2>1, <2>2 DEF Places
  <2>3. CASE nth # 0
    <3>1. Count(text) \in Nat
      BY <2>1, <2>3, TextKnown
    <3> QED BY <2>1, <2>3, <3>1 DEF Places
  <2> QED BY <2>1, <2>2, <2>3
<1>2. CASE NextText
  BY <1>1, <1>2 DEF NextText, Progressed
<1>3. CASE AllTexts \/ AllFit \/ Truncate \/ Drawn
  BY <1>3 DEF AllTexts, AllFit, Truncate, Drawn, Progressed, Ahead
<1>4. ASSUME NEW e \in Places, Verbatim(e) \/ EndParagraph(e) \/ Ellipsize(e - 1) PROVE Progressed
  <2>1. CASE Verbatim(e) \/ EndParagraph(e)
    <3>1. stage = "paragraph" /\ pos <= e /\ Leave(e) /\ e \in Nat
      BY <2>1, <1>1 DEF Verbatim, EndParagraph
    <3> QED BY <3>1, LeaveProgresses
  <2>2. CASE Ellipsize(e - 1)
    BY <2>2 DEF Ellipsize, Progressed, Ahead
  <2> QED BY <1>4, <2>1, <2>2
<1>5. ASSUME NEW i \in Places, NEW k \in Places,
             LongWord(i, k) \/ WordStarts(i, k) \/ WordJoins(i, k)
      PROVE  Progressed
  <2>1. /\ stage = "paragraph" /\ pos <= i /\ i <= k /\ UNCHANGED <<job, nth>>
        /\ i \in Nat /\ k \in Nat
    BY <1>1, <1>5 DEF LongWord, WordStarts, WordJoins, ReadsWord, IsWord
  <2>2. pos \in Nat
    BY <2>1, Reading
  <2>3. \/ stage' = "breaking" /\ pos' = i
        \/ stage' = "paragraph" /\ pos' = k + 1
    BY <1>5, <2>1 DEF LongWord, WordStarts, WordJoins
  <2>4. Ahead(stage') = Ahead(stage) /\ Left' < Left
    BY <2>1, <2>2, <2>3, ReadsOn
  <2> QED BY <2>1, <2>4 DEF Progressed
<1>6. CASE BreakGlyph
  <2>1. /\ stage = "breaking" /\ stage' \in {"paragraph", "breaking"} /\ pos' = pos + 1
        /\ UNCHANGED <<job, nth>>
    BY <1>6 DEF BreakGlyph
  <2>2. pos \in Nat
    BY <2>1, Reading
  <2>3. Ahead(stage') = Ahead(stage) /\ Left' < Left
    BY <2>1, <2>2, ReadsOn
  <2> QED BY <2>1, <2>3 DEF Progressed
<1>7. CASE Shorten
  <2>1. /\ stage = "ellipsis" /\ stage' = stage /\ UNCHANGED <<job, nth>>
        /\ Crowds(LastLine)
        /\ lines' = [lines EXCEPT ![Len(lines)].last = IF Empty(LastLine) THEN @ ELSE @ - 1]
    BY <1>7 DEF Shorten
  <2>2. /\ lines \in Seq(Spans) /\ Len(lines) \in Nat \ {0}
        /\ LastLine \in Spans /\ LastLine.last \in Nat
    BY <2>1, LastLineKnown
  <2>3. ~Empty(LastLine)
    BY <2>1 DEF Crowds
  <2>4. LastLine'.last = LastLine.last - 1
    <3>1. Len(lines) \in 1..Len(lines)
      BY <2>2
    <3>2. Len(lines') = Len(lines)
      BY <2>1, <2>2
    <3> QED BY <2>1, <2>2, <2>3, <3>1, <3>2 DEF LastLine, Spans
  <2>5. Left' < Left
    BY <2>1, <2>2, <2>4 DEF Left
  <2> QED BY <2>1, <2>5 DEF Progressed
<1>8. CASE Draw
  <2>1. /\ stage = "drawing" /\ stage' = stage /\ row' = row + 1 /\ UNCHANGED <<job, nth, lines>>
    BY <1>8 DEF Draw
  <2>2. row \in Nat /\ Len(lines) \in Nat
    <3>1. row \in 0..Len(lines) /\ lines \in Seq(Spans)
      BY DEF IInv, TypeOK
    <3> QED BY <3>1
  <2>3. Left' < Left
    BY <2>1, <2>2 DEF Left
  <2> QED BY <2>1, <2>3 DEF Progressed
<1> QED BY <1>2, <1>3, <1>4, <1>5, <1>6, <1>7, <1>8 DEF Next

\* Every step of layout goes on to the next text or stage or leaves less to do
\* in it, a natural number: it comes to an end wherever Next goes on being taken.
THEOREM Terminates == Spec => MakesProgress
<1>1. IInv /\ [Next]_vars => [Progressed /\ Left \in Nat]_vars
  BY LeftType, StepProgresses
<1> QED BY <1>1, Inductive, PTL DEF Spec, MakesProgress
=============================================================================
