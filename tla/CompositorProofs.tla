--------------------------- MODULE CompositorProofs ---------------------------
(* Theorems of Render and Compositor, for every instance of their constants. *)
EXTENDS Render, TLAPS

-----------------------------------------------------------------------------
(* Integers.                                                               *)

LEMMA SmallMod ==
  ASSUME NEW m \in Nat, m < Word
  PROVE  m % Word = m
BY WordAssumption

LEMMA ModUnique ==
  ASSUME NEW q \in Int, NEW r \in 0..(Word - 1)
  PROVE  (Word * q + r) % Word = r
<1> DEFINE m == Word * q + r
           d == m \div Word
<1>1. m \in Int /\ m = Word * q + r /\ r \in Int
  <2>1. Word * q \in Int
    BY WordAssumption
  <2>2. QED
    BY <2>1, WordAssumption
<1> HIDE DEF m
<1>2. d \in Int /\ m % Word \in 0..(Word - 1) /\ m = Word * d + (m % Word)
  <2>1. m \in Int /\ Word \in Int /\ Word > 0
    BY <1>1, WordAssumption
  <2>2. d \in Int /\ m % Word \in 0..(Word - 1)
    BY <2>1
  <2>3. m = Word * d + (m % Word)
    BY <2>1
  <2>4. QED
    BY <2>2, <2>3
<1> HIDE DEF d
<1>3. Word * (q - d) = (m % Word) - r
  <2>1. Word * (q - d) = Word * q - Word * d
    BY <1>2, WordAssumption
  <2>2. Word * q \in Int /\ Word * d \in Int
    BY <1>2, WordAssumption
  <2> DEFINE a == Word * q
             b == Word * d
  <2> HIDE DEF a, b
  <2>3. a \in Int /\ b \in Int /\ m = a + r /\ m = b + (m % Word) /\ Word * (q - d) = a - b
    BY <1>1, <1>2, <2>1, <2>2 DEF a, b
  <2>4. QED
    BY <1>1, <1>2, <2>3, WordAssumption
<1>4. CASE q - d >= 1
  <2>1. Word * (q - d) >= Word
    BY <1>2, <1>4, WordAssumption
  <2>2. QED
    BY <1>2, <1>3, <2>1, WordAssumption
<1>5. CASE q - d <= -1
  <2>1. Word * (q - d) <= -Word
    BY <1>2, <1>5, WordAssumption
  <2>2. QED
    BY <1>2, <1>3, <2>1, WordAssumption
<1>6. CASE q = d
  <2>1. (m % Word) - r = 0
    BY <1>2, <1>3, <1>6, WordAssumption
  <2>2. QED
    BY <1>1, <1>2, <2>1
<1>7. QED
  BY <1>2, <1>4, <1>5, <1>6

\* Adding less than a word moves a remainder up by that much, or around.
LEMMA ModStep ==
  ASSUME NEW m \in Nat, NEW b \in Nat, b < Word
  PROVE  /\ m % Word \in 0..(Word - 1)
         /\ (m + b) % Word = (m % Word) + b \/ (m + b) % Word = (m % Word) + b - Word
<1> DEFINE s == m % Word
           q == m \div Word
<1>1. s \in 0..(Word - 1) /\ q \in Int /\ m = Word * q + s
  BY WordAssumption
<1> HIDE DEF s, q
<1>2. CASE s + b < Word
  <2>1. (m + b) % Word = s + b
    BY <1>1, <1>2, WordAssumption
  <2>2. QED
    BY <1>1, <2>1 DEF s
<1>3. CASE s + b >= Word
  <2>1. m + b = Word * (q + 1) + (s + b - Word) /\ s + b - Word \in 0..(Word - 1)
    BY <1>1, <1>3, WordAssumption
  <2>2. (m + b) % Word = s + b - Word
    BY <1>1, <2>1, ModUnique
  <2>3. QED
    BY <1>1, <2>2 DEF s
<1>4. QED
  BY <1>1, <1>2, <1>3, WordAssumption

\* What composite_overlay draws stays inside the image and inside the canvas,
\* for every offset.
LEMMA WindowInside ==
  ASSUME NEW n \in Nat \ {0}, NEW b \in Nat \ {0}, b < Word, NEW x \in Int,
         NEW c \in Span(n, b, x)
  PROVE  c \in 0..(b - 1) /\ From(c, x) \in 0..(n - 1)
<1>1. CASE x < 0
  <2> DEFINE s == (-x) % Word
             e == (b - x) % Word
  <2>1. s \in Int /\ s >= 0 /\ e \in Int /\ e <= s + b
    <3>1. -x \in Nat /\ b - x = -x + b
      BY <1>1
    <3>2. /\ s \in 0..(Word - 1)
          /\ (-x + b) % Word = s + b \/ (-x + b) % Word = s + b - Word
      BY <3>1, ModStep
    <3>3. QED
      BY <3>1, <3>2, WordAssumption
  <2> HIDE DEF s, e
  <2>2. WindowStart(x) = s /\ WindowEnd(n, b, x) = MinOf(n, e) /\ CanvasStart(x) = 0
    BY <1>1, SmallMod, WordAssumption DEF WindowStart, WindowEnd, CanvasStart, MaxOf, s, e
  <2>3. QED
    BY <2>1, <2>2 DEF Span, Length, From, MinOf
<1>2. CASE x >= 0 /\ x < b
  <2>1. WindowStart(x) = 0 /\ WindowEnd(n, b, x) = MinOf(n, b - x) /\ CanvasStart(x) = x
    <3>1. b - x \in Nat /\ b - x < Word /\ x \in Nat /\ x < Word
      BY <1>2, WordAssumption
    <3>2. (b - x) % Word = b - x /\ x % Word = x
      BY <3>1, SmallMod
    <3>3. QED
      BY <1>2, <3>1, <3>2 DEF WindowStart, WindowEnd, CanvasStart, MaxOf
  <2>2. QED
    BY <1>2, <2>1 DEF Span, Length, From, MinOf
<1>3. CASE x >= b
  <2>1. WindowStart(x) = 0 /\ WindowEnd(n, b, x) = 0 /\ CanvasStart(x) \in Int
    BY <1>3, SmallMod, WordAssumption DEF WindowStart, WindowEnd, CanvasStart, MaxOf, MinOf
  <2>2. QED
    BY <2>1 DEF Span, Length
<1>4. QED
  BY <1>1, <1>2, <1>3

\* Within a word of the canvas, what it draws is the overlap of the two.
LEMMA WindowIsOverlap ==
  ASSUME NEW n \in Nat \ {0}, NEW b \in Nat \ {0}, b < Word, NEW x \in Int, x > b - Word,
         NEW c \in 0..(b - 1)
  PROVE  /\ c \in Span(n, b, x) <=> c - x \in 0..(n - 1)
         /\ c \in Span(n, b, x) => From(c, x) = c - x
<1>1. CASE x < 0
  <2>1. -x \in Nat /\ -x < Word /\ b - x \in Nat /\ b - x < Word
    BY <1>1, WordAssumption
  <2>2. WindowStart(x) = -x /\ WindowEnd(n, b, x) = MinOf(n, b - x) /\ CanvasStart(x) = 0
    BY <1>1, <2>1, SmallMod, WordAssumption DEF WindowStart, WindowEnd, CanvasStart, MaxOf
  <2>3. QED
    BY <1>1, <2>2 DEF Span, Length, From, MinOf
<1>2. CASE x >= 0 /\ x < b
  <2>1. WindowStart(x) = 0 /\ WindowEnd(n, b, x) = MinOf(n, b - x) /\ CanvasStart(x) = x
    <3>1. b - x \in Nat /\ b - x < Word /\ x \in Nat /\ x < Word
      BY <1>2, WordAssumption
    <3>2. (b - x) % Word = b - x /\ x % Word = x
      BY <3>1, SmallMod
    <3>3. QED
      BY <1>2, <3>1, <3>2 DEF WindowStart, WindowEnd, CanvasStart, MaxOf
  <2>2. QED
    BY <1>2, <2>1 DEF Span, Length, From, MinOf
<1>3. CASE x >= b
  <2>1. WindowStart(x) = 0 /\ WindowEnd(n, b, x) = 0 /\ CanvasStart(x) \in Int
    BY <1>3, SmallMod, WordAssumption DEF WindowStart, WindowEnd, CanvasStart, MaxOf, MinOf
  <2>2. QED
    BY <1>3, <2>1 DEF Span, Length
<1>4. QED
  BY <1>1, <1>2, <1>3

-----------------------------------------------------------------------------
(* Jobs and marks.                                                         *)

LEMMA JobFacts ==
  ASSUME NEW j \in Jobs
  PROVE  /\ j.w \in Nat \ {0} /\ j.h \in Nat \ {0} /\ j.w < Word /\ j.h < Word
         /\ j.radius \in Nat /\ j.overlays \in Seq(OverlayShapes) /\ Len(j.overlays) \in Nat
         /\ \A i \in 1..Len(j.overlays) : j.overlays[i] \in OverlayShapes
<1>1. j.overlays \in Seq(OverlayShapes)
  BY JobAssumption
<1>2. QED
  BY <1>1, JobAssumption

LEMMA ImageFacts ==
  ASSUME NEW o \in OverlayShapes
  PROVE  /\ o.w \in Nat \ {0} /\ o.h \in Nat \ {0} /\ o.x \in Int /\ o.y \in Int
         /\ Pad(o) \in Nat
         /\ ImageW(o) \in Nat \ {0} /\ ImageH(o) \in Nat \ {0}
         /\ ImageX(o) \in Int /\ ImageY(o) \in Int
         /\ o.deco # None => /\ o.deco.off \in Nat /\ o.deco.reach \in Nat
                             /\ o.deco.off + o.deco.reach < Pad(o)
<1>1. /\ o.w \in Nat \ {0} /\ o.h \in Nat \ {0} /\ o.x \in Int /\ o.y \in Int
      /\ o.deco # None => o.deco.off \in Nat /\ o.deco.reach \in Nat
  BY DEF OverlayShapes
<1>2. Pad(o) \in Nat /\ (o.deco # None => o.deco.off + o.deco.reach < Pad(o))
  BY <1>1 DEF Pad
<1>3. QED
  BY <1>1, <1>2 DEF ImageW, ImageH, ImageX, ImageY

\* The image drawn at its place shows what is asked for there, and what is
\* asked for lies inside the image: the padding holds the whole shadow.
LEMMA ImageShowsAsked ==
  ASSUME NEW o \in OverlayShapes, NEW i, NEW a \in Int, NEW b \in Int
  PROVE  /\ /\ a - ImageX(o) \in 0..(ImageW(o) - 1)
            /\ b - ImageY(o) \in 0..(ImageH(o) - 1)
            => Marks(i, o, a - ImageX(o), b - ImageY(o)) = Asked(i, o, <<a, b>>)
         /\ Asked(i, o, <<a, b>>) # {} =>
              /\ a - ImageX(o) \in 0..(ImageW(o) - 1)
              /\ b - ImageY(o) \in 0..(ImageH(o) - 1)
<1> DEFINE pad == Pad(o)
           cx == a - ImageX(o)
           cy == b - ImageY(o)
           Under == /\ o.deco # None
                    /\ \E s \in Cells(o.w, o.h) :
                         /\ Visible(o, s[1], s[2])
                         /\ Near(a, o.x + s[1], o.deco.reach)
                         /\ Near(b, o.y + o.deco.off + s[2], o.deco.reach)
<1>1. /\ o.w \in Nat \ {0} /\ o.h \in Nat \ {0} /\ o.x \in Int /\ o.y \in Int /\ pad \in Nat
      /\ ImageW(o) = o.w + 2 * pad /\ ImageH(o) = o.h + 2 * pad
      /\ o.deco # None => /\ o.deco.off \in Nat /\ o.deco.reach \in Nat
                          /\ o.deco.off + o.deco.reach < pad
  BY ImageFacts DEF ImageW, ImageH
<1>2. cx = a - o.x + pad /\ cy = b - o.y + pad
  BY <1>1 DEF ImageX, ImageY
<1>3. cx - pad = a - o.x /\ cy - pad = b - o.y
  BY <1>1, <1>2
<1> HIDE DEF cx, cy, pad
<1>4. ASSUME Under
      PROVE  cx \in 0..(ImageW(o) - 1) /\ cy \in 0..(ImageH(o) - 1) /\ Shaded(o, cx, cy)
  <2>1. PICK s \in Cells(o.w, o.h) :
               /\ Visible(o, s[1], s[2])
               /\ Near(a, o.x + s[1], o.deco.reach)
               /\ Near(b, o.y + o.deco.off + s[2], o.deco.reach)
    BY <1>4
  <2> DEFINE t == <<s[1] + pad, s[2] + pad + o.deco.off>>
  <2>2. s[1] \in 0..(o.w - 1) /\ s[2] \in 0..(o.h - 1)
    BY DEF Cells
  <2>3. o.deco # None /\ o.deco.off \in Nat /\ o.deco.reach \in Nat
        /\ o.deco.off + o.deco.reach < pad
    BY <1>1, <1>4
  <2>4. t \in Cells(ImageW(o), ImageH(o))
    BY <1>1, <2>2, <2>3 DEF Cells
  <2>5. t[1] - pad = s[1] /\ t[2] - pad - o.deco.off = s[2]
    BY <1>1, <2>2, <2>3
  <2>6. Near(cx, t[1], o.deco.reach) /\ Near(cy, t[2], o.deco.reach)
    BY <1>1, <1>2, <2>1, <2>2, <2>3 DEF Near
  <2>7. cx \in 0..(ImageW(o) - 1) /\ cy \in 0..(ImageH(o) - 1)
    BY <1>1, <1>2, <2>1, <2>2, <2>3 DEF Near
  <2> HIDE DEF t
  <2>8. Shaded(o, cx, cy)
    BY <2>1, <2>3, <2>4, <2>5, <2>6 DEF Shaded, pad
  <2>9. QED
    BY <2>7, <2>8
<1>5. ASSUME Shaded(o, cx, cy)
      PROVE  Under
  <2>1. PICK t \in Cells(ImageW(o), ImageH(o)) :
               /\ Visible(o, t[1] - pad, t[2] - pad - o.deco.off)
               /\ Near(cx, t[1], o.deco.reach) /\ Near(cy, t[2], o.deco.reach)
    BY <1>5 DEF Shaded, pad
  <2> DEFINE s == <<t[1] - pad, t[2] - pad - o.deco.off>>
  <2>2. o.deco # None /\ o.deco.off \in Nat /\ o.deco.reach \in Nat
    BY <1>1, <1>5 DEF Shaded
  <2>3. t[1] \in Int /\ t[2] \in Int
    BY <1>1 DEF Cells
  <2>4. s \in Cells(o.w, o.h) /\ Visible(o, s[1], s[2])
    BY <2>1 DEF Visible, Cells
  <2>5. Near(a, o.x + s[1], o.deco.reach) /\ Near(b, o.y + o.deco.off + s[2], o.deco.reach)
    BY <1>1, <1>2, <2>1, <2>2, <2>3 DEF Near
  <2> HIDE DEF s
  <2>6. QED
    BY <2>2, <2>4, <2>5
<1>6. Asked(i, o, <<a, b>>) = IF Visible(o, a - o.x, b - o.y) THEN {<<i, a - o.x, b - o.y>>}
                              ELSE IF Under THEN {<<i>>} ELSE {}
  BY DEF Asked
<1>7. Marks(i, o, cx, cy) = IF Visible(o, a - o.x, b - o.y) THEN {<<i, a - o.x, b - o.y>>}
                            ELSE IF Shaded(o, cx, cy) THEN {<<i>>} ELSE {}
  BY <1>3 DEF Marks, pad
<1>8. Visible(o, a - o.x, b - o.y) => cx \in 0..(ImageW(o) - 1) /\ cy \in 0..(ImageH(o) - 1)
  BY <1>1, <1>2 DEF Visible
<1> HIDE DEF Under
<1>9. Marks(i, o, cx, cy) = Asked(i, o, <<a, b>>)
  BY <1>4, <1>5, <1>6, <1>7
<1>10. Asked(i, o, <<a, b>>) # {} => cx \in 0..(ImageW(o) - 1) /\ cy \in 0..(ImageH(o) - 1)
  BY <1>4, <1>6, <1>8
<1>11. QED
  BY <1>9, <1>10 DEF cx, cy

\* A slot asks for at most one mark on a pixel, and it is its own.
LEMMA AskedIsOneMark ==
  ASSUME NEW o \in OverlayShapes, NEW i, NEW a \in Int, NEW b \in Int
  PROVE  \A m \in Asked(i, o, <<a, b>>) : m[1] = i /\ Asked(i, o, <<a, b>>) = {m}
BY DEF Asked

\* The rows of a loop are rows of the canvas, and its columns columns.
LEMMA LoopInside ==
  ASSUME NEW j \in Jobs, NEW i \in 1..Len(j.overlays), NEW y \in Rows(j, j.overlays[i])
  PROVE  /\ y \in 0..(j.h - 1)
         /\ From(y, ImageY(j.overlays[i])) \in 0..(ImageH(j.overlays[i]) - 1)
         /\ \A c \in Columns(j, j.overlays[i]) :
              /\ c \in 0..(j.w - 1)
              /\ From(c, ImageX(j.overlays[i])) \in 0..(ImageW(j.overlays[i]) - 1)
<1> DEFINE o == j.overlays[i]
<1>1. o \in OverlayShapes /\ j.w \in Nat \ {0} /\ j.h \in Nat \ {0} /\ j.w < Word /\ j.h < Word
  BY JobFacts
<1> HIDE DEF o
<1>2. /\ ImageW(o) \in Nat \ {0} /\ ImageH(o) \in Nat \ {0}
      /\ ImageX(o) \in Int /\ ImageY(o) \in Int
  BY <1>1, ImageFacts
<1>3. y \in Span(ImageH(o), j.h, ImageY(o))
  BY DEF Rows, o
<1>4. y \in 0..(j.h - 1) /\ From(y, ImageY(o)) \in 0..(ImageH(o) - 1)
  BY <1>1, <1>2, <1>3, WindowInside
<1>5. ASSUME NEW c \in Columns(j, o)
      PROVE  c \in 0..(j.w - 1) /\ From(c, ImageX(o)) \in 0..(ImageW(o) - 1)
  <2>1. c \in Span(ImageW(o), j.w, ImageX(o))
    BY DEF Columns
  <2>2. QED
    BY <1>1, <1>2, <2>1, WindowInside
<1>6. QED
  BY <1>4, <1>5 DEF o

\* What the image leaves on a pixel is one mark.
LEMMA MarkShape ==
  ASSUME NEW o \in OverlayShapes, NEW i \in Int, NEW a \in Int, NEW b \in Int,
         Marks(i, o, a, b) # {}
  PROVE  (CHOOSE m \in Marks(i, o, a, b) : TRUE) \in Seq(Int)
<1>1. Pad(o) \in Int
  BY ImageFacts
<1>2. \A m \in Marks(i, o, a, b) : m = <<i, a - Pad(o), b - Pad(o)>> \/ m = <<i>>
  BY DEF Marks
<1>3. <<i, a - Pad(o), b - Pad(o)>> \in Seq(Int) /\ <<i>> \in Seq(Int)
  <2>1. i \in Int /\ a - Pad(o) \in Int /\ b - Pad(o) \in Int
    BY <1>1
  <2>2. QED
    BY <2>1
<1>4. QED
  BY <1>2, <1>3

-----------------------------------------------------------------------------
(* The loops keep to their rows.                                           *)

LEMMA LoopsInit == Init => Loops
<1> SUFFICES ASSUME Init PROVE Loops
  OBVIOUS
<1>1. job \in Jobs /\ job.w \in Nat \ {0} /\ job.h \in Nat \ {0} /\ Len(job.overlays) \in Nat
      /\ job.radius \in Nat
  BY JobFacts DEF Init
<1>2. rows \subseteq 0..(job.h - 1)
  BY DEF Init
<1>3. TypeOK
  <2>1. rows \subseteq Int
    BY <1>2
  <2>2. << >> \in Seq(Seq(Int))
    OBVIOUS
  <2>3. canvas \in [Cells(job.w, job.h) -> Seq(Seq(Int))]
    BY <2>2 DEF Init
  <2>4. QED
    BY <1>1, <2>1, <2>3 DEF Init, TypeOK
<1>4. ASSUME NEW p \in Cells(job.w, job.h), Clips(job, p)
      PROVE  p[2] \in rows
  <2>1. p[1] \in 0..(job.w - 1) /\ p[2] \in 0..(job.h - 1)
    BY DEF Cells
  <2>2. Radius(job) # 0
    <3>1. SUFFICES ASSUME Radius(job) = 0 PROVE FALSE
      OBVIOUS
    <3>2. Inset(p[1], job.w, 0) = 0
      BY <1>1, <2>1 DEF Inset
    <3>3. QED
      BY <1>4, <3>1, <3>2 DEF Clips
  <2>3. QED
    BY <2>1, <2>2 DEF Init
<1>5. LoopsAgree
  BY <1>2, <1>4 DEF Init, LoopsAgree
<1>6. QED
  BY <1>3, <1>5 DEF Loops

LEMMA LoopsStep == Loops /\ [Next]_vars => Loops'
<1> SUFFICES ASSUME Loops, [Next]_vars PROVE Loops'
  OBVIOUS
<1> USE DEF Loops
<1>1. job \in Jobs /\ Len(job.overlays) \in Nat /\ job.overlays \in Seq(OverlayShapes)
      /\ \A i \in 1..Len(job.overlays) : job.overlays[i] \in OverlayShapes
  BY JobFacts DEF LoopsAgree
<1>2. ASSUME NEW y \in rows, ClipRow(y)
      PROVE  Loops'
  <2>1. TypeOK'
    BY <1>2 DEF TypeOK, ClipRow
  <2>2. LoopsAgree'
    <3>1. stage = "corners" /\ stage' = "corners" /\ slot' = 0 /\ rows' = rows \ {y} /\ job' = job
      BY <1>2 DEF ClipRow, LoopsAgree
    <3>2. clipped' = {p \in Cells(job.w, job.h) : Clips(job, p) /\ p[2] \notin rows'}
      BY <1>2, <3>1 DEF ClipRow, LoopsAgree
    <3>3. rows' \subseteq 0..(job'.h - 1)
      BY <3>1 DEF LoopsAgree
    <3>4. clipped' = {p \in Cells(job'.w, job'.h) :
                        Clips(job', p) /\ (stage' = "corners" => p[2] \notin rows')}
      BY <3>1, <3>2
    <3>5. QED
      BY <3>1, <3>3, <3>4 DEF LoopsAgree
  <2>3. QED
    BY <2>1, <2>2
<1>3. CASE NextOverlay
  <2>1. slot + 1 \in 1..Len(job.overlays) /\ stage' = "overlays" /\ slot' = slot + 1 /\ job' = job
        /\ rows = {} /\ rows' = Rows(job, job.overlays[slot + 1]) /\ clipped' = clipped
    BY <1>1, <1>3 DEF NextOverlay, TypeOK
  <2>2. rows' \subseteq Int
    <3>1. \A y \in Rows(job, job.overlays[slot + 1]) : y \in Int
      BY <1>1, <2>1, LoopInside
    <3>2. QED
      BY <2>1, <3>1
  <2>3. TypeOK'
    BY <1>1, <1>3, <2>1, <2>2 DEF NextOverlay, TypeOK
  <2>4. rows' \subseteq Rows(job, Overlay)'
    BY <2>1 DEF Overlay
  <2>5. clipped' = {p \in Cells(job'.w, job'.h) :
                      Clips(job', p) /\ (stage' = "corners" => p[2] \notin rows')}
    BY <2>1 DEF LoopsAgree
  <2>6. slot' >= 1
    BY <2>1
  <2>7. QED
    BY <2>1, <2>3, <2>4, <2>5, <2>6 DEF LoopsAgree
<1>4. ASSUME NEW y \in rows, DrawRow(y)
      PROVE  Loops'
  <2>1. stage = "overlays" /\ UNCHANGED <<job, stage, slot, clipped>> /\ rows' = rows \ {y}
    BY <1>4 DEF DrawRow
  <2>2. slot \in 1..Len(job.overlays) /\ y \in Rows(job, job.overlays[slot]) /\ Overlay = job.overlays[slot]
    BY <1>1, <2>1 DEF TypeOK, LoopsAgree, Overlay
  <2> DEFINE o == job.overlays[slot]
             M(p) == Marks(slot, o, From(p[1], ImageX(o)), From(y, ImageY(o)))
             Put(p) == IF p[2] = y /\ p[1] \in Columns(job, o)
                       THEN IF M(p) = {} THEN canvas[p] ELSE Append(canvas[p], CHOOSE m \in M(p) : TRUE)
                       ELSE canvas[p]
  <2>3. canvas' = [p \in Cells(job.w, job.h) |-> Put(p)]
    BY <1>4, <2>2 DEF DrawRow
  <2>4. o \in OverlayShapes /\ slot \in Int
    BY <1>1, <2>2
  <2>5. ASSUME NEW p \in Cells(job.w, job.h)
        PROVE  Put(p) \in Seq(Seq(Int))
    <3>1. canvas[p] \in Seq(Seq(Int))
      BY DEF TypeOK
    <3>2. ASSUME p[2] = y, p[1] \in Columns(job, o), M(p) # {}
          PROVE  (CHOOSE m \in M(p) : TRUE) \in Seq(Int)
      <4>1. /\ From(y, ImageY(o)) \in 0..(ImageH(o) - 1)
            /\ From(p[1], ImageX(o)) \in 0..(ImageW(o) - 1)
        BY <1>1, <2>2, <3>2, LoopInside
      <4>2. ImageH(o) - 1 \in Int /\ ImageW(o) - 1 \in Int
        BY <2>4, ImageFacts
      <4>3. From(p[1], ImageX(o)) \in Int /\ From(y, ImageY(o)) \in Int
        BY <4>1, <4>2
      <4>4. QED
        BY <2>4, <3>2, <4>3, MarkShape
    <3> HIDE DEF M
    <3>3. QED
      BY <3>1, <3>2
  <2> HIDE DEF Put
  <2>6. canvas' \in [Cells(job.w, job.h) -> Seq(Seq(Int))]
    BY <2>3, <2>5
  <2>7. TypeOK'
    BY <2>1, <2>6 DEF TypeOK
  <2>8. LoopsAgree'
    BY <2>1 DEF LoopsAgree, Overlay
  <2>9. QED
    BY <2>7, <2>8
<1>5. CASE Finish
  BY <1>5 DEF Finish, TypeOK, LoopsAgree
<1>6. CASE UNCHANGED vars
  BY <1>6 DEF vars, TypeOK, LoopsAgree, Overlay
<1>7. QED
  BY <1>2, <1>3, <1>4, <1>5, <1>6 DEF Next

\* Every loop of a render keeps to its rows and corners are clipped by the end
\* of theirs, whatever order the threads of rayon take the rows in.
THEOREM LoopsKept == Spec => []Loops
<1>1. Init => Loops
  BY LoopsInit
<1>2. Loops /\ [Next]_vars => Loops'
  BY LoopsStep
<1>3. QED
  BY <1>1, <1>2, PTL DEF Spec

\* The canvas keeps its size and the loops their place, whatever is drawn.
THEOREM TypeCorrect == Spec => []TypeOK
<1>1. Loops => TypeOK
  BY DEF Loops
<1>2. QED
  BY <1>1, LoopsKept, PTL

\* composite_overlay never indexes outside the canvas or the image, for every
\* offset a query can hold, every word size and every canvas.
THEOREM NoIndexLeaves == Spec => []IndicesInBounds
<1>1. Loops => IndicesInBounds
  <2>1. SUFFICES ASSUME Loops, stage = "overlays", NEW y \in rows, NEW c \in Columns(job, Overlay)
                 PROVE  /\ <<c, y>> \in Cells(job.w, job.h)
                        /\ <<From(c, ImageX(Overlay)), From(y, ImageY(Overlay))>>
                             \in Cells(ImageW(Overlay), ImageH(Overlay))
    BY DEF IndicesInBounds
  <2>2. job \in Jobs /\ slot \in 1..Len(job.overlays) /\ y \in Rows(job, Overlay)
    BY <2>1, JobFacts DEF Loops, TypeOK, LoopsAgree
  <2>3. /\ y \in 0..(job.h - 1) /\ c \in 0..(job.w - 1)
        /\ From(y, ImageY(Overlay)) \in 0..(ImageH(Overlay) - 1)
        /\ From(c, ImageX(Overlay)) \in 0..(ImageW(Overlay) - 1)
    BY <2>1, <2>2, LoopInside DEF Overlay
  <2>4. QED
    BY <2>3 DEF Cells
<1>2. QED
  BY <1>1, LoopsKept, PTL

-----------------------------------------------------------------------------
(* Corners.                                                                *)

LEMMA SquareGrows ==
  ASSUME NEW a \in Nat, NEW b \in Nat, a <= b
  PROVE  a * a <= b * b /\ a * a \in Nat /\ b * b \in Nat
<1>1. a * a <= a * b
  OBVIOUS
<1>2. a * b <= b * b
  OBVIOUS
<1>3. a * a \in Nat /\ b * b \in Nat /\ a * b \in Nat
  OBVIOUS
<1>4. QED
  BY <1>1, <1>2, <1>3

LEMMA RadiusFits ==
  ASSUME NEW j \in Jobs
  PROVE  Radius(j) \in Nat /\ 2 * Radius(j) <= j.w /\ 2 * Radius(j) <= j.h
BY JobFacts DEF Radius, MinOf

\* A coordinate and its mirror image are equally far out, and none is further
\* out than those before it on the way to the middle.
LEMMA InsetMirrored ==
  ASSUME NEW size \in Nat \ {0}, NEW r \in Nat, 2 * r <= size, NEW n \in 0..(size - 1)
  PROVE  /\ Inset(n, size, r) \in Nat
         /\ size - 1 - n \in 0..(size - 1)
         /\ Inset(size - 1 - n, size, r) = Inset(n, size, r)
         /\ n > 0 /\ 2 * n < size =>
              n - 1 \in 0..(size - 1) /\ Inset(n - 1, size, r) >= Inset(n, size, r)
BY DEF Inset

LEMMA FurtherOutClips ==
  ASSUME NEW r \in Nat, NEW dx \in Nat, NEW dy \in Nat, NEW ex \in Nat, NEW ey \in Nat,
         dx <= ex, dy <= ey, dx > 0 /\ dy > 0 /\ dx * dx + dy * dy > r * r
  PROVE  ex > 0 /\ ey > 0 /\ ex * ex + ey * ey > r * r
<1>1. dx * dx <= ex * ex /\ dx * dx \in Nat /\ ex * ex \in Nat
  BY SquareGrows
<1>2. dy * dy <= ey * ey /\ dy * dy \in Nat /\ ey * ey \in Nat
  BY SquareGrows
<1>3. r * r \in Nat
  OBVIOUS
<1> DEFINE a == dx * dx
           b == dy * dy
           c == ex * ex
           d == ey * ey
           q == r * r
<1>4. a \in Nat /\ b \in Nat /\ c \in Nat /\ d \in Nat /\ q \in Nat /\ a <= c /\ b <= d /\ a + b > q
  BY <1>1, <1>2, <1>3
<1> HIDE DEF a, b, c, d, q
<1>5. c + d > q
  BY <1>4
<1>6. QED
  BY <1>5 DEF c, d, q

\* A pixel at least as far out on both axes as a clipped one is clipped.
LEMMA ClipsFurtherOut ==
  ASSUME NEW j \in Jobs, NEW p \in Cells(j.w, j.h), NEW s \in Cells(j.w, j.h), Clips(j, p),
         Inset(s[1], j.w, Radius(j)) >= Inset(p[1], j.w, Radius(j)),
         Inset(s[2], j.h, Radius(j)) >= Inset(p[2], j.h, Radius(j))
  PROVE  Clips(j, s)
<1> DEFINE r == Radius(j)
           dx == Inset(p[1], j.w, r)
           dy == Inset(p[2], j.h, r)
           ex == Inset(s[1], j.w, r)
           ey == Inset(s[2], j.h, r)
<1>1. r \in Nat /\ 2 * r <= j.w /\ 2 * r <= j.h /\ j.w \in Nat \ {0} /\ j.h \in Nat \ {0}
  BY RadiusFits, JobFacts
<1>2. /\ p[1] \in 0..(j.w - 1) /\ p[2] \in 0..(j.h - 1)
      /\ s[1] \in 0..(j.w - 1) /\ s[2] \in 0..(j.h - 1)
  BY DEF Cells
<1>3. dx \in Nat /\ dy \in Nat /\ ex \in Nat /\ ey \in Nat
  <2> HIDE DEF r
  <2>1. dx \in Nat /\ ex \in Nat
    BY <1>1, <1>2, InsetMirrored
  <2>2. dy \in Nat /\ ey \in Nat
    BY <1>1, <1>2, InsetMirrored
  <2>3. QED
    BY <2>1, <2>2
<1>4. dx > 0 /\ dy > 0 /\ dx * dx + dy * dy > r * r
  BY DEF Clips
<1>5. dx <= ex /\ dy <= ey
  BY <1>3
<1> HIDE DEF r, dx, dy, ex, ey
<1>6. ex > 0 /\ ey > 0 /\ ex * ex + ey * ey > r * r
  BY <1>1, <1>3, <1>4, <1>5, FurtherOutClips
<1>7. QED
  BY <1>6 DEF Clips, r, ex, ey

\* The four corner branches of apply_rounded_corners_inplace agree, for every
\* canvas and radius: the finished mask is symmetric and has no holes.
THEOREM MaskIsRound == Spec => []CornersRound
<1>1. Loops => CornersRound
  <2>1. SUFFICES ASSUME Loops, stage # "corners", NEW p \in clipped
                 PROVE  /\ <<job.w - 1 - p[1], p[2]>> \in clipped
                        /\ <<p[1], job.h - 1 - p[2]>> \in clipped
                        /\ p[1] > 0 /\ 2 * p[1] < job.w => <<p[1] - 1, p[2]>> \in clipped
                        /\ p[2] > 0 /\ 2 * p[2] < job.h => <<p[1], p[2] - 1>> \in clipped
    BY DEF CornersRound
  <2> DEFINE r == Radius(job)
  <2>2. job \in Jobs /\ clipped = {s \in Cells(job.w, job.h) : Clips(job, s)}
    BY <2>1 DEF Loops, TypeOK, LoopsAgree
  <2>3. r \in Nat /\ 2 * r <= job.w /\ 2 * r <= job.h /\ job.w \in Nat \ {0} /\ job.h \in Nat \ {0}
    BY <2>2, RadiusFits, JobFacts
  <2> HIDE DEF r
  <2>4. p \in Cells(job.w, job.h) /\ Clips(job, p)
    BY <2>2
  <2>5. p[1] \in 0..(job.w - 1) /\ p[2] \in 0..(job.h - 1)
    BY <2>4 DEF Cells
  <2>6. /\ Inset(p[1], job.w, r) \in Nat
        /\ job.w - 1 - p[1] \in 0..(job.w - 1)
        /\ Inset(job.w - 1 - p[1], job.w, r) = Inset(p[1], job.w, r)
        /\ p[1] > 0 /\ 2 * p[1] < job.w =>
             p[1] - 1 \in 0..(job.w - 1) /\ Inset(p[1] - 1, job.w, r) >= Inset(p[1], job.w, r)
    BY <2>3, <2>5, InsetMirrored
  <2>7. /\ Inset(p[2], job.h, r) \in Nat
        /\ job.h - 1 - p[2] \in 0..(job.h - 1)
        /\ Inset(job.h - 1 - p[2], job.h, r) = Inset(p[2], job.h, r)
        /\ p[2] > 0 /\ 2 * p[2] < job.h =>
             p[2] - 1 \in 0..(job.h - 1) /\ Inset(p[2] - 1, job.h, r) >= Inset(p[2], job.h, r)
    BY <2>3, <2>5, InsetMirrored
  <2>8. ASSUME NEW a \in 0..(job.w - 1), NEW b \in 0..(job.h - 1),
               Inset(a, job.w, r) >= Inset(p[1], job.w, r),
               Inset(b, job.h, r) >= Inset(p[2], job.h, r)
        PROVE  <<a, b>> \in clipped
    <3> DEFINE s == <<a, b>>
    <3>1. s \in Cells(job.w, job.h) /\ s[1] = a /\ s[2] = b
      BY DEF Cells
    <3> HIDE DEF s
    <3>2. Clips(job, s)
      BY <2>2, <2>4, <2>8, <3>1, ClipsFurtherOut DEF r
    <3>3. QED
      BY <2>2, <3>1, <3>2 DEF s
  <2>9. Inset(p[1], job.w, r) >= Inset(p[1], job.w, r) /\ Inset(p[2], job.h, r) >= Inset(p[2], job.h, r)
    BY <2>6, <2>7
  <2>10. QED
    BY <2>5, <2>6, <2>7, <2>8, <2>9
<1>2. QED
  BY <1>1, LoopsKept, PTL

-----------------------------------------------------------------------------
(* What is drawn.                                                          *)

\* Within a word of the canvas, the rows and columns composite_overlay takes are
\* those the image shares with the canvas.
LEMMA LoopIsOverlap ==
  ASSUME OffsetsFit, NEW j \in Jobs, NEW i \in 1..Len(j.overlays), NEW p \in Cells(j.w, j.h)
  PROVE  LET o == j.overlays[i]
             Across == p[1] - ImageX(o) \in 0..(ImageW(o) - 1)
             Down == p[2] - ImageY(o) \in 0..(ImageH(o) - 1)
         IN  /\ p[1] \in Columns(j, o) <=> Across
             /\ Across => (p[2] \in Rows(j, o) <=> Down)
             /\ p[1] \in Columns(j, o) => From(p[1], ImageX(o)) = p[1] - ImageX(o)
             /\ p[2] \in Rows(j, o) => From(p[2], ImageY(o)) = p[2] - ImageY(o) /\ Down
<1> DEFINE o == j.overlays[i]
<1>1. /\ o \in OverlayShapes /\ j.w \in Nat \ {0} /\ j.h \in Nat \ {0} /\ j.w < Word /\ j.h < Word
      /\ ImageX(o) > j.w - Word /\ ImageY(o) > j.h - Word
  BY JobFacts DEF OffsetsFit
<1> HIDE DEF o
<1>2. /\ ImageW(o) \in Nat \ {0} /\ ImageH(o) \in Nat \ {0}
      /\ ImageX(o) \in Int /\ ImageY(o) \in Int
  BY <1>1, ImageFacts
<1>3. p[1] \in 0..(j.w - 1) /\ p[2] \in 0..(j.h - 1)
  BY DEF Cells
<1>4. /\ p[1] \in Span(ImageW(o), j.w, ImageX(o)) <=> p[1] - ImageX(o) \in 0..(ImageW(o) - 1)
      /\ p[1] \in Span(ImageW(o), j.w, ImageX(o)) => From(p[1], ImageX(o)) = p[1] - ImageX(o)
  BY <1>1, <1>2, <1>3, WindowIsOverlap
<1>5. /\ p[2] \in Span(ImageH(o), j.h, ImageY(o)) <=> p[2] - ImageY(o) \in 0..(ImageH(o) - 1)
      /\ p[2] \in Span(ImageH(o), j.h, ImageY(o)) => From(p[2], ImageY(o)) = p[2] - ImageY(o)
  BY <1>1, <1>2, <1>3, WindowIsOverlap
<1>6. QED
  BY <1>4, <1>5 DEF Columns, Rows, o

\* An appended mark is one more mark, above all others.
LEMMA MarkAppended ==
  ASSUME NEW S, NEW s \in Seq(S), NEW m \in S
  PROVE  LET t == Append(s, m)
         IN  /\ Len(t) = Len(s) + 1 /\ Len(s) \in Nat /\ t[Len(s) + 1] = m
             /\ \A n \in 1..Len(s) : t[n] = s[n]
             /\ {t[n] : n \in 1..Len(t)} = {s[n] : n \in 1..Len(s)} \cup {m}
<1> DEFINE t == Append(s, m)
<1>1. /\ Len(t) = Len(s) + 1 /\ Len(s) \in Nat /\ t[Len(s) + 1] = m
      /\ \A n \in 1..Len(s) : t[n] = s[n]
  OBVIOUS
<1> HIDE DEF t
<1>2. \A n \in 1..Len(t) : n \in 1..Len(s) \/ n = Len(s) + 1
  BY <1>1
<1>3. {t[n] : n \in 1..Len(t)} \subseteq {s[n] : n \in 1..Len(s)} \cup {m}
  BY <1>1, <1>2
<1>4. 1..Len(s) \subseteq 1..Len(t) /\ Len(s) + 1 \in 1..Len(t)
  BY <1>1
<1>5. {s[n] : n \in 1..Len(s)} \cup {m} \subseteq {t[n] : n \in 1..Len(t)}
  BY <1>1, <1>4
<1>6. QED
  BY <1>1, <1>3, <1>5 DEF t

LEMMA DrawnInit == Init => OverlaysInPlace /\ StackedInOrder
<1> SUFFICES ASSUME Init PROVE OverlaysInPlace /\ StackedInOrder
  OBVIOUS
<1>1. \A p \in Cells(job.w, job.h) : Len(canvas[p]) = 0
  BY DEF Init
<1>2. 1..0 = {}
  OBVIOUS
<1>3. \A p \in Cells(job.w, job.h) : MarksOn(p) = {}
  BY <1>1, <1>2 DEF MarksOn
<1>4. slot = 0
  BY DEF Init
<1>5. OverlaysInPlace
  BY <1>2, <1>3, <1>4 DEF OverlaysInPlace
<1>6. StackedInOrder
  BY <1>1, <1>2 DEF StackedInOrder
<1>7. QED
  BY <1>5, <1>6

\* The next overlay starts with nothing to show on the rows its loop skips.
LEMMA DrawnByNextOverlay ==
  ASSUME OffsetsFit, IInv, NextOverlay
  PROVE  OverlaysInPlace' /\ StackedInOrder'
<1>1. /\ slot \in Nat /\ slot + 1 \in 1..Len(job.overlays) /\ slot' = slot + 1 /\ job' = job
      /\ rows = {} /\ rows' = Rows(job, job.overlays[slot + 1]) /\ canvas' = canvas /\ job \in Jobs
  <2>1. job \in Jobs /\ Len(job.overlays) \in Nat
    BY JobFacts DEF IInv, Loops, LoopsAgree
  <2>2. QED
    BY <2>1 DEF IInv, Loops, TypeOK, NextOverlay
<1>2. ASSUME NEW p \in Cells(job.w, job.h), p[2] \notin rows'
      PROVE  Asked(slot + 1, job.overlays[slot + 1], p) = {}
  <2> DEFINE o == job.overlays[slot + 1]
  <2>1. o \in OverlayShapes
    BY <1>1, JobFacts
  <2>2. p[1] \in Int /\ p[2] \in Int /\ p = <<p[1], p[2]>>
    <3>1. job.w \in Int /\ job.h \in Int
      BY <1>1, JobFacts
    <3>2. QED
      BY <3>1 DEF Cells
  <2>3. LET Across == p[1] - ImageX(o) \in 0..(ImageW(o) - 1)
            Down == p[2] - ImageY(o) \in 0..(ImageH(o) - 1)
        IN  Across => (p[2] \in Rows(job, o) <=> Down)
    BY <1>1, LoopIsOverlap
  <2>4. Asked(slot + 1, o, <<p[1], p[2]>>) # {} =>
          /\ p[1] - ImageX(o) \in 0..(ImageW(o) - 1)
          /\ p[2] - ImageY(o) \in 0..(ImageH(o) - 1)
    BY <2>1, <2>2, ImageShowsAsked
  <2>5. QED
    BY <1>1, <1>2, <2>2, <2>3, <2>4
<1>3. ASSUME NEW p \in Cells(job.w, job.h)
      PROVE  MarksOn(p) = UNION {Asked(i, job.overlays[i], p) :
                                   i \in {k \in 1..(slot + 1) : k < slot + 1 \/ p[2] \notin rows'}}
  <2> DEFINE A(i) == Asked(i, job.overlays[i], p)
             K == {k \in 1..(slot + 1) : k < slot + 1 \/ p[2] \notin rows'}
  <2>1. MarksOn(p) = UNION {A(i) : i \in {k \in 1..slot : k < slot \/ p[2] \notin rows}}
    BY DEF IInv, OverlaysInPlace
  <2>2. {k \in 1..slot : k < slot \/ p[2] \notin rows} = 1..slot
    BY <1>1
  <2>3. MarksOn(p) = UNION {A(i) : i \in 1..slot}
    BY <2>1, <2>2
  <2>4. 1..slot \subseteq K /\ \A k \in K : k \in 1..slot \/ (k = slot + 1 /\ p[2] \notin rows')
    BY <1>1
  <2>5. p[2] \notin rows' => A(slot + 1) = {}
    BY <1>2
  <2> HIDE DEF A, K
  <2>6. UNION {A(i) : i \in 1..slot} = UNION {A(i) : i \in K}
    BY <2>4, <2>5
  <2>7. QED
    BY <2>3, <2>6 DEF A, K
<1>4. OverlaysInPlace'
  BY <1>1, <1>3 DEF OverlaysInPlace, MarksOn
<1>5. StackedInOrder'
  BY <1>1 DEF IInv, StackedInOrder
<1>6. QED
  BY <1>4, <1>5

\* A row drawn adds to each of its pixels what is asked for there, on top.
LEMMA DrawnByRow ==
  ASSUME OffsetsFit, IInv, NEW y \in rows, DrawRow(y)
  PROVE  OverlaysInPlace' /\ StackedInOrder'
<1> DEFINE o == job.overlays[slot]
           M(p) == Marks(slot, o, From(p[1], ImageX(o)), From(y, ImageY(o)))
           A(i, p) == Asked(i, job.overlays[i], p)
           Below(p) == UNION {A(i, p) : i \in 1..(slot - 1)}
<1>1. /\ job \in Jobs /\ slot \in 1..Len(job.overlays) /\ Len(job.overlays) \in Nat
      /\ Overlay = o /\ rows \subseteq Rows(job, o)
      /\ UNCHANGED <<job, slot>> /\ rows' = rows \ {y}
  BY JobFacts DEF IInv, Loops, TypeOK, LoopsAgree, DrawRow, Overlay
<1>2. o \in OverlayShapes /\ slot \in Int /\ job.w \in Int /\ job.h \in Int
  BY <1>1, JobFacts
<1>3. canvas' = [p \in Cells(job.w, job.h) |->
                   IF p[2] = y /\ p[1] \in Columns(job, o)
                   THEN IF M(p) = {} THEN canvas[p] ELSE Append(canvas[p], CHOOSE m \in M(p) : TRUE)
                   ELSE canvas[p]]
  BY <1>1 DEF DrawRow
<1>4. ASSUME NEW p \in Cells(job.w, job.h), p[2] = y
      PROVE  IF p[1] \in Columns(job, o) THEN M(p) = A(slot, p) ELSE A(slot, p) = {}
  <2>1. p[1] \in Int /\ p[2] \in Int /\ p = <<p[1], p[2]>>
    BY <1>2 DEF Cells
  <2>2. LET Across == p[1] - ImageX(o) \in 0..(ImageW(o) - 1)
            Down == p[2] - ImageY(o) \in 0..(ImageH(o) - 1)
        IN  /\ p[1] \in Columns(job, o) <=> Across
            /\ p[1] \in Columns(job, o) => From(p[1], ImageX(o)) = p[1] - ImageX(o)
            /\ p[2] \in Rows(job, o) => From(p[2], ImageY(o)) = p[2] - ImageY(o) /\ Down
    BY <1>1, LoopIsOverlap
  <2>3. /\ /\ p[1] - ImageX(o) \in 0..(ImageW(o) - 1)
           /\ p[2] - ImageY(o) \in 0..(ImageH(o) - 1)
           => Marks(slot, o, p[1] - ImageX(o), p[2] - ImageY(o)) = Asked(slot, o, <<p[1], p[2]>>)
        /\ Asked(slot, o, <<p[1], p[2]>>) # {} =>
             /\ p[1] - ImageX(o) \in 0..(ImageW(o) - 1)
             /\ p[2] - ImageY(o) \in 0..(ImageH(o) - 1)
    BY <1>2, <2>1, ImageShowsAsked
  <2>4. p[2] \in Rows(job, o)
    BY <1>1, <1>4
  <2>5. QED
    BY <1>4, <2>1, <2>2, <2>3, <2>4
<1>5. ASSUME NEW p \in Cells(job.w, job.h), NEW i \in 1..slot, NEW m \in A(i, p)
      PROVE  m[1] = i /\ A(i, p) = {m}
  <2>1. p[1] \in Int /\ p[2] \in Int /\ p = <<p[1], p[2]>>
    BY <1>2 DEF Cells
  <2>2. job.overlays[i] \in OverlayShapes
    BY <1>1, JobFacts
  <2> DEFINE B == Asked(i, job.overlays[i], <<p[1], p[2]>>)
  <2>3. \A n \in B : n[1] = i /\ B = {n}
    <3> DEFINE q == job.overlays[i]
               a == p[1]
               b == p[2]
    <3>1. q \in OverlayShapes /\ a \in Int /\ b \in Int
      BY <2>1, <2>2
    <3> HIDE DEF q, a, b
    <3>2. \A n \in Asked(i, q, <<a, b>>) : n[1] = i /\ Asked(i, q, <<a, b>>) = {n}
      BY <3>1, AskedIsOneMark
    <3>3. QED
      BY <3>2 DEF q, a, b
  <2>4. A(i, p) = B
    BY <2>1
  <2> HIDE DEF A, B
  <2>5. QED
    BY <2>3, <2>4
<1>6. ASSUME NEW p \in Cells(job.w, job.h)
      PROVE  MarksOn(p) = Below(p) \cup (IF p[2] \notin rows THEN A(slot, p) ELSE {})
  <2> DEFINE K == {k \in 1..slot : k < slot \/ p[2] \notin rows}
  <2>1. MarksOn(p) = UNION {A(i, p) : i \in K}
    BY DEF IInv, OverlaysInPlace
  <2>2. /\ \A k \in K : k \in 1..(slot - 1) \/ (k = slot /\ p[2] \notin rows)
        /\ 1..(slot - 1) \subseteq K
        /\ p[2] \notin rows => slot \in K
    BY <1>1
  <2> HIDE DEF K, A
  <2>3. QED
    BY <2>1, <2>2
<1> HIDE DEF A, M, o
<1>7. ASSUME NEW p \in Cells(job.w, job.h)
      PROVE  UNION {A(i, p) : i \in {k \in 1..slot : k < slot \/ p[2] \notin rows'}}
               = Below(p) \cup (IF p[2] \notin rows' THEN A(slot, p) ELSE {})
  <2> DEFINE K == {k \in 1..slot : k < slot \/ p[2] \notin rows'}
  <2>1. /\ \A k \in K : k \in 1..(slot - 1) \/ (k = slot /\ p[2] \notin rows')
        /\ 1..(slot - 1) \subseteq K
        /\ p[2] \notin rows' => slot \in K
    BY <1>1
  <2> HIDE DEF K
  <2>2. UNION {A(i, p) : i \in K} = Below(p) \cup (IF p[2] \notin rows' THEN A(slot, p) ELSE {})
    BY <2>1
  <2>3. QED
    BY <2>2 DEF K
<1>8. ASSUME NEW p \in Cells(job.w, job.h)
      PROVE  \/ /\ canvas'[p] = canvas[p]
                /\ (p[2] \notin rows' /\ ~(p[2] \notin rows)) => A(slot, p) = {}
             \/ /\ p[2] = y
                /\ \E m \in A(slot, p) : canvas'[p] = Append(canvas[p], m)
  <2>1. CASE p[2] = y /\ p[1] \in Columns(job, o) /\ M(p) # {}
    BY <1>3, <1>4, <2>1
  <2>2. CASE ~(p[2] = y /\ p[1] \in Columns(job, o) /\ M(p) # {})
    <3>1. canvas'[p] = canvas[p]
      BY <1>3, <2>2
    <3>2. (p[2] \notin rows' /\ ~(p[2] \notin rows)) => p[2] = y
      BY <1>1
    <3>3. p[2] = y => A(slot, p) = {}
      BY <1>4, <2>2
    <3>4. QED
      BY <3>1, <3>2, <3>3
  <2>3. QED
    BY <2>1, <2>2
<1>9. ASSUME NEW p \in Cells(job.w, job.h), NEW m \in A(slot, p), p[2] = y,
             canvas'[p] = Append(canvas[p], m)
      PROVE  /\ MarksOn(p)' = MarksOn(p) \cup {m}
             /\ \A a, b \in 1..Len(canvas'[p]) : a < b => canvas'[p][a][1] < canvas'[p][b][1]
  <2> DEFINE s == canvas[p]
             t == Append(s, m)
             S == Seq(Seq(Int)) \cup {m}
  <2>1. s \in Seq(Seq(Int) \cup {m}) /\ m \in Seq(Int) \cup {m}
    <3>1. s \in Seq(Seq(Int))
      BY DEF IInv, Loops, TypeOK
    <3>2. QED
      BY <3>1
  <2>2. /\ Len(t) = Len(s) + 1 /\ Len(s) \in Nat /\ t[Len(s) + 1] = m
        /\ \A n \in 1..Len(s) : t[n] = s[n]
        /\ {t[n] : n \in 1..Len(t)} = {s[n] : n \in 1..Len(s)} \cup {m}
    <3> HIDE DEF s
    <3>1. QED
      BY <2>1, MarkAppended
  <2>3. MarksOn(p)' = MarksOn(p) \cup {m}
    BY <1>9, <2>2 DEF MarksOn
  <2>4. MarksOn(p) = Below(p)
    BY <1>6, <1>9
  <2>5. \A n \in 1..Len(s) : s[n][1] \in 1..(slot - 1)
    <3>1. ASSUME NEW n \in 1..Len(s)
          PROVE  s[n][1] \in 1..(slot - 1)
      <4>1. s[n] \in MarksOn(p)
        BY DEF MarksOn
      <4>2. PICK i \in 1..(slot - 1) : s[n] \in A(i, p)
        BY <2>4, <4>1
      <4>3. i \in 1..slot
        BY <1>1
      <4>4. s[n][1] = i
        BY <1>5, <4>2, <4>3
      <4>5. QED
        BY <4>4
    <3>2. QED
      BY <3>1
  <2>6. m[1] = slot
    BY <1>1, <1>5
  <2>7. \A a, b \in 1..Len(s) : a < b => s[a][1] < s[b][1]
    BY DEF IInv, StackedInOrder
  <2> HIDE DEF s, t
  <2>8. \A a, b \in 1..Len(t) : a < b => t[a][1] < t[b][1]
    <3>1. SUFFICES ASSUME NEW a \in 1..Len(t), NEW b \in 1..Len(t), a < b
                   PROVE  t[a][1] < t[b][1]
      OBVIOUS
    <3>2. a \in 1..Len(s)
      BY <2>2, <3>1
    <3>3. CASE b \in 1..Len(s)
      <4>1. s[a][1] < s[b][1] /\ t[a] = s[a] /\ t[b] = s[b]
        BY <2>2, <2>7, <3>1, <3>2, <3>3
      <4>2. QED
        BY <4>1
    <3>4. CASE b = Len(s) + 1
      <4>1. t[a] = s[a] /\ t[b] = m /\ s[a][1] \in 1..(slot - 1)
        BY <2>2, <2>5, <3>2, <3>4
      <4>2. QED
        BY <1>1, <2>6, <4>1
    <3>5. QED
      BY <2>2, <3>3, <3>4
  <2>9. QED
    BY <1>9, <2>3, <2>8 DEF s, t
<1>10. ASSUME NEW p \in Cells(job.w, job.h)
       PROVE  /\ MarksOn(p)' = Below(p) \cup (IF p[2] \notin rows' THEN A(slot, p) ELSE {})
              /\ \A a, b \in 1..Len(canvas'[p]) : a < b => canvas'[p][a][1] < canvas'[p][b][1]
  <2>1. CASE canvas'[p] = canvas[p] /\ ((p[2] \notin rows' /\ ~(p[2] \notin rows)) => A(slot, p) = {})
    <3>1. MarksOn(p)' = MarksOn(p)
      BY <2>1 DEF MarksOn
    <3>2. p[2] \notin rows => p[2] \notin rows'
      BY <1>1
    <3>3. \A a, b \in 1..Len(canvas[p]) : a < b => canvas[p][a][1] < canvas[p][b][1]
      BY DEF IInv, StackedInOrder
    <3>4. QED
      BY <1>6, <2>1, <3>1, <3>2, <3>3
  <2>2. CASE p[2] = y /\ \E m \in A(slot, p) : canvas'[p] = Append(canvas[p], m)
    <3>1. PICK m \in A(slot, p) : canvas'[p] = Append(canvas[p], m)
      BY <2>2
    <3>2. /\ MarksOn(p)' = MarksOn(p) \cup {m}
          /\ \A a, b \in 1..Len(canvas'[p]) : a < b => canvas'[p][a][1] < canvas'[p][b][1]
      BY <1>9, <2>2, <3>1
    <3>3. A(slot, p) = {m}
      BY <1>1, <1>5, <3>1
    <3>4. MarksOn(p) = Below(p) /\ p[2] \notin rows'
      BY <1>1, <1>6, <2>2
    <3>5. QED
      BY <3>2, <3>3, <3>4
  <2>3. QED
    BY <1>8, <2>1, <2>2
<1>11. OverlaysInPlace'
  <2>1. ASSUME NEW p \in Cells(job.w, job.h)
        PROVE  MarksOn(p)' = UNION {A(i, p) : i \in {k \in 1..slot : k < slot \/ p[2] \notin rows'}}
    BY <1>7, <1>10
  <2>2. job' = job /\ slot' = slot
    BY <1>1
  <2>3. QED
    BY <2>1, <2>2 DEF OverlaysInPlace, A
<1>12. StackedInOrder'
  BY <1>1, <1>10 DEF StackedInOrder
<1>13. QED
  BY <1>11, <1>12

LEMMA DrawnStep ==
  ASSUME OffsetsFit, IInv, [Next]_vars
  PROVE  IInv'
<1>1. Loops'
  BY LoopsStep DEF IInv
<1>2. OverlaysInPlace' /\ StackedInOrder'
  <2>1. ASSUME NEW y \in rows, ClipRow(y)
        PROVE  OverlaysInPlace' /\ StackedInOrder'
    <3>1. slot = 0 /\ UNCHANGED <<job, slot, canvas>>
      BY <2>1 DEF ClipRow, IInv, Loops, LoopsAgree
    <3>2. 1..0 = {}
      OBVIOUS
    <3>3. OverlaysInPlace'
      <4>1. {k \in 1..slot : TRUE} = {}
        BY <3>1, <3>2
      <4>2. \A p \in Cells(job.w, job.h) :
              /\ {k \in 1..slot : k < slot \/ p[2] \notin rows} = {}
              /\ {k \in 1..slot : k < slot \/ p[2] \notin rows'} = {}
        BY <4>1
      <4>3. \A p \in Cells(job.w, job.h) : MarksOn(p)' = MarksOn(p)
        BY <3>1 DEF MarksOn
      <4>4. \A p \in Cells(job.w, job.h) : MarksOn(p) = UNION {}
        BY <4>2 DEF IInv, OverlaysInPlace
      <4>5. \A p \in Cells(job.w, job.h) :
              MarksOn(p)' = UNION {Asked(i, job.overlays[i], p) :
                                     i \in {k \in 1..slot : k < slot \/ p[2] \notin rows'}}
        BY <4>2, <4>3, <4>4
      <4>6. QED
        BY <3>1, <4>5 DEF OverlaysInPlace
    <3>4. StackedInOrder'
      BY <3>1 DEF IInv, StackedInOrder
    <3>5. QED
      BY <3>3, <3>4
  <2>2. CASE NextOverlay
    BY <2>2, DrawnByNextOverlay
  <2>3. ASSUME NEW y \in rows, DrawRow(y)
        PROVE  OverlaysInPlace' /\ StackedInOrder'
    BY <2>3, DrawnByRow
  <2>4. CASE Finish \/ UNCHANGED vars
    <3>1. UNCHANGED <<job, slot, rows, canvas>>
      BY <2>4 DEF Finish, vars
    <3>2. QED
      BY <3>1 DEF IInv, OverlaysInPlace, MarksOn, StackedInOrder
  <2>5. QED
    BY <2>1, <2>2, <2>3, <2>4 DEF Next
<1>3. QED
  BY <1>1, <1>2 DEF IInv

\* Overlays at most a word from the canvas are where they were asked for, whole
\* but for what lies outside the canvas, with their shadows, and stacked in the
\* order of the query, at every moment of every render.
THEOREM DrawnAsAsked == OffsetsFit /\ Spec => [](OverlaysInPlace /\ StackedInOrder)
<1>1. OffsetsFit /\ Init => IInv
  BY LoopsInit, DrawnInit DEF IInv
<1>2. OffsetsFit /\ IInv /\ [Next]_vars => IInv'
  BY DrawnStep
<1>3. IInv => OverlaysInPlace /\ StackedInOrder
  BY DEF IInv
<1>4. SUFFICES ASSUME OffsetsFit PROVE Spec => [](OverlaysInPlace /\ StackedInOrder)
  OBVIOUS
<1>5. Init => IInv
  BY <1>1, <1>4
<1>6. IInv /\ [Next]_vars => IInv'
  BY <1>2, <1>4
<1>7. QED
  BY <1>3, <1>5, <1>6, PTL DEF Spec

\* Overlays at most a word from the canvas stack in the order of the query, and
\* no pixel takes one of them twice.
THEOREM StackKept == OffsetsFit /\ Spec => []StackedInOrder
<1>1. OverlaysInPlace /\ StackedInOrder => StackedInOrder
  OBVIOUS
<1>2. QED
  BY <1>1, DrawnAsAsked, PTL

\* The early exit does what its comment says as long as offsets fit: an image
\* outside the canvas leaves no mark.
THEOREM OutsideLeavesNothing == OffsetsFit /\ Spec => []OutsideNotDrawn
<1>1. SUFFICES ASSUME OffsetsFit PROVE Spec => []OutsideNotDrawn
  OBVIOUS
<1>2. Loops /\ OverlaysInPlace => OutsideNotDrawn
  <2> SUFFICES ASSUME Loops, OverlaysInPlace, NEW i \in 1..Len(job.overlays),
                      NEW p \in Cells(job.w, job.h), NEW m \in MarksOn(p), m[1] = i
               PROVE  LET o == job.overlays[i]
                      IN  ~ \/ ImageX(o) + ImageW(o) <= 0 \/ ImageX(o) >= job.w
                            \/ ImageY(o) + ImageH(o) <= 0 \/ ImageY(o) >= job.h
    BY DEF OutsideNotDrawn
  <2> DEFINE a == p[1]
             b == p[2]
  <2>1. /\ job \in Jobs /\ job.w \in Nat \ {0} /\ job.h \in Nat \ {0}
        /\ slot \in 0..Len(job.overlays) /\ Len(job.overlays) \in Nat
    BY JobFacts DEF Loops, TypeOK, LoopsAgree
  <2>2. a \in 0..(job.w - 1) /\ b \in 0..(job.h - 1) /\ a \in Int /\ b \in Int /\ p = <<a, b>>
    BY <2>1 DEF Cells
  <2> HIDE DEF a, b
  <2>3. PICK k \in 1..slot : m \in Asked(k, job.overlays[k], p)
    BY DEF OverlaysInPlace
  <2> DEFINE o == job.overlays[k]
  <2>4. o \in OverlayShapes
    BY <2>1, JobFacts
  <2> HIDE DEF o
  <2>5. /\ ImageW(o) \in Nat \ {0} /\ ImageH(o) \in Nat \ {0}
        /\ ImageX(o) \in Int /\ ImageY(o) \in Int
    BY <2>4, ImageFacts
  <2>6. m \in Asked(k, o, <<a, b>>)
    BY <2>2, <2>3 DEF o
  <2>7. m[1] = k
    BY <2>6 DEF Asked
  <2>8. a - ImageX(o) \in 0..(ImageW(o) - 1) /\ b - ImageY(o) \in 0..(ImageH(o) - 1)
    <3>1. Asked(k, o, <<a, b>>) # {} =>
            a - ImageX(o) \in 0..(ImageW(o) - 1) /\ b - ImageY(o) \in 0..(ImageH(o) - 1)
      BY <2>2, <2>4, ImageShowsAsked
    <3>2. QED
      BY <2>6, <3>1
  <2>9. ~ \/ ImageX(o) + ImageW(o) <= 0 \/ ImageX(o) >= job.w
          \/ ImageY(o) + ImageH(o) <= 0 \/ ImageY(o) >= job.h
    <3> DEFINE x == ImageX(o)
               y == ImageY(o)
               w == ImageW(o)
               h == ImageH(o)
               cw == job.w
               ch == job.h
    <3>1. x \in Int /\ y \in Int /\ w \in Int /\ h \in Int /\ cw \in Int /\ ch \in Int
      BY <2>1, <2>5
    <3>2. a \in 0..(cw - 1) /\ b \in 0..(ch - 1)
      BY <2>2
    <3>3. a - x \in 0..(w - 1) /\ b - y \in 0..(h - 1)
      BY <2>8
    <3> HIDE DEF x, y, w, h, cw, ch
    <3>4. ~(x + w <= 0 \/ x >= cw \/ y + h <= 0 \/ y >= ch)
      BY <3>1, <3>2, <3>3, <2>2
    <3>5. QED
      BY <3>4 DEF x, y, w, h, cw, ch
  <2>10. k = i
    BY <2>7
  <2>11. QED
    BY <2>9, <2>10 DEF o
<1>3. Spec => [](OverlaysInPlace /\ StackedInOrder)
  BY <1>1, DrawnAsAsked
<1>4. QED
  BY <1>2, <1>3, LoopsKept, PTL

-----------------------------------------------------------------------------
(* Sizes.                                                                  *)

LEMMA RoundedNear ==
  ASSUME NEW n \in Nat, NEW d \in Nat \ {0}, NEW k \in Rounded(n, d)
  PROVE  k \in Nat /\ 2 * n - d <= 2 * (d * k) /\ 2 * (d * k) <= 2 * n + d
<1>1. n \div d \in Nat
  OBVIOUS
<1>2. k \in Nat
  BY <1>1 DEF Rounded
<1>3. 2 * n - d <= 2 * d * k /\ 2 * d * k <= 2 * n + d
  BY DEF Rounded
<1>4. 2 * d * k = 2 * (d * k)
  BY <1>2
<1>5. QED
  BY <1>2, <1>3, <1>4

LEMMA ProductGrows ==
  ASSUME NEW d \in Nat \ {0}, NEW k \in Nat, NEW m \in Nat, k < m
  PROVE  d * k + d <= d * m
<1>1. d * (k + 1) = d * k + d
  OBVIOUS
<1>2. d * (m - (k + 1)) >= 0
  <2>1. m - (k + 1) \in Nat
    OBVIOUS
  <2>2. QED
    BY <2>1
<1>3. d * (m - (k + 1)) = d * m - d * (k + 1)
  OBVIOUS
<1> DEFINE a == d * k
           b == d * m
           c == d * (k + 1)
<1>4. a \in Int /\ b \in Int /\ c \in Int
  OBVIOUS
<1> HIDE DEF a, b, c
<1>5. c = a + d /\ b - c >= 0
  BY <1>1, <1>2, <1>3 DEF a, b, c
<1>6. a + d <= b
  BY <1>4, <1>5
<1>7. QED
  BY <1>6 DEF a, b

\* What is rounded from n / d stays on its side of every integer.
LEMMA RoundedBounds ==
  ASSUME NEW n \in Nat, NEW d \in Nat \ {0}, NEW k \in Rounded(n, d), NEW b \in Nat
  PROVE  (n <= d * b => k <= b) /\ (d * b <= n => b <= k)
<1>1. k \in Nat /\ 2 * n - d <= 2 * (d * k) /\ 2 * (d * k) <= 2 * n + d
  BY RoundedNear
<1>2. d * k \in Int /\ d * b \in Int
  BY <1>1
<1>3. ASSUME n <= d * b, k > b PROVE FALSE
  <2>1. d * b + d <= d * k
    BY <1>1, <1>3, ProductGrows
  <2>2. QED
    BY <1>1, <1>2, <1>3, <2>1
<1>4. ASSUME d * b <= n, k < b PROVE FALSE
  <2>1. d * k + d <= d * b
    BY <1>1, <1>4, ProductGrows
  <2>2. QED
    BY <1>1, <1>2, <1>4, <2>1
<1>5. QED
  BY <1>1, <1>3, <1>4

\* One side given, the other follows from the proportions; it stays within a
\* bound that the proportions keep.
LEMMA WidthGiven ==
  ASSUME NEW src \in Sources, NEW w \in Nat \ {0}, NEW s \in ToWidth(src, w)
  PROVE  /\ s.w = w /\ s.h \in Nat \ {0} /\ HeightFollows(s, src)
         /\ \A b \in Nat \ {0} : w * src.h <= b * src.w => s.h <= b
<1> DEFINE n == w * src.h
           d == src.w
<1>1. src.w \in Nat \ {0} /\ src.h \in Nat \ {0} /\ n \in Nat /\ d \in Nat \ {0}
  BY DEF Sources
<1>2. PICK k \in Rounded(n, d) : s = [w |-> w, h |-> MaxOf(k, 1)]
  BY DEF ToWidth
<1>3. k \in Nat /\ 2 * n - d <= 2 * (d * k) /\ 2 * (d * k) <= 2 * n + d
  BY <1>1, RoundedNear
<1>4. s.w = w /\ s.h = MaxOf(k, 1) /\ s.h \in Nat \ {0}
  BY <1>2, <1>3 DEF MaxOf
<1>5. 2 * src.h * s.w = 2 * n /\ 2 * s.h * src.w = 2 * (d * s.h)
  BY <1>1, <1>4
<1>6. HeightFollows(s, src)
  <2>1. CASE k >= 1
    <3>1. s.h = k
      BY <1>3, <1>4, <2>1 DEF MaxOf
    <3>2. Near(2 * (d * s.h), 2 * n, d)
      <4>1. d * k \in Int
        BY <1>1, <1>3
      <4>2. QED
        BY <1>1, <1>3, <3>1, <4>1 DEF Near
    <3>3. QED
      BY <1>5, <3>2 DEF HeightFollows
  <2>2. CASE k = 0
    <3>1. s.h = 1 /\ d * k = 0 /\ d * s.h = d
      BY <1>1, <1>4, <2>2 DEF MaxOf
    <3>2. 2 * n <= d
      BY <1>1, <1>3, <3>1
    <3>3. CASE 2 * n = d
      <4>1. Near(2 * (d * s.h), 2 * n, d)
        BY <1>1, <3>1, <3>3 DEF Near
      <4>2. QED
        BY <1>5, <4>1 DEF HeightFollows
    <3>4. CASE 2 * n < d
      BY <1>5, <3>1, <3>4 DEF HeightFollows
    <3> HIDE DEF n, d
    <3>5. QED
      BY <1>1, <3>2, <3>3, <3>4
  <2>3. QED
    BY <1>3, <2>1, <2>2
<1>7. ASSUME NEW b \in Nat \ {0}, w * src.h <= b * src.w
      PROVE  s.h <= b
  <2>1. n <= d * b
    BY <1>1, <1>7
  <2>2. k <= b
    <3> HIDE DEF n, d
    <3>1. QED
      BY <1>1, <2>1, RoundedBounds
  <2>3. QED
    BY <1>3, <1>4, <2>2 DEF MaxOf
<1>8. QED
  BY <1>4, <1>6, <1>7

LEMMA HeightGiven ==
  ASSUME NEW src \in Sources, NEW h \in Nat \ {0}, NEW s \in ToHeight(src, h)
  PROVE  /\ s.h = h /\ s.w \in Nat \ {0} /\ WidthFollows(s, src)
         /\ \A b \in Nat \ {0} : h * src.w <= b * src.h => s.w <= b
<1> DEFINE n == h * src.w
           d == src.h
<1>1. src.w \in Nat \ {0} /\ src.h \in Nat \ {0} /\ n \in Nat /\ d \in Nat \ {0}
  BY DEF Sources
<1>2. PICK k \in Rounded(n, d) : s = [w |-> MaxOf(k, 1), h |-> h]
  BY DEF ToHeight
<1>3. k \in Nat /\ 2 * n - d <= 2 * (d * k) /\ 2 * (d * k) <= 2 * n + d
  BY <1>1, RoundedNear
<1>4. s.h = h /\ s.w = MaxOf(k, 1) /\ s.w \in Nat \ {0}
  BY <1>2, <1>3 DEF MaxOf
<1>5. 2 * src.w * s.h = 2 * n /\ 2 * s.w * src.h = 2 * (d * s.w)
  BY <1>1, <1>4
<1>6. WidthFollows(s, src)
  <2>1. CASE k >= 1
    <3>1. s.w = k
      BY <1>3, <1>4, <2>1 DEF MaxOf
    <3>2. Near(2 * (d * s.w), 2 * n, d)
      <4>1. d * k \in Int
        BY <1>1, <1>3
      <4>2. QED
        BY <1>1, <1>3, <3>1, <4>1 DEF Near
    <3>3. QED
      BY <1>5, <3>2 DEF WidthFollows
  <2>2. CASE k = 0
    <3>1. s.w = 1 /\ d * k = 0 /\ d * s.w = d
      BY <1>1, <1>4, <2>2 DEF MaxOf
    <3>2. 2 * n <= d
      BY <1>1, <1>3, <3>1
    <3>3. CASE 2 * n = d
      <4>1. Near(2 * (d * s.w), 2 * n, d)
        BY <1>1, <3>1, <3>3 DEF Near
      <4>2. QED
        BY <1>5, <4>1 DEF WidthFollows
    <3>4. CASE 2 * n < d
      BY <1>5, <3>1, <3>4 DEF WidthFollows
    <3> HIDE DEF n, d
    <3>5. QED
      BY <1>1, <3>2, <3>3, <3>4
  <2>3. QED
    BY <1>3, <2>1, <2>2
<1>7. ASSUME NEW b \in Nat \ {0}, h * src.w <= b * src.h
      PROVE  s.w <= b
  <2>1. n <= d * b
    BY <1>1, <1>7
  <2>2. k <= b
    <3> HIDE DEF n, d
    <3>1. QED
      BY <1>1, <2>1, RoundedBounds
  <2>3. QED
    BY <1>3, <1>4, <2>2 DEF MaxOf
<1>8. QED
  BY <1>4, <1>6, <1>7

LEMMA CalculatedFits ==
  ASSUME NEW src \in Sources, NEW maxw \in Bounds, NEW maxh \in Bounds, None \notin Nat,
         NEW s \in CalculateDimensions(src, maxw, maxh)
  PROVE  Fits(s, src, maxw, maxh)
<1>1. src.w \in Nat \ {0} /\ src.h \in Nat \ {0}
  BY DEF Sources
<1>2. CASE maxw = None /\ maxh = None
  BY <1>2 DEF CalculateDimensions, Fits
<1>3. CASE maxw # None /\ maxh = None
  <2>1. maxw \in Nat \ {0} /\ s \in ToWidth(src, maxw)
    BY <1>3 DEF CalculateDimensions, Bounds
  <2>2. s.w = maxw /\ HeightFollows(s, src)
    BY <2>1, WidthGiven
  <2>3. s.w <= maxw
    BY <2>1, <2>2
  <2>4. QED
    BY <1>3, <2>2, <2>3 DEF Fits
<1>4. CASE maxw = None /\ maxh # None
  <2>1. maxh \in Nat \ {0} /\ s \in ToHeight(src, maxh)
    BY <1>4 DEF CalculateDimensions, Bounds
  <2>2. s.h = maxh /\ WidthFollows(s, src)
    BY <2>1, HeightGiven
  <2>3. s.h <= maxh
    BY <2>1, <2>2
  <2>4. QED
    BY <1>4, <2>2, <2>3 DEF Fits
<1>5. CASE maxw # None /\ maxh # None
  <2>1. maxw \in Nat \ {0} /\ maxh \in Nat \ {0}
    BY <1>5 DEF Bounds
  <2>2. CASE maxw * src.h > maxh * src.w
    <3>1. s \in ToHeight(src, maxh)
      BY <1>5, <2>2 DEF CalculateDimensions
    <3>2. maxh * src.w <= maxw * src.h
      <4>1. maxh * src.w \in Int /\ maxw * src.h \in Int
        BY <1>1, <2>1
      <4>2. QED
        BY <2>2, <4>1
    <3>3. s.h = maxh /\ WidthFollows(s, src) /\ s.w <= maxw
      BY <2>1, <3>1, <3>2, HeightGiven
    <3>4. s.h <= maxh
      BY <2>1, <3>3
    <3>5. QED
      BY <1>5, <3>3, <3>4 DEF Fits
  <2>3. CASE ~(maxw * src.h > maxh * src.w)
    <3>1. s \in ToWidth(src, maxw)
      BY <1>5, <2>3 DEF CalculateDimensions
    <3>2. maxw * src.h <= maxh * src.w
      <4>1. maxh * src.w \in Int /\ maxw * src.h \in Int
        BY <1>1, <2>1
      <4>2. QED
        BY <2>3, <4>1
    <3>3. s.w = maxw /\ HeightFollows(s, src) /\ s.h <= maxh
      BY <2>1, <3>1, <3>2, WidthGiven
    <3>4. s.w <= maxw
      BY <2>1, <3>3
    <3>5. QED
      BY <1>5, <3>3, <3>4 DEF Fits
  <2>4. QED
    BY <2>2, <2>3
<1>6. QED
  BY <1>2, <1>3, <1>4, <1>5

\* A quotient that is an integer is not changed by rounding.
LEMMA RoundedExact ==
  ASSUME NEW b \in Nat, NEW d \in Nat \ {0}, NEW n \in Nat, n = d * b, NEW k \in Rounded(n, d)
  PROVE  k = b
<1>1. k <= b /\ b <= k
  <2>1. n <= d * b /\ d * b <= n
    OBVIOUS
  <2>2. QED
    BY <2>1, RoundedBounds
<1>2. k \in Nat
  BY RoundedNear
<1>3. QED
  BY <1>1, <1>2

\* The scaled source covers the box: one side is the box's, the other follows
\* from the proportions and is no shorter than the box's.
LEMMA CoverCovers ==
  ASSUME NEW src \in Sources, NEW w \in Nat \ {0}, NEW h \in Nat \ {0}, NEW s \in Cover(src, w, h)
  PROVE  /\ s \in [w: Nat, h: Nat] /\ w <= s.w /\ h <= s.h
         /\ (s.w = w /\ HeightFollows(s, src)) \/ (s.h = h /\ WidthFollows(s, src))
<1>1. src.w \in Nat \ {0} /\ src.h \in Nat \ {0}
  BY DEF Sources
<1> DEFINE a == w * src.h
           b == h * src.w
<1>2. a \in Nat /\ b \in Nat /\ src.w * w \in Nat /\ src.h * h \in Nat
      /\ src.h * w = a /\ src.w * h = b
  BY <1>1
<1>3. CASE a >= b
  <2>1. PICK k \in Rounded(src.w * w, src.w), m \in Rounded(src.h * w, src.w) :
               s = [w |-> MaxOf(k, w), h |-> MaxOf(m, h)]
    BY <1>3 DEF Cover
  <2>2. k = w /\ w \in Nat
    BY <1>1, <1>2, <2>1, RoundedExact
  <2>3. m \in Nat /\ 2 * a - src.w <= 2 * (src.w * m) /\ 2 * (src.w * m) <= 2 * a + src.w
    BY <1>1, <1>2, <2>1, RoundedNear
  <2>4. h <= m
    <3>1. src.w * h <= src.h * w
      BY <1>2, <1>3
    <3>2. QED
      BY <1>1, <1>2, <2>1, <3>1, RoundedBounds
  <2>5. s.w = w /\ s.h = m /\ s \in [w: Nat, h: Nat]
    BY <2>1, <2>2, <2>3, <2>4 DEF MaxOf
  <2>6. 2 * s.h * src.w = 2 * (src.w * m) /\ 2 * src.h * s.w = 2 * a
    BY <1>1, <1>2, <2>3, <2>5
  <2>7. HeightFollows(s, src)
    <3>1. src.w * m \in Int
      BY <1>1, <2>3
    <3> HIDE DEF a
    <3>2. Near(2 * (src.w * m), 2 * a, src.w)
      BY <1>1, <1>2, <2>3, <3>1 DEF Near
    <3>3. QED
      BY <2>6, <3>2 DEF HeightFollows
  <2>8. QED
    BY <2>2, <2>3, <2>4, <2>5, <2>7
<1>4. CASE ~(a >= b)
  <2>1. PICK k \in Rounded(src.w * h, src.h), m \in Rounded(src.h * h, src.h) :
               s = [w |-> MaxOf(k, w), h |-> MaxOf(m, h)]
    BY <1>4 DEF Cover
  <2>2. m = h /\ h \in Nat
    BY <1>1, <1>2, <2>1, RoundedExact
  <2>3. k \in Nat /\ 2 * b - src.h <= 2 * (src.h * k) /\ 2 * (src.h * k) <= 2 * b + src.h
    BY <1>1, <1>2, <2>1, RoundedNear
  <2>4. w <= k
    <3>1. src.h * w <= src.w * h
      <4> HIDE DEF a, b
      <4>1. QED
        BY <1>2, <1>4
    <3>2. QED
      BY <1>1, <1>2, <2>1, <3>1, RoundedBounds
  <2>5. s.h = h /\ s.w = k /\ s \in [w: Nat, h: Nat]
    BY <2>1, <2>2, <2>3, <2>4 DEF MaxOf
  <2>6. 2 * s.w * src.h = 2 * (src.h * k) /\ 2 * src.w * s.h = 2 * b
    BY <1>1, <1>2, <2>3, <2>5
  <2>7. WidthFollows(s, src)
    <3>1. src.h * k \in Int
      BY <1>1, <2>3
    <3> HIDE DEF b
    <3>2. Near(2 * (src.h * k), 2 * b, src.h)
      BY <1>1, <1>2, <2>3, <3>1 DEF Near
    <3>3. QED
      BY <2>6, <3>2 DEF WidthFollows
  <2>8. QED
    BY <2>2, <2>3, <2>4, <2>5, <2>7
<1>5. QED
  BY <1>3, <1>4

LEMMA CropsInside ==
  ASSUME NEW w \in Nat, NEW h \in Nat, NEW focy \in 0..100,
         NEW s \in [w: Nat, h: Nat], w <= s.w, h <= s.h,
         NEW c \in Crops(s, w, h, focy)
  PROVE  /\ c.x \in Nat /\ c.y \in Nat
         /\ 0 <= c.x /\ c.x + w <= s.w /\ Near(2 * c.x + w, s.w, 1)
         /\ 0 <= c.y /\ c.y + h <= s.h
<1> DEFINE over == s.h - h
<1>1. over \in Nat /\ over * focy \in Nat
  OBVIOUS
<1>2. PICK k \in Rounded(over * focy, 100) : c = [x |-> (s.w - w) \div 2, y |-> MinOf(k, over)]
  BY DEF Crops
<1>3. k \in Nat
  BY <1>1, <1>2, RoundedNear
<1>4. c.y \in Nat /\ 0 <= c.y /\ c.y + h <= s.h
  BY <1>1, <1>2, <1>3 DEF MinOf
<1>5. c.x \in Nat /\ 0 <= c.x /\ c.x + w <= s.w /\ Near(2 * c.x + w, s.w, 1)
  BY <1>2 DEF Near
<1>6. QED
  BY <1>4, <1>5

LEMMA CropAtTop ==
  ASSUME NEW w \in Nat, NEW h \in Nat, NEW s \in [w: Nat, h: Nat], h <= s.h,
         NEW p \in 0..100, NEW c \in Crops(s, w, h, p)
  PROVE  p = 0 => c.y = 0
<1> DEFINE over == s.h - h
<1> SUFFICES ASSUME p = 0 PROVE c.y = 0
  OBVIOUS
<1>1. over \in Nat /\ over * p = 0
  OBVIOUS
<1>2. PICK k \in Rounded(over * p, 100) : c.y = MinOf(k, over)
  BY DEF Crops
<1>3. k \in Rounded(0, 100)
  BY <1>1, <1>2
<1>4. k \in Nat /\ k <= 0
  BY <1>3, RoundedNear, RoundedBounds
<1>5. QED
  BY <1>1, <1>2, <1>4 DEF MinOf

LEMMA CropAtBottom ==
  ASSUME NEW w \in Nat, NEW h \in Nat, NEW s \in [w: Nat, h: Nat], h <= s.h,
         NEW p \in 0..100, NEW c \in Crops(s, w, h, p)
  PROVE  p = 100 => c.y = s.h - h
<1> DEFINE over == s.h - h
<1> SUFFICES ASSUME p = 100 PROVE c.y = over
  OBVIOUS
<1>1. over \in Nat /\ over * p = 100 * over
  OBVIOUS
<1>2. PICK k \in Rounded(over * p, 100) : c.y = MinOf(k, over)
  BY DEF Crops
<1>3. k \in Rounded(100 * over, 100)
  BY <1>1, <1>2
<1>4. k = over
  BY <1>1, <1>3, RoundedExact
<1>5. QED
  BY <1>1, <1>2, <1>4 DEF MinOf

LEMMA RequestFacts ==
  ASSUME NEW j \in Jobs
  PROVE  /\ None \notin Nat
         /\ j.request.src \in Sources /\ j.request.maxw \in Bounds /\ j.request.maxh \in Bounds
         /\ j.request.focy \in 0..100 \cup {None}
         /\ j.request.overlays \in Seq(OverlayRequests) /\ Len(j.overlays) = Len(j.request.overlays)
         /\ \E f \in Frames(j.request) :
              j.w = f.w /\ j.h = f.h /\ j.scaled = f.scaled /\ j.crop = f.crop
         /\ \A i \in 1..Len(j.overlays) : j.overlays[i] \in Shapes(j.request.overlays[i])
<1>1. PICK r \in Requests : j \in JobsOf(r)
  BY RequestAssumption
<1>2. /\ r.src \in Sources /\ r.maxw \in Bounds /\ r.maxh \in Bounds
      /\ r.focy \in 0..100 \cup {None} /\ r.overlays \in Seq(OverlayRequests) /\ None \notin Nat
  BY RequestAssumption
<1> DEFINE n == Len(r.overlays)
           Choices == [1..n -> UNION {Shapes(r.overlays[i]) : i \in 1..n}]
<1>3. PICK f \in Frames(r), shapes \in {s \in Choices : \A i \in 1..n : s[i] \in Shapes(r.overlays[i])} :
             j = [request |-> r, scaled |-> f.scaled, crop |-> f.crop, w |-> f.w, h |-> f.h,
                  radius |-> r.radius, overlays |-> shapes]
  BY <1>1 DEF JobsOf
<1>4. /\ j.request = r /\ j.w = f.w /\ j.h = f.h /\ j.scaled = f.scaled /\ j.crop = f.crop
      /\ j.overlays = shapes
  BY <1>3
<1>5. n \in Nat /\ shapes \in Choices /\ \A i \in 1..n : shapes[i] \in Shapes(r.overlays[i])
  BY <1>2, <1>3
<1>6. Len(j.overlays) = n
  <2>1. DOMAIN shapes = 1..n
    BY <1>5
  <2>2. shapes \in Seq(OverlayShapes)
    BY <1>4, JobFacts
  <2>3. DOMAIN shapes = 1..Len(shapes) /\ Len(shapes) \in Nat
    BY <2>2
  <2>4. QED
    BY <1>4, <1>5, <2>1, <2>3
<1>7. QED
  BY <1>2, <1>4, <1>5, <1>6

\* Whatever bounds a query gives and however thin its images, no overlay and no
\* background scaled to one bound is distorted or leaves its bounds.
THEOREM NothingDistorted == Spec => []FitsItsBounds
<1>1. Loops => FitsItsBounds
  <2> SUFFICES ASSUME Loops PROVE FitsItsBounds
    OBVIOUS
  <2> DEFINE r == job.request
  <2>1. job \in Jobs
    BY DEF Loops, LoopsAgree
  <2>2. /\ None \notin Nat /\ r.src \in Sources /\ r.maxw \in Bounds /\ r.maxh \in Bounds
        /\ r.overlays \in Seq(OverlayRequests) /\ Len(job.overlays) = Len(r.overlays)
        /\ \A i \in 1..Len(job.overlays) : job.overlays[i] \in Shapes(r.overlays[i])
    BY <2>1, RequestFacts
  <2>3. PICK f \in Frames(r) : job.w = f.w /\ job.h = f.h
    BY <2>1, RequestFacts
  <2>4. ASSUME NEW i \in 1..Len(job.overlays)
        PROVE  Fits([w |-> job.overlays[i].w, h |-> job.overlays[i].h],
                    r.overlays[i].src, r.overlays[i].maxw, r.overlays[i].maxh)
    <3> DEFINE o == r.overlays[i]
    <3>1. o \in OverlayRequests
      BY <2>2
    <3>2. o.src \in Sources /\ o.maxw \in Bounds /\ o.maxh \in Bounds
      BY <3>1 DEF OverlayRequests
    <3>3. PICK s \in CalculateDimensions(o.src, o.maxw, o.maxh) :
                 job.overlays[i].w = s.w /\ job.overlays[i].h = s.h
      BY <2>2 DEF Shapes
    <3>4. Fits(s, o.src, o.maxw, o.maxh)
      BY <2>2, <3>2, CalculatedFits
    <3>5. s = [w |-> s.w, h |-> s.h]
      BY <3>2 DEF CalculateDimensions, ToWidth, ToHeight, Sources
    <3>6. QED
      BY <3>3, <3>4, <3>5
  <2>5. ASSUME r.maxw = None \/ r.maxh = None
        PROVE  Fits([w |-> job.w, h |-> job.h], r.src, r.maxw, r.maxh)
    <3>1. PICK s \in CalculateDimensions(r.src, r.maxw, r.maxh) : f.w = s.w /\ f.h = s.h
      BY <2>5 DEF Frames
    <3>2. Fits(s, r.src, r.maxw, r.maxh)
      BY <2>2, CalculatedFits
    <3>3. s = [w |-> s.w, h |-> s.h]
      BY <2>2 DEF CalculateDimensions, ToWidth, ToHeight, Sources
    <3>4. QED
      BY <2>3, <3>1, <3>2, <3>3
  <2>6. QED
    BY <2>4, <2>5 DEF FitsItsBounds
<1>2. QED
  BY <1>1, LoopsKept, PTL

\* A background with both bounds fills its box with pixels of the source, which
\* is scaled without distortion and cut on one axis only.
THEOREM BoxCovered == Spec => []CoversItsBox
<1>1. Loops => CoversItsBox
  <2> DEFINE r == job.request
  <2> SUFFICES ASSUME Loops, r.maxw # None, r.maxh # None PROVE CoversItsBox
    BY DEF CoversItsBox
  <2>1. job \in Jobs
    BY DEF Loops, LoopsAgree
  <2>2. /\ None \notin Nat /\ r.src \in Sources /\ r.maxw \in Bounds /\ r.maxh \in Bounds
        /\ r.focy \in 0..100 \cup {None} /\ r.maxw # None /\ r.maxh # None
    BY <2>1, RequestFacts
  <2>3. PICK f \in Frames(r) : job.w = f.w /\ job.h = f.h /\ job.scaled = f.scaled /\ job.crop = f.crop
    BY <2>1, RequestFacts
  <2>4. PICK w \in Nat \ {0}, h \in Nat \ {0}, p \in 0..100 :
              w = r.maxw /\ h = r.maxh /\ p = IF r.focy = None THEN 50 ELSE r.focy
    <3>1. r.maxw \in Nat \ {0} /\ r.maxh \in Nat \ {0}
      BY <2>2 DEF Bounds
    <3>2. CASE r.focy = None
      BY <3>1, <3>2
    <3>3. CASE r.focy # None
      BY <2>2, <3>1, <3>3
    <3>4. QED
      BY <3>2, <3>3
  <2>5. PICK s \in Cover(r.src, w, h) :
               f \in {[scaled |-> s, crop |-> c, w |-> w, h |-> h] : c \in Crops(s, w, h, p)}
    BY <2>2, <2>4 DEF Frames
  <2>6. (r.focy = 0 => p = 0) /\ (r.focy = 100 => p = 100)
    BY <2>2, <2>4
  <2>7. PICK c \in Crops(s, w, h, p) : f = [scaled |-> s, crop |-> c, w |-> w, h |-> h]
    BY <2>5
  <2>8. job.w = w /\ job.h = h /\ job.scaled = s /\ job.crop = c
    BY <2>3, <2>7
  <2>9. /\ s \in [w: Nat, h: Nat] /\ w \in Nat /\ h \in Nat /\ w <= s.w /\ h <= s.h
        /\ (s.w = w /\ HeightFollows(s, r.src)) \/ (s.h = h /\ WidthFollows(s, r.src))
    BY <2>2, CoverCovers
  <2>10. /\ c.x \in Nat /\ c.y \in Nat
         /\ 0 <= c.x /\ c.x + w <= s.w /\ Near(2 * c.x + w, s.w, 1)
         /\ 0 <= c.y /\ c.y + h <= s.h
    BY <2>9, CropsInside
  <2>11. p = 0 => c.y = 0
    BY <2>9, CropAtTop
  <2>12. p = 100 => c.y + h = s.h
    <3>1. p = 100 => c.y = s.h - h
      BY <2>9, CropAtBottom
    <3>2. QED
      BY <2>9, <3>1
  <2>13. job.w = r.maxw /\ job.h = r.maxh
    BY <2>4, <2>8
  <2>14. QED
    BY <2>4, <2>6, <2>8, <2>9, <2>10, <2>11, <2>12, <2>13 DEF CoversItsBox
<1>2. QED
  BY <1>1, LoopsKept, PTL
-----------------------------------------------------------------------------
(* What the assumptions on Jobs leave.                                     *)

\* round() has a result.
LEMMA RoundedExists ==
  ASSUME NEW n \in Nat, NEW d \in Nat \ {0}
  PROVE  \E k \in Nat : k \in Rounded(n, d)
<1> DEFINE q == n \div d
           t == d * q
<1>1. q \in Nat /\ t \in Nat
  OBVIOUS
<1>2. t <= n /\ n < t + d
  <2>1. n = d * q + (n % d) /\ n % d \in 0..(d - 1)
    OBVIOUS
  <2>2. QED
    BY <1>1, <2>1
<1>3. 2 * d * q = 2 * t /\ 2 * d * (q + 1) = 2 * t + 2 * d
  <2>1. \A i, j \in Nat : 2 * i * j = 2 * (i * j) /\ 2 * i * (j + 1) = 2 * i * j + 2 * i
    OBVIOUS
  <2>2. QED
    BY <1>1, <2>1
<1>4. CASE 2 * (n - t) <= d
  <2>1. 2 * n - d <= 2 * t /\ 2 * t <= 2 * n + d
    <3> HIDE DEF t
    <3>1. QED
      BY <1>1, <1>2, <1>4
  <2>2. 2 * n - d <= 2 * d * q /\ 2 * d * q <= 2 * n + d
    BY <1>3, <2>1
  <2>3. q \in Rounded(n, d)
    BY <2>2 DEF Rounded
  <2>4. QED
    BY <1>1, <2>3
<1>5. CASE 2 * (n - t) > d
  <2>1. 2 * n - d <= 2 * t + 2 * d /\ 2 * t + 2 * d <= 2 * n + d
    <3> HIDE DEF t
    <3>1. QED
      BY <1>1, <1>2, <1>5
  <2>2. 2 * n - d <= 2 * d * (q + 1) /\ 2 * d * (q + 1) <= 2 * n + d
    BY <1>3, <2>1
  <2>3. q + 1 \in Rounded(n, d)
    BY <2>2 DEF Rounded
  <2>4. q + 1 \in Nat
    BY <1>1
  <2>5. QED
    BY <2>3, <2>4
<1>6. QED
  BY <1>1, <1>4, <1>5

LEMMA CalculatedExists ==
  ASSUME NEW src \in Sources, NEW maxw \in Bounds, NEW maxh \in Bounds
  PROVE  \E s : s \in CalculateDimensions(src, maxw, maxh)
<1>1. src.w \in Nat \ {0} /\ src.h \in Nat \ {0}
  BY DEF Sources
<1>2. maxw # None => \E s : s \in ToWidth(src, maxw)
  <2> SUFFICES ASSUME maxw # None PROVE \E s : s \in ToWidth(src, maxw)
    OBVIOUS
  <2>1. maxw * src.h \in Nat
    BY <1>1 DEF Bounds
  <2>2. PICK k \in Nat : k \in Rounded(maxw * src.h, src.w)
    BY <1>1, <2>1, RoundedExists
  <2>3. [w |-> maxw, h |-> MaxOf(k, 1)] \in ToWidth(src, maxw)
    BY <2>2 DEF ToWidth
  <2>4. QED
    BY <2>3
<1>3. maxh # None => \E s : s \in ToHeight(src, maxh)
  <2> SUFFICES ASSUME maxh # None PROVE \E s : s \in ToHeight(src, maxh)
    OBVIOUS
  <2>1. maxh * src.w \in Nat
    BY <1>1 DEF Bounds
  <2>2. PICK k \in Nat : k \in Rounded(maxh * src.w, src.h)
    BY <1>1, <2>1, RoundedExists
  <2>3. [w |-> MaxOf(k, 1), h |-> maxh] \in ToHeight(src, maxh)
    BY <2>2 DEF ToHeight
  <2>4. QED
    BY <2>3
<1>4. QED
  BY <1>2, <1>3 DEF CalculateDimensions

LEMMA ShapesExist ==
  ASSUME NEW o \in OverlayRequests
  PROVE  \E s : s \in Shapes(o)
<1>1. o.src \in Sources /\ o.maxw \in Bounds /\ o.maxh \in Bounds
  BY DEF OverlayRequests
<1>2. PICK s \in CalculateDimensions(o.src, o.maxw, o.maxh) : TRUE
  BY <1>1, CalculatedExists
<1> DEFINE shape == [w |-> s.w, h |-> s.h, x |-> o.x, y |-> o.y, clear |-> o.clear,
                     deco |-> IF o.shadow = None THEN None ELSE Resolve(s, o.shadow)]
<1>3. shape \in Shapes(o)
  BY DEF Shapes
<1>4. QED
  BY <1>3
LEMMA CoverExists ==
  ASSUME NEW src \in Sources, NEW w \in Nat \ {0}, NEW h \in Nat \ {0}
  PROVE  \E s \in [w: Nat, h: Nat] : s \in Cover(src, w, h) /\ w <= s.w /\ h <= s.h
<1> DEFINE num == IF w * src.h >= h * src.w THEN w ELSE h
           den == IF w * src.h >= h * src.w THEN src.w ELSE src.h
<1>1. /\ src.w \in Nat /\ src.h \in Nat
      /\ num \in Nat /\ den \in Nat \ {0}
  BY DEF Sources
<1>2. src.w * num \in Nat /\ src.h * num \in Nat
  <2>1. \A i, j \in Nat : i * j \in Nat
    OBVIOUS
  <2>2. QED
    BY <1>1, <2>1
<1>3. PICK k \in Nat : k \in Rounded(src.w * num, den)
  BY <1>1, <1>2, RoundedExists
<1>4. PICK m \in Nat : m \in Rounded(src.h * num, den)
  BY <1>1, <1>2, RoundedExists
<1> DEFINE s == [w |-> MaxOf(k, w), h |-> MaxOf(m, h)]
<1>5. s \in Cover(src, w, h)
  BY <1>3, <1>4 DEF Cover
<1>6. s \in [w: Nat, h: Nat] /\ w <= s.w /\ h <= s.h
  BY DEF MaxOf
<1>7. QED
  BY <1>5, <1>6

LEMMA FramesExist ==
  ASSUME NEW r \in [src: Sources, maxw: Bounds, maxh: Bounds, focy: 0..100 \cup {None},
                    radius: Nat, overlays: Seq(OverlayRequests)],
         None \notin Nat
  PROVE  \E f : f \in Frames(r)
<1>1. CASE r.maxw # None /\ r.maxh # None
  <2> DEFINE p == IF r.focy = None THEN 50 ELSE r.focy
  <2>1. r.maxw \in Nat \ {0} /\ r.maxh \in Nat \ {0} /\ p \in Nat
    <3>1. r.focy \in 0..100 \cup {None}
      OBVIOUS
    <3>2. CASE r.focy = None
      BY <1>1, <3>2 DEF Bounds
    <3>3. CASE r.focy # None
      <4>1. r.focy \in 0..100 /\ p = r.focy
        BY <3>1, <3>3
      <4> HIDE DEF p
      <4>2. p \in Nat
        <5>1. \A i \in 0..100 : i \in Nat
          OBVIOUS
        <5>2. QED
          BY <4>1, <5>1, Zenon
      <4>3. QED
        BY <1>1, <4>2 DEF Bounds
    <3>4. QED
      BY <3>2, <3>3
  <2>2. PICK s \in [w: Nat, h: Nat] :
               s \in Cover(r.src, r.maxw, r.maxh) /\ r.maxw <= s.w /\ r.maxh <= s.h
    BY <2>1, CoverExists
  <2>3. (s.h - r.maxh) * p \in Nat
    <3>1. s.h - r.maxh \in Nat
      BY <2>1, <2>2
    <3>2. \A i, j \in Nat : i * j \in Nat
      OBVIOUS
    <3>3. QED
      BY <2>1, <3>1, <3>2
  <2>4. PICK k \in Nat : k \in Rounded((s.h - r.maxh) * p, 100)
    BY <2>3, RoundedExists
  <2> DEFINE c == [x |-> (s.w - r.maxw) \div 2, y |-> MinOf(k, s.h - r.maxh)]
  <2>5. c \in Crops(s, r.maxw, r.maxh, p)
    BY <2>4 DEF Crops
  <2>6. [scaled |-> s, crop |-> c, w |-> r.maxw, h |-> r.maxh] \in Frames(r)
    BY <1>1, <2>2, <2>5 DEF Frames
  <2>7. QED
    BY <2>6
<1>2. CASE r.maxw = None \/ r.maxh = None
  <2>1. PICK s : s \in CalculateDimensions(r.src, r.maxw, r.maxh)
    BY CalculatedExists
  <2>2. [scaled |-> s, crop |-> [x |-> 0, y |-> 0], w |-> s.w, h |-> s.h] \in Frames(r)
    BY <1>2, <2>1 DEF Frames
  <2>3. QED
    BY <2>2
<1>3. QED
  BY <1>1, <1>2

\* Whatever a query asks for, the render task works out a size for the
\* background and for every overlay: no request is stranded before anything is
\* drawn, and what is proved of Jobs is proved of a job of each request.
THEOREM RequestsHaveJobs == \A r \in Requests : \E j \in Jobs : j.request = r
<1> SUFFICES ASSUME NEW r \in Requests PROVE \E j \in Jobs : j.request = r
  OBVIOUS
<1>1. /\ r \in [src: Sources, maxw: Bounds, maxh: Bounds, focy: 0..100 \cup {None},
                radius: Nat, overlays: Seq(OverlayRequests)]
      /\ None \notin Nat
  BY RequestAssumption
<1>2. PICK f : f \in Frames(r)
  BY <1>1, FramesExist
<1> DEFINE n == Len(r.overlays)
           All == UNION {Shapes(r.overlays[i]) : i \in 1..n}
           shapes == [i \in 1..n |-> CHOOSE s : s \in Shapes(r.overlays[i])]
<1>3. \A i \in 1..n : shapes[i] \in Shapes(r.overlays[i])
  <2> SUFFICES ASSUME NEW i \in 1..n PROVE shapes[i] \in Shapes(r.overlays[i])
    OBVIOUS
  <2>1. r.overlays[i] \in OverlayRequests
    BY <1>1
  <2>2. \E s : s \in Shapes(r.overlays[i])
    BY <2>1, ShapesExist
  <2>3. QED
    BY <2>2
<1>4. shapes \in [1..n -> All]
  BY <1>3
<1> HIDE DEF shapes
<1> DEFINE j == [request |-> r, scaled |-> f.scaled, crop |-> f.crop, w |-> f.w, h |-> f.h,
                 radius |-> r.radius, overlays |-> shapes]
<1>5. j \in JobsOf(r)
  BY <1>2, <1>3, <1>4 DEF JobsOf
<1>6. j \in Jobs
  BY <1>5, RequestAssumption
<1>7. QED
  BY <1>6
=============================================================================
