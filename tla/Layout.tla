------------------------------- MODULE Layout -------------------------------
(***************************************************************************)
(* components/layout/layout.cpp: a body becomes lines and pages.  A line   *)
(* is its bytes; every cut is at a boundary of Graphemes.                  *)
(***************************************************************************)
EXTENDS Graphemes

CONSTANTS PanelW, PanelH, Margin,   \* Metrics: the panel in pixels
          GlyphW, GlyphH,           \* per font step, <<small, large>>
          ReservedRows              \* reserved_top_rows + reserved_bottom_rows

ASSUME LayoutAssumption ==
  /\ {PanelW, PanelH, Margin, ReservedRows} \subseteq Nat
  /\ GlyphW \in [1..2 -> Nat] /\ GlyphH \in [1..2 -> Nat]

CharsPerLine(font) ==
  IF GlyphW[font + 1] = 0 \/ PanelW < 2 * Margin THEN 0
  ELSE (PanelW - 2 * Margin) \div GlyphW[font + 1]

LinesPerPage(font) ==
  LET h == GlyphH[font + 1]
  IN IF h = 0 \/ PanelH < ReservedRows * h THEN 0 ELSE (PanelH - ReservedRows * h) \div h

IsNewlineCluster(c) == c # <<>> /\ \A i \in DOMAIN c : c[i] \in {10, 13}

\* One code point of its own: a blank, a tab or another space of the table.
IsSpaceCluster(c) ==
  \/ c \in {<<32>>, <<9>>}
  \/ LET r == Iterate(c, 1) IN r.len = Len(c) /\ r.cp \in Spaces

Blank == [lines |-> <<>>, line |-> <<>>, lineLen |-> 0, pending |-> FALSE,
          word |-> <<>>, wordLen |-> 0]

FlushLine(a) == [a EXCEPT !.lines = Append(@, a.line), !.line = <<>>, !.lineLen = 0]

\* Mutant: the separator is not counted when the word is fitted.
PlaceWordTight(a, cpl) ==
  IF a.wordLen = 0 THEN [a EXCEPT !.pending = FALSE]
  ELSE LET sep == IF a.pending /\ a.lineLen > 0 THEN 1 ELSE 0
           b == IF a.lineLen > 0 /\ a.lineLen + a.wordLen > cpl THEN FlushLine(a) ELSE a
           gap == IF b.lineLen > 0 THEN sep ELSE 0
       IN [b EXCEPT !.line = @ \o (IF gap = 1 THEN <<32>> ELSE <<>>) \o a.word,
                    !.lineLen = @ + gap + a.wordLen,
                    !.word = <<>>, !.wordLen = 0, !.pending = FALSE]

\* A word longer than a line is cut at its own cluster boundaries wb; the full
\* pieces are lines, the rest starts the next one.
HardWrap(a, wb, cpl) ==
  LET cuts == (a.wordLen - 1) \div cpl
      Piece(i) == SubSeq(a.word, wb[(i - 1) * cpl + 1] + 1, wb[i * cpl + 1])
  IN [a EXCEPT !.lines = @ \o [i \in 1..cuts |-> Piece(i)],
               !.line = SubSeq(a.word, wb[cuts * cpl + 1] + 1, Len(a.word)),
               !.lineLen = a.wordLen - cuts * cpl]

\* A word that does not fit starts a line.
PlaceWord(a, cpl) ==
  LET sep == IF a.pending /\ a.lineLen > 0 THEN 1 ELSE 0
      flushed == a.lineLen > 0 /\ a.lineLen + sep + a.wordLen > cpl
      b == IF flushed THEN FlushLine(a) ELSE a
      gap == IF flushed THEN 0 ELSE sep
      placed ==
        IF a.wordLen > cpl THEN HardWrap(b, GraphemeBoundaries(a.word), cpl)
        ELSE [b EXCEPT !.line = @ \o (IF gap = 1 THEN <<32>> ELSE <<>>) \o a.word,
                       !.lineLen = @ + gap + a.wordLen]
  IN IF a.wordLen = 0 THEN [a EXCEPT !.pending = FALSE]
     ELSE [placed EXCEPT !.word = <<>>, !.wordLen = 0, !.pending = FALSE]

\* One cluster of the body.
TakeCluster(a, c, cpl) ==
  LET Spaced(b) == [b EXCEPT !.pending = b.lineLen > 0]
  IN IF IsNewlineCluster(c) THEN [FlushLine(PlaceWord(a, cpl)) EXCEPT !.pending = FALSE]
     ELSE IF IsSpaceCluster(c) THEN Spaced(PlaceWord(a, cpl))
     ELSE [a EXCEPT !.word = @ \o c, !.wordLen = @ + 1]

\* The line that is still open is the last, or the only one.
Finished(a) ==
  IF a.lineLen > 0 \/ a.lines = <<>> THEN Append(a.lines, a.line) ELSE a.lines

BreakLines(body, width) ==
  LET cpl == IF width < 1 THEN 1 ELSE width
      Step(a, c) == TakeCluster(a, c, cpl)
  IN IF body = <<>> THEN <<>>
     ELSE Finished(PlaceWord(Thread(Step, Blank, Clusters(body)), cpl))

\* Lines in pages of size lines; a body without lines is one empty page.
InPages(lines, size) ==
  LET End(i) == IF i * size < Len(lines) THEN i * size ELSE Len(lines)
  IN IF lines = <<>> THEN << <<>> >>
     ELSE [i \in 1..((Len(lines) + size - 1) \div size) |->
             SubSeq(lines, (i - 1) * size + 1, End(i))]

Paginate(body, font) ==
  IF CharsPerLine(font) = 0 \/ LinesPerPage(font) = 0 THEN <<>>
  ELSE InPages(BreakLines(body, CharsPerLine(font)), LinesPerPage(font))
=============================================================================
