------------------------------ MODULE Records ------------------------------
(***************************************************************************)
(* components/store/fsutil.cpp: the line record every file of the device   *)
(* is made of, on bytes.  Keys are compile-time words, one byte here.      *)
(***************************************************************************)
EXTENDS Integers, Sequences, SequencesExt

\* A loop over a sequence, one step per element; linear where FoldLeft looks
\* for the last index again at every step.
Thread(op(_, _), base, s) ==
  LET f[i \in 0..Len(s)] == IF i = 0 THEN base ELSE op(f[i - 1], s[i]) IN f[Len(s)]

LF == 10
CR == 13
Equals == 61
Backslash == 92
LetterN == 110
LetterR == 114

\* Mutant: the backslash itself is not escaped.
EscapedBare(c) ==
  CASE c = LF -> <<Backslash, LetterN>>
    [] c = CR -> <<Backslash, LetterR>>
    [] OTHER -> <<c>>

Escaped(c) ==
  CASE c = Backslash -> <<Backslash, Backslash>>
    [] c = LF -> <<Backslash, LetterN>>
    [] c = CR -> <<Backslash, LetterR>>
    [] OTHER -> <<c>>

\* A record is a sequence of <<key, value>>.
EncodeRecord(r) ==
  FlattenSeq([i \in DOMAIN r |->
    <<r[i][1], Equals>> \o FlattenSeq([j \in DOMAIN r[i][2] |-> Escaped(r[i][2][j])]) \o <<LF>>])

\* Only newline-terminated lines: an unterminated tail is a cut append.
SplitCompleteLines(text) ==
  LET Step(acc, c) == IF c = LF THEN [lines |-> Append(acc.lines, acc.line), line |-> <<>>]
                      ELSE [acc EXCEPT !.line = Append(@, c)]
  IN Thread(Step, [lines |-> <<>>, line |-> <<>>], text).lines

Unescaped(text) ==
  LET Step(acc, c) ==
        IF acc.esc
          THEN [esc |-> FALSE,
                out |-> Append(acc.out, IF c = LetterN THEN LF
                                        ELSE IF c = LetterR THEN CR ELSE c)]
          ELSE IF c = Backslash THEN [acc EXCEPT !.esc = TRUE]
          ELSE [acc EXCEPT !.out = Append(@, c)]
      r == Thread(Step, [esc |-> FALSE, out |-> <<>>], text)
  IN IF r.esc THEN Append(r.out, Backslash) ELSE r.out

\* A line without '=' is ignored.
DecodeRecord(text) ==
  LET Pair(line) == LET eq == CHOOSE i \in 1..Len(line) :
                                 line[i] = Equals /\ \A j \in 1..(i - 1) : line[j] # Equals
                    IN <<SubSeq(line, 1, eq - 1), Unescaped(SubSeq(line, eq + 1, Len(line)))>>
      lines == SelectSeq(SplitCompleteLines(text), LAMBDA l : Equals \in {l[i] : i \in DOMAIN l})
  IN [i \in DOMAIN lines |-> Pair(lines[i])]
=============================================================================
