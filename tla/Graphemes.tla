----------------------------- MODULE Graphemes -----------------------------
(***************************************************************************)
(* Text as bytes, code points and grapheme clusters: the parts of utf8proc *)
(* the firmware calls (utf8proc_iterate and the stateful grapheme break),  *)
(* components/layout's boundaries and the two edits of ui/text_util.cpp.   *)
(* The Unicode tables are data: ClassOf gives the boundary class of a code *)
(* point and Spaces the ones of category Zs.                               *)
(***************************************************************************)
EXTENDS Records

CONSTANTS ClassOf(_),  \* utf8proc_get_property(cp)->boundclass
          Spaces       \* code points of category Zs

BoundClasses == {"cr", "lf", "control", "other", "extend", "zwj", "spacing", "prepend",
                 "ri", "pict", "L", "V", "T", "LV", "LVT"}
Replacement == 65533

---------------------------------------------------------------------------
(* UTF-8 *)

Cont(b) == b \in 128..191
Low6(n) == 128 + (n % 64)

\* text_util.cpp: one code point onto a string.
AppendCodepoint(s, cp) ==
  s \o (IF cp < 128 THEN <<cp>>
        ELSE IF cp < 2048 THEN <<192 + cp \div 64, Low6(cp)>>
        ELSE IF cp < 65536 THEN <<224 + cp \div 4096, Low6(cp \div 64), Low6(cp)>>
        ELSE IF cp <= 1114111
          THEN <<240 + cp \div 262144, Low6(cp \div 4096), Low6(cp \div 64), Low6(cp)>>
        ELSE <<>>)

Invalid == [len |-> 0, cp |-> -1]

\* utf8proc_iterate at byte p: the length read and the code point.
Iterate(s, p) ==
  LET b == s[p]
      Has(n) == p + n <= Len(s) /\ \A i \in 1..n : Cont(s[p + i])
      x(i) == s[p + i] % 64
      three == (b % 16) * 4096 + x(1) * 64 + x(2)
  IN IF b < 128 THEN [len |-> 1, cp |-> b]
     ELSE IF b \notin 194..244 THEN Invalid
     ELSE IF b < 224 THEN IF Has(1) THEN [len |-> 2, cp |-> (b % 32) * 64 + x(1)] ELSE Invalid
     ELSE IF b < 240
       THEN IF ~Has(2) \/ (b = 237 /\ s[p + 1] > 159) \/ three < 2048 THEN Invalid
            ELSE [len |-> 3, cp |-> three]
     ELSE IF ~Has(3) \/ (b = 240 /\ s[p + 1] < 144) \/ (b = 244 /\ s[p + 1] > 143) THEN Invalid
     ELSE [len |-> 4, cp |-> (b % 8) * 262144 + x(1) * 4096 + x(2) * 64 + x(3)]

\* layout.cpp DecodeAt: what does not decode is U+FFFD, one byte long.
DecodeAt(s, p) ==
  LET r == Iterate(s, p) IN IF r.len > 0 THEN r ELSE [len |-> 1, cp |-> Replacement]

---------------------------------------------------------------------------
(* Grapheme clusters *)

\* grapheme_break_simple, one conjunct per rule of UAX #29.
GraphemeBreakSimple(l, t) ==
  LET breaks == {"cr", "lf", "control"}
  IN /\ ~(l = "cr" /\ t = "lf")
     /\ \/ l \in breaks \/ t \in breaks
        \/ /\ ~(l = "L" /\ t \in {"L", "V", "LV", "LVT"})
           /\ ~(l \in {"LV", "V"} /\ t \in {"V", "T"})
           /\ ~(l \in {"LVT", "T"} /\ t = "T")
           /\ t \notin {"extend", "zwj", "spacing"} /\ l # "prepend"
           /\ ~(l = "pictZwj" /\ t = "pict")
           /\ ~(l = "ri" /\ t = "ri")

\* Mutant: the second regional indicator is not reset, flags run together.
NextStateNoReset(state, t) ==
  IF state = "pict" THEN IF t = "extend" THEN "pict" ELSE IF t = "zwj" THEN "pictZwj" ELSE t
  ELSE t

\* grapheme_break_extended: what the class of the left side becomes.
NextState(state, t) ==
  IF state = "ri" /\ t = "ri" THEN "other"
  ELSE IF state = "pict" THEN IF t = "extend" THEN "pict" ELSE IF t = "zwj" THEN "pictZwj" ELSE t
  ELSE t

\* The code points of s with the byte where each starts (0 is the first).
Decoded(s) ==
  LET Step(acc, p) ==
        IF p < acc.next THEN acc
        ELSE LET d == DecodeAt(s, p)
             IN [next |-> p + d.len, out |-> Append(acc.out, [cp |-> d.cp, at |-> p - 1])]
  IN Thread(Step, [next |-> 1, out |-> <<>>], [p \in 1..Len(s) |-> p]).out

\* Byte offsets of every cluster boundary, 0 and the length included.
GraphemeBoundaries(s) ==
  LET d == Decoded(s)
      Step(acc, c) ==
        LET t == ClassOf(c.cp)
        IN IF acc.state = "start" THEN [acc EXCEPT !.state = t]
           ELSE [state |-> NextState(acc.state, t),
                 out |-> IF GraphemeBreakSimple(acc.state, t) THEN Append(acc.out, c.at)
                                                              ELSE acc.out]
  IN IF s = <<>> THEN <<0>>
     ELSE Append(Thread(Step, [state |-> "start", out |-> <<0>>], d).out, Len(s))

CountGraphemes(s) == Len(GraphemeBoundaries(s)) - 1

TruncateGraphemes(s, n) ==
  LET b == GraphemeBoundaries(s)
  IN SubSeq(s, 1, b[(IF n < Len(b) - 1 THEN n ELSE Len(b) - 1) + 1])

EraseLastGrapheme(s) ==
  LET b == GraphemeBoundaries(s) IN IF Len(b) < 2 THEN <<>> ELSE SubSeq(s, 1, b[Len(b) - 1])

Clusters(s) ==
  LET b == GraphemeBoundaries(s) IN [i \in 1..(Len(b) - 1) |-> SubSeq(s, b[i] + 1, b[i + 1])]

---------------------------------------------------------------------------
(* The reference: UAX #29 by looking back, without a state *)

\* A break between code points i - 1 and i of a sequence of classes.
BreakBefore(c, i) ==
  LET breaks == {"cr", "lf", "control"}
      joined ==
        \/ c[i] \in {"extend", "zwj", "spacing"} \/ c[i - 1] = "prepend"
        \/ c[i - 1] = "L" /\ c[i] \in {"L", "V", "LV", "LVT"}
        \/ c[i - 1] \in {"LV", "V"} /\ c[i] \in {"V", "T"}
        \/ c[i - 1] \in {"LVT", "T"} /\ c[i] = "T"
        \/ /\ c[i] = "pict" /\ c[i - 1] = "zwj"
           /\ \E j \in 1..(i - 2) : c[j] = "pict" /\ \A k \in (j + 1)..(i - 2) : c[k] = "extend"
        \/ /\ c[i] = "ri"
           /\ \E j \in 1..(i - 1) : /\ (i - j) % 2 = 1
                                    /\ \A k \in j..(i - 1) : c[k] = "ri"
                                    /\ j = 1 \/ c[j - 1] # "ri"
  IN IF c[i - 1] = "cr" /\ c[i] = "lf" THEN FALSE
     ELSE IF c[i - 1] \in breaks \/ c[i] \in breaks THEN TRUE ELSE ~joined

ReferenceBoundaries(cps) ==
  LET c == [i \in DOMAIN cps |-> ClassOf(cps[i].cp)]
  IN {0} \cup {cps[i].at : i \in {j \in 2..Len(cps) : BreakBefore(c, j)}}
=============================================================================
