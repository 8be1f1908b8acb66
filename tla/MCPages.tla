------------------------------- MODULE MCPages -------------------------------
(* A panel of three columns and three lines at the small font, two and one  *)
(* at the large one; the keys are one of every kind that segmentation and   *)
(* the record codec tell apart.                                             *)
EXTENDS Pages

MCClassOf(cp) ==
  CASE cp = 13 -> "cr" [] cp = 10 -> "lf" [] cp = 769 -> "extend" [] cp = 8205 -> "zwj"
    [] cp = 128512 -> "pict" [] cp = 127462 -> "ri" [] OTHER -> "other"

MCGlyphW == <<3, 5>>
MCGlyphH == <<4, 6>>

MCConfigs ==
  { [maxChars |-> Absent, interval |-> 1], [maxChars |-> 0, interval |-> Absent],
    [maxChars |-> 2, interval |-> Absent] }
=============================================================================
