------------------------------- MODULE Frames -------------------------------
(***************************************************************************)
(* components/transport/frame.cpp: frames on a byte pipe.  The pipe is a   *)
(* sequence of cells; a frame is its header cell, which holds the magic    *)
(* and the declared size, and the cells of its payload and trailer.  A     *)
(* cell knows the frame it was cut from: two runs of cells are the same    *)
(* bytes, and so pass the same CRC, when they are the same cells.          *)
(***************************************************************************)
EXTENDS Integers, Sequences, SequencesExt

CONSTANTS CommandCells, ResponseCells   \* sizes, trailer included

ASSUME FramesAssumption == {CommandCells, ResponseCells} \subseteq Nat \ {0}

WireOutcomes == {"ok", "transportFail", "tlsTrustFail"}

SizeOf(frame) == IF frame.type = "command" THEN CommandCells ELSE ResponseCells

Encode(frame) == [i \in 1..SizeOf(frame) |-> [frame |-> frame, i |-> i]]

IsMagic(cell) == cell.i = 1
Crc32Matches(cells) == cells = Encode(cells[1].frame)

Complete(buf, i) == i + SizeOf(buf[i].frame) - 1 <= Len(buf)
BadCrc(buf, i) ==
  Complete(buf, i) /\ ~Crc32Matches(SubSeq(buf, i, i + SizeOf(buf[i].frame) - 1))

\* Mutant: a candidate that fails its CRC is dropped whole.
StopsWhole(buf) ==
  {i \in DOMAIN buf : /\ IsMagic(buf[i]) /\ ~BadCrc(buf, i)
                      /\ \A j \in 1..(i - 1) : (IsMagic(buf[j]) /\ BadCrc(buf, j))
                           => j + SizeOf(buf[j].frame) <= i}

\* Where the scan may stop.  A candidate that fails its CRC costs one byte, so
\* that a frame which begins inside it is still found.
Stops(buf) == {i \in DOMAIN buf : IsMagic(buf[i]) /\ ~BadCrc(buf, i)}

\* Decoder::Next, up to one frame: what is left in the buffer, and the frame
\* (none as <<>>).
DecoderNext(buf) ==
  IF Stops(buf) = {} THEN [buf |-> <<>>, frame |-> <<>>]
  ELSE LET i == Min(Stops(buf))
       IN IF Complete(buf, i)
            THEN [buf |-> SubSeq(buf, i + SizeOf(buf[i].frame), Len(buf)),
                  frame |-> <<buf[i].frame>>]
            ELSE [buf |-> SubSeq(buf, i, Len(buf)), frame |-> <<>>]

\* ParseRetryAfterSeconds: delta-seconds up to a day; a header that is absent,
\* a date or anything else (-1) is no advice.
ParseRetryAfterSeconds(header) ==
  IF header < 0 THEN 0 ELSE IF header > 86400 THEN 86400 ELSE header
=============================================================================
