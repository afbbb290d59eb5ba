---------------------------- MODULE PacketFormat ----------------------------
(***************************************************************************)
(* What packet.hpp promises of a header area, "Sub headers format": it is  *)
(* a sequence of sub headers, each a size, a type byte and a value of that *)
(* size.  The parser and the getters are held against this format, which   *)
(* is stated on the bytes alone and not by any order of reading them.      *)
(***************************************************************************)
EXTENDS PacketCodec

Offsets == 0 .. Len(header)

SubHeaderEnd(i) == i + 3 + header[i + 1] + 256 * header[i + 2]

\* A sub header of a known type begins at offset i and fits into the area.
SubHeaderAt(i) ==
  /\ i + 3 <= Len(header)
  /\ header[i + 3] \in {10, 11, 12}
  /\ SubHeaderEnd(i) <= Len(header)

\* The offsets in cuts cut the area into sub headers: each but the last is
\* the place of one, which ends at another.
CutsHeader(cuts) ==
  /\ 0 \in cuts
  /\ \A i \in cuts \ {Len(header)} : SubHeaderAt(i) /\ SubHeaderEnd(i) \in cuts

OfTheFormat == \E cuts \in SUBSET Offsets : CutsHeader(cuts)

\* The parser accepts the header areas of that format and no others.
AcceptsTheFormat ==
  /\ pc = "done" => OfTheFormat
  /\ pc = "thrown" /\ FieldsValid => ~OfTheFormat
-----------------------------------------------------------------------------
\* The offsets of the sub headers: those that no cut can do without
Starts ==
  {i \in Offsets \ {Len(header)} : \A cuts \in SUBSET Offsets : CutsHeader(cuts) => i \in cuts}

\* The value of the first sub header of type byte b on the wire, if any
FirstOnTheWire(b) ==
  {SubSeq(header, i + 4, SubHeaderEnd(i)) :
     i \in {j \in Starts : /\ header[j + 3] = b
                           /\ \A k \in Starts : header[k + 3] = b => j <= k}}

\* The getters of an accepted packet return the value of the first sub header
\* of the type on the wire, if it has the size of the type asked for, and
\* nothing otherwise, also if a later sub header would do.
GettersFollowTheWire ==
  pc = "done" =>
    \A b \in {10, 11, 12} :
      LET type == SubHeaderFromByte(b)
          first == FirstOnTheWire(b)
      IN  /\ SubHeaderGetString(type) = first
          /\ SubHeaderGetUint8(type) = {v[1] : v \in {w \in first : Len(w) = 1}}
          /\ SubHeaderGetUint32(type) =
               {v[4] + 256 * v[3] + 65536 * v[2] + 16777216 * v[1] :
                  v \in {w \in first : Len(w) = 4}}
=============================================================================
