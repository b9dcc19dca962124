----------------------------- MODULE PackCodec -----------------------------
(***************************************************************************)
(* The way of one pack from the device to the file: decode_pack            *)
(* (daqb/lib/comet_wsf_datarecv.cc) takes the 8 bytes apart, the send      *)
(* daemon puts the fields into a NetMsg, the client into a daqb_pack, and  *)
(* AsyncDataSave writes all but headM; the dump tool writes them at once.  *)
(*                                                                         *)
(* The code shifts and masks half bytes.  R is the number of values of a   *)
(* half byte, 16 in the code, so that a shift by 4 bits is a product by R; *)
(* the bit fields that are or-ed together never overlap, so that or is a   *)
(* sum.  Widths are kept: uint8_t has R2 values and uint16_t has R4.       *)
(***************************************************************************)
EXTENDS Naturals, Sequences

CONSTANT R
ASSUME HalfByte == R \in Nat \ {0, 1}

R2 == R * R
R4 == R2 * R2
R8 == R4 * R4

Byte == 0 .. R2 - 1
Pack8 == [1 .. 8 -> Byte]
Hi(b) == b \div R
Lo(b) == b % R

None == [headM |-> 0, wireN |-> 0, hitN |-> 0, timeV |-> 0]

\* A string of another length is marked in headM.
decode_pack(r) ==
  IF Len(r) # 8 THEN [None EXCEPT !.headM = R2 - 1]
  ELSE [headM |-> Hi(r[1]),
        wireN |-> Lo(r[1]) * R + Hi(r[2]),
        hitN |-> Lo(r[2]) * (R2 * R) + r[3] * R + Hi(r[4]),
        timeV |-> Lo(r[4]) * R8 + r[5] * (R4 * R2) + r[6] * R4 + r[7] * R2
                    + r[8]]

\* perConnSendDeamon: the message, from uint8_t, uint16_t and uint64_t variables
Sent(r) ==
  [decode_pack(r) EXCEPT !.headM = @ % R2, !.wireN = @ % R2, !.hitN = @ % R4]

\* perConnProcessRecvMesg: uint16_t and uint64_t members
Stored(m) == [m EXCEPT !.headM = @ % R4, !.wireN = @ % R4, !.hitN = @ % R4]

\* Mutant: the line has the width of the server's wireN for hitN too.
SavedNarrow(p) == <<p.wireN % R4, p.hitN % R2, p.timeV>>

\* AsyncDataSave: "%hu  %hu  %llu"
Saved(p) == <<p.wireN % R4, p.hitN % R4, p.timeV>>

\* The dump tool decodes and writes without the way between:
\* "%hhu  %hu  %llu".
Dumped(r) ==
  LET d == decode_pack(r)
  IN <<(d.wireN % R2) % R2, (d.hitN % R4) % R4, d.timeV>>
----------------------------------------------------------------------------
\* The pack as one number, its first byte the highest.
Number(r) ==
  (((((((r[1] * R2 + r[2]) * R2 + r[3]) * R2 + r[4]) * R2 + r[5]) * R2 + r[6])
     * R2 + r[7]) * R2) + r[8]
\* Fields of 1, 2, 4 and 9 half bytes, put together again.
Joined(d) == ((d.headM * R2 + d.wireN) * R4 + d.hitN) * (R8 * R) + d.timeV

\* The fields that are sent are the pack: nothing is cut off or overlaps.
MsgIsPack == \A r \in Pack8 : Joined(Sent(r)) = Number(r)

\* A line of the file, the client's or the dump tool's, and the head of the
\* pack give back the pack.
WithHead(r, line) ==
  Joined([headM |-> Hi(r[1]), wireN |-> line[1], hitN |-> line[2],
          timeV |-> line[3]])
LineIsPack ==
  \A r \in Pack8 : /\ WithHead(r, Saved(Stored(Sent(r)))) = Number(r)
                   /\ WithHead(r, Dumped(r)) = Number(r)
=============================================================================
