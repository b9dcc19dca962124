---------------------------- MODULE MCDataDump ----------------------------
(***************************************************************************)
(* The dump tool with the format of what it reads and writes, for TLC:     *)
(* DataDump names a pack and its line by the pack's place in the stream,   *)
(* PackCodec says what the line holds of the pack.                         *)
(***************************************************************************)
EXTENDS DataDump, PackCodec

\* Where both files have a pack, they have the same one, and its line and the
\* head in its raw bytes give these bytes back, whatever they are.
LinesArePacks ==
  \A k \in DOMAIN hit \cap DOMAIN raw : hit[k] = raw[k] /\ LineIsPack
=============================================================================
