---------------------------- MODULE MCUnpacker ----------------------------
(***************************************************************************)
(* An instance of Unpacker: an integer of one byte and one with two bytes  *)
(* of trail; commands have an empty bin, data messages have not.           *)
(***************************************************************************)
EXTENDS Unpacker

ShortAndLong == <<0, 2>>
SomeBins == <<2, 0, 3, 2, 4>>
=============================================================================
