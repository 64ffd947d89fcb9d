------------------------------- MODULE MCBytes -------------------------------
(* TLC instances of the parts that turn values into bytes, one of them in   *)
(* each behaviour: cBuffer around the critical sizes, with values whose     *)
(* bytes lie on both sides of 128; its encoding for every length up to one  *)
(* receive buffer and some around the powers of two; and SHA256 for every   *)
(* length around the borders of a block and of its padding, in up to three  *)
(* calls.                                                                   *)
EXTENDS CBuffer, CodecCheck, Sha256

VARIABLE part

allVars == <<vars, codecVars, hashVars, part>>

BytesInit ==
  /\ part \in {"buffer", "codec", "hash"}
  /\ Init /\ (part # "buffer" => base = 0)
  /\ CodecInit /\ HashInit

BytesNext ==
  \/ part = "buffer" /\ Next /\ UNCHANGED <<codecVars, hashVars, part>>
  \/ part = "codec" /\ CodecNext /\ UNCHANGED <<vars, hashVars, part>>
  \/ part = "hash" /\ HashNext /\ UNCHANGED <<vars, codecVars, part>>

BytesSpec == BytesInit /\ [][BytesNext]_allVars

MCSizes == {0, 3, 5}
MCInts == {456}
MCShorts == {-126}
MCChars == {7}
MCContents == { <<>>, <<9, 0, 0, 0, 5>> }

MCValues == 0..520 \union {32767, 32768, 65535, 65542, 65543, 8388607, 8388608, 16777216}
HighAndLow == {127, 128}

MCLengths == {0, 1, 8, 54, 55, 56, 57, 63, 64, 65, 119, 120, 127, 128, 129}
=============================================================================
