---------------------------- MODULE MCPathPrinter ----------------------------
(***************************************************************************)
(* A small instance of PathPrinter for TLC: an image of two bytes, a       *)
(* scanner that decodes more than is printed by default, offsets inside    *)
(* and behind the buffers, and sizes that count modulo 8 instead of 2^64.  *)
(***************************************************************************)
EXTENDS PathPrinter

MCLengths == <<2, 4, 5>>
MCRange == {<<1, 2>>, <<2, 0>>, <<1, 7>>}
MCSuffix == {<<"none", 0>>, <<"raw", 4>>}
=============================================================================
