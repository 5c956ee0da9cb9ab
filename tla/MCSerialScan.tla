---------------------------- MODULE MCSerialScan ----------------------------
(***************************************************************************)
(* Small instances of SerialScan for TLC: three scanners that between them *)
(* have all the flags, a buffer, a smaller one, and an empty one.          *)
(***************************************************************************)
EXTENDS SerialScan

CONSTANTS big, small, none, plain, decoder, carver

MCbufsize == [c \in Content |-> CASE c = big -> 2 [] c = small -> 1 [] OTHER -> 0]

(* The small buffer does not suit the decoder.                             *)
MCSuits == [c \in Content |-> IF c = small THEN Scanner \ {decoder} ELSE Scanner]

(* The decoder wants what it produces itself; the carver wants either kind *)
(* of sbuf, and produces memory under a prefix that is not its name.       *)
MCwants == [sc \in Scanner |-> CASE sc = decoder -> {"memory"}
                                  [] sc = carver -> {"memory", "filesystems"}
                                  [] OTHER -> {}]
MCproduces == [sc \in Scanner |-> IF sc \in {decoder, carver} THEN {"memory"} ELSE {}]
MCnothing == [sc \in Scanner |-> {}]

(* The path prefix of the decoder occurs in that of the carver, as "ZIP"   *)
(* does in "GZIP".                                                         *)
MCOccursIn == [sc \in Scanner |->
                  IF sc = decoder THEN {decoder, carver} \cap Scanner ELSE {sc}]
=============================================================================
