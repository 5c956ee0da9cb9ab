------------------------- MODULE MCFeatureRecorder -------------------------
(***************************************************************************)
(* Small instances of FeatureRecorder for TLC.  Two objects have the same  *)
(* name and different bytes, as two buffers carved at one place have, and  *)
(* two have the same bytes at different places.  The threads are           *)
(* interchangeable.                                                        *)
(***************************************************************************)
EXTENDS FeatureRecorder, TLC

CONSTANTS jpeg, longer, copy, pixels, more, here, there

MCdata == [o \in Object |-> IF o = longer THEN more ELSE pixels]
MCfilename == [o \in Object |-> IF o = copy THEN there ELSE here]
MCfilesize == [d \in Data |-> IF d = more THEN 2 ELSE 1]

ThreadSymmetry == Permutations(Thread)
=============================================================================
