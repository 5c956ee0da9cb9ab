---------------------------- MODULE MCScanRecords ----------------------------
(***************************************************************************)
(* A small instance of ScanRecords for TLC: an image, two equal children   *)
(* at depth 1, and at depth 2 an empty one and one that equals the image,  *)
(* in which one is found that is too deep.                                 *)
(***************************************************************************)
EXTENDS ScanRecords, TLC

CONSTANTS image, blank, left, right, deep, deeper

MCParentOf == [c \in Child |-> CASE c = deep -> left [] c = blank -> right
                                 [] c = deeper -> deep
                                 [] OTHER -> image]
MChash == [s \in Sbuf |-> CASE s \in {left, right} -> "child"
                            [] s \in {image, deep} -> "image"
                            [] OTHER -> "other"]
MCbufsize == [s \in Sbuf |-> IF s = blank THEN 0 ELSE 1]
MCdepth == [s \in Sbuf |-> CASE s = image -> 0 [] s \in {left, right} -> 1
                              [] s \in {deep, blank} -> 2 [] OTHER -> 3]

WorkerSymmetry == Permutations(Worker)
=============================================================================
