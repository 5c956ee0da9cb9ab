------------------------------ MODULE MCSbufGC ------------------------------
(***************************************************************************)
(* Small instances of SbufGC for TLC: two workers, one sbuf of the main    *)
(* thread, and children that are copies, slices and slices of slices, as   *)
(* the scanners happen to recurse.                                         *)
(***************************************************************************)
EXTENDS SbufGC
=============================================================================
