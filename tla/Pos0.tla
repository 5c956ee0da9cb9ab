-------------------------------- MODULE Pos0 --------------------------------
(***************************************************************************)
(* pos0_t: the forensic path of the first byte of a buffer.  The path is   *)
(* a sequence of offsets and names of decoders, <<1000, "GZIP", 300,       *)
(* "BASE64">> for the text 1000-GZIP-300-BASE64, and the offset counts     *)
(* from there.                                                             *)
(***************************************************************************)
EXTENDS Integers, Sequences

pos0_t(path, offset) == [path |-> path, offset |-> offset]
isRecursive(pos0) == pos0.path # <<>>

(* The three operators +: an offset, and the name of a decoder, of which   *)
(* the offset becomes a part of the path.                                  *)
PlusOffset(pos0, delta) == pos0_t(pos0.path, pos0.offset + delta)
PlusSubdir(pos0, subdir) == pos0_t(pos0.path \o <<pos0.offset, subdir>>, 0)

(* Every name begins with a capital letter, which is what calc_depth()     *)
(* counts.                                                                 *)
depth(pos0) == Len(pos0.path) \div 2

imageOffset(pos0) == IF isRecursive(pos0) THEN pos0.path[1] ELSE pos0.offset

(* shift() moves the offset into the image.  It reads the digits before    *)
(* the first dash but for the last one.                                    *)
ShiftBase(path) == path[1] \div 10
shift(pos0, s) ==
    CASE s = 0 -> pos0
      [] s # 0 /\ ~isRecursive(pos0) -> pos0_t(<<>>, pos0.offset + s)
      [] s # 0 /\ isRecursive(pos0) ->
           pos0_t([pos0.path EXCEPT ![1] = ShiftBase(pos0.path) + s], pos0.offset)
=============================================================================
