------------------------------ MODULE SbufData ------------------------------
(***************************************************************************)
(* sbuf_t as scanners read it: bytes from 0 to bufsize - 1, of which the   *)
(* first pagesize are the page and the rest is the margin, which the next  *)
(* page begins with.  The search functions look for starts in the page,    *)
(* and what they find may reach into the margin.  sbuf_stream reads one    *)
(* value after the other.                                                  *)
(*                                                                         *)
(* range_exception_t has no value: InRange says when it is not thrown.     *)
(***************************************************************************)
EXTENDS Pos0, FiniteSetsExt

NEWLINE == 10

sbuf_t(pos0, buf, pagesize) == [pos0 |-> pos0, buf |-> buf, pagesize |-> pagesize]
bufsize(sbuf) == Len(sbuf.buf)
sbuf_new(pos0, buf, pagesize) == sbuf_t(pos0, buf, Min({Len(buf), pagesize}))
At(sbuf, i) == sbuf.buf[i + 1]      \* buf[i], for i < bufsize

(* new_slice(): the offset comes off the page only if it lies behind it,   *)
(* where the unsigned difference is larger than any length.                *)
PageOfSlice(sbuf, off, len) == IF off > sbuf.pagesize THEN len ELSE Min({sbuf.pagesize, len})
new_slice(sbuf, pos0, off, len) ==
    sbuf_t(pos0, SubSeq(sbuf.buf, off + 1, off + len), PageOfSlice(sbuf, off, len))

(* substr() is cut at the end of the buffer, and empty behind it.          *)
substr(sbuf, loc, len) == SubSeq(sbuf.buf, loc + 1, Min({loc + len, bufsize(sbuf)}))

(* find() of a byte, and find() of a string by findbin().  findbin() looks *)
(* for the first byte in the margin too.  When the rest does not match, it *)
(* goes on two bytes later: the loop's own increment comes on top of its   *)
(* assignment.                                                             *)
NotFound == -1

find(sbuf, ch, start) ==
    LET locs == {loc \in start .. sbuf.pagesize - 1 : At(sbuf, loc) = ch}
    IN  IF locs = {} THEN NotFound ELSE Min(locs)

Matches(sbuf, b2, loc) == substr(sbuf, loc, Len(b2)) = b2

findbin(sbuf, b2, start) ==
    LET firsts(i) == {loc \in i .. bufsize(sbuf) - 1 : At(sbuf, loc) = b2[1]}
        from[i \in 0 .. Max({start, bufsize(sbuf)}) + 1] ==
            IF i >= sbuf.pagesize \/ firsts(i) = {} THEN NotFound
            ELSE LET loc == Min(firsts(i))
                 IN  IF Matches(sbuf, b2, loc) THEN loc ELSE from[loc + 2]
    IN  IF b2 = <<>> THEN NotFound ELSE from[start]

(* getline(): the first line that starts in the page at pos or later.  The *)
(* search for its end begins behind its first byte, so that an empty line  *)
(* takes the next one with it.                                             *)
LineStarts(sbuf, pos) ==
    {p \in pos .. sbuf.pagesize - 1 : p = 0 \/ At(sbuf, p - 1) = NEWLINE}
LineEnd(sbuf, start) ==
    LET ends == {p \in start + 1 .. bufsize(sbuf) - 1 : At(sbuf, p) = NEWLINE}
    IN  IF ends = {} THEN bufsize(sbuf) ELSE Min(ends)

(* find_ngram_size(): the length of the string of which the page is a      *)
(* repetition, more than twice, or 0.                                      *)
Repeats(sbuf, ns) ==
    /\ ns * 2 < sbuf.pagesize
    /\ \A i \in ns .. sbuf.pagesize - 1 : At(sbuf, i % ns) = At(sbuf, i)
find_ngram_size(sbuf, max_ngram) ==
    LET sizes == {ns \in 1 .. max_ngram - 1 : Repeats(sbuf, ns)}
    IN  IF sizes = {} THEN 0 ELSE Min(sizes)

get_distinct_character_count(sbuf) == Cardinality({sbuf.buf[i] : i \in DOMAIN sbuf.buf})

-----------------------------------------------------------------------------
(* The readers of integers: width bytes at i, in either byte order.        *)
InRange(sbuf, i, width) == i + width <= bufsize(sbuf)

get_u(sbuf, i, width, order) ==
    LET byte(k) == IF order = "little" THEN At(sbuf, i + width - 1 - k) ELSE At(sbuf, i + k)
        value[k \in 0 .. width] == IF k = 0 THEN 0 ELSE value[k - 1] * 256 + byte(k - 1)
    IN  value[width]

(* getUTF8() without a size: up to but not including a null.               *)
getUTF8(sbuf, i) ==
    LET nulls == {k \in i .. bufsize(sbuf) - 1 : At(sbuf, k) = 0}
    IN  substr(sbuf, i, (IF nulls = {} THEN bufsize(sbuf) ELSE Min(nulls)) - i)

(* getUTF16() without a size: code units up to a null, without a last odd  *)
(* byte.                                                                   *)
getUTF16Length(sbuf, i) ==
    LET units == {k \in 0 .. bufsize(sbuf) : InRange(sbuf, i + 2 * k, 2)}
        nulls == {k \in units : get_u(sbuf, i + 2 * k, 2, "little") = 0}
    IN  IF nulls = {} THEN Cardinality(units) ELSE Min(nulls)

(* getUTF16() with a size: the units that were asked for, nulls among them,*)
(* as far as the buffer has them.                                          *)
getUTF16LengthOf(sbuf, i, n) ==
    Cardinality({k \in 0 .. n - 1 : InRange(sbuf, i + 2 * k, 2)})

(* sbuf_stream: the offsets after reading an integer and a string at it.   *)
(* The null is skipped behind a string that is not empty.                  *)
AfterInteger(offset, width) == offset + width
AfterUTF8(sbuf, offset) ==
    LET length == Len(getUTF8(sbuf, offset))
    IN  offset + length + (IF length > 0 THEN 1 ELSE 0)
AfterUTF16(sbuf, offset) ==
    LET length == 2 * getUTF16Length(sbuf, offset)
    IN  offset + length + (IF length > 0 THEN 2 ELSE 0)
AfterUTF16Of(sbuf, offset, n) == offset + 2 * getUTF16LengthOf(sbuf, offset, n)
=============================================================================
