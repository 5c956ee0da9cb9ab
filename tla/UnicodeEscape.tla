---------------------------- MODULE UnicodeEscape ----------------------------
(***************************************************************************)
(* unicode_escape: what is done to a string before it goes into a feature  *)
(* file or a histogram.  A string is a sequence of bytes, which may or may *)
(* not be UTF-8 or UTF-16; quoting replaces a byte by a backslash and its  *)
(* three octal digits.                                                     *)
(*                                                                         *)
(* An exception has no value: HasBadUTF8 and the like say when one is      *)
(* thrown.                                                                 *)
(***************************************************************************)
EXTENDS Integers, Sequences, SequencesExt, Folding

BACKSLASH == 92
Digit(n) == 48 + n
IsOctalDigit(ch) == ch \in 48 .. 55

octal_escape(ch) == 
    <<BACKSLASH, Digit(ch \div 64), Digit((ch \div 8) % 8), Digit(ch % 8)>>
utf8cont(ch) == ch \in 128 .. 191

(* The concatenation of strings of at most four bytes, without a recursion.*)
NoByte == 256
Kept(bytes) == SelectIn(bytes, 0 .. 255)
Joined(pieces) ==
    Kept([k \in 1 .. 4 * Len(pieces) |->
            LET piece == pieces[(k + 3) \div 4]
                nth == 1 + ((k - 1) % 4)
            IN  IF nth <= Len(piece) THEN piece[nth] ELSE NoByte])

valid_utf8codepoint(u) ==
    /\ u <= 1114111
    /\ u \notin {65534, 65535} /\ u \notin 55296 .. 57343
    /\ u \notin 81920 .. 90111 /\ u \notin 94208 .. 110591 /\ u \notin 114688 .. 118783
    /\ u \notin 180224 .. 192511 /\ u \notin 196608 .. 917502

-----------------------------------------------------------------------------
(* The character whose first byte is s[i]: its size by the prefix of the   *)
(* byte, if the bytes that have to follow do, and its code point.          *)
CharSize(s, i) ==
    LET follow(n) == i + n <= Len(s) /\ \A k \in 1 .. n : utf8cont(s[i + k])
    IN  CASE s[i] < 128 -> 1
          [] s[i] \in 192 .. 223 /\ follow(1) -> 2
          [] s[i] \in 224 .. 239 /\ follow(2) -> 3
          [] s[i] \in 240 .. 247 /\ follow(3) -> 4
          [] OTHER -> 0

CodePoint(s, i, size) ==
    LET low6(k) == s[i + k] % 64
    IN  CASE size = 1 -> s[i]
          [] size = 2 -> (s[i] % 32) * 64 + low6(1)
          [] size = 3 -> (s[i] % 16) * 4096 + low6(1) * 64 + low6(2)
          [] size = 4 -> (s[i] % 8) * 262144 + low6(1) * 4096 + low6(2) * 64 + low6(3)

(* The smallest code point that is accepted in so many bytes.  The bound   *)
(* for four bytes has a zero too many: no character reaches it.            *)
LeastCodePoint(size) == <<0, 128, 2048, 16777216>>[size]

(* The size of the valid character at i, or 0.                             *)
ValidSize(s, i) ==
    LET size == CharSize(s, i)
        u == CodePoint(s, i, size)
    IN  IF size = 1 \/ (size > 1 /\ valid_utf8codepoint(u) /\ u >= LeastCodePoint(size))
        THEN size ELSE 0

(* What validateOrEscapeUTF8() appends for the character at i: control     *)
(* characters are always escaped, backslashes and bad bytes on request.    *)
Piece(s, i, escape_backslash) ==
    IF \/ s[i] < 32
       \/ s[i] = BACKSLASH /\ escape_backslash
       \/ ValidSize(s, i) = 0
    THEN octal_escape(s[i])
    ELSE SubSeq(s, i, i + ValidSize(s, i) - 1)

(* The positions at which the loop finds a character or a bad byte: those  *)
(* that no valid character reaches.  It begins with a byte that continues  *)
(* none, so valid characters do not overlap.                               *)
Starts(s) ==
    {i \in DOMAIN s : \A j \in 1 .. i - 1 : j + ValidSize(s, j) <= i}

HasBadUTF8(s) == \E i \in Starts(s) : ValidSize(s, i) = 0

(* BadUnicode: bad bytes that are not to be escaped but to be validated.   *)
(* Without either the loop would not end at one; no caller asks for that.  *)
ValidateThrows(s, escape_bad_utf8, validate) ==
    ~escape_bad_utf8 /\ validate /\ HasBadUTF8(s)

validateOrEscapeUTF8(s, escape_bad_utf8, escape_backslash, validate) ==
    LET starts == Starts(s)
    IN  IF ~escape_bad_utf8 /\ ~escape_backslash /\ ~validate THEN s
        ELSE Joined([i \in DOMAIN s |->
                        IF i \in starts THEN Piece(s, i, escape_backslash) ELSE <<>>])

-----------------------------------------------------------------------------
(* UTF-16.  The byte order, "none" if the string does not look like it.    *)
Nulls(s, parity) == {i \in 1 .. 2 * (Len(s) \div 2) : i % 2 = parity /\ s[i] = 0}

looks_like_utf16(s) ==
    CASE IsPrefix(<<255, 254>>, s) -> "little"
      [] IsPrefix(<<254, 255>>, s) -> "big"
      [] OTHER ->
           LET even == Cardinality(Nulls(s, 1))      \* C counts from 0
               odd == Cardinality(Nulls(s, 0))
           IN  CASE even = 0 /\ odd > 1 -> "little"
                 [] odd = 0 /\ even > 1 -> "big"
                 [] OTHER -> "none"

(* The code units; a last odd byte is followed by the string's terminator. *)
(* char is signed: the sign of a low byte above 127 covers the high byte.  *)
Unit(low, high) == IF low < 128 THEN high * 256 + low ELSE 65280 + low

CodeUnits(s, order) ==
    LET byte(i) == IF i <= Len(s) THEN s[i] ELSE 0
    IN  [k \in 1 .. (Len(s) + 1) \div 2 |->
            IF order = "little" THEN Unit(byte(2 * k - 1), byte(2 * k))
                                ELSE Unit(byte(2 * k), byte(2 * k - 1))]

(* utf8::utf16to8() and utf8::utf8to32() of utfcpp.                        *)
IsLead(u) == u \in 55296 .. 56319
IsTrail(u) == u \in 56320 .. 57343

BadUTF16(units) ==
    \E k \in 1 .. Len(units) :
        \/ IsLead(units[k]) /\ ~(k < Len(units) /\ IsTrail(units[k + 1]))
        \/ IsTrail(units[k]) /\ ~(k > 1 /\ IsLead(units[k - 1]))

Encode(u) ==
    LET cont(n) == 128 + ((u \div n) % 64)
    IN  CASE u < 128 -> <<u>>
          [] u \in 128 .. 2047 -> <<192 + (u \div 64), cont(1)>>
          [] u \in 2048 .. 65535 -> <<224 + (u \div 4096), cont(64), cont(1)>>
          [] OTHER -> <<240 + (u \div 262144), cont(4096), cont(64), cont(1)>>

utf16to8(units) ==
    Joined([k \in DOMAIN units |->
        CASE IsLead(units[k]) ->
               Encode(65536 + (units[k] - 55296) * 1024 + (units[k + 1] - 56320))
          [] IsTrail(units[k]) -> <<>>
          [] OTHER -> Encode(units[k])])

InvalidUTF8(s) ==
    LET size(i) == CharSize(s, i)
        ok(i) == /\ size(i) > 0
                 /\ CodePoint(s, i, size(i)) \notin 55296 .. 57343
                 /\ CodePoint(s, i, size(i)) <= 1114111
                 /\ CodePoint(s, i, size(i)) >= <<0, 128, 2048, 65536>>[size(i)]
    IN  \E i \in DOMAIN s : ~ok(i) /\ \A j \in 1 .. i - 1 : ok(j) => j + size(j) <= i

(* convert_utf16_to_utf8(): nulls are erased from the result.              *)
ConvertThrows(s, order) == BadUTF16(CodeUnits(s, order))
convert_utf16_to_utf8(s, order) ==
    SelectIn(utf16to8(CodeUnits(s, order)), 1 .. 255)

(* make_utf8(): what does not convert is quoted byte by byte.              *)
make_utf8(s) ==
    LET order == looks_like_utf16(s)
    IN  IF order # "none" /\ ~ConvertThrows(s, order)
        THEN convert_utf16_to_utf8(s, order)
        ELSE validateOrEscapeUTF8(s, TRUE, TRUE, TRUE)

-----------------------------------------------------------------------------
(* feature_recorder_file::unquote_string().                                *)
unquote_string(s) ==
    LET coded(i) == /\ i \in 1 .. Len(s) - 3 /\ s[i] = BACKSLASH
                    /\ \A k \in 1 .. 3 : IsOctalDigit(s[i + k])
        code(i) == ((s[i + 1] - 48) * 64 + (s[i + 2] - 48) * 8 + (s[i + 3] - 48)) % 256
    IN  Kept([i \in DOMAIN s |-> CASE coded(i) -> code(i)
                                   [] \E k \in 1 .. 3 : coded(i - k) -> NoByte
                                   [] OTHER -> s[i]])

(* utf32_lowercase() and utf32_extract_numeric(): the C locale knows ASCII *)
(* letters and digits only, whose bytes occur in no other character.       *)
Lowercase(s) == [i \in 1 .. Len(s) |-> IF s[i] \in 65 .. 90 THEN s[i] + 32 ELSE s[i]]
ExtractNumeric(s) == SelectIn(s, 48 .. 57)

(* std::string::find() of one string in another.                           *)
ContainsString(s, t) == \E i \in 0 .. Len(s) - Len(t) : SubSeq(s, i + 1, i + Len(t)) = t
=============================================================================
