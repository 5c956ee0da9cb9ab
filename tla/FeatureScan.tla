----------------------------- MODULE FeatureScan -----------------------------
(***************************************************************************)
(* What becomes of the bytes of an image on their way into a feature file, *)
(* a histogram and a stop list.                                            *)
(*                                                                         *)
(* The program cuts the image into pages, each with a margin, the bytes    *)
(* that the next page begins with.  A scanner searches every page and      *)
(* hands what it finds to feature_recorder::write_buf(), which quotes it   *)
(* and writes a line; the scanner may also decode what follows and recurse *)
(* into it.  An exception ends the scanner's call and is written to the    *)
(* alert file.  In the end the histogram is reported, from memory or, when *)
(* there is none, from the feature file.                                   *)
(*                                                                         *)
(* The program and the scanner use the library and are not part of it:     *)
(* setup says which images, which of the sbuf's search functions and which *)
(* definition of the recorder a run has.                                   *)
(***************************************************************************)
EXTENDS SbufData, UnicodeEscape, StopList

CONSTANT Setups     \* records: the images, scanners and recorders that are tried;
                    \* of the images, their length and alphabet

Bytes == 0 .. 255
Kinds == {"find", "findbin", "getline", "strings", "wide", "records", "counted"}
Decoders == {"SLICE", "XOR"}

ASSUME SetupsAssumption ==
    \A s \in Setups :
        /\ s.alphabet \subseteq Bytes
        /\ s.pagesize \in Nat \ {0}
        /\ {s.length, s.margin, s.take, s.max_feature_size, s.max_context_size,
            s.context_window, s.min_sbuf_size, s.max_ngram, s.min_distinct_chars,
            s.offset_add} \subseteq Nat
        /\ s.kind \in Kinds /\ s.needle \in Seq(Bytes) /\ s.require \in Seq(Bytes)
        /\ s.kind = "find" => s.needle # <<>>
        /\ s.order \in {"little", "big"}
        /\ s.recurse \in {"no"} \cup Decoders
        /\ {s.no_context, s.no_quote, s.xml, s.scan_ngram_buffer, s.incremental, s.lowercase,
            s.numeric, s.require_feature, s.require_context} \subseteq BOOLEAN

VARIABLES
    setup,      \* the one of this run
    image,      \* the bytes of the image
    pc,         \* "client", "scan", "done" or, after an exception, "terminated"
    page,       \* pages that the program has begun
    sbuf,       \* the buffer of the innermost call of the scanner
    at,         \* where in it the scanner goes on
    callers,    \* the calls of the scanner that have recursed
    file,       \* the lines of the feature file, as sequences of fields
    alerts,     \* pos0 of the buffers whose scan has ended in an exception
    histogram,  \* from each key to its tally
    raw         \* history: feature and context of each line as they were found

vars == <<setup, image, pc, page, sbuf, at, callers, file, alerts, histogram, raw>>

NoBuffer == sbuf_t(pos0_t(<<>>, 0), <<>>, 0)

Init ==
    /\ setup \in Setups
    /\ image \in [1 .. setup.length -> setup.alphabet]
    /\ pc = "client"
    /\ page = 0
    /\ sbuf = NoBuffer
    /\ at = 0
    /\ callers = <<>>
    /\ file = <<>>
    /\ alerts = <<>>
    /\ histogram = <<>>
    /\ raw = <<>>

-----------------------------------------------------------------------------
(* The scanner: the next feature it finds, its length, and where the       *)
(* scanner goes on.  It looks for a byte or a string and takes a number of *)
(* bytes from there, takes lines, or reads a stream of strings that end in *)
(* nulls, of records that begin with their length or of strings of UTF-16  *)
(* that begin with the number of their code units.                         *)
NoHit == [pos |-> NotFound, len |-> 0, next |-> 0]

HitAt(loc) ==
    IF loc = NotFound THEN NoHit
    ELSE [pos |-> loc, len |-> setup.take, next |-> loc + 1]

LineHit ==
    LET starts == LineStarts(sbuf, at)
        start == Min(starts)
    IN  IF starts = {} THEN NoHit
        ELSE [pos |-> start, len |-> LineEnd(sbuf, start) - start, next |-> LineEnd(sbuf, start)]

StringHit ==
    LET length == Len(getUTF8(sbuf, at))
        after == AfterUTF8(sbuf, at)
    IN  IF ~InRange(sbuf, at, 1) THEN NoHit
        ELSE [pos |-> at, len |-> length,
              next |-> IF length = 0 THEN AfterInteger(after, 1) ELSE after]

WideHit ==
    LET length == 2 * getUTF16Length(sbuf, at)
        after == AfterUTF16(sbuf, at)
    IN  IF ~InRange(sbuf, at, 2) THEN NoHit
        ELSE [pos |-> at, len |-> length,
              next |-> IF length = 0 THEN AfterInteger(after, 2) ELSE after]

RecordHit ==
    LET width == setup.take
        length == get_u(sbuf, at, width, setup.order)
        start == AfterInteger(at, width)
    IN  IF ~InRange(sbuf, at, width) THEN NoHit
        ELSE [pos |-> start, len |-> length, next |-> start + length]

CountedHit ==
    LET units == get_u(sbuf, at, setup.take, setup.order)
        start == AfterInteger(at, setup.take)
    IN  IF ~InRange(sbuf, at, setup.take) THEN NoHit
        ELSE [pos |-> start, len |-> 2 * getUTF16LengthOf(sbuf, start, units),
              next |-> AfterUTF16Of(sbuf, start, units)]

Hit ==
    CASE setup.kind = "find" -> HitAt(find(sbuf, setup.needle[1], at))
      [] setup.kind = "findbin" -> HitAt(findbin(sbuf, setup.needle, at))
      [] setup.kind = "getline" -> LineHit
      [] setup.kind = "strings" -> StringHit
      [] setup.kind = "wide" -> WideHit
      [] setup.kind = "records" -> RecordHit
      [] setup.kind = "counted" -> CountedHit

(* The scanner recurses into the rest of the buffer, into a slice of it or *)
(* into what it decodes, which has two letters exchanged.                  *)
Decode(name, bytes) ==
    [i \in 1 .. Len(bytes) |->
        IF name = "XOR" /\ bytes[i] \in {97, 98} THEN 195 - bytes[i] ELSE bytes[i]]

Child(pos) ==
    LET pos0 == PlusSubdir(PlusOffset(sbuf.pos0, pos), setup.recurse)
        len == bufsize(sbuf) - pos
    IN  CASE setup.recurse = "SLICE" -> new_slice(sbuf, pos0, pos, len)
          [] setup.recurse = "XOR" -> sbuf_new(pos0, Decode("XOR", substr(sbuf, pos, len)), len)

-----------------------------------------------------------------------------
(* write_buf(): what begins in the margin is left to the next page, and    *)
(* what begins behind the buffer is an error.  The feature is cut at the   *)
(* end of the buffer and the context window at both ends.                  *)
(* Mutations: features in the margin are written too; the position is that *)
(* of the buffer.                                                          *)
MarginIsPage(pos) == FALSE
InMargin(pos) == pos >= sbuf.pagesize /\ pos < bufsize(sbuf)
OutsideBuffer(pos) == pos >= bufsize(sbuf)

Feature(pos, len) == substr(sbuf, pos, len)

Context(pos, len) ==
    LET p0 == IF setup.context_window < pos THEN pos - setup.context_window ELSE 0
        p1 == Min({Min({pos + len, bufsize(sbuf)}) + setup.context_window, bufsize(sbuf)})
    IN  IF setup.no_context THEN <<>> ELSE substr(sbuf, p0, p1 - p0)

BufferPos0(pos) == sbuf.pos0
FeaturePos0(pos) == PlusOffset(sbuf.pos0, pos)

-----------------------------------------------------------------------------
(* quote_if_necessary(), on the feature after make_utf8() has quoted it    *)
(* once, and on the context.  Quoting comes before cutting.                *)
(* Mutation: it comes after.                                               *)
EscapeBadUTF8 == setup.xml \/ ~setup.no_quote
EscapeBackslash == ~setup.xml /\ ~setup.no_quote
QuoteThrows(f, c) ==
    \/ ValidateThrows(make_utf8(f), EscapeBadUTF8, TRUE)
    \/ ~setup.no_context /\ ValidateThrows(c, EscapeBadUTF8, TRUE)

Quote(s) == validateOrEscapeUTF8(s, EscapeBadUTF8, EscapeBackslash, TRUE)
Resize(s, max) == SubSeq(s, 1, Min({Len(s), max}))
QuoteAfterResize(s, max) == Quote(Resize(s, max))
QuoteToSize(s, max) == Resize(Quote(s), max)

QuotedFeature(f) == QuoteToSize(make_utf8(f), setup.max_feature_size)
QuotedContext(c) == IF setup.no_context THEN <<>> ELSE QuoteToSize(c, setup.max_context_size)

(* write0(pos0, feature, context): the fields of the line.                 *)
Line(pos0, feature, context_) ==
    <<shift(pos0, setup.offset_add), feature>>
        \o (IF setup.no_context \/ context_ = <<>> THEN <<>> ELSE <<context_>>)

-----------------------------------------------------------------------------
(* AtomicUnicodeHistogram and histogram_def, without patterns.             *)
(* Mutation: the key is not escaped.                                       *)
Text(u8key) ==
    LET lower == IF setup.lowercase THEN Lowercase(u8key) ELSE u8key
    IN  IF setup.numeric THEN ExtractNumeric(lower) ELSE lower

Match(u8key, context_) ==
    \/ setup.require = <<>>
    \/ /\ setup.require_feature => ContainsString(Text(u8key), setup.require)
       /\ setup.require_context => ContainsString(context_, setup.require)

PlainKey(u8key) == Text(u8key)
Key(u8key) == validateOrEscapeUTF8(Text(u8key), TRUE, TRUE, FALSE)

Tally(h, key) == IF key \in DOMAIN h THEN h[key] ELSE [count |-> 0, count16 |-> 0]

add0(h, u8key, context_, found_utf16) ==
    LET key == Key(u8key)
        tally == Tally(h, key)
    IN  IF ~Match(u8key, context_) THEN h
        ELSE [k \in DOMAIN h \cup {key} |->
                 IF k # key THEN h[k]
                 ELSE [count |-> tally.count + 1,
                       count16 |-> tally.count16 + (IF found_utf16 THEN 1 ELSE 0)]]

(* add_feature_context(): the original feature, not what was written.  It  *)
(* throws when the feature is neither UTF-16 nor UTF-8.                    *)
HistogramThrows(f) ==
    LET order == looks_like_utf16(f)
    IN  /\ setup.incremental
        /\ IF order = "none" THEN InvalidUTF8(f) ELSE ConvertThrows(f, order)

add_feature_context(h, f, c) ==
    LET order == looks_like_utf16(f)
        u8key == IF order = "none" THEN f ELSE convert_utf16_to_utf8(f, order)
    IN  IF setup.incremental THEN add0(h, u8key, c, order # "none") ELSE h

(* histogram_write_from_file(): of a line, the feature as it was written   *)
(* and the context without its quotes.  A line without a context is not    *)
(* one of extract_feature_context().                                       *)
HasFeatureAndContext(line) == Len(line) >= 3
ReadThrows == \E i \in 1 .. Len(file) : HasFeatureAndContext(file[i]) /\ InvalidUTF8(file[i][2])

add_line(h, line) ==
    LET feature == line[2]
        context_ == unquote_string(line[3])
    IN  IF HasFeatureAndContext(line)
        THEN add0(h, feature, context_, ~ContainsString(context_, feature))
        ELSE h

Report == IF setup.incremental THEN histogram ELSE FoldLeft(add_line, <<>>, file)

-----------------------------------------------------------------------------
(* The program takes the next page and calls the scanner on it.            *)
PageAt(k) ==
    LET first == k * setup.pagesize
    IN  sbuf_new(pos0_t(<<>>, first),
                 SubSeq(image, first + 1, Min({first + setup.pagesize + setup.margin, Len(image)})),
                 setup.pagesize)
MorePages == page * setup.pagesize < Len(image)

NextPage ==
    /\ pc = "client" /\ MorePages
    /\ pc' = "scan"
    /\ page' = page + 1
    /\ sbuf' = PageAt(page)
    /\ at' = 0
    /\ UNCHANGED <<setup, image, callers, file, alerts, histogram, raw>>

(* The scanner's call ends, and its caller goes on.                        *)
ScannerReturns ==
    /\ UNCHANGED <<setup, image, page>>
    /\ \/ /\ callers = <<>>
          /\ pc' = "client"
          /\ UNCHANGED <<sbuf, at, callers>>
       \/ /\ callers # <<>>
          /\ sbuf' = Head(callers).sbuf
          /\ at' = Head(callers).at
          /\ callers' = Tail(callers)
          /\ UNCHANGED pc

(* The reasons not to call the scanner: the buffer is too small, or its    *)
(* bytes repeat themselves or are too few.                                 *)
Suits ==
    /\ bufsize(sbuf) >= setup.min_sbuf_size
    /\ setup.scan_ngram_buffer \/ find_ngram_size(sbuf, setup.max_ngram) = 0
    /\ get_distinct_character_count(sbuf) >= setup.min_distinct_chars

SkipScanner ==
    /\ pc = "scan" /\ ~Suits
    /\ ScannerReturns
    /\ UNCHANGED <<file, alerts, histogram, raw>>

Scanning == pc = "scan" /\ Suits

FindNothing ==
    /\ Scanning /\ Hit = NoHit
    /\ ScannerReturns
    /\ UNCHANGED <<file, alerts, histogram, raw>>

Found == Scanning /\ Hit # NoHit /\ ~OutsideBuffer(Hit.pos)
InPage == Found /\ ~InMargin(Hit.pos)
Quotable == ~QuoteThrows(Feature(Hit.pos, Hit.len), Context(Hit.pos, Hit.len))
IsEmpty == QuotedFeature(Feature(Hit.pos, Hit.len)) = <<>>

(* Nothing is written: write_buf() returns because the feature is in the   *)
(* margin, or write() because it is empty.                                 *)
WriteNothing ==
    /\ Found
    /\ InMargin(Hit.pos) \/ (Quotable /\ IsEmpty)
    /\ at' = Hit.next
    /\ UNCHANGED <<setup, image, pc, page, sbuf, callers, file, alerts, histogram, raw>>

(* The line that write() writes, and the history.                          *)
WriteLine ==
    LET f == Feature(Hit.pos, Hit.len)
        c == Context(Hit.pos, Hit.len)
    IN  /\ file' = Append(file, Line(FeaturePos0(Hit.pos), QuotedFeature(f), QuotedContext(c)))
        /\ raw' = Append(raw, [feature |-> f, context |-> c])

(* recurse() of a small buffer calls the scanner at once, which is one     *)
(* that also takes what was seen before.                                   *)
RecurseInto(child) ==
    /\ callers' = <<[sbuf |-> sbuf, at |-> Hit.next]>> \o callers
    /\ sbuf' = child
    /\ at' = 0

Recurses == setup.recurse # "no" /\ ~isRecursive(sbuf.pos0)

WriteFeature ==
    LET f == Feature(Hit.pos, Hit.len)
        c == Context(Hit.pos, Hit.len)
    IN  /\ InPage /\ Quotable /\ ~IsEmpty /\ ~HistogramThrows(f)
        /\ WriteLine
        /\ histogram' = add_feature_context(histogram, f, c)
        /\ \/ Recurses /\ RecurseInto(Child(Hit.pos))
           \/ ~Recurses /\ at' = Hit.next /\ UNCHANGED <<sbuf, callers>>
        /\ UNCHANGED <<setup, image, pc, page, alerts>>

(* write() throws: before it writes the line, because of the feature or    *)
(* the context, or after it, because of the histogram; or write_buf() does *)
(* because of the position.  process_sbuf() catches it.                    *)
Alert == alerts' = Append(alerts, sbuf.pos0) /\ ScannerReturns

ThrowOutside ==
    /\ Scanning /\ Hit # NoHit /\ OutsideBuffer(Hit.pos)
    /\ Alert
    /\ UNCHANGED <<file, histogram, raw>>

ThrowBeforeLine ==
    /\ InPage /\ ~Quotable
    /\ Alert
    /\ UNCHANGED <<file, histogram, raw>>

ThrowAfterLine ==
    /\ InPage /\ Quotable /\ ~IsEmpty
    /\ HistogramThrows(Feature(Hit.pos, Hit.len))
    /\ WriteLine
    /\ Alert
    /\ UNCHANGED histogram

(* shutdown() writes the histogram; nothing catches what is thrown here.   *)
Shutdown ==
    /\ pc = "client" /\ ~MorePages
    /\ setup.incremental \/ ~ReadThrows
    /\ histogram' = Report
    /\ pc' = "done"
    /\ UNCHANGED <<setup, image, page, sbuf, at, callers, file, alerts, raw>>

ShutdownThrows ==
    /\ pc = "client" /\ ~MorePages
    /\ ~setup.incremental /\ ReadThrows
    /\ pc' = "terminated"
    /\ UNCHANGED <<setup, image, page, sbuf, at, callers, file, alerts, histogram, raw>>

Done == pc \in {"done", "terminated"} /\ UNCHANGED vars

Next ==
    \/ NextPage \/ SkipScanner \/ FindNothing \/ WriteNothing \/ WriteFeature
    \/ ThrowOutside \/ ThrowBeforeLine \/ ThrowAfterLine
    \/ Shutdown \/ ShutdownThrows \/ Done

Spec == Init /\ [][Next]_vars

-----------------------------------------------------------------------------
(* Properties.                                                             *)

Written == 1 .. Len(file)
FieldsOf(line) == SubSeq(line, 2, Len(line))

(* The types of the variables; a buffer's page is a part of it; its path   *)
(* is as deep as the calls that have led to it; and what is written is     *)
(* never longer than the recorder's definition allows, but never empty     *)
(* either.                                                                 *)
TypeOK ==
    /\ setup \in Setups /\ Len(image) = setup.length
    /\ pc \in {"client", "scan", "done", "terminated"}
    /\ page \in 0 .. Len(image)
    /\ sbuf.pagesize <= bufsize(sbuf) /\ at \in Nat
    /\ depth(sbuf.pos0) = Len(callers)
    /\ Len(raw) = Len(file)
    /\ \A i \in Written :
          /\ \A field \in ToSet(FieldsOf(file[i])) : ToSet(field) \subseteq Bytes
          /\ Len(file[i][2]) \in 1 .. setup.max_feature_size
          /\ Len(file[i]) = 3 => Len(file[i][3]) \in 1 .. setup.max_context_size

-----------------------------------------------------------------------------
(* What there is to be found in the image, told without pages.             *)
Behind(s, p) == SubSeq(s, p + 1, Len(s))
ImageAt(p) == image[p + 1]
ImagePositions == 0 .. Len(image) - 1
PageStarts == {p \in ImagePositions : p % setup.pagesize = 0}
PagesOf(positions) == {p \in ImagePositions : p \div setup.pagesize \in positions}

ImageLines == {p \in ImagePositions : p = 0 \/ ImageAt(p - 1) = NEWLINE}
ImageStrings == {p \in ImagePositions : ImageAt(p) # 0 /\ (p = 0 \/ ImageAt(p - 1) = 0)}

ImageWides ==
    LET null(p) == ImageAt(p) = 0 /\ ImageAt(p + 1) = 0
    IN  {p \in ImagePositions :
            /\ p % 2 = 0 /\ p + 1 \in ImagePositions
            /\ ~null(p) /\ (p = 0 \/ null(p - 2))}

RecordLength(p) ==
    LET b == ImageAt(p) c == ImageAt(p + 1)
    IN  CASE setup.take = 1 -> b
          [] setup.order = "little" -> b + 256 * c
          [] OTHER -> 256 * b + c
ImageRecords ==
    LET Fits(p) == p + setup.take <= Len(image)
        isHeader[p \in ImagePositions] ==
            \/ p = 0
            \/ \E q \in 0 .. p - 1 :
                  isHeader[q] /\ Fits(q) /\ p = q + setup.take + RecordLength(q)
    IN  {p \in ImagePositions :
            p - setup.take \in {q \in ImagePositions : isHeader[q] /\ Fits(q) /\ RecordLength(q) > 0}}

ImageCounted ==
    LET UnitsAt(p) == Min({ImageAt(p), (Len(image) - p - 1) \div 2})
        isHeader[p \in ImagePositions] ==
            p = 0 \/ \E q \in 0 .. p - 1 : isHeader[q] /\ p = q + 1 + 2 * UnitsAt(q)
    IN  {p \in ImagePositions : p > 0 /\ isHeader[p - 1] /\ UnitsAt(p - 1) > 0}

Occurrences ==
    CASE setup.kind \in {"find", "findbin"} ->
           {p \in ImagePositions : IsPrefix(setup.needle, Behind(image, p))}
      [] setup.kind = "getline" -> ImageLines
      [] setup.kind = "strings" -> ImageStrings
      [] setup.kind = "wide" -> ImageWides
      [] setup.kind = "records" -> ImageRecords
      [] setup.kind = "counted" -> ImageCounted

(* What the search functions do not promise to find: findbin() may skip an *)
(* occurrence behind a byte that looked like one, and getline() takes the  *)
(* line after an empty one with it.                                        *)
Hidden ==
    CASE setup.kind = "findbin" -> {p \in Occurrences : p > 0 /\ ImageAt(p - 1) = setup.needle[1]}
      [] setup.kind = "getline" ->
           {p \in Occurrences : p > 0 /\ ImageAt(p) # NEWLINE /\ p - 1 \in ImageLines \cup PageStarts}
      [] OTHER -> {}

(* Text goes on over the end of a page, where the next page begins with    *)
(* the rest of it.                                                         *)
Rests == IF setup.kind \in {"getline", "strings", "wide"} THEN PageStarts ELSE {}

(* The pages that no scanner is called on: their bytes have a period, or   *)
(* are, with the margin, too few or too much alike.                        *)
HasPeriod(s, n) == 2 * n < Len(s) /\ \A i \in 1 .. Len(s) - n : s[i] = s[i + n]
SkippedPages ==
    LET bytes(k, n) == SubSeq(Behind(image, k * setup.pagesize), 1,
                              Min({n, Len(image) - k * setup.pagesize}))
    IN  {k \in {p \div setup.pagesize : p \in PageStarts} :
            LET both == bytes(k, setup.pagesize + setup.margin)
            IN  \/ Len(both) < setup.min_sbuf_size
                \/ Cardinality(ToSet(both)) < setup.min_distinct_chars
                \/ /\ ~setup.scan_ngram_buffer
                   /\ \E n \in 1 .. setup.max_ngram - 1 : HasPeriod(bytes(k, setup.pagesize), n)}

ImageOffset(i) == file[i][1].offset - setup.offset_add
FromImage == {i \in Written : ~isRecursive(file[i][1])}
AlertPages == {alerts[i].offset \div setup.pagesize : i \in {j \in DOMAIN alerts : ~isRecursive(alerts[j])}}

BytesAt(pos0) ==
    IF isRecursive(pos0)
    THEN Behind(Decode(pos0.path[2], Behind(image, imageOffset(pos0))), pos0.offset)
    ELSE Behind(image, pos0.offset - setup.offset_add)

(* Where the scanner has recursed from line i, what there is to be found   *)
(* in the rest of the page, decoded, and what has been found there.        *)
InsideOf(i) ==
    LET from == file[i][1].offset
        bytes == BytesAt(pos0_t(<<from, setup.recurse>>, 0))
    IN  {q \in 0 .. Len(bytes) - 1 :
            /\ (from + q) \div setup.pagesize = from \div setup.pagesize
            /\ IsPrefix(setup.needle, Behind(bytes, q))
            /\ ~(q > 0 /\ bytes[q] = setup.needle[1])}
FoundInside(i) ==
    {file[j][1].offset : j \in {k \in Written : file[k][1].path = <<file[i][1].offset, setup.recurse>>}}

(* Every occurrence in the image is recorded, and once, wherever the pages *)
(* part it: what begins in a margin is left to the next page, and nothing  *)
(* is lost between two.  Only a page that was skipped or whose scan ended  *)
(* in an exception may miss some.  Nor is anything lost in the page of a   *)
(* buffer that a scanner recurses into, although it begins and ends        *)
(* elsewhere.                                                              *)
OncePerPlace == \A i, j \in Written : file[i][1] = file[j][1] => i = j
OnlyOccurrences == {ImageOffset(i) : i \in FromImage} \subseteq Occurrences \cup Rests
EveryOccurrence ==
    pc = "done" =>
        Occurrences \ (Hidden \cup PagesOf(AlertPages \cup SkippedPages)) \subseteq {ImageOffset(i) : i \in FromImage}
EveryOccurrenceInside ==
    pc = "done" /\ setup.recurse # "no" =>
        \A i \in FromImage :
            \/ ImageOffset(i) \in PagesOf(AlertPages)
            \/ pos0_t(<<file[i][1].offset, setup.recurse>>, 0) \in ToSet(alerts)
            \/ InsideOf(i) \subseteq FoundInside(i)

FoundOnce == OncePerPlace /\ OnlyOccurrences /\ EveryOccurrence /\ EveryOccurrenceInside

-----------------------------------------------------------------------------
(* The forensic path of a line leads back to the feature: to the place in  *)
(* the image, or into what is decoded from there.                          *)
PathLeadsBack(i) == IsPrefix(raw[i].feature, BytesAt(file[i][1]))

(* A field of a line holds no control character, so that no feature can    *)
(* end its line or its field; and unless it was cut, taking the quotes off *)
(* again gives the bytes that were found.  make_utf8() and write() both    *)
(* quote a feature, so they come off twice; of UTF-16, what comes back is  *)
(* the UTF-8, and where nothing quotes its backslashes either, it has to   *)
(* be free of what is escaped in any case.                                 *)
Unquote(s, n) ==
    LET times[k \in 0 .. n] == IF k = 0 THEN s ELSE unquote_string(times[k - 1]) IN times[n]

IsUTF16(f) == looks_like_utf16(f) # "none"
UTF8Of(f) == IF IsUTF16(f) THEN make_utf8(f) ELSE f
Uncut(i) == /\ Len(Quote(make_utf8(raw[i].feature))) <= setup.max_feature_size
            /\ Len(Quote(raw[i].context)) <= setup.max_context_size
QuotesOf(f) == (IF IsUTF16(f) THEN 0 ELSE 1) + (IF EscapeBackslash THEN 1 ELSE 0)

Clean(s) == ~HasBadUTF8(s) /\ \A k \in DOMAIN s : s[k] >= 32

FieldsReadBack(i) ==
    /\ \A field \in ToSet(FieldsOf(file[i])) : \A k \in DOMAIN field : field[k] >= 32
    /\ Uncut(i) =>
          /\ QuotesOf(raw[i].feature) > 0 \/ Clean(UTF8Of(raw[i].feature)) =>
                Unquote(file[i][2], QuotesOf(raw[i].feature)) = UTF8Of(raw[i].feature)
          /\ Len(file[i]) = 3 /\ EscapeBackslash => unquote_string(file[i][3]) = raw[i].context

LeadsBack == \A i \in Written : PathLeadsBack(i) /\ FieldsReadBack(i)

(* What is in the image is recorded once, at its place and as it is there. *)
FoundWhereItIs == FoundOnce /\ LeadsBack

-----------------------------------------------------------------------------
(* The histogram in memory has seen what was found, and the one made from  *)
(* the feature file what was written; both count the same texts, each as   *)
(* often as there are lines of it; without its quotes each key is its      *)
(* text, and no key can end its line.                                      *)
TextOf(i) ==
    LET text == IF setup.lowercase THEN Lowercase(UTF8Of(raw[i].feature)) ELSE UTF8Of(raw[i].feature)
    IN  IF setup.numeric THEN SelectIn(text, 48 .. 57) ELSE text

IsCounted(i) ==
    /\ IF setup.incremental THEN ~HistogramThrows(raw[i].feature) ELSE Len(file[i]) = 3
    /\ setup.require # <<>> =>
          /\ setup.require_feature => ContainsString(TextOf(i), setup.require)
          /\ setup.require_context => ContainsString(raw[i].context, setup.require)

KeyText(key) == Unquote(key, IF setup.incremental THEN 1 ELSE IF EscapeBackslash THEN 3 ELSE 2)

HistogramsAgree ==
    LET Counted(t) == {i \in Written : IsCounted(i) /\ TextOf(i) = t}
    IN  pc = "done" /\ (\A i \in Written : setup.incremental \/ Uncut(i)) =>
          /\ {KeyText(k) : k \in DOMAIN histogram} = {TextOf(i) : i \in {j \in Written : IsCounted(j)}}
          /\ \A k \in DOMAIN histogram :
                /\ \A i \in DOMAIN k : k[i] >= 32
                /\ histogram[k].count = Cardinality(Counted(KeyText(k)))
                /\ setup.incremental =>
                      histogram[k].count16 =
                        Cardinality({i \in Counted(KeyText(k)) : IsUTF16(raw[i].feature)})

(* The feature file of one run, taken as the stop list of the next, stops  *)
(* every line of it, unless an earlier line has the context already, but   *)
(* with another feature.                                                   *)
ContextField(line) == IF Len(line) = 3 THEN line[3] ELSE <<>>
StopsAgain ==
    pc = "done" =>
        LET list == readfile(file)
        IN  \A i \in Written :
              \/ check_feature_context(list, file[i][2], ContextField(file[i]))
              \/ \E j \in 1 .. i - 1 : /\ ContextField(file[j]) = ContextField(file[i])
                                       /\ ContextField(file[i]) # <<>>
                                       /\ file[j][2] # file[i][2]
=============================================================================
