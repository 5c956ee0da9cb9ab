---------------------------- MODULE MCFeatureScan ----------------------------
(***************************************************************************)
(* Images of up to nine bytes, from alphabets that hold what the scanner   *)
(* looks for: bytes that match, that quoting treats specially (a backslash,*)
(* a control character, parts of UTF-8 characters) or that make a string   *)
(* look like UTF-16.                                                       *)
(***************************************************************************)
EXTENDS FeatureScan

(* A recorder with the default flags and a histogram in memory.            *)
Default ==
    [length |-> 7, alphabet |-> {97, 98}, pagesize |-> 3, margin |-> 2,
     kind |-> "findbin", needle |-> <<97, 98>>, take |-> 2, order |-> "little",
     recurse |-> "no", no_context |-> FALSE, no_quote |-> FALSE, xml |-> FALSE,
     max_feature_size |-> 40, max_context_size |-> 60, context_window |-> 1,
     min_sbuf_size |-> 1, scan_ngram_buffer |-> TRUE, max_ngram |-> 3, min_distinct_chars |-> 1,
     offset_add |-> 0, incremental |-> TRUE, lowercase |-> FALSE, numeric |-> FALSE,
     require |-> <<>>, require_feature |-> TRUE, require_context |-> FALSE]

On(base, n, alphabet) == [base EXCEPT !.length = n, !.alphabet = alphabet]

(* Looking for one byte, and taking some bytes from there.                 *)
Find(needle, take) == [Default EXCEPT !.kind = "find", !.needle = needle, !.take = take]
FromFile(base) == [base EXCEPT !.incremental = FALSE]

Strings ==
    {On(Default, 9, {97, 98}),
     On([Default EXCEPT !.margin = 1, !.offset_add = 1000], 7, {97, 98}),
     On([Default EXCEPT !.recurse = "XOR", !.take = 3], 6, {97, 98}),
     On([Default EXCEPT !.recurse = "SLICE", !.pagesize = 4], 7, {97, 98}),
     On([Find(<<97>>, 2) EXCEPT !.recurse = "SLICE"], 5, {97, 200}),
     On([FromFile(Default) EXCEPT !.context_window = 2], 6, {97, 98})}

(* Backslashes and bad UTF-8, with each way to quote them.                 *)
Quotes ==
    {On(Find(<<92>>, 2), 5, {92, 97, 200}),
     On([FromFile(Find(<<92>>, 2)) EXCEPT !.lowercase = TRUE], 4, {92, 65, 7}),
     On([Find(<<97>>, 2) EXCEPT !.no_quote = TRUE], 5, {92, 97, 200}),
     On([FromFile(Find(<<97>>, 2)) EXCEPT !.xml = TRUE], 4, {92, 97, 200}),
     On([FromFile(Find(<<97>>, 2)) EXCEPT !.no_context = TRUE], 4, {97, 49})}

(* Characters of two bytes, which the size of a feature may cut in two.    *)
Cut ==
    {On([FromFile(Find(<<97>>, 3)) EXCEPT !.max_feature_size = 2, !.max_context_size = 3],
        4, {97, 195, 169}),
     On([Find(<<195>>, 2) EXCEPT !.max_feature_size = 5], 4, {97, 195, 169})}

UTF16 ==
    {On([Find(<<97>>, 4) EXCEPT !.margin = 3], 6, {0, 97, 98}),
     On([Find(<<0>>, 4) EXCEPT !.margin = 3, !.lowercase = TRUE], 6, {0, 65, 216})}

Streams ==
    {On([Default EXCEPT !.kind = "getline"], 7, {10, 97, 98}),
     On([Default EXCEPT !.kind = "strings"], 7, {0, 97, 49}),
     On([Default EXCEPT !.kind = "wide", !.pagesize = 4, !.margin = 1], 6, {0, 97}),
     On([Default EXCEPT !.kind = "records", !.take = 1, !.pagesize = 8, !.margin = 0], 6, {0, 1, 2}),
     On([Default EXCEPT !.kind = "records", !.take = 2, !.pagesize = 8, !.margin = 0,
                            !.order = "big"], 6, {0, 1, 2}),
     On([Default EXCEPT !.kind = "counted", !.take = 1, !.pagesize = 8, !.margin = 0], 6, {0, 1, 2})}

(* Histograms of the digits, or of what a text is required for.            *)
Histograms ==
    {On([Find(<<97>>, 3) EXCEPT !.numeric = TRUE], 5, {97, 49, 50}),
     On([Find(<<97>>, 3) EXCEPT !.require = <<98>>], 5, {97, 98}),
     On([Find(<<97>>, 2) EXCEPT !.require = <<98, 97>>, !.require_feature = FALSE,
                                    !.require_context = TRUE], 5, {97, 98})}

(* Buffers that no scanner is called on.                                   *)
Skipped ==
    {On([Default EXCEPT !.pagesize = 5, !.scan_ngram_buffer = FALSE], 8, {97, 98}),
     On([Default EXCEPT !.min_distinct_chars = 3], 6, {97, 98, 99}),
     On([Default EXCEPT !.min_sbuf_size = 3], 7, {97, 98})}

MCSetups == Skipped \cup Strings \cup Quotes \cup Cut \cup UTF16 \cup Streams \cup Histograms
=============================================================================
