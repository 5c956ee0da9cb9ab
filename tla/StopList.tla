------------------------------ MODULE StopList ------------------------------
(***************************************************************************)
(* word_and_context_list: the list of features that are to be ignored,     *)
(* each in certain contexts only.  It is read from a file of features,     *)
(* whose lines are here the sequences of their fields, which tabs part.    *)
(* The regular expressions, which a feature file has none of, are RE2's    *)
(* and not modelled.                                                       *)
(***************************************************************************)
EXTENDS Integers, Sequences, SequencesExt

EmptyList == [fcmap |-> {}, context_set |-> {}]

(* context::extract_before_after(): what surrounds the first occurrence.   *)
(* The last place where the feature fits into the context is not tried.    *)
Places(feature, ctx) ==
    {i \in 0 .. Len(ctx) - Len(feature) - 1 : SubSeq(ctx, i + 1, i + Len(feature)) = feature}

context(feature, ctx) ==
    LET places == Places(feature, ctx)
        first == CHOOSE i \in places : \A j \in places : i <= j
    IN  IF places = {}
        THEN [feature |-> feature, before |-> <<>>, after |-> <<>>]
        ELSE [feature |-> feature,
              before |-> SubSeq(ctx, 1, first),
              after |-> SubSeq(ctx, first + Len(feature) + 1, Len(ctx))]

(* add_fc(): a context that is known is not added, whatever the feature.   *)
(* Mutation: nor is a feature that is known, whatever the context.         *)
add_new(list, f, c) ==
    IF f \in {e.feature : e \in list.fcmap} THEN list
    ELSE [fcmap |-> list.fcmap \cup {context(f, c)},
          context_set |-> list.context_set \cup {c}]

add_fc(list, f, c) ==
    IF c # <<>> /\ c \in list.context_set THEN list
    ELSE [fcmap |-> list.fcmap \cup {context(f, c)},
          context_set |-> list.context_set \cup {c}]

(* readfile(): a line with two tabs is a feature with its context, a line  *)
(* with one a feature without, and one with none is a feature itself.      *)
ReadLine(list, line) ==
    CASE Len(line) >= 3 -> add_fc(list, line[2], line[3])
      [] Len(line) = 2 -> add_fc(list, line[2], <<>>)
      [] Len(line) = 1 -> [list EXCEPT !.fcmap = @ \cup {context(line[1], <<>>)}]

readfile(lines) == FoldLeft(ReadLine, EmptyList, lines)

(* rstrcmp() = 0: the longer string ends with the shorter one.             *)
SameEnd(a, b) == IsSuffix(a, b) \/ IsSuffix(b, a)

(* check_feature_context().                                                *)
check(list, probe, before, after) ==
    \E e \in list.fcmap :
        e.feature = probe /\ SameEnd(e.before, before) /\ SameEnd(e.after, after)

check_feature_context(list, probe, ctx) ==
    LET c == context(probe, ctx) IN check(list, probe, c.before, c.after)
=============================================================================
