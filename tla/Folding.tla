------------------------------- MODULE Folding -------------------------------
(***************************************************************************)
(* Sums over finite sets and selections from sequences.  What is summed is *)
(* a function and what is selected is a set, where the folds and SelectSeq *)
(* of the libraries take operators.                                        *)
(***************************************************************************)
EXTENDS Integers, Sequences, FiniteSetsExt

(* The sum of weight[x] for the x in S.                                    *)
SumOf(weight, S) == FoldSet(LAMBDA x, n : n + weight[x], 0, S)

(* The elements of s that are in S, in their order.                        *)
SelectIn(s, S) ==
    LET upTo[n \in 0 .. Len(s)] ==
          IF n = 0 THEN <<>>
          ELSE IF s[n] \in S THEN Append(upTo[n - 1], s[n])
          ELSE upTo[n - 1]
    IN  upTo[Len(s)]
=============================================================================
