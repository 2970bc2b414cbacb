------------------------------- MODULE MCHistory -------------------------------
(* Two phones, which are alike; one of two file names ends in ".part".            *)
EXTENDS History, TLC

\* On short lists, Only is what SelectSeq makes of them.
ASSUME OnlyIsFilter ==
    \A list \in UNION {[1..n -> 1..3] : n \in 0..4}, kept \in SUBSET (1..3) :
        Only(list, kept) = SelectSeq(list, LAMBDA x : x \in kept)

Symmetric == Permutations(Phone)
=================================================================================
