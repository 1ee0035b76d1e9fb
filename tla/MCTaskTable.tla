----------------------------- MODULE MCTaskTable -----------------------------
EXTENDS TaskTable, TLC

\* The filter that the data source is written with is SelectSeq.
ASSUME FilterIsSelectSeq ==
    \A list \in Lists, S \in SUBSET TaskObjects :
        Filter(list, S) = SelectSeq(list, LAMBDA task : task \in S)

\* Tasks are compared for equality only, and the one CHOOSE among them is from a set of one.
Symmetry == Permutations(Tasks)
=============================================================================
