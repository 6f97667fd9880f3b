---- MODULE MCTodoStore ----
EXTENDS TodoStore, TLC

\* Users and texts are interchangeable.
TextSymmetry == Permutations(Texts)
Symmetry == Permutations(Owners) \cup TextSymmetry
====
