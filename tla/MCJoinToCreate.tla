--------------------------- MODULE MCJoinToCreate ---------------------------
(* Instances of JoinToCreate for TLC.                                      *)
EXTENDS JoinToCreate, TLC

\* Members, goroutines and ids are interchangeable; no property or fairness
\* condition of the safety runs names one.
Symmetry == Permutations(Users) \cup Permutations(Handlers) \cup Permutations(Temps)
=============================================================================
