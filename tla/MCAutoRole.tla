----------------------------- MODULE MCAutoRole -----------------------------
(* Instances of AutoRole for TLC.                                          *)
EXTENDS AutoRole, TLC

\* Members, roles, goroutines and requests are interchangeable; no invariant names one.
Symmetry == Permutations(Users) \cup Permutations(Roles)
            \cup Permutations(Handlers) \cup Permutations(Requests)
=============================================================================
