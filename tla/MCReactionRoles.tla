-------------------------- MODULE MCReactionRoles --------------------------
(* Instances of ReactionRoles for TLC.                                     *)
EXTENDS ReactionRoles, TLC

\* People, emojis, roles and goroutines are interchangeable.
Symmetry == Permutations(Users) \cup Permutations(Emojis) \cup Permutations(Roles)
            \cup Permutations(Handlers)
=============================================================================
