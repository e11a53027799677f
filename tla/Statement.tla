----------------------------- MODULE Statement -----------------------------
(***************************************************************************)
(* What a caller of db.WithRetry may assume of one statement that writes:  *)
(* however often it was sent, its effect happens at most once, "ok" means  *)
(* that it has happened, and an error says nothing: it may have happened,  *)
(* or still happen.  JoinToCreate, AutoRole and ReactionRoles build on     *)
(* this: a call is one step there that succeeds, fails, or is applied and  *)
(* fails.                                                                  *)
(***************************************************************************)
VARIABLES
    applied,   \* the effect is in the database
    answer     \* "pending", "ok" or "error"

Init == applied = FALSE /\ answer = "pending"

Apply   == ~applied /\ applied' = TRUE /\ UNCHANGED answer
Succeed == answer = "pending" /\ applied' = TRUE /\ answer' = "ok"
Fail    == answer = "pending" /\ answer' = "error" /\ applied' \in {applied, TRUE}

Next == Apply \/ Succeed \/ Fail

Spec == Init /\ [][Next]_<<applied, answer>>
=============================================================================
