-------------------------- MODULE MCQuestLifecycle --------------------------
(* QuestLifecycle on a small instance.                                     *)
EXTENDS QuestLifecycle, TLC

CONSTANTS q1, e1, e2, b1

\* Two enrollments, one after the other, in the one quest.
MCQuestOf  == (e1 :> q1) @@ (e2 :> q1)
MCTargetOf == q1 :> 1
MCBadgeOf  == q1 :> b1

Alike == Permutations(Requests) \cup Permutations(Enrollments)
=============================================================================
