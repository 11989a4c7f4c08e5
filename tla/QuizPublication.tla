--------------------------- MODULE QuizPublication ---------------------------
(***************************************************************************)
(* What the pipeline promises the quiz server: an item quiz is written     *)
(* only for the patch being served, once it has enough matches, and from   *)
(* statistics that count each of its stored matches exactly once.          *)
(***************************************************************************)
EXTENDS QuizPolicy

VARIABLES rawMatches, patchVersions,
  quizzes   \* the picks each quiz was made from, none where there is no quiz

Store == INSTANCE MatchStore WITH rawMatches <- rawMatches, patchVersions <- patchVersions

vars == <<rawMatches, patchVersions, quizzes>>

Init == Store!Init /\ quizzes = [k \in QuizKeys |-> NoPicks]

Collect == Store!Next /\ UNCHANGED quizzes

Publish(k) ==
  LET rows == RowsOf(rawMatches, k[1])
  IN  /\ k[1] \in CurrentPatchInfo(patchVersions)
      /\ Cardinality(rows) >= MinRegen
      /\ HasQuiz(k[2], rows)
      /\ quizzes' = [quizzes EXCEPT ![k] = Listed(Picks(k[2], rows))]
      /\ UNCHANGED <<rawMatches, patchVersions>>

Next == Collect \/ \E k \in QuizKeys : Publish(k)

Spec == Init /\ [][Next]_vars
=============================================================================
