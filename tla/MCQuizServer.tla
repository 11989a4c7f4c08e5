---------------------------- MODULE MCQuizServer ----------------------------
(* Tabs of a user over changes of patch, with an item quiz of each of two   *)
(* patches, or a trait quiz of the first and an item quiz of the second.    *)
EXTENDS QuizServer, TLC

CONSTANTS t1, t2, u1, login, trait1, item1, item2

MCTab == {t1, t2}
MCUser == {u1}
MCUserOf == [t \in Tab |-> u1]
OneTab == {t1}
WithLogin == {u1, login}
LoggedIn == [t \in Tab |-> login]
MCPuuid == [t \in Tab |-> NoUser]
MCPuzzle == {trait1, item2}
Items == {item1, item2}
MCTypeOf == [q \in Puzzle |-> IF q = trait1 THEN "trait_quiz" ELSE "item_combine"]
MCIssuedFor == [q \in Puzzle |-> IF q = item2 THEN 2 ELSE 1]
MCGroup == [q \in Puzzle |-> IF q = trait1 THEN NoGroup ELSE "carry"]

(* The tabs are alike. *)
Sym == Permutations({t1, t2})
=============================================================================
