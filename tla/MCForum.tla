------------------------------- MODULE MCForum ------------------------------
(* Forum for TLC: workers are alike, and so are the boards.                  *)
EXTENDS Forum, TLC

Alike == Permutations(Worker) \cup Permutations(Board)

(* Bound: of all rows, one at most is removed, deleted or rewritten by staff. *)
OneChanged ==
  Cardinality({t \in Topic : topics[t] # NoRow /\ topics[t].removed}
         \cup {p \in Post : posts[p] # NoRow /\ (posts[p].deleted \/ posts[p].writer # posts[p].author)}) <= 1

(* Bound: who may be staff is staff, except while one post is drawn and no   *)
(* second one: a row to change is there by then.                             *)
StaffWhileAPost ==
  Cardinality(FreshPosts) + 1 # Cardinality(Post) => staff = Staff
=============================================================================
