------------------------------ MODULE MCServer ------------------------------
(* Server for TLC: a first build, one that adds a migration and one that     *)
(* edits the first; visitors are alike, and so are instances.                *)
EXTENDS Server, TLC

CONSTANTS first, second, edited

Sums == (first :> <<1, 0>>) @@ (second :> <<1, 1>>) @@ (edited :> <<2, 1>>)

Alike == Permutations(Visitor) \cup Permutations(Instance)
=============================================================================
