----------------------------- MODULE MCSessions -----------------------------
(* Sessions for TLC: accounts are alike, and so are clients.                 *)
EXTENDS Sessions, TLC

Alike == Permutations(Account) \cup Permutations(Client)
=============================================================================
