------------------------------- MODULE MCMail -------------------------------
(* Mail for TLC: a sender and a reader who may block them, and a newcomer.   *)
EXTENDS Mail, TLC

CONSTANTS w1, w2

Requests ==
       {[op |-> "send", by |-> w1, to |-> t] : t \in {<<w2>>, <<w2, w1>>, <<w2, Nobody>>}}
  \cup {[op |-> "send", by |-> w2, to |-> <<w1>>]}
  \cup {[op |-> "delete", by |-> w2, id |-> i] : i \in 1..2}
  \cup {[op |-> "purge", by |-> w2, id |-> 1]}
  \cup {[op |-> o, by |-> w2, who |-> w1] : o \in {"block", "unblock"}}
  \cup {[op |-> "poll", by |-> w2]}

Alike == Permutations(Worker)
=============================================================================
