---------------------------- MODULE MCTribeVote -----------------------------
(* An instance of TribeVote for TLC with two stories, each with a tribe of  *)
(* its own.  In c1 two warriors found, join, leave and disband, at every    *)
(* stage of a tribe.  The other tribe has three leaders, who authorise its  *)
(* disbanding while w3 withdraws, leaves, or is demoted and promoted again. *)
(* What no request of a story names stays as it was, so neither needs the   *)
(* other.                                                                   *)
EXTENDS TribeVote, TLC

CONSTANTS w3, c1

Founders == Warrior \ {w3}

At1(Rank1(_)) ==
  [c \in Tribe |-> [w \in Warrior |-> IF c = c1 /\ w # w3 THEN Rank1(w) ELSE NotMember]]

NobodyYet         == At1(LAMBDA w : NotMember)
LeaderAlone(l)    == At1(LAMBDA w : IF w = l THEN RankLeader ELSE NotMember)
LeaderAndCrew(l)  == At1(LAMBDA w : IF w = l THEN RankLeader ELSE RankRecruit)
TwoLeaders        == At1(LAMBDA w : RankLeader)
ThreeLeaders      == [c \in Tribe |-> [w \in Warrior |-> IF c = c1 THEN NotMember ELSE RankLeader]]

Stories ==
       {NobodyYet, TwoLeaders, ThreeLeaders}
  \cup {LeaderAlone(l) : l \in Founders} \cup {LeaderAndCrew(l) : l \in Founders}

(* Bound: the requests that belong to the story under way. *)
Voting == \E c \in Tribe \ {c1} : db[Clan(c)] # NoClan

Meets(q) == q.tribe = c1 /\ q.op \notin {"setRank", "withdraw"} /\ w3 \notin {q.by, q.target}
Votes(q) ==
  /\ q.tribe # c1
  /\ \/ q.op = "disband"
     \/ q.op \in {"withdraw", "leave"} /\ q.by = w3
     \/ q.op = "setRank" /\ q.target = w3 /\ q.rank \in {RankRecruit, RankLeader}

InStory == \A k \in Worker : ~Idle(k) => IF Voting THEN Votes(req[k]) ELSE Meets(req[k])

(* Workers are alike, and so are the warriors other than w3.                *)
Alike == Permutations(Worker) \cup Permutations(Founders)
=============================================================================
