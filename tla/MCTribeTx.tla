----------------------------- MODULE MCTribeTx ------------------------------
(* Instances of TribeTx for TLC: the rosters an instance may begin with.    *)
EXTENDS TribeTx

CONSTANT w1

In(ranks) == [c \in Tribe |-> [w \in Warrior |-> ranks[w]]]

Founding  == {In([w \in Warrior |-> NotMember])}
Recruited == {In([w \in Warrior |-> IF w = w1 THEN RankLeader ELSE RankRecruit])}
=============================================================================
