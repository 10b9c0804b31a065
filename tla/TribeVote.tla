----------------------------- MODULE TribeVote ------------------------------
(* What disbanding promises where requests overlap.  Disband counts the     *)
(* leaders in one statement and their votes in the next, at READ COMMITTED, *)
(* and writes in a third: what others commit meanwhile it does not see.     *)
(* This module adds to TribeTx one history variable, which no step reads.   *)
EXTENDS TribeTx

VARIABLE moved  \* the workers whose count was overtaken (see Overtakes)

voteVars == <<vars, moved>>

(* A disbanding that has counted its leaders and not yet been answered. *)
Counting(k) == ~Idle(k) /\ req[k].op = "disband" /\ pc[k] > 4

(* A commit that makes somebody a leader of c, or takes back a vote. *)
Overtakes(c) ==
  \E w \in Warrior : \/ db[Member(c, w)] # RankLeader /\ db'[Member(c, w)] = RankLeader
                     \/ db[Vote(c, w)] /\ ~db'[Vote(c, w)]

VoteInit == Init /\ moved = {}

VoteNext ==
  /\ Next
  /\ moved' = {k \in Worker : /\ Counting(k) /\ Counting(k)'
                              /\ k \in moved \/ Overtakes(req[k].tribe)}

VoteSpec == VoteInit /\ [][VoteNext]_voteVars

(* A tribe is disbanded by a request of one of its leaders, and only when   *)
(* every leader it then has voted for it (clan.go:456), whoever votes,      *)
(* leaves or is kicked or demoted meanwhile: the vote of a leader gone      *)
(* since does not stand in for one who has not voted, which is what the     *)
(* join of votes and members is for (clan.go:493).  The one way around it   *)
(* is a promotion or a withdrawal committed between the count of leaders    *)
(* and the disbanding itself.                                               *)
DisbandIsUnanimous ==
  [][\A c \in Tribe : db[Clan(c)].status = "active" /\ db'[Clan(c)].status = "disbanded" =>
       \E k \in Worker :
         /\ ~Idle(k) /\ req[k].op = "disband" /\ req[k].tribe = c /\ req'[k] = NoRequest
         /\ k \in moved \/ \A w \in Warrior : db'[Member(c, w)] = RankLeader => db'[Vote(c, w)]
    ]_voteVars
=============================================================================
