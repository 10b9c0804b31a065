---------------------------- MODULE TribesProofs ----------------------------
(***************************************************************************)
(* What Tribes guarantees for any number of warriors and tribes.           *)
(*                                                                         *)
(* The invariant is the conjunction the runs check, strengthened by one    *)
(* fact about names nobody has used: founding a tribe makes its founder a  *)
(* member without looking at clan_invites, which is only safe because      *)
(* there can be no row for a tribe that does not exist.                    *)
(***************************************************************************)
EXTENDS Tribes, FiniteSetTheorems, TLAPS

UnusedNames ==
  \A c \in Tribe, w \in Warrior : status[c] = "unfounded" => invite[c][w] = NoInvite

IInv == TypeOK /\ TagIsEarned /\ InvitesAreOutsiders /\ UnusedNames

USE DEF Rank, RankRecruit, RankLeader, NotMember, rankToEditInfo, rankToInvite,
        rankToPromote, rankToDisband

(* Replacing one cell of a table indexed by two keys stays in the table's type. *)
LEMMA CellUpdate ==
  ASSUME NEW A, NEW B, NEW S, NEW f \in [A -> [B -> S]],
         NEW a \in A, NEW b \in B, NEW v \in S
  PROVE  [f EXCEPT ![a][b] = v] \in [A -> [B -> S]]
OBVIOUS

(* clearTagIf empties a slot or leaves the table alone. *)
LEMMA ClearTagType ==
  ASSUME TypeOK, NEW w \in Warrior, NEW c \in Tribe, clearTagIf(w, c)
  PROVE  worn' \in [Warrior -> Tribe \cup {NoTribe}]
BY DEF TypeOK, clearTagIf

(* Both ways of joining put a recruit's row where there was none. *)
LEMMA JoinType ==
  ASSUME TypeOK, NEW w \in Warrior, NEW c \in Tribe, Join(c, w)
  PROVE  TypeOK'
<1>1. invite' \in [Tribe -> [Warrior -> InviteRow \cup {NoInvite}]]
  BY CellUpdate DEF TypeOK, Join
<1>2. rank' \in [Tribe -> [Warrior -> Rank \cup {NotMember}]]
  BY CellUpdate DEF TypeOK, Join
<1>3. QED
  BY <1>1, <1>2 DEF TypeOK, Join

(* Every row of every table stays in its range, whatever the request. *)
LEMMA TypePreserved == TypeOK /\ [Next]_vars => TypeOK'
<1> SUFFICES ASSUME TypeOK, [Next]_vars PROVE TypeOK'
  OBVIOUS
<1>1. ASSUME NEW w \in Warrior, ClearActiveClan(w) PROVE TypeOK'
  BY <1>1 DEF TypeOK, ClearActiveClan
<1>2. ASSUME NEW c \in Tribe, NEW w \in Warrior, NEW open \in BOOLEAN,
             CreateTribe(w, c, open)
      PROVE TypeOK'
  <2>1. rank' \in [Tribe -> [Warrior -> Rank \cup {NotMember}]]
    BY <1>2, CellUpdate DEF TypeOK, CreateTribe
  <2>2. QED
    BY <1>2, <2>1 DEF TypeOK, CreateTribe
<1>3. ASSUME NEW c \in Tribe, NEW w \in Warrior, NEW open \in BOOLEAN,
             SetClanRecruiting(w, c, open)
      PROVE TypeOK'
  BY <1>3 DEF TypeOK, SetClanRecruiting
<1>4. ASSUME NEW c \in Tribe, NEW w \in Warrior, LeaveClan(w, c) PROVE TypeOK'
  <2>1. rank' \in [Tribe -> [Warrior -> Rank \cup {NotMember}]]
    BY <1>4, CellUpdate DEF TypeOK, LeaveClan
  <2>2. QED
    BY <1>4, <2>1, ClearTagType DEF TypeOK, LeaveClan
<1>5. ASSUME NEW c \in Tribe, NEW w \in Warrior, SetActiveClan(w, c) PROVE TypeOK'
  BY <1>5 DEF TypeOK, SetActiveClan
<1>6. ASSUME NEW c \in Tribe, NEW w \in Warrior, RequestInvite(w, c) PROVE TypeOK'
  <2>1. invite' \in [Tribe -> [Warrior -> InviteRow \cup {NoInvite}]]
    <3>1. [kind |-> "request", recent |-> TRUE] \in InviteRow
      BY DEF InviteRow
    <3>2. QED
      BY <1>6, <3>1, CellUpdate DEF TypeOK, RequestInvite
  <2>2. QED
    BY <1>6, <2>1 DEF TypeOK, RequestInvite
<1>7. ASSUME NEW c \in Tribe, NEW w \in Warrior, WindowPasses(c, w) PROVE TypeOK'
  <2>1. [invite[c][w] EXCEPT !.recent = FALSE] \in InviteRow
    <3>1. invite[c][w] \in InviteRow \cup {NoInvite} /\ invite[c][w].recent
      BY <1>7 DEF TypeOK, WindowPasses
    <3>2. invite[c][w] \in InviteRow
      BY <3>1 DEF NoInvite
    <3>3. QED
      BY <3>2 DEF InviteRow
  <2>2. invite' \in [Tribe -> [Warrior -> InviteRow \cup {NoInvite}]]
    BY <1>7, <2>1, CellUpdate DEF TypeOK, WindowPasses
  <2>3. QED
    BY <1>7, <2>2 DEF TypeOK, WindowPasses
<1>8. ASSUME NEW c \in Tribe, NEW w \in Warrior,
             AcceptInvite(w, c) \/ (\E by \in Warrior : AdmitRequester(by, c, w))
      PROVE TypeOK'
  BY <1>8, JoinType DEF AcceptInvite, AdmitRequester
<1>9. ASSUME NEW c \in Tribe, NEW w \in Warrior,
             RejectInvite(w, c) \/ (\E by \in Warrior : CancelInvite(by, c, w))
      PROVE TypeOK'
  <2>1. invite' = [invite EXCEPT ![c][w] = NoInvite]
    BY <1>9 DEF RejectInvite, CancelInvite
  <2>2. invite' \in [Tribe -> [Warrior -> InviteRow \cup {NoInvite}]]
    BY <2>1, CellUpdate DEF TypeOK
  <2>3. UNCHANGED <<status, recruiting, rank, vote, worn>>
    BY <1>9 DEF RejectInvite, CancelInvite
  <2>4. QED
    BY <2>2, <2>3 DEF TypeOK
<1>10. ASSUME NEW c \in Tribe, NEW w \in Warrior, Disband(w, c) PROVE TypeOK'
  <2>1. vote' \in [Tribe -> SUBSET Warrior]
    BY <1>10 DEF TypeOK, Disband
  <2>2. status' \in [Tribe -> {"unfounded", "active", "disbanded"}]
    BY <1>10 DEF TypeOK, Disband
  <2>3. worn' \in [Warrior -> Tribe \cup {NoTribe}]
    BY <1>10 DEF TypeOK, Disband
  <2>4. QED
    BY <1>10, <2>1, <2>2, <2>3 DEF TypeOK, Disband
<1>11. ASSUME NEW c \in Tribe, NEW w \in Warrior, WithdrawDisband(w, c) PROVE TypeOK'
  <2>1. vote' \in [Tribe -> SUBSET Warrior]
    BY <1>11 DEF TypeOK, WithdrawDisband
  <2>2. QED
    BY <1>11, <2>1 DEF TypeOK, WithdrawDisband
<1>12. ASSUME NEW c \in Tribe, NEW by \in Warrior, NEW w \in Warrior, NEW r \in Rank,
              SetRank(by, c, w, r)
       PROVE TypeOK'
  <2>1. rank' \in [Tribe -> [Warrior -> Rank \cup {NotMember}]]
    BY <1>12, CellUpdate DEF TypeOK, SetRank
  <2>2. QED
    BY <1>12, <2>1 DEF TypeOK, SetRank
<1>13. ASSUME NEW c \in Tribe, NEW by \in Warrior, NEW w \in Warrior, Kick(by, c, w)
       PROVE TypeOK'
  <2>1. rank' \in [Tribe -> [Warrior -> Rank \cup {NotMember}]]
    BY <1>13, CellUpdate DEF TypeOK, Kick
  <2>2. QED
    BY <1>13, <2>1, ClearTagType DEF TypeOK, Kick
<1>14. ASSUME NEW c \in Tribe, NEW by \in Warrior, NEW w \in Warrior, Invite(by, c, w)
       PROVE TypeOK'
  <2>1. [kind |-> "invite", recent |-> TRUE] \in InviteRow
    BY DEF InviteRow
  <2>2. invite' \in [Tribe -> [Warrior -> InviteRow \cup {NoInvite}]]
    BY <1>14, <2>1, CellUpdate DEF TypeOK, Invite
  <2>3. QED
    BY <1>14, <2>2 DEF TypeOK, Invite
<1>15. CASE UNCHANGED vars
  BY <1>15 DEF TypeOK, vars
<1>16. QED
  BY <1>1, <1>2, <1>3, <1>4, <1>5, <1>6, <1>7, <1>8, <1>9, <1>10, <1>11, <1>12,
     <1>13, <1>14, <1>15 DEF Next

-----------------------------------------------------------------------------
(* A tag stays earned: only leaving, a kick and a disbanding take away what *)
(* it rests on, and each of the three clears it in the same step.           *)
LEMMA TagPreserved == IInv /\ [Next]_vars => TagIsEarned'
<1> SUFFICES ASSUME IInv, [Next]_vars PROVE TagIsEarned'
  OBVIOUS
<1> USE NoTribeAssumption DEF IInv, TypeOK, TagIsEarned, IsMember
<1>1. ASSUME NEW w \in Warrior, ClearActiveClan(w) PROVE TagIsEarned'
  BY <1>1 DEF ClearActiveClan
<1>2. ASSUME NEW c \in Tribe, NEW w \in Warrior, NEW open \in BOOLEAN,
             CreateTribe(w, c, open)
      PROVE TagIsEarned'
  BY <1>2 DEF CreateTribe
<1>3. ASSUME NEW c \in Tribe, NEW w \in Warrior,
             LeaveClan(w, c) \/ (\E by \in Warrior : Kick(by, c, w))
      PROVE TagIsEarned'
  <2>1. /\ rank' = [rank EXCEPT ![c][w] = NotMember]
        /\ clearTagIf(w, c)
        /\ UNCHANGED status
    BY <1>3 DEF LeaveClan, Kick
  <2>2. \A v \in Warrior : worn'[v] # NoTribe => worn'[v] = worn[v] /\ ~(v = w /\ worn[v] = c)
    BY <2>1 DEF clearTagIf
  <2>3. \A d \in Tribe, v \in Warrior : ~(d = c /\ v = w) => rank'[d][v] = rank[d][v]
    BY <2>1
  <2>4. QED
    BY <2>1, <2>2, <2>3
<1>4. ASSUME NEW c \in Tribe, NEW w \in Warrior, SetActiveClan(w, c) PROVE TagIsEarned'
  BY <1>4 DEF SetActiveClan, FindClan
<1>5. ASSUME NEW c \in Tribe, NEW w \in Warrior, Disband(w, c) PROVE TagIsEarned'
  <2>1. CASE Authorised(c, vote[c] \cup {w})
    BY <1>5, <2>1 DEF Disband
  <2>2. CASE ~Authorised(c, vote[c] \cup {w})
    BY <1>5, <2>2 DEF Disband
  <2>3. QED
    BY <2>1, <2>2
<1>6. ASSUME NEW c \in Tribe, NEW w \in Warrior, NEW by \in Warrior, NEW r \in Rank,
             SetRank(by, c, w, r)
      PROVE TagIsEarned'
  BY <1>6 DEF SetRank
<1>7. ASSUME NEW c \in Tribe, NEW w \in Warrior, Join(c, w) PROVE TagIsEarned'
  <2>1. \A d \in Tribe, v \in Warrior : IsMember(d, v) => rank'[d][v] = rank[d][v]
    BY <1>7 DEF Join
  <2>2. QED
    BY <1>7, <2>1 DEF Join
<1>8. CASE UNCHANGED <<status, rank, worn>>
  BY <1>8
<1>9. QED
  BY <1>1, <1>2, <1>3, <1>4, <1>5, <1>6, <1>7, <1>8
  DEF Next, vars, SetClanRecruiting, RequestInvite, AcceptInvite, RejectInvite, WindowPasses,
      WithdrawDisband, Invite, AdmitRequester, CancelInvite

(* Rows of clan_invites belong to non-members, and to founded tribes. *)
LEMMA InvitesPreserved == IInv /\ [Next]_vars => InvitesAreOutsiders' /\ UnusedNames'
<1> SUFFICES ASSUME IInv, [Next]_vars PROVE InvitesAreOutsiders' /\ UnusedNames'
  OBVIOUS
<1> USE DEF IInv, TypeOK, InvitesAreOutsiders, UnusedNames, IsMember
<1>1. ASSUME NEW c \in Tribe, NEW w \in Warrior, NEW open \in BOOLEAN,
             CreateTribe(w, c, open)
      PROVE InvitesAreOutsiders' /\ UnusedNames'
  BY <1>1 DEF CreateTribe
<1>2. ASSUME NEW c \in Tribe, NEW w \in Warrior,
             LeaveClan(w, c) \/ (\E by \in Warrior : Kick(by, c, w))
      PROVE InvitesAreOutsiders' /\ UnusedNames'
  <2>1. /\ rank' = [rank EXCEPT ![c][w] = NotMember]
        /\ UNCHANGED <<status, invite>>
    BY <1>2 DEF LeaveClan, Kick
  <2>2. QED
    BY <2>1
<1>3. ASSUME NEW c \in Tribe, NEW w \in Warrior, NEW by \in Warrior, NEW r \in Rank,
             SetRank(by, c, w, r)
      PROVE InvitesAreOutsiders' /\ UnusedNames'
  BY <1>3 DEF SetRank
<1>4. ASSUME NEW c \in Tribe, NEW w \in Warrior, FindClan(c), Join(c, w)
      PROVE InvitesAreOutsiders' /\ UnusedNames'
  <2>1. \A d \in Tribe, v \in Warrior :
          ~(d = c /\ v = w) => rank'[d][v] = rank[d][v] /\ invite'[d][v] = invite[d][v]
    BY <1>4 DEF Join
  <2>2. invite'[c][w] = NoInvite /\ UNCHANGED status
    BY <1>4 DEF Join
  <2>3. SUFFICES ASSUME NEW d \in Tribe, NEW v \in Warrior, ~(d = c /\ v = w)
                 PROVE  /\ invite'[d][v] # NoInvite => ~(rank'[d][v] >= 0)
                        /\ status'[d] = "unfounded" => invite'[d][v] = NoInvite
    BY <2>2
  <2>4. QED
    BY <2>1, <2>2, <2>3
<1>5. ASSUME NEW c \in Tribe, NEW w \in Warrior,
             RequestInvite(w, c) \/ (\E by \in Warrior : Invite(by, c, w))
      PROVE InvitesAreOutsiders' /\ UnusedNames'
  <2>1. /\ status[c] = "active"
        /\ ~IsMember(c, w)
        /\ \E row : invite' = [invite EXCEPT ![c][w] = row]
        /\ UNCHANGED <<status, rank>>
    BY <1>5 DEF RequestInvite, Invite, FindClan
  <2>2. \A d \in Tribe, v \in Warrior : ~(d = c /\ v = w) => invite'[d][v] = invite[d][v]
    BY <2>1
  <2>3. QED
    BY <2>1, <2>2
<1>6. ASSUME NEW c \in Tribe, NEW w \in Warrior, WindowPasses(c, w)
      PROVE InvitesAreOutsiders' /\ UnusedNames'
  <2>1. \A d \in Tribe, v \in Warrior : ~(d = c /\ v = w) => invite'[d][v] = invite[d][v]
    BY <1>6 DEF WindowPasses
  <2>2. invite[c][w] # NoInvite
    BY <1>6 DEF WindowPasses, NoInvite
  <2>3. QED
    BY <1>6, <2>1, <2>2 DEF WindowPasses
<1>7. ASSUME NEW c \in Tribe, NEW w \in Warrior,
             RejectInvite(w, c) \/ (\E by \in Warrior : CancelInvite(by, c, w))
      PROVE InvitesAreOutsiders' /\ UnusedNames'
  <2>1. invite' = [invite EXCEPT ![c][w] = NoInvite] /\ UNCHANGED <<status, rank>>
    BY <1>7 DEF RejectInvite, CancelInvite
  <2>2. QED
    BY <2>1
<1>8. ASSUME NEW c \in Tribe, NEW w \in Warrior, Disband(w, c)
      PROVE InvitesAreOutsiders' /\ UnusedNames'
  BY <1>8 DEF Disband
<1>9. CASE UNCHANGED <<status, rank, invite>>
  BY <1>9
<1>10. QED
  BY <1>1, <1>2, <1>3, <1>4, <1>5, <1>6, <1>7, <1>8, <1>9
  DEF Next, vars, ClearActiveClan, SetClanRecruiting, SetActiveClan, WithdrawDisband,
      AcceptInvite, AdmitRequester

-----------------------------------------------------------------------------
(* The empty database, before any tribe is founded, satisfies the invariant. *)
LEMMA InitInvariant == Init => IInv
<1>1. Init => TypeOK
  BY DEF Init, TypeOK
<1>2. QED
  BY <1>1 DEF Init, IInv, TagIsEarned, InvitesAreOutsiders, UnusedNames

(* Every sequence of requests keeps the invariant: the three preservation     *)
(* lemmas above, one for each part of it.                                     *)
LEMMA Invariance == Spec => []IInv
<1>1. IInv /\ [Next]_vars => IInv'
  BY TypePreserved, TagPreserved, InvitesPreserved DEF IInv
<1>2. QED
  BY InitInvariant, <1>1, PTL DEF Spec

(* The tables keep their types under every sequence of requests. *)
THEOREM TypeCorrect == Spec => []TypeOK
<1>1. IInv => TypeOK
  BY DEF IInv
<1>2. QED
  BY Invariance, <1>1, PTL

(* Whoever wears a tag is a member of the active tribe it belongs to, for any *)
(* number of warriors and tribes (user.go:164, clan.go:359).                  *)
THEOREM TagsAreEarned == Spec => []TagIsEarned
<1>1. IInv => TagIsEarned
  BY DEF IInv
<1>2. QED
  BY Invariance, <1>1, PTL

(* No member of a tribe has an outstanding row in its clan_invites. *)
THEOREM InvitesStayOutside == Spec => []InvitesAreOutsiders
<1>1. IInv => InvitesAreOutsiders
  BY DEF IInv
<1>2. QED
  BY Invariance, <1>1, PTL

-----------------------------------------------------------------------------
(* The count Disband compares says that every leader has voted: a subset of *)
(* a finite set that is no smaller than it is all of it.                    *)
LEMMA AuthorisedByAll ==
  ASSUME NEW c \in Tribe, NEW voters \in SUBSET Warrior, Authorised(c, voters)
  PROVE  Leaders(c) # {} /\ Leaders(c) \subseteq voters
<1>1. IsFiniteSet(Leaders(c))
  BY WarriorAssumption, FS_Subset DEF Leaders
<1>2. voters \cap Leaders(c) \in SUBSET Leaders(c)
  OBVIOUS
<1>3. Cardinality(voters \cap Leaders(c)) <= Cardinality(Leaders(c))
  BY <1>1, <1>2, FS_Subset
<1>4. /\ Cardinality(voters \cap Leaders(c)) \in Nat
      /\ Cardinality(Leaders(c)) \in Nat
  BY <1>1, <1>2, FS_Subset, FS_CardinalityType
<1>5. Cardinality(voters \cap Leaders(c)) = Cardinality(Leaders(c))
  BY <1>3, <1>4 DEF Authorised
<1>6. voters \cap Leaders(c) = Leaders(c)
  BY <1>1, <1>2, <1>5, FS_Subset
<1>7. QED
  BY <1>6 DEF Authorised

(* A tribe is disbanded only with the recorded authorisation of each of its *)
(* leaders, at least one of them (clan.go:456).                             *)
THEOREM UnanimousDisband == Spec => DisbandIsUnanimous
<1> DEFINE Unanimous ==
      \A c \in Tribe : status[c] = "active" /\ status'[c] = "disbanded" =>
        Leaders(c) # {} /\ Leaders(c) \subseteq vote'[c]
<1>1. ASSUME TypeOK, [Next]_vars PROVE [Unanimous]_vars
  <2>1. ASSUME NEW c \in Tribe, status[c] = "active", status'[c] = "disbanded"
        PROVE  \E w \in Warrior : Disband(w, c)
    <3>1. CASE \E d \in Tribe, w \in Warrior : Disband(w, d)
      <4>1. PICK d \in Tribe, w \in Warrior : Disband(w, d)
        BY <3>1
      <4>2. status' = status \/ status' = [status EXCEPT ![d] = "disbanded"]
        BY <4>1, Zenon DEF Disband
      <4>3. d = c
        BY <1>1, <2>1, <4>2 DEF TypeOK
      <4>4. QED
        BY <4>1, <4>3
    <3>2. CASE \E d \in Tribe, w \in Warrior, open \in BOOLEAN : CreateTribe(w, d, open)
      BY <2>1, <3>2 DEF CreateTribe, TypeOK
    <3>3. CASE UNCHANGED status
      BY <2>1, <3>3
    <3>4. QED
      BY <1>1, <3>1, <3>2, <3>3
      DEF Next, vars, ClearActiveClan, SetClanRecruiting, LeaveClan, SetActiveClan,
          RequestInvite, AcceptInvite, RejectInvite, WindowPasses, WithdrawDisband,
          SetRank, Kick, Invite, AdmitRequester, CancelInvite, Join
  <2>2. ASSUME NEW c \in Tribe, NEW w \in Warrior, Disband(w, c),
               status[c] = "active", status'[c] = "disbanded"
        PROVE  Leaders(c) # {} /\ Leaders(c) \subseteq vote'[c]
    <3>1. Authorised(c, vote[c] \cup {w})
      BY <2>2 DEF Disband
    <3>2. vote'[c] = vote[c] \cup {w} /\ vote'[c] \in SUBSET Warrior
      BY <1>1, <2>2 DEF Disband, TypeOK
    <3>3. QED
      BY <3>1, <3>2, AuthorisedByAll
  <2>3. QED
    BY <2>1, <2>2
<1>2. QED
  BY <1>1, TypeCorrect, PTL DEF Spec, DisbandIsUnanimous

(* A founded tribe's highest rank only ever falls: whatever the request, if *)
(* nobody held rank r or above, nobody does afterwards (clan.go:369).       *)
THEOREM CeilingOnlyFalls == Spec => RankCeiling
<1> DEFINE Ceiling ==
      \A c \in Tribe : status[c] # "unfounded" =>
        \A r \in Rank \ {RankRecruit} :
          (\A w \in Warrior : rank[c][w] < r) => (\A w \in Warrior : rank'[c][w] < r)
<1>1. ASSUME TypeOK, [Next]_vars PROVE [Ceiling]_vars
  <2> SUFFICES ASSUME NEW c \in Tribe, status[c] # "unfounded",
                      NEW r \in Rank \ {RankRecruit}, \A w \in Warrior : rank[c][w] < r,
                      NEW v \in Warrior
               PROVE  rank'[c][v] < r
    OBVIOUS
  <2> USE DEF TypeOK
  <2> rank[c][v] < r /\ rank[c][v] \in Int
    BY <1>1
  <2>1. ASSUME NEW d \in Tribe, NEW w \in Warrior, NEW open \in BOOLEAN,
               CreateTribe(w, d, open)
        PROVE  rank'[c][v] < r
    <3>1. rank'[c] = rank[c]
      BY <1>1, <2>1 DEF CreateTribe
    <3>2. QED
      BY <3>1
  <2>2. ASSUME NEW d \in Tribe, NEW w \in Warrior, NEW by \in Warrior, NEW s \in Rank,
               SetRank(by, d, w, s)
        PROVE  rank'[c][v] < r
    <3>1. d = c => s < r
      BY <1>1, <2>2 DEF SetRank
    <3>2. rank'[c][v] = rank[c][v] \/ (d = c /\ rank'[c][v] = s)
      BY <1>1, <2>2 DEF SetRank
    <3>3. QED
      BY <3>1, <3>2
  <2>3. ASSUME NEW d \in Tribe, NEW w \in Warrior, NEW n \in {NotMember, RankRecruit},
               rank' = [rank EXCEPT ![d][w] = n]
        PROVE  rank'[c][v] < r
    <3>1. rank'[c][v] = rank[c][v] \/ rank'[c][v] = n
      BY <1>1, <2>3
    <3>2. QED
      BY <3>1
  <2>4. CASE UNCHANGED rank
    BY <1>1, <2>4
  <2>5. ASSUME NEW d \in Tribe, NEW w \in Warrior,
               LeaveClan(w, d) \/ (\E by \in Warrior : Kick(by, d, w))
        PROVE  rank'[c][v] < r
    <3>1. rank' = [rank EXCEPT ![d][w] = NotMember]
      BY <2>5 DEF LeaveClan, Kick
    <3>2. QED
      BY <2>3, <3>1
  <2>6. ASSUME NEW d \in Tribe, NEW w \in Warrior, Join(d, w)
        PROVE  rank'[c][v] < r
    <3>1. rank' = rank \/ rank' = [rank EXCEPT ![d][w] = RankRecruit]
      BY <2>6 DEF Join
    <3>2. CASE rank' = rank
      BY <2>4, <3>2
    <3>3. CASE rank' = [rank EXCEPT ![d][w] = RankRecruit]
      BY <2>3, <3>3
    <3>4. QED
      BY <3>1, <3>2, <3>3
  <2>7. ASSUME NEW d \in Tribe, NEW w \in Warrior,
               \/ ClearActiveClan(w) \/ (\E open \in BOOLEAN : SetClanRecruiting(w, d, open))
               \/ SetActiveClan(w, d) \/ RequestInvite(w, d) \/ RejectInvite(w, d)
               \/ WindowPasses(d, w) \/ Disband(w, d) \/ WithdrawDisband(w, d)
               \/ \E by \in Warrior : Invite(by, d, w) \/ CancelInvite(by, d, w)
        PROVE  UNCHANGED rank
    BY <2>7 DEF ClearActiveClan, SetClanRecruiting, SetActiveClan, RequestInvite, RejectInvite,
        WindowPasses, Disband, WithdrawDisband, Invite, CancelInvite
  <2>8. QED
    BY <1>1, <2>1, <2>2, <2>4, <2>5, <2>6, <2>7
    DEF Next, vars, AcceptInvite, AdmitRequester
<1>2. QED
  BY <1>1, TypeCorrect, PTL DEF Spec, RankCeiling
=============================================================================
