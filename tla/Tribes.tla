------------------------------- MODULE Tribes -------------------------------
(***************************************************************************)
(* What the tribe half of the service promises: every request runs alone.  *)
(*                                                                         *)
(* One action per tribe operation of internal/store (clan.go, user.go,     *)
(* won.go) as the ordinals of internal/dbproxy/browser.go reach it: the    *)
(* handler resolves the tribe by name among the ACTIVE tribes (FindClan),  *)
(* then calls one store method, which is one database transaction.  Here   *)
(* handler and transaction are a single step, and a refused request is a   *)
(* stuttering step.  TribeTx splits the same operations into statements.   *)
(*                                                                         *)
(* Tribe names are unique for ever (the index on LOWER(name) covers        *)
(* disbanded rows too), so a tribe here is its name: an element of Tribe   *)
(* is a name nobody has used yet, an active tribe, or a disbanded one.     *)
(***************************************************************************)
EXTENDS Integers, FiniteSets

CONSTANTS
  Warrior,   \* accounts.guid of the players
  Tribe,     \* the tribe names that may ever be used
  NoTribe    \* accounts.active_clan IS NULL

ASSUME WarriorAssumption == IsFiniteSet(Warrior)
ASSUME NoTribeAssumption == NoTribe \notin Tribe

(* model.go: the wire's rank numbers, and the thresholds of clan.go. *)
Rank           == 0 .. 4
RankRecruit    == 0
RankLeader     == 4
NotMember      == -1      \* what rankIn answers for a warrior with no row
rankToEditInfo == 2
rankToInvite   == 2
rankToPromote  == 3
rankToDisband  == 4

VARIABLES
  status,      \* clans: no row with this name, active, or active = FALSE
  recruiting,  \* clans.recruiting
  rank,        \* clan_members.rank, NotMember where there is no row
  invite,      \* clan_invites: the row a warrior has with a tribe
  vote,        \* clan_disband_votes: who authorised disbanding each tribe
  worn         \* accounts.active_clan: whose tag each warrior wears

vars == <<status, recruiting, rank, invite, vote, worn>>

(* A clan_invites row: who raised it (the tribe or the warrior), and whether *)
(* it is younger than the seven days of RequestInviteWindow.                 *)
InviteRow == [kind : {"invite", "request"}, recent : BOOLEAN]
NoInvite  == [kind |-> "none", recent |-> FALSE]

(* What the tables may hold: a rank or no row, a vote per leader, an answer  *)
(* of one of two kinds, a tag of a tribe or none (0001_init.sql:9-71).       *)
TypeOK ==
  /\ status \in [Tribe -> {"unfounded", "active", "disbanded"}]
  /\ recruiting \in [Tribe -> BOOLEAN]
  /\ rank \in [Tribe -> [Warrior -> Rank \cup {NotMember}]]
  /\ invite \in [Tribe -> [Warrior -> InviteRow \cup {NoInvite}]]
  /\ vote \in [Tribe -> SUBSET Warrior]
  /\ worn \in [Warrior -> Tribe \cup {NoTribe}]

Init ==
  /\ status = [c \in Tribe |-> "unfounded"]
  /\ recruiting = [c \in Tribe |-> FALSE]
  /\ rank = [c \in Tribe |-> [w \in Warrior |-> NotMember]]
  /\ invite = [c \in Tribe |-> [w \in Warrior |-> NoInvite]]
  /\ vote = [c \in Tribe |-> {}]
  /\ worn = [w \in Warrior |-> NoTribe]

-----------------------------------------------------------------------------
(* FindClan: only an active tribe is resolved by name or id. *)
FindClan(c) == status[c] = "active"

IsMember(c, w) == rank[c][w] >= RankRecruit
Leaders(c)     == {w \in Warrior : rank[c][w] = RankLeader}

(* requireRank, the gate in front of every administration method. *)
requireRank(c, w, min) == IsMember(c, w) /\ rank[c][w] >= min

(* clearTagIf: who loses a tribe loses its tag, and nobody else's tag moves. *)
clearTagIf(w, c) ==
  worn' = IF worn[w] = c THEN [worn EXCEPT ![w] = NoTribe] ELSE worn

-----------------------------------------------------------------------------
CreateTribe(w, c, open) ==
  /\ status[c] = "unfounded"
  /\ status' = [status EXCEPT ![c] = "active"]
  /\ recruiting' = [recruiting EXCEPT ![c] = open]
  /\ rank' = [rank EXCEPT ![c][w] = RankLeader]
  /\ UNCHANGED <<invite, vote, worn>>

SetClanRecruiting(by, c, open) ==
  /\ FindClan(c)
  /\ requireRank(c, by, rankToEditInfo)
  /\ recruiting' = [recruiting EXCEPT ![c] = open]
  /\ UNCHANGED <<status, rank, invite, vote, worn>>

(* Mutant: nothing holds a promotion to the rank of whoever makes it. *)
SetRankUncapped(by, c, w, r) ==
  /\ FindClan(c)
  /\ requireRank(c, by, rankToPromote)
  /\ IsMember(c, w)
  /\ rank' = [rank EXCEPT ![c][w] = r]
  /\ UNCHANGED <<status, recruiting, invite, vote, worn>>

(* The target's present rank is not compared with anything: a senior admin  *)
(* may set a leader's rank, and anybody entitled may lower their own.       *)
SetRank(by, c, w, r) ==
  /\ FindClan(c)
  /\ requireRank(c, by, rankToPromote)
  /\ r <= rank[c][by]
  /\ IsMember(c, w)
  /\ rank' = [rank EXCEPT ![c][w] = r]
  /\ UNCHANGED <<status, recruiting, invite, vote, worn>>

(* Mutant: the kicked member keeps the tag. *)
KickKeepingTag(by, c, w) ==
  /\ FindClan(c)
  /\ requireRank(c, by, rankToPromote)
  /\ IsMember(c, w)
  /\ rank[c][w] < rank[c][by]
  /\ rank' = [rank EXCEPT ![c][w] = NotMember]
  /\ UNCHANGED <<status, recruiting, invite, vote, worn>>

Kick(by, c, w) ==
  /\ FindClan(c)
  /\ requireRank(c, by, rankToPromote)
  /\ IsMember(c, w)
  /\ rank[c][w] < rank[c][by]
  /\ rank' = [rank EXCEPT ![c][w] = NotMember]
  /\ clearTagIf(w, c)
  /\ UNCHANGED <<status, recruiting, invite, vote>>

LeaveClan(w, c) ==
  /\ FindClan(c)
  /\ IsMember(c, w)
  /\ rank' = [rank EXCEPT ![c][w] = NotMember]
  /\ clearTagIf(w, c)
  /\ UNCHANGED <<status, recruiting, invite, vote>>

SetActiveClan(w, c) ==
  /\ FindClan(c)
  /\ IsMember(c, w)
  /\ worn' = [worn EXCEPT ![w] = c]
  /\ UNCHANGED <<status, recruiting, rank, invite, vote>>

(* setPrimaryTribe with "", "0" or "-1": no tribe is looked up at all. *)
ClearActiveClan(w) ==
  /\ worn' = [worn EXCEPT ![w] = NoTribe]
  /\ UNCHANGED <<status, recruiting, rank, invite, vote>>

-----------------------------------------------------------------------------
(* Mutant: members may be invited too. *)
InviteAnyone(by, c, w) ==
  /\ FindClan(c)
  /\ requireRank(c, by, rankToInvite)
  /\ invite[c][w] = NoInvite
  /\ invite' = [invite EXCEPT ![c][w] = [kind |-> "invite", recent |-> TRUE]]
  /\ UNCHANGED <<status, recruiting, rank, vote, worn>>

(* ON CONFLICT DO NOTHING: an invitation over a standing request leaves the *)
(* request's row as it was.                                                 *)
Invite(by, c, w) ==
  /\ FindClan(c)
  /\ requireRank(c, by, rankToInvite)
  /\ ~IsMember(c, w)
  /\ invite[c][w] = NoInvite
  /\ invite' = [invite EXCEPT ![c][w] = [kind |-> "invite", recent |-> TRUE]]
  /\ UNCHANGED <<status, recruiting, rank, vote, worn>>

(* A row of either kind younger than the window refuses the repeat; an older *)
(* one is replaced.                                                          *)
RequestInvite(w, c) ==
  /\ FindClan(c)
  /\ recruiting[c]
  /\ ~IsMember(c, w)
  /\ ~invite[c][w].recent
  /\ invite' = [invite EXCEPT ![c][w] = [kind |-> "request", recent |-> TRUE]]
  /\ UNCHANGED <<status, recruiting, rank, vote, worn>>

(* Seven days pass over a row. *)
WindowPasses(c, w) ==
  /\ invite[c][w].recent
  /\ invite' = [invite EXCEPT ![c][w].recent = FALSE]
  /\ UNCHANGED <<status, recruiting, rank, vote, worn>>

(* The row is deleted and the member row inserted unless there is one. *)
Join(c, w) ==
  /\ invite' = [invite EXCEPT ![c][w] = NoInvite]
  /\ rank' = IF IsMember(c, w) THEN rank
             ELSE [rank EXCEPT ![c][w] = RankRecruit]
  /\ UNCHANGED <<status, recruiting, vote, worn>>

(* The kind of the row is not asked for by either answer. *)
AcceptInvite(w, c) ==
  /\ FindClan(c)
  /\ invite[c][w] # NoInvite
  /\ Join(c, w)

AdmitRequester(by, c, w) ==
  /\ FindClan(c)
  /\ by # w
  /\ requireRank(c, by, rankToInvite)
  /\ invite[c][w] # NoInvite
  /\ Join(c, w)

RejectInvite(w, c) ==
  /\ FindClan(c)
  /\ invite' = [invite EXCEPT ![c][w] = NoInvite]
  /\ UNCHANGED <<status, recruiting, rank, vote, worn>>

(* The "cancel" verb, and the "reject" of an admin answering a request. *)
CancelInvite(by, c, w) ==
  /\ FindClan(c)
  /\ by = w \/ requireRank(c, by, rankToInvite)
  /\ invite' = [invite EXCEPT ![c][w] = NoInvite]
  /\ UNCHANGED <<status, recruiting, rank, vote, worn>>

-----------------------------------------------------------------------------
(* Mutant: the votes of those no longer leaders count too. *)
AuthorisedByAnyVote(c, voters) ==
  /\ Leaders(c) # {}
  /\ Cardinality(voters) >= Cardinality(Leaders(c))

(* The count of Disband: the votes of present leaders against the leaders. *)
Authorised(c, voters) ==
  /\ Leaders(c) # {}
  /\ Cardinality(voters \cap Leaders(c)) >= Cardinality(Leaders(c))

Disband(w, c) ==
  /\ FindClan(c)
  /\ requireRank(c, w, rankToDisband)
  /\ vote' = [vote EXCEPT ![c] = @ \cup {w}]
  /\ IF Authorised(c, vote[c] \cup {w})
     THEN /\ status' = [status EXCEPT ![c] = "disbanded"]
          /\ worn' = [v \in Warrior |-> IF worn[v] = c THEN NoTribe ELSE worn[v]]
     ELSE UNCHANGED <<status, worn>>
  /\ UNCHANGED <<recruiting, rank, invite>>

(* Disband with authorise = FALSE: the store has it, no ordinal sends it yet. *)
WithdrawDisband(w, c) ==
  /\ FindClan(c)
  /\ requireRank(c, w, rankToDisband)
  /\ vote' = [vote EXCEPT ![c] = @ \ {w}]
  /\ UNCHANGED <<status, recruiting, rank, invite, worn>>

-----------------------------------------------------------------------------
Next ==
  \/ \E w \in Warrior : ClearActiveClan(w)
  \/ \E c \in Tribe, w \in Warrior :
       \/ \E open \in BOOLEAN : CreateTribe(w, c, open) \/ SetClanRecruiting(w, c, open)
       \/ LeaveClan(w, c) \/ SetActiveClan(w, c)
       \/ RequestInvite(w, c) \/ AcceptInvite(w, c) \/ RejectInvite(w, c)
       \/ WindowPasses(c, w)
       \/ Disband(w, c) \/ WithdrawDisband(w, c)
  \/ \E c \in Tribe, by, w \in Warrior :
       \/ \E r \in Rank : SetRank(by, c, w, r)
       \/ Kick(by, c, w)
       \/ Invite(by, c, w) \/ AdmitRequester(by, c, w) \/ CancelInvite(by, c, w)

Spec == Init /\ [][Next]_vars

-----------------------------------------------------------------------------
(* A tag is proof of something: whoever wears a tribe's tag is a member of  *)
(* it and the tribe still stands, whatever sequence of kicks, leavings,     *)
(* rank changes and disbandings led there (user.go:164, clan.go:359).       *)
TagIsEarned ==
  \A w \in Warrior : worn[w] # NoTribe =>
    IsMember(worn[w], w) /\ status[worn[w]] = "active"

(* An invitation or a join request outstanding is always a non-member's: no *)
(* member keeps a row that would let them straight back in after a kick.    *)
InvitesAreOutsiders ==
  \A c \in Tribe, w \in Warrior : invite[c][w] # NoInvite => ~IsMember(c, w)

(* Nobody in a founded tribe is ever raised above its highest rank: once the *)
(* last member of some rank has gone, no sequence of requests makes another. *)
(* In particular a tribe without leaders stays without them (clan.go:369).   *)
RankCeiling ==
  [][\A c \in Tribe : status[c] # "unfounded" =>
       \A r \in Rank \ {RankRecruit} :
         (\A w \in Warrior : rank[c][w] < r) => (\A w \in Warrior : rank'[c][w] < r)]_vars

(* A tribe is disbanded only in a step after which every one of its leaders, *)
(* and there is at least one, has an authorisation recorded (clan.go:456).   *)
DisbandIsUnanimous ==
  [][\A c \in Tribe : status[c] = "active" /\ status'[c] = "disbanded" =>
       Leaders(c) # {} /\ Leaders(c) \subseteq vote'[c]]_vars
=============================================================================
