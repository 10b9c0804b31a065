------------------------------ MODULE TribeTx -------------------------------
(***************************************************************************)
(* The tribe operations as the server runs them: every request in its own  *)
(* goroutine, every store method a READ COMMITTED transaction of several   *)
(* statements, and any number of them at once.                             *)
(*                                                                         *)
(* A store method is written down as the list of statements it sends, in   *)
(* their order, after the FindClan the handler resolves the tribe with.    *)
(* PostgreSQL is external: what a statement sees and which rows it locks   *)
(* is modelled from how the code uses it.                                  *)
(*   - a statement reads committed rows and its own transaction's writes;  *)
(*   - a write locks its row until the transaction ends, and waits for the *)
(*     holder of a row it needs;                                           *)
(*   - an UPDATE or DELETE only waits for a row that its WHERE matches, an *)
(*     INSERT waits for any writer of the row with its key;                *)
(*   - a transaction that waits in a cycle is made to fail.                *)
(* The shared locks of foreign keys, and the autocommitted UPDATE of the    *)
(* caller's own account before a request (EnsureAccount), conflict with     *)
(* nothing a cycle could be made of and are left out; so is a row deleted   *)
(* and inserted again while somebody waits for it, whose waiter PostgreSQL  *)
(* gives no row and the model the new one.                                  *)
(* Reads outside a transaction (FindClan, CanInvite) take no lock and so   *)
(* are statements like any other.                                          *)
(***************************************************************************)
EXTENDS Integers, Sequences, FiniteSets

CONSTANTS
  Warrior, Tribe, NoTribe,
  Worker,      \* goroutines serving requests
  Unwritten,   \* a row a transaction has not written
  NoRequest,   \* a worker between requests
  Ops,         \* bound: the operations the players use in this instance
  Rosters      \* bound: the ranks the warriors may start with in the tribes

Rank           == 0 .. 4
RankRecruit    == 0
RankLeader     == 4
NotMember      == -1
rankToEditInfo == 2
rankToInvite   == 2
rankToPromote  == 3
rankToDisband  == 4

ASSUME WarriorAssumption == IsFiniteSet(Warrior)
ASSUME NoTribeAssumption == NoTribe \notin Tribe
ASSUME RosterAssumption  == Rosters \subseteq [Tribe -> [Warrior -> Rank \cup {NotMember}]]

-----------------------------------------------------------------------------
(* Rows, named by table and primary key, and the values they hold. *)
Clan(c)      == <<"clans", c>>
Member(c, w) == <<"clan_members", c, w>>
Invited(c, w) == <<"clan_invites", c, w>>
Vote(c, w)   == <<"clan_disband_votes", c, w>>
Account(w)   == <<"accounts", w>>

Row == {Clan(c) : c \in Tribe} \cup {Account(w) : w \in Warrior}
         \cup {Member(c, w) : c \in Tribe, w \in Warrior}
         \cup {Invited(c, w) : c \in Tribe, w \in Warrior}
         \cup {Vote(c, w) : c \in Tribe, w \in Warrior}

ClanValue   == [status : {"unfounded", "active", "disbanded"}, recruiting : BOOLEAN]
ActiveClan  == {v \in ClanValue : v.status = "active"}
FoundedClan == {v \in ClanValue : v.status # "unfounded"}
NoClan      == [status |-> "unfounded", recruiting |-> FALSE]
InviteValue == [kind : {"invite", "request"}, recent : BOOLEAN]
NoInvite    == [kind |-> "none", recent |-> FALSE]

ASSUME UnwrittenAssumption ==
  /\ Unwritten \notin ClanValue /\ Unwritten \notin InviteValue /\ Unwritten # NoInvite
  /\ Unwritten \notin Rank \cup {NotMember} /\ Unwritten \notin Tribe \cup {NoTribe}
  /\ Unwritten \notin BOOLEAN

-----------------------------------------------------------------------------
(* Statements. *)
Select(row, ok) == [do |-> "select", row |-> row, ok |-> ok]
Require(row, ok) == [do |-> "require", row |-> row, ok |-> ok]
Outranked(row)  == [do |-> "outranked", row |-> row]
CanInvite(row, other) == [do |-> "canInvite", row |-> row, other |-> other]
SelectOld(row)  == [do |-> "selectOld", row |-> row]
Insert(row, v, clash) == [do |-> "insert", row |-> row, value |-> v, clash |-> clash]
Update(row, to, miss) == [do |-> "update", row |-> row, to |-> to, miss |-> miss]
Set(row, matched, v, miss) == Update(row, [old \in matched |-> v], miss)
CountLeaders(c) == [do |-> "countLeaders", tribe |-> c]
CountVotes(c)   == [do |-> "countVotes", tribe |-> c]
ClearTags(c)    == [do |-> "clearTags", tribe |-> c]

FindClan(q)          == Select(Clan(q.tribe), ActiveClan)
requireRank(q, min)  == Require(Member(q.tribe, q.by), min .. RankLeader)
deleteMember(q, miss) == Set(Member(q.tribe, q.target), Rank, NotMember, miss)
deleteInvite(q, miss) == Set(Invited(q.tribe, q.target), InviteValue, NoInvite, miss)
clearTagIf(q)        == Set(Account(q.target), {q.tribe}, NoTribe, "skip")
insertRecruit(q)     == Insert(Member(q.tribe, q.target), RankRecruit, "skip")

(* Mutants: a founder joins a tribe of the name somebody else just took; an  *)
(* acceptance does not look whether there was an invitation; a leaver keeps  *)
(* the tag; a kick clears the tag before it deletes the member.              *)
CreateClanOrJoin(q) ==
  << Select(Clan(q.tribe), {NoClan}),
     Insert(Clan(q.tribe), [status |-> "active", recruiting |-> q.flag], "skip"),
     Insert(Member(q.tribe, q.by), RankLeader, "fault") >>
AcceptAnything(q) == << FindClan(q), deleteInvite(q, "skip"), insertRecruit(q) >>
LeaveKeepingTag(q) == << FindClan(q), deleteMember(q, "refuse") >>
KickTagFirst(q) ==
  << FindClan(q), requireRank(q, rankToPromote), Outranked(Member(q.tribe, q.target)),
     clearTagIf(q), deleteMember(q, "skip") >>

(* Store methods.  Operations on oneself have target = by. *)
CreateClan(q) ==
  << Select(Clan(q.tribe), {NoClan}),
     Insert(Clan(q.tribe), [status |-> "active", recruiting |-> q.flag], "fault"),
     Insert(Member(q.tribe, q.by), RankLeader, "fault") >>

SetClanRecruiting(q) ==
  << FindClan(q), requireRank(q, rankToEditInfo),
     Update(Clan(q.tribe), [v \in FoundedClan |-> [v EXCEPT !.recruiting = q.flag]], "skip") >>

SetRank(q) ==
  << FindClan(q),
     Require(Member(q.tribe, q.by), {r \in rankToPromote .. RankLeader : q.rank <= r}),
     Set(Member(q.tribe, q.target), Rank, q.rank, "refuse") >>

Kick(q) ==
  << FindClan(q), requireRank(q, rankToPromote), Outranked(Member(q.tribe, q.target)),
     deleteMember(q, "skip"), clearTagIf(q) >>

LeaveClan(q) == << FindClan(q), deleteMember(q, "refuse"), clearTagIf(q) >>

SetActiveClan(q) ==
  << FindClan(q), Select(Member(q.tribe, q.by), Rank),
     Set(Account(q.by), Tribe \cup {NoTribe}, q.tribe, "skip") >>

ClearActiveClan(q) == << Set(Account(q.by), Tribe \cup {NoTribe}, NoTribe, "skip") >>

Invite(q) ==
  << FindClan(q), requireRank(q, rankToInvite), Select(Member(q.tribe, q.target), {NotMember}),
     Insert(Invited(q.tribe, q.target), [kind |-> "invite", recent |-> TRUE], "skip") >>

RequestInvite(q) ==
  << FindClan(q), Select(Clan(q.tribe), {v \in ActiveClan : v.recruiting}),
     Select(Member(q.tribe, q.by), {NotMember}),
     SelectOld(Invited(q.tribe, q.by)), deleteInvite(q, "skip"),
     Insert(Invited(q.tribe, q.by), [kind |-> "request", recent |-> TRUE], "fault") >>

AcceptInvite(q) == << FindClan(q), deleteInvite(q, "refuse"), insertRecruit(q) >>
RejectInvite(q) == << FindClan(q), deleteInvite(q, "skip") >>

CancelInvite(q) ==
  IF q.by = q.target THEN << FindClan(q), deleteInvite(q, "skip") >>
  ELSE << FindClan(q), requireRank(q, rankToInvite), deleteInvite(q, "skip") >>

(* answerInvitation about somebody else: an admin's answer if CanInvite says *)
(* so, and otherwise the caller's answer to an invitation of their own.      *)
AdmitRequester(q) ==
  << FindClan(q), CanInvite(Member(q.tribe, q.by), "accept"), requireRank(q, rankToInvite),
     Select(Invited(q.tribe, q.target), InviteValue), insertRecruit(q),
     deleteInvite(q, "skip") >>

DeclineRequester(q) ==
  << FindClan(q), CanInvite(Member(q.tribe, q.by), "reject"), requireRank(q, rankToInvite),
     deleteInvite(q, "skip") >>

Disband(q) ==
  << FindClan(q), requireRank(q, rankToDisband),
     Insert(Vote(q.tribe, q.by), TRUE, "skip"), CountLeaders(q.tribe), CountVotes(q.tribe),
     Update(Clan(q.tribe), [v \in FoundedClan |-> [v EXCEPT !.status = "disbanded"]], "skip"),
     ClearTags(q.tribe) >>

WithdrawDisband(q) ==
  << FindClan(q), requireRank(q, rankToDisband), Set(Vote(q.tribe, q.by), {TRUE}, FALSE, "skip") >>

Program(q) ==
  CASE q.op = "create"   -> CreateClan(q)
    [] q.op = "recruit"  -> SetClanRecruiting(q)
    [] q.op = "setRank"  -> SetRank(q)
    [] q.op = "kick"     -> Kick(q)
    [] q.op = "leave"    -> LeaveClan(q)
    [] q.op = "wear"     -> SetActiveClan(q)
    [] q.op = "unwear"   -> ClearActiveClan(q)
    [] q.op = "invite"   -> Invite(q)
    [] q.op = "request"  -> RequestInvite(q)
    [] q.op = "accept"   -> AcceptInvite(q)
    [] q.op = "reject"   -> RejectInvite(q)
    [] q.op = "cancel"   -> CancelInvite(q)
    [] q.op = "admit"    -> AdmitRequester(q)
    [] q.op = "decline"  -> DeclineRequester(q)
    [] q.op = "disband"  -> Disband(q)
    [] q.op = "withdraw" -> WithdrawDisband(q)

(* What the players may ask for: a rank is only sent with setRank, a flag   *)
(* only when founding a tribe or opening its recruitment.                   *)
OwnOps   == {"create", "recruit", "leave", "wear", "unwear", "request", "accept", "reject",
             "disband", "withdraw"}
AllOps   == OwnOps \cup {"setRank", "kick", "invite", "cancel", "admit", "decline"}
Request  ==
  [op : Ops, by : Warrior, tribe : Tribe, target : Warrior, rank : Rank, flag : BOOLEAN]
Sensible(q) ==
  /\ q.op \in OwnOps => q.target = q.by
  /\ q.op \in {"admit", "decline"} => q.target # q.by
  /\ q.op # "setRank" => q.rank = RankRecruit
  /\ q.op \notin {"create", "recruit"} => ~q.flag

ASSUME OpsAssumption == Ops \subseteq AllOps
ASSUME NoRequestAssumption ==
  NoRequest \notin [op : AllOps, by : Warrior, tribe : Tribe, target : Warrior, rank : Rank, flag : BOOLEAN]

-----------------------------------------------------------------------------
VARIABLES
  db,       \* the committed value of every row
  pending,  \* what each worker's transaction has written, and so locked
  req,      \* the request each worker serves
  pc,       \* its next statement
  seen      \* a number an earlier statement returned: own rank, or leaders

vars == <<db, pending, req, pc, seen>>

(* A database in use: tribes with members, each wearing a tag of theirs, and *)
(* for everybody else an invitation from last month.                         *)
Init ==
  /\ \E roster \in Rosters, tag \in [Warrior -> Tribe \cup {NoTribe}] :
       /\ \A w \in Warrior : IF \E c \in Tribe : roster[c][w] # NotMember
                              THEN tag[w] # NoTribe /\ roster[tag[w]][w] # NotMember
                              ELSE tag[w] = NoTribe
       /\ db = [r \in Row |->
            CASE r[1] = "clans" ->
                   IF \E w \in Warrior : roster[r[2]][w] # NotMember
                   THEN [status |-> "active", recruiting |-> TRUE] ELSE NoClan
              [] r[1] = "clan_members"       -> roster[r[2]][r[3]]
              [] r[1] = "clan_invites"       ->
                   IF roster[r[2]][r[3]] = NotMember /\ \E w \in Warrior : roster[r[2]][w] # NotMember
                   THEN [kind |-> "invite", recent |-> FALSE] ELSE NoInvite
              [] r[1] = "clan_disband_votes" -> FALSE
              [] r[1] = "accounts"           -> tag[r[2]]]
  /\ pending = [k \in Worker |-> [r \in Row |-> Unwritten]]
  /\ req = [k \in Worker |-> NoRequest]
  /\ pc = [k \in Worker |-> 0]
  /\ seen = [k \in Worker |-> 0]

Idle(k)    == req[k] = NoRequest
stmt(k)    == IF Idle(k) THEN [do |-> "nothing"]
              ELSE LET statements == Program(req[k]) IN
                   IF pc[k] <= Len(statements) THEN statements[pc[k]] ELSE [do |-> "commit"]
At(k, do)  == stmt(k).do = do
Sees(k, r) == IF pending[k][r] # Unwritten THEN pending[k][r] ELSE db[r]

LeadersSeen(k, c) == {w \in Warrior : Sees(k, Member(c, w)) = RankLeader}
WornRows(k, c)    == {Account(w) : w \in {v \in Warrior : Sees(k, Account(v)) = c}}

(* The rows the next statement must lock, and who holds them. *)
Wants(k) ==
  LET s == stmt(k) IN
  CASE s.do = "insert"    -> {s.row}
    [] s.do = "update"    -> IF Sees(k, s.row) \in DOMAIN s.to THEN {s.row} ELSE {}
    [] s.do = "clearTags" -> WornRows(k, s.tribe)
    [] OTHER              -> {}
Blocks(j, k) == j # k /\ \E r \in Wants(k) : pending[j][r] # Unwritten
Free(k)      == LET rows == Wants(k) IN
                  \A j \in Worker \ {k}, r \in rows : pending[j][r] = Unwritten

-----------------------------------------------------------------------------
Advance(k) == pc' = [pc EXCEPT ![k] = @ + 1]
Skip(k, n) == pc' = [pc EXCEPT ![k] = n]

(* Answered: refused, failed or done.  Uncommitted writes and locks go. *)
Finish(k) ==
  /\ pending' = [pending EXCEPT ![k] = [r \in Row |-> Unwritten]]
  /\ req' = [req EXCEPT ![k] = NoRequest]
  /\ pc' = [pc EXCEPT ![k] = 0]
  /\ seen' = [seen EXCEPT ![k] = 0]

Rollback(k) == Finish(k) /\ UNCHANGED db

Begin(k) ==
  /\ Idle(k)
  /\ \E q \in Request : Sensible(q) /\ req' = [req EXCEPT ![k] = q]
  /\ pc' = [pc EXCEPT ![k] = 1]
  /\ UNCHANGED <<db, pending, seen>>

(* A SELECT whose answer lets the method go on, or refuses the request. *)
DoSelect(k) ==
  /\ At(k, "select")
  /\ IF Sees(k, stmt(k).row) \in stmt(k).ok
     THEN Advance(k) /\ UNCHANGED <<db, pending, req, seen>>
     ELSE Rollback(k)

(* requireRank keeps the rank it read. *)
DoRequire(k) ==
  /\ At(k, "require")
  /\ LET mine == Sees(k, stmt(k).row) IN
     IF mine \in stmt(k).ok
     THEN Advance(k) /\ seen' = [seen EXCEPT ![k] = mine] /\ UNCHANGED <<db, pending, req>>
     ELSE Rollback(k)

(* Kick: the target's rank against the caller's, as each was when read. *)
DoOutranked(k) ==
  /\ At(k, "outranked")
  /\ LET theirs == Sees(k, stmt(k).row) IN
     IF theirs # NotMember /\ theirs < seen[k]
     THEN Advance(k) /\ UNCHANGED <<db, pending, req, seen>>
     ELSE Rollback(k)

DoCanInvite(k) ==
  /\ At(k, "canInvite")
  /\ IF Sees(k, stmt(k).row) >= rankToInvite
     THEN Advance(k) /\ UNCHANGED req
     ELSE /\ req' = [req EXCEPT ![k].op = stmt(k).other, ![k].target = req[k].by]
          /\ Skip(k, 2)
  /\ UNCHANGED <<db, pending, seen>>

(* RequestInvite's look at its own row: a recent one refuses, an old one is *)
(* deleted next, and with none the DELETE is not sent.                      *)
DoSelectOld(k) ==
  /\ At(k, "selectOld")
  /\ LET row == Sees(k, stmt(k).row) IN
     IF row.recent THEN Rollback(k)
     ELSE /\ Skip(k, IF row = NoInvite THEN pc[k] + 2 ELSE pc[k] + 1)
          /\ UNCHANGED <<db, pending, req, seen>>

Write(k, r, v) == pending' = [pending EXCEPT ![k][r] = v]

AbsentValue(r) ==
  CASE r[1] = "clans"              -> NoClan
    [] r[1] = "clan_members"       -> NotMember
    [] r[1] = "clan_invites"       -> NoInvite
    [] r[1] = "clan_disband_votes" -> FALSE

(* A key that is taken skips the row (ON CONFLICT DO NOTHING) or is a       *)
(* unique violation, which fails the request.                               *)
DoInsert(k) ==
  /\ At(k, "insert")
  /\ Free(k)
  /\ LET s == stmt(k) IN
     CASE Sees(k, s.row) = AbsentValue(s.row) ->
            Write(k, s.row, s.value) /\ Advance(k) /\ UNCHANGED <<db, req, seen>>
       [] Sees(k, s.row) # AbsentValue(s.row) /\ s.clash = "skip" ->
            Advance(k) /\ UNCHANGED <<db, pending, req, seen>>
       [] OTHER -> Rollback(k)

(* An UPDATE or DELETE of one row by its key; RowsAffected = 0 where tested. *)
DoUpdate(k) ==
  /\ At(k, "update")
  /\ Free(k)
  /\ LET s == stmt(k) old == Sees(k, s.row) IN
     CASE old \in DOMAIN s.to ->
            Write(k, s.row, s.to[old]) /\ Advance(k) /\ UNCHANGED <<db, req, seen>>
       [] old \notin DOMAIN s.to /\ s.miss = "skip" ->
            Advance(k) /\ UNCHANGED <<db, pending, req, seen>>
       [] OTHER -> Rollback(k)

DoCountLeaders(k) ==
  /\ At(k, "countLeaders")
  /\ seen' = [seen EXCEPT ![k] = Cardinality(LeadersSeen(k, stmt(k).tribe))]
  /\ Advance(k)
  /\ UNCHANGED <<db, pending, req>>

(* Mutant: votes are counted without the join, those of former leaders too.  *)
DoCountAllVotes(k) ==
  /\ At(k, "countVotes")
  /\ LET c == stmt(k).tribe
         votes == Cardinality({w \in Warrior : Sees(k, Vote(c, w))}) IN
     IF votes >= seen[k] /\ seen[k] > 0 THEN Advance(k) ELSE Skip(k, Len(Program(req[k])) + 1)
  /\ UNCHANGED <<db, pending, req, seen>>

(* The votes of members who are leaders now, in a second statement. *)
DoCountVotes(k) ==
  /\ At(k, "countVotes")
  /\ LET c == stmt(k).tribe
         votes == Cardinality({w \in LeadersSeen(k, c) : Sees(k, Vote(c, w))}) IN
     IF votes >= seen[k] /\ seen[k] > 0 THEN Advance(k) ELSE Skip(k, Len(Program(req[k])) + 1)
  /\ UNCHANGED <<db, pending, req, seen>>

DoClearTags(k) ==
  /\ At(k, "clearTags")
  /\ Free(k)
  /\ pending' = [pending EXCEPT ![k] =
                   [r \in Row |-> IF r \in WornRows(k, stmt(k).tribe) THEN NoTribe ELSE @[r]]]
  /\ Advance(k)
  /\ UNCHANGED <<db, req, seen>>

Commit(k) ==
  /\ At(k, "commit")
  /\ db' = [r \in Row |-> Sees(k, r)]
  /\ Finish(k)

(* A connection lost, a context cancelled, the process restarted, or the     *)
(* database failing one of some workers that wait for one another.           *)
Fault(k) == ~Idle(k) /\ Rollback(k)

Step(k) ==
  \/ DoSelect(k) \/ DoRequire(k) \/ DoOutranked(k) \/ DoCanInvite(k) \/ DoSelectOld(k)
  \/ DoInsert(k) \/ DoUpdate(k) \/ DoCountLeaders(k) \/ DoCountVotes(k) \/ DoClearTags(k)
  \/ Commit(k)

(* Seven days pass over a committed row. *)
WindowPasses ==
  /\ \E c \in Tribe, w \in Warrior :
       /\ db[Invited(c, w)].recent
       /\ db' = [db EXCEPT ![Invited(c, w)].recent = FALSE]
  /\ UNCHANGED <<pending, req, pc, seen>>

Next == (\E k \in Worker : Begin(k) \/ Step(k) \/ Fault(k)) \/ WindowPasses

Spec == Init /\ [][Next]_vars

-----------------------------------------------------------------------------
(* The rows keep their types, a transaction is at one of its statements, and *)
(* a worker between requests holds no lock and no uncommitted write: every   *)
(* way out of a store method ends its transaction (store.go:75).             *)
TypeOK ==
  /\ \A c \in Tribe :
       /\ db[Clan(c)] \in ClanValue
       /\ \A w \in Warrior : /\ db[Member(c, w)] \in Rank \cup {NotMember}
                             /\ db[Invited(c, w)] \in InviteValue \cup {NoInvite}
                             /\ db[Vote(c, w)] \in BOOLEAN
  /\ \A w \in Warrior : db[Account(w)] \in Tribe \cup {NoTribe}
  /\ \A k \in Worker :
       /\ Idle(k) => pc[k] = 0 /\ \A r \in Row : pending[k][r] = Unwritten
       /\ ~Idle(k) => pc[k] \in 1 .. Len(Program(req[k])) + 1

(* One request at a time, the server is the service of Tribes: a transaction *)
(* is a stuttering step until its Commit, and Commit is the whole operation. *)
(* Half of an operation is never seen, whatever Fault interrupts (store.go,  *)
(* tx), and the statements in their order have the effect Tribes gives them. *)
T == INSTANCE Tribes WITH
       status     <- [c \in Tribe |-> db[Clan(c)].status],
       recruiting <- [c \in Tribe |-> db[Clan(c)].recruiting],
       rank       <- [c \in Tribe |-> [w \in Warrior |-> db[Member(c, w)]]],
       invite     <- [c \in Tribe |-> [w \in Warrior |-> db[Invited(c, w)]]],
       vote       <- [c \in Tribe |-> {w \in Warrior : db[Vote(c, w)]}],
       worn       <- [w \in Warrior |-> db[Account(w)]]

OneAtATime == T!Spec

(* Of any number of players founding a tribe of one name at once, one does: *)
(* the name then has one founder, and stays taken when it disbands          *)
(* (clan.go:108, and the index on LOWER(name)).                             *)
OneFounder ==
  /\ [][\A c \in Tribe : db[Clan(c)] \in FoundedClan =>
          /\ db'[Clan(c)] \in FoundedClan
          /\ db[Clan(c)].status = "disbanded" => db'[Clan(c)].status = "disbanded"]_vars
  /\ [][\A c \in Tribe :
          Cardinality({w \in Warrior : db[Member(c, w)] = NotMember
                                         /\ db'[Member(c, w)] = RankLeader})
            <= IF db[Clan(c)] = NoClan THEN 1 ELSE 0]_vars

(* An acceptance joins on an invitation that stands until that very step,   *)
(* and takes it away: of two acceptances, or an acceptance and an admission, *)
(* or a rejection, over one row, only one has anything to go on (clan.go:259). *)
AcceptConsumesInvitation ==
  [][\A k \in Worker : ~Idle(k) /\ req'[k] = NoRequest /\ req[k].op = "accept" =>
       LET c == req[k].tribe w == req[k].by IN
         db[Member(c, w)] = NotMember /\ db'[Member(c, w)] # NotMember =>
           db[Invited(c, w)] # NoInvite /\ db'[Invited(c, w)] = NoInvite]_vars

(* Whoever wears a tribe's tag is a member of the standing tribe            *)
(* (user.go:164).                                                           *)
TagIsEarned == T!TagIsEarned

(* The methods lock their rows in orders that agree, but for one pair: a    *)
(* warrior accepting and an admin admitting the same warrior to the same    *)
(* tribe (clan.go:259-269 against won.go:735-744).  No other two requests   *)
(* can make the database fail one of them.                                  *)
DeadlockOnlyOverOneInvitation ==
  \A j, k \in Worker : j # k /\ Blocks(j, k) /\ Blocks(k, j) =>
    /\ {req[j].op, req[k].op} = {"accept", "admit"}
    /\ req[j].tribe = req[k].tribe
    /\ req[j].target = req[k].target
=============================================================================
