--------------------------- MODULE TribeTxProofs ----------------------------
(* What is proved of the tribe transactions, for any number of workers,     *)
(* warriors and tribes.  Every method is shown to proceed (Proceeds): each  *)
(* of its statements changes only the rows its request may change, in an    *)
(* order all the methods keep.  On that rests the invariant IInv: what a    *)
(* transaction holds, and that no row is held twice.  With one worker a     *)
(* second invariant, Alone, says what the statements passed have found and  *)
(* written, and with it each commit is shown to be one operation of Tribes. *)
EXTENDS TribeVote, FiniteSetTheorems, TLAPS

(* What a request may be: DoCanInvite makes two of them into others. *)
Asks ==
  {q \in [op : AllOps, by : Warrior, tribe : Tribe, target : Warrior, rank : Rank, flag : BOOLEAN] :
     q.op \in OwnOps => q.target = q.by}

(* What the row of a table may hold. *)
Value(r) ==
  CASE r[1] = "clans"              -> ClanValue
    [] r[1] = "clan_members"       -> Rank \cup {NotMember}
    [] r[1] = "clan_invites"       -> InviteValue \cup {NoInvite}
    [] r[1] = "clan_disband_votes" -> BOOLEAN
    [] r[1] = "accounts"           -> Tribe \cup {NoTribe}

(* What a request may make of the value of a row. *)
OwnRow(q)    == Member(q.tribe, q.target)
InviteRow(q) == Invited(q.tribe, q.target)
Change(q, r, old, new) ==
  \/ /\ q.op = "create" /\ r = Clan(q.tribe) /\ old = NoClan
     /\ new = [status |-> "active", recruiting |-> q.flag]
  \/ /\ q.op = "recruit" /\ r = Clan(q.tribe) /\ old \in FoundedClan
     /\ new = [old EXCEPT !.recruiting = q.flag]
  \/ /\ q.op = "disband" /\ r = Clan(q.tribe) /\ old \in FoundedClan
     /\ new = [old EXCEPT !.status = "disbanded"]
  \/ q.op = "create" /\ r = Member(q.tribe, q.by) /\ old = NotMember /\ new = RankLeader
  \/ q.op = "setRank" /\ r = OwnRow(q) /\ old \in Rank /\ new = q.rank
  \/ q.op \in {"kick", "leave"} /\ r = OwnRow(q) /\ old \in Rank /\ new = NotMember
  \/ q.op \in {"accept", "admit"} /\ r = OwnRow(q) /\ old = NotMember /\ new = RankRecruit
  \/ /\ q.op \in {"invite", "request"} /\ r = InviteRow(q) /\ old = NoInvite
     /\ new = [kind |-> q.op, recent |-> TRUE]
  \/ /\ q.op \in {"request", "accept", "reject", "cancel", "admit", "decline"}
     /\ r = InviteRow(q) /\ old \in InviteValue /\ new = NoInvite
  \/ q.op = "disband" /\ r = Vote(q.tribe, q.by) /\ old = FALSE /\ new = TRUE
  \/ q.op = "withdraw" /\ r = Vote(q.tribe, q.by) /\ old = TRUE /\ new = FALSE
  \/ q.op \in {"kick", "leave"} /\ r = Account(q.target) /\ old = q.tribe /\ new = NoTribe
  \/ q.op = "disband" /\ (\E w \in Warrior : r = Account(w)) /\ old = q.tribe /\ new = NoTribe
  \/ /\ q.op = "wear" /\ r = Account(q.by) /\ old \in Tribe \cup {NoTribe} /\ new = q.tribe
  \/ /\ q.op = "unwear" /\ r = Account(q.by) /\ old \in Tribe \cup {NoTribe} /\ new = NoTribe

(* Which rows a statement may write, and the order of a method's statements. *)
Writes(s, r) ==
  \/ s.do \in {"insert", "update"} /\ s.row = r
  \/ s.do = "clearTags" /\ \E w \in Warrior : r = Account(w)
Level(r) ==
  CASE r[1] = "clan_disband_votes" -> 1
    [] r[1] = "clans"              -> 2
    [] r[1] \in {"clan_invites", "clan_members"} -> 3
    [] r[1] = "accounts"           -> 4
Precedes(q, r, n) ==
  \/ Level(r) < Level(n)
  \/ q.op = "request" /\ r = n
  \/ q.op = "accept" /\ r = InviteRow(q) /\ n = OwnRow(q)
  \/ q.op = "admit" /\ r = OwnRow(q) /\ n = InviteRow(q)

Does(q, s, i) ==
  /\ s.do \in {"select", "require", "outranked", "canInvite", "selectOld", "insert", "update",
               "countLeaders", "countVotes", "clearTags"}
  /\ s.do = "insert" => s.row \in Row /\ Change(q, s.row, AbsentValue(s.row), s.value)
  /\ s.do = "update" => s.row \in Row /\ \A old \in DOMAIN s.to : Change(q, s.row, old, s.to[old])
  /\ s.do = "clearTags" => q.op = "disband" /\ s.tribe = q.tribe
  /\ s.do = "canInvite" => i = 2 /\ q.op \in {"admit", "decline"} /\ s.other \in {"accept", "reject"}
  /\ s.do = "selectOld" => q.op = "request" /\ i = 4 /\ i < Len(Program(q))
  /\ s.do = "outranked" => q.op = "kick" /\ i = 3
  /\ s.do = "countLeaders" => q.op = "disband" /\ i = 4 /\ s.tribe = q.tribe
  /\ s.do = "countVotes" => q.op = "disband" /\ i = 5 /\ s.tribe = q.tribe
  /\ q.op \in {"admit", "decline"} /\ i = 1 => s.do = "select"

(* Which rows a statement reads, and that a method reads before it writes.   *)
Reads == {"select", "require", "outranked", "canInvite", "selectOld"}
Looks(q, s) ==
  /\ s.do \in Reads => s.row \in Row
  /\ s.do \in {"require", "outranked", "canInvite"} => \E w \in Warrior : s.row = Member(q.tribe, w)
  /\ s.do = "selectOld" => s.row = InviteRow(q)
  /\ s.do = "select" => (\A c, w : s.row # Invited(c, w)) \/ s.ok = InviteValue
  /\ s.do = "update" => (\A c, w : s.row # Invited(c, w)) \/ DOMAIN s.to = InviteValue

Proceeds(q, P) ==
  /\ Len(P) \in Nat \ {0}
  /\ \A i \in 1 .. Len(P) : Does(q, P[i], i) /\ Looks(q, P[i])
  /\ \A i, j \in 1 .. Len(P) : i < j /\ P[j].do \in Reads => P[i].do \in Reads
  /\ \A i, j \in 1 .. Len(P) : i < j =>
       \A r, n : Writes(P[i], r) /\ Writes(P[j], n) => Precedes(q, r, n)

-----------------------------------------------------------------------------
(* The inductive invariant.  A transaction holds the rows its statements so  *)
(* far may have written, each changed as its request may change it, and no   *)
(* row is held twice.                                                        *)
Types ==
  /\ db = [r \in Row |-> db[r]]
  /\ \A r \in Row : db[r] \in Value(r)
  /\ pending = [k \in Worker |-> [r \in Row |-> pending[k][r]]]
  /\ \A k \in Worker, r \in Row : pending[k][r] = Unwritten \/ pending[k][r] \in Value(r)
  /\ req \in [Worker -> Asks \cup {NoRequest}]
  /\ pc \in [Worker -> Nat]
  /\ \A k \in Worker : IF Idle(k) THEN pc[k] = 0 /\ \A r \in Row : pending[k][r] = Unwritten
                       ELSE pc[k] \in 1 .. Len(Program(req[k])) + 1

Exclusive ==
  \A j, k \in Worker : j # k => \A r \in Row : pending[j][r] = Unwritten \/ pending[k][r] = Unwritten

(* RequestInvite alone writes a row twice: it deletes an old one and puts in *)
(* a new one.                                                                *)
Held ==
  \A k \in Worker, r \in Row : pending[k][r] # Unwritten =>
    /\ \E i \in 1 .. Len(Program(req[k])) : i < pc[k] /\ Writes(Program(req[k])[i], r)
    /\ IF req[k].op = "request" THEN r = InviteRow(req[k])
       ELSE Change(req[k], r, db[r], pending[k][r])

(* Two methods go on only if they wrote: a founder has the name, and who     *)
(* accepts has the invitation.                                               *)
Sure ==
  \A k \in Worker : ~Idle(k) /\ pc[k] >= 3 =>
    /\ req[k].op = "create" => pending[k][Clan(req[k].tribe)] # Unwritten
    /\ req[k].op = "accept" => pending[k][InviteRow(req[k])] # Unwritten

IInv == Types /\ Exclusive /\ Held /\ Sure

(* A disbanding whose count was not overtaken has the vote of every leader   *)
(* there still is: it found the tribe standing, it counted as many leaders   *)
(* as there are or more, and once its votes are enough they are the votes of *)
(* them all.                                                                 *)
Led(c)      == {w \in Warrior : db[Member(c, w)] = RankLeader}
Disbands(k) == ~Idle(k) /\ req[k].op = "disband"
Decided(k)  == pc[k] = 6 \/ pending[k][Clan(req[k].tribe)] # Unwritten
Deciding(k) ==
  /\ pc[k] = 5 => seen[k] \in Nat
  /\ pc[k] = 5 /\ k \notin moved => Cardinality(Led(req[k].tribe)) <= seen[k]
  /\ Decided(k) => pc[k] > 5
  /\ Decided(k) /\ k \notin moved =>
       \A w \in Led(req[k].tribe) : Sees(k, Vote(req[k].tribe, w)) = TRUE
Unanimous ==
  /\ seen = [k \in Worker |-> seen[k]]
  /\ \A k \in Worker : Disbands(k) => Deciding(k)

(* The effects a step of a worker may have. *)
Goes(k) ==
  /\ ~Idle(k) /\ UNCHANGED <<db, pending, req>>
  /\ ~(stmt(k).do = "insert" /\ stmt(k).clash = "fault")
  /\ ~(stmt(k).do = "update" /\ stmt(k).miss = "refuse")
  /\ \E n \in Nat : /\ pc[k] < n /\ n <= Len(Program(req[k])) + 1 /\ pc' = [pc EXCEPT ![k] = n]
                    /\ n = pc[k] + 1 \/ stmt(k).do \in {"selectOld", "countVotes"}
Turns(k) ==
  /\ ~Idle(k) /\ UNCHANGED <<db, pending, pc>> /\ pc[k] = 2
  /\ \A r : ~Writes(Program(req[k])[1], r)
  /\ \E q \in Asks : q.op \in {"accept", "reject"} /\ req' = [req EXCEPT ![k] = q]
Locks(k) ==
  /\ ~Idle(k) /\ UNCHANGED <<db, req>>
  /\ pc[k] <= Len(Program(req[k])) /\ pc' = [pc EXCEPT ![k] = pc[k] + 1]
  /\ stmt(k).do \in {"insert", "update"} => pending'[k][stmt(k).row] # Unwritten
  /\ pending' = [j \in Worker |-> [r \in Row |-> pending'[j][r]]]
  /\ \A j \in Worker \ {k}, r \in Row : pending'[j][r] = pending[j][r]
  /\ \A r \in Row : pending'[k][r] # pending[k][r] =>
       /\ Writes(stmt(k), r)
       /\ \A j \in Worker \ {k} : pending[j][r] = Unwritten
       /\ Change(req[k], r, Sees(k, r), pending'[k][r])
Ends(k) == ~Idle(k) /\ Finish(k) /\ UNCHANGED db

-----------------------------------------------------------------------------
(* Rows are told apart by their table and key.                               *)
LEMMA Keys ==
  ASSUME NEW c, NEW d, NEW w, NEW v
  PROVE  /\ Clan(c) = Clan(d) <=> c = d
         /\ Account(w) = Account(v) <=> w = v
         /\ Member(c, w) = Member(d, v) <=> c = d /\ w = v
         /\ Invited(c, w) = Invited(d, v) <=> c = d /\ w = v
         /\ Vote(c, w) = Vote(d, v) <=> c = d /\ w = v
BY DEF Clan, Account, Member, Invited, Vote

LEMMA Tables ==
  /\ \A c \in Tribe : Clan(c) \in Row
  /\ \A w \in Warrior : Account(w) \in Row
  /\ \A c \in Tribe, w \in Warrior : Member(c, w) \in Row /\ Invited(c, w) \in Row /\ Vote(c, w) \in Row
  /\ \A r \in Row : \/ \E c \in Tribe : r = Clan(c)
                    \/ \E w \in Warrior : r = Account(w)
                    \/ \E c \in Tribe, w \in Warrior : r \in {Member(c, w), Invited(c, w), Vote(c, w)}
BY DEF Row

LEMMA Table ==
  ASSUME NEW c, NEW w
  PROVE  /\ Clan(c)[1] = "clans" /\ Account(w)[1] = "accounts" /\ Member(c, w)[1] = "clan_members"
         /\ Invited(c, w)[1] = "clan_invites" /\ Vote(c, w)[1] = "clan_disband_votes"
BY DEF Clan, Account, Member, Invited, Vote

LEMMA Values ==
  ASSUME NEW c, NEW w
  PROVE  /\ Value(Clan(c)) = ClanValue /\ Value(Account(w)) = Tribe \cup {NoTribe}
         /\ Value(Member(c, w)) = Rank \cup {NotMember}
         /\ Value(Invited(c, w)) = InviteValue \cup {NoInvite} /\ Value(Vote(c, w)) = BOOLEAN
         /\ AbsentValue(Clan(c)) = NoClan /\ AbsentValue(Member(c, w)) = NotMember
         /\ AbsentValue(Invited(c, w)) = NoInvite /\ AbsentValue(Vote(c, w)) = FALSE
BY Table DEF Value, AbsentValue

LEMMA Levels ==
  /\ \A c : Level(Clan(c)) = 2
  /\ \A w : Level(Account(w)) = 4
  /\ \A c, w : Level(Member(c, w)) = 3 /\ Level(Invited(c, w)) = 3 /\ Level(Vote(c, w)) = 1
BY Table DEF Level

LEMMA AskFields ==
  ASSUME NEW q \in Asks
  PROVE  /\ q # NoRequest /\ q.op \in AllOps /\ q.by \in Warrior /\ q.tribe \in Tribe
         /\ q.target \in Warrior /\ q.rank \in Rank /\ (q.op \in OwnOps => q.target = q.by)
BY NoRequestAssumption DEF Asks
LEMMA Creating ==
  ASSUME NEW q \in Asks, q.op = "create"
  PROVE  Proceeds(q, Program(q))
<1>1. Program(q) = CreateClan(q) /\ Len(CreateClan(q)) = 3
  BY DEF Program, CreateClan
<1>2. /\ CreateClan(q)[1] = Select(Clan(q.tribe), {NoClan})
      /\ CreateClan(q)[2] = Insert(Clan(q.tribe), [status |-> "active", recruiting |-> q.flag], "fault")
      /\ CreateClan(q)[3] = Insert(Member(q.tribe, q.by), RankLeader, "fault")
  BY AskFields DEF CreateClan, OwnRow, InviteRow, OwnOps
<1>3. /\ CreateClan(q)[1].do = "select"
      /\ CreateClan(q)[2].do = "insert" /\ CreateClan(q)[2].row = Clan(q.tribe)
      /\ CreateClan(q)[2].value = [status |-> "active", recruiting |-> q.flag]
      /\ CreateClan(q)[3].do = "insert" /\ CreateClan(q)[3].row = Member(q.tribe, q.by)
      /\ CreateClan(q)[3].value = RankLeader
  BY <1>2 DEF Select, Insert
<1>4. /\ Clan(q.tribe) \in Row
      /\ Change(q, Clan(q.tribe), AbsentValue(Clan(q.tribe)), [status |-> "active", recruiting |-> q.flag])
  BY AskFields, Tables, Values DEF Change, OwnRow, OwnOps
<1>5. /\ Member(q.tribe, q.by) \in Row
      /\ Change(q, Member(q.tribe, q.by), AbsentValue(Member(q.tribe, q.by)), RankLeader)
  BY AskFields, Tables, Values DEF Change, OwnRow, OwnOps
<1>6. ASSUME NEW i \in 1..3 PROVE Does(q, CreateClan(q)[i], i)
  BY <1>1, <1>3, <1>4, <1>5 DEF Does
<1>7. ASSUME NEW i \in 1..3, NEW r, Writes(CreateClan(q)[i], r)
      PROVE  \/ i = 2 /\ r = Clan(q.tribe)
             \/ i = 3 /\ r = Member(q.tribe, q.by)
  BY <1>3, <1>7 DEF Writes
<1>8. Precedes(q, Clan(q.tribe), Member(q.tribe, q.by))
  BY Levels DEF Precedes, OwnRow, InviteRow
<1>9. ASSUME NEW i \in 1..3 PROVE Looks(q, CreateClan(q)[i])
  <2>1. \A c, w : Clan(q.tribe) # Invited(c, w)
    BY Table
  <2>2. CreateClan(q)[1].row = Clan(q.tribe)
    BY <1>2 DEF Select
  <2>3. QED
    BY <1>3, <1>4, <2>1, <2>2 DEF Looks, Reads
<1>10. \A i, j \in 1..3 : i < j /\ CreateClan(q)[j].do \in Reads => CreateClan(q)[i].do \in Reads
  BY <1>3 DEF Reads
<1>11. QED
  BY <1>1, <1>6, <1>7, <1>8, <1>9, <1>10 DEF Proceeds

LEMMA Recruiting ==
  ASSUME NEW q \in Asks, q.op = "recruit"
  PROVE  Proceeds(q, Program(q))
<1>1. Program(q) = SetClanRecruiting(q) /\ Len(SetClanRecruiting(q)) = 3
  BY DEF Program, SetClanRecruiting
<1>2. /\ SetClanRecruiting(q)[1] = FindClan(q)
      /\ SetClanRecruiting(q)[2] = requireRank(q, rankToEditInfo)
      /\ SetClanRecruiting(q)[3] = Update(Clan(q.tribe), [v \in FoundedClan |-> [v EXCEPT !.recruiting = q.flag]], "skip")
  BY AskFields DEF SetClanRecruiting, OwnRow, InviteRow, OwnOps
<1>3. /\ SetClanRecruiting(q)[1].do = "select"
      /\ SetClanRecruiting(q)[2].do = "require"
      /\ SetClanRecruiting(q)[3].do = "update" /\ SetClanRecruiting(q)[3].row = Clan(q.tribe)
      /\ SetClanRecruiting(q)[3].to = [v \in FoundedClan |-> [v EXCEPT !.recruiting = q.flag]]
  BY <1>2 DEF FindClan, Select, requireRank, Require, Update
<1>4. /\ Clan(q.tribe) \in Row
      /\ \A v \in FoundedClan : Change(q, Clan(q.tribe), v, [v EXCEPT !.recruiting = q.flag])
  BY AskFields, Tables DEF Change, OwnRow, InviteRow
<1>5. ASSUME NEW i \in 1..3 PROVE Does(q, SetClanRecruiting(q)[i], i)
  BY <1>1, <1>3, <1>4 DEF Does
<1>6. ASSUME NEW i \in 1..3, NEW r, Writes(SetClanRecruiting(q)[i], r)
      PROVE  i = 3 /\ r = Clan(q.tribe)
  BY <1>3, <1>6 DEF Writes
<1>7. ASSUME NEW i \in 1..3 PROVE Looks(q, SetClanRecruiting(q)[i])
  BY <1>2, AskFields, Tables, Table DEF Looks, Reads, FindClan, Select, requireRank, Require,
     Update
<1>8. \A i, j \in 1..3 : i < j /\ SetClanRecruiting(q)[j].do \in Reads => SetClanRecruiting(q)[i].do \in Reads
  BY <1>3 DEF Reads
<1>9. QED
  BY <1>1, <1>5, <1>6, <1>7, <1>8 DEF Proceeds

LEMMA Promoting ==
  ASSUME NEW q \in Asks, q.op = "setRank"
  PROVE  Proceeds(q, Program(q))
<1>1. Program(q) = SetRank(q) /\ Len(SetRank(q)) = 3
  BY DEF Program, SetRank
<1>2. /\ SetRank(q)[1] = FindClan(q)
      /\ SetRank(q)[2] = Require(Member(q.tribe, q.by), {r \in rankToPromote .. RankLeader : q.rank <= r})
      /\ SetRank(q)[3] = Set(OwnRow(q), Rank, q.rank, "refuse")
  BY DEF SetRank, OwnRow, InviteRow
<1>3. /\ SetRank(q)[1].do = "select"
      /\ SetRank(q)[2].do = "require"
      /\ SetRank(q)[3].do = "update" /\ SetRank(q)[3].row = OwnRow(q)
      /\ SetRank(q)[3].to = [old \in Rank |-> q.rank]
  BY <1>2 DEF FindClan, Select, Require, Set, Update
<1>4. /\ OwnRow(q) \in Row
      /\ \A old \in Rank : Change(q, OwnRow(q), old, q.rank)
  BY AskFields, Tables DEF Change, OwnRow, InviteRow
<1>5. ASSUME NEW i \in 1..3 PROVE Does(q, SetRank(q)[i], i)
  BY <1>1, <1>3, <1>4 DEF Does
<1>6. ASSUME NEW i \in 1..3, NEW r, Writes(SetRank(q)[i], r)
      PROVE  i = 3 /\ r = OwnRow(q)
  BY <1>3, <1>6 DEF Writes
<1>7. ASSUME NEW i \in 1..3 PROVE Looks(q, SetRank(q)[i])
  BY <1>2, AskFields, Tables, Table DEF Looks, Reads, FindClan, Select, Require, Set, Update,
     OwnRow
<1>8. \A i, j \in 1..3 : i < j /\ SetRank(q)[j].do \in Reads => SetRank(q)[i].do \in Reads
  BY <1>3 DEF Reads
<1>9. QED
  BY <1>1, <1>5, <1>6, <1>7, <1>8 DEF Proceeds

LEMMA Kicking ==
  ASSUME NEW q \in Asks, q.op = "kick"
  PROVE  Proceeds(q, Program(q))
<1>1. Program(q) = Kick(q) /\ Len(Kick(q)) = 5
  BY DEF Program, Kick
<1>2. /\ Kick(q)[1] = FindClan(q)
      /\ Kick(q)[2] = requireRank(q, rankToPromote)
      /\ Kick(q)[3] = Outranked(OwnRow(q))
      /\ Kick(q)[4] = deleteMember(q, "skip")
      /\ Kick(q)[5] = clearTagIf(q)
  BY DEF Kick, OwnRow, InviteRow
<1>3. /\ Kick(q)[1].do = "select"
      /\ Kick(q)[2].do = "require"
      /\ Kick(q)[3].do = "outranked"
      /\ Kick(q)[4].do = "update" /\ Kick(q)[4].row = OwnRow(q)
      /\ Kick(q)[4].to = [old \in Rank |-> NotMember]
      /\ Kick(q)[5].do = "update" /\ Kick(q)[5].row = Account(q.target)
      /\ Kick(q)[5].to = [old \in {q.tribe} |-> NoTribe]
  BY <1>2 DEF FindClan, Select, requireRank, Require, Outranked, deleteMember, Set, Update, OwnRow,
     clearTagIf
<1>4. /\ OwnRow(q) \in Row
      /\ \A old \in Rank : Change(q, OwnRow(q), old, NotMember)
  BY AskFields, Tables DEF Change, OwnRow, InviteRow
<1>5. /\ Account(q.target) \in Row
      /\ \A old \in {q.tribe} : Change(q, Account(q.target), old, NoTribe)
  BY AskFields, Tables DEF Change, OwnRow, InviteRow
<1>6. ASSUME NEW i \in 1..5 PROVE Does(q, Kick(q)[i], i)
  BY <1>1, <1>3, <1>4, <1>5 DEF Does
<1>7. ASSUME NEW i \in 1..5, NEW r, Writes(Kick(q)[i], r)
      PROVE  \/ i = 4 /\ r = OwnRow(q)
             \/ i = 5 /\ r = Account(q.target)
  BY <1>3, <1>7 DEF Writes
<1>8. Precedes(q, OwnRow(q), Account(q.target))
  BY Levels DEF Precedes, OwnRow, InviteRow
<1>9. ASSUME NEW i \in 1..5 PROVE Looks(q, Kick(q)[i])
  BY <1>2, AskFields, Tables, Table DEF Looks, Reads, FindClan, Select, requireRank, Require,
     Outranked, deleteMember, Set, Update, clearTagIf, OwnRow
<1>10. \A i, j \in 1..5 : i < j /\ Kick(q)[j].do \in Reads => Kick(q)[i].do \in Reads
  BY <1>3 DEF Reads
<1>11. QED
  BY <1>1, <1>6, <1>7, <1>8, <1>9, <1>10 DEF Proceeds

LEMMA Leaving ==
  ASSUME NEW q \in Asks, q.op = "leave"
  PROVE  Proceeds(q, Program(q))
<1>1. Program(q) = LeaveClan(q) /\ Len(LeaveClan(q)) = 3
  BY DEF Program, LeaveClan
<1>2. /\ LeaveClan(q)[1] = FindClan(q)
      /\ LeaveClan(q)[2] = deleteMember(q, "refuse")
      /\ LeaveClan(q)[3] = clearTagIf(q)
  BY AskFields DEF LeaveClan, OwnRow, InviteRow, OwnOps
<1>3. /\ LeaveClan(q)[1].do = "select"
      /\ LeaveClan(q)[2].do = "update" /\ LeaveClan(q)[2].row = OwnRow(q)
      /\ LeaveClan(q)[2].to = [old \in Rank |-> NotMember]
      /\ LeaveClan(q)[3].do = "update" /\ LeaveClan(q)[3].row = Account(q.target)
      /\ LeaveClan(q)[3].to = [old \in {q.tribe} |-> NoTribe]
  BY <1>2 DEF FindClan, Select, deleteMember, Set, Update, OwnRow, clearTagIf
<1>4. /\ OwnRow(q) \in Row
      /\ \A old \in Rank : Change(q, OwnRow(q), old, NotMember)
  BY AskFields, Tables DEF Change, OwnRow, InviteRow
<1>5. /\ Account(q.target) \in Row
      /\ \A old \in {q.tribe} : Change(q, Account(q.target), old, NoTribe)
  BY AskFields, Tables DEF Change, OwnRow, InviteRow
<1>6. ASSUME NEW i \in 1..3 PROVE Does(q, LeaveClan(q)[i], i)
  BY <1>1, <1>3, <1>4, <1>5 DEF Does
<1>7. ASSUME NEW i \in 1..3, NEW r, Writes(LeaveClan(q)[i], r)
      PROVE  \/ i = 2 /\ r = OwnRow(q)
             \/ i = 3 /\ r = Account(q.target)
  BY <1>3, <1>7 DEF Writes
<1>8. Precedes(q, OwnRow(q), Account(q.target))
  BY Levels DEF Precedes, OwnRow, InviteRow
<1>9. ASSUME NEW i \in 1..3 PROVE Looks(q, LeaveClan(q)[i])
  BY <1>2, AskFields, Tables, Table DEF Looks, Reads, FindClan, Select, deleteMember, Set,
     Update, clearTagIf, OwnRow
<1>10. \A i, j \in 1..3 : i < j /\ LeaveClan(q)[j].do \in Reads => LeaveClan(q)[i].do \in Reads
  BY <1>3 DEF Reads
<1>11. QED
  BY <1>1, <1>6, <1>7, <1>8, <1>9, <1>10 DEF Proceeds

LEMMA Wearing ==
  ASSUME NEW q \in Asks, q.op = "wear"
  PROVE  Proceeds(q, Program(q))
<1>1. Program(q) = SetActiveClan(q) /\ Len(SetActiveClan(q)) = 3
  BY DEF Program, SetActiveClan
<1>2. /\ SetActiveClan(q)[1] = FindClan(q)
      /\ SetActiveClan(q)[2] = Select(Member(q.tribe, q.by), Rank)
      /\ SetActiveClan(q)[3] = Set(Account(q.by), Tribe \cup {NoTribe}, q.tribe, "skip")
  BY AskFields DEF SetActiveClan, OwnRow, InviteRow, OwnOps
<1>3. /\ SetActiveClan(q)[1].do = "select"
      /\ SetActiveClan(q)[2].do = "select"
      /\ SetActiveClan(q)[3].do = "update" /\ SetActiveClan(q)[3].row = Account(q.by)
      /\ SetActiveClan(q)[3].to = [old \in Tribe \cup {NoTribe} |-> q.tribe]
  BY <1>2 DEF FindClan, Select, Set, Update
<1>4. /\ Account(q.by) \in Row
      /\ \A old \in Tribe \cup {NoTribe} : Change(q, Account(q.by), old, q.tribe)
  BY AskFields, Tables DEF Change, OwnRow, InviteRow
<1>5. ASSUME NEW i \in 1..3 PROVE Does(q, SetActiveClan(q)[i], i)
  BY <1>1, <1>3, <1>4 DEF Does
<1>6. ASSUME NEW i \in 1..3, NEW r, Writes(SetActiveClan(q)[i], r)
      PROVE  i = 3 /\ r = Account(q.by)
  BY <1>3, <1>6 DEF Writes
<1>7. ASSUME NEW i \in 1..3 PROVE Looks(q, SetActiveClan(q)[i])
  BY <1>2, AskFields, Tables, Table DEF Looks, Reads, FindClan, Select, Set, Update
<1>8. \A i, j \in 1..3 : i < j /\ SetActiveClan(q)[j].do \in Reads => SetActiveClan(q)[i].do \in Reads
  BY <1>3 DEF Reads
<1>9. QED
  BY <1>1, <1>5, <1>6, <1>7, <1>8 DEF Proceeds

LEMMA TakingOff ==
  ASSUME NEW q \in Asks, q.op = "unwear"
  PROVE  Proceeds(q, Program(q))
<1>1. Program(q) = ClearActiveClan(q) /\ Len(ClearActiveClan(q)) = 1
  BY DEF Program, ClearActiveClan
<1>2. /\ ClearActiveClan(q)[1] = Set(Account(q.by), Tribe \cup {NoTribe}, NoTribe, "skip")
  BY AskFields DEF ClearActiveClan, OwnRow, InviteRow, OwnOps
<1>3. /\ ClearActiveClan(q)[1].do = "update" /\ ClearActiveClan(q)[1].row = Account(q.by)
      /\ ClearActiveClan(q)[1].to = [old \in Tribe \cup {NoTribe} |-> NoTribe]
  BY <1>2 DEF Set, Update
<1>4. /\ Account(q.by) \in Row
      /\ \A old \in Tribe \cup {NoTribe} : Change(q, Account(q.by), old, NoTribe)
  BY AskFields, Tables DEF Change, OwnRow, InviteRow
<1>5. ASSUME NEW i \in 1..1 PROVE Does(q, ClearActiveClan(q)[i], i)
  BY <1>1, <1>3, <1>4 DEF Does
<1>6. ASSUME NEW i \in 1..1, NEW r, Writes(ClearActiveClan(q)[i], r)
      PROVE  i = 1 /\ r = Account(q.by)
  BY <1>3, <1>6 DEF Writes
<1>7. ASSUME NEW i \in 1..1 PROVE Looks(q, ClearActiveClan(q)[i])
  <2>1. \A c, w : Account(q.by) # Invited(c, w)
    BY Table
  <2>2. QED
    BY <1>3, <2>1 DEF Looks, Reads
<1>8. \A i, j \in 1..1 : i < j /\ ClearActiveClan(q)[j].do \in Reads => ClearActiveClan(q)[i].do \in Reads
  BY <1>3 DEF Reads
<1>9. QED
  BY <1>1, <1>5, <1>6, <1>7, <1>8 DEF Proceeds

LEMMA Inviting ==
  ASSUME NEW q \in Asks, q.op = "invite"
  PROVE  Proceeds(q, Program(q))
<1>1. Program(q) = Invite(q) /\ Len(Invite(q)) = 4
  BY DEF Program, Invite
<1>2. /\ Invite(q)[1] = FindClan(q)
      /\ Invite(q)[2] = requireRank(q, rankToInvite)
      /\ Invite(q)[3] = Select(OwnRow(q), {NotMember})
      /\ Invite(q)[4] = Insert(InviteRow(q), [kind |-> "invite", recent |-> TRUE], "skip")
  BY DEF Invite, OwnRow, InviteRow
<1>3. /\ Invite(q)[1].do = "select"
      /\ Invite(q)[2].do = "require"
      /\ Invite(q)[3].do = "select"
      /\ Invite(q)[4].do = "insert" /\ Invite(q)[4].row = InviteRow(q)
      /\ Invite(q)[4].value = [kind |-> "invite", recent |-> TRUE]
  BY <1>2 DEF FindClan, Select, requireRank, Require, Insert
<1>4. /\ InviteRow(q) \in Row
      /\ Change(q, InviteRow(q), AbsentValue(InviteRow(q)), [kind |-> "invite", recent |-> TRUE])
  BY AskFields, Tables, Values DEF Change, OwnRow, InviteRow, InviteValue
<1>5. ASSUME NEW i \in 1..4 PROVE Does(q, Invite(q)[i], i)
  BY <1>1, <1>3, <1>4 DEF Does
<1>6. ASSUME NEW i \in 1..4, NEW r, Writes(Invite(q)[i], r)
      PROVE  i = 4 /\ r = InviteRow(q)
  BY <1>3, <1>6 DEF Writes
<1>7. ASSUME NEW i \in 1..4 PROVE Looks(q, Invite(q)[i])
  BY <1>2, AskFields, Tables, Table DEF Looks, Reads, FindClan, Select, requireRank, Require,
     Insert, OwnRow, InviteRow
<1>8. \A i, j \in 1..4 : i < j /\ Invite(q)[j].do \in Reads => Invite(q)[i].do \in Reads
  BY <1>3 DEF Reads
<1>9. QED
  BY <1>1, <1>5, <1>6, <1>7, <1>8 DEF Proceeds

LEMMA Requesting ==
  ASSUME NEW q \in Asks, q.op = "request"
  PROVE  Proceeds(q, Program(q))
<1>1. Program(q) = RequestInvite(q) /\ Len(RequestInvite(q)) = 6
  BY DEF Program, RequestInvite
<1>2. /\ RequestInvite(q)[1] = FindClan(q)
      /\ RequestInvite(q)[2] = Select(Clan(q.tribe), {v \in ActiveClan : v.recruiting})
      /\ RequestInvite(q)[3] = Select(Member(q.tribe, q.by), {NotMember})
      /\ RequestInvite(q)[4] = SelectOld(Invited(q.tribe, q.by))
      /\ RequestInvite(q)[5] = deleteInvite(q, "skip")
      /\ RequestInvite(q)[6] = Insert(Invited(q.tribe, q.by), [kind |-> "request", recent |-> TRUE], "fault")
  BY AskFields DEF RequestInvite, OwnRow, InviteRow, OwnOps
<1>3. /\ RequestInvite(q)[1].do = "select"
      /\ RequestInvite(q)[2].do = "select"
      /\ RequestInvite(q)[3].do = "select"
      /\ RequestInvite(q)[4].do = "selectOld"
      /\ RequestInvite(q)[5].do = "update" /\ RequestInvite(q)[5].row = InviteRow(q)
      /\ RequestInvite(q)[5].to = [old \in InviteValue |-> NoInvite]
      /\ RequestInvite(q)[6].do = "insert" /\ RequestInvite(q)[6].row = InviteRow(q)
      /\ RequestInvite(q)[6].value = [kind |-> "request", recent |-> TRUE]
  BY <1>2, AskFields DEF FindClan, Select, InviteRow, SelectOld, deleteInvite, Set, Update, Insert,
     OwnOps
<1>4. /\ InviteRow(q) \in Row
      /\ \A old \in InviteValue : Change(q, InviteRow(q), old, NoInvite)
  BY AskFields, Tables DEF Change, OwnRow, InviteRow
<1>5. /\ InviteRow(q) \in Row
      /\ Change(q, InviteRow(q), AbsentValue(InviteRow(q)), [kind |-> "request", recent |-> TRUE])
  BY AskFields, Tables, Values DEF Change, OwnRow, InviteRow, InviteValue, OwnOps
<1>6. ASSUME NEW i \in 1..6 PROVE Does(q, RequestInvite(q)[i], i)
  BY <1>1, <1>3, <1>4, <1>5 DEF Does
<1>7. ASSUME NEW i \in 1..6, NEW r, Writes(RequestInvite(q)[i], r)
      PROVE  \/ i = 5 /\ r = InviteRow(q)
             \/ i = 6 /\ r = InviteRow(q)
  BY <1>3, <1>7 DEF Writes
<1>8. Precedes(q, InviteRow(q), InviteRow(q))
  BY Levels DEF Precedes, OwnRow, InviteRow
<1>9. ASSUME NEW i \in 1..6 PROVE Looks(q, RequestInvite(q)[i])
  BY <1>2, AskFields, Tables, Table DEF Looks, Reads, FindClan, Select, SelectOld,
     deleteInvite, Set, Update, Insert, InviteRow, OwnOps
<1>10. \A i, j \in 1..6 : i < j /\ RequestInvite(q)[j].do \in Reads => RequestInvite(q)[i].do \in Reads
  BY <1>3 DEF Reads
<1>11. QED
  BY <1>1, <1>6, <1>7, <1>8, <1>9, <1>10 DEF Proceeds

LEMMA Accepting ==
  ASSUME NEW q \in Asks, q.op = "accept"
  PROVE  Proceeds(q, Program(q))
<1>1. Program(q) = AcceptInvite(q) /\ Len(AcceptInvite(q)) = 3
  BY DEF Program, AcceptInvite
<1>2. /\ AcceptInvite(q)[1] = FindClan(q)
      /\ AcceptInvite(q)[2] = deleteInvite(q, "refuse")
      /\ AcceptInvite(q)[3] = insertRecruit(q)
  BY AskFields DEF AcceptInvite, OwnRow, InviteRow, OwnOps
<1>3. /\ AcceptInvite(q)[1].do = "select"
      /\ AcceptInvite(q)[2].do = "update" /\ AcceptInvite(q)[2].row = InviteRow(q)
      /\ AcceptInvite(q)[2].to = [old \in InviteValue |-> NoInvite]
      /\ AcceptInvite(q)[3].do = "insert" /\ AcceptInvite(q)[3].row = OwnRow(q)
      /\ AcceptInvite(q)[3].value = RankRecruit
  BY <1>2 DEF FindClan, Select, deleteInvite, Set, Update, InviteRow, insertRecruit, Insert, OwnRow
<1>4. /\ InviteRow(q) \in Row
      /\ \A old \in InviteValue : Change(q, InviteRow(q), old, NoInvite)
  BY AskFields, Tables DEF Change, OwnRow, InviteRow
<1>5. /\ OwnRow(q) \in Row
      /\ Change(q, OwnRow(q), AbsentValue(OwnRow(q)), RankRecruit)
  BY AskFields, Tables, Values DEF Change, OwnRow, OwnOps
<1>6. ASSUME NEW i \in 1..3 PROVE Does(q, AcceptInvite(q)[i], i)
  BY <1>1, <1>3, <1>4, <1>5 DEF Does
<1>7. ASSUME NEW i \in 1..3, NEW r, Writes(AcceptInvite(q)[i], r)
      PROVE  \/ i = 2 /\ r = InviteRow(q)
             \/ i = 3 /\ r = OwnRow(q)
  BY <1>3, <1>7 DEF Writes
<1>8. Precedes(q, InviteRow(q), OwnRow(q))
  BY Levels DEF Precedes, OwnRow, InviteRow
<1>9. ASSUME NEW i \in 1..3 PROVE Looks(q, AcceptInvite(q)[i])
  BY <1>2, AskFields, Tables, Table DEF Looks, Reads, FindClan, Select, deleteInvite, Set,
     Update, insertRecruit, Insert, OwnRow
<1>10. \A i, j \in 1..3 : i < j /\ AcceptInvite(q)[j].do \in Reads => AcceptInvite(q)[i].do \in Reads
  BY <1>3 DEF Reads
<1>11. QED
  BY <1>1, <1>6, <1>7, <1>8, <1>9, <1>10 DEF Proceeds

LEMMA Rejecting ==
  ASSUME NEW q \in Asks, q.op = "reject"
  PROVE  Proceeds(q, Program(q))
<1>1. Program(q) = RejectInvite(q) /\ Len(RejectInvite(q)) = 2
  BY DEF Program, RejectInvite
<1>2. /\ RejectInvite(q)[1] = FindClan(q)
      /\ RejectInvite(q)[2] = deleteInvite(q, "skip")
  BY AskFields DEF RejectInvite, OwnRow, InviteRow, OwnOps
<1>3. /\ RejectInvite(q)[1].do = "select"
      /\ RejectInvite(q)[2].do = "update" /\ RejectInvite(q)[2].row = InviteRow(q)
      /\ RejectInvite(q)[2].to = [old \in InviteValue |-> NoInvite]
  BY <1>2 DEF FindClan, Select, deleteInvite, Set, Update, InviteRow
<1>4. /\ InviteRow(q) \in Row
      /\ \A old \in InviteValue : Change(q, InviteRow(q), old, NoInvite)
  BY AskFields, Tables DEF Change, OwnRow, InviteRow
<1>5. ASSUME NEW i \in 1..2 PROVE Does(q, RejectInvite(q)[i], i)
  BY <1>1, <1>3, <1>4 DEF Does
<1>6. ASSUME NEW i \in 1..2, NEW r, Writes(RejectInvite(q)[i], r)
      PROVE  i = 2 /\ r = InviteRow(q)
  BY <1>3, <1>6 DEF Writes
<1>7. ASSUME NEW i \in 1..2 PROVE Looks(q, RejectInvite(q)[i])
  BY <1>2, AskFields, Tables, Table DEF Looks, Reads, FindClan, Select, deleteInvite, Set,
     Update
<1>8. \A i, j \in 1..2 : i < j /\ RejectInvite(q)[j].do \in Reads => RejectInvite(q)[i].do \in Reads
  BY <1>3 DEF Reads
<1>9. QED
  BY <1>1, <1>5, <1>6, <1>7, <1>8 DEF Proceeds

LEMMA Admitting ==
  ASSUME NEW q \in Asks, q.op = "admit"
  PROVE  Proceeds(q, Program(q))
<1>1. Program(q) = AdmitRequester(q) /\ Len(AdmitRequester(q)) = 6
  BY DEF Program, AdmitRequester
<1>2. /\ AdmitRequester(q)[1] = FindClan(q)
      /\ AdmitRequester(q)[2] = CanInvite(Member(q.tribe, q.by), "accept")
      /\ AdmitRequester(q)[3] = requireRank(q, rankToInvite)
      /\ AdmitRequester(q)[4] = Select(InviteRow(q), InviteValue)
      /\ AdmitRequester(q)[5] = insertRecruit(q)
      /\ AdmitRequester(q)[6] = deleteInvite(q, "skip")
  BY DEF AdmitRequester, OwnRow, InviteRow
<1>3. /\ AdmitRequester(q)[1].do = "select"
      /\ AdmitRequester(q)[2].do = "canInvite" /\ AdmitRequester(q)[2].other = "accept"
      /\ AdmitRequester(q)[3].do = "require"
      /\ AdmitRequester(q)[4].do = "select"
      /\ AdmitRequester(q)[5].do = "insert" /\ AdmitRequester(q)[5].row = OwnRow(q)
      /\ AdmitRequester(q)[5].value = RankRecruit
      /\ AdmitRequester(q)[6].do = "update" /\ AdmitRequester(q)[6].row = InviteRow(q)
      /\ AdmitRequester(q)[6].to = [old \in InviteValue |-> NoInvite]
  BY <1>2 DEF FindClan, Select, CanInvite, requireRank, Require, insertRecruit, Insert, OwnRow,
     deleteInvite, Set, Update, InviteRow
<1>4. /\ OwnRow(q) \in Row
      /\ Change(q, OwnRow(q), AbsentValue(OwnRow(q)), RankRecruit)
  BY AskFields, Tables, Values DEF Change, OwnRow
<1>5. /\ InviteRow(q) \in Row
      /\ \A old \in InviteValue : Change(q, InviteRow(q), old, NoInvite)
  BY AskFields, Tables DEF Change, OwnRow, InviteRow
<1>6. ASSUME NEW i \in 1..6 PROVE Does(q, AdmitRequester(q)[i], i)
  BY <1>1, <1>3, <1>4, <1>5 DEF Does
<1>7. ASSUME NEW i \in 1..6, NEW r, Writes(AdmitRequester(q)[i], r)
      PROVE  \/ i = 5 /\ r = OwnRow(q)
             \/ i = 6 /\ r = InviteRow(q)
  BY <1>3, <1>7 DEF Writes
<1>8. Precedes(q, OwnRow(q), InviteRow(q))
  BY Levels DEF Precedes, OwnRow, InviteRow
<1>9. ASSUME NEW i \in 1..6 PROVE Looks(q, AdmitRequester(q)[i])
  BY <1>2, AskFields, Tables, Table DEF Looks, Reads, FindClan, Select, CanInvite, requireRank,
     Require, insertRecruit, Insert, deleteInvite, Set, Update, OwnRow, InviteRow
<1>10. \A i, j \in 1..6 : i < j /\ AdmitRequester(q)[j].do \in Reads => AdmitRequester(q)[i].do \in Reads
  BY <1>3 DEF Reads
<1>11. QED
  BY <1>1, <1>6, <1>7, <1>8, <1>9, <1>10 DEF Proceeds

LEMMA Declining ==
  ASSUME NEW q \in Asks, q.op = "decline"
  PROVE  Proceeds(q, Program(q))
<1>1. Program(q) = DeclineRequester(q) /\ Len(DeclineRequester(q)) = 4
  BY DEF Program, DeclineRequester
<1>2. /\ DeclineRequester(q)[1] = FindClan(q)
      /\ DeclineRequester(q)[2] = CanInvite(Member(q.tribe, q.by), "reject")
      /\ DeclineRequester(q)[3] = requireRank(q, rankToInvite)
      /\ DeclineRequester(q)[4] = deleteInvite(q, "skip")
  BY DEF DeclineRequester, OwnRow, InviteRow
<1>3. /\ DeclineRequester(q)[1].do = "select"
      /\ DeclineRequester(q)[2].do = "canInvite" /\ DeclineRequester(q)[2].other = "reject"
      /\ DeclineRequester(q)[3].do = "require"
      /\ DeclineRequester(q)[4].do = "update" /\ DeclineRequester(q)[4].row = InviteRow(q)
      /\ DeclineRequester(q)[4].to = [old \in InviteValue |-> NoInvite]
  BY <1>2 DEF FindClan, Select, CanInvite, requireRank, Require, deleteInvite, Set, Update, InviteRow
<1>4. /\ InviteRow(q) \in Row
      /\ \A old \in InviteValue : Change(q, InviteRow(q), old, NoInvite)
  BY AskFields, Tables DEF Change, OwnRow, InviteRow
<1>5. ASSUME NEW i \in 1..4 PROVE Does(q, DeclineRequester(q)[i], i)
  BY <1>1, <1>3, <1>4 DEF Does
<1>6. ASSUME NEW i \in 1..4, NEW r, Writes(DeclineRequester(q)[i], r)
      PROVE  i = 4 /\ r = InviteRow(q)
  BY <1>3, <1>6 DEF Writes
<1>7. ASSUME NEW i \in 1..4 PROVE Looks(q, DeclineRequester(q)[i])
  BY <1>2, AskFields, Tables, Table DEF Looks, Reads, FindClan, Select, CanInvite, requireRank,
     Require, deleteInvite, Set, Update
<1>8. \A i, j \in 1..4 : i < j /\ DeclineRequester(q)[j].do \in Reads => DeclineRequester(q)[i].do \in Reads
  BY <1>3 DEF Reads
<1>9. QED
  BY <1>1, <1>5, <1>6, <1>7, <1>8 DEF Proceeds

LEMMA Disbanding ==
  ASSUME NEW q \in Asks, q.op = "disband"
  PROVE  Proceeds(q, Program(q))
<1>1. Program(q) = Disband(q) /\ Len(Disband(q)) = 7
  BY DEF Program, Disband
<1>2. /\ Disband(q)[1] = FindClan(q)
      /\ Disband(q)[2] = requireRank(q, rankToDisband)
      /\ Disband(q)[3] = Insert(Vote(q.tribe, q.by), TRUE, "skip")
      /\ Disband(q)[4] = CountLeaders(q.tribe)
      /\ Disband(q)[5] = CountVotes(q.tribe)
      /\ Disband(q)[6] = Update(Clan(q.tribe), [v \in FoundedClan |-> [v EXCEPT !.status = "disbanded"]], "skip")
      /\ Disband(q)[7] = ClearTags(q.tribe)
  BY AskFields DEF Disband, OwnRow, InviteRow, OwnOps
<1>3. /\ Disband(q)[1].do = "select"
      /\ Disband(q)[2].do = "require"
      /\ Disband(q)[3].do = "insert" /\ Disband(q)[3].row = Vote(q.tribe, q.by)
      /\ Disband(q)[4].do = "countLeaders" /\ Disband(q)[4].tribe = q.tribe
      /\ Disband(q)[5].do = "countVotes" /\ Disband(q)[5].tribe = q.tribe
      /\ Disband(q)[6].do = "update" /\ Disband(q)[6].row = Clan(q.tribe)
      /\ Disband(q)[6].to = [v \in FoundedClan |-> [v EXCEPT !.status = "disbanded"]]
      /\ Disband(q)[7].do = "clearTags" /\ Disband(q)[7].tribe = q.tribe
  BY <1>2 DEF FindClan, Select, requireRank, Require, Insert, CountLeaders, CountVotes, Update,
     ClearTags
<1>4. /\ Vote(q.tribe, q.by) \in Row
      /\ Change(q, Disband(q)[3].row, AbsentValue(Disband(q)[3].row), Disband(q)[3].value)
  <2>1. Disband(q)[3].row = Vote(q.tribe, q.by) /\ Disband(q)[3].value = TRUE
    BY <1>2 DEF Insert
  <2>2. AbsentValue(Vote(q.tribe, q.by)) = FALSE /\ Vote(q.tribe, q.by) \in Row
    BY AskFields, Tables, Values
  <2>3. Change(q, Vote(q.tribe, q.by), FALSE, TRUE)
    BY DEF Change
  <2>4. QED
    BY <2>1, <2>2, <2>3
<1>5. /\ Clan(q.tribe) \in Row
      /\ \A v \in FoundedClan : Change(q, Clan(q.tribe), v, [v EXCEPT !.status = "disbanded"])
  BY AskFields, Tables DEF Change, OwnRow, InviteRow
<1>6. ASSUME NEW i \in 1..7 PROVE Does(q, Disband(q)[i], i)
  BY <1>1, <1>3, <1>4, <1>5 DEF Does
<1>7. ASSUME NEW i \in 1..7, NEW r, Writes(Disband(q)[i], r)
      PROVE  \/ i = 3 /\ r = Vote(q.tribe, q.by)
             \/ i = 6 /\ r = Clan(q.tribe)
             \/ i = 7 /\ \E w \in Warrior : r = Account(w)
  BY <1>3, <1>7 DEF Writes
<1>8. /\ Precedes(q, Vote(q.tribe, q.by), Clan(q.tribe))
      /\ \A w \in Warrior : Precedes(q, Vote(q.tribe, q.by), Account(w))
      /\ \A w \in Warrior : Precedes(q, Clan(q.tribe), Account(w))
  BY Levels DEF Precedes, OwnRow, InviteRow
<1>9. ASSUME NEW i \in 1..7 PROVE Looks(q, Disband(q)[i])
  BY <1>2, AskFields, Tables, Table DEF Looks, Reads, FindClan, Select, requireRank, Require,
     Insert, CountLeaders, CountVotes, Update, ClearTags
<1>10. \A i, j \in 1..7 : i < j /\ Disband(q)[j].do \in Reads => Disband(q)[i].do \in Reads
  BY <1>3 DEF Reads
<1>11. QED
  BY <1>1, <1>6, <1>7, <1>8, <1>9, <1>10 DEF Proceeds

LEMMA Withdrawing ==
  ASSUME NEW q \in Asks, q.op = "withdraw"
  PROVE  Proceeds(q, Program(q))
<1>1. Program(q) = WithdrawDisband(q) /\ Len(WithdrawDisband(q)) = 3
  BY DEF Program, WithdrawDisband
<1>2. /\ WithdrawDisband(q)[1] = FindClan(q)
      /\ WithdrawDisband(q)[2] = requireRank(q, rankToDisband)
      /\ WithdrawDisband(q)[3] = Set(Vote(q.tribe, q.by), {TRUE}, FALSE, "skip")
  BY AskFields DEF WithdrawDisband, OwnRow, InviteRow, OwnOps
<1>3. /\ WithdrawDisband(q)[1].do = "select"
      /\ WithdrawDisband(q)[2].do = "require"
      /\ WithdrawDisband(q)[3].do = "update" /\ WithdrawDisband(q)[3].row = Vote(q.tribe, q.by)
  BY <1>2 DEF FindClan, Select, requireRank, Require, Set, Update
<1>4. /\ Vote(q.tribe, q.by) \in Row
      /\ \A old \in DOMAIN WithdrawDisband(q)[3].to :
           Change(q, WithdrawDisband(q)[3].row, old, WithdrawDisband(q)[3].to[old])
  <2>1. Vote(q.tribe, q.by) \in Row
    BY AskFields, Tables
  <2>2. WithdrawDisband(q)[3].to = [old \in {TRUE} |-> FALSE]
    BY <1>2 DEF Set, Update
  <2>3. ASSUME NEW old \in DOMAIN WithdrawDisband(q)[3].to
        PROVE  old = TRUE /\ WithdrawDisband(q)[3].to[old] = FALSE
    BY <2>2
  <2>4. Change(q, Vote(q.tribe, q.by), TRUE, FALSE)
    BY DEF Change
  <2>5. QED
    BY <1>3, <2>1, <2>3, <2>4
<1>5. ASSUME NEW i \in 1..3 PROVE Does(q, WithdrawDisband(q)[i], i)
  BY <1>1, <1>3, <1>4 DEF Does
<1>6. ASSUME NEW i \in 1..3, NEW r, Writes(WithdrawDisband(q)[i], r)
      PROVE  i = 3 /\ r = Vote(q.tribe, q.by)
  BY <1>3, <1>6 DEF Writes
<1>7. ASSUME NEW i \in 1..3 PROVE Looks(q, WithdrawDisband(q)[i])
  BY <1>2, AskFields, Tables, Table DEF Looks, Reads, FindClan, Select, requireRank, Require,
     Set, Update
<1>8. \A i, j \in 1..3 : i < j /\ WithdrawDisband(q)[j].do \in Reads => WithdrawDisband(q)[i].do \in Reads
  BY <1>3 DEF Reads
<1>9. QED
  BY <1>1, <1>5, <1>6, <1>7, <1>8 DEF Proceeds

LEMMA CancellingOwn ==
  ASSUME NEW q \in Asks, q.op = "cancel", q.by = q.target
  PROVE  Proceeds(q, Program(q))
<1>1. Program(q) = CancelInvite(q) /\ Len(CancelInvite(q)) = 2
  BY DEF Program, CancelInvite
<1>2. /\ CancelInvite(q)[1] = FindClan(q)
      /\ CancelInvite(q)[2] = deleteInvite(q, "skip")
  BY DEF CancelInvite, OwnRow, InviteRow
<1>3. /\ CancelInvite(q)[1].do = "select"
      /\ CancelInvite(q)[2].do = "update" /\ CancelInvite(q)[2].row = InviteRow(q)
      /\ CancelInvite(q)[2].to = [old \in InviteValue |-> NoInvite]
  BY <1>2 DEF FindClan, Select, deleteInvite, Set, Update, InviteRow
<1>4. /\ InviteRow(q) \in Row
      /\ \A old \in InviteValue : Change(q, InviteRow(q), old, NoInvite)
  BY AskFields, Tables DEF Change, OwnRow, InviteRow
<1>5. ASSUME NEW i \in 1..2 PROVE Does(q, CancelInvite(q)[i], i)
  BY <1>1, <1>3, <1>4 DEF Does
<1>6. ASSUME NEW i \in 1..2, NEW r, Writes(CancelInvite(q)[i], r)
      PROVE  i = 2 /\ r = InviteRow(q)
  BY <1>3, <1>6 DEF Writes
<1>7. ASSUME NEW i \in 1..2 PROVE Looks(q, CancelInvite(q)[i])
  BY <1>2, AskFields, Tables, Table DEF Looks, Reads, FindClan, Select, deleteInvite, Set,
     Update
<1>8. \A i, j \in 1..2 : i < j /\ CancelInvite(q)[j].do \in Reads => CancelInvite(q)[i].do \in Reads
  BY <1>3 DEF Reads
<1>9. QED
  BY <1>1, <1>5, <1>6, <1>7, <1>8 DEF Proceeds

LEMMA CancellingOther ==
  ASSUME NEW q \in Asks, q.op = "cancel", q.by # q.target
  PROVE  Proceeds(q, Program(q))
<1>1. Program(q) = CancelInvite(q) /\ Len(CancelInvite(q)) = 3
  BY DEF Program, CancelInvite
<1>2. /\ CancelInvite(q)[1] = FindClan(q)
      /\ CancelInvite(q)[2] = requireRank(q, rankToInvite)
      /\ CancelInvite(q)[3] = deleteInvite(q, "skip")
  BY DEF CancelInvite, OwnRow, InviteRow
<1>3. /\ CancelInvite(q)[1].do = "select"
      /\ CancelInvite(q)[2].do = "require"
      /\ CancelInvite(q)[3].do = "update" /\ CancelInvite(q)[3].row = InviteRow(q)
      /\ CancelInvite(q)[3].to = [old \in InviteValue |-> NoInvite]
  BY <1>2 DEF FindClan, Select, requireRank, Require, deleteInvite, Set, Update, InviteRow
<1>4. /\ InviteRow(q) \in Row
      /\ \A old \in InviteValue : Change(q, InviteRow(q), old, NoInvite)
  BY AskFields, Tables DEF Change, OwnRow, InviteRow
<1>5. ASSUME NEW i \in 1..3 PROVE Does(q, CancelInvite(q)[i], i)
  BY <1>1, <1>3, <1>4 DEF Does
<1>6. ASSUME NEW i \in 1..3, NEW r, Writes(CancelInvite(q)[i], r)
      PROVE  i = 3 /\ r = InviteRow(q)
  BY <1>3, <1>6 DEF Writes
<1>7. ASSUME NEW i \in 1..3 PROVE Looks(q, CancelInvite(q)[i])
  BY <1>2, AskFields, Tables, Table DEF Looks, Reads, FindClan, Select, requireRank, Require,
     deleteInvite, Set, Update
<1>8. \A i, j \in 1..3 : i < j /\ CancelInvite(q)[j].do \in Reads => CancelInvite(q)[i].do \in Reads
  BY <1>3 DEF Reads
<1>9. QED
  BY <1>1, <1>5, <1>6, <1>7, <1>8 DEF Proceeds

(* Every method does only what its request may, in an order all of them keep. *)
LEMMA Programs ==
  ASSUME NEW q \in Asks
  PROVE  Proceeds(q, Program(q))
<1>1. CASE q.op \in {"create", "recruit", "setRank", "kick", "leave", "wear", "unwear", "invite"}
  BY <1>1, Creating, Recruiting, Promoting, Kicking, Leaving, Wearing, TakingOff, Inviting
<1>2. CASE q.op \in {"request", "accept", "reject", "admit", "decline", "disband", "withdraw"}
  BY <1>2, Requesting, Accepting, Rejecting, Admitting, Declining, Disbanding, Withdrawing
<1>3. CASE q.op = "cancel"
  BY <1>3, CancellingOwn, CancellingOther
<1>4. QED
  BY <1>1, <1>2, <1>3, AskFields DEF AllOps, OwnOps
-----------------------------------------------------------------------------
(* A change keeps a row to the values of its table.                          *)
LEMMA ChangeTyped ==
  ASSUME NEW q \in Asks, NEW r \in Row, NEW old \in Value(r), NEW new, Change(q, r, old, new)
  PROVE  new \in Value(r)
<1>1. CASE \E c \in Tribe : r = Clan(c)
  <2>1. PICK c \in Tribe : r = Clan(c)
    BY <1>1
  <2>2. old \in ClanValue /\ Value(r) = ClanValue
    BY <2>1, Values
  <2>3. \/ new = [status |-> "active", recruiting |-> q.flag]
        \/ new = [old EXCEPT !.recruiting = q.flag]
        \/ new = [old EXCEPT !.status = "disbanded"]
    BY <2>1 DEF Change, Clan, Member, OwnRow, InviteRow, Invited, Vote, Account
  <2>4. q.flag \in BOOLEAN
    BY DEF Asks
  <2>5. QED
    BY <2>2, <2>3, <2>4 DEF ClanValue
<1>2. CASE \E w \in Warrior : r = Account(w)
  <2>1. PICK w \in Warrior : r = Account(w)
    BY <1>2
  <2>2. new \in {q.tribe, NoTribe}
    BY <2>1 DEF Change, Clan, Member, OwnRow, InviteRow, Invited, Vote, Account
  <2>3. QED
    <3>1. Value(Account(w)) = Tribe \cup {NoTribe} /\ q.tribe \in Tribe
      BY Values, AskFields
    <3>2. QED
      BY <2>1, <2>2, <3>1
<1>3. CASE \E c \in Tribe, w \in Warrior : r = Member(c, w)
  <2>1. PICK c \in Tribe, w \in Warrior : r = Member(c, w)
    BY <1>3
  <2>2. new \in {RankLeader, q.rank, NotMember, RankRecruit}
    BY <2>1 DEF Change, Clan, Member, OwnRow, InviteRow, Invited, Vote, Account
  <2>3. RankLeader \in Rank /\ RankRecruit \in Rank /\ q.rank \in Rank
    BY AskFields DEF Rank, RankLeader, RankRecruit
  <2>4. Value(r) = Rank \cup {NotMember}
    BY <2>1, Values
  <2>5. QED
    BY <2>2, <2>3, <2>4
<1>4. CASE \E c \in Tribe, w \in Warrior : r = Invited(c, w)
  <2>1. PICK c \in Tribe, w \in Warrior : r = Invited(c, w)
    BY <1>4
  <2>2. \A x \in {"invite", "request"} : [kind |-> x, recent |-> TRUE] \in InviteValue
    BY DEF InviteValue
  <2>3. \/ \E x \in {"invite", "request"} : new = [kind |-> x, recent |-> TRUE]
        \/ new = NoInvite
    BY <2>1 DEF Change, Clan, Member, OwnRow, InviteRow, Invited, Vote, Account
  <2>4. QED
    BY <2>1, <2>2, <2>3, Values
<1>5. CASE \E c \in Tribe, w \in Warrior : r = Vote(c, w)
  <2>1. PICK c \in Tribe, w \in Warrior : r = Vote(c, w)
    BY <1>5
  <2>2. new = TRUE \/ new = FALSE
    BY <2>1 DEF Change, Clan, Member, OwnRow, InviteRow, Invited, Vote, Account
  <2>3. QED
    BY <2>1, <2>2, Values
<1>6. QED
  BY <1>1, <1>2, <1>3, <1>4, <1>5, Tables

LEMMA NotUnwritten ==
  ASSUME NEW r \in Row, NEW v \in Value(r)
  PROVE  v # Unwritten
<1>1. CASE \E c \in Tribe : r = Clan(c)
  <2>1. PICK c \in Tribe : r = Clan(c)
    BY <1>1
  <2>2. Value(r) = ClanValue
    BY <2>1, Values
  <2>3. QED
    BY <2>2, UnwrittenAssumption
<1>2. CASE \E w \in Warrior : r = Account(w)
  <2>1. PICK w \in Warrior : r = Account(w)
    BY <1>2
  <2>2. Value(r) = Tribe \cup {NoTribe}
    BY <2>1, Values
  <2>3. QED
    BY <2>2, UnwrittenAssumption
<1>3. CASE \E c \in Tribe, w \in Warrior : r = Member(c, w)
  <2>1. PICK c \in Tribe, w \in Warrior : r = Member(c, w)
    BY <1>3
  <2>2. Value(r) = Rank \cup {NotMember}
    BY <2>1, Values
  <2>3. QED
    BY <2>2, UnwrittenAssumption
<1>4. CASE \E c \in Tribe, w \in Warrior : r = Invited(c, w)
  <2>1. PICK c \in Tribe, w \in Warrior : r = Invited(c, w)
    BY <1>4
  <2>2. Value(r) = InviteValue \cup {NoInvite}
    BY <2>1, Values
  <2>3. QED
    BY <2>2, UnwrittenAssumption
<1>5. CASE \E c \in Tribe, w \in Warrior : r = Vote(c, w)
  <2>1. PICK c \in Tribe, w \in Warrior : r = Vote(c, w)
    BY <1>5
  <2>2. Value(r) = BOOLEAN
    BY <2>1, Values
  <2>3. QED
    BY <2>2, UnwrittenAssumption
<1>6. QED
  BY <1>1, <1>2, <1>3, <1>4, <1>5, Tables

(* What Types says of a worker that serves a request, and what its statement *)
(* is.                                                                       *)
LEMMA Serving ==
  ASSUME Types, NEW k \in Worker, ~Idle(k)
  PROVE  /\ req[k] \in Asks /\ pc[k] \in Nat /\ pc[k] >= 1 /\ pc[k] <= Len(Program(req[k])) + 1
         /\ Proceeds(req[k], Program(req[k]))
         /\ Len(Program(req[k])) \in Nat /\ Len(Program(req[k])) >= 1
         /\ pc[k] <= Len(Program(req[k])) =>
              /\ stmt(k) = Program(req[k])[pc[k]]
              /\ Does(req[k], stmt(k), pc[k])
         /\ pc[k] > Len(Program(req[k])) => stmt(k) = [do |-> "commit"]
<1>1. req[k] \in Asks /\ pc[k] \in Nat
  BY DEF Types, Idle
<1>2. Proceeds(req[k], Program(req[k]))
  BY <1>1, Programs
<1>3. /\ pc[k] \in 1 .. Len(Program(req[k])) + 1
      /\ Len(Program(req[k])) \in Nat /\ Len(Program(req[k])) >= 1
  BY <1>2 DEF Types, Proceeds
<1>4. pc[k] <= Len(Program(req[k])) => stmt(k) = Program(req[k])[pc[k]]
  BY DEF stmt
<1>5. pc[k] <= Len(Program(req[k])) => pc[k] \in 1 .. Len(Program(req[k]))
  BY <1>1, <1>3
<1>6. pc[k] <= Len(Program(req[k])) => Does(req[k], stmt(k), pc[k])
  BY <1>2, <1>4, <1>5 DEF Proceeds
<1>7. pc[k] > Len(Program(req[k])) => stmt(k) = [do |-> "commit"]
  BY <1>1, <1>3 DEF stmt
<1>8. QED
  BY <1>1, <1>2, <1>3, <1>4, <1>6, <1>7

LEMMA Doing ==
  ASSUME Types, NEW k \in Worker, NEW d, At(k, d), d # "nothing", d # "commit"
  PROVE  /\ ~Idle(k) /\ req[k] \in Asks /\ pc[k] \in Nat /\ pc[k] >= 1 /\ pc[k] <= Len(Program(req[k]))
         /\ Len(Program(req[k])) \in Nat
         /\ stmt(k) = Program(req[k])[pc[k]] /\ Does(req[k], stmt(k), pc[k])
<1>1. ~Idle(k)
  BY DEF At, stmt
<1>2. pc[k] <= Len(Program(req[k]))
  BY <1>1, Serving DEF At, Proceeds
<1>3. QED
  BY <1>1, <1>2, Serving DEF Proceeds
-----------------------------------------------------------------------------
LEMMA Advancing ==
  ASSUME Types, NEW k \in Worker, NEW d, At(k, d), d \notin {"nothing", "commit", "insert", "update"},
         Advance(k), UNCHANGED <<db, pending, req>>
  PROVE  Goes(k)
<1>1. pc[k] + 1 \in Nat /\ pc[k] < pc[k] + 1 /\ pc[k] + 1 <= Len(Program(req[k])) + 1
  BY Doing
<1>2. stmt(k).do # "insert" /\ stmt(k).do # "update" /\ ~Idle(k)
  BY Doing DEF At
<1>3. QED
  BY <1>1, <1>2 DEF Goes, Advance

LEMMA RollingBack ==
  ASSUME NEW k \in Worker, ~Idle(k), Rollback(k)
  PROVE  Ends(k)
BY DEF Rollback, Ends

LEMMA CanInviteEffect ==
  ASSUME Types, NEW k \in Worker, DoCanInvite(k)
  PROVE  Goes(k) \/ Turns(k)
<1>1. At(k, "canInvite") /\ ~Idle(k) /\ req[k] \in Asks
  BY Doing DEF DoCanInvite
<1>2. /\ pc[k] = 2 /\ req[k].op \in {"admit", "decline"} /\ stmt(k).other \in {"accept", "reject"}
      /\ Proceeds(req[k], Program(req[k])) /\ pc[k] <= Len(Program(req[k]))
  BY <1>1, Doing, Serving DEF Does, At
<1>3. \A r : ~Writes(Program(req[k])[1], r)
  <2>1. 1 \in 1 .. Len(Program(req[k]))
    BY <1>2 DEF Proceeds
  <2>2. Program(req[k])[1].do = "select"
    BY <1>2, <2>1 DEF Proceeds, Does
  <2>3. QED
    BY <2>2 DEF Writes
<1>4. CASE Sees(k, stmt(k).row) >= rankToInvite
  BY <1>1, <1>4, Advancing DEF DoCanInvite
<1>5. CASE ~(Sees(k, stmt(k).row) >= rankToInvite)
  <2> DEFINE q == [req[k] EXCEPT !.op = stmt(k).other, !.target = req[k].by]
  <2>1. req' = [req EXCEPT ![k].op = stmt(k).other, ![k].target = req[k].by] /\ pc' = [pc EXCEPT ![k] = 2]
        /\ UNCHANGED <<db, pending>>
    BY <1>5 DEF DoCanInvite, Skip
  <2>2. q \in Asks /\ q.op \in {"accept", "reject"}
    BY <1>1, <1>2 DEF Asks, AllOps, OwnOps
  <2>3. req' = [req EXCEPT ![k] = q]
    BY <2>1 DEF Types
  <2>4. pc' = pc
    BY <2>1, <1>2 DEF Types
  <2>5. QED
    BY <1>1, <1>2, <1>3, <2>1, <2>2, <2>3, <2>4 DEF Turns
<1>6. QED
  BY <1>4, <1>5

LEMMA SelectOldEffect ==
  ASSUME Types, NEW k \in Worker, DoSelectOld(k)
  PROVE  Goes(k) \/ Ends(k)
<1>1. At(k, "selectOld") /\ ~Idle(k) /\ pc[k] \in Nat /\ pc[k] < Len(Program(req[k])) /\ Len(Program(req[k])) \in Nat
  BY Doing DEF DoSelectOld, Does, At
<1>2. CASE Rollback(k)
  BY <1>1, <1>2, RollingBack
<1>3. CASE ~Rollback(k)
  <2>1. PICK n \in {pc[k] + 1, pc[k] + 2} : pc' = [pc EXCEPT ![k] = n] /\ UNCHANGED <<db, pending, req, seen>>
    BY <1>3 DEF DoSelectOld, Skip
  <2>2. n \in Nat /\ pc[k] < n /\ n <= Len(Program(req[k])) + 1
    BY <1>1
  <2>3. QED
    BY <1>1, <2>1, <2>2 DEF Goes, At
<1>4. QED
  BY <1>2, <1>3

LEMMA CountVotesEffect ==
  ASSUME Types, NEW k \in Worker, DoCountVotes(k)
  PROVE  Goes(k)
<1>1. At(k, "countVotes") /\ ~Idle(k) /\ pc[k] \in Nat /\ pc[k] <= Len(Program(req[k])) /\ Len(Program(req[k])) \in Nat
  BY Doing DEF DoCountVotes
<1>2. PICK n \in {pc[k] + 1, Len(Program(req[k])) + 1} :
        pc' = [pc EXCEPT ![k] = n] /\ UNCHANGED <<db, pending, req, seen>>
  BY DEF DoCountVotes, Skip, Advance
<1>3. n \in Nat /\ pc[k] < n /\ n <= Len(Program(req[k])) + 1
  BY <1>1
<1>4. QED
  BY <1>1, <1>2, <1>3 DEF Goes, At

(* One row written.                                                          *)
LEMMA Writing ==
  ASSUME Types, NEW k \in Worker, NEW d \in {"insert", "update"}, At(k, d), NEW v,
         Change(req[k], stmt(k).row, Sees(k, stmt(k).row), v),
         \A j \in Worker \ {k} : pending[j][stmt(k).row] = Unwritten,
         Write(k, stmt(k).row, v), Advance(k), UNCHANGED <<db, req>>
  PROVE  Locks(k)
<1>1. /\ ~Idle(k) /\ req[k] \in Asks /\ pc[k] <= Len(Program(req[k])) /\ stmt(k).do = d
      /\ stmt(k).row \in Row
  BY Doing DEF At, Does
<1>2. Sees(k, stmt(k).row) \in Value(stmt(k).row)
  BY <1>1 DEF Sees, Types
<1>3. v # Unwritten
  BY <1>1, <1>2, ChangeTyped, NotUnwritten
<1>4. pending' = [pending EXCEPT ![k][stmt(k).row] = v]
  BY DEF Write
<1>5. \A j \in Worker, r \in Row : pending'[j][r] = IF j = k /\ r = stmt(k).row THEN v ELSE pending[j][r]
  BY <1>1, <1>4 DEF Types
<1>6. pending' = [j \in Worker |-> [r \in Row |-> pending'[j][r]]]
  BY <1>1, <1>4 DEF Types
<1>7. Writes(stmt(k), stmt(k).row)
  BY <1>1 DEF Writes
<1>8. pc' = [pc EXCEPT ![k] = pc[k] + 1]
  BY DEF Advance
<1>9. QED
  BY <1>1, <1>3, <1>5, <1>6, <1>7, <1>8 DEF Locks
LEMMA InsertEffect ==
  ASSUME Types, NEW k \in Worker, DoInsert(k)
  PROVE  Goes(k) \/ Locks(k) \/ Ends(k)
<1> DEFINE s == stmt(k)
<1>1. /\ At(k, "insert") /\ ~Idle(k) /\ pc[k] \in Nat /\ pc[k] <= Len(Program(req[k]))
      /\ Len(Program(req[k])) \in Nat /\ s.do = "insert"
  BY Doing DEF DoInsert, At
<1>2. Change(req[k], s.row, AbsentValue(s.row), s.value)
  BY <1>1, Doing DEF Does
<1>3. \A j \in Worker \ {k} : pending[j][s.row] = Unwritten
  BY <1>1 DEF DoInsert, Free, Wants
<1>4. CASE Sees(k, s.row) = AbsentValue(s.row)
  <2>1. Write(k, s.row, s.value) /\ Advance(k) /\ UNCHANGED <<db, req>>
    BY <1>4 DEF DoInsert
  <2>2. Change(req[k], s.row, Sees(k, s.row), s.value)
    BY <1>2, <1>4
  <2>3. QED
    BY <1>1, <1>3, <2>1, <2>2, Writing
<1>5. CASE Sees(k, s.row) # AbsentValue(s.row) /\ s.clash = "skip"
  <2>1. Advance(k) /\ UNCHANGED <<db, pending, req>>
    BY <1>5 DEF DoInsert
  <2>2. pc[k] + 1 \in Nat /\ pc[k] < pc[k] + 1 /\ pc[k] + 1 <= Len(Program(req[k])) + 1
    BY <1>1
  <2>3. QED
    BY <1>1, <1>5, <2>1, <2>2 DEF Goes, Advance
<1>6. CASE Sees(k, s.row) # AbsentValue(s.row) /\ s.clash # "skip"
  <2>1. Rollback(k)
    BY <1>6 DEF DoInsert
  <2>2. QED
    BY <1>1, <2>1, RollingBack
<1>7. QED
  BY <1>4, <1>5, <1>6

LEMMA UpdateEffect ==
  ASSUME Types, NEW k \in Worker, DoUpdate(k)
  PROVE  Goes(k) \/ Locks(k) \/ Ends(k)
<1> DEFINE s == stmt(k)
           old == Sees(k, s.row)
<1>1. /\ At(k, "update") /\ ~Idle(k) /\ pc[k] \in Nat /\ pc[k] <= Len(Program(req[k]))
      /\ Len(Program(req[k])) \in Nat /\ s.do = "update"
  BY Doing DEF DoUpdate, At
<1>2. CASE old \in DOMAIN s.to
  <2>1. \A j \in Worker \ {k} : pending[j][s.row] = Unwritten
    BY <1>1, <1>2 DEF DoUpdate, Free, Wants
  <2>2. Write(k, s.row, s.to[old]) /\ Advance(k) /\ UNCHANGED <<db, req>>
    BY <1>2 DEF DoUpdate
  <2>3. Change(req[k], s.row, old, s.to[old])
    BY <1>1, <1>2, Doing DEF Does
  <2>4. QED
    BY <1>1, <2>1, <2>2, <2>3, Writing
<1>3. CASE old \notin DOMAIN s.to /\ s.miss = "skip"
  <2>1. Advance(k) /\ UNCHANGED <<db, pending, req>>
    BY <1>3 DEF DoUpdate
  <2>2. pc[k] + 1 \in Nat /\ pc[k] < pc[k] + 1 /\ pc[k] + 1 <= Len(Program(req[k])) + 1
    BY <1>1
  <2>3. QED
    BY <1>1, <1>3, <2>1, <2>2 DEF Goes, Advance
<1>4. CASE old \notin DOMAIN s.to /\ s.miss # "skip"
  <2>1. Rollback(k)
    BY <1>4 DEF DoUpdate
  <2>2. QED
    BY <1>1, <2>1, RollingBack
<1>5. QED
  BY <1>2, <1>3, <1>4

LEMMA ClearTagsEffect ==
  ASSUME Types, NEW k \in Worker, DoClearTags(k)
  PROVE  Locks(k)
<1> DEFINE c == stmt(k).tribe
<1>1. /\ ~Idle(k) /\ req[k] \in Asks /\ pc[k] <= Len(Program(req[k])) /\ stmt(k).do = "clearTags"
      /\ req[k].op = "disband" /\ c = req[k].tribe
  BY Doing DEF DoClearTags, At, Does
<1>2. /\ \A j \in Worker \ {k}, r \in WornRows(k, c) : pending[j][r] = Unwritten
      /\ pending' = [pending EXCEPT ![k] = [r \in Row |-> IF r \in WornRows(k, c) THEN NoTribe ELSE @[r]]]
      /\ pc' = [pc EXCEPT ![k] = pc[k] + 1] /\ UNCHANGED <<db, req>>
  BY <1>1 DEF DoClearTags, Free, Wants, Advance
<1>3. \A j \in Worker, r \in Row :
        pending'[j][r] = IF j = k /\ r \in WornRows(k, c) THEN NoTribe ELSE pending[j][r]
  BY <1>2 DEF Types
<1>4. pending' = [j \in Worker |-> [r \in Row |-> pending'[j][r]]]
  BY <1>2 DEF Types
<1>5. ASSUME NEW r \in Row, r \in WornRows(k, c)
      PROVE  Writes(stmt(k), r) /\ Change(req[k], r, Sees(k, r), NoTribe)
  <2>1. PICK w \in Warrior : r = Account(w) /\ Sees(k, r) = c
    BY <1>5 DEF WornRows
  <2>2. QED
    BY <1>1, <2>1 DEF Writes, Change
<1>6. QED
  BY <1>1, <1>2, <1>3, <1>4, <1>5 DEF Locks

LEMMA Effects ==
  ASSUME Types, NEW k \in Worker, Step(k)
  PROVE  Goes(k) \/ Turns(k) \/ Locks(k) \/ Ends(k) \/ Commit(k)
<1>1. CASE DoSelect(k)
  BY <1>1, Doing, Advancing, RollingBack DEF DoSelect
<1>2. CASE DoRequire(k)
  BY <1>2, Doing, Advancing, RollingBack DEF DoRequire
<1>3. CASE DoOutranked(k)
  BY <1>3, Doing, Advancing, RollingBack DEF DoOutranked
<1>4. CASE DoCanInvite(k) \/ DoSelectOld(k)
  BY <1>4, CanInviteEffect, SelectOldEffect
<1>5. CASE DoInsert(k) \/ DoUpdate(k) \/ DoClearTags(k)
  BY <1>5, InsertEffect, UpdateEffect, ClearTagsEffect
<1>6. CASE DoCountLeaders(k)
  BY <1>6, Advancing DEF DoCountLeaders
<1>7. CASE DoCountVotes(k)
  BY <1>7, CountVotesEffect
<1>8. QED
  BY <1>1, <1>2, <1>3, <1>4, <1>5, <1>6, <1>7 DEF Step
-----------------------------------------------------------------------------
LEMMA InitOK == Init => IInv
<1> SUFFICES ASSUME Init PROVE IInv
  OBVIOUS
<1>1. PICK roster \in Rosters, tag \in [Warrior -> Tribe \cup {NoTribe}] :
        db = [r \in Row |->
            CASE r[1] = "clans" ->
                   IF \E w \in Warrior : roster[r[2]][w] # NotMember
                   THEN [status |-> "active", recruiting |-> TRUE] ELSE NoClan
              [] r[1] = "clan_members"       -> roster[r[2]][r[3]]
              [] r[1] = "clan_invites"       ->
                   IF roster[r[2]][r[3]] = NotMember /\ \E w \in Warrior : roster[r[2]][w] # NotMember
                   THEN [kind |-> "invite", recent |-> FALSE] ELSE NoInvite
              [] r[1] = "clan_disband_votes" -> FALSE
              [] r[1] = "accounts"           -> tag[r[2]]]
  BY DEF Init
<1> DEFINE F(r) == CASE r[1] = "clans" ->
                          IF \E w \in Warrior : roster[r[2]][w] # NotMember
                          THEN [status |-> "active", recruiting |-> TRUE] ELSE NoClan
                     [] r[1] = "clan_members"       -> roster[r[2]][r[3]]
                     [] r[1] = "clan_invites"       ->
                          IF roster[r[2]][r[3]] = NotMember
                               /\ \E w \in Warrior : roster[r[2]][w] # NotMember
                          THEN [kind |-> "invite", recent |-> FALSE] ELSE NoInvite
                     [] r[1] = "clan_disband_votes" -> FALSE
                     [] r[1] = "accounts"           -> tag[r[2]]
<1>2. db = [r \in Row |-> F(r)]
  BY <1>1
<1>3. ASSUME NEW c \in Tribe PROVE F(Clan(c)) \in Value(Clan(c))
  <2>1. F(Clan(c)) = [status |-> "active", recruiting |-> TRUE] \/ F(Clan(c)) = NoClan
    BY Table
  <2>2. [status |-> "active", recruiting |-> TRUE] \in ClanValue /\ NoClan \in ClanValue
    BY DEF ClanValue, NoClan
  <2> HIDE DEF F
  <2>3. F(Clan(c)) \in ClanValue
    BY <2>1, <2>2
  <2>4. QED
    BY <2>3, Values
<1>4. ASSUME NEW w \in Warrior PROVE F(Account(w)) \in Value(Account(w))
  <2>1. F(Account(w)) = tag[w]
    BY Table DEF Account
  <2> HIDE DEF F
  <2>2. F(Account(w)) \in Tribe \cup {NoTribe}
    BY <2>1
  <2>3. QED
    BY <2>2, Values
<1>5. ASSUME NEW c \in Tribe, NEW w \in Warrior PROVE F(Member(c, w)) \in Value(Member(c, w))
  <2>1. F(Member(c, w)) = roster[c][w]
    BY Table DEF Member
  <2>2. roster \in [Tribe -> [Warrior -> Rank \cup {NotMember}]]
    BY RosterAssumption
  <2> HIDE DEF F
  <2>3. F(Member(c, w)) \in Rank \cup {NotMember}
    BY <2>1, <2>2
  <2>4. QED
    BY <2>3, Values
<1>6. ASSUME NEW c \in Tribe, NEW w \in Warrior PROVE F(Invited(c, w)) \in Value(Invited(c, w))
  <2>1. F(Invited(c, w)) = [kind |-> "invite", recent |-> FALSE] \/ F(Invited(c, w)) = NoInvite
    BY Table
  <2>2. [kind |-> "invite", recent |-> FALSE] \in InviteValue
    BY DEF InviteValue
  <2> HIDE DEF F
  <2>3. F(Invited(c, w)) \in InviteValue \cup {NoInvite}
    BY <2>1, <2>2
  <2>4. QED
    BY <2>3, Values
<1>7. ASSUME NEW c \in Tribe, NEW w \in Warrior PROVE F(Vote(c, w)) \in Value(Vote(c, w))
  <2>1. F(Vote(c, w)) = FALSE
    BY Table
  <2> HIDE DEF F
  <2>2. QED
    BY <2>1, Values
<1> HIDE DEF F
<1>8. \A r \in Row : db[r] \in Value(r)
  <2>1. \A r \in Row : F(r) \in Value(r)
    BY <1>3, <1>4, <1>5, <1>6, <1>7, Tables
  <2>2. QED
    BY <1>2, <2>1
<1>9. /\ pending = [k \in Worker |-> [r \in Row |-> Unwritten]]
      /\ req = [k \in Worker |-> NoRequest]
      /\ pc = [k \in Worker |-> 0]
      /\ seen = [k \in Worker |-> 0]
  BY DEF Init
<1>10. Types
  <2>1. db = [r \in Row |-> db[r]]
    BY <1>2
  <2>2. \A k \in Worker : Idle(k) /\ pc[k] = 0 /\ \A r \in Row : pending[k][r] = Unwritten
    BY <1>9 DEF Idle
  <2>3. QED
    BY <1>8, <1>9, <2>1, <2>2 DEF Types
<1>11. Exclusive /\ Held /\ Sure
  BY <1>9 DEF Exclusive, Held, Sure, Idle
<1>12. QED
  BY <1>10, <1>11 DEF IInv

(* What the second statement of the two methods is that must write.          *)
LEMMA Musts ==
  ASSUME NEW q \in Asks
  PROVE  /\ q.op = "create" => /\ Program(q)[1].do = "select" /\ Program(q)[2].do = "insert"
                               /\ Program(q)[2].row = Clan(q.tribe) /\ Program(q)[2].clash = "fault"
         /\ q.op = "accept" => /\ Program(q)[1].do = "select" /\ Program(q)[2].do = "update"
                               /\ Program(q)[2].row = InviteRow(q) /\ Program(q)[2].miss = "refuse"
<1>1. CASE q.op = "create"
  BY <1>1 DEF Program, CreateClan, Select, Insert
<1>2. CASE q.op = "accept"
  BY <1>2 DEF Program, AcceptInvite, FindClan, Select, deleteInvite, Set, Update, InviteRow
<1>3. QED
  BY <1>1, <1>2

(* Only RequestInvite writes a row twice.                                    *)
LEMMA WrittenOnce ==
  ASSUME Types, Held, NEW k \in Worker, ~Idle(k), pc[k] <= Len(Program(req[k])),
         req[k].op # "request", NEW r \in Row, Writes(stmt(k), r)
  PROVE  pending[k][r] = Unwritten
<1> SUFFICES ASSUME pending[k][r] # Unwritten PROVE FALSE
  OBVIOUS
<1>1. PICK i \in 1 .. Len(Program(req[k])) : i < pc[k] /\ Writes(Program(req[k])[i], r)
  BY DEF Held
<1>2. /\ pc[k] \in 1 .. Len(Program(req[k])) /\ stmt(k) = Program(req[k])[pc[k]]
      /\ Proceeds(req[k], Program(req[k]))
  BY Serving
<1>3. Precedes(req[k], r, r)
  BY <1>1, <1>2 DEF Proceeds
<1>4. Level(r) \in Nat
  BY Tables, Levels
<1>5. InviteRow(req[k]) # OwnRow(req[k])
  BY DEF InviteRow, OwnRow, Invited, Member
<1>6. QED
  BY <1>3, <1>4, <1>5 DEF Precedes

LEMMA GoesKeeps ==
  ASSUME IInv, NEW k \in Worker, Goes(k)
  PROVE  IInv'
<1>1. PICK n \in Nat : /\ pc[k] < n /\ n <= Len(Program(req[k])) + 1 /\ pc' = [pc EXCEPT ![k] = n]
                       /\ n = pc[k] + 1 \/ stmt(k).do \in {"selectOld", "countVotes"}
  BY DEF Goes
<1>2. Types /\ ~Idle(k) /\ UNCHANGED <<db, pending, req>>
  BY DEF Goes, IInv
<1>3. Types'
  <2>1. n \in 1 .. Len(Program(req[k])) + 1 /\ pc' \in [Worker -> Nat] /\ pc'[k] = n
    BY <1>1, <1>2, Serving DEF Types
  <2>2. \A j \in Worker : j # k => pc'[j] = pc[j]
    BY <1>1, <1>2 DEF Types
  <2>3. QED
    BY <1>2, <2>1, <2>2 DEF Types, Idle
<1>4. Exclusive' /\ Held'
  <2>1. Exclusive'
    BY <1>2 DEF IInv, Exclusive
  <2>2. \A j \in Worker : pc[j] \in Nat /\ pc'[j] \in Nat /\ pc[j] <= pc'[j]
    BY <1>1, <1>2 DEF Types
  <2>3. ASSUME NEW j \in Worker, NEW r \in Row, pending[j][r] # Unwritten,
               NEW i \in 1 .. Len(Program(req[j])), i < pc[j]
        PROVE  i < pc'[j]
    <3>1. pc[j] \in Nat /\ pc'[j] \in Nat /\ pc[j] <= pc'[j] /\ req[j] \in Asks
      BY <1>2, <2>2, <2>3 DEF Types, Idle
    <3>2. Len(Program(req[j])) \in Nat
      BY <3>1, Programs DEF Proceeds
    <3>3. QED
      BY <2>3, <3>1, <3>2
  <2>4. Held'
    BY <1>2, <2>3 DEF IInv, Held
  <2>5. QED
    BY <2>1, <2>4
<1>5. Sure'
  <2>1. ASSUME NEW j \in Worker, ~Idle(j)', pc'[j] >= 3, j # k
        PROVE  /\ req'[j].op = "create" => pending'[j][Clan(req'[j].tribe)] # Unwritten
               /\ req'[j].op = "accept" => pending'[j][InviteRow(req'[j])] # Unwritten
    BY <1>1, <1>2, <2>1 DEF IInv, Sure, Idle, Types
  <2>2. pc[k] >= 3 \/ req[k].op \notin {"create", "accept"} \/ n < 3
    <3> SUFFICES ASSUME pc[k] < 3, req[k].op \in {"create", "accept"}, n >= 3 PROVE FALSE
      BY <1>1, <1>2, Serving
    <3>1. /\ pc[k] \in {1, 2} /\ pc[k] <= Len(Program(req[k])) /\ req[k] \in Asks
          /\ stmt(k) = Program(req[k])[pc[k]]
      BY <1>1, <1>2, Serving
    <3>2. CASE pc[k] = 1
      BY <1>1, <3>1, <3>2, Musts
    <3>3. CASE pc[k] = 2
      BY <3>1, <3>3, Musts DEF Goes
    <3>4. QED
      BY <3>1, <3>2, <3>3
  <2>3. pc[k] >= 3 =>
          /\ req[k].op = "create" => pending[k][Clan(req[k].tribe)] # Unwritten
          /\ req[k].op = "accept" => pending[k][InviteRow(req[k])] # Unwritten
    BY <1>2 DEF IInv, Sure
  <2>4. pc'[k] = n
    BY <1>1, <1>2 DEF Types
  <2>5. QED
    BY <1>2, <2>1, <2>2, <2>3, <2>4 DEF Sure, InviteRow
<1>6. QED
  BY <1>3, <1>4, <1>5 DEF IInv
LEMMA TurnsKeeps ==
  ASSUME IInv, NEW k \in Worker, Turns(k)
  PROVE  IInv'
<1>1. PICK q \in Asks : q.op \in {"accept", "reject"} /\ req' = [req EXCEPT ![k] = q]
  BY DEF Turns
<1>2. /\ Types /\ ~Idle(k) /\ UNCHANGED <<db, pending, pc>> /\ pc[k] = 2
      /\ \A r : ~Writes(Program(req[k])[1], r)
  BY DEF Turns, IInv
<1>3. q # NoRequest /\ Len(Program(q)) \in Nat /\ Len(Program(q)) >= 1
  BY AskFields, Programs DEF Proceeds
<1>4. /\ req' \in [Worker -> Asks \cup {NoRequest}] /\ req'[k] = q
      /\ \A j \in Worker : j # k => req'[j] = req[j]
  BY <1>1, <1>2 DEF Types
<1>5. \A r \in Row : pending[k][r] = Unwritten
  <2> SUFFICES ASSUME NEW r \in Row, pending[k][r] # Unwritten PROVE FALSE
    OBVIOUS
  <2>1. PICK i \in 1 .. Len(Program(req[k])) : i < pc[k] /\ Writes(Program(req[k])[i], r)
    BY DEF IInv, Held
  <2>2. i = 1
    BY <1>2, <2>1, Serving
  <2>3. QED
    BY <1>2, <2>1, <2>2
<1>6. Types'
  <2>1. \A j \in Worker :
          IF Idle(j)' THEN pc'[j] = 0 /\ \A r \in Row : pending'[j][r] = Unwritten
          ELSE pc'[j] \in 1 .. Len(Program(req'[j])) + 1
    <3>1. ~Idle(k)' /\ pc'[k] \in 1 .. Len(Program(req'[k])) + 1
      BY <1>2, <1>3, <1>4 DEF Idle
    <3>2. \A j \in Worker : j # k => (Idle(j)' <=> Idle(j)) /\ req'[j] = req[j]
      BY <1>4 DEF Idle
    <3>3. QED
      BY <1>2, <3>1, <3>2 DEF Types
  <2>2. QED
    BY <1>2, <1>4, <2>1 DEF Types
<1>7. Exclusive'
  BY <1>2 DEF IInv, Exclusive
<1>8. Held'
  BY <1>2, <1>4, <1>5 DEF IInv, Held
<1>9. Sure'
  BY <1>2, <1>4 DEF IInv, Sure, Idle
<1>10. QED
  BY <1>6, <1>7, <1>8, <1>9 DEF IInv

(* What a worker may change about a row it locks.                            *)
LEMMA Locked ==
  ASSUME IInv, NEW k \in Worker, Locks(k), NEW r \in Row, pending'[k][r] # pending[k][r]
  PROVE  /\ pending'[k][r] \in Value(r)
         /\ \E i \in 1 .. Len(Program(req[k])) : i = pc[k] /\ Writes(Program(req[k])[i], r)
         /\ IF req[k].op = "request" THEN r = InviteRow(req[k])
            ELSE Change(req[k], r, db[r], pending'[k][r])
<1>1. Types /\ Held /\ ~Idle(k) /\ pc[k] <= Len(Program(req[k]))
  BY DEF IInv, Locks
<1>2. Writes(stmt(k), r) /\ Change(req[k], r, Sees(k, r), pending'[k][r])
  BY DEF Locks
<1>3. Sees(k, r) \in Value(r) /\ req[k] \in Asks
  BY <1>1, Serving DEF Sees, Types
<1>4. pending'[k][r] \in Value(r)
  BY <1>2, <1>3, ChangeTyped
<1>5. pc[k] \in 1 .. Len(Program(req[k])) /\ Writes(Program(req[k])[pc[k]], r)
  BY <1>1, <1>2, Serving
<1>6. CASE req[k].op = "request"
  BY <1>2, <1>4, <1>5, <1>6 DEF Change
<1>7. CASE req[k].op # "request"
  <2>1. Sees(k, r) = db[r]
    BY <1>1, <1>2, <1>7, WrittenOnce DEF Sees
  <2>2. QED
    BY <1>2, <1>4, <1>5, <1>7, <2>1
<1>8. QED
  BY <1>6, <1>7

LEMMA LocksKeeps ==
  ASSUME IInv, NEW k \in Worker, Locks(k)
  PROVE  IInv'
<1>1. /\ Types /\ ~Idle(k) /\ UNCHANGED <<db, req>>
      /\ pc[k] <= Len(Program(req[k])) /\ pc' = [pc EXCEPT ![k] = pc[k] + 1]
      /\ pending' = [j \in Worker |-> [r \in Row |-> pending'[j][r]]]
      /\ \A j \in Worker \ {k}, r \in Row : pending'[j][r] = pending[j][r]
  BY DEF IInv, Locks
<1>2. /\ pc[k] \in Nat /\ Len(Program(req[k])) \in Nat
      /\ pc' \in [Worker -> Nat] /\ pc'[k] = pc[k] + 1 /\ \A j \in Worker : j # k => pc'[j] = pc[j]
  BY <1>1, Serving DEF Types
<1>3. Types'
  <2>1. \A j \in Worker, r \in Row : pending'[j][r] = Unwritten \/ pending'[j][r] \in Value(r)
    <3>1. \A r \in Row : pending'[k][r] = pending[k][r] \/ pending'[k][r] \in Value(r)
      BY Locked
    <3>2. QED
      BY <1>1, <3>1 DEF Types
  <2>2. \A j \in Worker :
          IF Idle(j)' THEN pc'[j] = 0 /\ \A r \in Row : pending'[j][r] = Unwritten
          ELSE pc'[j] \in 1 .. Len(Program(req'[j])) + 1
    <3>1. ~Idle(k)' /\ pc'[k] \in 1 .. Len(Program(req'[k])) + 1
      BY <1>1, <1>2 DEF Idle
    <3>2. \A j \in Worker : j # k =>
            (Idle(j)' <=> Idle(j)) /\ req'[j] = req[j] /\ pc'[j] = pc[j]
              /\ \A r \in Row : pending'[j][r] = pending[j][r]
      BY <1>1, <1>2 DEF Idle
    <3>3. \A j \in Worker :
            IF Idle(j) THEN pc[j] = 0 /\ \A r \in Row : pending[j][r] = Unwritten
            ELSE pc[j] \in 1 .. Len(Program(req[j])) + 1
      BY <1>1 DEF Types
    <3>4. QED
      BY <3>1, <3>2, <3>3
  <2>3. QED
    BY <1>1, <1>2, <2>1, <2>2 DEF Types
<1>4. Exclusive'
  <2> SUFFICES ASSUME NEW i \in Worker, NEW j \in Worker, i # j, NEW r \in Row
               PROVE  pending'[i][r] = Unwritten \/ pending'[j][r] = Unwritten
    BY DEF Exclusive
  <2>1. pending[i][r] = Unwritten \/ pending[j][r] = Unwritten
    BY DEF IInv, Exclusive
  <2>2. pending'[k][r] = pending[k][r] \/ \A l \in Worker \ {k} : pending[l][r] = Unwritten
    BY DEF Locks
  <2>3. QED
    BY <1>1, <2>1, <2>2
<1>5. Held'
  <2> SUFFICES ASSUME NEW j \in Worker, NEW r \in Row, pending'[j][r] # Unwritten
               PROVE  /\ \E i \in 1 .. Len(Program(req[j])) : i < pc'[j] /\ Writes(Program(req[j])[i], r)
                      /\ IF req[j].op = "request" THEN r = InviteRow(req[j])
                         ELSE Change(req[j], r, db[r], pending'[j][r])
    BY <1>1 DEF Held
  <2>1. CASE pending'[j][r] = pending[j][r]
    <3>1. pending[j][r] # Unwritten /\ Held
      BY <2>1 DEF IInv
    <3>2. PICK i \in 1 .. Len(Program(req[j])) : i < pc[j] /\ Writes(Program(req[j])[i], r)
      BY <3>1 DEF Held
    <3>3. i < pc'[j]
      BY <1>2, <3>2
    <3>4. IF req[j].op = "request" THEN r = InviteRow(req[j]) ELSE Change(req[j], r, db[r], pending'[j][r])
      BY <2>1, <3>1 DEF Held
    <3>5. QED
      BY <3>2, <3>3, <3>4
  <2>2. CASE pending'[j][r] # pending[j][r]
    <3>1. j = k
      BY <1>1, <2>2
    <3>2. PICK i \in 1 .. Len(Program(req[k])) : i = pc[k] /\ Writes(Program(req[k])[i], r)
      BY <2>2, <3>1, Locked
    <3>3. i < pc'[k]
      BY <1>2, <3>2
    <3>4. IF req[k].op = "request" THEN r = InviteRow(req[k]) ELSE Change(req[k], r, db[r], pending'[k][r])
      BY <2>2, <3>1, Locked
    <3>5. QED
      BY <3>1, <3>2, <3>3, <3>4
  <2>3. QED
    BY <2>1, <2>2
<1>6. Sure'
  <2> SUFFICES ASSUME NEW j \in Worker, ~Idle(j), pc'[j] >= 3
               PROVE  /\ req[j].op = "create" => pending'[j][Clan(req[j].tribe)] # Unwritten
                      /\ req[j].op = "accept" => pending'[j][InviteRow(req[j])] # Unwritten
    BY <1>1 DEF Sure, Idle, InviteRow
  <2>1. req[j] \in Asks /\ Clan(req[j].tribe) \in Row /\ InviteRow(req[j]) \in Row
    BY <1>1, Serving, AskFields, Tables DEF InviteRow
  <2>2. CASE pc[j] >= 3
    <3>1. /\ req[j].op = "create" => pending[j][Clan(req[j].tribe)] # Unwritten
          /\ req[j].op = "accept" => pending[j][InviteRow(req[j])] # Unwritten
      BY <2>2 DEF IInv, Sure
    <3>2. \A r \in Row : pending'[j][r] = pending[j][r] \/ pending'[j][r] # Unwritten
      <4>1. \A r \in Row : pending'[k][r] # pending[k][r] => pending'[k][r] \in Value(r)
        BY Locked
      <4>2. QED
        BY <1>1, <4>1, NotUnwritten
    <3>3. QED
      BY <2>1, <3>1, <3>2
  <2>3. CASE ~(pc[j] >= 3)
    <3>1. j = k /\ pc[k] = 2
      BY <1>1, <1>2, <2>3 DEF Types
    <3>2. stmt(k) = Program(req[k])[2]
      BY <1>1, <3>1, Serving
    <3>3. stmt(k).do \in {"insert", "update"} => pending'[k][stmt(k).row] # Unwritten
      BY DEF Locks
    <3>4. QED
      BY <2>1, <3>1, <3>2, <3>3, Musts
  <2>4. QED
    BY <2>2, <2>3
<1>7. QED
  BY <1>3, <1>4, <1>5, <1>6 DEF IInv
LEMMA EndsKeeps ==
  ASSUME IInv, NEW k \in Worker, Ends(k)
  PROVE  IInv'
<1>1. /\ Types /\ ~Idle(k) /\ UNCHANGED db
      /\ pending' = [pending EXCEPT ![k] = [r \in Row |-> Unwritten]]
      /\ req' = [req EXCEPT ![k] = NoRequest] /\ pc' = [pc EXCEPT ![k] = 0]
  BY DEF IInv, Ends, Finish
<1>2. /\ req' \in [Worker -> Asks \cup {NoRequest}] /\ pc' \in [Worker -> Nat]
      /\ pending' = [j \in Worker |-> [r \in Row |-> pending'[j][r]]]
      /\ req'[k] = NoRequest /\ pc'[k] = 0 /\ \A r \in Row : pending'[k][r] = Unwritten
      /\ \A j \in Worker \ {k} :
           /\ req'[j] = req[j] /\ pc'[j] = pc[j]
           /\ \A r \in Row : pending'[j][r] = pending[j][r]
  BY <1>1 DEF Types
<1>3. Types'
  BY <1>1, <1>2 DEF Types, Idle
<1>4. Exclusive' /\ Held'
  BY <1>1, <1>2 DEF IInv, Exclusive, Held
<1>5. Sure'
  <2> SUFFICES ASSUME NEW j \in Worker \ {k}, ~Idle(j), pc[j] >= 3
               PROVE  /\ req[j].op = "create" => pending'[j][Clan(req[j].tribe)] # Unwritten
                      /\ req[j].op = "accept" => pending'[j][InviteRow(req[j])] # Unwritten
    BY <1>2 DEF Sure, Idle, InviteRow
  <2>1. req[j] \in Asks /\ Clan(req[j].tribe) \in Row /\ InviteRow(req[j]) \in Row
    BY <1>1, Serving, AskFields, Tables DEF InviteRow
  <2>2. QED
    BY <1>2, <2>1 DEF IInv, Sure
<1>6. QED
  BY <1>3, <1>4, <1>5 DEF IInv

(* What a commit makes of the rows: each is as it was or as the transaction  *)
(* wrote it, and whoever holds a row sees it as before.                      *)
LEMMA Committing ==
  ASSUME IInv, NEW k \in Worker, Commit(k)
  PROVE  /\ ~Idle(k) /\ pc[k] = Len(Program(req[k])) + 1 /\ req[k] \in Asks
         /\ db' = [r \in Row |-> db'[r]]
         /\ \A r \in Row : /\ pending[k][r] = Unwritten => db'[r] = db[r]
                           /\ pending[k][r] # Unwritten => db'[r] = pending[k][r]
                           /\ \A j \in Worker \ {k} : pending[j][r] # Unwritten => db'[r] = db[r]
<1>1. Types /\ Exclusive /\ stmt(k).do = "commit" /\ db' = [r \in Row |-> Sees(k, r)]
  BY DEF IInv, Commit, At
<1>2. ~Idle(k)
  BY <1>1 DEF stmt
<1>3. pc[k] = Len(Program(req[k])) + 1
  BY <1>1, <1>2, Serving DEF Does
<1>4. \A r \in Row : db'[r] = Sees(k, r)
  BY <1>1
<1>5. QED
  BY <1>1, <1>2, <1>3, <1>4, Serving DEF Exclusive, Sees

LEMMA CommitKeeps ==
  ASSUME IInv, NEW k \in Worker, Commit(k)
  PROVE  IInv'
<1>1. /\ Types /\ ~Idle(k)
      /\ pending' = [pending EXCEPT ![k] = [r \in Row |-> Unwritten]]
      /\ req' = [req EXCEPT ![k] = NoRequest] /\ pc' = [pc EXCEPT ![k] = 0]
  BY Committing DEF IInv, Commit, Finish
<1>2. /\ req' \in [Worker -> Asks \cup {NoRequest}] /\ pc' \in [Worker -> Nat]
      /\ pending' = [j \in Worker |-> [r \in Row |-> pending'[j][r]]]
      /\ req'[k] = NoRequest /\ pc'[k] = 0 /\ \A r \in Row : pending'[k][r] = Unwritten
      /\ \A j \in Worker \ {k} :
           /\ req'[j] = req[j] /\ pc'[j] = pc[j]
           /\ \A r \in Row : pending'[j][r] = pending[j][r]
  BY <1>1 DEF Types
<1>3. Types'
  <2>1. db' = [r \in Row |-> db'[r]] /\ \A r \in Row : db'[r] \in Value(r)
    <3>1. ASSUME NEW r \in Row PROVE db'[r] \in {db[r], pending[k][r]} /\ (pending[k][r] = Unwritten => db'[r] = db[r])
      BY Committing
    <3>2. \A r \in Row : db'[r] \in Value(r)
      BY <1>1, <3>1 DEF Types
    <3>3. db' = [r \in Row |-> db'[r]]
      BY Committing
    <3>4. QED
      BY <3>2, <3>3
  <2>2. QED
    BY <1>1, <1>2, <2>1 DEF Types, Idle
<1>4. Exclusive'
  BY <1>1, <1>2 DEF IInv, Exclusive
<1>5. Held'
  <2> SUFFICES ASSUME NEW j \in Worker, NEW r \in Row, pending'[j][r] # Unwritten
               PROVE  /\ \E i \in 1 .. Len(Program(req'[j])) : i < pc'[j] /\ Writes(Program(req'[j])[i], r)
                      /\ IF req'[j].op = "request" THEN r = InviteRow(req'[j])
                         ELSE Change(req'[j], r, db'[r], pending'[j][r])
    BY DEF Held
  <2>1. j \in Worker \ {k} /\ pending[j][r] # Unwritten
    BY <1>2
  <2>2. db'[r] = db[r]
    BY <2>1, Committing
  <2>3. /\ \E i \in 1 .. Len(Program(req[j])) : i < pc[j] /\ Writes(Program(req[j])[i], r)
        /\ IF req[j].op = "request" THEN r = InviteRow(req[j])
           ELSE Change(req[j], r, db[r], pending[j][r])
    BY <2>1 DEF IInv, Held
  <2>4. req'[j] = req[j] /\ pc'[j] = pc[j] /\ pending'[j][r] = pending[j][r]
    BY <1>2, <2>1
  <2>5. QED
    BY <2>2, <2>3, <2>4
<1>6. Sure'
  <2> SUFFICES ASSUME NEW j \in Worker \ {k}, ~Idle(j), pc[j] >= 3
               PROVE  /\ req[j].op = "create" => pending'[j][Clan(req[j].tribe)] # Unwritten
                      /\ req[j].op = "accept" => pending'[j][InviteRow(req[j])] # Unwritten
    BY <1>2 DEF Sure, Idle, InviteRow
  <2>1. req[j] \in Asks /\ Clan(req[j].tribe) \in Row /\ InviteRow(req[j]) \in Row
    BY <1>1, Serving, AskFields, Tables DEF InviteRow
  <2>2. QED
    BY <1>2, <2>1 DEF IInv, Sure
<1>7. QED
  BY <1>3, <1>4, <1>5, <1>6 DEF IInv

LEMMA BeginAsks ==
  ASSUME Types, NEW k \in Worker, Begin(k)
  PROVE  \E q \in Asks : req' = [req EXCEPT ![k] = q] /\ q.op \in Ops
BY OpsAssumption DEF Begin, Request, Sensible, Asks

LEMMA BeginKeeps ==
  ASSUME IInv, NEW k \in Worker, Begin(k)
  PROVE  IInv'
<1>1. PICK q \in Asks : req' = [req EXCEPT ![k] = q]
  BY BeginAsks DEF IInv
<1>2. Types /\ Idle(k) /\ pc' = [pc EXCEPT ![k] = 1] /\ UNCHANGED <<db, pending>>
  BY DEF IInv, Begin
<1>3. q # NoRequest /\ Len(Program(q)) \in Nat /\ Len(Program(q)) >= 1
  BY <1>1, AskFields, Programs DEF Proceeds
<1>4. /\ req' \in [Worker -> Asks \cup {NoRequest}] /\ pc' \in [Worker -> Nat]
      /\ req'[k] = q /\ pc'[k] = 1 /\ \A j \in Worker \ {k} : req'[j] = req[j] /\ pc'[j] = pc[j]
  BY <1>1, <1>2 DEF Types
<1>5. \A r \in Row : pending[k][r] = Unwritten
  BY <1>2 DEF Types
<1>6. Types'
  <2>1. ~Idle(k)' /\ pc'[k] \in 1 .. Len(Program(req'[k])) + 1
    BY <1>3, <1>4 DEF Idle
  <2>2. \A j \in Worker : j # k => (Idle(j)' <=> Idle(j)) /\ req'[j] = req[j] /\ pc'[j] = pc[j]
    BY <1>4 DEF Idle
  <2>3. \A j \in Worker :
          IF Idle(j) THEN pc[j] = 0 /\ \A r \in Row : pending[j][r] = Unwritten
          ELSE pc[j] \in 1 .. Len(Program(req[j])) + 1
    BY <1>2 DEF Types
  <2>4. \A j \in Worker :
          IF Idle(j)' THEN pc'[j] = 0 /\ \A r \in Row : pending'[j][r] = Unwritten
          ELSE pc'[j] \in 1 .. Len(Program(req'[j])) + 1
    BY <1>2, <2>1, <2>2, <2>3
  <2>5. QED
    BY <1>2, <1>4, <2>4 DEF Types
<1>7. Exclusive' /\ Held' /\ Sure'
  BY <1>2, <1>4, <1>5 DEF IInv, Exclusive, Held, Sure, Idle
<1>8. QED
  BY <1>6, <1>7 DEF IInv

(* Seven days pass over an invitation, which stays one.                      *)
LEMMA WindowChange ==
  ASSUME Types, WindowPasses
  PROVE  \E c \in Tribe, w \in Warrior :
           /\ Invited(c, w) \in Row /\ db[Invited(c, w)] \in InviteValue
           /\ db' = [r \in Row |-> db'[r]] /\ db'[Invited(c, w)] \in InviteValue
           /\ \A r \in Row : r # Invited(c, w) => db'[r] = db[r]
<1>1. PICK c \in Tribe, w \in Warrior :
        db[Invited(c, w)].recent /\ db' = [db EXCEPT ![Invited(c, w)].recent = FALSE]
  BY DEF WindowPasses
<1> DEFINE r == Invited(c, w)
<1>2. r \in Row /\ Value(r) = InviteValue \cup {NoInvite}
  BY Tables, Values
<1>3. db[r] \in InviteValue
  <2>1. db[r] \in InviteValue \cup {NoInvite}
    BY <1>2 DEF Types
  <2>2. db[r] # NoInvite
    BY <1>1 DEF NoInvite
  <2>3. QED
    BY <2>1, <2>2
<1>4. [db[r] EXCEPT !.recent = FALSE] \in InviteValue
  BY <1>3 DEF InviteValue
<1>5. db' = [db EXCEPT ![r] = [db[r] EXCEPT !.recent = FALSE]]
  BY <1>1, <1>2 DEF Types
<1> HIDE DEF r
<1>6. /\ db' = [n \in Row |-> db'[n]] /\ db'[r] = [db[r] EXCEPT !.recent = FALSE]
      /\ \A n \in Row : n # r => db'[n] = db[n]
  BY <1>2, <1>5 DEF Types
<1>7. QED
  BY <1>2, <1>3, <1>4, <1>6 DEF r

LEMMA WindowKeeps ==
  ASSUME IInv, WindowPasses
  PROVE  IInv'
<1>1. Types /\ UNCHANGED <<pending, req, pc>>
  BY DEF IInv, WindowPasses
<1>2. PICK c \in Tribe, w \in Warrior :
        /\ Invited(c, w) \in Row /\ db[Invited(c, w)] \in InviteValue
        /\ db' = [r \in Row |-> db'[r]] /\ db'[Invited(c, w)] \in InviteValue
        /\ \A r \in Row : r # Invited(c, w) => db'[r] = db[r]
  BY <1>1, WindowChange
<1>3. Types'
  <2>1. db'[Invited(c, w)] \in Value(Invited(c, w))
    BY <1>2, Values
  <2>2. \A r \in Row : db'[r] \in Value(r)
    BY <1>1, <1>2, <2>1 DEF Types
  <2>3. QED
    BY <1>1, <1>2, <2>2 DEF Types, Idle
<1>4. Held'
  <2> SUFFICES ASSUME NEW k \in Worker, NEW r \in Row, pending[k][r] # Unwritten, req[k].op # "request"
               PROVE  Change(req[k], r, db'[r], pending[k][r])
    BY <1>1 DEF IInv, Held
  <2>1. Change(req[k], r, db[r], pending[k][r])
    BY DEF IInv, Held
  <2>2. CASE r # Invited(c, w)
    BY <1>2, <2>1, <2>2
  <2>3. CASE r = Invited(c, w)
    <3>1. db[r] # NoInvite
      BY <1>2, <2>3 DEF InviteValue, NoInvite
    <3>2. pending[k][r] = NoInvite /\ r = InviteRow(req[k])
          /\ req[k].op \in {"request", "accept", "reject", "cancel", "admit", "decline"}
      BY <2>1, <2>3, <3>1 DEF Change, Clan, Member, OwnRow, InviteRow, Invited, Vote, Account
    <3>3. QED
      BY <1>2, <2>3, <3>2 DEF Change
  <2>4. QED
    BY <2>2, <2>3
<1>5. Exclusive' /\ Sure'
  BY <1>1 DEF IInv, Exclusive, Sure, Idle
<1>6. QED
  BY <1>3, <1>4, <1>5 DEF IInv

(* Every step is one of these.                                               *)
LEMMA Steps ==
  ASSUME Types, Next
  PROVE  \/ \E k \in Worker : Begin(k) \/ Goes(k) \/ Turns(k) \/ Locks(k) \/ Ends(k) \/ Commit(k)
         \/ WindowPasses
<1>1. ASSUME NEW k \in Worker, Fault(k) PROVE Ends(k)
  BY <1>1, RollingBack DEF Fault
<1>2. QED
  BY <1>1, Effects DEF Next

LEMMA StepOK == IInv /\ [Next]_vars => IInv'
<1> SUFFICES ASSUME IInv, [Next]_vars PROVE IInv'
  OBVIOUS
<1>1. CASE UNCHANGED vars
  BY <1>1 DEF vars, IInv, Types, Exclusive, Held, Sure, Idle
<1>2. CASE Next
  <2>1. Types
    BY DEF IInv
  <2>2. CASE WindowPasses
    BY <2>2, WindowKeeps
  <2>3. ASSUME NEW k \in Worker, Begin(k) \/ Goes(k) \/ Turns(k) \/ Locks(k) \/ Ends(k) \/ Commit(k)
        PROVE  IInv'
    BY <2>3, BeginKeeps, GoesKeeps, TurnsKeeps, LocksKeeps, EndsKeeps, CommitKeeps
  <2>4. QED
    BY <1>2, <2>1, <2>2, <2>3, Steps
<1>3. QED
  BY <1>1, <1>2

LEMMA IInvAlways == Spec => []IInv
<1>1. QED
  BY InitOK, StepOK, PTL DEF Spec
-----------------------------------------------------------------------------
(* The rows keep their types, a transaction is at one of its statements, and *)
(* a worker between requests holds no lock and no uncommitted write, for any *)
(* number of workers, warriors and tribes (store.go:75, tx).                 *)
THEOREM TypeCorrect == Spec => []TypeOK
<1>1. IInv => TypeOK
  <2> SUFFICES ASSUME IInv PROVE TypeOK
    OBVIOUS
  <2>1. Types
    BY DEF IInv
  <2>2. ASSUME NEW c \in Tribe
        PROVE  /\ db[Clan(c)] \in ClanValue
               /\ \A w \in Warrior : /\ db[Member(c, w)] \in Rank \cup {NotMember}
                                     /\ db[Invited(c, w)] \in InviteValue \cup {NoInvite}
                                     /\ db[Vote(c, w)] \in BOOLEAN
    <3>1. \A r \in Row : db[r] \in Value(r)
      BY <2>1 DEF Types
    <3>2. db[Clan(c)] \in ClanValue
      BY <3>1, Tables, Values
    <3>3. ASSUME NEW w \in Warrior
          PROVE  /\ db[Member(c, w)] \in Value(Member(c, w))
                 /\ db[Invited(c, w)] \in Value(Invited(c, w))
                 /\ db[Vote(c, w)] \in Value(Vote(c, w))
      BY <3>1, Tables
    <3>4. QED
      BY <3>2, <3>3, Values
  <2>3. \A w \in Warrior : db[Account(w)] \in Tribe \cup {NoTribe}
    BY <2>1, Tables, Values DEF Types
  <2>4. \A k \in Worker : /\ Idle(k) => pc[k] = 0 /\ \A r \in Row : pending[k][r] = Unwritten
                          /\ ~Idle(k) => pc[k] \in 1 .. Len(Program(req[k])) + 1
    BY <2>1 DEF Types
  <2>5. QED
    BY <2>2, <2>3, <2>4 DEF TypeOK
<1>2. QED
  BY <1>1, IInvAlways, PTL

(* What a held row may have become: the tables a request may touch.          *)
LEMMA HeldChange ==
  ASSUME IInv, NEW k \in Worker, NEW r \in Row, pending[k][r] # Unwritten
  PROVE  /\ ~Idle(k) /\ req[k] \in Asks
         /\ IF req[k].op = "request" THEN r = InviteRow(req[k])
            ELSE Change(req[k], r, db[r], pending[k][r])
BY Serving DEF IInv, Held, Types

-----------------------------------------------------------------------------
(* The statements wait for one another in one order, but for an acceptance   *)
(* and an admission over one invitation.                                     *)
LEMMA Crossing ==
  ASSUME NEW q \in Asks, NEW p \in Asks, NEW r \in Row, NEW n \in Row, r # n,
         Precedes(q, r, n), Precedes(p, n, r)
  PROVE  {q.op, p.op} = {"accept", "admit"} /\ InviteRow(q) = InviteRow(p)
<1>1. Level(r) \in Nat /\ Level(n) \in Nat
  BY Tables, Levels
<1>2. \A o : Level(InviteRow(o)) = 3 /\ Level(OwnRow(o)) = 3
  BY Levels DEF InviteRow, OwnRow
<1>3. \A o, m : InviteRow(o) # OwnRow(m)
  BY DEF InviteRow, OwnRow, Invited, Member
<1>4. Level(r) = Level(n)
  BY <1>1, <1>2 DEF Precedes
<1>5. /\ \/ q.op = "accept" /\ r = InviteRow(q) /\ n = OwnRow(q)
         \/ q.op = "admit" /\ r = OwnRow(q) /\ n = InviteRow(q)
      /\ \/ p.op = "accept" /\ n = InviteRow(p) /\ r = OwnRow(p)
         \/ p.op = "admit" /\ n = OwnRow(p) /\ r = InviteRow(p)
  BY <1>1, <1>4 DEF Precedes
<1>6. QED
  BY <1>3, <1>5

LEMMA Waiting ==
  ASSUME IInv, NEW j \in Worker, NEW k \in Worker, Blocks(j, k)
  PROVE  \E r \in Row : /\ pending[j][r] # Unwritten /\ ~Idle(k)
                        /\ \E i \in 1 .. Len(Program(req[k])) : i = pc[k] /\ Writes(Program(req[k])[i], r)
<1>1. PICK r \in Wants(k) : pending[j][r] # Unwritten
  BY DEF Blocks
<1>2. /\ stmt(k).do \in {"insert", "update", "clearTags"} /\ Writes(stmt(k), r)
  BY DEF Wants, Writes, WornRows
<1>3. PICK d \in {"insert", "update", "clearTags"} : At(k, d)
  BY <1>2 DEF At
<1>4. /\ ~Idle(k) /\ pc[k] \in 1 .. Len(Program(req[k])) /\ stmt(k) = Program(req[k])[pc[k]]
      /\ Does(req[k], stmt(k), pc[k])
  BY <1>3, Doing DEF IInv
<1>5. r \in Row
  BY <1>2, <1>4, Tables DEF Does, Writes
<1>6. QED
  BY <1>1, <1>2, <1>4, <1>5

(* The methods lock their rows in orders that agree, but for a warrior       *)
(* accepting and an admin admitting the same warrior to the same tribe       *)
(* (clan.go:259-269 against won.go:735-744): no other two requests wait for  *)
(* each other, however many are served at once.                              *)
THEOREM OrderedLocks == Spec => []DeadlockOnlyOverOneInvitation
<1>1. IInv => DeadlockOnlyOverOneInvitation
  <2> SUFFICES ASSUME IInv, NEW j \in Worker, NEW k \in Worker, j # k, Blocks(j, k), Blocks(k, j)
               PROVE  /\ {req[j].op, req[k].op} = {"accept", "admit"}
                      /\ req[j].tribe = req[k].tribe
                      /\ req[j].target = req[k].target
    BY DEF DeadlockOnlyOverOneInvitation
  <2>1. PICK r \in Row : /\ pending[j][r] # Unwritten /\ ~Idle(k)
                         /\ \E i \in 1 .. Len(Program(req[k])) : i = pc[k] /\ Writes(Program(req[k])[i], r)
    BY Waiting
  <2>2. PICK n \in Row : /\ pending[k][n] # Unwritten /\ ~Idle(j)
                         /\ \E i \in 1 .. Len(Program(req[j])) : i = pc[j] /\ Writes(Program(req[j])[i], n)
    BY Waiting
  <2>3. r # n
    BY <2>1, <2>2 DEF IInv, Exclusive
  <2>4. Precedes(req[j], r, n)
    <3>1. PICK i \in 1 .. Len(Program(req[j])) : i < pc[j] /\ Writes(Program(req[j])[i], r)
      BY <2>1 DEF IInv, Held
    <3>2. Proceeds(req[j], Program(req[j]))
      BY <2>2, Serving DEF IInv
    <3>3. QED
      BY <2>2, <3>1, <3>2 DEF Proceeds
  <2>5. Precedes(req[k], n, r)
    <3>1. PICK i \in 1 .. Len(Program(req[k])) : i < pc[k] /\ Writes(Program(req[k])[i], n)
      BY <2>2 DEF IInv, Held
    <3>2. Proceeds(req[k], Program(req[k]))
      BY <2>1, Serving DEF IInv
    <3>3. QED
      BY <2>1, <3>1, <3>2 DEF Proceeds
  <2>6. req[j] \in Asks /\ req[k] \in Asks
    BY <2>1, <2>2, Serving DEF IInv
  <2>7. {req[j].op, req[k].op} = {"accept", "admit"} /\ InviteRow(req[j]) = InviteRow(req[k])
    BY <2>3, <2>4, <2>5, <2>6, Crossing
  <2>8. QED
    BY <2>7, Keys DEF InviteRow
<1>2. QED
  BY <1>1, IInvAlways, PTL
-----------------------------------------------------------------------------
(* Only a commit and the passing of time change a committed row.             *)
LEMMA DbChanges ==
  ASSUME IInv, [Next]_vars
  PROVE  UNCHANGED db \/ WindowPasses \/ \E k \in Worker : Commit(k)
<1>1. CASE UNCHANGED vars
  BY <1>1 DEF vars
<1>2. CASE Next
  <2>1. \/ \E k \in Worker : Begin(k) \/ Goes(k) \/ Turns(k) \/ Locks(k) \/ Ends(k) \/ Commit(k)
        \/ WindowPasses
    BY <1>2, Steps DEF IInv
  <2>2. QED
    BY <2>1 DEF Begin, Goes, Turns, Locks, Ends
<1>3. QED
  BY <1>1, <1>2

LEMMA WindowKeepsRest ==
  ASSUME IInv, WindowPasses
  PROVE  \A r \in Row : r[1] # "clan_invites" => db'[r] = db[r]
<1>1. PICK c \in Tribe, w \in Warrior : \A r \in Row : r # Invited(c, w) => db'[r] = db[r]
  BY WindowChange DEF IInv
<1>2. QED
  BY <1>1, Table

(* What becomes of a tribe's row and of a member's, when the row changes.    *)
LEMMA ClanStep ==
  ASSUME IInv, [Next]_vars, NEW c \in Tribe, db[Clan(c)] \in FoundedClan
  PROVE  /\ db'[Clan(c)] \in FoundedClan
         /\ db[Clan(c)].status = "disbanded" => db'[Clan(c)].status = "disbanded"
<1>1. Clan(c) \in Row
  BY Tables
<1>2. CASE db'[Clan(c)] = db[Clan(c)]
  BY <1>2
<1>3. CASE db'[Clan(c)] # db[Clan(c)]
  <2>1. PICK k \in Worker : Commit(k)
    BY <1>1, <1>3, DbChanges, WindowKeepsRest, Table
  <2>2. pending[k][Clan(c)] # Unwritten /\ db'[Clan(c)] = pending[k][Clan(c)]
    BY <1>1, <1>3, <2>1, Committing
  <2>3. /\ req[k] \in Asks
        /\ IF req[k].op = "request" THEN Clan(c) = InviteRow(req[k])
           ELSE Change(req[k], Clan(c), db[Clan(c)], db'[Clan(c)])
    BY <1>1, <2>2, HeldChange
  <2>4. db[Clan(c)] # NoClan /\ db[Clan(c)] \in ClanValue
    BY DEF FoundedClan, NoClan
  <2>5. \/ db'[Clan(c)] = [db[Clan(c)] EXCEPT !.recruiting = req[k].flag]
        \/ db'[Clan(c)] = [db[Clan(c)] EXCEPT !.status = "disbanded"]
    BY <2>3, <2>4 DEF Change, Clan, Member, OwnRow, InviteRow, Invited, Vote, Account
  <2>6. req[k].flag \in BOOLEAN
    BY <2>3 DEF Asks
  <2>7. QED
    BY <2>4, <2>5, <2>6 DEF FoundedClan, ClanValue
<1>4. QED
  BY <1>2, <1>3

LEMMA NewLeader ==
  ASSUME IInv, [Next]_vars, NEW c \in Tribe, NEW w \in Warrior,
         db[Member(c, w)] # RankLeader, db'[Member(c, w)] = RankLeader
  PROVE  \E k \in Worker :
           /\ Commit(k) /\ req[k].tribe = c
           /\ \/ req[k].op = "setRank" /\ db[Member(c, w)] # NotMember
              \/ req[k].op = "create" /\ w = req[k].by /\ db[Clan(c)] = NoClan
<1>1. Member(c, w) \in Row /\ Clan(c) \in Row
  BY Tables
<1>2. PICK k \in Worker : Commit(k)
  BY <1>1, DbChanges, WindowKeepsRest, Table
<1>3. pending[k][Member(c, w)] # Unwritten /\ pending[k][Member(c, w)] = RankLeader
  BY <1>1, <1>2, Committing
<1>4. /\ req[k] \in Asks /\ ~Idle(k)
      /\ IF req[k].op = "request" THEN Member(c, w) = InviteRow(req[k])
         ELSE Change(req[k], Member(c, w), db[Member(c, w)], RankLeader)
  BY <1>1, <1>3, HeldChange
<1>5. RankLeader # NotMember /\ RankLeader # RankRecruit /\ NotMember \notin Rank
  BY DEF RankLeader, NotMember, RankRecruit, Rank
<1>6. \/ req[k].op = "setRank" /\ Member(c, w) = OwnRow(req[k]) /\ db[Member(c, w)] \in Rank
      \/ req[k].op = "create" /\ Member(c, w) = Member(req[k].tribe, req[k].by)
  BY <1>4, <1>5 DEF Change, Clan, Member, OwnRow, InviteRow, Invited, Vote, Account
<1>7. req[k].tribe = c /\ (req[k].op = "create" => w = req[k].by)
  BY <1>6, Keys DEF OwnRow
<1>8. CASE req[k].op = "create"
  <2>1. pc[k] >= 3
    BY <1>2, <1>4, <1>8, Committing DEF Program, CreateClan
  <2>2. pending[k][Clan(c)] # Unwritten
    BY <1>4, <1>7, <1>8, <2>1 DEF IInv, Sure
  <2>3. Change(req[k], Clan(c), db[Clan(c)], pending[k][Clan(c)])
    BY <1>1, <1>8, <2>2, HeldChange
  <2>4. db[Clan(c)] = NoClan
    BY <1>8, <2>3 DEF Change, Clan, Member, OwnRow, InviteRow, Invited, Vote, Account
  <2>5. QED
    BY <1>2, <1>7, <1>8, <2>4
<1>9. QED
  BY <1>2, <1>5, <1>6, <1>7, <1>8

(* A founded name stays taken, and a disbanded tribe disbanded.              *)
LEMMA NameStaysTaken ==
  Spec => [][\A c \in Tribe : db[Clan(c)] \in FoundedClan =>
               /\ db'[Clan(c)] \in FoundedClan
               /\ db[Clan(c)].status = "disbanded" => db'[Clan(c)].status = "disbanded"]_vars
<1>1. IInv /\ [Next]_vars =>
        [\A c \in Tribe : db[Clan(c)] \in FoundedClan =>
           /\ db'[Clan(c)] \in FoundedClan
           /\ db[Clan(c)].status = "disbanded" => db'[Clan(c)].status = "disbanded"]_vars
  BY ClanStep
<1>2. QED
  BY <1>1, IInvAlways, PTL DEF Spec

(* A warrior comes into a tribe as its leader only by founding it.           *)
LEMMA Founders ==
  ASSUME IInv, [Next]_vars, NEW c \in Tribe
  PROVE  Cardinality({w \in Warrior : db[Member(c, w)] = NotMember
                                         /\ db'[Member(c, w)] = RankLeader})
           <= IF db[Clan(c)] = NoClan THEN 1 ELSE 0
<1> DEFINE new == {w \in Warrior : db[Member(c, w)] = NotMember /\ db'[Member(c, w)] = RankLeader}
<1>1. NotMember # RankLeader
  BY DEF NotMember, RankLeader
<1>2. CASE new = {}
  BY <1>2, FS_EmptySet
<1>3. CASE new # {}
  <2>1. PICK v \in new : TRUE
    BY <1>3
  <2>2. PICK k \in Worker : Commit(k) /\ req[k].op = "create" /\ v = req[k].by /\ db[Clan(c)] = NoClan
    BY <1>1, <2>1, NewLeader
  <2>3. ASSUME NEW w \in new PROVE w = v
    <3>1. PICK j \in Worker :
            /\ Commit(j) /\ req[j].tribe = c
            /\ \/ req[j].op = "setRank" /\ db[Member(c, w)] # NotMember
               \/ req[j].op = "create" /\ w = req[j].by /\ db[Clan(c)] = NoClan
      BY <1>1, <2>3, NewLeader
    <3>2. Commit(j) /\ req[j].op = "create" /\ w = req[j].by
      BY <3>1
    <3>3. j = k
      <4>1. req' = [req EXCEPT ![j] = NoRequest] /\ req' = [req EXCEPT ![k] = NoRequest]
        BY <2>2, <3>2 DEF Commit, Finish
      <4>2. ~Idle(j) /\ Types
        BY <3>2, Committing DEF IInv
      <4>3. QED
        BY <4>1, <4>2 DEF Types, Idle
    <3>4. QED
      BY <2>2, <3>2, <3>3
  <2>4. new = {v}
    BY <2>1, <2>3
  <2>5. Cardinality(new) = 1
    BY <2>4, FS_Singleton
  <2>6. QED
    BY <2>2, <2>5
<1>4. QED
  BY <1>2, <1>3

(* Of any number of players founding a tribe of one name at once, one does:  *)
(* the name then has one founder, and stays taken when it disbands           *)
(* (clan.go:108, and the index on LOWER(name)).                              *)
THEOREM NameFoundedOnce == Spec => OneFounder
<1>1. IInv /\ [Next]_vars =>
        [\A c \in Tribe :
           Cardinality({w \in Warrior : db[Member(c, w)] = NotMember
                                          /\ db'[Member(c, w)] = RankLeader})
             <= IF db[Clan(c)] = NoClan THEN 1 ELSE 0]_vars
  BY Founders
<1>2. Spec => [][\A c \in Tribe :
                   Cardinality({w \in Warrior : db[Member(c, w)] = NotMember
                                                  /\ db'[Member(c, w)] = RankLeader})
                     <= IF db[Clan(c)] = NoClan THEN 1 ELSE 0]_vars
  BY <1>1, IInvAlways, PTL DEF Spec
<1>3. QED
  BY <1>2, NameStaysTaken, PTL DEF OneFounder

-----------------------------------------------------------------------------
(* An acceptance joins on an invitation that stands until that very step,    *)
(* and takes it away: of two acceptances, or an acceptance and an admission, *)
(* or a rejection, over one row, only one has anything to go on (clan.go:259).*)
THEOREM AcceptedOnce == Spec => AcceptConsumesInvitation
<1>1. ASSUME IInv, [Next]_vars, NEW k \in Worker, ~Idle(k), req'[k] = NoRequest, req[k].op = "accept",
             db[Member(req[k].tribe, req[k].by)] = NotMember,
             db'[Member(req[k].tribe, req[k].by)] # NotMember
      PROVE  /\ db[Invited(req[k].tribe, req[k].by)] # NoInvite
             /\ db'[Invited(req[k].tribe, req[k].by)] = NoInvite
  <2>1. req[k] \in Asks /\ req[k].tribe \in Tribe /\ req[k].by \in Warrior /\ req[k].target = req[k].by
    BY <1>1, Serving, AskFields DEF IInv, OwnOps
  <2> DEFINE r == InviteRow(req[k])
  <2>2. r = Invited(req[k].tribe, req[k].by) /\ r \in Row /\ Member(req[k].tribe, req[k].by) \in Row
    BY <2>1, Tables DEF InviteRow
  <2>3. PICK j \in Worker : Commit(j)
    BY <1>1, <2>2, DbChanges, WindowKeepsRest, Table
  <2>4. j = k
    BY <1>1, <2>3 DEF Commit, Finish, Types, IInv, Idle
  <2>5. pc[k] >= 3
    BY <1>1, <2>3, <2>4, Committing DEF Program, AcceptInvite
  <2>6. pending[k][r] # Unwritten
    BY <1>1, <2>5 DEF IInv, Sure
  <2>7. Change(req[k], r, db[r], pending[k][r]) /\ db'[r] = pending[k][r]
    BY <1>1, <2>2, <2>3, <2>4, <2>6, HeldChange, Committing
  <2>8. db[r] \in InviteValue /\ db'[r] = NoInvite
    BY <1>1, <2>7 DEF Change, Clan, Member, OwnRow, InviteRow, Invited, Vote, Account
  <2>9. QED
    BY <2>2, <2>8 DEF InviteValue, NoInvite
<1>2. IInv /\ [Next]_vars =>
        [\A k \in Worker : ~Idle(k) /\ req'[k] = NoRequest /\ req[k].op = "accept" =>
           LET c == req[k].tribe w == req[k].by IN
             db[Member(c, w)] = NotMember /\ db'[Member(c, w)] # NotMember =>
               db[Invited(c, w)] # NoInvite /\ db'[Invited(c, w)] = NoInvite]_vars
  BY <1>1
<1>3. QED
  BY <1>2, IInvAlways, PTL DEF Spec, AcceptConsumesInvitation
-----------------------------------------------------------------------------
(* The disbanding, statement by statement.                                   *)
LEMMA DisbandStatements ==
  ASSUME NEW q \in Asks, q.op = "disband"
  PROVE  /\ Len(Program(q)) = 7
         /\ Program(q)[1] = Select(Clan(q.tribe), ActiveClan)
         /\ Program(q)[2].do = "require" /\ Program(q)[3].do = "insert"
         /\ Program(q)[3].row = Vote(q.tribe, q.by)
         /\ Program(q)[4].do = "countLeaders" /\ Program(q)[4].tribe = q.tribe
         /\ Program(q)[5].do = "countVotes" /\ Program(q)[5].tribe = q.tribe
         /\ Program(q)[6].do = "update" /\ Program(q)[7].do = "clearTags"
<1>1. Program(q) = Disband(q)
  BY DEF Program
<1>2. /\ Len(Disband(q)) = 7 /\ Disband(q)[1] = FindClan(q)
      /\ Disband(q)[2] = requireRank(q, rankToDisband)
      /\ Disband(q)[3] = Insert(Vote(q.tribe, q.by), TRUE, "skip")
      /\ Disband(q)[4] = CountLeaders(q.tribe) /\ Disband(q)[5] = CountVotes(q.tribe)
  BY DEF Disband
<1>3. /\ Disband(q)[6] = Update(Clan(q.tribe), [v \in FoundedClan |-> [v EXCEPT !.status = "disbanded"]], "skip")
      /\ Disband(q)[7] = ClearTags(q.tribe)
  BY DEF Disband
<1>4. Disband(q)[3].do = "insert" /\ Disband(q)[3].row = Vote(q.tribe, q.by)
  BY <1>2 DEF Insert
<1>5. Disband(q)[6].do = "update" /\ Disband(q)[7].do = "clearTags"
  BY <1>3 DEF Update, ClearTags
<1>6. Disband(q)[1] = Select(Clan(q.tribe), ActiveClan)
  BY <1>2 DEF FindClan
<1>7. Disband(q)[2].do = "require"
  BY <1>2 DEF requireRank, Require
<1>8. /\ Disband(q)[4].do = "countLeaders" /\ Disband(q)[4].tribe = q.tribe
      /\ Disband(q)[5].do = "countVotes" /\ Disband(q)[5].tribe = q.tribe
  BY <1>2 DEF CountLeaders, CountVotes
<1>9. Len(Disband(q)) = 7
  BY <1>2
<1>10. QED
  BY <1>1, <1>4, <1>5, <1>6, <1>7, <1>8, <1>9

LEMMA SeenStep ==
  ASSUME seen = [k \in Worker |-> seen[k]], NEW j \in Worker, Begin(j) \/ Step(j) \/ Fault(j)
  PROVE  /\ seen' = [k \in Worker |-> seen'[k]]
         /\ \A k \in Worker \ {j} : seen'[k] = seen[k]
<1>1. (\E n : seen' = [seen EXCEPT ![j] = n]) \/ UNCHANGED seen
  BY DEF Begin, Fault, Step, DoSelect, DoRequire, DoOutranked, DoCanInvite, DoSelectOld, DoInsert, DoUpdate,
         DoCountLeaders, DoCountVotes, DoClearTags, Commit, Rollback, Finish
<1>2. QED
  BY <1>1

(* A worker changes nothing of another.                                      *)
LEMMA Others ==
  ASSUME Types, NEW j \in Worker, NEW k \in Worker, j # k,
         Begin(j) \/ Goes(j) \/ Turns(j) \/ Locks(j) \/ Ends(j) \/ Commit(j)
  PROVE  req'[k] = req[k] /\ pc'[k] = pc[k] /\ \A r \in Row : pending'[k][r] = pending[k][r]
<1>1. CASE Begin(j)
  BY <1>1 DEF Begin, Types
<1>2. CASE Goes(j)
  BY <1>2 DEF Goes, Types
<1>3. CASE Turns(j)
  BY <1>3 DEF Turns, Types
<1>4. CASE Locks(j)
  BY <1>4 DEF Locks, Types
<1>5. CASE Ends(j) \/ Commit(j)
  BY <1>5 DEF Ends, Commit, Finish, Types
<1>6. QED
  BY <1>1, <1>2, <1>3, <1>4, <1>5

(* While a count is not overtaken the tribe gets no new leader and keeps its *)
(* votes, and a worker goes on seeing a vote it sees.                        *)
LEMMA VoteSteps == [VoteNext]_voteVars => [Next]_vars
BY DEF VoteNext, voteVars

LEMMA NotOvertaken ==
  ASSUME [VoteNext]_voteVars, NEW k \in Worker, Counting(k), Counting(k)', k \notin moved',
         NEW c, c = req[k].tribe, NEW w \in Warrior
  PROVE  /\ k \notin moved
         /\ db'[Member(c, w)] = RankLeader => db[Member(c, w)] = RankLeader
         /\ db[Vote(c, w)] => db'[Vote(c, w)]
<1>1. CASE UNCHANGED voteVars
  BY <1>1 DEF voteVars, vars
<1>2. CASE VoteNext
  BY <1>2 DEF VoteNext, Overtakes
<1>3. QED
  BY <1>1, <1>2

LEMMA LedShrinks ==
  ASSUME [VoteNext]_voteVars, NEW k \in Worker, Counting(k), Counting(k)', k \notin moved',
         NEW c, c = req[k].tribe
  PROVE  Led(c)' \subseteq Led(c) /\ IsFiniteSet(Led(c)) /\ Cardinality(Led(c)') <= Cardinality(Led(c))
<1>1. Led(c)' \subseteq Led(c)
  BY NotOvertaken DEF Led
<1>2. IsFiniteSet(Led(c))
  BY WarriorAssumption, FS_Subset DEF Led
<1>3. QED
  BY <1>1, <1>2, FS_Subset

LEMMA VotesStay ==
  ASSUME IInv, [VoteNext]_voteVars, NEW k \in Worker, Counting(k), Counting(k)', k \notin moved',
         NEW c \in Tribe, c = req[k].tribe, NEW w \in Warrior, Sees(k, Vote(c, w)) = TRUE,
         pending'[k][Vote(c, w)] = pending[k][Vote(c, w)] \/ pending'[k][Vote(c, w)] = TRUE
  PROVE  Sees(k, Vote(c, w))' = TRUE
<1> DEFINE r == Vote(c, w)
<1>1. r \in Row /\ Value(r) = BOOLEAN /\ TRUE # Unwritten
  BY Tables, Values, UnwrittenAssumption
<1>2. CASE pending'[k][r] # Unwritten
  BY <1>2 DEF Sees
<1>3. CASE pending'[k][r] = Unwritten
  <2>1. db[r] = TRUE
    BY <1>1, <1>3 DEF Sees
  <2>2. db'[r]
    BY <2>1, NotOvertaken
  <2>3. db'[r] \in BOOLEAN
    BY <1>1, VoteSteps, StepOK DEF IInv, Types
  <2>4. db'[r] = TRUE
    BY <2>2, <2>3
  <2>5. QED
    BY <1>3, <2>4 DEF Sees
<1>4. QED
  BY <1>2, <1>3

(* What the disbanding worker's own steps do to what Unanimous says of it.   *)
LEMMA DisbandMoves ==
  ASSUME IInv, NEW k \in Worker, Disbands(k), Step(k), Goes(k) \/ Locks(k)
  PROVE  /\ UNCHANGED <<db, req>> /\ req[k] \in Asks /\ pc[k] \in 1 .. 7 /\ pc'[k] \in Nat
         /\ pc'[k] = pc[k] + 1 \/ (pc[k] = 5 /\ pc'[k] = 8 /\ DoCountVotes(k))
         /\ stmt(k) = Program(req[k])[pc[k]]
<1>1. /\ Types /\ ~Idle(k) /\ UNCHANGED <<db, req>> /\ req[k] \in Asks /\ req[k].op = "disband"
  BY Serving DEF IInv, Disbands, Goes, Locks
<1>2. pc[k] \in Nat /\ pc[k] >= 1 /\ Len(Program(req[k])) = 7
  BY <1>1, Serving, DisbandStatements
<1>3. pc[k] <= 7
  BY <1>1, <1>2 DEF Goes, Locks
<1>4. stmt(k) = Program(req[k])[pc[k]] /\ pc[k] \in 1 .. 7
  BY <1>1, <1>2, <1>3, Serving
<1>5. CASE Locks(k)
  BY <1>1, <1>2, <1>4, <1>5 DEF Locks, Types
<1>6. CASE Goes(k)
  <2>1. PICK n \in Nat : /\ pc' = [pc EXCEPT ![k] = n]
                         /\ n = pc[k] + 1 \/ stmt(k).do \in {"selectOld", "countVotes"}
    BY <1>6 DEF Goes
  <2>2. pc'[k] = n
    BY <1>1, <2>1 DEF Types
  <2>3. CASE stmt(k).do \in {"selectOld", "countVotes"}
    <3>1. pc[k] = 5 /\ stmt(k).do = "countVotes"
      <4>1. Program(req[k])[1].do = "select"
        <5>1. Program(req[k])[1] = Select(Clan(req[k].tribe), ActiveClan)
          BY <1>1, DisbandStatements
        <5>2. QED
          BY <5>1 DEF Select
      <4>2. pc[k] \in {1, 2, 3, 4, 5, 6, 7}
        BY <1>4
      <4>3. QED
        BY <1>1, <1>4, <2>3, <4>1, <4>2, DisbandStatements
    <3>2. DoCountVotes(k)
      BY <1>1, <3>1 DEF Step, DoSelect, DoRequire, DoOutranked, DoCanInvite, DoSelectOld, DoInsert,
         DoUpdate,
           DoCountLeaders, DoClearTags, Commit, Rollback, Finish, At, Goes, Types, Idle
    <3>3. pc'[k] = pc[k] + 1 \/ pc'[k] = 8
      BY <1>1, <1>2, <3>2 DEF DoCountVotes, Advance, Skip, Types
    <3>4. QED
      BY <1>1, <1>4, <2>2, <3>1, <3>2, <3>3
  <2>4. QED
    BY <1>1, <1>4, <2>1, <2>2, <2>3
<1>7. QED
  BY <1>5, <1>6
(* It holds no member's row, and so sees the leaders there are.              *)
LEMMA SeesLed ==
  ASSUME IInv, NEW k \in Worker, Disbands(k)
  PROVE  LeadersSeen(k, req[k].tribe) = Led(req[k].tribe)
<1>1. req[k] \in Asks /\ req[k].tribe \in Tribe
  BY Serving, AskFields DEF IInv, Disbands
<1>2. ASSUME NEW w \in Warrior PROVE pending[k][Member(req[k].tribe, w)] = Unwritten
  <2> SUFFICES ASSUME pending[k][Member(req[k].tribe, w)] # Unwritten PROVE FALSE
    OBVIOUS
  <2>1. Member(req[k].tribe, w) \in Row
    BY <1>1, Tables
  <2>2. Change(req[k], Member(req[k].tribe, w), db[Member(req[k].tribe, w)], pending[k][Member(req[k].tribe, w)])
    BY <2>1, HeldChange DEF Disbands
  <2>3. QED
    BY <2>2 DEF Disbands, Change, Clan, Member, OwnRow, InviteRow, Invited, Vote, Account
<1>3. QED
  BY <1>2 DEF LeadersSeen, Led, Sees

LEMMA LedCounted ==
  ASSUME IInv, NEW c
  PROVE  IsFiniteSet(Led(c)) /\ Cardinality(Led(c)) \in Nat
BY WarriorAssumption, FS_Subset, FS_CardinalityType DEF Led

(* Its fourth counts the leaders.                                            *)
LEMMA DisbandCounts ==
  ASSUME IInv, Unanimous, NEW k \in Worker, Disbands(k), Step(k), Goes(k) \/ Locks(k), pc[k] = 4
  PROVE  seen'[k] = Cardinality(Led(req[k].tribe))
<1>1. /\ UNCHANGED <<db, req>> /\ req[k] \in Asks /\ stmt(k) = Program(req[k])[4] /\ Types /\ ~Idle(k)
      /\ seen = [j \in Worker |-> seen[j]]
  BY DisbandMoves DEF IInv, Disbands, Unanimous
<1>2. stmt(k).do = "countLeaders" /\ stmt(k).tribe = req[k].tribe
  BY <1>1, DisbandStatements DEF Disbands
<1>3. DoCountLeaders(k)
  BY <1>1, <1>2 DEF Step, DoSelect, DoRequire, DoOutranked, DoCanInvite, DoSelectOld, DoInsert,
     DoUpdate,
       DoCountVotes, DoClearTags, Commit, Rollback, Finish, At, Types, Idle
<1>4. seen' = [seen EXCEPT ![k] = Cardinality(LeadersSeen(k, req[k].tribe))]
  BY <1>2, <1>3 DEF DoCountLeaders
<1>5. QED
  BY <1>1, <1>4, SeesLed

(* And its fifth goes on to disband only with the votes of them all.         *)
LEMMA DisbandDecides ==
  ASSUME IInv, Unanimous, NEW k \in Worker, Disbands(k), Step(k), Goes(k) \/ Locks(k), pc[k] = 5, pc'[k] = 6,
         k \notin moved
  PROVE  \A w \in Led(req[k].tribe) : Sees(k, Vote(req[k].tribe, w)) = TRUE
<1> DEFINE c == req[k].tribe
           votes == {w \in LeadersSeen(k, c) : Sees(k, Vote(c, w))}
<1>1. /\ UNCHANGED <<db, req>> /\ req[k] \in Asks /\ stmt(k) = Program(req[k])[5] /\ Types /\ ~Idle(k)
  BY DisbandMoves DEF IInv, Disbands
<1>2. stmt(k).do = "countVotes" /\ stmt(k).tribe = c /\ Len(Program(req[k])) = 7
  BY <1>1, DisbandStatements DEF Disbands
<1>3. DoCountVotes(k)
  BY <1>1, <1>2 DEF Step, DoSelect, DoRequire, DoOutranked, DoCanInvite, DoSelectOld, DoInsert,
     DoUpdate,
       DoCountLeaders, DoClearTags, Commit, Rollback, Finish, At, Types, Idle
<1>4. Cardinality(votes) >= seen[k]
  BY <1>1, <1>2, <1>3 DEF DoCountVotes, Skip, Types
<1>5. votes \subseteq Led(c) /\ IsFiniteSet(Led(c)) /\ Cardinality(Led(c)) <= seen[k] /\ seen[k] \in Nat
  BY SeesLed, LedCounted DEF Unanimous, Deciding
<1>6. votes = Led(c)
  <2>1. IsFiniteSet(votes) /\ Cardinality(votes) \in Nat /\ Cardinality(Led(c)) \in Nat
    BY <1>5, FS_Subset, FS_CardinalityType
  <2>2. Cardinality(votes) = Cardinality(Led(c))
    <3>1. Cardinality(votes) <= Cardinality(Led(c))
      BY <1>5, FS_Subset
    <3>2. QED
      BY <1>4, <1>5, <2>1, <3>1
  <2>3. QED
    BY <1>5, <2>2, FS_Subset
<1>7. ASSUME NEW w \in Led(c) PROVE Sees(k, Vote(c, w)) = TRUE
  <2>1. Sees(k, Vote(c, w))
    BY <1>6
  <2>2. Sees(k, Vote(c, w)) \in BOOLEAN
    <3>1. Vote(c, w) \in Row /\ Value(Vote(c, w)) = BOOLEAN
      BY <1>1, AskFields, Tables, Values DEF Led
    <3>2. QED
      BY <1>1, <3>1 DEF Types, Sees
  <2> HIDE DEF c
  <2>3. QED
    BY <2>1, <2>2
<1>8. QED
  BY <1>7
LEMMA DecidedStays ==
  ASSUME IInv, Unanimous, [VoteNext]_voteVars, NEW k \in Worker, Disbands(k), Decided(k),
         Counting(k), Counting(k)', k \notin moved', NEW c, c = req[k].tribe,
         \A w \in Warrior : \/ pending'[k][Vote(c, w)] = pending[k][Vote(c, w)]
                            \/ pending'[k][Vote(c, w)] = TRUE
  PROVE  \A w \in Led(c)' : Sees(k, Vote(c, w))' = TRUE
<1>1. c \in Tribe
  BY Serving, AskFields DEF IInv, Disbands
<1>2. Led(c)' \subseteq Led(c)
  BY LedShrinks
<1>3. ASSUME NEW w \in Led(c) PROVE Sees(k, Vote(c, w))' = TRUE
  <2>1. w \in Warrior
    BY DEF Led
  <2>2. k \notin moved
    BY <2>1, NotOvertaken
  <2>3. Sees(k, Vote(c, w)) = TRUE
    BY <2>2 DEF Unanimous, Deciding
  <2>4. QED
    BY <1>1, <2>1, <2>3, VotesStay
<1>4. QED
  BY <1>2, <1>3

(* What is to be shown of a worker whose tribe is c.                         *)
LEMMA DecidingNext ==
  ASSUME NEW k \in Worker, NEW c, c = req[k].tribe, req'[k] = req[k],
         pc'[k] = 5 => seen'[k] \in Nat,
         pc'[k] = 5 /\ k \notin moved' => Cardinality(Led(c)') <= seen'[k],
         pc'[k] = 6 \/ pending'[k][Clan(c)] # Unwritten => pc'[k] > 5,
         (pc'[k] = 6 \/ pending'[k][Clan(c)] # Unwritten) /\ k \notin moved' =>
            \A w \in Led(c)' : Sees(k, Vote(c, w))' = TRUE
  PROVE  Deciding(k)'
<1>1. req'[k].tribe = c
  OBVIOUS
<1>2. Decided(k)' <=> pc'[k] = 6 \/ pending'[k][Clan(c)] # Unwritten
  BY DEF Decided
<1>3. QED
  BY <1>1, <1>2 DEF Deciding

(* A worker that does not move decides as it did.                            *)
LEMMA WaitingDecides ==
  ASSUME IInv, Unanimous, [VoteNext]_voteVars, NEW k \in Worker, Disbands(k), NEW c, c = req[k].tribe,
         req'[k] = req[k], pc'[k] = pc[k],
         seen'[k] = seen[k], \A r \in Row : pending'[k][r] = pending[k][r]
  PROVE  Deciding(k)'
<1>1. /\ Deciding(k) /\ c \in Tribe /\ Clan(c) \in Row
      /\ \A w \in Warrior : Vote(c, w) \in Row
  BY Serving, AskFields, Tables DEF IInv, Disbands, Unanimous
<1>2. pc[k] > 4 => Counting(k) /\ Counting(k)'
  BY DEF Disbands, Counting, Idle
<1>3. pc'[k] = 5 => seen'[k] \in Nat
  BY <1>1 DEF Deciding
<1>4. pc'[k] = 5 /\ k \notin moved' => Cardinality(Led(c)') <= seen'[k]
  <2> SUFFICES ASSUME pc[k] = 5, k \notin moved' PROVE Cardinality(Led(c)') <= seen[k]
    OBVIOUS
  <2>1. Cardinality(Led(c)') <= Cardinality(Led(c)) /\ Led(c)' \subseteq Led(c)
    BY <1>2, LedShrinks
  <2>2. k \notin moved
    <3>1. CASE UNCHANGED voteVars
      BY <3>1 DEF voteVars
    <3>2. CASE VoteNext
      BY <1>2, <3>2 DEF VoteNext
    <3>3. QED
      BY <3>1, <3>2
  <2>3. seen[k] \in Nat /\ Cardinality(Led(c)) <= seen[k]
    BY <1>1, <2>2 DEF Deciding
  <2>4. Cardinality(Led(c)) \in Nat /\ Cardinality(Led(c)') \in Nat
    BY <2>1, LedCounted, FS_Subset, FS_CardinalityType
  <2>5. QED
    BY <2>1, <2>3, <2>4
<1>5. pc'[k] = 6 \/ pending'[k][Clan(c)] # Unwritten => Decided(k)
  BY <1>1 DEF Decided
<1>6. Decided(k) => pc[k] > 5
  BY <1>1 DEF Deciding
<1>7. ASSUME Decided(k), k \notin moved' PROVE \A w \in Led(c)' : Sees(k, Vote(c, w))' = TRUE
  <2>1. Counting(k) /\ Counting(k)'
    BY <1>2, <1>6, <1>7, Serving DEF Disbands, IInv
  <2>2. QED
    BY <1>1, <1>7, <2>1, DecidedStays
<1>8. QED
  BY <1>3, <1>4, <1>5, <1>6, <1>7, DecidingNext

(* And one that does, statement by statement.                                *)
LEMMA MovingDecides ==
  ASSUME IInv, Unanimous, [VoteNext]_voteVars, NEW k \in Worker, Disbands(k), NEW c, c = req[k].tribe,
         Step(k), Goes(k) \/ Locks(k)
  PROVE  Deciding(k)'
<1>1. /\ Deciding(k) /\ UNCHANGED <<db, req>> /\ req[k] \in Asks /\ pc[k] \in 1 .. 7 /\ pc'[k] \in Nat
      /\ pc'[k] = pc[k] + 1 \/ (pc[k] = 5 /\ pc'[k] = 8)
      /\ stmt(k) = Program(req[k])[pc[k]]
  BY DisbandMoves DEF Unanimous
<1>2. /\ Clan(c) \in Row /\ \A w \in Warrior : Vote(c, w) \in Row
      /\ req[k].op = "disband"
  BY <1>1, AskFields, Tables DEF Disbands
<1>3. pc[k] > 4 => Counting(k) /\ Counting(k)'
  BY <1>1 DEF Disbands, Counting, Idle
<1>4. pc'[k] = 5 => seen'[k] \in Nat /\ Cardinality(Led(c)') <= seen'[k]
  <2> SUFFICES ASSUME pc'[k] = 5 PROVE seen'[k] \in Nat /\ Cardinality(Led(c)') <= seen'[k]
    OBVIOUS
  <2>1. pc[k] = 4
    BY <1>1
  <2>2. seen'[k] = Cardinality(Led(c))
    BY <2>1, DisbandCounts
  <2>3. Led(c)' = Led(c)
    BY <1>1 DEF Led
  <2>4. QED
    BY <2>2, <2>3, LedCounted
<1>5. ASSUME NEW w \in Warrior
      PROVE  \/ pending'[k][Vote(c, w)] = pending[k][Vote(c, w)]
             \/ pending'[k][Vote(c, w)] = TRUE
  <2> DEFINE r == Vote(c, w)
  <2>1. CASE Locks(k) /\ pending'[k][r] # pending[k][r]
    <3>1. Change(req[k], r, db[r], pending'[k][r])
      BY <1>2, <2>1, Locked
    <3>2. QED
      BY <1>2, <3>1 DEF Change, Clan, Member, OwnRow, InviteRow, Invited, Vote, Account
  <2>2. CASE Goes(k)
    BY <2>2 DEF Goes
  <2>3. QED
    BY <2>1, <2>2
<1>6. ASSUME pc'[k] = 6 \/ pending'[k][Clan(c)] # Unwritten, ~Decided(k)
      PROVE  pc[k] = 5 /\ pc'[k] = 6
  <2>1. pc'[k] = 6
    <3> SUFFICES ASSUME pc'[k] # 6 PROVE FALSE
      OBVIOUS
    <3>1. pending'[k][Clan(c)] # pending[k][Clan(c)]
      BY <1>1, <1>6 DEF Decided
    <3>2. Locks(k)
      BY <3>1 DEF Goes
    <3>3. PICK i \in 1 .. Len(Program(req[k])) : i = pc[k] /\ Writes(Program(req[k])[i], Clan(c))
      BY <1>2, <3>1, <3>2, Locked
    <3>4. Writes(stmt(k), Clan(c)) /\ pc[k] # 6
      BY <1>1, <1>6, <3>3 DEF Decided
    <3>5. pc[k] \in {1, 2, 3, 4, 5, 7}
      BY <1>1, <3>4
    <3>6. /\ Program(req[k])[1].do = "select" /\ Program(req[k])[2].do = "require"
          /\ Program(req[k])[3].row = Vote(c, req[k].by) /\ Program(req[k])[3].do = "insert"
          /\ Program(req[k])[4].do = "countLeaders" /\ Program(req[k])[5].do = "countVotes"
          /\ Program(req[k])[7].do = "clearTags"
      <4>1. Program(req[k])[1] = Select(Clan(c), ActiveClan)
        BY <1>1, <1>2, DisbandStatements
      <4>2. Program(req[k])[1].do = "select"
        BY <4>1 DEF Select
      <4>3. QED
        BY <1>1, <1>2, <4>2, DisbandStatements
    <3>7. /\ Vote(c, req[k].by) # Clan(c)
          /\ \A w \in Warrior : Account(w) # Clan(c)
      BY DEF Vote, Clan, Account
    <3>8. QED
      BY <1>1, <3>4, <3>5, <3>6, <3>7 DEF Writes
  <2>2. QED
    BY <1>1, <2>1
<1>7. Decided(k) => pc[k] > 5 /\ pc'[k] > 5
  BY <1>1 DEF Deciding
<1>8. ASSUME pc'[k] = 6 \/ pending'[k][Clan(c)] # Unwritten, k \notin moved'
      PROVE  \A w \in Led(c)' : Sees(k, Vote(c, w))' = TRUE
  <2>1. Counting(k) /\ Counting(k)'
    BY <1>1, <1>3, <1>6, <1>7, <1>8
  <2>2. CASE Decided(k)
    BY <1>5, <1>8, <2>1, <2>2, DecidedStays
  <2>3. CASE ~Decided(k)
    <3>1. pc[k] = 5 /\ pc'[k] = 6
      BY <1>6, <1>8, <2>3
    <3>2. k \notin moved
      <4>1. CASE UNCHANGED voteVars
        BY <1>8, <4>1 DEF voteVars
      <4>2. CASE VoteNext
        BY <1>8, <2>1, <4>2 DEF VoteNext
      <4>3. QED
        BY <4>1, <4>2
    <3>3. \A w \in Led(c) : Sees(k, Vote(c, w)) = TRUE
      BY <3>1, <3>2, DisbandDecides
    <3>4. ASSUME NEW w \in Led(c) PROVE Sees(k, Vote(c, w))' = TRUE
      <4>1. w \in Warrior /\ c \in Tribe
        BY <1>1, AskFields DEF Led
      <4>2. QED
        BY <1>5, <1>8, <2>1, <3>3, <4>1, VotesStay
    <3>5. Led(c)' = Led(c)
      BY <1>1 DEF Led
    <3>6. QED
      BY <3>4, <3>5
  <2>4. QED
    BY <2>2, <2>3
<1>9. req'[k] = req[k]
  BY <1>1
<1>10. pc'[k] = 6 \/ pending'[k][Clan(c)] # Unwritten => pc'[k] > 5
  BY <1>6, <1>7
<1>11. QED
  BY <1>4, <1>8, <1>9, <1>10, DecidingNext
LEMMA UnanimousInit == Init => Unanimous
<1> SUFFICES ASSUME Init PROVE Unanimous
  OBVIOUS
<1>1. \A k \in Worker : Idle(k)
  BY DEF Init, Idle
<1>2. seen = [k \in Worker |-> 0]
  BY DEF Init
<1>3. seen = [k \in Worker |-> seen[k]]
  BY <1>2
<1>4. QED
  BY <1>1, <1>3 DEF Unanimous, Disbands

LEMMA UnanimousStep ==
  ASSUME IInv, Unanimous, [VoteNext]_voteVars
  PROVE  Unanimous'
<1>1. Types /\ seen = [k \in Worker |-> seen[k]]
  BY DEF IInv, Unanimous
<1>2. CASE UNCHANGED <<pending, req, pc, seen>>
  <2>1. \A k \in Worker : Disbands(k) => Deciding(k)'
    BY <1>2, WaitingDecides
  <2>2. \A k \in Worker : (Idle(k)' <=> Idle(k)) /\ (Disbands(k)' <=> Disbands(k))
    BY <1>2 DEF Idle, Disbands
  <2>3. QED
    BY <1>1, <1>2, <2>1, <2>2 DEF Unanimous
<1>3. ASSUME NEW j \in Worker, Begin(j) \/ Step(j) \/ Fault(j)
      PROVE  Unanimous'
  <2>1. /\ seen' = [k \in Worker |-> seen'[k]]
        /\ \A k \in Worker \ {j} : seen'[k] = seen[k]
    BY <1>1, <1>3, SeenStep
  <2>2. Begin(j) \/ (Step(j) /\ (Goes(j) \/ Turns(j) \/ Locks(j) \/ Commit(j))) \/ Ends(j)
    BY <1>1, <1>3, Effects, RollingBack DEF Fault
  <2>3. ASSUME NEW k \in Worker, k # j
        PROVE  (Idle(k)' <=> Idle(k)) /\ req'[k] = req[k] /\ (Disbands(k)' => Deciding(k)')
    <3>1. req'[k] = req[k] /\ pc'[k] = pc[k] /\ \A r \in Row : pending'[k][r] = pending[k][r]
      BY <1>1, <2>2, <2>3, Others
    <3>2. (Idle(k)' <=> Idle(k)) /\ (Disbands(k)' <=> Disbands(k))
      BY <3>1 DEF Idle, Disbands
    <3>3. QED
      BY <2>1, <2>3, <3>1, <3>2, WaitingDecides
  <2>4. Disbands(j)' => Deciding(j)'
    <3>1. CASE Begin(j)
      <4>1. PICK q \in Asks : req' = [req EXCEPT ![j] = q] /\ q.op \in Ops
        BY <1>1, <3>1, BeginAsks
      <4>2. req'[j] = q /\ pc'[j] = 1 /\ \A r \in Row : pending'[j][r] = Unwritten
        BY <1>1, <3>1, <4>1 DEF Begin, Types
      <4>3. ~Decided(j)'
        BY <4>2, AskFields, Tables DEF Decided
      <4>4. QED
        BY <4>2, <4>3 DEF Deciding
    <3>2. CASE Step(j) /\ (Goes(j) \/ Locks(j))
      <4>1. req' = req /\ ~Idle(j)
        BY <3>2 DEF Goes, Locks
      <4>2. (Idle(j)' <=> Idle(j)) /\ (Disbands(j)' <=> Disbands(j))
        BY <4>1 DEF Idle, Disbands
      <4>3. QED
        BY <1>1, <3>2, <4>1, <4>2, MovingDecides
    <3>3. CASE Turns(j)
      BY <1>1, <3>3 DEF Turns, Types, Disbands
    <3>4. CASE Ends(j) \/ Commit(j)
      BY <1>1, <3>4 DEF Ends, Commit, Finish, Types, Disbands, Idle
    <3>5. QED
      BY <2>2, <3>1, <3>2, <3>3, <3>4
  <2>5. QED
    BY <1>1, <2>1, <2>3, <2>4 DEF Unanimous
<1>4. QED
  BY <1>2, <1>3, VoteSteps DEF Next, WindowPasses, vars

(* A tribe is disbanded only when every leader it then has voted for it      *)
(* (clan.go:456), whatever is asked meanwhile, unless somebody was promoted  *)
(* or took back a vote after the leaders were counted.                       *)
THEOREM DisbandedByAll == VoteSpec => DisbandIsUnanimous
<1>1. ASSUME IInv, Unanimous, [VoteNext]_voteVars, NEW c \in Tribe, db[Clan(c)].status = "active",
             db'[Clan(c)].status = "disbanded"
      PROVE  \E k \in Worker :
               /\ ~Idle(k) /\ req[k].op = "disband" /\ req[k].tribe = c /\ req'[k] = NoRequest
               /\ k \in moved \/ \A w \in Warrior : db'[Member(c, w)] = RankLeader => db'[Vote(c, w)]
  <2>1. Clan(c) \in Row /\ [Next]_vars
    BY <1>1, Tables, VoteSteps
  <2>2. db'[Clan(c)] # db[Clan(c)]
    BY <1>1
  <2>3. PICK k \in Worker : Commit(k)
    BY <1>1, <2>1, <2>2, DbChanges, WindowKeepsRest, Table
  <2>4. pending[k][Clan(c)] # Unwritten /\ db'[Clan(c)] = pending[k][Clan(c)]
    BY <1>1, <2>1, <2>2, <2>3, Committing
  <2>5. db[Clan(c)] \in FoundedClan
    BY <1>1, <2>1, Values DEF IInv, Types, FoundedClan
  <2>6. Disbands(k) /\ req[k].tribe = c
    <3>1. /\ ~Idle(k)
          /\ IF req[k].op = "request" THEN Clan(c) = InviteRow(req[k])
             ELSE Change(req[k], Clan(c), db[Clan(c)], db'[Clan(c)])
      BY <1>1, <2>1, <2>4, HeldChange
    <3>2. db[Clan(c)] # NoClan
      BY <2>5 DEF FoundedClan, NoClan
    <3>3. db'[Clan(c)] # [db[Clan(c)] EXCEPT !.recruiting = req[k].flag]
      BY <1>1, <2>5 DEF FoundedClan, ClanValue
    <3>4. req[k].op = "disband" /\ Clan(c) = Clan(req[k].tribe)
      BY <3>1, <3>2, <3>3 DEF Change, Clan, Member, OwnRow, InviteRow, Invited, Vote, Account
    <3>5. QED
      BY <3>1, <3>4, Keys DEF Disbands
  <2>7. req'[k] = NoRequest
    BY <1>1, <2>3 DEF Commit, Finish, IInv, Types
  <2>8. ASSUME k \notin moved, NEW w \in Warrior, db'[Member(c, w)] = RankLeader
        PROVE  db'[Vote(c, w)]
    <3>1. Member(c, w) \in Row /\ Vote(c, w) \in Row
      BY Tables
    <3>2. db[Member(c, w)] = RankLeader
      <4> SUFFICES ASSUME db[Member(c, w)] # RankLeader PROVE FALSE
        OBVIOUS
      <4>1. pending[k][Member(c, w)] # Unwritten
        BY <1>1, <2>3, <2>8, <3>1, Committing
      <4>2. Change(req[k], Member(c, w), db[Member(c, w)], pending[k][Member(c, w)])
        BY <1>1, <2>6, <3>1, <4>1, HeldChange DEF Disbands
      <4>3. QED
        BY <2>6, <4>2 DEF Disbands, Change, Clan, Member, OwnRow, InviteRow, Invited, Vote, Account
    <3>3. Sees(k, Vote(c, w)) = TRUE
      BY <1>1, <2>4, <2>6, <2>8, <3>2 DEF Unanimous, Deciding, Decided, Led
    <3>4. db'[Vote(c, w)] = Sees(k, Vote(c, w))
      BY <3>1, <2>3 DEF Commit
    <3>5. QED
      BY <3>3, <3>4
  <2>9. QED
    BY <2>6, <2>7, <2>8 DEF Disbands
<1>2. IInv /\ Unanimous /\ [VoteNext]_voteVars =>
        [\A c \in Tribe : db[Clan(c)].status = "active" /\ db'[Clan(c)].status = "disbanded" =>
           \E k \in Worker :
             /\ ~Idle(k) /\ req[k].op = "disband" /\ req[k].tribe = c /\ req'[k] = NoRequest
             /\ k \in moved \/ \A w \in Warrior : db'[Member(c, w)] = RankLeader => db'[Vote(c, w)]
        ]_voteVars
  BY <1>1
<1>3. IInv /\ Unanimous /\ [VoteNext]_voteVars => Unanimous'
  BY UnanimousStep
<1>4. VoteSpec => Spec
  BY VoteSteps, PTL DEF VoteSpec, VoteInit, Spec
<1>5. VoteInit => Unanimous
  BY UnanimousInit DEF VoteInit
<1>6. QED
  BY <1>2, <1>3, <1>4, <1>5, IInvAlways, PTL DEF VoteSpec, DisbandIsUnanimous

-----------------------------------------------------------------------------
(* The refinement: with one worker nobody else commits, so what a statement  *)
(* found or wrote stands when its transaction commits (Alone), and the       *)
(* commit as a whole is the operation of Tribes.                             *)
(* What a statement passed has established, when nobody else commits: the    *)
(* rows read are as they were read, and the rows matched are written.        *)
Found(k, q, s) ==
  /\ s.do \in {"select", "require"} => db[s.row] \in s.ok
  /\ s.do = "outranked" =>
       db[s.row] # NotMember /\ db[s.row] < db[Member(q.tribe, q.by)]
  /\ s.do = "canInvite" => db[s.row] >= rankToInvite
  /\ s.do = "selectOld" => db[s.row].recent = FALSE
  /\ s.do = "insert" /\ (s.clash = "fault" \/ db[s.row] = AbsentValue(s.row)) =>
       pending[k][s.row] # Unwritten
  /\ s.do = "update" /\ q.op \notin {"request", "disband"} =>
       (s.miss = "refuse" \/ db[s.row] \in DOMAIN s.to => pending[k][s.row] # Unwritten)
       /\ (s.miss = "refuse" => db[s.row] \in DOMAIN s.to)

(* Disbanding: the count, and what is written if it is enough.               *)
Voters(q) == {w \in Warrior : db[Vote(q.tribe, w)] = TRUE} \cup {q.by}
Enough(q) ==
  /\ Led(q.tribe) # {}
  /\ Cardinality(Voters(q) \cap Led(q.tribe)) >= Cardinality(Led(q.tribe))
Counted(k, q) ==
  /\ pc[k] = 5 => seen[k] = Cardinality(Led(q.tribe))
  /\ pc[k] \in {6, 7} => Enough(q)
  /\ pc[k] = 7 => pending[k][Clan(q.tribe)] # Unwritten
  /\ pc[k] = 8 /\ Enough(q) =>
       /\ pending[k][Clan(q.tribe)] # Unwritten
       /\ \A w \in Warrior : db[Account(w)] = q.tribe => pending[k][Account(w)] # Unwritten
  /\ pc[k] = 8 /\ ~Enough(q) =>
       \A r \in Row : pending[k][r] # Unwritten => r = Vote(q.tribe, q.by)

Behind(k, q) == \A i \in 1 .. Len(Program(q)) : i < pc[k] => Found(k, q, Program(q)[i])
Passed(k, q) ==
  /\ Behind(k, q)
  /\ q.op = "kick" /\ pc[k] = 3 => seen[k] = db[Member(q.tribe, q.by)]
  /\ q.op = "request" /\ pc[k] = 7 =>
       pending[k][InviteRow(q)] = [kind |-> "request", recent |-> TRUE]
  /\ q.op = "disband" => Counted(k, q)
Alone ==
  /\ seen = [k \in Worker |-> seen[k]]
  /\ \A k \in Worker : \A q \in Asks : req[k] = q => Passed(k, q)

-----------------------------------------------------------------------------
LEMMA ReadFirst ==
  ASSUME IInv, NEW k \in Worker, NEW d \in Reads, At(k, d)
  PROVE  \A r \in Row : pending[k][r] = Unwritten /\ Sees(k, r) = db[r]
<1>1. /\ ~Idle(k) /\ req[k] \in Asks /\ pc[k] \in 1 .. Len(Program(req[k]))
      /\ stmt(k) = Program(req[k])[pc[k]] /\ stmt(k).do = d
  BY Doing DEF IInv, Reads, At
<1>2. Proceeds(req[k], Program(req[k]))
  BY <1>1, Programs
<1>3. ASSUME NEW r \in Row, pending[k][r] # Unwritten PROVE FALSE
  <2>1. PICK i \in 1 .. Len(Program(req[k])) : i < pc[k] /\ Writes(Program(req[k])[i], r)
    BY <1>3 DEF IInv, Held
  <2>2. Program(req[k])[i].do \in Reads
    BY <1>1, <1>2, <2>1 DEF Proceeds
  <2>3. QED
    BY <2>1, <2>2 DEF Writes, Reads
<1>4. QED
  BY <1>3 DEF Sees

(* What was found stays so while the tables are the same.                    *)
LEMMA Extended ==
  ASSUME IInv, NEW k \in Worker, NEW q \in Asks, Behind(k, q), UNCHANGED db,
         \A r \in Row : pending[k][r] # Unwritten => pending'[k][r] # Unwritten,
         NEW n \in Nat, pc'[k] = n,
         \A i \in 1 .. Len(Program(q)) : pc[k] <= i /\ i < n => Found(k, q, Program(q)[i])'
  PROVE  Behind(k, q)'
<1>1. ASSUME NEW i \in 1 .. Len(Program(q)), i < n PROVE Found(k, q, Program(q)[i])'
  <2>1. PICK s : s = Program(q)[i]
    OBVIOUS
  <2>2. pc[k] \in Nat /\ Does(q, s, i)
    BY <2>1, Programs DEF IInv, Types, Proceeds
  <2>3. CASE pc[k] <= i
    BY <1>1, <2>3
  <2>4. CASE i < pc[k]
    <3>1. Found(k, q, s)
      BY <2>1, <2>4 DEF Behind
    <3>2. s.do \in {"insert", "update"} => s.row \in Row
      BY <2>2 DEF Does
    <3>3. Found(k, q, s)'
      BY <3>1, <3>2 DEF Found
    <3>4. QED
      BY <2>1, <3>3
  <2>5. QED
    BY <2>2, <2>3, <2>4
<1>2. QED
  BY <1>1 DEF Behind

LEMMA OneOn ==
  ASSUME IInv, NEW k \in Worker, NEW q \in Asks, req[k] = q, Behind(k, q), UNCHANGED db,
         \A r \in Row : pending[k][r] # Unwritten => pending'[k][r] # Unwritten,
         Advance(k), NEW s, s = Program(q)[pc[k]], Found(k, q, s)'
  PROVE  Behind(k, q)'
<1>1. pc[k] \in Nat /\ pc'[k] = pc[k] + 1
  BY DEF Advance, IInv, Types
<1>2. PICK n \in Nat : n = pc[k] + 1
  BY <1>1
<1>3. \A i \in 1 .. Len(Program(q)) : pc[k] <= i /\ i < n => i = pc[k]
  BY <1>1, <1>2, Programs DEF Proceeds
<1>4. ASSUME NEW i \in 1 .. Len(Program(q)), pc[k] <= i, i < n PROVE Found(k, q, Program(q)[i])'
  <2>1. s = Program(q)[i]
    BY <1>3, <1>4
  <2>2. QED
    BY <2>1
<1>5. QED
  BY <1>1, <1>2, <1>4, Extended

LEMMA NotEnded ==
  ASSUME IInv, NEW k \in Worker, NEW q \in Asks, req'[k] = q
  PROVE  ~Finish(k) /\ ~Rollback(k)
BY AskFields DEF Finish, Rollback, IInv, Types

LEMMA LooksFind ==
  ASSUME IInv, seen = [j \in Worker |-> seen[j]], NEW k \in Worker, NEW q \in Asks, req[k] = q,
         Passed(k, q), req'[k] = q, DoSelect(k) \/ DoRequire(k) \/ DoOutranked(k)
  PROVE  Behind(k, q)'
<1>1. \/ At(k, "select") \/ At(k, "require") \/ At(k, "outranked")
  BY DEF DoSelect, DoRequire, DoOutranked
<1>2. PICK s : s = stmt(k)
  OBVIOUS
<1>3. /\ s = Program(q)[pc[k]] /\ pc[k] \in 1 .. Len(Program(q)) /\ s.do \in Reads /\ Does(q, s, pc[k])
      /\ s.do \in {"select", "require", "outranked"}
  BY <1>1, <1>2, Doing DEF IInv, Reads, At
<1>4. Looks(q, s)
  BY <1>3, Programs DEF Proceeds
<1>5. s.row \in Row /\ Sees(k, s.row) = db[s.row]
  BY <1>1, <1>3, <1>4, ReadFirst DEF Looks, Reads
<1>6. /\ Advance(k) /\ UNCHANGED <<db, pending>>
      /\ s.do \in {"select", "require"} => db[s.row] \in s.ok
      /\ s.do = "outranked" => db[s.row] # NotMember /\ db[s.row] < seen[k]
  <2>1. CASE DoSelect(k)
    BY <2>1, <1>2, <1>5, NotEnded DEF DoSelect, At
  <2>2. CASE DoRequire(k)
    BY <2>2, <1>2, <1>5, NotEnded DEF DoRequire, At
  <2>3. CASE DoOutranked(k)
    BY <2>3, <1>2, <1>5, NotEnded DEF DoOutranked, At
  <2>4. QED
    BY <2>1, <2>2, <2>3
<1>7. s.do = "outranked" => q.op = "kick" /\ pc[k] = 3
  BY <1>3 DEF Does
<1>8. Found(k, q, s)'
  BY <1>3, <1>6, <1>7 DEF Found, Passed
<1>9. QED
  BY <1>3, <1>6, <1>8, OneOn DEF Passed

LEMMA LocksGrow ==
  ASSUME IInv, NEW k \in Worker, Goes(k) \/ Locks(k)
  PROVE  \A r \in Row : pending[k][r] # Unwritten => pending'[k][r] # Unwritten
<1>1. CASE Goes(k)
  BY <1>1 DEF Goes
<1>2. CASE Locks(k)
  <2> SUFFICES ASSUME NEW r \in Row, pending[k][r] # Unwritten, pending'[k][r] = Unwritten PROVE FALSE
    OBVIOUS
  <2>1. pending'[k][r] \in Value(r)
    BY <1>2, Locked
  <2>2. QED
    BY <2>1, NotUnwritten
<1>3. QED
  BY <1>1, <1>2

LEMMA CanInviteFinds ==
  ASSUME IInv, NEW k \in Worker, NEW q \in Asks, req[k] = q, Behind(k, q), req'[k] = q, DoCanInvite(k)
  PROVE  Behind(k, q)'
<1>1. At(k, "canInvite")
  BY DEF DoCanInvite
<1>2. PICK s : s = stmt(k)
  OBVIOUS
<1>3. /\ s = Program(q)[pc[k]] /\ pc[k] \in 1 .. Len(Program(q)) /\ s.do = "canInvite"
      /\ Does(q, s, pc[k])
  BY <1>1, <1>2, Doing DEF IInv, At
<1>4. Looks(q, s)
  BY <1>3, Programs DEF Proceeds
<1>5. s.row \in Row /\ Sees(k, s.row) = db[s.row]
  BY <1>1, <1>3, <1>4, ReadFirst DEF Looks, Reads
<1>6. CASE db[s.row] >= rankToInvite
  <2>1. Advance(k) /\ UNCHANGED <<db, pending>>
    BY <1>2, <1>5, <1>6 DEF DoCanInvite
  <2>2. Found(k, q, s)'
    BY <2>1, <1>3, <1>6 DEF Found
  <2>3. QED
    BY <1>3, <2>1, <2>2, OneOn
<1>7. CASE ~(db[s.row] >= rankToInvite)
  <2>1. req' = [req EXCEPT ![k].op = s.other, ![k].target = req[k].by]
    BY <1>2, <1>5, <1>7 DEF DoCanInvite
  <2>2. req'[k].op = s.other
    BY <2>1 DEF IInv, Types, Asks
  <2>3. QED
    BY <2>2, <1>3 DEF Does
<1>8. QED
  BY <1>6, <1>7

(* Turned into an answer of the caller's own, a request has found the tribe. *)
LEMMA TurnFinds ==
  ASSUME IInv, NEW k \in Worker, NEW q \in Asks, req[k] = q, Behind(k, q),
         NEW p \in Asks, req'[k] = p, p # q, DoCanInvite(k)
  PROVE  Passed(k, p)'
<1>1. At(k, "canInvite")
  BY DEF DoCanInvite
<1>2. PICK s : s = stmt(k)
  OBVIOUS
<1>3. /\ s = Program(q)[pc[k]] /\ pc[k] \in 1 .. Len(Program(q)) /\ s.do = "canInvite"
      /\ Does(q, s, pc[k])
  BY <1>1, <1>2, Doing DEF IInv, At
<1>4. /\ req' = [req EXCEPT ![k].op = s.other, ![k].target = req[k].by]
      /\ UNCHANGED <<db, pending>> /\ pc' = [pc EXCEPT ![k] = 2]
  BY <1>2 DEF DoCanInvite, Skip
<1>5. p.op \in {"accept", "reject"} /\ p.tribe = q.tribe /\ pc'[k] = 2
  BY <1>3, <1>4 DEF Does, IInv, Types, Asks
<1>6. Program(p)[1] = FindClan(p) /\ Program(q)[1] = FindClan(q) /\ Len(Program(p)) \in Nat /\ Len(Program(p)) >= 1
  <2>1. Program(p)[1] = FindClan(p)
    BY <1>5 DEF Program, AcceptInvite, RejectInvite
  <2>2. Program(q)[1] = FindClan(q)
    <3>1. q.op \in {"admit", "decline"}
      BY <1>3 DEF Does
    <3>2. QED
      BY <3>1 DEF Program, AdmitRequester, DeclineRequester
  <2>3. QED
    BY <2>1, <2>2, Programs DEF Proceeds
<1>7. Program(p)[1] = Program(q)[1]
  BY <1>5, <1>6 DEF FindClan
<1>8. PICK t : t = Program(q)[1]
  OBVIOUS
<1>9. t.do = "select"
  BY <1>6, <1>8 DEF FindClan, Select
<1>10. Found(k, q, t)
  BY <1>3, <1>8 DEF Behind, Does
<1>11. Found(k, p, t)'
  BY <1>4, <1>9, <1>10 DEF Found
<1>12. Behind(k, p)'
  <2>1. ASSUME NEW i \in 1 .. Len(Program(p)), i < 2 PROVE Found(k, p, Program(p)[i])'
    <3>1. Program(p)[i] = t
      BY <1>6, <1>7, <1>8, <2>1
    <3>2. QED
      BY <1>11, <3>1
  <2>2. QED
    BY <1>5, <2>1 DEF Behind
<1>13. QED
  BY <1>5, <1>12 DEF Passed

LEMMA SelectOldFinds ==
  ASSUME IInv, NEW k \in Worker, NEW q \in Asks, req[k] = q, Behind(k, q), req'[k] = q, DoSelectOld(k)
  PROVE  Behind(k, q)'
<1>1. At(k, "selectOld")
  BY DEF DoSelectOld
<1>2. PICK s : s = stmt(k)
  OBVIOUS
<1>3. /\ s = Program(q)[pc[k]] /\ pc[k] \in 1 .. Len(Program(q)) /\ s.do = "selectOld"
      /\ Does(q, s, pc[k])
  BY <1>1, <1>2, Doing DEF IInv, At
<1>4. Looks(q, s)
  BY <1>3, Programs DEF Proceeds
<1>5. s.row \in Row /\ Sees(k, s.row) = db[s.row] /\ s.row = InviteRow(q)
  BY <1>1, <1>3, <1>4, ReadFirst DEF Looks, Reads
<1>6. db[s.row].recent \in BOOLEAN
  <2>1. Value(s.row) = InviteValue \cup {NoInvite}
    <3>1. Value(Invited(q.tribe, q.target)) = InviteValue \cup {NoInvite}
      BY Values
    <3>2. QED
      BY <1>5, <3>1 DEF InviteRow
  <2>2. db[s.row] \in Value(s.row)
    BY <1>5 DEF IInv, Types
  <2>3. CASE db[s.row] \in InviteValue
    BY <2>3 DEF InviteValue
  <2>4. CASE db[s.row] = NoInvite
    BY <2>4 DEF NoInvite
  <2>5. QED
    BY <2>1, <2>2, <2>3, <2>4
<1>7. PICK n \in {pc[k] + 1, pc[k] + 2} : pc' = [pc EXCEPT ![k] = n]
  BY <1>2, <1>5, NotEnded DEF DoSelectOld, Skip
<1>8. ~db[s.row].recent /\ UNCHANGED <<db, pending>>
  BY <1>2, <1>5, NotEnded DEF DoSelectOld
<1>9. db[s.row].recent = FALSE
  BY <1>6, <1>8
<1>10. Found(k, q, s)'
  BY <1>3, <1>8, <1>9 DEF Found
<1>11. q.op = "request" /\ pc[k] = 4
  BY <1>3 DEF Does
<1>12. Program(q)[5].do = "update"
  BY <1>11 DEF Program, RequestInvite, deleteInvite, Set, Update
<1>13. PICK t : t = Program(q)[5]
  OBVIOUS
<1>14. Found(k, q, t)'
  BY <1>11, <1>12, <1>13 DEF Found
<1>15. ASSUME NEW i \in 1 .. Len(Program(q)), pc[k] <= i, i < n PROVE Found(k, q, Program(q)[i])'
  <2>1. i = 4 \/ i = 5
    BY <1>7, <1>11, <1>15, Programs DEF Proceeds
  <2>2. Program(q)[i] = s \/ Program(q)[i] = t
    BY <2>1, <1>3, <1>11, <1>13
  <2>3. QED
    BY <2>2, <1>10, <1>14
<1>16. n \in Nat /\ pc'[k] = n
  BY <1>7, <1>11 DEF IInv, Types
<1>17. QED
  BY <1>8, <1>15, <1>16, Extended

(* Whatever else a statement does, it reads nothing that is relied on.       *)
LEMMA OthersFind ==
  ASSUME IInv, NEW k \in Worker, NEW q \in Asks, req[k] = q, Behind(k, q), req'[k] = q,
         DoCountLeaders(k) \/ DoClearTags(k)
  PROVE  Behind(k, q)'
<1>1. At(k, "countLeaders") \/ At(k, "clearTags")
  BY DEF DoCountLeaders, DoClearTags
<1>2. PICK s : s = stmt(k)
  OBVIOUS
<1>3. /\ s = Program(q)[pc[k]] /\ pc[k] \in 1 .. Len(Program(q)) /\ s.do \in {"countLeaders", "clearTags"}
  BY <1>1, <1>2, Doing DEF IInv, At
<1>4. Advance(k) /\ UNCHANGED db
  BY DEF DoCountLeaders, DoClearTags
<1>5. \A r \in Row : pending[k][r] # Unwritten => pending'[k][r] # Unwritten
  <2>1. CASE DoCountLeaders(k)
    BY <2>1 DEF DoCountLeaders
  <2>2. CASE DoClearTags(k)
    BY <2>2, ClearTagsEffect, LocksGrow DEF IInv
  <2>3. QED
    BY <2>1, <2>2
<1>6. Found(k, q, s)'
  BY <1>3 DEF Found
<1>7. QED
  BY <1>3, <1>4, <1>5, <1>6, OneOn

LEMMA CountVotesFinds ==
  ASSUME IInv, NEW k \in Worker, NEW q \in Asks, req[k] = q, Behind(k, q), req'[k] = q, DoCountVotes(k)
  PROVE  Behind(k, q)'
<1>1. At(k, "countVotes")
  BY DEF DoCountVotes
<1>2. PICK s : s = stmt(k)
  OBVIOUS
<1>3. /\ s = Program(q)[pc[k]] /\ pc[k] \in 1 .. Len(Program(q)) /\ s.do = "countVotes"
      /\ Does(q, s, pc[k])
  BY <1>1, <1>2, Doing DEF IInv, At
<1>4. q.op = "disband" /\ pc[k] = 5
  BY <1>3 DEF Does
<1>5. /\ Len(Program(q)) = 7 /\ Program(q)[5].do = "countVotes"
      /\ Program(q)[6].do = "update" /\ Program(q)[7].do = "clearTags"
  BY <1>4, DisbandStatements
<1>6. PICK n \in {6, 8} : pc' = [pc EXCEPT ![k] = n]
  BY <1>4, <1>5 DEF DoCountVotes, Skip, Advance
<1>7. ASSUME NEW i \in 1 .. Len(Program(q)), pc[k] <= i, i < n PROVE Found(k, q, Program(q)[i])'
  <2>1. PICK t : t = Program(q)[i]
    OBVIOUS
  <2>2. t.do = "countVotes" \/ t.do = "update" \/ t.do = "clearTags"
    <3>1. i = 5 \/ i = 6 \/ i = 7
      BY <1>4, <1>5, <1>7
    <3>2. QED
      BY <1>5, <2>1, <3>1
  <2>3. Found(k, q, t)'
    BY <1>4, <2>2 DEF Found
  <2>4. QED
    BY <2>1, <2>3
<1>8. n \in Nat /\ pc'[k] = n /\ UNCHANGED <<db, pending>>
  BY <1>6 DEF IInv, Types, DoCountVotes
<1>9. QED
  BY <1>7, <1>8, Extended

LEMMA InsertFinds ==
  ASSUME IInv, NEW k \in Worker, NEW q \in Asks, req[k] = q, Behind(k, q), req'[k] = q, DoInsert(k)
  PROVE  Behind(k, q)'
<1>1. At(k, "insert")
  BY DEF DoInsert
<1>2. PICK s : s = stmt(k)
  OBVIOUS
<1>3. /\ s = Program(q)[pc[k]] /\ pc[k] \in 1 .. Len(Program(q)) /\ s.do = "insert"
      /\ Does(q, s, pc[k])
  BY <1>1, <1>2, Doing DEF IInv, At
<1>4. /\ s.row \in Row /\ Change(q, s.row, AbsentValue(s.row), s.value)
  BY <1>3 DEF Does
<1>5. /\ Advance(k) /\ UNCHANGED db /\ (Goes(k) \/ Locks(k))
  BY NotEnded, InsertEffect DEF DoInsert, IInv, Ends
<1>6. s.clash = "fault" \/ db[s.row] = AbsentValue(s.row) => pending'[k][s.row] # Unwritten
  <2>1. CASE Locks(k)
    BY <2>1, <1>2, <1>3 DEF Locks
  <2>2. CASE Goes(k)
    <3>1. s.clash # "fault" /\ UNCHANGED pending
      BY <2>2, <1>2, <1>3 DEF Goes
    <3>2. ASSUME db[s.row] = AbsentValue(s.row), pending[k][s.row] = Unwritten PROVE FALSE
      <4>1. Sees(k, s.row) = AbsentValue(s.row)
        BY <3>2 DEF Sees
      <4>2. Write(k, s.row, s.value)
        BY <1>2, <4>1 DEF DoInsert
      <4>3. pending'[k][s.row] = s.value
        BY <1>4, <4>2 DEF Write, IInv, Types
      <4>4. db[s.row] \in Value(s.row)
        BY <1>4 DEF IInv, Types
      <4>5. s.value \in Value(s.row)
        BY <1>4, <3>2, <4>4, ChangeTyped
      <4>6. QED
        BY <1>4, <3>1, <3>2, <4>3, <4>5, NotUnwritten
    <3>3. QED
      BY <3>1, <3>2
  <2>3. QED
    BY <1>5, <2>1, <2>2
<1>7. Found(k, q, s)'
  BY <1>3, <1>5, <1>6 DEF Found
<1>8. QED
  BY <1>3, <1>5, <1>7, LocksGrow, OneOn

LEMMA UpdateFinds ==
  ASSUME IInv, NEW k \in Worker, NEW q \in Asks, req[k] = q, Behind(k, q), req'[k] = q, DoUpdate(k)
  PROVE  Behind(k, q)'
<1>1. At(k, "update")
  BY DEF DoUpdate
<1>2. PICK s : s = stmt(k)
  OBVIOUS
<1>3. /\ s = Program(q)[pc[k]] /\ pc[k] \in 1 .. Len(Program(q)) /\ s.do = "update"
      /\ Does(q, s, pc[k]) /\ ~Idle(k) /\ pc[k] <= Len(Program(q))
  BY <1>1, <1>2, Doing DEF IInv, At
<1>4. s.row \in Row /\ \A old \in DOMAIN s.to : Change(q, s.row, old, s.to[old])
  BY <1>3 DEF Does
<1>5. /\ Advance(k) /\ UNCHANGED db /\ (Goes(k) \/ Locks(k))
  BY NotEnded, UpdateEffect DEF DoUpdate, IInv, Ends
<1>6. ASSUME q.op # "request"
      PROVE  /\ s.miss = "refuse" \/ db[s.row] \in DOMAIN s.to => pending'[k][s.row] # Unwritten
             /\ s.miss = "refuse" => db[s.row] \in DOMAIN s.to
  <2>1. pending[k][s.row] = Unwritten
    BY <1>2, <1>3, <1>4, <1>6, WrittenOnce DEF IInv, Writes
  <2>2. Sees(k, s.row) = db[s.row]
    BY <2>1 DEF Sees
  <2>3. CASE db[s.row] \in DOMAIN s.to
    <3>1. Write(k, s.row, s.to[db[s.row]])
      BY <1>2, <2>2, <2>3 DEF DoUpdate
    <3>2. pending'[k][s.row] = s.to[db[s.row]]
      BY <1>4, <3>1 DEF Write, IInv, Types
    <3>3. db[s.row] \in Value(s.row)
      BY <1>4 DEF IInv, Types
    <3>4. s.to[db[s.row]] \in Value(s.row)
      BY <1>4, <2>3, <3>3, ChangeTyped
    <3>5. QED
      BY <1>4, <2>3, <3>2, <3>4, NotUnwritten
  <2>4. CASE db[s.row] \notin DOMAIN s.to
    <3>1. s.miss = "skip"
      BY <1>2, <2>2, <2>4, NotEnded DEF DoUpdate
    <3>2. QED
      BY <2>4, <3>1
  <2>5. QED
    BY <2>3, <2>4
<1>7. Found(k, q, s)'
  <2>1. CASE q.op = "request"
    BY <1>3, <2>1 DEF Found
  <2>2. CASE q.op # "request"
    BY <1>3, <1>5, <1>6, <2>2 DEF Found
  <2>3. QED
    BY <2>1, <2>2
<1>8. QED
  BY <1>3, <1>5, <1>7, LocksGrow, OneOn

(* A step that does not answer the request is its next statement's.          *)
LEMMA Acting ==
  ASSUME IInv, NEW k \in Worker, NEW q \in Asks, req'[k] = q, Step(k)
  PROVE  /\ ~Idle(k) /\ (Goes(k) \/ Turns(k) \/ Locks(k)) /\ ~Commit(k)
         /\ stmt(k).do = "require" => DoRequire(k)
         /\ stmt(k).do = "insert" => DoInsert(k)
         /\ stmt(k).do = "update" => DoUpdate(k)
         /\ stmt(k).do = "countLeaders" => DoCountLeaders(k)
         /\ stmt(k).do = "countVotes" => DoCountVotes(k)
         /\ stmt(k).do = "clearTags" => DoClearTags(k)
         /\ stmt(k).do = "selectOld" => DoSelectOld(k)
<1>1. ~Commit(k) /\ ~Ends(k)
  BY NotEnded DEF Commit, Ends
<1>2. Goes(k) \/ Turns(k) \/ Locks(k)
  BY <1>1, Effects DEF IInv
<1>3. ~Idle(k)
  BY <1>2 DEF Goes, Turns, Locks
<1>4. DoSelect(k) \/ DoRequire(k) \/ DoOutranked(k) \/ DoCanInvite(k) \/ DoSelectOld(k)
      \/ DoInsert(k) \/ DoUpdate(k) \/ DoCountLeaders(k) \/ DoCountVotes(k) \/ DoClearTags(k)
  BY <1>1 DEF Step
<1>5. QED
  BY <1>1, <1>2, <1>3, <1>4 DEF DoSelect, DoRequire, DoOutranked, DoCanInvite, DoSelectOld, DoInsert, DoUpdate,
     DoCountLeaders, DoCountVotes, DoClearTags, At

LEMMA StaysBehind ==
  ASSUME IInv, seen = [j \in Worker |-> seen[j]], NEW k \in Worker, NEW q \in Asks, req[k] = q, Passed(k, q),
         req'[k] = q, Step(k)
  PROVE  Behind(k, q)'
<1>1. ~Commit(k)
  BY Acting
<1>2. Behind(k, q)
  BY DEF Passed
<1>3. CASE DoSelect(k) \/ DoRequire(k) \/ DoOutranked(k)
  BY <1>3, LooksFind
<1>4. CASE DoCanInvite(k) \/ DoSelectOld(k)
  BY <1>2, <1>4, CanInviteFinds, SelectOldFinds
<1>5. CASE DoInsert(k) \/ DoUpdate(k)
  BY <1>2, <1>5, InsertFinds, UpdateFinds
<1>6. CASE DoCountLeaders(k) \/ DoCountVotes(k) \/ DoClearTags(k)
  BY <1>2, <1>6, OthersFind, CountVotesFinds
<1>7. QED
  BY <1>1, <1>3, <1>4, <1>5, <1>6 DEF Step

(* The statements of the methods that something else is known of.            *)
LEMMA Moves ==
  ASSUME IInv, NEW k \in Worker, NEW q \in Asks, req[k] = q, req'[k] = q, q.op \in {"kick", "request", "disband"},
         Step(k)
  PROVE  /\ UNCHANGED db /\ (Goes(k) \/ Locks(k)) /\ pc[k] \in 1 .. Len(Program(q))
         /\ stmt(k) = Program(q)[pc[k]] /\ Does(q, stmt(k), pc[k])
         /\ pc'[k] = pc[k] + 1 \/ stmt(k).do \in {"selectOld", "countVotes"}
<1>1. Goes(k) \/ Locks(k)
  <2>1. ~Turns(k)
    <3> SUFFICES ASSUME Turns(k) PROVE FALSE
      OBVIOUS
    <3>1. PICK p \in Asks : p.op \in {"accept", "reject"} /\ req' = [req EXCEPT ![k] = p]
      BY DEF Turns
    <3>2. p = q
      BY <3>1 DEF IInv, Types
    <3>3. QED
      BY <3>1, <3>2
  <2>2. QED
    BY <2>1, Acting
<1>2. ~Idle(k) /\ pc[k] <= Len(Program(q))
  <2>1. ~Idle(k) /\ pc[k] \in Nat /\ Len(Program(q)) \in Nat
    BY Acting, Programs DEF IInv, Types, Proceeds
  <2>2. QED
    BY <1>1, <2>1 DEF Goes, Locks
<1>3. /\ pc[k] \in 1 .. Len(Program(q)) /\ stmt(k) = Program(q)[pc[k]] /\ Does(q, stmt(k), pc[k])
  BY <1>2, Serving DEF IInv
<1>4. pc'[k] = pc[k] + 1 \/ stmt(k).do \in {"selectOld", "countVotes"}
  BY <1>1 DEF Goes, Locks, IInv, Types
<1>5. QED
  BY <1>1, <1>3, <1>4 DEF Goes, Locks

LEMMA KickSees ==
  ASSUME IInv, seen = [j \in Worker |-> seen[j]], NEW k \in Worker, NEW q \in Asks, q.op = "kick",
         req[k] = q, req'[k] = q, Step(k), pc'[k] = 3
  PROVE  seen'[k] = db'[Member(q.tribe, q.by)]
<1>1. pc[k] = 2 /\ UNCHANGED db /\ stmt(k) = Program(q)[2]
  <2>1. pc[k] \in Nat /\ stmt(k).do \notin {"selectOld", "countVotes"}
    BY Moves DEF IInv, Types, Does
  <2>2. QED
    BY <2>1, Moves
<1>2. stmt(k).do = "require" /\ stmt(k).row = Member(q.tribe, q.by)
  BY <1>1 DEF Program, Kick, requireRank, Require
<1>3. DoRequire(k)
  BY <1>2, Acting
<1>4. seen' = [seen EXCEPT ![k] = Sees(k, Member(q.tribe, q.by))]
  BY <1>2, <1>3, NotEnded DEF DoRequire
<1>5. Sees(k, Member(q.tribe, q.by)) = db[Member(q.tribe, q.by)]
  <2>1. Member(q.tribe, q.by) \in Row /\ At(k, "require")
    BY <1>2, AskFields, Tables DEF At
  <2>2. QED
    BY <2>1, ReadFirst DEF Reads
<1>6. QED
  BY <1>1, <1>4, <1>5

LEMMA RequestWrites ==
  ASSUME IInv, NEW k \in Worker, NEW q \in Asks, q.op = "request", req[k] = q, req'[k] = q, Step(k), pc'[k] = 7
  PROVE  pending'[k][InviteRow(q)] = [kind |-> "request", recent |-> TRUE]
<1>1. pc[k] = 6
  <2>1. /\ pc[k] \in Nat /\ stmt(k).do # "countVotes" /\ (stmt(k).do = "selectOld" => pc[k] = 4)
    BY Moves DEF IInv, Types, Does
  <2>2. CASE stmt(k).do = "selectOld"
    <3>1. DoSelectOld(k)
      BY <2>2, Acting
    <3>2. PICK n \in {pc[k] + 1, pc[k] + 2} : pc' = [pc EXCEPT ![k] = n]
      BY <3>1, NotEnded DEF DoSelectOld, Skip
    <3>3. QED
      BY <2>1, <2>2, <3>2 DEF IInv, Types
  <2>3. QED
    BY <2>1, <2>2, Moves
<1>2. /\ stmt(k).do = "insert" /\ stmt(k).row = InviteRow(q) /\ stmt(k).clash = "fault"
      /\ stmt(k).value = [kind |-> "request", recent |-> TRUE]
  <2>1. RequestInvite(q)[6] = Insert(Invited(q.tribe, q.by), [kind |-> "request", recent |-> TRUE], "fault")
    BY DEF RequestInvite
  <2>2. q.target = q.by /\ stmt(k) = RequestInvite(q)[6]
    BY <1>1, Moves, AskFields DEF Program, OwnOps
  <2>3. QED
    BY <2>1, <2>2 DEF Insert, InviteRow
<1>3. DoInsert(k)
  BY <1>2, Acting
<1>4. Write(k, InviteRow(q), [kind |-> "request", recent |-> TRUE])
  BY <1>2, <1>3, NotEnded DEF DoInsert
<1>5. InviteRow(q) \in Row
  BY AskFields, Tables DEF InviteRow
<1>6. QED
  BY <1>4, <1>5 DEF Write, IInv, Types

-----------------------------------------------------------------------------
(* Disbanding, statement by statement.                                       *)
LEMMA DisbandAt ==
  ASSUME IInv, NEW k \in Worker, NEW q \in Asks, q.op = "disband", req[k] = q, req'[k] = q, Step(k)
  PROVE  /\ Disbands(k) /\ UNCHANGED db /\ pc[k] \in 1 .. 7 /\ stmt(k) = Program(q)[pc[k]]
         /\ pc'[k] = pc[k] + 1 \/ (pc[k] = 5 /\ pc'[k] = 8)
         /\ (Goes(k) \/ Locks(k))
<1>1. Disbands(k)
  BY Acting DEF Disbands
<1>2. Goes(k) \/ Locks(k)
  BY Moves
<1>3. QED
  BY <1>1, <1>2, DisbandMoves

LEMMA VotesSeen ==
  ASSUME IInv, NEW k \in Worker, NEW q \in Asks, q.op = "disband", req[k] = q, ~Idle(k), Behind(k, q), pc[k] = 5
  PROVE  {w \in LeadersSeen(k, q.tribe) : Sees(k, Vote(q.tribe, w))} = Voters(q) \cap Led(q.tribe)
<1> DEFINE c == q.tribe
<1>1. /\ c \in Tribe /\ q.by \in Warrior /\ \A w \in Warrior : Vote(c, w) \in Row
  BY AskFields, Tables
<1>2. LeadersSeen(k, c) = Led(c)
  BY SeesLed DEF Disbands
<1>3. ASSUME NEW w \in Warrior, pending[k][Vote(c, w)] # Unwritten
      PROVE  w = q.by /\ pending[k][Vote(c, w)] = TRUE
  <2>1. Change(q, Vote(c, w), db[Vote(c, w)], pending[k][Vote(c, w)])
    BY <1>1, <1>3, HeldChange
  <2>2. Vote(c, w) = Vote(c, q.by) /\ pending[k][Vote(c, w)] = TRUE
    BY <2>1 DEF Change, Clan, Member, OwnRow, InviteRow, Invited, Vote, Account
  <2>3. QED
    BY <2>2, Keys
<1>4. Found(k, q, Insert(Vote(c, q.by), TRUE, "skip"))
  <2>1. Program(q)[3] = Insert(Vote(c, q.by), TRUE, "skip") /\ Len(Program(q)) = 7
    BY DEF Program, Disband
  <2>2. PICK s : s = Program(q)[3]
    OBVIOUS
  <2>3. 3 \in 1 .. Len(Program(q)) /\ 3 < pc[k]
    BY <2>1
  <2>4. Found(k, q, Program(q)[3])
    BY <2>3 DEF Behind
  <2>5. QED
    BY <2>1, <2>2, <2>4
<1>5. db[Vote(c, q.by)] = FALSE => pending[k][Vote(c, q.by)] # Unwritten
  <2>1. AbsentValue(Vote(c, q.by)) = FALSE
    BY Values
  <2>2. QED
    BY <1>4, <2>1 DEF Found, Insert
<1>6. ASSUME NEW w \in Warrior PROVE db[Vote(c, w)] = TRUE \/ db[Vote(c, w)] = FALSE
  <2>1. Value(Vote(c, w)) = BOOLEAN
    BY Values
  <2>2. db[Vote(c, w)] \in BOOLEAN
    BY <1>1, <2>1 DEF IInv, Types
  <2>3. QED
    BY <2>2
<1>7. ASSUME NEW w \in Warrior
      PROVE  /\ Sees(k, Vote(c, w)) = TRUE \/ Sees(k, Vote(c, w)) = FALSE
             /\ Sees(k, Vote(c, w)) = TRUE <=> w \in Voters(q)
  <2>1. CASE pending[k][Vote(c, w)] = Unwritten
    <3>1. Sees(k, Vote(c, w)) = db[Vote(c, w)]
      BY <2>1 DEF Sees
    <3>2. w = q.by => db[Vote(c, w)] = TRUE
      BY <1>5, <1>6, <2>1
    <3>3. QED
      BY <1>6, <3>1, <3>2 DEF Voters
  <2>2. CASE pending[k][Vote(c, w)] # Unwritten
    <3>1. Sees(k, Vote(c, w)) = TRUE /\ w = q.by
      BY <1>3, <2>2 DEF Sees
    <3>2. QED
      BY <3>1 DEF Voters
  <2>3. QED
    BY <2>1, <2>2
<1>8. ASSUME NEW w \in Warrior PROVE Sees(k, Vote(c, w)) <=> w \in Voters(q)
  <2> PICK v : v = Sees(k, Vote(c, w))
    OBVIOUS
  <2>1. (v = TRUE \/ v = FALSE) /\ (v = TRUE <=> w \in Voters(q))
    BY <1>7
  <2>2. QED
    BY <2>1
<1> HIDE DEF c
<1>9. QED
  BY <1>2, <1>8 DEF Led, c

LEMMA DisbandCountsVotes ==
  ASSUME IInv, NEW k \in Worker, NEW q \in Asks, q.op = "disband", req[k] = q, req'[k] = q, Passed(k, q),
         Step(k), pc[k] = 5
  PROVE  (pc'[k] = 6 => Enough(q)) /\ (pc'[k] = 8 => ~Enough(q))
<1> DEFINE votes == {w \in LeadersSeen(k, q.tribe) : Sees(k, Vote(q.tribe, w))}
<1>1. ~Idle(k) /\ stmt(k).do = "countVotes" /\ stmt(k).tribe = q.tribe /\ Len(Program(q)) = 7
  BY DisbandAt, DisbandStatements DEF Disbands
<1>2. DoCountVotes(k)
  BY <1>1, Acting
<1>3. votes = Voters(q) \cap Led(q.tribe)
  BY <1>1, VotesSeen DEF Passed
<1>4. seen[k] = Cardinality(Led(q.tribe))
  BY DEF Passed, Counted
<1>5. IF Cardinality(votes) >= seen[k] /\ seen[k] > 0 THEN pc'[k] = 6 ELSE pc'[k] = 8
  BY <1>1, <1>2 DEF DoCountVotes, Advance, Skip, IInv, Types
<1>6. Cardinality(Led(q.tribe)) > 0 <=> Led(q.tribe) # {}
  BY LedCounted, FS_EmptySet
<1>7. Enough(q) <=> Cardinality(votes) >= seen[k] /\ seen[k] > 0
  BY <1>3, <1>4, <1>6 DEF Enough
<1>8. QED
  BY <1>5, <1>7

LEMMA DisbandWritten ==
  ASSUME IInv, NEW k \in Worker, NEW q \in Asks, q.op = "disband", req[k] = q, ~Idle(k), pc[k] <= 5,
         NEW r \in Row, pending[k][r] # Unwritten
  PROVE  r = Vote(q.tribe, q.by)
<1>1. PICK i \in 1 .. Len(Program(q)) : i < pc[k] /\ Writes(Program(q)[i], r)
  BY DEF IInv, Held
<1>2. Program(q)[1].do = "select"
  <2>1. Program(q)[1] = Select(Clan(q.tribe), ActiveClan)
    BY DisbandStatements
  <2>2. QED
    BY <2>1 DEF Select
<1>3. i \in {1, 2, 3, 4}
  BY <1>1 DEF IInv, Types
<1>4. QED
  BY <1>1, <1>2, <1>3, DisbandStatements DEF Writes

LEMMA DisbandUpdates ==
  ASSUME IInv, NEW k \in Worker, NEW q \in Asks, q.op = "disband", req[k] = q, req'[k] = q, Passed(k, q),
         Step(k), pc[k] = 6
  PROVE  pending'[k][Clan(q.tribe)] # Unwritten
<1> DEFINE r == Clan(q.tribe)
<1>1. /\ ~Idle(k) /\ stmt(k) = Program(q)[6] /\ Len(Program(q)) = 7 /\ Does(q, stmt(k), 6)
  BY DisbandAt, DisbandStatements, Moves DEF Disbands
<1>2. /\ stmt(k).do = "update" /\ stmt(k).row = r /\ DOMAIN stmt(k).to = FoundedClan
  BY <1>1 DEF Program, Disband, Update
<1>3. DoUpdate(k) /\ r \in Row
  BY <1>2, Acting, AskFields, Tables
<1>4. db[r] \in ActiveClan
  <2>1. Found(k, q, Select(r, ActiveClan))
    BY <1>1, DisbandStatements DEF Passed, Behind
  <2>2. QED
    BY <2>1 DEF Found, Select
<1>5. Sees(k, r) = db[r]
  <2>1. Writes(stmt(k), r) /\ pc[k] <= Len(Program(req[k])) /\ req[k].op # "request"
    BY <1>1, <1>2 DEF Writes
  <2>2. pending[k][r] = Unwritten
    BY <1>1, <1>3, <2>1, WrittenOnce DEF IInv
  <2>3. QED
    BY <2>2 DEF Sees
<1>6. db[r] \in FoundedClan /\ db[r] \in Value(r)
  BY <1>3, <1>4 DEF IInv, Types, ActiveClan, FoundedClan
<1>7. PICK s : s = stmt(k)
  OBVIOUS
<1>8. Write(k, r, s.to[db[r]])
  BY <1>2, <1>3, <1>5, <1>6, <1>7 DEF DoUpdate
<1>9. Change(q, r, db[r], s.to[db[r]])
  BY <1>1, <1>2, <1>6, <1>7 DEF Does
<1>10. s.to[db[r]] # Unwritten
  BY <1>3, <1>6, <1>9, ChangeTyped, NotUnwritten
<1>11. QED
  BY <1>3, <1>8, <1>10 DEF Write, IInv, Types

LEMMA DisbandClears ==
  ASSUME IInv, NEW k \in Worker, NEW q \in Asks, q.op = "disband", req[k] = q, req'[k] = q,
         Step(k), pc[k] = 7, NEW w \in Warrior, db[Account(w)] = q.tribe
  PROVE  pending'[k][Account(w)] # Unwritten
<1>1. stmt(k).do = "clearTags" /\ stmt(k).tribe = q.tribe /\ Account(w) \in Row
  <2>1. stmt(k) = Program(q)[7]
    BY DisbandAt
  <2>2. QED
    BY <2>1, Tables DEF Program, Disband, ClearTags
<1>2. DoClearTags(k) /\ Locks(k)
  BY <1>1, Acting, ClearTagsEffect DEF IInv
<1>3. CASE pending[k][Account(w)] # Unwritten
  BY <1>1, <1>2, <1>3, LocksGrow
<1>4. CASE pending[k][Account(w)] = Unwritten
  <2>1. Account(w) \in WornRows(k, q.tribe)
    BY <1>4 DEF WornRows, Sees
  <2>2. pending'[k][Account(w)] = NoTribe
    BY <1>1, <1>2, <2>1 DEF DoClearTags, IInv, Types
  <2>3. QED
    BY <2>2, UnwrittenAssumption
<1>5. QED
  BY <1>3, <1>4

LEMMA DisbandStep ==
  ASSUME IInv, seen = [j \in Worker |-> seen[j]], NEW k \in Worker, NEW q \in Asks, q.op = "disband",
         req[k] = q, req'[k] = q, Passed(k, q), Step(k)
  PROVE  Counted(k, q)'
<1>1. /\ Disbands(k) /\ UNCHANGED db /\ pc[k] \in 1 .. 7 /\ stmt(k) = Program(q)[pc[k]]
      /\ pc'[k] = pc[k] + 1 \/ (pc[k] = 5 /\ pc'[k] = 8)
      /\ \A r \in Row : pending[k][r] # Unwritten => pending'[k][r] # Unwritten
  BY DisbandAt, LocksGrow
<1>2. Led(q.tribe)' = Led(q.tribe) /\ (Enough(q)' <=> Enough(q))
  BY <1>1 DEF Led, Enough, Voters
<1>3. Counted(k, q) /\ Clan(q.tribe) \in Row
  BY AskFields, Tables DEF Passed
<1>4. CASE pc[k] \in {1, 2, 3}
  BY <1>1, <1>4 DEF Counted
<1>5. CASE pc[k] = 4
  <2>1. stmt(k).do = "countLeaders" /\ stmt(k).tribe = q.tribe
    BY <1>1, <1>5, DisbandStatements
  <2>2. DoCountLeaders(k)
    BY <2>1, Acting
  <2>3. seen' = [seen EXCEPT ![k] = Cardinality(Led(q.tribe))]
    BY <1>1, <2>1, <2>2, SeesLed DEF DoCountLeaders
  <2>4. seen'[k] = Cardinality(Led(q.tribe)) /\ pc'[k] = 5
    BY <1>1, <1>5, <2>3
  <2>5. QED
    BY <1>2, <2>4 DEF Counted
<1>6. CASE pc[k] = 5
  <2>1. (pc'[k] = 6 => Enough(q)) /\ (pc'[k] = 8 => ~Enough(q)) /\ pc'[k] \in {6, 8}
    BY <1>1, <1>6, DisbandCountsVotes
  <2>2. ASSUME NEW r \in Row, pc'[k] = 8, pending'[k][r] # Unwritten PROVE r = Vote(q.tribe, q.by)
    <3>1. stmt(k).do = "countVotes"
      BY <1>1, <1>6, DisbandStatements
    <3>2. UNCHANGED pending
      BY <3>1, Acting DEF DoCountVotes
    <3>3. QED
      BY <1>1, <1>6, <2>2, <3>2, DisbandWritten DEF Disbands
  <2>3. QED
    BY <1>2, <2>1, <2>2 DEF Counted
<1>7. CASE pc[k] = 6
  <2>1. pc'[k] = 7 /\ Enough(q)
    BY <1>1, <1>3, <1>7 DEF Counted
  <2>2. QED
    BY <1>2, <1>7, <2>1, DisbandUpdates DEF Counted
<1>8. CASE pc[k] = 7
  <2>1. pc'[k] = 8 /\ Enough(q) /\ pending'[k][Clan(q.tribe)] # Unwritten
    BY <1>1, <1>3, <1>8 DEF Counted
  <2>2. \A w \in Warrior : db'[Account(w)] = q.tribe => pending'[k][Account(w)] # Unwritten
    BY <1>1, <1>8, DisbandClears
  <2>3. QED
    BY <1>2, <2>1, <2>2 DEF Counted
<1>9. QED
  BY <1>1, <1>4, <1>5, <1>6, <1>7, <1>8

-----------------------------------------------------------------------------
(* With one worker, nobody else's commit takes back what was found.          *)
LEMMA StepPasses ==
  ASSUME IInv, Alone, NEW k \in Worker, NEW q \in Asks, req'[k] = q, Step(k)
  PROVE  Passed(k, q)'
<1>1. PICK p \in Asks : req[k] = p
  BY Acting, Serving DEF IInv
<1>2. Passed(k, p) /\ Behind(k, p) /\ seen = [j \in Worker |-> seen[j]]
  BY <1>1 DEF Alone, Passed
<1>3. CASE p # q
  <2>1. DoCanInvite(k)
    <3>1. ~(UNCHANGED req) /\ ~Rollback(k) /\ ~Finish(k)
      BY <1>1, <1>3, NotEnded
    <3>2. QED
      BY <3>1 DEF Step, DoSelect, DoRequire, DoOutranked, DoSelectOld, DoInsert, DoUpdate, DoCountLeaders,
         DoCountVotes, DoClearTags, Commit
  <2>2. QED
    BY <1>1, <1>2, <1>3, <2>1, TurnFinds
<1>4. CASE p = q
  <2>1. Behind(k, q)'
    BY <1>1, <1>2, <1>4, StaysBehind
  <2>2. q.op = "kick" /\ pc'[k] = 3 => seen'[k] = db'[Member(q.tribe, q.by)]
    BY <1>1, <1>2, <1>4, KickSees
  <2>3. q.op = "request" /\ pc'[k] = 7 => pending'[k][InviteRow(q)] = [kind |-> "request", recent |-> TRUE]
    BY <1>1, <1>4, RequestWrites
  <2>4. q.op = "disband" => Counted(k, q)'
    BY <1>1, <1>2, <1>4, DisbandStep
  <2>5. QED
    BY <2>1, <2>2, <2>3, <2>4 DEF Passed
<1>5. QED
  BY <1>3, <1>4

LEMMA WindowLeaves ==
  ASSUME IInv, WindowPasses
  PROVE  \E c \in Tribe, w \in Warrior :
           /\ db[Invited(c, w)] \in InviteValue /\ db'[Invited(c, w)] \in InviteValue
           /\ db'[Invited(c, w)] = [db[Invited(c, w)] EXCEPT !.recent = FALSE]
           /\ \A r \in Row : r # Invited(c, w) => db'[r] = db[r]
<1>1. PICK c \in Tribe, w \in Warrior :
        db[Invited(c, w)].recent /\ db' = [db EXCEPT ![Invited(c, w)].recent = FALSE]
  BY DEF WindowPasses
<1>2. Invited(c, w) \in Row /\ Value(Invited(c, w)) = InviteValue \cup {NoInvite}
  BY Tables, Values
<1>3. db[Invited(c, w)] \in InviteValue
  <2>1. db[Invited(c, w)] \in Value(Invited(c, w))
    BY <1>2 DEF IInv, Types
  <2>2. db[Invited(c, w)] # NoInvite
    BY <1>1 DEF NoInvite
  <2>3. QED
    BY <1>2, <2>1, <2>2
<1>4. /\ db'[Invited(c, w)] = [db[Invited(c, w)] EXCEPT !.recent = FALSE]
      /\ \A r \in Row : r # Invited(c, w) => db'[r] = db[r]
  BY <1>1, <1>2 DEF IInv, Types
<1>5. db'[Invited(c, w)] \in InviteValue
  BY <1>3, <1>4 DEF InviteValue
<1>6. QED
  BY <1>3, <1>4, <1>5

LEMMA WindowFinds ==
  ASSUME IInv, NEW k \in Worker, NEW q \in Asks, NEW i \in 1 .. Len(Program(q)), NEW s, s = Program(q)[i],
         Found(k, q, s), WindowPasses
  PROVE  Found(k, q, s)'
<1>1. PICK c \in Tribe, w \in Warrior :
        /\ db[Invited(c, w)] \in InviteValue /\ db'[Invited(c, w)] \in InviteValue
        /\ db'[Invited(c, w)] = [db[Invited(c, w)] EXCEPT !.recent = FALSE]
        /\ \A r \in Row : r # Invited(c, w) => db'[r] = db[r]
  BY WindowLeaves
<1>2. UNCHANGED <<pending, req, pc, seen>>
  BY DEF WindowPasses
<1>3. Does(q, s, i) /\ Looks(q, s)
  BY Programs DEF Proceeds
<1>4. \A v \in Warrior : db'[Member(q.tribe, v)] = db[Member(q.tribe, v)]
  BY <1>1, AskFields, Tables, Table
<1>5. s.do \in {"select", "require"} => db'[s.row] \in s.ok
  <2>1. CASE s.do = "select"
    BY <1>1, <1>3, <2>1 DEF Looks, Reads, Found
  <2>2. CASE s.do = "require"
    BY <1>3, <1>4, <2>2 DEF Looks, Found
  <2>3. QED
    BY <2>1, <2>2
<1>6. s.do = "outranked" => db'[s.row] # NotMember /\ db'[s.row] < db'[Member(q.tribe, q.by)]
  BY <1>3, <1>4, AskFields DEF Looks, Found
<1>7. s.do = "canInvite" => db'[s.row] >= rankToInvite
  BY <1>3, <1>4 DEF Looks, Found
<1>8. s.do = "selectOld" => db'[s.row].recent = FALSE
  <2> SUFFICES ASSUME s.do = "selectOld" PROVE db'[s.row].recent = FALSE
    OBVIOUS
  <2>1. s.row \in Row /\ db[s.row].recent = FALSE
    BY <1>3 DEF Looks, Reads, Found
  <2>2. CASE s.row = Invited(c, w)
    BY <1>1, <2>2 DEF InviteValue
  <2>3. CASE s.row # Invited(c, w)
    BY <1>1, <2>1, <2>3
  <2>4. QED
    BY <2>2, <2>3
<1>9. s.do = "insert" => s.row \in Row /\ (db'[s.row] = AbsentValue(s.row) <=> db[s.row] = AbsentValue(s.row))
  <2> SUFFICES ASSUME s.do = "insert"
               PROVE  s.row \in Row /\ (db'[s.row] = AbsentValue(s.row) <=> db[s.row] = AbsentValue(s.row))
    OBVIOUS
  <2>1. s.row \in Row
    BY <1>3 DEF Does
  <2>2. CASE s.row = Invited(c, w)
    <3>1. AbsentValue(s.row) = NoInvite
      BY <2>2, Values
    <3>2. NoInvite \notin InviteValue
      BY DEF NoInvite, InviteValue
    <3>3. QED
      BY <1>1, <2>1, <2>2, <3>1, <3>2
  <2>3. CASE s.row # Invited(c, w)
    BY <1>1, <2>1, <2>3
  <2>4. QED
    BY <2>2, <2>3
<1>10. s.do = "update" => (db'[s.row] \in DOMAIN s.to <=> db[s.row] \in DOMAIN s.to)
  <2> SUFFICES ASSUME s.do = "update" PROVE db'[s.row] \in DOMAIN s.to <=> db[s.row] \in DOMAIN s.to
    OBVIOUS
  <2>1. s.row \in Row
    BY <1>3 DEF Does
  <2>2. CASE s.row = Invited(c, w)
    BY <1>1, <1>3, <2>2 DEF Looks
  <2>3. CASE s.row # Invited(c, w)
    BY <1>1, <2>1, <2>3
  <2>4. QED
    BY <2>2, <2>3
<1>11. QED
  BY <1>2, <1>5, <1>6, <1>7, <1>8, <1>9, <1>10 DEF Found

LEMMA WindowPassed ==
  ASSUME IInv, NEW k \in Worker, NEW q \in Asks, Passed(k, q), WindowPasses
  PROVE  Passed(k, q)'
<1>1. \A r \in Row : r[1] # "clan_invites" => db'[r] = db[r]
  BY WindowKeepsRest
<1>2. /\ \A v \in Warrior : /\ db'[Member(q.tribe, v)] = db[Member(q.tribe, v)]
                            /\ db'[Vote(q.tribe, v)] = db[Vote(q.tribe, v)]
                            /\ db'[Account(v)] = db[Account(v)]
      /\ q.by \in Warrior
  BY <1>1, AskFields, Tables, Table
<1>3. UNCHANGED <<pending, req, pc, seen>>
  BY DEF WindowPasses
<1>4. Behind(k, q)'
  <2>1. ASSUME NEW i \in 1 .. Len(Program(q)), i < pc[k] PROVE Found(k, q, Program(q)[i])'
    <3>1. PICK s : s = Program(q)[i]
      OBVIOUS
    <3>2. Found(k, q, s)
      BY <2>1, <3>1 DEF Passed, Behind
    <3>3. Found(k, q, s)'
      BY <3>1, <3>2, WindowFinds
    <3>4. QED
      BY <3>1, <3>3
  <2>2. QED
    BY <1>3, <2>1 DEF Behind
<1>5. Led(q.tribe)' = Led(q.tribe) /\ Voters(q)' = Voters(q)
  BY <1>2 DEF Led, Voters
<1>6. Enough(q)' <=> Enough(q)
  BY <1>5 DEF Enough
<1>7. q.op = "disband" => Counted(k, q)'
  BY <1>2, <1>3, <1>5, <1>6 DEF Passed, Counted
<1>8. QED
  BY <1>2, <1>3, <1>4, <1>7 DEF Passed

LEMMA AloneHolds == Init => Alone
<1> SUFFICES ASSUME Init PROVE Alone
  OBVIOUS
<1>1. seen = [k \in Worker |-> 0] /\ req = [k \in Worker |-> NoRequest]
  BY DEF Init
<1>2. QED
  BY <1>1, AskFields DEF Alone

LEMMA AloneKept ==
  ASSUME NEW k, Worker = {k}
  PROVE  IInv /\ Alone /\ [Next]_vars => Alone'
<1> SUFFICES ASSUME IInv, Alone, [Next]_vars PROVE Alone'
  OBVIOUS
<1>1. seen' = [j \in Worker |-> seen'[j]]
  <2>1. CASE \E j \in Worker : Begin(j) \/ Step(j) \/ Fault(j)
    BY <2>1, SeenStep DEF Alone
  <2>2. CASE WindowPasses \/ UNCHANGED vars
    BY <2>2 DEF WindowPasses, vars, Alone
  <2>3. QED
    BY <2>1, <2>2 DEF Next
<1>2. ASSUME NEW q \in Asks, req'[k] = q PROVE Passed(k, q)'
  <2>1. CASE Step(k)
    BY <1>2, <2>1, StepPasses
  <2>2. CASE Begin(k)
    <3>1. pc'[k] = 1
      BY <2>2 DEF Begin, IInv, Types
    <3>2. \A i \in 1 .. Len(Program(q)) : ~(i < 1)
      OBVIOUS
    <3>3. QED
      BY <3>1, <3>2 DEF Passed, Behind, Counted
  <2>3. CASE Fault(k)
    BY <1>2, <2>3, NotEnded DEF Fault
  <2>4. CASE WindowPasses
    <3>1. req[k] = q
      BY <1>2, <2>4 DEF WindowPasses
    <3>2. QED
      BY <2>4, <3>1, WindowPassed DEF Alone
  <2>5. CASE UNCHANGED vars
    <3>1. Passed(k, q)
      BY <1>2, <2>5 DEF vars, Alone
    <3>2. UNCHANGED <<db, pending, pc, seen>>
      BY <2>5 DEF vars
    <3>3. QED
      BY <3>1, <3>2 DEF Passed, Behind, Found, Counted, Enough, Voters, Led
  <2>6. QED
    BY <2>1, <2>2, <2>3, <2>4, <2>5 DEF Next
<1>3. QED
  BY <1>1, <1>2 DEF Alone

-----------------------------------------------------------------------------
(* The variables of Tribes, read off the committed tables.                   *)
StatusT     == [c \in Tribe |-> db[Clan(c)].status]
RecruitingT == [c \in Tribe |-> db[Clan(c)].recruiting]
RankT       == [c \in Tribe |-> [w \in Warrior |-> db[Member(c, w)]]]
InviteT     == [c \in Tribe |-> [w \in Warrior |-> db[Invited(c, w)]]]
VoteT       == [c \in Tribe |-> {w \in Warrior : db[Vote(c, w)]}]
WornT       == [w \in Warrior |-> db[Account(w)]]

(* One row of the members, or of the invitations, is now x.                  *)
MemberSet(c, w, x) ==
  \A d \in Tribe, v \in Warrior :
    db'[Member(d, v)] = IF d = c /\ v = w THEN x ELSE db[Member(d, v)]
InviteSet(c, w, x) ==
  \A d \in Tribe, v \in Warrior :
    db'[Invited(d, v)] = IF d = c /\ v = w THEN x ELSE db[Invited(d, v)]

SameClans   == \A c \in Tribe : db'[Clan(c)] = db[Clan(c)]
SameRanks   == \A c \in Tribe, w \in Warrior : db'[Member(c, w)] = db[Member(c, w)]
SameInvites == \A c \in Tribe, w \in Warrior : db'[Invited(c, w)] = db[Invited(c, w)]
SameVotes   == \A c \in Tribe, w \in Warrior : db'[Vote(c, w)] = db[Vote(c, w)]
SameTags    == \A w \in Warrior : db'[Account(w)] = db[Account(w)]

LEMMA SameT ==
  /\ SameClans => StatusT' = StatusT /\ RecruitingT' = RecruitingT
  /\ SameRanks => RankT' = RankT
  /\ SameInvites => InviteT' = InviteT
  /\ SameVotes => VoteT' = VoteT
  /\ SameTags => WornT' = WornT
<1>1. SameClans => StatusT' = StatusT /\ RecruitingT' = RecruitingT
  BY DEF SameClans, StatusT, RecruitingT
<1>2. SameRanks => RankT' = RankT
  BY DEF SameRanks, RankT
<1>3. SameInvites => InviteT' = InviteT
  BY DEF SameInvites, InviteT
<1>4. SameVotes => VoteT' = VoteT
  BY DEF SameVotes, VoteT
<1>5. SameTags => WornT' = WornT
  BY DEF SameTags, WornT
<1>6. QED
  BY <1>1, <1>2, <1>3, <1>4, <1>5

LEMMA ClanT ==
  ASSUME NEW c \in Tribe, \A d \in Tribe \ {c} : db'[Clan(d)] = db[Clan(d)]
  PROVE  /\ StatusT' = [StatusT EXCEPT ![c] = db'[Clan(c)].status]
         /\ RecruitingT' = [RecruitingT EXCEPT ![c] = db'[Clan(c)].recruiting]
BY DEF StatusT, RecruitingT

LEMMA MemberT ==
  ASSUME NEW c \in Tribe, NEW w \in Warrior, NEW x,
         MemberSet(c, w, x)
  PROVE  RankT' = [RankT EXCEPT ![c][w] = x]
<1>1. RankT' = [d \in Tribe |-> [v \in Warrior |-> IF d = c /\ v = w THEN x ELSE db[Member(d, v)]]]
  BY DEF RankT, MemberSet
<1>2. [RankT EXCEPT ![c][w] = x]
        = [d \in Tribe |-> [v \in Warrior |-> IF d = c /\ v = w THEN x ELSE db[Member(d, v)]]]
  BY DEF RankT
<1>3. QED
  BY <1>1, <1>2

LEMMA InvitedT ==
  ASSUME NEW c \in Tribe, NEW w \in Warrior, NEW x,
         InviteSet(c, w, x)
  PROVE  InviteT' = [InviteT EXCEPT ![c][w] = x]
<1>1. InviteT' = [d \in Tribe |-> [v \in Warrior |-> IF d = c /\ v = w THEN x ELSE db[Invited(d, v)]]]
  BY DEF InviteT, InviteSet
<1>2. [InviteT EXCEPT ![c][w] = x]
        = [d \in Tribe |-> [v \in Warrior |-> IF d = c /\ v = w THEN x ELSE db[Invited(d, v)]]]
  BY DEF InviteT
<1>3. QED
  BY <1>1, <1>2

LEMMA TagT ==
  ASSUME NEW w \in Warrior, NEW x,
         \A v \in Warrior : db'[Account(v)] = IF v = w THEN x ELSE db[Account(v)]
  PROVE  WornT' = [WornT EXCEPT ![w] = x]
BY DEF WornT

(* What a request may change of each table.                                  *)
LEMMA ClanChange ==
  ASSUME NEW q \in Asks, NEW c, NEW old, NEW new
  PROVE  Change(q, Clan(c), old, new) =>
           /\ c = q.tribe
           /\ \/ q.op = "create" /\ old = NoClan /\ new = [status |-> "active", recruiting |-> q.flag]
              \/ q.op = "recruit" /\ new = [old EXCEPT !.recruiting = q.flag]
              \/ q.op = "disband" /\ new = [old EXCEPT !.status = "disbanded"]
BY DEF Change, Clan, Member, OwnRow, InviteRow, Invited, Vote, Account

LEMMA MemberChange ==
  ASSUME NEW q \in Asks, NEW c, NEW w, NEW old, NEW new
  PROVE  Change(q, Member(c, w), old, new) =>
           /\ c = q.tribe
           /\ \/ q.op = "create" /\ w = q.by /\ new = RankLeader
              \/ q.op = "setRank" /\ w = q.target /\ new = q.rank
              \/ q.op \in {"kick", "leave"} /\ w = q.target /\ new = NotMember
              \/ q.op \in {"accept", "admit"} /\ w = q.target /\ old = NotMember /\ new = RankRecruit
BY DEF Change, Clan, Member, OwnRow, InviteRow, Invited, Vote, Account

LEMMA InviteChange ==
  ASSUME NEW q \in Asks, NEW c, NEW w, NEW old, NEW new
  PROVE  Change(q, Invited(c, w), old, new) =>
           /\ c = q.tribe /\ w = q.target
           /\ \/ q.op \in {"invite", "request"} /\ old = NoInvite /\ new = [kind |-> q.op, recent |-> TRUE]
              \/ q.op \in {"request", "accept", "reject", "cancel", "admit", "decline"} /\ new = NoInvite
BY DEF Change, Clan, Member, OwnRow, InviteRow, Invited, Vote, Account

LEMMA VoteChange ==
  ASSUME NEW q \in Asks, NEW c, NEW w, NEW old, NEW new
  PROVE  Change(q, Vote(c, w), old, new) =>
           /\ c = q.tribe /\ w = q.by
           /\ \/ q.op = "disband" /\ new = TRUE
              \/ q.op = "withdraw" /\ new = FALSE
BY DEF Change, Clan, Member, OwnRow, InviteRow, Invited, Vote, Account

LEMMA TagChange ==
  ASSUME NEW q \in Asks, NEW w, NEW old, NEW new
  PROVE  Change(q, Account(w), old, new) =>
           \/ q.op \in {"kick", "leave"} /\ w = q.target /\ old = q.tribe /\ new = NoTribe
           \/ q.op = "disband" /\ old = q.tribe /\ new = NoTribe
           \/ q.op = "wear" /\ w = q.by /\ new = q.tribe
           \/ q.op = "unwear" /\ w = q.by /\ new = NoTribe
BY DEF Change, Clan, Member, OwnRow, InviteRow, Invited, Vote, Account

-----------------------------------------------------------------------------
(* What a commit does: the rows written are as the request may change them,  *)
(* and all its statements have been passed.                                  *)
Settled(k, q) ==
  /\ Passed(k, q) /\ pc[k] = Len(Program(q)) + 1
  /\ \A i \in 1 .. Len(Program(q)) : Found(k, q, Program(q)[i])
  /\ \A r \in Row : pending[k][r] = Unwritten => db'[r] = db[r]
  /\ \A r \in Row : pending[k][r] # Unwritten =>
       /\ db'[r] = pending[k][r]
       /\ IF q.op = "request" THEN r = InviteRow(q) ELSE Change(q, r, db[r], db'[r])

LEMMA Settles ==
  ASSUME IInv, Alone, NEW k \in Worker, Commit(k)
  PROVE  \E q \in Asks : Settled(k, q)
<1>1. PICK q \in Asks : req[k] = q
  BY Committing
<1>2. Passed(k, q) /\ pc[k] = Len(Program(q)) + 1 /\ Len(Program(q)) \in Nat
  BY <1>1, Committing, Programs DEF Alone, Proceeds
<1>3. \A i \in 1 .. Len(Program(q)) : i < pc[k]
  BY <1>2
<1>4. \A i \in 1 .. Len(Program(q)) : Found(k, q, Program(q)[i])
  BY <1>2, <1>3 DEF Passed, Behind
<1>5. ASSUME NEW r \in Row, pending[k][r] # Unwritten
      PROVE  /\ db'[r] = pending[k][r]
             /\ IF q.op = "request" THEN r = InviteRow(q) ELSE Change(q, r, db[r], db'[r])
  BY <1>1, <1>5, Committing, HeldChange
<1>6. \A r \in Row : pending[k][r] = Unwritten => db'[r] = db[r]
  BY Committing
<1>7. QED
  BY <1>2, <1>4, <1>5, <1>6 DEF Settled

LEMMA Untouched ==
  ASSUME NEW k \in Worker, NEW q \in Asks, Settled(k, q)
  PROVE  /\ q.op \notin {"create", "recruit", "disband"} => SameClans
         /\ q.op \notin {"create", "setRank", "kick", "leave", "accept", "admit"} => SameRanks
         /\ q.op \notin {"invite", "request", "accept", "reject", "cancel", "admit", "decline"} => SameInvites
         /\ q.op \notin {"disband", "withdraw"} => SameVotes
         /\ q.op \notin {"kick", "leave", "disband", "wear", "unwear"} => SameTags
         /\ \A c \in Tribe \ {q.tribe} : db'[Clan(c)] = db[Clan(c)]
         /\ \A c \in Tribe, w \in Warrior : c # q.tribe \/ w # q.target =>
              db'[Member(c, w)] = db[Member(c, w)] /\ db'[Invited(c, w)] = db[Invited(c, w)]
         /\ \A c \in Tribe, w \in Warrior : c # q.tribe \/ w # q.by => db'[Vote(c, w)] = db[Vote(c, w)]
         /\ q.op # "disband" =>
              \A w \in Warrior \ {q.target} : db'[Account(w)] = db[Account(w)]
<1>1. q.op \in OwnOps => q.target = q.by
  BY AskFields
<1>2. ASSUME NEW r \in Row, db'[r] # db[r]
      PROVE  IF q.op = "request" THEN r = InviteRow(q) ELSE Change(q, r, db[r], db'[r])
  BY <1>2 DEF Settled
<1>3. ASSUME NEW c \in Tribe, db'[Clan(c)] # db[Clan(c)]
      PROVE  c = q.tribe /\ q.op \in {"create", "recruit", "disband"}
  <2>1. Clan(c) \in Row /\ Clan(c) # InviteRow(q)
    BY Tables, Table DEF InviteRow
  <2>2. QED
    BY <1>2, <1>3, <2>1, ClanChange
<1>4. ASSUME NEW c \in Tribe, NEW w \in Warrior, db'[Member(c, w)] # db[Member(c, w)]
      PROVE  c = q.tribe /\ w = q.target /\ q.op \in {"create", "setRank", "kick", "leave", "accept", "admit"}
  <2>1. Member(c, w) \in Row /\ Member(c, w) # InviteRow(q)
    BY Tables, Table DEF InviteRow
  <2>2. Change(q, Member(c, w), db[Member(c, w)], db'[Member(c, w)])
    BY <1>2, <1>4, <2>1
  <2>3. QED
    BY <1>1, <2>2, MemberChange DEF OwnOps
<1>5. ASSUME NEW c \in Tribe, NEW w \in Warrior, db'[Invited(c, w)] # db[Invited(c, w)]
      PROVE  /\ c = q.tribe /\ w = q.target
             /\ q.op \in {"invite", "request", "accept", "reject", "cancel", "admit", "decline"}
  <2>1. Invited(c, w) \in Row
    BY Tables
  <2>2. CASE q.op = "request"
    BY <1>2, <1>5, <2>1, <2>2, Keys DEF InviteRow
  <2>3. CASE q.op # "request"
    BY <1>2, <1>5, <2>1, <2>3, InviteChange
  <2>4. QED
    BY <2>2, <2>3
<1>6. ASSUME NEW c \in Tribe, NEW w \in Warrior, db'[Vote(c, w)] # db[Vote(c, w)]
      PROVE  c = q.tribe /\ w = q.by /\ q.op \in {"disband", "withdraw"}
  <2>1. Vote(c, w) \in Row /\ Vote(c, w) # InviteRow(q)
    BY Tables, Table DEF InviteRow
  <2>2. QED
    BY <1>2, <1>6, <2>1, VoteChange
<1>7. ASSUME NEW w \in Warrior, db'[Account(w)] # db[Account(w)]
      PROVE  /\ q.op # "disband" => w = q.target
             /\ q.op \in {"kick", "leave", "disband", "wear", "unwear"}
  <2>1. Account(w) \in Row /\ Account(w) # InviteRow(q)
    BY Tables, Table DEF InviteRow
  <2>2. Change(q, Account(w), db[Account(w)], db'[Account(w)])
    BY <1>2, <1>7, <2>1
  <2>3. QED
    BY <1>1, <2>2, TagChange DEF OwnOps
<1>8. QED
  BY <1>3, <1>4, <1>5, <1>6, <1>7 DEF SameClans, SameRanks, SameInvites, SameVotes, SameTags

(* What a settled request found of the rows, in the terms of Tribes.         *)
LEMMA FoundT ==
  ASSUME NEW k \in Worker, NEW q \in Asks, Settled(k, q), NEW i \in 1 .. Len(Program(q)), NEW s, s = Program(q)[i]
  PROVE  /\ s = FindClan(q) => StatusT[q.tribe] = "active"
         /\ s.do = "require" /\ s.row = Member(q.tribe, q.by) => RankT[q.tribe][q.by] \in s.ok
<1>1. Found(k, q, s) /\ q.tribe \in Tribe /\ q.by \in Warrior
  BY AskFields DEF Settled
<1>2. s = FindClan(q) => s.do = "select" /\ s.row = Clan(q.tribe) /\ s.ok = ActiveClan
  BY DEF FindClan, Select
<1>3. QED
  BY <1>1, <1>2 DEF Found, ActiveClan, StatusT, RankT

(* What the statements the methods share have done by the commit.            *)
LEMMA WrittenT ==
  ASSUME IInv, NEW k \in Worker, NEW q \in Asks, Settled(k, q), q.op \notin {"request", "disband"},
         NEW i \in 1 .. Len(Program(q)), NEW s, s = Program(q)[i]
  PROVE  /\ s.do = "update" /\ (s.miss = "refuse" \/ db[s.row] \in DOMAIN s.to) =>
              db[s.row] \in DOMAIN s.to /\ Change(q, s.row, db[s.row], db'[s.row])
         /\ s.do = "insert" /\ (s.clash = "fault" \/ db[s.row] = AbsentValue(s.row)) =>
              Change(q, s.row, db[s.row], db'[s.row])
<1>1. Found(k, q, s) /\ Does(q, s, i)
  BY Programs DEF Settled, Proceeds
<1>2. s.do \in {"insert", "update"} => s.row \in Row
  BY <1>1 DEF Does
<1>3. \A r \in Row : pending[k][r] # Unwritten => Change(q, r, db[r], db'[r])
  BY DEF Settled
<1>4. QED
  BY <1>1, <1>2, <1>3 DEF Found

LEMMA DeletedMemberT ==
  ASSUME IInv, NEW k \in Worker, NEW q \in Asks, Settled(k, q), q.op \in {"kick", "leave"},
         NEW i \in 1 .. Len(Program(q)), NEW s, s = Program(q)[i],
         s = deleteMember(q, "refuse") \/ (s = deleteMember(q, "skip") /\ db[Member(q.tribe, q.target)] # NotMember)
  PROVE  /\ RankT[q.tribe][q.target] \in Rank
         /\ RankT' = [RankT EXCEPT ![q.tribe][q.target] = NotMember]
<1>1. PICK c \in Tribe, w \in Warrior : c = q.tribe /\ w = q.target
  BY AskFields
<1>2. db[Member(c, w)] \in Rank \cup {NotMember}
  <2>1. Member(c, w) \in Row
    BY <1>1, Tables
  <2>2. db[Member(c, w)] \in Value(Member(c, w))
    BY <2>1 DEF IInv, Types
  <2>3. QED
    BY <2>2, Values
<1>3. s.do = "update" /\ s.row = Member(c, w) /\ DOMAIN s.to = Rank /\ s.miss \in {"skip", "refuse"}
  BY <1>1 DEF deleteMember, Set, Update
<1>4. s.miss = "refuse" \/ db[Member(c, w)] \in Rank
  BY <1>1, <1>2 DEF deleteMember, Set, Update
<1>5. db[Member(c, w)] \in Rank /\ Change(q, Member(c, w), db[Member(c, w)], db'[Member(c, w)])
  BY <1>3, <1>4, WrittenT
<1>6. db'[Member(c, w)] = NotMember
  <2>1. PICK old, new : old = db[Member(c, w)] /\ new = db'[Member(c, w)]
    OBVIOUS
  <2>2. Change(q, Member(c, w), old, new)
    BY <1>5, <2>1
  <2>3. new = NotMember
    BY <2>2, MemberChange
  <2>4. QED
    BY <2>1, <2>3
<1>7. MemberSet(c, w, NotMember)
  BY <1>1, <1>6, Untouched DEF MemberSet
<1>8. RankT' = [RankT EXCEPT ![c][w] = NotMember]
  BY <1>7, MemberT
<1>9. RankT[c][w] \in Rank
  BY <1>5 DEF RankT
<1>10. QED
  BY <1>1, <1>8, <1>9

LEMMA ClearedTagT ==
  ASSUME IInv, NEW k \in Worker, NEW q \in Asks, Settled(k, q), q.op \in {"kick", "leave"},
         NEW i \in 1 .. Len(Program(q)), Program(q)[i] = clearTagIf(q)
  PROVE  WornT' = IF WornT[q.target] = q.tribe THEN [WornT EXCEPT ![q.target] = NoTribe] ELSE WornT
<1>1. q.tribe \in Tribe /\ q.target \in Warrior
  BY AskFields
<1>2. PICK s : s = Program(q)[i]
  OBVIOUS
<1>3. s.do = "update" /\ s.row = Account(q.target) /\ DOMAIN s.to = {q.tribe}
  BY <1>2 DEF clearTagIf, Set, Update
<1>4. CASE db[Account(q.target)] = q.tribe
  <2>1. Change(q, Account(q.target), db[Account(q.target)], db'[Account(q.target)])
    BY <1>2, <1>3, <1>4, WrittenT
  <2>2. db'[Account(q.target)] = NoTribe
    BY <2>1, TagChange
  <2>3. \A v \in Warrior : db'[Account(v)] = IF v = q.target THEN NoTribe ELSE db[Account(v)]
    BY <2>2, Untouched
  <2>4. QED
    BY <1>1, <1>4, <2>3, TagT DEF WornT
<1>5. CASE db[Account(q.target)] # q.tribe
  <2>1. db'[Account(q.target)] = db[Account(q.target)]
    <3>1. Account(q.target) \in Row
      BY <1>1, Tables
    <3>2. CASE pending[k][Account(q.target)] # Unwritten
      <4>1. Change(q, Account(q.target), db[Account(q.target)], db'[Account(q.target)])
        BY <3>1, <3>2 DEF Settled
      <4>2. QED
        BY <1>5, <4>1, TagChange
    <3>3. QED
      BY <3>1, <3>2 DEF Settled
  <2>2. SameTags
    BY <2>1, Untouched DEF SameTags
  <2>3. QED
    BY <1>1, <1>5, <2>2, SameT DEF WornT
<1>6. QED
  BY <1>4, <1>5

LEMMA KickT ==
  ASSUME IInv, NEW k \in Worker, NEW q \in Asks, Settled(k, q), q.op = "kick"
  PROVE  T!Kick(q.by, q.tribe, q.target)
<1>1. /\ Len(Program(q)) = 5 /\ Program(q)[1] = FindClan(q)
      /\ Program(q)[2] = requireRank(q, rankToPromote) /\ Program(q)[3] = Outranked(OwnRow(q))
      /\ Program(q)[4] = deleteMember(q, "skip") /\ Program(q)[5] = clearTagIf(q)
  BY DEF Program, Kick, OwnRow
<1>2. 1 \in 1 .. Len(Program(q)) /\ 2 \in 1 .. Len(Program(q)) /\ 3 \in 1 .. Len(Program(q))
      /\ 4 \in 1 .. Len(Program(q)) /\ 5 \in 1 .. Len(Program(q))
  BY <1>1
<1>3. q.tribe \in Tribe /\ q.by \in Warrior /\ q.target \in Warrior
  BY AskFields
<1>4. StatusT[q.tribe] = "active"
  BY <1>1, <1>2, FoundT
<1>5. RankT[q.tribe][q.by] \in rankToPromote .. RankLeader
  <2>1. PICK s : s = Program(q)[2]
    OBVIOUS
  <2>2. s.do = "require" /\ s.row = Member(q.tribe, q.by) /\ s.ok = rankToPromote .. RankLeader
    BY <1>1, <2>1 DEF requireRank, Require
  <2>3. QED
    BY <1>2, <2>1, <2>2, FoundT
<1>6. RankT[q.tribe][q.target] # NotMember /\ RankT[q.tribe][q.target] < RankT[q.tribe][q.by]
  <2>1. PICK s : s = Program(q)[3]
    OBVIOUS
  <2>2. s.do = "outranked" /\ s.row = Member(q.tribe, q.target)
    BY <1>1, <2>1 DEF Outranked, OwnRow
  <2>3. Found(k, q, s)
    BY <1>2, <2>1 DEF Settled
  <2>4. QED
    BY <1>3, <2>2, <2>3 DEF Found, RankT
<1>7. db[Member(q.tribe, q.target)] # NotMember
  BY <1>3, <1>6 DEF RankT
<1>8. RankT[q.tribe][q.target] \in Rank /\ RankT' = [RankT EXCEPT ![q.tribe][q.target] = NotMember]
  BY <1>1, <1>2, <1>7, DeletedMemberT
<1>9. WornT' = IF WornT[q.target] = q.tribe THEN [WornT EXCEPT ![q.target] = NoTribe] ELSE WornT
  BY <1>1, <1>2, ClearedTagT
<1>10. StatusT' = StatusT /\ RecruitingT' = RecruitingT /\ InviteT' = InviteT /\ VoteT' = VoteT
  BY Untouched, SameT
<1>11. QED
  BY <1>4, <1>5, <1>6, <1>8, <1>9, <1>10 DEF T!Kick, T!FindClan, T!requireRank, T!IsMember, T!clearTagIf,
     StatusT, RecruitingT, RankT, InviteT, VoteT, WornT, Rank, T!RankRecruit, T!rankToPromote, rankToPromote, RankLeader,
     RankRecruit, T!NotMember, NotMember

LEMMA ReadT ==
  ASSUME IInv, NEW c \in Tribe, NEW w \in Warrior
  PROVE  /\ db[Clan(c)] \in ClanValue
         /\ RankT[c][w] \in Rank \cup {NotMember} /\ RankT[c][w] = db[Member(c, w)]
         /\ InviteT[c][w] \in InviteValue \cup {NoInvite} /\ InviteT[c][w] = db[Invited(c, w)]
         /\ WornT[w] \in Tribe \cup {NoTribe} /\ WornT[w] = db[Account(w)]
<1>1. /\ Clan(c) \in Row /\ Member(c, w) \in Row /\ Invited(c, w) \in Row /\ Account(w) \in Row
  BY Tables
<1>2. /\ db[Clan(c)] \in Value(Clan(c)) /\ db[Member(c, w)] \in Value(Member(c, w))
      /\ db[Invited(c, w)] \in Value(Invited(c, w)) /\ db[Account(w)] \in Value(Account(w))
  BY <1>1 DEF IInv, Types
<1>3. QED
  BY <1>2, Values DEF RankT, InviteT, WornT

LEMMA InsertedMemberT ==
  ASSUME IInv, NEW k \in Worker, NEW q \in Asks, Settled(k, q), q.op \in {"accept", "admit"},
         NEW i \in 1 .. Len(Program(q)), NEW s, s = Program(q)[i], s = insertRecruit(q)
  PROVE  RankT' = IF RankT[q.tribe][q.target] = NotMember
                  THEN [RankT EXCEPT ![q.tribe][q.target] = RankRecruit] ELSE RankT
<1>1. PICK c \in Tribe, w \in Warrior : c = q.tribe /\ w = q.target
  BY AskFields
<1>2. RankT[c][w] = db[Member(c, w)] /\ AbsentValue(Member(c, w)) = NotMember /\ Member(c, w) \in Row
  BY ReadT, Values, Tables
<1>3. s.do = "insert" /\ s.row = Member(c, w)
  BY <1>1 DEF insertRecruit, Insert
<1>4. PICK old, new : old = db[Member(c, w)] /\ new = db'[Member(c, w)]
  OBVIOUS
<1>5. CASE old = NotMember
  <2>1. Change(q, Member(c, w), db[Member(c, w)], db'[Member(c, w)])
    BY <1>2, <1>3, <1>4, <1>5, WrittenT
  <2>2. Change(q, Member(c, w), old, new)
    BY <1>4, <2>1
  <2>3. new = RankRecruit
    BY <2>2, MemberChange
  <2>4. MemberSet(c, w, RankRecruit)
    BY <1>1, <1>4, <2>3, Untouched DEF MemberSet
  <2>5. RankT' = [RankT EXCEPT ![c][w] = RankRecruit]
    BY <2>4, MemberT
  <2>6. QED
    BY <1>1, <1>2, <1>4, <1>5, <2>5
<1>6. CASE old # NotMember
  <2>1. new = old
    <3>1. ~Change(q, Member(c, w), old, new)
      BY <1>6, MemberChange
    <3>2. QED
      BY <1>2, <1>4, <3>1 DEF Settled
  <2>2. SameRanks
    BY <1>1, <1>4, <2>1, Untouched DEF SameRanks
  <2>3. QED
    BY <1>1, <1>2, <1>4, <1>6, <2>2, SameT
<1>7. QED
  BY <1>5, <1>6

LEMMA InviteGoes ==
  ASSUME NEW q \in Asks, q.op \notin {"invite", "request"}, NEW c, NEW w, NEW old, NEW new,
         Change(q, Invited(c, w), old, new)
  PROVE  new = NoInvite
BY Table DEF Change, OwnRow, InviteRow, Clan, Member, Vote, Account, Invited

LEMMA DeletedInviteT ==
  ASSUME IInv, NEW k \in Worker, NEW q \in Asks, Settled(k, q),
         q.op \in {"accept", "reject", "cancel", "admit", "decline"},
         NEW i \in 1 .. Len(Program(q)), NEW s, s = Program(q)[i],
         s = deleteInvite(q, "refuse") \/ s = deleteInvite(q, "skip")
  PROVE  /\ InviteT' = [InviteT EXCEPT ![q.tribe][q.target] = NoInvite]
         /\ s = deleteInvite(q, "refuse") => InviteT[q.tribe][q.target] # NoInvite
<1>1. PICK c \in Tribe, w \in Warrior : c = q.tribe /\ w = q.target
  BY AskFields
<1>2. /\ InviteT[c][w] = db[Invited(c, w)] /\ db[Invited(c, w)] \in InviteValue \cup {NoInvite}
      /\ Invited(c, w) \in Row
  BY ReadT, Tables
<1>3. /\ s.do = "update" /\ s.row = Invited(c, w) /\ DOMAIN s.to = InviteValue
      /\ s = deleteInvite(q, "refuse") => s.miss = "refuse"
  BY <1>1 DEF deleteInvite, Set, Update
<1>4. PICK old, new : old = db[Invited(c, w)] /\ new = db'[Invited(c, w)]
  OBVIOUS
<1>5. NoInvite \notin InviteValue
  BY DEF NoInvite, InviteValue
<1>6. s = deleteInvite(q, "refuse") => old # NoInvite
  <2> SUFFICES ASSUME s = deleteInvite(q, "refuse") PROVE old # NoInvite
    OBVIOUS
  <2>1. db[s.row] \in DOMAIN s.to
    BY <1>3, WrittenT
  <2>2. QED
    BY <1>3, <1>4, <1>5, <2>1
<1>7. new = NoInvite
  <2> q.op \notin {"invite", "request"}
    OBVIOUS
  <2>1. CASE old \in InviteValue
    <3>1. Change(q, Invited(c, w), db[Invited(c, w)], db'[Invited(c, w)])
      BY <1>2, <1>3, <1>4, <2>1, WrittenT
    <3>2. Change(q, Invited(c, w), old, new)
      BY <1>4, <3>1
    <3>3. QED
      BY <3>2, InviteGoes
  <2>2. CASE old = NoInvite
    <3>1. Change(q, Invited(c, w), old, new) => new = NoInvite
      BY InviteGoes
    <3>2. QED
      BY <1>2, <1>4, <2>2, <3>1 DEF Settled
  <2>3. QED
    BY <1>2, <1>4, <2>1, <2>2
<1>8. InviteSet(c, w, NoInvite)
  BY <1>1, <1>4, <1>7, Untouched DEF InviteSet
<1>9. InviteT' = [InviteT EXCEPT ![c][w] = NoInvite]
  BY <1>8, InvitedT
<1>10. QED
  BY <1>1, <1>2, <1>4, <1>6, <1>9

LEMMA RequiredT ==
  ASSUME NEW k \in Worker, NEW q \in Asks, Settled(k, q), NEW i \in 1 .. Len(Program(q)),
         NEW min, Program(q)[i] = requireRank(q, min)
  PROVE  RankT[q.tribe][q.by] \in min .. RankLeader
<1>1. PICK s : s = Program(q)[i]
  OBVIOUS
<1>2. s.do = "require" /\ s.row = Member(q.tribe, q.by) /\ s.ok = min .. RankLeader
  BY <1>1 DEF requireRank, Require
<1>3. QED
  BY <1>1, <1>2, FoundT

-----------------------------------------------------------------------------
(* The commit of each method is the operation of Tribes.                     *)
LEMMA CreateT ==
  ASSUME IInv, NEW k \in Worker, NEW q \in Asks, Settled(k, q), q.op = "create"
  PROVE  T!CreateTribe(q.by, q.tribe, q.flag)
<1>1. /\ Len(Program(q)) = 3
      /\ Program(q)[2] = Insert(Clan(q.tribe), [status |-> "active", recruiting |-> q.flag], "fault")
      /\ Program(q)[3] = Insert(Member(q.tribe, q.by), RankLeader, "fault")
  BY DEF Program, CreateClan
<1>2. 2 \in 1 .. Len(Program(q)) /\ 3 \in 1 .. Len(Program(q))
  BY <1>1
<1>3. PICK c \in Tribe, w \in Warrior : c = q.tribe /\ w = q.by /\ w = q.target
  BY AskFields DEF OwnOps
<1>4. db[Clan(c)] = NoClan /\ db'[Clan(c)] = [status |-> "active", recruiting |-> q.flag]
  <2>1. PICK s : s = Program(q)[2]
    OBVIOUS
  <2>2. s.do = "insert" /\ s.clash = "fault" /\ s.row = Clan(c)
    BY <1>1, <1>3, <2>1 DEF Insert
  <2>3. Change(q, Clan(c), db[Clan(c)], db'[Clan(c)])
    BY <1>2, <2>1, <2>2, WrittenT
  <2>4. PICK old, new : old = db[Clan(c)] /\ new = db'[Clan(c)]
    OBVIOUS
  <2>5. Change(q, Clan(c), old, new)
    BY <2>3, <2>4
  <2>6. old = NoClan /\ new = [status |-> "active", recruiting |-> q.flag]
    BY <2>5, ClanChange
  <2>7. QED
    BY <2>4, <2>6
<1>5. db'[Member(c, w)] = RankLeader
  <2>1. PICK s : s = Program(q)[3]
    OBVIOUS
  <2>2. s.do = "insert" /\ s.clash = "fault" /\ s.row = Member(c, w)
    <3>1. s.do = "insert" /\ s.clash = "fault" /\ s.row = Member(q.tribe, q.by)
      BY <1>1, <2>1 DEF Insert
    <3>2. QED
      BY <1>3, <3>1
  <2>3. Change(q, Member(c, w), db[Member(c, w)], db'[Member(c, w)])
    BY <1>2, <2>1, <2>2, WrittenT
  <2>4. PICK old, new : old = db[Member(c, w)] /\ new = db'[Member(c, w)]
    OBVIOUS
  <2>5. Change(q, Member(c, w), old, new)
    BY <2>3, <2>4
  <2>6. new = RankLeader
    BY <2>5, MemberChange
  <2>7. QED
    BY <2>4, <2>6
<1>6. /\ StatusT' = [StatusT EXCEPT ![c] = "active"]
      /\ RecruitingT' = [RecruitingT EXCEPT ![c] = q.flag]
  <2>1. db'[Clan(c)].status = "active" /\ db'[Clan(c)].recruiting = q.flag
    BY <1>4
  <2>2. \A d \in Tribe \ {c} : db'[Clan(d)] = db[Clan(d)]
    BY <1>3, Untouched
  <2>3. QED
    BY <2>1, <2>2, ClanT
<1>7. RankT' = [RankT EXCEPT ![c][w] = RankLeader]
  <2>1. MemberSet(c, w, RankLeader)
    BY <1>3, <1>5, Untouched DEF MemberSet
  <2>2. QED
    BY <2>1, MemberT
<1>8. InviteT' = InviteT /\ VoteT' = VoteT /\ WornT' = WornT
  BY Untouched, SameT
<1>9. StatusT[c] = "unfounded"
  BY <1>4 DEF StatusT, NoClan
<1>10. QED
  BY <1>3, <1>6, <1>7, <1>8, <1>9 DEF T!CreateTribe, T!RankLeader, RankLeader,
     StatusT, RecruitingT, RankT, InviteT, VoteT, WornT

LEMMA RecruitT ==
  ASSUME IInv, NEW k \in Worker, NEW q \in Asks, Settled(k, q), q.op = "recruit"
  PROVE  T!SetClanRecruiting(q.by, q.tribe, q.flag)
<1>1. /\ Len(Program(q)) = 3 /\ Program(q)[1] = FindClan(q)
      /\ Program(q)[2] = requireRank(q, rankToEditInfo)
      /\ Program(q)[3] = Update(Clan(q.tribe), [v \in FoundedClan |-> [v EXCEPT !.recruiting = q.flag]], "skip")
  BY DEF Program, SetClanRecruiting
<1>2. 1 \in 1 .. Len(Program(q)) /\ 2 \in 1 .. Len(Program(q)) /\ 3 \in 1 .. Len(Program(q))
  BY <1>1
<1>3. PICK c \in Tribe, w \in Warrior : c = q.tribe /\ w = q.by
  BY AskFields
<1>4. StatusT[c] = "active"
  BY <1>1, <1>2, <1>3, FoundT
<1>5. RankT[c][w] \in rankToEditInfo .. RankLeader
  BY <1>1, <1>2, <1>3, RequiredT
<1>6. db[Clan(c)] \in FoundedClan
  BY <1>4, <1>3, ReadT DEF StatusT, FoundedClan
<1>7. db'[Clan(c)] = [db[Clan(c)] EXCEPT !.recruiting = q.flag]
  <2>1. PICK s : s = Program(q)[3]
    OBVIOUS
  <2>2. s.do = "update" /\ s.row = Clan(c) /\ DOMAIN s.to = FoundedClan
    BY <1>1, <1>3, <2>1 DEF Update
  <2>3. Change(q, Clan(c), db[Clan(c)], db'[Clan(c)])
    BY <1>2, <1>6, <2>1, <2>2, WrittenT
  <2>4. PICK old, new : old = db[Clan(c)] /\ new = db'[Clan(c)]
    OBVIOUS
  <2>5. Change(q, Clan(c), old, new)
    BY <2>3, <2>4
  <2>6. new = [old EXCEPT !.recruiting = q.flag]
    BY <2>5, ClanChange
  <2>7. QED
    BY <2>4, <2>6
<1>8. StatusT' = StatusT /\ RecruitingT' = [RecruitingT EXCEPT ![c] = q.flag]
  <2>1. PICK old : old = db[Clan(c)] /\ old \in ClanValue
    BY <1>3, ReadT
  <2>2. db'[Clan(c)].status = old.status /\ db'[Clan(c)].recruiting = q.flag
    BY <1>7, <2>1 DEF ClanValue
  <2>3. \A d \in Tribe \ {c} : db'[Clan(d)] = db[Clan(d)]
    BY <1>3, Untouched
  <2>4. /\ StatusT' = [StatusT EXCEPT ![c] = old.status]
        /\ RecruitingT' = [RecruitingT EXCEPT ![c] = q.flag]
    BY <2>2, <2>3, ClanT
  <2>5. StatusT[c] = old.status
    BY <2>1 DEF StatusT
  <2>6. QED
    BY <2>4, <2>5 DEF StatusT
<1>9. RankT' = RankT /\ InviteT' = InviteT /\ VoteT' = VoteT /\ WornT' = WornT
  BY Untouched, SameT
<1>10. QED
  BY <1>3, <1>4, <1>5, <1>8, <1>9 DEF T!SetClanRecruiting, T!FindClan, T!requireRank, T!IsMember, T!RankRecruit,
     T!rankToEditInfo, rankToEditInfo, RankLeader, StatusT, RecruitingT, RankT, InviteT, VoteT, WornT

LEMMA SetRankT ==
  ASSUME IInv, NEW k \in Worker, NEW q \in Asks, Settled(k, q), q.op = "setRank"
  PROVE  T!SetRank(q.by, q.tribe, q.target, q.rank)
<1>1. /\ Len(Program(q)) = 3 /\ Program(q)[1] = FindClan(q)
      /\ Program(q)[2] = Require(Member(q.tribe, q.by), {r \in rankToPromote .. RankLeader : q.rank <= r})
      /\ Program(q)[3] = Set(Member(q.tribe, q.target), Rank, q.rank, "refuse")
  BY DEF Program, SetRank
<1>2. 1 \in 1 .. Len(Program(q)) /\ 2 \in 1 .. Len(Program(q)) /\ 3 \in 1 .. Len(Program(q))
  BY <1>1
<1>3. PICK c \in Tribe, w \in Warrior : c = q.tribe /\ w = q.target /\ q.by \in Warrior
  BY AskFields
<1>4. StatusT[c] = "active"
  BY <1>1, <1>2, <1>3, FoundT
<1>5. RankT[c][q.by] \in rankToPromote .. RankLeader /\ q.rank <= RankT[c][q.by]
  <2>1. PICK s : s = Program(q)[2]
    OBVIOUS
  <2>2. /\ s.do = "require" /\ s.row = Member(q.tribe, q.by)
        /\ s.ok = {r \in rankToPromote .. RankLeader : q.rank <= r}
    BY <1>1, <2>1 DEF Require
  <2>3. RankT[c][q.by] \in s.ok
    BY <1>2, <1>3, <2>1, <2>2, FoundT
  <2>4. QED
    BY <2>2, <2>3
<1>6. db[Member(c, w)] \in Rank /\ db'[Member(c, w)] = q.rank
  <2>1. PICK s : s = Program(q)[3]
    OBVIOUS
  <2>2. s.do = "update" /\ s.row = Member(c, w) /\ DOMAIN s.to = Rank /\ s.miss = "refuse"
    BY <1>1, <1>3, <2>1 DEF Set, Update, Member
  <2>3. db[Member(c, w)] \in Rank /\ Change(q, Member(c, w), db[Member(c, w)], db'[Member(c, w)])
    BY <1>2, <2>1, <2>2, WrittenT
  <2>4. PICK old, new : old = db[Member(c, w)] /\ new = db'[Member(c, w)]
    OBVIOUS
  <2>5. Change(q, Member(c, w), old, new)
    BY <2>3, <2>4
  <2>6. new = q.rank
    BY <2>5, MemberChange
  <2>7. QED
    BY <2>3, <2>4, <2>6
<1>7. RankT' = [RankT EXCEPT ![c][w] = q.rank] /\ RankT[c][w] \in Rank
  <2>1. MemberSet(c, w, q.rank)
    BY <1>3, <1>6, Untouched DEF MemberSet
  <2>2. RankT' = [RankT EXCEPT ![c][w] = q.rank]
    BY <2>1, MemberT
  <2>3. QED
    BY <1>6, <2>2 DEF RankT
<1>8. StatusT' = StatusT /\ RecruitingT' = RecruitingT /\ InviteT' = InviteT /\ VoteT' = VoteT /\ WornT' = WornT
  BY Untouched, SameT
<1>9. QED
  BY <1>3, <1>4, <1>5, <1>7, <1>8 DEF T!SetRank, T!FindClan, T!requireRank, T!IsMember, T!RankRecruit, Rank,
     T!rankToPromote, rankToPromote, RankLeader, StatusT, RecruitingT, RankT, InviteT, VoteT, WornT

LEMMA LeaveT ==
  ASSUME IInv, NEW k \in Worker, NEW q \in Asks, Settled(k, q), q.op = "leave"
  PROVE  T!LeaveClan(q.target, q.tribe)
<1>1. /\ Len(Program(q)) = 3 /\ Program(q)[1] = FindClan(q)
      /\ Program(q)[2] = deleteMember(q, "refuse") /\ Program(q)[3] = clearTagIf(q)
  BY DEF Program, LeaveClan
<1>2. 1 \in 1 .. Len(Program(q)) /\ 2 \in 1 .. Len(Program(q)) /\ 3 \in 1 .. Len(Program(q))
  BY <1>1
<1>3. StatusT[q.tribe] = "active"
  BY <1>1, <1>2, FoundT
<1>4. RankT[q.tribe][q.target] \in Rank /\ RankT' = [RankT EXCEPT ![q.tribe][q.target] = NotMember]
  BY <1>1, <1>2, DeletedMemberT
<1>5. WornT' = IF WornT[q.target] = q.tribe THEN [WornT EXCEPT ![q.target] = NoTribe] ELSE WornT
  BY <1>1, <1>2, ClearedTagT
<1>6. StatusT' = StatusT /\ RecruitingT' = RecruitingT /\ InviteT' = InviteT /\ VoteT' = VoteT
  BY Untouched, SameT
<1>7. QED
  BY <1>3, <1>4, <1>5, <1>6 DEF T!LeaveClan, T!FindClan, T!IsMember, T!clearTagIf, T!RankRecruit, Rank,
     T!NotMember, NotMember, StatusT, RecruitingT, RankT, InviteT, VoteT, WornT

LEMMA TagSetT ==
  ASSUME IInv, NEW k \in Worker, NEW q \in Asks, Settled(k, q), q.op \in {"wear", "unwear"},
         NEW i \in 1 .. Len(Program(q)), NEW tag, Program(q)[i] = Set(Account(q.by), Tribe \cup {NoTribe}, tag, "skip")
  PROVE  WornT' = [WornT EXCEPT ![q.by] = IF q.op = "wear" THEN q.tribe ELSE NoTribe]
<1>1. PICK w \in Warrior : w = q.by /\ w = q.target
  BY AskFields DEF OwnOps
<1>2. PICK s : s = Program(q)[i]
  OBVIOUS
<1>3. s.do = "update" /\ s.row = Account(w) /\ DOMAIN s.to = Tribe \cup {NoTribe}
  <2>1. s.do = "update" /\ s.row = Account(q.by) /\ DOMAIN s.to = Tribe \cup {NoTribe}
    BY <1>2 DEF Set, Update
  <2>2. QED
    BY <1>1, <2>1
<1>4. db[Account(w)] \in Tribe \cup {NoTribe}
  <2>1. Account(w) \in Row
    BY Tables
  <2>2. db[Account(w)] \in Value(Account(w))
    BY <2>1 DEF IInv, Types
  <2>3. QED
    BY <2>2, Values
<1>5. Change(q, Account(w), db[Account(w)], db'[Account(w)])
  BY <1>2, <1>3, <1>4, WrittenT
<1>6. PICK new : new = db'[Account(w)]
  OBVIOUS
<1>7. Change(q, Account(w), db[Account(w)], new)
  BY <1>5, <1>6
<1>8. new = IF q.op = "wear" THEN q.tribe ELSE NoTribe
  BY <1>7, TagChange
<1>9. \A v \in Warrior : db'[Account(v)] = IF v = w THEN new ELSE db[Account(v)]
  BY <1>1, <1>6, Untouched
<1>10. WornT' = [WornT EXCEPT ![w] = new]
  BY <1>9, TagT
<1>11. QED
  BY <1>1, <1>8, <1>10

LEMMA WearT ==
  ASSUME IInv, NEW k \in Worker, NEW q \in Asks, Settled(k, q), q.op = "wear"
  PROVE  T!SetActiveClan(q.by, q.tribe)
<1>1. /\ Len(Program(q)) = 3 /\ Program(q)[1] = FindClan(q)
      /\ Program(q)[2] = Select(Member(q.tribe, q.by), Rank)
      /\ Program(q)[3] = Set(Account(q.by), Tribe \cup {NoTribe}, q.tribe, "skip")
  BY DEF Program, SetActiveClan
<1>2. 1 \in 1 .. Len(Program(q)) /\ 2 \in 1 .. Len(Program(q)) /\ 3 \in 1 .. Len(Program(q))
  BY <1>1
<1>3. StatusT[q.tribe] = "active"
  BY <1>1, <1>2, FoundT
<1>4. RankT[q.tribe][q.by] \in Rank
  <2>1. PICK s : s = Program(q)[2]
    OBVIOUS
  <2>2. s.do = "select" /\ s.row = Member(q.tribe, q.by) /\ s.ok = Rank
    BY <1>1, <2>1 DEF Select
  <2>3. Found(k, q, s)
    BY <1>2, <2>1 DEF Settled
  <2>4. QED
    BY <2>2, <2>3, AskFields DEF Found, RankT
<1>5. WornT' = [WornT EXCEPT ![q.by] = q.tribe]
  BY <1>1, <1>2, TagSetT
<1>6. StatusT' = StatusT /\ RecruitingT' = RecruitingT /\ RankT' = RankT /\ InviteT' = InviteT /\ VoteT' = VoteT
  BY Untouched, SameT
<1>7. QED
  BY <1>3, <1>4, <1>5, <1>6 DEF T!SetActiveClan, T!FindClan, T!IsMember, T!RankRecruit, Rank,
     StatusT, RecruitingT, RankT, InviteT, VoteT, WornT

LEMMA UnwearT ==
  ASSUME IInv, NEW k \in Worker, NEW q \in Asks, Settled(k, q), q.op = "unwear"
  PROVE  T!ClearActiveClan(q.by)
<1>1. Len(Program(q)) = 1 /\ Program(q)[1] = Set(Account(q.by), Tribe \cup {NoTribe}, NoTribe, "skip")
  BY DEF Program, ClearActiveClan
<1>2. 1 \in 1 .. Len(Program(q))
  BY <1>1
<1>3. WornT' = [WornT EXCEPT ![q.by] = NoTribe]
  BY <1>1, <1>2, TagSetT
<1>4. StatusT' = StatusT /\ RecruitingT' = RecruitingT /\ RankT' = RankT /\ InviteT' = InviteT /\ VoteT' = VoteT
  BY Untouched, SameT
<1>5. QED
  BY <1>3, <1>4 DEF T!ClearActiveClan, StatusT, RecruitingT, RankT, InviteT, VoteT, WornT

LEMMA InviteComes ==
  ASSUME NEW q \in Asks, q.op = "invite", NEW c, NEW w, NEW old, NEW new,
         Change(q, Invited(c, w), old, new)
  PROVE  new = [kind |-> q.op, recent |-> TRUE]
BY Table DEF Change, OwnRow, InviteRow, Clan, Member, Vote, Account, Invited

LEMMA InvitingT ==
  ASSUME IInv, NEW k \in Worker, NEW q \in Asks, Settled(k, q), q.op = "invite"
  PROVE  T!Invite(q.by, q.tribe, q.target) \/ UNCHANGED T!vars
<1>1. /\ Len(Program(q)) = 4 /\ Program(q)[1] = FindClan(q)
      /\ Program(q)[2] = requireRank(q, rankToInvite)
      /\ Program(q)[3] = Select(Member(q.tribe, q.target), {NotMember})
      /\ Program(q)[4] = Insert(Invited(q.tribe, q.target), [kind |-> "invite", recent |-> TRUE], "skip")
  BY DEF Program, Invite
<1>2. /\ 1 \in 1 .. Len(Program(q)) /\ 2 \in 1 .. Len(Program(q))
      /\ 3 \in 1 .. Len(Program(q)) /\ 4 \in 1 .. Len(Program(q))
  BY <1>1
<1>3. PICK c \in Tribe, w \in Warrior : c = q.tribe /\ w = q.target
  BY AskFields
<1>4. StatusT[c] = "active"
  BY <1>1, <1>2, <1>3, FoundT
<1>5. RankT[c][q.by] \in rankToInvite .. RankLeader
  BY <1>1, <1>2, <1>3, RequiredT
<1>6. RankT[c][w] = NotMember
  <2>1. PICK s : s = Program(q)[3]
    OBVIOUS
  <2>2. s.do = "select" /\ s.row = Member(q.tribe, q.target) /\ s.ok = {NotMember}
    BY <1>1, <2>1 DEF Select
  <2>3. Found(k, q, s)
    BY <1>2, <2>1 DEF Settled
  <2>4. QED
    BY <1>3, <2>2, <2>3 DEF Found, RankT
<1>7. StatusT' = StatusT /\ RecruitingT' = RecruitingT /\ RankT' = RankT /\ VoteT' = VoteT /\ WornT' = WornT
  BY Untouched, SameT
<1>8. \A d \in Tribe, v \in Warrior : d # c \/ v # w => db'[Invited(d, v)] = db[Invited(d, v)]
  BY <1>3, Untouched
<1>9. InviteT[c][w] = db[Invited(c, w)]
  BY ReadT
<1>10. CASE db[Invited(c, w)] = NoInvite
  <2>1. PICK s : s = Program(q)[4]
    OBVIOUS
  <2>2. /\ s.do = "insert" /\ s.row = Invited(c, w) /\ s.value = [kind |-> "invite", recent |-> TRUE]
    <3>1. /\ s.do = "insert" /\ s.row = Invited(q.tribe, q.target) /\ s.value = [kind |-> "invite", recent |-> TRUE]
      BY <1>1, <2>1 DEF Insert
    <3>2. QED
      BY <1>3, <3>1
  <2>3. Invited(c, w) \in Row /\ AbsentValue(Invited(c, w)) = NoInvite
    BY Tables, Values
  <2>4. Found(k, q, s)
    BY <1>2, <2>1 DEF Settled
  <2>5. pending[k][Invited(c, w)] # Unwritten
    BY <1>10, <2>2, <2>3, <2>4 DEF Found
  <2>6. db'[Invited(c, w)] = [kind |-> "invite", recent |-> TRUE]
    <3>1. Change(q, Invited(c, w), db[Invited(c, w)], db'[Invited(c, w)])
      BY <2>3, <2>5 DEF Settled
    <3>2. PICK old, new : old = db[Invited(c, w)] /\ new = db'[Invited(c, w)]
      OBVIOUS
    <3>3. Change(q, Invited(c, w), old, new)
      BY <3>1, <3>2
    <3>4. new = [kind |-> q.op, recent |-> TRUE]
      BY <3>3, InviteComes
    <3>5. QED
      BY <3>2, <3>4
  <2>7. InviteSet(c, w, [kind |-> "invite", recent |-> TRUE])
    BY <1>8, <2>6 DEF InviteSet
  <2>8. InviteT' = [InviteT EXCEPT ![c][w] = [kind |-> "invite", recent |-> TRUE]]
    BY <2>7, InvitedT
  <2>9. InviteT[c][w] = NoInvite
    BY <1>9, <1>10
  <2>10. QED
    BY <1>3, <1>4, <1>5, <1>6, <1>7, <2>8, <2>9 DEF T!Invite, T!FindClan, T!requireRank, T!IsMember, T!RankRecruit,
       T!rankToInvite, rankToInvite, RankLeader, NotMember, T!NoInvite, NoInvite,
       StatusT, RecruitingT, RankT, InviteT, VoteT, WornT
<1>11. CASE db[Invited(c, w)] # NoInvite
  <2>1. PICK old, new : old = db[Invited(c, w)] /\ new = db'[Invited(c, w)]
    OBVIOUS
  <2>2. new = old
    <3>1. ~Change(q, Invited(c, w), old, new)
      BY <1>11, <2>1, InviteChange
    <3>2. Invited(c, w) \in Row
      BY Tables
    <3>3. QED
      BY <2>1, <3>1, <3>2 DEF Settled
  <2>3. SameInvites
    BY <1>8, <2>1, <2>2 DEF SameInvites
  <2>4. InviteT' = InviteT
    BY <2>3, SameT
  <2>5. QED
    BY <1>7, <2>4 DEF T!vars, StatusT, RecruitingT, RankT, InviteT, VoteT, WornT
<1>12. QED
  BY <1>10, <1>11

LEMMA RequestingT ==
  ASSUME IInv, NEW k \in Worker, NEW q \in Asks, Settled(k, q), q.op = "request"
  PROVE  T!RequestInvite(q.target, q.tribe)
<1>1. /\ Len(Program(q)) = 6 /\ Program(q)[1] = FindClan(q)
      /\ Program(q)[2] = Select(Clan(q.tribe), {v \in ActiveClan : v.recruiting})
      /\ Program(q)[3] = Select(Member(q.tribe, q.by), {NotMember})
      /\ Program(q)[4] = SelectOld(Invited(q.tribe, q.by))
  BY DEF Program, RequestInvite
<1>2. /\ 1 \in 1 .. Len(Program(q)) /\ 2 \in 1 .. Len(Program(q))
      /\ 3 \in 1 .. Len(Program(q)) /\ 4 \in 1 .. Len(Program(q))
  BY <1>1
<1>3. PICK c \in Tribe, w \in Warrior : c = q.tribe /\ w = q.target /\ w = q.by
  BY AskFields DEF OwnOps
<1>4. StatusT[c] = "active"
  BY <1>1, <1>2, <1>3, FoundT
<1>5. RecruitingT[c] = TRUE
  <2>1. PICK s : s = Program(q)[2]
    OBVIOUS
  <2>2. s.do = "select" /\ s.row = Clan(q.tribe) /\ s.ok = {v \in ActiveClan : v.recruiting}
    BY <1>1, <2>1 DEF Select
  <2>3. Found(k, q, s)
    BY <1>2, <2>1 DEF Settled
  <2>4. PICK v : v = db[Clan(q.tribe)]
    OBVIOUS
  <2>5. v \in ClanValue /\ v.recruiting
    BY <2>2, <2>3, <2>4 DEF Found, ActiveClan
  <2>6. v.recruiting = TRUE
    BY <2>5 DEF ClanValue
  <2>7. QED
    BY <1>3, <2>4, <2>6 DEF RecruitingT
<1>6. RankT[c][w] = NotMember
  <2>1. PICK s : s = Program(q)[3]
    OBVIOUS
  <2>2. s.do = "select" /\ s.row = Member(q.tribe, q.by) /\ s.ok = {NotMember}
    BY <1>1, <2>1 DEF Select
  <2>3. Found(k, q, s)
    BY <1>2, <2>1 DEF Settled
  <2>4. QED
    BY <1>3, <2>2, <2>3 DEF Found, RankT
<1>7. InviteT[c][w].recent = FALSE
  <2>1. PICK s : s = Program(q)[4]
    OBVIOUS
  <2>2. s.do = "selectOld" /\ s.row = Invited(q.tribe, q.by)
    BY <1>1, <2>1 DEF SelectOld
  <2>3. Found(k, q, s)
    BY <1>2, <2>1 DEF Settled
  <2>4. db[Invited(q.tribe, q.by)].recent = FALSE
    BY <2>2, <2>3 DEF Found
  <2>5. QED
    BY <1>3, <2>4 DEF InviteT
<1>8. StatusT' = StatusT /\ RecruitingT' = RecruitingT /\ RankT' = RankT /\ VoteT' = VoteT /\ WornT' = WornT
  BY Untouched, SameT
<1>9. PICK asked : asked = [kind |-> "request", recent |-> TRUE]
  OBVIOUS
<1>10. db'[Invited(c, w)] = asked
  <2>1. pending[k][Invited(c, w)] = asked
    BY <1>1, <1>3, <1>9 DEF Settled, Passed, InviteRow
  <2>2. Unwritten \notin InviteValue /\ asked \in InviteValue
    BY <1>9, UnwrittenAssumption DEF InviteValue
  <2>3. Invited(c, w) \in Row
    BY Tables
  <2>4. QED
    BY <2>1, <2>2, <2>3 DEF Settled
<1>11. InviteT' = [InviteT EXCEPT ![c][w] = asked]
  <2>1. InviteSet(c, w, asked)
    BY <1>3, <1>10, Untouched DEF InviteSet
  <2>2. QED
    BY <2>1, InvitedT
<1>12. QED
  BY <1>3, <1>4, <1>5, <1>6, <1>7, <1>8, <1>9, <1>11 DEF T!RequestInvite, T!FindClan, T!IsMember, T!RankRecruit,
     NotMember, StatusT, RecruitingT, RankT, InviteT, VoteT, WornT

(* A row deleted and nothing else done.                                      *)
LEMMA RejectingT ==
  ASSUME IInv, NEW k \in Worker, NEW q \in Asks, Settled(k, q), q.op = "reject"
  PROVE  T!RejectInvite(q.target, q.tribe)
<1>1. Len(Program(q)) = 2 /\ Program(q)[1] = FindClan(q) /\ Program(q)[2] = deleteInvite(q, "skip")
  BY DEF Program, RejectInvite
<1>2. 1 \in 1 .. Len(Program(q)) /\ 2 \in 1 .. Len(Program(q))
  BY <1>1
<1>3. StatusT[q.tribe] = "active"
  BY <1>1, <1>2, FoundT
<1>4. InviteT' = [InviteT EXCEPT ![q.tribe][q.target] = NoInvite]
  BY <1>1, <1>2, DeletedInviteT
<1>5. StatusT' = StatusT /\ RecruitingT' = RecruitingT /\ RankT' = RankT /\ VoteT' = VoteT /\ WornT' = WornT
  BY Untouched, SameT
<1>6. QED
  BY <1>3, <1>4, <1>5 DEF T!RejectInvite, T!FindClan, T!NoInvite, NoInvite,
     StatusT, RecruitingT, RankT, InviteT, VoteT, WornT

LEMMA CancellingT ==
  ASSUME IInv, NEW k \in Worker, NEW q \in Asks, Settled(k, q), q.op \in {"cancel", "decline"}
  PROVE  T!CancelInvite(q.by, q.tribe, q.target)
<1>1. StatusT[q.tribe] = "active" /\ (q.by = q.target \/ RankT[q.tribe][q.by] \in rankToInvite .. RankLeader)
      /\ InviteT' = [InviteT EXCEPT ![q.tribe][q.target] = NoInvite]
  <2>1. CASE q.op = "cancel" /\ q.by = q.target
    <3>1. Len(Program(q)) = 2 /\ Program(q)[1] = FindClan(q) /\ Program(q)[2] = deleteInvite(q, "skip")
      BY <2>1 DEF Program, CancelInvite
    <3>2. 1 \in 1 .. Len(Program(q)) /\ 2 \in 1 .. Len(Program(q))
      BY <3>1
    <3>3. QED
      BY <2>1, <3>1, <3>2, FoundT, DeletedInviteT
  <2>2. CASE q.op = "cancel" /\ q.by # q.target
    <3>1. /\ Len(Program(q)) = 3 /\ Program(q)[1] = FindClan(q)
          /\ Program(q)[2] = requireRank(q, rankToInvite) /\ Program(q)[3] = deleteInvite(q, "skip")
      BY <2>2 DEF Program, CancelInvite
    <3>2. 1 \in 1 .. Len(Program(q)) /\ 2 \in 1 .. Len(Program(q)) /\ 3 \in 1 .. Len(Program(q))
      BY <3>1
    <3>3. QED
      BY <2>2, <3>1, <3>2, FoundT, RequiredT, DeletedInviteT
  <2>3. CASE q.op = "decline"
    <3>1. /\ Len(Program(q)) = 4 /\ Program(q)[1] = FindClan(q)
          /\ Program(q)[3] = requireRank(q, rankToInvite) /\ Program(q)[4] = deleteInvite(q, "skip")
      BY <2>3 DEF Program, DeclineRequester
    <3>2. 1 \in 1 .. Len(Program(q)) /\ 3 \in 1 .. Len(Program(q)) /\ 4 \in 1 .. Len(Program(q))
      BY <3>1
    <3>3. QED
      BY <2>3, <3>1, <3>2, FoundT, RequiredT, DeletedInviteT
  <2>4. QED
    BY <2>1, <2>2, <2>3
<1>2. StatusT' = StatusT /\ RecruitingT' = RecruitingT /\ RankT' = RankT /\ VoteT' = VoteT /\ WornT' = WornT
  BY Untouched, SameT
<1>3. QED
  BY <1>1, <1>2 DEF T!CancelInvite, T!FindClan, T!requireRank, T!IsMember, T!RankRecruit, T!rankToInvite,
     rankToInvite, RankLeader, T!NoInvite, NoInvite, StatusT, RecruitingT, RankT, InviteT, VoteT, WornT

LEMMA JoiningT ==
  ASSUME IInv, NEW q \in Asks, NEW k \in Worker, Settled(k, q), q.op \in {"accept", "admit"},
         InviteT' = [InviteT EXCEPT ![q.tribe][q.target] = NoInvite],
         RankT' = IF RankT[q.tribe][q.target] = NotMember
                  THEN [RankT EXCEPT ![q.tribe][q.target] = RankRecruit] ELSE RankT
  PROVE  T!Join(q.tribe, q.target)
<1>1. RankT[q.tribe][q.target] \in Rank \cup {NotMember}
  BY AskFields, ReadT
<1>2. RankT[q.tribe][q.target] >= 0 <=> RankT[q.tribe][q.target] # NotMember
  BY <1>1 DEF Rank, NotMember
<1>3. StatusT' = StatusT /\ RecruitingT' = RecruitingT /\ VoteT' = VoteT /\ WornT' = WornT
  BY Untouched, SameT
<1>4. QED
  BY <1>2, <1>3 DEF T!Join, T!IsMember, T!RankRecruit, RankRecruit, T!NoInvite, NoInvite,
     StatusT, RecruitingT, RankT, InviteT, VoteT, WornT

LEMMA AcceptingT ==
  ASSUME IInv, NEW k \in Worker, NEW q \in Asks, Settled(k, q), q.op = "accept"
  PROVE  T!AcceptInvite(q.target, q.tribe)
<1>1. /\ Len(Program(q)) = 3 /\ Program(q)[1] = FindClan(q)
      /\ Program(q)[2] = deleteInvite(q, "refuse") /\ Program(q)[3] = insertRecruit(q)
  BY DEF Program, AcceptInvite
<1>2. 1 \in 1 .. Len(Program(q)) /\ 2 \in 1 .. Len(Program(q)) /\ 3 \in 1 .. Len(Program(q))
  BY <1>1
<1>3. StatusT[q.tribe] = "active"
  BY <1>1, <1>2, FoundT
<1>4. InviteT' = [InviteT EXCEPT ![q.tribe][q.target] = NoInvite] /\ InviteT[q.tribe][q.target] # NoInvite
  BY <1>1, <1>2, DeletedInviteT
<1>5. RankT' = IF RankT[q.tribe][q.target] = NotMember
               THEN [RankT EXCEPT ![q.tribe][q.target] = RankRecruit] ELSE RankT
  BY <1>1, <1>2, InsertedMemberT
<1>6. T!Join(q.tribe, q.target)
  BY <1>4, <1>5, JoiningT
<1>7. QED
  BY <1>3, <1>4, <1>6 DEF T!AcceptInvite, T!FindClan, T!NoInvite, NoInvite, StatusT, InviteT

(* An admin's answer about themselves would be their own acceptance.         *)
LEMMA AdmittingT ==
  ASSUME IInv, NEW k \in Worker, NEW q \in Asks, Settled(k, q), q.op = "admit"
  PROVE  T!AdmitRequester(q.by, q.tribe, q.target) \/ T!AcceptInvite(q.target, q.tribe)
<1>1. /\ Len(Program(q)) = 6 /\ Program(q)[1] = FindClan(q)
      /\ Program(q)[3] = requireRank(q, rankToInvite)
      /\ Program(q)[4] = Select(Invited(q.tribe, q.target), InviteValue)
      /\ Program(q)[5] = insertRecruit(q) /\ Program(q)[6] = deleteInvite(q, "skip")
  BY DEF Program, AdmitRequester
<1>2. /\ 1 \in 1 .. Len(Program(q)) /\ 3 \in 1 .. Len(Program(q)) /\ 4 \in 1 .. Len(Program(q))
      /\ 5 \in 1 .. Len(Program(q)) /\ 6 \in 1 .. Len(Program(q))
  BY <1>1
<1>3. StatusT[q.tribe] = "active"
  BY <1>1, <1>2, FoundT
<1>4. RankT[q.tribe][q.by] \in rankToInvite .. RankLeader
  BY <1>1, <1>2, RequiredT
<1>5. InviteT[q.tribe][q.target] # NoInvite
  <2>1. PICK s : s = Program(q)[4]
    OBVIOUS
  <2>2. s.do = "select" /\ s.row = Invited(q.tribe, q.target) /\ s.ok = InviteValue
    BY <1>1, <2>1 DEF Select
  <2>3. Found(k, q, s)
    BY <1>2, <2>1 DEF Settled
  <2>4. NoInvite \notin InviteValue
    BY DEF NoInvite, InviteValue
  <2>5. QED
    BY <2>2, <2>3, <2>4, AskFields DEF Found, InviteT
<1>6. InviteT' = [InviteT EXCEPT ![q.tribe][q.target] = NoInvite]
  BY <1>1, <1>2, DeletedInviteT
<1>7. RankT' = IF RankT[q.tribe][q.target] = NotMember
               THEN [RankT EXCEPT ![q.tribe][q.target] = RankRecruit] ELSE RankT
  BY <1>1, <1>2, InsertedMemberT
<1>8. T!Join(q.tribe, q.target)
  BY <1>6, <1>7, JoiningT
<1>9. QED
  BY <1>3, <1>4, <1>5, <1>8 DEF T!AdmitRequester, T!AcceptInvite, T!FindClan, T!requireRank, T!IsMember, T!RankRecruit,
     T!rankToInvite, rankToInvite, RankLeader, T!NoInvite, NoInvite, StatusT, RankT, InviteT

LEMMA VotesT ==
  ASSUME NEW c \in Tribe, NEW w \in Warrior,
         \A d \in Tribe, v \in Warrior : d # c \/ v # w => db'[Vote(d, v)] = db[Vote(d, v)]
  PROVE  /\ db'[Vote(c, w)] = TRUE => VoteT' = [VoteT EXCEPT ![c] = @ \cup {w}]
         /\ db'[Vote(c, w)] = FALSE => VoteT' = [VoteT EXCEPT ![c] = @ \ {w}]
<1>1. \A d \in Tribe \ {c} : VoteT'[d] = VoteT[d]
  BY DEF VoteT
<1>2. db'[Vote(c, w)] = TRUE => VoteT'[c] = VoteT[c] \cup {w}
  BY DEF VoteT
<1>3. db'[Vote(c, w)] = FALSE => VoteT'[c] = VoteT[c] \ {w}
  BY DEF VoteT
<1>4. VoteT' = [d \in Tribe |-> VoteT'[d]] /\ VoteT = [d \in Tribe |-> VoteT[d]]
  BY DEF VoteT
<1>5. QED
  BY <1>1, <1>2, <1>3, <1>4

LEMMA VoteCast ==
  ASSUME NEW q \in Asks, q.op = "disband", NEW c, NEW w, NEW old, NEW new, Change(q, Vote(c, w), old, new)
  PROVE  new = TRUE
BY DEF Change, Clan, Member, OwnRow, InviteRow, Invited, Vote, Account

LEMMA VoteTakenBack ==
  ASSUME NEW q \in Asks, q.op = "withdraw", NEW c, NEW w, NEW old, NEW new, Change(q, Vote(c, w), old, new)
  PROVE  new = FALSE
BY DEF Change, Clan, Member, OwnRow, InviteRow, Invited, Vote, Account

LEMMA VoteKept ==
  ASSUME IInv, NEW k \in Worker, NEW q \in Asks, Settled(k, q)
  PROVE  /\ q.op = "disband" /\ db[Vote(q.tribe, q.by)] = TRUE => db'[Vote(q.tribe, q.by)] = TRUE
         /\ q.op = "withdraw" /\ db[Vote(q.tribe, q.by)] = FALSE => db'[Vote(q.tribe, q.by)] = FALSE
<1>1. PICK c \in Tribe, w \in Warrior : c = q.tribe /\ w = q.by
  BY AskFields
<1>2. Vote(c, w) \in Row
  BY Tables
<1>3. q.op # "request" /\ db'[Vote(c, w)] # db[Vote(c, w)] =>
        Change(q, Vote(c, w), db[Vote(c, w)], db'[Vote(c, w)])
  BY <1>2 DEF Settled
<1>4. PICK old, new : old = db[Vote(c, w)] /\ new = db'[Vote(c, w)]
  OBVIOUS
<1>5. Change(q, Vote(c, w), old, new) =>
        (q.op = "disband" => new = TRUE) /\ (q.op = "withdraw" => new = FALSE)
  BY VoteCast, VoteTakenBack
<1>6. /\ q.op = "disband" /\ old = TRUE => new = TRUE
      /\ q.op = "withdraw" /\ old = FALSE => new = FALSE
  BY <1>3, <1>4, <1>5
<1>7. QED
  BY <1>1, <1>4, <1>6

LEMMA WithdrawT ==
  ASSUME IInv, NEW k \in Worker, NEW q \in Asks, Settled(k, q), q.op = "withdraw"
  PROVE  T!WithdrawDisband(q.by, q.tribe)
<1>1. /\ Len(Program(q)) = 3 /\ Program(q)[1] = FindClan(q)
      /\ Program(q)[2] = requireRank(q, rankToDisband)
      /\ Program(q)[3] = Set(Vote(q.tribe, q.by), {TRUE}, FALSE, "skip")
  BY DEF Program, WithdrawDisband
<1>2. 1 \in 1 .. Len(Program(q)) /\ 2 \in 1 .. Len(Program(q)) /\ 3 \in 1 .. Len(Program(q))
  BY <1>1
<1>3. PICK c \in Tribe, w \in Warrior : c = q.tribe /\ w = q.by
  BY AskFields
<1>4. StatusT[c] = "active"
  BY <1>1, <1>2, <1>3, FoundT
<1>5. RankT[c][w] \in rankToDisband .. RankLeader
  BY <1>1, <1>2, <1>3, RequiredT
<1>6. db'[Vote(q.tribe, q.by)] = FALSE
  <2>1. db[Vote(q.tribe, q.by)] \in BOOLEAN
    <3>1. Vote(q.tribe, q.by) \in Row
      BY Tables, AskFields
    <3>2. db[Vote(q.tribe, q.by)] \in Value(Vote(q.tribe, q.by))
      BY <3>1 DEF IInv, Types
    <3>3. QED
      BY <3>2, Values
  <2>2. CASE db[Vote(q.tribe, q.by)] = FALSE
    BY <2>2, VoteKept
  <2>3. CASE db[Vote(q.tribe, q.by)] = TRUE
    <3>1. PICK s : s = Program(q)[3]
      OBVIOUS
    <3>2. s.do = "update" /\ s.row = Vote(q.tribe, q.by) /\ DOMAIN s.to = {TRUE}
      BY <1>1, <3>1 DEF Set, Update
    <3>3. Change(q, s.row, db[s.row], db'[s.row])
      BY <1>2, <2>3, <3>1, <3>2, WrittenT
    <3>4. PICK old, new : old = db[s.row] /\ new = db'[s.row]
      OBVIOUS
    <3>5. Change(q, Vote(c, w), old, new)
      BY <1>3, <3>2, <3>3, <3>4
    <3>6. new = FALSE
      BY <3>5, VoteTakenBack
    <3>7. QED
      BY <3>2, <3>4, <3>6
  <2>4. QED
    BY <2>1, <2>2, <2>3
<1>7. VoteT' = [VoteT EXCEPT ![c] = @ \ {w}]
  <2>1. \A d \in Tribe, v \in Warrior : d # c \/ v # w => db'[Vote(d, v)] = db[Vote(d, v)]
    BY <1>3, Untouched
  <2>2. db'[Vote(c, w)] = FALSE
    BY <1>3, <1>6
  <2>3. QED
    BY <2>1, <2>2, VotesT
<1>8. /\ StatusT' = StatusT /\ RecruitingT' = RecruitingT /\ RankT' = RankT /\ InviteT' = InviteT /\ WornT' = WornT
  BY Untouched, SameT
<1>9. QED
  BY <1>3, <1>4, <1>5, <1>7, <1>8 DEF T!WithdrawDisband, T!FindClan, T!requireRank, T!IsMember, T!RankRecruit,
     T!rankToDisband, rankToDisband, RankLeader, StatusT, RecruitingT, RankT, InviteT, VoteT, WornT

LEMMA DisbandVotesT ==
  ASSUME IInv, NEW k \in Worker, NEW q \in Asks, Settled(k, q), q.op = "disband"
  PROVE  VoteT' = [VoteT EXCEPT ![q.tribe] = @ \cup {q.by}]
<1>1. Program(q)[3] = Insert(Vote(q.tribe, q.by), TRUE, "skip") /\ 3 \in 1 .. Len(Program(q))
  BY DEF Program, Disband
<1>2. PICK c \in Tribe, w \in Warrior : c = q.tribe /\ w = q.by
  BY AskFields
<1>3. Vote(q.tribe, q.by) \in Row
  BY Tables, AskFields
<1>4. db[Vote(q.tribe, q.by)] \in BOOLEAN
  <2>1. db[Vote(q.tribe, q.by)] \in Value(Vote(q.tribe, q.by))
    BY <1>3 DEF IInv, Types
  <2>2. QED
    BY <2>1, Values
<1>5. db'[Vote(q.tribe, q.by)] = TRUE
  <2>1. CASE db[Vote(q.tribe, q.by)] = TRUE
    BY <2>1, VoteKept
  <2>2. CASE db[Vote(q.tribe, q.by)] = FALSE
    <3>1. PICK s : s = Program(q)[3]
      OBVIOUS
    <3>2. s.do = "insert" /\ s.row = Vote(q.tribe, q.by)
      BY <1>1, <3>1 DEF Insert
    <3>3. Found(k, q, s)
      BY <1>1, <3>1 DEF Settled
    <3>4. AbsentValue(Vote(q.tribe, q.by)) = FALSE
      BY Values
    <3>5. pending[k][s.row] # Unwritten
      BY <2>2, <3>2, <3>3, <3>4 DEF Found
    <3>6. Change(q, s.row, db[s.row], db'[s.row])
      BY <1>3, <3>2, <3>5 DEF Settled
    <3>7. PICK old, new : old = db[s.row] /\ new = db'[s.row]
      OBVIOUS
    <3>8. Change(q, Vote(c, w), old, new)
      BY <1>2, <3>2, <3>6, <3>7
    <3>9. new = TRUE
      BY <3>8, VoteCast
    <3>10. QED
      BY <3>2, <3>7, <3>9
  <2>3. QED
    BY <1>4, <2>1, <2>2
<1>6. VoteT' = [VoteT EXCEPT ![c] = @ \cup {w}]
  <2>1. \A d \in Tribe, v \in Warrior : d # c \/ v # w => db'[Vote(d, v)] = db[Vote(d, v)]
    BY <1>2, Untouched
  <2>2. db'[Vote(c, w)] = TRUE
    BY <1>2, <1>5
  <2>3. QED
    BY <2>1, <2>2, VotesT
<1>7. QED
  BY <1>2, <1>6

LEMMA CountT ==
  ASSUME NEW S
  PROVE  T!Cardinality(S) = Cardinality(S)
BY DEF T!Cardinality, Cardinality

LEMMA DisbandT ==
  ASSUME IInv, NEW k \in Worker, NEW q \in Asks, Settled(k, q), q.op = "disband"
  PROVE  T!Disband(q.by, q.tribe)
<1>1. /\ Len(Program(q)) = 7 /\ Program(q)[1] = FindClan(q)
      /\ Program(q)[2] = requireRank(q, rankToDisband)
  BY DEF Program, Disband
<1>2. 1 \in 1 .. Len(Program(q)) /\ 2 \in 1 .. Len(Program(q))
  BY <1>1
<1>3. PICK c \in Tribe, w \in Warrior : c = q.tribe /\ w = q.by
  BY AskFields
<1>4. StatusT[c] = "active" /\ RankT[c][w] \in rankToDisband .. RankLeader
  BY <1>1, <1>2, <1>3, FoundT, RequiredT
<1>5. VoteT' = [VoteT EXCEPT ![c] = @ \cup {w}]
  BY <1>3, DisbandVotesT
<1>6. RankT' = RankT /\ InviteT' = InviteT
  BY Untouched, SameT
<1>7. T!Authorised(c, VoteT[c] \cup {w}) <=> Enough(q)
  <2>1. T!Leaders(c) = Led(c)
    BY DEF T!Leaders, Led, T!RankLeader, RankLeader
  <2>2. VoteT[c] \cup {w} = Voters(q)
    BY <1>3 DEF VoteT, Voters
  <2>3. T!Authorised(c, Voters(q)) <=>
          Led(c) # {} /\ Cardinality(Voters(q) \cap Led(c)) >= Cardinality(Led(c))
    BY <2>1, CountT DEF T!Authorised
  <2>4. Enough(q) <=>
          Led(c) # {} /\ Cardinality(Voters(q) \cap Led(c)) >= Cardinality(Led(c))
    BY <1>3 DEF Enough
  <2>5. QED
    BY <2>2, <2>3, <2>4
<1>8. Counted(k, q) /\ pc[k] = 8
  BY <1>1 DEF Settled, Passed
<1>9. CASE Enough(q)
  <2>1. StatusT' = [StatusT EXCEPT ![c] = "disbanded"] /\ RecruitingT' = RecruitingT
    <3>1. Clan(c) \in Row /\ pending[k][Clan(c)] # Unwritten
      BY <1>3, <1>8, <1>9, Tables DEF Counted
    <3>2. Change(q, Clan(c), db[Clan(c)], db'[Clan(c)])
      BY <3>1 DEF Settled
    <3>3. PICK old, new : old = db[Clan(c)] /\ new = db'[Clan(c)]
      OBVIOUS
    <3>4. Change(q, Clan(c), old, new)
      BY <3>2, <3>3
    <3>5. new = [old EXCEPT !.status = "disbanded"]
      BY <3>4, ClanChange
    <3>6. old \in ClanValue
      BY <1>3, <3>3, ReadT
    <3>7. new.status = "disbanded" /\ new.recruiting = old.recruiting
      BY <3>5, <3>6 DEF ClanValue
    <3>8. \A d \in Tribe \ {c} : db'[Clan(d)] = db[Clan(d)]
      BY <1>3, Untouched
    <3>9. StatusT' = [StatusT EXCEPT ![c] = "disbanded"] /\ RecruitingT' = [RecruitingT EXCEPT ![c] = old.recruiting]
      BY <3>3, <3>7, <3>8, ClanT
    <3>10. RecruitingT[c] = old.recruiting
      BY <3>3 DEF RecruitingT
    <3>11. QED
      BY <3>9, <3>10 DEF RecruitingT
  <2>2. WornT' = [v \in Warrior |-> IF WornT[v] = c THEN NoTribe ELSE WornT[v]]
    <3>1. ASSUME NEW v \in Warrior
          PROVE  db'[Account(v)] = IF db[Account(v)] = c THEN NoTribe ELSE db[Account(v)]
      <4>1. Account(v) \in Row
        BY Tables
      <4>2. PICK old, new : old = db[Account(v)] /\ new = db'[Account(v)]
        OBVIOUS
      <4>3. pending[k][Account(v)] # Unwritten => Change(q, Account(v), old, new)
        BY <4>1, <4>2 DEF Settled
      <4>4. Change(q, Account(v), old, new) => old = c /\ new = NoTribe
        BY <1>3, TagChange
      <4>5. old = c => pending[k][Account(v)] # Unwritten
        BY <1>3, <1>8, <1>9, <4>2 DEF Counted
      <4>6. pending[k][Account(v)] = Unwritten => new = old
        BY <4>1, <4>2 DEF Settled
      <4>7. QED
        BY <4>2, <4>3, <4>4, <4>5, <4>6
    <3>2. QED
      BY <3>1 DEF WornT
  <2>3. QED
    BY <1>3, <1>4, <1>5, <1>6, <1>7, <1>9, <2>1, <2>2 DEF T!Disband, T!FindClan, T!requireRank, T!IsMember,
       T!RankRecruit, T!rankToDisband, rankToDisband, RankLeader, StatusT, RecruitingT, RankT, InviteT, VoteT, WornT
<1>10. CASE ~Enough(q)
  <2>1. \A r \in Row : pending[k][r] # Unwritten => r = Vote(q.tribe, q.by)
    BY <1>8, <1>10 DEF Counted
  <2>2. SameClans /\ SameTags
    <3>1. \A r \in Row : r[1] # "clan_disband_votes" => db'[r] = db[r]
      BY <2>1, Table DEF Settled
    <3>2. QED
      BY <3>1, Tables, Table DEF SameClans, SameTags
  <2>3. StatusT' = StatusT /\ RecruitingT' = RecruitingT /\ WornT' = WornT
    BY <2>2, SameT
  <2>4. QED
    BY <1>3, <1>4, <1>5, <1>6, <1>7, <1>10, <2>3 DEF T!Disband, T!FindClan, T!requireRank, T!IsMember,
       T!RankRecruit, T!rankToDisband, rankToDisband, RankLeader, StatusT, RecruitingT, RankT, InviteT, VoteT, WornT
<1>11. QED
  BY <1>9, <1>10

LEMMA CommitT ==
  ASSUME IInv, Alone, NEW k \in Worker, Commit(k)
  PROVE  [T!Next]_(T!vars)
<1>1. PICK q \in Asks : Settled(k, q)
  BY Settles
<1>2. /\ q.op \in AllOps /\ q.by \in Warrior /\ q.tribe \in Tribe /\ q.target \in Warrior /\ q.rank \in Rank
      /\ q.flag \in BOOLEAN
  BY DEF Asks
<1>3. T!Rank = Rank
  BY DEF T!Rank, Rank
<1>4. CASE q.op = "create"
  BY <1>1, <1>2, <1>4, CreateT DEF T!Next
<1>5. CASE q.op = "recruit"
  BY <1>1, <1>2, <1>5, RecruitT DEF T!Next
<1>6. CASE q.op = "setRank"
  BY <1>1, <1>2, <1>3, <1>6, SetRankT DEF T!Next
<1>7. CASE q.op = "kick"
  BY <1>1, <1>2, <1>7, KickT DEF T!Next
<1>8. CASE q.op = "leave"
  BY <1>1, <1>2, <1>8, LeaveT DEF T!Next
<1>9. CASE q.op = "wear"
  BY <1>1, <1>2, <1>9, WearT DEF T!Next
<1>10. CASE q.op = "unwear"
  BY <1>1, <1>2, <1>10, UnwearT DEF T!Next
<1>11. CASE q.op = "invite"
  BY <1>1, <1>2, <1>11, InvitingT DEF T!Next
<1>12. CASE q.op = "request"
  BY <1>1, <1>2, <1>12, RequestingT DEF T!Next
<1>13. CASE q.op = "accept"
  BY <1>1, <1>2, <1>13, AcceptingT DEF T!Next
<1>14. CASE q.op = "reject"
  BY <1>1, <1>2, <1>14, RejectingT DEF T!Next
<1>15. CASE q.op \in {"cancel", "decline"}
  BY <1>1, <1>2, <1>15, CancellingT DEF T!Next
<1>16. CASE q.op = "admit"
  BY <1>1, <1>2, <1>16, AdmittingT DEF T!Next
<1>17. CASE q.op = "disband"
  BY <1>1, <1>2, <1>17, DisbandT DEF T!Next
<1>18. CASE q.op = "withdraw"
  BY <1>1, <1>2, <1>18, WithdrawT DEF T!Next
<1>19. QED
  BY <1>2, <1>4, <1>5, <1>6, <1>7, <1>8, <1>9, <1>10, <1>11, <1>12, <1>13, <1>14, <1>15, <1>16, <1>17, <1>18
     DEF AllOps, OwnOps

LEMMA WindowT ==
  ASSUME IInv, WindowPasses
  PROVE  [T!Next]_(T!vars)
<1>1. PICK c \in Tribe, w \in Warrior :
        db[Invited(c, w)].recent /\ db' = [db EXCEPT ![Invited(c, w)].recent = FALSE]
  BY DEF WindowPasses
<1>2. Invited(c, w) \in Row
  BY Tables
<1>3. PICK old, new : old = db[Invited(c, w)] /\ new = db'[Invited(c, w)]
  OBVIOUS
<1>4. new = [old EXCEPT !.recent = FALSE] /\ \A r \in Row : r # Invited(c, w) => db'[r] = db[r]
  BY <1>1, <1>2, <1>3 DEF IInv, Types
<1>5. InviteSet(c, w, new)
  <2>1. ASSUME NEW d \in Tribe, NEW v \in Warrior, d # c \/ v # w
        PROVE  db'[Invited(d, v)] = db[Invited(d, v)]
    <3>1. Invited(d, v) # Invited(c, w) /\ Invited(d, v) \in Row
      BY <2>1, Tables, Keys
    <3>2. QED
      BY <1>4, <3>1
  <2>2. QED
    BY <1>3, <2>1 DEF InviteSet
<1>6. InviteT' = [InviteT EXCEPT ![c][w] = new]
  BY <1>5, InvitedT
<1>7. InviteT[c][w] = old
  BY <1>3 DEF InviteT
<1>8. InviteT' = [InviteT EXCEPT ![c][w].recent = FALSE]
  BY <1>4, <1>6, <1>7 DEF InviteT
<1>9. InviteT[c][w].recent
  BY <1>1, <1>3, <1>7
<1>10. SameClans /\ SameRanks /\ SameVotes /\ SameTags
  BY <1>4, Tables, Table DEF SameClans, SameRanks, SameVotes, SameTags
<1>11. StatusT' = StatusT /\ RecruitingT' = RecruitingT /\ RankT' = RankT /\ VoteT' = VoteT /\ WornT' = WornT
  BY <1>10, SameT
<1>12. T!WindowPasses(c, w)
  BY <1>8, <1>9, <1>11 DEF T!WindowPasses, StatusT, RecruitingT, RankT, InviteT, VoteT, WornT
<1>13. QED
  BY <1>12 DEF T!Next

LEMMA StepT ==
  ASSUME NEW k, Worker = {k}, IInv, Alone, [Next]_vars
  PROVE  [T!Next]_(T!vars)
<1>1. CASE Commit(k)
  BY <1>1, CommitT
<1>2. CASE WindowPasses
  BY <1>2, WindowT
<1>3. CASE ~Commit(k) /\ ~WindowPasses
  <2>1. UNCHANGED db
    BY <1>3 DEF Next, Step, Begin, Fault, Rollback, DoSelect, DoRequire, DoOutranked, DoCanInvite, DoSelectOld,
       DoInsert, DoUpdate, DoCountLeaders, DoCountVotes, DoClearTags, vars
  <2>2. QED
    BY <2>1 DEF T!vars
<1>4. QED
  BY <1>1, <1>2, <1>3

LEMMA NewT ==
  ASSUME \A roster \in Rosters, c \in Tribe, w \in Warrior : roster[c][w] = NotMember, Init
  PROVE  T!Init
<1>1. PICK roster \in Rosters, tag \in [Warrior -> Tribe \cup {NoTribe}] :
       /\ \A w \in Warrior : IF \E c \in Tribe : roster[c][w] # NotMember
                              THEN tag[w] # NoTribe /\ roster[tag[w]][w] # NotMember
                              ELSE tag[w] = NoTribe
       /\ db = [r \in Row |->
            CASE r[1] = "clans" ->
                   IF \E w \in Warrior : roster[r[2]][w] # NotMember
                   THEN [status |-> "active", recruiting |-> TRUE] ELSE NoClan
              [] r[1] = "clan_members"       -> roster[r[2]][r[3]]
              [] r[1] = "clan_invites"       ->
                   IF roster[r[2]][r[3]] = NotMember /\ \E w \in Warrior : roster[r[2]][w] # NotMember
                   THEN [kind |-> "invite", recent |-> FALSE] ELSE NoInvite
              [] r[1] = "clan_disband_votes" -> FALSE
              [] r[1] = "accounts"           -> tag[r[2]]]
  BY DEF Init
<1>2. \A c \in Tribe, w \in Warrior : roster[c][w] = NotMember
  OBVIOUS
<1>3. \A c \in Tribe : db[Clan(c)] = NoClan
  BY <1>1, <1>2, Tables DEF Clan
<1>4. \A c \in Tribe, w \in Warrior : db[Member(c, w)] = NotMember
  BY <1>1, <1>2, Tables DEF Member
<1>5. \A c \in Tribe, w \in Warrior : db[Invited(c, w)] = NoInvite
  BY <1>1, <1>2, Tables DEF Invited
<1>6. \A c \in Tribe, w \in Warrior : db[Vote(c, w)] = FALSE
  BY <1>1, Tables DEF Vote
<1>7. \A w \in Warrior : db[Account(w)] = NoTribe
  BY <1>1, <1>2, Tables DEF Account
<1>8. /\ StatusT = [c \in Tribe |-> "unfounded"]
      /\ RecruitingT = [c \in Tribe |-> FALSE]
  <2>1. \A c \in Tribe : db[Clan(c)].status = "unfounded" /\ db[Clan(c)].recruiting = FALSE
    BY <1>3 DEF NoClan
  <2>2. StatusT = [c \in Tribe |-> "unfounded"]
    BY <2>1 DEF StatusT
  <2>3. RecruitingT = [c \in Tribe |-> FALSE]
    BY <2>1 DEF RecruitingT
  <2>4. QED
    BY <2>2, <2>3
<1>9. RankT = [c \in Tribe |-> [w \in Warrior |-> NotMember]]
  BY <1>4 DEF RankT
<1>10. InviteT = [c \in Tribe |-> [w \in Warrior |-> NoInvite]]
  BY <1>5 DEF InviteT
<1>11. VoteT = [c \in Tribe |-> {}]
  BY <1>6 DEF VoteT
<1>12. WornT = [w \in Warrior |-> NoTribe]
  BY <1>7 DEF WornT
<1>13. QED
  BY <1>8, <1>9, <1>10, <1>11, <1>12 DEF T!Init, T!NotMember, NotMember, T!NoInvite, NoInvite,
     StatusT, RecruitingT, RankT, InviteT, VoteT, WornT

(* A server that serves one request at a time, from an empty database, is     *)
(* the service of Tribes, whatever statement of whatever method a fault      *)
(* interrupts (store.go:75, tx): the commit of a method is the operation its *)
(* statements stand for (clan.go, user.go, won.go), and nothing else changes *)
(* a table.                                                                  *)
THEOREM OneWorkerImplements ==
  ASSUME NEW k, Worker = {k},
         \A roster \in Rosters, c \in Tribe, w \in Warrior : roster[c][w] = NotMember
  PROVE  Spec => OneAtATime
<1>1. Init => T!Init
  BY NewT
<1>2. IInv /\ Alone /\ [Next]_vars => Alone'
  BY AloneKept
<1>3. IInv /\ Alone /\ [Next]_vars => [T!Next]_(T!vars)
  BY StepT
<1>4. QED
  BY <1>1, <1>2, <1>3, IInvAlways, AloneHolds, PTL DEF Spec, OneAtATime, T!Spec
=============================================================================
