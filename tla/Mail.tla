-------------------------------- MODULE Mail --------------------------------
(***************************************************************************)
(* Mail and block lists (store/mail.go, won.go, social.go, welcome.go),    *)
(* and the mail pane that asks for everything above the highest id it has. *)
(*                                                                         *)
(* A request is a goroutine, a store method a transaction at READ          *)
(* COMMITTED: rows inserted are seen when it commits, a block row it       *)
(* counts on is locked until then, and ids are drawn from an identity      *)
(* column, in order and for good, however the transaction ends.            *)
(*                                                                         *)
(* Subjects, bodies, dates and the unread flag are left out.  For the      *)
(* properties a row purged stays as "purged", a row knows whether one with *)
(* a higher id was in the same inbox before it was (late), and a message   *)
(* is the first id its transaction drew.                                   *)
(***************************************************************************)
EXTENDS Naturals, Sequences, FiniteSets

CONSTANTS
  Warrior,
  Newcomer,   \* bound: those without an account at first
  Worker,     \* goroutines serving requests
  Asked,      \* bound: the requests of an instance
  MaxId,      \* bound on the ids drawn
  System,     \* SystemGUID
  Nobody,     \* a recipient there is no account for
  NoBlock,    \* no row in blocks
  NoFolder,   \* a row there is not
  NoRequest   \* a worker between requests

ASSUME NewcomerAssumption == Newcomer \subseteq Warrior
ASSUME MaxIdAssumption    == MaxId \in Nat
ASSUME NoneAssumption     == NoBlock \notin Nat /\ {System, Nobody} \cap Warrior = {}

VARIABLES
  accounts,  \* warriors with an account
  mail,      \* the rows of mail
  drawn,     \* how many ids of mail were drawn
  hits,      \* blocks: the hits of a blocker's row on a sender
  turned,    \* messages a standing block has turned away
  listed,    \* how often each pane was given each id
  mark,      \* $EmailNextSeq of each pane
  req,       \* the request each worker serves
  pc,        \* what it does next
  draft      \* what its transaction knows and nobody sees yet

tables == <<accounts, mail, hits, turned>>
panes  == <<listed, mark>>
vars   == <<tables, drawn, panes, req, pc, draft>>

Pair   == Warrior \X Warrior
Folder == {"inbox", "sent", "deleted", "purged"}
Recipients == Seq(Warrior \cup {Nobody})
Row == [id : 1..MaxId, owner : Warrior, from : Warrior \cup {System}, message : 1..MaxId,
        copy : {"inbox", "sent"}, to : Recipients, away : Nat, folder : Folder, late : BOOLEAN]

Request ==
       [op : {"send"}, by : Warrior, to : Recipients]
  \cup [op : {"delete", "purge"}, by : Warrior, id : 1..MaxId]
  \cup [op : {"block", "unblock"}, by : Warrior, who : Warrior]
  \cup [op : {"poll"}, by : Warrior]

ASSUME AskedAssumption == Asked \subseteq Request /\ NoRequest \notin Asked

Stage == {"idle", "authenticate", "welcome", "greet", "look", "turn", "put", "sent", "commit",
          "folder", "move", "exec"}

(* todo: recipients still to look at.  away: those who get no copy, and      *)
(* counts: those whose block row counts it, with what it will say.           *)
Draft == [todo : Recipients, rows : SUBSET Row, away : Nat, counts : Seq(Warrior),
          hits : [Pair -> Nat \cup {NoBlock}], folder : Folder \cup {NoFolder}]
NoDraft == [todo |-> <<>>, rows |-> {}, away |-> 0, counts |-> <<>>,
            hits |-> [p \in Pair |-> NoBlock], folder |-> NoFolder]

Init ==
  /\ accounts = Warrior \ Newcomer
  /\ mail = {} /\ drawn = 0
  /\ hits = [p \in Pair |-> NoBlock] /\ turned = [p \in Pair |-> 0]
  /\ listed = [w \in Warrior |-> [i \in 1..MaxId |-> 0]]
  /\ mark = [w \in Warrior |-> 0]
  /\ req = [k \in Worker |-> NoRequest]
  /\ pc = [k \in Worker |-> "idle"]
  /\ draft = [k \in Worker |-> NoDraft]

-----------------------------------------------------------------------------
Idle(k)     == req[k] = NoRequest
Goto(k, s)  == pc' = [pc EXCEPT ![k] = s]
Finish(k)   == /\ req' = [req EXCEPT ![k] = NoRequest]
               /\ draft' = [draft EXCEPT ![k] = NoDraft]
               /\ Goto(k, "idle")
Refuse(k)   == Finish(k) /\ UNCHANGED <<tables, drawn, panes>>
Keep(k, d)  == draft' = [draft EXCEPT ![k] = d]
Times(r, s) == Cardinality({i \in DOMAIN s : s[i] = r})

(* The row of blocks is locked by another transaction. *)
Locked(p, k) == \E j \in Worker \ {k} : draft[j].hits[p] # NoBlock

(* Rows committed now, after one with a higher id in the same inbox. *)
Stamped(rows) ==
  {[r EXCEPT !.late = \E m \in mail : m.owner = r.owner /\ m.copy = "inbox" /\ m.id > r.id] : r \in rows}

Begin(k) ==
  /\ Idle(k)
  /\ \E q \in Asked : req' = [req EXCEPT ![k] = q]
  /\ Goto(k, "authenticate")
  /\ UNCHANGED <<tables, drawn, panes, draft>>

Starts(k) ==
  /\ Goto(k, CASE req[k].op = "send" -> "look" [] req[k].op = "delete" -> "folder" [] OTHER -> "exec")
  /\ Keep(k, [NoDraft EXCEPT !.todo = IF req[k].op = "send" THEN req[k].to ELSE <<>>])

(* Mutant: whoever has not been welcomed yet is. *)
AuthenticateUnwelcomed(k) ==
  /\ pc[k] = "authenticate"
  /\ accounts' = accounts \cup {req[k].by}
  /\ \/ /\ \A m \in mail : m.from # System \/ m.owner # req[k].by
        /\ Goto(k, "welcome") /\ UNCHANGED draft
     \/ /\ \E m \in mail : m.from = System /\ m.owner = req[k].by
        /\ Starts(k)
  /\ UNCHANGED <<mail, drawn, hits, turned, panes, req>>

(* EnsureAccount: one INSERT, which says whether it made the row. *)
Authenticate(k) ==
  /\ pc[k] = "authenticate"
  /\ accounts' = accounts \cup {req[k].by}
  /\ \/ req[k].by \notin accounts /\ Goto(k, "welcome") /\ UNCHANGED draft
     \/ req[k].by \in accounts /\ Starts(k)
  /\ UNCHANGED <<mail, drawn, hits, turned, panes, req>>

(* A copy of a message with the next id. *)
Copy(k, owner, from, copy, to) ==
  LET i == drawn + 1 IN
  [id |-> i, owner |-> owner, from |-> from, copy |-> copy, to |-> to,
   message |-> IF draft[k].rows = {} THEN i ELSE CHOOSE m \in {r.message : r \in draft[k].rows} : TRUE,
   away |-> draft[k].away, folder |-> copy, late |-> FALSE]

(* WelcomeMail, by Deliver, in a transaction of its own. *)
Welcome(k) ==
  /\ pc[k] = "welcome" /\ drawn < MaxId /\ drawn' = drawn + 1
  /\ Keep(k, [NoDraft EXCEPT !.rows = {Copy(k, req[k].by, System, "inbox", <<req[k].by>>)}])
  /\ Goto(k, "greet")
  /\ UNCHANGED <<tables, panes, req>>

Greet(k) ==
  /\ pc[k] = "greet"
  /\ mail' = mail \cup Stamped(draft[k].rows)
  /\ Starts(k)
  /\ UNCHANGED <<accounts, drawn, hits, turned, panes, req>>

(* "Logged and not fatal": the request goes on without it. *)
WelcomeFails(k) ==
  /\ pc[k] \in {"welcome", "greet"}
  /\ Starts(k)
  /\ UNCHANGED <<tables, drawn, panes, req>>

-----------------------------------------------------------------------------
(* MailSend: to each recipient in turn, then the sender's own copy.          *)

Look(k) ==
  /\ pc[k] = "look"
  /\ UNCHANGED <<tables, drawn, panes>>
  /\ LET todo == draft[k].todo IN
     \/ todo = <<>> /\ Goto(k, "sent") /\ UNCHANGED <<req, draft>>
     \/ /\ todo # <<>> /\ Head(todo) \notin accounts
        /\ Finish(k)
     \/ /\ todo # <<>> /\ Head(todo) \in accounts
        /\ Goto(k, IF hits[<<Head(todo), req[k].by>>] = NoBlock THEN "put" ELSE "turn")
        /\ UNCHANGED <<req, draft>>

(* What the transaction sees of a row: its own write, or what is committed. *)
Seen(p, k) == IF draft[k].hits[p] # NoBlock THEN draft[k].hits[p] ELSE hits[p]

(* Mutant: the hits are read and written back, without the row's lock. *)
TurnUnlocked(k) ==
  /\ pc[k] = "turn"
  /\ LET r == Head(draft[k].todo)
         p == <<r, req[k].by>>
         d == [draft[k] EXCEPT !.todo = Tail(@), !.away = @ + 1]
     IN Keep(k, IF hits[p] = NoBlock THEN d
                ELSE [d EXCEPT !.counts = Append(@, r), !.hits[p] = Seen(p, k) + 1])
  /\ Goto(k, "look")
  /\ UNCHANGED <<tables, drawn, panes, req>>

(* UPDATE blocks SET hits = hits + 1, and no copy.  Lifted meanwhile, the    *)
(* block counts nothing and the recipient gets no copy either.               *)
Turn(k) ==
  /\ pc[k] = "turn"
  /\ LET r == Head(draft[k].todo)
         p == <<r, req[k].by>>
         d == [draft[k] EXCEPT !.todo = Tail(@), !.away = @ + 1]
     IN /\ ~Locked(p, k)
        /\ Keep(k, IF hits[p] = NoBlock THEN d
                   ELSE [d EXCEPT !.counts = Append(@, r), !.hits[p] = Seen(p, k) + 1])
  /\ Goto(k, "look")
  /\ UNCHANGED <<tables, drawn, panes, req>>

(* Mutant: the copy is inserted by the pool, beside the transaction. *)
PutAtOnce(k) ==
  /\ pc[k] = "put" /\ drawn < MaxId /\ drawn' = drawn + 1
  /\ LET row == Copy(k, Head(draft[k].todo), req[k].by, "inbox", req[k].to) IN
     /\ mail' = mail \cup Stamped({row})
     /\ Keep(k, [draft[k] EXCEPT !.todo = Tail(@), !.rows = @ \cup {row}])
  /\ Goto(k, "look")
  /\ UNCHANGED <<accounts, hits, turned, panes, req>>

Put(k) ==
  /\ pc[k] = "put" /\ drawn < MaxId /\ drawn' = drawn + 1
  /\ Keep(k, [draft[k] EXCEPT !.todo = Tail(@),
              !.rows = @ \cup {Copy(k, Head(draft[k].todo), req[k].by, "inbox", req[k].to)}])
  /\ Goto(k, "look")
  /\ UNCHANGED <<tables, panes, req>>

Sent(k) ==
  /\ pc[k] = "sent" /\ drawn < MaxId /\ drawn' = drawn + 1
  /\ Keep(k, [draft[k] EXCEPT !.rows = @ \cup {Copy(k, req[k].by, req[k].by, "sent", req[k].to)}])
  /\ Goto(k, "commit")
  /\ UNCHANGED <<tables, panes, req>>

Commit(k) ==
  /\ pc[k] = "commit"
  /\ mail' = mail \cup Stamped(draft[k].rows)
  /\ hits' = [p \in Pair |-> IF draft[k].hits[p] # NoBlock THEN draft[k].hits[p] ELSE hits[p]]
  /\ turned' = [p \in Pair |-> turned[p] + IF p[2] = req[k].by THEN Times(p[1], draft[k].counts) ELSE 0]
  /\ Finish(k)
  /\ UNCHANGED <<accounts, drawn, panes>>

-----------------------------------------------------------------------------
(* MailDelete reads the folder, then moves or deletes.                       *)

Own(k) == {m \in mail : m.owner = req[k].by /\ m.id = req[k].id /\ m.folder # "purged"}

ReadFolder(k) ==
  /\ pc[k] = "folder"
  /\ \/ Own(k) = {} /\ Refuse(k)
     \/ \E m \in Own(k) : /\ Keep(k, [draft[k] EXCEPT !.folder = m.folder])
                          /\ Goto(k, "move")
                          /\ UNCHANGED <<tables, drawn, panes, req>>

Moved(k, f) == mail' = (mail \ Own(k)) \cup {[m EXCEPT !.folder = f] : m \in Own(k)}

(* Mutant: a row in neither box is taken for a deleted one. *)
MoveOrPurgeSent(k) ==
  /\ pc[k] = "move"
  /\ Moved(k, IF draft[k].folder # "inbox" THEN "purged" ELSE "deleted")
  /\ Finish(k)
  /\ UNCHANGED <<accounts, drawn, hits, turned, panes>>

MoveOrPurge(k) ==
  /\ pc[k] = "move"
  /\ Moved(k, IF draft[k].folder = "deleted" THEN "purged" ELSE "deleted")
  /\ Finish(k)
  /\ UNCHANGED <<accounts, drawn, hits, turned, panes>>

-----------------------------------------------------------------------------
(* Requests of one statement that matters.                                   *)

PurgeMail(k) ==
  /\ pc[k] = "exec" /\ req[k].op = "purge"
  /\ Moved(k, "purged")
  /\ Finish(k)
  /\ UNCHANGED <<accounts, drawn, hits, turned, panes>>

(* MailSince, and the pane that caches what it is handed. *)
Answer(w) == {m \in mail : m.owner = w /\ m.folder = "inbox" /\ m.id > mark[w]}

(* Mutant: the rows come in any order, and the last is not the highest. *)
PollUnordered(k) ==
  /\ pc[k] = "exec" /\ req[k].op = "poll"
  /\ LET w == req[k].by IN
     /\ listed' = [listed EXCEPT ![w] = [i \in 1..MaxId |-> @[i] + Cardinality({m \in Answer(w) : m.id = i})]]
     /\ \/ Answer(w) = {} /\ UNCHANGED mark
        \/ \E last \in Answer(w) : mark' = [mark EXCEPT ![w] = last.id]
  /\ Finish(k)
  /\ UNCHANGED <<tables, drawn>>

Poll(k) ==
  /\ pc[k] = "exec" /\ req[k].op = "poll"
  /\ LET w == req[k].by IN
     /\ listed' = [listed EXCEPT ![w] = [i \in 1..MaxId |-> @[i] + Cardinality({m \in Answer(w) : m.id = i})]]
     /\ \/ Answer(w) = {} /\ UNCHANGED mark
        \/ \E last \in Answer(w) : /\ \A m \in Answer(w) : m.id <= last.id
                                   /\ mark' = [mark EXCEPT ![w] = last.id]
  /\ Finish(k)
  /\ UNCHANGED <<tables, drawn>>

(* INSERT INTO blocks ... ON CONFLICT DO NOTHING *)
BlockAdd(k) ==
  /\ pc[k] = "exec" /\ req[k].op = "block"
  /\ LET p == <<req[k].by, req[k].who>> IN
     IF req[k].who \in accounts \ {req[k].by} /\ hits[p] = NoBlock
     THEN hits' = [hits EXCEPT ![p] = 0] /\ turned' = [turned EXCEPT ![p] = 0]
     ELSE UNCHANGED <<hits, turned>>
  /\ Finish(k)
  /\ UNCHANGED <<accounts, mail, drawn, panes>>

BlockRemove(k) ==
  /\ pc[k] = "exec" /\ req[k].op = "unblock"
  /\ LET p == <<req[k].by, req[k].who>> IN
     /\ ~Locked(p, k)
     /\ hits' = [hits EXCEPT ![p] = NoBlock] /\ turned' = [turned EXCEPT ![p] = 0]
  /\ Finish(k)
  /\ UNCHANGED <<accounts, mail, drawn, panes>>

(* The player gives up, the connection breaks, or a deadlock is resolved. *)
Fault(k) == ~Idle(k) /\ Refuse(k)

Step(k) ==
  \/ Authenticate(k) \/ Welcome(k) \/ Greet(k) \/ WelcomeFails(k)
  \/ Look(k) \/ Turn(k) \/ Put(k) \/ Sent(k) \/ Commit(k)
  \/ ReadFolder(k) \/ MoveOrPurge(k) \/ PurgeMail(k)
  \/ Poll(k) \/ BlockAdd(k) \/ BlockRemove(k)

Next == \E k \in Worker : Begin(k) \/ Step(k) \/ Fault(k)

Spec == Init /\ [][Next]_vars

-----------------------------------------------------------------------------
(* Types, and ids that are one row's, though it is not committed yet.        *)
TypeOK ==
  /\ accounts \subseteq Warrior
  /\ \A m \in mail : m \in Row
  /\ \A m, n \in mail \cup UNION {draft[k].rows : k \in Worker} : m.id = n.id => m.owner = n.owner
  /\ drawn \in 0..MaxId
  /\ hits \in [Pair -> Nat \cup {NoBlock}] /\ turned \in [Pair -> Nat]
  /\ listed \in [Warrior -> [1..MaxId -> Nat]] /\ mark \in [Warrior -> 0..MaxId]
  /\ req \in [Worker -> Asked \cup {NoRequest}]
  /\ pc \in [Worker -> Stage]
  /\ \A k \in Worker : draft[k] \in Draft /\ (Idle(k) => pc[k] = "idle" /\ draft[k] = NoDraft)

(* A message is in the sender's Sent folder and in the box of everybody it   *)
(* was not turned away from, or nowhere: never delivered without a trace or  *)
(* kept without being delivered (mail.go:63, store.go:72).                   *)
SentTogether ==
  \A m \in mail : m.from # System =>
    \E s \in mail : /\ s.copy = "sent" /\ s.message = m.message
                    /\ Cardinality({c \in mail : c.message = m.message /\ c.copy = "inbox"})
                         + s.away = Len(s.to)

(* The hits of a block are the messages it has turned away since it stands,  *)
(* however many were sent at once or given up half way (mail.go:92).         *)
HitsCounted == \A p \in Pair : hits[p] # NoBlock => hits[p] = turned[p]

(* The pane is never given a row twice, and a row of the inbox below its     *)
(* mark was given to it, unless it was committed after a row with a higher   *)
(* id: that one the pane never asks for again (won.go:498).                  *)
GivenOnce ==
  \A w \in Warrior :
    /\ \A i \in 1..MaxId : listed[w][i] <= 1
    /\ \A m \in mail : m.owner = w /\ m.folder = "inbox" /\ m.id <= mark[w] =>
         listed[w][m.id] = 1 \/ m.late

(* "deleting moves a message to Deleted before a second delete purges it"   *)
(* (mail.go:12): a row goes for good from Deleted, or by its owner's purge.  *)
TwoStageDelete ==
  [][\A m \in mail : m.folder \in {"inbox", "sent"} =>
       \A n \in mail' : n.id = m.id /\ n.folder = "purged" =>
         \E k \in Worker : ~Idle(k) /\ req[k].op = "purge" /\ req[k].by = m.owner]_vars

(* Nobody is welcomed twice, though their first requests come together       *)
(* (store.go:190).                                                           *)
WelcomedOnce ==
  \A m, n \in mail : m.from = System /\ n.from = System /\ m.owner = n.owner => m = n
=============================================================================
