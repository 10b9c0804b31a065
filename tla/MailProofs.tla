----------------------------- MODULE MailProofs -----------------------------
(***************************************************************************)
(* What mail guarantees for any warriors, workers, requests and number of  *)
(* ids.                                                                    *)
(*                                                                         *)
(* The invariant comes in layers, each proved from the ones before it: the *)
(* types, what a worker's stage says of its transaction, and that an id is *)
(* one row's (Base); the counters of the blocks; the panes; the welcome;   *)
(* the message a transaction is half way through sending; and the second   *)
(* delete.  What a step does to the rows is one of four effects, which is  *)
(* all that most of the layers need to know of it.                         *)
(***************************************************************************)
EXTENDS Mail, FiniteSetTheorems, FunctionTheorems, SequenceTheorems, TLAPS

Types ==
  /\ accounts \subseteq Warrior
  /\ mail \subseteq Row
  /\ drawn \in 0..MaxId
  /\ hits \in [Pair -> Nat \cup {NoBlock}] /\ turned \in [Pair -> Nat]
  /\ listed \in [Warrior -> [1..MaxId -> Nat]] /\ mark \in [Warrior -> 0..MaxId]
  /\ req \in [Worker -> Asked \cup {NoRequest}]
  /\ pc \in [Worker -> Stage]
  /\ draft \in [Worker -> Draft]

Sending == {"look", "turn", "put", "sent", "commit"}

(* A worker's stage says which request it serves and what its transaction    *)
(* has done so far.                                                          *)
Shape(k) ==
  /\ pc[k] = "idle" <=> Idle(k)
  /\ pc[k] \in {"idle", "authenticate", "welcome", "folder", "exec"} => draft[k] = NoDraft
  /\ pc[k] \notin Sending => draft[k].hits = NoDraft.hits /\ draft[k].counts = <<>>
  /\ pc[k] \notin Sending \cup {"greet"} => draft[k].rows = {}
  /\ pc[k] \in Sending => req[k].op = "send" /\ \A r \in draft[k].rows : r.from = req[k].by
  /\ pc[k] \in {"turn", "put"} => draft[k].todo # <<>> /\ Head(draft[k].todo) \in Warrior
  /\ pc[k] = "greet" =>
       /\ \A r \in draft[k].rows : r.from = System /\ r.owner = req[k].by
       /\ \A r, n \in draft[k].rows : r = n

(* An id was drawn, and is one row's: of the table, or of one transaction.   *)
Fresh ==
  /\ \A m \in mail : m.id <= drawn
  /\ \A m, n \in mail : m.id = n.id => m = n
  /\ \A k \in Worker : \A r \in draft[k].rows :
       /\ r.id <= drawn /\ r.folder = r.copy
       /\ \A n \in draft[k].rows : n.id = r.id => n = r
       /\ \A m \in mail : m.id # r.id
       /\ \A j \in Worker \ {k} : \A n \in draft[j].rows : n.id # r.id

Base == Types /\ (\A k \in Worker : Shape(k)) /\ Fresh

(* The row of a block a transaction counts on is its own until it commits,   *)
(* and says what was counted and what it has counted.                        *)
CountsOK(k) ==
  /\ \A p \in Pair : draft[k].hits[p] # NoBlock =>
       /\ p[2] = req[k].by /\ hits[p] # NoBlock /\ ~Locked(p, k)
       /\ draft[k].hits[p] = hits[p] + Times(p[1], draft[k].counts)
  /\ pc[k] \in Sending => \A p \in Pair : draft[k].hits[p] = NoBlock /\ p[2] = req[k].by =>
       Times(p[1], draft[k].counts) = 0
Counting == HitsCounted /\ \A k \in Worker : CountsOK(k)

(* Nothing above its mark was given to a pane, and the mark is a row's.      *)
PaneOK(w) ==
  /\ \A i \in 1..MaxId : i > mark[w] => listed[w][i] = 0
  /\ mark[w] # 0 => \E m \in mail : m.owner = w /\ m.copy = "inbox" /\ m.id = mark[w]
Panes == GivenOnce /\ (\A w \in Warrior : PaneOK(w)) /\ \A m \in mail : m.folder = "inbox" => m.copy = "inbox"

(* Whoever is being welcomed has an account, no welcome yet and no other     *)
(* worker that welcomes them.                                                *)
Greeting(k) == pc[k] \in {"welcome", "greet"}
WelcomeOK ==
  /\ WelcomedOnce
  /\ \A m \in mail : m.from = System => m.owner \in accounts
  /\ \A k \in Worker : Greeting(k) =>
       /\ req[k].by \in accounts
       /\ \A m \in mail : m.from = System => m.owner # req[k].by
       /\ \A j \in Worker \ {k} : Greeting(j) => req[j].by # req[k].by

(* A row found deleted before the second delete stays deleted.               *)
FoundDeleted(k) ==
  pc[k] = "move" =>
    \E m \in mail : /\ m.id = req[k].id
                    /\ draft[k].folder = "deleted" => m.folder \in {"deleted", "purged"}

(* A transaction's rows are of one message, which is the first id it drew;   *)
(* its copies, those it turned away and those to come are the recipients.    *)
Copies(rows) == {r.id : r \in {n \in rows : n.copy = "inbox"}}
CopiesOf(message, rows) == Copies({n \in rows : n.message = message})
Message(rows) == \A r \in rows : \E n \in rows : n.id = r.message /\ n.message = r.message
SendOK(k) ==
  /\ Message(draft[k].rows) /\ \A r, n \in draft[k].rows : r.message = n.message
  /\ pc[k] \in Sending =>
       Cardinality(Copies(draft[k].rows)) + draft[k].away + Len(draft[k].todo) = Len(req[k].to)
  /\ pc[k] \in {"sent", "commit"} => draft[k].todo = <<>>
  /\ pc[k] = "commit" =>
       \E s \in draft[k].rows : s.copy = "sent" /\ s.away = draft[k].away /\ s.to = req[k].to
Together ==
  /\ Message(mail)
  /\ \A m \in mail : m.from # System =>
       \E s \in mail : /\ s.copy = "sent" /\ s.message = m.message
                       /\ Cardinality(CopiesOf(m.message, mail)) + s.away = Len(s.to)
Sends == Together /\ \A k \in Worker : SendOK(k)

IInv == Base /\ Counting /\ Panes /\ WelcomeOK /\ Sends /\ \A k \in Worker : FoundDeleted(k)

-----------------------------------------------------------------------------
(* Requests, drafts, rows and counts.                                        *)
LEMMA Fields ==
  ASSUME NEW q \in Asked
  PROVE  /\ q # NoRequest /\ q.by \in Warrior
         /\ q.op \in {"send", "delete", "purge", "block", "unblock", "poll"}
         /\ q.op = "send" => q.to \in Recipients
         /\ q.op \in {"block", "unblock"} => q.who \in Warrior
BY AskedAssumption DEF Request

LEMMA RowFields ==
  ASSUME NEW r \in Row
  PROVE  /\ r.id \in 1..MaxId /\ r.owner \in Warrior /\ r.from \in Warrior \cup {System}
         /\ r.message \in 1..MaxId /\ r.copy \in {"inbox", "sent"} /\ r.to \in Recipients
         /\ r.away \in Nat /\ r.folder \in Folder /\ r.late \in BOOLEAN
BY DEF Row

LEMMA DraftFields ==
  ASSUME NEW d \in Draft
  PROVE  /\ d.todo \in Recipients /\ d.rows \subseteq Row /\ d.away \in Nat
         /\ d.counts \in Seq(Warrior) /\ d.hits \in [Pair -> Nat \cup {NoBlock}]
         /\ d.folder \in Folder \cup {NoFolder}
BY DEF Draft

LEMMA NoDraftFields ==
  /\ NoDraft \in Draft /\ NoDraft.rows = {} /\ NoDraft.counts = <<>> /\ NoDraft.todo = <<>>
  /\ NoDraft.away = 0 /\ \A p \in Pair : NoDraft.hits[p] = NoBlock
<1>1. <<>> \in Recipients /\ <<>> \in Seq(Warrior)
  BY DEF Recipients
<1>2. [p \in Pair |-> NoBlock] \in [Pair -> Nat \cup {NoBlock}]
  OBVIOUS
<1>3. QED
  BY <1>1, <1>2 DEF NoDraft, Draft

(* What Starts leaves of a draft: the recipients of a message, if it is one. *)
Fresh0(q) == [NoDraft EXCEPT !.todo = IF q.op = "send" THEN q.to ELSE <<>>]

LEMMA StartFields ==
  ASSUME NEW q \in Asked
  PROVE  /\ Fresh0(q) \in Draft /\ Fresh0(q).rows = {} /\ Fresh0(q).counts = <<>>
         /\ Fresh0(q).hits = NoDraft.hits /\ Fresh0(q).away = 0
         /\ Fresh0(q).todo = IF q.op = "send" THEN q.to ELSE <<>>
         /\ q.op # "send" => Fresh0(q) = NoDraft
<1>1. (IF q.op = "send" THEN q.to ELSE <<>>) \in Recipients
  BY Fields, NoDraftFields, DraftFields
<1>2. QED
  BY <1>1, NoDraftFields DEF Fresh0, NoDraft, Draft

LEMMA CopyFields ==
  ASSUME Types, NEW k \in Worker, drawn < MaxId, NEW owner \in Warrior,
         NEW from \in Warrior \cup {System}, NEW copy \in {"inbox", "sent"}, NEW to \in Recipients,
         NEW r, r = Copy(k, owner, from, copy, to)
  PROVE  /\ r \in Row /\ r.id = drawn + 1 /\ r.owner = owner /\ r.from = from /\ r.copy = copy
         /\ r.to = to /\ r.away = draft[k].away /\ r.folder = copy
         /\ IF draft[k].rows = {} THEN r.message = r.id
            ELSE \E n \in draft[k].rows : n.message = r.message
<1>1. draft[k].rows \subseteq Row /\ draft[k].away \in Nat /\ drawn + 1 \in 1..MaxId
  BY DraftFields, MaxIdAssumption DEF Types
<1>2. PICK m : m = IF draft[k].rows = {} THEN drawn + 1
                   ELSE CHOOSE x \in {n.message : n \in draft[k].rows} : TRUE
  OBVIOUS
<1>3. CASE draft[k].rows # {}
  <2>1. \E x \in {n.message : n \in draft[k].rows} : TRUE
    BY <1>3
  <2>2. m \in {n.message : n \in draft[k].rows}
    BY <1>2, <1>3, <2>1
  <2>3. PICK n \in draft[k].rows : n.message = m
    BY <2>2
  <2>4. m \in 1..MaxId
    BY <1>1, <2>3, RowFields
  <2>5. r = [id |-> drawn + 1, owner |-> owner, from |-> from, copy |-> copy, to |-> to,
             message |-> m, away |-> draft[k].away, folder |-> copy, late |-> FALSE]
    BY <1>2 DEF Copy
  <2>6. QED
    BY <1>1, <1>3, <2>3, <2>4, <2>5 DEF Row, Folder
<1>4. CASE draft[k].rows = {}
  <2>1. r = [id |-> drawn + 1, owner |-> owner, from |-> from, copy |-> copy, to |-> to,
             message |-> drawn + 1, away |-> draft[k].away, folder |-> copy, late |-> FALSE]
    BY <1>4 DEF Copy
  <2>2. QED
    BY <1>1, <1>4, <2>1 DEF Row, Folder
<1>5. QED
  BY <1>3, <1>4

LEMMA StampedFields ==
  ASSUME Types, NEW R \in SUBSET Row
  PROVE  /\ Stamped(R) \subseteq Row
         /\ \A s \in Stamped(R) : \E r \in R :
              /\ s.id = r.id /\ s.owner = r.owner /\ s.from = r.from /\ s.copy = r.copy /\ s.to = r.to
              /\ s.message = r.message /\ s.away = r.away /\ s.folder = r.folder
         /\ \A r \in R : \E s \in Stamped(R) :
              /\ s.id = r.id /\ s.owner = r.owner /\ s.from = r.from /\ s.copy = r.copy /\ s.to = r.to
              /\ s.message = r.message /\ s.away = r.away /\ s.folder = r.folder
<1> DEFINE late(r) == \E m \in mail : m.owner = r.owner /\ m.copy = "inbox" /\ m.id > r.id
<1>1. ASSUME NEW r \in R
      PROVE  LET s == [r EXCEPT !.late = late(r)] IN
             /\ s \in Row
             /\ s.id = r.id /\ s.owner = r.owner /\ s.from = r.from /\ s.copy = r.copy /\ s.to = r.to
             /\ s.message = r.message /\ s.away = r.away /\ s.folder = r.folder
  <2>1. PICK b \in BOOLEAN : b = late(r)
    OBVIOUS
  <2>2. r \in Row /\ [r EXCEPT !.late = b] \in Row
    BY DEF Row
  <2>3. QED
    BY <2>1, <2>2 DEF Row
<1>2. Stamped(R) = {[r EXCEPT !.late = late(r)] : r \in R}
  BY DEF Stamped
<1> HIDE DEF late
<1>3. Stamped(R) \subseteq Row
  BY <1>1, <1>2
<1>4. \A s \in Stamped(R) : \E r \in R :
              /\ s.id = r.id /\ s.owner = r.owner /\ s.from = r.from /\ s.copy = r.copy /\ s.to = r.to
              /\ s.message = r.message /\ s.away = r.away /\ s.folder = r.folder
  <2> SUFFICES ASSUME NEW r \in R, NEW s, s = [r EXCEPT !.late = late(r)]
               PROVE  /\ s.id = r.id /\ s.owner = r.owner /\ s.from = r.from /\ s.copy = r.copy
                      /\ s.to = r.to /\ s.message = r.message /\ s.away = r.away
                      /\ s.folder = r.folder
    BY <1>2
  <2>1. QED
    BY <1>1
<1>5. \A r \in R : \E s \in Stamped(R) :
              /\ s.id = r.id /\ s.owner = r.owner /\ s.from = r.from /\ s.copy = r.copy /\ s.to = r.to
              /\ s.message = r.message /\ s.away = r.away /\ s.folder = r.folder
  BY <1>1, <1>2
<1>6. QED
  BY <1>3, <1>4, <1>5

(* A row committed after a higher one of its inbox is late. *)
LEMMA StampedLate ==
  ASSUME NEW R \in SUBSET Row, \A r, q \in R : r.id = q.id => r = q,
         NEW s \in Stamped(R), NEW r \in R, s.id = r.id,
         NEW m \in mail, m.owner = r.owner, m.copy = "inbox", m.id > r.id
  PROVE  s.late
<1>1. PICK q \in R : s = [q EXCEPT !.late = \E n \in mail : n.owner = q.owner /\ n.copy = "inbox" /\ n.id > q.id]
  BY DEF Stamped
<1>2. PICK b \in BOOLEAN : b = \E n \in mail : n.owner = q.owner /\ n.copy = "inbox" /\ n.id > q.id
  OBVIOUS
<1>3. s = [q EXCEPT !.late = b]
  BY <1>1, <1>2
<1>4. s.id = q.id /\ s.late = b
  BY <1>3 DEF Row
<1>5. q = r
  BY <1>4
<1>6. b
  BY <1>2, <1>5
<1>7. QED
  BY <1>4, <1>6

LEMMA TimesType ==
  ASSUME NEW r, NEW s \in Seq(Warrior)
  PROVE  IsFiniteSet({i \in DOMAIN s : s[i] = r}) /\ Times(r, s) \in Nat
<1>1. IsFiniteSet(1 .. Len(s)) /\ {i \in DOMAIN s : s[i] = r} \in SUBSET (1 .. Len(s))
  BY FS_Interval
<1>2. QED
  BY <1>1, FS_Subset, FS_CardinalityType DEF Times

LEMMA TimesEmpty ==
  ASSUME NEW r
  PROVE  Times(r, <<>>) = 0
<1>1. {i \in DOMAIN <<>> : <<>>[i] = r} = {}
  OBVIOUS
<1>2. QED
  BY <1>1, FS_EmptySet DEF Times

LEMMA TimesAppend ==
  ASSUME NEW r, NEW s \in Seq(Warrior), NEW x \in Warrior
  PROVE  Times(r, Append(s, x)) = IF x = r THEN Times(r, s) + 1 ELSE Times(r, s)
<1> DEFINE n == Len(s)
           A == {i \in DOMAIN s : s[i] = r}
           B == {i \in DOMAIN Append(s, x) : Append(s, x)[i] = r}
<1>1. /\ n \in Nat /\ DOMAIN s = 1..n /\ DOMAIN Append(s, x) = 1 .. n + 1
      /\ Append(s, x)[n + 1] = x /\ \A i \in 1..n : Append(s, x)[i] = s[i]
  OBVIOUS
<1>2. B = IF x = r THEN A \cup {n + 1} ELSE A
  BY <1>1
<1>3. n + 1 \notin A
  BY <1>1
<1>4. IsFiniteSet(A)
  BY TimesType
<1>5. Cardinality(A \cup {n + 1}) = Cardinality(A) + 1
  BY <1>3, <1>4, FS_AddElement
<1>6. QED
  BY <1>2, <1>5 DEF Times

-----------------------------------------------------------------------------
(* The types.                                                                *)
Acts(k) == Begin(k) \/ Step(k) \/ Fault(k)

LEMMA Local ==
  ASSUME Types, NEW k \in Worker, Acts(k)
  PROVE  /\ req' = [req EXCEPT ![k] = req'[k]] /\ pc' = [pc EXCEPT ![k] = pc'[k]]
         /\ draft' = [draft EXCEPT ![k] = draft'[k]]
<1> DEFINE R == req' = [req EXCEPT ![k] = req'[k]]
           P == pc' = [pc EXCEPT ![k] = pc'[k]]
           D == draft' = [draft EXCEPT ![k] = draft'[k]]
<1>0. (UNCHANGED req => R) /\ (UNCHANGED draft => D)
  BY DEF Types
<1> SUFFICES R /\ P /\ D
  OBVIOUS
<1> HIDE DEF R, P, D
<1>1. ASSUME NEW s, Goto(k, s) PROVE P
  BY <1>1 DEF Goto, Types, P
<1>2. ASSUME NEW d, Keep(k, d) PROVE D
  BY <1>2 DEF Keep, Types, D
<1>3. ASSUME Finish(k) PROVE R /\ P /\ D
  BY <1>1, <1>3 DEF Finish, Types, R, P, D
<1>4. CASE Begin(k)
  BY <1>0, <1>1, <1>4, AskedAssumption DEF Begin, Types, R
<1>5. ASSUME Starts(k) PROVE P /\ D
  BY <1>1, <1>2, <1>5 DEF Starts
<1>6. CASE Authenticate(k) \/ Welcome(k) \/ Greet(k) \/ WelcomeFails(k)
  BY <1>0, <1>1, <1>2, <1>5, <1>6 DEF Authenticate, Welcome, Greet, WelcomeFails
<1>7. CASE Look(k)
  BY <1>0, <1>1, <1>3, <1>7 DEF Look
<1>8. CASE Turn(k)
  BY <1>0, <1>1, <1>2, <1>8 DEF Turn
<1>9. CASE Put(k) \/ Sent(k)
  BY <1>0, <1>1, <1>2, <1>9 DEF Put, Sent
<1>10. CASE ReadFolder(k)
  BY <1>0, <1>1, <1>2, <1>3, <1>10 DEF ReadFolder, Refuse
<1>11. CASE Commit(k) \/ MoveOrPurge(k) \/ PurgeMail(k) \/ Poll(k) \/ BlockAdd(k) \/ BlockRemove(k) \/ Fault(k)
  BY <1>3, <1>11 DEF Commit, MoveOrPurge, PurgeMail, Poll, BlockAdd, BlockRemove, Fault, Refuse
<1>12. QED
  BY <1>4, <1>6, <1>7, <1>8, <1>9, <1>10, <1>11 DEF Acts, Step

(* What becomes of the worker whose step it is. *)
Now(k, q, s, d) == req'[k] = q /\ pc'[k] = s /\ draft'[k] = d

LEMMA Finished ==
  ASSUME Types, NEW k \in Worker, Finish(k)
  PROVE  Now(k, NoRequest, "idle", NoDraft)
BY DEF Types, Finish, Goto, Now

LEMMA Started ==
  ASSUME Types, NEW k \in Worker, Starts(k), UNCHANGED req
  PROVE  Now(k, req[k], CASE req[k].op = "send" -> "look" [] req[k].op = "delete" -> "folder"
                          [] OTHER -> "exec", Fresh0(req[k]))
BY DEF Types, Starts, Goto, Keep, Now, Fresh0

LEMMA Drafted ==
  ASSUME Types, NEW k \in Worker, NEW s, NEW d, Keep(k, d), Goto(k, s), UNCHANGED req
  PROVE  Now(k, req[k], s, d)
BY DEF Types, Goto, Keep, Now

LEMMA Went ==
  ASSUME Types, NEW k \in Worker, NEW s, Goto(k, s), UNCHANGED <<req, draft>>
  PROVE  Now(k, req[k], s, draft[k])
BY DEF Types, Goto, Now

(* The rows of blocks a transaction would write, and what it has turned.     *)
LEMMA TurnFields ==
  ASSUME Types, NEW k \in Worker, Shape(k), Turn(k)
  PROVE  LET r == Head(draft[k].todo)
             p == <<r, req[k].by>>
         IN /\ r \in Warrior /\ p \in Pair /\ req[k] \in Asked /\ ~Locked(p, k)
            /\ \E d \in Draft :
                 /\ Now(k, req[k], "look", d)
                 /\ d.rows = draft[k].rows /\ d.todo = Tail(draft[k].todo)
                 /\ d.away = draft[k].away + 1 /\ d.folder = draft[k].folder
                 /\ IF hits[p] = NoBlock THEN d.counts = draft[k].counts /\ d.hits = draft[k].hits
                    ELSE /\ d.counts = Append(draft[k].counts, r)
                         /\ d.hits = [draft[k].hits EXCEPT ![p] = Seen(p, k) + 1]
<1> DEFINE r == Head(draft[k].todo)
           p == <<r, req[k].by>>
<1>1. /\ pc[k] = "turn" /\ draft[k] \in Draft /\ req[k] \in Asked /\ draft[k].todo # <<>>
      /\ r \in Warrior
  BY DEF Turn, Types, Shape, Idle
<1>2. p \in Pair
  BY <1>1, Fields DEF Pair
<1>3. PICK b : b = draft[k]
  OBVIOUS
<1>4. PICK todo : todo = Tail(b.todo)
  OBVIOUS
<1>5. todo \in Recipients /\ b.away + 1 \in Nat
  BY <1>1, <1>3, <1>4, DraftFields, HeadTailProperties DEF Recipients
<1>6. PICK d : d = [b EXCEPT !.todo = todo, !.away = b.away + 1]
  OBVIOUS
<1>7. d \in Draft /\ d.rows = b.rows /\ d.todo = todo /\ d.away = b.away + 1 /\ d.counts = b.counts
      /\ d.hits = b.hits /\ d.folder = b.folder
  BY <1>1, <1>3, <1>5, <1>6 DEF Draft
<1>8. PICK n : n = Seen(p, k) + 1
  OBVIOUS
<1>9. hits[p] # NoBlock => n \in Nat
  BY <1>1, <1>2, <1>8, DraftFields DEF Seen, Types
<1>10. PICK e : e = [d EXCEPT !.counts = Append(d.counts, r), !.hits[p] = n]
  OBVIOUS
<1>11. ASSUME hits[p] # NoBlock
       PROVE  e \in Draft /\ e.rows = b.rows /\ e.todo = todo /\ e.away = b.away + 1
              /\ e.counts = Append(b.counts, r) /\ e.folder = b.folder
              /\ e.hits = [b.hits EXCEPT ![p] = n]
  <2>1. Append(d.counts, r) \in Seq(Warrior) /\ [d.hits EXCEPT ![p] = n] \in [Pair -> Nat \cup {NoBlock}]
    BY <1>1, <1>2, <1>7, <1>9, <1>11, DraftFields
  <2>2. e = [d EXCEPT !.counts = Append(d.counts, r), !.hits = [d.hits EXCEPT ![p] = n]]
    BY <1>7, <1>10 DEF Draft
  <2>3. QED
    BY <1>7, <2>1, <2>2 DEF Draft
<1>12. Keep(k, IF hits[p] = NoBlock THEN d ELSE e) /\ Goto(k, "look") /\ UNCHANGED req /\ ~Locked(p, k)
  BY <1>3, <1>4, <1>6, <1>8, <1>10 DEF Turn
<1>13. Now(k, req[k], "look", IF hits[p] = NoBlock THEN d ELSE e)
  BY <1>12, Drafted
<1>14. QED
  BY <1>1, <1>2, <1>3, <1>4, <1>7, <1>8, <1>11, <1>12, <1>13

LEMMA WelcomeFields ==
  ASSUME Types, NEW k \in Worker, Shape(k), Welcome(k)
  PROVE  \E r \in Row, d \in Draft :
           /\ Now(k, req[k], "greet", d) /\ d.rows = {r} /\ d.hits = NoDraft.hits /\ d.counts = <<>>
           /\ r.id = drawn + 1 /\ r.message = r.id /\ r.from = System /\ r.owner = req[k].by
           /\ r.copy = "inbox" /\ r.folder = r.copy
<1>1. /\ draft[k] = NoDraft /\ req[k] \in Asked /\ drawn < MaxId /\ req[k].by \in Warrior
  BY Fields DEF Welcome, Types, Shape, Idle
<1>2. <<req[k].by>> \in Recipients
  BY <1>1 DEF Recipients
<1>3. PICK r : r = Copy(k, req[k].by, System, "inbox", <<req[k].by>>)
  OBVIOUS
<1>4. r \in Row /\ r.id = drawn + 1 /\ r.message = r.id /\ r.from = System /\ r.owner = req[k].by
      /\ r.copy = "inbox" /\ r.folder = r.copy
  BY <1>1, <1>2, <1>3, CopyFields, NoDraftFields
<1>5. PICK d : d = [NoDraft EXCEPT !.rows = {r}]
  OBVIOUS
<1>6. d \in Draft /\ d.rows = {r} /\ d.hits = NoDraft.hits /\ d.counts = <<>>
  BY <1>4, <1>5, NoDraftFields DEF NoDraft, Draft
<1>7. Now(k, req[k], "greet", d)
  BY <1>3, <1>5, Drafted DEF Welcome
<1>8. QED
  BY <1>4, <1>6, <1>7

LEMMA PutFields ==
  ASSUME Types, NEW k \in Worker, Shape(k), Put(k)
  PROVE  \E r \in Row, d \in Draft :
           /\ Now(k, req[k], "look", d) /\ d.rows = draft[k].rows \cup {r}
           /\ d.hits = draft[k].hits /\ d.counts = draft[k].counts /\ d.away = draft[k].away
           /\ draft[k].todo # <<>> /\ d.todo = Tail(draft[k].todo)
           /\ r.id = drawn + 1 /\ r.from = req[k].by /\ r.copy = "inbox" /\ r.folder = r.copy
           /\ IF draft[k].rows = {} THEN r.message = r.id
              ELSE \E n \in draft[k].rows : n.message = r.message
<1>1. /\ draft[k] \in Draft /\ req[k] \in Asked /\ drawn < MaxId
      /\ req[k].by \in Warrior /\ req[k].to \in Recipients /\ Head(draft[k].todo) \in Warrior
  BY Fields DEF Put, Types, Shape, Idle, Sending
<1>2. PICK b : b = draft[k]
  OBVIOUS
<1>3. PICK r : r = Copy(k, Head(draft[k].todo), req[k].by, "inbox", req[k].to)
  OBVIOUS
<1>4. /\ r \in Row /\ r.id = drawn + 1 /\ r.from = req[k].by /\ r.copy = "inbox" /\ r.folder = r.copy
      /\ r.to = req[k].to /\ r.away = b.away
      /\ IF b.rows = {} THEN r.message = r.id ELSE \E n \in b.rows : n.message = r.message
  BY <1>1, <1>2, <1>3, CopyFields
<1>5. PICK todo : todo = Tail(b.todo)
  OBVIOUS
<1>6. todo \in Recipients /\ b.todo # <<>>
  BY <1>1, <1>2, <1>5, DraftFields, HeadTailProperties DEF Recipients, Put, Shape
<1>7. PICK d : d = [b EXCEPT !.todo = todo, !.rows = b.rows \cup {r}]
  OBVIOUS
<1>8. d \in Draft /\ d.rows = b.rows \cup {r} /\ d.hits = b.hits /\ d.counts = b.counts
      /\ d.away = b.away /\ d.todo = todo
  BY <1>1, <1>2, <1>4, <1>6, <1>7 DEF Draft
<1>9. Now(k, req[k], "look", d)
  BY <1>2, <1>3, <1>5, <1>7, Drafted DEF Put
<1>10. QED
  BY <1>2, <1>4, <1>5, <1>6, <1>8, <1>9

LEMMA SentFields ==
  ASSUME Types, NEW k \in Worker, Shape(k), Sent(k)
  PROVE  \E r \in Row, d \in Draft :
           /\ Now(k, req[k], "commit", d) /\ d.rows = draft[k].rows \cup {r}
           /\ d.hits = draft[k].hits /\ d.counts = draft[k].counts /\ d.away = draft[k].away
           /\ d.todo = draft[k].todo
           /\ r.id = drawn + 1 /\ r.from = req[k].by /\ r.copy = "sent" /\ r.folder = r.copy
           /\ r.to = req[k].to /\ r.away = draft[k].away
           /\ IF draft[k].rows = {} THEN r.message = r.id
              ELSE \E n \in draft[k].rows : n.message = r.message
<1>1. /\ draft[k] \in Draft /\ req[k] \in Asked /\ drawn < MaxId
      /\ req[k].by \in Warrior /\ req[k].to \in Recipients /\ req[k].by \in Warrior
  BY Fields DEF Sent, Types, Shape, Idle, Sending
<1>2. PICK b : b = draft[k]
  OBVIOUS
<1>3. PICK r : r = Copy(k, req[k].by, req[k].by, "sent", req[k].to)
  OBVIOUS
<1>4. /\ r \in Row /\ r.id = drawn + 1 /\ r.from = req[k].by /\ r.copy = "sent" /\ r.folder = r.copy
      /\ r.to = req[k].to /\ r.away = b.away
      /\ IF b.rows = {} THEN r.message = r.id ELSE \E n \in b.rows : n.message = r.message
  BY <1>1, <1>2, <1>3, CopyFields
<1>5. PICK d : d = [b EXCEPT !.rows = b.rows \cup {r}]
  OBVIOUS
<1>6. d \in Draft /\ d.rows = b.rows \cup {r} /\ d.hits = b.hits /\ d.counts = b.counts
      /\ d.away = b.away /\ d.todo = b.todo
  BY <1>1, <1>2, <1>4, <1>5 DEF Draft
<1>7. Now(k, req[k], "commit", d)
  BY <1>2, <1>3, <1>5, Drafted DEF Sent
<1>8. QED
  BY <1>2, <1>4, <1>6, <1>7

-----------------------------------------------------------------------------
(* What a step may do to the rows: nothing, draw an id for one more, file    *)
(* those of its transaction, or move or purge one.                           *)
Others(k) == \A j \in Worker \ {k} : req'[j] = req[j] /\ pc'[j] = pc[j] /\ draft'[j] = draft[j]
Rests(k) == UNCHANGED <<mail, drawn>> /\ draft'[k].rows \subseteq draft[k].rows
Draws(k, r) ==
  /\ r.id = drawn + 1 /\ r.folder = r.copy
  /\ IF draft[k].rows = {} THEN r.message = r.id ELSE \E n \in draft[k].rows : n.message = r.message
  /\ UNCHANGED mail /\ drawn' = drawn + 1
  /\ draft'[k].rows = draft[k].rows \cup {r}
Files(k) == UNCHANGED drawn /\ mail' = mail \cup Stamped(draft[k].rows) /\ draft'[k].rows = {}
Moves(k, f) == UNCHANGED drawn /\ f \in {"deleted", "purged"} /\ Moved(k, f) /\ draft'[k].rows = {}

Deletes(k) ==
  \/ pc[k] = "exec" /\ Moves(k, "purged")
  \/ pc[k] = "move" /\ Moves(k, IF draft[k].folder = "deleted" THEN "purged" ELSE "deleted")

LEMMA Effects ==
  ASSUME Types, NEW k \in Worker, Shape(k), Acts(k)
  PROVE  Rests(k) \/ (\E r \in Row : Draws(k, r)) \/ Files(k) \/ Deletes(k)
<1>1. ASSUME Finish(k) PROVE draft'[k].rows = {}
  BY <1>1, Finished, NoDraftFields DEF Now
<1>2. ASSUME Refuse(k) PROVE Rests(k)
  BY <1>1, <1>2 DEF Refuse, Rests, tables
<1>3. ASSUME Starts(k), UNCHANGED req, ~Idle(k) PROVE draft'[k].rows = {}
  BY <1>3, Started, StartFields DEF Now, Types, Idle
<1>4. Types /\ (pc[k] # "idle" => ~Idle(k))
  BY DEF Shape
<1>5. CASE Begin(k) \/ Look(k)
  BY <1>1, <1>2, <1>5 DEF Begin, Look, Rests, tables, Refuse
<1>6. CASE Authenticate(k)
  <2>1. CASE UNCHANGED draft
    BY <1>6, <2>1 DEF Authenticate, Rests
  <2>2. CASE Starts(k)
    BY <1>3, <1>4, <1>6, <2>2 DEF Authenticate, Rests
  <2>3. QED
    BY <1>6, <2>1, <2>2 DEF Authenticate
<1>7. CASE Welcome(k)
  <2>1. draft[k].rows = {} /\ drawn' = drawn + 1 /\ UNCHANGED mail
    BY <1>7, NoDraftFields DEF Shape, Welcome, tables
  <2>2. QED
    BY <1>7, <2>1, WelcomeFields DEF Draws, Now
<1>8. CASE Greet(k)
  BY <1>3, <1>4, <1>8 DEF Greet, Files
<1>9. CASE WelcomeFails(k)
  BY <1>3, <1>4, <1>9 DEF WelcomeFails, Rests, tables
<1>10. CASE Turn(k)
  BY <1>10, TurnFields DEF Turn, Rests, tables, Now
<1>11. CASE Put(k)
  BY <1>11, PutFields DEF Put, Draws, tables, Now
<1>12. CASE Sent(k)
  BY <1>12, SentFields DEF Sent, Draws, tables, Now
<1>13. CASE Commit(k)
  BY <1>1, <1>13 DEF Commit, Files
<1>14. CASE ReadFolder(k)
  <2>1. CASE \E m \in Own(k) : Keep(k, [draft[k] EXCEPT !.folder = m.folder])
                          /\ Goto(k, "move") /\ UNCHANGED <<tables, drawn, panes, req>>
    <3>1. PICK m \in Own(k) : Keep(k, [draft[k] EXCEPT !.folder = m.folder])
                          /\ Goto(k, "move") /\ UNCHANGED <<tables, drawn, panes, req>>
      BY <2>1
    <3>2. draft'[k] = [draft[k] EXCEPT !.folder = m.folder] /\ draft[k] \in Draft
      BY <3>1, Drafted DEF Now, Types
    <3>3. draft'[k].rows = draft[k].rows
      BY <3>2 DEF Draft
    <3>4. QED
      BY <3>1, <3>3 DEF Rests, tables
  <2>2. QED
    BY <1>2, <1>14, <2>1 DEF ReadFolder
<1>15. CASE MoveOrPurge(k)
  BY <1>1, <1>15 DEF MoveOrPurge, Moves, Deletes
<1>16. CASE PurgeMail(k)
  BY <1>1, <1>16 DEF PurgeMail, Moves, Deletes
<1>17. CASE Poll(k) \/ BlockAdd(k) \/ BlockRemove(k) \/ Fault(k)
  BY <1>1, <1>2, <1>17 DEF Poll, BlockAdd, BlockRemove, Fault, Rests, tables
<1>18. QED
  BY <1>5, <1>6, <1>7, <1>8, <1>9, <1>10, <1>11, <1>12, <1>13, <1>14, <1>15, <1>16, <1>17
     DEF Acts, Step

-----------------------------------------------------------------------------
(* The types, and what a stage says, are kept.                               *)
WorkerOK(k) ==
  req[k] \in Asked \cup {NoRequest} /\ pc[k] \in Stage /\ draft[k] \in Draft /\ Shape(k)

LEMMA WorkerKept ==
  ASSUME Types, NEW k \in Worker, Shape(k), Acts(k)
  PROVE  WorkerOK(k)'
<1>0. /\ WorkerOK(k) /\ (~Idle(k) => req[k] \in Asked) /\ accounts \subseteq Warrior
      /\ draft[k].rows \subseteq Row
  BY DraftFields DEF WorkerOK, Types, Idle
<1>1. ASSUME Finish(k) PROVE WorkerOK(k)'
  BY <1>1, Finished, NoDraftFields DEF Now, WorkerOK, Shape, Idle, Stage, Sending
<1>2. ASSUME Starts(k), UNCHANGED req, ~Idle(k) PROVE WorkerOK(k)'
  <2>1. PICK q : q = req[k] /\ q \in Asked
    BY <1>0, <1>2
  <2>2. CASE q.op = "send"
    <3>1. Now(k, q, "look", Fresh0(q))
      BY <1>2, <2>1, <2>2, Started
    <3>2. QED
      BY <2>1, <2>2, <3>1, StartFields, Fields DEF Now, WorkerOK, Shape, Idle, Stage, Sending
  <2>3. CASE q.op # "send"
    <3>1. \E s \in {"folder", "exec"} : Now(k, q, s, NoDraft)
      BY <1>2, <2>1, <2>3, Started, StartFields
    <3>2. QED
      BY <2>1, <3>1, NoDraftFields, Fields DEF Now, WorkerOK, Shape, Idle, Stage, Sending
  <2>4. QED
    BY <2>2, <2>3
<1>3. CASE Begin(k)
  <2>1. PICK q \in Asked : req' = [req EXCEPT ![k] = q]
    BY <1>3 DEF Begin
  <2>2. Now(k, q, "authenticate", draft[k]) /\ draft[k] = NoDraft
    BY <1>3, <2>1 DEF Begin, Now, Goto, Types, Shape, Idle
  <2>3. QED
    BY <2>2, Fields, NoDraftFields DEF Now, WorkerOK, Shape, Idle, Stage, Sending
<1>4. CASE Authenticate(k)
  <2>1. ~Idle(k) /\ draft[k] = NoDraft /\ UNCHANGED req
    BY <1>4 DEF Authenticate, Shape
  <2>2. CASE Goto(k, "welcome") /\ UNCHANGED draft
    <3>1. Now(k, req[k], "welcome", NoDraft)
      BY <2>1, <2>2, Went
    <3>2. QED
      BY <1>0, <2>1, <3>1, NoDraftFields DEF Now, WorkerOK, Shape, Idle, Stage, Sending
  <2>3. QED
    BY <1>2, <1>4, <2>1, <2>2 DEF Authenticate
<1>5. CASE Welcome(k)
  <2>1. PICK r \in Row, d \in Draft :
           /\ Now(k, req[k], "greet", d) /\ d.rows = {r} /\ d.hits = NoDraft.hits /\ d.counts = <<>>
           /\ r.from = System /\ r.owner = req[k].by
    BY <1>5, WelcomeFields
  <2>2. ~Idle(k)
    BY <1>5 DEF Welcome, Shape
  <2>3. QED
    BY <1>0, <2>1, <2>2 DEF Now, WorkerOK, Shape, Idle, Stage, Sending
<1>6. CASE Greet(k) \/ WelcomeFails(k)
  BY <1>2, <1>6 DEF Greet, WelcomeFails, Shape
<1>7. CASE Look(k)
  <2>1. CASE Finish(k)
    BY <1>1, <2>1
  <2>2. CASE Goto(k, "sent") /\ UNCHANGED <<req, draft>>
    <3>1. Now(k, req[k], "sent", draft[k])
      BY <2>2, Went
    <3>2. QED
      BY <1>0, <1>7, <3>1 DEF Look, Now, WorkerOK, Shape, Idle, Stage, Sending
  <2>3. CASE /\ draft[k].todo # <<>> /\ Head(draft[k].todo) \in accounts
             /\ Goto(k, IF hits[<<Head(draft[k].todo), req[k].by>>] = NoBlock THEN "put" ELSE "turn")
             /\ UNCHANGED <<req, draft>>
    <3>1. PICK s \in {"put", "turn"} : Now(k, req[k], s, draft[k])
      BY <2>3, Went
    <3>2. QED
      BY <1>0, <1>7, <2>3, <3>1 DEF Look, Now, WorkerOK, Shape, Idle, Stage, Sending
  <2>4. QED
    BY <1>7, <2>1, <2>2, <2>3 DEF Look
<1>8. CASE Turn(k)
  <2>1. PICK d \in Draft : Now(k, req[k], "look", d) /\ d.rows = draft[k].rows
    BY <1>8, TurnFields
  <2>2. QED
    BY <1>0, <1>8, <2>1 DEF Turn, Now, WorkerOK, Shape, Idle, Stage, Sending
<1>9. CASE Put(k)
  <2>1. PICK r \in Row, d \in Draft :
          Now(k, req[k], "look", d) /\ d.rows = draft[k].rows \cup {r} /\ r.from = req[k].by
    BY <1>9, PutFields
  <2>2. QED
    BY <1>0, <1>9, <2>1 DEF Put, Now, WorkerOK, Shape, Idle, Stage, Sending
<1>10. CASE Sent(k)
  <2>1. PICK r \in Row, d \in Draft :
          Now(k, req[k], "commit", d) /\ d.rows = draft[k].rows \cup {r} /\ r.from = req[k].by
    BY <1>10, SentFields
  <2>2. QED
    BY <1>0, <1>10, <2>1 DEF Sent, Now, WorkerOK, Shape, Idle, Stage, Sending
<1>11. CASE ReadFolder(k)
  <2>1. CASE Refuse(k)
    BY <1>1, <2>1 DEF Refuse
  <2>2. ASSUME NEW m \in Own(k), Keep(k, [draft[k] EXCEPT !.folder = m.folder]), Goto(k, "move"),
               UNCHANGED req
        PROVE  WorkerOK(k)'
    <3>1. PICK d : d = [NoDraft EXCEPT !.folder = m.folder]
      OBVIOUS
    <3>2. draft[k] = NoDraft /\ ~Idle(k)
      BY <1>11 DEF ReadFolder, Shape
    <3>3. Now(k, req[k], "move", d)
      BY <2>2, <3>1, <3>2, Drafted
    <3>4. m.folder \in Folder
      BY RowFields DEF Own, Types
    <3>5. d \in Draft /\ d.rows = {} /\ d.hits = NoDraft.hits /\ d.counts = <<>>
      BY <3>1, <3>4, NoDraftFields DEF NoDraft, Draft
    <3>6. QED
      BY <1>0, <3>2, <3>3, <3>5 DEF Now, WorkerOK, Shape, Idle, Stage, Sending
  <2>3. QED
    BY <1>11, <2>1, <2>2 DEF ReadFolder
<1>12. CASE Commit(k) \/ MoveOrPurge(k) \/ PurgeMail(k) \/ Poll(k) \/ BlockAdd(k) \/ BlockRemove(k) \/ Fault(k)
  BY <1>1, <1>12 DEF Commit, MoveOrPurge, PurgeMail, Poll, BlockAdd, BlockRemove, Fault, Refuse
<1>13. QED
  BY <1>3, <1>4, <1>5, <1>6, <1>7, <1>8, <1>9, <1>10, <1>11, <1>12 DEF Acts, Step

LEMMA WorkersKept ==
  ASSUME Types, \A j \in Worker : Shape(j), NEW k \in Worker, Acts(k)
  PROVE  /\ req' \in [Worker -> Asked \cup {NoRequest}] /\ pc' \in [Worker -> Stage]
         /\ draft' \in [Worker -> Draft]
         /\ Others(k) /\ \A j \in Worker : Shape(j)'
<1>1. WorkerOK(k)'
  BY WorkerKept
<1>2. Others(k)
  BY Local DEF Others, Types
<1>3. /\ req' \in [Worker -> Asked \cup {NoRequest}] /\ pc' \in [Worker -> Stage]
      /\ draft' \in [Worker -> Draft]
  BY <1>1, Local DEF WorkerOK, Types
<1>4. \A j \in Worker \ {k} : Shape(j)'
  BY <1>2 DEF Others, Shape, Idle
<1>5. QED
  BY <1>1, <1>2, <1>3, <1>4 DEF WorkerOK

(* Which step brings a worker where.                                         *)
LEMMA Lands ==
  ASSUME Types, NEW k \in Worker, Shape(k), Acts(k)
  PROVE  /\ pc'[k] = "welcome" => Authenticate(k)
         /\ pc'[k] = "greet"   => Welcome(k)
         /\ pc'[k] = "move"    => ReadFolder(k)
         /\ pc'[k] \in {"turn", "put", "sent"} => Look(k)
         /\ pc'[k] = "commit"  => Sent(k)
         /\ pc'[k] = "look"    => Turn(k) \/ Put(k) \/ (Starts(k) /\ UNCHANGED req /\ ~Idle(k))
<1>1. ASSUME NEW s, Goto(k, s) PROVE pc'[k] = s
  BY <1>1 DEF Goto, Types
<1>2. ASSUME Finish(k) PROVE pc'[k] = "idle"
  BY <1>1, <1>2 DEF Finish
<1>3. ASSUME Starts(k), UNCHANGED req, ~Idle(k) PROVE pc'[k] \in {"look", "folder", "exec"}
  BY <1>3, Started DEF Now
<1>4. CASE Begin(k) \/ Look(k)
  BY <1>1, <1>2, <1>4 DEF Begin, Look
<1>5. CASE Authenticate(k)
  <2>1. CASE Starts(k)
    BY <1>3, <1>5, <2>1 DEF Authenticate, Shape
  <2>2. CASE Goto(k, "welcome")
    BY <1>1, <1>5, <2>2
  <2>3. QED
    BY <1>5, <2>1, <2>2 DEF Authenticate
<1>6. CASE Greet(k) \/ WelcomeFails(k)
  BY <1>3, <1>6 DEF Greet, WelcomeFails, Shape
<1>7. CASE Welcome(k) \/ Turn(k) \/ Put(k) \/ Sent(k)
  BY <1>1, <1>7 DEF Welcome, Turn, Put, Sent
<1>8. CASE ReadFolder(k)
  BY <1>1, <1>2, <1>8 DEF ReadFolder, Refuse
<1>9. CASE Commit(k) \/ MoveOrPurge(k) \/ PurgeMail(k) \/ Poll(k) \/ BlockAdd(k) \/ BlockRemove(k) \/ Fault(k)
  BY <1>2, <1>9 DEF Commit, MoveOrPurge, PurgeMail, Poll, BlockAdd, BlockRemove, Fault, Refuse
<1>10. QED
  BY <1>4, <1>5, <1>6, <1>7, <1>8, <1>9 DEF Acts, Step

(* A row that is asked for is in the answer once.                            *)
LEMMA AnswerOnce ==
  ASSUME Types, Fresh, NEW w \in Warrior, NEW i \in 1..MaxId
  PROVE  Cardinality({m \in Answer(w) : m.id = i}) = IF \E m \in Answer(w) : m.id = i THEN 1 ELSE 0
<1>1. CASE \E m \in Answer(w) : m.id = i
  <2>1. PICK m \in Answer(w) : m.id = i
    BY <1>1
  <2>2. {n \in Answer(w) : n.id = i} = {m}
    BY <2>1 DEF Answer, Fresh
  <2>3. QED
    BY <1>1, <2>2, FS_Singleton
<1>2. CASE ~\E m \in Answer(w) : m.id = i
  <2>1. {n \in Answer(w) : n.id = i} = {}
    BY <1>2
  <2>2. QED
    BY <1>2, <2>1, FS_EmptySet
<1>3. QED
  BY <1>1, <1>2

(* What is moved is the same row in another folder.                          *)
LEMMA MovedFields ==
  ASSUME Types, Fresh, NEW k \in Worker, NEW f \in Folder, Moved(k, f)
  PROVE  /\ mail' \subseteq Row
         /\ \A n \in mail' : \E m \in mail :
              /\ n.id = m.id /\ n.owner = m.owner /\ n.from = m.from /\ n.copy = m.copy /\ n.to = m.to
              /\ n.message = m.message /\ n.away = m.away /\ n.late = m.late
              /\ n.folder = IF m \in Own(k) THEN f ELSE m.folder
              /\ n = [m EXCEPT !.folder = n.folder]
         /\ \A m \in mail : \E n \in mail' :
              /\ n.id = m.id /\ n.owner = m.owner /\ n.from = m.from /\ n.copy = m.copy /\ n.to = m.to
              /\ n.message = m.message /\ n.away = m.away /\ n.late = m.late
              /\ n.folder = IF m \in Own(k) THEN f ELSE m.folder
<1>1. ASSUME NEW m \in mail, NEW g \in Folder, NEW n, n = [m EXCEPT !.folder = g]
      PROVE  /\ n \in Row
             /\ n.id = m.id /\ n.owner = m.owner /\ n.from = m.from /\ n.copy = m.copy /\ n.to = m.to
             /\ n.message = m.message /\ n.away = m.away /\ n.late = m.late /\ n.folder = g
             /\ n = [m EXCEPT !.folder = n.folder]
  BY <1>1 DEF Types, Row
<1>2. \A m \in mail : m = [m EXCEPT !.folder = m.folder] /\ m.folder \in Folder
  BY DEF Types, Row
<1>3. /\ Own(k) \subseteq mail
      /\ mail' = (mail \ Own(k)) \cup {[m EXCEPT !.folder = f] : m \in Own(k)}
  BY DEF Own, Moved
<1>4. ASSUME NEW n \in mail'
      PROVE  n \in Row /\ \E m \in mail :
              /\ n.id = m.id /\ n.owner = m.owner /\ n.from = m.from /\ n.copy = m.copy /\ n.to = m.to
              /\ n.message = m.message /\ n.away = m.away /\ n.late = m.late
              /\ n.folder = IF m \in Own(k) THEN f ELSE m.folder
              /\ n = [m EXCEPT !.folder = n.folder]
  <2>1. CASE n \in mail \ Own(k)
    BY <1>2, <2>1 DEF Types
  <2>2. CASE \E m \in Own(k) : n = [m EXCEPT !.folder = f]
    <3>1. PICK m \in Own(k) : n = [m EXCEPT !.folder = f]
      BY <2>2
    <3>2. m \in mail /\ (IF m \in Own(k) THEN f ELSE m.folder) = f
      BY <1>3
    <3>3. QED
      BY <1>1, <3>1, <3>2
  <2>3. QED
    BY <1>3, <1>4, <2>1, <2>2
<1>5. ASSUME NEW m \in mail
      PROVE  \E n \in mail' :
              /\ n.id = m.id /\ n.owner = m.owner /\ n.from = m.from /\ n.copy = m.copy /\ n.to = m.to
              /\ n.message = m.message /\ n.away = m.away /\ n.late = m.late
              /\ n.folder = IF m \in Own(k) THEN f ELSE m.folder
  <2>1. CASE m \notin Own(k)
    BY <1>3, <2>1
  <2>2. CASE m \in Own(k)
    <3>1. PICK n : n = [m EXCEPT !.folder = f]
      OBVIOUS
    <3>2. n \in mail'
      BY <1>3, <2>2, <3>1
    <3>3. QED
      BY <1>1, <2>2, <3>1, <3>2
  <2>3. QED
    BY <2>1, <2>2
<1>6. QED
  BY <1>4, <1>5

LEMMA RowsKept ==
  ASSUME Types, Fresh, NEW k \in Worker, Shape(k), Acts(k), draft' \in [Worker -> Draft]
  PROVE  mail' \subseteq Row /\ drawn' \in 0..MaxId
<1>1. CASE Rests(k)
  BY <1>1 DEF Rests, Types
<1>2. ASSUME NEW r \in Row, Draws(k, r) PROVE mail' \subseteq Row /\ drawn' \in 0..MaxId
  BY <1>2, RowFields, MaxIdAssumption DEF Draws, Types
<1>3. CASE Files(k)
  <2>1. Stamped(draft[k].rows) \subseteq Row
    BY StampedFields, DraftFields DEF Types
  <2>2. QED
    BY <1>3, <2>1 DEF Files, Types
<1>4. ASSUME NEW f, Moves(k, f) PROVE mail' \subseteq Row /\ drawn' \in 0..MaxId
  BY <1>4, MovedFields DEF Moves, Types, Folder
<1>5. QED
  BY <1>1, <1>2, <1>3, <1>4, Effects DEF Deletes

LEMMA FreshKept ==
  ASSUME Types, Fresh, NEW k \in Worker, Shape(k), Acts(k), Others(k)
  PROVE  Fresh'
<1>0. /\ drawn \in Nat /\ \A m \in mail : m.id \in Nat
      /\ \A j \in Worker : \A r \in draft[j].rows : r \in Row /\ r.id \in Nat
  BY RowFields, DraftFields, MaxIdAssumption DEF Types
<1>1. \A j \in Worker \ {k} : draft'[j].rows = draft[j].rows
  BY DEF Others
<1>2. CASE Rests(k)
  BY <1>0, <1>1, <1>2 DEF Rests, Fresh
<1>3. ASSUME NEW r \in Row, Draws(k, r) PROVE Fresh'
  <2>1. drawn' = drawn + 1 /\ r.id = drawn + 1 /\ mail' = mail /\ r.folder = r.copy
        /\ draft'[k].rows = draft[k].rows \cup {r}
    BY <1>3 DEF Draws
  <2>2. \A m \in mail' : m.id <= drawn' /\ m.id # r.id
    BY <1>0, <2>1 DEF Fresh
  <2>3. \A j \in Worker : \A n \in draft[j].rows : n.id <= drawn' /\ n.id # r.id
    BY <1>0, <2>1 DEF Fresh
  <2>4. r.id <= drawn'
    BY <1>0, <2>1
  <2>5. ASSUME NEW j \in Worker, NEW s \in draft'[j].rows
        PROVE  /\ s.id <= drawn' /\ s.folder = s.copy
               /\ \A n \in draft'[j].rows : n.id = s.id => n = s
               /\ \A m \in mail' : m.id # s.id
               /\ \A i \in Worker \ {j} : \A n \in draft'[i].rows : n.id # s.id
    <3>1. CASE s \in draft[j].rows
      BY <1>1, <2>1, <2>2, <2>3, <3>1 DEF Fresh
    <3>2. CASE s = r /\ j = k
      BY <1>1, <2>1, <2>2, <2>3, <2>4, <3>2 DEF Fresh
    <3>3. QED
      BY <1>1, <2>1, <2>5, <3>1, <3>2
  <2>6. \A m, n \in mail' : m.id = n.id => m = n
    BY <2>1 DEF Fresh
  <2>7. QED
    BY <2>2, <2>5, <2>6 DEF Fresh
<1>4. CASE Files(k)
  <2>1. PICK R : R = draft[k].rows
    OBVIOUS
  <2>2. R \in SUBSET Row /\ mail' = mail \cup Stamped(R) /\ draft'[k].rows = {} /\ drawn' = drawn
    BY <1>0, <1>4, <2>1 DEF Files
  <2>3. \A s \in Stamped(R) : \E r \in R : s.id = r.id
    BY <2>2, StampedFields
  <2>4. \A s, n \in Stamped(R) : s.id = n.id => s = n
    <3> SUFFICES ASSUME NEW s \in Stamped(R), NEW n \in Stamped(R), s.id = n.id PROVE s = n
      OBVIOUS
    <3>1. PICK r \in R : s.id = r.id /\ s = [r EXCEPT !.late = \E m \in mail : m.owner = r.owner /\ m.copy = "inbox" /\ m.id > r.id]
      BY <1>0, <2>1 DEF Stamped, Row
    <3>2. PICK q \in R : n.id = q.id /\ n = [q EXCEPT !.late = \E m \in mail : m.owner = q.owner /\ m.copy = "inbox" /\ m.id > q.id]
      BY <1>0, <2>1 DEF Stamped, Row
    <3>3. r = q
      BY <2>1, <3>1, <3>2 DEF Fresh
    <3>4. QED
      BY <3>1, <3>2, <3>3
  <2>5. \A s \in Stamped(R) : s.id <= drawn /\ \A m \in mail : m.id # s.id
    BY <2>1, <2>3 DEF Fresh
  <2>6. \A s \in Stamped(R) : \A j \in Worker \ {k} : \A n \in draft[j].rows : n.id # s.id
    BY <2>1, <2>3 DEF Fresh
  <2>7. /\ \A m \in mail' : m.id <= drawn'
        /\ \A m, n \in mail' : m.id = n.id => m = n
    BY <2>2, <2>4, <2>5 DEF Fresh
  <2>8. ASSUME NEW j \in Worker, NEW s \in draft'[j].rows
        PROVE  /\ s.id <= drawn' /\ s.folder = s.copy
               /\ \A n \in draft'[j].rows : n.id = s.id => n = s
               /\ \A m \in mail' : m.id # s.id
               /\ \A i \in Worker \ {j} : \A n \in draft'[i].rows : n.id # s.id
    <3>1. j # k /\ s \in draft[j].rows
      BY <1>1, <2>2, <2>8
    <3>2. QED
      BY <1>1, <2>2, <2>6, <3>1 DEF Fresh
  <2>9. QED
    BY <2>7, <2>8 DEF Fresh
<1>5. ASSUME NEW f, Moves(k, f) PROVE Fresh'
  <2>1. draft'[k].rows = {} /\ drawn' = drawn /\ f \in Folder /\ Moved(k, f)
    BY <1>5 DEF Moves, Folder
  <2>2. \A n \in mail' : \E m \in mail :
          n.id = m.id /\ n.folder = (IF m \in Own(k) THEN f ELSE m.folder)
          /\ n = [m EXCEPT !.folder = n.folder]
    BY <2>1, MovedFields
  <2>3. \A m, n \in mail' : m.id = n.id => m = n
    <3> SUFFICES ASSUME NEW s \in mail', NEW n \in mail', s.id = n.id PROVE s = n
      OBVIOUS
    <3>1. PICK a \in mail : s.id = a.id /\ s.folder = (IF a \in Own(k) THEN f ELSE a.folder)
                            /\ s = [a EXCEPT !.folder = s.folder]
      BY <2>2
    <3>2. PICK b \in mail : n.id = b.id /\ n.folder = (IF b \in Own(k) THEN f ELSE b.folder)
                            /\ n = [b EXCEPT !.folder = n.folder]
      BY <2>2
    <3>3. a = b
      BY <3>1, <3>2 DEF Fresh
    <3>4. QED
      BY <3>1, <3>2, <3>3
  <2>4. QED
    BY <1>1, <2>1, <2>2, <2>3 DEF Fresh
<1>6. QED
  BY <1>2, <1>3, <1>4, <1>5, Effects DEF Deletes

LEMMA BlocksKept ==
  ASSUME Types, NEW k \in Worker, Shape(k), Acts(k)
  PROVE  accounts' \subseteq Warrior /\ hits' \in [Pair -> Nat \cup {NoBlock}] /\ turned' \in [Pair -> Nat]
<1>0. ~Idle(k) => req[k] \in Asked /\ req[k].by \in Warrior
  BY Fields DEF Types, Idle
<1>1. CASE Authenticate(k)
  BY <1>0, <1>1 DEF Authenticate, Types, Shape
<1>2. CASE Commit(k)
  <2>1. \A p \in Pair : Times(p[1], draft[k].counts) \in Nat
    BY TimesType, DraftFields DEF Types
  <2>2. draft[k].hits \in [Pair -> Nat \cup {NoBlock}]
    BY DraftFields DEF Types
  <2>3. \A p \in Pair : turned[p] + (IF p[2] = req[k].by THEN Times(p[1], draft[k].counts) ELSE 0) \in Nat
    BY <2>1 DEF Types
  <2>4. QED
    BY <1>2, <2>2, <2>3 DEF Commit, Types
<1>3. CASE BlockAdd(k)
  <2>1. PICK p : p = <<req[k].by, req[k].who>>
    OBVIOUS
  <2>2. \/ hits' = [hits EXCEPT ![p] = 0] /\ turned' = [turned EXCEPT ![p] = 0]
        \/ UNCHANGED <<hits, turned>>
    BY <1>3, <2>1 DEF BlockAdd
  <2>3. hits' \in [Pair -> Nat \cup {NoBlock}] /\ turned' \in [Pair -> Nat]
    BY <2>2 DEF Types
  <2>4. QED
    BY <1>3, <2>3 DEF BlockAdd, Types
<1>4. CASE BlockRemove(k)
  BY <1>4 DEF BlockRemove, Types
<1>5. CASE ~(Authenticate(k) \/ Commit(k) \/ BlockAdd(k) \/ BlockRemove(k))
  <2>1. UNCHANGED <<accounts, hits, turned>>
    <3>1. ASSUME Refuse(k) PROVE UNCHANGED <<accounts, hits, turned>>
      BY <3>1 DEF Refuse, tables
    <3>2. CASE Begin(k) \/ Welcome(k) \/ Greet(k) \/ WelcomeFails(k)
      BY <3>2 DEF Begin, Welcome, Greet, WelcomeFails, tables
    <3>3. CASE Look(k) \/ Turn(k) \/ Put(k) \/ Sent(k)
      BY <3>3 DEF Look, Turn, Put, Sent, tables
    <3>4. CASE ReadFolder(k) \/ MoveOrPurge(k) \/ PurgeMail(k) \/ Poll(k) \/ Fault(k)
      BY <3>1, <3>4 DEF ReadFolder, MoveOrPurge, PurgeMail, Poll, Fault, tables
    <3>5. QED
      BY <1>5, <3>2, <3>3, <3>4 DEF Acts, Step
  <2>2. QED
    BY <2>1 DEF Types
<1>6. QED
  BY <1>1, <1>2, <1>3, <1>4, <1>5

LEMMA PollFields ==
  ASSUME Types, Fresh, NEW k \in Worker, Shape(k), Poll(k)
  PROVE  /\ req[k].by \in Warrior
         /\ listed' = [listed EXCEPT ![req[k].by] =
              [i \in 1..MaxId |-> listed[req[k].by][i] + IF \E m \in Answer(req[k].by) : m.id = i THEN 1 ELSE 0]]
         /\ \/ Answer(req[k].by) = {} /\ UNCHANGED mark
            \/ \E last \in Answer(req[k].by) :
                 /\ \A m \in Answer(req[k].by) : m.id <= last.id
                 /\ mark' = [mark EXCEPT ![req[k].by] = last.id]
         /\ UNCHANGED mail
<1>1. PICK w \in Warrior : w = req[k].by
  BY Fields DEF Poll, Shape, Idle, Types
<1>2. \A i \in 1..MaxId :
        listed[w][i] + Cardinality({m \in Answer(w) : m.id = i})
          = listed[w][i] + IF \E m \in Answer(w) : m.id = i THEN 1 ELSE 0
  BY AnswerOnce
<1>3. listed' = [listed EXCEPT ![w] = [i \in 1..MaxId |-> listed[w][i] + Cardinality({m \in Answer(w) : m.id = i})]]
  BY <1>1 DEF Poll
<1>4. [i \in 1..MaxId |-> listed[w][i] + Cardinality({m \in Answer(w) : m.id = i})]
       = [i \in 1..MaxId |-> listed[w][i] + IF \E m \in Answer(w) : m.id = i THEN 1 ELSE 0]
  BY <1>2
<1>5. QED
  BY <1>1, <1>3, <1>4 DEF Poll, tables

LEMMA PanesTyped ==
  ASSUME Types, Fresh, NEW k \in Worker, Shape(k), Acts(k)
  PROVE  listed' \in [Warrior -> [1..MaxId -> Nat]] /\ mark' \in [Warrior -> 0..MaxId]
<1>1. CASE Poll(k)
  <2>1. PICK w \in Warrior : w = req[k].by
    BY <1>1, PollFields
  <2>2. PICK g : g = [i \in 1..MaxId |-> listed[w][i] + IF \E m \in Answer(w) : m.id = i THEN 1 ELSE 0]
    OBVIOUS
  <2>3. g \in [1..MaxId -> Nat] /\ listed' = [listed EXCEPT ![w] = g]
    <3>1. ASSUME NEW i \in 1..MaxId
          PROVE  listed[w][i] + (IF \E m \in Answer(w) : m.id = i THEN 1 ELSE 0) \in Nat
      <4>1. listed[w][i] \in Nat
        BY DEF Types
      <4>2. QED
        BY <4>1
    <3>2. g \in [1..MaxId -> Nat]
      BY <2>2, <3>1
    <3>3. listed' = [listed EXCEPT ![w] = g]
      BY <1>1, <2>1, <2>2, PollFields
    <3>4. QED
      BY <3>2, <3>3
  <2>4. mark' \in [Warrior -> 0..MaxId]
    <3>1. \A m \in Answer(w) : m.id \in 0..MaxId
      BY RowFields, MaxIdAssumption DEF Answer, Types
    <3>2. CASE UNCHANGED mark
      BY <3>2 DEF Types
    <3>3. CASE \E last \in Answer(w) : mark' = [mark EXCEPT ![w] = last.id]
      BY <3>1, <3>3 DEF Types
    <3>4. QED
      BY <1>1, <2>1, <3>2, <3>3, PollFields
  <2>5. QED
    BY <2>3, <2>4 DEF Types
<1>2. CASE ~Poll(k)
  <2>1. UNCHANGED <<listed, mark>>
    BY <1>2 DEF Acts, Step, Begin, Authenticate, Welcome, Greet, WelcomeFails, Look, Turn, Put, Sent, Commit,
       ReadFolder, MoveOrPurge, PurgeMail, BlockAdd, BlockRemove, Fault, Refuse, panes
  <2>2. QED
    BY <2>1 DEF Types
<1>3. QED
  BY <1>1, <1>2

LEMMA BaseKept ==
  ASSUME Base, NEW k \in Worker, Acts(k)
  PROVE  Base' /\ Others(k)
<1>0. Types /\ Fresh /\ \A j \in Worker : Shape(j)
  BY DEF Base
<1>1. /\ req' \in [Worker -> Asked \cup {NoRequest}] /\ pc' \in [Worker -> Stage]
      /\ draft' \in [Worker -> Draft] /\ Others(k) /\ \A j \in Worker : Shape(j)'
  BY <1>0, WorkersKept
<1>2. Types'
  BY <1>0, <1>1, RowsKept, BlocksKept, PanesTyped DEF Types
<1>3. Fresh'
  BY <1>0, <1>1, FreshKept
<1>4. QED
  BY <1>1, <1>2, <1>3 DEF Base

LEMMA BaseHolds == Init => Base
<1> SUFFICES ASSUME Init PROVE Base
  OBVIOUS
<1>1. Types
  <2>1. listed \in [Warrior -> [1..MaxId -> Nat]] /\ mark \in [Warrior -> 0..MaxId]
    BY MaxIdAssumption DEF Init
  <2>2. draft \in [Worker -> Draft] /\ pc \in [Worker -> Stage] /\ req \in [Worker -> Asked \cup {NoRequest}]
    BY NoDraftFields DEF Init, Stage
  <2>3. QED
    BY <2>1, <2>2, MaxIdAssumption DEF Init, Types
<1>2. \A k \in Worker : Shape(k)
  BY NoDraftFields DEF Init, Shape, Idle, Sending
<1>3. Fresh
  BY NoDraftFields DEF Init, Fresh
<1>4. QED
  BY <1>1, <1>2, <1>3 DEF Base

LEMMA BaseTypes == Base => TypeOK
<1> SUFFICES ASSUME Base PROVE TypeOK
  OBVIOUS
<1>1. Types /\ Fresh /\ \A k \in Worker : Shape(k)
  BY DEF Base
<1>2. ASSUME NEW m \in mail \cup UNION {draft[k].rows : k \in Worker},
             NEW n \in mail \cup UNION {draft[k].rows : k \in Worker}, m.id = n.id
      PROVE  m = n
  BY <1>1, <1>2 DEF Fresh
<1>3. \A k \in Worker : draft[k] \in Draft /\ (Idle(k) => pc[k] = "idle" /\ draft[k] = NoDraft)
  BY <1>1 DEF Types, Shape
<1>4. QED
  BY <1>1, <1>2, <1>3 DEF Types, TypeOK

-----------------------------------------------------------------------------
(* The panes.                                                                *)
PanesSame == UNCHANGED <<listed, mark>>

LEMMA OnlyPolls ==
  ASSUME NEW k \in Worker, Acts(k), ~Poll(k)
  PROVE  PanesSame
<1>1. ASSUME Refuse(k) \/ UNCHANGED panes PROVE PanesSame
  BY <1>1 DEF Refuse, panes, PanesSame
<1>2. CASE Begin(k) \/ Authenticate(k) \/ Welcome(k) \/ Greet(k) \/ WelcomeFails(k)
  BY <1>1, <1>2 DEF Begin, Authenticate, Welcome, Greet, WelcomeFails
<1>3. CASE Look(k) \/ Turn(k) \/ Put(k) \/ Sent(k) \/ Commit(k)
  BY <1>1, <1>3 DEF Look, Turn, Put, Sent, Commit
<1>4. CASE ReadFolder(k) \/ MoveOrPurge(k) \/ PurgeMail(k) \/ BlockAdd(k) \/ BlockRemove(k) \/ Fault(k)
  BY <1>1, <1>4 DEF ReadFolder, MoveOrPurge, PurgeMail, BlockAdd, BlockRemove, Fault
<1>5. QED
  BY <1>2, <1>3, <1>4 DEF Acts, Step

LEMMA PollKeeps ==
  ASSUME Base, Panes, NEW k \in Worker, Poll(k)
  PROVE  Panes'
<1>0. Types /\ Fresh /\ Shape(k)
  BY DEF Base
<1>1. PICK w \in Warrior : w = req[k].by
  BY <1>0, PollFields
<1>2. PICK g : g = [i \in 1..MaxId |-> listed[w][i] + IF \E m \in Answer(w) : m.id = i THEN 1 ELSE 0]
  OBVIOUS
<1>3. listed' = [listed EXCEPT ![w] = g] /\ mail' = mail
  BY <1>0, <1>1, <1>2, PollFields
<1>4. /\ \A v \in Warrior \ {w} : listed'[v] = listed[v] /\ mark'[v] = mark[v]
      /\ listed'[w] = g
      /\ \/ Answer(w) = {} /\ mark'[w] = mark[w]
         \/ \E last \in Answer(w) : (\A m \in Answer(w) : m.id <= last.id) /\ mark'[w] = last.id
  <2>1. listed \in [Warrior -> [1..MaxId -> Nat]] /\ mark \in [Warrior -> 0..MaxId]
    BY <1>0 DEF Types
  <2>2. listed'[w] = g /\ \A v \in Warrior \ {w} : listed'[v] = listed[v]
    BY <1>3, <2>1
  <2>3. CASE Answer(w) = {} /\ UNCHANGED mark
    BY <2>2, <2>3
  <2>4. CASE \E last \in Answer(w) : (\A m \in Answer(w) : m.id <= last.id)
                                     /\ mark' = [mark EXCEPT ![w] = last.id]
    BY <2>1, <2>2, <2>4
  <2>5. QED
    BY <1>0, <1>1, <2>3, <2>4, PollFields
<1>5. /\ \A m \in mail : m.id \in 1..MaxId /\ m.id \in Nat
      /\ mark[w] \in Nat /\ mark'[w] \in Nat /\ mark[w] <= mark'[w]
      /\ \A m \in Answer(w) : m \in mail /\ m.id > mark[w] /\ m.id <= mark'[w]
  <2>1. \A m \in mail : m.id \in 1..MaxId /\ m.id \in Nat
    BY <1>0, RowFields, MaxIdAssumption DEF Types
  <2>2. mark[w] \in Nat
    BY <1>0, MaxIdAssumption DEF Types
  <2>3. \A m \in Answer(w) : m \in mail /\ m.id > mark[w]
    BY DEF Answer
  <2>4. CASE Answer(w) = {}
    BY <1>4, <2>1, <2>2, <2>4
  <2>5. CASE Answer(w) # {}
    <3>1. PICK last \in Answer(w) : (\A m \in Answer(w) : m.id <= last.id) /\ mark'[w] = last.id
      BY <1>4, <2>5
    <3>2. QED
      BY <2>1, <2>2, <2>3, <3>1
  <2>6. QED
    BY <2>4, <2>5
<1>6. ASSUME NEW i \in 1..MaxId
      PROVE  /\ g[i] = IF \E m \in Answer(w) : m.id = i THEN 1 ELSE listed[w][i]
             /\ g[i] <= 1 /\ (i > mark'[w] => g[i] = 0)
  <2>0. listed[w][i] \in Nat
    BY <1>0 DEF Types
  <2>1. listed[w][i] \in Nat /\ listed[w][i] <= 1 /\ (i > mark[w] => listed[w][i] = 0)
    BY <2>0 DEF Panes, GivenOnce, PaneOK
  <2>2. CASE \E m \in Answer(w) : m.id = i
    <3>1. g[i] = listed[w][i] + 1 /\ listed[w][i] = 0 /\ i <= mark'[w]
      BY <1>2, <1>5, <2>1, <2>2
    <3>2. QED
      BY <1>5, <2>2, <3>1
  <2>3. CASE ~\E m \in Answer(w) : m.id = i
    <3>1. g[i] = listed[w][i] + 0
      BY <1>2, <2>3
    <3>2. QED
      BY <1>5, <2>1, <2>3, <3>1
  <2>4. QED
    BY <2>2, <2>3
<1>7. ASSUME NEW m \in mail, m.owner = w, m.folder = "inbox", m.id <= mark'[w]
      PROVE  g[m.id] = 1 \/ m.late
  <2>1. CASE m.id <= mark[w]
    <3>1. listed[w][m.id] = 1 \/ m.late
      BY <1>7, <2>1 DEF Panes, GivenOnce
    <3>2. QED
      BY <1>5, <1>6, <3>1
  <2>2. CASE m.id > mark[w]
    BY <1>5, <1>6, <1>7, <2>2 DEF Answer
  <2>3. QED
    BY <1>5, <2>1, <2>2
<1>8. mark'[w] # 0 => \E m \in mail : m.owner = w /\ m.copy = "inbox" /\ m.id = mark'[w]
  <2>1. CASE mark'[w] = mark[w]
    BY <2>1 DEF Panes, PaneOK
  <2>2. \A m \in Answer(w) : m \in mail /\ m.owner = w /\ m.copy = "inbox"
    BY DEF Answer, Panes
  <2>3. QED
    BY <1>4, <2>1, <2>2
<1>9. \A v \in Warrior : PaneOK(v)'
  BY <1>3, <1>4, <1>6, <1>8 DEF Panes, PaneOK
<1>10. GivenOnce'
  BY <1>3, <1>4, <1>6, <1>7 DEF Panes, GivenOnce
<1>11. QED
  BY <1>3, <1>9, <1>10 DEF Panes

LEMMA PanesKept ==
  ASSUME Base, Panes, NEW k \in Worker, Acts(k)
  PROVE  Panes'
<1>0. Types /\ Fresh /\ Shape(k) /\ \A m \in mail : m.id \in Nat
  BY RowFields DEF Base, Types
<1>1. CASE Poll(k)
  BY <1>1, PollKeeps
<1>2. CASE ~Poll(k)
  <2>0. PanesSame
    BY <1>2, OnlyPolls
  <2>1. CASE mail' = mail
    BY <2>0, <2>1 DEF PanesSame, Panes, PaneOK, GivenOnce
  <2>2. CASE Files(k)
    <3>1. PICK R : R = draft[k].rows
      OBVIOUS
    <3>2. R \in SUBSET Row /\ mail' = mail \cup Stamped(R) /\ \A r \in R : r.folder = r.copy
      BY <1>0, <2>2, <3>1, DraftFields DEF Files, Types, Fresh
    <3>3. ASSUME NEW s \in Stamped(R), NEW w \in Warrior, s.owner = w, s.folder = "inbox", s.id <= mark[w]
          PROVE  s.late /\ s.copy = "inbox"
      <4>1. PICK r \in R : /\ s.id = r.id /\ s.owner = r.owner
                             /\ s.copy = r.copy /\ s.folder = r.folder
        BY <1>0, <3>2, <3>3, StampedFields
      <4>2. r.id \in Nat /\ r.id > 0 /\ r.id <= mark[w]
        <5>1. r.id \in 1..MaxId
          BY <3>2, RowFields
        <5>2. QED
          BY <3>3, <4>1, <5>1, MaxIdAssumption
      <4>3. mark[w] \in Nat
        BY <1>0, MaxIdAssumption DEF Types
      <4>4. mark[w] # 0
        BY <4>2, <4>3
      <4>5. PICK m \in mail : m.owner = w /\ m.copy = "inbox" /\ m.id = mark[w]
        BY <4>4 DEF Panes, PaneOK
      <4>6. m.id # r.id /\ m.id = mark[w]
        BY <1>0, <3>1, <4>5 DEF Fresh
      <4>7. m.id > r.id
        BY <4>2, <4>3, <4>6
      <4>8. s.late
        <5>1. \A p, q \in R : p.id = q.id => p = q
          BY <1>0, <3>1 DEF Fresh
        <5>2. m.owner = r.owner
          BY <3>3, <4>1, <4>5
        <5>3. QED
          BY <3>2, <4>1, <4>5, <4>7, <5>1, <5>2, StampedLate
      <4>9. QED
        BY <3>2, <3>3, <4>1, <4>8
    <3>4. \A s \in Stamped(R) : s.folder = "inbox" => s.copy = "inbox"
      BY <1>0, <3>2, StampedFields
    <3>5. QED
      BY <2>0, <3>2, <3>3, <3>4 DEF PanesSame, Panes, PaneOK, GivenOnce
  <2>3. ASSUME NEW f, Moves(k, f) PROVE Panes'
    <3>1. f \in {"deleted", "purged"} /\ f \in Folder /\ Moved(k, f)
      BY <2>3 DEF Moves, Folder
    <3>2. \A n \in mail' : \E m \in mail :
            n.id = m.id /\ n.owner = m.owner /\ n.copy = m.copy /\ n.late = m.late
            /\ (n.folder = "inbox" => m.folder = "inbox")
      BY <1>0, <3>1, MovedFields
    <3>3. \A m \in mail : \E n \in mail' : n.id = m.id /\ n.owner = m.owner /\ n.copy = m.copy
      BY <1>0, <3>1, MovedFields
    <3>4. \A w \in Warrior : PaneOK(w)'
      BY <2>0, <3>3 DEF PanesSame, Panes, PaneOK
    <3>5. GivenOnce'
      BY <2>0, <3>2 DEF PanesSame, Panes, GivenOnce
    <3>6. QED
      BY <3>2, <3>4, <3>5 DEF Panes
  <2>4. QED
    BY <1>0, <2>1, <2>2, <2>3, Effects DEF Rests, Draws, Deletes
<1>3. QED
  BY <1>1, <1>2

-----------------------------------------------------------------------------
(* The welcome.                                                              *)

(* A step that welcomes nobody, and files no welcome. *)
LEMMA WelcomeSame ==
  ASSUME Base', WelcomeOK, NEW k \in Worker, Others(k), accounts \subseteq accounts',
         \A n \in mail' : n.from = System =>
           \E m \in mail : m.from = System /\ m.owner = n.owner /\ m.id = n.id,
         Greeting(k)' => Greeting(k) /\ req'[k] = req[k]
  PROVE  WelcomeOK'
<1>1. WelcomedOnce'
  <2> SUFFICES ASSUME NEW m \in mail', NEW n \in mail', m.from = System, n.from = System, m.owner = n.owner
               PROVE  m = n
    BY DEF WelcomedOnce
  <2>1. PICK a \in mail : a.from = System /\ a.owner = m.owner /\ a.id = m.id
    OBVIOUS
  <2>2. PICK b \in mail : b.from = System /\ b.owner = n.owner /\ b.id = n.id
    OBVIOUS
  <2>3. a = b
    BY <2>1, <2>2 DEF WelcomeOK, WelcomedOnce
  <2>4. QED
    BY <2>1, <2>2, <2>3 DEF Base, Fresh
<1>2. \A m \in mail' : m.from = System => m.owner \in accounts'
  BY DEF WelcomeOK
<1>3. \A j \in Worker : Greeting(j)' => Greeting(j) /\ req'[j] = req[j]
  BY DEF Others, Greeting
<1>4. QED
  BY <1>1, <1>2, <1>3 DEF WelcomeOK

LEMMA WelcomeKept ==
  ASSUME Base, Base', WelcomeOK, NEW k \in Worker, Acts(k), Others(k)
  PROVE  WelcomeOK'
<1>0. Types /\ Fresh /\ Shape(k) /\ Shape(k)'
  BY DEF Base
<1>1. CASE Authenticate(k)
  <2>0. mail' = mail /\ accounts' = accounts \cup {req[k].by} /\ req'[k] = req[k]
    BY <1>1 DEF Authenticate
  <2>1. CASE req[k].by \notin accounts /\ Goto(k, "welcome")
    <3>1. \A j \in Worker \ {k} : Greeting(j)' => Greeting(j) /\ req'[j] = req[j]
      BY DEF Others, Greeting
    <3>2. \A m \in mail : m.from = System => m.owner # req[k].by
      BY <2>1 DEF WelcomeOK
    <3>3. \A j \in Worker \ {k} : Greeting(j)' => req'[j].by # req[k].by
      BY <2>1, <3>1 DEF WelcomeOK
    <3>4. WelcomedOnce'
      BY <2>0 DEF WelcomeOK, WelcomedOnce
    <3>5. ASSUME NEW j \in Worker, Greeting(j)'
          PROVE  /\ req'[j].by \in accounts'
                 /\ \A m \in mail' : m.from = System => m.owner # req'[j].by
                 /\ \A i \in Worker \ {j} : Greeting(i)' => req'[i].by # req'[j].by
      <4>1. CASE j = k
        BY <2>0, <3>2, <3>3, <4>1
      <4>2. CASE j # k
        BY <2>0, <3>1, <3>3, <3>5, <4>2 DEF WelcomeOK
      <4>3. QED
        BY <4>1, <4>2
    <3>6. QED
      BY <2>0, <3>4, <3>5 DEF WelcomeOK
  <2>2. CASE Starts(k)
    <3>1. ~Idle(k) /\ UNCHANGED req
      BY <1>0, <1>1 DEF Authenticate, Shape
    <3>2. pc'[k] \in {"look", "folder", "exec"}
      BY <1>0, <2>2, <3>1, Started DEF Now
    <3>3. QED
      BY <2>0, <3>2, WelcomeSame DEF Greeting
  <2>3. QED
    BY <1>1, <2>1, <2>2 DEF Authenticate
<1>2. CASE Welcome(k)
  BY <1>2, WelcomeSame DEF Welcome, Greeting, tables
<1>3. ASSUME Starts(k), UNCHANGED req, ~Idle(k) PROVE ~Greeting(k)'
  <2>1. pc'[k] \in {"look", "folder", "exec"}
    BY <1>0, <1>3, Started DEF Now
  <2>2. QED
    BY <2>1 DEF Greeting
<1>4. CASE Greet(k)
  <2>1. ~Greeting(k)' /\ accounts' = accounts
    BY <1>0, <1>3, <1>4 DEF Greet, Shape
  <2>2. PICK R : R = draft[k].rows
    OBVIOUS
  <2>3. /\ mail' = mail \cup Stamped(R) /\ R \in SUBSET Row /\ Greeting(k)
        /\ \A r \in R : r.owner = req[k].by
        /\ \A r, n \in R : r = n
    BY <1>0, <1>4, <2>2, DraftFields DEF Greet, Greeting, Shape, Types
  <2>4. \A s \in Stamped(R) : s.owner = req[k].by
    BY <1>0, <2>3, StampedFields
  <2>5. \A s, n \in Stamped(R) : s = n
    BY <2>3 DEF Stamped
  <2>6. req[k].by \in accounts /\ \A m \in mail : m.from = System => m.owner # req[k].by
    BY <2>3 DEF WelcomeOK
  <2>7. WelcomedOnce'
    BY <2>3, <2>4, <2>5, <2>6 DEF WelcomeOK, WelcomedOnce
  <2>8. \A m \in mail' : m.from = System => m.owner \in accounts'
    BY <2>1, <2>3, <2>4, <2>6 DEF WelcomeOK
  <2>9. \A j \in Worker : Greeting(j)' => j # k /\ Greeting(j) /\ req'[j] = req[j]
    BY <2>1 DEF Others, Greeting
  <2>10. ASSUME NEW j \in Worker, Greeting(j)'
         PROVE  /\ req'[j].by \in accounts'
                /\ \A m \in mail' : m.from = System => m.owner # req'[j].by
                /\ \A i \in Worker \ {j} : Greeting(i)' => req'[i].by # req'[j].by
    <3>1. req[j].by # req[k].by
      BY <2>3, <2>9, <2>10 DEF WelcomeOK
    <3>2. QED
      BY <2>1, <2>3, <2>4, <2>9, <2>10, <3>1 DEF WelcomeOK
  <2>11. QED
    BY <2>7, <2>8, <2>10 DEF WelcomeOK
<1>5. CASE Commit(k)
  <2>1. PICK R : R = draft[k].rows
    OBVIOUS
  <2>2. /\ mail' = mail \cup Stamped(R) /\ R \in SUBSET Row /\ accounts' = accounts
        /\ \A r \in R : r.from = req[k].by
    BY <1>0, <1>5, <2>1, DraftFields DEF Commit, Shape, Sending, Types
  <2>3. req[k].by # System
    BY <1>0, <1>5, Fields, NoneAssumption DEF Commit, Shape, Types, Idle
  <2>4. \A s \in Stamped(R) : s.from # System
    BY <1>0, <2>2, <2>3, StampedFields
  <2>5. ~Greeting(k)'
    BY <1>0, <1>5, Finished DEF Commit, Now, Greeting
  <2>6. QED
    BY <2>2, <2>4, <2>5, WelcomeSame
<1>6. CASE MoveOrPurge(k) \/ PurgeMail(k)
  <2>1. ~Greeting(k)' /\ accounts' = accounts
    BY <1>0, <1>6, Finished DEF MoveOrPurge, PurgeMail, Now, Greeting
  <2>2. PICK f \in Folder : Moved(k, f)
    BY <1>6 DEF MoveOrPurge, PurgeMail, Folder
  <2>3. \A n \in mail' : \E m \in mail : n.id = m.id /\ n.owner = m.owner /\ n.from = m.from
    BY <1>0, <2>2, MovedFields
  <2>4. QED
    BY <2>1, <2>3, WelcomeSame
<1>7. CASE ~(Authenticate(k) \/ Welcome(k) \/ Greet(k) \/ Commit(k) \/ MoveOrPurge(k) \/ PurgeMail(k))
  <2>1. mail' = mail /\ accounts' = accounts
    BY <1>7 DEF Acts, Step, Begin, WelcomeFails, Look, Turn, Put, Sent, ReadFolder, Poll,
       BlockAdd, BlockRemove, Fault, Refuse, tables
  <2>2. ~Greeting(k)'
    BY <1>0, <1>7, Lands DEF Greeting
  <2>3. QED
    BY <2>1, <2>2, WelcomeSame
<1>8. QED
  BY <1>1, <1>2, <1>4, <1>5, <1>6, <1>7

-----------------------------------------------------------------------------
(* The second delete.                                                        *)
LEMMA FoundKept ==
  ASSUME Base, NEW k \in Worker, Acts(k), Others(k), \A j \in Worker : FoundDeleted(j)
  PROVE  \A j \in Worker : FoundDeleted(j)'
<1>0. Types /\ Fresh /\ Shape(k)
  BY DEF Base
<1>1. ASSUME NEW m \in mail
      PROVE  \E n \in mail' : /\ n.id = m.id
                              /\ m.folder \in {"deleted", "purged"} => n.folder \in {"deleted", "purged"}
  <2>1. CASE mail \subseteq mail'
    BY <2>1
  <2>2. ASSUME NEW f \in {"deleted", "purged"}, Moved(k, f)
        PROVE  \E n \in mail' : /\ n.id = m.id
                                /\ m.folder \in {"deleted", "purged"} => n.folder \in {"deleted", "purged"}
    <3>1. f \in Folder
      BY DEF Folder
    <3>2. PICK n \in mail' : n.id = m.id /\ n.folder = IF m \in Own(k) THEN f ELSE m.folder
      BY <1>0, <2>2, <3>1, MovedFields
    <3>3. QED
      BY <3>2
  <2>3. QED
    BY <1>0, <2>1, <2>2, Effects DEF Rests, Draws, Files, Deletes, Moves
<1>2. ASSUME NEW j \in Worker \ {k} PROVE FoundDeleted(j)'
  BY <1>1 DEF FoundDeleted, Others
<1>3. FoundDeleted(k)'
  <2>1. CASE pc'[k] = "move"
    <3>1. ReadFolder(k)
      BY <1>0, <2>1, Lands
    <3>2. CASE Refuse(k)
      BY <1>0, <2>1, <3>2, Finished DEF Refuse, Now
    <3>3. ASSUME NEW m \in Own(k), Keep(k, [draft[k] EXCEPT !.folder = m.folder]), UNCHANGED <<mail, req>>
          PROVE  FoundDeleted(k)'
      <4>1. draft'[k] = [draft[k] EXCEPT !.folder = m.folder] /\ draft[k] \in Draft
        BY <1>0, <3>3 DEF Keep, Types
      <4>2. draft'[k].folder = m.folder
        BY <4>1 DEF Draft
      <4>3. m \in mail /\ m.id = req[k].id
        BY DEF Own
      <4>4. QED
        BY <3>3, <4>2, <4>3 DEF FoundDeleted
    <3>4. QED
      BY <3>1, <3>2, <3>3 DEF ReadFolder, tables
  <2>2. QED
    BY <2>1 DEF FoundDeleted
<1>4. QED
  BY <1>2, <1>3

(* A step that purges a row that was not deleted is its owner's purge.       *)
LEMMA TwoStages ==
  ASSUME Base, Base', NEW k \in Worker, Acts(k), FoundDeleted(k),
         NEW m \in mail, m.folder \in {"inbox", "sent"},
         NEW n \in mail', n.id = m.id, n.folder = "purged"
  PROVE  ~Idle(k) /\ req[k].op = "purge" /\ req[k].by = m.owner
<1>0. Types /\ Fresh /\ Fresh' /\ Shape(k)
  BY DEF Base
<1>1. ASSUME m \in mail' PROVE FALSE
  <2>1. n = m
    BY <1>0, <1>1 DEF Fresh
  <2>2. QED
    BY <2>1
<1>2. Deletes(k)
  BY <1>0, <1>1, Effects DEF Rests, Draws, Files
<1>3. ASSUME NEW f, Moves(k, f)
      PROVE  m \in Own(k) /\ f = "purged"
  <2>1. f \in Folder /\ Moved(k, f)
    BY <1>3 DEF Moves, Folder
  <2>2. PICK q \in mail : n.id = q.id /\ n.folder = IF q \in Own(k) THEN f ELSE q.folder
    BY <1>0, <2>1, MovedFields
  <2>3. q = m
    BY <1>0, <2>2 DEF Fresh
  <2>4. QED
    BY <2>2, <2>3
<1>4. CASE pc[k] = "exec" /\ Moves(k, "purged")
  <2>1. m \in Own(k)
    BY <1>3, <1>4
  <2>2. ~Idle(k)
    BY <1>0, <1>4 DEF Shape
  <2>3. req[k].op = "purge"
    <3>1. mail' # mail
      BY <1>1
    <3>2. QED
      BY <1>4, <3>1 DEF Acts, Step, Begin, Authenticate, Welcome, Greet, WelcomeFails, Look, Turn, Put,
         Sent, Commit, ReadFolder, MoveOrPurge, PurgeMail, Poll, BlockAdd, BlockRemove, Fault, Refuse, tables
  <2>4. QED
    BY <2>1, <2>2, <2>3 DEF Own
<1>5. CASE pc[k] = "move" /\ Moves(k, IF draft[k].folder = "deleted" THEN "purged" ELSE "deleted")
  <2>1. m \in Own(k) /\ draft[k].folder = "deleted"
    BY <1>3, <1>5
  <2>2. PICK q \in mail : q.id = req[k].id /\ q.folder \in {"deleted", "purged"}
    BY <1>5, <2>1 DEF FoundDeleted
  <2>3. q = m
    BY <1>0, <2>1, <2>2 DEF Own, Fresh
  <2>4. QED
    BY <2>2, <2>3
<1>6. QED
  BY <1>2, <1>4, <1>5 DEF Deletes

-----------------------------------------------------------------------------
(* The counters of the blocks.                                               *)
LEMMA CountTypes ==
  ASSUME Types, NEW k \in Worker, NEW p \in Pair
  PROVE  /\ hits[p] # NoBlock => hits[p] \in Nat
         /\ turned[p] \in Nat /\ Times(p[1], draft[k].counts) \in Nat
         /\ draft[k].hits[p] # NoBlock => draft[k].hits[p] \in Nat
<1>1. draft[k].counts \in Seq(Warrior) /\ draft[k].hits \in [Pair -> Nat \cup {NoBlock}]
  BY DraftFields DEF Types
<1>2. QED
  BY <1>1, TimesType DEF Types

(* A transaction that counts nothing more, or is over. *)
LEMMA CountsSame ==
  ASSUME Base, Base', Counting, NEW k \in Worker, Others(k), UNCHANGED <<hits, turned>>,
         \/ draft'[k].hits = NoDraft.hits /\ draft'[k].counts = <<>>
         \/ /\ draft'[k].hits = draft[k].hits /\ draft'[k].counts = draft[k].counts
            /\ req'[k] = req[k] /\ pc[k] \in Sending
  PROVE  Counting'
<1>0. Types /\ Types'
  BY DEF Base
<1>1. HitsCounted'
  BY DEF Counting, HitsCounted
<1>2. \A j \in Worker, p \in Pair : draft'[j].hits[p] # NoBlock => draft'[j].hits[p] = draft[j].hits[p]
  BY NoDraftFields DEF Others
<1>3. ASSUME NEW j \in Worker PROVE CountsOK(j)'
  <2>1. CASE draft'[j].hits = NoDraft.hits /\ draft'[j].counts = <<>>
    <3>1. \A p \in Pair : draft'[j].hits[p] = NoBlock /\ Times(p[1], draft'[j].counts) = 0
      BY <2>1, NoDraftFields, TimesEmpty
    <3>2. QED
      BY <3>1 DEF CountsOK
  <2>2. CASE /\ draft'[j].hits = draft[j].hits /\ draft'[j].counts = draft[j].counts
             /\ req'[j] = req[j] /\ (pc'[j] \in Sending => pc[j] \in Sending)
    <3>1. CountsOK(j)
      BY DEF Counting
    <3>2. \A p \in Pair : Locked(p, j)' => Locked(p, j)
      BY <1>2 DEF Locked
    <3>3. QED
      BY <2>2, <3>1, <3>2 DEF CountsOK
  <2>3. QED
    BY <2>1, <2>2 DEF Others
<1>4. QED
  BY <1>1, <1>3 DEF Counting

LEMMA TurnCounts ==
  ASSUME Base, Base', Counting, NEW k \in Worker, Others(k), Turn(k)
  PROVE  Counting'
<1>0. Types /\ Shape(k) /\ UNCHANGED <<hits, turned>> /\ CountsOK(k) /\ pc[k] = "turn"
  BY DEF Base, Turn, tables, Counting
<1>1. PICK r \in Warrior : r = Head(draft[k].todo)
  BY <1>0, TurnFields
<1>2. PICK p \in Pair : p = <<r, req[k].by>>
  BY <1>0, <1>1, TurnFields
<1>3. PICK d \in Draft :
        /\ Now(k, req[k], "look", d)
        /\ IF hits[p] = NoBlock THEN d.counts = draft[k].counts /\ d.hits = draft[k].hits
           ELSE d.counts = Append(draft[k].counts, r) /\ d.hits = [draft[k].hits EXCEPT ![p] = Seen(p, k) + 1]
  BY <1>0, <1>1, <1>2, TurnFields
<1>4. draft'[k] = d /\ req'[k] = req[k] /\ ~Locked(p, k) /\ p[1] = r /\ p[2] = req[k].by
  BY <1>0, <1>1, <1>2, <1>3, TurnFields DEF Now
<1>5. CASE hits[p] = NoBlock
  BY <1>0, <1>3, <1>4, <1>5, CountsSame DEF Sending
<1>6. CASE hits[p] # NoBlock
  <2>0. draft[k].hits \in [Pair -> Nat \cup {NoBlock}] /\ draft[k].counts \in Seq(Warrior)
    BY <1>0, DraftFields DEF Types
  <2>1. /\ d.hits[p] = Seen(p, k) + 1 /\ \A q \in Pair \ {p} : d.hits[q] = draft[k].hits[q]
        /\ d.counts = Append(draft[k].counts, r)
    BY <1>3, <1>6, <2>0
  <2>2. Times(r, d.counts) = Times(r, draft[k].counts) + 1
        /\ \A x \in Warrior \ {r} : Times(x, d.counts) = Times(x, draft[k].counts)
    BY <2>0, <2>1, TimesAppend
  <2>3. \A q \in Pair \ {p} : q[2] = req[k].by => q[1] \in Warrior \ {r}
    BY <1>2 DEF Pair
  <2>4. Seen(p, k) = hits[p] + Times(r, draft[k].counts)
    <3>1. hits[p] \in Nat /\ Times(r, draft[k].counts) \in Nat
      BY <1>0, <1>4, <1>6, CountTypes
    <3>2. CASE draft[k].hits[p] # NoBlock
      BY <1>0, <1>4, <3>2 DEF Seen, CountsOK
    <3>3. CASE draft[k].hits[p] = NoBlock
      <4>1. Times(r, draft[k].counts) = 0
        BY <1>0, <1>4, <3>3 DEF CountsOK, Sending
      <4>2. QED
        BY <3>1, <3>3, <4>1 DEF Seen
    <3>4. QED
      BY <3>2, <3>3
  <2>5. d.hits[p] = hits[p] + Times(r, d.counts) /\ d.hits[p] # NoBlock
    <3>1. hits[p] \in Nat /\ Times(r, draft[k].counts) \in Nat
      BY <1>0, <1>4, <1>6, CountTypes
    <3>2. d.hits[p] = hits[p] + Times(r, d.counts) /\ d.hits[p] \in Nat
      BY <2>1, <2>2, <2>4, <3>1
    <3>3. QED
      BY <3>2, NoneAssumption
  <2>6. \A j \in Worker \ {k} : draft'[j] = draft[j] /\ req'[j] = req[j] /\ pc'[j] = pc[j]
    BY DEF Others
  <2>7. CountsOK(k)'
    <3>1. ASSUME NEW q \in Pair, d.hits[q] # NoBlock
          PROVE  /\ q[2] = req[k].by /\ hits[q] # NoBlock /\ ~Locked(q, k)
                 /\ d.hits[q] = hits[q] + Times(q[1], d.counts)
      <4>1. CASE q = p
        BY <1>4, <1>6, <2>5, <4>1
      <4>2. CASE q # p
        <5>1. draft[k].hits[q] # NoBlock /\ d.hits[q] = draft[k].hits[q]
          BY <2>1, <3>1, <4>2
        <5>2. /\ q[2] = req[k].by /\ hits[q] # NoBlock /\ ~Locked(q, k)
              /\ draft[k].hits[q] = hits[q] + Times(q[1], draft[k].counts)
          BY <1>0, <5>1 DEF CountsOK
        <5>3. Times(q[1], d.counts) = Times(q[1], draft[k].counts)
          BY <2>2, <2>3, <4>2, <5>2
        <5>4. QED
          BY <5>1, <5>2, <5>3
      <4>3. QED
        BY <4>1, <4>2
    <3>2. ASSUME NEW q \in Pair, d.hits[q] = NoBlock, q[2] = req[k].by
          PROVE  Times(q[1], d.counts) = 0
      <4>1. q # p
        BY <2>5, <3>2
      <4>2. Times(q[1], draft[k].counts) = 0
        BY <1>0, <2>1, <3>2, <4>1 DEF CountsOK, Sending
      <4>3. QED
        BY <2>2, <2>3, <3>2, <4>1, <4>2
    <3>3. \A q \in Pair : Locked(q, k)' => Locked(q, k)
      BY <2>6 DEF Locked
    <3>4. QED
      BY <1>0, <1>4, <3>1, <3>2, <3>3 DEF CountsOK
  <2>8. ASSUME NEW j \in Worker \ {k} PROVE CountsOK(j)'
    <3>1. CountsOK(j)
      BY DEF Counting
    <3>2. ASSUME NEW q \in Pair, draft[j].hits[q] # NoBlock PROVE ~Locked(q, j)'
      <4>1. ~Locked(q, j)
        BY <3>1, <3>2 DEF CountsOK
      <4>2. q # p
        BY <1>4, <3>2 DEF Locked
      <4>3. draft[k].hits[q] = NoBlock /\ draft'[k].hits[q] = NoBlock
        BY <1>4, <2>1, <4>1, <4>2 DEF Locked
      <4>4. QED
        BY <2>6, <4>1, <4>3 DEF Locked
    <3>3. QED
      BY <1>0, <2>6, <3>1, <3>2 DEF CountsOK
  <2>9. HitsCounted'
    BY <1>0 DEF Counting, HitsCounted
  <2>10. QED
    BY <2>7, <2>8, <2>9 DEF Counting
<1>7. QED
  BY <1>5, <1>6

LEMMA CommitCounts ==
  ASSUME Base, Base', Counting, NEW k \in Worker, Others(k), Commit(k)
  PROVE  Counting'
<1>0. Types /\ Shape(k) /\ CountsOK(k) /\ pc[k] = "commit"
  BY DEF Base, Commit, Counting
<1>1. draft'[k] = NoDraft /\ \A j \in Worker \ {k} : draft'[j] = draft[j] /\ req'[j] = req[j] /\ pc'[j] = pc[j]
  BY <1>0, Finished DEF Commit, Now, Others
<1>2. ASSUME NEW p \in Pair
      PROVE  /\ hits'[p] = IF draft[k].hits[p] # NoBlock THEN draft[k].hits[p] ELSE hits[p]
             /\ turned'[p] = turned[p] + IF p[2] = req[k].by THEN Times(p[1], draft[k].counts) ELSE 0
  BY DEF Commit
<1>3. ASSUME NEW p \in Pair, hits'[p] # NoBlock PROVE hits'[p] = turned'[p]
  <2>1. turned[p] \in Nat /\ Times(p[1], draft[k].counts) \in Nat
    BY <1>0, CountTypes
  <2>2. CASE draft[k].hits[p] # NoBlock
    <3>1. /\ p[2] = req[k].by /\ hits[p] # NoBlock
          /\ draft[k].hits[p] = hits[p] + Times(p[1], draft[k].counts)
      BY <1>0, <2>2 DEF CountsOK
    <3>2. hits[p] = turned[p]
      BY <3>1 DEF Counting, HitsCounted
    <3>3. QED
      BY <1>2, <2>2, <3>1, <3>2
  <2>3. CASE draft[k].hits[p] = NoBlock
    <3>1. hits'[p] = hits[p] /\ hits[p] = turned[p]
      BY <1>2, <1>3, <2>3 DEF Counting, HitsCounted
    <3>2. p[2] = req[k].by => Times(p[1], draft[k].counts) = 0
      BY <1>0, <2>3 DEF CountsOK, Sending
    <3>3. turned'[p] = turned[p] + 0
      BY <1>2, <3>2
    <3>4. QED
      BY <2>1, <3>1, <3>3
  <2>4. QED
    BY <2>2, <2>3
<1>4. CountsOK(k)'
  <2>1. \A p \in Pair : draft'[k].hits[p] = NoBlock /\ Times(p[1], draft'[k].counts) = 0
    BY <1>1, NoDraftFields, TimesEmpty
  <2>2. QED
    BY <2>1 DEF CountsOK
<1>5. ASSUME NEW j \in Worker \ {k} PROVE CountsOK(j)'
  <2>1. CountsOK(j)
    BY DEF Counting
  <2>2. ASSUME NEW p \in Pair, draft[j].hits[p] # NoBlock PROVE ~Locked(p, j)' /\ hits'[p] = hits[p]
    <3>1. ~Locked(p, j)
      BY <2>1, <2>2 DEF CountsOK
    <3>2. draft[k].hits[p] = NoBlock /\ draft'[k].hits[p] = NoBlock
      BY <1>1, <3>1, NoDraftFields DEF Locked
    <3>3. QED
      BY <1>1, <1>2, <3>1, <3>2 DEF Locked
  <2>3. QED
    BY <1>1, <2>1, <2>2 DEF CountsOK
<1>6. QED
  BY <1>3, <1>4, <1>5 DEF Counting, HitsCounted

(* A block set or lifted: nobody counts on its row. *)
LEMMA BlockCounts ==
  ASSUME Base, Base', Counting, NEW k \in Worker, Others(k), BlockAdd(k) \/ BlockRemove(k)
  PROVE  Counting'
<1>0. Types /\ Shape(k) /\ pc[k] = "exec" /\ draft[k] = NoDraft /\ req[k] \in Asked
  BY DEF Base, BlockAdd, BlockRemove, Shape, Types, Idle
<1>1. draft'[k] = NoDraft /\ \A j \in Worker \ {k} : draft'[j] = draft[j] /\ req'[j] = req[j] /\ pc'[j] = pc[j]
  BY <1>0, Finished DEF BlockAdd, BlockRemove, Now, Others
<1>2. \A p \in Pair : draft[k].hits[p] = NoBlock /\ draft'[k].hits[p] = NoBlock
  BY <1>0, <1>1, NoDraftFields
<1>3. PICK p \in Pair : p = <<req[k].by, req[k].who>>
  BY <1>0, Fields DEF BlockAdd, BlockRemove, Pair
<1>4. \/ UNCHANGED <<hits, turned>>
      \/ /\ hits' = [hits EXCEPT ![p] = 0] /\ turned' = [turned EXCEPT ![p] = 0]
         /\ hits[p] = NoBlock
      \/ /\ hits' = [hits EXCEPT ![p] = NoBlock] /\ turned' = [turned EXCEPT ![p] = 0]
         /\ ~Locked(p, k)
  BY <1>3 DEF BlockAdd, BlockRemove
<1>5. CASE UNCHANGED <<hits, turned>>
  BY <1>1, <1>5, NoDraftFields, CountsSame
<1>6. CASE ~UNCHANGED <<hits, turned>>
  <2>1. /\ \A q \in Pair \ {p} : hits'[q] = hits[q] /\ turned'[q] = turned[q]
        /\ turned'[p] = 0 /\ hits'[p] \in {0, NoBlock}
    BY <1>0, <1>4, <1>6 DEF Types
  <2>2. HitsCounted'
    BY <2>1 DEF Counting, HitsCounted
  <2>3. ASSUME NEW j \in Worker PROVE draft[j].hits[p] = NoBlock
    BY <1>2, <1>4, <1>6 DEF Counting, CountsOK, Locked
  <2>4. CountsOK(k)'
    <3>1. \A q \in Pair : Times(q[1], draft'[k].counts) = 0
      BY <1>1, NoDraftFields, TimesEmpty
    <3>2. QED
      BY <1>2, <3>1 DEF CountsOK
  <2>5. ASSUME NEW j \in Worker \ {k} PROVE CountsOK(j)'
    <3>1. CountsOK(j)
      BY DEF Counting
    <3>2. \A q \in Pair : Locked(q, j)' => Locked(q, j)
      BY <1>1, <1>2 DEF Locked
    <3>3. \A q \in Pair : draft[j].hits[q] # NoBlock => hits'[q] = hits[q]
      BY <2>1, <2>3
    <3>4. QED
      BY <1>1, <3>1, <3>2, <3>3 DEF CountsOK
  <2>6. QED
    BY <2>2, <2>4, <2>5 DEF Counting
<1>7. QED
  BY <1>5, <1>6

LEMMA CountingKept ==
  ASSUME Base, Base', Counting, NEW k \in Worker, Others(k), Acts(k)
  PROVE  Counting'
<1>0. Types /\ Shape(k) /\ Shape(k)'
  BY DEF Base
<1>1. CASE Turn(k) \/ Commit(k) \/ BlockAdd(k) \/ BlockRemove(k)
  BY <1>1, TurnCounts, CommitCounts, BlockCounts
<1>2. CASE ~(Turn(k) \/ Commit(k) \/ BlockAdd(k) \/ BlockRemove(k))
  <2>1. UNCHANGED <<hits, turned>>
    BY <1>2 DEF Acts, Step, Begin, Authenticate, Welcome, Greet, WelcomeFails, Look, Put, Sent,
       ReadFolder, MoveOrPurge, PurgeMail, Poll, Fault, Refuse, tables
  <2>2. CASE pc'[k] \notin Sending
    BY <1>0, <2>1, <2>2, CountsSame DEF Shape
  <2>3. CASE pc'[k] \in {"turn", "put", "sent"}
    <3>1. Look(k) /\ pc[k] \in Sending
      BY <1>0, <2>3, Lands DEF Look, Sending
    <3>2. ~Finish(k)
      BY <1>0, <2>3, Finished DEF Now
    <3>3. UNCHANGED <<req, draft>>
      BY <3>1, <3>2 DEF Look
    <3>4. QED
      BY <2>1, <3>1, <3>3, CountsSame
  <2>4. CASE pc'[k] = "commit"
    <3>1. Sent(k) /\ pc[k] \in Sending
      BY <1>0, <2>4, Lands DEF Sent, Sending
    <3>2. QED
      BY <1>0, <2>1, <3>1, SentFields, CountsSame DEF Now
  <2>5. CASE pc'[k] = "look"
    <3>1. CASE Put(k)
      <4>1. pc[k] \in Sending
        BY <3>1 DEF Put, Sending
      <4>2. QED
        BY <1>0, <2>1, <3>1, <4>1, PutFields, CountsSame DEF Now
    <3>2. CASE Starts(k) /\ UNCHANGED req /\ ~Idle(k)
      <4>1. draft'[k].hits = NoDraft.hits /\ draft'[k].counts = <<>>
        BY <1>0, <3>2, Started, StartFields DEF Now, Types, Idle
      <4>2. QED
        BY <2>1, <4>1, CountsSame
    <3>3. QED
      BY <1>0, <1>2, <2>5, <3>1, <3>2, Lands
  <2>6. QED
    BY <2>2, <2>3, <2>4, <2>5 DEF Sending
<1>3. QED
  BY <1>1, <1>2

-----------------------------------------------------------------------------
(* A message is sent to everybody or to nobody.                              *)
LEMMA CopiesFinite ==
  ASSUME NEW R \in SUBSET Row
  PROVE  IsFiniteSet(Copies(R)) /\ Cardinality(Copies(R)) \in Nat /\ Copies(R) \subseteq 1..MaxId
<1>1. Copies(R) \in SUBSET (1..MaxId)
  BY RowFields DEF Copies
<1>2. IsFiniteSet(1..MaxId)
  BY FS_Interval, MaxIdAssumption
<1>3. QED
  BY <1>1, <1>2, FS_Subset, FS_CardinalityType

(* One more row of the transaction. *)
LEMMA CopiesAdd ==
  ASSUME Base, NEW k \in Worker, NEW r \in Row, r.id = drawn + 1
  PROVE  Cardinality(Copies(draft[k].rows \cup {r}))
           = Cardinality(Copies(draft[k].rows)) + IF r.copy = "inbox" THEN 1 ELSE 0
<1>0. /\ draft[k].rows \in SUBSET Row /\ drawn \in Nat
      /\ \A n \in draft[k].rows : n.id <= drawn /\ n.id \in Nat
  BY DraftFields, RowFields, MaxIdAssumption DEF Base, Types, Fresh
<1>1. IsFiniteSet(Copies(draft[k].rows)) /\ Cardinality(Copies(draft[k].rows)) \in Nat
  BY <1>0, CopiesFinite
<1>2. CASE r.copy = "inbox"
  <2>1. Copies(draft[k].rows \cup {r}) = Copies(draft[k].rows) \cup {r.id}
    BY <1>2 DEF Copies
  <2>2. r.id \notin Copies(draft[k].rows)
    BY <1>0 DEF Copies
  <2>3. QED
    BY <1>1, <1>2, <2>1, <2>2, FS_AddElement
<1>3. CASE r.copy # "inbox"
  <2>1. Copies(draft[k].rows \cup {r}) = Copies(draft[k].rows)
    BY <1>3 DEF Copies
  <2>2. QED
    BY <1>1, <1>3, <2>1
<1>4. QED
  BY <1>2, <1>3

LEMMA MessageAdd ==
  ASSUME NEW R, NEW r, Message(R), \A p, n \in R : p.message = n.message,
         IF R = {} THEN r.message = r.id ELSE \E n \in R : n.message = r.message
  PROVE  Message(R \cup {r}) /\ \A p, n \in R \cup {r} : p.message = n.message
<1>1. CASE R = {}
  BY <1>1 DEF Message
<1>2. CASE R # {}
  <2>1. PICK n \in R : n.message = r.message
    BY <1>2
  <2>2. QED
    BY <2>1 DEF Message
<1>3. QED
  BY <1>1, <1>2

LEMMA SendKept ==
  ASSUME Base, Base', NEW k \in Worker, SendOK(k), Acts(k)
  PROVE  SendOK(k)'
<1>0. /\ Types /\ Types' /\ Shape(k) /\ Shape(k)' /\ draft[k] \in Draft /\ draft[k].rows \in SUBSET Row
      /\ draft[k].todo \in Recipients /\ draft[k].away \in Nat
      /\ Cardinality(Copies(draft[k].rows)) \in Nat
  BY DraftFields, CopiesFinite DEF Base, Types
<1>1. CASE pc'[k] \notin Sending \cup {"greet"}
  <2>1. draft'[k].rows = {}
    BY <1>0, <1>1 DEF Shape
  <2>2. pc'[k] \notin {"sent", "commit"}
    BY <1>1 DEF Sending
  <2>3. QED
    BY <1>1, <2>1, <2>2 DEF SendOK, Message
<1>2. CASE pc'[k] = "greet"
  <2>1. PICK r \in Row, d \in Draft : draft'[k] = d /\ d.rows = {r} /\ r.message = r.id
    BY <1>0, <1>2, Lands, WelcomeFields DEF Now
  <2>2. QED
    BY <1>2, <2>1 DEF SendOK, Message, Sending
<1>3. CASE pc'[k] \in {"turn", "put", "sent"}
  <2>1. Look(k) /\ pc[k] = "look"
    BY <1>0, <1>3, Lands DEF Look
  <2>2. ~Finish(k) /\ (pc'[k] = "sent" => draft[k].todo = <<>>)
    <3>1. ~Finish(k)
      BY <1>0, <1>3, Finished DEF Now
    <3>2. CASE draft[k].todo # <<>>
      <4>1. PICK s \in {"put", "turn"} : Goto(k, s)
        BY <2>1, <3>1, <3>2 DEF Look
      <4>2. pc'[k] = s
        BY <1>0, <4>1 DEF Goto, Types
      <4>3. QED
        BY <3>1, <4>2
    <3>3. QED
      BY <3>1, <3>2
  <2>3. UNCHANGED <<req, draft>>
    BY <2>1, <2>2 DEF Look
  <2>4. QED
    BY <1>3, <2>1, <2>2, <2>3 DEF SendOK, Sending
<1>4. CASE pc'[k] = "commit"
  <2>1. Sent(k) /\ pc[k] = "sent"
    BY <1>0, <1>4, Lands DEF Sent
  <2>2. PICK r \in Row, d \in Draft :
           /\ Now(k, req[k], "commit", d) /\ d.rows = draft[k].rows \cup {r}
           /\ d.away = draft[k].away /\ d.todo = draft[k].todo
           /\ r.id = drawn + 1 /\ r.copy = "sent" /\ r.to = req[k].to /\ r.away = draft[k].away
           /\ IF draft[k].rows = {} THEN r.message = r.id
              ELSE \E n \in draft[k].rows : n.message = r.message
    BY <1>0, <2>1, SentFields
  <2>3. Message(d.rows) /\ \A p, n \in d.rows : p.message = n.message
    BY <2>2, MessageAdd DEF SendOK
  <2>4. Cardinality(Copies(d.rows)) = Cardinality(Copies(draft[k].rows))
    BY <1>0, <2>2, CopiesAdd
  <2>5. QED
    BY <1>4, <2>1, <2>2, <2>3, <2>4 DEF SendOK, Sending, Now
<1>5. CASE pc'[k] = "look"
  <2>1. CASE Turn(k)
    <3>1. pc[k] = "turn" /\ draft[k].todo # <<>>
      BY <1>0, <2>1 DEF Turn, Shape
    <3>2. PICK d \in Draft :
            /\ Now(k, req[k], "look", d) /\ d.rows = draft[k].rows /\ d.todo = Tail(draft[k].todo)
            /\ d.away = draft[k].away + 1
      BY <1>0, <2>1, TurnFields
    <3>3. Len(d.todo) = Len(draft[k].todo) - 1 /\ Len(draft[k].todo) \in Nat
      BY <1>0, <3>1, <3>2, HeadTailProperties DEF Recipients
    <3>4. Cardinality(Copies(draft[k].rows)) + draft[k].away + Len(draft[k].todo) = Len(req[k].to)
      BY <3>1 DEF SendOK, Sending
    <3>5. Cardinality(Copies(draft[k].rows)) + d.away + Len(d.todo) = Len(req[k].to)
      BY <1>0, <3>2, <3>3, <3>4
    <3>6. QED
      BY <1>5, <3>2, <3>5 DEF SendOK, Now
  <2>2. CASE Put(k)
    <3>1. pc[k] = "put"
      BY <2>2 DEF Put
    <3>2. PICK r \in Row, d \in Draft :
           /\ Now(k, req[k], "look", d) /\ d.rows = draft[k].rows \cup {r} /\ d.away = draft[k].away
           /\ draft[k].todo # <<>> /\ d.todo = Tail(draft[k].todo)
           /\ r.id = drawn + 1 /\ r.copy = "inbox"
           /\ IF draft[k].rows = {} THEN r.message = r.id
              ELSE \E n \in draft[k].rows : n.message = r.message
      BY <1>0, <2>2, PutFields
    <3>3. Len(d.todo) = Len(draft[k].todo) - 1 /\ Len(draft[k].todo) \in Nat
      BY <1>0, <3>2, HeadTailProperties DEF Recipients
    <3>4. Cardinality(Copies(draft[k].rows)) + draft[k].away + Len(draft[k].todo) = Len(req[k].to)
      BY <3>1 DEF SendOK, Sending
    <3>5. Cardinality(Copies(d.rows)) = Cardinality(Copies(draft[k].rows)) + 1
      BY <3>2, CopiesAdd
    <3>6. Cardinality(Copies(d.rows)) + d.away + Len(d.todo) = Len(req[k].to)
      <4>1. \A c, a, n \in Nat : (c + 1) + a + (n - 1) = c + a + n
        OBVIOUS
      <4>2. PICK c \in Nat, a \in Nat, n \in Nat :
              c = Cardinality(Copies(draft[k].rows)) /\ a = draft[k].away /\ n = Len(draft[k].todo)
        BY <1>0, <3>3
      <4>3. Cardinality(Copies(d.rows)) = c + 1 /\ d.away = a /\ Len(d.todo) = n - 1
        BY <3>2, <3>3, <3>5, <4>2
      <4>4. c + a + n = Len(req[k].to)
        BY <3>4, <4>2
      <4>5. QED
        BY <4>1, <4>3, <4>4
    <3>7. Message(d.rows) /\ \A p, n \in d.rows : p.message = n.message
      BY <3>2, MessageAdd DEF SendOK
    <3>8. QED
      BY <1>5, <3>2, <3>6, <3>7 DEF SendOK, Now
  <2>3. CASE Starts(k) /\ UNCHANGED req /\ ~Idle(k)
    <3>1. req[k] \in Asked /\ draft'[k] = Fresh0(req[k]) /\ req'[k] = req[k] /\ req[k].op = "send"
      <4>1. req[k] \in Asked
        BY <1>0, <2>3 DEF Types, Idle
      <4>2. draft'[k] = Fresh0(req[k]) /\ req'[k] = req[k]
        BY <1>0, <2>3, Started DEF Now
      <4>3. req'[k].op = "send"
        BY <1>0, <1>5 DEF Shape, Sending
      <4>4. QED
        BY <4>1, <4>2, <4>3
    <3>2. draft'[k].rows = {} /\ draft'[k].away = 0 /\ draft'[k].todo = req[k].to
      BY <3>1, StartFields
    <3>3. req[k].to \in Recipients
      BY <3>1, Fields
    <3>4. Copies({}) = {} /\ Cardinality(Copies({})) = 0
      BY FS_EmptySet DEF Copies
    <3>5. Len(req[k].to) \in Nat
      BY <3>3 DEF Recipients
    <3>6. QED
      BY <1>5, <3>1, <3>2, <3>4, <3>5 DEF SendOK, Message
  <2>4. QED
    BY <1>0, <1>5, <2>1, <2>2, <2>3, Lands
<1>6. QED
  BY <1>1, <1>2, <1>3, <1>4, <1>5 DEF Sending


(* Which steps change the table. *)
LEMMA Changes ==
  ASSUME NEW k \in Worker, Acts(k), mail' # mail
  PROVE  Greet(k) \/ Commit(k) \/ MoveOrPurge(k) \/ PurgeMail(k)
BY DEF Acts, Step, Begin, Authenticate, Welcome, WelcomeFails, Look, Turn, Put, Sent, ReadFolder, Poll,
   BlockAdd, BlockRemove, Fault, Refuse, tables

(* Rows with the same ids, messages and boxes are the same copies. *)
LEMMA CopiesSame ==
  ASSUME NEW R, NEW S, NEW message,
         \A s \in S : \E r \in R : s.id = r.id /\ s.message = r.message /\ s.copy = r.copy,
         \A r \in R : \E s \in S : s.id = r.id /\ s.message = r.message /\ s.copy = r.copy
  PROVE  CopiesOf(message, S) = CopiesOf(message, R)
<1>1. \A i : i \in CopiesOf(message, S) <=> \E s \in S : s.id = i /\ s.message = message /\ s.copy = "inbox"
  BY DEF CopiesOf, Copies
<1>2. \A i : i \in CopiesOf(message, R) <=> \E r \in R : r.id = i /\ r.message = message /\ r.copy = "inbox"
  BY DEF CopiesOf, Copies
<1>3. \A i : i \in CopiesOf(message, S) <=> i \in CopiesOf(message, R)
  BY <1>1, <1>2
<1>4. QED
  BY <1>3

LEMMA TogetherMoved ==
  ASSUME Base, Together, NEW k \in Worker, NEW f \in Folder, Moved(k, f)
  PROVE  Together'
<1>1. \A n \in mail' : \E m \in mail :
        /\ n.id = m.id /\ n.from = m.from /\ n.copy = m.copy /\ n.to = m.to
        /\ n.message = m.message /\ n.away = m.away
  BY MovedFields DEF Base
<1>2. \A m \in mail : \E n \in mail' :
        /\ n.id = m.id /\ n.from = m.from /\ n.copy = m.copy /\ n.to = m.to
        /\ n.message = m.message /\ n.away = m.away
  BY MovedFields DEF Base
<1>3. Message(mail')
  BY <1>1, <1>2 DEF Together, Message
<1>4. PICK S : S = mail'
  OBVIOUS
<1>5. \A x : CopiesOf(x, S) = CopiesOf(x, mail)
  BY <1>1, <1>2, <1>4, CopiesSame
<1>6. ASSUME NEW n \in S, n.from # System
      PROVE  \E s \in S : /\ s.copy = "sent" /\ s.message = n.message
                          /\ Cardinality(CopiesOf(n.message, S)) + s.away = Len(s.to)
  <2>1. PICK m \in mail : n.message = m.message /\ m.from # System
    BY <1>1, <1>4, <1>6
  <2>2. PICK s \in mail : /\ s.copy = "sent" /\ s.message = n.message
                          /\ Cardinality(CopiesOf(n.message, mail)) + s.away = Len(s.to)
    BY <2>1 DEF Together
  <2>3. PICK t \in S : t.copy = s.copy /\ t.message = s.message /\ t.away = s.away /\ t.to = s.to
    BY <1>2, <1>4
  <2>4. CopiesOf(n.message, S) = CopiesOf(n.message, mail)
    BY <1>5
  <2>5. QED
    BY <2>2, <2>3, <2>4
<1>7. QED
  BY <1>3, <1>4, <1>6 DEF Together

(* What a transaction files is of a message that nobody has yet. *)
LEMMA TogetherFiled ==
  ASSUME Base, Together, NEW k \in Worker, SendOK(k), pc[k] = "commit" \/ pc[k] = "greet",
         mail' = mail \cup Stamped(draft[k].rows)
  PROVE  Together'
<1>0. Types /\ Fresh /\ Shape(k) /\ draft[k] \in Draft
  BY DEF Base, Types
<1>1. PICK R \in SUBSET Row : R = draft[k].rows
  BY <1>0, DraftFields
<1>2. PICK S : S = Stamped(R)
  OBVIOUS
<1>3. \A s \in S : \E r \in R :
        s.id = r.id /\ s.from = r.from /\ s.copy = r.copy /\ s.to = r.to /\ s.message = r.message /\ s.away = r.away
  BY <1>0, <1>2, StampedFields
<1>4. \A r \in R : \E s \in S :
        s.id = r.id /\ s.from = r.from /\ s.copy = r.copy /\ s.to = r.to /\ s.message = r.message /\ s.away = r.away
  BY <1>0, <1>2, StampedFields
<1>5. PICK T : T = mail \cup S
  OBVIOUS
<1>6. mail' = T
  BY <1>1, <1>2, <1>5
<1>7. Message(S)
  <2>1. Message(R)
    BY <1>1 DEF SendOK
  <2>2. QED
    BY <1>3, <1>4, <2>1 DEF Message
<1>8. Message(T)
  BY <1>5, <1>7 DEF Together, Message
<1>9. \A s \in S, m \in mail : s.message # m.message
  <2>1. \A s \in S, m \in mail : s.id # m.id
    BY <1>0, <1>1, <1>3 DEF Fresh
  <2>2. QED
    BY <1>7, <2>1 DEF Together, Message
<1>10. \A m \in mail : CopiesOf(m.message, T) = CopiesOf(m.message, mail)
  BY <1>5, <1>9 DEF CopiesOf
<1>11. ASSUME NEW s \in S, s.from # System
       PROVE  \E t \in S : /\ t.copy = "sent" /\ t.message = s.message
                           /\ Cardinality(CopiesOf(s.message, T)) + t.away = Len(t.to)
  <2>1. PICK r \in R : s.from = r.from /\ s.message = r.message
    BY <1>3
  <2>2. pc[k] = "commit"
    BY <1>0, <1>1, <1>11, <2>1 DEF Shape
  <2>3. PICK q \in R : q.copy = "sent" /\ q.away = draft[k].away /\ q.to = req[k].to
    BY <1>1, <2>2 DEF SendOK
  <2>4. PICK t \in S : t.copy = "sent" /\ t.away = draft[k].away /\ t.to = req[k].to /\ t.message = q.message
    BY <1>4, <2>3
  <2>5. \A p, n \in R : p.message = n.message
    BY <1>1 DEF SendOK
  <2>6. t.message = s.message
    BY <2>1, <2>4, <2>5
  <2>7. CopiesOf(s.message, T) = CopiesOf(s.message, S)
    BY <1>5, <1>9 DEF CopiesOf
  <2>8. CopiesOf(s.message, S) = CopiesOf(s.message, R)
    BY <1>3, <1>4, CopiesSame
  <2>9. CopiesOf(s.message, R) = Copies(R)
    <3>1. {n \in R : n.message = s.message} = R
      BY <2>1, <2>5
    <3>2. QED
      BY <3>1 DEF CopiesOf
  <2>10. Cardinality(Copies(R)) + draft[k].away = Len(req[k].to)
    <3>1. Cardinality(Copies(R)) + draft[k].away + Len(draft[k].todo) = Len(req[k].to)
      BY <1>1, <2>2 DEF SendOK, Sending
    <3>2. Len(draft[k].todo) = 0
      BY <2>2 DEF SendOK
    <3>3. Cardinality(Copies(R)) \in Nat /\ draft[k].away \in Nat
      BY <1>0, CopiesFinite, DraftFields
    <3>4. QED
      BY <3>1, <3>2, <3>3
  <2>11. Cardinality(CopiesOf(s.message, T)) + t.away = Len(t.to)
    BY <2>4, <2>7, <2>8, <2>9, <2>10
  <2>12. QED
    BY <2>4, <2>6, <2>11
<1>12. ASSUME NEW n \in T, n.from # System
       PROVE  \E s \in T : /\ s.copy = "sent" /\ s.message = n.message
                           /\ Cardinality(CopiesOf(n.message, T)) + s.away = Len(s.to)
  <2>1. CASE n \in S
    BY <1>5, <1>11, <1>12, <2>1
  <2>2. CASE n \in mail
    <3>1. PICK s \in mail : /\ s.copy = "sent" /\ s.message = n.message
                            /\ Cardinality(CopiesOf(n.message, mail)) + s.away = Len(s.to)
      BY <1>12, <2>2 DEF Together
    <3>2. CopiesOf(n.message, T) = CopiesOf(n.message, mail)
      BY <1>10, <2>2
    <3>3. QED
      BY <1>5, <3>1, <3>2
  <2>3. QED
    BY <1>5, <2>1, <2>2
<1>13. QED
  BY <1>6, <1>8, <1>12 DEF Together

LEMMA SendsKept ==
  ASSUME Base, Base', Sends, NEW k \in Worker, Acts(k), Others(k)
  PROVE  Sends'
<1>1. SendOK(k) /\ SendOK(k)'
  BY SendKept DEF Sends
<1>2. \A j \in Worker \ {k} : SendOK(j)'
  BY DEF Sends, SendOK, Others
<1>3. Together'
  <2>1. CASE mail' = mail
    BY <2>1 DEF Sends, Together
  <2>2. CASE Greet(k) \/ Commit(k)
    BY <1>1, <2>2, TogetherFiled DEF Greet, Commit, Sends
  <2>3. CASE MoveOrPurge(k) \/ PurgeMail(k)
    <3>1. \E f \in Folder : Moved(k, f)
      BY <2>3 DEF MoveOrPurge, PurgeMail, Folder
    <3>2. QED
      BY <3>1, TogetherMoved DEF Sends
  <2>4. QED
    BY <2>1, <2>2, <2>3, Changes
<1>4. QED
  BY <1>1, <1>2, <1>3 DEF Sends

(* The copies in the boxes are as many as their ids. *)
LEMMA TogetherMeans ==
  ASSUME Base, Together
  PROVE  SentTogether
<1>0. /\ mail \in SUBSET Row /\ \A m, n \in mail : m.id = n.id => m = n
  BY DEF Base, Types, Fresh
<1>1. ASSUME NEW x
      PROVE  Cardinality({c \in mail : c.message = x /\ c.copy = "inbox"}) = Cardinality(CopiesOf(x, mail))
  <2>1. PICK C \in SUBSET mail : C = {c \in mail : c.message = x /\ c.copy = "inbox"}
    OBVIOUS
  <2>2. CopiesOf(x, mail) = {c.id : c \in C}
    BY <2>1 DEF CopiesOf, Copies
  <2>3. PICK h : h = [c \in C |-> c.id]
    OBVIOUS
  <2>4. h \in Bijection(C, CopiesOf(x, mail))
    <3>1. h \in [C -> CopiesOf(x, mail)]
      BY <2>2, <2>3
    <3>2. \A a, b \in C : h[a] = h[b] => a = b
      BY <1>0, <2>1, <2>3
    <3>3. \A i \in CopiesOf(x, mail) : \E c \in C : h[c] = i
      BY <2>2, <2>3
    <3>4. QED
      BY <3>1, <3>2, <3>3, Fun_IsBij
  <2>5. ExistsBijection(CopiesOf(x, mail), C)
    BY <2>4, Fun_ExistsBijSymmetric DEF ExistsBijection
  <2>6. IsFiniteSet(CopiesOf(x, mail))
    <3>1. {n \in mail : n.message = x} \in SUBSET Row
      BY <1>0
    <3>2. QED
      BY <3>1, CopiesFinite DEF CopiesOf
  <2>7. IsFiniteSet(C) /\ Cardinality(C) = Cardinality(CopiesOf(x, mail))
    BY <2>5, <2>6, FS_Bijection
  <2>8. QED
    BY <2>1, <2>7
<1>2. QED
  BY <1>1 DEF Together, SentTogether

-----------------------------------------------------------------------------
LEMMA Starting == Init => IInv
<1> SUFFICES ASSUME Init PROVE IInv
  OBVIOUS
<1>1. Base
  BY BaseHolds
<1>2. \A k \in Worker : draft[k] = NoDraft /\ pc[k] = "idle"
  BY DEF Init
<1>3. Counting
  <2>1. \A k \in Worker : CountsOK(k)
    BY <1>2, NoDraftFields DEF CountsOK, Sending
  <2>2. HitsCounted
    BY DEF Init, HitsCounted
  <2>3. QED
    BY <2>1, <2>2 DEF Counting
<1>4. Panes
  BY DEF Init, Panes, PaneOK, GivenOnce
<1>5. WelcomeOK
  BY <1>2 DEF Init, WelcomeOK, WelcomedOnce, Greeting
<1>6. Sends
  BY <1>2, NoDraftFields DEF Init, Sends, Together, Message, SendOK, Sending
<1>7. \A k \in Worker : FoundDeleted(k)
  BY <1>2 DEF FoundDeleted
<1>8. QED
  BY <1>1, <1>3, <1>4, <1>5, <1>6, <1>7 DEF IInv

LEMMA Stuttering ==
  ASSUME IInv, UNCHANGED vars
  PROVE  IInv'
<1> USE DEF vars, tables, panes, IInv
<1>1. Base'
  BY DEF Base, Types, Shape, Idle, Fresh
<1>2. Counting'
  BY DEF Counting, HitsCounted, CountsOK, Locked
<1>3. Panes'
  BY DEF Panes, PaneOK, GivenOnce
<1>4. WelcomeOK'
  BY DEF WelcomeOK, WelcomedOnce, Greeting
<1>5. Sends'
  BY DEF Sends, Together, SendOK
<1>6. \A k \in Worker : FoundDeleted(k)'
  BY DEF FoundDeleted
<1>7. QED
  BY <1>1, <1>2, <1>3, <1>4, <1>5, <1>6

LEMMA Keeping ==
  ASSUME IInv, NEW k \in Worker, Acts(k)
  PROVE  IInv'
<1>1. Base /\ Base' /\ Others(k)
  BY BaseKept DEF IInv
<1>2. Counting' /\ Panes' /\ WelcomeOK' /\ Sends'
  BY <1>1, CountingKept, PanesKept, WelcomeKept, SendsKept DEF IInv
<1>3. \A j \in Worker : FoundDeleted(j)'
  BY <1>1, FoundKept DEF IInv
<1>4. QED
  BY <1>1, <1>2, <1>3 DEF IInv

LEMMA Inductive == IInv /\ [Next]_vars => IInv'
BY Keeping, Stuttering DEF Next, Acts

LEMMA Invariant == Spec => []IInv
BY Starting, Inductive, PTL DEF Spec

(* Whatever is stored, cached or half way through a transaction is of its    *)
(* type, and an id names one owner's row (mail.go, won.go, social.go).       *)
THEOREM TypeCorrect == Spec => []TypeOK
<1>1. IInv => TypeOK
  BY BaseTypes DEF IInv
<1>2. QED
  BY <1>1, Invariant, PTL

(* A message that reached anybody is in its sender's Sent folder and reached *)
(* everybody it was not turned away from, however many are sent at once and  *)
(* wherever one is given up (mail.go:63, store.go:72).                       *)
THEOREM AllOrNothing == Spec => []SentTogether
<1>1. IInv => SentTogether
  BY TogetherMeans DEF IInv, Sends
<1>2. QED
  BY <1>1, Invariant, PTL

(* The hits of a standing block are what it has turned away, however many    *)
(* senders and blockers there are (mail.go:92).                              *)
THEOREM HitsRight == Spec => []HitsCounted
<1>1. IInv => HitsCounted
  BY DEF IInv, Counting
<1>2. QED
  BY <1>1, Invariant, PTL

(* A pane is given no row twice, and misses none below its mark but those    *)
(* committed after a higher one (won.go:498).                                *)
THEOREM PaneGivenOnce == Spec => []GivenOnce
<1>1. IInv => GivenOnce
  BY DEF IInv, Panes
<1>2. QED
  BY <1>1, Invariant, PTL

(* First requests that come together welcome their warrior once              *)
(* (store.go:190).                                                           *)
THEOREM OneWelcome == Spec => []WelcomedOnce
<1>1. IInv => WelcomedOnce
  BY DEF IInv, WelcomeOK
<1>2. QED
  BY <1>1, Invariant, PTL

(* No row leaves the inbox or the Sent folder for good, but by its owner's   *)
(* purge: not by two deletes at once either (mail.go:12).                    *)
THEOREM DeletedFirst == Spec => TwoStageDelete
<1> DEFINE A == \A m \in mail : m.folder \in {"inbox", "sent"} =>
                  \A n \in mail' : n.id = m.id /\ n.folder = "purged" =>
                    \E k \in Worker : ~Idle(k) /\ req[k].op = "purge" /\ req[k].by = m.owner
<1>1. IInv /\ IInv' /\ [Next]_vars => [A]_vars
  <2> SUFFICES ASSUME IInv, IInv', NEW k \in Worker, Acts(k) PROVE A
    BY DEF Next, Acts
  <2>1. Base /\ Base' /\ FoundDeleted(k)
    BY DEF IInv
  <2>2. QED
    BY <2>1, TwoStages
<1>2. QED
  BY <1>1, Invariant, PTL DEF Spec, TwoStageDelete
=============================================================================
