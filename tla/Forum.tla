------------------------------- MODULE Forum --------------------------------
(***************************************************************************)
(* The forum requests (store/content.go) over the server's pool of         *)
(* database connections.                                                   *)
(*                                                                         *)
(* A request is a goroutine.  What it asks of the database takes a         *)
(* connection of the pool, which has pool_max_conns of them (.do/app.yaml) *)
(* and lets the others wait.  A single statement gives its connection back *)
(* when it ends; a transaction keeps one from Begin to Commit.  EditPost   *)
(* and DeletePost ask IsStaff from inside their transaction, on a second   *)
(* connection.                                                             *)
(*                                                                         *)
(* Rows are written on Commit; until then an UPDATE holds its row, and     *)
(* whoever updates the same row waits with a connection in hand.  Titles,  *)
(* bodies and dates are left out: a post remembers who wrote its present   *)
(* text.  Of the panes' reads there is PostsSince, which asks for what is  *)
(* newer than the last id a pane has.                                      *)
(***************************************************************************)
EXTENDS Naturals, FiniteSets

CONSTANTS
  Warrior, Board, Topic,
  Post,       \* ids of posts, in the order in which they are drawn
  Staff,      \* bound: the warriors who are staff at one time or another
  Worker,     \* goroutines serving requests
  MaxConns,   \* pool_max_conns
  NoRow,      \* no topic, or no post, with this id
  NoId,       \* the id 0: not drawn yet, or not asked about
  NoRequest   \* a worker between requests

ASSUME WorkerAssumption == IsFiniteSet(Worker)
ASSUME StaffAssumption  == Staff \subseteq Warrior
ASSUME PostAssumption   == Post \subseteq Nat
ASSUME ConnsAssumption  == MaxConns \in Nat \ {0}

VARIABLES
  topics,   \* forum_topics
  posts,    \* forum_posts
  req,      \* the request each worker serves
  pc,       \* what it does next
  staff,    \* who has rank above 1 in tribe 1401
  vetted    \* history: the workers whose caller has been staff while they serve it

vars == <<topics, posts, req, pc, staff, vetted>>

TopicRow == [forum : Board, locked : BOOLEAN, removed : BOOLEAN]
PostRow  == [topic : Topic, author : Warrior, writer : Warrior, deleted : BOOLEAN]

Posting  == {"newTopic", "reply"}
Changing == {"edit", "delete"}
Managing == {"lock", "unlock", "remove", "move"}

(* What the client sends, and what a transaction knows once ids are drawn. *)
Request ==
       [op : {"newTopic"}, by : Warrior, board : Board, topic : {NoId}, post : {NoId}]
  \cup [op : {"move"}, by : Warrior, board : Board, topic : Topic, post : {NoId}]
  \cup [op : ({"reply"} \cup Managing) \ {"move"}, by : Warrior, topic : Topic, post : {NoId}]
  \cup [op : Changing, by : Warrior, topic : {NoId}, post : Post]
  \cup [op : {"review"}, by : Warrior, topic : {NoId}, post : {NoId}]
Served ==
       Request
  \cup [op : {"newTopic"}, by : Warrior, board : Board, topic : Topic, post : Post \cup {NoId}]
  \cup [op : {"reply"}, by : Warrior, topic : Topic, post : Post]

ASSUME NoneAssumption ==
  /\ NoRow \notin TopicRow \cup PostRow
  /\ NoId \notin Topic \cup Post
  /\ NoRequest \notin Served

(* What a request goes through, waiting for a connection or holding one. *)
InTx     == {"topic", "touch", "post", "author", "staff", "write", "commit"}
Stage    == InTx \cup {"idle", "authenticate", "begin", "log", "gate", "exec", "update"}
Stages(op) ==
  {"authenticate"} \cup
  IF op \in Posting THEN {"begin", "topic", "touch", "post", "commit"}
  ELSE IF op \in Changing THEN {"begin", "author", "staff", "write", "commit"}
  ELSE IF op = "review" THEN {"log"}
  ELSE {"log", "gate", "exec", "update"}

Idle(k)    == req[k] = NoRequest
Holding(k) == pc[k] \in InTx \cup {"update"}
Spare      == Cardinality({k \in Worker : Holding(k)}) < MaxConns

Init ==
  /\ topics = [t \in Topic |-> NoRow]
  /\ posts = [p \in Post |-> NoRow]
  /\ req = [k \in Worker |-> NoRequest]
  /\ pc = [k \in Worker |-> "idle"]
  /\ staff \in SUBSET Staff
  /\ vetted = {}

-----------------------------------------------------------------------------
Goto(k, stage) == pc' = [pc EXCEPT ![k] = stage]

(* Answered, refused or given up: a transaction rolls back, and connection  *)
(* and rows are free.                                                       *)
Finish(k) ==
  /\ req' = [req EXCEPT ![k] = NoRequest]
  /\ Goto(k, "idle")

Refuse(k) == Finish(k) /\ UNCHANGED <<topics, posts>>

(* The rows another transaction has updated and not yet committed. *)
TopicHeld(t, k) ==
  \E j \in Worker \ {k} :
    pc[j] \in {"post", "commit"} /\ req[j].op = "reply" /\ req[j].topic = t

(* Mutant: the post is read FOR UPDATE, before IsStaff is asked. *)
PostHeldSinceRead(p, k) ==
  \E j \in Worker \ {k} :
    pc[j] \in {"staff", "write", "commit"} /\ req[j].op \in Changing /\ req[j].post = p

PostHeld(p, k) ==
  \E j \in Worker \ {k} : pc[j] = "commit" /\ req[j].op \in Changing /\ req[j].post = p

-----------------------------------------------------------------------------
Begin(k) ==
  /\ Idle(k)
  /\ \E q \in Request : req' = [req EXCEPT ![k] = q]
  /\ Goto(k, "authenticate")
  /\ UNCHANGED <<topics, posts>>

(* EnsureAccount, in front of every ordinal. *)
Authenticate(k) ==
  /\ pc[k] = "authenticate" /\ Spare
  /\ Goto(k, IF req[k].op \in Posting \cup Changing THEN "begin"
             ELSE IF req[k].op \in {"remove", "review"} THEN "log" ELSE "gate")
  /\ UNCHANGED <<topics, posts, req>>

(* Scalar 62 is recorded, whoever sends it, before it is looked into; 60 and *)
(* 61, which report a topic or a post to the moderators, are only recorded.  *)
LogAdminAction(k) ==
  /\ pc[k] = "log" /\ Spare
  /\ \/ req[k].op = "remove" /\ Goto(k, "gate") /\ UNCHANGED <<topics, posts, req>>
     \/ req[k].op = "review" /\ Refuse(k)

IsStaff(w) == w \in staff

Gate(k) ==
  /\ pc[k] = "gate" /\ Spare
  /\ \/ IsStaff(req[k].by) /\ Goto(k, "exec") /\ UNCHANGED <<topics, posts, req>>
     \/ ~IsStaff(req[k].by) /\ Refuse(k)

Exec(k) ==
  /\ pc[k] = "exec" /\ Spare
  /\ Goto(k, "update")
  /\ UNCHANGED <<topics, posts, req>>

(* SetTopicLocked, RemoveTopic, MoveTopic: one UPDATE, of no row if there is *)
(* none.  A board that is not there is an error of the database: a Fault.    *)
Update(k) ==
  /\ pc[k] = "update"
  /\ LET t == req[k].topic op == req[k].op IN
     /\ ~TopicHeld(t, k)
     /\ topics' = IF topics[t] = NoRow THEN topics
                  ELSE IF op = "remove" THEN [topics EXCEPT ![t].removed = TRUE]
                  ELSE IF op = "move" THEN [topics EXCEPT ![t].forum = req[k].board]
                  ELSE [topics EXCEPT ![t].locked = (op = "lock")]
  /\ Finish(k)
  /\ UNCHANGED posts

-----------------------------------------------------------------------------
BeginTx(k) ==
  /\ pc[k] = "begin" /\ Spare
  /\ Goto(k, IF req[k].op \in Posting THEN "topic" ELSE "author")
  /\ UNCHANGED <<topics, posts, req>>

(* Ids nobody has drawn; a post's is the next above all that were.  Bound:   *)
(* when Topic or Post has none left, the request fails.                      *)
FreshTopics ==
  {t \in Topic : /\ topics[t] = NoRow
                 /\ ~ \E j \in Worker : /\ pc[j] \in {"post", "commit"}
                                        /\ req[j].op = "newTopic" /\ req[j].topic = t}
FreshPosts ==
  {p \in Post : /\ \A q \in Post : posts[q] # NoRow => q < p
                /\ \A j \in Worker : pc[j] = "commit" /\ req[j].op \in Posting =>
                                       req[j].post < p}

NewTopic(q) == [forum |-> q.board, locked |-> FALSE, removed |-> FALSE]

(* Mutant: the topic is inserted before the transaction, not in it. *)
InsertTopicAlone(k) ==
  /\ pc[k] = "topic" /\ req[k].op = "newTopic"
  /\ \E t \in FreshTopics :
       /\ req' = [req EXCEPT ![k].topic = t]
       /\ topics' = [topics EXCEPT ![t] = NewTopic(req[k])]
  /\ Goto(k, "post")
  /\ UNCHANGED posts

InsertTopic(k) ==
  /\ pc[k] = "topic" /\ req[k].op = "newTopic"
  /\ \/ \E t \in FreshTopics : req' = [req EXCEPT ![k].topic = t] /\ Goto(k, "post")
                              /\ UNCHANGED <<topics, posts>>
     \/ FreshTopics = {} /\ Refuse(k)

(* A reply asks whether the topic is locked, not whether it was removed. *)
ReadTopic(k) ==
  /\ pc[k] = "topic" /\ req[k].op = "reply"
  /\ LET row == topics[req[k].topic] IN
     \/ row = NoRow /\ Refuse(k)
     \/ row # NoRow /\ row.locked /\ Refuse(k)
     \/ row # NoRow /\ ~row.locked /\ Goto(k, "touch") /\ UNCHANGED <<topics, posts, req>>

(* Mutant: the topic's date is written without waiting for its row. *)
TouchAtOnce(k) ==
  /\ pc[k] = "touch"
  /\ Goto(k, "post")
  /\ UNCHANGED <<topics, posts, req>>

(* UPDATE forum_topics SET updated: a date, but it holds the row. *)
TouchTopic(k) ==
  /\ pc[k] = "touch"
  /\ ~TopicHeld(req[k].topic, k)
  /\ Goto(k, "post")
  /\ UNCHANGED <<topics, posts, req>>

InsertPost(k) ==
  /\ pc[k] = "post"
  /\ \/ \E p \in FreshPosts : /\ \A q \in FreshPosts : p <= q
                             /\ req' = [req EXCEPT ![k].post = p] /\ Goto(k, "commit")
                             /\ UNCHANGED <<topics, posts>>
     \/ FreshPosts = {} /\ Refuse(k)

ReadAuthor(k) ==
  /\ pc[k] = "author"
  /\ LET row == posts[req[k].post] IN
     \/ row = NoRow /\ Refuse(k)
     \/ row # NoRow /\ row.author = req[k].by /\ Goto(k, "write") /\ UNCHANGED <<topics, posts, req>>
     \/ row # NoRow /\ row.author # req[k].by /\ Goto(k, "staff") /\ UNCHANGED <<topics, posts, req>>

(* Mutant: the answer of IsStaff is not looked at. *)
AskStaffIdly(k) ==
  /\ pc[k] = "staff" /\ Spare
  /\ Goto(k, "write") /\ UNCHANGED <<topics, posts, req>>

(* IsStaff takes a connection of its own, beside the transaction's. *)
AskStaff(k) ==
  /\ pc[k] = "staff" /\ Spare
  /\ \/ IsStaff(req[k].by) /\ Goto(k, "write") /\ UNCHANGED <<topics, posts, req>>
     \/ ~IsStaff(req[k].by) /\ Refuse(k)

WritePost(k) ==
  /\ pc[k] = "write"
  /\ ~PostHeld(req[k].post, k)
  /\ Goto(k, "commit")
  /\ UNCHANGED <<topics, posts, req>>

NewPost(q) == [topic |-> q.topic, author |-> q.by, writer |-> q.by, deleted |-> FALSE]

Commit(k) ==
  /\ pc[k] = "commit"
  /\ LET q == req[k] IN
     \/ /\ q.op = "newTopic"
        /\ topics' = [topics EXCEPT ![q.topic] = NewTopic(q)]
        /\ posts' = [posts EXCEPT ![q.post] = NewPost(q)]
     \/ /\ q.op = "reply"
        /\ posts' = [posts EXCEPT ![q.post] = NewPost(q)]
        /\ UNCHANGED topics
     \/ /\ q.op = "edit"
        /\ posts' = [posts EXCEPT ![q.post].writer = q.by]
        /\ UNCHANGED topics
     \/ /\ q.op = "delete"
        /\ posts' = [posts EXCEPT ![q.post].deleted = TRUE]
        /\ UNCHANGED topics
  /\ Finish(k)

(* The player gives up, or the connection to the database breaks. *)
Fault(k) == ~Idle(k) /\ Refuse(k)

Step(k) ==
  \/ Authenticate(k) \/ LogAdminAction(k) \/ Gate(k) \/ Exec(k) \/ Update(k)
  \/ BeginTx(k) \/ InsertTopic(k) \/ ReadTopic(k) \/ TouchTopic(k) \/ InsertPost(k)
  \/ ReadAuthor(k) \/ AskStaff(k) \/ WritePost(k) \/ Commit(k)

(* A membership of tribe 1401 begins or ends, or its rank changes: the work  *)
(* of the tribe requests, which none of these waits for.                     *)
StaffChanges ==
  /\ \E w \in Staff : staff' = IF IsStaff(w) THEN staff \ {w} ELSE staff \cup {w}
  /\ UNCHANGED <<topics, posts, req, pc>>

Vet == vetted' = {k \in Worker : ~Idle(k)' /\ (k \in vetted \/ req'[k].by \in staff')}

Serve(k) == Step(k) /\ UNCHANGED staff /\ Vet

Next ==
  \/ \E k \in Worker : Serve(k)
  \/ \E k \in Worker : (Begin(k) \/ Fault(k)) /\ UNCHANGED staff /\ Vet
  \/ StaffChanges /\ Vet

Spec == Init /\ [][Next]_vars

(* A goroutine that can run does; connections and rows are given in turn. *)
FairSpec == Spec /\ \A k \in Worker : SF_vars(Serve(k))

-----------------------------------------------------------------------------
(* The tables keep their types; a request is at a stage of its own operation *)
(* (an author's change is never sent to the staff's gate, a removal never to *)
(* the author's), and the pool lends no more connections than it has.        *)
TypeOK ==
  /\ topics \in [Topic -> TopicRow \cup {NoRow}]
  /\ posts \in [Post -> PostRow \cup {NoRow}]
  /\ req \in [Worker -> Served \cup {NoRequest}]
  /\ pc \in [Worker -> Stage]
  /\ \A k \in Worker : IF Idle(k) THEN pc[k] = "idle" ELSE pc[k] \in Stages(req[k].op)
  /\ Cardinality({k \in Worker : Holding(k)}) <= MaxConns
  /\ staff \subseteq Staff /\ vetted \subseteq Worker

(* A post is changed only by a request of its author or of somebody who has *)
(* been staff while it was served, a topic only by one of the latter.  The   *)
(* test is a statement of its own (content.go:301, :330, :349): who is       *)
(* demoted or kicked from tribe 1401 after it writes all the same, but no    *)
(* demotion from before the request, and no promotion after it, counts.      *)
OnlyTheirOwn ==
  [][/\ \A p \in Post : posts[p] # NoRow /\ posts'[p] # posts[p] =>
          \E k \in Worker : /\ ~Idle(k) /\ Idle(k)' /\ req[k].post = p
                            /\ k \in vetted \/ req[k].by = posts[p].author
     /\ \A t \in Topic : topics[t] # NoRow /\ topics'[t] # topics[t] =>
          \E k \in vetted : ~Idle(k) /\ Idle(k)' /\ req[k].topic = t]_vars

(* A topic is never without the post that began it, nor a post without its   *)
(* topic: the two are inserted together or not at all (content.go:255-284).  *)
TopicsBeginWithAPost ==
  /\ \A t \in Topic : topics[t] # NoRow => \E p \in Post : posts[p] # NoRow /\ posts[p].topic = t
  /\ \A p \in Post : posts[p] # NoRow => topics[posts[p].topic] # NoRow

(* Array 9: the posts of a topic above the last id the pane has, and what a  *)
(* pane is given that has none.                                              *)
PostsSince(t, since) == {p \in Post : posts[p] # NoRow /\ posts[p].topic = t /\ p > since}
Shown(t)             == PostsSince(t, 0)

(* A pane asks for the posts above the last id it was given, so a post must  *)
(* never show up below one that is shown already: ids are drawn before the   *)
(* commit, and only the date written into the topic, which holds its row     *)
(* till then, puts the replies of a topic in a line (content.go:222, :280).  *)
PanesMissNothing ==
  [][\A t \in Topic, since \in Post :
       since \in Shown(t) => Shown(t)' \ Shown(t) \subseteq PostsSince(t, since)']_vars

(* Every connection is held by a transaction that waits for one more. *)
Wedged == ~Spare /\ \A k \in Worker : Holding(k) => pc[k] = "staff"

(* What a request waits for where it is: a connection, or somebody's row. *)
Ready(k) ==
  /\ ~Idle(k)
  /\ ~Holding(k) \/ pc[k] = "staff" => Spare
  /\ pc[k] \in {"touch", "update"} => ~TopicHeld(req[k].topic, k)
  /\ pc[k] = "write" => ~PostHeld(req[k].post, k)

(* Somebody can go on, or the pool is wedged: nothing else, no wait for a    *)
(* row, for a connection or for both, stops everybody (content.go:280, :311). *)
StuckOnlyIfWedged ==
  (\E k \in Worker : ~Idle(k)) => Wedged \/ \E k \in Worker : Ready(k)

(* With more requests than connections "the pool has to queue rather than   *)
(* fail" (concurrency_test.go:25): whoever waits is served in the end.       *)
PoolQueues == \A k \in Worker : ~Idle(k) ~> Idle(k)
=============================================================================
