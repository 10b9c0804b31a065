---------------------------- MODULE ForumProofs -----------------------------
(***************************************************************************)
(* What the forum guarantees for any number of workers, connections,       *)
(* topics and posts.                                                       *)
(*                                                                         *)
(* The rows are safe because of what each stage of a request knows: that   *)
(* its caller wrote the post stays true, because no row is ever removed    *)
(* and nobody's post changes its author; that they are staff does not, but *)
(* that they were, since the request began, does; an id once drawn is      *)
(* nobody else's; and of the replies to a topic only the one that *)
(* holds its row has an id, above all that are there.                      *)
(***************************************************************************)
EXTENDS Forum, FiniteSetTheorems, TLAPS

(* What a request q of k's at a stage s may rely on when it comes to write. *)
Sound(k, q, s) ==
  /\ s \in {"exec", "update"} => k \in vetted
  /\ s \in {"staff", "write", "commit"} /\ q.op \in Changing =>
       /\ posts[q.post] # NoRow
       /\ s # "staff" => k \in vetted \/ q.by = posts[q.post].author
  /\ s \in {"post", "commit"} /\ q.op = "newTopic" =>
       q.topic \in Topic /\ topics[q.topic] = NoRow
  /\ s = "commit" /\ q.op \in Posting =>
       /\ q.post \in Post /\ posts[q.post] = NoRow
       /\ \A p \in Post : posts[p] # NoRow /\ posts[p].topic = q.topic => p < q.post
  /\ s = "touch" => q.op = "reply"
  /\ s \in {"touch", "post", "commit"} /\ q.op = "reply" => topics[q.topic] # NoRow

DrawsTopic(k) == req[k] # NoRequest /\ pc[k] \in {"post", "commit"} /\ req[k].op = "newTopic"
DrawsPost(k)  == req[k] # NoRequest /\ pc[k] = "commit" /\ req[k].op \in Posting
HasTopic(k)   == req[k] # NoRequest /\ pc[k] \in {"post", "commit"} /\ req[k].op = "reply"

Apart ==
  \A j, k \in Worker : j # k =>
    /\ DrawsTopic(j) /\ DrawsTopic(k) => req[j].topic # req[k].topic
    /\ DrawsPost(j) /\ DrawsPost(k) => req[j].post # req[k].post
    /\ HasTopic(j) /\ HasTopic(k) => req[j].topic # req[k].topic

(* Who is staff now has been since their request began. *)
Vouched == \A k \in Worker : req[k] # NoRequest /\ IsStaff(req[k].by) => k \in vetted

IInv ==
  /\ TypeOK
  /\ Vouched
  /\ TopicsBeginWithAPost
  /\ \A k \in Worker : req[k] # NoRequest => Sound(k, req[k], pc[k])
  /\ Apart

USE DEF Posting, Changing, Managing

(* A request at any stage has the fields of its kind. *)
LEMMA ServedFields ==
  ASSUME NEW q \in Served
  PROVE  /\ q # NoRequest
         /\ q.op \in Posting \cup Changing \cup Managing \cup {"review"}
         /\ q.by \in Warrior
         /\ q.op \in Changing => q.post \in Post
         /\ q.op \in {"reply"} \cup Managing => q.topic \in Topic
         /\ q.op \in {"newTopic", "move"} => q.board \in Board
BY NoneAssumption DEF Served, Request

(* One worker that takes a connection, when one is spare, overdraws nothing. *)
LEMMA PoolBound ==
  ASSUME TypeOK, NEW k \in Worker, NEW s, pc' = [pc EXCEPT ![k] = s],
         s \in InTx \cup {"update"} => Holding(k) \/ Spare
  PROVE  Cardinality({j \in Worker : Holding(j)'}) <= MaxConns
<1> DEFINE H == {j \in Worker : Holding(j)}
<1> DEFINE G == {j \in Worker : Holding(j)'}
<1>1. IsFiniteSet(H) /\ Cardinality(H) \in Nat /\ MaxConns \in Nat
  BY FS_Subset, FS_CardinalityType, WorkerAssumption, ConnsAssumption
<1>2. Cardinality(H) <= MaxConns
  BY DEF TypeOK
<1>3. G \subseteq H \cup {k}
  BY DEF TypeOK, Holding
<1>4. IsFiniteSet(G)
  BY FS_Subset, WorkerAssumption
<1>5. CASE Holding(k) \/ ~(s \in InTx \cup {"update"})
  <2>1. G \subseteq H
    BY <1>5, <1>3 DEF TypeOK, Holding
  <2>2. Cardinality(G) <= Cardinality(H)
    BY <2>1, <1>1, FS_Subset
  <2>3. Cardinality(G) \in Nat
    BY <1>4, FS_CardinalityType
  <2>4. QED
    BY <2>2, <2>3, <1>1, <1>2
<1>6. CASE Spare
  <2> HIDE DEF H, G
  <2>0. /\ IsFiniteSet(H \cup {k})
        /\ Cardinality(H \cup {k}) = IF k \in H THEN Cardinality(H) ELSE Cardinality(H) + 1
    BY <1>1, FS_AddElement, Zenon
  <2>1. IsFiniteSet(H \cup {k}) /\ Cardinality(H \cup {k}) <= Cardinality(H) + 1
    BY <1>1, <2>0
  <2>2. Cardinality(G) <= Cardinality(H \cup {k})
    BY <2>1, <1>3, FS_Subset
  <2>3. Cardinality(G) \in Nat /\ Cardinality(H \cup {k}) \in Nat
    BY <1>4, <2>1, FS_CardinalityType, Zenon
  <2>4. Cardinality(H) < MaxConns
    BY <1>6 DEF Spare, H
  <2>5. QED
    BY <2>1, <2>2, <2>3, <2>4, <1>1 DEF G
<1>7. QED
  BY <1>5, <1>6

(* The history keeps whoever is in it until their request is answered. *)
LEMMA Vetting ==
  ASSUME Vet
  PROVE  /\ Vouched'
         /\ vetted' \subseteq Worker
         /\ \A j \in Worker : j \in vetted /\ req'[j] # NoRequest => j \in vetted'
BY DEF Vet, Vouched, IsStaff, Idle

(* A request that goes on, ends or begins without writing keeps the          *)
(* invariant, if what it now relies on is true.                              *)
LEMMA Quiet ==
  ASSUME IInv, NEW k \in Worker, NEW s \in Stage, NEW q \in Served \cup {NoRequest},
         pc' = [pc EXCEPT ![k] = s], req' = [req EXCEPT ![k] = q],
         UNCHANGED <<topics, posts, staff>>, Vet,
         IF q = NoRequest THEN s = "idle" ELSE s \in Stages(q.op) /\ Sound(k, q, s),
         s \in InTx \cup {"update"} => Holding(k) \/ Spare,
         \A j \in Worker \ {k} : DrawsTopic(j) /\ DrawsTopic(k)' => req[j].topic # q.topic,
         \A j \in Worker \ {k} : DrawsPost(j) /\ DrawsPost(k)' => req[j].post # q.post,
         \A j \in Worker \ {k} : HasTopic(j) /\ HasTopic(k)' => req[j].topic # q.topic
  PROVE  IInv'
<1>1. TypeOK'
  <2>1. req' \in [Worker -> Served \cup {NoRequest}] /\ pc' \in [Worker -> Stage]
    BY DEF IInv, TypeOK
  <2>2. \A j \in Worker : IF req'[j] = NoRequest THEN pc'[j] = "idle" ELSE pc'[j] \in Stages(req'[j].op)
    BY DEF IInv, TypeOK, Idle
  <2>3. Cardinality({j \in Worker : Holding(j)'}) <= MaxConns
    BY PoolBound DEF IInv
  <2>4. topics' \in [Topic -> TopicRow \cup {NoRow}] /\ posts' \in [Post -> PostRow \cup {NoRow}]
    BY DEF IInv, TypeOK
  <2>5. QED
    BY <2>1, <2>2, <2>3, <2>4, Vetting DEF IInv, TypeOK, Idle
<1>2. TopicsBeginWithAPost'
  BY DEF IInv, TopicsBeginWithAPost
<1>3. ASSUME NEW j \in Worker, req'[j] # NoRequest PROVE Sound(j, req[j], pc[j])'
  <2>1. CASE j = k
    <3>1. req'[j] = q /\ pc'[j] = s
      BY <2>1 DEF IInv, TypeOK
    <3>2. k \in vetted => k \in vetted'
      BY <3>1, <2>1, <1>3, Vetting
    <3>3. QED
      BY <3>1, <3>2, <2>1, <1>3 DEF Sound
  <2>2. CASE j # k
    <3>1. req'[j] = req[j] /\ pc'[j] = pc[j]
      BY <2>2 DEF IInv, TypeOK
    <3>2. j \in vetted => j \in vetted'
      BY <1>3, Vetting
    <3>3. QED
      BY <3>1, <3>2, <1>3 DEF IInv, Sound
  <2>3. QED
    BY <2>1, <2>2
<1>4. Apart'
  <2>1. \A j \in Worker \ {k} : req'[j] = req[j] /\ pc'[j] = pc[j]
    BY DEF IInv, TypeOK
  <2>2. req'[k] = q
    BY DEF IInv, TypeOK
  <2>3. \A j \in Worker \ {k} : /\ DrawsTopic(j)' <=> DrawsTopic(j)
                                /\ DrawsPost(j)' <=> DrawsPost(j)
                                /\ HasTopic(j)' <=> HasTopic(j)
    BY <2>1 DEF DrawsTopic, DrawsPost, HasTopic
  <2>4. QED
    BY <2>1, <2>2, <2>3 DEF IInv, Apart
<1>5. QED
  BY <1>1, <1>2, <1>3, <1>4, Vetting DEF IInv

(* A request that writes as it ends keeps the invariant, if it only adds the *)
(* rows whose ids it has drawn and takes no row and no author away.          *)
LEMMA Closing ==
  ASSUME IInv, NEW k \in Worker, Finish(k), UNCHANGED staff, Vet,
         topics' \in [Topic -> TopicRow \cup {NoRow}],
         posts' \in [Post -> PostRow \cup {NoRow}],
         \A p \in Post : posts[p] # NoRow =>
            /\ posts'[p] # NoRow
            /\ posts'[p].author = posts[p].author /\ posts'[p].topic = posts[p].topic,
         \A t \in Topic : topics[t] # NoRow => topics'[t] # NoRow,
         \A p \in Post : posts[p] = NoRow /\ posts'[p] # NoRow =>
            DrawsPost(k) /\ req[k].post = p /\ posts'[p].topic = req[k].topic,
         \A t \in Topic : topics[t] = NoRow /\ topics'[t] # NoRow => DrawsTopic(k) /\ req[k].topic = t,
         TopicsBeginWithAPost'
  PROVE  IInv'
<1>0. pc' = [pc EXCEPT ![k] = "idle"] /\ req' = [req EXCEPT ![k] = NoRequest]
  BY DEF Finish, Goto
<1>1. \A j \in Worker \ {k} : req'[j] = req[j] /\ pc'[j] = pc[j]
  BY <1>0 DEF IInv, TypeOK
<1>2. req'[k] = NoRequest /\ pc'[k] = "idle"
  BY <1>0 DEF IInv, TypeOK
<1>3. TypeOK'
  <2>0. req \in [Worker -> Served \cup {NoRequest}] /\ pc \in [Worker -> Stage]
    BY DEF IInv, TypeOK
  <2>1. req' \in [Worker -> Served \cup {NoRequest}]
    BY <1>0, <2>0
  <2>1a. pc' \in [Worker -> Stage]
    BY <1>0, <2>0 DEF Stage
  <2>2. \A j \in Worker : IF req'[j] = NoRequest THEN pc'[j] = "idle" ELSE pc'[j] \in Stages(req'[j].op)
    BY <1>1, <1>2 DEF IInv, TypeOK, Idle
  <2>3. Cardinality({j \in Worker : Holding(j)'}) <= MaxConns
    BY <1>0, PoolBound DEF IInv, InTx
  <2>4. QED
    BY <2>1, <2>2, <2>3, <2>1a, Vetting DEF IInv, TypeOK, Idle
<1>4. ASSUME NEW j \in Worker, req'[j] # NoRequest PROVE Sound(j, req[j], pc[j])'
  <2>1. j # k
    BY <1>4, <1>2
  <2>2. req'[j] = req[j] /\ pc'[j] = pc[j] /\ req[j] \in Served
    BY <2>1, <1>1, <1>4 DEF IInv, TypeOK
  <2>3. Sound(j, req[j], pc[j])
    BY <2>2, <1>4 DEF IInv
  <2>4. DrawsTopic(j) /\ DrawsTopic(k) => req[j].topic # req[k].topic
    BY <2>1 DEF IInv, Apart
  <2>5. DrawsPost(j) /\ DrawsPost(k) => req[j].post # req[k].post
    BY <2>1 DEF IInv, Apart
  <2>6. pc[j] \in {"post", "commit"} /\ req[j].op = "newTopic" => topics'[req[j].topic] = NoRow
    BY <2>2, <2>3, <2>4, <1>4 DEF Sound, DrawsTopic
  <2>7. pc[j] = "commit" /\ req[j].op \in Posting => posts'[req[j].post] = NoRow
    BY <2>2, <2>3, <2>5, <1>4 DEF Sound, DrawsPost
  <2>8. ASSUME pc[j] = "commit", req[j].op \in Posting, NEW p \in Post,
               posts'[p] # NoRow, posts'[p].topic = req[j].topic
        PROVE  p < req[j].post
    <3>1. CASE posts[p] # NoRow
      BY <3>1, <2>2, <2>3, <2>8 DEF Sound
    <3>2. CASE posts[p] = NoRow
      <4>1. DrawsPost(k) /\ req[k].topic = req[j].topic
        BY <3>2, <2>8
      <4>2. Sound(k, req[k], "commit")
        BY <4>1 DEF DrawsPost, IInv
      <4>3. HasTopic(j) /\ HasTopic(k) => req[j].topic # req[k].topic
        BY <2>1 DEF IInv, Apart
      <4>4. QED
        BY <4>1, <4>2, <4>3, <2>2, <2>3, <2>4, <2>8, <1>4
           DEF Sound, HasTopic, DrawsPost, DrawsTopic
    <3>3. QED
      BY <3>1, <3>2
  <2>9. j \in vetted => j \in vetted'
    BY <1>4, Vetting
  <2>10. QED
    BY <2>2, <2>3, <2>6, <2>7, <2>8, <2>9, ServedFields DEF Sound
<1>5. Apart'
  <2>1. ~DrawsTopic(k)' /\ ~DrawsPost(k)' /\ ~HasTopic(k)'
    BY <1>2 DEF DrawsTopic, DrawsPost, HasTopic
  <2>2. \A j \in Worker \ {k} : /\ DrawsTopic(j)' <=> DrawsTopic(j)
                                /\ DrawsPost(j)' <=> DrawsPost(j)
                                /\ HasTopic(j)' <=> HasTopic(j)
    BY <1>1 DEF DrawsTopic, DrawsPost, HasTopic
  <2>3. QED
    BY <1>1, <2>1, <2>2 DEF IInv, Apart
<1>6. QED
  BY <1>3, <1>4, <1>5, Vetting DEF IInv

(* A request refused or interrupted leaves the tables as they were. *)
LEMMA RefuseKeeps ==
  ASSUME IInv, NEW k \in Worker, Refuse(k), UNCHANGED staff, Vet
  PROVE  IInv'
BY Closing DEF IInv, TypeOK, TopicsBeginWithAPost, Refuse

(* Going on to a stage that draws no id. *)
LEMMA GoOn ==
  ASSUME IInv, NEW k \in Worker, req[k] # NoRequest, NEW s \in Stage, Goto(k, s),
         UNCHANGED <<topics, posts, req, staff>>, Vet,
         s \in Stages(req[k].op), Sound(k, req[k], s),
         s \in InTx \cup {"update"} => Holding(k) \/ Spare,
         s = "post" => req[k].op = "reply" /\ ~TopicHeld(req[k].topic, k),
         s = "commit" => req[k].op \notin Posting
  PROVE  IInv'
<1>1. req[k] \in Served /\ req' = [req EXCEPT ![k] = req[k]]
  BY DEF IInv, TypeOK
<1>2. ~DrawsTopic(k)' /\ ~DrawsPost(k)'
  BY <1>1 DEF IInv, TypeOK, DrawsTopic, DrawsPost, Goto
<1>3. HasTopic(k)' => s = "post" /\ ~TopicHeld(req[k].topic, k)
  BY <1>1 DEF IInv, TypeOK, HasTopic, Goto
<1>4. \A j \in Worker \ {k} : HasTopic(j) /\ HasTopic(k)' => req[j].topic # req[k].topic
  BY <1>3 DEF HasTopic, TopicHeld
<1>5. QED
  BY <1>1, <1>2, <1>4, Quiet DEF Goto

LEMMA Busy ==
  ASSUME TypeOK, NEW k \in Worker, pc[k] # "idle"
  PROVE  /\ req[k] \in Served
         /\ req[k] # NoRequest
         /\ pc[k] \in Stages(req[k].op)
BY DEF TypeOK, Idle

LEMMA InitInvariant == Init => IInv
<1> SUFFICES ASSUME Init PROVE IInv
  OBVIOUS
<1>1. \A k \in Worker : ~Holding(k)
  BY DEF Init, Holding, InTx
<1>2. {k \in Worker : Holding(k)} = {}
  BY <1>1
<1>3. Cardinality({k \in Worker : Holding(k)}) <= MaxConns
  BY <1>2, FS_EmptySet, ConnsAssumption
<1>4. TypeOK
  BY <1>3 DEF Init, TypeOK, Idle, Stage
<1>5. QED
  BY <1>4 DEF Init, IInv, Vouched, TopicsBeginWithAPost, Apart, DrawsTopic, DrawsPost, HasTopic

(* Every stage of a request that writes nothing. *)
LEMMA StageKeeps ==
  ASSUME IInv, NEW k \in Worker, UNCHANGED staff, Vet,
         \/ Begin(k) \/ Authenticate(k) \/ LogAdminAction(k) \/ Gate(k) \/ Exec(k)
         \/ BeginTx(k) \/ InsertTopic(k) \/ ReadTopic(k) \/ TouchTopic(k) \/ InsertPost(k)
         \/ ReadAuthor(k) \/ AskStaff(k) \/ WritePost(k)
  PROVE  IInv'
<1> USE DEF Stages, Stage, InTx
<1>0. TypeOK
  BY DEF IInv
<1>1. CASE Begin(k)
  <2>1. PICK q \in Request : req' = [req EXCEPT ![k] = q]
    BY <1>1 DEF Begin
  <2>2. q \in Served /\ q # NoRequest
    BY NoneAssumption DEF Served
  <2>3. Sound(k, q, "authenticate")
    BY DEF Sound
  <2>4. ~DrawsTopic(k)' /\ ~DrawsPost(k)' /\ ~HasTopic(k)'
    BY <1>1, <1>0 DEF Begin, Goto, DrawsTopic, DrawsPost, HasTopic, TypeOK
  <2>5. pc' = [pc EXCEPT ![k] = "authenticate"] /\ UNCHANGED <<topics, posts>>
    BY <1>1 DEF Begin, Goto
  <2>6. QED
    BY <2>1, <2>2, <2>3, <2>4, <2>5, Quiet
<1>2. CASE Authenticate(k)
  <2>1. PICK s \in {"begin", "log", "gate"} : Goto(k, s) /\ s \in Stages(req[k].op)
    BY <1>2, <1>0, Busy, ServedFields DEF Authenticate
  <2>2. QED
    BY <2>1, <1>2, <1>0, Busy, GoOn DEF Authenticate, Sound
<1>3. CASE LogAdminAction(k)
  BY <1>3, <1>0, Busy, GoOn, RefuseKeeps DEF LogAdminAction, Sound
<1>4. CASE Gate(k)
  BY <1>4, <1>0, Busy, GoOn, RefuseKeeps DEF Gate, IInv, Vouched, Sound
<1>5. CASE Exec(k)
  BY <1>5, <1>0, Busy, GoOn DEF Exec, Sound, IInv
<1>6. CASE BeginTx(k)
  <2>1. PICK s \in {"topic", "author"} : Goto(k, s) /\ s \in Stages(req[k].op)
    BY <1>6, <1>0, Busy, ServedFields DEF BeginTx
  <2>2. QED
    BY <2>1, <1>6, <1>0, Busy, GoOn DEF BeginTx, Sound
<1>7. CASE InsertTopic(k)
  <2>1. CASE FreshTopics = {} /\ Refuse(k)
    BY <2>1, RefuseKeeps
  <2>2. ASSUME NEW t \in FreshTopics, req' = [req EXCEPT ![k].topic = t], Goto(k, "post"),
               UNCHANGED <<topics, posts>>
        PROVE  IInv'
    <3> DEFINE q == [req[k] EXCEPT !.topic = t]
    <3>1. req[k] \in Served /\ req[k].op = "newTopic" /\ t \in Topic /\ pc[k] = "topic"
      BY <1>7, <1>0, Busy DEF InsertTopic, FreshTopics
    <3>2. q \in Served /\ q # NoRequest /\ q.op = "newTopic" /\ q.topic = t
      BY <3>1, NoneAssumption DEF Served, Request
    <3>3. Sound(k, q, "post")
      BY <3>1, <3>2 DEF Sound, FreshTopics
    <3>4. req' = [req EXCEPT ![k] = q] /\ pc' = [pc EXCEPT ![k] = "post"]
      BY <2>2 DEF Goto
    <3>5. \A j \in Worker \ {k} : DrawsTopic(j) /\ DrawsTopic(k)' => req[j].topic # q.topic
      BY <3>2 DEF FreshTopics, DrawsTopic
    <3>6. ~DrawsPost(k)' /\ ~HasTopic(k)'
      BY <3>2, <3>4, <1>0 DEF TypeOK, DrawsPost, HasTopic
    <3>7. Holding(k)
      BY <3>1 DEF Holding
    <3>8. /\ "post" \in Stage
          /\ IF q = NoRequest THEN "post" = "idle" ELSE "post" \in Stages(q.op) /\ Sound(k, q, "post")
      BY <3>1, <3>2, <3>3
    <3>9. q \in Served \cup {NoRequest} /\ UNCHANGED <<topics, posts>>
      BY <3>2, <2>2
    <3> HIDE DEF q, Stages, Stage, InTx, Posting, Changing
    <3>10. QED
      BY <3>4, <3>5, <3>6, <3>7, <3>8, <3>9, Quiet
  <2>3. QED
    BY <1>7, <2>1, <2>2 DEF InsertTopic
<1>8. CASE ReadTopic(k)
  <2>1. Holding(k)
    BY <1>8 DEF ReadTopic, Holding
  <2>2. /\ req[k] # NoRequest /\ "touch" \in Stages(req[k].op) /\ UNCHANGED <<topics, posts, req>>
        /\ Goto(k, "touch") /\ topics[req[k].topic] # NoRow /\ req[k].op = "reply"
     \/ Refuse(k)
    BY <1>8, <1>0, Busy DEF ReadTopic
  <2>3. CASE Refuse(k)
    BY <2>3, RefuseKeeps
  <2>4. CASE ~Refuse(k)
    <3>1. Sound(k, req[k], "touch")
      BY <2>2, <2>4 DEF Sound
    <3>2. QED
      BY <2>1, <2>2, <2>4, <3>1, GoOn
  <2>5. QED
    BY <2>3, <2>4
<1>9. CASE TouchTopic(k)
  <2>1. Holding(k) /\ req[k] # NoRequest /\ req[k].op = "reply" /\ Sound(k, req[k], "touch")
    BY <1>9, <1>0, Busy DEF TouchTopic, Holding, IInv, Sound
  <2>2. Sound(k, req[k], "post")
    BY <2>1 DEF Sound
  <2>3. QED
    BY <2>1, <2>2, <1>9, GoOn DEF TouchTopic
<1>10. CASE InsertPost(k)
  <2>1. CASE FreshPosts = {} /\ Refuse(k)
    BY <2>1, RefuseKeeps
  <2>2. ASSUME NEW p \in FreshPosts, req' = [req EXCEPT ![k].post = p], Goto(k, "commit"),
               UNCHANGED <<topics, posts>>
        PROVE  IInv'
    <3> DEFINE q == [req[k] EXCEPT !.post = p]
    <3>1. /\ req[k] \in Served /\ req[k] # NoRequest /\ req[k].op \in Posting
          /\ p \in Post /\ pc[k] = "post" /\ Sound(k, req[k], "post")
      BY <1>10, <1>0, Busy, ServedFields DEF InsertPost, FreshPosts, IInv
    <3>2. /\ q \in Served /\ q # NoRequest /\ q.op = req[k].op
          /\ q.topic = req[k].topic /\ q.post = p
      BY <3>1, NoneAssumption DEF Served, Request, Sound
    <3>3. Sound(k, q, "commit")
      BY <3>1, <3>2, PostAssumption DEF Sound, FreshPosts
    <3>4. req' = [req EXCEPT ![k] = q] /\ pc' = [pc EXCEPT ![k] = "commit"]
      BY <2>2 DEF Goto
    <3>5. \A j \in Worker \ {k} : DrawsPost(j) /\ DrawsPost(k)' => req[j].post # q.post
      BY <3>2, PostAssumption DEF FreshPosts, DrawsPost, IInv, Sound
    <3>6. \A j \in Worker \ {k} : DrawsTopic(j) /\ DrawsTopic(k)' => req[j].topic # q.topic
      BY <3>1, <3>2, <3>4, <1>0 DEF DrawsTopic, IInv, Apart, TypeOK
    <3>6a. \A j \in Worker \ {k} : HasTopic(j) /\ HasTopic(k)' => req[j].topic # q.topic
      BY <3>1, <3>2, <3>4, <1>10, <1>0 DEF InsertPost, HasTopic, IInv, Apart, TypeOK
    <3>7. Holding(k)
      BY <3>1 DEF Holding
    <3>8. /\ "commit" \in Stage
          /\ IF q = NoRequest THEN "commit" = "idle" ELSE "commit" \in Stages(q.op) /\ Sound(k, q, "commit")
      BY <3>1, <3>2, <3>3
    <3>9. q \in Served \cup {NoRequest} /\ UNCHANGED <<topics, posts>>
      BY <3>2, <2>2
    <3> HIDE DEF q, Stages, Stage, InTx, Posting, Changing
    <3>10. QED
      BY <3>4, <3>5, <3>6, <3>6a, <3>7, <3>8, <3>9, Quiet
  <2>3. QED
    BY <1>10, <2>1, <2>2 DEF InsertPost
<1>11. CASE ReadAuthor(k)
  <2>1. Holding(k) /\ req[k] # NoRequest /\ req[k].op \in Changing
    BY <1>11, <1>0, Busy, ServedFields DEF ReadAuthor, Holding
  <2>2. CASE Refuse(k)
    BY <2>2, RefuseKeeps
  <2>3. ASSUME NEW s \in {"write", "staff"}, Goto(k, s), UNCHANGED <<topics, posts, req>>,
               posts[req[k].post] # NoRow,
               s = "write" => req[k].by = posts[req[k].post].author
        PROVE  IInv'
    <3>1. Sound(k, req[k], s)
      BY <2>1, <2>3 DEF Sound
    <3>2. QED
      BY <2>1, <2>3, <3>1, GoOn
  <2>4. QED
    BY <1>11, <2>2, <2>3 DEF ReadAuthor
<1>12. CASE AskStaff(k)
  <2>1. Holding(k) /\ req[k] # NoRequest /\ req[k].op \in Changing /\ Sound(k, req[k], "staff")
    BY <1>12, <1>0, Busy, ServedFields DEF AskStaff, Holding, IInv
  <2>2. QED
    BY <2>1, <1>12, GoOn, RefuseKeeps DEF AskStaff, IInv, Vouched, Sound
<1>13. CASE WritePost(k)
  <2>1. Holding(k) /\ req[k] # NoRequest /\ req[k].op \in Changing /\ Sound(k, req[k], "write")
    BY <1>13, <1>0, Busy, ServedFields DEF WritePost, Holding, IInv
  <2>2. Sound(k, req[k], "commit")
    BY <2>1 DEF Sound
  <2>3. req[k].op \notin Posting /\ "commit" \in Stages(req[k].op) /\ "commit" \in Stage
    BY <2>1
  <2>4. Goto(k, "commit") /\ UNCHANGED <<topics, posts, req>>
    BY <1>13 DEF WritePost
  <2> HIDE DEF Stages, Stage, InTx, Posting, Changing
  <2>5. QED
    BY <2>1, <2>2, <2>3, <2>4, GoOn
<1>14. QED
  BY <1>1, <1>2, <1>3, <1>4, <1>5, <1>6, <1>7, <1>8, <1>9, <1>10, <1>11, <1>12, <1>13

(* One statement that gives its connection back: no row comes or goes. *)
LEMMA UpdateKeeps ==
  ASSUME IInv, NEW k \in Worker, Update(k), UNCHANGED staff, Vet
  PROVE  IInv'
<1> DEFINE t == req[k].topic
<1>1. topics \in [Topic -> TopicRow \cup {NoRow}]
  BY DEF IInv, TypeOK
<1>2. /\ topics' \in [Topic -> TopicRow \cup {NoRow}]
      /\ \A u \in Topic : topics[u] = NoRow <=> topics'[u] = NoRow
  <2>1. CASE topics[t] = NoRow
    BY <2>1, <1>1 DEF Update
  <2>2. CASE topics[t] # NoRow
    <3>1. t \in Topic => topics[t] \in TopicRow
      BY <2>2, <1>1
    <3>2. CASE req[k].op = "remove"
      <4>1. topics' = [topics EXCEPT ![t] = [topics[t] EXCEPT !.removed = TRUE]]
        BY <3>2, <2>2 DEF Update
      <4>2. t \in Topic => [topics[t] EXCEPT !.removed = TRUE] \in TopicRow
        BY <3>1 DEF TopicRow
      <4>3. QED
        BY <4>1, <4>2, <2>2, <1>1, NoneAssumption
    <3>2a. CASE req[k].op = "move"
      <4>1. topics' = [topics EXCEPT ![t] = [topics[t] EXCEPT !.forum = req[k].board]]
        BY <3>2a, <2>2 DEF Update
      <4>2. req[k].board \in Board
        BY <3>2a, Busy, ServedFields DEF Update, IInv
      <4>3. t \in Topic => [topics[t] EXCEPT !.forum = req[k].board] \in TopicRow
        BY <3>1, <4>2 DEF TopicRow
      <4>4. QED
        BY <4>1, <4>3, <2>2, <1>1, NoneAssumption
    <3>3. CASE req[k].op \notin {"remove", "move"}
      <4> DEFINE row == [topics[t] EXCEPT !.locked = (req[k].op = "lock")]
      <4>1. topics' = [topics EXCEPT ![t] = row]
        BY <3>3, <2>2 DEF Update
      <4>2. t \in Topic => row \in TopicRow
        <5>1. (req[k].op = "lock") \in BOOLEAN
          OBVIOUS
        <5>2. QED
          BY <3>1, <5>1 DEF TopicRow
      <4> HIDE DEF row
      <4>3. QED
        BY <4>1, <4>2, <2>2, <1>1, NoneAssumption
    <3>4. QED
      BY <3>2, <3>2a, <3>3
  <2>3. QED
    BY <2>1, <2>2
<1>3. posts' = posts /\ Finish(k)
  BY DEF Update
<1>4. TopicsBeginWithAPost'
  BY <1>2, <1>3 DEF IInv, TypeOK, TopicsBeginWithAPost, PostRow
<1>5. QED
  BY <1>2, <1>3, <1>4, Closing DEF IInv, TypeOK

(* The end of a transaction, for each of its operations. *)
LEMMA CommitKeeps ==
  ASSUME IInv, NEW k \in Worker, Commit(k), UNCHANGED staff, Vet
  PROVE  IInv'
<1> DEFINE q == req[k]
<1>1. /\ topics \in [Topic -> TopicRow \cup {NoRow}] /\ posts \in [Post -> PostRow \cup {NoRow}]
      /\ q \in Served /\ q # NoRequest /\ Sound(k, q, "commit") /\ pc[k] = "commit" /\ Finish(k)
  BY Busy DEF IInv, TypeOK, Commit
<1>2. q.by \in Warrior /\ (q.op \in Changing => q.post \in Post) /\ (q.op = "reply" => q.topic \in Topic)
      /\ (q.op = "newTopic" => q.board \in Board)
  BY <1>1, ServedFields
<1>3. TopicsBeginWithAPost
  BY DEF IInv
<1>4. CASE q.op = "newTopic"
  <2> DEFINE row == NewTopic(q)
  <2>1. /\ topics' = [topics EXCEPT ![q.topic] = row]
        /\ posts' = [posts EXCEPT ![q.post] = NewPost(q)]
    BY <1>4 DEF Commit
  <2>2. q.topic \in Topic /\ topics[q.topic] = NoRow /\ q.post \in Post /\ posts[q.post] = NoRow
    BY <1>1, <1>4 DEF Sound
  <2>3. row \in TopicRow /\ NewPost(q) \in PostRow /\ NewPost(q).topic = q.topic
    BY <1>2, <1>4, <2>2 DEF TopicRow, PostRow, NewPost, NewTopic
  <2>4. DrawsTopic(k) /\ DrawsPost(k)
    BY <1>1, <1>4 DEF DrawsTopic, DrawsPost
  <2> HIDE DEF row
  <2>5. TopicsBeginWithAPost'
    BY <1>1, <1>3, <2>1, <2>2, <2>3, NoneAssumption DEF TopicsBeginWithAPost, PostRow
  <2>6. QED
    BY <1>1, <2>1, <2>2, <2>3, <2>4, <2>5, NoneAssumption, Closing
<1>5. CASE q.op = "reply"
  <2>1. topics' = topics /\ posts' = [posts EXCEPT ![q.post] = NewPost(q)]
    BY <1>5 DEF Commit
  <2>2. q.topic \in Topic /\ topics[q.topic] # NoRow /\ q.post \in Post /\ posts[q.post] = NoRow
    BY <1>1, <1>2, <1>5 DEF Sound
  <2>3. NewPost(q) \in PostRow /\ NewPost(q).topic = q.topic
    BY <1>2, <2>2 DEF PostRow, NewPost
  <2>4. DrawsPost(k)
    BY <1>1, <1>5 DEF DrawsPost
  <2>5. TopicsBeginWithAPost'
    BY <1>1, <1>3, <2>1, <2>2, <2>3, NoneAssumption DEF TopicsBeginWithAPost, PostRow
  <2>6. QED
    BY <1>1, <2>1, <2>2, <2>3, <2>4, <2>5, NoneAssumption, Closing
<1>6. CASE q.op \in Changing
  <2>1. posts[q.post] \in PostRow /\ q.post \in Post
    BY <1>1, <1>2, <1>6 DEF Sound
  <2>2. PICK row \in PostRow :
          /\ topics' = topics /\ posts' = [posts EXCEPT ![q.post] = row]
          /\ row.author = posts[q.post].author /\ row.topic = posts[q.post].topic
    <3>1. CASE q.op = "edit"
      BY <3>1, <2>1, <1>2 DEF Commit, PostRow
    <3>2. CASE q.op = "delete"
      BY <3>2, <2>1 DEF Commit, PostRow
    <3>3. QED
      BY <3>1, <3>2, <1>6
  <2>3. TopicsBeginWithAPost'
    BY <1>1, <1>3, <2>1, <2>2, NoneAssumption DEF TopicsBeginWithAPost, PostRow
  <2>4. QED
    BY <1>1, <2>1, <2>2, <2>3, NoneAssumption, Closing
<1>7. QED
  BY <1>4, <1>5, <1>6 DEF Commit

(* Who becomes staff is vetted at once, and who ceases to be stays vetted. *)
LEMMA StaffKeeps ==
  ASSUME IInv, StaffChanges, Vet
  PROVE  IInv'
<1>1. UNCHANGED <<topics, posts, req, pc>> /\ staff' \subseteq Staff
  BY DEF StaffChanges, IInv, TypeOK
<1>2. ASSUME NEW j \in Worker, req'[j] # NoRequest PROVE Sound(j, req[j], pc[j])'
  <2>1. Sound(j, req[j], pc[j]) /\ (j \in vetted => j \in vetted')
    BY <1>1, <1>2, Vetting DEF IInv
  <2>2. QED
    BY <1>1, <2>1 DEF Sound
<1>3. QED
  BY <1>1, <1>2, Vetting
     DEF IInv, TypeOK, TopicsBeginWithAPost, Apart, DrawsTopic, DrawsPost, HasTopic, Idle, Holding

(* The invariant holds in every reachable state. *)
LEMMA Invariance == Spec => []IInv
<1>1. IInv /\ [Next]_vars => IInv'
  <2> SUFFICES ASSUME IInv, [Next]_vars PROVE IInv'
    OBVIOUS
  <2>1. ASSUME NEW k \in Worker, Begin(k) \/ Step(k) \/ Fault(k), UNCHANGED staff, Vet PROVE IInv'
    BY <2>1, StageKeeps, UpdateKeeps, CommitKeeps, RefuseKeeps DEF Step, Fault
  <2>2. CASE StaffChanges /\ Vet
    BY <2>2, StaffKeeps
  <2>3. CASE UNCHANGED vars
    BY <2>3 DEF vars, IInv, TypeOK, TopicsBeginWithAPost, Apart, Sound, DrawsTopic, DrawsPost, HasTopic, Idle, Holding,
       Vouched, IsStaff
  <2>4. QED
    BY <2>1, <2>2, <2>3 DEF Next, Serve
<1>2. QED
  BY <1>1, InitInvariant, PTL DEF Spec

(* The tables keep their types, every request is at a stage of its own       *)
(* operation, and the pool lends no more connections than it has.            *)
THEOREM TypeCorrect == Spec => []TypeOK
BY Invariance, PTL DEF IInv

(* Topic and first post are inserted together: neither is ever alone.        *)
THEOREM TopicsAndPostsTogether == Spec => []TopicsBeginWithAPost
BY Invariance, PTL DEF IInv

(* One step changes a row only for the author of the post or for one vetted. *)
LEMMA StepIsTheirOwn ==
  ASSUME IInv, Next
  PROVE  /\ \A p \in Post : posts[p] # NoRow /\ posts'[p] # posts[p] =>
              \E k \in Worker : /\ ~Idle(k) /\ Idle(k)' /\ req[k].post = p
                                /\ k \in vetted \/ req[k].by = posts[p].author
         /\ \A t \in Topic : topics[t] # NoRow /\ topics'[t] # topics[t] =>
              \E k \in vetted : ~Idle(k) /\ Idle(k)' /\ req[k].topic = t
<1>1. PICK k : (k \in Worker /\ (Begin(k) \/ Step(k) \/ Fault(k))) \/ UNCHANGED <<topics, posts>>
  BY DEF Next, Serve, StaffChanges
<1>2. CASE k \in Worker /\ Update(k)
  <2>1. req[k] # NoRequest /\ req'[k] = NoRequest /\ k \in vetted
    BY <1>2, Busy DEF Update, Finish, IInv, TypeOK, Sound
  <2>2. posts' = posts /\ \A t \in Topic : topics'[t] # topics[t] => t = req[k].topic
    BY <1>2 DEF Update, IInv, TypeOK
  <2>3. QED
    BY <1>2, <2>1, <2>2 DEF Idle
<1>3. CASE k \in Worker /\ Commit(k)
  <2>1. req[k] # NoRequest /\ req'[k] = NoRequest /\ Sound(k, req[k], "commit")
    BY <1>3, Busy DEF Commit, Finish, IInv, TypeOK
  <2>2. \A t \in Topic : topics'[t] # topics[t] => topics[t] = NoRow
    BY <1>3, <2>1 DEF Commit, Sound, IInv, TypeOK
  <2>3. \A p \in Post : posts[p] # NoRow /\ posts'[p] # posts[p] =>
          p = req[k].post /\ (k \in vetted \/ req[k].by = posts[p].author)
    BY <1>3, <2>1 DEF Commit, Sound, IInv, TypeOK
  <2>4. QED
    BY <1>3, <2>1, <2>2, <2>3 DEF Idle
<1>4. CASE UNCHANGED <<topics, posts>>
  BY <1>4
<1>5. QED
  BY <1>1, <1>2, <1>3, <1>4 DEF Step, Fault, Refuse, Begin, Authenticate, LogAdminAction, Gate,
     Exec, BeginTx, InsertTopic, ReadTopic, TouchTopic, InsertPost, ReadAuthor, AskStaff, WritePost

(* A post is changed by a request of its author or of somebody who has been  *)
(* staff while it was served, a topic by one of the latter, whatever the     *)
(* other requests and the tribes do between the test and the write.          *)
THEOREM RowsAreTheirOwn == Spec => OnlyTheirOwn
<1>1. IInv /\ [Next]_vars =>
        [/\ \A p \in Post : posts[p] # NoRow /\ posts'[p] # posts[p] =>
              \E k \in Worker : /\ ~Idle(k) /\ Idle(k)' /\ req[k].post = p
                                /\ k \in vetted \/ req[k].by = posts[p].author
         /\ \A t \in Topic : topics[t] # NoRow /\ topics'[t] # topics[t] =>
              \E k \in vetted : ~Idle(k) /\ Idle(k)' /\ req[k].topic = t]_vars
  BY StepIsTheirOwn
<1>2. QED
  BY <1>1, Invariance, PTL DEF Spec, OnlyTheirOwn

(* One step shows a new post only above those of its topic.                  *)
LEMMA StepInOrder ==
  ASSUME IInv, Next, NEW t \in Topic, NEW since \in Post, since \in Shown(t)
  PROVE  Shown(t)' \ Shown(t) \subseteq PostsSince(t, since)'
<1>1. PICK k : (k \in Worker /\ (Begin(k) \/ Step(k) \/ Fault(k))) \/ posts' = posts
  BY DEF Next, Serve, StaffChanges
<1>2. CASE posts' = posts
  BY <1>2 DEF PostsSince, Shown
<1>3. CASE k \in Worker /\ Commit(k)
  <2>1. req[k] # NoRequest /\ Sound(k, req[k], "commit")
    BY <1>3, Busy DEF Commit, IInv
  <2>2. ASSUME NEW p \in Post, p \in Shown(t)', p \notin Shown(t)
        PROVE  p > since
    <3>1. posts'[p] # NoRow /\ posts'[p].topic = t /\ ~(posts[p] # NoRow /\ posts[p].topic = t)
      BY <2>2, PostAssumption DEF PostsSince, Shown
    <3>2. req[k].op \in Posting /\ req[k].post = p /\ req[k].topic = t
      BY <1>3, <2>1, <3>1 DEF Commit, Sound, IInv, TypeOK, NewPost, PostRow
    <3>3. posts[since] # NoRow /\ posts[since].topic = t
      BY DEF PostsSince, Shown
    <3>4. QED
      BY <2>1, <3>2, <3>3, PostAssumption DEF Sound
  <2>3. QED
    BY <2>2 DEF PostsSince, Shown
<1>4. QED
  BY <1>1, <1>2, <1>3 DEF Step, Fault, Refuse, Begin, Authenticate, LogAdminAction, Gate, Update,
     Exec, BeginTx, InsertTopic, ReadTopic, TouchTopic, InsertPost, ReadAuthor, AskStaff, WritePost

(* A pane that asks for what is newer than its last post misses none.        *)
THEOREM NewPostsComeLast == Spec => PanesMissNothing
<1>1. IInv /\ [Next]_vars =>
        [\A t \in Topic, since \in Post :
           since \in Shown(t) => Shown(t)' \ Shown(t) \subseteq PostsSince(t, since)']_vars
  BY StepInOrder
<1>2. QED
  BY <1>1, Invariance, PTL DEF Spec, PanesMissNothing
-----------------------------------------------------------------------------
(* A worker that is waited for at these stages waits for nobody. *)
LEMMA CommitterGoesOn ==
  ASSUME TypeOK, NEW k \in Worker, pc[k] \in {"post", "commit"}
  PROVE  Ready(k)
BY Busy DEF Ready, Idle, Holding, InTx

(* Whoever holds a connection and does not ask for another goes on, or waits *)
(* for a row; the row is held by one that is about to commit, and goes on.   *)
LEMMA HolderGoesOn ==
  ASSUME TypeOK, NEW k \in Worker, Holding(k), pc[k] # "staff"
  PROVE  \E j \in Worker : Ready(j)
<1>1. ~Idle(k)
  BY Busy DEF Holding, InTx, Idle
<1>2. CASE pc[k] \in {"touch", "update"} /\ TopicHeld(req[k].topic, k)
  <2>1. PICK j \in Worker : pc[j] \in {"post", "commit"}
    BY <1>2 DEF TopicHeld
  <2>2. QED
    BY <2>1, CommitterGoesOn
<1>3. CASE pc[k] = "write" /\ PostHeld(req[k].post, k)
  <2>1. PICK j \in Worker : pc[j] = "commit"
    BY <1>3 DEF PostHeld
  <2>2. QED
    BY <2>1, CommitterGoesOn
<1>4. CASE /\ ~(pc[k] \in {"touch", "update"} /\ TopicHeld(req[k].topic, k))
           /\ ~(pc[k] = "write" /\ PostHeld(req[k].post, k))
  BY <1>1, <1>4 DEF Ready
<1>5. QED
  BY <1>2, <1>3, <1>4

LEMMA SomebodyGoesOn == TypeOK => StuckOnlyIfWedged
<1> SUFFICES ASSUME TypeOK, NEW k \in Worker, ~Idle(k), ~Wedged
             PROVE  \E j \in Worker : Ready(j)
  BY DEF StuckOnlyIfWedged
<1>1. CASE \E j \in Worker : Holding(j) /\ pc[j] # "staff"
  BY <1>1, HolderGoesOn
<1>2. CASE \A j \in Worker : Holding(j) => pc[j] = "staff"
  <2>1. Spare
    BY <1>2 DEF Wedged
  <2>2. pc[k] \notin {"touch", "update", "write"}
    BY <1>2 DEF Holding, InTx
  <2>3. QED
    BY <2>1, <2>2 DEF Ready
<1>3. QED
  BY <1>1, <1>2

(* No wait for a row, for a connection or for both stops everybody, but for  *)
(* the one of IsStaff: all connections held, each by a transaction that      *)
(* waits there for one more.                                                 *)
THEOREM OnlyIsStaffWedges == Spec => []StuckOnlyIfWedged
<1>1. IInv => StuckOnlyIfWedged
  BY SomebodyGoesOn DEF IInv
<1>2. QED
  BY <1>1, Invariance, PTL
=============================================================================
