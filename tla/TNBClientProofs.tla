-------------------------- MODULE TNBClientProofs ---------------------------
(***************************************************************************)
(* Proofs about the client's transport, for any set of requests and any    *)
(* number of pumps.  The invariant joins what is claimed of the queue and  *)
(* of the session to the bookkeeping that makes it inductive: the flags    *)
(* $TNB::Busy, $TNB::AwaitingSession and $TNB::SessionBusy say what the    *)
(* connection objects and the waiter list are really doing.                *)
(*                                                                         *)
(* With it the transport implements the queue of ApiQueue, step by step.   *)
(* The last part is about the panes and the certificate (DbProxy), which   *)
(* rely on that queue and on nothing else of the transport.                *)
(***************************************************************************)
EXTENDS TNBClient, DbProxy, SequenceTheorems, TLAPS

(* What the flags stand for. *)
Bookkeeping ==
  /\ waiters = IF awaiting THEN 1 ELSE 0
  /\ awaiting => ~busy /\ ~uuid
  /\ sbusy <=> exchange # NoExchange
  /\ aged => sbusy
  /\ exchange # NoExchange => loggedIn /\ challenge # "bad"
  /\ uuid => challenge = "none"
  /\ exchange.ask = "nonce" => ~uuid
  /\ exchange.reply \in {"good", "bad"} => exchange.ask = "nonce"

Inv ==
  /\ TypeOK /\ Bookkeeping
  /\ AnswersTheHead /\ NobodyStranded /\ OneSessionEvent /\ CursorFollowsQueue

(* What a callback may ask for is a sequence of requests, if it is one. *)
LEMMA ChainedType ==
  ASSUME NEW chain \in Chained
  PROVE  chain \in Seq(Request) /\ Asked(chain) \subseteq Request
  <1>1. CASE chain = <<>>
    BY <1>1, EmptySeq DEF Asked
  <1>2. CASE chain # <<>>
    <2>1. PICK r \in Request : chain = <<r>>
      BY <1>2 DEF Chained
    <2>2. chain \in Seq(Request)
      BY <2>1
    <2>3. DOMAIN chain = {1} /\ chain[1] = r
      BY <2>1
    <2>4. QED
      BY <2>2, <2>3 DEF Asked
  <1>3. QED
    BY <1>1, <1>2

(* Scheduling a pump leaves at least one scheduled, and no more than there  *)
(* may be.                                                                   *)
LEMMA PumpSoonType == \A p \in 0 .. MaxPumps : PumpSoon(p) \in 1 .. MaxPumps
  BY MaxPumpsAssumption DEF PumpSoon

(* The queue without its head, and what the callback asked for. *)
LEMMA RestType ==
  ASSUME NEW q \in Seq(Request), q # <<>>, NEW chain \in Seq(Request)
  PROVE  /\ Head(q) \in Request
         /\ Tail(q) \o chain \in Seq(Request)
         /\ Tail(q) \in Seq(Request)
  BY HeadTailProperties, ConcatProperties

-----------------------------------------------------------------------------
(* Nothing is asked, sent or awaited yet. *)
LEMMA InitInv == Init => Inv
  <1>1. SUFFICES ASSUME Init PROVE Inv
    OBVIOUS
  <1>2. TypeOK
    <2>1. 0 \in 0 .. MaxPumps
      BY MaxPumpsAssumption
    <2>2. queue \in Seq(Request) /\ calling \subseteq Request
      BY <1>1, EmptySeq DEF Init
    <2>3. QED
      BY <1>1, <2>1, <2>2, Zenon DEF Init, TypeOK
  <1>3. QED
    BY <1>1, <1>2 DEF Init, Inv, Bookkeeping, AnswersTheHead, NobodyStranded, OneSessionEvent,
       CursorFollowsQueue, NoExchange

(* A request joins the end of the queue: its head is who it was. *)
LEMMA EnqueueInv == ASSUME Inv, NEW r \in Request, Enqueue(r) PROVE Inv'
  <1>1. /\ queue \in Seq(Request) /\ queue' = Append(queue, r) /\ queue' \in Seq(Request)
        /\ queue' # <<>>
        /\ queue # <<>> => Head(queue') = Head(queue)
    BY AppendProperties DEF Inv, TypeOK, Enqueue
  <1>2. pumps' \in 0 .. MaxPumps /\ (~busy => pumps' > 0)
    BY PumpSoonType DEF Inv, TypeOK, Enqueue
  <1>3. TypeOK'
    BY <1>1, <1>2 DEF Inv, TypeOK, Enqueue, sessionVars
  <1>4. Bookkeeping' /\ OneSessionEvent'
    BY DEF Inv, Bookkeeping, OneSessionEvent, Enqueue, sessionVars
  <1>5. AnswersTheHead'
    BY <1>1 DEF Inv, AnswersTheHead, Enqueue
  <1>6. NobodyStranded' /\ CursorFollowsQueue'
    BY <1>1, <1>2 DEF Inv, NobodyStranded, CursorFollowsQueue, Enqueue, sessionVars
  <1>7. QED
    BY <1>3, <1>4, <1>5, <1>6 DEF Inv

(* When the queue fails it is left with what the callbacks asked for, and a *)
(* pump and the hourglass for that.                                         *)
LEMMA FailAllType ==
  ASSUME TypeOK, NEW p \in 0 .. MaxPumps, FailAll(p)
  PROVE  /\ queue' \in Seq(Request) /\ calling' \subseteq Request
         /\ ~busy' /\ cursor' \in BOOLEAN /\ busy' \in BOOLEAN
         /\ pumps' \in 0 .. MaxPumps
         /\ queue' # <<>> <=> cursor'
         /\ queue' # <<>> => pumps' > 0
  <1>1. PICK chain \in Chained :
          /\ queue' = chain
          /\ calling' = (calling \ Asked(queue)) \cup Asked(chain)
          /\ busy' = FALSE
          /\ cursor' = (chain # <<>>)
          /\ pumps' = IF chain = <<>> THEN p ELSE PumpSoon(p)
    BY DEF FailAll
  <1>2. chain \in Seq(Request) /\ Asked(chain) \subseteq Request
    BY ChainedType
  <1>3. pumps' \in 0 .. MaxPumps /\ (chain # <<>> => pumps' > 0)
    BY <1>1, PumpSoonType
  <1>4. calling' \subseteq Request
    BY <1>1, <1>2 DEF TypeOK
  <1>5. ~busy' /\ busy' \in BOOLEAN /\ cursor' \in BOOLEAN /\ (queue' # <<>> <=> cursor')
    BY <1>1, Zenon
  <1>6. QED
    BY <1>1, <1>2, <1>3, <1>4, <1>5

(* The session fails: with a waiter, so does the queue, which has no        *)
(* transfer then; without one the queue is left alone.                      *)
LEMMA SessionFailInv ==
  ASSUME Inv, NEW p \in 0 .. MaxPumps, NEW waiting \in {0, 1},
         SessionFail(waiting, p),
         waiting = 0 => ~awaiting /\ (p > 0 \/ queue = <<>> \/ busy) /\ (cursor /\ queue = <<>> => p > 0),
         waiting = 1 => ~busy,
         exchange' = NoExchange, UNCHANGED <<transfer, loggedIn, live>>
  PROVE  Inv'
  <1>1. TypeOK /\ AnswersTheHead
    BY DEF Inv
  <1>2. CASE waiting = 1
    <2>1. FailAll(p) /\ awaiting' = FALSE
      BY <1>2 DEF SessionFail
    <2>2. /\ queue' \in Seq(Request) /\ calling' \subseteq Request
          /\ ~busy' /\ cursor' \in BOOLEAN /\ busy' \in BOOLEAN
          /\ pumps' \in 0 .. MaxPumps
          /\ queue' # <<>> <=> cursor'
          /\ queue' # <<>> => pumps' > 0
      BY <2>1, <1>1, FailAllType
    <2>3. TypeOK'
      BY <1>1, <2>1, <2>2 DEF TypeOK, SessionFail
    <2>4. Bookkeeping' /\ OneSessionEvent'
      BY <2>1, <2>2 DEF Bookkeeping, OneSessionEvent, SessionFail, NoExchange
    <2>5. AnswersTheHead'
      BY <1>1, <1>2, <2>2 DEF AnswersTheHead
    <2>6. NobodyStranded' /\ CursorFollowsQueue'
      BY <2>1, <2>2 DEF NobodyStranded, CursorFollowsQueue
    <2>7. QED
      BY <2>3, <2>4, <2>5, <2>6 DEF Inv
  <1>3. CASE waiting = 0
    <2>1. pumps' = p /\ UNCHANGED <<queue, calling, busy, awaiting, cursor>>
      BY <1>3 DEF SessionFail
    <2>2. TypeOK'
      BY <1>1, <2>1 DEF TypeOK, SessionFail
    <2>3. Bookkeeping' /\ OneSessionEvent'
      BY <1>3, <2>1 DEF Bookkeeping, OneSessionEvent, SessionFail, NoExchange
    <2>4. AnswersTheHead'
      BY <1>1, <2>1 DEF AnswersTheHead
    <2>5. NobodyStranded' /\ CursorFollowsQueue'
      BY <1>3, <2>1, p > 0 \/ p = 0 DEF Inv, NobodyStranded, CursorFollowsQueue
    <2>6. QED
      BY <2>2, <2>3, <2>4, <2>5 DEF Inv
  <1>4. QED
    BY <1>2, <1>3

(* The session's step, whoever asks for it: the queue, with the head of the *)
(* queue waiting, or the timer.                                             *)
LEMMA SessionStartInv ==
  ASSUME Inv, NEW asked \in BOOLEAN, NEW p \in 0 .. MaxPumps,
         NEW t \in {"none", "step", "backoff", "refresh"}, NEW waiting \in {0, 1},
         waiting = IF awaiting \/ asked THEN 1 ELSE 0,
         asked => ~awaiting /\ ~uuid /\ ~busy /\ queue # <<>>,
         ~asked => p = pumps,
         exchange # NoExchange => asked /\ t = "none",
         SessionStart(t, waiting, asked, p),
         UNCHANGED <<transfer, loggedIn, live>>
  PROVE  Inv'
  <1>1. /\ TypeOK /\ Bookkeeping /\ AnswersTheHead /\ NobodyStranded /\ OneSessionEvent
        /\ CursorFollowsQueue
    BY DEF Inv
  <1>2. CASE ~Duplicate /\ ~Deferred /\ ~loggedIn /\ SessionFail(waiting, p) /\ UNCHANGED exchange
    <2>1. exchange' = NoExchange
      BY <1>1, <1>2 DEF Bookkeeping
    <2>2. waiting = 1 => ~busy
      BY <1>1 DEF Bookkeeping
    <2>3. waiting = 0 => /\ ~awaiting
                         /\ p > 0 \/ queue = <<>> \/ busy
                         /\ cursor /\ queue = <<>> => p > 0
      BY <1>1 DEF NobodyStranded, CursorFollowsQueue
    <2>4. QED
      BY <1>2, <2>1, <2>2, <2>3, SessionFailInv
  <1>3. ASSUME waiters' = waiting, awaiting' = (awaiting \/ asked), pumps' = p,
               UNCHANGED <<queue, calling, busy, cursor, uuid>>,
               exchange' = exchange \/ /\ exchange'.ask = "nonce" => ~uuid
                                       /\ exchange'.reply = "none",
               uuid => challenge' = "none",
               timer' \in {"none", "step", "backoff", "refresh"},
               challenge' \in {"none", "good", "bad"},
               sbusy' \in BOOLEAN, aged' \in BOOLEAN,
               exchange' \in Exchange \cup {NoExchange},
               sbusy' <=> exchange' # NoExchange,
               aged' => sbusy',
               exchange' # NoExchange => loggedIn /\ timer' = "none" /\ challenge' # "bad",
               exchange' # NoExchange \/ timer' # "none"
        PROVE  Inv'
    <2>1. TypeOK'
      BY <1>1, <1>3 DEF TypeOK
    <2>2. Bookkeeping' /\ OneSessionEvent'
      BY <1>1, <1>3 DEF Bookkeeping, OneSessionEvent
    <2>3. AnswersTheHead'
      BY <1>1, <1>3 DEF AnswersTheHead
    <2>4. NobodyStranded' /\ CursorFollowsQueue'
      BY <1>1, <1>3 DEF NobodyStranded, CursorFollowsQueue
    <2>5. QED
      BY <2>1, <2>2, <2>3, <2>4 DEF Inv
  <1>4. CASE /\ waiters' = waiting /\ awaiting' = (awaiting \/ asked) /\ pumps' = p
             /\ UNCHANGED <<queue, calling, busy, cursor>>
    <2>1. CASE Duplicate /\ timer' = t /\ UNCHANGED <<uuid, challenge, sbusy, aged, exchange>>
      BY <1>1, <1>3, <1>4, <2>1 DEF TypeOK, Bookkeeping, Duplicate
    <2>2. CASE ~Duplicate /\ Deferred /\ timer' = "step"
               /\ UNCHANGED <<uuid, challenge, sbusy, aged, exchange>>
      <3>1. exchange = NoExchange
        BY <1>1, <2>2 DEF Bookkeeping, Duplicate, Deferred
      <3>2. QED
        BY <1>1, <1>3, <1>4, <2>2, <3>1 DEF TypeOK, Bookkeeping
    <2>3. CASE ~Duplicate /\ ~Deferred /\ StartSends
      <3>1. PICK ask \in {"nonce", "response", "keepalive"} :
              Send(ask) /\ (ask = "nonce" => ~uuid) /\ challenge # "bad"
        BY <1>1, <2>3 DEF StartSends, Bookkeeping
      <3>2. /\ exchange' \in Exchange /\ exchange' # NoExchange
            /\ sbusy' /\ ~aged' /\ sbusy' \in BOOLEAN /\ aged' \in BOOLEAN
            /\ exchange'.ask = ask /\ exchange'.reply = "none"
            /\ timer' = "none"
            /\ UNCHANGED <<uuid, challenge>>
        BY <3>1 DEF Send, Exchange, NoExchange
      <3>3. loggedIn
        BY <2>3 DEF StartSends
      <3>4. QED
        BY <1>1, <1>3, <1>4, <3>1, <3>2, <3>3 DEF TypeOK, Bookkeeping
    <2>4. CASE ~Duplicate /\ ~Deferred /\ ChallengeUnusable
      BY <1>1, <1>3, <1>4, <2>4 DEF ChallengeUnusable, TypeOK, Bookkeeping
    <2>5. QED
      BY <1>4, <2>1, <2>2, <2>3, <2>4, <1>2 DEF SessionStart
  <1>5. QED
    BY <1>2, <1>4 DEF SessionStart

(* The pump that has nothing to do; that finds the queue empty; that waits  *)
(* for a session; that sends the head of the queue.                         *)
LEMMA PumpInv == ASSUME Inv, Pump PROVE Inv'
  <1>1. /\ TypeOK /\ Bookkeeping /\ AnswersTheHead /\ NobodyStranded /\ OneSessionEvent
        /\ CursorFollowsQueue
    BY DEF Inv
  <1>2. pumps > 0 /\ pumps - 1 \in 0 .. MaxPumps /\ UNCHANGED <<loggedIn, live>>
    BY <1>1, MaxPumpsAssumption DEF Pump, TypeOK
  <1>3. CASE /\ busy \/ (queue # <<>> /\ ~uuid /\ awaiting)
             /\ pumps' = pumps - 1
             /\ UNCHANGED <<queue, calling, busy, awaiting, cursor, sessionVars, exchange, transfer>>
    <2>1. TypeOK'
      BY <1>1, <1>2, <1>3 DEF TypeOK, sessionVars
    <2>2. Bookkeeping' /\ OneSessionEvent' /\ AnswersTheHead'
      BY <1>1, <1>2, <1>3 DEF Bookkeeping, OneSessionEvent, AnswersTheHead, sessionVars
    <2>3. NobodyStranded' /\ CursorFollowsQueue'
      BY <1>1, <1>3 DEF AnswersTheHead, NobodyStranded, CursorFollowsQueue, sessionVars
    <2>4. QED
      BY <2>1, <2>2, <2>3 DEF Inv
  <1>4. CASE /\ ~busy /\ queue = <<>>
             /\ cursor' = FALSE
             /\ pumps' = pumps - 1
             /\ UNCHANGED <<queue, calling, busy, awaiting, sessionVars, exchange, transfer>>
    <2>1. TypeOK'
      <3>1. cursor' \in BOOLEAN /\ pumps' \in 0 .. MaxPumps
        BY <1>2, <1>4
      <3>2. UNCHANGED <<queue, calling, busy, awaiting, transfer, uuid, challenge, waiters, sbusy, aged,
                        exchange, timer, loggedIn, live>>
        BY <1>2, <1>4 DEF sessionVars
      <3>3. QED
        BY <1>1, <3>1, <3>2 DEF TypeOK
    <2>2. Bookkeeping' /\ OneSessionEvent' /\ AnswersTheHead'
      BY <1>1, <1>2, <1>4 DEF Bookkeeping, OneSessionEvent, AnswersTheHead, sessionVars
    <2>3. NobodyStranded' /\ CursorFollowsQueue'
      BY <1>1, <1>4 DEF NobodyStranded, CursorFollowsQueue, sessionVars
    <2>4. QED
      BY <2>1, <2>2, <2>3 DEF Inv
  <1>5. CASE /\ ~busy /\ queue # <<>> /\ ~uuid /\ ~awaiting
             /\ SessionStart(timer, waiters + 1, TRUE, pumps - 1)
             /\ UNCHANGED transfer
    <2>1. waiters + 1 = 1
      BY <1>1, <1>5 DEF Bookkeeping
    <2>2. timer \in {"none", "step", "backoff", "refresh"} /\ (exchange # NoExchange => timer = "none")
      BY <1>1 DEF TypeOK, OneSessionEvent
    <2>3. SessionStart(timer, 1, TRUE, pumps - 1)
      BY <1>5, <2>1
    <2>4. QED
      BY <1>2, <1>5, <2>2, <2>3, SessionStartInv
  <1>6. CASE /\ ~busy /\ queue # <<>> /\ uuid
             /\ busy' = TRUE
             /\ transfer' = [of |-> Head(queue), reply |-> "none"]
             /\ pumps' = pumps - 1
             /\ UNCHANGED <<queue, calling, awaiting, cursor, sessionVars, exchange>>
    <2>1. transfer' \in Transfer /\ transfer' # NoTransfer /\ transfer'.of = Head(queue')
      <3>1. Head(queue) \in Request
        BY <1>1, <1>6, HeadTailProperties DEF TypeOK
      <3>2. transfer'.reply = "none" /\ transfer' \in Transfer /\ transfer'.of = Head(queue')
        BY <1>6, <3>1 DEF Transfer
      <3>3. QED
        <4>1. transfer'.of # "nothing" /\ NoTransfer.of = "nothing"
          BY <1>6, <3>1, RequestAssumption DEF NoTransfer
        <4>2. QED
          BY <3>2, <4>1
    <2>2. TypeOK'
      BY <1>1, <1>2, <1>6, <2>1 DEF TypeOK, sessionVars
    <2>3. Bookkeeping' /\ OneSessionEvent'
      <3>1. ~awaiting /\ UNCHANGED <<awaiting, uuid, challenge, waiters, sbusy, aged, timer, exchange, loggedIn>>
        BY <1>1, <1>2, <1>6 DEF Bookkeeping, sessionVars
      <3>2. QED
        BY <1>1, <3>1 DEF Bookkeeping, OneSessionEvent
    <2>4. AnswersTheHead'
      BY <1>6, <2>1 DEF AnswersTheHead
    <2>5. NobodyStranded' /\ CursorFollowsQueue'
      BY <1>1, <1>6 DEF NobodyStranded, CursorFollowsQueue, sessionVars
    <2>6. QED
      BY <2>2, <2>3, <2>4, <2>5 DEF Inv
  <1>7. QED
    BY <1>3, <1>4, <1>5, <1>6 DEF Pump

(* The timer fires when nothing is being exchanged. *)
LEMMA TimerInv == ASSUME Inv, TimerFires PROVE Inv'
  <1>1. waiters \in {0, 1} /\ waiters = IF awaiting \/ FALSE THEN 1 ELSE 0
    BY DEF Inv, TypeOK, Bookkeeping
  <1>2. pumps \in 0 .. MaxPumps
    BY DEF Inv, TypeOK
  <1>3. exchange = NoExchange
    BY DEF Inv, OneSessionEvent, TimerFires
  <1>4. SessionStart("none", waiters, FALSE, pumps) /\ UNCHANGED <<transfer, loggedIn, live>>
    BY DEF TimerFires
  <1>5. QED
    BY <1>1, <1>2, <1>3, <1>4, SessionStartInv

(* The session's transfer ends: the next step is scheduled, and a grant    *)
(* pumps for the queue that waited.                                        *)
LEMMA ExchangeEndsInv == ASSUME Inv, ExchangeEnds PROVE Inv'
  <1>1. /\ TypeOK /\ Bookkeeping /\ AnswersTheHead /\ NobodyStranded /\ OneSessionEvent
        /\ CursorFollowsQueue
    BY DEF Inv
  <1>2. exchange' = NoExchange /\ UNCHANGED <<transfer, loggedIn, live>>
    BY DEF ExchangeEnds
  <1>3. CASE SessionFail(waiters, pumps)
    <2>1. waiters \in {0, 1} /\ pumps \in 0 .. MaxPumps
      BY <1>1 DEF TypeOK
    <2>2. waiters = 1 => ~busy
      BY <1>1 DEF Bookkeeping
    <2>3. waiters = 0 => /\ ~awaiting
                         /\ pumps > 0 \/ queue = <<>> \/ busy
                         /\ cursor /\ queue = <<>> => pumps > 0
      BY <1>1 DEF Bookkeeping, NobodyStranded, CursorFollowsQueue
    <2>4. QED
      BY <1>2, <1>3, <2>1, <2>2, <2>3, SessionFailInv
  <1>4. ASSUME UNCHANGED <<queue, calling, busy, cursor>>,
               ~sbusy', ~aged', sbusy' \in BOOLEAN, aged' \in BOOLEAN,
               uuid' \in BOOLEAN, awaiting' \in BOOLEAN,
               challenge' \in {"none", "good", "bad"}, uuid' => challenge' = "none",
               timer' \in {"step", "refresh"},
               pumps' \in 0 .. MaxPumps,
               waiters' = IF awaiting' THEN 1 ELSE 0,
               awaiting' => awaiting /\ ~uuid',
               awaiting /\ ~awaiting' => pumps' > 0,
               pumps' = pumps \/ pumps' > 0
        PROVE  Inv'
    <2>1. TypeOK'
      BY <1>1, <1>2, <1>4 DEF TypeOK
    <2>2. Bookkeeping' /\ OneSessionEvent'
      BY <1>1, <1>2, <1>4 DEF Bookkeeping, OneSessionEvent, NoExchange
    <2>3. AnswersTheHead'
      BY <1>1, <1>2, <1>4 DEF AnswersTheHead
    <2>4. NobodyStranded' /\ CursorFollowsQueue'
      BY <1>1, <1>4 DEF NobodyStranded, CursorFollowsQueue
    <2>5. QED
      BY <2>1, <2>2, <2>3, <2>4 DEF Inv
  <1>5. CASE Understood /\ sbusy' = FALSE /\ aged' = FALSE
    <2>1. CASE /\ exchange.reply \in {"good", "bad"}
               /\ challenge' = exchange.reply /\ timer' = "step"
               /\ UNCHANGED <<queueVars, uuid, waiters>>
      BY <1>1, <1>4, <1>5, <2>1 DEF TypeOK, Bookkeeping, queueVars
    <2>2. CASE /\ exchange.reply = "granted"
               /\ uuid' = TRUE /\ challenge' = "none"
               /\ ScheduleRefresh /\ FlushWaiters
               /\ UNCHANGED <<queue, calling, busy, cursor>>
      <3>1. /\ waiters' = 0 /\ ~awaiting' /\ awaiting' \in BOOLEAN
            /\ awaiting => pumps' > 0
            /\ pumps' = pumps \/ pumps' > 0
            /\ pumps' \in 0 .. MaxPumps
        BY <1>1, <2>2, PumpSoonType DEF FlushWaiters, TypeOK, Bookkeeping
      <3>2. QED
        BY <1>4, <1>5, <2>2, <3>1 DEF ScheduleRefresh
    <2>3. CASE /\ exchange.reply = "refreshed"
               /\ ScheduleRefresh
               /\ UNCHANGED <<queueVars, uuid, challenge, waiters>>
      BY <1>1, <1>4, <1>5, <2>3 DEF TypeOK, Bookkeeping, queueVars, ScheduleRefresh
    <2>4. CASE /\ exchange.reply = "expired"
               /\ uuid' = FALSE /\ challenge' = "none" /\ timer' = "step"
               /\ UNCHANGED <<queueVars, waiters>>
      BY <1>1, <1>4, <1>5, <2>4 DEF TypeOK, Bookkeeping, queueVars
    <2>5. QED
      BY <1>5, <2>1, <2>2, <2>3, <2>4 DEF Understood
  <1>6. QED
    BY <1>3, <1>5 DEF ExchangeEnds

(* The queue's transfer ends: its head is answered and the next pump due.  *)
LEMMA TransferEndsInv == ASSUME Inv, TransferEnds PROVE Inv'
  <1>1. /\ TypeOK /\ Bookkeeping /\ AnswersTheHead /\ NobodyStranded /\ OneSessionEvent
        /\ CursorFollowsQueue
    BY DEF Inv
  <1>2. /\ queue # <<>> /\ busy /\ ~awaiting
        /\ transfer' = NoTransfer
        /\ UNCHANGED <<challenge, waiters, sbusy, aged, timer, exchange, loggedIn, live>>
    BY <1>1 DEF TransferEnds, AnswersTheHead, Bookkeeping
  <1>3. PICK chain \in Chained :
          /\ queue' = Tail(queue) \o chain
          /\ calling' = (calling \ {Head(queue)}) \cup Asked(chain)
          /\ cursor' = (cursor \/ chain # <<>>)
          /\ pumps' = PumpSoon(IF chain = <<>> THEN pumps ELSE PumpSoon(pumps))
    BY <1>2 DEF TransferEnds, Rest
  <1>4. busy' = FALSE /\ uuid' = (uuid /\ transfer.reply # "session_expired") /\ UNCHANGED awaiting
    BY <1>2 DEF TransferEnds
  <1>5. chain \in Seq(Request) /\ Asked(chain) \subseteq Request
    BY ChainedType
  <1>6. queue' \in Seq(Request) /\ calling' \subseteq Request
    BY <1>1, <1>2, <1>3, <1>5, RestType DEF TypeOK
  <1>7. pumps' \in 0 .. MaxPumps /\ pumps' > 0
    BY <1>1, <1>3, PumpSoonType DEF TypeOK
  <1>8. cursor' = TRUE
    BY <1>1, <1>2, <1>3 DEF TypeOK, CursorFollowsQueue
  <1>9. TypeOK'
    BY <1>1, <1>2, <1>4, <1>6, <1>7, <1>8 DEF TypeOK
  <1>10. Bookkeeping' /\ OneSessionEvent' /\ AnswersTheHead'
    BY <1>1, <1>2, <1>4 DEF TypeOK, Bookkeeping, OneSessionEvent, AnswersTheHead
  <1>11. NobodyStranded' /\ CursorFollowsQueue'
    BY <1>2, <1>4, <1>7, <1>8 DEF NobodyStranded, CursorFollowsQueue
  <1>12. QED
    BY <1>9, <1>10, <1>11 DEF Inv

(* What the server and the connection do changes what came back and nothing *)
(* the client has seen.                                                     *)
LEMMA ServerInv ==
  ASSUME Inv, LogIn \/ Lapse \/ ServerSession \/ ServerAnswer \/ LostOnTheWay \/ Ages
  PROVE  Inv'
  <1>1. /\ TypeOK /\ Bookkeeping /\ AnswersTheHead /\ NobodyStranded /\ OneSessionEvent
        /\ CursorFollowsQueue
    BY DEF Inv
  <1>2. ASSUME UNCHANGED <<queueVars, uuid, challenge, waiters, sbusy, timer>>,
               aged' \in BOOLEAN, aged' => sbusy,
               loggedIn' \in BOOLEAN, loggedIn => loggedIn', live' \in BOOLEAN,
               transfer' \in Transfer \cup {NoTransfer},
               transfer' = NoTransfer <=> transfer = NoTransfer,
               transfer'.of = transfer.of,
               exchange' \in Exchange \cup {NoExchange},
               exchange' = NoExchange <=> exchange = NoExchange,
               exchange'.ask = exchange.ask,
               exchange'.reply \in {"good", "bad"} => exchange.ask = "nonce"
        PROVE  Inv'
    <2>1. TypeOK'
      BY <1>1, <1>2 DEF TypeOK, queueVars
    <2>2. Bookkeeping' /\ OneSessionEvent'
      BY <1>1, <1>2 DEF Bookkeeping, OneSessionEvent, queueVars
    <2>3. AnswersTheHead' /\ NobodyStranded' /\ CursorFollowsQueue'
      BY <1>1, <1>2 DEF AnswersTheHead, NobodyStranded, CursorFollowsQueue, queueVars
    <2>4. QED
      BY <2>1, <2>2, <2>3 DEF Inv
  <1>3. exchange.reply \in {"good", "bad"} => exchange.ask = "nonce"
    BY <1>1 DEF Bookkeeping
  <1>4. CASE LogIn \/ Lapse \/ Ages
    BY <1>1, <1>2, <1>3, <1>4
       DEF LogIn, Lapse, Ages, TypeOK, Bookkeeping, queueVars, sessionVars
  <1>5. ASSUME NEW reply \in {"good", "bad", "granted", "refreshed", "expired", "error"},
               exchange # NoExchange,
               exchange' = [exchange EXCEPT !.reply = reply],
               reply \in {"good", "bad"} => exchange.ask = "nonce",
               live' \in BOOLEAN,
               UNCHANGED <<queueVars, sessionVars, transfer, loggedIn>>
        PROVE  Inv'
    <2>1. exchange \in Exchange
      BY <1>1, <1>5 DEF TypeOK
    <2>2. /\ exchange' \in Exchange /\ exchange' # NoExchange
          /\ exchange'.ask = exchange.ask /\ exchange'.reply = reply
      BY <1>5, <2>1 DEF Exchange, NoExchange
    <2>3. QED
      BY <1>1, <1>2, <1>5, <2>2 DEF TypeOK, Bookkeeping, sessionVars
  <1>6. ASSUME NEW reply \in {"answer", "session_expired", "error"},
               transfer # NoTransfer,
               transfer' = [transfer EXCEPT !.reply = reply],
               UNCHANGED <<queueVars, sessionVars, exchange, loggedIn, live>>
        PROVE  Inv'
    <2>1. transfer \in Transfer
      BY <1>1, <1>6 DEF TypeOK
    <2>2. /\ transfer' \in Transfer /\ transfer' # NoTransfer
          /\ transfer'.of = transfer.of
      BY <1>6, <2>1, RequestAssumption DEF Transfer, NoTransfer
    <2>3. QED
      BY <1>1, <1>2, <1>3, <1>6, <2>2 DEF TypeOK, Bookkeeping, sessionVars
  <1>7. CASE ServerSession
    BY <1>1, <1>5, <1>7 DEF ServerSession, TypeOK
  <1>8. CASE ServerAnswer
    BY <1>6, <1>8 DEF ServerAnswer
  <1>9. CASE LostOnTheWay
    <2>1. CASE /\ exchange.reply \notin {"none", "error"}
               /\ exchange' = [exchange EXCEPT !.reply = "error"] /\ UNCHANGED transfer
      <3>1. exchange # NoExchange
        BY <2>1 DEF NoExchange
      <3>2. QED
        BY <1>1, <1>5, <1>9, <2>1, <3>1 DEF LostOnTheWay, TypeOK
    <2>2. CASE /\ transfer.reply \notin {"none", "error"}
               /\ transfer' = [transfer EXCEPT !.reply = "error"] /\ UNCHANGED exchange
      <3>1. transfer # NoTransfer
        BY <2>2 DEF NoTransfer
      <3>2. QED
        BY <1>6, <1>9, <2>2, <3>1 DEF LostOnTheWay
    <2>3. QED
      BY <1>9, <2>1, <2>2 DEF LostOnTheWay
  <1>10. QED
    BY <1>4, <1>7, <1>8, <1>9

(* Nothing happens to the client. *)
LEMMA StutterInv == ASSUME Inv, UNCHANGED vars PROVE Inv'
  BY DEF Inv, TypeOK, Bookkeeping, AnswersTheHead, NobodyStranded, OneSessionEvent,
     CursorFollowsQueue, vars, queueVars, sessionVars

(* Every step keeps the invariant. *)
LEMMA Invariance == Spec => []Inv
  <1>1. Inv /\ [Next]_vars => Inv'
    BY EnqueueInv, PumpInv, TransferEndsInv, TimerInv, ExchangeEndsInv, ServerInv, StutterInv
       DEF Next
  <1>2. QED
    BY <1>1, InitInv, PTL DEF Spec

-----------------------------------------------------------------------------
(* The client's state is of its type, however many requests and pumps. *)
THEOREM TypeCorrect == Spec => []TypeOK
  <1>1. Inv => TypeOK
    BY DEF Inv
  <1>2. QED
    BY <1>1, Invariance, PTL

(* No answer is ever given to a request that did not ask for it: what the   *)
(* connection carries is the head of the queue.                             *)
THEOREM AnswersGoToTheHead == Spec => []AnswersTheHead
  <1>1. Inv => AnswersTheHead
    BY DEF Inv
  <1>2. QED
    BY <1>1, Invariance, PTL

(* The queue is never left without something that will come back to it: a   *)
(* transfer, a pump, or the session's next event.                           *)
THEOREM NobodyIsStranded == Spec => []NobodyStranded
  <1>1. Inv => NobodyStranded
    BY DEF Inv
  <1>2. QED
    BY <1>1, Invariance, PTL

(* Two negotiations never chase each other, and a session held is always    *)
(* about to be refreshed.                                                   *)
THEOREM OneSessionEventAtATime == Spec => []OneSessionEvent
  <1>1. Inv => OneSessionEvent
    BY DEF Inv
  <1>2. QED
    BY <1>1, Invariance, PTL

(* The hourglass never leaks and never drops early. *)
THEOREM CursorIsRight == Spec => []CursorFollowsQueue
  <1>1. Inv => CursorFollowsQueue
    BY DEF Inv
  <1>2. QED
    BY <1>1, Invariance, PTL

-----------------------------------------------------------------------------
(* A sequence in which nothing occurs twice. *)
Once(q) == \A i, j \in DOMAIN q : q[i] = q[j] => i = j

(* What the tail of a queue without repetition asks for. *)
LEMMA TailOnce ==
  ASSUME NEW q \in Seq(Request), q # <<>>, Once(q)
  PROVE  Once(Tail(q)) /\ Asked(Tail(q)) = Asked(q) \ {Head(q)}
  <1>1. /\ Len(q) \in Nat \ {0} /\ DOMAIN q = 1 .. Len(q)
        /\ Tail(q) \in Seq(Request) /\ Len(Tail(q)) = Len(q) - 1
        /\ DOMAIN Tail(q) = 1 .. Len(q) - 1
        /\ \A i \in 1 .. Len(q) - 1 : Tail(q)[i] = q[i + 1]
        /\ Head(q) = q[1]
    BY HeadTailProperties, LenProperties
  <1>2. Once(Tail(q))
    BY <1>1 DEF Once
  <1>3. ASSUME NEW x \in Asked(Tail(q)) PROVE x \in Asked(q) \ {Head(q)}
    <2>1. PICK i \in 1 .. Len(q) - 1 : x = Tail(q)[i]
      BY <1>1, <1>3 DEF Asked
    <2>2. i + 1 \in DOMAIN q /\ x = q[i + 1] /\ i + 1 # 1 /\ 1 \in DOMAIN q
      BY <1>1, <2>1
    <2>3. QED
      BY <1>1, <2>2 DEF Asked, Once
  <1>4. ASSUME NEW x \in Asked(q), x # Head(q) PROVE x \in Asked(Tail(q))
    <2>1. PICK i \in 1 .. Len(q) : x = q[i]
      BY <1>1, <1>4 DEF Asked
    <2>2. i - 1 \in 1 .. Len(q) - 1 /\ Tail(q)[i - 1] = x
      BY <1>1, <1>4, <2>1
    <2>3. QED
      BY <1>1, <2>2 DEF Asked
  <1>5. QED
    BY <1>2, <1>3, <1>4

(* What two sequences end to end ask for. *)
LEMMA ConcatAsked ==
  ASSUME NEW S, NEW q \in Seq(S), NEW s \in Seq(S)
  PROVE  q \o s \in Seq(S) /\ Asked(q \o s) = Asked(q) \cup Asked(s)
  <1>1. /\ Len(q) \in Nat /\ Len(s) \in Nat
        /\ DOMAIN q = 1 .. Len(q) /\ DOMAIN s = 1 .. Len(s)
        /\ DOMAIN (q \o s) = 1 .. Len(q) + Len(s)
        /\ \A i \in 1 .. Len(q) : (q \o s)[i] = q[i]
        /\ \A i \in 1 .. Len(s) : (q \o s)[Len(q) + i] = s[i]
    BY ConcatProperties, LenProperties
  <1>2. \A i \in DOMAIN (q \o s) :
          \/ i \in 1 .. Len(q) /\ (q \o s)[i] = q[i]
          \/ i - Len(q) \in 1 .. Len(s) /\ (q \o s)[i] = s[i - Len(q)]
    <2>1. TAKE i \in DOMAIN (q \o s)
    <2>2. CASE i <= Len(q)
      BY <1>1, <2>2
    <2>3. CASE i > Len(q)
      <3>1. i - Len(q) \in 1 .. Len(s) /\ Len(q) + (i - Len(q)) = i
        BY <1>1, <2>3
      <3>2. QED
        BY <1>1, <3>1
    <2>4. QED
      BY <1>1, <2>2, <2>3
  <1>3. Asked(q \o s) \subseteq Asked(q) \cup Asked(s)
    BY <1>1, <1>2 DEF Asked
  <1>4. Asked(q) \subseteq Asked(q \o s)
    BY <1>1 DEF Asked
  <1>5. Asked(s) \subseteq Asked(q \o s)
    <2>1. SUFFICES ASSUME NEW i \in DOMAIN s PROVE s[i] \in Asked(q \o s)
      BY DEF Asked
    <2>2. Len(q) + i \in DOMAIN (q \o s) /\ (q \o s)[Len(q) + i] = s[i]
      <3>1. i \in 1 .. Len(s) /\ Len(q) + i \in 1 .. Len(q) + Len(s)
        BY <1>1
      <3>2. QED
        BY <1>1, <3>1
    <2>3. QED
      BY <2>2 DEF Asked
  <1>6. QED
    BY <1>3, <1>4, <1>5, ConcatProperties

(* Two sequences without repetition and nothing in common, end to end. *)
LEMMA ConcatOnce ==
  ASSUME NEW q \in Seq(Request), NEW s \in Seq(Request),
         Once(q), Once(s), Asked(q) \cap Asked(s) = {}
  PROVE  Once(q \o s) /\ Asked(q \o s) = Asked(q) \cup Asked(s)
  <1>1. /\ Len(q) \in Nat /\ Len(s) \in Nat
        /\ DOMAIN q = 1 .. Len(q) /\ DOMAIN s = 1 .. Len(s)
        /\ DOMAIN (q \o s) = 1 .. Len(q) + Len(s)
        /\ \A i \in 1 .. Len(q) : (q \o s)[i] = q[i]
        /\ \A i \in 1 .. Len(s) : (q \o s)[Len(q) + i] = s[i]
    BY ConcatProperties, LenProperties
  <1>2. \A i \in DOMAIN (q \o s) :
          \/ i \in 1 .. Len(q) /\ (q \o s)[i] = q[i]
          \/ i - Len(q) \in 1 .. Len(s) /\ (q \o s)[i] = s[i - Len(q)]
    <2>1. TAKE i \in DOMAIN (q \o s)
    <2>2. CASE i <= Len(q)
      BY <1>1, <2>2
    <2>3. CASE i > Len(q)
      <3>1. i - Len(q) \in 1 .. Len(s) /\ Len(q) + (i - Len(q)) = i
        BY <1>1, <2>3
      <3>2. QED
        BY <1>1, <3>1
    <2>4. QED
      BY <1>1, <2>2, <2>3
  <1>3. \A i \in 1 .. Len(q), j \in 1 .. Len(s) : q[i] # s[j]
    BY <1>1 DEF Asked
  <1>4. Once(q \o s)
    <2>1. SUFFICES ASSUME NEW i \in DOMAIN (q \o s), NEW j \in DOMAIN (q \o s),
                          (q \o s)[i] = (q \o s)[j]
                   PROVE  i = j
      BY DEF Once
    <2>2. CASE i \in 1 .. Len(q) /\ j \in 1 .. Len(q)
      BY <1>1, <2>1, <2>2 DEF Once
    <2>3. CASE i \notin 1 .. Len(q) /\ j \notin 1 .. Len(q)
      <3>1. i - Len(q) \in DOMAIN s /\ j - Len(q) \in DOMAIN s /\ s[i - Len(q)] = s[j - Len(q)]
        BY <1>1, <1>2, <2>1, <2>3
      <3>2. i - Len(q) = j - Len(q)
        BY <3>1 DEF Once
      <3>3. QED
        BY <1>1, <3>2
    <2>4. QED
      BY <1>2, <1>3, <2>1, <2>2, <2>3
  <1>5. QED
    BY <1>4, ConcatAsked

(* What an event asks for in one go is a sequence of requests without       *)
(* repetition, of those that were not taken.                                *)
LEMMA ChainsOnce ==
  ASSUME NEW taken, NEW chain \in Chains(taken)
  PROVE  /\ chain \in Seq(Request) /\ Once(chain)
         /\ Asked(chain) \subseteq Request /\ Asked(chain) \cap taken = {}
  <1>1. CASE chain = <<>>
    BY <1>1, EmptySeq DEF Once, Asked
  <1>2. ASSUME NEW r \in Request \ taken, chain = <<r>>
        PROVE  /\ chain \in Seq(Request) /\ Once(chain)
               /\ Asked(chain) \subseteq Request /\ Asked(chain) \cap taken = {}
    <2>1. chain \in Seq(Request)
      BY <1>2
    <2>2. DOMAIN chain = {1} /\ chain[1] = r
      BY <1>2
    <2>3. QED
      BY <2>1, <2>2 DEF Once, Asked
  <1>3. ASSUME NEW r \in Request \ taken, NEW s \in Request \ taken, r # s, chain = <<r, s>>
        PROVE  /\ chain \in Seq(Request) /\ Once(chain)
               /\ Asked(chain) \subseteq Request /\ Asked(chain) \cap taken = {}
    <2>1. chain \in Seq(Request)
      BY <1>3
    <2>2. DOMAIN chain = {1, 2} /\ chain[1] = r /\ chain[2] = s
      BY <1>3
    <2>3. QED
      BY <1>3, <2>1, <2>2 DEF Once, Asked
  <1>4. QED
    <2>1. CASE \E s \in (Request \ taken) \X (Request \ taken) : s[1] # s[2] /\ chain = s
      <3>1. PICK s \in (Request \ taken) \X (Request \ taken) : s[1] # s[2] /\ chain = s
        BY <2>1
      <3>2. s[1] \in Request \ taken /\ s[2] \in Request \ taken /\ chain = <<s[1], s[2]>>
        BY <3>1
      <3>3. QED
        BY <1>3, <3>1, <3>2
    <2>2. QED
      BY <1>1, <1>2, <2>1 DEF Chains

(* The queue's promise in terms of what it makes sure of. *)
Orderly == QueueTypeOK /\ NoRequestForgotten

LEMMA AskIsOrderly ==
  ASSUME Orderly, NEW chain \in Chains(calling), Ask(chain)
  PROVE  Orderly' /\ Asked(queue') = Asked(queue) \cup Asked(chain)
  <1>1. queue \in Seq(Request) /\ Once(queue) /\ Asked(queue) = calling
    BY DEF Orderly, QueueTypeOK, NoRequestForgotten, Once
  <1>2. /\ chain \in Seq(Request) /\ Once(chain)
        /\ Asked(chain) \subseteq Request /\ Asked(queue) \cap Asked(chain) = {}
    BY <1>1, ChainsOnce
  <1>3. Once(queue') /\ Asked(queue') = Asked(queue) \cup Asked(chain)
    BY <1>1, <1>2, ConcatOnce DEF Ask
  <1>4. queue' \in Seq(Request)
    BY <1>1, <1>2, ConcatProperties DEF Ask
  <1>5. QED
    BY <1>1, <1>2, <1>3, <1>4 DEF Ask, Orderly, QueueTypeOK, NoRequestForgotten, Once, Asked

LEMMA AnswerIsOrderly ==
  ASSUME Orderly, queue # <<>>, NEW chain \in Chains(calling \ {Head(queue)}), Answer(chain)
  PROVE  /\ Orderly'
         /\ Head(queue) \in Asked(queue)
         /\ Asked(queue') = (Asked(queue) \ {Head(queue)}) \cup Asked(chain)
  <1>1. queue \in Seq(Request) /\ Once(queue) /\ Asked(queue) = calling
    BY DEF Orderly, QueueTypeOK, NoRequestForgotten, Once
  <1>2. /\ Tail(queue) \in Seq(Request) /\ Once(Tail(queue))
        /\ Asked(Tail(queue)) = Asked(queue) \ {Head(queue)}
    BY <1>1, TailOnce, HeadTailProperties
  <1>3. /\ chain \in Seq(Request) /\ Once(chain)
        /\ Asked(chain) \subseteq Request /\ Asked(Tail(queue)) \cap Asked(chain) = {}
    BY <1>1, <1>2, ChainsOnce
  <1>4. Once(queue') /\ Asked(queue') = (Asked(queue) \ {Head(queue)}) \cup Asked(chain)
    BY <1>2, <1>3, ConcatOnce DEF Answer
  <1>5. queue' \in Seq(Request)
    BY <1>2, <1>3, ConcatProperties DEF Answer
  <1>6. Head(queue) \in Asked(queue)
    <2>1. 1 \in DOMAIN queue /\ Head(queue) = queue[1]
      BY <1>1, HeadTailProperties, LenProperties
    <2>2. QED
      BY <2>1 DEF Asked
  <1>7. QED
    BY <1>1, <1>3, <1>4, <1>5, <1>6 DEF Answer, Orderly, QueueTypeOK, NoRequestForgotten, Once, Asked

LEMMA FailIsOrderly ==
  ASSUME Orderly, NEW chain \in Chains(calling \ Asked(queue)), Fail(chain)
  PROVE  Orderly'
  <1>1. chain \in Seq(Request) /\ Once(chain) /\ Asked(chain) \subseteq Request
    BY ChainsOnce
  <1>2. calling' = Asked(chain) /\ queue' = chain
    BY DEF Fail, Orderly, NoRequestForgotten
  <1>3. QED
    BY <1>1, <1>2 DEF Orderly, QueueTypeOK, NoRequestForgotten, Once, Asked

(* Whoever keeps the queue's promise forgets nobody. *)
LEMMA PromiseKept == QueueSpec => []Orderly
  <1>1. QueueInit => Orderly
    BY EmptySeq DEF QueueInit, Orderly, QueueTypeOK, NoRequestForgotten, Asked
  <1>2. Orderly /\ [QueueNext]_<<queue, calling>> => Orderly'
    BY AskIsOrderly, AnswerIsOrderly, FailIsOrderly
       DEF QueueNext, Orderly, QueueTypeOK, NoRequestForgotten, Asked
  <1>3. QED
    BY <1>1, <1>2, PTL DEF QueueSpec

-----------------------------------------------------------------------------
(* A request chained is one that may be asked for. *)
LEMMA ChainedAllowed ==
  ASSUME NEW chain \in Chained, NEW taken, taken \subseteq calling
  PROVE  chain \in Chains(taken)
BY DEF Chained, Chains

(* The queue failed is the promise's failure, ... *)
LEMMA FailAllFails ==
  ASSUME NEW p, FailAll(p)
  PROVE  QueueNext
  <1>1. PICK chain \in Chained : Fail(chain)
    BY DEF FailAll, Fail
  <1>2. chain \in Chains(calling \ Asked(queue))
    BY ChainedAllowed
  <1>3. QED
    BY <1>1, <1>2 DEF QueueNext

(* ... the end of a transfer its answer, ... *)
LEMMA TransferEndsAnswers ==
  ASSUME TransferEnds, queue # <<>>
  PROVE  QueueNext
  <1>1. PICK chain \in Chained : Answer(chain)
    BY DEF TransferEnds, Rest, Answer
  <1>2. chain \in Chains(calling \ {Head(queue)})
    BY ChainedAllowed
  <1>3. QED
    BY <1>1, <1>2 DEF QueueNext

(* ... and the session leaves the queue alone or fails it. *)
LEMMA SessionStartQueues ==
  ASSUME NEW t, NEW waiting, NEW asked, NEW p, SessionStart(t, waiting, asked, p)
  PROVE  QueueNext \/ UNCHANGED <<queue, calling>>
  <1>1. FailAll(p) \/ UNCHANGED <<queue, calling>>
    BY DEF SessionStart, SessionFail
  <1>2. QED
    BY <1>1, FailAllFails

LEMMA EnqueueAsks ==
  ASSUME TypeOK, NEW r \in Request, Enqueue(r)
  PROVE  QueueNext
  <1>1. <<r>> \in Chains(calling)
    BY DEF Chains, Enqueue
  <1>2. queue' = queue \o <<r>>
    BY DEF TypeOK, Enqueue
  <1>3. Asked(<<r>>) = {r}
    <2>1. DOMAIN <<r>> = {1} /\ <<r>>[1] = r
      OBVIOUS
    <2>2. QED
      BY <2>1 DEF Asked
  <1>4. Ask(<<r>>)
    BY <1>2, <1>3 DEF Ask, Enqueue
  <1>5. QED
    BY <1>1, <1>4 DEF QueueNext

(* Pumps, transfers, sessions, failures and lost answers come to a queue     *)
(* that answers what is asked once and in its turn, or fails it all at once. *)
THEOREM ImplementsQueue == Spec => QueueSpec
  <1>1. Init => QueueInit
    BY DEF Init, QueueInit
  <1>2. ASSUME TypeOK, [Next]_vars PROVE [QueueNext]_<<queue, calling>>
    <2>1. ASSUME NEW r \in Request, Enqueue(r) PROVE QueueNext
      BY <1>2, <2>1, EnqueueAsks
    <2>2. CASE Pump
      BY <2>2, SessionStartQueues DEF Pump
    <2>3. CASE TransferEnds
      BY <2>3, TransferEndsAnswers DEF TransferEnds, queueVars
    <2>4. CASE TimerFires
      BY <2>4, SessionStartQueues DEF TimerFires
    <2>5. CASE ExchangeEnds
      <3>1. FailAll(pumps) \/ UNCHANGED <<queue, calling>>
        BY <2>5 DEF ExchangeEnds, SessionFail, Understood, queueVars
      <3>2. QED
        BY <3>1, FailAllFails
    <2>6. CASE LogIn \/ Lapse \/ ServerSession \/ ServerAnswer \/ LostOnTheWay \/ Ages
      BY <2>6 DEF LogIn, Lapse, ServerSession, ServerAnswer, LostOnTheWay, Ages, queueVars
    <2>7. CASE UNCHANGED vars
      BY <2>7 DEF vars, queueVars
    <2>8. QED
      BY <1>2, <2>1, <2>2, <2>3, <2>4, <2>5, <2>6, <2>7 DEF Next
  <1>3. QED
    BY <1>1, <1>2, TypeCorrect, PTL DEF Spec, QueueSpec

(* Nobody who asked is dropped without an answer, and nobody is asked for   *)
(* twice, whatever the callbacks ask for in their turn.                     *)
THEOREM NobodyIsForgotten == Spec => []NoRequestForgotten
  <1>1. Orderly => NoRequestForgotten
    BY DEF Orderly
  <1>2. QED
    BY <1>1, ImplementsQueue, PromiseKept, PTL

-----------------------------------------------------------------------------
(* The panes and the certificate, over a queue that keeps its promise: the  *)
(* uses of what is outstanding stay what they are until it is answered.     *)
LEMMA OutstandingAsked ==
  ASSUME NEW u PROVE Outstanding(u) <=> \E r \in Asked(queue) : use[r] = u
BY DEF Outstanding, Asked

LEMMA OutstandingAskedNext ==
  ASSUME NEW u PROVE Outstanding(u)' <=> \E r \in Asked(queue') : use'[r] = u
BY DEF Outstanding, Asked

(* The uses asked for come to be those of the chain, and no others change.  *)
LEMMA ForUses ==
  ASSUME use \in [Request -> Use], NEW taken, NEW chain \in Chains(taken),
         NEW uses \in Seq(Use), For(chain, uses)
  PROVE  /\ use' \in [Request -> Use]
         /\ \A r \in Request \ Asked(chain) : use'[r] = use[r]
         /\ \A u : u \in Asked(uses) <=> \E r \in Asked(chain) : use'[r] = u
  <1>1. chain \in Seq(Request) /\ Once(chain) /\ Asked(chain) \subseteq Request
    BY ChainsOnce
  <1>2. DOMAIN chain = DOMAIN uses /\ \A i \in DOMAIN chain : uses[i] \in Use /\ chain[i] \in Request
    BY <1>1, LenProperties, ElementOfSeq DEF For
  <1>3. \A i \in DOMAIN chain : i = CHOOSE j \in DOMAIN chain : chain[j] = chain[i]
    BY <1>1 DEF Once
  <1>4. \A i \in DOMAIN chain : use'[chain[i]] = uses[i]
    BY <1>2, <1>3 DEF For
  <1>5. \A r \in Request \ Asked(chain) : use'[r] = use[r]
    BY DEF For, Asked
  <1>6. use' \in [Request -> Use]
    <2>1. \A r \in Request : use'[r] \in Use
      BY <1>2, <1>4, <1>5 DEF Asked
    <2>2. QED
      BY <2>1 DEF For
  <1>7. QED
    BY <1>2, <1>4, <1>5, <1>6 DEF Asked

(* What is asked for is outstanding, beside what was. *)
LEMMA AsksUses ==
  ASSUME Orderly, use \in [Request -> Use], NEW uses \in Seq(Use), Asks(uses)
  PROVE  /\ use' \in [Request -> Use]
         /\ \A u : Outstanding(u)' <=> Outstanding(u) \/ u \in Asked(uses)
  <1>1. PICK chain \in Chains(calling) : Ask(chain) /\ For(chain, uses)
    BY DEF Asks
  <1>2. Asked(queue') = Asked(queue) \cup Asked(chain)
    BY <1>1, AskIsOrderly
  <1>3. Asked(queue) \subseteq Request \ Asked(chain)
    BY <1>1, ChainsOnce DEF Orderly, QueueTypeOK, NoRequestForgotten
  <1>4. /\ use' \in [Request -> Use]
        /\ \A r \in Request \ Asked(chain) : use'[r] = use[r]
        /\ \A u : u \in Asked(uses) <=> \E r \in Asked(chain) : use'[r] = u
    BY <1>1, ForUses
  <1>5. QED
    BY <1>2, <1>3, <1>4, OutstandingAsked, OutstandingAskedNext

(* Of the uses outstanding an answer takes at most its own away. *)
LEMMA AnswersUses ==
  ASSUME Orderly, use \in [Request -> Use], NEW uses \in Seq(Use), NEW u, Answers(u, uses)
  PROVE  /\ use' \in [Request -> Use]
         /\ \A v : Outstanding(v) /\ v # u => Outstanding(v)'
         /\ \A v \in Asked(uses) : Outstanding(v)'
  <1>1. PICK chain \in Chains(calling \ {Head(queue)}) : Answer(chain) /\ For(chain, uses)
    BY DEF Answers
  <1>2. /\ Asked(queue') = (Asked(queue) \ {Head(queue)}) \cup Asked(chain)
        /\ queue # <<>> /\ use[Head(queue)] = u
    BY <1>1, AnswerIsOrderly DEF Answers
  <1>3. Asked(queue) \ {Head(queue)} \subseteq Request \ Asked(chain)
    BY <1>1, ChainsOnce DEF Orderly, QueueTypeOK, NoRequestForgotten
  <1>4. /\ use' \in [Request -> Use]
        /\ \A r \in Request \ Asked(chain) : use'[r] = use[r]
        /\ \A v : v \in Asked(uses) <=> \E r \in Asked(chain) : use'[r] = v
    BY <1>1, ForUses
  <1>5. QED
    BY <1>2, <1>3, <1>4, OutstandingAsked, OutstandingAskedNext

(* What an event of the panes may ask for. *)
LEMMA UsesType ==
  ASSUME NEW pane, NEW empty
  PROVE  /\ Cert \in Seq(Use) /\ WakePoll(pane, empty) \in Seq(Use)
         /\ Cert \o WakePoll(pane, empty) \in Seq(Use)
         /\ WakePoll(pane, empty) \o Cert \in Seq(Use)
         /\ \A u : u \in Asked(Cert) <=> CertWanted /\ u = "cert"
         /\ \A u : u \in Asked(WakePoll(pane, empty)) <=>
                     pane = "EmailGui" /\ EmailWakeAsks(empty) /\ u = "poll"
         /\ Asked(Cert \o WakePoll(pane, empty)) = Asked(Cert) \cup Asked(WakePoll(pane, empty))
         /\ Asked(WakePoll(pane, empty) \o Cert) = Asked(Cert) \cup Asked(WakePoll(pane, empty))
  <1>1. \A u \in Use : <<u>> \in Seq(Use) /\ DOMAIN <<u>> = {1} /\ <<u>>[1] = u
    OBVIOUS
  <1>2. <<>> \in Seq(Use) /\ DOMAIN <<>> = {}
    OBVIOUS
  <1>3. \A u \in Use : Asked(<<u>>) = {u}
    BY <1>1 DEF Asked
  <1>4. Asked(<<>>) = {}
    BY <1>2 DEF Asked
  <1>5. Cert = IF CertWanted THEN <<"cert">> ELSE <<>>
    BY DEF Cert
  <1>6. WakePoll(pane, empty) =
          IF pane = "EmailGui" /\ EmailWakeAsks(empty) THEN <<"poll">> ELSE <<>>
    BY DEF WakePoll, Poll
  <1>7. "cert" \in Use /\ "poll" \in Use
    BY DEF Use
  <1>8. Cert \in Seq(Use) /\ WakePoll(pane, empty) \in Seq(Use)
    BY <1>1, <1>2, <1>5, <1>6, <1>7, Zenon
  <1>9. /\ \A u : u \in Asked(Cert) <=> CertWanted /\ u = "cert"
        /\ \A u : u \in Asked(WakePoll(pane, empty)) <=>
                    pane = "EmailGui" /\ EmailWakeAsks(empty) /\ u = "poll"
    BY <1>3, <1>4, <1>5, <1>6, <1>7, Zenon
  <1>10. /\ Cert \o WakePoll(pane, empty) \in Seq(Use)
         /\ Asked(Cert \o WakePoll(pane, empty)) = Asked(Cert) \cup Asked(WakePoll(pane, empty))
    BY <1>8, ConcatAsked
  <1>11. /\ WakePoll(pane, empty) \o Cert \in Seq(Use)
         /\ Asked(WakePoll(pane, empty) \o Cert) = Asked(WakePoll(pane, empty)) \cup Asked(Cert)
    BY <1>8, ConcatAsked
  <1>12. Asked(WakePoll(pane, empty)) \cup Asked(Cert) = Asked(Cert) \cup Asked(WakePoll(pane, empty))
    OBVIOUS
  <1>13. QED
    BY <1>8, <1>9, <1>10, <1>11, <1>12

(* The proxy touches the queue through its interface only. *)
LEMMA ProxyQueues == ProxySpec => QueueSpec
  <1>1. ProxyInit => QueueInit
    BY DEF ProxyInit
  <1>2. [ProxyNext]_proxyVars => [QueueNext]_<<queue, calling>>
    <2>1. ASSUME NEW uses, Asks(uses) PROVE QueueNext
      BY <2>1 DEF Asks, QueueNext
    <2>2. ASSUME NEW uses, NEW u, Answers(u, uses) PROVE QueueNext
      BY <2>2 DEF Answers, QueueNext
    <2>3. CASE QueueFails
      BY <2>3 DEF QueueFails, QueueNext, Chains
    <2>4. CASE UNCHANGED proxyVars
      BY <2>4 DEF proxyVars
    <2>5. QED
      BY <2>1, <2>2, <2>3, <2>4 DEF ProxyNext, LogIntoAccount, OpenLaunchTabs, Select, Leave,
         GetMail, CheckEmailDue, ChangeTribe, TribeChanged, CertLoaded, MailPolled
  <1>3. QED
    BY <1>1, <1>2, PTL DEF ProxySpec, QueueSpec

ProxyInv == ProxyTypeOK /\ SlotIsServed /\ MailGoesOn

(* A pane opened: by itself, or at launch. *)
LEMMA OpeningKeeps ==
  ASSUME Orderly, Orderly', ProxyInv, OpenLaunchTabs \/ Select
  PROVE  ProxyInv'
  <1>1. PICK pane \in Pane \cup {NoPane}, certPane \in Pane \cup {NoPane}, empty \in BOOLEAN :
          /\ Asks(Cert \o WakePoll(pane, empty)) \/ Asks(WakePoll(pane, empty) \o Cert)
          /\ CertEnsure(certPane) /\ shown' = pane /\ Wake(pane, empty)
    BY DEF OpenLaunchTabs, Select
  <1>2. /\ use' \in [Request -> Use]
        /\ \A u : Outstanding(u)' <=>
             \/ Outstanding(u)
             \/ CertWanted /\ u = "cert"
             \/ pane = "EmailGui" /\ EmailWakeAsks(empty) /\ u = "poll"
    <2>1. \E uses \in Seq(Use) :
            Asks(uses) /\ Asked(uses) = Asked(Cert) \cup Asked(WakePoll(pane, empty))
      <3>1. CASE Asks(Cert \o WakePoll(pane, empty))
        BY <3>1, UsesType
      <3>2. CASE Asks(WakePoll(pane, empty) \o Cert)
        BY <3>2, UsesType
      <3>3. QED
        BY <1>1, <3>1, <3>2
    <2>2. PICK uses \in Seq(Use) :
            Asks(uses) /\ Asked(uses) = Asked(Cert) \cup Asked(WakePoll(pane, empty))
      BY <2>1
    <2>3. \A u : u \in Asked(uses) <=>
             \/ CertWanted /\ u = "cert"
             \/ pane = "EmailGui" /\ EmailWakeAsks(empty) /\ u = "poll"
      BY <2>2, UsesType
    <2>4. QED
      BY <2>2, <2>3, AsksUses DEF ProxyInv, ProxyTypeOK
  <1>3. /\ certPending' \in BOOLEAN /\ certCb' \in Pane \cup {NoPane, Nobody}
        /\ UNCHANGED <<account, certReady>>
    BY <1>1 DEF CertEnsure, ProxyInv, ProxyTypeOK
  <1>4. /\ cacheLoaded' \in BOOLEAN
        /\ checkingEmail' \in BOOLEAN /\ checkSchedule' \in BOOLEAN
    BY <1>1 DEF Wake, EmailWoken, ProxyInv, ProxyTypeOK, mailVars
  <1>5. ProxyTypeOK'
    BY <1>1, <1>2, <1>3, <1>4 DEF ProxyTypeOK, ProxyInv, Orderly
  <1>6. SlotIsServed'
    BY <1>1, <1>2 DEF SlotIsServed, CertEnsure, ProxyInv
  <1>7. MailGoesOn'
    BY <1>1, <1>2 DEF MailGoesOn, ProxyInv, Wake, EmailWoken, EmailWakeAsks, mailVars
  <1>8. QED
    BY <1>5, <1>6, <1>7 DEF ProxyInv

(* Something asked for by the player or by the mail timer. *)
LEMMA AskingKeeps ==
  ASSUME Orderly, Orderly', ProxyInv, GetMail \/ CheckEmailDue \/ ChangeTribe
  PROVE  ProxyInv'
  <1>1. CASE checkingEmail /\ CheckEmailDue /\ UNCHANGED <<queue, calling, use>>
    <2>1. \A u : Outstanding(u)' <=> Outstanding(u)
      BY <1>1 DEF Outstanding
    <2>2. /\ checkSchedule' = FALSE
          /\ UNCHANGED <<certVars, shown, cacheLoaded, checkingEmail>>
      BY <1>1 DEF CheckEmailDue, EmailChecked
    <2>3. ProxyTypeOK'
      BY <1>1, <2>2 DEF ProxyInv, ProxyTypeOK, certVars, Orderly
    <2>4. SlotIsServed' /\ MailGoesOn'
      BY <1>1, <2>1, <2>2 DEF ProxyInv, SlotIsServed, MailGoesOn, certVars
    <2>5. QED
      BY <2>3, <2>4 DEF ProxyInv
  <1>2. ASSUME NEW u \in Use, Asks(<<u>>),
               (u = "poll" /\ EmailChecked) \/ UNCHANGED mailVars,
               UNCHANGED <<certVars, shown>>
        PROVE  ProxyInv'
    <2>1. <<u>> \in Seq(Use) /\ Asked(<<u>>) = {u}
      <3>1. <<u>> \in Seq(Use) /\ DOMAIN <<u>> = {1} /\ <<u>>[1] = u
        OBVIOUS
      <3>2. QED
        BY <3>1 DEF Asked
    <2>2. /\ use' \in [Request -> Use]
          /\ \A v : Outstanding(v)' <=> Outstanding(v) \/ v = u
      BY <1>2, <2>1, AsksUses DEF ProxyInv, ProxyTypeOK
    <2>3. ProxyTypeOK'
      BY <1>2, <2>2 DEF ProxyInv, ProxyTypeOK, Orderly, EmailChecked, mailVars, certVars
    <2>4. SlotIsServed' /\ MailGoesOn'
      BY <1>2, <2>2 DEF ProxyInv, SlotIsServed, MailGoesOn, EmailChecked, mailVars, certVars
    <2>5. QED
      BY <2>3, <2>4 DEF ProxyInv
  <1>3. "poll" \in Use /\ "tribe" \in Use
    BY DEF Use
  <1>4. QED
    BY <1>1, <1>2, <1>3 DEF GetMail, CheckEmailDue, ChangeTribe

(* The answer to a request for a certificate, or to a change of a tribe. *)
LEMMA CertLoadedKeeps ==
  ASSUME Orderly, Orderly', ProxyInv, CertLoaded
  PROVE  ProxyInv'
  <1>1. PICK ok \in BOOLEAN, empty \in BOOLEAN :
          /\ Answers("cert", IF Rewoken(ok) THEN WakePoll(shown, empty) ELSE <<>>)
          /\ certReady' = (certReady \/ ok)
          /\ EmptySlot
          /\ certPending' = (certPending /\ certCb = Nobody)
          /\ IF Rewoken(ok) THEN Wake(shown, empty) ELSE UNCHANGED mailVars
          /\ UNCHANGED <<account, shown>>
    BY DEF CertLoaded
  <1> DEFINE uses == IF Rewoken(ok) THEN WakePoll(shown, empty) ELSE <<>>
  <1>2. /\ uses \in Seq(Use)
        /\ Rewoken(ok) /\ shown = "EmailGui" /\ EmailWakeAsks(empty) => "poll" \in Asked(uses)
    BY UsesType, EmptySeq
  <1>3. /\ use' \in [Request -> Use]
        /\ Outstanding("poll") => Outstanding("poll")'
        /\ \A v \in Asked(uses) : Outstanding(v)'
    BY <1>1, <1>2, AnswersUses DEF ProxyInv, ProxyTypeOK
  <1>4. /\ cacheLoaded' \in BOOLEAN
        /\ checkingEmail' \in BOOLEAN /\ checkSchedule' \in BOOLEAN
    BY <1>1 DEF Wake, EmailWoken, ProxyInv, ProxyTypeOK, mailVars
  <1>5. ProxyTypeOK'
    BY <1>1, <1>3, <1>4 DEF ProxyTypeOK, ProxyInv, Orderly, EmptySlot
  <1>6. SlotIsServed'
    BY <1>1 DEF SlotIsServed, EmptySlot
  <1>7. MailGoesOn'
    BY <1>1, <1>2, <1>3 DEF MailGoesOn, ProxyInv, Wake, EmailWoken, EmailWakeAsks, mailVars
  <1>8. QED
    BY <1>5, <1>6, <1>7 DEF ProxyInv

LEMMA TribeChangedKeeps ==
  ASSUME Orderly, Orderly', ProxyInv, TribeChanged
  PROVE  ProxyInv'
  <1>1. PICK uses \in {<<"cert">>, <<>>} : Answers("tribe", uses)
    BY DEF TribeChanged
  <1>2. uses \in Seq(Use)
    <2>1. <<"cert">> \in Seq(Use)
      BY DEF Use
    <2>2. QED
      BY <1>1, <2>1, EmptySeq
  <1>3. /\ use' \in [Request -> Use]
        /\ Outstanding("poll") => Outstanding("poll")'
        /\ Outstanding("cert") => Outstanding("cert")'
    BY <1>1, <1>2, AnswersUses DEF ProxyInv, ProxyTypeOK
  <1>4. certCb' \in {certCb, Nobody} /\ UNCHANGED <<account, certReady, certPending, shown, mailVars>>
    BY DEF TribeChanged
  <1>5. QED
    BY <1>3, <1>4 DEF ProxyInv, ProxyTypeOK, SlotIsServed, MailGoesOn, Orderly, mailVars

(* The answer to a poll, whichever it is. *)
LEMMA MailPolledKeeps ==
  ASSUME Orderly, Orderly', ProxyInv, MailPolled
  PROVE  ProxyInv'
  <1>1. Answers("poll", <<>>) /\ <<>> \in Seq(Use)
    BY EmptySeq DEF MailPolled
  <1>2. /\ use' \in [Request -> Use]
        /\ Outstanding("cert") => Outstanding("cert")'
    BY <1>1, AnswersUses DEF ProxyInv, ProxyTypeOK
  <1>3. /\ checkingEmail' = FALSE /\ checkSchedule' = TRUE /\ UNCHANGED cacheLoaded
        /\ UNCHANGED <<certVars, shown>>
    BY DEF MailPolled, MailCame, MailFails
  <1>4. QED
    BY <1>2, <1>3 DEF ProxyInv, ProxyTypeOK, SlotIsServed, MailGoesOn, Orderly, certVars

LEMMA QueueFailsKeeps ==
  ASSUME Orderly, Orderly', ProxyInv, QueueFails
  PROVE  ProxyInv'
  <1>1. ProxyTypeOK'
    BY DEF QueueFails, MailFails, EmptySlot, ProxyInv, ProxyTypeOK, Orderly, mailVars
  <1>2. SlotIsServed'
    BY DEF QueueFails, EmptySlot, SlotIsServed, ProxyInv
  <1>3. MailGoesOn'
    BY DEF QueueFails, MailFails, MailGoesOn, ProxyInv, mailVars
  <1>4. QED
    BY <1>1, <1>2, <1>3 DEF ProxyInv

LEMMA ProxyInvariance == ProxySpec => []ProxyInv
  <1>1. ProxyInit => ProxyInv
    BY EmptySeq DEF ProxyInit, QueueInit, ProxyInv, ProxyTypeOK, QueueTypeOK, SlotIsServed, MailGoesOn, Use
  <1>2. ASSUME Orderly, Orderly', ProxyInv, [ProxyNext]_proxyVars PROVE ProxyInv'
    <2>1. CASE UNCHANGED <<queue, use, certCb, certPending, mailVars>> /\ ProxyTypeOK'
      BY <1>2, <2>1 DEF ProxyInv, SlotIsServed, MailGoesOn, Outstanding, mailVars
    <2>2. CASE LogIntoAccount \/ Leave \/ UNCHANGED proxyVars
      <3>1. UNCHANGED <<queue, use, certCb, certPending, mailVars>>
        BY <2>2 DEF LogIntoAccount, Leave, proxyVars, certVars
      <3>2. ProxyTypeOK'
        BY <1>2, <2>2 DEF LogIntoAccount, Leave, proxyVars, certVars, mailVars, ProxyInv, ProxyTypeOK, Orderly
      <3>3. QED
        BY <2>1, <3>1, <3>2
    <2>3. QED
      BY <1>2, <2>2, OpeningKeeps, AskingKeeps, CertLoadedKeeps, TribeChangedKeeps,
         MailPolledKeeps, QueueFailsKeeps DEF ProxyNext
  <1>3. QED
    BY <1>1, <1>2, ProxyQueues, PromiseKept, PTL DEF ProxySpec

(* The panes' and the certificate's globals keep their types. *)
THEOREM ProxyTypeCorrect == ProxySpec => []ProxyTypeOK
  <1>1. ProxyInv => ProxyTypeOK
    BY DEF ProxyInv
  <1>2. QED
    BY <1>1, ProxyInvariance, PTL

(* A callback in the slot is one that an outstanding request will call.     *)
THEOREM SlotServed == ProxySpec => []SlotIsServed
  <1>1. ProxyInv => SlotIsServed
    BY DEF ProxyInv
  <1>2. QED
    BY <1>1, ProxyInvariance, PTL

(* Once opened, the mail pane has a poll out or a timer armed for good.     *)
THEOREM MailNeverStops == ProxySpec => []MailGoesOn
  <1>1. ProxyInv => MailGoesOn
    BY DEF ProxyInv
  <1>2. QED
    BY <1>1, ProxyInvariance, PTL
=============================================================================
