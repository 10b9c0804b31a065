----------------------------- MODULE TNBClient ------------------------------
(***************************************************************************)
(* The client's transport: the request queue of api.cs and the session of  *)
(* session.cs, with the server's session endpoint as far as one client     *)
(* sees it (api.go, handleSession and authenticate).                       *)
(*                                                                         *)
(* The game engine runs scripts one event at a time.  An action is one     *)
(* event, with everything it calls: the player or a pane asks for          *)
(* something, the queue's pump comes round, the session's timer fires, a   *)
(* transfer disconnects.  Two transfers exist, the queue's and the         *)
(* session's, and the server answers each at a moment of its own.          *)
(*                                                                         *)
(* Timers carry no delays: any of them may fire next.  What they are for   *)
(* is kept, because ten minutes is not 200 ms to somebody who waits.       *)
(***************************************************************************)
EXTENDS ApiQueue

CONSTANT MaxPumps  \* bound: pumps scheduled at once, further ones being idle

ASSUME MaxPumpsAssumption == MaxPumps \in Nat \ {0}
ASSUME RequestAssumption == "nothing" \notin Request

VARIABLES
  busy,      \* $TNB::Busy
  awaiting,  \* $TNB::AwaitingSession
  pumps,     \* TNBApiPump events scheduled
  cursor,    \* $TNB::CursorBusy
  transfer,  \* TNBApiInterface: the request being sent, and what came back
  uuid,      \* $TNB::UUID is set
  challenge, \* $TNB::Challenge, and whether it decrypts to our nonce and an answer
  waiters,   \* $TNB::WaitCount
  sbusy,     \* $TNB::SessionBusy
  aged,      \* $TNB::SessionSentAt is 30 seconds ago
  exchange,  \* TNBSessionInterface: what it asked, and what came back
  timer,     \* $TNB::Schedule: why TNBSessionStart is scheduled
  loggedIn,  \* there is an account GUID
  live       \* the server's table holds the session last granted

queueVars   == <<queue, calling, busy, awaiting, pumps, cursor>>
sessionVars == <<uuid, challenge, waiters, sbusy, aged, timer>>
vars == <<queueVars, sessionVars, transfer, exchange, loggedIn, live>>

NoTransfer == [of |-> "nothing", reply |-> "none"]
NoExchange == [ask |-> "nothing", reply |-> "none"]
Transfer == [of : Request, reply : {"none", "answer", "session_expired", "error"}]
Exchange == [ask : {"nonce", "response", "keepalive"},
             reply : {"none", "good", "bad", "granted", "refreshed", "expired", "error"}]

(* The globals keep their types; with one waiter at most however many pumps  *)
(* find no session (api.cs:147-163).                                         *)
TypeOK ==
  /\ queue \in Seq(Request)
  /\ calling \subseteq Request
  /\ busy \in BOOLEAN /\ awaiting \in BOOLEAN /\ cursor \in BOOLEAN
  /\ pumps \in 0 .. MaxPumps
  /\ transfer \in Transfer \cup {NoTransfer}
  /\ uuid \in BOOLEAN /\ challenge \in {"none", "good", "bad"}
  /\ waiters \in {0, 1}
  /\ sbusy \in BOOLEAN /\ aged \in BOOLEAN
  /\ exchange \in Exchange \cup {NoExchange}
  /\ timer \in {"none", "step", "backoff", "refresh"}
  /\ loggedIn \in BOOLEAN /\ live \in BOOLEAN

Init ==
  /\ queue = <<>> /\ calling = {}
  /\ busy = FALSE /\ awaiting = FALSE /\ pumps = 0 /\ cursor = FALSE
  /\ transfer = NoTransfer
  /\ uuid = FALSE /\ challenge = "none" /\ waiters = 0
  /\ sbusy = FALSE /\ aged = FALSE
  /\ exchange = NoExchange /\ timer = "none"
  /\ loggedIn = FALSE /\ live = FALSE

-----------------------------------------------------------------------------
(* What the server makes of a request, whenever it gets round to it.  Any    *)
(* answer may be lost on its way, which the client sees as an empty body.    *)
LogIn   == ~loggedIn /\ loggedIn' = TRUE
             /\ UNCHANGED <<queueVars, sessionVars, transfer, exchange, live>>

(* The thirty minutes pass, or the server restarts: sessions are in memory. *)
Lapse   == live /\ live' = FALSE
             /\ UNCHANGED <<queueVars, sessionVars, transfer, exchange, loggedIn>>

ServerSession ==
  /\ exchange # NoExchange /\ exchange.reply = "none"
  /\ \/ exchange' = [exchange EXCEPT !.reply = "error"] /\ UNCHANGED live
     \/ /\ exchange.ask = "nonce"
        /\ \E c \in {"good", "bad"} : exchange' = [exchange EXCEPT !.reply = c]
        /\ UNCHANGED live
     \/ /\ exchange.ask = "response"
        /\ exchange' = [exchange EXCEPT !.reply = "granted"] /\ live' = TRUE
     \/ /\ exchange.ask = "keepalive"
        /\ exchange' = [exchange EXCEPT !.reply = IF live THEN "refreshed" ELSE "expired"]
        /\ UNCHANGED live
  /\ UNCHANGED <<queueVars, sessionVars, transfer, loggedIn>>

ServerAnswer ==
  /\ transfer # NoTransfer /\ transfer.reply = "none"
  /\ \E reply \in {"error", IF live THEN "answer" ELSE "session_expired"} :
       transfer' = [transfer EXCEPT !.reply = reply]
  /\ UNCHANGED <<queueVars, sessionVars, exchange, loggedIn, live>>

LostOnTheWay ==
  /\ \/ /\ exchange.reply \notin {"none", "error"}
        /\ exchange' = [exchange EXCEPT !.reply = "error"] /\ UNCHANGED transfer
     \/ /\ transfer.reply \notin {"none", "error"}
        /\ transfer' = [transfer EXCEPT !.reply = "error"] /\ UNCHANGED exchange
  /\ UNCHANGED <<queueVars, sessionVars, loggedIn, live>>

-----------------------------------------------------------------------------
(* TNBApiPumpSoon, when p are scheduled already. *)
PumpSoon(p) == IF p < MaxPumps THEN p + 1 ELSE p

(* Callbacks may ask for something more: the next step of a flow, a retry.  *)
(* Bound: one of the callbacks of an event does.                            *)
Chained == {<<>>} \cup {<<r>> : r \in Request \ calling}

Enqueue(r) ==
  /\ r \notin calling
  /\ queue' = Append(queue, r)
  /\ calling' = calling \cup {r}
  /\ cursor' = TRUE
  /\ pumps' = IF busy THEN pumps ELSE PumpSoon(pumps)
  /\ UNCHANGED <<busy, awaiting, sessionVars, transfer, exchange, loggedIn, live>>

(* Mutant of FailAll: the queue is cleared after the callbacks. *)
FailAllThenClear(p) ==
  \E chain \in Chained :
    /\ queue' = <<>>
    /\ calling' = (calling \ Asked(queue)) \cup Asked(chain)
    /\ busy' = FALSE /\ cursor' = FALSE
    /\ pumps' = IF chain = <<>> THEN p ELSE PumpSoon(p)

(* TNBApiFailAll: the queue is emptied before the callbacks run.  p pumps   *)
(* are scheduled when it is called.                                         *)
FailAll(p) ==
  \E chain \in Chained :
    /\ queue' = chain
    /\ calling' = (calling \ Asked(queue)) \cup Asked(chain)
    /\ busy' = FALSE
    /\ cursor' = (chain # <<>>)
    /\ pumps' = IF chain = <<>> THEN p ELSE PumpSoon(p)

(* Mutant of SessionFail: the queue fails with the session, waiting or not. *)
SessionFailAll(waiting, p) ==
  /\ sbusy' = FALSE /\ aged' = FALSE
  /\ uuid' = FALSE /\ challenge' = "none"
  /\ waiters' = 0
  /\ timer' = "backoff"
  /\ awaiting' = FALSE /\ FailAll(p)

(* TNBSessionFail, with TNBSessionFailWaiters and TNBSessionRetry. *)
SessionFail(waiting, p) ==
  /\ sbusy' = FALSE /\ aged' = FALSE
  /\ uuid' = FALSE /\ challenge' = "none"
  /\ waiters' = 0
  /\ timer' = "backoff"
  /\ IF waiting > 0 THEN awaiting' = FALSE /\ FailAll(p)
     ELSE pumps' = p /\ UNCHANGED <<queue, calling, busy, awaiting, cursor>>

Send(ask) ==
  /\ exchange' = [ask |-> ask, reply |-> "none"]
  /\ sbusy' = TRUE /\ aged' = FALSE
  /\ timer' = "none"
  /\ UNCHANGED <<uuid, challenge>>

(* TNBSessionStart: dropped as a duplicate; deferred to the queue; refused  *)
(* for want of an account; or the next message of the exchange.             *)
Duplicate == sbusy /\ ~aged
Deferred  == uuid /\ busy

StartSends ==
  /\ loggedIn
  /\ \/ uuid /\ Send("keepalive")
     \/ ~uuid /\ challenge = "none" /\ Send("nonce")
     \/ ~uuid /\ challenge = "good" /\ Send("response")

(* TNBSessionAnswerChallenge when it is not hex, or does not replay the     *)
(* nonce: another account's key, say.  The waiters are not told.            *)
ChallengeUnusable ==
  /\ loggedIn /\ ~uuid /\ challenge = "bad"
  /\ challenge' = "none"
  /\ timer' = "backoff"
  /\ UNCHANGED <<uuid, sbusy, aged, exchange>>

(* Called with t scheduled, `waiting` waiters registered and p pumps due;   *)
(* asked says whether the queue is the caller, which is then a waiter.      *)
SessionStart(t, waiting, asked, p) ==
  \/ /\ \/ /\ Duplicate
           /\ timer' = t
           /\ UNCHANGED <<uuid, challenge, sbusy, aged, exchange>>
        \/ /\ ~Duplicate /\ Deferred
           /\ timer' = "step"
           /\ UNCHANGED <<uuid, challenge, sbusy, aged, exchange>>
        \/ ~Duplicate /\ ~Deferred /\ StartSends
        \/ ~Duplicate /\ ~Deferred /\ ChallengeUnusable
     /\ waiters' = waiting
     /\ awaiting' = (awaiting \/ asked)
     /\ pumps' = p
     /\ UNCHANGED <<queue, calling, busy, cursor>>
  \/ /\ ~Duplicate /\ ~Deferred /\ ~loggedIn
     /\ SessionFail(waiting, p)
     /\ UNCHANGED exchange

-----------------------------------------------------------------------------
(* TNBApiPump: nothing to do; the end of the queue; wait for a session, as  *)
(* the one waiter there is; or send the head of the queue.                  *)
Pump ==
  /\ pumps > 0
  /\ \/ /\ busy \/ (queue # <<>> /\ ~uuid /\ awaiting)
        /\ pumps' = pumps - 1
        /\ UNCHANGED <<queue, calling, busy, awaiting, cursor, sessionVars, exchange, transfer>>
     \/ /\ ~busy /\ queue = <<>>
        /\ cursor' = FALSE
        /\ pumps' = pumps - 1
        /\ UNCHANGED <<queue, calling, busy, awaiting, sessionVars, exchange, transfer>>
     \/ /\ ~busy /\ queue # <<>> /\ ~uuid /\ ~awaiting
        /\ SessionStart(timer, waiters + 1, TRUE, pumps - 1)
        /\ UNCHANGED transfer
     \/ /\ ~busy /\ queue # <<>> /\ uuid
        /\ busy' = TRUE
        /\ transfer' = [of |-> Head(queue), reply |-> "none"]
        /\ pumps' = pumps - 1
        /\ UNCHANGED <<queue, calling, awaiting, cursor, sessionVars, exchange>>
  /\ UNCHANGED <<loggedIn, live>>

(* What is left when the head is answered. *)
Rest(chain) == Tail(queue) \o chain

(* TNBApiComplete, on the disconnect of the queue's transfer. *)
TransferEnds ==
  /\ transfer # NoTransfer /\ transfer.reply # "none"
  /\ transfer' = NoTransfer
  /\ IF queue = <<>> THEN UNCHANGED <<queueVars, uuid>>
     ELSE /\ \E chain \in Chained :
               /\ queue' = Rest(chain)
               /\ calling' = (calling \ {Head(queue)}) \cup Asked(chain)
               /\ cursor' = (cursor \/ chain # <<>>)
               /\ pumps' = PumpSoon(IF chain = <<>> THEN pumps ELSE PumpSoon(pumps))
          /\ busy' = FALSE
          /\ uuid' = (uuid /\ transfer.reply # "session_expired")
          /\ UNCHANGED awaiting
  /\ UNCHANGED <<challenge, waiters, sbusy, aged, timer, exchange, loggedIn, live>>

TimerFires ==
  /\ timer # "none"
  /\ SessionStart("none", waiters, FALSE, pumps)
  /\ UNCHANGED <<transfer, loggedIn, live>>

(* Thirty seconds since the session's transfer was sent. *)
Ages ==
  /\ sbusy /\ ~aged
  /\ aged' = TRUE
  /\ UNCHANGED <<queueVars, uuid, challenge, waiters, sbusy, timer, transfer, exchange, loggedIn, live>>

(* Mutant of FlushWaiters: the list is emptied and nobody called. *)
DropWaiters == waiters' = 0 /\ UNCHANGED <<awaiting, pumps>>

(* TNBSessionFlushWaiters calls TNBApiSessionReady, the one waiter there is. *)
FlushWaiters ==
  /\ waiters' = 0
  /\ awaiting' = (awaiting /\ waiters = 0)
  /\ pumps' = IF waiters > 0 THEN PumpSoon(pumps) ELSE pumps

(* Mutant of ScheduleRefresh: nothing is scheduled. *)
NoRefresh == timer' = "none"

(* The keepalive, ten minutes from now. *)
ScheduleRefresh == timer' = "refresh"

(* TNBSessionComplete, on the disconnect of the session's transfer.  Only a  *)
(* grant calls the waiters.                                                  *)
Understood ==
  \/ /\ exchange.reply \in {"good", "bad"}
     /\ challenge' = exchange.reply /\ timer' = "step"
     /\ UNCHANGED <<queueVars, uuid, waiters>>
  \/ /\ exchange.reply = "granted"
     /\ uuid' = TRUE /\ challenge' = "none"
     /\ ScheduleRefresh /\ FlushWaiters
     /\ UNCHANGED <<queue, calling, busy, cursor>>
  \/ /\ exchange.reply = "refreshed"
     /\ ScheduleRefresh
     /\ UNCHANGED <<queueVars, uuid, challenge, waiters>>
  \/ /\ exchange.reply = "expired"
     /\ uuid' = FALSE /\ challenge' = "none" /\ timer' = "step"
     /\ UNCHANGED <<queueVars, waiters>>

ExchangeEnds ==
  /\ exchange # NoExchange /\ exchange.reply # "none"
  /\ exchange' = NoExchange
  /\ IF exchange.reply = "error" THEN SessionFail(waiters, pumps)
     ELSE Understood /\ sbusy' = FALSE /\ aged' = FALSE
  /\ UNCHANGED <<transfer, loggedIn, live>>

Next ==
  \/ \E r \in Request : Enqueue(r)
  \/ Pump \/ TransferEnds \/ TimerFires \/ ExchangeEnds \/ Ages
  \/ LogIn \/ Lapse \/ ServerSession \/ ServerAnswer \/ LostOnTheWay

Spec == Init /\ [][Next]_vars

(* The pump that has a session to send with. *)
PumpSends == Pump /\ transfer' # transfer

(* The engine runs its timers.  A grant schedules the pump 32 ms out, and    *)
(* the session lasts half an hour: of grant after grant the pump comes first *)
(* at last.  Nothing is assumed of the server or the connections.            *)
EngineSpec ==
  /\ Spec
  /\ WF_vars(Pump) /\ SF_vars(PumpSends) /\ WF_vars(TimerFires)

-----------------------------------------------------------------------------
(* What the queue's connection is carrying is the head of the queue, which   *)
(* is who the answer will be given to (api.cs:291-302).                      *)
AnswersTheHead ==
  /\ busy <=> transfer # NoTransfer
  /\ transfer # NoTransfer => queue # <<>> /\ transfer.of = Head(queue)

(* A queue with something in it is being served: a transfer is under way, or *)
(* a pump is scheduled, or the queue waits for a session; and then there is  *)
(* an exchange under way or the timer of the next one (api.cs:147-163).      *)
NobodyStranded ==
  /\ queue # <<>> => busy \/ pumps > 0 \/ awaiting
  /\ awaiting => exchange # NoExchange \/ timer # "none"

(* The session layer has one event ahead of it and never two: a transfer and *)
(* a timer at once would be two negotiations chasing each other              *)
(* (session.cs:173-180).                                                     *)
OneSessionEvent ==
  /\ ~(exchange # NoExchange /\ timer # "none")
  /\ uuid => exchange # NoExchange \/ timer # "none"

(* The hourglass is up while something is queued, and comes down: when it is *)
(* up over an empty queue the pump that drops it is scheduled (api.cs:37-50). *)
CursorFollowsQueue ==
  /\ queue # <<>> => cursor
  /\ cursor /\ queue = <<>> => pumps > 0

(* What the client cannot do for itself.  Connections end: not so when two   *)
(* close together wedge one for good (session.cs:203-208).  Challenges come  *)
(* to be usable: not so between two accounts (session.cs:337-362), when the  *)
(* negotiation starts over again and again and those who wait are not told.  *)
ConnectionsEnd   == []<>(transfer = NoTransfer) /\ []<>(exchange = NoExchange)
ChallengesUsable == <>[](challenge # "bad")

(* Where connections end and challenges are usable at last, whoever asks is  *)
(* called back, with an answer or an error, whatever lapses, fails or is     *)
(* asked meanwhile: none waits for a session that nobody negotiates, and no  *)
(* waiter is lost (api.cs:147-173).                                          *)
EveryRequestAnswered ==
  ConnectionsEnd /\ ChallengesUsable => \A r \in Request : r \in calling ~> r \notin calling
=============================================================================
