------------------------------ MODULE ApiQueue ------------------------------
(***************************************************************************)
(* What the client's request queue (api.cs) promises those who use it:     *)
(* what is asked is answered in the order in which it was asked, one       *)
(* answer to each request and none to a request that is not outstanding,   *)
(* or all that are outstanding fail at once.  What a callback asks for     *)
(* comes after all that was outstanding when it was called.                *)
(*                                                                         *)
(* TNBClient implements this promise, over the session and the transfers;  *)
(* DbProxy relies on it.                                                   *)
(***************************************************************************)
EXTENDS Naturals, Sequences

CONSTANT Request   \* bound: requests that may be outstanding at once

VARIABLES
  queue,     \* $TNB::QHead .. QTail: requests not yet answered, in order
  calling    \* requests whose callback has not been called

Asked(chain) == {chain[i] : i \in DOMAIN chain}

(* What one event may ask for while some are taken.  Bound: two at most. *)
Chains(taken) ==
  {<<>>} \cup {<<r>> : r \in Request \ taken}
         \cup {s \in (Request \ taken) \X (Request \ taken) : s[1] # s[2]}

QueueInit == queue = <<>> /\ calling = {}

Ask(chain) ==
  /\ queue' = queue \o chain
  /\ calling' = calling \cup Asked(chain)

Answer(chain) ==
  /\ queue' = Tail(queue) \o chain
  /\ calling' = (calling \ {Head(queue)}) \cup Asked(chain)

Fail(chain) ==
  /\ queue' = chain
  /\ calling' = (calling \ Asked(queue)) \cup Asked(chain)

QueueNext ==
  \/ \E chain \in Chains(calling) : Ask(chain)
  \/ queue # <<>> /\ \E chain \in Chains(calling \ {Head(queue)}) : Answer(chain)
  \/ \E chain \in Chains(calling \ Asked(queue)) : Fail(chain)

(* What is asked is answered once and in its turn: a callback's own requests *)
(* wait behind all that was outstanding, and a queue that fails has called   *)
(* every callback it had (api.cs:184-211, :276-357).                         *)
QueueSpec == QueueInit /\ [][QueueNext]_<<queue, calling>>

QueueTypeOK == queue \in Seq(Request) /\ calling \subseteq Request

(* Every request accepted is in the queue once until its callback is called, *)
(* and none is in it twice (api.cs:184-190).                                 *)
NoRequestForgotten ==
  /\ Asked(queue) = calling
  /\ \A i, j \in DOMAIN queue : queue[i] = queue[j] => i = j
=============================================================================
