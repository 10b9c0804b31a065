------------------------------ MODULE Sessions ------------------------------
(***************************************************************************)
(* The server's sessions (auth/session.go) behind POST /session and the    *)
(* Authorization header (api/api.go), with the game clients that sign in.  *)
(*                                                                         *)
(* A certificate names an account and its key and is public; a challenge   *)
(* encrypted with the key is answered by whoever holds the private half,   *)
(* and the answer earns a token.  Challenges and tokens live in two maps   *)
(* under one mutex, so each handler is one step, and a restart empties     *)
(* both.  Random values are numbered in the order they are drawn.          *)
(*                                                                         *)
(* Of the client (session.cs) the identity is kept: the account it is      *)
(* logged in as, the one it has cached, the challenge and the token it     *)
(* holds.  It may give a request up and send another: the first is served  *)
(* all the same, sooner or later.  An answer is read, or lost, in the step *)
(* that gives it: a client that waits does nothing else meanwhile.  Queue  *)
(* and timers are those of TNBClient, the -dev-trust-guid bypass is left   *)
(* out.                                                                    *)
(*                                                                         *)
(* Time passes in ticks, longer than the thirty seconds after which a      *)
(* client gives a transfer up: a tick comes between the transfers, though  *)
(* not between a request given up and its serving.  An age is capped one   *)
(* past the limit it is compared with.                                     *)
(***************************************************************************)
EXTENDS Naturals, Sequences, FiniteSets

CONSTANTS
  Account, Client,
  None,           \* no entry, no request, no account
  Window,         \* challengeWindow, in ticks
  Ttl,            \* Sessions.ttl, in ticks
  MaxChallenges,  \* bound: challenges drawn
  MaxTokens,      \* bound: tokens drawn
  MaxLate,        \* bound: requests given up and still to be served
  MaxRestarts,    \* bound: restarts of the server
  MaxLogIns       \* bound: times somebody logs in as somebody else

ASSUME LimitsAssumption == Window \in Nat /\ Ttl \in Nat
ASSUME BoundsAssumption ==
  MaxChallenges \in Nat /\ MaxTokens \in Nat /\ MaxLate \in Nat
  /\ MaxRestarts \in Nat /\ MaxLogIns \in Nat

VARIABLES
  challenges,  \* Sessions.challenges: by account, at most one outstanding
  tokens,      \* Sessions.tokens
  client,      \* what each client knows
  sent,        \* the request each client waits for
  late,        \* requests nobody waits for, not yet served
  quiet,       \* ticks since a client was told it is recognised
  drawn,       \* challenges drawn so far
  granted,     \* history: for each token drawn, who earned it and by what
  restarts,    \* how often the server restarted
  logins       \* how often somebody logged in

serverVars == <<challenges, tokens, drawn, granted>>
vars == <<serverVars, client, sent, late, quiet, restarts, logins>>

Value == 0 .. MaxChallenges
Token == 1 .. MaxTokens
Age(limit) == 0 .. limit + 1
Older(age, limit) == IF age <= limit THEN age + 1 ELSE age

(* key, in an answer: history, the account whose key decrypted the challenge. *)
Request ==
       [ask : {"cert"}, from : Client, guid : Account, cert : Account]
  \cup [ask : {"response"}, from : Client, guid : Account, value : Value, key : Account]
  \cup [ask : {"token"}, from : Client, guid : Account, value : Token]
Known ==
  [guid : Account \cup {None}, account : Account,
   challenge : [key : Account, value : Value] \cup {None}, uuid : Token \cup {0}]
Grant == [to : Client, of : Account, key : Account, spent : Value, run : 0 .. MaxRestarts]

ASSUME NoneAssumption ==
  /\ None \notin Account \cup Request
  /\ None \notin [key : Account, value : Value]
  /\ None \notin [value : Value, age : Age(Window)] \cup [of : Account, age : Age(Ttl)]

Init ==
  /\ challenges = [a \in Account |-> None]
  /\ tokens = [t \in Token |-> None]
  /\ client \in [Client -> {[guid |-> None, account |-> a, challenge |-> None, uuid |-> 0] : a \in Account}]
  /\ sent = [c \in Client |-> None]
  /\ late = {}
  /\ quiet = [c \in Client |-> 0]
  /\ drawn = 0 /\ granted = <<>> /\ restarts = 0 /\ logins = 0

-----------------------------------------------------------------------------
(* sweepLocked: whatever has expired goes. *)
Swept(table, limit) ==
  [k \in DOMAIN table |->
     IF table[k] # None /\ table[k].age > limit THEN None ELSE table[k]]

(* TNBSessionFail: forget everything, the cached account too. *)
Failed(k) == [k EXCEPT !.uuid = 0, !.challenge = None, !.guid = None]

(* TNBSessionComplete and TNBApiComplete, for one who still waits: what     *)
(* they know becomes k, or the answer is lost, which they take for a        *)
(* failure or, replacing the transfer after thirty seconds, for nothing.    *)
Answers(q, k, told) ==
  \/ /\ sent[q.from] = q
     /\ sent' = [sent EXCEPT ![q.from] = None]
     /\ \/ /\ client' = [client EXCEPT ![q.from] = k]
           /\ quiet' = [quiet EXCEPT ![q.from] = IF told THEN 0 ELSE @]
        \/ /\ \E l \in {Failed(client[q.from]), client[q.from]} :
                client' = [client EXCEPT ![q.from] = l]
           /\ UNCHANGED quiet
     /\ UNCHANGED late
  \/ /\ q \in late
     /\ late' = late \ {q}
     /\ UNCHANGED <<sent, client, quiet>>

Refused(q) == Answers(q, Failed(client[q.from]), FALSE)

(* PublicKey.Apply: what only the holder of the account's key can read. *)
Encrypted(account, value) == [key |-> account, value |-> value]

(* A certificate that does not parse or was not signed by TribesNext, or    *)
(* whose key cannot carry the nonce.                                        *)
RefuseCertificate(q) ==
  /\ q.ask = "cert"
  /\ Refused(q)
  /\ UNCHANGED serverVars

(* Challenge, kept under the certificate's account whatever the request's   *)
(* guid; handleSession refuses the two that differ only afterwards.         *)
Challenge(q) ==
  /\ q.ask = "cert" /\ drawn < MaxChallenges
  /\ challenges' = [Swept(challenges, Window) EXCEPT
                      ![q.cert] = [value |-> drawn + 1, age |-> 0]]
  /\ tokens' = Swept(tokens, Ttl)
  /\ drawn' = drawn + 1
  /\ \/ q.cert # q.guid /\ Refused(q)
     \/ /\ q.cert = q.guid
        /\ Answers(q, [client[q.from] EXCEPT !.challenge = Encrypted(q.cert, drawn + 1)], FALSE)
  /\ UNCHANGED granted

Right(q) ==
  /\ challenges[q.guid] # None /\ challenges[q.guid].age <= Window
  /\ q.value = challenges[q.guid].value

Grants(q) ==
  /\ Right(q) /\ Len(granted) < MaxTokens
  /\ tokens' = [Swept(tokens, Ttl) EXCEPT ![Len(granted) + 1] = [of |-> q.guid, age |-> 0]]
  /\ granted' = Append(granted, [to |-> q.from, of |-> q.guid, key |-> q.key,
                                 spent |-> q.value, run |-> restarts])
  /\ Answers(q, [client[q.from] EXCEPT !.uuid = Len(granted) + 1, !.challenge = None], TRUE)

(* Mutant of Answer: only a wrong answer spends the challenge. *)
AnswerKeeping(q) ==
  /\ q.ask = "response"
  /\ challenges' = Swept(challenges, Window)
  /\ Grants(q)
  /\ UNCHANGED drawn

(* Answer: the challenge is spent, right or wrong. *)
Answer(q) ==
  /\ q.ask = "response"
  /\ challenges' = [Swept(challenges, Window) EXCEPT ![q.guid] = None]
  /\ \/ Grants(q)
     \/ /\ ~Right(q)
        /\ tokens' = Swept(tokens, Ttl)
        /\ Refused(q)
        /\ UNCHANGED granted
  /\ UNCHANGED drawn

(* Mutant of Recognised: the guid is not compared. *)
RecognisedAnyGuid(q) == tokens[q.value] # None /\ tokens[q.value].age <= Ttl

(* Lookup: found, not expired, and granted to the account that asks. *)
Recognised(q) ==
  /\ tokens[q.value] # None /\ tokens[q.value].age <= Ttl
  /\ tokens[q.value].of = q.guid

(* Mutant of Slide: the thirty minutes are absolute. *)
SlideNever(q) == UNCHANGED tokens

(* Every request recognised extends its token. *)
Slide(q) == tokens' = [tokens EXCEPT ![q.value].age = 0]

(* A keepalive, in handleSession, or the header of any other request, in    *)
(* authenticate: what comes after a token recognised, a fault included,     *)
(* leaves it extended.                                                      *)
Lookup(q) ==
  /\ q.ask = "token"
  /\ \/ /\ Recognised(q)
        /\ Slide(q)
        /\ Answers(q, client[q.from], TRUE)
     \/ /\ ~Recognised(q)
        /\ UNCHANGED tokens
        /\ Answers(q, [client[q.from] EXCEPT !.uuid = 0, !.challenge = None], FALSE)
  /\ UNCHANGED <<challenges, drawn, granted>>

Pending == ({sent[c] : c \in Client} \ {None}) \cup late

Serve ==
  /\ \E q \in Pending : RefuseCertificate(q) \/ Challenge(q) \/ Answer(q) \/ Lookup(q)
  /\ UNCHANGED <<restarts, logins>>

Restart ==
  /\ restarts < MaxRestarts
  /\ restarts' = restarts + 1
  /\ challenges' = [a \in Account |-> None]
  /\ tokens' = [t \in Token |-> None]
  /\ UNCHANGED <<drawn, granted, client, sent, late, quiet, logins>>

Tick ==
  /\ \A c \in Client : sent[c] = None
  /\ challenges' = [a \in Account |-> IF challenges[a] = None THEN None
                      ELSE [challenges[a] EXCEPT !.age = Older(@, Window)]]
  /\ tokens' = [t \in Token |-> IF tokens[t] = None THEN None
                  ELSE [tokens[t] EXCEPT !.age = Older(@, Ttl)]]
  /\ quiet' = [c \in Client |-> IF client[c].uuid = 0 THEN 0 ELSE Older(quiet[c], Ttl)]
  /\ UNCHANGED <<drawn, granted, client, sent, late, restarts, logins>>

-----------------------------------------------------------------------------
(* TNBSessionGuid: the cached account, or the one the game reports now. *)
Guid(c) == IF client[c].guid # None THEN client[c].guid ELSE client[c].account

Send(c, q) ==
  /\ sent' = [sent EXCEPT ![c] = q]
  /\ UNCHANGED <<late, quiet, serverVars, restarts, logins>>

(* TNBSessionStart, without a token or a challenge. *)
AskChallenge(c) ==
  /\ sent[c] = None /\ client[c].uuid = 0 /\ client[c].challenge = None
  /\ Send(c, [ask |-> "cert", from |-> c, guid |-> Guid(c), cert |-> client[c].account])
  /\ client' = [client EXCEPT ![c].guid = Guid(c)]

(* TNBSessionAnswerChallenge: decrypted with the key of the account logged  *)
(* in now; with another's it does not replay the nonce and is discarded.    *)
AnswerChallenge(c) ==
  /\ sent[c] = None /\ client[c].uuid = 0 /\ client[c].challenge # None
  /\ LET ch == client[c].challenge IN
     \/ /\ ch.key = client[c].account
        /\ Send(c, [ask |-> "response", from |-> c, guid |-> Guid(c),
                    value |-> ch.value, key |-> client[c].account])
        /\ client' = [client EXCEPT ![c].guid = Guid(c)]
     \/ /\ ch.key # client[c].account
        /\ client' = [client EXCEPT ![c].challenge = None]
        /\ UNCHANGED <<sent, late, quiet, serverVars, restarts, logins>>

(* A keepalive, or a request of the queue. *)
UseToken(c) ==
  /\ sent[c] = None /\ client[c].uuid # 0
  /\ Send(c, [ask |-> "token", from |-> c, guid |-> Guid(c), value |-> client[c].uuid])
  /\ client' = [client EXCEPT ![c].guid = Guid(c)]

(* Given up before it is served: replaced after thirty seconds, to be       *)
(* served later, or broken off.                                             *)
GiveUp(c) ==
  /\ sent[c] # None
  /\ sent' = [sent EXCEPT ![c] = None]
  /\ \/ /\ Cardinality(late) < MaxLate
        /\ late' = late \cup {sent[c]}
        /\ UNCHANGED client
     \/ /\ client' = [client EXCEPT ![c] = Failed(@)]
        /\ UNCHANGED late
  /\ UNCHANGED <<quiet, serverVars, restarts, logins>>

(* The player logs in as somebody else; only the screen that creates an     *)
(* account replaces what is cached (loginScreens.cs:339).                   *)
LogIn(c) ==
  /\ logins < MaxLogIns
  /\ logins' = logins + 1
  /\ \E a \in Account \ {client[c].account} : \E g \in {client[c].guid, a} :
       client' = [client EXCEPT ![c].account = a, ![c].guid = g]
  /\ UNCHANGED <<sent, late, quiet, serverVars, restarts>>

Next ==
  \/ Serve \/ Restart \/ Tick
  \/ \E c \in Client : \/ AskChallenge(c) \/ AnswerChallenge(c) \/ UseToken(c)
                       \/ GiveUp(c) \/ LogIn(c)

Spec == Init /\ [][Next]_vars

-----------------------------------------------------------------------------
(* The tables, the clients and the messages keep their types. *)
TypeOK ==
  /\ challenges \in [Account -> [value : Value, age : Age(Window)] \cup {None}]
  /\ tokens \in [Token -> [of : Account, age : Age(Ttl)] \cup {None}]
  /\ client \in [Client -> Known]
  /\ sent \in [Client -> Request \cup {None}]
  /\ late \subseteq Request
  /\ quiet \in [Client -> Age(Ttl)]
  /\ drawn \in Value
  /\ granted \in Seq(Grant) /\ Len(granted) <= MaxTokens
  /\ restarts \in 0 .. MaxRestarts /\ logins \in 0 .. MaxLogIns

(* No challenge earns two tokens, although an answer may be sent, served and *)
(* sent again because nobody heard of it (session.go:157-160).               *)
SpentOnce ==
  \A i, j \in DOMAIN granted : granted[i].spent = granted[j].spent => i = j

(* Who is recognised as an account has decrypted a challenge with that       *)
(* account's key, in this run of the server, whatever account the machine    *)
(* logged in as, cached or created before and since (session.go:188-196).    *)
RecognisedAsProved ==
  \A q \in Pending :
    q.ask = "token" /\ Recognised(q) =>
      /\ q.value \in DOMAIN granted
      /\ granted[q.value].to = q.from /\ granted[q.value].key = q.guid
      /\ granted[q.value].run = restarts

(* A client recognised within the last Ttl ticks is recognised still, unless *)
(* the server restarted: whoever else signs in, asks, sweeps or gives up     *)
(* (session.go:176-178).                                                     *)
ActiveStaysIn ==
  \A c \in Client :
    LET t == client[c].uuid IN
    t # 0 /\ quiet[c] <= Ttl /\ granted[t].run = restarts =>
      tokens[t] # None /\ tokens[t].age <= quiet[c]
=============================================================================
