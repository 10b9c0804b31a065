--------------------------- MODULE SessionsProofs ---------------------------
(***************************************************************************)
(* What the sessions guarantee for any accounts, clients and limits.       *)
(*                                                                         *)
(* A value is drawn once, and is the outstanding challenge of at most one  *)
(* account; whoever holds it, or sends an answer with it, decrypted it     *)
(* with that account's key.  A spent value is outstanding no more, and a   *)
(* token the server knows is one it granted in this run.                   *)
(*                                                                         *)
(* That who is active stays in needs two facts more: a client waits with   *)
(* the token it holds, so what the server extends is what the client goes  *)
(* on with, and no step takes a token that has not expired.                *)
(***************************************************************************)
EXTENDS Sessions, TLAPS

ChallengeRow == [value : Value, age : Age(Window)]
TokenRow == [of : Account, age : Age(Ttl)]

(* The outstanding challenges are distinct, drawn and not spent. *)
Outstanding ==
  \A a \in Account : challenges[a] # None =>
    /\ challenges[a].value <= drawn
    /\ \A b \in Account :
         challenges[b] # None /\ challenges[b].value = challenges[a].value => b = a
    /\ \A i \in DOMAIN granted : granted[i].spent # challenges[a].value

Earnings ==
  /\ \A i \in DOMAIN granted : granted[i].spent <= drawn /\ granted[i].of = granted[i].key
  /\ \A t \in Token : tokens[t] # None =>
       t \in DOMAIN granted /\ granted[t].of = tokens[t].of /\ granted[t].run = restarts

ServerType ==
  /\ challenges \in [Account -> ChallengeRow \cup {None}]
  /\ tokens \in [Token -> TokenRow \cup {None}]
  /\ drawn \in Value
  /\ granted \in Seq(Grant) /\ Len(granted) <= MaxTokens
  /\ restarts \in 0 .. MaxRestarts

ServerInv == ServerType /\ Outstanding /\ Earnings /\ SpentOnce

(* A value read with a key: if it is outstanding still, that account's. *)
Keyed(value, key) ==
  /\ value <= drawn
  /\ \A a \in Account : challenges[a] # None /\ challenges[a].value = value => key = a

Earned(t, c) == t \in DOMAIN granted /\ granted[t].to = c

KnownOK(k, c) ==
  /\ k \in Known
  /\ k.challenge # None => Keyed(k.challenge.value, k.challenge.key)
  /\ k.uuid # 0 => Earned(k.uuid, c)

RequestOK(q) ==
  /\ q \in Request
  /\ q.ask = "response" => Keyed(q.value, q.key)
  /\ q.ask = "token" => Earned(q.value, q.from)

ClientsInv ==
  /\ client \in [Client -> Known] /\ \A c \in Client : KnownOK(client[c], c)
  /\ sent \in [Client -> Request \cup {None}]
  /\ \A c \in Client : sent[c] # None => RequestOK(sent[c])
  /\ late \subseteq Request /\ \A q \in late : RequestOK(q)
  /\ quiet \in [Client -> Age(Ttl)]
  /\ logins \in 0 .. MaxLogIns

IInv == ServerInv /\ ClientsInv

-----------------------------------------------------------------------------
(* What a step of the server leaves true of what is out there: an            *)
(* outstanding value was outstanding before or is new, and a grant stays.    *)
Later ==
  /\ drawn' \in Nat /\ drawn <= drawn'
  /\ \A a \in Account : challenges'[a] # None =>
       \/ challenges'[a].value \in Nat /\ challenges'[a].value > drawn
       \/ challenges[a] # None /\ challenges'[a].value = challenges[a].value
  /\ \A i \in DOMAIN granted : i \in DOMAIN granted' /\ granted'[i] = granted[i]

LEMMA RequestFields ==
  ASSUME NEW q \in Request
  PROVE  /\ q.ask \in {"cert", "response", "token"} /\ q.from \in Client /\ q.guid \in Account
         /\ q.ask = "cert" => q.cert \in Account
         /\ q.ask = "response" => q.value \in Value /\ q.key \in Account
         /\ q.ask = "token" => q.value \in Token
BY DEF Request

LEMMA KeyedLater ==
  ASSUME Later, drawn \in Nat, NEW v \in Nat, NEW key, Keyed(v, key)
  PROVE  Keyed(v, key)'
BY DEF Later, Keyed

LEMMA EarnedLater ==
  ASSUME Later, NEW t, NEW c, Earned(t, c)
  PROVE  Earned(t, c)'
BY DEF Later, Earned

LEMMA KnownFields ==
  ASSUME NEW k \in Known
  PROVE  /\ k.guid \in Account \cup {None} /\ k.account \in Account /\ k.uuid \in Token \cup {0}
         /\ k.challenge # None => k.challenge.value \in Value /\ k.challenge.key \in Account
BY DEF Known

LEMMA ValueType == Value \subseteq Nat /\ Token \subseteq Nat
BY BoundsAssumption DEF Value, Token

LEMMA KnownLater ==
  ASSUME Later, drawn \in Nat, NEW k, NEW c, KnownOK(k, c)
  PROVE  KnownOK(k, c)'
<1>1. k \in Known
  BY DEF KnownOK
<1>2. k.challenge # None => Keyed(k.challenge.value, k.challenge.key)'
  BY <1>1, KnownFields, ValueType, KeyedLater DEF KnownOK
<1>3. k.uuid # 0 => Earned(k.uuid, c)'
  BY EarnedLater DEF KnownOK
<1>4. QED
  BY <1>1, <1>2, <1>3 DEF KnownOK

LEMMA RequestLater ==
  ASSUME Later, drawn \in Nat, NEW q, RequestOK(q)
  PROVE  RequestOK(q)'
<1>1. q \in Request
  BY DEF RequestOK
<1>2. q.ask = "response" => Keyed(q.value, q.key)'
  BY <1>1, RequestFields, ValueType, KeyedLater DEF RequestOK
<1>3. q.ask = "token" => Earned(q.value, q.from)'
  BY EarnedLater DEF RequestOK
<1>4. QED
  BY <1>1, <1>2, <1>3 DEF RequestOK

LEMMA FailedOK ==
  ASSUME NEW k, NEW c, KnownOK(k, c)
  PROVE  KnownOK(Failed(k), c)
<1>1. k \in Known
  BY DEF KnownOK
<1>2. Failed(k) \in Known /\ Failed(k).uuid = 0 /\ Failed(k).challenge = None
  BY <1>1 DEF Failed, Known
<1>3. QED
  BY <1>2 DEF KnownOK

(* What an answer does to the clients, and to the requests still to serve. *)
LEMMA AnswersKeep ==
  ASSUME ClientsInv, Later, drawn \in Nat, NEW q, RequestOK(q), NEW k, KnownOK(k, q.from)',
         NEW told \in BOOLEAN, Answers(q, k, told), UNCHANGED logins
  PROVE  ClientsInv'
<1>0. q \in Request /\ q.from \in Client
  BY RequestFields DEF RequestOK
<1>1. \A c \in Client : KnownOK(client[c], c)' \/ client'[c] # client[c]
  <2> SUFFICES ASSUME NEW c \in Client, client'[c] = client[c] PROVE KnownOK(client[c], c)'
    OBVIOUS
  <2>1. PICK l : l = client[c]
    OBVIOUS
  <2>2. KnownOK(l, c)
    BY <2>1 DEF ClientsInv
  <2>3. KnownOK(l, c)'
    BY <2>2, KnownLater
  <2>4. QED
    BY <2>1, <2>3
<1>2. \A c \in Client : sent[c] # None => RequestOK(sent[c])
  BY DEF ClientsInv
<1>3. \A p \in Request : RequestOK(p) => RequestOK(p)'
  BY RequestLater
<1>4. CASE /\ sent[q.from] = q
           /\ sent' = [sent EXCEPT ![q.from] = None]
           /\ \/ /\ client' = [client EXCEPT ![q.from] = k]
                 /\ quiet' = [quiet EXCEPT ![q.from] = IF told THEN 0 ELSE @]
              \/ /\ \E l \in {Failed(client[q.from]), client[q.from]} :
                      client' = [client EXCEPT ![q.from] = l]
                 /\ UNCHANGED quiet
           /\ UNCHANGED late
  <2>1. PICK l : /\ client' = [client EXCEPT ![q.from] = l]
                 /\ l = k \/ l = Failed(client[q.from]) \/ l = client[q.from]
    BY <1>4
  <2>2. KnownOK(l, q.from)'
    <3>1. CASE l = k
      BY <3>1
    <3>2. CASE l = Failed(client[q.from]) \/ l = client[q.from]
      <4>1. KnownOK(l, q.from)
        BY <1>0, <3>2, FailedOK DEF ClientsInv
      <4>2. QED
        BY <4>1, KnownLater
    <3>3. QED
      BY <2>1, <3>1, <3>2
  <2>3. l \in Known
    BY <2>2 DEF KnownOK
  <2>4. /\ client' \in [Client -> Known] /\ client'[q.from] = l
        /\ \A c \in Client \ {q.from} : client'[c] = client[c]
    BY <1>0, <2>1, <2>3 DEF ClientsInv
  <2>5. \A c \in Client : KnownOK(client[c], c)'
    BY <1>1, <2>2, <2>4
  <2>6. /\ sent' \in [Client -> Request \cup {None}] /\ late' = late
        /\ \A c \in Client : sent'[c] # None => sent'[c] = sent[c]
    BY <1>4 DEF ClientsInv
  <2>7. \A c \in Client : sent'[c] # None => RequestOK(sent[c])'
    <3> SUFFICES ASSUME NEW c \in Client, sent'[c] # None PROVE RequestOK(sent[c])'
      OBVIOUS
    <3>1. PICK p : p = sent'[c] /\ p = sent[c]
      BY <2>6
    <3>2. p \in Request /\ RequestOK(p)
      BY <1>2, <3>1 DEF RequestOK
    <3>3. QED
      BY <1>3, <3>1, <3>2
  <2>8. quiet' \in [Client -> Age(Ttl)]
    <3>1. 0 \in Age(Ttl)
      BY LimitsAssumption DEF Age
    <3>2. QED
      BY <1>4, <3>1 DEF ClientsInv
  <2>9. QED
    BY <1>3, <2>4, <2>5, <2>6, <2>7, <2>8 DEF ClientsInv
<1>5. CASE /\ q \in late
           /\ late' = late \ {q}
           /\ UNCHANGED <<sent, client, quiet>>
  <2>1. \A c \in Client : sent'[c] # None => RequestOK(sent[c])'
    <3> SUFFICES ASSUME NEW c \in Client, sent'[c] # None PROVE RequestOK(sent[c])'
      OBVIOUS
    <3>1. PICK p : p = sent'[c] /\ p = sent[c]
      BY <1>5
    <3>2. p \in Request /\ RequestOK(p)
      BY <1>2, <3>1 DEF RequestOK
    <3>3. QED
      BY <1>3, <3>1, <3>2
  <2>2. QED
    BY <1>1, <1>3, <1>5, <2>1 DEF ClientsInv
<1>6. QED
  BY <1>4, <1>5 DEF Answers

-----------------------------------------------------------------------------
(* A sweep forgets entries, and changes none. *)
LEMMA SweptChallenges ==
  ASSUME ServerInv
  PROVE  /\ Swept(challenges, Window) \in [Account -> ChallengeRow \cup {None}]
         /\ \A a \in Account : Swept(challenges, Window)[a] \in {challenges[a], None}
BY DEF ServerInv, ServerType, Swept

LEMMA SweptTokens ==
  ASSUME ServerInv
  PROVE  /\ Swept(tokens, Ttl) \in [Token -> TokenRow \cup {None}]
         /\ \A t \in Token : Swept(tokens, Ttl)[t] \in {tokens[t], None}
BY DEF ServerInv, ServerType, Swept

LEMMA Drawn == ServerInv => drawn \in Nat
BY ValueType DEF ServerInv, ServerType

(* Nothing is granted: entries are forgotten or grow older. *)
LEMMA Forgets ==
  ASSUME ServerInv,
         challenges' \in [Account -> ChallengeRow \cup {None}],
         tokens' \in [Token -> TokenRow \cup {None}],
         \A a \in Account : challenges'[a] # None =>
           challenges[a] # None /\ challenges'[a].value = challenges[a].value,
         \A t \in Token : tokens'[t] # None => tokens[t] # None /\ tokens'[t].of = tokens[t].of,
         UNCHANGED <<drawn, granted>>,
         UNCHANGED restarts \/ (restarts' \in 0 .. MaxRestarts /\ \A t \in Token : tokens'[t] = None)
  PROVE  ServerInv' /\ Later
<1>1. ServerType'
  BY DEF ServerInv, ServerType
<1>2. Outstanding'
  BY DEF ServerInv, Outstanding
<1>3. Earnings'
  BY DEF ServerInv, Earnings
<1>4. SpentOnce'
  BY DEF ServerInv, SpentOnce
<1>5. Later
  BY Drawn DEF Later
<1>6. QED
  BY <1>1, <1>2, <1>3, <1>4, <1>5 DEF ServerInv

LEMMA ChallengeServer ==
  ASSUME ServerInv, NEW q \in Request, Challenge(q), UNCHANGED restarts, NEW v, v = drawn + 1
  PROVE  /\ ServerInv' /\ Later
         /\ Keyed(v, q.cert)'
<1> DEFINE row == [value |-> drawn + 1, age |-> 0]
<1>0. /\ q.cert \in Account /\ drawn \in Nat /\ drawn + 1 \in Value /\ row \in ChallengeRow
      /\ None \notin ChallengeRow
  BY RequestFields, Drawn, LimitsAssumption, BoundsAssumption, NoneAssumption
     DEF Challenge, Value, ChallengeRow, Age
<1>1. /\ challenges' = [Swept(challenges, Window) EXCEPT ![q.cert] = row]
      /\ tokens' = Swept(tokens, Ttl) /\ drawn' = drawn + 1 /\ UNCHANGED <<granted, restarts>>
  BY DEF Challenge
<1>2. row.value = drawn + 1 /\ row # None
  BY <1>0
<1> HIDE DEF row
<1>3. /\ challenges' \in [Account -> ChallengeRow \cup {None}] /\ challenges'[q.cert] = row
      /\ \A a \in Account \ {q.cert} : challenges'[a] \in {challenges[a], None}
      /\ tokens' \in [Token -> TokenRow \cup {None}]
      /\ \A t \in Token : tokens'[t] \in {tokens[t], None}
  BY <1>0, <1>1, SweptChallenges, SweptTokens
<1>4. ServerType'
  BY <1>0, <1>1, <1>3 DEF ServerInv, ServerType
<1>5. \A a \in Account : challenges[a] # None => challenges[a].value \in Nat
  BY ValueType DEF ServerInv, ServerType, ChallengeRow
<1>6. \A i \in DOMAIN granted : granted[i].spent \in Nat
  <2>1. \A i \in DOMAIN granted : granted[i] \in Grant
    BY DEF ServerInv, ServerType
  <2>2. QED
    BY <2>1, ValueType DEF Grant
<1>7. Outstanding'
  BY <1>0, <1>1, <1>2, <1>3, <1>5, <1>6 DEF ServerInv, Outstanding, Earnings
<1>8. Earnings' /\ SpentOnce'
  BY <1>0, <1>1, <1>3, <1>6 DEF ServerInv, Earnings, SpentOnce
<1>9. Later
  BY <1>0, <1>1, <1>2, <1>3 DEF Later
<1>10. Keyed(v, q.cert)'
  BY <1>0, <1>1, <1>3, <1>5 DEF Keyed, ServerInv, Outstanding
<1>11. QED
  BY <1>4, <1>7, <1>8, <1>9, <1>10 DEF ServerInv

(* The token is granted to whoever used the key of the account it is of. *)
LEMMA GrantsServer ==
  ASSUME ServerInv, NEW q \in Request, q.ask = "response", Keyed(q.value, q.key), Grants(q),
         challenges' = [Swept(challenges, Window) EXCEPT ![q.guid] = None],
         UNCHANGED <<drawn, restarts>>, NEW t, t = Len(granted) + 1
  PROVE  /\ ServerInv' /\ Later
         /\ Earned(t, q.from)' /\ t \in Token
<1> DEFINE g == [to |-> q.from, of |-> q.guid, key |-> q.key, spent |-> q.value, run |-> restarts]
<1> DEFINE n == Len(granted)
<1> DEFINE row == [of |-> q.guid, age |-> 0]
<1>0. /\ q.guid \in Account /\ q.from \in Client /\ q.value \in Value /\ q.key \in Account
      /\ granted \in Seq(Grant) /\ n \in Nat
  BY RequestFields DEF ServerInv, ServerType
<1>1. g \in Grant /\ row \in TokenRow /\ n + 1 \in Token
  BY <1>0, LimitsAssumption, BoundsAssumption DEF Grants, Grant, ServerInv, ServerType, TokenRow, Age, Token
<1>2. /\ tokens' = [Swept(tokens, Ttl) EXCEPT ![n + 1] = row] /\ granted' = Append(granted, g)
      /\ challenges[q.guid] # None /\ challenges[q.guid].value = q.value /\ n < MaxTokens
  BY DEF Grants, Right
<1>3. /\ g.to = q.from /\ g.of = q.guid /\ g.key = q.guid /\ g.spent = q.value /\ g.run = restarts
      /\ row.of = q.guid
  BY <1>0, <1>2 DEF Keyed
<1> HIDE DEF g, row
<1>4. /\ granted' \in Seq(Grant) /\ Len(granted') = n + 1 /\ granted'[n + 1] = g
      /\ DOMAIN granted = 1 .. n /\ DOMAIN granted' = 1 .. n + 1
      /\ \A i \in 1 .. n : granted'[i] = granted[i]
  BY <1>0, <1>1, <1>2
<1>5. /\ challenges' \in [Account -> ChallengeRow \cup {None}] /\ challenges'[q.guid] = None
      /\ \A a \in Account \ {q.guid} : challenges'[a] \in {challenges[a], None}
  BY <1>0, SweptChallenges
<1>6. /\ tokens' \in [Token -> TokenRow \cup {None}] /\ tokens'[n + 1] = row
      /\ \A u \in Token \ {n + 1} : tokens'[u] \in {tokens[u], None}
  BY <1>1, <1>2, SweptTokens
<1>7. ServerType'
  BY <1>0, <1>2, <1>4, <1>5, <1>6, BoundsAssumption DEF ServerInv, ServerType
<1>8. Outstanding'
  <2> SUFFICES ASSUME NEW a \in Account, challenges'[a] # None
               PROVE  /\ challenges'[a].value <= drawn
                      /\ \A b \in Account :
                           challenges'[b] # None /\ challenges'[b].value = challenges'[a].value => b = a
                      /\ \A i \in DOMAIN granted' : granted'[i].spent # challenges'[a].value
    BY DEF Outstanding
  <2>1. a # q.guid /\ challenges[a] # None /\ challenges'[a] = challenges[a]
    BY <1>5
  <2>2. challenges[a].value # q.value
    BY <1>0, <1>2, <2>1 DEF ServerInv, Outstanding
  <2>3. \A i \in 1 .. n : granted[i].spent # challenges[a].value
    BY <1>4, <2>1 DEF ServerInv, Outstanding
  <2>4. \A i \in DOMAIN granted' : granted'[i].spent # challenges'[a].value
    BY <1>0, <1>3, <1>4, <2>1, <2>2, <2>3
  <2>5. QED
    BY <1>5, <2>1, <2>4 DEF ServerInv, Outstanding
<1>9. \A i \in 1 .. n : granted[i].spent # q.value
  BY <1>0, <1>2, <1>4 DEF ServerInv, Outstanding
<1>10. SpentOnce'
  BY <1>0, <1>3, <1>4, <1>9 DEF ServerInv, SpentOnce
<1>11. Earnings'
  <2>1. \A i \in DOMAIN granted' : granted'[i].spent <= drawn /\ granted'[i].of = granted'[i].key
    BY <1>0, <1>3, <1>4 DEF ServerInv, Earnings, Keyed
  <2>2. \A u \in Token : tokens'[u] # None =>
          u \in DOMAIN granted' /\ granted'[u].of = tokens'[u].of /\ granted'[u].run = restarts
    BY <1>0, <1>3, <1>4, <1>6 DEF ServerInv, Earnings
  <2>3. QED
    BY <2>1, <2>2 DEF Earnings
<1>12. Later
  BY <1>0, <1>4, <1>5, Drawn DEF Later
<1>13. Earned(t, q.from)'
  BY <1>0, <1>3, <1>4 DEF Earned
<1>14. QED
  BY <1>1, <1>7, <1>8, <1>10, <1>11, <1>12, <1>13 DEF ServerInv

-----------------------------------------------------------------------------
LEMMA ServerStays ==
  ASSUME ServerInv, UNCHANGED <<serverVars, restarts>>
  PROVE  ServerInv' /\ Later
<1>1. UNCHANGED <<challenges, tokens, drawn, granted, restarts>>
  BY DEF serverVars
<1>2. /\ challenges \in [Account -> ChallengeRow \cup {None}]
      /\ tokens \in [Token -> TokenRow \cup {None}]
  BY DEF ServerInv, ServerType
<1>3. QED
  BY <1>1, <1>2, Forgets

LEMMA CertStep ==
  ASSUME IInv, NEW q, RequestOK(q), RefuseCertificate(q) \/ Challenge(q),
         UNCHANGED <<restarts, logins>>
  PROVE  IInv'
<1>0. q \in Request /\ q.from \in Client /\ ServerInv /\ ClientsInv /\ drawn \in Nat
  BY RequestFields, Drawn DEF RequestOK, IInv
<1>1. PICK k : k = client[q.from]
  OBVIOUS
<1>2. KnownOK(k, q.from) /\ KnownOK(Failed(k), q.from) /\ k \in Known
  BY <1>0, <1>1, FailedOK DEF ClientsInv, KnownOK
<1>3. CASE RefuseCertificate(q)
  <2>1. ServerInv' /\ Later
    BY <1>0, <1>3, ServerStays DEF RefuseCertificate
  <2>2. PICK f : f = Failed(k)
    OBVIOUS
  <2>3. KnownOK(f, q.from)' /\ Answers(q, f, FALSE)
    BY <1>0, <1>1, <1>2, <1>3, <2>1, <2>2, KnownLater DEF RefuseCertificate, Refused
  <2>4. ClientsInv'
    BY <1>0, <2>1, <2>3, AnswersKeep
  <2>5. QED
    BY <2>1, <2>4 DEF IInv
<1>4. CASE Challenge(q)
  <2>0. PICK v : v = drawn + 1
    OBVIOUS
  <2>1. ServerInv' /\ Later /\ Keyed(v, q.cert)' /\ v \in Value /\ q.cert \in Account
    <3>1. v \in Value
      BY <1>0, <1>4, <2>0, BoundsAssumption DEF Challenge, Value
    <3>2. QED
      BY <1>0, <1>4, <2>0, <3>1, ChallengeServer, RequestFields DEF Challenge
  <2>2. PICK f : f = Failed(k)
    OBVIOUS
  <2>3. KnownOK(f, q.from)'
    BY <1>0, <1>2, <2>1, <2>2, KnownLater
  <2>4. PICK h : h = [k EXCEPT !.challenge = Encrypted(q.cert, v)]
    OBVIOUS
  <2>5. KnownOK(h, q.from)'
    <3>1. /\ h \in Known /\ h.challenge = [key |-> q.cert, value |-> v] /\ h.uuid = k.uuid
      BY <1>2, <2>1, <2>4 DEF Known, Encrypted
    <3>2. h.challenge.value = v /\ h.challenge.key = q.cert
      BY <3>1
    <3>3. Keyed(h.challenge.value, h.challenge.key)'
      BY <2>1, <3>2
    <3>4. KnownOK(k, q.from)'
      BY <1>0, <1>2, <2>1, KnownLater
    <3>5. QED
      BY <3>1, <3>3, <3>4 DEF KnownOK
  <2>6. Answers(q, f, FALSE) \/ Answers(q, h, FALSE)
    BY <1>1, <1>4, <2>0, <2>2, <2>4 DEF Challenge, Refused
  <2>7. ClientsInv'
    BY <1>0, <2>1, <2>3, <2>5, <2>6, AnswersKeep
  <2>8. QED
    BY <2>1, <2>7 DEF IInv
<1>5. QED
  BY <1>3, <1>4

LEMMA AnswerStep ==
  ASSUME IInv, NEW q, RequestOK(q), Answer(q), UNCHANGED <<restarts, logins>>
  PROVE  IInv'
<1>0. q \in Request /\ q.from \in Client /\ q.guid \in Account /\ ServerInv /\ ClientsInv
      /\ drawn \in Nat /\ q.ask = "response" /\ Keyed(q.value, q.key)
  BY RequestFields, Drawn DEF RequestOK, IInv, Answer
<1>1. PICK k : k = client[q.from]
  OBVIOUS
<1>2. KnownOK(k, q.from) /\ KnownOK(Failed(k), q.from) /\ k \in Known
  BY <1>0, <1>1, FailedOK DEF ClientsInv, KnownOK
<1>3. UNCHANGED drawn /\ challenges' = [Swept(challenges, Window) EXCEPT ![q.guid] = None]
  BY DEF Answer
<1>4. CASE Grants(q)
  <2>0. PICK t : t = Len(granted) + 1
    OBVIOUS
  <2>1. ServerInv' /\ Later /\ Earned(t, q.from)' /\ t \in Token
    BY <1>0, <1>3, <1>4, <2>0, GrantsServer
  <2>2. PICK h : h = [k EXCEPT !.uuid = t, !.challenge = None]
    OBVIOUS
  <2>3. h \in Known /\ h.challenge = None /\ h.uuid = t
    BY <1>2, <2>1, <2>2 DEF Known
  <2>4. KnownOK(h, q.from)'
    BY <2>1, <2>3 DEF KnownOK
  <2>5. Answers(q, h, TRUE)
    BY <1>1, <1>4, <2>0, <2>2 DEF Grants
  <2>6. ClientsInv'
    BY <1>0, <2>1, <2>4, <2>5, AnswersKeep
  <2>7. QED
    BY <2>1, <2>6 DEF IInv
<1>5. CASE tokens' = Swept(tokens, Ttl) /\ Refused(q) /\ UNCHANGED granted
  <2>1. /\ challenges' \in [Account -> ChallengeRow \cup {None}]
        /\ \A a \in Account : challenges'[a] \in {challenges[a], None}
        /\ tokens' \in [Token -> TokenRow \cup {None}]
        /\ \A t \in Token : tokens'[t] \in {tokens[t], None}
    BY <1>0, <1>3, <1>5, SweptChallenges, SweptTokens
  <2>2. /\ \A a \in Account : challenges'[a] # None =>
             challenges[a] # None /\ challenges'[a].value = challenges[a].value
        /\ \A t \in Token : tokens'[t] # None => tokens[t] # None /\ tokens'[t].of = tokens[t].of
    BY <2>1
  <2>3. ServerInv' /\ Later
    BY <1>0, <1>3, <1>5, <2>1, <2>2, Forgets
  <2>4. PICK f : f = Failed(k)
    OBVIOUS
  <2>5. KnownOK(f, q.from)' /\ Answers(q, f, FALSE)
    BY <1>0, <1>1, <1>2, <1>5, <2>3, <2>4, KnownLater DEF Refused
  <2>6. ClientsInv'
    BY <1>0, <2>3, <2>5, AnswersKeep
  <2>7. QED
    BY <2>3, <2>6 DEF IInv
<1>6. QED
  BY <1>4, <1>5 DEF Answer

LEMMA LookupStep ==
  ASSUME IInv, NEW q, RequestOK(q), Lookup(q), UNCHANGED <<restarts, logins>>
  PROVE  IInv'
<1>0. q \in Request /\ q.from \in Client /\ q.value \in Token /\ ServerInv /\ ClientsInv
      /\ drawn \in Nat
  BY RequestFields, Drawn DEF RequestOK, IInv, Lookup
<1>1. PICK k : k = client[q.from]
  OBVIOUS
<1>2. KnownOK(k, q.from) /\ k \in Known
  BY <1>0, <1>1 DEF ClientsInv, KnownOK
<1>3. UNCHANGED <<challenges, drawn, granted>>
  BY DEF Lookup
<1>4. challenges \in [Account -> ChallengeRow \cup {None}] /\ tokens \in [Token -> TokenRow \cup {None}]
  BY <1>0 DEF ServerInv, ServerType
<1>5. CASE Recognised(q) /\ Slide(q) /\ Answers(q, client[q.from], TRUE)
  <2>1. /\ tokens[q.value] # None /\ tokens[q.value] \in TokenRow
        /\ tokens' = [tokens EXCEPT ![q.value].age = 0]
    BY <1>0, <1>4, <1>5 DEF Recognised, Slide
  <2>2. /\ [tokens[q.value] EXCEPT !.age = 0] \in TokenRow
        /\ [tokens[q.value] EXCEPT !.age = 0].of = tokens[q.value].of
    BY <2>1, LimitsAssumption DEF TokenRow, Age
  <2>3. /\ tokens' \in [Token -> TokenRow \cup {None}]
        /\ \A t \in Token : tokens'[t] # None => tokens[t] # None /\ tokens'[t].of = tokens[t].of
    BY <1>0, <1>4, <2>1, <2>2
  <2>4. ServerInv' /\ Later
    BY <1>0, <1>3, <1>4, <2>3, Forgets
  <2>5. KnownOK(k, q.from)' /\ Answers(q, k, TRUE)
    BY <1>0, <1>1, <1>2, <1>5, <2>4, KnownLater
  <2>6. ClientsInv'
    BY <1>0, <2>4, <2>5, AnswersKeep
  <2>7. QED
    BY <2>4, <2>6 DEF IInv
<1>6. CASE UNCHANGED tokens /\ Answers(q, [client[q.from] EXCEPT !.uuid = 0, !.challenge = None], FALSE)
  <2>1. ServerInv' /\ Later
    BY <1>0, <1>3, <1>6, ServerStays DEF serverVars
  <2>2. PICK h : h = [k EXCEPT !.uuid = 0, !.challenge = None]
    OBVIOUS
  <2>3. h \in Known /\ h.challenge = None /\ h.uuid = 0
    BY <1>2, <2>2 DEF Known
  <2>4. KnownOK(h, q.from)' /\ Answers(q, h, FALSE)
    BY <1>1, <1>6, <2>2, <2>3 DEF KnownOK
  <2>5. ClientsInv'
    BY <1>0, <2>1, <2>4, AnswersKeep
  <2>6. QED
    BY <2>1, <2>5 DEF IInv
<1>7. QED
  BY <1>5, <1>6 DEF Lookup

LEMMA RestartOrTick ==
  ASSUME IInv, Restart \/ Tick
  PROVE  IInv'
<1>0. /\ ServerInv /\ ClientsInv /\ drawn \in Nat
      /\ challenges \in [Account -> ChallengeRow \cup {None}]
      /\ tokens \in [Token -> TokenRow \cup {None}]
  BY Drawn DEF IInv, ServerInv, ServerType
<1>1. ServerInv' /\ Later
  <2>1. CASE Restart
    <3>1. restarts' \in 0 .. MaxRestarts
      BY <1>0, <2>1, BoundsAssumption DEF Restart, ServerInv, ServerType
    <3>2. QED
      BY <1>0, <2>1, <3>1, Forgets DEF Restart
  <2>2. CASE Tick
    <3>1. \A row \in ChallengeRow : /\ [row EXCEPT !.age = Older(@, Window)] \in ChallengeRow
                                    /\ [row EXCEPT !.age = Older(@, Window)].value = row.value
      BY LimitsAssumption DEF ChallengeRow, Age, Older
    <3>2. \A row \in TokenRow : /\ [row EXCEPT !.age = Older(@, Ttl)] \in TokenRow
                                /\ [row EXCEPT !.age = Older(@, Ttl)].of = row.of
      BY LimitsAssumption DEF TokenRow, Age, Older
    <3>3. /\ challenges' \in [Account -> ChallengeRow \cup {None}]
          /\ \A a \in Account : challenges'[a] # None =>
               challenges[a] # None /\ challenges'[a].value = challenges[a].value
      BY <1>0, <2>2, <3>1 DEF Tick
    <3>4. /\ tokens' \in [Token -> TokenRow \cup {None}]
          /\ \A t \in Token : tokens'[t] # None => tokens[t] # None /\ tokens'[t].of = tokens[t].of
      BY <1>0, <2>2, <3>2 DEF Tick
    <3>5. QED
      BY <1>0, <2>2, <3>3, <3>4, Forgets DEF Tick
  <2>3. QED
    BY <2>1, <2>2
<1>2. UNCHANGED <<client, sent, late, logins>>
  BY DEF Restart, Tick
<1>3. \A c \in Client : KnownOK(client[c], c)'
  <2> SUFFICES ASSUME NEW c \in Client PROVE KnownOK(client[c], c)'
    OBVIOUS
  <2>1. PICK l : l = client[c] /\ l = client'[c]
    BY <1>2
  <2>2. KnownOK(l, c)'
    BY <1>0, <1>1, <2>1, KnownLater DEF ClientsInv
  <2>3. QED
    BY <2>1, <2>2
<1>4. \A c \in Client : sent'[c] # None => RequestOK(sent[c])'
  <2> SUFFICES ASSUME NEW c \in Client, sent'[c] # None PROVE RequestOK(sent[c])'
    OBVIOUS
  <2>1. PICK p : p = sent[c] /\ p = sent'[c]
    BY <1>2
  <2>2. RequestOK(p)'
    BY <1>0, <1>1, <2>1, RequestLater DEF ClientsInv
  <2>3. QED
    BY <2>1, <2>2
<1>5. \A q \in late' : RequestOK(q)'
  BY <1>0, <1>1, <1>2, RequestLater DEF ClientsInv
<1>6. quiet' \in [Client -> Age(Ttl)]
  <2>1. 0 \in Age(Ttl) /\ \A n \in Age(Ttl) : Older(n, Ttl) \in Age(Ttl)
    BY LimitsAssumption DEF Age, Older
  <2>2. QED
    BY <1>0, <2>1 DEF Restart, Tick, ClientsInv
<1>7. QED
  BY <1>0, <1>1, <1>2, <1>3, <1>4, <1>5, <1>6 DEF IInv, ClientsInv

(* A client comes to know k, and to wait for r or for nothing; what it       *)
(* waited for may still be served.                                           *)
Comes(c, k, r) ==
  /\ UNCHANGED <<serverVars, restarts, quiet>> /\ logins' \in 0 .. MaxLogIns
  /\ KnownOK(k, c) /\ client' = [client EXCEPT ![c] = k]
  /\ r # None => RequestOK(r)
  /\ sent' = [sent EXCEPT ![c] = r]
  /\ late' = late \/ (sent[c] # None /\ late' = late \cup {sent[c]})

LEMMA ClientMoves ==
  ASSUME IInv, NEW c \in Client, NEW k, NEW r \in Request \cup {None}, Comes(c, k, r)
  PROVE  IInv'
<1> USE DEF Comes
<1>0. ServerInv /\ ClientsInv /\ drawn \in Nat /\ k \in Known
  BY Drawn DEF IInv, KnownOK
<1>1. ServerInv' /\ Later
  BY <1>0, ServerStays
<1>2. /\ client' \in [Client -> Known] /\ client'[c] = k
      /\ \A d \in Client \ {c} : client'[d] = client[d]
      /\ sent' \in [Client -> Request \cup {None}] /\ sent'[c] = r
      /\ \A d \in Client \ {c} : sent'[d] = sent[d]
  BY <1>0 DEF ClientsInv
<1>3. \A d \in Client : KnownOK(client[d], d)'
  <2> SUFFICES ASSUME NEW d \in Client PROVE KnownOK(client[d], d)'
    OBVIOUS
  <2>1. PICK l : l = client'[d]
    OBVIOUS
  <2>2. KnownOK(l, d)
    BY <1>0, <1>2, <2>1 DEF ClientsInv
  <2>3. KnownOK(l, d)'
    BY <1>0, <1>1, <2>2, KnownLater
  <2>4. QED
    BY <2>1, <2>3
<1>4. \A d \in Client : sent'[d] # None => RequestOK(sent[d])'
  <2> SUFFICES ASSUME NEW d \in Client, sent'[d] # None PROVE RequestOK(sent[d])'
    OBVIOUS
  <2>1. PICK p : p = sent'[d]
    OBVIOUS
  <2>2. RequestOK(p)
    BY <1>0, <1>2, <2>1 DEF ClientsInv
  <2>3. RequestOK(p)'
    BY <1>0, <1>1, <2>2, RequestLater
  <2>4. QED
    BY <2>1, <2>3
<1>5. late' \subseteq Request /\ \A q \in late' : RequestOK(q)'
  <2>1. \A q \in late' : RequestOK(q)
    BY <1>0 DEF ClientsInv
  <2>2. \A q \in late' : RequestOK(q)'
    BY <1>0, <1>1, <2>1, RequestLater
  <2>3. QED
    BY <2>1, <2>2 DEF RequestOK
<1>6. QED
  BY <1>0, <1>1, <1>2, <1>3, <1>4, <1>5 DEF IInv, ClientsInv

LEMMA SendStep ==
  ASSUME IInv, NEW c \in Client, AskChallenge(c) \/ AnswerChallenge(c) \/ UseToken(c)
  PROVE  IInv'
<1>0. /\ ServerInv /\ ClientsInv /\ client[c] \in Known /\ KnownOK(client[c], c)
      /\ Guid(c) \in Account /\ sent[c] = None
      /\ sent \in [Client -> Request \cup {None}]
      /\ UNCHANGED <<serverVars, restarts, quiet, late, logins>> /\ logins' \in 0 .. MaxLogIns
  <2>1. ServerInv /\ ClientsInv /\ client[c] \in Known /\ KnownOK(client[c], c)
    BY DEF IInv, ClientsInv
  <2>2. Guid(c) \in Account
    BY <2>1, KnownFields DEF Guid
  <2>3. /\ sent[c] = None /\ UNCHANGED <<serverVars, restarts, quiet, late, logins>>
        /\ sent \in [Client -> Request \cup {None}]
    BY <2>1 DEF AskChallenge, AnswerChallenge, UseToken, Send, ClientsInv
  <2>4. QED
    BY <2>1, <2>2, <2>3 DEF ClientsInv
<1>1. PICK k : k = [client[c] EXCEPT !.guid = Guid(c)]
  OBVIOUS
<1>2. KnownOK(k, c)
  <2>1. k \in Known /\ k.challenge = client[c].challenge /\ k.uuid = client[c].uuid
    BY <1>0, <1>1 DEF Known
  <2>2. QED
    BY <1>0, <2>1 DEF KnownOK
<1>3. ASSUME NEW r \in Request, RequestOK(r), Send(c, r), client' = [client EXCEPT ![c].guid = Guid(c)]
      PROVE  IInv'
  <2>1. client' = [client EXCEPT ![c] = k] /\ sent' = [sent EXCEPT ![c] = r] /\ late' = late
    BY <1>0, <1>1, <1>3 DEF Send
  <2>2. QED
    BY <1>0, <1>2, <1>3, <2>1, ClientMoves DEF Comes
<1>4. CASE AskChallenge(c)
  <2>1. PICK r : r = [ask |-> "cert", from |-> c, guid |-> Guid(c), cert |-> client[c].account]
    OBVIOUS
  <2>2. r \in Request /\ r.ask = "cert"
    BY <1>0, <2>1, KnownFields DEF Request
  <2>3. QED
    BY <1>3, <1>4, <2>1, <2>2 DEF AskChallenge, RequestOK
<1>5. CASE UseToken(c)
  <2>1. PICK r : r = [ask |-> "token", from |-> c, guid |-> Guid(c), value |-> client[c].uuid]
    OBVIOUS
  <2>2. r \in Request /\ r.ask = "token" /\ r.value = client[c].uuid /\ r.from = c
    BY <1>0, <1>5, <2>1, KnownFields DEF Request, UseToken
  <2>3. RequestOK(r)
    BY <1>0, <1>5, <2>2 DEF RequestOK, KnownOK, UseToken
  <2>4. QED
    BY <1>3, <1>5, <2>1, <2>2, <2>3 DEF UseToken
<1>6. CASE AnswerChallenge(c)
  <2>0. /\ client[c].challenge # None /\ client[c].challenge.value \in Value
        /\ client[c].account \in Account
        /\ Keyed(client[c].challenge.value, client[c].challenge.key)
    BY <1>0, <1>6, KnownFields DEF AnswerChallenge, KnownOK
  <2>1. CASE /\ client[c].challenge.key = client[c].account
             /\ Send(c, [ask |-> "response", from |-> c, guid |-> Guid(c),
                         value |-> client[c].challenge.value, key |-> client[c].account])
             /\ client' = [client EXCEPT ![c].guid = Guid(c)]
    <3>1. PICK r : r = [ask |-> "response", from |-> c, guid |-> Guid(c),
                        value |-> client[c].challenge.value, key |-> client[c].account]
      OBVIOUS
    <3>2. /\ r \in Request /\ r.ask = "response" /\ r.value = client[c].challenge.value
          /\ r.key = client[c].account
      BY <1>0, <2>0, <3>1 DEF Request
    <3>3. RequestOK(r)
      BY <2>0, <2>1, <3>2 DEF RequestOK
    <3>4. QED
      BY <1>3, <2>1, <3>1, <3>2, <3>3
  <2>2. CASE client' = [client EXCEPT ![c].challenge = None] /\ UNCHANGED sent
    <3>1. PICK h : h = [client[c] EXCEPT !.challenge = None]
      OBVIOUS
    <3>2. h \in Known /\ h.challenge = None /\ h.uuid = client[c].uuid
      BY <1>0, <3>1 DEF Known
    <3>3. KnownOK(h, c)
      BY <1>0, <3>2 DEF KnownOK
    <3>4. client' = [client EXCEPT ![c] = h] /\ late' = late
      BY <1>0, <2>2, <3>1
    <3>5. PICK r \in Request \cup {None} : r = None
      OBVIOUS
    <3>6. sent' = [sent EXCEPT ![c] = r] /\ (r # None => RequestOK(r))
      BY <1>0, <2>2, <3>5
    <3>7. QED
      BY <1>0, <3>3, <3>4, <3>6, ClientMoves DEF Comes
  <2>3. QED
    BY <1>6, <2>1, <2>2 DEF AnswerChallenge
<1>7. QED
  BY <1>4, <1>5, <1>6

LEMMA GiveUpOrLogIn ==
  ASSUME IInv, NEW c \in Client, GiveUp(c) \/ LogIn(c)
  PROVE  IInv'
<1>0. /\ ServerInv /\ ClientsInv /\ client[c] \in Known /\ KnownOK(client[c], c)
      /\ client \in [Client -> Known] /\ sent \in [Client -> Request \cup {None}]
      /\ sent[c] # None => RequestOK(sent[c])
  BY DEF IInv, ClientsInv
<1>1. /\ UNCHANGED <<serverVars, restarts, quiet>> /\ logins' \in 0 .. MaxLogIns
  BY <1>0, BoundsAssumption DEF GiveUp, LogIn, ClientsInv
<1>2. CASE GiveUp(c)
  <2>0. PICK r \in Request \cup {None} : r = None
    OBVIOUS
  <2>1. sent' = [sent EXCEPT ![c] = r] /\ (r # None => RequestOK(r))
    BY <1>2, <2>0 DEF GiveUp
  <2>2. PICK k : client' = [client EXCEPT ![c] = k] /\ KnownOK(k, c)
    <3>1. CASE UNCHANGED client
      <4>1. client' = [client EXCEPT ![c] = client[c]]
        BY <1>0, <3>1
      <4>2. QED
        BY <1>0, <4>1
    <3>2. CASE client' = [client EXCEPT ![c] = Failed(@)]
      <4>1. client' = [client EXCEPT ![c] = Failed(client[c])]
        BY <3>2
      <4>2. QED
        BY <1>0, <4>1, FailedOK
    <3>3. QED
      BY <1>2, <3>1, <3>2 DEF GiveUp
  <2>3. late' = late \/ (sent[c] # None /\ late' = late \cup {sent[c]})
    BY <1>2 DEF GiveUp
  <2>4. QED
    BY <1>1, <2>1, <2>2, <2>3, ClientMoves DEF Comes
<1>3. CASE LogIn(c)
  <2>0. PICK a \in Account : \E g \in {client[c].guid, a} :
          client' = [client EXCEPT ![c].account = a, ![c].guid = g]
    BY <1>3 DEF LogIn
  <2>1. PICK g \in {client[c].guid, a} :
          client' = [client EXCEPT ![c].account = a, ![c].guid = g]
    BY <2>0
  <2>2. PICK k : k = [client[c] EXCEPT !.account = a, !.guid = g]
    OBVIOUS
  <2>3. k \in Known /\ k.challenge = client[c].challenge /\ k.uuid = client[c].uuid
    BY <1>0, <2>2 DEF Known
  <2>4. KnownOK(k, c)
    BY <1>0, <2>3 DEF KnownOK
  <2>5. client' = [client EXCEPT ![c] = k]
    BY <1>0, <2>1, <2>2
  <2>6. PICK r \in Request \cup {None} : r = sent[c]
    BY <1>0
  <2>7. sent' = [sent EXCEPT ![c] = r] /\ late' = late /\ (r # None => RequestOK(r))
    BY <1>0, <1>3, <2>6 DEF LogIn
  <2>8. QED
    BY <1>1, <2>4, <2>5, <2>7, ClientMoves DEF Comes
<1>4. QED
  BY <1>2, <1>3

-----------------------------------------------------------------------------
LEMMA Holds == Init => IInv
<1> SUFFICES ASSUME Init PROVE IInv
  OBVIOUS
<1>1. \A c \in Client : /\ client[c] \in Known /\ client[c].challenge = None /\ client[c].uuid = 0
                        /\ client \in [Client -> Known]
  BY DEF Init, Known
<1>2. \A c \in Client : KnownOK(client[c], c)
  BY <1>1 DEF KnownOK
<1>3. client \in [Client -> Known]
  BY DEF Init, Known
<1>4. /\ ServerType /\ sent \in [Client -> Request \cup {None}] /\ quiet \in [Client -> Age(Ttl)]
      /\ logins \in 0 .. MaxLogIns
  BY BoundsAssumption, LimitsAssumption DEF Init, ServerType, Value, Age
<1>5. Outstanding /\ Earnings /\ SpentOnce
  BY DEF Init, Outstanding, Earnings, SpentOnce
<1>6. \A c \in Client : sent[c] = None
  BY DEF Init
<1>7. QED
  BY <1>2, <1>3, <1>4, <1>5, <1>6 DEF Init, IInv, ServerInv, ClientsInv

LEMMA Kept == IInv /\ [Next]_vars => IInv'
<1> SUFFICES ASSUME IInv, [Next]_vars PROVE IInv'
  OBVIOUS
<1>1. CASE Serve
  <2>1. PICK q \in Pending : RefuseCertificate(q) \/ Challenge(q) \/ Answer(q) \/ Lookup(q)
    BY <1>1 DEF Serve
  <2>2. RequestOK(q)
    BY DEF Pending, IInv, ClientsInv
  <2>3. QED
    BY <1>1, <2>1, <2>2, CertStep, AnswerStep, LookupStep DEF Serve
<1>2. CASE Restart \/ Tick
  BY <1>2, RestartOrTick
<1>3. CASE \E c \in Client : AskChallenge(c) \/ AnswerChallenge(c) \/ UseToken(c) \/ GiveUp(c) \/ LogIn(c)
  BY <1>3, SendStep, GiveUpOrLogIn
<1>4. CASE UNCHANGED vars
  <2>1. ServerInv' /\ Later
    BY <1>4, ServerStays DEF IInv, vars
  <2>2. UNCHANGED <<challenges, tokens, drawn, granted, restarts, client, sent, late, quiet, logins>>
    BY <1>4 DEF vars, serverVars
  <2>3. (\A c \in Client : KnownOK(client[c], c))' /\ (\A q \in Request : RequestOK(q) => RequestOK(q)')
    BY <2>2 DEF IInv, ClientsInv, KnownOK, RequestOK, Keyed, Earned
  <2>4. (\A c \in Client : sent[c] # None => RequestOK(sent[c]))'
    BY <2>2 DEF IInv, ClientsInv, RequestOK, Keyed, Earned
  <2>5. QED
    BY <2>1, <2>2, <2>3, <2>4 DEF IInv, ClientsInv
<1>5. QED
  BY <1>1, <1>2, <1>3, <1>4 DEF Next

-----------------------------------------------------------------------------
(* That who is active stays in: a client waits with the token it holds, a    *)
(* grant is of this run or an earlier one, and a step of the server takes no *)
(* token that is good still.                                                 *)
Runs == \A i \in DOMAIN granted : granted[i].run <= restarts
Waits(c) == sent[c] # None /\ sent[c].ask = "token" => client[c].uuid = sent[c].value
StaysIn(c) ==
  client[c].uuid # 0 /\ quiet[c] <= Ttl /\ granted[client[c].uuid].run = restarts =>
    tokens[client[c].uuid] # None /\ tokens[client[c].uuid].age <= quiet[c]
Active == Runs /\ \A c \in Client : Waits(c) /\ StaysIn(c)

KeepsTokens ==
  \A t \in Token : tokens[t] # None /\ tokens[t].age <= Ttl =>
    tokens'[t] # None /\ tokens'[t].age <= tokens[t].age
KeepsGrants == \A i \in DOMAIN granted : i \in DOMAIN granted' /\ granted'[i] = granted[i]

LEMMA TokenFields ==
  ASSUME IInv, NEW t \in Token, tokens[t] # None
  PROVE  tokens[t].age \in Nat
BY LimitsAssumption DEF IInv, ServerInv, ServerType, TokenRow, Age

LEMMA QuietFields ==
  ASSUME IInv, NEW c \in Client
  PROVE  quiet[c] \in Nat
BY LimitsAssumption DEF IInv, ClientsInv, Age

(* A client that goes on with its token, or without, while tokens are kept.  *)
LEMMA StillIn ==
  ASSUME IInv, IInv', NEW c \in Client, StaysIn(c), KeepsTokens, KeepsGrants, UNCHANGED restarts,
         client'[c].uuid \in {client[c].uuid, 0}, quiet'[c] = quiet[c]
  PROVE  StaysIn(c)'
<1> SUFFICES ASSUME client'[c].uuid # 0, quiet[c] <= Ttl,
                    granted'[client'[c].uuid].run = restarts
             PROVE  tokens'[client'[c].uuid] # None /\ tokens'[client'[c].uuid].age <= quiet[c]
  BY DEF StaysIn
<1>1. PICK t : t = client[c].uuid /\ t = client'[c].uuid
  OBVIOUS
<1>2. t \in DOMAIN granted /\ t \in Token
  BY <1>1, KnownFields DEF IInv, ClientsInv, KnownOK, Earned
<1>3. tokens[t] # None /\ tokens[t].age <= quiet[c]
  BY <1>1, <1>2 DEF KeepsGrants, StaysIn
<1>4. tokens[t].age \in Nat /\ quiet[c] \in Nat /\ Ttl \in Nat
  BY <1>2, <1>3, TokenFields, QuietFields, LimitsAssumption
<1>5. tokens'[t] # None /\ tokens'[t].age <= tokens[t].age
  BY <1>2, <1>3, <1>4 DEF KeepsTokens
<1>6. tokens'[t].age \in Nat
  BY <1>2, <1>5, LimitsAssumption DEF IInv, ServerInv, ServerType, TokenRow, Age
<1>7. QED
  BY <1>1, <1>3, <1>4, <1>5, <1>6

(* An answer tells a client that it is recognised only with a token that was *)
(* granted or extended just then.                                            *)
LEMMA AnswersStay ==
  ASSUME IInv, IInv', Active, Runs', KeepsTokens, KeepsGrants, UNCHANGED restarts,
         NEW q, RequestOK(q), NEW k \in Known, NEW told \in BOOLEAN, Answers(q, k, told),
         IF told THEN sent[q.from] = q => tokens'[k.uuid] # None /\ tokens'[k.uuid].age = 0
         ELSE k.uuid \in {client[q.from].uuid, 0}
  PROVE  Active'
<1>0. q \in Request /\ q.from \in Client /\ client \in [Client -> Known]
      /\ quiet \in [Client -> Age(Ttl)] /\ sent \in [Client -> Request \cup {None}]
  BY RequestFields DEF RequestOK, IInv, ClientsInv
<1>1. CASE UNCHANGED <<sent, client, quiet>>
  BY <1>1, StillIn DEF Active, Waits
<1>2. CASE /\ sent[q.from] = q
           /\ sent' = [sent EXCEPT ![q.from] = None]
           /\ \/ /\ client' = [client EXCEPT ![q.from] = k]
                 /\ quiet' = [quiet EXCEPT ![q.from] = IF told THEN 0 ELSE @]
              \/ /\ \E l \in {Failed(client[q.from]), client[q.from]} :
                      client' = [client EXCEPT ![q.from] = l]
                 /\ UNCHANGED quiet
  <2>1. \A c \in Client \ {q.from} : client'[c] = client[c] /\ quiet'[c] = quiet[c] /\ sent'[c] = sent[c]
    BY <1>0, <1>2
  <2>2. \A c \in Client \ {q.from} : StaysIn(c)'
    BY <2>1, StillIn DEF Active
  <2>3. StaysIn(q.from)'
    <3>1. CASE client' = [client EXCEPT ![q.from] = k] /\ told
      <4>1. client'[q.from] = k
        BY <1>0, <3>1
      <4>2. tokens'[k.uuid] # None /\ tokens'[k.uuid].age = 0
        BY <1>2, <3>1
      <4>3. quiet'[q.from] \in Nat
        BY <1>0, LimitsAssumption DEF IInv, ClientsInv, Age
      <4>4. QED
        BY <4>1, <4>2, <4>3 DEF StaysIn
    <3>2. CASE client' = [client EXCEPT ![q.from] = k] /\ ~told /\ quiet' = [quiet EXCEPT ![q.from] = quiet[q.from]]
      <4>1. client'[q.from] = k /\ quiet'[q.from] = quiet[q.from]
        BY <1>0, <3>2
      <4>2. QED
        BY <1>0, <3>2, <4>1, StillIn DEF Active
    <3>3. ASSUME NEW l \in {Failed(client[q.from]), client[q.from]},
                 client' = [client EXCEPT ![q.from] = l], UNCHANGED quiet
          PROVE  StaysIn(q.from)'
      <4>1. client'[q.from] = l
        BY <1>0, <3>3
      <4>2. l.uuid \in {client[q.from].uuid, 0}
        BY <1>0 DEF Failed, Known
      <4>3. QED
        BY <1>0, <3>3, <4>1, <4>2, StillIn DEF Active
    <3>4. QED
      BY <1>2, <3>1, <3>2, <3>3
  <2>4. \A c \in Client : Waits(c)'
    BY <1>0, <1>2, <2>1 DEF Active, Waits
  <2>5. QED
    BY <2>2, <2>3, <2>4 DEF Active
<1>3. QED
  BY <1>1, <1>2 DEF Answers

LEMMA SweepsKeep ==
  ASSUME IInv, tokens' = Swept(tokens, Ttl)
  PROVE  KeepsTokens
<1>1. tokens \in [Token -> TokenRow \cup {None}]
  BY DEF IInv, ServerInv, ServerType
<1>2. ASSUME NEW t \in Token, tokens[t] # None, tokens[t].age <= Ttl
      PROVE  tokens'[t] = tokens[t]
  <2>1. ~(tokens[t].age > Ttl)
    BY <1>2, TokenFields, LimitsAssumption
  <2>2. QED
    BY <1>1, <2>1 DEF Swept
<1>3. QED
  BY <1>2, TokenFields DEF KeepsTokens

LEMMA ServeStays ==
  ASSUME IInv, IInv', Active, Serve
  PROVE  Active'
<1>1. PICK q \in Pending : RefuseCertificate(q) \/ Challenge(q) \/ Answer(q) \/ Lookup(q)
  BY DEF Serve
<1>2. RequestOK(q) /\ q \in Request /\ q.from \in Client /\ UNCHANGED restarts
  BY RequestFields DEF Pending, IInv, ClientsInv, RequestOK, Serve
<1>3. PICK k : k = client[q.from]
  OBVIOUS
<1>4. k \in Known /\ Failed(k) \in Known /\ Failed(k).uuid = 0
  BY <1>2, <1>3 DEF IInv, ClientsInv, Failed, Known
<1>5. ASSUME UNCHANGED granted PROVE Runs' /\ KeepsGrants
  BY <1>2, <1>5 DEF Active, Runs, KeepsGrants
<1>6. ASSUME KeepsTokens, UNCHANGED granted, Refused(q) PROVE Active'
  BY <1>2, <1>3, <1>4, <1>5, <1>6, AnswersStay DEF Refused
<1>7. ASSUME UNCHANGED tokens PROVE KeepsTokens
  BY <1>7, TokenFields DEF KeepsTokens
<1>8. CASE RefuseCertificate(q)
  BY <1>6, <1>7, <1>8 DEF RefuseCertificate, serverVars
<1>9. CASE Challenge(q)
  <2>1. KeepsTokens /\ UNCHANGED granted
    BY <1>9, SweepsKeep DEF Challenge
  <2>2. CASE Refused(q)
    BY <1>6, <2>1, <2>2
  <2>3. CASE Answers(q, [client[q.from] EXCEPT !.challenge = Encrypted(q.cert, drawn + 1)], FALSE)
    <3>1. PICK h : h = [k EXCEPT !.challenge = Encrypted(q.cert, drawn + 1)]
      OBVIOUS
    <3>2. h.uuid = k.uuid
      BY <1>4, <3>1 DEF Known
    <3>3. h \in Known
      <4>1. drawn + 1 \in Value /\ q.cert \in Account
        BY <1>2, <1>9, RequestFields, BoundsAssumption, Drawn DEF Challenge, Value, IInv
      <4>2. QED
        BY <1>4, <3>1, <4>1 DEF Known, Encrypted
    <3>4. QED
      BY <1>2, <1>3, <1>5, <2>1, <2>3, <3>1, <3>2, <3>3, AnswersStay
  <2>4. QED
    BY <1>9, <2>2, <2>3 DEF Challenge
<1>10. CASE Answer(q)
  <2>1. CASE tokens' = Swept(tokens, Ttl) /\ Refused(q) /\ UNCHANGED granted
    BY <1>6, <2>1, SweepsKeep
  <2>2. CASE Grants(q)
    <3> DEFINE row == [of |-> q.guid, age |-> 0]
               g == [to |-> q.from, of |-> q.guid, key |-> q.key, spent |-> q.value, run |-> restarts]
    <3>0. PICK n : n = Len(granted)
      OBVIOUS
    <3>1. /\ granted \in Seq(Grant) /\ n \in Nat /\ n + 1 \in Token /\ row \in TokenRow
          /\ granted' = Append(granted, g) /\ g.run = restarts
          /\ tokens' = [Swept(tokens, Ttl) EXCEPT ![n + 1] = row] /\ row.age = 0
      BY <1>2, <2>2, <3>0, RequestFields, BoundsAssumption, LimitsAssumption
         DEF Grants, IInv, ServerInv, ServerType, Token, TokenRow, Age
    <3>2. row # None
      BY <3>1, NoneAssumption DEF TokenRow
    <3> HIDE DEF row, g
    <3>3. tokens'[n + 1] = row /\ \A t \in Token \ {n + 1} : tokens'[t] = Swept(tokens, Ttl)[t]
      BY <3>1, SweptTokens DEF IInv
    <3>4. KeepsTokens
      <4> SUFFICES ASSUME NEW t \in Token, tokens[t] # None, tokens[t].age <= Ttl
                   PROVE  tokens'[t] # None /\ tokens'[t].age <= tokens[t].age
        BY DEF KeepsTokens
      <4>1. CASE t = n + 1
        BY <3>1, <3>2, <3>3, <4>1, TokenFields
      <4>2. CASE t # n + 1
        <5>1. tokens \in [Token -> TokenRow \cup {None}] /\ tokens[t].age \in Nat /\ Ttl \in Nat
          BY TokenFields, LimitsAssumption DEF IInv, ServerInv, ServerType
        <5>2. tokens'[t] = tokens[t]
          BY <3>3, <4>2, <5>1 DEF Swept
        <5>3. QED
          BY <5>1, <5>2
      <4>3. QED
        BY <4>1, <4>2
    <3>5. /\ DOMAIN granted = 1 .. n /\ DOMAIN granted' = 1 .. n + 1 /\ granted'[n + 1] = g
          /\ \A i \in 1 .. n : granted'[i] = granted[i]
      BY <3>0, <3>1
    <3>6. KeepsGrants
      BY <3>1, <3>5 DEF KeepsGrants
    <3>7. Runs'
      <4>1. restarts \in Nat
        BY BoundsAssumption DEF IInv, ServerInv, ServerType
      <4>2. QED
        BY <1>2, <3>1, <3>5, <4>1 DEF Active, Runs
    <3>8. PICK h : h = [k EXCEPT !.uuid = n + 1, !.challenge = None]
      OBVIOUS
    <3>9. h \in Known /\ h.uuid = n + 1
      BY <1>4, <3>1, <3>8 DEF Known
    <3>10. Answers(q, h, TRUE)
      BY <1>3, <2>2, <3>0, <3>8 DEF Grants
    <3>11. tokens'[h.uuid] # None /\ tokens'[h.uuid].age = 0
      BY <3>1, <3>2, <3>3, <3>9
    <3>12. QED
      BY <1>2, <3>4, <3>6, <3>7, <3>9, <3>10, <3>11, AnswersStay
  <2>3. QED
    BY <1>10, <2>1, <2>2 DEF Answer
<1>11. CASE Lookup(q)
  <2>0. q.value \in Token /\ q.ask = "token" /\ UNCHANGED granted
        /\ tokens \in [Token -> TokenRow \cup {None}]
    BY <1>2, <1>11, RequestFields DEF Lookup, IInv, ServerInv, ServerType
  <2>1. CASE Recognised(q) /\ Slide(q) /\ Answers(q, client[q.from], TRUE)
    <3>1. /\ tokens[q.value] # None /\ tokens[q.value] \in TokenRow
          /\ tokens' = [tokens EXCEPT ![q.value] = [tokens[q.value] EXCEPT !.age = 0]]
      BY <2>0, <2>1 DEF Recognised, Slide
    <3>2. /\ [tokens[q.value] EXCEPT !.age = 0] \in TokenRow
          /\ [tokens[q.value] EXCEPT !.age = 0].age = 0
      BY <3>1, LimitsAssumption DEF TokenRow, Age
    <3>3. /\ tokens'[q.value] # None /\ tokens'[q.value].age = 0
          /\ \A t \in Token \ {q.value} : tokens'[t] = tokens[t]
      BY <2>0, <3>1, <3>2, NoneAssumption DEF TokenRow
    <3>4. KeepsTokens
      BY <3>3, TokenFields DEF KeepsTokens
    <3>5. sent[q.from] = q => k.uuid = q.value
      BY <1>2, <1>3, <2>0, NoneAssumption DEF Active, Waits
    <3>6. Answers(q, k, TRUE)
      BY <1>3, <2>1
    <3>7. QED
      BY <1>2, <1>4, <1>5, <2>0, <3>3, <3>4, <3>5, <3>6, AnswersStay
  <2>2. CASE UNCHANGED tokens /\ Answers(q, [client[q.from] EXCEPT !.uuid = 0, !.challenge = None], FALSE)
    <3>1. PICK h : h = [k EXCEPT !.uuid = 0, !.challenge = None]
      OBVIOUS
    <3>2. h \in Known /\ h.uuid = 0
      BY <1>4, <3>1 DEF Known
    <3>3. Answers(q, h, FALSE)
      BY <1>3, <2>2, <3>1
    <3>4. QED
      BY <1>2, <1>5, <1>7, <2>0, <2>2, <3>2, <3>3, AnswersStay
  <2>3. QED
    BY <1>11, <2>1, <2>2 DEF Lookup
<1>12. QED
  BY <1>1, <1>8, <1>9, <1>10, <1>11

(* A step of the clients, which the server does not notice.                  *)
LEMMA ClientsStay ==
  ASSUME IInv, IInv', Active, UNCHANGED <<tokens, granted, restarts, quiet>>,
         \A c \in Client : client'[c].uuid \in {client[c].uuid, 0} /\ Waits(c)'
  PROVE  Active'
<1>1. KeepsTokens
  BY TokenFields DEF KeepsTokens
<1>2. KeepsGrants /\ Runs'
  BY DEF KeepsGrants, Active, Runs
<1>3. \A c \in Client : StaysIn(c)'
  BY <1>1, <1>2, StillIn DEF Active
<1>4. QED
  BY <1>2, <1>3 DEF Active

LEMMA ClientStays ==
  ASSUME IInv, IInv', Active, NEW c \in Client,
         AskChallenge(c) \/ AnswerChallenge(c) \/ UseToken(c) \/ GiveUp(c) \/ LogIn(c)
  PROVE  Active'
<1>0. /\ UNCHANGED <<tokens, granted, restarts, quiet>>
      /\ client \in [Client -> Known] /\ sent \in [Client -> Request \cup {None}]
  BY DEF AskChallenge, AnswerChallenge, UseToken, GiveUp, LogIn, Send, serverVars, IInv, ClientsInv
<1>1. PICK k : k = client[c]
  OBVIOUS
<1>2. k \in Known
  BY <1>0, <1>1
<1>3. PICK l : client' = [client EXCEPT ![c] = l] /\ l.uuid \in {k.uuid, 0}
  <2>1. ASSUME NEW g, client' = [client EXCEPT ![c].guid = g]
        PROVE  client' = [client EXCEPT ![c] = [k EXCEPT !.guid = g]]
               /\ [k EXCEPT !.guid = g].uuid = k.uuid
    BY <1>1, <1>2, <2>1 DEF Known
  <2>2. CASE client' = [client EXCEPT ![c].challenge = None]
    <3>1. client' = [client EXCEPT ![c] = [k EXCEPT !.challenge = None]]
          /\ [k EXCEPT !.challenge = None].uuid = k.uuid
      BY <1>1, <1>2, <2>2 DEF Known
    <3>2. QED
      BY <3>1
  <2>3. CASE client' = client
    BY <1>0, <1>1, <2>3
  <2>4. CASE client' = [client EXCEPT ![c] = Failed(@)]
    <3>1. client' = [client EXCEPT ![c] = Failed(k)] /\ Failed(k).uuid = 0
      BY <1>1, <1>2, <2>4 DEF Failed, Known
    <3>2. QED
      BY <3>1
  <2>5. ASSUME NEW a, NEW g, client' = [client EXCEPT ![c].account = a, ![c].guid = g]
        PROVE  \E l : client' = [client EXCEPT ![c] = l] /\ l.uuid \in {k.uuid, 0}
    <3>1. client' = [client EXCEPT ![c] = [k EXCEPT !.account = a, !.guid = g]]
      BY <1>0, <1>1, <2>5
    <3>2. [k EXCEPT !.account = a, !.guid = g].uuid = k.uuid
      BY <1>2 DEF Known
    <3>3. QED
      BY <3>1, <3>2
  <2>6. CASE \E g : client' = [client EXCEPT ![c].guid = g]
    BY <2>1, <2>6
  <2>7. QED
    BY <2>2, <2>3, <2>4, <2>5, <2>6
       DEF AskChallenge, AnswerChallenge, UseToken, GiveUp, LogIn
<1>4. client'[c] = l /\ \A d \in Client \ {c} : client'[d] = client[d]
  BY <1>0, <1>3
<1>5. Waits(c)'
  <2>1. CASE sent'[c] = None
    BY <2>1 DEF Waits
  <2>2. CASE sent' = sent /\ client'[c].uuid = client[c].uuid
    BY <2>2 DEF Active, Waits
  <2>3. CASE sent[c] = None /\ sent' = sent
    BY <2>3 DEF Waits
  <2>4. CASE AskChallenge(c)
    <3>1. sent'[c].ask = "cert"
      BY <1>0, <2>4 DEF AskChallenge, Send
    <3>2. QED
      BY <3>1 DEF Waits
  <2>5. CASE AnswerChallenge(c)
    <3>1. sent'[c].ask = "response" \/ (sent[c] = None /\ sent' = sent)
      BY <1>0, <2>5 DEF AnswerChallenge, Send
    <3>2. QED
      BY <2>3, <3>1 DEF Waits
  <2>6. CASE UseToken(c)
    <3>1. sent'[c].value = client[c].uuid
      BY <1>0, <2>6 DEF UseToken, Send
    <3>2. client'[c].uuid = client[c].uuid
      BY <1>0, <1>2, <1>1, <2>6 DEF UseToken, Known
    <3>3. QED
      BY <3>1, <3>2 DEF Waits
  <2>7. CASE GiveUp(c)
    <3>1. sent'[c] = None
      BY <1>0, <2>7 DEF GiveUp
    <3>2. QED
      BY <2>1, <3>1
  <2>8. CASE LogIn(c)
    <3>1. sent' = sent
      BY <2>8 DEF LogIn
    <3>2. PICK a, g : client' = [client EXCEPT ![c].account = a, ![c].guid = g]
      BY <2>8 DEF LogIn
    <3>3. client' = [client EXCEPT ![c] = [k EXCEPT !.account = a, !.guid = g]]
      BY <1>0, <1>1, <3>2
    <3>4. [k EXCEPT !.account = a, !.guid = g].uuid = k.uuid
      BY <1>2 DEF Known
    <3>5. client'[c].uuid = client[c].uuid
      BY <1>0, <1>1, <3>3, <3>4
    <3>6. QED
      BY <2>2, <3>1, <3>5
  <2>9. QED
    BY <2>4, <2>5, <2>6, <2>7, <2>8
<1>6. \A d \in Client \ {c} : sent'[d] = sent[d] /\ Waits(d)'
  <2>1. \A d \in Client \ {c} : sent'[d] = sent[d]
    BY <1>0 DEF AskChallenge, AnswerChallenge, UseToken, GiveUp, LogIn, Send
  <2>2. QED
    BY <1>4, <2>1 DEF Active, Waits
<1>7. \A d \in Client : client'[d].uuid \in {client[d].uuid, 0} /\ Waits(d)'
  BY <1>1, <1>3, <1>4, <1>5, <1>6
<1>8. QED
  BY <1>0, <1>7, ClientsStay

(* A restart leaves no grant of this run, and a tick lets the token age with *)
(* the client's silence.                                                     *)
LEMMA RestartStays ==
  ASSUME IInv, Active, Restart
  PROVE  Active'
<1>1. \A i \in DOMAIN granted : granted[i].run \in Nat
  <2>1. granted \in Seq(Grant)
    BY DEF IInv, ServerInv, ServerType
  <2>2. \A i \in DOMAIN granted : granted[i] \in Grant
    BY <2>1
  <2>3. QED
    BY <2>2, BoundsAssumption DEF Grant
<1>2. UNCHANGED <<client, sent, granted, quiet>> /\ restarts' = restarts + 1 /\ restarts \in Nat
  BY BoundsAssumption DEF Restart, IInv, ServerInv, ServerType
<1>3. \A i \in DOMAIN granted' : granted'[i].run < restarts'
  BY <1>1, <1>2 DEF Active, Runs
<1>4. Runs'
  BY <1>1, <1>2, <1>3 DEF Active, Runs
<1>5. ASSUME NEW c \in Client PROVE Waits(c)' /\ StaysIn(c)'
  <2>1. client[c].uuid # 0 => client[c].uuid \in DOMAIN granted
    BY DEF IInv, ClientsInv, KnownOK, Earned
  <2>2. StaysIn(c)'
    BY <1>1, <1>2, <1>3, <2>1 DEF StaysIn
  <2>3. QED
    BY <1>2, <2>2 DEF Active, Waits
<1>6. QED
  BY <1>4, <1>5 DEF Active

LEMMA TickStays ==
  ASSUME IInv, Active, Tick
  PROVE  Active'
<1>1. UNCHANGED <<client, sent, granted, restarts>>
  BY DEF Tick
<1>2. Runs' /\ \A c \in Client : Waits(c)'
  BY <1>1 DEF Active, Runs, Waits
<1>3. ASSUME NEW c \in Client, client[c].uuid # 0, quiet'[c] <= Ttl,
             granted[client[c].uuid].run = restarts
      PROVE  tokens'[client[c].uuid] # None /\ tokens'[client[c].uuid].age <= quiet'[c]
  <2>1. PICK t : t = client[c].uuid
    OBVIOUS
  <2>2. t \in Token
    BY <1>3, <2>1, KnownFields DEF IInv, ClientsInv
  <2>3. quiet[c] \in Nat /\ Ttl \in Nat /\ quiet'[c] = Older(quiet[c], Ttl)
    BY <1>3, QuietFields, LimitsAssumption DEF Tick
  <2>4. quiet[c] <= Ttl /\ quiet'[c] = quiet[c] + 1
    BY <1>3, <2>3 DEF Older
  <2>5. tokens[t] # None /\ tokens[t].age <= quiet[c]
    BY <1>3, <2>1, <2>4 DEF Active, StaysIn
  <2>6. tokens[t] \in TokenRow /\ tokens[t].age \in Nat
    BY <2>2, <2>5, TokenFields DEF IInv, ServerInv, ServerType
  <2>7. tokens'[t] = [tokens[t] EXCEPT !.age = Older(tokens[t].age, Ttl)]
    BY <2>2, <2>5 DEF Tick
  <2>8. Older(tokens[t].age, Ttl) = tokens[t].age + 1
    BY <2>3, <2>4, <2>5, <2>6 DEF Older
  <2>9. tokens[t].age + 1 \in Age(Ttl)
    BY <2>3, <2>4, <2>5, <2>6 DEF Age
  <2>10. tokens'[t] \in TokenRow /\ tokens'[t].age = tokens[t].age + 1
    BY <2>6, <2>7, <2>8, <2>9 DEF TokenRow
  <2>11. tokens'[t] # None
    BY <2>10, NoneAssumption DEF TokenRow
  <2>12. tokens'[t].age <= quiet'[c]
    BY <2>3, <2>4, <2>5, <2>6, <2>10
  <2>13. QED
    BY <2>1, <2>11, <2>12
<1>4. \A c \in Client : StaysIn(c)'
  BY <1>1, <1>3 DEF StaysIn
<1>5. QED
  BY <1>2, <1>4 DEF Active

LEMMA ActiveHolds == Init => Active
<1>1. ASSUME Init PROVE \A c \in Client : client[c].uuid = 0 /\ sent[c] = None
  BY <1>1 DEF Init
<1>2. QED
  BY <1>1 DEF Init, Active, Runs, Waits, StaysIn

LEMMA ActiveKept == IInv /\ IInv' /\ Active /\ [Next]_vars => Active'
<1> SUFFICES ASSUME IInv, IInv', Active, [Next]_vars PROVE Active'
  OBVIOUS
<1>1. CASE UNCHANGED vars
  BY <1>1 DEF vars, serverVars, Active, Runs, Waits, StaysIn
<1>2. QED
  BY <1>1, ServeStays, RestartStays, TickStays, ClientStays DEF Next

(* The tables, the clients and the messages keep their types. *)
THEOREM TypeCorrect == Spec => []TypeOK
<1>1. IInv => TypeOK
  BY DEF IInv, ServerInv, ServerType, ClientsInv, TypeOK, ChallengeRow, TokenRow
<1>2. QED
  BY <1>1, Holds, Kept, PTL DEF Spec

(* No challenge earns two tokens, whoever answers it, however often, and     *)
(* whatever is lost, served late or restarted (session.go:157-160).          *)
THEOREM ChallengesAreSpent == Spec => []SpentOnce
<1>1. IInv => SpentOnce
  BY DEF IInv, ServerInv
<1>2. QED
  BY <1>1, Holds, Kept, PTL DEF Spec

(* Who is recognised as an account has used the key of that account in this  *)
(* run of the server, and is the client the token was granted to             *)
(* (session.go:188-196).                                                     *)
THEOREM ProvedWhoTheyAre == Spec => []RecognisedAsProved
<1>1. IInv => RecognisedAsProved
  <2> SUFFICES ASSUME IInv, NEW q \in Pending, q.ask = "token", Recognised(q)
               PROVE  /\ q.value \in DOMAIN granted
                      /\ granted[q.value].to = q.from /\ granted[q.value].key = q.guid
                      /\ granted[q.value].run = restarts
    BY DEF RecognisedAsProved
  <2>1. q \in Request /\ RequestOK(q)
    BY DEF Pending, IInv, ClientsInv, RequestOK
  <2>2. q.value \in Token /\ Earned(q.value, q.from)
    BY <2>1, RequestFields DEF RequestOK
  <2>3. QED
    BY <2>2 DEF Earned, Recognised, IInv, ServerInv, Earnings
<1>2. QED
  BY <1>1, Holds, Kept, PTL DEF Spec

(* Who was recognised within the last Ttl ticks is recognised still, unless  *)
(* the server restarted: the sweep takes, and the slide extends, as          *)
(* session.go:176-178 says.                                                  *)
THEOREM ActiveStayIn == Spec => []ActiveStaysIn
<1>1. Active => ActiveStaysIn
  BY DEF Active, StaysIn, ActiveStaysIn
<1>2. QED
  BY <1>1, Holds, Kept, ActiveHolds, ActiveKept, PTL DEF Spec
=============================================================================
