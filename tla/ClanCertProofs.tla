--------------------------- MODULE ClanCertProofs ---------------------------
(***************************************************************************)
(* What the clan certificate's way to the game servers guarantees for any  *)
(* connections, servers with and without the mod, and number of late tries.*)
(*                                                                         *)
(* On the client a certificate held always has its drop scheduled.  On a   *)
(* server a connection goes through stages: while it authenticates nothing *)
(* was decided about it; a held one has the timer or the transfer ahead of *)
(* it and not both, for whoever resumes it takes the timer away; and one   *)
(* that went on has its name.  Whoever is gone never comes back, so that   *)
(* what the client remembers of an old connection names nobody.            *)
(***************************************************************************)
EXTENDS ClanCert, SequenceTheorems, TLAPS

(* The certificate held has the drop ahead of it, and life left till then. *)
Dated == cert # None => drop /\ age <= 2

(* The player is on one connection at most, and what the client remembers  *)
(* to have been asked by is that one, which did ask, or is gone.           *)
LinkOK ==
  /\ up => current # None
  /\ \A c \in Connection : current = c <=> Here(c)
  /\ asked # None => phase[asked] # "new" /\ (Here(asked) => client[asked].tnbAsked)

(* Nothing is known of a connection that is not there. *)
Blank(c) ==
  /\ wants[c] = 0 /\ sent[c] = <<>> /\ client[c] = NewClient
  /\ joins[c] = 0 /\ name[c] = "none"

(* How often the server asked, and what came of it. *)
AskedFirst(c) ==
  /\ ~client[c].tnbAsked => wants[c] = 0 /\ sent[c] = <<>>
  /\ ~client[c].tnbApplied => wants[c] <= 1

(* How far the connect is: not begun, held with the timer running, or done. *)
Connecting(c) ==
  /\ phase[c] \in {"new", "authenticating"} =>
       ~expire[c] /\ ~client[c].tnbWaited /\ ~client[c].tnbApplied /\ joins[c] = 0
  /\ expire[c] /\ Here(c) => client[c].tnbWaited /\ ~client[c].tnbApplied
  /\ client[c].tnbResumed => client[c].tnbApplied
  /\ c \in Modded /\ Here(c) => joins[c] = IF client[c].tnbApplied THEN 1 ELSE 0
  /\ c \notin Modded => client[c] = NewClient /\ ~expire[c] /\ joins[c] <= 1 /\ name[c] # "tagged"
                        /\ (phase[c] # "verified" => joins[c] = 0)

Named(c) == joins[c] > 0 => (name[c] = "tagged" <=> client[c].tnbTagged)

ConnOK(c) ==
  /\ ~Here(c) => Blank(c)
  /\ AskedFirst(c) /\ Connecting(c) /\ Named(c)

IInv == TypeOK /\ Dated /\ LinkOK /\ \A c \in Connection : ConnOK(c)

-----------------------------------------------------------------------------
CertType ==
  /\ record \in Cert /\ account \in BOOLEAN
  /\ cert \in Cert \cup {None} /\ age \in 0..3
  /\ pending \in Cert \cup {"no", "asked"}
  /\ renew \in BOOLEAN /\ drop \in BOOLEAN
  /\ asked \in Connection \cup {None} /\ current \in Connection \cup {None} /\ up \in BOOLEAN

LinkType ==
  /\ phase \in [Connection -> {"new", "authenticating", "verified", "gone"}]
  /\ wants \in [Connection -> 0..2]
  /\ sent \in [Connection -> Seq(Piece \cup {Done})]
  /\ client \in [Connection -> Client]
  /\ expire \in [Connection -> BOOLEAN]
  /\ joins \in [Connection -> Nat]
  /\ name \in [Connection -> {"none", "plain", "tagged"}]

(* The latches of one %client. *)
Latches(k) == (k.tnbLate > 0 => k.tnbApplied) /\ (k.tnbResumed => k.tnbWaited)

LEMMA Types == TypeOK <=> CertType /\ LinkType /\ \A c \in Connection : Latches(client[c])
BY DEF TypeOK, CertType, LinkType, Latches

LEMMA ClientFields ==
  ASSUME NEW k \in Client
  PROVE  /\ k.tnbAsked \in BOOLEAN /\ k.tnbCertBuf \in Seq(Piece) /\ k.tnbCertDone \in BOOLEAN
         /\ k.tnbLate \in 0..LateTries /\ k.tnbApplied \in BOOLEAN /\ k.tnbTagged \in BOOLEAN
         /\ k.tnbWaited \in BOOLEAN /\ k.tnbResumed \in BOOLEAN
BY DEF Client

LEMMA NewFields ==
  /\ NewClient \in Client /\ Latches(NewClient)
  /\ ~NewClient.tnbAsked /\ ~NewClient.tnbApplied /\ ~NewClient.tnbTagged
  /\ ~NewClient.tnbWaited /\ ~NewClient.tnbResumed
BY LateAssumption, EmptySeq DEF NewClient, Client, Latches

(* What a step leaves alone: every connection but one. *)
Elsewhere(c) ==
  \A d \in Connection \ {c} :
    /\ phase'[d] = phase[d] /\ wants'[d] = wants[d] /\ sent'[d] = sent[d]
    /\ client'[d] = client[d] /\ expire'[d] = expire[d]
    /\ joins'[d] = joins[d] /\ name'[d] = name[d]

LEMMA SameConn ==
  ASSUME NEW d \in Connection, ConnOK(d),
         phase'[d] = phase[d], wants'[d] = wants[d], sent'[d] = sent[d],
         client'[d] = client[d], expire'[d] = expire[d],
         joins'[d] = joins[d], name'[d] = name[d]
  PROVE  ConnOK(d)'
BY DEF ConnOK, Here, Blank, AskedFirst, Connecting, Named

LEMMA OneConn ==
  ASSUME IInv, NEW c \in Connection, Elsewhere(c), CertType', LinkType', Latches(client'[c]),
         Dated', LinkOK', ConnOK(c)'
  PROVE  IInv'
<1>1. \A d \in Connection \ {c} : ConnOK(d)' /\ Latches(client'[d])
  BY SameConn, Types DEF Elsewhere, IInv
<1>2. QED
  BY <1>1, Types DEF IInv, TypeOK, CertType, LinkType, Latches

(* A step of the client that sends nothing and forgets nobody. *)
LEMMA CertOnly ==
  ASSUME IInv, CertType', Dated', UNCHANGED <<asked, linkVars, wants, sent, serverVars>>
  PROVE  IInv'
<1>1. UNCHANGED <<asked, current, up, wants, sent, phase, client, expire, joins, name>>
  BY DEF linkVars, serverVars
<1>2. \A d \in Connection : ConnOK(d)'
  BY <1>1, SameConn DEF IInv
<1>3. LinkType' /\ \A d \in Connection : Latches(client[d])'
  BY <1>1, Types DEF IInv, LinkType, Latches
<1>4. LinkOK'
  BY <1>1 DEF IInv, LinkOK, Here
<1>5. TypeOK'
  BY <1>3 DEF TypeOK, CertType, LinkType, Latches
<1>6. QED
  BY <1>2, <1>4, <1>5 DEF IInv

LEMMA TimersKeep ==
  ASSUME IInv,
         \/ LogIn \/ Ensure \/ WONUpdateCertificate \/ RecordChanges \/ Sign
         \/ LoadFails \/ RenewFires \/ DropFires \/ Ages
  PROVE  IInv'
<1> USE DEF clientVars, CertType, Dated, Fetch, Cert
<1>0. CertType /\ Dated /\ None \notin Cert
  BY Types, NoneAssumption DEF IInv
<1>1. CASE LogIn
  BY <1>0, <1>1, CertOnly DEF LogIn, linkVars
<1>2. CASE Ensure
  BY <1>0, <1>2, CertOnly DEF Ensure, linkVars
<1>3. CASE WONUpdateCertificate
  BY <1>0, <1>3, CertOnly DEF WONUpdateCertificate, linkVars
<1>4. CASE RecordChanges
  BY <1>0, <1>4, CertOnly DEF RecordChanges, linkVars
<1>5. CASE Sign
  BY <1>0, <1>5, CertOnly DEF Sign, linkVars
<1>6. CASE LoadFails
  BY <1>0, <1>6, CertOnly DEF LoadFails, RetryLater, linkVars
<1>7. CASE RenewFires
  BY <1>0, <1>7, CertOnly DEF RenewFires, linkVars
<1>8. CASE DropFires
  <2>0. /\ cert' = None /\ age' = 0 /\ renew' = FALSE /\ drop' = FALSE
        /\ pending' = IF pending = "no" /\ account THEN "asked" ELSE pending
        /\ UNCHANGED <<record, account, asked, current, up>>
    BY <1>8 DEF DropFires, linkVars
  <2>1. pending' \in Cert \cup {"no", "asked"} /\ age' \in 0..3
    BY <1>0, <2>0
  <2>2. CertType' /\ Dated'
    BY <1>0, <2>0, <2>1 DEF Cert
  <2>3. QED
    BY <1>8, <2>2, CertOnly DEF DropFires
<1>9. CASE Ages
  BY <1>0, <1>9, CertOnly DEF Ages, linkVars
<1>10. QED
  BY <1>1, <1>2, <1>3, <1>4, <1>5, <1>6, <1>7, <1>8, <1>9

-----------------------------------------------------------------------------
(* A certificate sent to the connection the player is on, which asked.       *)
LEMMA SendKeeps ==
  ASSUME IInv, NEW x \in Cert, Send(x), current # None => client[current].tnbAsked
  PROVE  /\ sent' \in [Connection -> Seq(Piece \cup {Done})]
         /\ \A d \in Connection : sent'[d] = sent[d] \/ (current = d /\ client[d].tnbAsked)
<1>1. sent \in [Connection -> Seq(Piece \cup {Done})] /\ current \in Connection \cup {None}
      /\ (up => current # None)
  BY DEF IInv, TypeOK, LinkOK
<1>2. Pieces(x) \in Seq(Piece \cup {Done}) /\ <<Done>> \in Seq(Piece \cup {Done})
  BY DEF Pieces, Piece
<1>3. CASE up
  <2>1. current \in Connection
    BY <1>1, <1>3
  <2>2. sent[current] \o Pieces(x) \o <<Done>> \in Seq(Piece \cup {Done})
    BY <2>1, <1>1, <1>2, ConcatProperties
  <2>3. sent' = [sent EXCEPT ![current] = sent[current] \o Pieces(x) \o <<Done>>]
    BY <1>3 DEF Send
  <2>4. \A d \in Connection : sent'[d] = sent[d] \/ (current = d /\ client[d].tnbAsked)
    BY <1>1, <1>3, <2>3
  <2>5. sent' \in [Connection -> Seq(Piece \cup {Done})]
    BY <1>1, <2>1, <2>2, <2>3
  <2>6. QED
    BY <2>4, <2>5
<1>4. CASE ~up
  BY <1>1, <1>4 DEF Send
<1>5. QED
  BY <1>1, <1>3, <1>4 DEF IInv, TypeOK

(* Loading a certificate, and being asked for one, change no %client.        *)
LEMMA SentOnly ==
  ASSUME IInv, CertType', Dated', UNCHANGED <<current, up, phase, client, expire, joins, name>>,
         wants' \in [Connection -> 0..2], sent' \in [Connection -> Seq(Piece \cup {Done})],
         \A d \in Connection : wants'[d] <= wants[d],
         \A d \in Connection : sent'[d] = sent[d] \/ (current = d /\ client[d].tnbAsked),
         asked' # None => asked' = current /\ client[asked'].tnbAsked
  PROVE  IInv'
<1>1. ASSUME NEW d \in Connection PROVE ConnOK(d)'
  <2>0. ConnOK(d) /\ wants[d] \in 0..2 /\ wants'[d] \in 0..2 /\ client[d] \in Client
        /\ (current = d <=> Here(d))
    BY DEF IInv, TypeOK, LinkOK
  <2>1. Here(d)' <=> Here(d)
    BY DEF Here
  <2>2. ~Here(d) => Blank(d)'
    BY <2>0 DEF ConnOK, Blank
  <2>3. AskedFirst(d)'
    BY <2>0 DEF ConnOK, AskedFirst
  <2>4. Connecting(d)' /\ Named(d)'
    BY <2>0 DEF ConnOK, Connecting, Named, Here
  <2>5. QED
    BY <2>1, <2>2, <2>3, <2>4 DEF ConnOK
<1>2. LinkType' /\ \A d \in Connection : Latches(client[d])'
  BY Types DEF IInv, LinkType, Latches
<1>3. TypeOK'
  BY <1>2 DEF TypeOK, CertType, LinkType, Latches
<1>4. LinkOK'
  BY NoneAssumption DEF IInv, LinkOK, Here, TypeOK
<1>5. QED
  BY <1>1, <1>3, <1>4 DEF IInv

LEMMA LoadedStep == ASSUME IInv, Loaded PROVE IInv'
<1>0. CertType /\ None \notin Cert /\ pending \in Cert
  BY Types, NoneAssumption DEF IInv, Loaded, Cert
<1>1. CertType' /\ Dated'
  BY <1>0 DEF CertType, Dated, Loaded, clientVars, linkVars
<1>2. UNCHANGED <<current, up, wants, phase, client, expire, joins, name>> /\ asked' = None
  BY DEF Loaded, linkVars, serverVars
<1>3. LinkOK /\ sent \in [Connection -> Seq(Piece \cup {Done})] /\ wants \in [Connection -> 0..2]
      /\ current \in Connection \cup {None} /\ asked \in Connection \cup {None}
  BY DEF IInv, TypeOK
<1>4. /\ sent' \in [Connection -> Seq(Piece \cup {Done})]
      /\ \A d \in Connection : sent'[d] = sent[d] \/ (current = d /\ client[d].tnbAsked)
  <2>1. CASE asked # None /\ asked = current
    <3>1. Here(current) /\ client[current].tnbAsked
      BY <1>3, <2>1 DEF LinkOK
    <3>2. Send(pending)
      BY <2>1 DEF Loaded
    <3>3. QED
      BY <1>0, <3>1, <3>2, SendKeeps
  <2>2. CASE ~(asked # None /\ asked = current)
    BY <1>3, <2>2 DEF Loaded
  <2>3. QED
    BY <2>1, <2>2
<1>5. \A d \in Connection : wants'[d] <= wants[d]
  BY <1>2, <1>3
<1>6. QED
  BY <1>1, <1>2, <1>3, <1>4, <1>5, SentOnly

LEMMA WantStep == ASSUME IInv, NEW c \in Connection, WantClanCert(c) PROVE IInv'
<1>0. CertType /\ Dated /\ LinkOK /\ ConnOK(c) /\ None \notin Cert /\ None # c
      /\ wants \in [Connection -> 0..2] /\ sent \in [Connection -> Seq(Piece \cup {Done})]
  BY Types, NoneAssumption DEF IInv, TypeOK, Cert
<1>1. current = c /\ wants[c] > 0 /\ wants' = [wants EXCEPT ![c] = @ - 1]
      /\ UNCHANGED <<record, account, cert, age, renew, drop, current, up, phase, client, expire, joins, name>>
  BY DEF WantClanCert, linkVars, serverVars
<1>2. client[c].tnbAsked
  BY <1>0, <1>1 DEF ConnOK, AskedFirst
<1>3. /\ wants' \in [Connection -> 0..2]
      /\ \A d \in Connection : wants'[d] <= wants[d]
  BY <1>0, <1>1
<1>4. CASE cert # None
  <2>1. asked' = None /\ Send(cert) /\ UNCHANGED pending
    BY <1>4 DEF WantClanCert
  <2>2. cert \in Cert
    BY <1>0, <1>4 DEF CertType
  <2>3. /\ sent' \in [Connection -> Seq(Piece \cup {Done})]
        /\ \A d \in Connection : sent'[d] = sent[d] \/ (current = d /\ client[d].tnbAsked)
    BY <1>1, <1>2, <2>1, <2>2, SendKeeps
  <2>4. CertType' /\ Dated'
    BY <1>0, <1>1, <2>1 DEF CertType, Dated
  <2>5. QED
    BY <1>1, <1>3, <2>1, <2>3, <2>4, SentOnly
<1>5. CASE cert = None
  <2>1. asked' \in {c, None} /\ Fetch /\ UNCHANGED sent
    BY <1>5 DEF WantClanCert
  <2>2. CertType' /\ Dated'
    BY <1>0, <1>1, <2>1 DEF CertType, Dated, Fetch
  <2>3. \A d \in Connection : sent'[d] = sent[d]
    BY <2>1
  <2>4. QED
    BY <1>0, <1>1, <1>2, <1>3, <2>1, <2>2, <2>3, SentOnly
<1>6. QED
  BY <1>4, <1>5

-----------------------------------------------------------------------------
LEMMA JoinStep == ASSUME IInv, NEW c \in Connection, Join(c) PROVE IInv'
<1>0. CertType /\ LinkType /\ Dated /\ LinkOK /\ ConnOK(c) /\ Latches(client[c])
  BY Types DEF IInv
<1>1. /\ current = None /\ phase[c] = "new" /\ current' = c
      /\ phase' = [phase EXCEPT ![c] = "authenticating"]
      /\ UNCHANGED <<record, account, cert, age, pending, renew, drop, asked>>
      /\ UNCHANGED <<up, wants, sent, client, expire, joins, name>>
  BY DEF Join, clientVars
<1>2. CertType' /\ LinkType' /\ Dated' /\ Latches(client'[c])
  BY <1>0, <1>1 DEF CertType, LinkType, Dated
<1>3. Elsewhere(c)
  BY <1>0, <1>1 DEF Elsewhere, LinkType
<1>4. phase'[c] = "authenticating"
  BY <1>0, <1>1 DEF LinkType
<1>5. LinkOK'
  BY <1>0, <1>1, <1>3, <1>4, NoneAssumption DEF LinkOK, Here, Elsewhere, CertType
<1>6. ConnOK(c)'
  BY <1>0, <1>1, <1>4, NewFields DEF ConnOK, Here, Blank, AskedFirst, Connecting, Named
<1>7. QED
  BY <1>2, <1>3, <1>5, <1>6, OneConn

LEMMA UpStep == ASSUME IInv, ConnectionUp PROVE IInv'
<1>1. /\ current # None /\ up' = TRUE
      /\ UNCHANGED <<record, account, cert, age, pending, renew, drop, asked, current, wants, sent,
                     phase, client, expire, joins, name>>
  BY DEF ConnectionUp, clientVars, serverVars
<1>2. TypeOK' /\ Dated'
  BY <1>1 DEF IInv, TypeOK, Dated
<1>3. LinkOK'
  BY <1>1 DEF IInv, LinkOK, Here
<1>4. \A d \in Connection : ConnOK(d)'
  BY <1>1, SameConn DEF IInv
<1>5. QED
  BY <1>2, <1>3, <1>4 DEF IInv

LEMMA LeaveStep == ASSUME IInv, Leave PROVE IInv'
<1>0. PICK c \in Connection : c = current /\ Here(c)
  BY DEF IInv, TypeOK, LinkOK, Leave
<1>1. CertType /\ LinkType /\ Dated /\ LinkOK /\ ConnOK(c)
  BY <1>0, Types DEF IInv
<1>2. /\ current' = None /\ up' = FALSE
      /\ phase' = [phase EXCEPT ![c] = "gone"] /\ wants' = [wants EXCEPT ![c] = 0]
      /\ sent' = [sent EXCEPT ![c] = <<>>] /\ client' = [client EXCEPT ![c] = NewClient]
      /\ joins' = [joins EXCEPT ![c] = 0] /\ name' = [name EXCEPT ![c] = "none"]
      /\ UNCHANGED <<record, account, cert, age, pending, renew, drop, asked, expire>>
  BY <1>0 DEF Leave, clientVars
<1>3. CertType' /\ Dated'
  BY <1>1, <1>2 DEF CertType, Dated
<1>4. LinkType'
  BY <1>0, <1>1, <1>2, NewFields, EmptySeq DEF LinkType
<1>5. Elsewhere(c)
  BY <1>0, <1>1, <1>2 DEF Elsewhere, LinkType
<1>6. /\ phase'[c] = "gone" /\ wants'[c] = 0 /\ sent'[c] = <<>> /\ client'[c] = NewClient
      /\ joins'[c] = 0 /\ name'[c] = "none" /\ expire'[c] = expire[c]
  BY <1>0, <1>1, <1>2 DEF LinkType
<1>7. \A d \in Connection : Here(d)' <=> (Here(d) /\ d # c)
  BY <1>5, <1>6 DEF Here, Elsewhere
<1>8. LinkOK'
  <2>1. \A d \in Connection : ~Here(d)'
    BY <1>0, <1>1, <1>7 DEF LinkOK
  <2>2. asked # None => phase'[asked] # "new"
    BY <1>1, <1>5, <1>6 DEF LinkOK, CertType, Elsewhere
  <2>3. asked # None => asked \in Connection
    BY <1>1 DEF CertType
  <2>4. QED
    BY <1>2, <2>1, <2>2, <2>3, NoneAssumption DEF LinkOK
<1>9. ConnOK(c)' /\ Latches(client'[c])
  BY <1>0, <1>1, <1>6, <1>7, NewFields DEF ConnOK, Here, Blank, AskedFirst, Connecting, Named
<1>10. QED
  BY <1>0, <1>3, <1>4, <1>5, <1>8, <1>9, OneConn

-----------------------------------------------------------------------------
(* A step of one server leaves the client's certificate and link alone.      *)
LEMMA ServerOnly ==
  ASSUME IInv, NEW c \in Connection, Here(c), Here(c)', Elsewhere(c),
         UNCHANGED <<record, account, cert, age, pending, renew, drop, asked, current, up>>,
         LinkType', Latches(client'[c]), client[c].tnbAsked => client'[c].tnbAsked,
         AskedFirst(c)', Connecting(c)', Named(c)'
  PROVE  IInv'
<1>1. CertType' /\ Dated'
  BY Types DEF IInv, CertType, Dated
<1>2. \A d \in Connection : Here(d)' <=> Here(d)
  BY DEF Elsewhere, Here
<1>3. \A d \in Connection : phase'[d] = "new" => phase[d] = "new"
  BY DEF Elsewhere, Here
<1>4. LinkOK'
  BY <1>2, <1>3 DEF IInv, LinkOK, Elsewhere, TypeOK
<1>5. ConnOK(c)'
  BY <1>2 DEF ConnOK
<1>6. QED
  BY <1>1, <1>4, <1>5, OneConn

LEMMA AskStep == ASSUME IInv, NEW c \in Connection, SendCertChunk(c) PROVE IInv'
<1>0. LinkType /\ ConnOK(c) /\ Latches(client[c])
  BY Types DEF IInv
<1>1. /\ c \in Modded /\ phase[c] = "authenticating" /\ ~client[c].tnbAsked
      /\ client' = [client EXCEPT ![c].tnbAsked = TRUE] /\ wants' = [wants EXCEPT ![c] = @ + 1]
      /\ UNCHANGED <<record, account, cert, age, pending, renew, drop, asked, current, up>>
      /\ UNCHANGED <<sent, phase, expire, joins, name>>
  BY DEF SendCertChunk, clientVars, linkVars
<1>2. client'[c] = [client[c] EXCEPT !.tnbAsked = TRUE] /\ client[c] \in Client
  BY <1>0, <1>1 DEF LinkType
<1>3. /\ client'[c] \in Client /\ client'[c].tnbAsked
      /\ client'[c].tnbApplied = client[c].tnbApplied /\ client'[c].tnbWaited = client[c].tnbWaited
      /\ client'[c].tnbResumed = client[c].tnbResumed /\ client'[c].tnbTagged = client[c].tnbTagged
      /\ client'[c].tnbLate = client[c].tnbLate
  BY <1>2 DEF Client
<1>4. wants[c] = 0 /\ wants'[c] = 1
  BY <1>0, <1>1 DEF LinkType, ConnOK, AskedFirst
<1>5. LinkType'
  BY <1>0, <1>1, <1>3, <1>4 DEF LinkType
<1>6. Elsewhere(c)
  BY <1>0, <1>1 DEF Elsewhere, LinkType
<1>7. Here(c) /\ Here(c)'
  BY <1>1 DEF Here
<1>8. AskedFirst(c)' /\ Connecting(c)' /\ Named(c)' /\ Latches(client'[c])
  BY <1>0, <1>1, <1>3, <1>4, <1>7 DEF ConnOK, AskedFirst, Connecting, Named, Latches
<1>9. QED
  BY <1>1, <1>3, <1>5, <1>6, <1>7, <1>8, ServerOnly

(* The server's %client, k, when a connect is decided or held as r.          *)
Undecided(k, r) ==
  /\ r \in Client /\ Latches(r) /\ r.tnbAsked = k.tnbAsked
  /\ ~k.tnbApplied /\ ~r.tnbApplied /\ r.tnbLate = 0
  /\ r.tnbResumed => r.tnbWaited

(* onConnect holds a connect once, or it goes on for the first time.         *)
LEMMA ConnectKeeps ==
  ASSUME IInv, NEW c \in Modded, Here(c), phase'[c] = "verified", joins[c] = 0,
         NEW r, Undecided(client[c], r), OnConnect(c, r, FALSE),
         sent' \in [Connection -> Seq(Piece \cup {Done})],
         phase' \in [Connection -> {"new", "authenticating", "verified", "gone"}],
         sent[c] = <<>> => sent'[c] = <<>>,
         \A d \in Connection \ {c} : phase'[d] = phase[d] /\ sent'[d] = sent[d],
         UNCHANGED <<record, account, cert, age, pending, renew, drop, asked, current, up>>
  PROVE  IInv'
<1>0. LinkType /\ ConnOK(c) /\ c \in Connection
  BY Types, ModdedAssumption DEF IInv
<1>1. ~r.tnbApplied /\ r \in Client /\ ~client[c].tnbApplied /\ wants[c] <= 1 /\ wants[c] \in Nat
      /\ (~r.tnbAsked => wants[c] = 0 /\ sent[c] = <<>>)
  <2>1. wants[c] \in 0..2 /\ AskedFirst(c)
    BY <1>0 DEF LinkType, ConnOK
  <2>2. Undecided(client[c], r)
    OBVIOUS
  <2>3. QED
    BY <2>1, <2>2 DEF Undecided, AskedFirst
<1>2. Here(c)'
  BY DEF Here
<1>3. CASE Holds(r)
  <2>1. /\ client' = [client EXCEPT ![c] = [r EXCEPT !.tnbWaited = TRUE]]
        /\ expire' = [expire EXCEPT ![c] = TRUE]
        /\ UNCHANGED <<wants, joins, name>>
    BY <1>1, <1>3 DEF OnConnect
  <2>2. client'[c] = [r EXCEPT !.tnbWaited = TRUE] /\ expire'[c] = TRUE
    BY <1>0, <2>1 DEF LinkType
  <2>3. /\ client'[c] \in Client /\ client'[c].tnbWaited /\ ~client'[c].tnbApplied
        /\ client'[c].tnbAsked = r.tnbAsked /\ client'[c].tnbLate = 0 /\ ~client'[c].tnbResumed
    BY <1>1, <1>3, <2>2 DEF Client, Holds, Undecided
  <2>4. LinkType'
    BY <1>0, <2>1, <2>3 DEF LinkType
  <2>5. Elsewhere(c)
    BY <1>0, <2>1 DEF Elsewhere, LinkType
  <2>6. AskedFirst(c)' /\ Named(c)' /\ Latches(client'[c])
    BY <1>0, <1>1, <2>1, <2>3 DEF AskedFirst, Named, Latches
  <2>7. Connecting(c)'
    BY <1>2, <2>1, <2>2, <2>3 DEF Connecting
  <2>8. client[c].tnbAsked => client'[c].tnbAsked
    BY <2>3 DEF Undecided
  <2>9. QED
    BY <1>0, <1>2, <2>4, <2>5, <2>6, <2>7, <2>8, ServerOnly
<1>4. CASE ~Holds(r)
  <2> DEFINE tagged == Verifies(r.tnbCertBuf)
  <2>1. /\ client' = [client EXCEPT ![c] =
             [r EXCEPT !.tnbApplied = TRUE, !.tnbTagged = tagged, !.tnbCertBuf = <<>>,
                       !.tnbAsked = @ \/ ~tagged]]
        /\ Parent(c, tagged)
        /\ wants' = IF tagged THEN wants ELSE [wants EXCEPT ![c] = @ + 1]
        /\ expire' = [expire EXCEPT ![c] = FALSE]
    BY <1>1, <1>4 DEF OnConnect
  <2>2. tagged \in BOOLEAN
    BY DEF Verifies
  <2> HIDE DEF tagged
  <2>3. /\ client'[c] \in Client /\ client'[c].tnbApplied /\ client'[c].tnbTagged = tagged
        /\ client'[c].tnbAsked = (r.tnbAsked \/ ~tagged)
        /\ client'[c].tnbWaited = r.tnbWaited /\ client'[c].tnbResumed = r.tnbResumed
        /\ client'[c].tnbLate = 0
    <3>1. client'[c] = [r EXCEPT !.tnbApplied = TRUE, !.tnbTagged = tagged, !.tnbCertBuf = <<>>,
                       !.tnbAsked = @ \/ ~tagged]
      BY <1>0, <2>1 DEF LinkType
    <3>2. <<>> \in Seq(Piece)
      BY EmptySeq
    <3>3. QED
      BY <1>1, <2>2, <3>1, <3>2 DEF Client, Undecided
  <2>4. /\ joins'[c] = 1 /\ name'[c] = IF tagged THEN "tagged" ELSE "plain"
        /\ wants'[c] = IF tagged THEN wants[c] ELSE wants[c] + 1
        /\ expire'[c] = FALSE
    BY <1>0, <2>1 DEF LinkType, Parent
  <2>5. LinkType'
    BY <1>0, <1>1, <2>1, <2>3 DEF LinkType, Parent
  <2>6. Elsewhere(c)
    BY <1>0, <2>1 DEF Elsewhere, LinkType, Parent
  <2>7. AskedFirst(c)' /\ Named(c)'
    BY <1>1, <2>2, <2>3, <2>4 DEF AskedFirst, Named
  <2>8. Latches(client'[c]) /\ Connecting(c)'
    BY <2>3, <2>4 DEF Undecided, Latches, Connecting
  <2>9. client[c].tnbAsked => client'[c].tnbAsked
    BY <2>3 DEF Undecided
  <2>10. QED
    BY <1>0, <1>2, <2>5, <2>6, <2>7, <2>8, <2>9, ServerOnly
<1>5. QED
  BY <1>3, <1>4

LEMMA VerifiedStep == ASSUME IInv, NEW c \in Connection, Verified(c) PROVE IInv'
<1>0. LinkType /\ ConnOK(c) /\ Latches(client[c]) /\ client[c] \in Client
  BY Types DEF IInv, LinkType
<1>1. /\ phase[c] = "authenticating" /\ phase' = [phase EXCEPT ![c] = "verified"]
      /\ UNCHANGED <<record, account, cert, age, pending, renew, drop, asked, current, up, sent>>
  BY DEF Verified, clientVars, linkVars
<1>2. /\ phase' \in [Connection -> {"new", "authenticating", "verified", "gone"}]
      /\ phase'[c] = "verified" /\ \A d \in Connection \ {c} : phase'[d] = phase[d]
  BY <1>0, <1>1 DEF LinkType
<1>3. Here(c) /\ Here(c)'
  BY <1>1, <1>2 DEF Here
<1>4. ~expire[c] /\ ~client[c].tnbWaited /\ ~client[c].tnbApplied /\ joins[c] = 0
  BY <1>0, <1>1 DEF ConnOK, Connecting
<1>5. CASE c \in Modded
  <2>1. OnConnect(c, client[c], expire[c]) /\ expire[c] = FALSE
    BY <1>0, <1>4, <1>5 DEF Verified, LinkType
  <2>2. Undecided(client[c], client[c])
    BY <1>0, <1>4, LateAssumption DEF Undecided, Latches, Client
  <2>3. sent' \in [Connection -> Seq(Piece \cup {Done})]
    BY <1>0, <1>1 DEF LinkType
  <2>4. QED
    BY <1>1, <1>2, <1>3, <1>4, <1>5, <2>1, <2>2, <2>3, ConnectKeeps
<1>6. CASE c \notin Modded
  <2>1. Parent(c, FALSE) /\ UNCHANGED <<client, wants, expire>>
    BY <1>6 DEF Verified
  <2>2. joins'[c] = 1 /\ name'[c] = "plain" /\ LinkType'
    BY <1>0, <1>1, <1>2, <1>4, <2>1 DEF LinkType, Parent
  <2>3. Elsewhere(c)
    BY <1>0, <1>1, <1>2, <2>1 DEF Elsewhere, LinkType, Parent
  <2>4. AskedFirst(c)' /\ Connecting(c)' /\ Named(c)'
    BY <1>0, <1>1, <1>2, <1>4, <1>6, <2>1, <2>2, NewFields DEF ConnOK, AskedFirst, Connecting, Named
  <2>5. Latches(client'[c]) /\ (client[c].tnbAsked => client'[c].tnbAsked)
    BY <1>0, <2>1
  <2>6. QED
    BY <1>1, <1>3, <2>2, <2>3, <2>4, <2>5, ServerOnly
<1>7. QED
  BY <1>5, <1>6

(* TNBSResume of a connect that is held: it goes on. *)
LEMMA ResumeKeeps ==
  ASSUME IInv, NEW c \in Modded, Here(c), NEW r, r \in Client,
         r.tnbAsked = client[c].tnbAsked, r.tnbApplied = client[c].tnbApplied,
         r.tnbLate = client[c].tnbLate, r.tnbWaited, r.tnbResumed = client[c].tnbResumed,
         ~client[c].tnbApplied, Resume(c, r),
         sent' \in [Connection -> Seq(Piece \cup {Done})], sent[c] = <<>> => sent'[c] = <<>>,
         \A d \in Connection \ {c} : sent'[d] = sent[d],
         phase' = phase, phase[c] = "verified",
         UNCHANGED <<record, account, cert, age, pending, renew, drop, asked, current, up>>
  PROVE  IInv'
<1>0. LinkType /\ ConnOK(c) /\ c \in Connection /\ Latches(client[c]) /\ client[c] \in Client
  BY Types, ModdedAssumption DEF IInv, LinkType
<1>1. ~client[c].tnbResumed /\ joins[c] = 0 /\ client[c].tnbLate = 0
  BY <1>0 DEF ConnOK, Connecting, Latches, Client
<1>2. OnConnect(c, [r EXCEPT !.tnbResumed = TRUE], FALSE)
  BY <1>1 DEF Resume
<1> DEFINE s == [r EXCEPT !.tnbResumed = TRUE]
<1>3. /\ s \in Client /\ s.tnbAsked = r.tnbAsked /\ s.tnbApplied = r.tnbApplied
      /\ s.tnbLate = r.tnbLate /\ s.tnbWaited = r.tnbWaited
  BY DEF Client
<1>4. Undecided(client[c], s)
  BY <1>1, <1>3 DEF Undecided, Latches
<1> HIDE DEF s
<1>5. phase' \in [Connection -> {"new", "authenticating", "verified", "gone"}]
  BY <1>0 DEF LinkType
<1>6. OnConnect(c, s, FALSE)
  BY <1>2 DEF s
<1>7. QED
  BY <1>1, <1>4, <1>5, <1>6, ConnectKeeps

LEMMA ExpireStep == ASSUME IInv, NEW c \in Connection, ExpireFires(c) PROVE IInv'
<1>0. LinkType /\ ConnOK(c) /\ Latches(client[c]) /\ client[c] \in Client
  BY Types DEF IInv, LinkType
<1>1. /\ expire[c]
      /\ UNCHANGED <<record, account, cert, age, pending, renew, drop, asked, current, up, sent, phase>>
  BY DEF ExpireFires, clientVars, linkVars
<1>2. CASE ~Here(c)
  <2>1. expire' = [expire EXCEPT ![c] = FALSE] /\ UNCHANGED <<client, wants, joins, name>>
    BY <1>2 DEF ExpireFires
  <2>2. CertType' /\ LinkType' /\ Dated' /\ Latches(client'[c])
    BY <1>0, <1>1, <2>1, Types DEF IInv, CertType, LinkType, Dated
  <2>3. Elsewhere(c)
    BY <1>0, <1>1, <2>1 DEF Elsewhere, LinkType
  <2>4. LinkOK'
    BY <1>1, <2>1 DEF IInv, LinkOK, Here
  <2>5. expire'[c] = FALSE
    BY <1>0, <2>1 DEF LinkType
  <2>6. ConnOK(c)'
    BY <1>0, <1>1, <2>1, <2>5 DEF ConnOK, Here, Blank, AskedFirst, Connecting, Named
  <2>7. QED
    BY <2>2, <2>3, <2>4, <2>6, OneConn
<1>3. CASE Here(c)
  <2>1. Resume(c, client[c])
    BY <1>3 DEF ExpireFires
  <2>2. client[c].tnbWaited /\ ~client[c].tnbApplied /\ c \in Modded /\ phase[c] = "verified"
    BY <1>0, <1>1, <1>3 DEF ConnOK, Connecting, Here
  <2>3. sent' \in [Connection -> Seq(Piece \cup {Done})] /\ sent' = sent
    BY <1>0, <1>1 DEF LinkType
  <2>4. QED
    BY <1>0, <1>1, <1>3, <2>1, <2>2, <2>3, ResumeKeeps
<1>4. QED
  BY <1>2, <1>3

-----------------------------------------------------------------------------
(* A command received leaves the rest of them on their way. *)
LEMMA ReceivedKeeps ==
  ASSUME LinkType, NEW c \in Connection, sent[c] # <<>>, Received(c)
  PROVE  /\ sent' \in [Connection -> Seq(Piece \cup {Done})]
         /\ \A d \in Connection \ {c} : sent'[d] = sent[d]
         /\ Head(sent[c]) \in Piece \cup {Done}
<1>1. sent[c] \in Seq(Piece \cup {Done}) /\ sent' = [sent EXCEPT ![c] = Tail(sent[c])]
  BY DEF LinkType, Received
<1>2. Tail(sent[c]) \in Seq(Piece \cup {Done}) /\ Head(sent[c]) \in Piece \cup {Done}
  BY <1>1, HeadTailProperties
<1>3. QED
  BY <1>1, <1>2 DEF LinkType

(* A late transfer begins anew, or not: the player's stage is what it was.   *)
LEMMA AnotherKeeps ==
  ASSUME NEW k \in Client, Latches(k)
  PROVE  /\ AnotherTransfer(k) \in Client /\ Latches(AnotherTransfer(k))
         /\ AnotherTransfer(k).tnbAsked = k.tnbAsked /\ AnotherTransfer(k).tnbApplied = k.tnbApplied
         /\ AnotherTransfer(k).tnbTagged = k.tnbTagged /\ AnotherTransfer(k).tnbWaited = k.tnbWaited
         /\ AnotherTransfer(k).tnbResumed = k.tnbResumed
<1>1. CASE k.tnbCertDone /\ k.tnbApplied /\ ~k.tnbTagged /\ k.tnbLate < LateTries
  <2>1. AnotherTransfer(k) =
          [k EXCEPT !.tnbLate = @ + 1, !.tnbCertDone = FALSE, !.tnbCertBuf = <<>>]
    BY <1>1 DEF AnotherTransfer
  <2>2. k.tnbLate \in Nat /\ k.tnbLate + 1 \in 0..LateTries /\ <<>> \in Seq(Piece)
    BY <1>1, ClientFields, LateAssumption, EmptySeq
  <2>3. QED
    BY <1>1, <2>1, <2>2 DEF Client, Latches
<1>2. CASE ~(k.tnbCertDone /\ k.tnbApplied /\ ~k.tnbTagged /\ k.tnbLate < LateTries)
  BY <1>2 DEF AnotherTransfer
<1>3. QED
  BY <1>1, <1>2

(* What changes of %client does not matter to the stage of the connect.      *)
LEMMA SameStage ==
  ASSUME IInv, NEW c \in Modded, Here(c), NEW k \in Client, client' = [client EXCEPT ![c] = k],
         Latches(k), k.tnbAsked = client[c].tnbAsked, k.tnbApplied = client[c].tnbApplied,
         k.tnbWaited = client[c].tnbWaited, k.tnbResumed = client[c].tnbResumed,
         name' \in [Connection -> {"none", "plain", "tagged"}],
         \A d \in Connection \ {c} : name'[d] = name[d],
         joins[c] > 0 => (name'[c] = "tagged" <=> k.tnbTagged),
         sent[c] # <<>>, Received(c), UNCHANGED <<wants, phase, expire, joins>>,
         UNCHANGED <<record, account, cert, age, pending, renew, drop, asked, current, up>>
  PROVE  IInv'
<1>0. LinkType /\ ConnOK(c) /\ c \in Connection
  BY Types, ModdedAssumption DEF IInv
<1>1. client'[c] = k
  BY <1>0 DEF LinkType
<1>2. LinkType' /\ Elsewhere(c)
  BY <1>0, ReceivedKeeps DEF LinkType, Elsewhere
<1>3. Here(c)' /\ client[c].tnbAsked
  BY <1>0 DEF Here, ConnOK, AskedFirst
<1>4. AskedFirst(c)' /\ Connecting(c)' /\ Named(c)' /\ Latches(client'[c])
  BY <1>0, <1>1, <1>3 DEF ConnOK, AskedFirst, Connecting, Named, Here
<1>5. QED
  BY <1>0, <1>1, <1>2, <1>3, <1>4, ServerOnly

LEMMA ChunkStep == ASSUME IInv, NEW c \in Connection, ClanCertChunk(c) PROVE IInv'
<1>0. LinkType /\ ConnOK(c) /\ Latches(client[c]) /\ client[c] \in Client /\ c \in Modded
  BY Types DEF IInv, LinkType, ClanCertChunk
<1>1. /\ sent[c] # <<>> /\ Head(sent[c]) \in Piece /\ Received(c)
      /\ UNCHANGED <<record, account, cert, age, pending, renew, drop, asked, current, up>>
      /\ UNCHANGED <<wants, phase, expire, joins, name>>
  BY DEF ClanCertChunk, clientVars, linkVars
<1> DEFINE r == AnotherTransfer(client[c])
           k == IF r.tnbCertDone THEN r ELSE [r EXCEPT !.tnbCertBuf = Append(@, Head(sent[c]))]
<1>2. client' = [client EXCEPT ![c] = k]
  BY DEF ClanCertChunk
<1>3. /\ r \in Client /\ Latches(r)
      /\ r.tnbAsked = client[c].tnbAsked /\ r.tnbApplied = client[c].tnbApplied
      /\ r.tnbTagged = client[c].tnbTagged /\ r.tnbWaited = client[c].tnbWaited
      /\ r.tnbResumed = client[c].tnbResumed
  BY <1>0, AnotherKeeps
<1>4. Here(c)
  BY <1>0, <1>1 DEF ConnOK, Blank
<1> HIDE DEF r
<1>5. /\ k \in Client /\ Latches(k)
      /\ k.tnbAsked = r.tnbAsked /\ k.tnbApplied = r.tnbApplied
      /\ k.tnbTagged = r.tnbTagged /\ k.tnbWaited = r.tnbWaited /\ k.tnbResumed = r.tnbResumed
  <2>1. Append(r.tnbCertBuf, Head(sent[c])) \in Seq(Piece)
    BY <1>1, <1>3, ClientFields, AppendProperties
  <2>2. QED
    BY <1>3, <2>1 DEF Client, Latches
<1> HIDE DEF k
<1>6. QED
  BY <1>0, <1>1, <1>2, <1>3, <1>4, <1>5, SameStage DEF LinkType, ConnOK, Named

LEMMA DoneStep == ASSUME IInv, NEW c \in Connection, ClanCertDone(c) PROVE IInv'
<1>0. LinkType /\ ConnOK(c) /\ Latches(client[c]) /\ client[c] \in Client /\ c \in Modded
  BY Types DEF IInv, LinkType, ClanCertDone
<1>1. /\ sent[c] # <<>> /\ Received(c)
      /\ UNCHANGED <<record, account, cert, age, pending, renew, drop, asked, current, up>>
      /\ UNCHANGED phase
  BY DEF ClanCertDone, clientVars, linkVars
<1>2. Here(c)
  BY <1>0, <1>1 DEF ConnOK, Blank
<1> DEFINE r == [client[c] EXCEPT !.tnbCertDone = TRUE]
<1>3. /\ r \in Client /\ Latches(r)
      /\ r.tnbAsked = client[c].tnbAsked /\ r.tnbApplied = client[c].tnbApplied
      /\ r.tnbTagged = client[c].tnbTagged /\ r.tnbWaited = client[c].tnbWaited
      /\ r.tnbResumed = client[c].tnbResumed /\ r.tnbLate = client[c].tnbLate
  BY <1>0 DEF Client, Latches
<1>4. \/ client[c].tnbCertDone /\ UNCHANGED <<client, wants, expire, joins, name>>
      \/ r.tnbApplied /\ LateDone(c, r) /\ UNCHANGED <<wants, expire, joins>>
      \/ ~r.tnbApplied /\ r.tnbWaited /\ Resume(c, r)
      \/ ~r.tnbApplied /\ client' = [client EXCEPT ![c] = r] /\ UNCHANGED <<wants, expire, joins, name>>
  BY DEF ClanCertDone
<1> HIDE DEF r
<1>5. CASE UNCHANGED <<client, wants, expire, joins, name>>
  <2>1. client' = [client EXCEPT ![c] = client[c]]
    BY <1>0, <1>5 DEF LinkType
  <2>2. QED
    BY <1>0, <1>1, <1>2, <1>5, <2>1, SameStage DEF LinkType, ConnOK, Named
<1>6. CASE LateDone(c, r) /\ UNCHANGED <<wants, expire, joins>>
  <2> DEFINE tagged == Verifies(r.tnbCertBuf)
             k == [r EXCEPT !.tnbTagged = @ \/ tagged, !.tnbCertBuf = <<>>]
  <2>1. /\ client' = [client EXCEPT ![c] = k]
        /\ name' = IF ~r.tnbTagged /\ tagged THEN [name EXCEPT ![c] = "tagged"] ELSE name
    BY <1>6 DEF LateDone
  <2>2. tagged \in BOOLEAN
    BY DEF Verifies
  <2> HIDE DEF tagged
  <2>3. /\ k \in Client /\ Latches(k)
        /\ k.tnbAsked = r.tnbAsked /\ k.tnbApplied = r.tnbApplied /\ k.tnbTagged = (r.tnbTagged \/ tagged)
        /\ k.tnbWaited = r.tnbWaited /\ k.tnbResumed = r.tnbResumed
    BY <1>3, <2>2, EmptySeq DEF Client, Latches
  <2> HIDE DEF k
  <2>4. /\ name' \in [Connection -> {"none", "plain", "tagged"}]
        /\ \A d \in Connection \ {c} : name'[d] = name[d]
        /\ joins[c] > 0 => (name'[c] = "tagged" <=> k.tnbTagged)
    BY <1>0, <1>3, <2>1, <2>2, <2>3 DEF LinkType, ConnOK, Named
  <2>5. QED
    BY <1>0, <1>1, <1>2, <1>3, <1>6, <2>1, <2>3, <2>4, SameStage
<1>7. CASE ~r.tnbApplied /\ r.tnbWaited /\ Resume(c, r)
  <2>1. phase[c] = "verified"
    BY <1>0, <1>2, <1>3, <1>7 DEF ConnOK, Connecting, Here
  <2>2. QED
    BY <1>0, <1>1, <1>2, <1>3, <1>7, <2>1, ReceivedKeeps, ResumeKeeps
<1>8. CASE client' = [client EXCEPT ![c] = r] /\ UNCHANGED <<wants, expire, joins, name>>
  BY <1>0, <1>1, <1>2, <1>3, <1>8, SameStage DEF LinkType, ConnOK, Named
<1>9. QED
  BY <1>4, <1>5, <1>6, <1>7, <1>8

-----------------------------------------------------------------------------
LEMMA Starts == Init => IInv
<1> SUFFICES ASSUME Init PROVE IInv
  OBVIOUS
<1>1. CertType /\ Dated
  <2>0. record \in Cert /\ pending \in Cert \cup {"no", "asked"} /\ age \in 0..3
    BY DEF Init, Cert
  <2>1. CertType
    BY <2>0 DEF Init, CertType
  <2>2. Dated
    BY DEF Init, Dated
  <2>3. QED
    BY <2>1, <2>2
<1>0. /\ phase = [c \in Connection |-> "new"] /\ wants = [c \in Connection |-> 0]
      /\ sent = [c \in Connection |-> <<>>] /\ client = [c \in Connection |-> NewClient]
      /\ expire = [c \in Connection |-> FALSE] /\ joins = [c \in Connection |-> 0]
      /\ name = [c \in Connection |-> "none"]
  BY DEF Init
<1>2. LinkType /\ \A c \in Connection : Latches(client[c])
  <2>1. NewClient \in Client /\ <<>> \in Seq(Piece \cup {Done}) /\ Latches(NewClient)
    BY NewFields, EmptySeq
  <2>2. QED
    BY <1>0, <2>1 DEF LinkType
<1>3. LinkOK
  BY NoneAssumption DEF Init, LinkOK, Here
<1>4. ASSUME NEW c \in Connection PROVE ConnOK(c)
  <2>1. /\ phase[c] = "new" /\ wants[c] = 0 /\ sent[c] = <<>> /\ client[c] = NewClient
        /\ ~expire[c] /\ joins[c] = 0 /\ name[c] = "none"
    BY <1>0
  <2>2. ~Here(c) /\ Blank(c) /\ AskedFirst(c)
    BY <2>1 DEF Here, Blank, AskedFirst
  <2>3. Connecting(c) /\ Named(c)
    BY <2>1, <2>2, NewFields DEF Connecting, Named
  <2>4. QED
    BY <2>2, <2>3 DEF ConnOK
<1>5. QED
  BY <1>1, <1>2, <1>3, <1>4, Types DEF IInv

LEMMA Kept == IInv /\ [Next]_vars => IInv'
<1> SUFFICES ASSUME IInv, [Next]_vars PROVE IInv'
  OBVIOUS
<1>1. CASE ClientEvent
  BY <1>1, TimersKeep, LoadedStep, UpStep, LeaveStep DEF ClientEvent
<1>2. ASSUME NEW c \in Connection,
             Join(c) \/ SendCertChunk(c) \/ Verified(c) \/ ExpireFires(c) \/ Arrives(c)
      PROVE  IInv'
  BY <1>2, JoinStep, AskStep, VerifiedStep, ExpireStep, WantStep, ChunkStep, DoneStep DEF Arrives
<1>3. CASE UNCHANGED vars
  <2>1. CertType' /\ Dated'
    BY <1>3, Types DEF IInv, CertType, Dated, vars, clientVars, linkVars
  <2>2. QED
    BY <1>3, <2>1, CertOnly DEF vars, clientVars
<1>4. QED
  BY <1>1, <1>2, <1>3 DEF Next

(* The certificate, the connections and every %client keep their types, a    *)
(* player is asked twice at most, and only a held connect is resumed.        *)
THEOREM TypeCorrect == Spec => []TypeOK
<1>1. IInv => TypeOK
  BY DEF IInv
<1>2. QED
  BY <1>1, Starts, Kept, PTL DEF Spec

(* A certificate is on its way only to a server that asked for one, however  *)
(* long the fetch took and wherever the player is by then (clancert.cs:13).  *)
THEOREM SentToAskers == Spec => []OnlyToWhoAsked
<1>1. IInv => OnlyToWhoAsked
  BY DEF IInv, ConnOK, AskedFirst, OnlyToWhoAsked
<1>2. QED
  BY <1>1, Starts, Kept, PTL DEF Spec

(* A stock server never gets a command it does not know, for which it would  *)
(* drop the player, and its player is never taken for a tagged one.          *)
StockUntouched ==
  \A c \in Connection \ Modded : sent[c] = <<>> /\ wants[c] = 0 /\ name[c] # "tagged"

THEOREM StockServersUntouched == Spec => []StockUntouched
<1>1. IInv => StockUntouched
  BY NewFields DEF IInv, ConnOK, AskedFirst, Connecting, StockUntouched
<1>2. QED
  BY <1>1, Starts, Kept, PTL DEF Spec

(* The certificate held is dropped before it expires, though no refresh ever *)
(* succeeds (clancert.cs:117, :163).                                         *)
THEOREM DroppedInTime == Spec => []NeverExpired
<1>1. IInv => NeverExpired
  BY DEF IInv, TypeOK, Dated, NeverExpired
<1>2. QED
  BY <1>1, Starts, Kept, PTL DEF Spec

(* The stock onConnect runs once for a connection, whichever of the transfer *)
(* and the timer resumes it, and however late the other is (TNBSResume).     *)
THEOREM GoesOnOnce == Spec => []ConnectsOnce
<1>1. IInv => ConnectsOnce
  <2> SUFFICES ASSUME IInv, NEW c \in Connection PROVE joins[c] <= 1
    BY DEF ConnectsOnce
  <2>1. ConnOK(c)
    BY DEF IInv
  <2>2. QED
    BY <2>1 DEF ConnOK, Blank, Connecting
<1>2. QED
  BY <1>1, Starts, Kept, PTL DEF Spec

(* Once built, the name shows the tag exactly when the auth info has one     *)
(* (TNBSRetag).                                                              *)
THEOREM NamesAgree == Spec => []NameShowsTag
<1>1. IInv => NameShowsTag
  BY DEF IInv, ConnOK, Named, NameShowsTag
<1>2. QED
  BY <1>1, Starts, Kept, PTL DEF Spec
=============================================================================
