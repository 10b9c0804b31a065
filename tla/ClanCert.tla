------------------------------ MODULE ClanCert ------------------------------
(***************************************************************************)
(* The clan certificate: how a player's tag reaches the game servers they  *)
(* join.  One client (TNBrowser/tnbrowser/clancert.cs) holds and renews a  *)
(* certificate the backend signed; game servers, one after another, ask    *)
(* for it and check it (TNBrowserServer/tnbserver/clancert.cs).            *)
(*                                                                         *)
(* Both ends run one script event at a time.  Commands between them arrive *)
(* in the order they were sent, unless the player leaves.  A certificate   *)
(* is too long for one command and goes in two pieces.                     *)
(*                                                                         *)
(* A certificate stands for the record it was signed over: the player's    *)
(* tribes before or after the one change this model lets them make.  That  *)
(* the pieces put together are what was signed is all TNBSVerifyClanCert   *)
(* tests here: the keys are known, the guid is the player's, and a         *)
(* certificate sent before nine tenths of its life arrives before its end. *)
(***************************************************************************)
EXTENDS Naturals, Sequences

CONSTANTS
  Connection,  \* ids of the connections the player makes, each used once
  Modded,      \* those to a server that runs TNBrowserServer
  LateTries,   \* $TNBS::LateTries
  None         \* "": no certificate, or no connection

ASSUME ModdedAssumption == Modded \subseteq Connection
ASSUME LateAssumption   == LateTries \in Nat
ASSUME NoneAssumption   == None \notin Connection \cup {"before", "after"}

VARIABLES
  record,   \* what the backend would sign now
  account,  \* the player is logged in to TribesNext
  cert,     \* $TNB::ClanCert
  age,      \* of cert: 0, 1 past half its life, 2 past nine tenths, 3 expired
  pending,  \* $TNB::ClanCertPending: "no", "asked", or what was signed
  renew,    \* $TNB::ClanCertRenew is scheduled
  drop,     \* $TNB::ClanCertDrop is scheduled
  asked,    \* $TNB::ClanCertAsked
  current,  \* the connection the player is on
  up,       \* isObject(ServerConnection)
  phase,    \* how far each connection is
  wants,    \* tnb_wantClanCert commands on their way to the client
  sent,     \* commands on their way to the server
  client,   \* the fields the server keeps on %client
  expire,   \* %client.tnbExpire is scheduled
  joins,    \* times the stock onConnect was run, once the guid was known
  name      \* the name it was given

clientVars == <<record, account, cert, age, pending, renew, drop, asked>>
linkVars   == <<current, up>>
serverVars == <<phase, client, expire, joins, name>>
vars == <<clientVars, linkVars, wants, sent, serverVars>>

Cert   == {"before", "after"}
Piece  == Cert \X {1, 2}
Done   == <<None, 0>>
Pieces(x) == <<<<x, 1>>, <<x, 2>>>>

Client == [tnbAsked : BOOLEAN, tnbCertBuf : Seq(Piece), tnbCertDone : BOOLEAN,
           tnbLate : 0..LateTries, tnbApplied : BOOLEAN, tnbTagged : BOOLEAN,
           tnbWaited : BOOLEAN, tnbResumed : BOOLEAN]
NewClient ==
  [tnbAsked |-> FALSE, tnbCertBuf |-> <<>>, tnbCertDone |-> FALSE, tnbLate |-> 0,
   tnbApplied |-> FALSE, tnbTagged |-> FALSE, tnbWaited |-> FALSE, tnbResumed |-> FALSE]

Init ==
  /\ record = "before" /\ account = FALSE
  /\ cert = None /\ age = 0 /\ pending = "no" /\ renew = FALSE /\ drop = FALSE
  /\ asked = None /\ current = None /\ up = FALSE
  /\ phase = [c \in Connection |-> "new"]
  /\ wants = [c \in Connection |-> 0]
  /\ sent = [c \in Connection |-> <<>>]
  /\ client = [c \in Connection |-> NewClient]
  /\ expire = [c \in Connection |-> FALSE]
  /\ joins = [c \in Connection |-> 0]
  /\ name = [c \in Connection |-> "none"]

-----------------------------------------------------------------------------
(* The client's certificate and its timers.                                 *)

LogIn ==
  /\ ~account /\ account' = TRUE
  /\ UNCHANGED <<record, cert, age, pending, renew, drop, asked, linkVars, wants, sent, serverVars>>

(* TNBClanCertFetch: one at a time, and only with an account. *)
Fetch == pending' = IF pending = "no" /\ account THEN "asked" ELSE pending

(* TNBClanCertEnsure, when the shell is opened. *)
Ensure ==
  /\ cert = None /\ pending = "no" /\ account
  /\ Fetch
  /\ UNCHANGED <<record, account, cert, age, renew, drop, asked, linkVars, wants, sent, serverVars>>

(* The player's tribes change, and WONUpdateCertificate asks again. *)
WONUpdateCertificate ==
  /\ account /\ record = "before" /\ record' = "after"
  /\ Fetch
  /\ UNCHANGED <<account, cert, age, renew, drop, asked, linkVars, wants, sent, serverVars>>

(* They change by what somebody else does, and nobody tells the client. *)
RecordChanges ==
  /\ record = "before" /\ record' = "after"
  /\ UNCHANGED <<account, cert, age, pending, renew, drop, asked, linkVars, wants, sent, serverVars>>

(* The backend signs the record as it is now. *)
Sign ==
  /\ pending = "asked" /\ pending' = record
  /\ UNCHANGED <<record, account, cert, age, renew, drop, asked, linkVars, wants, sent, serverVars>>

(* TNBClanCertSend, if there is a connection to send on. *)
Send(x) ==
  sent' = IF up THEN [sent EXCEPT ![current] = @ \o Pieces(x) \o <<Done>>] ELSE sent

(* Mutant: that somebody asked is remembered, not who did. *)
LoadedForAnybody ==
  /\ pending \in Cert /\ pending' = "no"
  /\ cert' = pending /\ age' = 0
  /\ renew' = TRUE /\ drop' = TRUE
  /\ asked' = None
  /\ IF asked # None THEN Send(pending) ELSE UNCHANGED sent
  /\ UNCHANGED <<record, account, linkVars, wants, serverVars>>

(* Mutant: the timers are cancelled and only the drop is scheduled again. *)
LoadedForLife ==
  /\ pending \in Cert /\ pending' = "no"
  /\ cert' = pending /\ age' = 0
  /\ renew' = FALSE /\ drop' = TRUE
  /\ asked' = None
  /\ IF asked # None /\ asked = current THEN Send(pending) ELSE UNCHANGED sent
  /\ UNCHANGED <<record, account, linkVars, wants, serverVars>>

(* TNBClanCertLoaded, with a certificate that has some life in it. *)
Loaded ==
  /\ pending \in Cert /\ pending' = "no"
  /\ cert' = pending /\ age' = 0
  /\ renew' = TRUE /\ drop' = TRUE
  /\ asked' = None
  /\ IF asked # None /\ asked = current THEN Send(pending) ELSE UNCHANGED sent
  /\ UNCHANGED <<record, account, linkVars, wants, serverVars>>

(* Mutant: as TNBClanCertRetryLater once was, it cancels both timers. *)
RetryLaterAlone == renew' = TRUE /\ drop' = FALSE

RetryLater == renew' = TRUE /\ UNCHANGED drop

(* No answer, an unreadable one, or a certificate with no life in it. *)
LoadFails ==
  /\ pending # "no" /\ pending' = "no"
  /\ RetryLater
  /\ UNCHANGED <<record, account, cert, age, asked, linkVars, wants, sent, serverVars>>

RenewFires ==
  /\ renew /\ renew' = FALSE
  /\ Fetch
  /\ UNCHANGED <<record, account, cert, age, drop, asked, linkVars, wants, sent, serverVars>>

(* TNBClanCertDiscard, at nine tenths of the life. *)
DropFires ==
  /\ drop /\ age = 2
  /\ cert' = None /\ age' = 0
  /\ renew' = FALSE /\ drop' = FALSE
  /\ Fetch
  /\ UNCHANGED <<record, account, asked, linkVars, wants, sent, serverVars>>

(* Timers keep time: the drop comes before what is left of the life is over. *)
Ages ==
  /\ cert # None /\ age < 3 /\ (age = 2 => ~drop)
  /\ age' = age + 1
  /\ UNCHANGED <<record, account, cert, pending, renew, drop, asked, linkVars, wants, sent, serverVars>>

(* clientCmdtnb_wantClanCert, over the connection the player is on. *)
WantClanCert(c) ==
  /\ current = c /\ wants[c] > 0 /\ wants' = [wants EXCEPT ![c] = @ - 1]
  /\ \/ /\ cert # None
        /\ asked' = None
        /\ Send(cert)
        /\ UNCHANGED pending
     \/ /\ cert = None
        /\ asked' = IF up THEN c ELSE None
        /\ Fetch
        /\ UNCHANGED sent
  /\ UNCHANGED <<record, account, cert, age, renew, drop, linkVars, serverVars>>

-----------------------------------------------------------------------------
(* Joining and leaving servers.                                             *)

Join(c) ==
  /\ account /\ current = None /\ phase[c] = "new"
  /\ current' = c
  /\ phase' = [phase EXCEPT ![c] = "authenticating"]
  /\ UNCHANGED <<clientVars, up, wants, sent, client, expire, joins, name>>

(* ServerConnection is made some time during the authentication. *)
ConnectionUp ==
  /\ current # None /\ ~up /\ up' = TRUE
  /\ UNCHANGED <<clientVars, current, wants, sent, serverVars>>

(* The server's %client is deleted, its timer is not. *)
Leave ==
  /\ current # None /\ current' = None /\ up' = FALSE
  /\ phase' = [phase EXCEPT ![current] = "gone"]
  /\ wants' = [wants EXCEPT ![current] = 0]
  /\ sent' = [sent EXCEPT ![current] = <<>>]
  /\ client' = [client EXCEPT ![current] = NewClient]
  /\ joins' = [joins EXCEPT ![current] = 0]
  /\ name' = [name EXCEPT ![current] = "none"]
  /\ UNCHANGED <<clientVars, expire>>

-----------------------------------------------------------------------------
(* The game server.                                                         *)

Here(c) == phase[c] \in {"authenticating", "verified"}

(* TNBSVerifyClanCert *)
Verifies(buf) == \E x \in Cert : buf = Pieces(x)

(* The account certificate arrives; the first piece of it makes us ask. *)
SendCertChunk(c) ==
  /\ c \in Modded /\ phase[c] = "authenticating" /\ ~client[c].tnbAsked
  /\ client' = [client EXCEPT ![c].tnbAsked = TRUE]
  /\ wants' = [wants EXCEPT ![c] = @ + 1]
  /\ UNCHANGED <<clientVars, linkVars, sent, phase, expire, joins, name>>

(* The stock onConnect builds the name from the auth info. *)
Parent(c, tagged) ==
  /\ joins' = [joins EXCEPT ![c] = @ + 1]
  /\ name' = [name EXCEPT ![c] = IF tagged THEN "tagged" ELSE "plain"]

(* Mutant: a connect that was held may be held again. *)
HoldsAgain(r) == r.tnbCertBuf # <<>> /\ ~r.tnbCertDone

Holds(r) == r.tnbCertBuf # <<>> /\ ~r.tnbCertDone /\ ~r.tnbWaited

(* GameConnection::onConnect with the guid known, %client being r and the    *)
(* timer scheduled or not as armed says.                                     *)
OnConnect(c, r, armed) ==
  \/ /\ r.tnbApplied
     /\ client' = [client EXCEPT ![c] = r]
     /\ Parent(c, r.tnbTagged)
     /\ expire' = [expire EXCEPT ![c] = armed]
     /\ UNCHANGED wants
  \/ /\ ~r.tnbApplied /\ Holds(r)
     /\ client' = [client EXCEPT ![c] = [r EXCEPT !.tnbWaited = TRUE]]
     /\ expire' = [expire EXCEPT ![c] = TRUE]
     /\ UNCHANGED <<wants, joins, name>>
  \/ /\ ~r.tnbApplied /\ ~Holds(r)
     /\ LET tagged == Verifies(r.tnbCertBuf) IN
        /\ client' = [client EXCEPT ![c] =
             [r EXCEPT !.tnbApplied = TRUE, !.tnbTagged = tagged, !.tnbCertBuf = <<>>,
                       !.tnbAsked = @ \/ ~tagged]]
        /\ Parent(c, tagged)
        /\ wants' = IF tagged THEN wants ELSE [wants EXCEPT ![c] = @ + 1]
     /\ expire' = [expire EXCEPT ![c] = armed]

(* The account certificate is verified: t2csri goes on to onConnect. *)
Verified(c) ==
  /\ phase[c] = "authenticating" /\ up
  /\ phase' = [phase EXCEPT ![c] = "verified"]
  /\ \/ c \in Modded /\ OnConnect(c, client[c], expire[c])
     \/ c \notin Modded /\ Parent(c, FALSE) /\ UNCHANGED <<client, wants, expire>>
  /\ UNCHANGED <<clientVars, linkVars, sent>>

(* Mutant: no latch, and the timer is left running. *)
ResumeAlways(c, r) == OnConnect(c, r, expire[c])

(* TNBSResume: the transfer or the timer, whichever comes first. *)
Resume(c, r) ==
  \/ r.tnbResumed /\ UNCHANGED <<client, wants, expire, joins, name>>
  \/ ~r.tnbResumed /\ OnConnect(c, [r EXCEPT !.tnbResumed = TRUE], FALSE)

ExpireFires(c) ==
  /\ expire[c]
  /\ \/ ~Here(c) /\ expire' = [expire EXCEPT ![c] = FALSE] /\ UNCHANGED <<client, wants, joins, name>>
     \/ Here(c) /\ Resume(c, client[c])
  /\ UNCHANGED <<clientVars, linkVars, sent, phase>>

(* Mutant: tnbCertDone is a permanent latch. *)
AnotherTransferNever(r) == r

(* A second transfer, from a client that had nothing when it joined. *)
AnotherTransfer(r) ==
  IF r.tnbCertDone /\ r.tnbApplied /\ ~r.tnbTagged /\ r.tnbLate < LateTries
  THEN [r EXCEPT !.tnbLate = @ + 1, !.tnbCertDone = FALSE, !.tnbCertBuf = <<>>]
  ELSE r

Received(c) == sent' = [sent EXCEPT ![c] = Tail(@)]

(* The cap on the buffer is beyond what a client of ours sends. *)
ClanCertChunk(c) ==
  /\ c \in Modded /\ sent[c] # <<>> /\ Head(sent[c]) \in Piece /\ Received(c)
  /\ LET r == AnotherTransfer(client[c]) IN
     client' = [client EXCEPT ![c] =
       IF r.tnbCertDone THEN r ELSE [r EXCEPT !.tnbCertBuf = Append(@, Head(sent[c]))]]
  /\ UNCHANGED <<clientVars, linkVars, wants, phase, expire, joins, name>>

(* Mutant: a late certificate reaches the auth info and not the name. *)
LateDoneUnseen(c, r) ==
  /\ client' = [client EXCEPT ![c] =
       [r EXCEPT !.tnbTagged = @ \/ Verifies(r.tnbCertBuf), !.tnbCertBuf = <<>>]]
  /\ UNCHANGED name

(* The player is in the game: TNBSApplyRecord, and TNBSRetag. *)
LateDone(c, r) ==
  /\ client' = [client EXCEPT ![c] =
       [r EXCEPT !.tnbTagged = @ \/ Verifies(r.tnbCertBuf), !.tnbCertBuf = <<>>]]
  /\ name' = IF ~r.tnbTagged /\ Verifies(r.tnbCertBuf) THEN [name EXCEPT ![c] = "tagged"] ELSE name

ClanCertDone(c) ==
  /\ c \in Modded /\ sent[c] # <<>> /\ Head(sent[c]) = Done /\ Received(c)
  /\ LET r == [client[c] EXCEPT !.tnbCertDone = TRUE] IN
     \/ client[c].tnbCertDone /\ UNCHANGED <<client, wants, expire, joins, name>>
     \/ ~client[c].tnbCertDone /\ r.tnbApplied /\ LateDone(c, r) /\ UNCHANGED <<wants, expire, joins>>
     \/ ~client[c].tnbCertDone /\ ~r.tnbApplied /\ r.tnbWaited /\ Resume(c, r)
     \/ /\ ~client[c].tnbCertDone /\ ~r.tnbApplied /\ ~r.tnbWaited
        /\ client' = [client EXCEPT ![c] = r]
        /\ UNCHANGED <<wants, expire, joins, name>>
  /\ UNCHANGED <<clientVars, linkVars, phase>>

-----------------------------------------------------------------------------
ClientEvent ==
  \/ LogIn \/ Ensure \/ WONUpdateCertificate \/ RecordChanges \/ Sign \/ Loaded \/ LoadFails
  \/ RenewFires \/ DropFires \/ Ages \/ ConnectionUp \/ Leave

Arrives(c) == WantClanCert(c) \/ ClanCertChunk(c) \/ ClanCertDone(c)

Next ==
  \/ ClientEvent
  \/ \E c \in Connection :
       Join(c) \/ SendCertChunk(c) \/ Verified(c) \/ ExpireFires(c) \/ Arrives(c)

Spec == Init /\ [][Next]_vars

(* Commands arrive and timers fire; of fetch after fetch one is signed and loaded. *)
FairSpec ==
  /\ Spec
  /\ SF_vars(Sign) /\ SF_vars(Loaded) /\ WF_vars(RenewFires)
  /\ \A c \in Connection : WF_vars(ExpireFires(c)) /\ SF_vars(Arrives(c))

-----------------------------------------------------------------------------
(* Types, and the latches of %client: a player is asked twice at most, a     *)
(* transfer is late only to a player in the game, and only a held connect is *)
(* resumed.                                                                  *)
TypeOK ==
  /\ record \in Cert /\ account \in BOOLEAN
  /\ cert \in Cert \cup {None} /\ age \in 0..3
  /\ pending \in Cert \cup {"no", "asked"}
  /\ renew \in BOOLEAN /\ drop \in BOOLEAN
  /\ asked \in Connection \cup {None} /\ current \in Connection \cup {None} /\ up \in BOOLEAN
  /\ phase \in [Connection -> {"new", "authenticating", "verified", "gone"}]
  /\ wants \in [Connection -> 0..2]
  /\ sent \in [Connection -> Seq(Piece \cup {Done})]
  /\ client \in [Connection -> Client]
  /\ expire \in [Connection -> BOOLEAN]
  /\ joins \in [Connection -> Nat]
  /\ name \in [Connection -> {"none", "plain", "tagged"}]
  /\ \A c \in Connection : client[c].tnbLate > 0 => client[c].tnbApplied
  /\ \A c \in Connection : client[c].tnbResumed => client[c].tnbWaited

(* A certificate is on its way only to a server that asked for one, however  *)
(* long the fetch took and wherever the player is by now (clancert.cs:13,    *)
(* :132).  A stock server, which would drop the player, never sees one.      *)
OnlyToWhoAsked == \A c \in Connection : sent[c] # <<>> => client[c].tnbAsked

(* The certificate held is dropped before it expires, though every refresh   *)
(* may fail (clancert.cs:117, :163).                                         *)
NeverExpired == cert # None => age < 3

(* A held connect goes on once, whichever of the transfer and the timer comes *)
(* first (TNBSResume): the stock onConnect never runs twice.                 *)
ConnectsOnce == \A c \in Connection : joins[c] <= 1

(* Once the name is built it shows the tag exactly when the auth info has     *)
(* one, whether the certificate came in time or after (TNBSRetag).           *)
NameShowsTag ==
  \A c \in Connection : joins[c] > 0 => (name[c] = "tagged" <=> client[c].tnbTagged)

(* Nobody is kept out: a held connect is resumed.                            *)
NobodyHeld == \A c \in Connection : client[c].tnbWaited ~> joins[c] > 0 \/ phase[c] = "gone"

(* A player who stays on a server with the mod gets the tag in the end: the  *)
(* handshake's ask may be ignored, the first transfer cut short, the first   *)
(* certificate not there yet (clancert.cs:128, server clancert.cs:414).      *)
TaggedInTheEnd ==
  \A c \in Modded : joins[c] > 0 ~> client[c].tnbTagged \/ phase[c] = "gone"

(* After a change of tribes the certificate is issued anew and the old one   *)
(* never comes back, though a fetch was under way (tnbrowser.cs:81) or the    *)
(* change was somebody else's, which only the refresh at half life notices.   *)
Reissued == record = "after" ~> [](cert # "before")
=============================================================================
