------------------------------ MODULE DbProxy -------------------------------
(***************************************************************************)
(* The client's side of the community panes (tnbrowser.cs) and of the      *)
(* certificate they read (dbproxy.cs), over the queue of ApiQueue.         *)
(*                                                                         *)
(* An action is one event of the game engine with everything it calls: a   *)
(* pane is opened, the mail timer fires, the answer to the oldest request  *)
(* comes, or all fail together.  The panes themselves are the game's own   *)
(* scripts.  Of EmailGui there is what tnbrowser.cs says of it: CheckEmail *)
(* asks unless checkingEmail is set, sets it and cancels checkSchedule; an *)
(* answer puts both back, an error neither; the wake clears checkingEmail  *)
(* and asks when there is nothing to show, as on the first wake.           *)
(*                                                                         *)
(* Left out: queries other than the mail poll and the changes of a tribe,  *)
(* whose answers change nothing here, and the clan certificate, which goes *)
(* by a queue and timers of its own (ClanCert).                            *)
(***************************************************************************)
EXTENDS ApiQueue

VARIABLES
  use,           \* what each request was last asked for
  account,       \* TNBSessionGuid: the player is logged in
  certReady,     \* TNBCertReady
  certCb,        \* $TNB::CertCb: TNBCertEnsureDone for a pane, or nobody
  certPending,   \* $TNB::CertPending
  shown,         \* Canvas.getContent
  cacheLoaded,   \* EMailGui.cacheLoaded: it woke once
  checkingEmail, \* EMailGui.checkingEmail
  checkSchedule  \* EMailGui.checkSchedule is pending

certVars  == <<account, certReady, certCb, certPending>>
mailVars  == <<cacheLoaded, checkingEmail, checkSchedule>>
proxyVars == <<queue, calling, use, certVars, shown, mailVars>>

Pane    == {"EmailGui", "TribeandWarriorBrowserGui"}
NoPane  == "no pane"    \* the "" of OpenLaunchTabs; whatever else is on display
Nobody  == "nobody"
Use     == {"cert", "poll", "tribe"}

Outstanding(u) == \E i \in DOMAIN queue : use[queue[i]] = u

ProxyTypeOK ==
  /\ QueueTypeOK
  /\ use \in [Request -> Use]
  /\ account \in BOOLEAN /\ certReady \in BOOLEAN /\ certPending \in BOOLEAN
  /\ certCb \in Pane \cup {NoPane, Nobody}
  /\ shown \in Pane \cup {NoPane}
  /\ cacheLoaded \in BOOLEAN /\ checkingEmail \in BOOLEAN /\ checkSchedule \in BOOLEAN

(* checkingEmail is set at boot, with nothing asked (tnbrowser.cs:158). *)
ProxyInit ==
  /\ QueueInit
  /\ use \in [Request -> {"tribe"}]
  /\ account = FALSE /\ certReady = FALSE /\ certCb = Nobody /\ certPending = FALSE
  /\ shown = NoPane
  /\ cacheLoaded = FALSE /\ checkingEmail = TRUE /\ checkSchedule = FALSE

-----------------------------------------------------------------------------
(* The requests an event asks for, by their uses. *)
For(chain, uses) ==
  /\ Len(chain) = Len(uses)
  /\ use' = [r \in Request |->
               IF \E i \in DOMAIN chain : chain[i] = r
               THEN uses[CHOOSE i \in DOMAIN chain : chain[i] = r] ELSE use[r]]

Asks(uses) == \E chain \in Chains(calling) : Ask(chain) /\ For(chain, uses)

Answers(u, uses) ==
  /\ queue # <<>> /\ use[Head(queue)] = u
  /\ \E chain \in Chains(calling \ {Head(queue)}) : Answer(chain) /\ For(chain, uses)

(* CheckEmail, when it asks. *)
EmailChecked ==
  /\ checkingEmail' = TRUE /\ checkSchedule' = FALSE
  /\ UNCHANGED cacheLoaded

(* EmailGui::onWake asks when there is nothing to show; otherwise, by the    *)
(* override, unless a poll is out or there is no account.                    *)
EmailWakeAsks(empty) == ~cacheLoaded \/ empty \/ (account /\ ~checkingEmail)

EmailWoken(empty) ==
  /\ cacheLoaded' = TRUE
  /\ IF EmailWakeAsks(empty) THEN checkingEmail' = TRUE /\ checkSchedule' = FALSE
     ELSE UNCHANGED <<checkingEmail, checkSchedule>>

Poll(empty) == IF EmailWakeAsks(empty) THEN <<"poll">> ELSE <<>>

(* What waking a pane changes, and the polls it asks for. *)
Wake(pane, empty) ==
  IF pane = "EmailGui" THEN EmailWoken(empty) ELSE UNCHANGED mailVars

WakePoll(pane, empty) == IF pane = "EmailGui" THEN Poll(empty) ELSE <<>>

(* TNBCertEnsure: no account, or a certificate, or a request for one: no     *)
(* request.                                                                  *)
CertWanted == account /\ ~certReady /\ ~certPending

CertEnsure(pane) ==
  /\ IF CertWanted THEN certPending' = TRUE /\ certCb' = pane
     ELSE UNCHANGED <<certPending, certCb>>
  /\ UNCHANGED <<account, certReady>>

Cert == IF CertWanted THEN <<"cert">> ELSE <<>>

-----------------------------------------------------------------------------
LogIntoAccount ==
  /\ ~account /\ account' = TRUE
  /\ UNCHANGED <<queue, calling, use, certReady, certCb, certPending, shown, mailVars>>

(* OpenLaunchTabs asks for the certificate for nobody, and opens a pane; that *)
(* pane's own TNBCertEnsure finds a request pending, or no account.           *)
OpenLaunchTabs ==
  \E pane \in Pane \cup {NoPane}, empty \in BOOLEAN :
    /\ Asks(Cert \o WakePoll(pane, empty))
    /\ CertEnsure(NoPane)
    /\ shown' = pane /\ Wake(pane, empty)

(* LaunchTabView::onSelect: the pane is shown and wakes, whether there is an *)
(* identity or not, and then one is asked for.                               *)
Select ==
  \E pane \in Pane, empty \in BOOLEAN :
    /\ Asks(WakePoll(pane, empty) \o Cert)
    /\ CertEnsure(pane)
    /\ shown' = pane /\ Wake(pane, empty)

(* Another tab, or a game. *)
Leave ==
  /\ shown # NoPane /\ shown' = NoPane
  /\ UNCHANGED <<queue, calling, use, certVars, mailVars>>

(* GET MAIL: CheckEmail(false). *)
GetMail ==
  /\ shown = "EmailGui" /\ ~checkingEmail
  /\ Asks(<<"poll">>) /\ EmailChecked
  /\ UNCHANGED <<certVars, shown>>

(* The mail timer: CheckEmail(true). *)
CheckEmailDue ==
  /\ checkSchedule
  /\ \/ ~checkingEmail /\ Asks(<<"poll">>) /\ EmailChecked
     \/ /\ checkingEmail /\ checkSchedule' = FALSE
        /\ UNCHANGED <<queue, calling, use, cacheLoaded, checkingEmail>>
  /\ UNCHANGED <<certVars, shown>>

ChangeTribe ==
  /\ shown \in Pane
  /\ Asks(<<"tribe">>)
  /\ UNCHANGED <<certVars, shown, mailVars>>

-----------------------------------------------------------------------------
(* An operation on a tribe done: WONUpdateCertificate calls TNBCertRefresh   *)
(* with no callback, which takes the slot from whoever is in it.             *)
TribeChanged ==
  /\ \/ account /\ Answers("tribe", <<"cert">>) /\ certCb' = Nobody
     \/ Answers("tribe", <<>>) /\ UNCHANGED certCb
  /\ UNCHANGED <<account, certReady, certPending, shown, mailVars>>

(* TNBCertEnsureDone wakes the pane it was registered for, if that is shown: *)
(* external, that Canvas.getContent compares equal to the name of the pane.  *)
Rewoken(ok) == ok /\ certCb \in Pane /\ certCb = shown

(* Mutant of EmptySlot: the callback stays in the slot. *)
SlotKept == UNCHANGED certCb

EmptySlot == certCb' = Nobody

(* TNBCertLoaded, with the callback in the slot. *)
CertLoaded ==
  \E ok, empty \in BOOLEAN :
    /\ Answers("cert", IF Rewoken(ok) THEN WakePoll(shown, empty) ELSE <<>>)
    /\ certReady' = (certReady \/ ok)
    /\ EmptySlot
    /\ certPending' = (certPending /\ certCb = Nobody)
    /\ IF Rewoken(ok) THEN Wake(shown, empty) ELSE UNCHANGED mailVars
    /\ UNCHANGED <<account, shown>>

(* Mutant of MailFails: the shipped branch alone. *)
MailFailsForGood == UNCHANGED mailVars

(* The override of onDatabaseQueryResult, after an error. *)
MailFails == checkingEmail' = FALSE /\ checkSchedule' = TRUE /\ UNCHANGED cacheLoaded

MailCame == checkingEmail' = FALSE /\ checkSchedule' = TRUE /\ UNCHANGED cacheLoaded

MailPolled ==
  /\ Answers("poll", <<>>)
  /\ MailCame \/ MailFails
  /\ UNCHANGED <<certVars, shown>>

(* No session: every callback is called with an error. *)
QueueFails ==
  /\ queue # <<>>
  /\ Fail(<<>>)
  /\ IF Outstanding("cert")
     THEN EmptySlot /\ certPending' = (certPending /\ certCb = Nobody)
     ELSE UNCHANGED <<certCb, certPending>>
  /\ IF Outstanding("poll") THEN MailFails ELSE UNCHANGED mailVars
  /\ UNCHANGED <<use, account, certReady, shown>>

ProxyNext ==
  \/ LogIntoAccount \/ OpenLaunchTabs \/ Select \/ Leave \/ GetMail \/ CheckEmailDue
  \/ ChangeTribe \/ TribeChanged \/ CertLoaded \/ MailPolled \/ QueueFails

ProxySpec == ProxyInit /\ [][ProxyNext]_proxyVars

-----------------------------------------------------------------------------
(* Whoever is in the callback slot has a certificate request outstanding     *)
(* that will call them, and is the one the pending flag stands for: a refused *)
(* or failed request leaves no slot behind that a later answer would call    *)
(* (dbproxy.cs:226-248).                                                     *)
SlotIsServed == certCb # Nobody => certPending /\ Outstanding("cert")

(* One lost race does not cost the session's mail (tnbrowser.cs:114-138):    *)
(* once the pane has been opened a poll is out or a timer armed, and the     *)
(* flag that turns every CheckEmail away is set only while a poll is out,    *)
(* however many polls overlap and whichever of them fail.                    *)
MailGoesOn ==
  cacheLoaded => /\ checkSchedule \/ Outstanding("poll")
                 /\ checkingEmail => Outstanding("poll")
=============================================================================
