# TribesNextBrowser, in TLA+

This directory holds a verification development of TribesNextBrowser: the Go
service that gives the Tribes 2 community screens (tribes, mail, forums) back
their backend, and the TorqueScript mods that make a game client and a game
server talk to it. The specifications are translated from the source under
`src/`; file names and line numbers below refer to it.

* [The system](#the-system)
* [Modules](#modules)
* [Runs](#runs)
* [Bounds](#bounds)
* [Fairness](#fairness)
* [Proofs](#proofs)
* [What the models say about the code](#what-the-models-say-about-the-code)
* [What is not modelled](#what-is-not-modelled)
* [Plan](#plan)

To repeat the checks, in this directory:

    tlc -workers 2 -config Tribes_roster.cfg MCTribes.tla
    tlapm TribesProofs.tla

Each run is a `.cfg` named after it; `PROJECT.json` names the module it goes with.

## The system

| part | state it keeps | operations | talks to |
|---|---|---|---|
| tribes: `store/clan.go`, `won.go`, `user.go`, handlers in `dbproxy/browser.go` | tables `clans`, `clan_members`, `clan_invites`, `clan_disband_votes`, `accounts.active_clan` | create, recruit flag, set rank, kick, leave, wear a tag, invite, request, accept, reject, cancel, admit, authorise disbanding | PostgreSQL; mail, to tell those concerned |
| accounts and profiles: `store.go`, `user.go`, `welcome.go` | table `accounts` | first sight, name, info, website, graphic | every authenticated request |
| mail: `store/mail.go`, `won.go`, `dbproxy/email.go` | table `mail` (a row per copy), `blocks.hits` | send, two-stage delete, purge, mark read, everything above an id | block list |
| buddy and block lists: `store/social.go` | tables `buddies`, `blocks` | add, remove, clear | mail |
| forums, news, links: `store/content.go`, `dbproxy/forums.go`, `news.go` | tables `forum_topics`, `forum_posts`, `news`, `motd`, `web_links` | post, edit, delete, lock, move, remove | membership of the staff tribe |
| directory: `store/directory.go` | none | search, paging | the tables of others |
| ordinals and dispatch: `dbproxy/dispatch.go`, `ordinals.go` | a registry written at start-up | find the handler, tell a refusal from a fault | all handlers |
| sessions: `auth/session.go` | challenges by account, tokens (in memory, under a mutex) | challenge, answer, look up, sweep | account certificates |
| account certificates: `auth/cert.go`, `key.go` | none | parse, verify | |
| front door: `api/api.go` | none | session, ordinals, certificates, health | all of the above |
| clan certificates, server: `clancert/clancert.go` | the signing key | sign, check | tribes |
| release cache: `release/release.go` | the last answer and when it was fetched (in memory, under a mutex) | get | GitHub |
| processes: `cmd/tnserver/main.go`, `.do/app.yaml` | none | migrate and exit, or serve until told to stop | migrations, the platform that deploys |
| migrations: `migrate/migrate.go` | table `schema_migrations` | apply in order, once | PostgreSQL |
| client queue: `TNBrowser/tnbrowser/api.cs` | queue, busy flag, hourglass | enqueue, pump, complete, fail all | session |
| client session: `TNBrowser/tnbrowser/session.cs` | token, challenge, waiters, one timer | start, answer a challenge, keep alive, fail and retry | `/session` of the service |
| client proxy: `TNBrowser/tnbrowser/dbproxy.cs` | pending queries, one certificate callback | query, cancel, refresh the certificate | client queue, the game's own panes |
| client glue: `TNBrowser/scripts/autoexec/tnbrowser.cs` | certificate pending flag | overrides of the game's launch tabs, mail pane and identity | client proxy, client certificate |
| client certificate: `TNBrowser/tnbrowser/clancert.cs` | certificate, pending flag, two timers | ensure, fetch, discard, hand over | client queue, the game server |
| game server: `TNBrowserServer/tnbserver/clancert.cs` | a held connect per player, chunks received, one timer | ask, receive, verify, resume, retag | the client's certificate |
| client JSON: `TNBrowser/tnbrowser/json.cs` | a pool of nodes | parse, free | |
| site: `api/site.go`, `server/web` | none | pages and read-only endpoints | |

What is hard about it:

* every HTTP request runs in its own goroutine and every store method is one
  PostgreSQL transaction at READ COMMITTED, with no explicit row locks: what one
  statement read may be gone when the next one writes;
* a transaction may be interrupted between any two statements, or lose a deadlock;
* handlers run several transactions, and mail about what happened is another one;
* in the client, a connection gives no callback but its end, callbacks ask for
  more, timers and transfers come in any order, and the session can lapse under a
  queue of requests;
* sessions and the release cache live in the memory of a process that restarts,
  and a request that its client gave up is served all the same;
* migrating and serving are different runs of one program, which only the platform
  puts in order, and an operator may migrate at any moment.

What makes each part correct, and which of it is checked, is under
[Runs](#runs); the hazards are listed one by one in `PROJECT.json`.

## Modules

**Tribes** is the abstract service. A state is what the tables say: `status` and
`recruiting` of each tribe name, `rank` of each warrior in each tribe (`NotMember`
where there is no row), `invite`, the row in `clan_invites` if any, with its kind
and whether it is younger than seven days, `vote`, the disband votes, and `worn`,
whose tag each warrior wears. An action is a whole request: the handler's
`FindClan`, the store method's gates, and all of its writes. A refused request
changes nothing. Tribe names are never reused, so a tribe is its name.

**TribeTx** is the same operations as the server runs them. A *store method* is
the sequence of statements it sends (`Kick(q)`, `Disband(q)`, ...), a *worker* is
a goroutine with a request, a program counter and the rows its transaction has
written. `db` is what is committed. Statements read committed rows and their own
transaction's writes; a write locks its row until the end of the transaction; an
`UPDATE` or `DELETE` waits only for a row its `WHERE` matches, an `INSERT` for any
writer of its key; a worker may fail at any statement (`Fault`), which rolls back, and so the
database may fail one of some workers that wait for one another.
`INSTANCE Tribes WITH ...` reads the abstract state off the committed rows.
**TribeVote** adds one history variable to it: `moved`, the disbandings whose count of
leaders was overtaken, before they were answered, by a promotion or a withdrawal that
another transaction committed. No step reads it.

**TNBClient** is the client's transport. The engine runs one script event at a
time, so an action is an event with everything it calls: `Enqueue`, `Pump`,
`TransferEnds`, `TimerFires`, `ExchangeEnds`. The queue is a sequence of requests,
`calling` the requests whose callback is still to be called; `transfer` and
`exchange` are the two connections, with what the server answered, if it has;
`timer` says why `TNBSessionStart` is scheduled. The server is what one client
sees of it: it holds the session or does not (`live`), and its answers may be lost.
**ApiQueue** is what that queue promises those who use it, without session or
transfer: requests are asked (`Ask`), the head is answered (`Answer`), or all fail
together (`Fail`), and each of the three may ask for more. TNBClient extends it with the
machinery and implements it with the same two variables, `queue` and `calling`.

**DbProxy** is the community panes and the certificate they read, over ApiQueue. `use`
says what each request is for: the certificate, a mail poll, a tribe's change.
`certCb` is the one callback slot of `dbproxy.cs` (a pane, `NoPane` for the launch's
`TNBCertEnsure("")`, or `Nobody`), `certPending` the flag of `tnbrowser.cs`;
`checkingEmail`, `checkSchedule` and `cacheLoaded` are the fields of the mail pane and
`shown` the pane on display. `Select` is
`LaunchTabView::onSelect` with the wake it leads to, `CertLoaded` is `TNBCertLoaded`
with the callback in the slot, `QueueFails` is every outstanding callback with an
error. The panes are the game's own scripts: of `CheckEmail` and the shipped `onWake`
there is what the comments of `tnbrowser.cs` say, and `Canvas.getContent() $= %gui` is
taken to hold of the pane on display.

**Forum** is the forum requests over the pool of database connections, which
TribeTx can leave out because no tribe request holds more than one. A worker is at
a stage of its request (`pc`): some wait for a connection (`authenticate`, `begin`,
`gate`, `staff`, ...), some hold one (`Holding`), and an `UPDATE` also holds its row
from its own stage to the end. `EditPost` and `DeletePost` go through `author`,
`staff` if the caller is somebody else, `write` and `commit`; `PostTopic` through
`topic`, `touch` for a reply, `post` and `commit`; `SetTopicLocked`, `MoveTopic` and
`RemoveTopic` through the staff's `gate` and one `UPDATE`; what is reported to the
moderators is logged and no more. What a transaction writes reaches `topics` and
`posts` when it commits, while the id of a post is drawn when it is inserted, which
is what a pane that asks for `PostsSince` depends on. Staff are the members of
tribe 1401 with a rank above 1, rows of another table: `StaffChanges` adds and takes
away any of them between any two steps, as the tribe requests do, and `vetted` is history:
the workers whose caller has been staff at some moment since their request came in.

**Mail** is the requests of the mail pane. A worker goes through `authenticate`,
the `welcome` if it made the account, and the statements of its request; `draft`
holds what its transaction has inserted, the counts it has raised and so the block
rows it locks. `mail` is a set of rows, and ids are drawn when a row is inserted
and not when it is committed, which is what the pane's `mark` depends on. A poll
is one statement and one answer, and the pane has one poll at a time.

**ClanCert** is a player's client and the game servers they join. The client's
globals are variables of the same names (`cert`, `pending`, `asked`, whether the
renew and the drop timer are scheduled); a server's fields on `%client` are the
record `client[c]`, one for each connection, which is also how the server and its
id are known. A certificate is the record it was signed over (`"before"` or
`"after"` a change of tribes), and travels in two pieces and an end. `Verified` is
the point where the account certificate has been checked and `onConnect` runs with
a guid; `OnConnect`, `Resume` and `LateDone` are the ways it goes on from there.

**Sessions** is the server half of what TNBClient abstracts: the maps of
`auth/session.go` (`challenges` by account, `tokens`), each handler one step because
a mutex holds it together, and several machines that sign in. A client is what it
knows (`guid` cached, the `account` logged in, a `challenge`, a token in `uuid`) and
the request it waits for (`sent`); a request given up goes to `late` and may be
served at any time. A challenge encrypted to a key is a record that names the key,
and only a client logged in to that account reads it. `Answer` deletes the
challenge and draws a token, `Lookup` slides it, both sweep, `Restart` empties both
maps, `Tick` ages everything. `granted` is history: who earned each token, by which
challenge, in which run of the server.

**Deploy** is the migrations and the processes. A job is a process that migrates
(`build`, `stage`, the `file` it is at): it takes the advisory `lock`, looks up each
file, and commits a body with its record, or fails over the body and rolls back
(`"broken"`: an error in the file, a deadlock with what is served). `recorded` is `schema_migrations`,
`applied` the history of bodies committed. `Deploy`, `Start`, `Healthy` and their
failures are what the platform does with a build, `ByHand` an operator, and
`Interrupted` a migrator killed anywhere. **Site** is what a process shows its
visitors: the release, from a cache behind a mutex that is held across the call to
GitHub, and the directory page by page, with the arithmetic of `Page`, `Offset` and
`Pages`; rows join the listing (`Register`) and leave it when a tribe is disbanded
(`Unlist`), and a new name does both (`Covered`). **Server** composes the two: visitors come to the instance that serves,
and the cache and the visitors of an instance go with it.

**MCTribes**, **MCTribeTx**, **MCTribeVote**, **MCForum**, **MCMail**, **MCSessions** and **MCServer**
give TLC its instances. **TribesProofs**, **TribeTxProofs**, **TNBClientProofs**,
**ForumProofs**, **MailProofs**, **ClanCertProofs**, **SessionsProofs** and
**ServerProofs** hold the theorems.

Definitions keep the names of the code. Each module also holds, before the
definition it replaces, a few variants marked *Mutant*: the same definition with a
plausible bug, which must make a property fail. They are used by nothing else.

## Runs

| run | question | outcome |
|---|---|---|
| `Tribes_roster` | what may sequences of tribe requests do to tags, invitations, ranks and tribes | holds |
| `TribeTx_atomic` | do the statements, committed or interrupted anywhere, amount to the operations of Tribes | holds |
| `TribeTx_races` | what do row locks and row counts guarantee when two transactions overlap | holds |
| `TribeTx_tag` | does a tag prove membership when requests overlap | violated |
| `TNBClient_queue` | is every request served, once, by the answer meant for it, where connections end and challenges can be used | holds |
| `DbProxy_panes` | what do the callback slot and the mail poll keep when panes, polls and refreshes overlap and fail | holds |
| `Forum_rows` | whose posts and topics can overlapping, interrupted requests change while staff come and go, does a pane miss a post, and what can keep everybody waiting | holds |
| `Forum_wedged` | is whoever waits for a connection served | violated |
| `Mail_boxes` | do copies come together, hits count and the pane get every row once | holds |
| `ClanCert_tag` | who is given the certificate, and does the tag arrive without keeping anybody out | holds |
| `Sessions_tokens` | what does a token prove, and how long is it good | holds |
| `Server_deploy` | can a migration or a deployment leave the wrong schema under a server, and what do its visitors see | holds |

The properties:

* `TagIsEarned`: who wears a tag is a member of the standing tribe.
* `InvitesAreOutsiders`: no member holds an invitation to their own tribe, which
  after a kick would let them back in.
* `RankCeiling`: nobody is ever raised above the highest rank a tribe still has.
  A tribe that loses its last leader therefore never has one again, and is never
  disbanded; the code has no way out of that.
* `DisbandIsUnanimous`: a tribe is disbanded only when all of its leaders have
  authorised it. In TribeVote it is checked with votes cast and taken back while leaders
  leave, are demoted and promoted again, and three of them vote: the vote of a leader who
  has gone does not stand in for one who has not voted, which is what the join of votes
  and members in `clan.go:493` is for (the mutant counts votes without it). The one
  excuse is a count that was overtaken, by a promotion or a withdrawal committed after
  it and before the disbanding: then the code does go ahead without that leader.
* `OneAtATime`: one worker implements Tribes. This relates every store method,
  statement by statement, to the operation of Tribes, and is where an interrupted
  transaction would show.
* `DeadlockOnlyOverOneInvitation`: two workers wait for each other only when one
  accepts and the other admits the same warrior to the same tribe; all other
  methods lock in orders that agree.
* `OneFounder`: of several founders of a name one succeeds, whatever the `EXISTS`
  test told them.
* `AcceptConsumesInvitation`: an acceptance joins only on an invitation that
  stands until it commits.
* `AnswersTheHead`: the connection carries the head of the queue, so an answer is
  given to the request that was sent.
* `EveryRequestAnswered`: every request is called back in the end, provided that
  connections end and that challenges come to be usable. Both provisos are there
  because the code lacks the rest: see [Fairness](#fairness).
* `QueueSpec`: the transport is the queue of ApiQueue. What a callback asks for comes
  behind all that was outstanding when it was called, and a queue that fails has
  called every callback it had and keeps what they asked for.
* `SlotIsServed`: whoever is in the certificate's callback slot has a request
  outstanding that will call them, so that a failed request leaves nobody behind for a
  later answer to call.
* `MailGoesOn`: once the mail pane was opened, a poll is out or the timer is armed, and
  `checkingEmail` is set only while a poll is out, though polls overlap and any may fail.
* `OneSessionEvent`: never two negotiations, and never an established session with
  nothing to refresh it.
* `OnlyTheirOwn`: a post is changed by its author or by somebody who was staff at some
  moment while the request was served, a topic by the latter. The test is some statements
  before the write and staff may be demoted in between, so that is all there is to
  promise: having been staff before the request came, or becoming so after a refusal,
  earns nothing.
* `TopicsBeginWithAPost`: never a topic without its first post, nor a post without
  its topic.
* `StuckOnlyIfWedged`: some request can go on, or every connection is held by a
  request that asks `IsStaff` for another. Rows held by waiting transactions add no
  other way to get stuck: the row of a post is locked only after that question.
  `Ready` names what a stage waits for.
* `PanesMissNothing`: a post never shows up in a topic below one that is there, so a
  pane that asks above its last post is given them all. Ids are drawn before the
  commit, so it is the `UPDATE` of the topic's date that this hangs on: it holds the
  topic's row, and so the replies to one topic stand in line. Mail has no such row,
  and its pane does miss messages (`GivenOnce`).
* `SentTogether`: a message is in the sender's folder and in every box it was not
  turned away from, or nowhere.
* `HitsCounted`: a block's hits are the messages it turned away since it stands.
* `GivenOnce`: the pane gets no row twice, and misses only rows that were committed
  after one with a higher id. Those it does miss, for good: see below.
* `TwoStageDelete`: a message in a folder goes for good only by way of Deleted or by
  its owner's purge.
* `WelcomedOnce`: nobody is welcomed twice, though their first requests overlap.
* `OnlyToWhoAsked`: the certificate travels only to a server that asked for one,
  though the fetch may outlast the connection that asked; a stock server would not
  know the command.
* `NeverExpired`: the certificate held is dropped before it expires although every
  refresh fails.
* `ConnectsOnce`, `NobodyHeld`: a held connect goes on, and once. The timer is
  cancelled by whoever resumes first, so the latch `tnbResumed` is a second
  defence: the mutant takes both away.
* `NameShowsTag`: the name and the auth info agree about the tag, early or late.
* `TaggedInTheEnd`: who stays on a server with the mod gets the tag, whatever was
  lost of the first ask and the first transfer.
* `Reissued`: a certificate over the old record goes for good, though a fetch was
  under way when the tribes changed, or nobody told the client.
* `SpentOnce`: no challenge earns two tokens, though an answer is served after it was
  given up and sent again.
* `RecognisedAsProved`: a token is taken for an account only from the machine that
  answered a challenge with that account's key, in this run of the server, whatever
  account it caches, logged in as before or names in the request.
* `ActiveStaysIn`: who was recognised within the lifetime of a token is recognised
  again, whoever signs in and sweeps meanwhile.
* `SchemaIsRecorded`: a file's body is committed once, and recorded if and only if it
  was.
* `OnlyEditsFail`: apart from a body that fails of itself, a migrator fails over a file
  edited since it was applied and over nothing else: in particular not at its record,
  over one that another migrator made since it looked.
* `MigratedBeforeServing`: an instance runs only over a schema with every file of
  its build, as its build has it.
* `NeverOlder`: a process never names an older release than before, nor goes back to
  the fallback.
* `OneCall`: a process has one call to GitHub under way at most, and none while its
  answer is fresh, however many visitors come at once.
* `PagesCover`: who pages to the end of the directory sees everybody who was there at
  the beginning and stays, wherever others are added meanwhile, provided that no name
  before theirs is dropped or changed; nobody twice if nothing changes.

Proved and in no run, because the properties above imply them, or say more of the same:
the type invariant of every module; `NoRequestForgotten`, a request is in the queue
exactly once until its callback is called (`QueueSpec` does); `NobodyStranded`, a queue with
something in it has an event ahead of it (else `EveryRequestAnswered` would fail); and
`CursorFollowsQueue`, the hourglass.

## Bounds

* Tribes: one tribe, three warriors. Two tribes touch each other only through a
  warrior's one tag, and `clearTagIf` and the proofs, which are for any number of
  tribes, cover that. Three warriors are a leader, a second leader and a third who
  votes, is kicked, or is outside.
* TribeTx: one worker and two warriors on one tribe in `TribeTx_atomic`, with all
  sixteen operations; two workers in the others. Everything a worker does
  with another is through a row both touch; a cycle of more than two workers would
  need more than the one pair of rows that are ever locked in both orders. `Ops`
  names the operations of an instance and `Rosters` the starting tables.
  `TribeTx_races` has two stories, each with a tribe of its own and three warriors
  (`Stories`, `InStory`): in one, two warriors found, join, leave, kick and disband, from
  no tribe, a leader alone with the others invited, a leader and recruits, and two
  leaders; in the other a tribe has three leaders, all of whom vote, and one of them
  withdraws, leaves, or is demoted and promoted again. Three is what it takes for a
  departed leader's vote to make up for one who has not voted while a third disbands.
  What a request of one story touches none of the other's does, so a state that mixes
  them would show nothing new.
* TNBClient: three requests and three scheduled pumps. A fourth pump is idle like
  the third: a pump that finds the queue busy, waiting or empty does nothing more.
  One callback of an event asks for something more (`Chained`).
* DbProxy: three requests outstanding: a poll, a certificate and a tribe's change, or
  two of one kind, which is what it takes to lose a slot or to have polls overlap. An
  event asks for two requests at most, and none of the code's asks for more (`Chains`).
* Forum: two workers over two connections, so that both can ask for one more than
  they hold; with five of each the picture is the same, with fewer workers than
  connections nobody ever waits for one. One topic, two boards to move it between;
  three posts, the topic's first and two replies, the least with which one reply may
  overtake another; one post in `Forum_wedged`, which checks liveness. One warrior of two
  is staff at times (`Staff`), the other never. Two `CONSTRAINT`s: `OneChanged`, of the
  rows one at most is removed, deleted or rewritten by staff; no request reads those
  columns, so two changed rows behave like one. `StaffWhileAPost`, the membership changes
  only while one post is drawn and no second, at any step of any request of that time;
  the test and the write of an edit, and of a topic, then both have a row to be about.
* Mail: two workers, a warrior who sends and a new one who blocks, reads, deletes
  and answers (`Asked`). Three ids are drawn: a message to two and its Sent copy, or
  a welcome overtaken by a message. When they are used up requests can only fail.
* ClanCert: one server with the mod and one without, joined in either order, which
  is what a certificate sent to the wrong one needs. One change of tribes, for old
  and new. Two pieces, so that a transfer can be cut in half. `LateTries` is the
  code's 3; a server asks at most twice (`TypeOK`), so a client as shipped never
  uses them up. `age` has the three points where something happens to it.
* Sessions: two machines and two accounts, both ways of confusing them; two
  challenges and two tokens drawn, for a replay and for a token of before a restart;
  one request late, one restart, one change of account. A tick is longer than a
  client waits; a challenge lives none of them and a token one, so both expire.
* Server: three builds, one that adds a file and one that edits an old one; two files,
  a deployment's migrator and one by hand, two deployments and two instances, the old
  and the new. Two visitors, one to call and one to wait, and two releases, so that
  one can be older. Pages: up to three rows, a default of two and three at most, which
  are sizes below, at and above the number of rows; `PagesCover` looks at every way in
  which each of three names may be in some replies of a walk and not in others, and every
  size from 0 to past the maximum. A file's body fails or not at every visit.

## Fairness

* `TNBClient!EngineSpec`: what the engine does of itself. Weak fairness of the pump
  and of the timer, and strong fairness of the pump that sends: a grant schedules the
  pump 32 ms out and the keepalive ten minutes out, so of grant after grant the pump
  comes before the session lapses at last. Nothing is assumed of the server or of the
  connections. What `EveryRequestAnswered` needs of those it says itself, as premises of
  the property. `ConnectionsEnd`: a connection that never ends keeps its caller waiting,
  and `session.cs:203-208` describes how two of them can wedge one. `ChallengesUsable`:
  a challenge is unusable between two accounts (`session.cs:337-362`), and if they stay so
  nobody is called back. Without either premise, or without the strong fairness, TLC
  finds a request that waits for ever.
* `Forum!FairSpec`: strong fairness of each worker's step. A goroutine that can run
  is run; strong, because a row or a connection may be free and taken again in
  between, and PostgreSQL and the pool serve those who wait in turn. A client that
  hangs up (`Fault`) is not fair, and no timeout on the server does it for them.
* `ClanCert!FairSpec`: commands between client and server arrive while the player
  stays, timers fire, and of fetch after fetch one is signed and loaded (that a
  fetch is answered at all is `EveryRequestAnswered` of TNBClient, under its two premises). The drop timer
  and the passing of time are not fair, so nothing waits for a certificate to get
  old; players join, leave and change tribes as they like.

Nothing is assumed of players, of login, of restarts or of lost answers.

## Proofs

`TribesProofs`, for any finite set of warriors and any set of tribes: the
inductive invariant is `TypeOK /\ TagIsEarned /\ InvitesAreOutsiders /\
UnusedNames`. The last part says that a name nobody has used has no members, no
invitations and is nobody's tag. It is needed because founding a tribe makes its
founder a leader: without it an unfounded tribe might already have an invitation
for them. Each part has a lemma of its own with a step for every action.
`UnanimousDisband` is the argument about counts: if a finite set of voters among
the leaders is at least as large as the set of leaders, it is that set, by the
cardinality theorems. `CeilingOnlyFalls` goes through the actions that write
`rank`: only `SetRank` can raise anybody, and not above its caller.

`TribeTxProofs`, for any workers, any finite set of warriors and any tribes. A method
is a sequence of statements, so the first part is about those: `Change` lists the
writes each request may make, `Does` says of one statement which rows it locks and
which of those writes it adds, and that a method `Proceeds` is shown statement by
statement, sixteen times. From there on the argument forgets the methods. The
invariant is `Types /\ Exclusive /\ Held /\ Sure`. No row is locked by two workers
(`Exclusive`); what a worker has written, an earlier statement of its method writes, and
it is a change its request may make of the value that is still the committed one
(`Held`); a founder past the `INSERT` holds the name, and who accepts, past the
`DELETE`, the invitation (`Sure`). `OneFounder` and `AcceptConsumesInvitation` hang on
that last part, on the count of rows a statement changed and not on what was read
before. `Precedes` is the order in which
the methods lock: votes, then the tribe, then invitations and members, then accounts.
Three methods depart from it, over one invitation, and `DeadlockOnlyOverOneInvitation`
says which two can meet. `DisbandIsUnanimous` has an invariant on top (`Unanimous`),
over TribeVote and for all sixteen operations: of a disbanding that is not in `moved`, the
leaders are no more than were counted, and once it has decided each of them has a vote
that counts. A departure or a demotion only makes the leaders fewer, a vote stays when
its leader goes but no longer counts, and what could undo this, a promotion or a
withdrawal, is what puts a worker in `moved`. The theorem assumes nothing of the instance.

`OneWorkerImplements` is the refinement: one worker implements Tribes, for any
warriors and tribes. It supposes what its run does, a single worker and rosters
without members, since Tribes starts from an empty database. With nobody else to
commit, what a statement has found of the committed rows stays true until its own
transaction ends. `Found` says what that is, for each kind of statement: the row read
is in what the method accepts, and a row that matched is written. `Alone` is the
invariant that a request has found so much of every statement behind it (`Behind`),
knows its caller's rank as it is (`kick`), has put its new row in (`request`), and,
disbanding, has the leaders counted and goes on only if the votes are enough
(`Counted`). The seven days of an invitation may pass between two statements and take
none of that back. At the commit it all holds at once (`Settled`), the writes are
those of `Change`, and one lemma per method shows that the commit is the operation
of Tribes (`KickT`, `DisbandT`, ...), over the six variables of Tribes read off the
tables (`RankT`, `VoteT`, ...). An `INSERT` of an invitation that meets a row already
there commits nothing and is a stuttering step. With it,
what `TribesProofs` proves of Tribes holds of a server of one request at a time, in
particular that a tag is earned; that it fails in the run `TribeTx_tag` is the doing
of two requests at once.

`TNBClientProofs`, for any set of requests and any number of pumps: the invariant
joins the type, the match of `busy`, `transfer` and the head of the queue, the
hourglass, the session's one event, and the facts that tie a waiter to
`awaiting`, and each step is split into the sub-actions of the code
(`SessionStart`, `SessionFail`, `FailAll`, `Understood`), with a lemma per
sub-action, because the same function runs under several events.

`ImplementsQueue` is the refinement: under that invariant every event of engine and
server is an `Ask`, an `Answer` to the head, a `Fail` or a stuttering step of ApiQueue. An
answer needs `AnswersTheHead`, and a session that fails needs to know that a waiter's
queue is not being answered at the same time. `PromiseKept` then shows of ApiQueue alone that a
request is in the queue once until it is called (`Orderly`), which is
`NobodyIsForgotten` of TNBClient and what DbProxy starts from. `SlotServed` and
`MailNeverStops` are one invariant, `ProxyInv`: which uses are outstanding (`Outstanding`)
is all that the steps of DbProxy need of the queue, and `AsksUses` and `AnswersUses`
say what an event does to it.

`ForumProofs`, for any number of workers, connections, topics and posts: the
invariant says what each stage of a request may rely on (`Sound`), and that no two
transactions have drawn the same id (`Apart`). `OnlyTheirOwn` follows because what
`Sound` says at the test is still true at the write: no row is ever removed, no
post changes its author, and a worker past the test whose caller is not the author is in
`vetted` and stays there till it ends, whatever becomes of the membership (`Vetting`). Two lemmas carry most of it, one for steps that write
nothing (`Quiet`) and one for those that write as they end (`Closing`);
`PoolBound` counts the connections. For `PanesMissNothing`, `Sound` also says that a
post about to be committed has an id above all of its topic, and `Apart` that of two
replies to a topic only one has passed `touch`. `OnlyIsStaffWedges` follows the waits: who
holds a connection and does not ask for a second waits for a row at most; whoever has that
row is at `post` or `commit` and waits for nothing; and if all holders ask for a
second connection, either one is spare or the pool is wedged.

`MailProofs`, for any number of workers, warriors, ids and any set of requests: a
step has one of four effects on the rows of mail (none, a commit of a draft, a change of
folder, a purge), and each part of the invariant is carried through those four.
`Sends` ties a draft to its message: its copies, the recipients it has turned away and
the recipients still to come are those of the request, whose `SentTogether` then is the
commit. `Counting` says that the hit a draft has counted is on a block row that stays
locked until it ends, which is what `HitsCounted` needs of two senders to one block.
`Panes` says that nothing above a pane's mark was given to it, so no row comes twice;
what a pane missed has an id below. `WelcomeOK` says that of the workers at their first
sight of a warrior one holds the new account, and `FoundDeleted` that a row read as
deleted is not put back before the second delete, which with the action's own guard is
`TwoStageDelete`.

`ClanCertProofs`, for any connections and any number of tries: what is in a channel
was sent to a server that had asked (`AskedFirst`), though a fetch outlasts the
connection it was for (`LinkOK`); the drop timer is set whenever a certificate with
less than its life to go is held (`Dated`); a connect is on hold only with its timer
running and without having gone on (`Connecting`); and what is shown of the tag is what
the certificate of `Named` says. Every step is one connection's or one timer's, and
leaves what is said of the others alone.

`SessionsProofs`, for any accounts, machines and limits: the server's part of the
invariant says that an outstanding challenge is younger than every one spent
(`Outstanding`, `Earnings`), so that no answer finds a challenge that earned
something already. The clients' part says of every challenge value known or under
way whose key it was encrypted to (`Keyed`) and of every token who earned it
(`Earned`). What is said of the clients stays true while values are only added
(`Later`), and each handler is an instance of `AnswersKeep`. For
`ActiveStaysIn` a second invariant, `Active`, says that a client's token ages no faster
than the client has been quiet, that no token is of a run to come, and that what
it asks with is the token it holds (`Waits`); a sweep takes only tokens past their life.

`ServerProofs`, for any builds, files, jobs, instances and visitors: the invariant
says that a job past `lock` holds it (`Reached`), so that there is one, and that the
files before the one it is at are recorded as its build has them (`Recorded`). No
record is ever changed or taken back (`Keeps`), and so what a finished job has
established, the instance that starts after it may rely on (`Serves`). Of Site, the
one asking is the one holding the mutex, and `shown` is never above what is cached.

`DirectoryIsCovered` is about the arithmetic of a walk, for directories and pages of any
size. A row's place in a listing (`Rank`) decides its page, it is only pushed
back while all the rows before it stay (`RankGrows`), and every place up to its own is taken
(`RowOfRank`). A page that ends before the row is therefore full and its reply counts
further pages (`PageBelow`), so the walk goes on; the first page whose end is not before the
row's place has it (`WalkFinds`). Nothing changing, the places stay and no two pages share
one (`WalkMeetsOnce`).

Assumed of the constants: the warriors are finitely many, `NoTribe` is not a
tribe, `Unwritten` and `NoRequest` of TribeTx are no value of a row and no request, its
`Ops` are some of the sixteen and its `Rosters` tables of ranks, the requests `Asked`
of Mail are requests, a pump may be scheduled, `"nothing"` is not a request; the workers of Forum
are finitely many, it has a connection, its staff are warriors, and the values that
stand for no row, no id and no request are none of the others, and ids of posts are
numbers; in Sessions and Server the limits are numbers, a page has a row, the
platform's job is one of the jobs, the processes with a cache are the instances, and
the values for nobody and nothing are none of the others.

Only model-checked: all liveness, which the proof system does not do, and the two runs
that end in a counterexample.

## What the models say about the code

Two runs end in a counterexample; each refutes a sentence of the repository.

1. `TribeTx_tag`. `SetActiveClan` reads the rank, then updates the account
   (`user.go:166-175`). A kick that commits between the two has already cleared the
   tag when the update puts it on. `user.go:164`: "Wearing a tag requires
   membership". The tag stays until the warrior changes it.
2. `Forum_wedged`. `EditPost` and `DeletePost` ask `IsStaff` of the pool while they
   hold a connection of it (`content.go:302`, `:331`, `won.go:786`). As many such
   requests at once as there are connections, five in production
   (`.do/app.yaml:62`), hold them all and wait for each other, and nothing on the
   server ends the wait. `concurrency_test.go:25`: "the pool has to queue rather
   than fail".

Other things met while modelling, which no run is about:

* An unusable challenge is dropped and the negotiation starts again without the waiters
  being failed (`session.cs:359`); and since each challenge resets the error count
  there is no backoff. As long as challenges stay unusable no queued request is called
  back, though `api.cs:170` has "A failure here fails every queued request rather than
  leaving them stuck". TLC confirms it: without its premise `ChallengesUsable`,
  `EveryRequestAnswered` is violated by a request that waits while one unusable challenge
  follows another.
* `OpenLaunchTabs` asks for the certificate for nobody (`tnbrowser.cs:104`) before it
  opens a pane, whose own `TNBCertEnsure` then finds one pending (`:248`). When the
  certificate lands nobody is woken, and a browser opened at launch shows no name until
  it is opened again, against "re-wake the pane once it lands" (`:222`).
* A change of tribes refreshes the certificate without a callback (`tnbrowser.cs:79`,
  `dbproxy.cs:228`) and so takes the slot of a request that is pending; nobody takes
  `$TNB::CertPending` back. If the requests then fail, no pane that is opened asks for a
  certificate again, against "The identity is now fetched when a pane is actually
  opened" (`:200`).
* `Disband` inserts its vote and counts (`clan.go:481-500`). Two last leaders at once
  each miss the other's vote, and the tribe stands though "It disbands once every
  leader has authorised it" (`browser.go:345`). Any leader authorising again
  disbands it.
* `TNBCertEnsureDone` wakes "The browser only" (`tnbrowser.cs:269`), but `onSelect`
  registers the mail pane as well, and if it is on display when the certificate
  lands it is woken and polls once more.
* A keepalive defers to the queue, but a request enqueued while the keepalive is on
  its way is sent at once: "Never two transfers at once" (`session.cs:198`) does not
  hold of the two layers together.
* Behind a failing upstream every caller of `release.Get` makes a call of its own, one
  after another and up to five seconds each, until one succeeds: "and never again"
  (`release.go:149`) is meant of the burst, and only a success ends it.
* A page past the end of the directory has no row to carry the count, and reports a
  total of none (`directory.go:57-96`). A walk never asks for one.
* `SetClanTag` writes tag and append together after reading one of them
  (`browser.go:405`): of two edits at once, one is undone.
* `AdmitRequester` does not test that its `DELETE` removed a row, so a request
  withdrawn after it was read is admitted (`won.go:715-744`). For the same reason
  a member may end up with an invitation when an invitation is sent while they
  are being admitted: `InvitesAreOutsiders` is a property of requests that run alone.
* A leader promoted, or a vote withdrawn, between the count and the disbanding is
  not noticed (`clan.go:487-509`): the tribe goes without that leader's authorisation.
  `TribeVote!DisbandIsUnanimous` names this case, `moved`, and has no other. A vote left by a leader who was demoted counts when they are
  promoted again.
* `Kick` and `SetRank` compare ranks read in earlier statements (`clan.go:428-442`):
  a member promoted meanwhile is kicked all the same.
* The sole member of a tribe who disbands it is told that the authorisation was
  recorded (`browser.go:341`).
* A session that lapses while a keepalive is under way leaves the queue's waiter
  to the keepalive's answer or the ten-minute timer (`session.cs:190`).
* `PROTOCOL.md:177` has the client negotiate and retry when a session has expired;
  `api.cs:341` answers the caller with an error and only the next request
  negotiates.
* A reply that read its topic before the topic was locked is committed after it
  (`content.go:266-288`), and a reply to a removed topic is accepted.
* A message whose id was drawn before, and committed after, another one of the same
  inbox is never handed over to a pane that polled between: `won.go:498` asks for
  ids above the mark. `WON_PROTOCOL.md:577` has the argument mean "messages newer
  than this". `GivenOnce` says that nothing else is missed.
* Who is demoted in tribe 1401, or kicked from it, between the test of `content.go:301`
  (`:330`, `:349`; `won.go:786`) and the write still writes: the test is a statement of
  its own, on another connection, and locks nothing.
* A tribe disbanded (`directory.go:120`) or a warrior who comes with a new name
  (`store.go:215`) between two replies moves the rows behind it one place forward, and the
  row that crosses a page's edge is on none the walk asks for. `PagesCover` says that
  this takes a row before theirs.
* The fallback is older than any release, also when the configuration names a tag for it
  (`release.go:231`): before the first success a process may so name the configured
  release, and after it, until it starts again, never does.
* A message to somebody who lifts their block between the test and the count
  (`mail.go:86-102`) reaches nobody and is counted nowhere.
* `removeTopic` logs the admin action before anybody asks whether the caller is
  staff (`forums.go:185`).

## What is not modelled

* Text: names, titles, descriptions, histories, the wording of answers. `SetClanInfo`,
  `SetClanPicture` and `SetClanTag` store text behind the same gates.
* PostgreSQL itself. In TribeTx the locks of foreign keys are left out (they
  conflict with nothing here), and a row deleted and inserted again while somebody
  waits for it is seen as the new row, where PostgreSQL gives the waiter none.
* The lists of boards and topics. News, links and the message of the day: one
  statement each, behind the staff test that Forum models for topics, and nothing
  reads them to write.
* The mail that tells of a tribe request after it has committed (`notify`), which by
  intention fails without a trace.
* The unread flag, the buddy list, and the list of the Deleted folder. The mail with
  an invitation's links, in a transaction after the invitation's: Tribes and Mail are
  checked apart, and the two together are out of TLC's reach at useful bounds.
* The delays of the client's timers, raw endpoints (they share the queue), and
  `TNBSessionEnd`, which only the suites call.
* Of clan certificates: the keys, the signature and the server's own test of the
  expiry (the client drops its certificate with a tenth of its life to go, and a
  transfer takes less), the cap on the buffer, which a certificate of this service
  never reaches, records without a tribe, and local connections. A shutdown of the
  client between two sessions is the initial state.
* `-dev-trust-guid`, the bypass for tests.
* Of the migrations, a database that was migrated by hand before there was a
  `schema_migrations`, a build without files, and what the files contain. Of the
  release, its assets.
* Of the client's proxy `dbproxy.cs`, how status and rows are put together for the
  shipped handlers, the record of the certificate, the cache path, and
  `TNBDbQueryCancel`, which nothing calls; of the glue, which tabs are active and
  `WONGetAuthInfo`, which only reads. Queries whose answers change nothing in the glue are
  left out of DbProxy; in TNBClient's queue they are requests like others. The JSON
  parser: sequential, over text.
* The parts marked `not_modelled` in `PROJECT.json`, with the reasons there.

## Plan

Done: Tribes and TribeTx with their refinement; TNBClient and the queue it implements;
DbProxy over that queue; Forum; Mail; ClanCert; Sessions; Deploy, Site and Server;
theorems of all of them, for every safety property and action property that holds in a
run, and of both refinements.

Left: an invitation with its mail, and `RequestInvite`'s seven days when the mail fails.
It takes Tribes and Mail over one failure, which is more than TLC checks at bounds where
anything happens; `won.go:564` says what is lost with the mail, and the hazard is
listed in `PROJECT.json`.
