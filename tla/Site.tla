-------------------------------- MODULE Site --------------------------------
(***************************************************************************)
(* What the website reads: the newest release, from a cache each process   *)
(* keeps (release/release.go), and the directory, page by page             *)
(* (store/directory.go and api/site.go).                                   *)
(*                                                                         *)
(* A visitor's request holds the cache's mutex across the call to GitHub,  *)
(* so the others queue behind it, each to look at the cache again.         *)
(* Releases are numbered as they are published; 0 is the fallback, whether *)
(* or not the configuration names a release for it.  Visitors who leave    *)
(* are those whose call fails.                                             *)
(*                                                                         *)
(* A listing is a set of rows, numbered in the order of ORDER BY.          *)
(***************************************************************************)
EXTENDS Naturals, FiniteSets

CONSTANTS
  Process,      \* processes, each with a cache of its own
  Visitor,
  MaxReleases,  \* bound: releases published
  DefaultSize,  \* rows on a page when none are asked for: 25
  MaxPageSize,  \* rows on a page at most: 100
  MaxRows       \* bound: rows of the listings that are compared

ASSUME SizesAssumption ==
  /\ DefaultSize \in Nat \ {0} /\ MaxPageSize \in Nat \ {0} /\ DefaultSize <= MaxPageSize
  /\ MaxReleases \in Nat /\ MaxRows \in Nat

VARIABLES
  published,  \* the newest release GitHub has
  cache,      \* Cache.last, and whether it was fetched within the TTL; valid unless 0
  shown,      \* history: the release each process named last
  visitor,    \* where each visitor is, and at which process
  listed      \* rows in the directory

siteVars == <<published, cache, shown, visitor, listed>>

(* The permanent links, or a release named by the configuration. *)
Fallback == 0

NoCache == [last |-> Fallback, fresh |-> FALSE]
Away    == [at |-> "nowhere", stage |-> "away"]

SiteInit ==
  /\ published = 0
  /\ cache = [s \in Process |-> NoCache]
  /\ shown = [s \in Process |-> Fallback]
  /\ visitor = [v \in Visitor |-> Away]
  /\ listed = 0

Asking(s) == {v \in Visitor : visitor[v] = [at |-> s, stage |-> "asking"]}

Publish ==
  /\ published < MaxReleases
  /\ published' = published + 1
  /\ UNCHANGED <<cache, shown, visitor, listed>>

(* The ten minutes of DefaultTTL pass. *)
GoStale ==
  /\ \E s \in Process : cache[s].fresh /\ cache' = [cache EXCEPT ![s].fresh = FALSE]
  /\ UNCHANGED <<published, shown, visitor, listed>>

Visit(v, s) ==
  /\ visitor[v] = Away
  /\ visitor' = [visitor EXCEPT ![v] = [at |-> s, stage |-> "waiting"]]
  /\ UNCHANGED <<published, cache, shown, listed>>

Told(v, s, release) ==
  /\ shown' = [shown EXCEPT ![s] = release]
  /\ visitor' = [visitor EXCEPT ![v] = Away]

(* Mutant of Get: the call is made without the mutex. *)
GetUnlocked(v, s) ==
  /\ visitor[v] = [at |-> s, stage |-> "waiting"]
  /\ \/ cache[s].fresh /\ Told(v, s, cache[s].last)
     \/ ~cache[s].fresh /\ visitor' = [visitor EXCEPT ![v].stage = "asking"] /\ UNCHANGED shown
  /\ UNCHANGED <<published, cache, listed>>

(* Get, once the mutex is free: a fresh answer, or a call. *)
Get(v, s) ==
  /\ visitor[v] = [at |-> s, stage |-> "waiting"] /\ Asking(s) = {}
  /\ \/ cache[s].fresh /\ Told(v, s, cache[s].last)
     \/ ~cache[s].fresh /\ visitor' = [visitor EXCEPT ![v].stage = "asking"] /\ UNCHANGED shown
  /\ UNCHANGED <<published, cache, listed>>

(* fetch: GitHub names the newest release, if there is one. *)
Fetched(v, s) ==
  /\ visitor[v] = [at |-> s, stage |-> "asking"] /\ published > 0
  /\ cache' = [cache EXCEPT ![s] = [last |-> published, fresh |-> TRUE]]
  /\ Told(v, s, published)
  /\ UNCHANGED <<published, listed>>

(* Mutant of FetchFails: the fallback, whatever was known. *)
FetchFailsBlankly(v, s) ==
  /\ visitor[v] = [at |-> s, stage |-> "asking"]
  /\ Told(v, s, Fallback)
  /\ UNCHANGED <<published, cache, listed>>

(* It does not answer in five seconds, or not with archives, or the visitor *)
(* has left: the last good answer however old, or the fallback.             *)
FetchFails(v, s) ==
  /\ visitor[v] = [at |-> s, stage |-> "asking"]
  /\ Told(v, s, cache[s].last)
  /\ UNCHANGED <<published, cache, listed>>

Browse == \E v \in Visitor, s \in Process : Get(v, s) \/ Fetched(v, s) \/ FetchFails(v, s)

(* A new process, or none any more: its cache and its visitors are gone. *)
Reset(s) ==
  /\ cache' = [cache EXCEPT ![s] = NoCache]
  /\ shown' = [shown EXCEPT ![s] = Fallback]
  /\ visitor' = [v \in Visitor |-> IF visitor[v].at = s THEN Away ELSE visitor[v]]
  /\ UNCHANGED <<published, listed>>

(* An account is made, or a tribe: the listing has a row more. *)
Register ==
  /\ listed < MaxRows
  /\ listed' = listed + 1
  /\ UNCHANGED <<published, cache, shown, visitor>>

(* A tribe is disbanded, and the listing of tribes has only active ones. *)
Unlist ==
  /\ listed > 0
  /\ listed' = listed - 1
  /\ UNCHANGED <<published, cache, shown, visitor>>

-----------------------------------------------------------------------------
(* Page: the size asked for within its bounds, and the rows before it. *)
Limit(size) ==
  IF size <= 0 THEN DefaultSize ELSE IF size > MaxPageSize THEN MaxPageSize ELSE size
Number(number) == IF number < 1 THEN 1 ELSE number
Offset(size, number) == (Number(number) - 1) * Limit(size)

(* Mutant of Pages: rounded down. *)
PagesWhole(total, limit) == total \div limit

Pages(total, limit) ==
  IF total <= 0 \/ limit <= 0 THEN 0 ELSE (total + limit - 1) \div limit

(* Warriors and Tribes: LIMIT and OFFSET, with COUNT OVER beside each row,  *)
(* so that a page without rows has a total of none.                         *)
Listed(rows, limit, offset) ==
  {r \in rows : LET rank == Cardinality({x \in rows : x <= r})
                IN offset < rank /\ rank <= offset + limit}

(* handleWarriors and handleTribes: the envelope. *)
Page(rows, size, number) ==
  LET items == Listed(rows, Limit(size), Offset(size, number))
      total == IF items = {} THEN 0 ELSE Cardinality(rows)
  IN [items |-> items, page |-> Number(number), pages |-> Pages(total, Limit(size))]

-----------------------------------------------------------------------------
(* The cache and the visitors keep their types. *)
SiteTypeOK ==
  /\ published \in 0 .. MaxReleases
  /\ cache \in [Process -> [last : 0 .. MaxReleases, fresh : BOOLEAN]]
  /\ shown \in [Process -> 0 .. MaxReleases] /\ listed \in 0 .. MaxRows
  /\ visitor \in [Visitor -> [at : Process, stage : {"waiting", "asking"}] \cup {Away}]

(* However many visitors come at once, a process calls GitHub for one of     *)
(* them at a time, and not while it has an answer fresh enough to give       *)
(* (release.go:144-149).                                                     *)
OneCall ==
  \A s \in Process : Cardinality(Asking(s)) <= IF cache[s].fresh THEN 0 ELSE 1

(* A process that named a release never names an older one after it, nor     *)
(* goes back to the fallback, whatever fails (release.go:131-135).           *)
NeverOlder ==
  [][\A s \in Process : shown'[s] < shown[s] => cache'[s] = NoCache]_siteVars

(* The sizes of a directory that a walk covers, from the first page as far   *)
(* as the last reply says it goes.  there[r] is the replies by which the r-th *)
(* of all names is listed: a row comes, goes or, by a new name, does both.    *)
Covered ==
  {rows \in 0 .. MaxRows :
    \A there \in [1 .. MaxRows -> SUBSET (1 .. MaxRows + 1)], size \in 0 .. MaxPageSize + 1 :
      LET Rows(n)  == {r \in 1 .. MaxRows : n \in there[r]}
          Reply(n) == Page(Rows(n), size, n)
          Walk     == {n \in 1 .. MaxRows + 1 : \A m \in 1 .. n - 1 : Reply(m).pages > m}
          Stays(r) == \A n \in 1 .. MaxRows : n \in there[r] => n + 1 \in there[r]
      IN Cardinality(Rows(1)) = rows =>
           /\ \A r \in Rows(1) : (\A x \in 1 .. r : Stays(x)) => \E n \in Walk : r \in Reply(n).items
           /\ (\A n \in 2 .. MaxRows : Rows(n) = Rows(1)) =>
                \A m, n \in Walk : m # n => Reply(m).items \cap Reply(n).items = {}}

(* Who pages through the directory to its end sees everybody who was in it   *)
(* when they began and stays, whoever is added meanwhile, provided that no    *)
(* name before theirs is dropped or changed; and, when nothing changes, sees  *)
(* nobody twice (directory.go:50-52, api/site.go).                            *)
PagesCover == listed \in Covered
=============================================================================
