------------------------------- MODULE Server -------------------------------
(***************************************************************************)
(* The processes of Deploy with the website of Site in them: visitors go   *)
(* to the instance that serves, one told to stop finishes with those it    *)
(* has, and what a process had cached goes with it.                        *)
(***************************************************************************)
EXTENDS Deploy, Site

(* The processes with a cache are those that serve. *)
ASSUME ProcessAssumption == Process = Instance

vars == <<deployVars, siteVars>>

Init == DeployInit /\ SiteInit

Stops(i) == Exit(i) /\ Reset(i)

(* An instance dies and the platform starts it again, unless it was on its  *)
(* way out.                                                                 *)
Crash(i) ==
  /\ instance[i].stage = "serving"
  /\ Reset(i)
  /\ UNCHANGED deployVars

Next ==
  \/ (Migration \/ Rollout) /\ UNCHANGED siteVars
  \/ (Publish \/ GoStale \/ Browse) /\ UNCHANGED deployVars
  \/ \E v \in Visitor, i \in Instance :
       instance[i].stage = "serving" /\ (Visit(v, i) \/ Register \/ Unlist) /\ UNCHANGED deployVars
  \/ \E i \in Instance : Stops(i) \/ Crash(i)

Spec == Init /\ [][Next]_vars
=============================================================================
