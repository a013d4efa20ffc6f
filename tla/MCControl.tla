----------------------------- MODULE MCControl -----------------------------
(***************************************************************************)
(* The control of the program: the commands that start, stop and replace   *)
(* Supervisors, the account monitor of a Supervisor, and the tabs of its   *)
(* web UI.  A behaviour is one of exactly one of them, chosen at the start.*)
(***************************************************************************)
EXTENDS TLC

CONSTANTS Clients, MaxSupervisors, MaxCommands, LifecycleFaults, MaxCrashes,
          MaxChildren, MaxAccounts, MaxRefreshes, MaxNotices, MonitorFaults,
          Tabs, Lifetime, MaxTime, MaxSessions, MaxChanges, MaxReads, ConsoleFaults

VARIABLES part,
          supervisors, state, claim, removals, package, commands, crossed, mixed, spent,
          monitor, refresh, children, account, overtaken, done,
          sessions, cookie, tabs, requests, version, clock, issued, used

Lifecycle == INSTANCE SupervisorLifecycle WITH MaxFaults <- LifecycleFaults
Monitor == INSTANCE AccountMonitor WITH MaxFaults <- MonitorFaults, MaxChanges <- MaxAccounts
Ui == INSTANCE Console WITH MaxFaults <- ConsoleFaults, spent <- used

ASSUME ClientsAssumption == Lifecycle!ClientsApart
ASSUME ChildrenAssumption == Monitor!ChildrenFit

lifecycleVars == <<supervisors, state, claim, removals, package, commands, crossed, mixed, spent>>
monitorVars == <<monitor, refresh, children, account, overtaken, done>>
uiVars == <<sessions, cookie, tabs, requests, version, clock, issued, used>>
vars == <<part, lifecycleVars, monitorVars, uiVars>>

\* A program that is not the one of the behaviour is in one state for good.
Off == "off"
LifecycleOff ==
  /\ supervisors = Off /\ state = Off /\ claim = Off /\ removals = Off /\ package = Off
  /\ commands = Off /\ crossed = Off /\ mixed = Off /\ spent = Off
MonitorOff ==
  /\ monitor = Off /\ refresh = Off /\ children = Off /\ account = Off
  /\ overtaken = Off /\ done = Off
UiOff ==
  /\ sessions = Off /\ cookie = Off /\ tabs = Off /\ requests = Off /\ version = Off
  /\ clock = Off /\ issued = Off /\ used = Off

Init ==
  \/ part = "lifecycle" /\ Lifecycle!Init /\ MonitorOff /\ UiOff
  \/ part = "monitor" /\ Monitor!Init /\ LifecycleOff /\ UiOff
  \/ part = "ui" /\ Ui!Init /\ LifecycleOff /\ MonitorOff

Next ==
  /\ UNCHANGED part
  /\ \/ part = "lifecycle" /\ Lifecycle!Next /\ UNCHANGED <<monitorVars, uiVars>>
     \/ part = "monitor" /\ Monitor!Next /\ UNCHANGED <<lifecycleVars, uiVars>>
     \/ part = "ui" /\ Ui!Next /\ UNCHANGED <<lifecycleVars, monitorVars>>

Spec == Init /\ [][Next]_vars

------------------------
(* The properties of the three. *)

\* supervisor.json names the Supervisor that serves.
RunningIsNamed == part = "lifecycle" => Lifecycle!RunningIsNamed

\* The version an update reports is the one that runs.
UpdateKeepsItsWord == part = "lifecycle" => Lifecycle!UpdateKeepsItsWord

\* The account that routing goes by is the one Codex has.
QuietIsTrue == part = "monitor" => Monitor!QuietIsTrue

\* No app-server is forgotten alive.
ForgottenIsEnded == part = "monitor" => Monitor!ForgottenIsEnded

\* A tab shows at least what it has changed itself.
ReadsOwnChanges == part = "ui" => Ui!ReadsOwnChanges

ControlSymmetry == Permutations(Clients) \cup Permutations(Tabs)
=============================================================================
