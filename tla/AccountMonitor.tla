--------------------------- MODULE AccountMonitor ---------------------------
(***************************************************************************)
(* The AccountMonitor (account-monitor.mjs): it keeps a "codex app-server" *)
(* child, asks it for the account and its limits, and takes the updates    *)
(* that the child announces between the answers.                           *)
(*                                                                         *)
(* Whose the account is, is a version: it grows when the user logs in as   *)
(* another one; odd ones are backed by ChatGPT and have limits.  Limits    *)
(* are known by the account they belong to.  Everything a line or an event *)
(* sets off runs before the next event, except that one chunk can hold     *)
(* lines behind an answer: those are read before the refresh goes on.      *)
(***************************************************************************)
EXTENDS Naturals, Sequences

CONSTANTS
  MaxChildren,   \* bound: app-server processes
  MaxChanges,    \* bound: changes of the account
  MaxRefreshes,  \* bound: refreshes, by the timer, the Supervisor and the UI
  MaxNotices,    \* bound: announcements of limits
  MaxFaults      \* bound: timeouts, exits, lines that are no JSON, pipes that break

VARIABLES
  monitor,       \* #child, #closed and the public state
  refresh,       \* the refresh under way and the request it waits for
  children,      \* the processes, their requests and their output
  account,       \* whose account Codex has
  overtaken,     \* an account was announced after a refresh had read the one before
  done           \* what of the bounds is used up

monitorVars == <<monitor, refresh, children, account, overtaken, done>>

None == 0
Children == 1..MaxChildren
ChildrenFit == MaxChildren \in Nat
Backed(version) == version % 2 = 1

Unborn == [phase |-> "unborn", ended |-> FALSE, kill |-> FALSE, broken |-> FALSE,
           requests |-> <<>>, lines |-> <<>>]
Initial == [child |-> None, closed |-> FALSE, phase |-> "idle", account |-> None, quota |-> None]
NoRefresh == [at |-> "none", id |-> 0, child |-> None, read |-> None, result |-> [kind |-> "waiting"]]

Live(c) == c # None /\ children[c].phase = "live"
Waiting == refresh.at # "none" /\ refresh.result.kind = "waiting"
Settled == refresh.at = "none" \/ Waiting

Use(bound, max) == done[bound] < max /\ done' = [done EXCEPT ![bound] = @ + 1]
Fault == Use("faults", MaxFaults)
NoFault == UNCHANGED done

\* What a child writes.
Line(kind, id, value) == [kind |-> kind, id |-> id, value |-> value]
Failed(r) == [r EXCEPT !.result = [kind |-> "failed"]]
RejectPending(r) == IF r.at # "none" /\ r.result.kind = "waiting" THEN Failed(r) ELSE r

\* Mutant of Retired: nothing is sent to the child.
MutantRetired(kids, c) == kids

\* retireChild: SIGTERM, and SIGKILL when the time is up.
Retired(kids, c) ==
  IF c # None /\ kids[c].phase = "live" THEN [kids EXCEPT ![c].ended = TRUE, ![c].kill = TRUE] ELSE kids

------------------------
(* Requests. *)

\* A request to a child that is gone, or whose input is, fails at once.
Request(r, m, kids, at) ==
  LET id == r.id + 1
      next == [r EXCEPT !.at = at, !.id = id, !.result = [kind |-> "waiting"]]
      open == m.child # None /\ kids[m.child].phase = "live" /\ ~kids[m.child].broken
  IN
  /\ refresh' = (IF open THEN next ELSE Failed(next))
  /\ children' = (IF open THEN [kids EXCEPT ![m.child].requests = Append(@, <<id, at>>)] ELSE kids)

\* The first refresh, and one after a failure, starts a child.
Refresh ==
  /\ ~monitor.closed /\ refresh.at = "none"
  /\ Use("refreshes", MaxRefreshes)
  /\ overtaken' = FALSE
  /\ IF monitor.child # None /\ monitor.phase # "unavailable"
     THEN Request(refresh, monitor, children, "account") /\ UNCHANGED monitor
     ELSE \E c \in Children :
            /\ children[c].phase = "unborn" /\ \A d \in 1..(c - 1) : children[d].phase # "unborn"
            /\ monitor' = [monitor EXCEPT !.child = c, !.phase = "starting"]
            /\ Request([refresh EXCEPT !.child = c], monitor',
                       [children EXCEPT ![c].phase = "live"], "initialize")
  /\ UNCHANGED account

\* The end of a refresh that failed: the child of the moment is let go.
GiveUp(kids, m) ==
  /\ monitor' = [m EXCEPT !.child = None, !.phase = "unavailable", !.quota = None]
  /\ children' = Retired(kids, m.child)
  /\ refresh' = [NoRefresh EXCEPT !.id = refresh.id]

Ready(version, quota) ==
  /\ monitor' = [monitor EXCEPT !.phase = "ready", !.account = version, !.quota = quota]
  /\ refresh' = [NoRefresh EXCEPT !.id = refresh.id]
  /\ UNCHANGED children

\* performStart: its child is retired, also when it is not the monitor's any more.
Initialized ==
  LET failed == refresh.result.kind = "failed"
      m == [monitor EXCEPT !.child = IF @ = refresh.child THEN None ELSE @, !.account = None]
      notified == Live(monitor.child) /\ ~children[monitor.child].broken
  IN
  /\ refresh.at = "initialize"
  /\ IF failed \/ ~notified
     THEN GiveUp(Retired(children, refresh.child), m)
     ELSE /\ monitor' = [monitor EXCEPT !.phase = "ready"]
          /\ Request(refresh, monitor, children, "account")

\* What is no account reads as one without a mode.
Normalized(result) == IF result.kind = "account" THEN result.value ELSE None

AccountRead ==
  LET version == Normalized(refresh.result) IN
  /\ refresh.at = "account"
  /\ \/ refresh.result.kind = "failed" /\ GiveUp(children, monitor)
     \/ /\ refresh.result.kind # "failed" /\ Backed(version)
        /\ Request([refresh EXCEPT !.read = version], monitor, children, "limits")
        /\ UNCHANGED monitor
     \/ refresh.result.kind # "failed" /\ ~Backed(version) /\ Ready(version, None)

\* Without limits the account still counts as read.
LimitsRead ==
  /\ refresh.at = "limits"
  /\ Ready(refresh.read, IF refresh.result.kind = "limits" THEN refresh.result.value ELSE None)

Closed ==
  /\ refresh' = [NoRefresh EXCEPT !.id = refresh.id]
  /\ children' = (IF refresh.at = "initialize" THEN Retired(children, refresh.child) ELSE children)
  /\ UNCHANGED monitor

Continue ==
  /\ refresh.at # "none" /\ ~Waiting
  /\ IF monitor.closed THEN Closed ELSE Initialized \/ AccountRead \/ LimitsRead
  /\ NoFault
  /\ UNCHANGED <<account, overtaken>>

Timeout ==
  /\ Waiting
  /\ Fault
  /\ refresh' = Failed(refresh)
  /\ UNCHANGED <<monitor, children, account, overtaken>>

------------------------
(* Lines of the child. *)

\* Mutant of Expected: any response answers the request that waits.
MutantExpected(line) == Waiting

Expected(line) == Waiting /\ line.id = refresh.id

Response(line) ==
  /\ refresh' = (IF Expected(line) THEN [refresh EXCEPT !.result = line] ELSE refresh)
  /\ UNCHANGED <<monitor, overtaken>>

AccountUpdated(line) ==
  /\ monitor' = [monitor EXCEPT !.account = line.value, !.quota = None]
  /\ overtaken' = (overtaken \/ refresh.at = "limits" \/ (refresh.at = "account" /\ ~Waiting))
  /\ UNCHANGED refresh

LimitsUpdated(line) ==
  /\ monitor' = [monitor EXCEPT !.quota = line.value]
  /\ UNCHANGED <<refresh, overtaken>>

\* The child is told to end, but it stays the monitor's until it does or the next start.
FailProtocol ==
  /\ monitor' = [monitor EXCEPT !.phase = "unavailable", !.quota = None]
  /\ refresh' = RejectPending(refresh)
  /\ UNCHANGED overtaken

\* Lines of another child than the monitor's are dropped.
AcceptLine(c) ==
  LET line == Head(children[c].lines) IN
  /\ children[c].lines # <<>>
  /\ children' = [children EXCEPT ![c].lines = Tail(@),
                                  ![c].ended = @ \/ (c = monitor.child /\ line.kind = "broken")]
  /\ IF c # monitor.child THEN UNCHANGED <<monitor, refresh, overtaken>>
     ELSE \/ line.kind = "updated" /\ AccountUpdated(line)
          \/ line.kind = "announced" /\ LimitsUpdated(line)
          \/ line.kind = "broken" /\ FailProtocol
          \/ line.kind \notin {"updated", "announced", "broken"} /\ Response(line)
  /\ NoFault
  /\ UNCHANGED account

------------------------
(* The end of a child, and of the monitor. *)

\* handleChildExit
Lost(c) ==
  IF monitor.closed \/ c # monitor.child THEN UNCHANGED <<monitor, refresh>>
  ELSE /\ monitor' = [monitor EXCEPT !.child = None, !.phase = "unavailable", !.quota = None]
       /\ refresh' = RejectPending(refresh)

ChildExits(c) ==
  /\ Settled /\ Live(c)
  /\ IF children[c].ended THEN NoFault ELSE Fault
  /\ children' = [children EXCEPT ![c].phase = "dead", ![c].kill = FALSE]
  /\ Lost(c)
  /\ UNCHANGED <<account, overtaken>>

InputBreaks(c) ==
  /\ Settled /\ Live(c) /\ ~children[c].broken
  /\ Fault
  /\ children' = [children EXCEPT ![c].broken = TRUE]
  /\ Lost(c)
  /\ UNCHANGED <<account, overtaken>>

KillTimer(c) ==
  /\ Settled /\ Live(c) /\ children[c].kill
  /\ children' = [children EXCEPT ![c].phase = "dead", ![c].kill = FALSE]
  /\ Lost(c)
  /\ NoFault
  /\ UNCHANGED <<account, overtaken>>

Close ==
  /\ Settled /\ ~monitor.closed
  /\ monitor' = [Initial EXCEPT !.closed = TRUE, !.phase = "closed"]
  /\ refresh' = RejectPending(refresh)
  /\ children' = Retired(children, monitor.child)
  /\ NoFault
  /\ UNCHANGED <<account, overtaken>>

------------------------
(* The app-server and its user. *)

Out(c, line) == children' = [children EXCEPT ![c].lines = Append(@, line)]
OnlyChildren == UNCHANGED <<monitor, refresh, overtaken>>

Serve(c) ==
  /\ Live(c) /\ children[c].requests # <<>>
  /\ LET request == Head(children[c].requests)
         answer == Line(request[2], request[1], account)
     IN children' = [children EXCEPT ![c].requests = Tail(@), ![c].lines = Append(@, answer)]
  /\ NoFault
  /\ UNCHANGED account /\ OnlyChildren

ChangeAccount ==
  /\ account < MaxChanges
  /\ account' = account + 1
  /\ children' = [c \in Children |->
       IF Live(c) THEN [children[c] EXCEPT !.lines = Append(@, Line("updated", 0, account'))]
       ELSE children[c]]
  /\ NoFault /\ OnlyChildren

Announce(c) ==
  /\ Live(c) /\ Backed(account)
  /\ Use("notices", MaxNotices)
  /\ Out(c, Line("announced", 0, account))
  /\ UNCHANGED account /\ OnlyChildren

Garble(c) ==
  /\ Live(c)
  /\ Fault
  /\ Out(c, Line("broken", 0, None))
  /\ UNCHANGED account /\ OnlyChildren

Init ==
  /\ monitor = Initial /\ refresh = NoRefresh
  /\ children = [c \in Children |-> Unborn]
  /\ account = 1 /\ overtaken = FALSE
  /\ done = [refreshes |-> 0, notices |-> 0, faults |-> 0]

Next ==
  \/ Refresh \/ Continue \/ Timeout \/ Close \/ ChangeAccount
  \/ \E c \in Children :
       \/ AcceptLine(c) \/ ChildExits(c) \/ InputBreaks(c) \/ KillTimer(c)
       \/ Serve(c) \/ Announce(c) \/ Garble(c)

Spec == Init /\ [][Next]_monitorVars

------------------------
(* Properties. *)

\* Once nothing is on its way, the account that routing goes by is the one Codex has, and the limits
\* are its own: no late answer, no line of another child and no update has brought back an
\* older one.  The one exception is an account announced while a refresh had read the one before:
\* the refresh writes over it, until the next one.
QuietIsTrue ==
  LET child == monitor.child IN
  refresh.at = "none" /\ monitor.phase = "ready" /\ Live(child) /\ children[child].lines = <<>>
    /\ ~overtaken
  => monitor.account = account /\ monitor.quota \in {None, account}

\* A child that is not the monitor's any more has been told to end, whichever way the monitor
\* lost it, unless all it knows is that the child's input broke.
ForgottenIsEnded ==
  \A c \in Children :
    Live(c) => c = monitor.child \/ children[c].ended \/ children[c].broken
=============================================================================
