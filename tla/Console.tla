------------------------------ MODULE Console ------------------------------
(***************************************************************************)
(* The tabs of the web UI (ui-src/src/app.tsx and api.ts) and the sessions *)
(* of the Admin server they hold (session-auth.mjs).                       *)
(*                                                                         *)
(* The tabs of a browser share one cookie; each has a CSRF token of its    *)
(* own and a copy of the workspace.  Requests of a tab overlap, and their  *)
(* answers come in any order.  A session and its CSRF token are one        *)
(* number; the data of the Supervisor is the number of changes made to it. *)
(* A workspace is read with eight requests: here the status and the rest.  *)
(***************************************************************************)
EXTENDS Naturals, FiniteSets

CONSTANTS
  Tabs,         \* tabs, each with its reloads
  Lifetime,     \* ticks until a login ends
  MaxTime,      \* bound: ticks
  MaxSessions,  \* bound: sessions issued
  MaxChanges,   \* bound: changes of the data
  MaxReads,     \* bound: refreshes and polls
  MaxFaults     \* bound: requests that fail, reloads and restarts of the Supervisor

VARIABLES
  sessions,  \* #sessions of the Admin server
  cookie,    \* the browser's session cookie
  tabs,      \* the refs and states of each tab
  requests,  \* what is on its way, with its answer once it has been handled
  version,   \* the data of the Supervisor
  clock,
  issued,    \* sessions so far
  spent      \* what of the other bounds is used up

consoleVars == <<sessions, cookie, tabs, requests, version, clock, issued, spent>>

None == 0
NoData == [status |-> None, rest |-> None]
Fresh == [mode |-> "closed", terminal |-> FALSE, csrf |-> None, workspace |-> NoData,
          error |-> FALSE, pending |-> FALSE, sequence |-> 0, wrote |-> None]

Ready(tab) == tab.mode \in {"writable", "read-only"}
MutationAllowed(tab) == tab.csrf # None /\ ~tab.terminal

\* A request takes along the cookie of the moment.
Request(t, kind, by) ==
  [tab |-> t, kind |-> kind, by |-> by, sequence |-> tabs[t].sequence, cookie |-> cookie,
   csrf |-> tabs[t].csrf, read |-> NoData, sets |-> None, clears |-> FALSE, answer |-> "none"]

Loads(t) == {r \in requests : r.tab = t /\ r.kind = "load"}
Use(bound, max) == spent[bound] < max /\ spent' = [spent EXCEPT ![bound] = @ + 1]

------------------------
(* What a tab does with an answer: operators on its record. *)

\* CrpApi.terminate and the application's reaction
Terminate(tab) ==
  IF tab.terminal THEN tab
  ELSE [tab EXCEPT !.terminal = TRUE, !.csrf = None, !.pending = FALSE, !.mode = "terminal",
                   !.workspace = NoData, !.error = FALSE]

\* What waits for a load goes on, whatever the load brought.
Loaded(tab, by) ==
  IF by \in {"writable", "read-only"} THEN [tab EXCEPT !.mode = by]
  ELSE IF by \in {"resume", "change"} THEN [tab EXCEPT !.pending = FALSE]
  ELSE tab

\* Mutant of Superseded: a load that was overtaken goes on.
MutantSuperseded(t) == {}

\* loadWorkspace: it cuts off the load before it; after the end of the session it fails at once.
Superseded(t) == Loads(t)

BeginLoad(t, tab, by, others) ==
  LET next == [tab EXCEPT !.sequence = @ + 1]
      freed == {r \in Superseded(t) : r.by \in {"resume", "change"}} # {} /\ by = "refresh"
  IN
  IF tab.terminal
  THEN /\ tabs' = [tabs EXCEPT ![t] = Loaded([tab EXCEPT !.error = TRUE], by)]
       /\ requests' = others
  ELSE /\ tabs' = [tabs EXCEPT ![t] = IF freed THEN [next EXCEPT !.pending = FALSE] ELSE next]
       /\ requests' = (others \ Superseded(t))
                      \cup {[Request(t, "load", by) EXCEPT !.sequence = next.sequence]}

Keep(t, tab, others) ==
  /\ tabs' = [tabs EXCEPT ![t] = tab]
  /\ requests' = others

\* A poll belongs to the mode it was started in.
Others(r, tab) ==
  {o \in requests \ {r} : o.tab = r.tab /\ o.kind = "poll" => tab.mode = tabs[r.tab].mode}

------------------------
(* The user. *)

\* A tab opened by "crp ui" has the control token; any other starts without rights.
Open(t) ==
  /\ tabs[t].mode = "closed"
  /\ \/ /\ tabs' = [tabs EXCEPT ![t].mode = "initializing"]
        /\ requests' = requests \cup {Request(t, "exchange", "writable")}
     \/ BeginLoad(t, [tabs[t] EXCEPT !.mode = "initializing"], "read-only", requests)
  /\ UNCHANGED <<sessions, cookie, version, clock, issued, spent>>

Refresh(t) ==
  /\ Ready(tabs[t])
  /\ Use("reads", MaxReads)
  /\ BeginLoad(t, tabs[t], "refresh", requests)
  /\ UNCHANGED <<sessions, cookie, version, clock, issued>>

Poll(t) ==
  /\ Ready(tabs[t]) /\ tabs[t].workspace # NoData /\ ~tabs[t].terminal
  /\ ~ \E r \in requests : r.tab = t /\ r.kind = "poll"
  /\ Use("reads", MaxReads)
  /\ requests' = requests \cup {Request(t, "poll", "poll")}
  /\ UNCHANGED <<sessions, cookie, tabs, version, clock, issued>>

Submit(t, kind) ==
  /\ ~tabs[t].pending /\ tabs[t].workspace # NoData
  /\ tabs' = [tabs EXCEPT ![t].pending = TRUE]
  /\ requests' = requests \cup {Request(t, kind, kind)}
  /\ UNCHANGED <<sessions, cookie, version, clock, issued, spent>>

ResumeManagement(t) ==
  tabs[t].mode = "read-only" /\ ~MutationAllowed(tabs[t]) /\ Submit(t, "resume")

ExecuteMutation(t) ==
  tabs[t].mode = "writable" /\ MutationAllowed(tabs[t]) /\ Submit(t, "change")

ShutdownSupervisor(t) ==
  tabs[t].mode = "writable" /\ MutationAllowed(tabs[t]) /\ Submit(t, "shutdown")

------------------------
(* The Admin server. *)

Session(id) == {s \in sessions : s.id = id}
Valid(id) == {s \in Session(id) : clock < s.expires}
Unexpired == {s \in sessions : clock < s.expires}

Answer(r, as) == requests' = (requests \ {r}) \cup {as}

\* The cookie of an expired session is cleared, the session forgotten.
Refuse(r) ==
  /\ sessions' = sessions \ (Session(r.cookie) \ Valid(r.cookie))
  /\ Answer(r, [r EXCEPT !.answer = "refused", !.clears = Session(r.cookie) # Valid(r.cookie)])
  /\ UNCHANGED <<version, issued>>

Issue(r, login, expires, kept) ==
  /\ issued < MaxSessions /\ issued' = issued + 1
  /\ sessions' = kept \cup {[id |-> issued', login |-> IF login = None THEN issued' ELSE login,
                             expires |-> expires]}
  /\ Answer(r, [r EXCEPT !.answer = "ok", !.sets = issued'])
  /\ UNCHANGED version

CreateBrowserSession(r) ==
  /\ r.kind = "exchange"
  /\ Issue(r, None, clock + Lifetime, Unexpired)

\* The session is replaced by one that ends when it would have.
Replaced(s) == Unexpired \ {s}

ResumeBrowserSession(r) ==
  /\ r.kind = "resume"
  /\ \/ Valid(r.cookie) = {} /\ Refuse(r)
     \/ \E s \in Valid(r.cookie) : Issue(r, s.login, s.expires, Replaced(s))

\* The requests of one load are handled in any order.
ReadData(r) ==
  /\ r.kind \in {"load", "poll"}
  /\ IF Valid(r.cookie) = {} THEN Refuse(r)
     ELSE /\ \E part \in (IF r.kind = "poll" THEN {"status"} ELSE {"status", "rest"}) :
               /\ r.read[part] = None
               /\ LET read == [r.read EXCEPT ![part] = version]
                      whole == r.kind = "poll" \/ (read.status # None /\ read.rest # None)
                  IN Answer(r, [r EXCEPT !.read = read, !.answer = IF whole THEN "ok" ELSE "none"])
          /\ UNCHANGED <<sessions, version, issued>>

Authorized(r) == Valid(r.cookie) # {} /\ r.csrf = r.cookie

HandleChange(r) ==
  /\ r.kind = "change"
  /\ IF Authorized(r)
     THEN /\ version <= MaxChanges /\ version' = version + 1
          /\ Answer(r, [r EXCEPT !.answer = "ok", !.read.rest = version'])
          /\ UNCHANGED <<sessions, issued>>
     ELSE Refuse(r) \* with a valid session and a wrong token nothing is cleared

\* The next Supervisor knows no session; what it was not asked has failed.
Restarted(kept) ==
  /\ sessions' = {}
  /\ requests' = {IF o.answer = "none" THEN [o EXCEPT !.answer = "failed"] ELSE o : o \in kept}
  /\ UNCHANGED <<version, issued>>

HandleShutdown(r) ==
  /\ r.kind = "shutdown"
  /\ IF Authorized(r) THEN Restarted((requests \ {r}) \cup {[r EXCEPT !.answer = "ok"]}) ELSE Refuse(r)

Handle(r) ==
  /\ r.answer = "none"
  /\ \/ CreateBrowserSession(r) \/ ResumeBrowserSession(r) \/ ReadData(r)
     \/ HandleChange(r) \/ HandleShutdown(r)
  /\ UNCHANGED <<cookie, tabs, clock, spent>>

------------------------
(* Answers. *)

Exchanged(r, tab) ==
  IF r.answer = "ok" THEN BeginLoad(r.tab, [tab EXCEPT !.csrf = r.sets], "writable", requests \ {r})
  ELSE Keep(r.tab, Terminate(tab), requests \ {r})

\* The mode changes also when the session has ended in the meantime.
Resumed(r, tab) ==
  LET writable == [tab EXCEPT !.csrf = r.sets, !.mode = "writable"] IN
  IF r.answer = "ok" THEN BeginLoad(r.tab, writable, "resume", Others(r, writable))
  ELSE Keep(r.tab, [tab EXCEPT !.pending = FALSE], Others(r, tab))

LoadEnds(r, tab) ==
  LET next == IF r.answer # "ok" THEN [tab EXCEPT !.error = TRUE]
              ELSE [tab EXCEPT !.workspace = r.read, !.error = FALSE]
  IN Keep(r.tab, Loaded(next, r.by), Others(r, Loaded(next, r.by)))

\* Another load has begun since: what was polled is not shown.
PollEnds(r, tab) ==
  LET shown == r.answer = "ok" /\ r.sequence = tab.sequence /\ tab.workspace # NoData
  IN Keep(r.tab, IF shown THEN [tab EXCEPT !.workspace.status = r.read.status] ELSE tab, Others(r, tab))

\* After a change, and after one that failed, the workspace is read again.
MutationEnds(r, tab) ==
  LET next == IF r.answer = "ok" THEN [tab EXCEPT !.wrote = r.read.rest] ELSE tab IN
  IF MutationAllowed(tab) THEN BeginLoad(r.tab, next, "change", requests \ {r})
  ELSE Keep(r.tab, [next EXCEPT !.pending = FALSE], Others(r, tab))

ShutdownEnds(r, tab) ==
  LET stopped == [tab EXCEPT !.mode = "stopped", !.workspace = NoData, !.sequence = @ + 1, !.pending = FALSE]
  IN IF r.answer = "ok" THEN Keep(r.tab, stopped, Others(r, stopped) \ Loads(r.tab))
     ELSE Keep(r.tab, [tab EXCEPT !.pending = FALSE], Others(r, tab))

\* Every 401, and a 403 for the CSRF token, ends the session of the tab before anything else.
Deliver(r) ==
  LET tab == IF r.answer = "refused" THEN Terminate(tabs[r.tab]) ELSE tabs[r.tab] IN
  /\ r.answer # "none"
  /\ cookie' = (IF r.sets # None THEN r.sets ELSE IF r.clears THEN None ELSE cookie)
  /\ \/ r.kind = "exchange" /\ Exchanged(r, tab)
     \/ r.kind = "resume" /\ Resumed(r, tab)
     \/ r.kind = "load" /\ LoadEnds(r, tab)
     \/ r.kind = "poll" /\ PollEnds(r, tab)
     \/ r.kind = "change" /\ MutationEnds(r, tab)
     \/ r.kind = "shutdown" /\ ShutdownEnds(r, tab)
  /\ UNCHANGED <<sessions, version, clock, issued, spent>>

------------------------
(* The environment. *)

\* The network fails before or after the server has handled a request.
Fail(r) ==
  /\ r.answer # "failed"
  /\ Use("faults", MaxFaults)
  /\ Answer(r, [r EXCEPT !.answer = "failed", !.sets = None, !.clears = FALSE])
  /\ UNCHANGED <<sessions, cookie, tabs, version, clock, issued>>

\* The answers of the page before are lost, with the cookie they set.
Reload(t) ==
  /\ tabs[t].mode # "closed"
  /\ Use("faults", MaxFaults)
  /\ tabs' = [tabs EXCEPT ![t] = Fresh]
  /\ requests' = {r \in requests : r.tab # t}
  /\ UNCHANGED <<sessions, cookie, version, clock, issued>>

Restart ==
  /\ Use("faults", MaxFaults)
  /\ Restarted(requests)
  /\ UNCHANGED <<cookie, tabs, clock>>

\* The CLI, with the control token
OtherChange ==
  /\ version <= MaxChanges /\ version' = version + 1
  /\ UNCHANGED <<sessions, cookie, tabs, requests, clock, issued, spent>>

Tick ==
  /\ clock < MaxTime /\ clock' = clock + 1
  /\ UNCHANGED <<sessions, cookie, tabs, requests, version, issued, spent>>

Init ==
  /\ sessions = {} /\ cookie = None /\ requests = {} /\ version = 1 /\ clock = 0 /\ issued = 0
  /\ tabs = [t \in Tabs |-> Fresh]
  /\ spent = [reads |-> 0, faults |-> 0]

Next ==
  \/ \E t \in Tabs :
       \/ Open(t) \/ Refresh(t) \/ Poll(t) \/ Reload(t)
       \/ ResumeManagement(t) \/ ExecuteMutation(t) \/ ShutdownSupervisor(t)
  \/ \E r \in requests : Handle(r) \/ Deliver(r) \/ Fail(r)
  \/ Restart \/ OtherChange \/ Tick

Spec == Init /\ [][Next]_consoleVars

------------------------
(* Properties. *)

\* A writable tab at rest shows what it has changed itself: no load or poll that was answered
\* before the change is shown after it, however the answers overtake each other.
ReadsOwnChanges ==
  \A t \in Tabs :
    tabs[t].mode = "writable" /\ ~tabs[t].pending /\ ~tabs[t].error
      /\ tabs[t].workspace # NoData /\ Loads(t) = {}
    => tabs[t].workspace.status >= tabs[t].wrote /\ tabs[t].workspace.rest >= tabs[t].wrote

\* "A failed launch exchange or later business-session/CSRF failure is terminal for that tab."
TerminalStays ==
  \A t \in Tabs : tabs[t].terminal => tabs[t].mode = "terminal"
=============================================================================
