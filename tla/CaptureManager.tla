---------------------------- MODULE CaptureManager ----------------------------
(***************************************************************************)
(* The forwarding records of a Worker (capture-store.mjs): the settings    *)
(* are applied while requests are in flight, a database that has rows but  *)
(* no index is indexed first by a thread of its own                        *)
(* (capture-index-worker.mjs), and disabling, another path and the end of  *)
(* the Worker call that work off at any moment.                            *)
(*                                                                         *)
(* The manager runs in one thread: each action is one event it handles, to *)
(* the end.  What the event's calls do is written as operators from a      *)
(* manager to a manager; a fault is one of their calls throwing.           *)
(***************************************************************************)
EXTENDS Naturals, Sequences, FiniteSets

CONSTANTS
  Paths,         \* the databases settings can name
  Records,       \* the requests that ask for a record
  MaxApplies,    \* bound: settings applied
  MaxFaults      \* bound: calls that throw

VARIABLES
  manager,       \* the CaptureManager, with its threads and the files it opens
  record,        \* each request: none, the database it began under, or "saved"
  applies, faults,
  redisabled     \* history: Capture was disabled again while records were pending

captureVars == <<manager, record, applies, faults, redisabled>>

None == "none"

\* No database is taken for what stands in the place of one.
PathsApart == None \notin Paths /\ "saved" \notin Paths

Settings == [enabled : BOOLEAN, path : Paths]
Faults == {"none", "open", "spawn", "terminate"}

\* pendingEnable: what the next attempt to enable is for and the threads it waits for.
NotPending == [path |-> None, blockers |-> {}]

\* An index thread and its preparation.
Thread(path) ==
  [path |-> path, alive |-> TRUE, cancelled |-> FALSE, unstoppable |-> FALSE, settled |-> FALSE]

Unsettled(m) == {i \in DOMAIN m.threads : ~m.threads[i].settled}

------------------------
(* The calls. *)

CancelPendingEnable(m) == [m EXCEPT !.pending = NotPending]

\* The thread is told to terminate; a call that throws leaves its end to its exit.
CancelIndexPreparation(m, fault) ==
  IF m.preparing = 0 THEN m
  ELSE [m EXCEPT !.preparing = 0,
                 !.threads[m.preparing].cancelled = TRUE,
                 !.threads[m.preparing].unstoppable = (fault = "terminate")]

FinishEnable(m, path) ==
  [m EXCEPT !.active = path, !.accepting = TRUE, !.state = "enabled", !.restart = FALSE]

\* failIndexPreparation; the database that may be open is not closed.
FailIndexPreparation(m) == [m EXCEPT !.accepting = FALSE, !.active = None, !.state = "error"]

StartIndexPreparation(m, path, fault) ==
  IF fault = "spawn" THEN FailIndexPreparation(m)
  ELSE [m EXCEPT !.threads = Append(@, Thread(path)), !.preparing = Len(m.threads) + 1]

\* openDatabase: FALSE for a database that has rows and no index.
Openable(m, path) == m.file[path] # "unindexed"
OpenDatabase(m, path) == [m EXCEPT !.db = path, !.file[path] = "indexed"]

OnItsWay(m, path) ==
  \/ m.pending.path = path
  \/ m.preparing # 0 /\ m.threads[m.preparing].path = path

EnableFromConfig(m, fault) ==
  LET path == m.desired.path
      cleared == [CancelIndexPreparation(CancelPendingEnable(m), fault)
                    EXCEPT !.state = "enabling"]
  IN IF OnItsWay(m, path) THEN m
     ELSE IF Unsettled(cleared) # {}
       THEN [cleared EXCEPT !.pending = [path |-> path, blockers |-> Unsettled(cleared)]]
     ELSE IF fault = "open"
       THEN [cleared EXCEPT !.accepting = FALSE, !.db = None, !.active = None, !.state = "error"]
     ELSE IF Openable(cleared, path) THEN FinishEnable(OpenDatabase(cleared, path), path)
     ELSE StartIndexPreparation(cleared, path, fault)

Pending == {r \in Records : record[r] \in Paths}

\* Mutant of DisableRecording: the database is closed at once, records in flight or not.
MutantDisableRecording(m) ==
  [m EXCEPT !.accepting = FALSE, !.db = None, !.active = None, !.state = "disabled"]

\* disableRecording: the database stays open for the records in flight.
DisableRecording(m) ==
  IF m.db # None /\ Pending # {}
    THEN [m EXCEPT !.accepting = FALSE, !.state = "disabling"]
    ELSE [m EXCEPT !.accepting = FALSE, !.db = None, !.active = None, !.state = "disabled"]

\* The settings as they are kept, before anything is done about them.
Desiring(m, next) ==
  [m EXCEPT !.desired = next,
            !.restart = m.active # None /\ (m.active # next.path \/ m.restart)]

ApplyRuntimeConfig(m, next, fault) ==
  LET d == Desiring(m, next)
      calledOff == CancelIndexPreparation(CancelPendingEnable(d), fault)
  IN IF next.enabled
       THEN IF d.accepting THEN d
            ELSE IF d.state = "disabling"
              THEN [d EXCEPT !.accepting = TRUE, !.state = "enabled"]
            ELSE EnableFromConfig(d, fault)
       ELSE IF d.accepting \/ d.state \in {"enabled", "error"}
              THEN DisableRecording(calledOff)
              ELSE [calledOff EXCEPT !.state = "disabled", !.restart = FALSE]

------------------------
(* The events. *)

Faulting(fault) ==
  /\ fault # "none" => faults < MaxFaults
  /\ faults' = IF fault = "none" THEN faults ELSE faults + 1

\* The Worker starts; one whose Capture cannot be opened does not.
Start ==
  \E fault \in Faults :
    LET m == IF manager.desired.enabled THEN EnableFromConfig(manager, fault) ELSE manager
    IN /\ ~manager.started /\ ~manager.closed /\ Faulting(fault)
       /\ manager' = [m EXCEPT !.started = TRUE,
                               !.closed = fault = "open" /\ m.state = "error"]
       /\ UNCHANGED <<record, applies, redisabled>>

Apply ==
  \E next \in Settings, fault \in Faults :
    /\ manager.started /\ ~manager.closed /\ applies < MaxApplies /\ Faulting(fault)
    /\ manager' = ApplyRuntimeConfig(manager, next, fault)
    /\ redisabled' = (redisabled \/ (~next.enabled /\ manager.state = "disabling"))
    /\ applies' = applies + 1
    /\ UNCHANGED record

\* The exit of the thread whose preparation is still wanted.
Prepared(m, i, complete, fault) ==
  LET path == m.threads[i].path
      ended == [m EXCEPT !.preparing = 0, !.threads[i].settled = TRUE]
  IN IF ~complete THEN FailIndexPreparation(ended)
     ELSE IF m.closed \/ ~m.desired.enabled \/ m.desired.path # path THEN ended
     ELSE IF fault = "open" THEN FailIndexPreparation([ended EXCEPT !.db = None])
     ELSE FinishEnable(OpenDatabase(ended, path), path)

ThreadExits(i) ==
  \E complete \in BOOLEAN, fault \in {"none", "open"} :
    LET t == manager.threads[i]
        m == [manager EXCEPT
                !.threads[i].alive = FALSE,
                !.file[t.path] = IF complete THEN "indexed" ELSE @,
                !.threads[i].settled = ~t.cancelled \/ t.unstoppable]
    IN /\ t.alive /\ Faulting(fault)
       /\ manager' = IF manager.preparing = i THEN Prepared(m, i, complete, fault) ELSE m
       /\ UNCHANGED <<record, applies, redisabled>>

\* The promise of terminate(): kept when the thread has exited, or rejected at any time.
TerminationEnds(i) ==
  LET t == manager.threads[i]
  IN /\ t.cancelled /\ ~t.unstoppable /\ ~t.settled
     /\ \/ /\ ~t.alive /\ Faulting("none")
           /\ manager' = [manager EXCEPT !.threads[i].settled = TRUE]
        \/ /\ Faulting("terminate")
           /\ manager' = [manager EXCEPT !.threads[i].unstoppable = TRUE,
                                         !.threads[i].settled = ~t.alive]
     /\ UNCHANGED <<record, applies, redisabled>>

\* scheduleEnable's continuation, when all it waited for is settled.
EnablePending ==
  \E fault \in Faults :
    LET m == CancelPendingEnable(manager)
        wanted == ~m.closed /\ m.desired.enabled /\ m.desired.path = manager.pending.path
    IN /\ manager.pending # NotPending
       /\ manager.pending.blockers \cap Unsettled(manager) = {}
       /\ Faulting(fault)
       /\ manager' = IF wanted THEN EnableFromConfig(m, fault) ELSE m
       /\ UNCHANGED <<record, applies, redisabled>>

BeginRecord(r) ==
  /\ record[r] = None
  /\ manager.accepting /\ manager.db # None
  /\ record' = [record EXCEPT ![r] = manager.db]
  /\ UNCHANGED <<manager, applies, faults, redisabled>>

\* Mutant of SaveRecord: the last record does not finish a disabling.
MutantSaveRecord(r) ==
  /\ record[r] \in Paths
  /\ record' = [record EXCEPT ![r] = "saved"]
  /\ UNCHANGED <<manager, applies, faults, redisabled>>

\* save: the row goes to the database that is open now.  The last record of a Capture that
\* is being disabled closes it.
SaveRecord(r) ==
  /\ record[r] \in Paths
  /\ record' = [record EXCEPT ![r] = "saved"]
  /\ manager' = IF ~manager.accepting /\ Pending = {r} /\ manager.state = "disabling"
                  THEN [manager EXCEPT !.db = None, !.active = None, !.state = "disabled"]
                  ELSE manager
  /\ UNCHANGED <<applies, faults, redisabled>>

Close ==
  \E fault \in {"none", "terminate"} :
    /\ manager.started /\ ~manager.closed /\ Faulting(fault)
    /\ manager' = [CancelIndexPreparation(CancelPendingEnable(manager), fault)
                     EXCEPT !.closed = TRUE, !.db = None]
    /\ UNCHANGED <<record, applies, redisabled>>

Init ==
  /\ \E settings \in Settings, file \in [Paths -> {"empty", "unindexed"}] :
       manager = [desired |-> settings, file |-> file, active |-> None, db |-> None,
                  accepting |-> FALSE, state |-> "disabled", restart |-> FALSE,
                  preparing |-> 0, threads |-> <<>>, pending |-> NotPending,
                  started |-> FALSE, closed |-> FALSE]
  /\ record = [r \in Records |-> None]
  /\ applies = 0 /\ faults = 0 /\ redisabled = FALSE

Next ==
  \/ Start \/ Apply \/ EnablePending \/ Close
  \/ \E i \in DOMAIN manager.threads : ThreadExits(i) \/ TerminationEnds(i)
  \/ \E r \in Records : BeginRecord(r) \/ SaveRecord(r)

Spec == Init /\ [][Next]_captureVars

------------------------
(* Properties. *)

\* A request that is being recorded is recorded where it began: its database stays open and
\* no other one takes its place while it is in flight.  (Not after close, which is the end
\* of the Worker, and not once Capture was disabled twice over: see redisabled.)
RecordsGoHome ==
  ~manager.closed /\ ~redisabled => \A r \in Pending : manager.db = record[r]

\* When nothing is under way Capture is what the settings ask for: it records, in the
\* database they name or with a restart announced, or it says that it failed; or it is off
\* and its database is closed.
CaptureSettles ==
  /\ manager.started /\ ~manager.closed /\ ~redisabled
  /\ Unsettled(manager) = {} /\ manager.pending = NotPending /\ Pending = {}
  => IF manager.desired.enabled
       THEN \/ manager.accepting /\ (manager.db = manager.desired.path \/ manager.restart)
            \/ manager.state = "error" /\ ~manager.accepting
       ELSE manager.state = "disabled" /\ ~manager.accepting /\ manager.db = None
=============================================================================
