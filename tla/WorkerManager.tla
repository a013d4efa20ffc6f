--------------------------- MODULE WorkerManager ---------------------------
(***************************************************************************)
(* The WorkerManager of supervisor/worker-manager.mjs: the Supervisor's    *)
(* end of the Worker lifecycle, over the Worker processes of WorkerProcess.*)
(*                                                                         *)
(* A public method joins the operation in flight (#operation) or starts    *)
(* one.  An operation is a sequence of awaits, and "operation.step" is the *)
(* await it is blocked in; what runs between two awaits is one action,     *)
(* because nothing else runs on the event loop meanwhile.  The callers are *)
(* the ProviderService, which has one call in flight at a time, the account*)
(* monitor subscription and the shutdown of supervisor.mjs.                *)
(***************************************************************************)
EXTENDS WorkerProcess

CONSTANTS
  CrashLimit,     \* CRASH_BACKOFF_MS.length: crashes per window that end recovery
  CrashesAge,     \* may a crash leave the CRASH_WINDOW_MS before the next one
  SnapshotLag,    \* how many account revisions a snapshot may be behind when used
  GenerationLag   \* how far confirmedGeneration may be behind #generation

ASSUME CrashLimitAssumption == CrashLimit \in Nat \ {0}
ASSUME CrashesAgeAssumption == CrashesAge \in BOOLEAN
ASSUME LagAssumption == SnapshotLag \in Nat /\ GenerationLag \in Nat

VARIABLES
  phase,            \* #phase
  child,            \* #child, named by its epoch; 0 for null
  epoch,            \* #epoch
  childExited,      \* exitCode or signalCode of the current child is set
  expectedExit,     \* #expectedEpochs holds the current epoch
  generation,       \* #generation, confirmed by the Worker
  accountRevision,  \* #accountRevision, confirmed by the Worker
  lastSnapshot,     \* #lastSnapshot
  crashTimes,       \* #crashTimes.length
  recovery,         \* the recovery chain of #recoveryVersion, by its current await
  operation,        \* #operation
  requestSequence,  \* #requestSequence
  closing,          \* close(): "no", "requested", "active", "retry", "done"
  call,             \* the ProviderService call that waits on #operation
  reply,            \* what its last call was answered
  accountRoutingRevision,  \* supervisor.mjs: the latest account routing revision
  accountWaiting,   \* applyAccountState calls chained on #operation
  accountReady      \* those whose #operation has resolved, about to call again

lifeVars   == <<phase, child, epoch, childExited, expectedExit>>
factVars   == <<generation, accountRevision, lastSnapshot>>
callerVars == <<call, reply, accountWaiting, accountReady>>
managerVars == <<lifeVars, factVars, crashTimes, recovery, operation, requestSequence,
                 closing, callerVars, accountRoutingRevision>>
vars == <<managerVars, workerVars>>

------------------------
(* Data *)

Phases == {"stopped", "starting", "running", "draining", "backoff", "failed"}

\* The awaits of the perform* methods; a message step is named for the message.
MessageSteps == {"ready", "configured", "account-state-applied", "drained"}
ExitSteps    == {"exit", "term", "kill"}
Steps == MessageSteps \union ExitSteps \union {"health", "healthy", "port", "none"}

\* fn: the perform* method that runs; restart: performStop on the way to a
\* restart; recovers: started by the recovery chain; drainFailed: the drain
\* could not be sent, stop reports it once the child is gone.
Operation ==
  [fn : {"none", "start", "apply", "account", "stop", "close"}, step : Steps,
   snap : Snapshot, rev : Nat, id : Nat,
   restart : BOOLEAN, recovers : BOOLEAN, drainFailed : BOOLEAN]

NoOperation ==
  [fn |-> "none", step |-> "none", snap |-> NoSnapshot, rev |-> 0, id |-> 0,
   restart |-> FALSE, recovers |-> FALSE, drainFailed |-> FALSE]

NoRecovery == [stage |-> "none", snap |-> NoSnapshot]
NoCall  == [kind |-> "none", want |-> NoSnapshot]
NoReply == [kind |-> "none", want |-> NoSnapshot, ok |-> FALSE, phase |-> "none",
            gen |-> 0, cfg |-> NoConfig]

Busy   == operation.fn # "none"
Closed == closing # "no"
Worker == procs[epoch]
AwaitsMessage == operation.step \in MessageSteps

Init ==
  /\ phase = "stopped" /\ child = 0 /\ epoch = 0
  /\ childExited = FALSE /\ expectedExit = FALSE
  /\ generation = 0 /\ accountRevision = 0 /\ lastSnapshot = NoSnapshot
  /\ crashTimes = 0 /\ recovery = NoRecovery
  /\ operation = NoOperation /\ requestSequence = 0 /\ closing = "no"
  /\ call = NoCall /\ reply = NoReply
  /\ accountRoutingRevision = 1 /\ accountWaiting = {} /\ accountReady = {}
  /\ WorkerInit

------------------------
(* Helpers of the actions.  Those that settle a promise read the primed     *)
(* phase, child and facts, which the action sets first.                     *)

\* The promise of a call settles with getPublicState(), or rejects.
Answer(c, ok) ==
  IF c.kind = "none" THEN UNCHANGED <<call, reply>>
  ELSE /\ call' = NoCall
       /\ reply' = [kind |-> c.kind, want |-> c.want, ok |-> ok, phase |-> phase',
                    gen |-> generation', cfg |-> lastSnapshot'.cfg]

\* #trackOperation: the operation settles, with everyone who joined it.  An
\* applyAccountState chained with then() runs again only if it resolved.
Settle(ok) ==
  /\ operation' = NoOperation
  /\ Answer(call, ok)
  /\ accountReady' = IF ok THEN accountReady \union accountWaiting ELSE accountReady
  /\ accountWaiting' = {}
  /\ closing' = IF closing = "active" THEN IF child' = 0 THEN "done" ELSE "retry"
                ELSE closing
  /\ recovery' = IF operation.recovers /\ recovery.stage = "attempt"
                 THEN IF ok THEN NoRecovery ELSE [recovery EXCEPT !.stage = "rejected"]
                 ELSE recovery

\* #send: the message reaches a live process; the channel of a dead one loses
\* it or reports the failure, and so does that of a Worker that disconnects.
Send(type, id, snap, rev) ==
  toWorker' = IF Worker.alive
              THEN [toWorker EXCEPT ![epoch] =
                      Append(@, [type |-> type, id |-> id, snap |-> snap, rev |-> rev])]
              ELSE toWorker
SendFails == (~Worker.alive \/ Worker.stopping) /\ UNCHANGED toWorker

\* #terminateChild up to its first await.
Terminate(o, isExited) ==
  /\ operation' = [o EXCEPT !.step = IF isExited THEN "port" ELSE "term"]
  /\ procs' = IF ~isExited /\ Worker.alive
              THEN [procs EXCEPT ![epoch].signalled = TRUE] ELSE procs

\* The child has exited: forget it, together with what it still had to say.
Release ==
  /\ child' = 0
  /\ expectedExit' = FALSE
  /\ toManager' = [toManager EXCEPT ![epoch] = <<>>]

\* #performStart up to its first await; "c" is the call it was made for.
Fork(c, snap, recovers) ==
  /\ epoch < MaxEpoch /\ requestSequence < MaxRequests
  /\ epoch' = epoch + 1 /\ child' = epoch + 1
  /\ phase' = "starting" /\ childExited' = FALSE /\ expectedExit' = FALSE
  /\ procs' = [procs EXCEPT ![epoch + 1] = Forked]
  /\ requestSequence' = requestSequence + 1
  /\ operation' = [NoOperation EXCEPT !.fn = "start", !.step = "ready", !.snap = snap,
                                      !.id = requestSequence + 1, !.recovers = recovers]
  /\ call' = c /\ reply' = IF c = NoCall THEN reply ELSE NoReply
  /\ UNCHANGED <<accountWaiting, accountReady, closing>>

\* forkWorker throws: performStart rejects, and with it the operation it is in.
ForkFails(c) ==
  /\ phase' = "stopped" /\ child' = 0 /\ expectedExit' = FALSE
  /\ operation' = NoOperation
  /\ Answer(c, FALSE)
  /\ accountWaiting' = {}
  /\ UNCHANGED <<epoch, childExited, procs, requestSequence, accountReady, closing>>

\* The await of the operation throws.  A start cleans up behind itself, a stop
\* whose drain failed escalates, the others just reject.
Thrown(isExited) ==
  CASE operation.fn = "start" ->
         /\ Terminate(operation, isExited)
         /\ expectedExit' = TRUE
         /\ UNCHANGED <<callerVars, closing, recovery>>
    [] operation.fn = "stop" ->
         /\ Terminate(operation, isExited)
         /\ UNCHANGED <<expectedExit, callerVars, closing, recovery>>
    [] OTHER ->
         /\ Settle(FALSE)
         /\ UNCHANGED <<expectedExit, procs>>

------------------------
(* Crash recovery.  A chain that cancelRecovery or a newer crash has made   *)
(* obsolete does nothing any more and is forgotten.                         *)

\* Mutant of ScheduleRecovery: the phase it passes through is left behind.
MutantScheduleRecoveryCrashed ==
  /\ crashTimes' = crashTimes + 1
  /\ IF crashTimes' >= CrashLimit
     THEN phase' = "crashed" /\ recovery' = NoRecovery
     ELSE phase' = "backoff" /\ recovery' = [stage |-> "timer", snap |-> lastSnapshot]

\* #scheduleRecovery: crashes older than the window are forgotten first.
ScheduleRecovery ==
  \E kept \in 0..crashTimes :
    /\ CrashesAge \/ kept = crashTimes
    /\ crashTimes' = kept + 1
    /\ IF kept + 1 >= CrashLimit
       THEN phase' = "failed" /\ recovery' = NoRecovery
       ELSE phase' = "backoff" /\ recovery' = [stage |-> "timer", snap |-> lastSnapshot]

\* Mutant of CanRecover: a recovery does not look at what the phase is now.
MutantCanRecoverAnyPhase == ~Closed /\ child = 0

CanRecover == ~Closed /\ phase = "backoff" /\ child = 0

\* The catch of the recovery chain.
RecoveryCaught(attempted) ==
  IF ~Closed /\ child = 0 /\ (phase = "backoff" \/ attempted)
  THEN ScheduleRecovery
  ELSE recovery' = NoRecovery /\ UNCHANGED <<crashTimes, phase>>

recoveryFrame == <<child, epoch, childExited, expectedExit, factVars, operation,
                   requestSequence, closing, callerVars, accountRoutingRevision, workerVars>>

\* The backoff delay has passed.
RecoveryTimer ==
  /\ recovery.stage = "timer"
  /\ recovery' = IF CanRecover THEN [recovery EXCEPT !.stage = "port"] ELSE NoRecovery
  /\ UNCHANGED <<phase, crashTimes, recoveryFrame>>

\* waitForPortFree has probed the port.
RecoveryPort(free) ==
  /\ recovery.stage = "port"
  /\ IF free
     THEN /\ recovery' = IF CanRecover THEN [recovery EXCEPT !.stage = "gate"]
                         ELSE NoRecovery
          /\ UNCHANGED <<phase, crashTimes>>
     ELSE RecoveryCaught(FALSE)
  /\ UNCHANGED recoveryFrame

\* codexService.runWhenReady refuses: Codex is not configured.
RecoveryNotReady ==
  /\ recovery.stage = "gate"
  /\ RecoveryCaught(FALSE)
  /\ UNCHANGED recoveryFrame

\* codexService.runWhenReady lets the recovery start its Worker.
RecoveryStarts ==
  /\ recovery.stage = "gate" /\ CanRecover
  /\ UNCHANGED <<factVars, crashTimes, accountRoutingRevision, toWorker, toManager>>
  /\ \/ /\ Fork(NoCall, recovery.snap, TRUE)
        /\ recovery' = [recovery EXCEPT !.stage = "attempt"]
     \/ /\ ForkFails(NoCall)
        /\ recovery' = [recovery EXCEPT !.stage = "rejected"]

\* The manager has moved on while the recovery was queued.
RecoveryObsolete ==
  /\ recovery.stage = "gate" /\ ~CanRecover
  /\ recovery' = NoRecovery
  /\ UNCHANGED <<phase, crashTimes, recoveryFrame>>

\* The start of the recovery chain has rejected.
RecoveryRejected ==
  /\ recovery.stage = "rejected"
  /\ RecoveryCaught(TRUE)
  /\ UNCHANGED recoveryFrame

------------------------
(* Calls of the ProviderService.  Its snapshots carry the generation after  *)
(* the one it believes confirmed (a rollback snapshot goes one higher), and *)
(* the account state it read before it awaited the credentials.             *)

\* Mutant of Snapshots: the confirmed generation is used again.
MutantSnapshotsReuse ==
  { [gen |-> g, cfg |-> c, rev |-> accountRoutingRevision] :
      g \in {n \in 1..MaxGeneration : n >= generation /\ n <= generation + 2},
      c \in Configs }

Snapshots ==
  { [gen |-> g, cfg |-> c, rev |-> r] :
      g \in {n \in 1..MaxGeneration : n + GenerationLag > generation
                                      /\ n <= generation + 2},
      c \in Configs,
      r \in {n \in 1..MaxRevision : n <= accountRoutingRevision
                                    /\ accountRoutingRevision <= n + SnapshotLag} }

callFrame == <<factVars, crashTimes, accountRoutingRevision>>

\* Closed rejects, an operation in flight is joined.
Join(kind, want) ==
  /\ UNCHANGED <<lifeVars, callFrame, recovery, operation, requestSequence, closing,
                 accountWaiting, accountReady, workerVars>>
  /\ \/ /\ Closed
        /\ reply' = [NoReply EXCEPT !.kind = kind, !.want = want]
        /\ UNCHANGED call
     \/ /\ ~Closed /\ Busy
        /\ call' = [kind |-> kind, want |-> want] /\ reply' = NoReply

\* The call is answered without an operation.
AnswerNow(kind, want, ok) ==
  /\ UNCHANGED <<child, epoch, childExited, expectedExit, callFrame, operation,
                 requestSequence, closing, accountWaiting, accountReady, workerVars>>
  /\ Answer([kind |-> kind, want |-> want], ok)

\* performStart as an operation of its own.
BeginStart(kind, snap) ==
  /\ UNCHANGED <<callFrame, toWorker, toManager>>
  /\ \/ Fork([kind |-> kind, want |-> snap], snap, FALSE)
     \/ ForkFails([kind |-> kind, want |-> snap])

\* AdminServer runs start, restart and activation behind the readiness gate a
\* recovery waits at, so they do not overlap with the start of a recovery.
GateFree == recovery.stage # "attempt"

Start(snap) ==
  /\ call = NoCall /\ GateFree
  /\ \/ Join("start", snap)
     \/ /\ ~Closed /\ ~Busy
        /\ phase = "running" \/ child # 0
        /\ UNCHANGED <<phase, recovery>>
        /\ AnswerNow("start", snap, phase = "running")
     \/ /\ ~Closed /\ ~Busy /\ phase # "running" /\ child = 0
        /\ BeginStart("start", snap)
        /\ UNCHANGED recovery

\* performApplySnapshot sends a configure and waits for its acknowledgement.
BeginApply(snap) ==
  /\ requestSequence < MaxRequests
  /\ requestSequence' = requestSequence + 1
  /\ UNCHANGED <<lifeVars, callFrame, recovery, closing, accountWaiting, accountReady,
                 procs, toManager>>
  /\ \/ /\ Send("configure", requestSequence + 1, snap, 0)
        /\ operation' = [NoOperation EXCEPT !.fn = "apply", !.step = "configured",
                                            !.snap = snap, !.id = requestSequence + 1]
        /\ call' = [kind |-> "apply", want |-> snap] /\ reply' = NoReply
     \/ /\ SendFails
        /\ Answer([kind |-> "apply", want |-> snap], FALSE)
        /\ UNCHANGED operation

ApplySnapshot(snap) ==
  /\ call = NoCall
  /\ \/ Join("apply", snap)
     \/ /\ ~Closed /\ ~Busy
        /\ phase # "running" \/ child = 0 \/ snap.gen <= generation
        /\ UNCHANGED <<phase, recovery>>
        /\ AnswerNow("apply", snap, FALSE)
     \/ /\ ~Closed /\ ~Busy
        /\ phase = "running" /\ child # 0 /\ snap.gen > generation
        /\ BeginApply(snap)

\* performStop sends a drain; a drain that cannot be sent escalates at once.
BeginStop(kind, snap) ==
  LET op == [NoOperation EXCEPT !.fn = "stop", !.step = "drained", !.snap = snap,
                                !.id = requestSequence + 1, !.restart = (kind = "restart")]
  IN /\ requestSequence < MaxRequests
     /\ requestSequence' = requestSequence + 1
     /\ expectedExit' = TRUE /\ phase' = "draining"
     /\ call' = [kind |-> kind, want |-> snap] /\ reply' = NoReply
     /\ \/ /\ Send("drain", requestSequence + 1, NoSnapshot, 0)
           /\ operation' = op /\ UNCHANGED procs
        \/ SendFails /\ Terminate([op EXCEPT !.drainFailed = TRUE], childExited)
     /\ UNCHANGED <<child, epoch, childExited, callFrame, closing, accountWaiting,
                    accountReady, toManager>>

Stop ==
  /\ call = NoCall
  /\ \/ Join("stop", NoSnapshot)
     \/ /\ ~Closed /\ ~Busy
        /\ child = 0 \/ phase = "stopped"
        /\ phase' = "stopped" /\ recovery' = NoRecovery
        /\ AnswerNow("stop", NoSnapshot, TRUE)
     \/ /\ ~Closed /\ ~Busy /\ child # 0 /\ phase # "stopped"
        /\ BeginStop("stop", NoSnapshot)
        /\ UNCHANGED recovery

Restart(snap) ==
  /\ call = NoCall /\ GateFree
  /\ \/ Join("restart", snap)
     \/ /\ ~Closed /\ ~Busy
        /\ recovery' = NoRecovery
        /\ IF child # 0 /\ phase # "stopped" THEN BeginStop("restart", snap)
           ELSE BeginStart("restart", snap)

------------------------
(* Account routing updates of the Supervisor *)

accountFrame == <<lifeVars, factVars, crashTimes, recovery, closing, call, reply, procs,
                  toManager>>

\* Mutant of DropsAccountState: a chained update is not compared again.
MutantDropsAccountState(rev) ==
  Closed \/ (~Busy /\ (phase # "running" \/ child = 0))

\* applyAccountState(update): dropped when closed or not running, skipped when
\* it is not newer than the confirmed one, chained on an operation in flight.
DropsAccountState(rev) ==
  Closed \/ (~Busy /\ (phase # "running" \/ child = 0 \/ rev <= accountRevision))

SubmitAccountState(rev) ==
  \/ /\ DropsAccountState(rev)
     /\ UNCHANGED <<operation, requestSequence, accountWaiting, toWorker>>
  \/ /\ ~Closed /\ Busy
     /\ accountWaiting' = accountWaiting \union {rev}
     /\ UNCHANGED <<operation, requestSequence, toWorker>>
  \/ /\ ~Busy /\ ~DropsAccountState(rev)
     /\ requestSequence < MaxRequests
     /\ requestSequence' = requestSequence + 1
     /\ \/ /\ Send("account-state", requestSequence + 1, NoSnapshot, rev)
           /\ operation' = [NoOperation EXCEPT !.fn = "account", !.rev = rev,
                              !.step = "account-state-applied", !.id = requestSequence + 1]
        \/ SendFails /\ UNCHANGED operation
     /\ UNCHANGED accountWaiting

\* The projected account state has changed: push it, ignoring the outcome.
AccountStateChanges ==
  /\ accountRoutingRevision < MaxRevision
  /\ accountRoutingRevision' = accountRoutingRevision + 1
  /\ SubmitAccountState(accountRoutingRevision + 1)
  /\ UNCHANGED <<accountReady, accountFrame>>

\* A chained update calls again, in the order it was chained.
ResubmitAccountState ==
  /\ \E rev \in accountReady :
       /\ \A other \in accountReady : rev <= other
       /\ accountReady' = accountReady \ {rev}
       /\ SubmitAccountState(rev)
  /\ UNCHANGED <<accountRoutingRevision, accountFrame>>

------------------------
(* Messages of the child, and the timeouts that give up on them *)

Incoming ==
  /\ child # 0 /\ toManager[epoch] # <<>>
  /\ toManager' = [toManager EXCEPT ![epoch] = Tail(@)]

message == Head(toManager[epoch])

\* Mutant of Answers: any message of the type resolves the waiter.
MutantAnswersByType == AwaitsMessage /\ message.type = operation.step

\* The waiter of the operation is the one this message answers: by type and
\* request id, where a start waits for the fixed id "worker-ready" first.
Answers ==
  /\ AwaitsMessage /\ message.type = operation.step
  /\ message.id = IF operation.step = "ready" THEN 0 ELSE operation.id

messageFrame == <<phase, child, epoch, childExited, crashTimes, accountRoutingRevision>>

\* The Worker has booted: configure goes out.
OnReady ==
  /\ Incoming /\ Answers /\ operation.step = "ready"
  /\ UNCHANGED <<messageFrame, factVars, requestSequence>>
  /\ \/ /\ Send("configure", operation.id, operation.snap, 0)
        /\ operation' = [operation EXCEPT !.step = "configured"]
        /\ UNCHANGED <<expectedExit, callerVars, closing, recovery, procs>>
     \/ SendFails /\ Thrown(childExited)

\* A start goes on to verify the health endpoint.  (A Worker acknowledges with
\* the generation of the configure it answers: the check of it never fails.)
OnStartConfigured ==
  /\ Incoming /\ Answers /\ operation.step = "configured" /\ operation.fn = "start"
  /\ message.gen = operation.snap.gen
  /\ operation' = [operation EXCEPT !.step = "health"]
  /\ UNCHANGED <<messageFrame, expectedExit, factVars, requestSequence, callerVars, closing,
                 recovery, procs, toWorker>>

\* An applied snapshot is confirmed, and keeps a newer account state.
OnApplyConfigured ==
  /\ Incoming /\ Answers /\ operation.step = "configured" /\ operation.fn = "apply"
  /\ message.gen = operation.snap.gen
  /\ generation' = operation.snap.gen
  /\ accountRevision' = IF operation.snap.rev >= accountRevision
                        THEN operation.snap.rev ELSE accountRevision
  /\ lastSnapshot' = [operation.snap EXCEPT !.rev = accountRevision']
  /\ UNCHANGED <<messageFrame, expectedExit, requestSequence, procs, toWorker>>
  /\ Settle(TRUE)

OnAccountStateApplied ==
  /\ Incoming /\ Answers /\ operation.step = "account-state-applied"
  /\ accountRevision' = operation.rev
  /\ lastSnapshot' = [lastSnapshot EXCEPT !.rev = operation.rev]
  /\ UNCHANGED <<generation, messageFrame, expectedExit, requestSequence, procs, toWorker>>
  /\ Settle(TRUE)

\* A drain is accepted from the generation the manager knows of.
OnDrained ==
  /\ Incoming /\ Answers /\ operation.step = "drained"
  /\ UNCHANGED <<messageFrame, factVars>>
  /\ \/ /\ message.gen = generation
        /\ requestSequence < MaxRequests
        /\ requestSequence' = requestSequence + 1
        /\ \/ /\ Send("shutdown", requestSequence + 1, NoSnapshot, 0)
              /\ operation' = [operation EXCEPT !.step = "exit"]
              /\ UNCHANGED procs
           \/ SendFails /\ Terminate(operation, childExited)
        /\ UNCHANGED <<expectedExit, callerVars, closing, recovery>>
     \/ /\ message.gen # generation
        /\ UNCHANGED <<requestSequence, toWorker>>
        /\ Thrown(childExited)

\* A fatal rejects the waiter of its request, "worker-fatal" every waiter.
OnFatal ==
  /\ Incoming /\ message.type = "fatal"
  /\ UNCHANGED <<messageFrame, factVars, requestSequence, toWorker>>
  /\ IF AwaitsMessage /\ message.id \in {0, operation.id}
     THEN Thrown(childExited)
     ELSE UNCHANGED <<expectedExit, operation, procs, callerVars, closing, recovery>>

\* Nobody waits for this message any more.
OnUnawaited ==
  /\ Incoming /\ message.type # "fatal" /\ ~Answers
  /\ UNCHANGED <<managerVars, procs, toWorker>>

MessageTimeout ==
  /\ AwaitsMessage
  /\ UNCHANGED <<messageFrame, factVars, requestSequence, toWorker, toManager>>
  /\ Thrown(childExited)

\* The health endpoint on the proxy port reports the generation.
HealthAnswers ==
  /\ operation.step = "health"
  /\ Worker.alive /\ Worker.listening /\ Worker.gen = operation.snap.gen
  /\ operation' = [operation EXCEPT !.step = "healthy"]
  /\ UNCHANGED <<lifeVars, factVars, crashTimes, recovery, requestSequence, closing,
                 callerVars, accountRoutingRevision, workerVars>>

\* It refuses, answers something else, or not in time.
HealthFails ==
  /\ operation.step \in {"health", "healthy"}
  /\ UNCHANGED <<messageFrame, factVars, requestSequence, toWorker, toManager>>
  /\ Thrown(childExited)

\* performStart has read the health response: the Worker is in service.
Started ==
  /\ operation.step = "healthy"
  /\ phase' = "running"
  /\ generation' = operation.snap.gen
  /\ accountRevision' = operation.snap.rev
  /\ lastSnapshot' = operation.snap
  /\ UNCHANGED <<child, epoch, childExited, expectedExit, crashTimes, requestSequence,
                 accountRoutingRevision, workerVars>>
  /\ Settle(TRUE)

------------------------
(* Exit of the child *)

\* The "exit" event of a child that nobody expects to exit while it runs: the
\* operation in flight, if any, rejects, and a recovery is scheduled.
ChildCrashed ==
  /\ child # 0 /\ ~Worker.alive /\ ~childExited
  /\ ~expectedExit /\ ~Closed /\ phase = "running"
  /\ childExited' = TRUE
  /\ Release
  /\ ScheduleRecovery
  /\ operation' = NoOperation
  /\ UNCHANGED <<epoch, factVars, requestSequence, closing, accountRoutingRevision,
                 accountReady, procs, toWorker>>
  /\ accountWaiting' = {}
  /\ Answer(call, FALSE)

\* Any other "exit" event only rejects, or resolves, what waits for the child.
ChildExits ==
  /\ child # 0 /\ ~Worker.alive /\ ~childExited
  /\ expectedExit \/ Closed \/ phase # "running"
  /\ childExited' = TRUE
  /\ UNCHANGED <<phase, child, epoch, factVars, crashTimes, requestSequence,
                 accountRoutingRevision, toWorker, toManager>>
  /\ IF AwaitsMessage THEN Thrown(TRUE)
     ELSE /\ operation' = IF operation.step \in ExitSteps
                          THEN [operation EXCEPT !.step = "port"] ELSE operation
          /\ UNCHANGED <<expectedExit, callerVars, closing, recovery, procs>>

\* Mutants of ExitTimeout: a Worker that does not exit in time is taken to have
\* exited, nothing follows SIGTERM.
MutantExitTimeoutGone ==
  /\ operation.step \in {"exit", "term"}
  /\ operation' = [operation EXCEPT !.step = "port"]
  /\ UNCHANGED <<lifeVars, factVars, crashTimes, recovery, requestSequence, closing,
                 callerVars, accountRoutingRevision, workerVars>>

MutantExitTimeoutOnce ==
  /\ operation.step = "exit"
  /\ operation' = [operation EXCEPT !.step = "term"]
  /\ procs' = IF Worker.alive THEN [procs EXCEPT ![epoch].signalled = TRUE] ELSE procs
  /\ UNCHANGED <<lifeVars, factVars, crashTimes, recovery, requestSequence, closing,
                 callerVars, accountRoutingRevision, toWorker, toManager>>

\* No exit in time: a shutdown is followed by SIGTERM, SIGTERM by SIGKILL.
ExitTimeout ==
  /\ operation.step \in {"exit", "term"}
  /\ operation' = [operation EXCEPT !.step = IF @ = "exit" THEN "term" ELSE "kill"]
  /\ procs' = IF Worker.alive THEN [procs EXCEPT ![epoch].signalled = TRUE] ELSE procs
  /\ UNCHANGED <<lifeVars, factVars, crashTimes, recovery, requestSequence, closing,
                 callerVars, accountRoutingRevision, toWorker, toManager>>

\* Mutant of KillTimeout: the child is released although it has not exited.
MutantKillTimeoutReleases ==
  /\ operation.step = "kill"
  /\ phase' = "failed" /\ child' = 0
  /\ UNCHANGED <<epoch, childExited, expectedExit, factVars, crashTimes,
                 requestSequence, accountRoutingRevision, workerVars>>
  /\ Settle(FALSE)

\* Not even SIGKILL worked: the child is kept, so that cleanup can be retried.
KillTimeout ==
  /\ operation.step = "kill"
  /\ phase' = "failed"
  /\ UNCHANGED <<child, epoch, childExited, expectedExit, factVars, crashTimes,
                 requestSequence, accountRoutingRevision, workerVars>>
  /\ Settle(FALSE)

\* waitForPortFree after the child is gone, and the end of the operation.
PortChecked(free) ==
  /\ operation.step = "port"
  /\ ~(free /\ operation.restart /\ ~operation.drainFailed)
  /\ Release
  /\ phase' = IF free THEN "stopped" ELSE "failed"
  /\ UNCHANGED <<epoch, childExited, factVars, crashTimes, requestSequence,
                 accountRoutingRevision, procs, toWorker>>
  /\ Settle(free /\ operation.fn # "start" /\ ~operation.drainFailed)

\* performRestart goes on with performStart.
RestartForks ==
  /\ operation.step = "port" /\ operation.restart /\ ~operation.drainFailed
  /\ toManager' = [toManager EXCEPT ![epoch] = <<>>]
  /\ UNCHANGED <<callFrame, recovery, toWorker>>
  /\ Fork(call, operation.snap, FALSE) \/ ForkFails(call)

------------------------
(* Shutdown of the Supervisor *)

\* close() may be called again only while a child that would not die is kept.
Close ==
  /\ closing \in {"no", "retry"}
  /\ closing' = "requested"
  /\ recovery' = NoRecovery
  /\ UNCHANGED <<lifeVars, factVars, crashTimes, operation, requestSequence, callerVars,
                 accountRoutingRevision, workerVars>>

\* performClose runs once the operation in flight has settled.
PerformClose ==
  /\ closing = "requested" /\ ~Busy
  /\ IF child # 0
     THEN /\ Terminate([NoOperation EXCEPT !.fn = "close"], childExited)
          /\ expectedExit' = TRUE /\ closing' = "active"
          /\ UNCHANGED phase
     ELSE /\ phase' = "stopped" /\ closing' = "done"
          /\ UNCHANGED <<operation, expectedExit, procs>>
  /\ UNCHANGED <<child, epoch, childExited, factVars, crashTimes, recovery,
                 requestSequence, callerVars, accountRoutingRevision, toWorker, toManager>>

------------------------

\* Reactions to a promise that has settled run before the next event.
Microtask == ResubmitAccountState \/ RecoveryRejected \/ PerformClose
MicrotaskPending ==
  accountReady # {} \/ recovery.stage = "rejected" \/ (closing = "requested" /\ ~Busy)

\* What moves an operation on, or gives up on it.
OperationEvent ==
  \/ MessageTimeout \/ HealthFails \/ Started \/ ExitTimeout \/ KillTimeout
  \/ \E free \in BOOLEAN : PortChecked(free)
  \/ RestartForks

ChildEvent ==
  \/ OnReady \/ OnStartConfigured \/ OnApplyConfigured \/ OnAccountStateApplied
  \/ OnDrained \/ OnFatal \/ OnUnawaited \/ HealthAnswers \/ ChildCrashed \/ ChildExits

RecoveryEvent ==
  \/ RecoveryTimer \/ RecoveryNotReady \/ RecoveryStarts \/ RecoveryObsolete
  \/ \E free \in BOOLEAN : RecoveryPort(free)

ManagerStep ==
  \/ Microtask
  \/ ~MicrotaskPending /\ (OperationEvent \/ ChildEvent \/ RecoveryEvent)

CallerStep ==
  \/ \E snap \in Snapshots : Start(snap) \/ ApplySnapshot(snap) \/ Restart(snap)
  \/ Stop \/ AccountStateChanges \/ Close

ProcessStep ==
  /\ \E e \in Epochs : WorkerStep(e)
  /\ UNCHANGED managerVars

Next == ManagerStep \/ CallerStep \/ ProcessStep

Spec == Init /\ [][Next]_vars

\* Timers fire, probes of the port end and promises settle; nobody has to call,
\* and neither has a Worker to answer, a client to finish nor a process to die.
Fairness ==
  /\ WF_vars(Microtask)
  /\ WF_vars(~MicrotaskPending /\ OperationEvent)
  /\ WF_vars(~MicrotaskPending /\ RecoveryEvent)

FairSpec == Spec /\ Fairness

CallKinds == {"none", "start", "apply", "stop", "restart"}
Recovery == [stage : {"none", "timer", "port", "gate", "attempt", "rejected"},
             snap : Snapshot]
Call  == [kind : CallKinds, want : Snapshot]
Reply == [kind : CallKinds, want : Snapshot, ok : BOOLEAN, phase : Phases \union {"none"},
          gen : Nat, cfg : Configs \union {NoConfig}]

TypeOK ==
  /\ WorkerTypeOK
  /\ phase \in Phases /\ child \in 0..MaxEpoch /\ epoch \in 0..MaxEpoch
  /\ childExited \in BOOLEAN /\ expectedExit \in BOOLEAN
  /\ generation \in Nat /\ accountRevision \in Nat /\ lastSnapshot \in Snapshot
  /\ crashTimes \in Nat /\ requestSequence \in Nat
  /\ recovery \in Recovery /\ operation \in Operation
  /\ closing \in {"no", "requested", "active", "retry", "done"}
  /\ call \in Call /\ reply \in Reply
  /\ accountRoutingRevision \in Nat
  /\ accountWaiting \in SUBSET Nat /\ accountReady \in SUBSET Nat

------------------------
(* Safety *)

\* There is never more than one Worker process, whatever was timed out, killed,
\* recovered or restarted: the Workers share one fixed port.
AtMostOneWorker ==
  \A e, f \in Epochs : procs[e].alive /\ procs[f].alive => e = f

\* No Worker process is orphaned: one that lives is the child of the manager, which
\* a stop, a restart or close() therefore reaches, and has not been given up as exited.
NoOrphan == \A e \in Epochs : procs[e].alive => e = child /\ ~childExited

\* What the manager calls confirmed is what the running Worker runs, or the
\* Worker is ahead because an acknowledgement was given up on.
RunningAgrees ==
  phase = "running" /\ Worker.alive =>
    /\ Worker.gen >= generation /\ Worker.rev >= accountRevision
    /\ Worker.gen = generation => Worker.cfg = lastSnapshot.cfg

\* A caller that is told its generation runs got the snapshot it asked for, also
\* when it had joined an operation that somebody else had started.
ServesConfirmed ==
  reply.ok /\ reply.phase = "running" /\ reply.gen = reply.want.gen =>
    /\ reply.cfg = reply.want.cfg
    /\ phase = "running" /\ Worker.alive /\ Worker.gen = reply.gen =>
         Worker.cfg = reply.want.cfg

\* What is confirmed is what is served, to the manager and to those it told.
ConfirmedIsServed == RunningAgrees /\ ServesConfirmed

\* An update of the account state never kills the Worker it is meant for: when
\* a running Worker gets to one, it is newer than what the Worker has.
NoStaleUpdate ==
  \A e \in Epochs :
    procs[e].alive /\ toWorker[e] # <<>> /\ Head(toWorker[e]).type = "account-state"
      /\ procs[e].phase = "running" /\ ~procs[e].stopping
    => MayApplyAccountState(e, Head(toWorker[e]).rev)

\* Account states reach a Worker in the order they were read in: while it lives it never
\* goes back to an older one, and none that comes to it ends it as stale.
AccountStateInOrder ==
  [][/\ NoStaleUpdate'
     /\ \A e \in Epochs : procs[e].alive /\ procs'[e].alive => procs'[e].rev >= procs[e].rev]_vars

\* A stop that was reported lasts until the next call: no recovery and no late
\* update brings a Worker back.
StopHolds ==
  reply.kind = "stop" /\ reply.ok /\ reply.phase = "stopped" /\ call = NoCall =>
    phase = "stopped" /\ \A e \in Epochs : ~procs[e].alive

\* Once close() has completed no Worker is left, for good.
ClosedForGood == closing = "done" => \A e \in Epochs : ~procs[e].alive

\* What was reported stopped or closed stays so.
StaysStopped == StopHolds /\ ClosedForGood

------------------------
(* Liveness, under FairSpec: whatever the Worker does or fails to do *)

\* Every operation ends.
OperationEnds == Busy ~> ~Busy

\* Every call is answered.
CallAnswered == call # NoCall ~> call = NoCall

\* close() completes, or gives up on a child that would not die.
CloseEnds == Closed ~> closing \in {"retry", "done"}

\* Unless its crashes age, the manager recovers or gives up.
BackoffEnds == phase = "backoff" ~> phase # "backoff"

\* Every wait has its end: of an operation, of a caller, of close() and of a backoff.
NothingHangs == OperationEnds /\ CallAnswered /\ CloseEnds /\ BackoffEnds
=============================================================================
