------------------------ MODULE WorkerManagerProofs ------------------------
(***************************************************************************)
(* Theorems about WorkerManager, for any number of forks, generations,     *)
(* revisions and requests and any set of configurations.  After the types, *)
(* four invariants, each of which builds on the ones before it:            *)
(*                                                                         *)
(*   OneWorkerInv  a process that lives is the child of the manager        *)
(*   StoppedInv    nothing is on its way that would end a reported stop    *)
(*   BooksInv      what the manager has written down goes together: phase, *)
(*                 operation, confirmed facts, recovery, call, answer      *)
(*   ServiceInv    what is said on the channels is true: a request with    *)
(*                 the id of the operation carries its snapshot, an answer *)
(*                 with that id means that the Worker has got that far     *)
(*                                                                         *)
(* Then that it implements WorkerSlot.  First the snapshots of a queue:    *)
(* how its configures are counted, and what an append and a read do to     *)
(* them.  Then SlotInv, which says what the invariants above do not: a     *)
(* Worker that acknowledges a configure has taken it, and nothing it was   *)
(* sent is left in its queue.  Then, action by action, the step of the     *)
(* slot that it maps to.  Last, RevisionsInv, which uses the same          *)
(* channels: account states reach a Worker in their order.                 *)
(***************************************************************************)
EXTENDS WorkerManagerSlot, FiniteSetTheorems, SequenceTheorems, TLAPS

------------------------
(* Type correctness of the Worker processes *)

LEMMA EmitType ==
  ASSUME WorkerTypeOK, NEW e \in Epochs, NEW id \in Nat, NEW gen \in Nat,
         NEW type \in {"ready", "configured", "account-state-applied", "drained", "fatal"},
         Emit(e, type, id, gen)
  PROVE  toManager' \in [Epochs -> Seq(Message)]
<1> DEFINE m == [type |-> type, id |-> id, gen |-> gen]
<1> QED
  BY DEF Emit, WorkerTypeOK, Message

LEMMA ReceiveType ==
  ASSUME WorkerTypeOK, NEW e \in Epochs, NEW type, Receive(e, type)
  PROVE  /\ toWorker' \in [Epochs -> Seq(Request)]
         /\ Head(toWorker[e]) \in Request
<1> QED
  BY DEF Receive, WorkerTypeOK

LEMMA FailWorkerType ==
  ASSUME WorkerTypeOK, NEW e \in Epochs, NEW id \in Nat, FailWorker(e, id)
  PROVE  procs' \in [Epochs -> WorkerState] /\ toManager' \in [Epochs -> Seq(Message)]
<1>1. procs[e] \in WorkerState /\ procs[e].gen \in Nat
  BY DEF WorkerTypeOK, WorkerState
<1>2. CASE procs[e].stopping
  BY <1>2 DEF FailWorker, WorkerTypeOK
<1>3. CASE ~procs[e].stopping
  <2> DEFINE w == [procs[e] EXCEPT !.phase = "failed", !.stopping = TRUE,
                                   !.listening = FALSE]
  <2>1. w \in WorkerState
    BY <1>1 DEF WorkerState
  <2> QED BY <1>1, <1>3, <2>1, EmitType DEF FailWorker, WorkerTypeOK
<1> QED BY <1>2, <1>3

LEMMA DiesType ==
  ASSUME WorkerTypeOK, NEW e \in Epochs, Dies(e)
  PROVE  WorkerTypeOK'
<1> QED
  BY DEF Dies, WorkerTypeOK, NoWorker, WorkerState

\* Whatever a Worker process does, its state and the channels keep their types.
LEMMA WorkerStepType ==
  ASSUME WorkerTypeOK, NEW e \in Epochs, WorkerStep(e)
  PROVE  WorkerTypeOK'
<1> DEFINE m == Head(toWorker[e])
<1>1. procs[e] \in WorkerState
  BY DEF WorkerTypeOK
<1>2. ASSUME NEW type, Receive(e, type)
      PROVE  /\ toWorker' \in [Epochs -> Seq(Request)]
             /\ m.id \in Nat /\ m.rev \in Nat
             /\ m.snap.gen \in Nat /\ m.snap.rev \in Nat
             /\ m.snap.cfg \in Configs \union {NoConfig}
  BY <1>2, ReceiveType DEF Request, Snapshot
<1>3. CASE StartWorker(e)
  <2> DEFINE w == [procs[e] EXCEPT !.phase = "ready"]
  <2> QED
    BY <1>3, <1>1, EmitType DEF StartWorker, WorkerTypeOK, WorkerState
<1>4. CASE Configure(e)
  <2> DEFINE r == IF m.snap.rev < procs[e].rev THEN procs[e].rev ELSE m.snap.rev
             w == [procs[e] EXCEPT !.phase = "running", !.listening = TRUE,
                     !.gen = m.snap.gen, !.cfg = m.snap.cfg, !.rev = r]
  <2>1. Receive(e, "configure")
    BY <1>4 DEF Configure
  <2>2. r \in Nat
    BY <1>1, <1>2, <2>1 DEF WorkerState
  <2>3. w \in WorkerState
    <3> HIDE DEF r, m
    <3> QED BY <1>1, <1>2, <2>1, <2>2 DEF WorkerState
  <2>4. procs' = [procs EXCEPT ![e] = w]
    BY <1>4 DEF Configure, WorkerTypeOK
  <2>5. procs' \in [Epochs -> WorkerState]
    <3> HIDE DEF w
    <3> QED BY <2>3, <2>4 DEF WorkerTypeOK
  <2> QED
    BY <1>2, <2>1, <1>4, <2>5, EmitType DEF WorkerTypeOK, Configure
<1>5. CASE ConfigureFails(e)
  BY <1>2, <1>5, FailWorkerType DEF WorkerTypeOK, ConfigureFails
<1>6. CASE ApplyAccountState(e)
  <2> DEFINE w == [procs[e] EXCEPT !.rev = m.rev]
  <2>1. Receive(e, "account-state")
    BY <1>6 DEF ApplyAccountState
  <2>2. w \in WorkerState
    <3> HIDE DEF m
    <3> QED BY <1>1, <1>2, <2>1 DEF WorkerState
  <2>3. procs' = [procs EXCEPT ![e] = w]
    BY <1>6 DEF ApplyAccountState, WorkerTypeOK
  <2>4. procs' \in [Epochs -> WorkerState]
    <3> HIDE DEF w
    <3> QED BY <2>2, <2>3 DEF WorkerTypeOK
  <2> QED
    BY <1>2, <2>1, <1>6, <1>1, <2>4, EmitType DEF WorkerTypeOK, ApplyAccountState, WorkerState
<1>7. CASE ApplyAccountStateFails(e)
  BY <1>2, <1>7, FailWorkerType DEF WorkerTypeOK, ApplyAccountStateFails
<1>8. CASE BeginDrain(e)
  <2> DEFINE p == IF procs[e].drains = {} /\ procs[e].phase # "drained"
                  THEN "draining" ELSE procs[e].phase
             d == procs[e].drains \union {m.id}
             w == [procs[e] EXCEPT !.phase = p, !.listening = FALSE, !.drains = d]
  <2>1. Receive(e, "drain")
    BY <1>8 DEF BeginDrain
  <2>2. d \in SUBSET Nat
    BY <1>1, <1>2, <2>1 DEF WorkerState
  <2>3. w \in WorkerState
    <3> HIDE DEF d
    <3> QED BY <1>1, <2>2 DEF WorkerState
  <2>4. procs' = [procs EXCEPT ![e] = w]
    BY <1>8 DEF BeginDrain, WorkerTypeOK
  <2>5. procs' \in [Epochs -> WorkerState]
    <3> HIDE DEF w
    <3> QED BY <2>3, <2>4 DEF WorkerTypeOK
  <2> QED
    BY <1>2, <1>8, <2>1, <2>5 DEF BeginDrain, WorkerTypeOK
<1>9. CASE Drained(e)
  <2>1. PICK id \in procs[e].drains :
          /\ procs' = [procs EXCEPT ![e].phase = "drained", ![e].drains = @ \ {id}]
          /\ Emit(e, "drained", id, procs[e].gen)
    BY <1>9 DEF Drained
  <2> DEFINE d == procs[e].drains \ {id}
             w == [procs[e] EXCEPT !.phase = "drained", !.drains = d]
  <2>2. id \in Nat /\ procs[e].gen \in Nat /\ d \in SUBSET Nat
    BY <1>1 DEF WorkerState
  <2>3. w \in WorkerState
    <3> HIDE DEF d
    <3> QED BY <1>1, <2>2 DEF WorkerState
  <2>4. procs' = [procs EXCEPT ![e] = w]
    BY <2>1 DEF WorkerTypeOK
  <2>5. procs' \in [Epochs -> WorkerState]
    <3> HIDE DEF w
    <3> QED BY <2>3, <2>4 DEF WorkerTypeOK
  <2> QED
    BY <1>9, <2>5, <2>1, <2>2, EmitType DEF Drained, WorkerTypeOK
<1>10. CASE Shutdown(e)
  <2> DEFINE w == [procs[e] EXCEPT !.stopping = TRUE, !.phase = "stopping",
                                   !.listening = FALSE]
  <2>1. w \in WorkerState
    BY <1>1 DEF WorkerState
  <2>2. procs' = procs \/ procs' = [procs EXCEPT ![e] = w]
    BY <1>10 DEF Shutdown, WorkerTypeOK
  <2>3. procs' \in [Epochs -> WorkerState]
    <3> HIDE DEF w
    <3> QED BY <2>1, <2>2 DEF WorkerTypeOK
  <2> QED
    BY <1>2, <1>10, <2>3 DEF Shutdown, WorkerTypeOK
<1>11. CASE UncaughtException(e)
  BY <1>11, FailWorkerType DEF UncaughtException, WorkerTypeOK
<1>12. CASE FinishProcess(e) \/ Signalled(e) \/ Crash(e)
  BY <1>12, DiesType DEF FinishProcess, Signalled, Crash
<1> QED
  BY <1>3, <1>4, <1>5, <1>6, <1>7, <1>8, <1>9, <1>10, <1>11, <1>12 DEF WorkerStep

------------------------
(* Type correctness of the manager: first what its helpers establish *)

LEMMA ConstantTypes ==
  /\ NoSnapshot \in Snapshot /\ NoOperation \in Operation
  /\ NoRecovery \in Recovery /\ NoCall \in Call /\ NoReply \in Reply
<1>1. NoSnapshot \in Snapshot
  BY DEF NoSnapshot, Snapshot
<1>2. NoOperation \in Operation
  BY <1>1 DEF NoOperation, Operation, Steps, MessageSteps, ExitSteps
<1> QED
  BY <1>1, <1>2 DEF NoRecovery, Recovery, NoCall, Call, NoReply, Reply, CallKinds

LEMMA AnswerType ==
  ASSUME call \in Call, reply \in Reply, NEW c \in Call, NEW ok \in BOOLEAN,
         phase' \in Phases, generation' \in Nat, lastSnapshot' \in Snapshot,
         Answer(c, ok)
  PROVE  call' \in Call /\ reply' \in Reply
<1>1. CASE c.kind = "none"
  BY <1>1 DEF Answer
<1>2. CASE c.kind # "none"
  BY <1>2, ConstantTypes DEF Answer, Reply, Snapshot, Call
<1> QED
  BY <1>1, <1>2

LEMMA SettleType ==
  ASSUME TypeOK, NEW ok \in BOOLEAN,
         phase' \in Phases, generation' \in Nat, lastSnapshot' \in Snapshot, Settle(ok)
  PROVE  /\ operation' \in Operation /\ call' \in Call /\ reply' \in Reply
         /\ accountReady' \in SUBSET Nat /\ accountWaiting' \in SUBSET Nat
         /\ closing' \in {"no", "requested", "active", "retry", "done"}
         /\ recovery' \in Recovery
<1> QED
  BY AnswerType, ConstantTypes DEF Settle, TypeOK, Recovery

LEMMA SendType ==
  ASSUME WorkerTypeOK, NEW id \in Nat, NEW snap \in Snapshot, NEW rev \in Nat,
         NEW type \in {"configure", "account-state", "drain", "shutdown"},
         Send(type, id, snap, rev)
  PROVE  toWorker' \in [Epochs -> Seq(Request)]
<1> DEFINE r == [type |-> type, id |-> id, snap |-> snap, rev |-> rev]
<1>1. r \in Request
  BY DEF Request
<1>2. \A e \in Epochs : Append(toWorker[e], r) \in Seq(Request)
  BY <1>1 DEF WorkerTypeOK
<1> QED
  BY <1>2 DEF Send, WorkerTypeOK

LEMMA TerminateType ==
  ASSUME WorkerTypeOK, NEW o \in Operation, NEW isExited \in BOOLEAN,
         Terminate(o, isExited)
  PROVE  operation' \in Operation /\ procs' \in [Epochs -> WorkerState]
<1>1. \A e \in Epochs : [procs[e] EXCEPT !.signalled = TRUE] \in WorkerState
  BY DEF WorkerTypeOK, WorkerState
<1> QED
  BY <1>1 DEF Terminate, Operation, Steps, ExitSteps, WorkerTypeOK

LEMMA ReleaseType ==
  ASSUME WorkerTypeOK, Release
  PROVE  /\ child' \in 0..MaxEpoch /\ expectedExit' \in BOOLEAN
         /\ toManager' \in [Epochs -> Seq(Message)]
<1>1. 0 \in 0..MaxEpoch
  BY BoundsAssumption
<1>2. <<>> \in Seq(Message)
  OBVIOUS
<1> QED
  BY <1>1, <1>2 DEF Release, WorkerTypeOK

LEMMA ForkType ==
  ASSUME TypeOK, NEW c \in Call, NEW snap \in Snapshot, NEW recovers \in BOOLEAN,
         Fork(c, snap, recovers)
  PROVE  /\ phase' \in Phases /\ child' \in 0..MaxEpoch /\ epoch' \in 0..MaxEpoch
         /\ childExited' \in BOOLEAN /\ expectedExit' \in BOOLEAN
         /\ procs' \in [Epochs -> WorkerState]
         /\ requestSequence' \in Nat /\ operation' \in Operation
         /\ call' \in Call /\ reply' \in Reply
         /\ UNCHANGED <<accountWaiting, accountReady, closing>>
<1>1. epoch + 1 \in 0..MaxEpoch
  BY BoundsAssumption DEF Fork, TypeOK
<1>2. Forked \in WorkerState
  BY DEF Forked, NoWorker, WorkerState
<1>3. requestSequence' \in Nat
  BY DEF Fork, TypeOK
<1> QED
  BY <1>1, <1>2, <1>3, ConstantTypes DEF Fork, Phases, TypeOK, WorkerTypeOK, Operation, Steps,
     MessageSteps

LEMMA ForkFailsType ==
  ASSUME TypeOK, NEW c \in Call, generation' \in Nat, lastSnapshot' \in Snapshot,
         ForkFails(c)
  PROVE  /\ phase' \in Phases /\ child' \in 0..MaxEpoch /\ expectedExit' \in BOOLEAN
         /\ operation' \in Operation /\ call' \in Call /\ reply' \in Reply
         /\ accountWaiting' \in SUBSET Nat
         /\ UNCHANGED <<epoch, childExited, procs, requestSequence, accountReady, closing>>
<1>1. phase' \in Phases /\ 0 \in 0..MaxEpoch
  BY BoundsAssumption DEF ForkFails, Phases
<1> QED
  BY <1>1, AnswerType, ConstantTypes DEF ForkFails, TypeOK

LEMMA ThrownType ==
  ASSUME TypeOK, NEW isExited \in BOOLEAN,
         phase' \in Phases, generation' \in Nat, lastSnapshot' \in Snapshot,
         Thrown(isExited)
  PROVE  /\ operation' \in Operation /\ call' \in Call /\ reply' \in Reply
         /\ accountReady' \in SUBSET Nat /\ accountWaiting' \in SUBSET Nat
         /\ closing' \in {"no", "requested", "active", "retry", "done"}
         /\ recovery' \in Recovery /\ expectedExit' \in BOOLEAN
         /\ procs' \in [Epochs -> WorkerState]
<1>1. WorkerTypeOK /\ operation \in Operation
  BY DEF TypeOK
<1>2. CASE operation.fn = "start" \/ operation.fn = "stop"
  BY <1>1, <1>2, TerminateType DEF callerVars, TypeOK, Thrown
<1>3. CASE ~(operation.fn = "start" \/ operation.fn = "stop")
  BY <1>1, <1>3, SettleType DEF TypeOK, WorkerTypeOK, Thrown
<1> QED
  BY <1>2, <1>3

LEMMA ScheduleRecoveryType ==
  ASSUME TypeOK, ScheduleRecovery
  PROVE  crashTimes' \in Nat /\ phase' \in Phases /\ recovery' \in Recovery
<1>1. PICK kept \in 0..crashTimes :
        /\ crashTimes' = kept + 1
        /\ IF kept + 1 >= CrashLimit
           THEN phase' = "failed" /\ recovery' = NoRecovery
           ELSE phase' = "backoff" /\ recovery' = [stage |-> "timer", snap |-> lastSnapshot]
  BY DEF ScheduleRecovery
<1> QED
  BY <1>1, ConstantTypes DEF TypeOK, Recovery, Phases

LEMMA RecoveryCaughtType ==
  ASSUME TypeOK, NEW attempted \in BOOLEAN, RecoveryCaught(attempted)
  PROVE  crashTimes' \in Nat /\ phase' \in Phases /\ recovery' \in Recovery
BY ScheduleRecoveryType, ConstantTypes DEF RecoveryCaught, TypeOK

------------------------
(* Type correctness of the manager: its actions *)

LEMMA SnapshotsType ==
  ASSUME NEW snap \in Snapshots PROVE snap \in Snapshot
BY DEF Snapshots, Snapshot

LEMMA InitType == Init => TypeOK
<1> SUFFICES ASSUME Init PROVE TypeOK
  OBVIOUS
<1>1. WorkerTypeOK
  BY DEF Init, WorkerInit, WorkerTypeOK, NoWorker, WorkerState
<1>2. 0 \in 0..MaxEpoch
  BY BoundsAssumption
<1> QED
  BY <1>1, <1>2, ConstantTypes DEF Init, TypeOK, Phases

LEMMA JoinType ==
  ASSUME TypeOK, NEW kind \in CallKinds, NEW want \in Snapshot, Join(kind, want)
  PROVE  TypeOK'
<1>1. [kind |-> kind, want |-> want] \in Call
  BY DEF Call
<1> QED
  BY <1>1, ConstantTypes DEF Join, lifeVars, callFrame, factVars, workerVars, TypeOK,
     WorkerTypeOK, Reply

LEMMA AnswerNowType ==
  ASSUME TypeOK, NEW kind \in CallKinds, NEW want \in Snapshot, NEW ok \in BOOLEAN,
         phase' \in Phases, recovery' \in Recovery, AnswerNow(kind, want, ok)
  PROVE  TypeOK'
<1> QED
  BY AnswerType DEF AnswerNow, callFrame, factVars, workerVars, TypeOK, WorkerTypeOK, Call

LEMMA BeginStartType ==
  ASSUME TypeOK, NEW kind \in CallKinds, NEW snap \in Snapshot, recovery' \in Recovery,
         BeginStart(kind, snap)
  PROVE  TypeOK'
<1> DEFINE c == [kind |-> kind, want |-> snap]
<1>1. c \in Call
  BY DEF Call
<1>2. UNCHANGED <<callFrame, toWorker, toManager>>
  BY DEF BeginStart
<1>3. CASE Fork(c, snap, FALSE)
  BY <1>1, <1>2, <1>3, ForkType DEF callFrame, factVars, TypeOK, WorkerTypeOK
<1>4. CASE ForkFails(c)
  BY <1>1, <1>2, <1>4, ForkFailsType DEF callFrame, factVars, TypeOK, WorkerTypeOK
<1> QED
  BY <1>3, <1>4 DEF BeginStart

LEMMA BeginApplyType ==
  ASSUME TypeOK, NEW snap \in Snapshot, BeginApply(snap)
  PROVE  TypeOK'
<1> DEFINE c == [kind |-> "apply", want |-> snap]
<1>1. c \in Call
  BY DEF Call, CallKinds
<1>2. UNCHANGED <<phase, generation, lastSnapshot>> /\ requestSequence + 1 \in Nat
  BY DEF BeginApply, lifeVars, callFrame, factVars, TypeOK
<1>3. operation' \in Operation
  BY <1>2, ConstantTypes DEF BeginApply, TypeOK, Operation, Steps, MessageSteps
<1>4. call' \in Call /\ reply' \in Reply
  BY <1>1, <1>2, AnswerType, ConstantTypes DEF BeginApply, TypeOK
<1> QED
  BY <1>2, <1>3, <1>4, SendType DEF BeginApply, lifeVars, callFrame, factVars, TypeOK,
     WorkerTypeOK, SendFails

LEMMA BeginStopType ==
  ASSUME TypeOK, NEW kind \in CallKinds, NEW snap \in Snapshot, recovery' \in Recovery,
         BeginStop(kind, snap)
  PROVE  TypeOK'
<1> DEFINE op == [NoOperation EXCEPT !.fn = "stop", !.step = "drained", !.snap = snap,
                     !.id = requestSequence + 1, !.restart = (kind = "restart")]
           failed == [op EXCEPT !.drainFailed = TRUE]
<1>1. requestSequence + 1 \in Nat
  BY DEF TypeOK
<1>2. op \in Operation
  BY <1>1, ConstantTypes DEF Operation, Steps, MessageSteps
<1>3. failed \in Operation
  <2> HIDE DEF op
  <2> QED BY <1>2 DEF Operation
<1>4. \/ Send("drain", requestSequence + 1, NoSnapshot, 0) /\ operation' = op /\ UNCHANGED procs
      \/ SendFails /\ Terminate(failed, childExited)
  BY DEF BeginStop
<1>5. /\ toWorker' \in [Epochs -> Seq(Request)]
      /\ operation' \in Operation /\ procs' \in [Epochs -> WorkerState]
  <2> HIDE DEF op, failed
  <2>1. WorkerTypeOK /\ childExited \in BOOLEAN
    BY DEF TypeOK
  <2>2. CASE Send("drain", requestSequence + 1, NoSnapshot, 0) /\ operation' = op /\ UNCHANGED procs
    BY <1>1, <1>2, <2>1, <2>2, SendType, ConstantTypes DEF WorkerTypeOK
  <2>3. CASE SendFails /\ Terminate(failed, childExited)
    BY <1>3, <2>1, <2>3, TerminateType DEF SendFails, WorkerTypeOK
  <2> QED BY <1>4, <2>2, <2>3
<1> QED
  BY <1>1, <1>5, ConstantTypes DEF BeginStop, callFrame, factVars, TypeOK, WorkerTypeOK, Phases,
     Call

LEMMA SubmitType ==
  ASSUME TypeOK, NEW rev \in Nat, SubmitAccountState(rev)
  PROVE  /\ operation' \in Operation /\ requestSequence' \in Nat
         /\ accountWaiting' \in SUBSET Nat /\ toWorker' \in [Epochs -> Seq(Request)]
<1>1. requestSequence + 1 \in Nat /\ WorkerTypeOK
  BY DEF TypeOK
<1>2. CASE UNCHANGED <<operation, requestSequence, accountWaiting, toWorker>>
  BY <1>2 DEF TypeOK, WorkerTypeOK
<1>3. CASE /\ accountWaiting' = accountWaiting \union {rev}
           /\ UNCHANGED <<operation, requestSequence, toWorker>>
  BY <1>3 DEF TypeOK, WorkerTypeOK
<1>4. CASE /\ requestSequence' = requestSequence + 1
           /\ Send("account-state", requestSequence + 1, NoSnapshot, rev)
           /\ operation' = [NoOperation EXCEPT !.fn = "account", !.rev = rev,
                             !.step = "account-state-applied", !.id = requestSequence + 1]
           /\ UNCHANGED accountWaiting
  BY <1>1, <1>4, ConstantTypes, SendType DEF TypeOK, Operation, Steps, MessageSteps
<1>5. CASE /\ requestSequence' = requestSequence + 1
           /\ SendFails /\ UNCHANGED <<operation, accountWaiting>>
  BY <1>1, <1>5 DEF SendFails, TypeOK, WorkerTypeOK
<1> QED
  BY <1>2, <1>3, <1>4, <1>5 DEF SubmitAccountState

\* The calls of the ProviderService, the monitor and the shutdown.
LEMMA CallerStepType == TypeOK /\ CallerStep => TypeOK'
<1> SUFFICES ASSUME TypeOK, CallerStep PROVE TypeOK'
  OBVIOUS
<1>1. /\ phase \in Phases /\ "stopped" \in Phases
      /\ recovery \in Recovery /\ NoRecovery \in Recovery
  BY ConstantTypes DEF TypeOK, Phases
<1>2. ASSUME NEW snap \in Snapshots, Start(snap) PROVE TypeOK'
  <2>1. snap \in Snapshot /\ "start" \in CallKinds
    BY SnapshotsType DEF CallKinds
  <2>2. CASE Join("start", snap)
    BY <2>1, <2>2, JoinType
  <2>3. CASE UNCHANGED <<phase, recovery>> /\ AnswerNow("start", snap, phase = "running")
    BY <1>1, <2>1, <2>3, AnswerNowType
  <2>4. CASE BeginStart("start", snap) /\ UNCHANGED recovery
    BY <1>1, <2>1, <2>4, BeginStartType
  <2> QED
    BY <1>2, <2>2, <2>3, <2>4 DEF Start
<1>3. ASSUME NEW snap \in Snapshots, ApplySnapshot(snap) PROVE TypeOK'
  <2>1. snap \in Snapshot /\ "apply" \in CallKinds
    BY SnapshotsType DEF CallKinds
  <2>2. CASE Join("apply", snap)
    BY <2>1, <2>2, JoinType
  <2>3. CASE UNCHANGED <<phase, recovery>> /\ AnswerNow("apply", snap, FALSE)
    BY <1>1, <2>1, <2>3, AnswerNowType
  <2>4. CASE BeginApply(snap)
    BY <2>1, <2>4, BeginApplyType
  <2> QED
    BY <1>3, <2>2, <2>3, <2>4 DEF ApplySnapshot
<1>4. ASSUME NEW snap \in Snapshots, Restart(snap) PROVE TypeOK'
  <2>1. snap \in Snapshot /\ "restart" \in CallKinds
    BY SnapshotsType DEF CallKinds
  <2>2. CASE Join("restart", snap)
    BY <2>1, <2>2, JoinType
  <2>3. CASE recovery' = NoRecovery /\ BeginStop("restart", snap)
    BY <1>1, <2>1, <2>3, BeginStopType
  <2>4. CASE recovery' = NoRecovery /\ BeginStart("restart", snap)
    BY <1>1, <2>1, <2>4, BeginStartType
  <2> QED
    BY <1>4, <2>2, <2>3, <2>4 DEF Restart
<1>5. CASE Stop
  <2>1. NoSnapshot \in Snapshot /\ "stop" \in CallKinds
    BY ConstantTypes DEF CallKinds
  <2>2. CASE Join("stop", NoSnapshot)
    BY <2>1, <2>2, JoinType
  <2>3. CASE /\ phase' = "stopped" /\ recovery' = NoRecovery
             /\ AnswerNow("stop", NoSnapshot, TRUE)
    BY <1>1, <2>1, <2>3, AnswerNowType
  <2>4. CASE BeginStop("stop", NoSnapshot) /\ UNCHANGED recovery
    BY <1>1, <2>1, <2>4, BeginStopType
  <2> QED
    BY <1>5, <2>2, <2>3, <2>4 DEF Stop
<1>6. CASE AccountStateChanges
  BY <1>6, SubmitType DEF AccountStateChanges, accountFrame, lifeVars, factVars, TypeOK,
     WorkerTypeOK
<1>7. CASE Close
  BY <1>1, <1>7
     DEF Close, lifeVars, factVars, callerVars, workerVars, TypeOK, WorkerTypeOK
<1> QED
  BY <1>2, <1>3, <1>4, <1>5, <1>6, <1>7 DEF CallerStep

\* Reactions to a promise that has settled.
LEMMA MicrotaskType == TypeOK /\ Microtask => TypeOK'
<1> SUFFICES ASSUME TypeOK, Microtask PROVE TypeOK'
  OBVIOUS
<1>1. CASE ResubmitAccountState
  <2>1. PICK rev \in accountReady :
          accountReady' = accountReady \ {rev} /\ SubmitAccountState(rev)
    BY <1>1 DEF ResubmitAccountState
  <2> QED
    BY <1>1, <2>1, SubmitType DEF ResubmitAccountState, accountFrame, lifeVars, factVars,
       TypeOK, WorkerTypeOK
<1>2. CASE RecoveryRejected
  BY <1>2, RecoveryCaughtType
     DEF RecoveryRejected, recoveryFrame, factVars, callerVars, workerVars, TypeOK,
         WorkerTypeOK
<1>3. CASE PerformClose
  <2> DEFINE o == [NoOperation EXCEPT !.fn = "close"]
  <2>1. /\ operation' \in Operation /\ procs' \in [Epochs -> WorkerState]
        /\ phase' \in Phases /\ expectedExit' \in BOOLEAN
        /\ closing' \in {"no", "requested", "active", "retry", "done"}
    <3>1. CASE child # 0
      <4> HIDE DEF o
      <4> QED BY <1>3, <3>1, ConstantTypes, TerminateType DEF TypeOK, PerformClose, o, Operation
    <3>2. CASE child = 0
      BY <1>3, <3>2 DEF PerformClose, Phases, TypeOK, WorkerTypeOK
    <3> QED BY <3>1, <3>2
  <2> QED
    BY <1>3, <2>1 DEF PerformClose, factVars, callerVars, TypeOK, WorkerTypeOK
<1> QED
  BY <1>1, <1>2, <1>3 DEF Microtask

\* Timers, probes of the port and the health check.
LEMMA OperationEventType == TypeOK /\ OperationEvent => TypeOK'
<1> SUFFICES ASSUME TypeOK, OperationEvent PROVE TypeOK'
  OBVIOUS
<1>1. ASSUME Thrown(childExited),
             UNCHANGED <<messageFrame, factVars, requestSequence, toWorker, toManager>>
      PROVE  TypeOK'
  BY <1>1, ThrownType DEF messageFrame, factVars, TypeOK, WorkerTypeOK
<1>2. CASE MessageTimeout \/ HealthFails
  BY <1>1, <1>2 DEF MessageTimeout, HealthFails
<1>3. CASE Started
  BY <1>3, SettleType DEF Started, workerVars, TypeOK, WorkerTypeOK, Phases, Operation, Snapshot
<1>4. CASE ExitTimeout
  <2> DEFINE w == [procs[epoch] EXCEPT !.signalled = TRUE]
             o == [operation EXCEPT !.step = IF @ = "exit" THEN "term" ELSE "kill"]
  <2>1. \A e \in Epochs : [procs[e] EXCEPT !.signalled = TRUE] \in WorkerState
    BY DEF TypeOK, WorkerTypeOK, WorkerState
  <2> QED
    BY <1>4, <2>1 DEF ExitTimeout, lifeVars, factVars, callerVars, TypeOK, WorkerTypeOK,
       Operation, Steps, ExitSteps
<1>5. CASE KillTimeout
  BY <1>5, SettleType DEF KillTimeout, factVars, workerVars, Phases, TypeOK, WorkerTypeOK
<1>6. ASSUME NEW free \in BOOLEAN, PortChecked(free) PROVE TypeOK'
  <2> DEFINE ok == free /\ operation.fn # "start" /\ ~operation.drainFailed
  <2> HIDE DEF ok
  <2> QED
    BY <1>6, SettleType, ReleaseType DEF PortChecked, factVars, TypeOK, WorkerTypeOK, Phases,
       Operation
<1>7. CASE RestartForks
  <2>1. call \in Call /\ operation.snap \in Snapshot /\ <<>> \in Seq(Message)
    BY DEF TypeOK, Operation
  <2>2. UNCHANGED <<callFrame, recovery, toWorker>>
        /\ toManager' \in [Epochs -> Seq(Message)]
    BY <1>7, <2>1 DEF RestartForks, TypeOK, WorkerTypeOK
  <2>3. CASE Fork(call, operation.snap, FALSE)
    BY <2>1, <2>2, <2>3, ForkType DEF callFrame, factVars, TypeOK, WorkerTypeOK
  <2>4. CASE ForkFails(call)
    BY <2>1, <2>2, <2>4, ForkFailsType DEF callFrame, factVars, TypeOK, WorkerTypeOK
  <2> QED
    BY <1>7, <2>3, <2>4 DEF RestartForks
<1> QED
  BY <1>2, <1>3, <1>4, <1>5, <1>6, <1>7 DEF OperationEvent

LEMMA IncomingType ==
  ASSUME WorkerTypeOK, Incoming
  PROVE  toManager' \in [Epochs -> Seq(Message)]
<1>1. ASSUME epoch \in Epochs PROVE Tail(toManager[epoch]) \in Seq(Message)
  BY <1>1 DEF Incoming, WorkerTypeOK
<1> QED
  BY <1>1 DEF Incoming, WorkerTypeOK

\* What the child says, and how it ends.
LEMMA ChildEventType == TypeOK /\ ChildEvent => TypeOK'
<1> SUFFICES ASSUME TypeOK, ChildEvent PROVE TypeOK'
  OBVIOUS
<1>1. /\ WorkerTypeOK /\ childExited \in BOOLEAN
      /\ operation \in Operation /\ operation.snap \in Snapshot
      /\ operation.snap.gen \in Nat /\ operation.snap.rev \in Nat
      /\ operation.snap.cfg \in Configs \union {NoConfig}
      /\ operation.rev \in Nat /\ operation.id \in Nat
  BY DEF TypeOK, Operation, Snapshot
<1>2. ASSUME Incoming PROVE toManager' \in [Epochs -> Seq(Message)]
  BY <1>1, <1>2, IncomingType
<1>3. ASSUME NEW step \in Steps
      PROVE  [operation EXCEPT !.step = step] \in Operation
  BY <1>1, <1>3 DEF Operation
<1>4. CASE OnReady
  <2>1. phase' \in Phases /\ generation' \in Nat /\ lastSnapshot' \in Snapshot
        /\ Incoming /\ UNCHANGED <<messageFrame, factVars, requestSequence>>
    BY <1>4 DEF OnReady, messageFrame, factVars, TypeOK
  <2>2. CASE /\ Send("configure", operation.id, operation.snap, 0)
             /\ operation' = [operation EXCEPT !.step = "configured"]
             /\ UNCHANGED <<expectedExit, callerVars, closing, recovery, procs>>
    <3>1. operation' \in Operation
      BY <1>3, <2>2 DEF Steps, MessageSteps
    <3> QED
      BY <1>2, <2>1, <2>2, <3>1, <1>1, SendType DEF messageFrame, factVars, callerVars, TypeOK,
         WorkerTypeOK
  <2>3. CASE SendFails /\ Thrown(childExited)
    BY <1>1, <1>2, <2>1, <2>3, ThrownType
       DEF messageFrame, factVars, SendFails, TypeOK, WorkerTypeOK
  <2> QED
    BY <1>4, <2>2, <2>3 DEF OnReady
<1>5. CASE OnStartConfigured
  BY <1>2, <1>5, <1>3 DEF OnStartConfigured, messageFrame, factVars, callerVars, TypeOK,
     WorkerTypeOK, Steps
<1>6. CASE OnApplyConfigured
  BY <1>2, <1>6, <1>1, SettleType DEF OnApplyConfigured, messageFrame, TypeOK, WorkerTypeOK,
     Snapshot
<1>7. CASE OnAccountStateApplied
  BY <1>2, <1>7, <1>1, SettleType DEF OnAccountStateApplied, messageFrame, TypeOK, WorkerTypeOK,
     Snapshot
<1>8. CASE OnDrained
  <2>1. phase' \in Phases /\ generation' \in Nat /\ lastSnapshot' \in Snapshot
        /\ Incoming /\ UNCHANGED <<messageFrame, factVars>>
    BY <1>8 DEF OnDrained, messageFrame, factVars, TypeOK
  <2>2. CASE /\ requestSequence' = requestSequence + 1
             /\ \/ /\ Send("shutdown", requestSequence + 1, NoSnapshot, 0)
                   /\ operation' = [operation EXCEPT !.step = "exit"]
                   /\ UNCHANGED procs
                \/ SendFails /\ Terminate(operation, childExited)
             /\ UNCHANGED <<expectedExit, callerVars, closing, recovery>>
    <3>1. requestSequence' \in Nat /\ requestSequence + 1 \in Nat
      BY <2>2 DEF TypeOK
    <3>2. CASE /\ Send("shutdown", requestSequence + 1, NoSnapshot, 0)
               /\ operation' = [operation EXCEPT !.step = "exit"]
               /\ UNCHANGED procs
      <4>1. operation' \in Operation
        BY <1>3, <3>2 DEF Steps, ExitSteps
      <4>2. toWorker' \in [Epochs -> Seq(Request)]
        BY <1>1, <3>1, <3>2, SendType, ConstantTypes
      <4> QED
        BY <1>2, <2>1, <2>2, <3>1, <3>2, <4>1, <4>2
           DEF messageFrame, factVars, callerVars, TypeOK, WorkerTypeOK
    <3>3. CASE SendFails /\ Terminate(operation, childExited)
      BY <1>1, <1>2, <2>1, <2>2, <3>1, <3>3, TerminateType
         DEF messageFrame, factVars, callerVars, SendFails, TypeOK, WorkerTypeOK
    <3> QED
      BY <2>2, <3>2, <3>3
  <2>3. CASE UNCHANGED <<requestSequence, toWorker>> /\ Thrown(childExited)
    BY <1>1, <1>2, <2>1, <2>3, ThrownType
       DEF messageFrame, factVars, TypeOK, WorkerTypeOK
  <2> QED
    BY <1>8, <2>2, <2>3 DEF OnDrained
<1>9. CASE OnFatal
  <2>1. phase' \in Phases /\ generation' \in Nat /\ lastSnapshot' \in Snapshot
        /\ Incoming /\ UNCHANGED <<messageFrame, factVars, requestSequence, toWorker>>
    BY <1>9 DEF OnFatal, messageFrame, factVars, TypeOK
  <2>2. CASE Thrown(childExited)
    BY <1>1, <1>2, <2>1, <2>2, ThrownType DEF messageFrame, factVars, TypeOK, WorkerTypeOK
  <2>3. CASE UNCHANGED <<expectedExit, operation, procs, callerVars, closing, recovery>>
    BY <1>2, <2>1, <2>3 DEF messageFrame, factVars, callerVars, TypeOK, WorkerTypeOK
  <2> QED
    BY <1>9, <2>2, <2>3 DEF OnFatal
<1>10. CASE OnUnawaited
  BY <1>2, <1>10
     DEF OnUnawaited, managerVars, lifeVars, factVars, callerVars, TypeOK, WorkerTypeOK
<1>11. CASE HealthAnswers
  BY <1>11, <1>3 DEF HealthAnswers, lifeVars, factVars, callerVars, workerVars, TypeOK,
     WorkerTypeOK, Steps
<1>12. CASE ChildCrashed
  BY <1>12, <1>1, ScheduleRecoveryType, AnswerType, ReleaseType, ConstantTypes DEF ChildCrashed,
     factVars, TypeOK, WorkerTypeOK
<1>13. CASE ChildExits
  <2>1. /\ phase' \in Phases /\ generation' \in Nat /\ lastSnapshot' \in Snapshot
        /\ childExited' \in BOOLEAN
        /\ UNCHANGED <<phase, child, epoch, factVars, crashTimes, requestSequence,
                       accountRoutingRevision, toWorker, toManager>>
    BY <1>13 DEF ChildExits, factVars, TypeOK
  <2>2. CASE Thrown(TRUE)
    BY <1>1, <2>1, <2>2, ThrownType DEF factVars, TypeOK, WorkerTypeOK
  <2>3. CASE /\ operation' = IF operation.step \in ExitSteps
                             THEN [operation EXCEPT !.step = "port"] ELSE operation
             /\ UNCHANGED <<expectedExit, callerVars, closing, recovery, procs>>
    BY <2>1, <2>3, <1>1, <1>3 DEF factVars, callerVars, TypeOK, WorkerTypeOK, Steps
  <2> QED
    BY <1>13, <2>2, <2>3 DEF ChildExits
<1> QED
  BY <1>4, <1>5, <1>6, <1>7, <1>8, <1>9, <1>10, <1>11, <1>12, <1>13 DEF ChildEvent

\* The chain of a crash recovery.
LEMMA RecoveryEventType == TypeOK /\ RecoveryEvent => TypeOK'
<1> SUFFICES ASSUME TypeOK, RecoveryEvent PROVE TypeOK'
  OBVIOUS
<1>1. \A stage \in {"port", "gate", "attempt", "rejected"} :
        [recovery EXCEPT !.stage = stage] \in Recovery
  BY DEF TypeOK, Recovery
<1>2. ASSUME crashTimes' \in Nat, phase' \in Phases, recovery' \in Recovery,
             UNCHANGED recoveryFrame
      PROVE  TypeOK'
  BY <1>2 DEF recoveryFrame, factVars, callerVars, workerVars, TypeOK, WorkerTypeOK
<1>3. CASE RecoveryTimer
  BY <1>1, <1>2, <1>3, ConstantTypes DEF RecoveryTimer, TypeOK
<1>4. ASSUME NEW free \in BOOLEAN, RecoveryPort(free) PROVE TypeOK'
  BY <1>1, <1>2, <1>4, ConstantTypes, RecoveryCaughtType DEF RecoveryPort, TypeOK
<1>5. CASE RecoveryNotReady
  BY <1>2, <1>5, RecoveryCaughtType DEF RecoveryNotReady
<1>6. CASE RecoveryObsolete
  BY <1>2, <1>6, ConstantTypes DEF RecoveryObsolete, TypeOK
<1>7. CASE RecoveryStarts
  <2>1. /\ recovery' \in Recovery /\ recovery.snap \in Snapshot /\ NoCall \in Call
        /\ generation' \in Nat /\ lastSnapshot' \in Snapshot
        /\ UNCHANGED <<factVars, crashTimes, accountRoutingRevision, toWorker, toManager>>
    BY <1>1, <1>7, ConstantTypes DEF RecoveryStarts, factVars, TypeOK, Recovery
  <2>2. CASE Fork(NoCall, recovery.snap, TRUE)
    BY <2>1, <2>2, ForkType DEF factVars, TypeOK, WorkerTypeOK
  <2>3. CASE ForkFails(NoCall)
    BY <2>1, <2>3, ForkFailsType DEF factVars, TypeOK, WorkerTypeOK
  <2> QED
    BY <1>7, <2>2, <2>3 DEF RecoveryStarts
<1> QED
  BY <1>3, <1>4, <1>5, <1>6, <1>7 DEF RecoveryEvent

LEMMA NextType == TypeOK /\ [Next]_vars => TypeOK'
<1> SUFFICES ASSUME TypeOK, [Next]_vars PROVE TypeOK'
  OBVIOUS
<1>1. CASE ManagerStep
  BY <1>1, MicrotaskType, OperationEventType, ChildEventType, RecoveryEventType
     DEF ManagerStep
<1>2. CASE CallerStep
  BY <1>2, CallerStepType
<1>3. CASE ProcessStep
  BY <1>3, WorkerStepType DEF ProcessStep, managerVars, lifeVars, factVars, callerVars, TypeOK
<1>4. CASE UNCHANGED vars
  BY <1>4 DEF vars, managerVars, lifeVars, factVars, callerVars, workerVars, TypeOK,
              WorkerTypeOK
<1> QED
  BY <1>1, <1>2, <1>3, <1>4 DEF Next

\* Every variable of the manager and of the Worker processes keeps its type.
THEOREM TypeCorrect == Spec => []TypeOK
<1> QED
  BY InitType, NextType, PTL DEF Spec

------------------------
(* The Worker processes.  A fork needs to know that the processes of the     *)
(* earlier epochs are dead; the manager never looks at them, it relies on    *)
(* where the operation stands and on the phase.                              *)

OneWorkerInv ==
  /\ child \in {0, epoch}
  /\ NoOrphan
  /\ phase = "stopped" => child = 0
  /\ operation.step = "port" => childExited \/ child = 0

\* No process starts to live in this step.
NoneBorn == \A e \in Epochs : procs'[e].alive => procs[e].alive

LEMMA KeepsOneWorker ==
  ASSUME OneWorkerInv, UNCHANGED <<child, epoch, childExited>>, NoneBorn,
         phase' = "stopped" => phase = "stopped" \/ child = 0,
         operation'.step = "port" => operation.step = "port" \/ childExited
  PROVE  OneWorkerInv'
BY DEF OneWorkerInv, NoOrphan, NoneBorn

LEMMA WorkerStepBearsNone ==
  ASSUME WorkerTypeOK, NEW e \in Epochs, WorkerStep(e)
  PROVE  NoneBorn
<1> USE DEF NoneBorn, WorkerTypeOK, WorkerState
<1>1. ASSUME NEW id, FailWorker(e, id) PROVE NoneBorn
  <2> DEFINE w == [procs[e] EXCEPT !.phase = "failed", !.stopping = TRUE,
                                   !.listening = FALSE]
  <2>1. w.alive = procs[e].alive
    OBVIOUS
  <2> HIDE DEF w
  <2> QED
    BY <2>1, <1>1 DEF FailWorker
<1>2. ASSUME Dies(e) PROVE NoneBorn
  BY <1>2 DEF Dies, NoWorker
<1>3. CASE StartWorker(e)
  BY <1>3 DEF StartWorker
<1>4. CASE Configure(e)
  BY <1>4 DEF Configure
<1>5. CASE ConfigureFails(e) \/ ApplyAccountStateFails(e) \/ UncaughtException(e)
  BY <1>1, <1>5 DEF ConfigureFails, ApplyAccountStateFails, UncaughtException
<1>6. CASE ApplyAccountState(e)
  BY <1>6 DEF ApplyAccountState
<1>7. CASE BeginDrain(e)
  BY <1>7 DEF BeginDrain
<1>8. CASE Drained(e)
  BY <1>8 DEF Drained
<1>9. CASE Shutdown(e)
  BY <1>9 DEF Shutdown
<1>10. CASE FinishProcess(e) \/ Signalled(e) \/ Crash(e)
  BY <1>2, <1>10 DEF FinishProcess, Signalled, Crash
<1> QED
  BY <1>3, <1>4, <1>5, <1>6, <1>7, <1>8, <1>9, <1>10 DEF WorkerStep

LEMMA TerminateBearsNone ==
  ASSUME WorkerTypeOK, NEW o, NEW isExited \in BOOLEAN, Terminate(o, isExited)
  PROVE  NoneBorn
BY DEF Terminate, NoneBorn, WorkerTypeOK, WorkerState

LEMMA TerminateStep ==
  ASSUME NEW o \in Operation, NEW isExited \in BOOLEAN, Terminate(o, isExited)
  PROVE  operation'.step = "port" => isExited
BY DEF Terminate, Operation

LEMMA SettleStep ==
  ASSUME NEW ok, Settle(ok) PROVE operation'.step = "none"
BY DEF Settle, NoOperation

LEMMA ThrownBearsNone ==
  ASSUME TypeOK, NEW isExited \in BOOLEAN, Thrown(isExited)
  PROVE  NoneBorn /\ (operation'.step = "port" => isExited)
<1>1. CASE operation.fn = "start" \/ operation.fn = "stop"
  BY <1>1, TerminateBearsNone, TerminateStep DEF Thrown, TypeOK
<1>2. CASE ~(operation.fn = "start" \/ operation.fn = "stop")
  BY <1>2, SettleStep DEF Thrown, NoneBorn
<1> QED
  BY <1>1, <1>2

\* A child that was forgotten or has exited leaves no process alive.
LEMMA NoneAlive ==
  ASSUME OneWorkerInv, child = 0 \/ childExited
  PROVE  \A e \in Epochs : ~procs[e].alive
BY DEF OneWorkerInv, NoOrphan, Epochs

LEMMA ForkKeepsOneWorker ==
  ASSUME TypeOK, OneWorkerInv, child = 0 \/ childExited,
         NEW c, NEW snap, NEW recovers, Fork(c, snap, recovers)
  PROVE  OneWorkerInv'
<1> QED
  BY NoneAlive DEF OneWorkerInv, NoOrphan, Fork, TypeOK, WorkerTypeOK, NoOperation

LEMMA ForkFailsKeepsOneWorker ==
  ASSUME OneWorkerInv, child = 0 \/ childExited, NEW c, ForkFails(c)
  PROVE  OneWorkerInv'
<1> QED
  BY NoneAlive DEF ForkFails, NoOperation, OneWorkerInv, NoOrphan

LEMMA BeginStartKeepsOneWorker ==
  ASSUME TypeOK, OneWorkerInv, child = 0, NEW kind, NEW snap, BeginStart(kind, snap)
  PROVE  OneWorkerInv'
BY ForkKeepsOneWorker, ForkFailsKeepsOneWorker DEF BeginStart

LEMMA BeginStopKeepsOneWorker ==
  ASSUME TypeOK, OneWorkerInv, NEW kind \in CallKinds, NEW snap \in Snapshot,
         BeginStop(kind, snap)
  PROVE  OneWorkerInv'
<1> DEFINE op == [NoOperation EXCEPT !.fn = "stop", !.step = "drained", !.snap = snap,
                     !.id = requestSequence + 1, !.restart = (kind = "restart")]
           failed == [op EXCEPT !.drainFailed = TRUE]
<1>1. failed \in Operation
  <2>1. requestSequence + 1 \in Nat
    BY DEF TypeOK
  <2>2. op \in Operation
    BY <2>1, ConstantTypes DEF Operation, Steps, MessageSteps
  <2> HIDE DEF op
  <2> QED
    BY <2>2 DEF Operation
<1>2. /\ phase' = "draining" /\ UNCHANGED <<child, epoch, childExited>>
      /\ \/ operation' = op /\ UNCHANGED procs
         \/ Terminate(failed, childExited)
  BY DEF BeginStop
<1>3. NoneBorn /\ (operation'.step = "port" => childExited)
  <2>1. CASE operation' = op /\ UNCHANGED procs
    BY <2>1 DEF NoneBorn, NoOperation
  <2>2. CASE Terminate(failed, childExited)
    <3> HIDE DEF failed
    <3> QED BY <1>1, <2>2, TerminateBearsNone, TerminateStep DEF TypeOK
  <2> QED BY <1>2, <2>1, <2>2
<1> QED
  BY <1>2, <1>3, KeepsOneWorker

LEMMA OneWorkerInit == Init => OneWorkerInv
BY DEF Init, WorkerInit, NoWorker, NoOperation, OneWorkerInv, NoOrphan

LEMMA CallerStepKeepsOneWorker ==
  ASSUME TypeOK, OneWorkerInv, CallerStep PROVE OneWorkerInv'
<1>1. ASSUME NEW kind, NEW want, Join(kind, want) PROVE OneWorkerInv'
  BY <1>1, KeepsOneWorker DEF Join, lifeVars, workerVars, NoneBorn
<1>2. ASSUME NEW kind, NEW want, NEW ok, AnswerNow(kind, want, ok),
             phase' = "stopped" => phase = "stopped" \/ child = 0
      PROVE  OneWorkerInv'
  BY <1>2, KeepsOneWorker DEF AnswerNow, workerVars, NoneBorn
<1>3. phase = "stopped" => child = 0
  BY DEF OneWorkerInv
<1>4. ASSUME NEW snap \in Snapshots, Start(snap) PROVE OneWorkerInv'
  BY <1>1, <1>2, <1>4, BeginStartKeepsOneWorker DEF Start
<1>5. ASSUME NEW snap \in Snapshots, ApplySnapshot(snap) PROVE OneWorkerInv'
  <2>1. CASE BeginApply(snap)
    BY <2>1, KeepsOneWorker DEF BeginApply, lifeVars, NoneBorn, NoOperation
  <2> QED
    BY <1>1, <1>2, <1>5, <2>1 DEF ApplySnapshot
<1>6. ASSUME NEW snap \in Snapshots, Restart(snap) PROVE OneWorkerInv'
  BY <1>1, <1>3, <1>6, SnapshotsType, BeginStartKeepsOneWorker, BeginStopKeepsOneWorker DEF
     Restart, CallKinds
<1>7. CASE Stop
  BY <1>1, <1>2, <1>3, <1>7, ConstantTypes, BeginStopKeepsOneWorker DEF Stop, CallKinds
<1>8. CASE AccountStateChanges
  BY <1>8, KeepsOneWorker DEF AccountStateChanges, accountFrame, lifeVars, NoneBorn,
     SubmitAccountState, NoOperation
<1>9. CASE Close
  BY <1>9, KeepsOneWorker DEF Close, lifeVars, workerVars, NoneBorn
<1> QED
  BY <1>4, <1>5, <1>6, <1>7, <1>8, <1>9 DEF CallerStep

LEMMA MicrotaskKeepsOneWorker ==
  ASSUME TypeOK, OneWorkerInv, Microtask PROVE OneWorkerInv'
<1>1. CASE ResubmitAccountState
  BY <1>1, KeepsOneWorker DEF ResubmitAccountState, accountFrame, lifeVars, NoneBorn,
     SubmitAccountState, NoOperation
<1>2. ASSUME NEW attempted, RecoveryCaught(attempted)
      PROVE phase' = "stopped" => phase = "stopped"
  BY <1>2 DEF RecoveryCaught, ScheduleRecovery
<1>3. CASE RecoveryRejected
  BY <1>2, <1>3, KeepsOneWorker DEF RecoveryRejected, recoveryFrame, workerVars, NoneBorn
<1>4. CASE PerformClose
  <2>1. CASE child = 0
    BY <1>4, <2>1, KeepsOneWorker DEF PerformClose, NoneBorn
  <2>2. CASE child # 0
    <3> DEFINE o == [NoOperation EXCEPT !.fn = "close"]
    <3>1. o \in Operation
      BY ConstantTypes DEF Operation
    <3>2. Terminate(o, childExited) /\ UNCHANGED <<phase, child, epoch, childExited>>
      BY <1>4, <2>2 DEF PerformClose
    <3> HIDE DEF o
    <3> QED
      BY <3>1, <3>2, KeepsOneWorker, TerminateBearsNone, TerminateStep DEF TypeOK
  <2> QED
    BY <2>1, <2>2
<1> QED
  BY <1>1, <1>3, <1>4 DEF Microtask

LEMMA OperationEventKeepsOneWorker ==
  ASSUME TypeOK, OneWorkerInv, OperationEvent PROVE OneWorkerInv'
<1>1. CASE MessageTimeout \/ HealthFails
  BY <1>1, ThrownBearsNone, KeepsOneWorker DEF MessageTimeout, HealthFails, messageFrame, TypeOK
<1>2. CASE Started
  BY <1>2, SettleStep, KeepsOneWorker DEF Started, workerVars, NoneBorn
<1>3. CASE ExitTimeout
  BY <1>3, KeepsOneWorker DEF ExitTimeout, lifeVars, TypeOK, Operation, NoneBorn, WorkerTypeOK,
     WorkerState
<1>4. CASE KillTimeout
  BY <1>4, SettleStep, KeepsOneWorker DEF KillTimeout, workerVars, NoneBorn
<1>5. ASSUME operation.step = "port" PROVE child = 0 \/ childExited
  BY <1>5 DEF OneWorkerInv
<1>6. ASSUME NEW free \in BOOLEAN, PortChecked(free) PROVE OneWorkerInv'
  BY <1>5, <1>6, NoneAlive, SettleStep DEF OneWorkerInv, NoOrphan, PortChecked, Release
<1>7. CASE RestartForks
  BY <1>5, <1>7, ForkKeepsOneWorker, ForkFailsKeepsOneWorker DEF RestartForks
<1> QED
  BY <1>1, <1>2, <1>3, <1>4, <1>6, <1>7 DEF OperationEvent

LEMMA ChildEventKeepsOneWorker ==
  ASSUME TypeOK, OneWorkerInv, ChildEvent PROVE OneWorkerInv'
<1>1. operation \in Operation /\ childExited \in BOOLEAN /\ WorkerTypeOK
  BY DEF TypeOK
<1>2. ASSUME NEW step, operation' = [operation EXCEPT !.step = step]
      PROVE  operation'.step = step
  BY <1>1, <1>2 DEF Operation
<1>3. CASE OnReady
  BY <1>3, <1>1, <1>2, ThrownBearsNone, KeepsOneWorker DEF OnReady, messageFrame, NoneBorn
<1>4. CASE OnStartConfigured \/ HealthAnswers
  BY <1>4, <1>2, KeepsOneWorker DEF OnStartConfigured, HealthAnswers, messageFrame, lifeVars,
     NoneBorn, workerVars
<1>5. CASE OnApplyConfigured \/ OnAccountStateApplied
  BY <1>5, SettleStep, KeepsOneWorker
     DEF OnApplyConfigured, OnAccountStateApplied, messageFrame, NoneBorn
<1>6. CASE OnDrained
  BY <1>6, <1>1, <1>2, ThrownBearsNone, TerminateBearsNone, TerminateStep, KeepsOneWorker DEF
     OnDrained, messageFrame, NoneBorn
<1>7. CASE OnFatal
  BY <1>7, <1>1, ThrownBearsNone, KeepsOneWorker DEF OnFatal, messageFrame, NoneBorn
<1>8. CASE OnUnawaited
  BY <1>8, KeepsOneWorker DEF OnUnawaited, managerVars, lifeVars, NoneBorn
<1>9. ASSUME child # 0, ~Worker.alive PROVE \A e \in Epochs : ~procs[e].alive
  BY <1>9 DEF OneWorkerInv, NoOrphan, Worker
<1>10. CASE ChildCrashed
  BY <1>9, <1>10 DEF OneWorkerInv, NoOrphan, ChildCrashed, Release, NoOperation
<1>11. CASE ChildExits
  BY <1>11, <1>9, ThrownBearsNone DEF OneWorkerInv, NoOrphan, NoneBorn, ChildExits
<1> QED
  BY <1>3, <1>4, <1>5, <1>6, <1>7, <1>8, <1>10, <1>11 DEF ChildEvent

LEMMA RecoveryEventKeepsOneWorker ==
  ASSUME TypeOK, OneWorkerInv, RecoveryEvent PROVE OneWorkerInv'
<1>1. ASSUME NEW attempted, RecoveryCaught(attempted)
      PROVE phase' = "stopped" => phase = "stopped"
  BY <1>1 DEF RecoveryCaught, ScheduleRecovery
<1>2. CASE RecoveryTimer \/ RecoveryObsolete
  BY <1>2, KeepsOneWorker
     DEF RecoveryTimer, RecoveryObsolete, recoveryFrame, workerVars, NoneBorn
<1>3. CASE RecoveryNotReady
  BY <1>1, <1>3, KeepsOneWorker DEF RecoveryNotReady, recoveryFrame, workerVars, NoneBorn
<1>4. ASSUME NEW free \in BOOLEAN, RecoveryPort(free) PROVE OneWorkerInv'
  BY <1>1, <1>4, KeepsOneWorker DEF RecoveryPort, recoveryFrame, workerVars, NoneBorn
<1>5. CASE RecoveryStarts
  BY <1>5, ForkKeepsOneWorker, ForkFailsKeepsOneWorker DEF RecoveryStarts, CanRecover
<1> QED
  BY <1>2, <1>3, <1>4, <1>5 DEF RecoveryEvent

LEMMA OneWorkerStep == TypeOK /\ OneWorkerInv /\ [Next]_vars => OneWorkerInv'
<1> SUFFICES ASSUME TypeOK, OneWorkerInv, [Next]_vars PROVE OneWorkerInv'
  OBVIOUS
<1>1. CASE ManagerStep
  BY <1>1, MicrotaskKeepsOneWorker, OperationEventKeepsOneWorker,
     ChildEventKeepsOneWorker, RecoveryEventKeepsOneWorker DEF ManagerStep
<1>2. CASE CallerStep
  BY <1>2, CallerStepKeepsOneWorker
<1>3. CASE ProcessStep
  BY <1>3, WorkerStepBearsNone, KeepsOneWorker DEF ProcessStep, managerVars, lifeVars, TypeOK
<1>4. CASE UNCHANGED vars
  BY <1>4, KeepsOneWorker DEF vars, managerVars, lifeVars, workerVars, NoneBorn
<1> QED
  BY <1>1, <1>2, <1>3, <1>4 DEF Next

\* Every process that lives is the child of the manager, which can therefore stop it.
THEOREM NoOrphanEver == Spec => []NoOrphan
<1>1. OneWorkerInv => NoOrphan
  BY DEF OneWorkerInv
<1> QED
  BY <1>1, TypeCorrect, OneWorkerInit, OneWorkerStep, PTL DEF Spec

\* There are never two Worker processes, however often a Worker is timed out,
\* killed, recovered or restarted.
THEOREM OneWorker == Spec => []AtMostOneWorker
<1>1. NoOrphan => AtMostOneWorker
  BY DEF NoOrphan, AtMostOneWorker
<1> QED
  BY <1>1, NoOrphanEver, PTL

------------------------
(* What was stopped stays stopped: how the last answer, the phase, the      *)
(* operation in flight and the recovery chain go together.                  *)

\* The last answer was to a stop, and was that the Worker is stopped.
ToldStopped == reply.kind = "stop" /\ reply.ok /\ reply.phase = "stopped"

StoppedInv ==
  /\ operation.fn = "none" => operation.step = "none"
  /\ closing = "done" => child = 0 /\ operation.step = "none"
  /\ ToldStopped => phase = "stopped" /\ operation.step = "none" /\ recovery.stage # "rejected"

\* The end of an operation that does not end in a stop that was asked for.
LEMMA SettleKeepsStopped ==
  ASSUME TypeOK, StoppedInv, NEW ok \in BOOLEAN, Settle(ok), operation.step # "none",
         phase' = "stopped" => ~ok \/ recovery.stage # "rejected"
  PROVE  StoppedInv'
<1>1. ToldStopped' => phase' = "stopped" /\ ok
  BY DEF Settle, Answer, ToldStopped, StoppedInv
<1> QED
  BY <1>1 DEF StoppedInv, Settle, NoOperation, NoRecovery

\* An operation goes on, nothing is answered.
LEMMA OngoingKeepsStopped ==
  ASSUME StoppedInv, operation.step # "none", operation'.fn # "none",
         UNCHANGED <<closing, reply>>
  PROVE  StoppedInv'
BY DEF StoppedInv, ToldStopped

\* Nothing moves that the invariant speaks about.
LEMMA IdleKeepsStopped ==
  ASSUME StoppedInv, UNCHANGED <<child, phase, operation, closing, reply>>,
         recovery'.stage # "rejected" \/ UNCHANGED recovery
  PROVE  StoppedInv'
BY DEF StoppedInv, ToldStopped

LEMMA ThrownKeepsStopped ==
  ASSUME TypeOK, StoppedInv, NEW isExited \in BOOLEAN, Thrown(isExited),
         operation.step # "none", UNCHANGED <<child, phase>>
  PROVE  StoppedInv'
<1>1. CASE operation.fn \in {"start", "stop"}
  BY <1>1, OngoingKeepsStopped DEF callerVars, Terminate, TypeOK, Operation, Thrown
<1>2. CASE operation.fn \notin {"start", "stop"}
  BY <1>2, SettleKeepsStopped DEF Thrown
<1> QED
  BY <1>1, <1>2

LEMMA RecoveryCaughtKeepsStopped ==
  ASSUME StoppedInv, RecoveryCaught(FALSE) \/ (recovery.stage = "rejected" /\ RecoveryCaught(TRUE)),
         UNCHANGED <<child, operation, closing, reply>>
  PROVE  StoppedInv'
<1> QED
  BY DEF StoppedInv, ToldStopped, RecoveryCaught, ScheduleRecovery, NoRecovery

\* A fork: whoever asked for it is not told anything yet.
LEMMA ForkKeepsStopped ==
  ASSUME StoppedInv, closing # "done", NEW c, NEW snap, NEW recovers,
         Fork(c, snap, recovers), c # NoCall \/ ~ToldStopped
  PROVE  StoppedInv'
<1> QED
  BY DEF StoppedInv, Fork, NoOperation, ToldStopped, NoReply

LEMMA ForkFailsKeepsStopped ==
  ASSUME StoppedInv, closing # "done", NEW c, ForkFails(c),
         c.kind = "none" => ~ToldStopped
  PROVE  StoppedInv'
<1> QED
  BY DEF StoppedInv, ForkFails, NoOperation, Answer, ToldStopped

LEMMA JoinKeepsStopped ==
  ASSUME StoppedInv, call = NoCall, NEW kind, NEW want, Join(kind, want)
  PROVE  StoppedInv'
<1>1. ~ToldStopped'
  <2>1. CASE reply' = [NoReply EXCEPT !.kind = kind, !.want = want]
    BY <2>1 DEF ToldStopped, NoReply
  <2>2. CASE reply' = NoReply
    BY <2>2 DEF ToldStopped, NoReply
  <2> QED
    BY <2>1, <2>2 DEF Join
<1> QED
  BY <1>1 DEF StoppedInv, Join, lifeVars

LEMMA BeginStartKeepsStopped ==
  ASSUME StoppedInv, ~Closed, NEW kind \in CallKinds \ {"none"}, NEW want, BeginStart(kind, want)
  PROVE  StoppedInv'
<1> DEFINE c == [kind |-> kind, want |-> want]
<1>1. c # NoCall /\ c.kind # "none" /\ closing # "done"
  BY DEF NoCall, Closed
<1>2. Fork(c, want, FALSE) \/ ForkFails(c)
  BY DEF BeginStart
<1> HIDE DEF c
<1> QED
  BY <1>1, <1>2, ForkKeepsStopped, ForkFailsKeepsStopped

LEMMA BeginStopKeepsStopped ==
  ASSUME TypeOK, StoppedInv, ~Closed, NEW kind \in CallKinds, NEW snap, BeginStop(kind, snap)
  PROVE  StoppedInv'
<1> QED
  BY DEF StoppedInv, ToldStopped, NoReply, Closed, BeginStop, Terminate, NoOperation

LEMMA SubmitKeepsStopped ==
  ASSUME StoppedInv, OneWorkerInv, NEW rev, SubmitAccountState(rev),
         UNCHANGED accountFrame
  PROVE  StoppedInv'
<1>1. UNCHANGED <<child, phase, closing, reply, recovery>>
  BY DEF accountFrame, lifeVars
<1>2. CASE UNCHANGED operation
  BY <1>1, <1>2, IdleKeepsStopped
<1>3. CASE ~UNCHANGED operation
  BY <1>1, <1>3 DEF StoppedInv, ToldStopped, Closed, SubmitAccountState, DropsAccountState,
     NoOperation
<1> QED
  BY <1>2, <1>3

LEMMA CallerStepKeepsStopped ==
  ASSUME TypeOK, OneWorkerInv, StoppedInv, CallerStep
  PROVE  StoppedInv'
<1>1. ASSUME NEW snap \in Snapshots, Start(snap) PROVE StoppedInv'
  <2>1. CASE UNCHANGED <<phase, recovery>> /\ AnswerNow("start", snap, phase = "running")
    BY <2>1 DEF StoppedInv, AnswerNow, Answer, ToldStopped
  <2> QED
    BY <1>1, <2>1, JoinKeepsStopped, BeginStartKeepsStopped DEF Start, CallKinds
<1>2. ASSUME NEW snap \in Snapshots, ApplySnapshot(snap) PROVE StoppedInv'
  <2>1. CASE UNCHANGED <<phase, recovery>> /\ AnswerNow("apply", snap, FALSE)
    BY <2>1 DEF StoppedInv, AnswerNow, Answer, ToldStopped
  <2>2. CASE ~Closed /\ BeginApply(snap)
    <3>1. operation'.fn = "apply" \/ operation' = operation
      BY <2>2 DEF BeginApply, NoOperation
    <3> QED
      BY <2>2, <3>1 DEF StoppedInv, BeginApply, Answer, ToldStopped, NoReply, Closed
  <2> QED
    BY <1>2, <2>1, <2>2, JoinKeepsStopped DEF ApplySnapshot
<1>3. ASSUME NEW snap \in Snapshots, Restart(snap) PROVE StoppedInv'
  BY <1>3, JoinKeepsStopped, BeginStartKeepsStopped, BeginStopKeepsStopped DEF Restart, CallKinds
<1>4. CASE Stop
  <2>1. CASE /\ ~Busy /\ phase' = "stopped" /\ recovery' = NoRecovery
             /\ AnswerNow("stop", NoSnapshot, TRUE)
    BY <2>1 DEF StoppedInv, AnswerNow, NoRecovery, Busy
  <2> QED
    BY <1>4, <2>1, JoinKeepsStopped, BeginStopKeepsStopped DEF Stop, CallKinds
<1>5. CASE AccountStateChanges
  BY <1>5, SubmitKeepsStopped DEF AccountStateChanges
<1>6. CASE Close
  BY <1>6 DEF Close, lifeVars, callerVars, StoppedInv, ToldStopped, NoRecovery
<1> QED
  BY <1>1, <1>2, <1>3, <1>4, <1>5, <1>6 DEF CallerStep

LEMMA MicrotaskKeepsStopped ==
  ASSUME TypeOK, OneWorkerInv, StoppedInv, Microtask
  PROVE  StoppedInv'
<1>1. CASE ResubmitAccountState
  BY <1>1, SubmitKeepsStopped DEF ResubmitAccountState
<1>2. CASE RecoveryRejected
  BY <1>2, RecoveryCaughtKeepsStopped DEF RecoveryRejected, recoveryFrame, callerVars
<1>3. CASE PerformClose
  <2>1. operation.step = "none" /\ UNCHANGED <<child, recovery, reply>>
    BY <1>3 DEF PerformClose, Busy, StoppedInv, callerVars
  <2>2. CASE child = 0
    BY <1>3, <2>1, <2>2 DEF PerformClose, StoppedInv, ToldStopped
  <2>3. CASE child # 0
    BY <2>1, <1>3, <2>3 DEF StoppedInv, ToldStopped, PerformClose, Terminate, NoOperation,
       OneWorkerInv
  <2> QED BY <2>2, <2>3
<1> QED
  BY <1>1, <1>2, <1>3 DEF Microtask

LEMMA OperationEventKeepsStopped ==
  ASSUME TypeOK, OneWorkerInv, StoppedInv, ~MicrotaskPending, OperationEvent
  PROVE  StoppedInv'
<1>1. CASE MessageTimeout \/ HealthFails
  BY <1>1, ThrownKeepsStopped DEF TypeOK, MessageTimeout, HealthFails, AwaitsMessage,
     MessageSteps, messageFrame
<1>2. CASE Started
  BY <1>2, SettleKeepsStopped DEF Started
<1>3. CASE ExitTimeout
  BY <1>3, OngoingKeepsStopped DEF StoppedInv, ExitTimeout, callerVars, TypeOK, Operation
<1>4. CASE KillTimeout
  BY <1>4, SettleKeepsStopped DEF KillTimeout
<1>5. ASSUME NEW free \in BOOLEAN, PortChecked(free) PROVE StoppedInv'
  <2> DEFINE ok == free /\ operation.fn # "start" /\ ~operation.drainFailed
  <2> HIDE DEF ok
  <2> QED
    BY <1>5, SettleKeepsStopped DEF PortChecked, Release, TypeOK, Operation, MicrotaskPending
<1>6. CASE RestartForks
  BY <1>6, ForkKeepsStopped, ForkFailsKeepsStopped DEF RestartForks, StoppedInv
<1> QED
  BY <1>1, <1>2, <1>3, <1>4, <1>5, <1>6 DEF OperationEvent

LEMMA ChildEventKeepsStopped ==
  ASSUME TypeOK, OneWorkerInv, StoppedInv, ~MicrotaskPending, ChildEvent
  PROVE  StoppedInv'
<1>1. ASSUME NEW step \in Steps, operation' = [operation EXCEPT !.step = step],
             operation.step # "none", UNCHANGED <<closing, callerVars>>
      PROVE  StoppedInv'
  BY <1>1, OngoingKeepsStopped DEF StoppedInv, callerVars, TypeOK, Operation
<1>2. Answers => operation.step # "none"
  BY DEF Answers, AwaitsMessage, MessageSteps
<1>3. childExited \in BOOLEAN /\ recovery.stage # "rejected"
  BY DEF TypeOK, MicrotaskPending
<1>4. CASE OnReady
  BY <1>1, <1>2, <1>3, <1>4, ThrownKeepsStopped DEF OnReady, messageFrame, Steps, MessageSteps
<1>5. CASE OnStartConfigured
  BY <1>1, <1>2, <1>5 DEF OnStartConfigured, Steps
<1>6. CASE HealthAnswers
  BY <1>1, <1>6 DEF HealthAnswers, Steps
<1>7. CASE OnApplyConfigured \/ OnAccountStateApplied
  BY <1>2, <1>3, <1>7, SettleKeepsStopped
     DEF OnApplyConfigured, OnAccountStateApplied, messageFrame
<1>8. CASE OnDrained
  <2>1. operation.step = "drained" /\ UNCHANGED <<child, phase>>
    BY <1>8 DEF OnDrained, messageFrame
  <2>2. CASE Thrown(childExited)
    BY <1>3, <2>1, <2>2, ThrownKeepsStopped
  <2>3. CASE /\ operation' = [operation EXCEPT !.step = "exit"] \/ Terminate(operation, childExited)
             /\ UNCHANGED <<callerVars, closing>>
    BY <2>1, <2>3, OngoingKeepsStopped DEF StoppedInv, callerVars, Terminate, TypeOK, Operation
  <2> QED
    BY <1>8, <2>2, <2>3 DEF OnDrained
<1>9. CASE OnFatal
  <2>1. CASE AwaitsMessage /\ Thrown(childExited)
    BY <1>3, <1>9, <2>1, ThrownKeepsStopped DEF OnFatal, messageFrame, AwaitsMessage, MessageSteps
  <2>2. CASE UNCHANGED <<expectedExit, operation, procs, callerVars, closing, recovery>>
    BY <1>9, <2>2, IdleKeepsStopped DEF OnFatal, messageFrame, callerVars
  <2> QED
    BY <1>9, <2>1, <2>2 DEF OnFatal
<1>10. CASE OnUnawaited
  BY <1>10, IdleKeepsStopped DEF OnUnawaited, managerVars, lifeVars, callerVars
<1>11. CASE ChildCrashed
  BY <1>11 DEF StoppedInv, NoOperation, ChildCrashed, Closed, Answer, ToldStopped, OneWorkerInv
<1>12. CASE ChildExits
  <2>1. CASE AwaitsMessage
    BY <1>12, <2>1, ThrownKeepsStopped DEF ChildExits, AwaitsMessage, MessageSteps
  <2>2. CASE ~AwaitsMessage /\ operation.step \in ExitSteps
    BY <1>1, <1>12, <2>2 DEF ChildExits, ExitSteps, Steps
  <2>3. CASE ~AwaitsMessage /\ operation.step \notin ExitSteps
    BY <1>12, <2>3, IdleKeepsStopped DEF ChildExits, callerVars
  <2> QED
    BY <2>1, <2>2, <2>3
<1> QED
  BY <1>4, <1>5, <1>6, <1>7, <1>8, <1>9, <1>10, <1>11, <1>12 DEF ChildEvent

LEMMA RecoveryEventKeepsStopped ==
  ASSUME TypeOK, OneWorkerInv, StoppedInv, RecoveryEvent
  PROVE  StoppedInv'
<1>1. UNCHANGED recoveryFrame => UNCHANGED <<child, operation, closing, reply>>
  BY DEF recoveryFrame, callerVars
<1>2. /\ \A stage \in {"port", "gate"} : [recovery EXCEPT !.stage = stage].stage # "rejected"
      /\ NoRecovery.stage # "rejected"
  BY DEF TypeOK, Recovery, NoRecovery
<1>3. CASE RecoveryTimer \/ RecoveryObsolete
  BY <1>1, <1>2, <1>3, IdleKeepsStopped DEF RecoveryTimer, RecoveryObsolete
<1>4. CASE RecoveryNotReady
  BY <1>1, <1>4, RecoveryCaughtKeepsStopped DEF RecoveryNotReady
<1>5. ASSUME NEW free \in BOOLEAN, RecoveryPort(free) PROVE StoppedInv'
  <2>1. UNCHANGED <<child, operation, closing, reply>>
    BY <1>1, <1>5 DEF RecoveryPort
  <2>2. CASE free
    BY <2>1, <1>2, <1>5, <2>2, IdleKeepsStopped DEF RecoveryPort
  <2>3. CASE ~free
    BY <2>1, <1>5, <2>3, RecoveryCaughtKeepsStopped DEF RecoveryPort
  <2> QED
    BY <2>2, <2>3
<1>6. CASE RecoveryStarts
  BY <1>6, ForkKeepsStopped, ForkFailsKeepsStopped DEF RecoveryStarts, StoppedInv, CanRecover,
     Closed
<1> QED
  BY <1>3, <1>4, <1>5, <1>6 DEF RecoveryEvent

LEMMA StoppedInit == Init => StoppedInv
BY DEF Init, StoppedInv, ToldStopped, NoOperation, NoReply

LEMMA StoppedStep == TypeOK /\ OneWorkerInv /\ StoppedInv /\ [Next]_vars => StoppedInv'
<1> SUFFICES ASSUME TypeOK, OneWorkerInv, StoppedInv, [Next]_vars PROVE StoppedInv'
  OBVIOUS
<1>1. CASE ManagerStep
  BY <1>1, MicrotaskKeepsStopped, OperationEventKeepsStopped, ChildEventKeepsStopped,
     RecoveryEventKeepsStopped DEF ManagerStep
<1>2. CASE CallerStep
  BY <1>2, CallerStepKeepsStopped
<1>3. CASE ProcessStep \/ UNCHANGED vars
  BY <1>3, IdleKeepsStopped DEF ProcessStep, vars, managerVars, lifeVars, callerVars
<1> QED
  BY <1>1, <1>2, <1>3 DEF Next

\* What was reported stopped stays stopped until the next call, and what close() has ended
\* stays ended: no recovery, late update, retry or timeout brings a Worker back.
THEOREM StopsStay == Spec => []StaysStopped
<1>1. OneWorkerInv /\ StoppedInv => StaysStopped
  BY NoneAlive DEF OneWorkerInv, StoppedInv, ToldStopped, StaysStopped, StopHolds, ClosedForGood
<1>2. TypeOK /\ OneWorkerInv /\ StoppedInv /\ [Next]_vars
        => TypeOK' /\ OneWorkerInv' /\ StoppedInv'
  BY NextType, OneWorkerStep, StoppedStep
<1>3. Init => TypeOK /\ OneWorkerInv /\ StoppedInv
  BY InitType, OneWorkerInit, StoppedInit
<1> QED
  BY <1>1, <1>2, <1>3, PTL DEF Spec


------------------------
(* The books of the manager *)

\* The operation was started by the call that waits for it, with a snapshot of its own.
Owned == (operation.fn \in {"start", "apply"} \/ operation.restart) /\ ~operation.recovers

\* What the manager runs, as far as it knows.
Confirmed(snap) == generation > 0 /\ snap.gen = generation /\ snap.cfg = lastSnapshot.cfg

\* What a call may want that has joined an operation of somebody else: where snapshots are
\* built on the confirmed generation, one that is not confirmed yet.
Foreign(want) == GenerationLag = 0 => want.gen = 0 \/ want.gen > generation

\* Which operation waits for what, and in which phase there is a child.
OperationInv ==
  /\ operation.fn = "none" => operation = NoOperation
  /\ operation.fn # "none" => child # 0
  /\ operation.fn = "none" /\ child # 0 => phase \in {"running", "failed"}
  /\ operation.fn \in {"apply", "account"} => phase = "running"
  /\ operation.restart => operation.fn = "stop"
  /\ operation.step \in {"ready", "health", "healthy"} => operation.fn = "start"
  /\ operation.step = "configured" => operation.fn \in {"start", "apply"}
  /\ operation.step = "account-state-applied" => operation.fn = "account"
  /\ operation.step = "drained" => operation.fn = "stop"
  /\ operation.step \in ExitSteps \union {"port"} => operation.fn \in {"start", "stop", "close"}
  /\ operation.recovers => operation.fn = "start"
  /\ phase = "running" => child # 0
  /\ phase = "backoff" => child = 0

\* A Worker in service and a recovery stand for a generation that was confirmed.
FactsInv ==
  /\ lastSnapshot.gen = generation
  /\ phase = "running" \/ recovery.stage # "none" => generation > 0
  /\ Owned => operation.snap.gen > 0
  /\ recovery.stage = "attempt" => operation.recovers
  /\ operation.recovers => Confirmed(operation.snap)
  /\ phase = "backoff" /\ recovery.stage \in {"timer", "port", "gate"} => Confirmed(recovery.snap)

\* Who waits for what, and what was answered last.
CallsInv ==
  /\ call.kind # "none" => reply.phase = "none"
  /\ Owned => call.kind # "none" /\ call.want = operation.snap
  /\ call.kind # "none" /\ ~Owned => Foreign(call.want)
  /\ reply.phase # "none" => reply.gen = generation /\ reply.cfg = lastSnapshot.cfg
  /\ GenerationLag = 0 /\ reply.ok /\ reply.phase = "running" /\ reply.gen = reply.want.gen =>
       reply.cfg = reply.want.cfg

BooksInv == OperationInv /\ FactsInv /\ CallsInv

LEMMA SettleKeepsBooks ==
  ASSUME TypeOK, BooksInv, NEW ok \in BOOLEAN, Settle(ok),
         phase' # "backoff", phase' = "running" => child' # 0,
         phase' \in {"running", "failed"} \/ child' = 0,
         lastSnapshot'.gen = generation',
         generation' \in Nat, phase' = "running" \/ recovery.stage # "none" => generation' > 0,
         \/ /\ generation' = generation /\ lastSnapshot'.cfg = lastSnapshot.cfg
            /\ ok /\ phase' = "running" => ~Owned
         \/ Owned /\ generation' = operation.snap.gen /\ lastSnapshot'.cfg = operation.snap.cfg
  PROVE  BooksInv'
<1>1. operation' = NoOperation /\ Answer(call, ok)
  BY DEF Settle
<1>2. ~Owned' /\ ~operation'.recovers /\ operation'.fn = "none" /\ operation'.step = "none"
      /\ ~operation'.restart
  BY <1>1 DEF Owned, NoOperation
<1>3. CallsInv'
  <2>1. CASE call.kind = "none"
    BY <1>2, <2>1, <1>1 DEF BooksInv, CallsInv, Answer
  <2>2. CASE call.kind # "none"
    <3>1. call'.kind = "none" /\ reply'.ok = ok /\ reply'.phase = phase'
          /\ reply'.gen = generation' /\ reply'.cfg = lastSnapshot'.cfg
          /\ reply'.want = call.want
      BY <1>1, <2>2 DEF Answer, NoCall
    <3>2. CASE Owned /\ generation' = operation.snap.gen /\ lastSnapshot'.cfg = operation.snap.cfg
      BY <1>2, <3>1, <3>2 DEF BooksInv, CallsInv
    <3>3. CASE /\ generation' = generation
               /\ ok /\ phase' = "running" => ~Owned
      BY <1>2, <3>1, <2>2, <3>3 DEF CallsInv, BooksInv, Foreign, TypeOK
    <3> QED
      BY <3>2, <3>3
  <2> QED
    BY <2>1, <2>2
<1> QED
  BY <1>1, <1>2, <1>3 DEF BooksInv, FactsInv, Settle, NoRecovery, TypeOK, Recovery,
     OperationInv, ExitSteps

\* An operation waits for something else, nothing is answered.
LEMMA OngoingKeepsBooks ==
  ASSUME TypeOK, BooksInv, NEW step \in Steps \ {"account-state-applied"},
         operation' = [operation EXCEPT !.step = step], operation.fn # "none",
         step = "drained" => operation.fn = "stop",
         step \in ExitSteps \union {"port"} => operation.fn \in {"start", "stop", "close"},
         step \in {"ready", "health", "healthy"} => operation.fn = "start",
         step = "configured" => operation.fn \in {"start", "apply"},
         UNCHANGED <<child, phase, factVars, call, reply, recovery>>
  PROVE  BooksInv'
<1> QED
  BY DEF BooksInv, OperationInv, CallsInv, Foreign, FactsInv, Confirmed, factVars, Owned,
     TypeOK, Operation

\* Nothing moves but the recovery chain, and perhaps the phase without a child.
LEMMA IdleKeepsBooks ==
  ASSUME BooksInv, UNCHANGED <<child, operation, factVars, call, reply>>,
         recovery'.stage # "none" => generation > 0,
         recovery'.stage = "attempt" => recovery.stage = "attempt",
         \/ UNCHANGED phase
         \/ child = 0 /\ phase' # "running",
         phase' = "backoff" /\ recovery'.stage \in {"timer", "port", "gate"} =>
           Confirmed(recovery'.snap)
  PROVE  BooksInv'
<1> QED
  BY DEF BooksInv, OperationInv, FactsInv, Confirmed, Owned, CallsInv, Foreign, factVars

LEMMA ThrownKeepsBooks ==
  ASSUME TypeOK, BooksInv, NEW isExited \in BOOLEAN, Thrown(isExited),
         AwaitsMessage \/ operation.step \in {"health", "healthy"},
         UNCHANGED <<child, phase, factVars>>
  PROVE  BooksInv'
<1>1. operation.fn # "none" /\ child # 0 /\ phase # "backoff"
  BY DEF BooksInv, OperationInv, NoOperation, AwaitsMessage, MessageSteps
<1>2. CASE operation.fn \in {"start", "stop"}
  <2> DEFINE step == IF isExited THEN "port" ELSE "term"
  <2>1. operation' = [operation EXCEPT !.step = step] /\ UNCHANGED <<call, reply, recovery>>
    BY <1>2 DEF Thrown, Terminate, callerVars
  <2>2. step \in Steps \ {"account-state-applied"} /\ step \in {"term", "port"}
    BY DEF Steps, ExitSteps
  <2> HIDE DEF step
  <2> QED
    BY <1>1, <1>2, <2>1, <2>2, OngoingKeepsBooks DEF ExitSteps
<1>3. CASE operation.fn \notin {"start", "stop"}
  BY <1>1, <1>3, SettleKeepsBooks DEF BooksInv, FactsInv, TypeOK, factVars, OperationInv,
     AwaitsMessage, MessageSteps, Thrown
<1> QED
  BY <1>2, <1>3

LEMMA RecoveryCaughtKeepsBooks ==
  ASSUME TypeOK, BooksInv, NEW attempted \in BOOLEAN, RecoveryCaught(attempted),
         recovery.stage # "none", UNCHANGED <<child, operation, factVars, call, reply>>
  PROVE  BooksInv'
<1>1. generation > 0 /\ Confirmed(lastSnapshot)
  BY DEF BooksInv, FactsInv, Confirmed
<1>2. CASE child = 0 /\ ScheduleRecovery
  BY <1>1, <1>2, IdleKeepsBooks DEF NoRecovery, ScheduleRecovery
<1>3. CASE recovery' = NoRecovery /\ UNCHANGED phase
  BY <1>1, <1>3, IdleKeepsBooks DEF NoRecovery
<1> QED
  BY <1>2, <1>3 DEF RecoveryCaught

LEMMA ForkKeepsBooks ==
  ASSUME TypeOK, BooksInv, NEW c, NEW snap, NEW recovers \in BOOLEAN, Fork(c, snap, recovers),
         UNCHANGED factVars, recovery'.stage # "none" => recovery.stage # "none",
         recovery'.stage = "attempt" => recovers,
         recovers => c = NoCall /\ Confirmed(snap),
         ~recovers => c # NoCall /\ c.kind # "none" /\ c.want = snap /\ snap.gen > 0
  PROVE  BooksInv'
<1>1. /\ operation'.fn = "start" /\ operation'.step = "ready" /\ operation'.restart = FALSE
      /\ operation'.snap = snap /\ operation'.recovers = recovers
  BY DEF Fork, NoOperation
<1>2. phase' = "starting" /\ child' # 0 /\ call' = c
  BY DEF Fork, TypeOK
<1>3. UNCHANGED <<generation, lastSnapshot>>
  BY DEF factVars
<1>4. Owned' = ~recovers
  BY <1>1 DEF Owned
<1>5. CallsInv'
  <2>1. CASE recovers
    <3>1. call'.kind = "none" /\ reply' = reply
      BY <1>2, <2>1 DEF Fork, NoCall
    <3> QED
      BY <1>3, <1>4, <2>1, <3>1 DEF BooksInv, CallsInv
  <2>2. CASE ~recovers
    BY <1>1, <1>2, <1>4, <2>2 DEF CallsInv, Fork, NoReply
  <2> QED
    BY <2>1, <2>2
<1> QED
  BY <1>1, <1>2, <1>3, <1>4, <1>5 DEF BooksInv, FactsInv, Confirmed, OperationInv, ExitSteps

LEMMA ForkFailsKeepsBooks ==
  ASSUME BooksInv, NEW c, ForkFails(c), UNCHANGED factVars,
         recovery'.stage # "none" => recovery.stage # "none",
         recovery'.stage # "attempt",
         c.kind # "none" \/ ~Owned
  PROVE  BooksInv'
<1>1. /\ operation' = NoOperation /\ operation'.fn = "none" /\ operation'.step = "none"
      /\ ~operation'.restart /\ ~operation'.recovers /\ phase' = "stopped" /\ child' = 0
  BY DEF ForkFails, NoOperation
<1>2. UNCHANGED <<generation, lastSnapshot>> /\ ~Owned'
  BY <1>1 DEF factVars, Owned
<1>3. CallsInv'
  <2>1. CASE c.kind = "none"
    BY <1>2, <2>1 DEF BooksInv, CallsInv, Foreign, ForkFails, Answer
  <2>2. CASE c.kind # "none"
    BY <1>2, <2>2 DEF CallsInv, ForkFails, Answer, NoCall
  <2> QED
    BY <2>1, <2>2
<1> QED
  BY <1>1, <1>2, <1>3 DEF BooksInv, OperationInv, FactsInv, ExitSteps
------------------------
\* A snapshot is built on the generation the manager has confirmed.
LEMMA SnapshotsAhead ==
  ASSUME TypeOK, NEW snap \in Snapshots
  PROVE  snap \in Snapshot /\ snap.gen > 0 /\ Foreign(snap)
BY BoundsAssumption DEF Snapshots, Snapshot, Foreign, TypeOK

LEMMA JoinKeepsBooks ==
  ASSUME BooksInv, call = NoCall, NEW kind, NEW want, Foreign(want), Join(kind, want)
  PROVE  BooksInv'
<1>1. UNCHANGED <<child, phase, operation, recovery, generation, lastSnapshot>> /\ ~Owned
  BY DEF Join, lifeVars, callFrame, factVars, BooksInv, CallsInv, NoCall
<1>2. reply'.phase = "none" /\ ~reply'.ok
  <2>1. CASE reply' = [NoReply EXCEPT !.kind = kind, !.want = want]
    BY <2>1 DEF NoReply
  <2>2. CASE reply' = NoReply
    BY <2>2 DEF NoReply
  <2> QED
    BY <2>1, <2>2 DEF Join
<1> QED
  BY <1>1, <1>2 DEF BooksInv, CallsInv, Foreign, Join, NoCall, OperationInv, FactsInv, Owned,
     Confirmed

LEMMA AnswerNowKeepsBooks ==
  ASSUME TypeOK, BooksInv, ~Busy, NEW kind \in CallKinds \ {"none"}, NEW want \in Snapshot,
         NEW ok \in BOOLEAN, AnswerNow(kind, want, ok),
         ok /\ phase' = "running" => Foreign(want),
         \/ UNCHANGED <<phase, recovery>>
         \/ (child = 0 \/ phase = "stopped") /\ phase' = "stopped" /\ recovery' = NoRecovery
  PROVE  BooksInv'
<1> DEFINE c == [kind |-> kind, want |-> want]
<1>1. UNCHANGED <<child, operation, generation, lastSnapshot>> /\ ~Owned /\ ~operation.recovers
  BY DEF AnswerNow, callFrame, factVars, Owned, Busy, BooksInv, OperationInv, NoOperation
<1>2. recovery'.stage # "none" => recovery' = recovery /\ phase' = phase
  BY DEF NoRecovery
<1>3. FactsInv' /\ ~Owned'
  <2>1. CASE UNCHANGED <<phase, recovery>>
    BY <1>1, <2>1 DEF BooksInv, FactsInv, Owned, Confirmed
  <2>2. CASE phase' = "stopped" /\ recovery' = NoRecovery
    BY <1>1, <2>2 DEF BooksInv, FactsInv, Owned, Confirmed, NoRecovery
  <2> QED
    BY <2>1, <2>2
<1>4. CallsInv'
  <2> HIDE DEF c
  <2> QED
    BY <1>3, <1>1 DEF CallsInv, Answer, NoCall, Foreign, TypeOK, BooksInv, FactsInv, AnswerNow
<1> QED
  BY <1>1, <1>3, <1>4 DEF BooksInv, OperationInv, Busy, NoOperation, ExitSteps

LEMMA BeginStartKeepsBooks ==
  ASSUME TypeOK, BooksInv, NEW kind \in CallKinds \ {"none"}, NEW snap, snap.gen > 0,
         BeginStart(kind, snap), recovery'.stage # "none" => recovery.stage # "none",
         recovery'.stage # "attempt"
  PROVE  BooksInv'
<1> DEFINE c == [kind |-> kind, want |-> snap]
<1>1. c # NoCall /\ c.kind # "none" /\ c.want = snap
  BY DEF NoCall
<1>2. UNCHANGED factVars /\ (Fork(c, snap, FALSE) \/ ForkFails(c))
  BY DEF BeginStart, callFrame
<1> HIDE DEF c
<1> QED
  BY <1>1, <1>2, ForkKeepsBooks, ForkFailsKeepsBooks

LEMMA BeginApplyKeepsBooks ==
  ASSUME TypeOK, BooksInv, ~Busy, call = NoCall, phase = "running", child # 0,
         NEW snap \in Snapshot, snap.gen > 0, BeginApply(snap)
  PROVE  BooksInv'
<1>1. UNCHANGED <<child, phase, recovery, generation, lastSnapshot>>
  BY DEF BeginApply, lifeVars, callFrame, factVars
<1>2. CASE /\ operation' = [NoOperation EXCEPT !.fn = "apply", !.step = "configured",
                              !.snap = snap, !.id = requestSequence + 1]
           /\ call' = [kind |-> "apply", want |-> snap] /\ reply' = NoReply
  BY <1>1, <1>2 DEF BooksInv, OperationInv, FactsInv, CallsInv, ExitSteps, Owned, NoReply,
     NoOperation, Busy
<1>3. CASE Answer([kind |-> "apply", want |-> snap], FALSE) /\ UNCHANGED operation
  BY <1>1, <1>3 DEF BooksInv, OperationInv, FactsInv, CallsInv, Confirmed, Answer, NoCall,
     Owned, Busy, NoOperation
<1> QED
  BY <1>2, <1>3 DEF BeginApply

LEMMA BeginStopKeepsBooks ==
  ASSUME TypeOK, BooksInv, ~Busy, child # 0, NEW kind \in {"stop", "restart"}, NEW snap \in Snapshot,
         kind = "stop" => snap = NoSnapshot, kind = "restart" => snap.gen > 0,
         BeginStop(kind, snap), recovery' \in {recovery, NoRecovery}
  PROVE  BooksInv'
<1>1. UNCHANGED <<child, generation, lastSnapshot>> /\ phase' = "draining"
  BY DEF BeginStop, callFrame, factVars
<1>2. /\ operation'.fn = "stop" /\ operation'.step \in {"drained", "port", "term"}
      /\ operation'.snap = snap /\ operation'.restart = (kind = "restart")
      /\ operation'.recovers = FALSE
  BY DEF BeginStop, Terminate, NoOperation
<1>3. (Owned' => kind = "restart") /\ (~Owned' => kind = "stop")
  BY <1>2 DEF Owned
<1>4. CallsInv'
  BY <1>2, <1>3 DEF CallsInv, Foreign, NoSnapshot, BeginStop, NoReply
<1> QED
  BY <1>1, <1>2, <1>3, <1>4 DEF BooksInv, FactsInv, OperationInv, Busy, NoOperation, NoRecovery,
     ExitSteps

LEMMA SubmitKeepsBooks ==
  ASSUME BooksInv, NEW rev, SubmitAccountState(rev), UNCHANGED accountFrame
  PROVE  BooksInv'
<1>1. UNCHANGED <<child, phase, call, reply, recovery, generation, lastSnapshot>>
  BY DEF accountFrame, lifeVars, factVars
<1>2. CASE UNCHANGED operation
  BY <1>1, <1>2 DEF BooksInv, OperationInv, FactsInv, CallsInv, Confirmed, Foreign, Owned
<1>3. CASE ~UNCHANGED operation
  <2>1. /\ ~Busy /\ phase = "running" /\ child # 0
        /\ operation'.fn = "account" /\ operation'.step = "account-state-applied"
        /\ ~operation'.restart /\ ~operation'.recovers
    BY <1>3 DEF SubmitAccountState, DropsAccountState, NoOperation
  <2> QED
    BY <1>1, <2>1 DEF BooksInv, OperationInv, FactsInv, CallsInv, Confirmed, Foreign, ExitSteps,
       Owned, Busy, NoOperation
<1> QED
  BY <1>2, <1>3

LEMMA CallerStepKeepsBooks ==
  ASSUME TypeOK, BooksInv, CallerStep
  PROVE  BooksInv'
<1>1. \A snap \in Snapshots : snap \in Snapshot /\ snap.gen > 0 /\ Foreign(snap)
  BY SnapshotsAhead
<1>2. ASSUME NEW snap \in Snapshots, Start(snap) PROVE BooksInv'
  <2> DEFINE ok == phase = "running"
  <2>1. CASE ~Busy /\ UNCHANGED <<phase, recovery>> /\ AnswerNow("start", snap, ok)
    <3>1. ok \in BOOLEAN
      OBVIOUS
    <3> HIDE DEF ok
    <3> QED
      BY <1>1, <2>1, <3>1, AnswerNowKeepsBooks DEF CallKinds
  <2> QED
    BY <1>1, <1>2, <2>1, JoinKeepsBooks, BeginStartKeepsBooks DEF Start, CallKinds, GateFree
<1>3. ASSUME NEW snap \in Snapshots, ApplySnapshot(snap) PROVE BooksInv'
  BY <1>1, <1>3, JoinKeepsBooks, AnswerNowKeepsBooks, BeginApplyKeepsBooks
     DEF ApplySnapshot, CallKinds
<1>4. ASSUME NEW snap \in Snapshots, Restart(snap) PROVE BooksInv'
  BY <1>1, <1>4, JoinKeepsBooks, BeginStartKeepsBooks, BeginStopKeepsBooks DEF Restart,
     CallKinds, NoRecovery
<1>5. CASE Stop
  BY <1>5, ConstantTypes, JoinKeepsBooks, AnswerNowKeepsBooks, BeginStopKeepsBooks DEF Stop,
     CallKinds, Foreign, NoSnapshot
<1>6. CASE AccountStateChanges
  BY <1>6, SubmitKeepsBooks DEF AccountStateChanges
<1>7. CASE Close
  BY <1>7, IdleKeepsBooks DEF Close, lifeVars, callerVars, NoRecovery
<1> QED
  BY <1>2, <1>3, <1>4, <1>5, <1>6, <1>7 DEF CallerStep

LEMMA MicrotaskKeepsBooks ==
  ASSUME TypeOK, BooksInv, Microtask
  PROVE  BooksInv'
<1>1. CASE ResubmitAccountState
  BY <1>1, SubmitKeepsBooks DEF ResubmitAccountState
<1>2. CASE RecoveryRejected
  BY <1>2, RecoveryCaughtKeepsBooks DEF RecoveryRejected, recoveryFrame, callerVars
<1>3. CASE PerformClose
  <2>1. UNCHANGED <<child, generation, lastSnapshot, recovery, call, reply>> /\ ~Busy
    BY <1>3 DEF PerformClose, factVars, callerVars
  <2>2. ~Owned /\ recovery.stage # "attempt"
    BY <2>1 DEF Owned, Busy, BooksInv, OperationInv, FactsInv, NoOperation
  <2>3. CASE child = 0
    BY <2>1, <2>3, <1>3, IdleKeepsBooks DEF PerformClose, BooksInv, FactsInv
  <2>4. CASE child # 0
    <3>1. /\ operation'.fn = "close" /\ operation'.step \in {"port", "term"}
          /\ ~operation'.restart /\ ~operation'.recovers /\ phase' = phase
      BY <1>3, <2>4 DEF PerformClose, Terminate, NoOperation
    <3> QED
      BY <2>1, <2>2, <2>4, <3>1 DEF BooksInv, OperationInv, FactsInv, CallsInv, Confirmed,
         Foreign, ExitSteps, Owned
  <2> QED BY <2>3, <2>4
<1> QED
  BY <1>1, <1>2, <1>3 DEF Microtask

LEMMA OperationEventKeepsBooks ==
  ASSUME TypeOK, BooksInv, OperationEvent
  PROVE  BooksInv'
<1>1. lastSnapshot.gen = generation /\ generation \in Nat
      /\ (recovery.stage # "none" => generation > 0)
  BY DEF TypeOK, BooksInv, FactsInv
<1>2. CASE MessageTimeout \/ HealthFails
  BY <1>2, ThrownKeepsBooks DEF TypeOK, MessageTimeout, HealthFails, messageFrame
<1>3. CASE Started
  <2>1. operation.fn = "start" /\ child # 0 /\ UNCHANGED child /\ phase' = "running"
        /\ generation' = operation.snap.gen /\ lastSnapshot' = operation.snap /\ Settle(TRUE)
    BY <1>3 DEF Started, BooksInv, OperationInv
  <2>2. CASE Owned
    BY <2>1, <2>2, SettleKeepsBooks DEF BooksInv, FactsInv, TypeOK, Operation, Snapshot
  <2>3. CASE ~Owned
    BY <1>1, <2>1, <2>3, SettleKeepsBooks DEF Confirmed, BooksInv, FactsInv, Owned
  <2> QED
    BY <2>2, <2>3
<1>4. CASE ExitTimeout
  <2> DEFINE step == IF operation.step = "exit" THEN "term" ELSE "kill"
  <2>1. /\ operation' = [operation EXCEPT !.step = step]
        /\ operation.fn \in {"start", "stop", "close"}
        /\ UNCHANGED <<child, phase, factVars, call, reply, recovery>>
    BY <1>4 DEF ExitTimeout, callerVars, lifeVars, BooksInv, OperationInv, ExitSteps
  <2>2. step \in Steps \ {"account-state-applied"} /\ step \in {"term", "kill"}
    BY DEF Steps, ExitSteps
  <2> HIDE DEF step
  <2> QED
    BY <2>1, <2>2, OngoingKeepsBooks DEF ExitSteps
<1>5. CASE KillTimeout
  BY <1>1, <1>5, SettleKeepsBooks DEF KillTimeout, factVars
<1>6. ASSUME NEW free \in BOOLEAN, PortChecked(free) PROVE BooksInv'
  <2> DEFINE ok == free /\ operation.fn # "start" /\ ~operation.drainFailed
  <2> HIDE DEF ok
  <2> QED
    BY <1>1, <1>6, SettleKeepsBooks DEF PortChecked, Release, factVars, TypeOK, Operation
<1>7. CASE RestartForks
  <2>1. /\ operation.restart /\ Owned /\ recovery.stage # "attempt"
        /\ UNCHANGED <<factVars, recovery>>
    BY <1>7 DEF RestartForks, callFrame, Owned, BooksInv, OperationInv, FactsInv
  <2>2. call.kind # "none" /\ call # NoCall /\ call.want = operation.snap /\ operation.snap.gen > 0
    BY <2>1 DEF BooksInv, CallsInv, FactsInv, NoCall
  <2> QED
    BY <1>7, <2>1, <2>2, ForkKeepsBooks, ForkFailsKeepsBooks DEF RestartForks
<1> QED
  BY <1>2, <1>3, <1>4, <1>5, <1>6, <1>7 DEF OperationEvent

LEMMA ChildEventKeepsBooks ==
  ASSUME TypeOK, BooksInv, ChildEvent
  PROVE  BooksInv'
<1>1. lastSnapshot.gen = generation /\ generation \in Nat
      /\ (recovery.stage # "none" => generation > 0)
  BY DEF TypeOK, BooksInv, FactsInv
<1>2. ASSUME NEW step \in {"configured", "health", "healthy", "exit", "port", "term"},
             operation' = [operation EXCEPT !.step = step],
             operation.fn # "none",
             step \in {"health", "healthy", "configured"} => operation.fn = "start",
             step \in {"exit", "port", "term"} => operation.fn \in {"start", "stop", "close"},
             UNCHANGED <<child, phase, factVars, callerVars, recovery>>
      PROVE  BooksInv'
  BY <1>2, OngoingKeepsBooks DEF ExitSteps, Steps, MessageSteps, callerVars
<1>3. /\ Answers => operation.step \in MessageSteps /\ operation.fn # "none"
      /\ operation.step # "none" => operation.fn # "none"
      /\ Answers => AwaitsMessage
  BY DEF Answers, AwaitsMessage, MessageSteps, BooksInv, OperationInv, NoOperation
<1>4. childExited \in BOOLEAN
  BY DEF TypeOK
<1>5. CASE OnReady
  BY <1>2, <1>3, <1>4, <1>5, ThrownKeepsBooks DEF OnReady, messageFrame, BooksInv, OperationInv
<1>6. CASE OnStartConfigured
  BY <1>2, <1>3, <1>6 DEF OnStartConfigured, messageFrame
<1>7. CASE HealthAnswers
  BY <1>2, <1>7 DEF HealthAnswers, lifeVars, BooksInv, OperationInv
<1>8. CASE OnApplyConfigured
  BY <1>8, SettleKeepsBooks DEF OnApplyConfigured, messageFrame, BooksInv, OperationInv,
     FactsInv, Owned, TypeOK, Operation, Snapshot
<1>9. CASE OnAccountStateApplied
  BY <1>1, <1>9, SettleKeepsBooks DEF BooksInv, FactsInv, OnAccountStateApplied, messageFrame,
     OperationInv, Owned, TypeOK, Snapshot
<1>10. CASE OnDrained
  <2>1. operation.step = "drained" /\ operation.fn = "stop" /\ AwaitsMessage
        /\ UNCHANGED <<child, phase, factVars>>
    BY <1>3, <1>10 DEF OnDrained, messageFrame, BooksInv, OperationInv
  <2>2. CASE Thrown(childExited)
    BY <1>4, <2>1, <2>2, ThrownKeepsBooks
  <2>3. CASE operation' = [operation EXCEPT !.step = "exit"] /\ UNCHANGED <<callerVars, recovery>>
    BY <1>2, <2>1, <2>3
  <2>4. CASE Terminate(operation, childExited) /\ UNCHANGED <<callerVars, recovery>>
    <3> DEFINE step == IF childExited THEN "port" ELSE "term"
    <3> HIDE DEF step
    <3> QED
      BY <1>2, <2>1, <2>4 DEF Terminate
  <2> QED
    BY <1>10, <2>2, <2>3, <2>4 DEF OnDrained
<1>11. CASE OnFatal \/ OnUnawaited
  <2>1. CASE AwaitsMessage /\ Thrown(childExited) /\ UNCHANGED <<child, phase, factVars>>
    BY <1>4, <2>1, ThrownKeepsBooks DEF AwaitsMessage, MessageSteps
  <2>2. CASE UNCHANGED <<child, phase, factVars, operation, call, reply, recovery>>
    BY <2>2, IdleKeepsBooks DEF BooksInv, FactsInv, Confirmed
  <2> QED
    BY <1>11, <2>1, <2>2
       DEF OnFatal, OnUnawaited, messageFrame, callerVars, managerVars, lifeVars
<1>12. CASE ChildCrashed
  <2>1. UNCHANGED <<generation, lastSnapshot>> /\ generation > 0
    BY <1>12 DEF ChildCrashed, factVars, BooksInv, FactsInv
  <2>2. /\ operation'.fn = "none" /\ operation'.step = "none" /\ ~operation'.restart
        /\ ~operation'.recovers /\ child' = 0 /\ ~Owned'
        /\ operation' = NoOperation
    BY <1>12 DEF ChildCrashed, Release, NoOperation, Owned
  <2>3. \/ phase' = "failed" /\ recovery' = NoRecovery
        \/ phase' = "backoff" /\ recovery' = [stage |-> "timer", snap |-> lastSnapshot]
    BY <1>12 DEF ChildCrashed, ScheduleRecovery
  <2>4. CallsInv'
    <3>1. CASE call.kind = "none"
      BY <2>1, <2>2, <3>1, <1>12 DEF BooksInv, CallsInv, ChildCrashed, Answer
    <3>2. CASE call.kind # "none"
      BY <2>2, <1>12, <3>2 DEF CallsInv, ChildCrashed, Answer, NoCall
    <3> QED
      BY <3>1, <3>2
  <2> QED
    BY <2>2, <2>3, <1>1, <2>1, <2>4 DEF BooksInv, OperationInv, ExitSteps, FactsInv, Confirmed,
       NoRecovery
<1>13. CASE ChildExits
  <2>1. UNCHANGED <<child, phase, factVars>>
    BY <1>13 DEF ChildExits
  <2>2. CASE AwaitsMessage
    BY <1>13, <2>1, <2>2, ThrownKeepsBooks DEF ChildExits, AwaitsMessage, MessageSteps
  <2>3. CASE ~AwaitsMessage /\ operation.step \in ExitSteps
    BY <1>2, <1>13, <2>1, <2>3 DEF ChildExits, BooksInv, OperationInv
  <2>4. CASE ~AwaitsMessage /\ operation.step \notin ExitSteps
    BY <1>13, <2>1, <2>4, IdleKeepsBooks DEF BooksInv, FactsInv, Confirmed, ChildExits,
       callerVars
  <2> QED
    BY <2>2, <2>3, <2>4
<1> QED
  BY <1>5, <1>6, <1>7, <1>8, <1>9, <1>10, <1>11, <1>12, <1>13 DEF ChildEvent

LEMMA RecoveryEventKeepsBooks ==
  ASSUME TypeOK, BooksInv, RecoveryEvent
  PROVE  BooksInv'
<1>1. UNCHANGED recoveryFrame => UNCHANGED <<child, operation, factVars, call, reply>>
  BY DEF recoveryFrame, callerVars
<1>2. ASSUME NEW stage \in {"port", "gate"}, recovery.stage \in {"timer", "port"}, CanRecover,
             recovery' = [recovery EXCEPT !.stage = stage], UNCHANGED <<phase, recoveryFrame>>
      PROVE  BooksInv'
  BY <1>1, <1>2, IdleKeepsBooks DEF Confirmed, TypeOK, Recovery, BooksInv, FactsInv, CanRecover
<1>3. ASSUME recovery' = NoRecovery, UNCHANGED <<phase, recoveryFrame>>
      PROVE  BooksInv'
  BY <1>1, <1>3, IdleKeepsBooks DEF NoRecovery
<1>4. ASSUME recovery.stage # "none", RecoveryCaught(FALSE), UNCHANGED recoveryFrame
      PROVE  BooksInv'
  BY <1>1, <1>4, RecoveryCaughtKeepsBooks
<1>5. CASE RecoveryTimer
  BY <1>2, <1>3, <1>5 DEF RecoveryTimer
<1>6. ASSUME NEW free \in BOOLEAN, RecoveryPort(free) PROVE BooksInv'
  BY <1>2, <1>3, <1>4, <1>6 DEF RecoveryPort
<1>7. CASE RecoveryNotReady
  BY <1>4, <1>7 DEF RecoveryNotReady
<1>8. CASE RecoveryObsolete
  BY <1>3, <1>8 DEF RecoveryObsolete
<1>9. CASE RecoveryStarts
  BY <1>9, ForkKeepsBooks, ForkFailsKeepsBooks DEF RecoveryStarts, TypeOK, Recovery, BooksInv,
     OperationInv, Owned, NoOperation, CanRecover, FactsInv
<1> QED
  BY <1>5, <1>6, <1>7, <1>8, <1>9 DEF RecoveryEvent

LEMMA BooksInit == Init => BooksInv
BY DEF Init, BooksInv, OperationInv, FactsInv, CallsInv, Owned, NoOperation, NoReply, NoCall,
       NoRecovery, NoSnapshot, ExitSteps

LEMMA BooksStep == TypeOK /\ BooksInv /\ [Next]_vars => BooksInv'
<1> SUFFICES ASSUME TypeOK, BooksInv, [Next]_vars PROVE BooksInv'
  OBVIOUS
<1>1. CASE ManagerStep
  BY <1>1, MicrotaskKeepsBooks, OperationEventKeepsBooks, ChildEventKeepsBooks,
     RecoveryEventKeepsBooks DEF ManagerStep
<1>2. CASE CallerStep
  BY <1>2, CallerStepKeepsBooks
<1>3. CASE ProcessStep \/ UNCHANGED vars
  BY <1>3, IdleKeepsBooks DEF BooksInv, FactsInv, Confirmed, ProcessStep, vars, managerVars,
     lifeVars, callerVars
<1> QED
  BY <1>1, <1>2, <1>3 DEF Next

------------------------
(* The channels *)

\* The messages of a channel.
Of(q) == {q[i] : i \in DOMAIN q}

\* A Worker that has got as far as a snapshot: it runs its settings, or newer ones.
Reached(w, snap) ==
  w.gen >= snap.gen /\ w.rev >= snap.rev /\ (w.gen = snap.gen => w.cfg = snap.cfg)

\* What a living Worker may become: settings are replaced by newer ones only.
Grown(w, v) == v.rev >= w.rev /\ (v.gen > w.gen \/ (v.gen = w.gen /\ v.cfg = w.cfg))

WorkersGrow ==
  \A e \in Epochs : procs'[e].alive => procs[e].alive /\ Grown(procs[e], procs'[e])

\* A message to a Worker that carries the request id of the operation is the one it sent.
Asked(m) ==
  /\ m.id <= requestSequence
  /\ m.type = "configure" /\ m.id = operation.id /\ operation.fn \in {"start", "apply"} =>
       m.snap = operation.snap
  /\ m.type = "account-state" /\ m.id = operation.id /\ operation.fn = "account" =>
       m.rev = operation.rev

\* An acknowledgement that the operation would take for its own is true of the Worker.
Told(m, w) ==
  m.type \in {"configured", "account-state-applied"} =>
    /\ m.id <= requestSequence
    /\ w.alive /\ m.id = operation.id =>
         /\ m.type = "configured" /\ operation.fn \in {"start", "apply"} =>
              Reached(w, operation.snap)
         /\ m.type = "account-state-applied" /\ operation.fn = "account" =>
              w.rev >= operation.rev

MessagesInv ==
  /\ operation.id <= requestSequence
  /\ \A e \in Epochs : \A m \in Of(toWorker[e]) : Asked(m)
  /\ \A e \in Epochs : \A m \in Of(toManager[e]) : Told(m, procs[e])

\* A Worker whose health is asked for has acknowledged its settings.
CheckedInv ==
  operation.step \in {"health", "healthy"} /\ Worker.alive => Reached(Worker, operation.snap)

ServiceInv == MessagesInv /\ CheckedInv /\ RunningAgrees

------------------------
LEMMA OfTail ==
  ASSUME NEW S, NEW q \in Seq(S), q # <<>>
  PROVE  Of(Tail(q)) \subseteq Of(q) /\ Head(q) \in Of(q)
<1> QED
  BY DEF Of

LEMMA OfAppend ==
  ASSUME NEW S, NEW q \in Seq(S), NEW m, NEW n \in Of(Append(q, m))
  PROVE  n \in Of(q) \/ n = m
<1>1. PICK i \in DOMAIN Append(q, m) : n = Append(q, m)[i]
  BY DEF Of
<1> QED
  BY <1>1 DEF Of

LEMMA OfTypes ==
  ASSUME WorkerTypeOK, NEW e \in Epochs
  PROVE  Of(toWorker[e]) \subseteq Request /\ Of(toManager[e]) \subseteq Message
<1> QED
  BY DEF Of, WorkerTypeOK

LEMMA GrownReached ==
  ASSUME NEW w \in WorkerState, NEW v \in WorkerState, NEW snap \in Snapshot,
         Reached(w, snap), Grown(w, v)
  PROVE  Reached(v, snap)
BY DEF Reached, Grown, WorkerState, Snapshot

\* The same operation goes on; a new one has a request id of its own; or there is
\* none that a late answer could be taken for.
SameRequest ==
  /\ requestSequence' >= requestSequence
  /\ operation'.id = operation.id /\ operation'.fn = operation.fn
  /\ operation'.snap = operation.snap /\ operation'.rev = operation.rev
NewRequest ==
  requestSequence' = requestSequence + 1 /\ operation'.id = requestSequence'
NoRequest ==
  /\ requestSequence' >= requestSequence
  /\ operation'.id <= requestSequence'
  /\ operation'.fn \notin {"start", "apply", "account"}

LEMMA KeepsMessages ==
  ASSUME TypeOK, TypeOK', MessagesInv, SameRequest \/ NewRequest \/ NoRequest,
         \A e \in Epochs : \A m \in Of(toWorker'[e]) : m \in Of(toWorker[e]) \/ Asked(m)',
         \A e \in Epochs : \A m \in Of(toManager'[e]) :
           m \in Of(toManager[e]) \/ Told(m, procs[e])',
         NewRequest \/ WorkersGrow
  PROVE  MessagesInv'
<1>1. /\ requestSequence \in Nat /\ requestSequence' \in Nat
      /\ operation.id \in Nat /\ operation'.id \in Nat
      /\ operation.snap \in Snapshot /\ operation.rev \in Nat
  BY DEF TypeOK, Operation
<1>2. operation'.id <= requestSequence' /\ requestSequence' >= requestSequence
  BY <1>1 DEF SameRequest, NewRequest, NoRequest, MessagesInv
<1>3. ASSUME NEW e \in Epochs, NEW m \in Of(toWorker[e]) PROVE Asked(m)'
  <2>1. m.id \in Nat /\ Asked(m)
    BY <1>3, OfTypes DEF TypeOK, Request, MessagesInv
  <2>2. m.id <= requestSequence'
    BY <1>1, <1>2, <2>1 DEF Asked
  <2>3. CASE NewRequest
    BY <2>2, <1>1, <2>1, <2>3 DEF Asked, NewRequest
  <2>4. CASE SameRequest
    BY <2>1, <2>2, <2>4 DEF Asked, SameRequest
  <2>5. CASE NoRequest
    BY <2>2, <2>5 DEF Asked, NoRequest
  <2> QED
    BY <2>3, <2>4, <2>5
<1>4. ASSUME NEW e \in Epochs, NEW m \in Of(toManager[e]) PROVE Told(m, procs[e])'
  <2>1. m.id \in Nat /\ Told(m, procs[e])
    BY <1>4, OfTypes DEF TypeOK, Message, MessagesInv
  <2> SUFFICES ASSUME m.type \in {"configured", "account-state-applied"}
               PROVE  Told(m, procs[e])'
    BY DEF Told
  <2>2. m.id <= requestSequence /\ m.id <= requestSequence'
    BY <1>1, <1>2, <2>1 DEF Told
  <2>3. CASE NewRequest
    BY <2>2, <1>1, <2>1, <2>3 DEF Told, NewRequest
  <2>4. CASE SameRequest /\ WorkersGrow
    <3>1. procs[e] \in WorkerState /\ procs'[e] \in WorkerState
      BY DEF TypeOK, WorkerTypeOK
    <3> QED
      BY <2>1, <2>2, <2>4, <1>1, <3>1, GrownReached DEF Told, SameRequest, Grown, WorkerState,
         WorkersGrow
  <2>5. CASE NoRequest
    BY <2>2, <2>5 DEF Told, NoRequest
  <2> QED
    BY <2>3, <2>4, <2>5
<1> QED
  BY <1>2, <1>3, <1>4 DEF MessagesInv

LEMMA KeepsService ==
  ASSUME TypeOK, TypeOK', OneWorkerInv, BooksInv, ServiceInv,
         SameRequest \/ NewRequest \/ NoRequest,
         \A e \in Epochs : \A m \in Of(toWorker'[e]) : m \in Of(toWorker[e]) \/ Asked(m)',
         \A e \in Epochs : \A m \in Of(toManager'[e]) :
           m \in Of(toManager[e]) \/ Told(m, procs[e])',
         WorkersGrow, UNCHANGED <<epoch, factVars>>, phase' = "running" => phase = "running",
         operation'.step \in {"health", "healthy"} =>
           operation.step \in {"health", "healthy"} /\ operation'.snap = operation.snap
  PROVE  ServiceInv'
<1>1. child # 0 => epoch \in Epochs /\ procs[epoch] \in WorkerState /\ procs'[epoch] \in WorkerState
        /\ (procs'[epoch].alive => procs[epoch].alive /\ Grown(procs[epoch], procs'[epoch]))
  BY DEF TypeOK, WorkerTypeOK, WorkersGrow, OneWorkerInv, Epochs
<1>2. CheckedInv'
  <2> SUFFICES ASSUME operation'.step \in {"health", "healthy"}, procs'[epoch].alive
               PROVE  Reached(procs'[epoch], operation'.snap)
    BY DEF CheckedInv, Worker
  <2> QED
    BY <1>1, GrownReached DEF ServiceInv, CheckedInv, Worker, TypeOK, Operation, BooksInv,
       OperationInv
<1>3. RunningAgrees'
  <2> SUFFICES ASSUME phase' = "running", procs'[epoch].alive
               PROVE  /\ procs'[epoch].gen >= generation /\ procs'[epoch].rev >= accountRevision
                      /\ procs'[epoch].gen = generation => procs'[epoch].cfg = lastSnapshot.cfg
    BY DEF RunningAgrees, Worker, factVars
  <2> QED
    BY <1>1 DEF Grown, WorkerState, TypeOK, ServiceInv, RunningAgrees, Worker, BooksInv,
       OperationInv
<1> QED
  BY <1>2, <1>3, KeepsMessages DEF ServiceInv

\* Nothing moves that the messages and the Workers have to do with.
LEMMA IdleKeepsService ==
  ASSUME TypeOK, TypeOK', OneWorkerInv, BooksInv, ServiceInv,
         UNCHANGED <<epoch, factVars, operation, requestSequence, workerVars>>,
         phase' = "running" => phase = "running"
  PROVE  ServiceInv'
<1> QED
  BY KeepsService DEF workerVars, SameRequest, WorkersGrow, Grown, TypeOK, WorkerTypeOK,
     WorkerState
------------------------
(* What a Worker does *)

LEMMA EmitTells ==
  ASSUME WorkerTypeOK, NEW e \in Epochs, NEW type, NEW id, NEW gen, Emit(e, type, id, gen)
  PROVE  \A f \in Epochs : \A m \in Of(toManager'[f]) :
           m \in Of(toManager[f]) \/ (f = e /\ m = [type |-> type, id |-> id, gen |-> gen])
<1> DEFINE n == [type |-> type, id |-> id, gen |-> gen]
<1> HIDE DEF n
<1> QED
  BY OfAppend DEF n, WorkerTypeOK, Emit

LEMMA ReceiveTakes ==
  ASSUME WorkerTypeOK, NEW e \in Epochs, NEW type, Receive(e, type)
  PROVE  /\ \A f \in Epochs : \A m \in Of(toWorker'[f]) : m \in Of(toWorker[f])
         /\ Head(toWorker[e]) \in Of(toWorker[e]) /\ Head(toWorker[e]).type = type
<1> QED
  BY OfTail DEF Receive, WorkerTypeOK

LEMMA OneGrows ==
  ASSUME WorkerTypeOK, NEW e \in Epochs, NEW w, procs' = [procs EXCEPT ![e] = w],
         w.alive => procs[e].alive /\ Grown(procs[e], w)
  PROVE  WorkersGrow
<1> QED
  BY DEF WorkersGrow, WorkerTypeOK, WorkerState, Grown

LEMMA FailWorkerTells ==
  ASSUME WorkerTypeOK, NEW e \in Epochs, NEW id, FailWorker(e, id), procs[e].alive
  PROVE  /\ WorkersGrow
         /\ \A f \in Epochs : \A m \in Of(toManager'[f]) :
              m \in Of(toManager[f]) \/ Told(m, procs[f])'
<1>1. CASE procs[e].stopping
  BY <1>1 DEF FailWorker, WorkersGrow, Grown, WorkerTypeOK, WorkerState
<1>2. CASE ~procs[e].stopping
  <2> DEFINE w == [procs[e] EXCEPT !.phase = "failed", !.stopping = TRUE,
                                   !.listening = FALSE]
  <2>1. Grown(procs[e], w)
    BY DEF Grown, WorkerState, WorkerTypeOK
  <2>2. procs' = [procs EXCEPT ![e] = w]
    BY <1>2 DEF FailWorker, WorkerTypeOK
  <2>3. \A f \in Epochs : \A m \in Of(toManager'[f]) :
          m \in Of(toManager[f]) \/ Told(m, procs[f])'
    BY <1>2, EmitTells DEF Told, FailWorker
  <2> HIDE DEF w
  <2> QED
    BY <2>1, <2>2, <2>3, OneGrows
<1> QED
  BY <1>1, <1>2

LEMMA WorkerStepTells ==
  ASSUME TypeOK, MessagesInv, NEW e \in Epochs, WorkerStep(e),
         UNCHANGED <<operation, requestSequence>>
  PROVE  /\ WorkersGrow
         /\ \A f \in Epochs : \A m \in Of(toWorker'[f]) : m \in Of(toWorker[f])
         /\ \A f \in Epochs : \A m \in Of(toManager'[f]) :
              m \in Of(toManager[f]) \/ Told(m, procs[f])'
<1> DEFINE m == Head(toWorker[e])
           Tells == \A f \in Epochs : \A n \in Of(toManager'[f]) :
                      n \in Of(toManager[f]) \/ Told(n, procs[f])'
           Takes == \A f \in Epochs : \A n \in Of(toWorker'[f]) : n \in Of(toWorker[f])
<1>1. WorkerTypeOK /\ procs[e] \in WorkerState
  BY DEF TypeOK, WorkerTypeOK
<1>2. ASSUME NEW type, Receive(e, type)
      PROVE  /\ Takes /\ m.type = type /\ Asked(m) /\ procs[e].alive
             /\ m.id \in Nat /\ m.rev \in Nat /\ m.snap \in Snapshot
  BY <1>2, <1>1, ReceiveType, ReceiveTakes DEF MessagesInv, Receive, Request
<1>3. UNCHANGED toWorker => Takes
  OBVIOUS
<1>4. UNCHANGED toManager => Tells
  OBVIOUS
<1>5. ASSUME NEW type \in {"ready", "drained"}, NEW id, NEW gen, Emit(e, type, id, gen)
      PROVE  Tells
  BY <1>1, <1>5, EmitTells DEF Told
<1>6. CASE StartWorker(e)
  <2> DEFINE w == [procs[e] EXCEPT !.phase = "ready"]
  <2>1. Grown(procs[e], w) /\ procs[e].alive
    BY <1>1, <1>6 DEF Grown, WorkerState, StartWorker
  <2>2. procs' = [procs EXCEPT ![e] = w]
    BY <1>6 DEF StartWorker, TypeOK, WorkerTypeOK
  <2> HIDE DEF w
  <2> QED
    BY <1>3, <1>5, <1>6, <1>1, <2>1, <2>2, OneGrows DEF StartWorker
<1>7. CASE Configure(e)
  <2> DEFINE r == IF m.snap.rev < procs[e].rev THEN procs[e].rev ELSE m.snap.rev
             w == [procs[e] EXCEPT !.phase = "running", !.listening = TRUE,
                     !.gen = m.snap.gen, !.cfg = m.snap.cfg, !.rev = r]
  <2>1. Receive(e, "configure") /\ m.snap.gen > procs[e].gen
    BY <1>7 DEF Configure, MayConfigure
  <2>2. procs' = [procs EXCEPT ![e] = w]
    BY <1>7 DEF Configure, TypeOK, WorkerTypeOK
  <2>3. r \in Nat /\ r >= m.snap.rev /\ r >= procs[e].rev
    BY <1>1, <1>2, <2>1 DEF WorkerState, Snapshot
  <2>4. Emit(e, "configured", m.id, m.snap.gen)
    BY <1>7 DEF Configure
  <2> HIDE DEF r, m
  <2>5. w.gen = m.snap.gen /\ w.cfg = m.snap.cfg /\ w.rev = r
    BY <1>1 DEF WorkerState
  <2>6. procs'[e] = w
    BY <2>2 DEF TypeOK, WorkerTypeOK
  <2> HIDE DEF w
  <2>7. Tells
    BY <1>1, <2>4, <1>2, <2>1, <2>6, <2>3, <2>5, EmitTells DEF Told, Asked, Reached, Snapshot
  <2> QED
    BY <1>2, <2>1, <1>1, <2>2, <2>3, <2>5, <2>7, OneGrows DEF Grown
<1>8. CASE ConfigureFails(e)
  BY <1>1, <1>2, <1>8, FailWorkerTells DEF ConfigureFails
<1>9. CASE ApplyAccountState(e)
  <2> DEFINE w == [procs[e] EXCEPT !.rev = m.rev]
  <2>1. Receive(e, "account-state") /\ m.rev > procs[e].rev
    BY <1>9 DEF ApplyAccountState, MayApplyAccountState
  <2>2. procs' = [procs EXCEPT ![e] = w]
    BY <1>9 DEF ApplyAccountState, TypeOK, WorkerTypeOK
  <2>3. Emit(e, "account-state-applied", m.id, procs[e].gen)
    BY <1>9 DEF ApplyAccountState
  <2> HIDE DEF m
  <2>4. w.gen = procs[e].gen /\ w.cfg = procs[e].cfg /\ w.rev = m.rev
    BY <1>1 DEF WorkerState
  <2> HIDE DEF w
  <2>5. Grown(procs[e], w) /\ m.rev >= m.rev
    BY <1>1, <1>2, <2>1, <2>4 DEF Grown, WorkerState
  <2>6. Tells
    BY <1>1, <2>3, <1>2, <2>1, <2>4, <2>2, <2>5, EmitTells DEF Told, Asked, TypeOK, WorkerTypeOK
  <2> QED
    BY <1>2, <2>1, <1>1, <2>2, <2>5, <2>6, OneGrows
<1>10. CASE ApplyAccountStateFails(e)
  BY <1>1, <1>2, <1>10, FailWorkerTells DEF ApplyAccountStateFails
<1>11. CASE BeginDrain(e)
  <2> DEFINE p == IF procs[e].drains = {} /\ procs[e].phase # "drained"
                  THEN "draining" ELSE procs[e].phase
             d == procs[e].drains \union {m.id}
             w == [procs[e] EXCEPT !.phase = p, !.listening = FALSE, !.drains = d]
  <2>1. procs' = [procs EXCEPT ![e] = w]
    BY <1>11 DEF BeginDrain, TypeOK, WorkerTypeOK
  <2> HIDE DEF p, d
  <2>2. Grown(procs[e], w)
    BY <1>1 DEF Grown, WorkerState
  <2> HIDE DEF w
  <2> QED
    BY <1>2, <1>4, <1>11, <1>1, <2>1, <2>2, OneGrows DEF BeginDrain
<1>12. CASE Drained(e)
  <2>1. PICK id \in procs[e].drains :
          /\ procs' = [procs EXCEPT ![e].phase = "drained", ![e].drains = @ \ {id}]
          /\ Emit(e, "drained", id, procs[e].gen)
    BY <1>12 DEF Drained
  <2> DEFINE d == procs[e].drains \ {id}
             w == [procs[e] EXCEPT !.phase = "drained", !.drains = d]
  <2>2. procs' = [procs EXCEPT ![e] = w]
    BY <2>1 DEF TypeOK, WorkerTypeOK
  <2> HIDE DEF d
  <2>3. Grown(procs[e], w) /\ procs[e].alive
    BY <1>1, <1>12 DEF Grown, WorkerState, Drained
  <2> HIDE DEF w
  <2> QED
    BY <1>3, <1>5, <1>12, <2>1, <1>1, <2>2, <2>3, OneGrows DEF Drained
<1>13. CASE Shutdown(e)
  <2> DEFINE w == [procs[e] EXCEPT !.stopping = TRUE, !.phase = "stopping",
                                   !.listening = FALSE]
  <2>1. procs' = [procs EXCEPT ![e] = procs[e]] \/ procs' = [procs EXCEPT ![e] = w]
    BY <1>13 DEF Shutdown, TypeOK, WorkerTypeOK
  <2>2. Grown(procs[e], w) /\ Grown(procs[e], procs[e])
    BY <1>1 DEF Grown, WorkerState
  <2> HIDE DEF w
  <2> QED
    BY <1>2, <1>4, <1>13, <1>1, <2>1, <2>2, OneGrows DEF Shutdown
<1>14. CASE UncaughtException(e)
  BY <1>1, <1>3, <1>14, FailWorkerTells DEF UncaughtException
<1>15. CASE Dies(e)
  <2>1. Takes
    BY <1>15 DEF Dies, TypeOK, WorkerTypeOK, Of
  <2> QED
    BY <1>4, <1>15, <1>1, <2>1, OneGrows DEF Dies, NoWorker
<1> QED
  BY <1>6, <1>7, <1>8, <1>9, <1>10, <1>11, <1>12, <1>13, <1>14, <1>15
     DEF WorkerStep, FinishProcess, Signalled, Crash

LEMMA ProcessKeepsService ==
  ASSUME TypeOK, TypeOK', OneWorkerInv, BooksInv, ServiceInv, ProcessStep
  PROVE  ServiceInv'
<1>1. PICK e \in Epochs : WorkerStep(e)
  BY DEF ProcessStep
<1> QED
  BY <1>1, WorkerStepTells, KeepsService DEF ServiceInv, SameRequest, TypeOK, ProcessStep,
     managerVars, lifeVars
------------------------
(* What the manager does *)

LEMMA SendAsks ==
  ASSUME WorkerTypeOK, NEW type, NEW id, NEW snap, NEW rev, Send(type, id, snap, rev)
  PROVE  \A e \in Epochs : \A m \in Of(toWorker'[e]) :
           m \in Of(toWorker[e]) \/ m = [type |-> type, id |-> id, snap |-> snap, rev |-> rev]
<1> DEFINE n == [type |-> type, id |-> id, snap |-> snap, rev |-> rev]
<1>1. toWorker \in [Epochs -> Seq(Request)]
  BY DEF WorkerTypeOK
<1>2. \A e \in Epochs : toWorker'[e] = Append(toWorker[e], n) \/ toWorker'[e] = toWorker[e]
  BY <1>1 DEF Send
<1> HIDE DEF n
<1> QED
  BY <1>2, <1>1, OfAppend DEF n

LEMMA SameGrow ==
  ASSUME WorkerTypeOK, UNCHANGED procs PROVE WorkersGrow
BY DEF WorkersGrow, Grown, WorkerTypeOK, WorkerState

LEMMA SignalGrows ==
  ASSUME WorkerTypeOK, procs' = procs \/ procs' = [procs EXCEPT ![epoch].signalled = TRUE]
  PROVE  WorkersGrow
<1>1. CASE procs' = procs
  BY <1>1, SameGrow
<1>2. CASE epoch \in Epochs /\ procs' = [procs EXCEPT ![epoch].signalled = TRUE]
  <2> DEFINE w == [procs[epoch] EXCEPT !.signalled = TRUE]
  <2>1. procs' = [procs EXCEPT ![epoch] = w]
    BY <1>2 DEF WorkerTypeOK
  <2>2. w.alive = procs[epoch].alive /\ Grown(procs[epoch], w)
    BY <1>2 DEF Grown, WorkerTypeOK, WorkerState
  <2> HIDE DEF w
  <2> QED
    BY <1>2, <2>1, <2>2, OneGrows
<1>3. CASE epoch \notin Epochs /\ procs' = [procs EXCEPT ![epoch].signalled = TRUE]
  BY <1>3 DEF WorkersGrow, Grown, WorkerTypeOK, WorkerState
<1> QED
  BY <1>1, <1>2, <1>3

LEMMA TerminateGrows ==
  ASSUME WorkerTypeOK, NEW o, NEW isExited, Terminate(o, isExited)
  PROVE  WorkersGrow
BY SignalGrows DEF Terminate

LEMMA TerminateSame ==
  ASSUME TypeOK, NEW isExited, Terminate(operation, isExited), UNCHANGED requestSequence \/
         requestSequence' = requestSequence + 1
  PROVE  SameRequest /\ operation'.step \in {"port", "term"}
BY DEF Terminate, SameRequest, TypeOK, Operation

LEMMA StepSame ==
  ASSUME TypeOK, NEW step, operation' = [operation EXCEPT !.step = step],
         UNCHANGED requestSequence \/ requestSequence' = requestSequence + 1
  PROVE  SameRequest /\ operation'.step = step
BY DEF SameRequest, TypeOK, Operation

LEMMA NoOperationIsNone ==
  ASSUME TypeOK, operation' = NoOperation, requestSequence' >= requestSequence,
         requestSequence' \in Nat
  PROVE  NoRequest /\ operation'.step = "none"
BY DEF NoRequest, NoOperation, TypeOK

LEMMA ThrownMoves ==
  ASSUME TypeOK, NEW isExited, Thrown(isExited), UNCHANGED requestSequence
  PROVE  /\ SameRequest \/ NoRequest
         /\ WorkersGrow /\ operation'.step \notin {"health", "healthy"}
<1>1. WorkerTypeOK /\ requestSequence' >= requestSequence /\ requestSequence' \in Nat
  BY DEF TypeOK
<1>2. CASE operation.fn \in {"start", "stop"}
  BY <1>1, <1>2, TerminateGrows, TerminateSame DEF Thrown
<1>3. CASE operation.fn \notin {"start", "stop"}
  BY <1>1, <1>3, SameGrow, NoOperationIsNone DEF Thrown, Settle
<1> QED
  BY <1>2, <1>3

LEMMA IncomingReads ==
  ASSUME TypeOK, OneWorkerInv, MessagesInv, Incoming
  PROVE  /\ \A e \in Epochs : \A m \in Of(toManager'[e]) : m \in Of(toManager[e])
         /\ epoch \in Epochs /\ procs[epoch] \in WorkerState
         /\ Told(message, procs[epoch])
<1> QED
  BY OfTail DEF MessagesInv, message, Incoming, TypeOK, WorkerTypeOK, OneWorkerInv, Epochs

LEMMA ClearReads ==
  ASSUME WorkerTypeOK, toManager' = [toManager EXCEPT ![epoch] = <<>>]
  PROVE  \A e \in Epochs : \A m \in Of(toManager'[e]) : m \in Of(toManager[e])
<1> QED
  BY DEF WorkerTypeOK, Of

\* A fork has a request of its own and a Worker that nothing was said of yet.
LEMMA ForkKeepsService ==
  ASSUME TypeOK, TypeOK', ServiceInv, NEW c, NEW snap, NEW recovers, Fork(c, snap, recovers),
         UNCHANGED toWorker,
         \A e \in Epochs : \A m \in Of(toManager'[e]) : m \in Of(toManager[e])
  PROVE  ServiceInv'
<1> QED
  BY KeepsMessages DEF ServiceInv, CheckedInv, RunningAgrees, Fork, NewRequest, NoOperation

LEMMA ForkFailsKeepsService ==
  ASSUME TypeOK, TypeOK', ServiceInv, NEW c, ForkFails(c), UNCHANGED toWorker,
         \A e \in Epochs : \A m \in Of(toManager'[e]) : m \in Of(toManager[e])
  PROVE  ServiceInv'
<1> QED
  BY SameGrow, NoOperationIsNone, KeepsMessages DEF ServiceInv, CheckedInv, RunningAgrees,
     ForkFails, TypeOK

LEMMA SubmitKeepsService ==
  ASSUME TypeOK, TypeOK', OneWorkerInv, BooksInv, ServiceInv, NEW rev \in Nat,
         SubmitAccountState(rev), UNCHANGED accountFrame
  PROVE  ServiceInv'
<1>1. UNCHANGED <<epoch, factVars, phase, procs, toManager>> /\ WorkerTypeOK /\ WorkersGrow
  BY SameGrow DEF accountFrame, lifeVars, TypeOK
<1>2. CASE UNCHANGED <<operation, requestSequence, toWorker>>
  BY <1>1, <1>2, IdleKeepsService DEF workerVars
<1>3. CASE /\ requestSequence' = requestSequence + 1
           /\ Send("account-state", requestSequence + 1, NoSnapshot, rev)
           /\ operation' = [NoOperation EXCEPT !.fn = "account", !.rev = rev,
                              !.step = "account-state-applied", !.id = requestSequence + 1]
  BY <1>1, <1>3, SendAsks, KeepsService DEF Asked, NewRequest, NoOperation, TypeOK
<1>4. CASE requestSequence' = requestSequence + 1 /\ SendFails /\ UNCHANGED operation
  BY <1>1, <1>4, KeepsService DEF SendFails, SameRequest, TypeOK
<1> QED
  BY <1>2, <1>3, <1>4 DEF SubmitAccountState

LEMMA BeginStartKeepsService ==
  ASSUME TypeOK, TypeOK', ServiceInv, NEW kind, NEW snap, BeginStart(kind, snap)
  PROVE  ServiceInv'
<1> QED
  BY ForkKeepsService, ForkFailsKeepsService DEF BeginStart

LEMMA BeginStopKeepsService ==
  ASSUME TypeOK, TypeOK', OneWorkerInv, BooksInv, ServiceInv, NEW kind, NEW snap,
         BeginStop(kind, snap)
  PROVE  ServiceInv'
<1>1. WorkerTypeOK
  BY DEF TypeOK
<1>2. WorkersGrow
  BY <1>1, SignalGrows DEF BeginStop, Terminate
<1>3. \A e \in Epochs : \A m \in Of(toWorker'[e]) : m \in Of(toWorker[e]) \/ Asked(m)'
  <2>1. CASE Send("drain", requestSequence + 1, NoSnapshot, 0)
    BY <1>1, <2>1, SendAsks DEF Asked, BeginStop, TypeOK
  <2> QED
    BY <2>1 DEF BeginStop, SendFails
<1> QED
  BY <1>2, <1>3, KeepsService DEF BeginStop, Terminate, NewRequest, NoOperation, callFrame

LEMMA BeginApplyKeepsService ==
  ASSUME TypeOK, TypeOK', OneWorkerInv, BooksInv, ServiceInv, NEW snap, BeginApply(snap)
  PROVE  ServiceInv'
<1>1. UNCHANGED <<epoch, factVars, phase, procs, toManager>> /\ WorkerTypeOK /\ WorkersGrow
  BY SameGrow DEF BeginApply, lifeVars, callFrame, TypeOK
<1>2. requestSequence' = requestSequence + 1 /\ requestSequence \in Nat
  BY DEF BeginApply, TypeOK
<1>3. CASE /\ Send("configure", requestSequence + 1, snap, 0)
           /\ operation' = [NoOperation EXCEPT !.fn = "apply", !.step = "configured",
                                               !.snap = snap, !.id = requestSequence + 1]
  BY <1>1, <1>2, <1>3, SendAsks, KeepsService DEF Asked, NewRequest, NoOperation
<1>4. CASE SendFails /\ UNCHANGED operation
  BY <1>1, <1>4, <1>2, KeepsService DEF SendFails, SameRequest, TypeOK
<1> QED
  BY <1>3, <1>4 DEF BeginApply

LEMMA CallerStepKeepsService ==
  ASSUME TypeOK, TypeOK', OneWorkerInv, BooksInv, ServiceInv, CallerStep
  PROVE  ServiceInv'
<1>1. ASSUME NEW kind, NEW want, Join(kind, want) PROVE ServiceInv'
  BY <1>1, IdleKeepsService DEF Join, lifeVars, callFrame
<1>2. ASSUME NEW kind, NEW want, NEW ok, AnswerNow(kind, want, ok),
             phase' = phase \/ phase' = "stopped"
      PROVE  ServiceInv'
  BY <1>2, IdleKeepsService DEF AnswerNow, callFrame
<1>3. ASSUME NEW snap \in Snapshots, Start(snap) PROVE ServiceInv'
  BY <1>1, <1>2, <1>3, BeginStartKeepsService DEF Start
<1>4. ASSUME NEW snap \in Snapshots, ApplySnapshot(snap) PROVE ServiceInv'
  BY <1>1, <1>2, <1>4, BeginApplyKeepsService DEF ApplySnapshot
<1>5. ASSUME NEW snap \in Snapshots, Restart(snap) PROVE ServiceInv'
  BY <1>1, <1>5, BeginStartKeepsService, BeginStopKeepsService DEF Restart
<1>6. CASE Stop
  BY <1>1, <1>2, <1>6, BeginStopKeepsService DEF Stop
<1>7. CASE AccountStateChanges
  BY <1>7, SubmitKeepsService DEF AccountStateChanges, TypeOK
<1>8. CASE Close
  BY <1>8, IdleKeepsService DEF Close, lifeVars
<1> QED
  BY <1>3, <1>4, <1>5, <1>6, <1>7, <1>8 DEF CallerStep

LEMMA MicrotaskKeepsService ==
  ASSUME TypeOK, TypeOK', OneWorkerInv, BooksInv, ServiceInv, Microtask
  PROVE  ServiceInv'
<1>1. CASE ResubmitAccountState
  <2>1. PICK rev \in accountReady : SubmitAccountState(rev)
    BY <1>1 DEF ResubmitAccountState
  <2> QED
    BY <2>1, <1>1, SubmitKeepsService DEF ResubmitAccountState, TypeOK
<1>2. CASE RecoveryRejected
  BY <1>2, IdleKeepsService DEF RecoveryRejected, recoveryFrame, RecoveryCaught,
     ScheduleRecovery
<1>3. CASE PerformClose
  <2>1. UNCHANGED <<epoch, factVars, requestSequence, toWorker, toManager>> /\ WorkerTypeOK
        /\ (phase' = "running" => phase = "running")
    BY <1>3 DEF PerformClose, TypeOK
  <2>2. CASE child = 0
    BY <1>3, <2>1, <2>2, IdleKeepsService DEF PerformClose, workerVars
  <2>3. CASE child # 0
    <3>1. Terminate([NoOperation EXCEPT !.fn = "close"], childExited)
      BY <1>3, <2>3 DEF PerformClose
    <3>2. NoRequest /\ operation'.step \in {"port", "term"}
      BY <2>1, <3>1 DEF Terminate, NoRequest, NoOperation, TypeOK
    <3> QED
      BY <2>1, <3>1, <3>2, TerminateGrows, KeepsService
  <2> QED
    BY <2>2, <2>3
<1> QED
  BY <1>1, <1>2, <1>3 DEF Microtask

LEMMA RecoveryEventKeepsService ==
  ASSUME TypeOK, TypeOK', OneWorkerInv, BooksInv, ServiceInv, RecoveryEvent
  PROVE  ServiceInv'
<1>1. CASE RecoveryStarts
  BY <1>1, ForkKeepsService, ForkFailsKeepsService DEF RecoveryStarts
<1>2. CASE UNCHANGED recoveryFrame /\ (phase' = "running" => phase = "running")
  BY <1>2, IdleKeepsService DEF recoveryFrame
<1>3. CASE ~RecoveryStarts
  BY <1>2, <1>3 DEF RecoveryEvent, RecoveryTimer, RecoveryPort, RecoveryNotReady,
     RecoveryObsolete, RecoveryCaught, ScheduleRecovery
<1> QED
  BY <1>1, <1>3

LEMMA OperationEventKeepsService ==
  ASSUME TypeOK, TypeOK', OneWorkerInv, BooksInv, ServiceInv, OperationEvent
  PROVE  ServiceInv'
<1>1. WorkerTypeOK /\ requestSequence \in Nat /\ requestSequence >= requestSequence
  BY DEF TypeOK
<1>2. CASE MessageTimeout \/ HealthFails
  BY <1>2, ThrownMoves, KeepsService DEF MessageTimeout, HealthFails, messageFrame
<1>3. CASE Started
  <2>1. /\ UNCHANGED <<epoch, requestSequence, procs, toWorker, toManager>>
        /\ generation' = operation.snap.gen /\ accountRevision' = operation.snap.rev
        /\ lastSnapshot' = operation.snap /\ operation' = NoOperation
    BY <1>3 DEF Started, workerVars, Settle
  <2> QED
    BY <1>1, <2>1, <1>3, NoOperationIsNone, SameGrow, KeepsMessages DEF ServiceInv, CheckedInv,
       RunningAgrees, Worker, Reached, Started
<1>4. CASE ExitTimeout
  BY <1>1, <1>4, SignalGrows, KeepsService DEF ExitTimeout, lifeVars, SameRequest, TypeOK,
     Operation
<1>5. CASE KillTimeout
  BY <1>1, <1>5, SameGrow, NoOperationIsNone, KeepsService DEF KillTimeout, workerVars, Settle
<1>6. ASSUME NEW free \in BOOLEAN, PortChecked(free) PROVE ServiceInv'
  BY <1>1, <1>6, SameGrow, ClearReads, NoOperationIsNone, KeepsService DEF PortChecked, Settle,
     Release
<1>7. CASE RestartForks
  BY <1>1, <1>7, ClearReads, ForkKeepsService, ForkFailsKeepsService DEF RestartForks
<1> QED
  BY <1>2, <1>3, <1>4, <1>5, <1>6, <1>7 DEF OperationEvent

LEMMA ChildEventKeepsService ==
  ASSUME TypeOK, TypeOK', OneWorkerInv, BooksInv, ServiceInv, ChildEvent
  PROVE  ServiceInv'
<1>1. WorkerTypeOK /\ requestSequence \in Nat /\ requestSequence >= requestSequence /\ MessagesInv
  BY DEF TypeOK, ServiceInv
<1>2. CASE OnReady
  <2>1. UNCHANGED <<epoch, factVars, requestSequence, phase>> /\ Incoming
    BY <1>2 DEF OnReady, messageFrame
  <2>2. CASE /\ Send("configure", operation.id, operation.snap, 0)
             /\ operation' = [operation EXCEPT !.step = "configured"] /\ UNCHANGED procs
    BY <1>1, <2>1, <2>2, StepSame, SendAsks, SameGrow, IncomingReads, KeepsService DEF Asked,
       SameRequest, MessagesInv
  <2>3. CASE SendFails /\ Thrown(childExited)
    BY <1>1, <2>1, <2>3, ThrownMoves, IncomingReads, KeepsService DEF SendFails
  <2> QED
    BY <1>2, <2>2, <2>3 DEF OnReady
<1>3. CASE OnStartConfigured
  <2>1. UNCHANGED <<epoch, factVars, requestSequence, phase, procs, toWorker>> /\ Incoming
        /\ operation' = [operation EXCEPT !.step = "health"]
    BY <1>3 DEF OnStartConfigured, messageFrame
  <2>2. SameRequest /\ operation'.step = "health"
    BY <2>1, StepSame
  <2>3. MessagesInv'
    BY <1>1, <2>1, <2>2, SameGrow, IncomingReads, KeepsMessages
  <2>4. procs[epoch].alive => Reached(procs[epoch], operation.snap)
    BY <1>1, <1>3, <2>1, IncomingReads DEF OnStartConfigured, Answers, Told
  <2> QED
    BY <2>1, <2>2, <2>3, <2>4 DEF ServiceInv, CheckedInv, RunningAgrees, Worker, SameRequest,
       factVars
<1>4. CASE OnApplyConfigured
  <2>1. UNCHANGED <<epoch, requestSequence, phase, procs, toWorker>> /\ Incoming
        /\ operation' = NoOperation /\ generation' = operation.snap.gen
    BY <1>4 DEF OnApplyConfigured, messageFrame, Settle
  <2>2. lastSnapshot'.cfg = operation.snap.cfg
    BY <1>4 DEF OnApplyConfigured, TypeOK, Operation, Snapshot
  <2>3. RunningAgrees'
    BY <2>1, <1>1, <1>4, <2>2, IncomingReads DEF RunningAgrees, Worker, Reached, ServiceInv,
       OnApplyConfigured, Answers, Told
  <2> QED
    BY <1>1, <2>1, <2>3, NoOperationIsNone, SameGrow, IncomingReads, KeepsMessages DEF
       ServiceInv, CheckedInv
<1>5. CASE OnAccountStateApplied
  <2>1. UNCHANGED <<epoch, requestSequence, phase, procs, toWorker, generation>> /\ Incoming
        /\ operation' = NoOperation /\ accountRevision' = operation.rev
    BY <1>5 DEF OnAccountStateApplied, messageFrame, Settle
  <2>2. operation.fn = "account"
    BY <1>5 DEF OnAccountStateApplied, BooksInv, OperationInv
  <2>3. lastSnapshot'.cfg = lastSnapshot.cfg
    BY <1>5 DEF OnAccountStateApplied, TypeOK, Snapshot
  <2>4. RunningAgrees'
    BY <2>1, <1>1, <1>5, <2>2, <2>3, IncomingReads DEF ServiceInv, RunningAgrees, Worker,
       OnAccountStateApplied, Answers, Told
  <2> QED
    BY <1>1, <2>1, <2>4, NoOperationIsNone, SameGrow, IncomingReads, KeepsMessages DEF
       ServiceInv, CheckedInv
<1>6. CASE OnDrained
  <2>1. UNCHANGED <<epoch, factVars, phase>> /\ Incoming
    BY <1>6 DEF OnDrained, messageFrame
  <2>2. CASE UNCHANGED <<requestSequence, toWorker>> /\ Thrown(childExited)
    BY <1>1, <2>1, <2>2, ThrownMoves, IncomingReads, KeepsService
  <2>3. CASE /\ requestSequence' = requestSequence + 1 /\ UNCHANGED procs
             /\ Send("shutdown", requestSequence + 1, NoSnapshot, 0)
             /\ operation' = [operation EXCEPT !.step = "exit"]
    <3>1. \A e \in Epochs : \A m \in Of(toWorker'[e]) : m \in Of(toWorker[e]) \/ Asked(m)'
      BY <1>1, <2>3, SendAsks DEF Asked
    <3> QED
      BY <1>1, <2>1, <2>3, <3>1, StepSame, SameGrow, IncomingReads, KeepsService
  <2>4. CASE /\ requestSequence' = requestSequence + 1
             /\ SendFails /\ Terminate(operation, childExited)
    BY <1>1, <2>1, <2>4, TerminateGrows, TerminateSame, IncomingReads, KeepsService DEF SendFails
  <2> QED
    BY <1>6, <2>2, <2>3, <2>4 DEF OnDrained
<1>7. CASE OnFatal \/ OnUnawaited
  <2>1. UNCHANGED <<epoch, factVars, phase, requestSequence, toWorker>> /\ Incoming
        /\ (Thrown(childExited) \/ UNCHANGED <<operation, procs>>)
    BY <1>7 DEF OnFatal, OnUnawaited, messageFrame, managerVars, lifeVars
  <2>2. CASE Thrown(childExited)
    BY <1>1, <2>1, <2>2, ThrownMoves, IncomingReads, KeepsService
  <2>3. CASE UNCHANGED <<operation, procs>>
    BY <1>1, <2>1, <2>3, SameGrow, IncomingReads, KeepsService DEF SameRequest
  <2> QED
    BY <2>1, <2>2, <2>3
<1>8. CASE HealthAnswers
  BY <1>1, <1>8, StepSame, SameGrow, KeepsService DEF SameRequest, HealthAnswers, lifeVars,
     workerVars
<1>9. CASE ChildCrashed
  BY <1>1, <1>9, SameGrow, ClearReads, NoOperationIsNone, KeepsService DEF ChildCrashed,
     Release, ScheduleRecovery
<1>10. CASE ChildExits
  <2>1. UNCHANGED <<epoch, factVars, phase, requestSequence, toWorker, toManager>>
    BY <1>10 DEF ChildExits
  <2>2. CASE Thrown(TRUE)
    BY <2>1, <2>2, ThrownMoves, KeepsService
  <2>3. CASE operation' = [operation EXCEPT !.step = "port"] /\ UNCHANGED procs
    BY <1>1, <2>1, <2>3, StepSame, SameGrow, KeepsService
  <2>4. CASE UNCHANGED <<operation, procs>>
    BY <2>1, <2>4, IdleKeepsService DEF workerVars
  <2> QED
    BY <1>10, <2>2, <2>3, <2>4 DEF ChildExits
<1> QED
  BY <1>2, <1>3, <1>4, <1>5, <1>6, <1>7, <1>8, <1>9, <1>10 DEF ChildEvent

LEMMA ServiceInit == Init => ServiceInv
<1> SUFFICES ASSUME Init PROVE ServiceInv
  OBVIOUS
<1> QED
  BY DEF Init, ServiceInv, CheckedInv, RunningAgrees, NoOperation, MessagesInv, WorkerInit, Of

LEMMA ServiceStep ==
  TypeOK /\ TypeOK' /\ OneWorkerInv /\ BooksInv /\ ServiceInv /\ [Next]_vars => ServiceInv'
<1> SUFFICES ASSUME TypeOK, TypeOK', OneWorkerInv, BooksInv, ServiceInv, [Next]_vars
             PROVE  ServiceInv'
  OBVIOUS
<1>1. CASE ManagerStep
  BY <1>1, MicrotaskKeepsService, OperationEventKeepsService, ChildEventKeepsService,
     RecoveryEventKeepsService DEF ManagerStep
<1>2. CASE CallerStep
  BY <1>2, CallerStepKeepsService
<1>3. CASE ProcessStep
  BY <1>3, ProcessKeepsService
<1>4. CASE UNCHANGED vars
  BY <1>4, IdleKeepsService DEF vars, managerVars, lifeVars
<1> QED
  BY <1>1, <1>2, <1>3, <1>4 DEF Next

\* A running Worker that is alive serves what the manager calls confirmed, or something newer
\* of which the acknowledgement was given up on; and a caller who is told that its snapshot
\* runs has got its own settings, also when it had joined the operation of somebody else.
\* This needs what the ProviderService sees to: a snapshot is built on the generation that
\* the manager has confirmed.
THEOREM ConfirmedServed == GenerationLag = 0 => (Spec => []ConfirmedIsServed)
<1> SUFFICES ASSUME GenerationLag = 0 PROVE Spec => []ConfirmedIsServed
  OBVIOUS
<1>1. BooksInv /\ ServiceInv => ConfirmedIsServed
  <2> SUFFICES ASSUME BooksInv, ServiceInv PROVE ConfirmedIsServed
    OBVIOUS
  <2> QED
    BY DEF ConfirmedIsServed, BooksInv, CallsInv, RunningAgrees, ServesConfirmed, ServiceInv
<1>2. TypeOK /\ OneWorkerInv /\ BooksInv /\ ServiceInv /\ [Next]_vars
        => TypeOK' /\ OneWorkerInv' /\ BooksInv' /\ ServiceInv'
  BY NextType, OneWorkerStep, BooksStep, ServiceStep
<1>3. Init => TypeOK /\ OneWorkerInv /\ BooksInv /\ ServiceInv
  BY InitType, OneWorkerInit, BooksInit, ServiceInit
<1> QED
  BY <1>1, <1>2, <1>3, PTL DEF Spec

------------------------
(* The ranks of the elements of a set of positions *)

LEMMA UpToBounds ==
  ASSUME NEW S \in SUBSET Nat, IsFiniteSet(S), NEW i \in S
  PROVE  /\ UpTo(S, i) \in 1..Cardinality(S)
         /\ \A j \in S : j < i => UpTo(S, j) < UpTo(S, i)
<1> DEFINE T(k) == {j \in S : j <= k}
<1>1. \A k \in S : IsFiniteSet(T(k)) /\ Cardinality(T(k)) \in Nat
                   /\ Cardinality(T(k)) <= Cardinality(S) /\ Cardinality(T(k)) # 0
  BY FS_Subset, FS_EmptySet, FS_CardinalityType
<1>2. ASSUME NEW j \in S, j < i PROVE Cardinality(T(j)) < Cardinality(T(i))
  <2>1. i \in Nat /\ j \in Nat /\ \A k \in S : k \in Nat
    OBVIOUS
  <2>2. (\A k \in S : k <= j => k <= i) /\ i <= i /\ ~(i <= j)
    BY <1>2, <2>1
  <2>2a. T(j) \in SUBSET T(i) /\ i \in T(i) /\ i \notin T(j)
    BY <2>2
  <2> HIDE DEF T
  <2> QED
    BY <1>1, <2>2a, FS_Subset
<1> QED
  BY <1>1, <1>2, FS_CardinalityType DEF UpTo

LEMMA NthExists ==
  ASSUME NEW S \in SUBSET Nat, IsFiniteSet(S)
  PROVE  /\ Cardinality(S) \in Nat
         /\ \A n \in 1..Cardinality(S) : Nth(S, n) \in S /\ UpTo(S, Nth(S, n)) = n
         /\ \A i \in S : UpTo(S, i) \in 1..Cardinality(S) /\ Nth(S, UpTo(S, i)) = i
<1> DEFINE N == Cardinality(S)
           f == [i \in S |-> UpTo(S, i)]
<1>1. N \in Nat
  BY FS_CardinalityType
<1>2. \A i \in S : UpTo(S, i) \in 1..N
  BY UpToBounds
<1>3. \A i, j \in S : UpTo(S, i) = UpTo(S, j) => i = j
  <2> SUFFICES ASSUME NEW i \in S, NEW j \in S, i # j PROVE UpTo(S, i) # UpTo(S, j)
    OBVIOUS
  <2>1. CASE i < j
    BY <1>1, <1>2, <2>1, UpToBounds
  <2>2. CASE j < i
    BY <1>1, <1>2, <2>2, UpToBounds
  <2> QED
    BY <2>1, <2>2
<1>4. f \in Injection(S, 1..N)
  BY <1>2, <1>3 DEF Injection, IsInjective
<1>5. f \in Surjection(S, 1..N)
  BY <1>4, <1>1, FS_Interval, FS_Injection
<1> QED
  BY <1>1, <1>2, <1>3, <1>5 DEF Nth, Surjection

\* The same ranks in a set that has grown at its end.
LEMMA NthOfGrown ==
  ASSUME NEW S \in SUBSET Nat, IsFiniteSet(S), NEW x \in Nat, \A i \in S : i < x
  PROVE  /\ Cardinality(S \union {x}) = Cardinality(S) + 1
         /\ \A n \in 1..Cardinality(S) : Nth(S \union {x}, n) = Nth(S, n)
         /\ Nth(S \union {x}, Cardinality(S) + 1) = x
<1> DEFINE T == S \union {x}
<1>1. x \notin S /\ T \in SUBSET Nat /\ (\A i \in S : i \in Nat)
  OBVIOUS
<1>2. IsFiniteSet(T) /\ Cardinality(T) = Cardinality(S) + 1
  BY <1>1, FS_AddElement
<1>3. \A i \in S : {j \in T : j <= i} = {j \in S : j <= i}
  BY <1>1
<1>4. {j \in T : j <= x} = T
  <2>1. \A i \in S : i <= x
    BY <1>1
  <2>2. x <= x
    OBVIOUS
  <2> QED
    BY <2>1, <2>2
<1>5. Cardinality(S) \in Nat
  BY FS_CardinalityType
<1>6. ASSUME NEW n \in 1..Cardinality(S) PROVE Nth(T, n) = Nth(S, n)
  <2>1. UpTo(T, Nth(S, n)) = n /\ Nth(S, n) \in T
    BY <1>3, NthExists DEF UpTo
  <2> QED
    BY <2>1, <1>1, <1>2, NthExists
<1> HIDE DEF T
<1> QED
  BY <1>2, <1>4, <1>1, <1>6, NthExists DEF T, UpTo

\* The ranks in a set that has moved up by one, as a queue does when its head is read.
LEMMA NthOfMoved ==
  ASSUME NEW S \in SUBSET (Nat \ {0}), IsFiniteSet(S), 
         NEW T, T = {i \in Nat : i + 1 \in S}
  PROVE  /\ IsFiniteSet(T) /\ Cardinality(T) = Cardinality(S)
         /\ \A n \in 1..Cardinality(S) : Nth(T, n) + 1 = Nth(S, n)
<1>1. T \in SUBSET Nat /\ (\A i \in T : i + 1 \in S) /\ (\A i \in S : i - 1 \in T /\ i \in Nat)
  OBVIOUS
<1>2. ASSUME NEW S1 \in SUBSET S, NEW T1 \in SUBSET T, \A i \in T : i \in T1 <=> i + 1 \in S1
      PROVE  IsFiniteSet(T1) /\ Cardinality(T1) = Cardinality(S1)
  <2> DEFINE f == [i \in S1 |-> i - 1]
  <2>1. \A i \in S1 : i - 1 \in T1
    BY <1>1, <1>2
  <2>2. f \in Surjection(S1, T1)
    <3>1. \A i \in T1 : f[i + 1] = i /\ i + 1 \in S1
      BY <1>1, <1>2
    <3>2. f \in [S1 -> T1]
      BY <2>1
    <3> HIDE DEF f
    <3> QED
      BY <3>1, <3>2 DEF Surjection
  <2>3. ExistsBijection(S1, T1)
    BY <2>1, <1>1, <2>2 DEF ExistsBijection, Bijection, Injection, IsInjective
  <2> QED
    BY <2>3, FS_Subset, FS_Bijection
<1>3. IsFiniteSet(T) /\ Cardinality(T) = Cardinality(S)
  BY <1>1, <1>2
<1>4. ASSUME NEW i \in T PROVE UpTo(T, i) = UpTo(S, i + 1)
  <2> DEFINE S1 == {j \in S : j <= i + 1}
             T1 == {j \in T : j <= i}
  <2>1. \A j \in T : j \in T1 <=> j + 1 \in S1
    BY <1>1
  <2>2. S1 \in SUBSET S /\ T1 \in SUBSET T
    OBVIOUS
  <2> HIDE DEF S1, T1
  <2> QED
    BY <1>2, <2>1, <2>2 DEF UpTo, S1, T1
<1>5. ASSUME NEW n \in 1..Cardinality(S) PROVE Nth(T, n) + 1 = Nth(S, n)
  <2>1. UpTo(S, Nth(T, n) + 1) = n /\ Nth(T, n) + 1 \in S
    BY <1>1, <1>4, <1>3, NthExists
  <2>2. Nth(S, UpTo(S, Nth(T, n) + 1)) = Nth(T, n) + 1
    BY <2>1, NthExists
  <2> QED
    BY <2>1, <2>2
<1> QED
  BY <1>3, <1>5

\* The ranks in a set that has lost its first element.
LEMMA NthOfRest ==
  ASSUME NEW S \in SUBSET Nat, IsFiniteSet(S), NEW x \in S, \A i \in S : x <= i
  PROVE  /\ IsFiniteSet(S \ {x}) /\ Cardinality(S \ {x}) = Cardinality(S) - 1
         /\ Nth(S, 1) = x
         /\ \A n \in 1..Cardinality(S \ {x}) : Nth(S \ {x}, n) = Nth(S, n + 1)
<1> DEFINE T == S \ {x}
<1>1. IsFiniteSet(T) /\ Cardinality(T) = Cardinality(S) - 1
  BY FS_RemoveElement
<1>2. {j \in S : j <= x} = {x}
  <2>1. \A j \in S : j <= x => j = x
    BY SMT
  <2>2. x <= x
    BY SMT
  <2> QED
    BY <2>1, <2>2
<1>3. UpTo(S, x) = 1
  BY <1>2, FS_Singleton DEF UpTo
<1>4. ASSUME NEW i \in T PROVE UpTo(T, i) = UpTo(S, i) - 1
  <2>1. {j \in T : j <= i} = {j \in S : j <= i} \ {x} /\ x \in {j \in S : j <= i}
    OBVIOUS
  <2>2. IsFiniteSet({j \in S : j <= i})
    BY FS_Subset
  <2> DEFINE U == {j \in S : j <= i}
  <2>3. IsFiniteSet(U) /\ x \in U
    BY <2>1, <2>2
  <2> HIDE DEF U
  <2>4. Cardinality(U \ {x}) = Cardinality(U) - 1
    BY <2>3, FS_RemoveElement
  <2> USE DEF U
  <2> QED
    BY <2>1, <2>4 DEF UpTo
<1>5. ASSUME NEW n \in 1..Cardinality(T) PROVE Nth(T, n) = Nth(S, n + 1)
  <2>1. UpTo(S, Nth(T, n)) - 1 = n /\ Nth(T, n) \in S
    BY <1>4, <1>1, NthExists
  <2>2. UpTo(S, Nth(T, n)) \in 1..Cardinality(S) /\ Nth(S, UpTo(S, Nth(T, n))) = Nth(T, n)
    BY <2>1, NthExists
  <2> QED
    BY <2>2, <1>1, <2>1, FS_CardinalityType
<1> HIDE DEF T
<1> QED
  BY <1>1, <1>3, <1>5, NthExists DEF T

------------------------
(* The snapshots in a queue *)

SlotSnap == [gen : Nat, cfg : Configs \union {NoConfig}]

LEMMA ConfiguresFinite ==
  ASSUME NEW q \in Seq(Request)
  PROVE  /\ Configures(q) \in SUBSET (Nat \ {0}) /\ Configures(q) \in SUBSET Nat
         /\ IsFiniteSet(Configures(q)) /\ Cardinality(Configures(q)) \in Nat
         /\ \A i \in Configures(q) : i \in 1..Len(q)
<1>1. Len(q) \in Nat /\ DOMAIN q = 1..Len(q)
  OBVIOUS
<1>2. IsFiniteSet(1..Len(q))
  BY <1>1, FS_Interval
<1> QED
  BY <1>1, <1>2, FS_Subset, FS_CardinalityType DEF Configures

LEMMA SnapsType ==
  ASSUME NEW q \in Seq(Request)
  PROVE  /\ Snaps(q) \in Seq(SlotSnap) /\ Len(Snaps(q)) = Cardinality(Configures(q))
         /\ Configures(q) = {} => Snaps(q) = <<>>
         /\ Configures(q) # {} => Snaps(q) # <<>>
<1> DEFINE N == Cardinality(Configures(q))
<1>1. N \in Nat /\ IsFiniteSet(Configures(q))
  BY ConfiguresFinite
<1>2. ASSUME NEW n \in 1..N PROVE WithoutRevision(q[Nth(Configures(q), n)].snap) \in SlotSnap
  <2>1. q[Nth(Configures(q), n)] \in Request
    BY ConfiguresFinite, NthExists DEF Configures
  <2> QED
    BY <2>1 DEF Request, Snapshot, SlotSnap, WithoutRevision
<1>3. Snaps(q) \in [1..N -> SlotSnap]
  BY <1>2 DEF Snaps
<1>4. Snaps(q) \in Seq(SlotSnap) /\ Len(Snaps(q)) = N
  <2> HIDE DEF N
  <2> QED
    BY <1>1, <1>3
<1> HIDE DEF N
<1> QED
  BY <1>1, <1>4, FS_EmptySet, EmptySeq DEF N

LEMMA SnapsAt ==
  ASSUME NEW q \in Seq(Request), NEW n \in 1..Cardinality(Configures(q))
  PROVE  /\ Nth(Configures(q), n) \in Configures(q)
         /\ Snaps(q)[n] = WithoutRevision(q[Nth(Configures(q), n)].snap)
BY ConfiguresFinite, NthExists DEF Snaps

\* A message at the end of a queue that is no configure does not count, a configure does.
LEMMA SnapsAppend ==
  ASSUME NEW q \in Seq(Request), NEW m \in Request
  PROVE  Snaps(Append(q, m)) = IF m.type = "configure" THEN Append(Snaps(q), WithoutRevision(m.snap))
                               ELSE Snaps(q)
<1> DEFINE r == Append(q, m)
           S == Configures(q)
           x == Len(q) + 1
           w == WithoutRevision(m.snap)
<1>1. /\ r \in Seq(Request) /\ Len(q) \in Nat /\ DOMAIN r = 1..x /\ DOMAIN q = 1..Len(q)
      /\ \A i \in 1..Len(q) : r[i] = q[i]
      /\ r[x] = m
  OBVIOUS
<1>2. /\ S \in SUBSET Nat /\ IsFiniteSet(S) /\ Cardinality(S) \in Nat
      /\ \A i \in S : i \in 1..Len(q)
  BY ConfiguresFinite
<1>3. x \in Nat /\ (\A i \in S : i < x) /\ (\A i \in 1..x : i \in 1..Len(q) \/ i = x)
      /\ (\A i \in 1..Len(q) : i \in 1..x) /\ x \in 1..x
  BY <1>1, <1>2
<1>4. w \in SlotSnap
  BY DEF Request, Snapshot, SlotSnap, WithoutRevision
<1>5. Snaps(q) \in Seq(SlotSnap) /\ Len(Snaps(q)) = Cardinality(S)
      /\ Snaps(r) \in Seq(SlotSnap) /\ Len(Snaps(r)) = Cardinality(Configures(r))
  BY <1>1, SnapsType
<1> HIDE DEF r, x, w
<1>6. CASE m.type # "configure"
  <2>1. Configures(r) = S
    BY <1>1, <1>3, <1>6 DEF Configures
  <2>2. \A n \in 1..Cardinality(S) : Snaps(r)[n] = Snaps(q)[n]
    <3> SUFFICES ASSUME NEW n \in 1..Cardinality(S) PROVE Snaps(r)[n] = Snaps(q)[n]
      OBVIOUS
    <3> QED
      BY <1>1, <1>2, <2>1, SnapsAt
  <2>3. Snaps(r) = Snaps(q)
    <3> HIDE DEF S
    <3> QED
      BY <1>5, <2>1, <2>2, SeqEqual
  <2> QED
    BY <1>6, <2>3 DEF r
<1>7. CASE m.type = "configure"
  <2>1. Configures(r) = S \union {x}
    BY <1>1, <1>3, <1>7 DEF Configures
  <2>2. /\ Cardinality(S \union {x}) = Cardinality(S) + 1
        /\ \A n \in 1..Cardinality(S) : Nth(S \union {x}, n) = Nth(S, n)
        /\ Nth(S \union {x}, Cardinality(S) + 1) = x
    BY <1>2, <1>3, NthOfGrown
  <2> DEFINE N == Cardinality(S)
  <2>3. ASSUME NEW n \in 1..N PROVE Snaps(r)[n] = Snaps(q)[n]
    <3>1. n \in 1..Cardinality(Configures(r))
      BY <1>2, <2>1, <2>2
    <3>2. Nth(Configures(r), n) = Nth(S, n)
      BY <2>1, <2>2
    <3> QED
      BY <1>1, <1>2, <3>1, <3>2, SnapsAt
  <2>4. Snaps(r)[N + 1] = w
    <3>1. N + 1 \in 1..Cardinality(Configures(r))
      BY <1>2, <2>1, <2>2
    <3>2. Nth(Configures(r), N + 1) = x
      BY <2>1, <2>2
    <3> QED
      BY <1>1, <3>1, <3>2, SnapsAt DEF w
  <2>5. Len(Snaps(r)) = N + 1 /\ N \in Nat /\ Len(Snaps(q)) = N
    BY <1>2, <1>5, <2>1, <2>2
  <2> HIDE DEF N, S
  <2>6. Snaps(r) = Append(Snaps(q), w)
    <3> DEFINE a == Append(Snaps(q), w)
    <3>1. a \in Seq(SlotSnap) /\ Len(a) = N + 1 /\ a[N + 1] = w /\ \A n \in 1..N : a[n] = Snaps(q)[n]
      BY <1>4, <1>5, <2>5
    <3> HIDE DEF a
    <3> QED
      BY <1>5, <2>5, <3>1, <2>3, <2>4, SeqEqual DEF a
  <2> QED
    BY <1>7, <2>6 DEF r, w
<1> QED
  BY <1>6, <1>7

\* The head of a queue is the first of its snapshots, if it is a configure.
LEMMA SnapsTail ==
  ASSUME NEW q \in Seq(Request), q # <<>>
  PROVE  IF Head(q).type = "configure"
         THEN /\ Snaps(q) # <<>> /\ Head(Snaps(q)) = WithoutRevision(Head(q).snap)
              /\ Snaps(Tail(q)) = Tail(Snaps(q))
         ELSE Snaps(Tail(q)) = Snaps(q)
<1> DEFINE r == Tail(q)
           S == Configures(q)
           T == Configures(r)
           R == S \ {1}
<1>1. /\ r \in Seq(Request) /\ Len(q) \in Nat \ {0} /\ Len(r) = Len(q) - 1
      /\ DOMAIN r = 1..Len(r) /\ DOMAIN q = 1..Len(q)
      /\ \A i \in 1..Len(r) : r[i] = q[i + 1]
      /\ Head(q) = q[1]
  OBVIOUS
<1> HIDE DEF r
<1>2. /\ S \in SUBSET (Nat \ {0}) /\ S \in SUBSET Nat /\ IsFiniteSet(S) /\ Cardinality(S) \in Nat
      /\ \A i \in S : i \in 1..Len(q)
  BY ConfiguresFinite
<1>3. Snaps(q) \in Seq(SlotSnap) /\ Len(Snaps(q)) = Cardinality(S)
      /\ Snaps(r) \in Seq(SlotSnap) /\ Len(Snaps(r)) = Cardinality(T)
  BY <1>1, SnapsType
<1>4. T = {i \in Nat : i + 1 \in R}
  <2>1. ASSUME NEW i \in Nat PROVE i \in T <=> i + 1 \in R
    BY <1>1 DEF Configures
  <2> QED
    BY <1>1, <2>1 DEF Configures
<1>5. IsFiniteSet(R) /\ R \in SUBSET (Nat \ {0})
  BY <1>2, FS_RemoveElement
<1>6. /\ IsFiniteSet(T) /\ Cardinality(T) = Cardinality(R)
      /\ \A n \in 1..Cardinality(R) : Nth(T, n) + 1 = Nth(R, n)
  <2> HIDE DEF T, R
  <2> QED
    BY <1>4, <1>5, NthOfMoved
<1>7. ASSUME NEW n \in 1..Cardinality(T)
      PROVE  Snaps(r)[n] = WithoutRevision(q[Nth(R, n)].snap)
  <2>1. Nth(T, n) \in T /\ Snaps(r)[n] = WithoutRevision(r[Nth(T, n)].snap)
    BY <1>1, SnapsAt
  <2> QED
    BY <1>1, <1>6, <2>1 DEF Configures
<1>8. CASE Head(q).type # "configure"
  <2>1. R = S
    BY <1>1, <1>8 DEF Configures
  <2>2. \A n \in 1..Cardinality(S) : Snaps(q)[n] = WithoutRevision(q[Nth(S, n)].snap)
    BY SnapsAt
  <2>3. Snaps(r) = Snaps(q)
    <3> HIDE DEF S, T, R
    <3> QED
      BY <1>3, <1>6, <1>7, <2>1, <2>2, SeqEqual
  <2> QED
    BY <1>8, <2>3 DEF r
<1>9. CASE Head(q).type = "configure"
  <2>1. 1 \in S
    BY <1>1, <1>9 DEF Configures
  <2>2. \A i \in S : 1 <= i
    BY <1>2
  <2>3. /\ Cardinality(R) = Cardinality(S) - 1 /\ Nth(S, 1) = 1
        /\ \A n \in 1..Cardinality(R) : Nth(R, n) = Nth(S, n + 1)
    BY <1>2, <2>1, <2>2, NthOfRest
  <2>4. \A n \in 1..Cardinality(S) : Snaps(q)[n] = WithoutRevision(q[Nth(S, n)].snap)
    BY SnapsAt
  <2> DEFINE N == Cardinality(S)
  <2>5. N \in Nat \ {0} /\ Cardinality(T) = N - 1 /\ Len(Snaps(q)) = N /\ Len(Snaps(r)) = N - 1
    BY <1>2, <1>3, <1>6, <2>3, <2>1, FS_EmptySet
  <2> HIDE DEF N, T, R
  <2>6. \A n \in 1..N - 1 : Snaps(r)[n] = Snaps(q)[n + 1]
    <3> SUFFICES ASSUME NEW n \in 1..N - 1 PROVE Snaps(r)[n] = Snaps(q)[n + 1]
      OBVIOUS
    <3> QED
      BY <1>7, <2>3, <2>4, <1>6, <2>5 DEF N
  <2> HIDE DEF S
  <2>7. Snaps(q) # <<>> /\ Head(Snaps(q)) = Snaps(q)[1]
    BY <1>3, <2>5
  <2>8. Snaps(r) = Tail(Snaps(q))
    <3> DEFINE t == Tail(Snaps(q))
    <3>1. t \in Seq(SlotSnap) /\ Len(t) = N - 1 /\ \A n \in 1..N - 1 : t[n] = Snaps(q)[n + 1]
      BY <1>3, <2>5, <2>7
    <3> HIDE DEF t
    <3> QED
      BY <1>3, <2>5, <2>6, <3>1, SeqEqual DEF t
  <2> QED
    BY <1>9, <1>1, <2>3, <2>4, <2>5, <2>7, <2>8 DEF r, N
<1> QED
  BY <1>8, <1>9

------------------------
(* The queues to the Workers *)

Ascending(q) == \A i, j \in DOMAIN q : i < j => q[i].id < q[j].id

\* The Worker runs exactly this snapshot.
Runs(w, snap) == w.gen = snap.gen /\ w.cfg = snap.cfg

\* A Worker that is dead is sent nothing, the others get requests in the order of their ids.
QueueInv(e) == (toWorker[e] # <<>> => procs[e].alive) /\ Ascending(toWorker[e])

\* An acknowledged configure was taken before what is still in the queue; when it is that
\* of the operation in flight, the Worker has taken no other since.
AcknowledgedInv(e) ==
  \A m \in Of(toManager[e]) : m.type = "configured" =>
    /\ e <= epoch
    /\ \A n \in Of(toWorker[e]) : m.id < n.id
    /\ procs[e].alive /\ m.id = operation.id /\ operation.fn \in {"start", "apply"} =>
         Runs(procs[e], operation.snap)

\* The request of a start or of an apply is the last one sent.
LastRequestInv == operation.fn \in {"start", "apply"} => operation.id = requestSequence

\* A Worker that boots was sent nothing yet.
BootInv ==
  operation.step = "ready" =>
    /\ toWorker[epoch] = <<>>
    /\ \A m \in Of(toManager[epoch]) : m.type # "configured"
    /\ Worker.alive => Worker.gen = 0 /\ Worker.cfg = NoConfig

\* A Worker whose health is checked runs what it was started with.
Taken == toWorker[epoch] = <<>> /\ (Worker.alive => Runs(Worker, operation.snap))
TakenInv == operation.step \in {"health", "healthy"} => Taken

SlotInv ==
  /\ \A e \in Epochs : QueueInv(e) /\ AcknowledgedInv(e)
  /\ LastRequestInv /\ BootInv /\ TakenInv

LEMMA QueueTail ==
  ASSUME NEW q \in Seq(Request), q # <<>>, Ascending(q)
  PROVE  Ascending(Tail(q)) /\ \A n \in Of(Tail(q)) : Head(q).id < n.id
<1> DEFINE r == Tail(q)
<1> HIDE DEF r
<1> QED
  BY DEF r, Ascending, Of

LEMMA QueueAppend ==
  ASSUME NEW q \in Seq(Request), NEW m \in Request, Ascending(q), \A n \in Of(q) : n.id < m.id
  PROVE  Ascending(Append(q, m))
<1> DEFINE r == Append(q, m)
<1>1. /\ Len(q) \in Nat /\ DOMAIN r = 1..(Len(q) + 1) /\ DOMAIN q = 1..Len(q)
      /\ \A i \in 1..Len(q) : r[i] = q[i] /\ q[i] \in Of(q)
      /\ r[Len(q) + 1] = m
  BY DEF Of
<1> HIDE DEF r
<1>2. Ascending(r)
  <2> SUFFICES ASSUME NEW i \in 1..(Len(q) + 1), NEW j \in 1..(Len(q) + 1), i < j
               PROVE  r[i].id < r[j].id
    BY <1>1 DEF Ascending
  <2> QED
    BY <1>1 DEF Ascending
<1> QED
  BY <1>2 DEF r

------------------------
(* What the steps of the manager have in common: the Workers go on, their    *)
(* queues grow by new requests, their messages are read.                     *)

WorkersStay ==
  \A e \in Epochs : procs'[e].alive = procs[e].alive /\ procs'[e].gen = procs[e].gen
                    /\ procs'[e].cfg = procs[e].cfg

QueuesGrow ==
  \A e \in Epochs :
    \/ toWorker'[e] = toWorker[e]
    \/ /\ procs[e].alive
       /\ \E m \in Request : m.id > requestSequence /\ m.id <= requestSequence'
                             /\ toWorker'[e] = Append(toWorker[e], m)

MessagesRead == \A e \in Epochs : \A m \in Of(toManager'[e]) : m \in Of(toManager[e])

SameJob ==
  /\ operation'.fn = operation.fn /\ operation'.id = operation.id
  /\ operation'.snap = operation.snap /\ requestSequence' = requestSequence
NewJob == operation'.id = requestSequence' /\ requestSequence' > requestSequence

LEMMA ManagerKeepsSlot ==
  ASSUME TypeOK, TypeOK', OneWorkerInv, BooksInv, MessagesInv, SlotInv,
         UNCHANGED epoch, WorkersStay, QueuesGrow, MessagesRead,
         requestSequence' >= requestSequence,
         operation'.fn \in {"start", "apply"} => SameJob \/ NewJob,
         operation'.step = "ready" => operation.step = "ready" /\ UNCHANGED toWorker,
         operation'.step \in {"health", "healthy"} =>
           UNCHANGED toWorker /\ operation'.snap = operation.snap /\ operation.fn = "start" /\ Taken
  PROVE  SlotInv'
<1>1. /\ requestSequence \in Nat /\ requestSequence' \in Nat
      /\ operation.id \in Nat /\ operation'.id \in Nat
  BY DEF TypeOK, Operation
<1>2. ASSUME NEW e \in Epochs PROVE QueueInv(e)' /\ AcknowledgedInv(e)'
  <2>1. toWorker[e] \in Seq(Request) /\ toManager[e] \in Seq(Message)
        /\ QueueInv(e) /\ AcknowledgedInv(e)
    BY DEF TypeOK, WorkerTypeOK, SlotInv
  <2>2. \A n \in Of(toWorker[e]) : n \in Request /\ n.id \in Nat /\ n.id <= requestSequence
    BY <2>1, OfTypes DEF TypeOK, Request, MessagesInv, Asked
  <2>3. QueueInv(e)'
    <3>1. CASE toWorker'[e] = toWorker[e]
      BY <2>1, <3>1 DEF QueueInv, WorkersStay, Ascending
    <3>2. CASE toWorker'[e] # toWorker[e]
      <4>1. PICK m \in Request : m.id > requestSequence /\ toWorker'[e] = Append(toWorker[e], m)
        BY <3>2 DEF QueuesGrow
      <4>2. m.id \in Nat
        BY DEF Request
      <4> QED
        BY <3>2, <4>1, <1>1, <2>1, <2>2, <4>2, QueueAppend DEF QueueInv, QueuesGrow, WorkersStay
    <3> QED
      BY <3>1, <3>2
  <2>4. AcknowledgedInv(e)'
    <3> SUFFICES ASSUME NEW m \in Of(toManager'[e]), m.type = "configured"
                 PROVE  /\ e <= epoch
                        /\ \A n \in Of(toWorker'[e]) : m.id < n.id
                        /\ procs'[e].alive /\ m.id = operation'.id
                           /\ operation'.fn \in {"start", "apply"} =>
                             Runs(procs'[e], operation'.snap)
      BY DEF AcknowledgedInv
    <3>1. m \in Of(toManager[e]) /\ m.id \in Nat /\ m.id <= requestSequence
      BY <2>1, OfTypes DEF MessagesRead, TypeOK, Message, MessagesInv, Told
    <3>2. \A n \in Of(toWorker'[e]) : m.id < n.id
      <4>1. CASE toWorker'[e] = toWorker[e]
        BY <2>1, <3>1, <4>1 DEF AcknowledgedInv
      <4>2. CASE toWorker'[e] # toWorker[e]
        <5>1. PICK k \in Request : k.id > requestSequence /\ toWorker'[e] = Append(toWorker[e], k)
          BY <4>2 DEF QueuesGrow
        <5> QED
          BY <1>1, <2>1, <3>1, <5>1, OfAppend DEF AcknowledgedInv, Request
      <4> QED
        BY <4>1, <4>2
    <3>3. ASSUME procs'[e].alive, m.id = operation'.id, operation'.fn \in {"start", "apply"}
          PROVE  Runs(procs'[e], operation'.snap)
      BY <1>1, <3>1, <3>3, <2>1 DEF SameJob, WorkersStay, Runs, AcknowledgedInv, NewJob
    <3> QED
      BY <2>1, <3>1, <3>2, <3>3 DEF AcknowledgedInv
  <2> QED
    BY <2>3, <2>4
<1>3. operation'.step \in {"ready", "health", "healthy"} => epoch \in Epochs
  BY DEF OneWorkerInv, TypeOK, Epochs, BooksInv, OperationInv
<1>4. TakenInv'
  BY <1>3 DEF TakenInv, Taken, Worker, WorkersStay, Runs
<1> QED
  BY <1>2, <1>3, <1>4 DEF SlotInv, LastRequestInv, SameJob, NewJob, BootInv, Worker,
     WorkersStay, MessagesRead

------------------------
(* What the steps of a Worker have in common *)

\* The Worker goes on with what it runs; one that takes a configure it does not follow stops.
Continues(e) ==
  /\ procs[e].alive
  /\ \A f \in Epochs : f # e =>
       procs'[f] = procs[f] /\ toWorker'[f] = toWorker[f] /\ toManager'[f] = toManager[f]
  /\ procs'[e].alive /\ procs'[e].gen = procs[e].gen /\ procs'[e].cfg = procs[e].cfg
  /\ procs[e].stopping => procs'[e].stopping
  /\ \/ toWorker'[e] = toWorker[e]
     \/ /\ toWorker[e] # <<>> /\ toWorker'[e] = Tail(toWorker[e])
        /\ Head(toWorker[e]).type # "configure" \/ procs'[e].stopping
  /\ \A m \in Of(toManager'[e]) : m \in Of(toManager[e]) \/ m.type # "configured"

LEMMA WorkerContinues ==
  ASSUME TypeOK, NEW e \in Epochs, WorkerStep(e)
  PROVE  (procs[e].alive /\ Dies(e)) \/ Configure(e) \/ Continues(e)
<1>1. /\ procs \in [Epochs -> WorkerState] /\ procs[e] \in WorkerState
      /\ toWorker \in [Epochs -> Seq(Request)] /\ toManager \in [Epochs -> Seq(Message)]
  BY DEF TypeOK, WorkerTypeOK
<1>2. ASSUME NEW type, NEW id, NEW gen, Emit(e, type, id, gen), type # "configured"
      PROVE  /\ \A f \in Epochs : f # e => toManager'[f] = toManager[f]
             /\ \A m \in Of(toManager'[e]) : m \in Of(toManager[e]) \/ m.type # "configured"
  <2>1. \A f \in Epochs : f # e => toManager'[f] = toManager[f]
    BY <1>1, <1>2 DEF Emit
  <2> QED
    BY <1>2, <2>1, EmitTells DEF TypeOK
<1>3. ASSUME NEW type, Receive(e, type)
      PROVE  /\ \A f \in Epochs : f # e => toWorker'[f] = toWorker[f]
             /\ toWorker[e] # <<>> /\ toWorker'[e] = Tail(toWorker[e])
             /\ Head(toWorker[e]).type = type /\ procs[e].alive
  BY <1>1, <1>3 DEF Receive
<1>4. ASSUME NEW id, FailWorker(e, id), procs[e].alive
      PROVE  /\ \A f \in Epochs : f # e => procs'[f] = procs[f] /\ toManager'[f] = toManager[f]
             /\ procs'[e].alive /\ procs'[e].gen = procs[e].gen /\ procs'[e].cfg = procs[e].cfg
             /\ procs'[e].stopping
             /\ \A m \in Of(toManager'[e]) : m \in Of(toManager[e]) \/ m.type # "configured"
  <2>1. CASE procs[e].stopping
    BY <1>1, <1>4, <2>1 DEF FailWorker
  <2>2. CASE ~procs[e].stopping
    <3>1. procs' = [procs EXCEPT ![e].phase = "failed", ![e].stopping = TRUE,
                                 ![e].listening = FALSE]
          /\ Emit(e, "fatal", id, procs[e].gen)
      BY <1>4, <2>2 DEF FailWorker
    <3> QED
      BY <1>2, <3>1, <1>1, <1>4 DEF WorkerState
  <2> QED
    BY <2>1, <2>2
<1>5. CASE StartWorker(e)
  BY <1>2, <1>5, <1>1 DEF Continues, WorkerState, StartWorker
<1>6. CASE ConfigureFails(e)
  BY <1>3, <1>4, <1>6 DEF Continues, ConfigureFails
<1>7. CASE ApplyAccountState(e)
  <2>1. Receive(e, "account-state") /\ procs' = [procs EXCEPT ![e].rev = Head(toWorker[e]).rev]
        /\ Emit(e, "account-state-applied", Head(toWorker[e]).id, procs[e].gen)
    BY <1>7 DEF ApplyAccountState
  <2>2. /\ \A f \in Epochs : f # e => procs'[f] = procs[f]
        /\ procs'[e].alive = procs[e].alive /\ procs'[e].gen = procs[e].gen
        /\ procs'[e].cfg = procs[e].cfg /\ procs'[e].stopping = procs[e].stopping
    BY <1>1, <2>1 DEF WorkerState
  <2> QED
    BY <1>2, <1>3, <2>1, <2>2 DEF Continues
<1>8. CASE ApplyAccountStateFails(e)
  BY <1>3, <1>4, <1>8 DEF Continues, ApplyAccountStateFails
<1>9. CASE BeginDrain(e)
  <2> DEFINE p == IF procs[e].drains = {} /\ procs[e].phase # "drained"
                  THEN "draining" ELSE procs[e].phase
             d == procs[e].drains \union {Head(toWorker[e]).id}
  <2>1. Receive(e, "drain") /\ UNCHANGED toManager
        /\ procs' = [procs EXCEPT ![e] = [procs[e] EXCEPT !.phase = p, !.listening = FALSE,
                                                          !.drains = d]]
    BY <1>1, <1>9 DEF BeginDrain
  <2> HIDE DEF p, d
  <2> QED
    BY <1>3, <2>1, <1>1 DEF Continues, WorkerState
<1>10. CASE Drained(e)
  <2>1. PICK id \in procs[e].drains :
          /\ procs' = [procs EXCEPT ![e].phase = "drained", ![e].drains = @ \ {id}]
          /\ Emit(e, "drained", id, procs[e].gen)
    BY <1>10 DEF Drained
  <2>2. /\ \A f \in Epochs : f # e => procs'[f] = procs[f]
        /\ procs'[e].alive = procs[e].alive /\ procs'[e].gen = procs[e].gen
        /\ procs'[e].cfg = procs[e].cfg /\ procs'[e].stopping = procs[e].stopping
    <3> DEFINE d == procs[e].drains \ {id}
    <3> HIDE DEF d
    <3> QED
      BY <1>1, <2>1 DEF WorkerState
  <2> QED
    BY <1>2, <1>10, <2>1, <2>2 DEF Continues, Drained
<1>11. CASE Shutdown(e)
  <2>1. Receive(e, "shutdown") /\ UNCHANGED toManager
        /\ (procs' = procs \/ procs' = [procs EXCEPT ![e].stopping = TRUE,
                                  ![e].phase = "stopping", ![e].listening = FALSE])
    BY <1>11 DEF Shutdown
  <2>2. /\ \A f \in Epochs : f # e => procs'[f] = procs[f]
        /\ procs'[e].alive = procs[e].alive /\ procs'[e].gen = procs[e].gen
        /\ procs'[e].cfg = procs[e].cfg /\ (procs[e].stopping => procs'[e].stopping)
    BY <1>1, <2>1 DEF WorkerState
  <2> QED
    BY <1>3, <2>1, <2>2 DEF Continues
<1>12. CASE UncaughtException(e)
  BY <1>4, <1>12 DEF UncaughtException, Continues
<1> QED
  BY <1>5, <1>6, <1>7, <1>8, <1>9, <1>10, <1>11, <1>12
     DEF WorkerStep, FinishProcess, Signalled, Crash

\* What a configure does.
LEMMA ConfigureTakes ==
  ASSUME TypeOK, NEW e \in Epochs, Configure(e), NEW m, m = Head(toWorker[e])
  PROVE  /\ procs[e].alive /\ procs'[e].alive /\ ~procs[e].stopping /\ ~procs'[e].stopping
         /\ Runs(procs'[e], m.snap) /\ m.snap.gen > procs[e].gen /\ m.type = "configure"
         /\ toWorker[e] # <<>> /\ toWorker'[e] = Tail(toWorker[e])
         /\ \A f \in Epochs : f # e =>
              procs'[f] = procs[f] /\ toWorker'[f] = toWorker[f] /\ toManager'[f] = toManager[f]
         /\ \A n \in Of(toManager'[e]) :
              n \in Of(toManager[e]) \/ n = [type |-> "configured", id |-> m.id, gen |-> m.snap.gen]
<1>1. /\ procs \in [Epochs -> WorkerState] /\ procs[e] \in WorkerState /\ WorkerTypeOK
      /\ toWorker \in [Epochs -> Seq(Request)] /\ toManager \in [Epochs -> Seq(Message)]
  BY DEF TypeOK, WorkerTypeOK
<1>2. Receive(e, "configure") /\ MayConfigure(e, m.snap) /\ Emit(e, "configured", m.id, m.snap.gen)
  BY DEF Configure
<1> DEFINE r == IF m.snap.rev < procs[e].rev THEN procs[e].rev ELSE m.snap.rev
           w == [procs[e] EXCEPT !.phase = "running", !.listening = TRUE,
                   !.gen = m.snap.gen, !.cfg = m.snap.cfg, !.rev = r]
<1> HIDE DEF r
<1>3. w.alive = procs[e].alive /\ w.stopping = procs[e].stopping /\ w.gen = m.snap.gen
      /\ w.cfg = m.snap.cfg
  BY <1>1 DEF WorkerState
<1> HIDE DEF w
<1>4. \A n \in Of(toManager'[e]) :
        n \in Of(toManager[e]) \/ n = [type |-> "configured", id |-> m.id, gen |-> m.snap.gen]
  BY <1>1, <1>2, EmitTells
<1> QED
  BY <1>2, <1>3, <1>1, <1>4 DEF MayConfigure, Runs, Receive, Emit, Configure

LEMMA WorkerKeepsSlot ==
  ASSUME TypeOK, OneWorkerInv, BooksInv, MessagesInv, SlotInv, NEW e \in Epochs, WorkerStep(e),
         UNCHANGED <<epoch, operation, requestSequence>>
  PROVE  SlotInv'
<1>1. /\ toWorker \in [Epochs -> Seq(Request)] /\ toManager \in [Epochs -> Seq(Message)]
      /\ toWorker[e] \in Seq(Request) /\ requestSequence \in Nat /\ operation.id \in Nat
      /\ QueueInv(e) /\ AcknowledgedInv(e)
  BY DEF TypeOK, WorkerTypeOK, Operation, SlotInv
<1>2. procs[e].alive => e = epoch
  BY DEF OneWorkerInv, NoOrphan, TypeOK, Epochs
<1>3. SUFFICES ASSUME \A f \in Epochs : f # e => procs'[f] = procs[f] /\ toWorker'[f] = toWorker[f]
                                               /\ toManager'[f] = toManager[f],
                      procs[e].alive, e = epoch
               PROVE  SlotInv'
  <2>1. CASE procs[e].alive /\ Dies(e)
    BY <1>1, <1>2, <1>3, <2>1 DEF Dies, TypeOK, WorkerTypeOK
  <2>2. CASE Configure(e)
    BY <1>2, <1>3, <2>2, ConfigureTakes
  <2>3. CASE Continues(e)
    BY <1>2, <1>3, <2>3 DEF Continues
  <2> QED
    BY <2>1, <2>2, <2>3, WorkerContinues
<1>4. SUFFICES QueueInv(e)' /\ AcknowledgedInv(e)' /\ BootInv' /\ TakenInv'
  BY <1>4, <1>3 DEF SlotInv, QueueInv, AcknowledgedInv, Ascending, LastRequestInv
<1>5. CASE Dies(e)
  <2>1. procs'[e] = NoWorker /\ toWorker'[e] = <<>> /\ toManager'[e] = toManager[e]
        /\ ~procs'[e].alive
    BY <1>1, <1>5 DEF Dies, TypeOK, WorkerTypeOK, NoWorker
  <2> QED
    BY <1>1, <1>3, <2>1 DEF QueueInv, AcknowledgedInv, BootInv, TakenInv, Taken, Worker,
       SlotInv, Of, Ascending
<1>6. CASE Configure(e)
  <2> DEFINE m == Head(toWorker[e])
  <2>1. /\ procs'[e].alive /\ Runs(procs'[e], m.snap) /\ m.type = "configure"
        /\ toWorker[e] # <<>> /\ toWorker'[e] = Tail(toWorker[e])
        /\ \A n \in Of(toManager'[e]) :
             n \in Of(toManager[e]) \/ n = [type |-> "configured", id |-> m.id, gen |-> m.snap.gen]
    BY <1>6, ConfigureTakes
  <2>2. /\ Ascending(toWorker'[e]) /\ \A n \in Of(toWorker'[e]) : m.id < n.id /\ n \in Of(toWorker[e])
        /\ m \in Of(toWorker[e])
    BY <1>1, <2>1, QueueTail, OfTail DEF QueueInv
  <2>3. m.id \in Nat /\ m.id <= requestSequence /\ Asked(m)
    BY <1>1, <2>2, OfTypes DEF TypeOK, Request, MessagesInv, Asked
  <2> HIDE DEF m
  <2>4. AcknowledgedInv(e)'
    <3> SUFFICES ASSUME NEW k \in Of(toManager'[e]), k.type = "configured"
                 PROVE  /\ e <= epoch
                        /\ \A n \in Of(toWorker'[e]) : k.id < n.id
                        /\ k.id = operation.id /\ operation.fn \in {"start", "apply"} =>
                             Runs(procs'[e], operation.snap)
      BY DEF AcknowledgedInv
    <3>1. CASE k \in Of(toManager[e])
      BY <1>1, <3>1, <2>2, <2>3, OfTypes DEF AcknowledgedInv, SlotInv, LastRequestInv, TypeOK,
         Message
    <3>2. CASE k.id = m.id
      BY <2>1, <2>2, <3>2, <2>3, <1>3 DEF Asked, Epochs
    <3> QED
      BY <2>1, <3>1, <3>2
  <2> QED
    BY <2>4, <2>1, <2>2, <1>3 DEF SlotInv, BootInv, TakenInv, Taken, QueueInv
<1>7. CASE Continues(e)
  <2>1. BootInv' /\ TakenInv'
    BY <1>3, <1>7 DEF Continues, SlotInv, BootInv, TakenInv, Taken, Runs, Worker
  <2> QED
    BY <1>1, <1>7, <1>3, <2>1, QueueTail, OfTail DEF Continues, AcknowledgedInv, Runs, QueueInv
<1> QED
  BY <1>3, <1>5, <1>6, <1>7, WorkerContinues

------------------------
(* The steps of the manager, one by one *)

LEMMA SignalStays ==
  ASSUME TypeOK, procs' = procs \/ procs' = [procs EXCEPT ![epoch].signalled = TRUE]
  PROVE  WorkersStay /\ \A e \in Epochs : procs'[e].stopping = procs[e].stopping
<1> DEFINE w == [procs[epoch] EXCEPT !.signalled = TRUE]
<1>1. procs \in [Epochs -> WorkerState]
  BY DEF TypeOK, WorkerTypeOK
<1>2. procs' = procs \/ procs' = [procs EXCEPT ![epoch] = w]
  BY <1>1
<1> HIDE DEF w
<1> QED
  BY <1>1, <1>2 DEF WorkersStay, WorkerState

LEMMA TerminateStays ==
  ASSUME TypeOK, NEW o, NEW isExited, Terminate(o, isExited)
  PROVE  WorkersStay /\ \A e \in Epochs : procs'[e].stopping = procs[e].stopping
BY SignalStays DEF Terminate

LEMMA SendGrows ==
  ASSUME TypeOK, NEW type \in {"configure", "account-state", "drain", "shutdown"},
         NEW snap \in Snapshot, NEW rev \in Nat, requestSequence' = requestSequence + 1,
         Send(type, requestSequence + 1, snap, rev)
  PROVE  QueuesGrow
<1> DEFINE m == [type |-> type, id |-> requestSequence + 1, snap |-> snap, rev |-> rev]
<1>1. requestSequence \in Nat /\ m \in Request /\ m.id > requestSequence /\ m.id <= requestSequence'
  BY DEF TypeOK, Request
<1>2. toWorker' = IF Worker.alive THEN [toWorker EXCEPT ![epoch] = Append(@, m)] ELSE toWorker
  BY DEF Send
<1> HIDE DEF m
<1>3. ASSUME NEW e \in Epochs
      PROVE  toWorker'[e] = toWorker[e] \/ (procs[e].alive /\ toWorker'[e] = Append(toWorker[e], m))
  BY <1>2 DEF Worker, TypeOK, WorkerTypeOK
<1> QED
  BY <1>1, <1>3 DEF QueuesGrow

LEMMA IdleKeepsSlot ==
  ASSUME SlotInv, UNCHANGED <<epoch, operation, requestSequence, workerVars>>
  PROVE  SlotInv'
<1> QED
  BY DEF SlotInv, QueueInv, AcknowledgedInv, Ascending, Runs, LastRequestInv, BootInv, TakenInv,
     Taken, Worker, workerVars

\* The operation is over, or one that does not configure the Worker.
LEMMA OtherKeepsSlot ==
  ASSUME TypeOK, TypeOK', OneWorkerInv, BooksInv, MessagesInv, SlotInv,
         UNCHANGED epoch, WorkersStay, UNCHANGED toWorker \/ QueuesGrow, MessagesRead,
         requestSequence' >= requestSequence, operation'.fn \notin {"start", "apply"},
         operation'.step \notin {"ready", "health", "healthy"}
  PROVE  SlotInv'
<1> QED
  BY ManagerKeepsSlot DEF QueuesGrow

\* The operation waits for something else.
LEMMA StepKeepsSlot ==
  ASSUME TypeOK, TypeOK', OneWorkerInv, BooksInv, MessagesInv, SlotInv,
         NEW step, step \notin {"ready", "health", "healthy"},
         operation' = [operation EXCEPT !.step = step],
         WorkersStay, MessagesRead, UNCHANGED <<epoch, requestSequence, toWorker>>
  PROVE  SlotInv'
<1> QED
  BY ManagerKeepsSlot DEF SameJob, TypeOK, Operation, QueuesGrow

\* Only messages are read.
LEMMA ReadKeepsSlot ==
  ASSUME TypeOK, TypeOK', OneWorkerInv, BooksInv, MessagesInv, SlotInv, MessagesRead,
         UNCHANGED <<epoch, operation, requestSequence, procs, toWorker>>
  PROVE  SlotInv'
<1> QED
  BY ManagerKeepsSlot DEF SlotInv, TakenInv, BooksInv, OperationInv, SameJob, TypeOK,
     WorkersStay, QueuesGrow

LEMMA NoOperationStep == NoOperation.fn = "none" /\ NoOperation.step = "none"
BY DEF NoOperation

LEMMA ThrownKeepsSlot ==
  ASSUME TypeOK, TypeOK', OneWorkerInv, BooksInv, MessagesInv, SlotInv,
         NEW isExited \in BOOLEAN, Thrown(isExited),
         MessagesRead, UNCHANGED <<epoch, requestSequence, toWorker>>
  PROVE  SlotInv'
<1>1. CASE operation.fn \in {"start", "stop"}
  <2> DEFINE step == IF isExited THEN "port" ELSE "term"
  <2> HIDE DEF step
  <2> QED
    BY <1>1, TerminateStays, StepKeepsSlot DEF Terminate, Thrown
<1>2. CASE operation.fn \notin {"start", "stop"}
  <2>1. operation' = NoOperation /\ UNCHANGED procs
    BY <1>2 DEF Thrown, Settle
  <2> QED
    BY <2>1, OtherKeepsSlot, NoOperationStep DEF WorkersStay, TypeOK
<1> QED
  BY <1>1, <1>2

\* A configure that is acknowledged to the operation in flight was the last to be sent.
LEMMA AcknowledgedTaken ==
  ASSUME TypeOK, OneWorkerInv, BooksInv, MessagesInv, SlotInv, Incoming, Answers,
         operation.step = "configured"
  PROVE  Taken
<1>1. epoch \in Epochs
  BY DEF Incoming, OneWorkerInv, TypeOK, Epochs
<1>2. /\ toManager[epoch] \in Seq(Message) /\ toManager[epoch] # <<>>
      /\ toWorker[epoch] \in Seq(Request) /\ requestSequence \in Nat
  BY <1>1 DEF Incoming, TypeOK, WorkerTypeOK
<1>3. message \in Of(toManager[epoch]) /\ message.type = "configured" /\ message.id = operation.id
  BY <1>2, OfTail DEF message, Answers
<1>4. operation.fn \in {"start", "apply"} /\ operation.id = requestSequence
  BY DEF BooksInv, OperationInv, SlotInv, LastRequestInv
<1>5. AcknowledgedInv(epoch)
  BY <1>1 DEF SlotInv
<1>6. \A n \in Of(toWorker[epoch]) : FALSE
  <2> SUFFICES ASSUME NEW n \in Of(toWorker[epoch]) PROVE FALSE
    OBVIOUS
  <2> QED
    BY <1>2, <1>1, <1>3, <1>4, <1>5, OfTypes DEF TypeOK, Request, MessagesInv, Asked,
       AcknowledgedInv
<1>7. toWorker[epoch] = <<>>
  BY <1>6, <1>2, OfTail
<1> QED
  BY <1>7, <1>3, <1>4, <1>5 DEF Taken, AcknowledgedInv, Worker

\* A new Worker finds its channel empty.
LEMMA ForkKeepsSlot ==
  ASSUME TypeOK, TypeOK', OneWorkerInv, child = 0 \/ childExited, MessagesInv, SlotInv,
         NEW c, NEW snap, NEW recovers, Fork(c, snap, recovers), UNCHANGED toWorker, MessagesRead
  PROVE  /\ SlotInv' /\ toWorker[epoch'] = <<>> /\ epoch' \in Epochs
         /\ procs'[epoch'] = Forked
<1>1. epoch \in Nat /\ epoch' = epoch + 1 /\ epoch' \in Epochs /\ requestSequence \in Nat
      /\ requestSequence' = requestSequence + 1
  BY BoundsAssumption DEF Fork, TypeOK, Epochs
<1>2. /\ \A e \in Epochs : toWorker[e] = <<>> /\ QueueInv(e) /\ AcknowledgedInv(e)
      /\ Of(<<>>) = {} /\ Ascending(<<>>)
  BY NoneAlive DEF SlotInv, QueueInv, Of, Ascending
<1>3. /\ operation'.id = requestSequence + 1 /\ operation'.step = "ready"
      /\ operation'.fn = "start"
  BY DEF Fork, NoOperation
<1>4. procs'[epoch'] = Forked
  BY <1>1 DEF Fork, TypeOK, WorkerTypeOK
<1>5. ASSUME NEW e \in Epochs PROVE QueueInv(e)' /\ AcknowledgedInv(e)'
  <2>1. AcknowledgedInv(e)'
    <3> SUFFICES ASSUME NEW m \in Of(toManager'[e]), m.type = "configured"
                 PROVE  e <= epoch' /\ m.id # operation'.id
      BY <1>2 DEF AcknowledgedInv
    <3>1. m \in Of(toManager[e])
      BY DEF MessagesRead
    <3> QED
      BY <1>1, <1>3, <3>1, <1>2, OfTypes DEF TypeOK, Message, MessagesInv, Told, Epochs,
         AcknowledgedInv
  <2> QED
    BY <1>2, <2>1 DEF QueueInv
<1>6. BootInv'
  BY <1>1, <1>2, <1>4 DEF BootInv, Worker, MessagesRead, AcknowledgedInv, Forked, NoWorker
<1> QED
  BY <1>1, <1>2, <1>4, <1>5, <1>3, <1>6 DEF SlotInv, LastRequestInv, TakenInv

LEMMA ForkFailsKeepsSlot ==
  ASSUME TypeOK, TypeOK', OneWorkerInv, BooksInv, MessagesInv, SlotInv, NEW c, ForkFails(c),
         UNCHANGED toWorker, MessagesRead
  PROVE  SlotInv'
<1> QED
  BY OtherKeepsSlot, NoOperationStep DEF ForkFails, WorkersStay, TypeOK

LEMMA SubmitKeepsSlot ==
  ASSUME TypeOK, TypeOK', OneWorkerInv, BooksInv, MessagesInv, SlotInv, NEW rev \in Nat,
         SubmitAccountState(rev), UNCHANGED accountFrame
  PROVE  SlotInv'
<1>1. UNCHANGED <<epoch, procs, toManager>> /\ WorkersStay /\ MessagesRead
      /\ requestSequence \in Nat
  BY DEF accountFrame, lifeVars, WorkersStay, MessagesRead, TypeOK
<1>2. CASE UNCHANGED <<operation, requestSequence, toWorker>>
  BY <1>1, <1>2, IdleKeepsSlot DEF workerVars
<1>3. CASE /\ requestSequence' = requestSequence + 1
           /\ Send("account-state", requestSequence + 1, NoSnapshot, rev)
           /\ operation' = [NoOperation EXCEPT !.fn = "account", !.rev = rev,
                              !.step = "account-state-applied", !.id = requestSequence + 1]
  BY <1>1, <1>3, SendGrows, ConstantTypes, OtherKeepsSlot DEF NoOperation
<1>4. CASE ~Busy /\ requestSequence' = requestSequence + 1 /\ SendFails /\ UNCHANGED operation
  BY <1>1, <1>4, OtherKeepsSlot, NoOperationStep DEF SendFails, Busy, BooksInv, OperationInv
<1> QED
  BY <1>2, <1>3, <1>4 DEF SubmitAccountState

LEMMA BeginStartKeepsSlot ==
  ASSUME TypeOK, TypeOK', OneWorkerInv, BooksInv, MessagesInv, SlotInv, child = 0,
         NEW kind, NEW snap, BeginStart(kind, snap)
  PROVE  SlotInv'
<1> QED
  BY ForkKeepsSlot, ForkFailsKeepsSlot DEF BeginStart, MessagesRead

LEMMA BeginApplyKeepsSlot ==
  ASSUME TypeOK, TypeOK', OneWorkerInv, BooksInv, MessagesInv, SlotInv, ~Busy,
         NEW snap \in Snapshot, BeginApply(snap)
  PROVE  SlotInv'
<1>1. UNCHANGED <<epoch, procs, toManager>> /\ WorkersStay /\ MessagesRead
      /\ requestSequence' = requestSequence + 1 /\ requestSequence \in Nat
      /\ requestSequence' >= requestSequence
  BY DEF BeginApply, lifeVars, WorkersStay, MessagesRead, TypeOK
<1>2. CASE /\ Send("configure", requestSequence + 1, snap, 0)
           /\ operation' = [NoOperation EXCEPT !.fn = "apply", !.step = "configured",
                                               !.snap = snap, !.id = requestSequence + 1]
  BY <1>1, <1>2, SendGrows, ManagerKeepsSlot DEF NewJob, NoOperation
<1>3. CASE SendFails /\ UNCHANGED operation
  BY <1>1, <1>3, OtherKeepsSlot, NoOperationStep DEF SendFails, Busy, BooksInv, OperationInv
<1> QED
  BY <1>2, <1>3 DEF BeginApply

LEMMA BeginStopKeepsSlot ==
  ASSUME TypeOK, TypeOK', OneWorkerInv, BooksInv, MessagesInv, SlotInv, NEW kind, NEW snap,
         BeginStop(kind, snap)
  PROVE  SlotInv'
<1>1. UNCHANGED <<epoch, toManager>> /\ MessagesRead /\ requestSequence' = requestSequence + 1
      /\ requestSequence' >= requestSequence
  BY DEF BeginStop, MessagesRead, TypeOK
<1>2. operation'.fn = "stop" /\ operation'.step \in {"drained", "port", "term"}
  BY DEF BeginStop, Terminate, NoOperation
<1>3. CASE Send("drain", requestSequence + 1, NoSnapshot, 0) /\ UNCHANGED procs
  BY <1>1, <1>2, <1>3, SendGrows, ConstantTypes, OtherKeepsSlot DEF WorkersStay
<1>4. ASSUME NEW o, SendFails, Terminate(o, childExited) PROVE SlotInv'
  BY <1>1, <1>2, <1>4, TerminateStays, OtherKeepsSlot DEF SendFails
<1> QED
  BY <1>3, <1>4 DEF BeginStop

LEMMA CallerStepKeepsSlot ==
  ASSUME TypeOK, TypeOK', OneWorkerInv, BooksInv, MessagesInv, SlotInv, CallerStep
  PROVE  SlotInv'
<1>1. ASSUME NEW kind, NEW want, Join(kind, want) PROVE SlotInv'
  BY <1>1, IdleKeepsSlot DEF Join, lifeVars
<1>2. ASSUME NEW kind, NEW want, NEW ok, AnswerNow(kind, want, ok) PROVE SlotInv'
  BY <1>2, IdleKeepsSlot DEF AnswerNow
<1>3. ASSUME NEW snap \in Snapshots, Start(snap) PROVE SlotInv'
  BY <1>1, <1>2, <1>3, BeginStartKeepsSlot DEF Start
<1>4. ASSUME NEW snap \in Snapshots, ApplySnapshot(snap) PROVE SlotInv'
  BY <1>1, <1>2, <1>4, BeginApplyKeepsSlot, SnapshotsAhead DEF ApplySnapshot
<1>5. ASSUME NEW snap \in Snapshots, Restart(snap) PROVE SlotInv'
  BY <1>1, <1>5, BeginStartKeepsSlot, BeginStopKeepsSlot DEF Restart, BooksInv, OperationInv, Busy
<1>6. CASE Stop
  BY <1>1, <1>2, <1>6, BeginStopKeepsSlot DEF Stop
<1>7. CASE AccountStateChanges
  BY <1>7, SubmitKeepsSlot DEF AccountStateChanges, TypeOK
<1>8. CASE Close
  BY <1>8, IdleKeepsSlot DEF Close, lifeVars
<1> QED
  BY <1>3, <1>4, <1>5, <1>6, <1>7, <1>8 DEF CallerStep

LEMMA MicrotaskKeepsSlot ==
  ASSUME TypeOK, TypeOK', OneWorkerInv, BooksInv, MessagesInv, SlotInv, Microtask
  PROVE  SlotInv'
<1>1. CASE ResubmitAccountState
  <2>1. PICK rev \in accountReady : SubmitAccountState(rev)
    BY <1>1 DEF ResubmitAccountState
  <2> QED
    BY <2>1, <1>1, SubmitKeepsSlot DEF ResubmitAccountState, TypeOK
<1>2. CASE RecoveryRejected
  BY <1>2, IdleKeepsSlot DEF RecoveryRejected, recoveryFrame
<1>3. CASE PerformClose
  <2>1. UNCHANGED <<epoch, requestSequence, toWorker, toManager>> /\ MessagesRead
        /\ requestSequence' >= requestSequence
    BY <1>3 DEF PerformClose, TypeOK, MessagesRead
  <2>2. CASE child = 0
    BY <1>3, <2>1, <2>2, IdleKeepsSlot DEF PerformClose, workerVars
  <2>3. CASE child # 0
    BY <2>1, <1>3, <2>3, TerminateStays, OtherKeepsSlot DEF Terminate, NoOperation, PerformClose
  <2> QED
    BY <2>2, <2>3
<1> QED
  BY <1>1, <1>2, <1>3 DEF Microtask

LEMMA RecoveryEventKeepsSlot ==
  ASSUME TypeOK, TypeOK', OneWorkerInv, BooksInv, MessagesInv, SlotInv, RecoveryEvent
  PROVE  SlotInv'
<1>1. CASE RecoveryStarts
  BY <1>1, ForkKeepsSlot, ForkFailsKeepsSlot DEF RecoveryStarts, MessagesRead, CanRecover
<1>2. CASE UNCHANGED recoveryFrame
  BY <1>2, IdleKeepsSlot DEF recoveryFrame
<1> QED
  BY <1>1, <1>2
     DEF RecoveryEvent, RecoveryTimer, RecoveryPort, RecoveryNotReady, RecoveryObsolete

LEMMA ReleaseReads ==
  ASSUME TypeOK, toManager' = toManager \/ toManager' = [toManager EXCEPT ![epoch] = <<>>]
  PROVE  MessagesRead
BY ClearReads DEF TypeOK, MessagesRead

LEMMA OperationEventKeepsSlot ==
  ASSUME TypeOK, TypeOK', OneWorkerInv, BooksInv, MessagesInv, SlotInv, OperationEvent
  PROVE  SlotInv'
<1>1. childExited \in BOOLEAN /\ requestSequence >= requestSequence
      /\ (UNCHANGED procs => WorkersStay)
  BY DEF TypeOK, WorkersStay
<1>2. CASE MessageTimeout \/ HealthFails
  BY <1>1, <1>2, ThrownKeepsSlot, ReleaseReads DEF MessageTimeout, HealthFails, messageFrame
<1>3. CASE Started \/ KillTimeout \/ \E free \in BOOLEAN : PortChecked(free)
  BY <1>1, <1>3, ReleaseReads, OtherKeepsSlot, NoOperationStep DEF Started, KillTimeout,
     PortChecked, Release, workerVars, Settle
<1>4. CASE ExitTimeout
  <2> DEFINE step == IF operation.step = "exit" THEN "term" ELSE "kill"
  <2> HIDE DEF step
  <2> QED
    BY <1>4, SignalStays, ReleaseReads, StepKeepsSlot DEF ExitTimeout, lifeVars, TypeOK,
       Operation
<1>5. CASE RestartForks
  BY <1>5, ReleaseReads, ForkKeepsSlot, ForkFailsKeepsSlot DEF RestartForks, OneWorkerInv
<1> QED
  BY <1>2, <1>3, <1>4, <1>5 DEF OperationEvent

\* The configure of a start is the first request of its Worker.
LEMMA OnReadyKeepsSlot ==
  ASSUME TypeOK, TypeOK', OneWorkerInv, BooksInv, MessagesInv, SlotInv, OnReady
  PROVE  SlotInv'
<1>1. Incoming /\ operation.step = "ready" /\ UNCHANGED <<epoch, requestSequence>>
  BY DEF OnReady, messageFrame
<1>2. operation.fn = "start" /\ childExited \in BOOLEAN /\ requestSequence \in Nat
      /\ toWorker \in [Epochs -> Seq(Request)] /\ requestSequence' >= requestSequence
  BY <1>1 DEF BooksInv, OperationInv, TypeOK, WorkerTypeOK
<1>3. MessagesRead /\ epoch \in Epochs
  BY <1>1, IncomingReads DEF MessagesRead
<1>4. /\ operation.id = requestSequence /\ toWorker[epoch] = <<>>
      /\ \A m \in Of(toManager[epoch]) : m.type # "configured"
  BY <1>1, <1>2 DEF SlotInv, LastRequestInv, BootInv
<1>5. CASE SendFails /\ Thrown(childExited)
  BY <1>1, <1>2, <1>3, <1>5, ThrownKeepsSlot DEF SendFails
<1>6. CASE /\ Send("configure", operation.id, operation.snap, 0)
           /\ operation' = [operation EXCEPT !.step = "configured"] /\ UNCHANGED procs
  <2>1. SameJob /\ operation'.step = "configured" /\ WorkersStay
    BY <1>1, <1>6 DEF SameJob, TypeOK, Operation, WorkersStay
  <2>2. CASE UNCHANGED toWorker
    BY <1>1, <1>2, <1>3, <2>1, <2>2, ManagerKeepsSlot DEF QueuesGrow
  <2>3. CASE ~UNCHANGED toWorker
    <3> DEFINE n == [type |-> "configure", id |-> operation.id, snap |-> operation.snap, rev |-> 0]
    <3>1. Worker.alive /\ toWorker' = [toWorker EXCEPT ![epoch] = Append(@, n)]
      BY <1>6, <2>3 DEF Send
    <3>2. toWorker'[epoch] = <<n>> /\ \A e \in Epochs : e # epoch => toWorker'[e] = toWorker[e]
      BY <1>2, <1>3, <1>4, <3>1
    <3> HIDE DEF n
    <3>3. ASSUME NEW e \in Epochs, e # epoch PROVE QueueInv(e)' /\ AcknowledgedInv(e)'
      <4>1. QueueInv(e) /\ AcknowledgedInv(e) /\ toWorker'[e] = toWorker[e]
        BY <3>2, <3>3 DEF SlotInv
      <4> QED
        BY <1>6, <4>1, <1>1, <1>3, <2>1 DEF AcknowledgedInv, MessagesRead, SameJob, Runs,
           QueueInv, Ascending
    <3>4. QueueInv(epoch)'
      BY <1>1, <1>6, <3>1, <3>2 DEF QueueInv, Worker, Ascending
    <3>5. AcknowledgedInv(epoch)'
      BY <1>1, <1>3, <1>4 DEF AcknowledgedInv, MessagesRead
    <3> QED
      BY <1>1, <3>3, <3>4, <3>5, <1>4, <2>1 DEF SlotInv, LastRequestInv, BootInv, TakenInv,
         SameJob
  <2> QED
    BY <2>2, <2>3
<1> QED
  BY <1>5, <1>6 DEF OnReady

LEMMA ChildEventKeepsSlot ==
  ASSUME TypeOK, TypeOK', OneWorkerInv, BooksInv, MessagesInv, SlotInv, ChildEvent
  PROVE  SlotInv'
<1>1. /\ childExited \in BOOLEAN /\ requestSequence \in Nat /\ requestSequence >= requestSequence
      /\ (UNCHANGED procs => WorkersStay) /\ (UNCHANGED toWorker => QueuesGrow)
      /\ (Incoming => MessagesRead)
  <2>1. Incoming => MessagesRead
    BY IncomingReads DEF MessagesRead
  <2> QED
    BY <2>1 DEF TypeOK, WorkersStay, QueuesGrow
<1>2. CASE OnReady
  BY <1>2, OnReadyKeepsSlot
<1>3. CASE OnStartConfigured
  BY <1>1, <1>3, AcknowledgedTaken, ManagerKeepsSlot DEF SameJob, TypeOK, Operation,
     OnStartConfigured, messageFrame
<1>4. CASE OnApplyConfigured \/ OnAccountStateApplied
  BY <1>1, <1>4, OtherKeepsSlot, NoOperationStep DEF OnApplyConfigured, OnAccountStateApplied,
     messageFrame, Settle
<1>5. CASE OnDrained
  <2>1. UNCHANGED epoch /\ Incoming /\ operation.fn = "stop"
    BY <1>5 DEF OnDrained, messageFrame, BooksInv, OperationInv
  <2>2. CASE UNCHANGED <<requestSequence, toWorker>> /\ Thrown(childExited)
    BY <1>1, <2>1, <2>2, ThrownKeepsSlot
  <2>3. CASE /\ requestSequence' = requestSequence + 1 /\ UNCHANGED procs
             /\ Send("shutdown", requestSequence + 1, NoSnapshot, 0)
             /\ operation' = [operation EXCEPT !.step = "exit"]
    BY <1>1, <2>1, <2>3, SendGrows, ConstantTypes, OtherKeepsSlot DEF TypeOK, Operation
  <2>4. CASE /\ requestSequence' = requestSequence + 1
             /\ SendFails /\ Terminate(operation, childExited)
    BY <1>1, <2>1, <2>4, TerminateStays, OtherKeepsSlot DEF SendFails, Terminate, TypeOK,
       Operation
  <2> QED
    BY <1>5, <2>2, <2>3, <2>4 DEF OnDrained
<1>6. CASE OnFatal \/ OnUnawaited
  BY <1>1, <1>6, ThrownKeepsSlot, ReadKeepsSlot DEF OnFatal, OnUnawaited, messageFrame,
     managerVars, lifeVars
<1>7. CASE HealthAnswers
  <2>1. UNCHANGED <<epoch, requestSequence, procs, toWorker, toManager>>
        /\ operation.step = "health" /\ operation' = [operation EXCEPT !.step = "healthy"]
    BY <1>7 DEF HealthAnswers, lifeVars, workerVars
  <2> QED
    BY <1>1, <2>1, ReleaseReads, ManagerKeepsSlot DEF SameJob, TypeOK, Operation, SlotInv,
       TakenInv, BooksInv, OperationInv
<1>8. CASE ChildCrashed
  BY <1>1, <1>8, ReleaseReads, OtherKeepsSlot, NoOperationStep DEF ChildCrashed, Release
<1>9. CASE ChildExits
  <2>1. UNCHANGED <<epoch, requestSequence, toWorker, toManager>> /\ MessagesRead
    BY <1>9, ReleaseReads DEF ChildExits
  <2>2. CASE Thrown(TRUE)
    BY <2>1, <2>2, ThrownKeepsSlot
  <2>3. CASE operation' = [operation EXCEPT !.step = "port"] /\ UNCHANGED procs
    BY <1>1, <2>1, <2>3, StepKeepsSlot
  <2>4. CASE UNCHANGED <<operation, procs>>
    BY <2>1, <2>4, IdleKeepsSlot DEF workerVars
  <2> QED
    BY <1>9, <2>2, <2>3, <2>4 DEF ChildExits
<1> QED
  BY <1>2, <1>3, <1>4, <1>5, <1>6, <1>7, <1>8, <1>9 DEF ChildEvent

LEMMA SlotInit == Init => SlotInv
<1> SUFFICES ASSUME Init PROVE SlotInv
  OBVIOUS
<1> QED
  BY NoOperationStep DEF SlotInv, QueueInv, AcknowledgedInv, Ascending, Of, Init, WorkerInit,
     LastRequestInv, BootInv, TakenInv

LEMMA SlotStep ==
  TypeOK /\ TypeOK' /\ OneWorkerInv /\ BooksInv /\ ServiceInv /\ SlotInv /\ [Next]_vars => SlotInv'
<1> SUFFICES ASSUME TypeOK, TypeOK', OneWorkerInv, BooksInv, MessagesInv, SlotInv, [Next]_vars
             PROVE  SlotInv'
  BY DEF ServiceInv
<1>1. CASE ManagerStep
  BY <1>1, MicrotaskKeepsSlot, OperationEventKeepsSlot, ChildEventKeepsSlot,
     RecoveryEventKeepsSlot DEF ManagerStep
<1>2. CASE CallerStep
  BY <1>2, CallerStepKeepsSlot
<1>3. CASE ProcessStep
  <2>1. PICK e \in Epochs : WorkerStep(e)
    BY <1>3 DEF ProcessStep
  <2> QED
    BY <2>1, <1>3, WorkerKeepsSlot DEF ProcessStep, managerVars, lifeVars
<1>4. CASE UNCHANGED vars
  BY <1>4, IdleKeepsSlot DEF vars, managerVars, lifeVars
<1> QED
  BY <1>1, <1>2, <1>3, <1>4 DEF Next

------------------------
(* The parts of the slot: what the steps of WorkerManager do to them *)

LEMMA NothingMaps ==
  /\ JobOf(NoOperation) = Slot!NoJob /\ CallOf(NoCall) = Slot!NoCall
  /\ ReplyOf(NoReply) = Slot!NoReply /\ StageOf(NoRecovery) = "none"
  /\ WithoutRevision(NoSnapshot) = Slot!NoSnap
BY DEF JobOf, NoOperation, CallOf, NoCall, ReplyOf, NoReply, StageOf, NoRecovery,
       WithoutRevision, NoSnapshot, Slot!NoSnap, Slot!NoJob, Slot!NoCall, Slot!NoReply

LEMMA NewJobs ==
  ASSUME NEW fn, NEW snap
  PROVE  /\ [Slot!NoJob EXCEPT !.fn = fn] = [fn |-> fn, snap |-> Slot!NoSnap, restart |-> FALSE]
         /\ [Slot!NoJob EXCEPT !.fn = fn, !.snap = snap]
              = [fn |-> fn, snap |-> snap, restart |-> FALSE]
<1> DEFINE j == [Slot!NoJob EXCEPT !.fn = fn]
           k == [Slot!NoJob EXCEPT !.fn = fn, !.snap = snap]
<1>1. /\ j.fn = fn /\ j.snap = Slot!NoSnap /\ j.restart = FALSE
      /\ k.fn = fn /\ k.snap = snap /\ k.restart = FALSE
  BY DEF Slot!NoJob
<1>2. /\ DOMAIN j = {"fn", "snap", "restart"} /\ j = [i \in DOMAIN j |-> j[i]]
      /\ DOMAIN k = {"fn", "snap", "restart"} /\ k = [i \in DOMAIN k |-> k[i]]
  BY DEF Slot!NoJob
<1> HIDE DEF j, k
<1>3. j = [fn |-> fn, snap |-> Slot!NoSnap, restart |-> FALSE]
  BY <1>1, <1>2
<1>4. k = [fn |-> fn, snap |-> snap, restart |-> FALSE]
  BY <1>1, <1>2
<1> QED
  BY <1>3, <1>4 DEF j, k

LEMMA AnswerMaps ==
  ASSUME NEW c, NEW ok, Answer(c, ok)
  PROVE  Slot!Answer(CallOf(c), ok)
<1>1. CallOf(c).kind = c.kind /\ CallOf(c).want = WithoutRevision(c.want)
      /\ SlotConfirmed'.gen = generation'
  BY DEF CallOf, SlotConfirmed
<1>2. CASE c.kind = "none"
  BY <1>1, <1>2 DEF Answer, Slot!Answer
<1>3. CASE c.kind # "none"
  BY <1>1, <1>3, NothingMaps DEF Slot!Answer, ReplyOf, Answer
<1> QED
  BY <1>2, <1>3

LEMMA SettleMaps ==
  ASSUME TypeOK, BooksInv, NEW ok \in BOOLEAN, Settle(ok)
  PROVE  Slot!Settle(ok) /\ Closed' = Closed
<1>1. StageOf(recovery') = IF StageOf(recovery) = "attempt" THEN IF ok THEN "none" ELSE "rejected"
                           ELSE StageOf(recovery)
  BY DEF Settle, StageOf, NoRecovery, TypeOK, Recovery, BooksInv, FactsInv
<1> QED
  BY <1>1, AnswerMaps, NothingMaps DEF Slot!Settle, Settle, Closed

\* The request a Worker is sent is in its slot when it is a configure, and it serves.
LEMMA SendMaps ==
  ASSUME TypeOK, NEW m \in Request, Send(m.type, m.id, m.snap, m.rev), epoch \in Epochs
  PROVE  Snaps(toWorker'[epoch]) = IF m.type = "configure" /\ Worker.alive
                                   THEN Append(Snaps(toWorker[epoch]), WithoutRevision(m.snap))
                                   ELSE Snaps(toWorker[epoch])
<1>1. m = [type |-> m.type, id |-> m.id, snap |-> m.snap, rev |-> m.rev]
  BY DEF Request
<1> QED
  BY <1>1, SnapsAppend DEF Send, TypeOK, WorkerTypeOK

StoppingStays == \A e \in Epochs : procs'[e].stopping = procs[e].stopping

LEMMA WorkerKept ==
  ASSUME TypeOK, UNCHANGED epoch, WorkersStay, StoppingStays
  PROVE  Serves' = Serves /\ SlotWorker' = SlotWorker
<1> QED
  BY DEF SlotWorker, Serves, Worker, WorkersStay, StoppingStays, TypeOK, Epochs

LEMMA ChannelKept ==
  ASSUME TypeOK, UNCHANGED epoch, WorkersStay, StoppingStays,
         \/ UNCHANGED toWorker
         \/ \E m \in Request : m.type # "configure" /\ Send(m.type, m.id, m.snap, m.rev)
  PROVE  UNCHANGED <<SlotWorker, SlotInbox>>
<1>1. Serves => Snaps(toWorker'[epoch]) = Snaps(toWorker[epoch])
  BY SendMaps DEF Serves, TypeOK, Epochs
<1> QED
  BY <1>1, WorkerKept DEF SlotInbox

LEMMA ProcsKept ==
  UNCHANGED procs => WorkersStay /\ StoppingStays
BY DEF WorkersStay, StoppingStays

LEMMA JobKept ==
  ASSUME TypeOK, NEW step, operation' = [operation EXCEPT !.step = step]
  PROVE  JobOf(operation') = JobOf(operation)
BY DEF TypeOK, Operation, JobOf

LEMMA ConfirmedKept == UNCHANGED factVars => SlotConfirmed' = SlotConfirmed
BY DEF factVars, SlotConfirmed

LEMMA SlotKept ==
  ASSUME UNCHANGED <<phase, SlotConfirmed, SlotWorker, SlotInbox, Closed, call, reply>>,
         JobOf(operation') = JobOf(operation), StageOf(recovery') = StageOf(recovery)
  PROVE  UNCHANGED Slot!slotVars
BY DEF Slot!slotVars

LEMMA NoneServes ==
  ASSUME OneWorkerInv, TypeOK, child = 0 \/ childExited
  PROVE  ~Serves /\ ~SlotWorker.alive
<1>1. ~Serves
  BY NoneAlive DEF Serves, Worker, TypeOK, Epochs
<1> QED
  BY <1>1 DEF SlotWorker

LEMMA ForkMaps ==
  ASSUME TypeOK, TypeOK', OneWorkerInv, MessagesInv, SlotInv, child = 0 \/ childExited,
         NEW c, NEW snap, NEW recovers, Fork(c, snap, recovers),
         UNCHANGED toWorker, MessagesRead, c = NoCall \/ c.kind # "none"
  PROVE  Slot!Forks(CallOf(c), WithoutRevision(snap)) /\ Closed' = Closed
<1>1. toWorker[epoch'] = <<>> /\ epoch' \in Epochs /\ procs'[epoch'] = Forked
  BY ForkKeepsSlot
<1>2. Serves' /\ SlotWorker' = Slot!Fresh
  <2>1. epoch' # 0 /\ Worker' = Forked
    BY <1>1 DEF Epochs, Worker
  <2> QED
    BY <2>1 DEF SlotWorker, Slot!Fresh, Slot!NoSnap, Serves, Forked, NoWorker
<1>3. SlotInbox' = <<>>
  <2>1. <<>> \in Seq(Request) /\ Configures(<<>>) = {}
    BY DEF Configures
  <2> QED
    BY <1>1, <1>2, <2>1, SnapsType DEF SlotInbox
<1>4. JobOf(operation') = [Slot!NoJob EXCEPT !.fn = "start", !.snap = WithoutRevision(snap)]
  BY NewJobs DEF JobOf, Fork, NoOperation
<1>5. ReplyOf(reply') = IF CallOf(c) = Slot!NoCall THEN ReplyOf(reply) ELSE Slot!NoReply
  <2>1. CASE c = NoCall
    BY <2>1, NothingMaps DEF Fork
  <2>2. CASE c # NoCall
    BY <2>2, NothingMaps DEF CallOf, Slot!NoCall, Fork
  <2> QED
    BY <2>1, <2>2
<1> QED
  BY <1>2, <1>3, <1>4, <1>5, NoneServes DEF Slot!Forks, Fork, Closed

LEMMA ForkFailsMaps ==
  ASSUME TypeOK, OneWorkerInv, child = 0 \/ childExited, NEW c, ForkFails(c), UNCHANGED toWorker
  PROVE  Slot!ForkFails(CallOf(c)) /\ Closed' = Closed
<1> QED
  BY NoneServes, AnswerMaps, ProcsKept, ChannelKept, NothingMaps DEF Slot!ForkFails, ForkFails,
     Closed

\* A wait that fails only matters to the slot when it ends an apply or an update.
LEMMA ThrownMaps ==
  ASSUME TypeOK, BooksInv, NEW isExited \in BOOLEAN, Thrown(isExited),
         AwaitsMessage \/ operation.step \in {"health", "healthy"},
         UNCHANGED <<phase, epoch, factVars, toWorker>>
  PROVE  Slot!MessageFails \/ UNCHANGED Slot!slotVars
<1>1. SlotConfirmed' = SlotConfirmed
  BY ConfirmedKept
<1>2. CASE operation.fn \in {"start", "stop"}
  <2> DEFINE step == IF isExited THEN "port" ELSE "term"
  <2> HIDE DEF step
  <2> QED
    BY <1>1, <1>2, JobKept, TerminateStays, ChannelKept, SlotKept DEF StoppingStays, Terminate,
       callerVars, Closed, Thrown
<1>3. CASE operation.fn \notin {"start", "stop"}
  BY <1>1, <1>3, ProcsKept, ChannelKept, SettleMaps DEF Slot!MessageFails, JobOf, Thrown,
     AwaitsMessage, MessageSteps, BooksInv, OperationInv
<1> QED
  BY <1>2, <1>3

------------------------
(* The calls *)

\* What was asked for waits with the call, or stands in its answer.
Named(want) == want \in {CallOf(call').want, ReplyOf(reply').want}

LEMMA FreeMaps ==
  ASSUME BooksInv, ~Closed, ~Busy PROVE Slot!Free /\ operation = NoOperation
BY NothingMaps DEF Busy, BooksInv, OperationInv, Slot!Free

LEMMA BusyMaps ==
  ASSUME Busy PROVE JobOf(operation) # Slot!NoJob
BY DEF Busy, JobOf, Slot!NoJob

LEMMA CallMaps ==
  ASSUME NEW kind, NEW want
  PROVE  CallOf([kind |-> kind, want |-> want]) = [kind |-> kind, want |-> WithoutRevision(want)]
BY DEF CallOf

LEMMA JoinMaps ==
  ASSUME TypeOK, NEW kind, NEW want, Join(kind, want)
  PROVE  /\ Named(WithoutRevision(want))
         /\ Slot!Refused(kind, WithoutRevision(want)) \/ Slot!Joined(kind, WithoutRevision(want))
<1>1. UNCHANGED <<phase, SlotConfirmed, SlotWorker, SlotInbox, Closed>>
      /\ JobOf(operation') = JobOf(operation) /\ StageOf(recovery') = StageOf(recovery)
  BY ProcsKept, ChannelKept, ConfirmedKept DEF Closed, Join, lifeVars, callFrame, workerVars
<1>2. CASE Closed /\ reply' = [NoReply EXCEPT !.kind = kind, !.want = want] /\ UNCHANGED call
  <2>1. ReplyOf(reply') = [kind |-> kind, want |-> WithoutRevision(want), ok |-> FALSE,
                           phase |-> "none", gen |-> 0]
    BY <1>2 DEF ReplyOf, NoReply
  <2>2. ReplyOf(reply') = [Slot!NoReply EXCEPT !.kind = kind, !.want = WithoutRevision(want)]
    <3> DEFINE r == [Slot!NoReply EXCEPT !.kind = kind, !.want = WithoutRevision(want)]
    <3>1. r.kind = kind /\ r.want = WithoutRevision(want) /\ r.ok = FALSE /\ r.phase = "none"
          /\ r.gen = 0
      BY DEF Slot!NoReply
    <3>2. DOMAIN r = {"kind", "want", "ok", "phase", "gen"} /\ r = [i \in DOMAIN r |-> r[i]]
      BY DEF Slot!NoReply
    <3> HIDE DEF r
    <3>3. r = ReplyOf(reply')
      BY <2>1, <3>1, <3>2
    <3> QED
      BY <3>3 DEF r
  <2> QED
    BY <1>1, <1>2, <2>2, <2>1 DEF Slot!Refused, Named
<1>3. CASE ~Closed /\ Busy /\ call' = [kind |-> kind, want |-> want] /\ reply' = NoReply
  BY <1>1, <1>3, CallMaps, NothingMaps, BusyMaps DEF Slot!Joined, Named
<1> QED
  BY <1>2, <1>3 DEF Join

LEMMA AnswerNowMaps ==
  ASSUME TypeOK, NEW kind, kind # "none", NEW want, NEW ok, AnswerNow(kind, want, ok)
  PROVE  Slot!AnsweredNow(kind, WithoutRevision(want), ok) /\ Named(WithoutRevision(want))
<1>1. UNCHANGED <<epoch, factVars, toWorker, procs, operation, closing>>
      /\ Answer([kind |-> kind, want |-> want], ok)
  BY DEF AnswerNow, callFrame, workerVars
<1>2. Named(WithoutRevision(want))
  BY <1>1 DEF Named, ReplyOf, Answer
<1> QED
  BY <1>1, <1>2, AnswerMaps, CallMaps, ProcsKept, ChannelKept, ConfirmedKept DEF
     Slot!AnsweredNow, Closed

LEMMA BeginStartMaps ==
  ASSUME TypeOK, TypeOK', OneWorkerInv, MessagesInv, SlotInv, child = 0,
         NEW kind, kind # "none", NEW snap, BeginStart(kind, snap)
  PROVE  /\ \/ Slot!Forks([kind |-> kind, want |-> WithoutRevision(snap)], WithoutRevision(snap))
            \/ Slot!ForkFails([kind |-> kind, want |-> WithoutRevision(snap)])
         /\ Named(WithoutRevision(snap))
         /\ UNCHANGED <<SlotConfirmed, Closed>>
<1> DEFINE c == [kind |-> kind, want |-> snap]
<1>1. UNCHANGED <<factVars, toWorker, toManager>> /\ MessagesRead
  BY DEF BeginStart, callFrame, MessagesRead
<1>2. CallOf(c) = [kind |-> kind, want |-> WithoutRevision(snap)] /\ c.kind # "none"
      /\ c.want = snap
  BY CallMaps
<1>3. SlotConfirmed' = SlotConfirmed
  BY <1>1, ConfirmedKept
<1>4. Fork(c, snap, FALSE) \/ ForkFails(c)
  BY DEF BeginStart
<1> HIDE DEF c
<1>5. CASE Fork(c, snap, FALSE)
  BY <1>2, <1>3, <1>1, <1>5, ForkMaps DEF Named, CallOf, Fork
<1>6. CASE ForkFails(c)
  <2>1. reply'.want = snap
    BY <1>2, <1>6 DEF ForkFails, Answer
  <2> QED
    BY <1>2, <1>3, <1>1, <1>6, <2>1, ForkFailsMaps DEF Named, ReplyOf
<1> QED
  BY <1>4, <1>5, <1>6

LEMMA RequestTypes ==
  ASSUME TypeOK, NEW type \in {"configure", "account-state", "drain", "shutdown"},
         NEW snap \in Snapshot, NEW rev \in Nat, NEW id \in Nat, Send(type, id, snap, rev)
  PROVE  \E m \in Request : m.type = type /\ m.snap = snap /\ Send(m.type, m.id, m.snap, m.rev)
<1> DEFINE m == [type |-> type, id |-> id, snap |-> snap, rev |-> rev]
<1>1. m \in Request /\ m.type = type /\ m.id = id /\ m.snap = snap /\ m.rev = rev
  BY DEF Request
<1> HIDE DEF m
<1> QED
  BY <1>1

LEMMA BeginStopMaps ==
  ASSUME TypeOK, NEW kind, NEW snap, BeginStop(kind, snap)
  PROVE  /\ Slot!BeginStop(kind, WithoutRevision(snap)) /\ Named(WithoutRevision(snap))
<1>1. UNCHANGED <<epoch, factVars, closing>> /\ phase' = "draining" /\ reply' = NoReply
      /\ call' = [kind |-> kind, want |-> snap]
  BY DEF BeginStop, callFrame
<1>2. CallOf(call') = [kind |-> kind, want |-> WithoutRevision(snap)]
      /\ ReplyOf(reply') = Slot!NoReply /\ Closed' = Closed /\ SlotConfirmed' = SlotConfirmed
  BY <1>1, CallMaps, NothingMaps, ConfirmedKept DEF Closed
<1>3. UNCHANGED <<SlotWorker, SlotInbox>>
  <2>1. CASE Send("drain", requestSequence + 1, NoSnapshot, 0) /\ UNCHANGED procs
    BY <1>1, <2>1, RequestTypes, ConstantTypes, ProcsKept, ChannelKept DEF TypeOK
  <2>2. ASSUME NEW o, SendFails, Terminate(o, childExited)
        PROVE  UNCHANGED <<SlotWorker, SlotInbox>>
    BY <1>1, <2>2, TerminateStays, ChannelKept DEF SendFails, StoppingStays
  <2> QED
    BY <2>1, <2>2 DEF BeginStop
<1>4. Named(WithoutRevision(snap))
  BY <1>2 DEF Named
<1> QED
  BY <1>1, <1>2, <1>3, <1>4 DEF Slot!BeginStop, JobOf, BeginStop, Terminate, NoOperation

LEMMA StartMaps ==
  ASSUME TypeOK, TypeOK', OneWorkerInv, BooksInv, MessagesInv, SlotInv, NEW snap, Start(snap)
  PROVE  Slot!Start(WithoutRevision(snap)) /\ Named(WithoutRevision(snap))
<1>1. CallOf(call) = Slot!NoCall
  BY NothingMaps DEF Start
<1>2. CASE Join("start", snap)
  BY <1>1, <1>2, JoinMaps DEF Slot!Start
<1>3. CASE /\ ~Closed /\ ~Busy
           /\ phase = "running" \/ child # 0
           /\ UNCHANGED <<phase, recovery>>
           /\ AnswerNow("start", snap, phase = "running")
  BY <1>1, <1>3, FreeMaps, AnswerNowMaps DEF Slot!Start, StageOf, BooksInv, OperationInv, Busy
<1>4. CASE /\ ~Closed /\ ~Busy /\ phase # "running" /\ child = 0
           /\ BeginStart("start", snap)
           /\ UNCHANGED recovery
  BY <1>1, <1>4, FreeMaps, BeginStartMaps DEF Slot!Start, StageOf
<1> QED
  BY <1>2, <1>3, <1>4 DEF Start

LEMMA ApplyMaps ==
  ASSUME TypeOK, TypeOK', OneWorkerInv, BooksInv, MessagesInv, SlotInv,
         NEW snap \in Snapshot, ApplySnapshot(snap)
  PROVE  Slot!Apply(WithoutRevision(snap)) /\ Named(WithoutRevision(snap))
<1> DEFINE want == WithoutRevision(snap)
<1>1. CallOf(call) = Slot!NoCall /\ want.gen = snap.gen /\ SlotConfirmed.gen = generation
  BY NothingMaps DEF ApplySnapshot, WithoutRevision, SlotConfirmed
<1>2. CASE Join("apply", snap)
  BY <1>1, <1>2, JoinMaps DEF Slot!Apply
<1>3. CASE /\ ~Closed /\ ~Busy
           /\ phase # "running" \/ child = 0 \/ snap.gen <= generation
           /\ UNCHANGED <<phase, recovery>>
           /\ AnswerNow("apply", snap, FALSE)
  BY <1>1, <1>3, FreeMaps, AnswerNowMaps DEF Slot!Apply, StageOf, BooksInv, OperationInv
<1>4. CASE /\ ~Closed /\ ~Busy
           /\ phase = "running" /\ child # 0 /\ snap.gen > generation
           /\ BeginApply(snap)
  <2>1. Slot!Free /\ epoch \in Epochs /\ requestSequence + 1 \in Nat
    BY <1>4, FreeMaps DEF OneWorkerInv, TypeOK, Epochs
  <2>2. UNCHANGED <<phase, epoch, factVars, recovery, closing, procs>>
    BY <1>4 DEF BeginApply, lifeVars, callFrame
  <2>3. UNCHANGED <<phase, SlotConfirmed, SlotWorker, Serves, StageOf(recovery), Closed>>
    BY <2>2, ConfirmedKept, ProcsKept, WorkerKept DEF Closed
  <2>4. CASE /\ Send("configure", requestSequence + 1, snap, 0)
             /\ operation' = [NoOperation EXCEPT !.fn = "apply", !.step = "configured",
                                                 !.snap = snap, !.id = requestSequence + 1]
             /\ call' = [kind |-> "apply", want |-> snap] /\ reply' = NoReply
    <3>1. SlotInbox' = IF SlotWorker.alive THEN Append(SlotInbox, want) ELSE SlotInbox
      <4>1. PICK m \in Request : m.type = "configure" /\ m.snap = snap
                                 /\ Send(m.type, m.id, m.snap, m.rev)
        BY <2>1, <2>4, RequestTypes
      <4> QED
        BY <2>2, <2>3, <2>1, <4>1, SendMaps DEF SlotInbox, Serves, SlotWorker
    <3>2. JobOf(operation') = [Slot!NoJob EXCEPT !.fn = "apply", !.snap = want]
      BY <2>4, NewJobs DEF JobOf, NoOperation
    <3>3. CallOf(call') = [kind |-> "apply", want |-> want] /\ ReplyOf(reply') = Slot!NoReply
      BY <2>4, CallMaps, NothingMaps
    <3>4. Named(want)
      BY <3>3 DEF Named
    <3> QED
      BY <1>1, <1>4, <2>1, <2>3, <3>1, <3>2, <3>3, <3>4 DEF Slot!Apply
  <2>5. CASE SendFails /\ Answer([kind |-> "apply", want |-> snap], FALSE) /\ UNCHANGED operation
    <3>1. Slot!AnsweredNow("apply", want, FALSE)
      BY <2>3, <2>2, <2>5, ProcsKept, ChannelKept, AnswerMaps, CallMaps DEF Slot!AnsweredNow,
         SendFails
    <3>2. Named(want)
      BY <2>5 DEF Named, ReplyOf, Answer
    <3> QED
      BY <1>1, <2>1, <2>3, <2>5, <3>1, <3>2 DEF Slot!Apply, SendFails, SlotWorker, Serves
  <2> QED
    BY <1>4, <2>4, <2>5 DEF BeginApply
<1> QED
  BY <1>2, <1>3, <1>4 DEF ApplySnapshot

LEMMA StopMaps ==
  ASSUME TypeOK, OneWorkerInv, BooksInv, Stop
  PROVE  Slot!Stop
<1>1. CallOf(call) = Slot!NoCall /\ WithoutRevision(NoSnapshot) = Slot!NoSnap
  BY NothingMaps DEF Stop
<1>2. CASE Join("stop", NoSnapshot)
  BY <1>1, <1>2, JoinMaps DEF Slot!Stop
<1>3. CASE /\ ~Closed /\ ~Busy
           /\ child = 0 \/ phase = "stopped"
           /\ phase' = "stopped" /\ recovery' = NoRecovery
           /\ AnswerNow("stop", NoSnapshot, TRUE)
  BY <1>1, <1>3, FreeMaps, NoneServes, AnswerNowMaps, NothingMaps DEF Slot!Stop, BooksInv,
     OperationInv, OneWorkerInv
<1>4. CASE /\ ~Closed /\ ~Busy /\ child # 0 /\ phase # "stopped"
           /\ BeginStop("stop", NoSnapshot)
           /\ UNCHANGED recovery
  BY <1>1, <1>4, FreeMaps, BeginStopMaps DEF Slot!Stop, StageOf, BooksInv, OperationInv, Busy
<1> QED
  BY <1>2, <1>3, <1>4 DEF Stop

LEMMA RestartMaps ==
  ASSUME TypeOK, TypeOK', OneWorkerInv, BooksInv, MessagesInv, SlotInv, NEW snap, Restart(snap)
  PROVE  Slot!Restart(WithoutRevision(snap)) /\ Named(WithoutRevision(snap))
<1> DEFINE want == WithoutRevision(snap)
<1>1. CallOf(call) = Slot!NoCall
  BY NothingMaps DEF Restart
<1>2. CASE Join("restart", snap)
  BY <1>1, <1>2, JoinMaps DEF Slot!Restart
<1>3. CASE ~Closed /\ ~Busy /\ recovery' = NoRecovery
  <2>1. Slot!Free /\ StageOf(recovery') = "none"
    BY <1>3, FreeMaps, NothingMaps
  <2>2. CASE child # 0 /\ phase # "stopped" /\ BeginStop("restart", snap)
    BY <1>1, <2>1, <1>3, <2>2, BeginStopMaps DEF Slot!Restart, Slot!BeginStop, BooksInv,
       OperationInv, Busy
  <2>3. CASE ~(child # 0 /\ phase # "stopped") /\ BeginStart("restart", snap)
    BY <1>1, <2>1, <2>3, BeginStartMaps DEF Slot!Restart, OneWorkerInv, BooksInv, OperationInv
  <2> QED
    BY <1>3, <2>2, <2>3, <1>2 DEF Restart
<1> QED
  BY <1>2, <1>3 DEF Restart

\* An update of the account state takes the slot, or leaves no trace in it.
LEMMA SubmitMaps ==
  ASSUME TypeOK, OneWorkerInv, BooksInv, NEW rev \in Nat,
         SubmitAccountState(rev), UNCHANGED accountFrame
  PROVE  Slot!AccountBegins \/ UNCHANGED Slot!slotVars
<1>1. UNCHANGED <<phase, epoch, factVars, recovery, closing, call, reply, procs>>
      /\ requestSequence + 1 \in Nat
  BY DEF accountFrame, lifeVars, TypeOK
<1>2. UNCHANGED <<SlotConfirmed, Closed>> /\ WorkersStay /\ StoppingStays
      /\ UNCHANGED <<phase, StageOf(recovery), CallOf(call), ReplyOf(reply)>>
  BY <1>1, ConfirmedKept, ProcsKept DEF Closed
<1>3. CASE UNCHANGED <<operation, toWorker>>
  BY <1>1, <1>2, <1>3, ChannelKept, SlotKept
<1>4. CASE /\ ~Busy /\ ~DropsAccountState(rev)
           /\ Send("account-state", requestSequence + 1, NoSnapshot, rev)
           /\ operation' = [NoOperation EXCEPT !.fn = "account", !.rev = rev,
                              !.step = "account-state-applied", !.id = requestSequence + 1]
  <2>1. UNCHANGED <<SlotWorker, SlotInbox>>
    BY <1>1, <1>2, <1>4, RequestTypes, ConstantTypes, ChannelKept
  <2>2. JobOf(operation') = [Slot!NoJob EXCEPT !.fn = "account"]
    BY <1>4, NothingMaps, NewJobs DEF JobOf, NoOperation
  <2> QED
    BY <1>2, <2>1, <2>2, <1>4, NothingMaps DEF Slot!AccountBegins, DropsAccountState, Busy,
       BooksInv, OperationInv
<1> QED
  BY <1>3, <1>4 DEF SubmitAccountState, SendFails

LEMMA CloseMaps ==
  ASSUME TypeOK, Close
  PROVE  Slot!Close
<1> QED
  BY ConfirmedKept, ProcsKept, ChannelKept, NothingMaps DEF Slot!Close, Closed, Close, lifeVars,
     callerVars, workerVars

LEMMA CallerStepMaps ==
  ASSUME TypeOK, TypeOK', OneWorkerInv, BooksInv, MessagesInv, SlotInv, CallerStep
  PROVE  Slot!SlotNext \/ UNCHANGED Slot!slotVars
<1>1. ASSUME NEW want, Named(want), Slot!Start(want) \/ Slot!Apply(want) \/ Slot!Restart(want)
      PROVE  Slot!SlotNext
  BY <1>1 DEF Named, Slot!SlotNext, Slot!CallStep
<1>2. ASSUME NEW snap \in Snapshots, Start(snap) \/ ApplySnapshot(snap) \/ Restart(snap)
      PROVE  Slot!SlotNext
  BY <1>1, <1>2, StartMaps, ApplyMaps, RestartMaps, SnapshotsAhead
<1>3. CASE Stop
  BY <1>3, StopMaps DEF Slot!SlotNext, Slot!CallStep
<1>4. CASE AccountStateChanges
  BY <1>4, SubmitMaps DEF AccountStateChanges, Slot!SlotNext, Slot!JobStep, TypeOK
<1>5. CASE Close
  BY <1>5, CloseMaps DEF Slot!SlotNext
<1> QED
  BY <1>2, <1>3, <1>4, <1>5 DEF CallerStep

------------------------
(* Recovery and close() *)

LEMMA IdleMaps ==
  ASSUME BooksInv, ~Busy PROVE operation = NoOperation /\ JobOf(operation) = Slot!NoJob
BY NothingMaps DEF Busy, BooksInv, OperationInv

\* The wait of a recovery has failed: it goes on, gives up, or is dropped.
LEMMA RecoveryCaughtMaps ==
  ASSUME NEW attempted \in BOOLEAN, RecoveryCaught(attempted)
  PROVE  /\ StageOf(recovery') = "none"
         /\ \/ UNCHANGED phase
            \/ /\ ~Closed /\ child = 0 /\ (phase = "backoff" \/ attempted)
               /\ phase' \in {"backoff", "failed"}
<1>1. CASE ScheduleRecovery /\ ~Closed /\ child = 0 /\ (phase = "backoff" \/ attempted)
  BY <1>1 DEF ScheduleRecovery, StageOf, NoRecovery
<1>2. CASE recovery' = NoRecovery /\ UNCHANGED <<crashTimes, phase>>
  BY <1>2, NothingMaps
<1> QED
  BY <1>1, <1>2 DEF RecoveryCaught

\* What a recovery leaves alone is most of the slot.
LEMMA RecoveryFrameMaps ==
  ASSUME TypeOK, UNCHANGED recoveryFrame
  PROVE  /\ UNCHANGED <<SlotConfirmed, SlotWorker, SlotInbox, Closed, call, reply>>
         /\ JobOf(operation') = JobOf(operation)
<1> QED
  BY ConfirmedKept, ProcsKept, ChannelKept DEF workerVars, callerVars, Closed, recoveryFrame

LEMMA RecoveryRejectedMaps ==
  ASSUME TypeOK, OneWorkerInv, BooksInv, RecoveryRejected
  PROVE  Slot!RecoveryRetries
<1> QED
  BY NoneServes, IdleMaps, RecoveryCaughtMaps, RecoveryFrameMaps DEF Slot!RecoveryRetries,
     RecoveryRejected, StageOf, BooksInv, OperationInv, Busy

LEMMA PerformCloseMaps ==
  ASSUME TypeOK, OneWorkerInv, BooksInv, PerformClose
  PROVE  Slot!CloseEndsWorker
<1>1. UNCHANGED <<epoch, factVars, recovery, call, reply, toWorker>> /\ Closed /\ Closed'
  BY DEF PerformClose, callerVars, Closed
<1>2. JobOf(operation) = Slot!NoJob /\ SlotConfirmed' = SlotConfirmed
  BY <1>1, IdleMaps, ConfirmedKept DEF PerformClose
<1>3. CASE child # 0
  <2>1. Terminate([NoOperation EXCEPT !.fn = "close"], childExited) /\ UNCHANGED phase
    BY <1>3 DEF PerformClose
  <2> QED
    BY <1>1, <1>2, <2>1, NothingMaps, TerminateStays, ChannelKept, NewJobs DEF
       Slot!CloseEndsWorker, StoppingStays, JobOf, Terminate, NoOperation
<1>4. CASE child = 0
  BY <1>1, <1>2, <1>4, ProcsKept, ChannelKept, NoneServes DEF Slot!CloseEndsWorker, PerformClose
<1> QED
  BY <1>3, <1>4

LEMMA MicrotaskMaps ==
  ASSUME TypeOK, OneWorkerInv, BooksInv, Microtask
  PROVE  Slot!SlotNext \/ UNCHANGED Slot!slotVars
<1>1. CASE ResubmitAccountState
  <2>1. PICK rev \in accountReady : SubmitAccountState(rev)
    BY <1>1 DEF ResubmitAccountState
  <2> QED
    BY <2>1, <1>1, SubmitMaps DEF Slot!SlotNext, Slot!JobStep, ResubmitAccountState, TypeOK
<1>2. CASE RecoveryRejected
  BY <1>2, RecoveryRejectedMaps DEF Slot!SlotNext, Slot!RecoveryStep
<1>3. CASE PerformClose
  BY <1>3, PerformCloseMaps DEF Slot!SlotNext
<1> QED
  BY <1>1, <1>2, <1>3 DEF Microtask

LEMMA RecoveryStartsMaps ==
  ASSUME TypeOK, TypeOK', OneWorkerInv, BooksInv, MessagesInv, SlotInv, RecoveryStarts
  PROVE  Slot!RecoveryStarts
<1>1. /\ recovery.stage = "gate" /\ ~Closed /\ phase = "backoff" /\ child = 0
      /\ UNCHANGED <<factVars, toWorker, toManager>> /\ MessagesRead
  BY DEF RecoveryStarts, CanRecover, MessagesRead
<1>2. JobOf(operation) = Slot!NoJob
  BY <1>1, IdleMaps DEF BooksInv, OperationInv, Busy
<1>3. WithoutRevision(recovery.snap) = SlotConfirmed /\ SlotConfirmed' = SlotConfirmed
  BY <1>1, ConfirmedKept DEF BooksInv, FactsInv, Confirmed, WithoutRevision, SlotConfirmed
<1>4. CASE /\ Fork(NoCall, recovery.snap, TRUE)
           /\ recovery' = [recovery EXCEPT !.stage = "attempt"]
  BY <1>1, <1>2, <1>3, <1>4, ForkMaps, NothingMaps DEF Slot!RecoveryStarts, StageOf, TypeOK,
     Recovery
<1>5. CASE ForkFails(NoCall) /\ recovery' = [recovery EXCEPT !.stage = "rejected"]
  BY <1>1, <1>2, <1>3, <1>5, ForkFailsMaps, NothingMaps DEF Slot!RecoveryStarts, StageOf,
     TypeOK, Recovery
<1> QED
  BY <1>4, <1>5 DEF RecoveryStarts

LEMMA RecoveryEventMaps ==
  ASSUME TypeOK, TypeOK', OneWorkerInv, BooksInv, MessagesInv, SlotInv, RecoveryEvent
  PROVE  Slot!SlotNext \/ UNCHANGED Slot!slotVars
<1>1. ASSUME recovery.stage \in {"timer", "port", "gate"}, UNCHANGED recoveryFrame,
             StageOf(recovery') = "none",
             UNCHANGED phase \/ (phase = "backoff" /\ phase' \in {"backoff", "failed"})
      PROVE  Slot!SlotNext \/ UNCHANGED Slot!slotVars
  <2>1. /\ UNCHANGED <<SlotConfirmed, SlotWorker, SlotInbox, Closed, call, reply>>
        /\ JobOf(operation') = JobOf(operation)
    BY <1>1, RecoveryFrameMaps
  <2>2. StageOf(recovery') = StageOf(recovery)
    BY <1>1 DEF StageOf
  <2>3. CASE UNCHANGED phase
    BY <2>1, <2>2, <2>3, SlotKept
  <2>4. CASE phase = "backoff" /\ phase' = "failed"
    BY <2>1, <2>2, <2>4 DEF Slot!RecoveryGivesUp, Slot!SlotNext, Slot!RecoveryStep
  <2> QED
    BY <1>1, <2>3, <2>4
<1>2. CASE RecoveryTimer
  BY <1>1, <1>2 DEF RecoveryTimer, StageOf, NoRecovery, TypeOK, Recovery
<1>3. ASSUME NEW free \in BOOLEAN, RecoveryPort(free)
      PROVE  Slot!SlotNext \/ UNCHANGED Slot!slotVars
  <2>1. CASE free
    BY <1>1, <1>3, <2>1 DEF RecoveryPort, StageOf, NoRecovery, TypeOK, Recovery
  <2>2. CASE ~free
    BY <1>1, <1>3, <2>2, RecoveryCaughtMaps DEF RecoveryPort
  <2> QED
    BY <2>1, <2>2
<1>4. CASE RecoveryNotReady
  BY <1>1, <1>4, RecoveryCaughtMaps DEF RecoveryNotReady
<1>5. CASE RecoveryStarts
  BY <1>5, RecoveryStartsMaps DEF Slot!SlotNext, Slot!RecoveryStep
<1>6. CASE RecoveryObsolete
  BY <1>1, <1>6, NothingMaps DEF RecoveryObsolete
<1> QED
  BY <1>2, <1>3, <1>4, <1>5, <1>6 DEF RecoveryEvent

------------------------
(* The job in flight *)

\* A Worker that has taken everything it was sent serves what the job is about, or is gone.
LEMMA TakenMaps ==
  ASSUME Taken
  PROVE  Slot!ServesOrGone(JobOf(operation).snap)
<1>1. Snaps(<<>>) = <<>>
  <2>1. <<>> \in Seq(Request) /\ Configures(<<>>) = {}
    BY DEF Configures
  <2> QED
    BY <2>1, SnapsType
<1> QED
  BY <1>1 DEF Slot!ServesOrGone, SlotWorker, JobOf, Taken, Runs, Serves, WithoutRevision,
     SlotInbox

LEMMA StartedMaps ==
  ASSUME TypeOK, BooksInv, SlotInv, Started
  PROVE  Slot!Started
<1>1. UNCHANGED <<epoch, procs, toWorker>> /\ phase' = "running" /\ Settle(TRUE)
  BY DEF Started, workerVars
<1>2. SlotConfirmed' = JobOf(operation).snap
  BY DEF Started, SlotConfirmed, JobOf, WithoutRevision
<1>3. UNCHANGED <<SlotWorker, SlotInbox>>
  BY <1>1, ProcsKept, ChannelKept
<1> QED
  BY <1>1, <1>2, <1>3, SettleMaps, TakenMaps DEF Slot!Started, Started, BooksInv, OperationInv,
     SlotInv, TakenInv, JobOf

LEMMA PortCheckedMaps ==
  ASSUME TypeOK, OneWorkerInv, BooksInv, NEW free \in BOOLEAN, PortChecked(free)
  PROVE  Slot!StopEnds(TRUE) \/ Slot!StopEnds(FALSE) \/ Slot!StopFails
<1> DEFINE ok == free /\ operation.fn # "start" /\ ~operation.drainFailed
<1>1. UNCHANGED <<epoch, factVars, procs, toWorker>> /\ Settle(ok) /\ operation.step = "port"
      /\ phase' = IF free THEN "stopped" ELSE "failed"
  BY DEF PortChecked
<1>2. JobOf(operation).fn \in {"start", "stop"} /\ JobOf(operation).restart = operation.restart
      /\ (JobOf(operation).fn = "start" => operation.fn = "start")
  BY <1>1 DEF BooksInv, OperationInv, JobOf
<1>3. UNCHANGED <<SlotConfirmed, SlotWorker, SlotInbox>> /\ ~SlotWorker.alive
  BY <1>1, ConfirmedKept, ProcsKept, ChannelKept, NoneServes DEF OneWorkerInv
<1>4. Slot!Settle(ok) /\ Closed' = Closed /\ ok \in BOOLEAN
  BY <1>1, SettleMaps
<1>5. free /\ ok => JobOf(operation).fn = "stop" /\ ~JobOf(operation).restart
  BY <1>2 DEF PortChecked
<1>6. ~free => ok = FALSE
  OBVIOUS
<1> HIDE DEF ok
<1>7. CASE free
  BY <1>4, <1>1, <1>2, <1>3, <1>5, <1>7 DEF Slot!StopEnds
<1>8. CASE ~free
  BY <1>1, <1>2, <1>3, <1>4, <1>6, <1>8 DEF Slot!StopFails
<1> QED
  BY <1>7, <1>8

LEMMA KillTimeoutMaps ==
  ASSUME TypeOK, BooksInv, KillTimeout
  PROVE  Slot!StopFails
<1> QED
  BY SettleMaps, ConfirmedKept, ProcsKept, ChannelKept DEF Slot!StopFails, KillTimeout,
     workerVars, ExitSteps, BooksInv, OperationInv, JobOf

LEMMA RestartForksMaps ==
  ASSUME TypeOK, TypeOK', OneWorkerInv, BooksInv, MessagesInv, SlotInv, RestartForks
  PROVE  Slot!RestartForks
<1>1. /\ UNCHANGED <<factVars, recovery, toWorker>> /\ MessagesRead
      /\ child = 0 \/ childExited
      /\ operation.fn = "stop" /\ operation.restart
  BY ReleaseReads DEF RestartForks, callFrame, OneWorkerInv, BooksInv, OperationInv
<1>2. JobOf(operation).fn = "stop" /\ JobOf(operation).restart
      /\ JobOf(operation).snap = WithoutRevision(operation.snap)
  BY <1>1 DEF JobOf
<1>3. UNCHANGED <<SlotConfirmed, StageOf(recovery)>>
  BY <1>1, ConfirmedKept DEF StageOf
<1>4. CASE Fork(call, operation.snap, FALSE)
  BY <1>1, <1>2, <1>3, <1>4, ForkMaps DEF Slot!RestartForks, BooksInv, OperationInv, CallsInv,
     Owned
<1>5. CASE ForkFails(call)
  BY <1>1, <1>2, <1>3, <1>5, ForkFailsMaps DEF Slot!RestartForks
<1> QED
  BY <1>4, <1>5 DEF RestartForks

\* The operation waits for something else, or for nobody's next word.
LEMMA WaitMaps ==
  ASSUME TypeOK, UNCHANGED <<phase, epoch, factVars, recovery, closing, callerVars>>,
         JobOf(operation') = JobOf(operation), WorkersStay, StoppingStays,
         \/ UNCHANGED toWorker
         \/ \E m \in Request : m.type # "configure" /\ Send(m.type, m.id, m.snap, m.rev)
  PROVE  UNCHANGED Slot!slotVars
<1> QED
  BY ConfirmedKept, ChannelKept, SlotKept DEF Closed, callerVars, StageOf

LEMMA OperationEventMaps ==
  ASSUME TypeOK, TypeOK', OneWorkerInv, BooksInv, MessagesInv, SlotInv, OperationEvent
  PROVE  Slot!SlotNext \/ UNCHANGED Slot!slotVars
<1> USE DEF Slot!SlotNext, Slot!JobStep
<1>1. CASE MessageTimeout \/ HealthFails
  BY <1>1, ThrownMaps DEF MessageTimeout, HealthFails, messageFrame, TypeOK
<1>2. CASE Started
  BY <1>2, StartedMaps
<1>3. CASE ExitTimeout
  BY <1>3, SignalStays, JobKept, WaitMaps DEF ExitTimeout, lifeVars, StoppingStays
<1>4. CASE KillTimeout
  BY <1>4, KillTimeoutMaps
<1>5. ASSUME NEW free \in BOOLEAN, PortChecked(free) PROVE Slot!SlotNext
  BY <1>5, PortCheckedMaps
<1>6. CASE RestartForks
  BY <1>6, RestartForksMaps
<1> QED
  BY <1>1, <1>2, <1>3, <1>4, <1>5, <1>6 DEF OperationEvent

------------------------
(* The messages and the exit of the child *)

\* The configure of a start is the first snapshot of a fresh Worker.
LEMMA StartSendsMaps ==
  ASSUME TypeOK, TypeOK', OneWorkerInv, BooksInv, MessagesInv, SlotInv, Incoming,
         operation.step = "ready",
         Send("configure", operation.id, operation.snap, 0),
         operation' = [operation EXCEPT !.step = "configured"],
         UNCHANGED <<phase, epoch, factVars, callerVars, closing, recovery, procs>>
  PROVE  Slot!StartSends \/ UNCHANGED Slot!slotVars
<1>1. epoch \in Epochs /\ operation.id \in Nat /\ operation.snap \in Snapshot
  BY IncomingReads DEF TypeOK, Operation
<1>2. UNCHANGED <<SlotConfirmed, Closed, call, reply, StageOf(recovery)>>
      /\ Serves' = Serves /\ SlotWorker' = SlotWorker
  BY ConfirmedKept, ProcsKept, WorkerKept DEF Closed, callerVars, StageOf
<1>3. JobOf(operation') = JobOf(operation) /\ JobOf(operation).fn = "start"
      /\ JobOf(operation).snap = WithoutRevision(operation.snap)
  BY JobKept DEF JobOf, BooksInv, OperationInv
<1>4. CASE Serves
  <2>1. SlotWorker = Slot!Fresh
    BY <1>4 DEF SlotInv, BootInv, Serves, SlotWorker, Slot!Fresh, Slot!NoSnap
  <2>2. Snaps(toWorker[epoch]) = <<>>
    <3>1. <<>> \in Seq(Request) /\ Configures(<<>>) = {}
      BY DEF Configures
    <3> QED
      BY <3>1, SnapsType DEF SlotInv, BootInv
  <2>3. PICK m \in Request : m.type = "configure" /\ m.snap = operation.snap
                             /\ Send(m.type, m.id, m.snap, m.rev)
    BY <1>1, RequestTypes
  <2>4. Snaps(toWorker'[epoch]) = Append(<<>>, WithoutRevision(operation.snap))
    BY <1>1, <1>4, <2>2, <2>3, SendMaps DEF Serves
  <2> QED
    BY <1>2, <1>3, <2>1, <1>4, <2>2, <2>4 DEF Slot!StartSends, SlotInbox
<1>5. CASE ~Serves
  BY <1>2, <1>3, <1>5, SlotKept DEF SlotInbox
<1> QED
  BY <1>4, <1>5

LEMMA OnReadyMaps ==
  ASSUME TypeOK, TypeOK', OneWorkerInv, BooksInv, MessagesInv, SlotInv, OnReady
  PROVE  Slot!SlotNext \/ UNCHANGED Slot!slotVars
<1>1. UNCHANGED <<phase, epoch, factVars>> /\ operation.step = "ready" /\ Incoming
      /\ childExited \in BOOLEAN /\ AwaitsMessage
  BY DEF OnReady, messageFrame, TypeOK, Answers
<1>2. CASE /\ Send("configure", operation.id, operation.snap, 0)
           /\ operation' = [operation EXCEPT !.step = "configured"]
           /\ UNCHANGED <<expectedExit, callerVars, closing, recovery, procs>>
  BY <1>1, <1>2, StartSendsMaps DEF Slot!SlotNext, Slot!JobStep
<1>3. CASE SendFails /\ Thrown(childExited)
  BY <1>1, <1>3, ThrownMaps DEF SendFails, Slot!SlotNext, Slot!JobStep
<1> QED
  BY <1>2, <1>3 DEF OnReady

LEMMA OnApplyConfiguredMaps ==
  ASSUME TypeOK, OneWorkerInv, BooksInv, MessagesInv, SlotInv, OnApplyConfigured
  PROVE  Slot!ApplyConfirmed
<1>1. SlotConfirmed' = JobOf(operation).snap
  BY DEF SlotConfirmed, JobOf, WithoutRevision, Snapshot, OnApplyConfigured, TypeOK, Operation
<1> QED
  BY <1>1, AcknowledgedTaken, ProcsKept, ChannelKept, SettleMaps, TakenMaps DEF
     Slot!ApplyConfirmed, BooksInv, OperationInv, JobOf, OnApplyConfigured, messageFrame

LEMMA OnAccountStateAppliedMaps ==
  ASSUME TypeOK, BooksInv, OnAccountStateApplied
  PROVE  Slot!AccountApplied
<1> QED
  BY ProcsKept, ChannelKept, SettleMaps DEF Slot!AccountApplied, SlotConfirmed, TypeOK,
     Snapshot, OnAccountStateApplied, messageFrame, BooksInv, OperationInv, JobOf

LEMMA OnDrainedMaps ==
  ASSUME TypeOK, BooksInv, OnDrained
  PROVE  Slot!SlotNext \/ UNCHANGED Slot!slotVars
<1>1. UNCHANGED <<phase, epoch, factVars>> /\ AwaitsMessage /\ childExited \in BOOLEAN
      /\ requestSequence + 1 \in Nat
  BY DEF OnDrained, messageFrame, TypeOK, Answers
<1>2. CASE /\ Send("shutdown", requestSequence + 1, NoSnapshot, 0)
           /\ operation' = [operation EXCEPT !.step = "exit"]
           /\ UNCHANGED <<procs, expectedExit, callerVars, closing, recovery>>
  BY <1>1, <1>2, RequestTypes, ConstantTypes, ProcsKept, JobKept, WaitMaps
<1>3. CASE SendFails /\ Terminate(operation, childExited)
           /\ UNCHANGED <<expectedExit, callerVars, closing, recovery>>
  BY <1>1, <1>3, JobKept, TerminateStays, WaitMaps DEF SendFails, StoppingStays, Terminate
<1>4. CASE UNCHANGED toWorker /\ Thrown(childExited)
  BY <1>1, <1>4, ThrownMaps DEF Slot!SlotNext, Slot!JobStep
<1> QED
  BY <1>2, <1>3, <1>4 DEF OnDrained

LEMMA ChildCrashedMaps ==
  ASSUME TypeOK, ChildCrashed
  PROVE  Slot!CrashNoticed
<1>1. UNCHANGED <<epoch, factVars, procs, toWorker, closing>> /\ ~Closed /\ phase = "running"
      /\ operation' = NoOperation /\ Answer(call, FALSE) /\ ScheduleRecovery
  BY DEF ChildCrashed
<1>2. phase' \in {"backoff", "failed"} /\ StageOf(recovery') = "none"
  BY <1>1 DEF ScheduleRecovery, StageOf, NoRecovery
<1> QED
  BY <1>1, <1>2, AnswerMaps, ConfirmedKept, ProcsKept, ChannelKept, NothingMaps DEF
     Slot!CrashNoticed, Closed, ChildCrashed, SlotWorker, Serves

LEMMA ChildExitsMaps ==
  ASSUME TypeOK, BooksInv, ChildExits
  PROVE  Slot!SlotNext \/ UNCHANGED Slot!slotVars
<1>1. UNCHANGED <<phase, epoch, factVars, toWorker>>
  BY DEF ChildExits
<1>2. CASE AwaitsMessage
  BY <1>1, <1>2, ThrownMaps DEF ChildExits, Slot!SlotNext, Slot!JobStep
<1>3. CASE ~AwaitsMessage
  BY <1>1, <1>3, JobKept, ProcsKept, WaitMaps DEF ChildExits
<1> QED
  BY <1>2, <1>3

LEMMA ChildEventMaps ==
  ASSUME TypeOK, TypeOK', OneWorkerInv, BooksInv, MessagesInv, SlotInv, ChildEvent
  PROVE  Slot!SlotNext \/ UNCHANGED Slot!slotVars
<1> USE DEF Slot!SlotNext, Slot!JobStep
<1>1. ASSUME UNCHANGED <<phase, epoch, factVars, recovery, closing, callerVars, procs, toWorker>>,
             JobOf(operation') = JobOf(operation)
      PROVE  UNCHANGED Slot!slotVars
  BY <1>1, ProcsKept, WaitMaps
<1>2. CASE OnReady
  BY <1>2, OnReadyMaps
<1>3. CASE OnStartConfigured
  BY <1>1, <1>3, JobKept DEF OnStartConfigured, messageFrame
<1>4. CASE OnApplyConfigured
  BY <1>4, OnApplyConfiguredMaps
<1>5. CASE OnAccountStateApplied
  BY <1>5, OnAccountStateAppliedMaps
<1>6. CASE OnDrained
  BY <1>6, OnDrainedMaps
<1>7. CASE OnFatal
  <2>1. UNCHANGED <<phase, epoch, factVars, toWorker>> /\ childExited \in BOOLEAN
    BY <1>7 DEF OnFatal, messageFrame, TypeOK
  <2>2. CASE AwaitsMessage /\ Thrown(childExited)
    BY <2>1, <2>2, ThrownMaps
  <2>3. CASE UNCHANGED <<operation, procs, callerVars, closing, recovery>>
    BY <1>1, <2>1, <2>3
  <2> QED
    BY <1>7, <2>2, <2>3 DEF OnFatal
<1>8. CASE OnUnawaited
  BY <1>1, <1>8 DEF OnUnawaited, managerVars, lifeVars
<1>9. CASE HealthAnswers
  BY <1>1, <1>9, JobKept DEF HealthAnswers, lifeVars, workerVars
<1>10. CASE ChildCrashed
  BY <1>10, ChildCrashedMaps DEF Slot!RecoveryStep
<1>11. CASE ChildExits
  BY <1>11, ChildExitsMaps
<1> QED
  BY <1>2, <1>3, <1>4, <1>5, <1>6, <1>7, <1>8, <1>9, <1>10, <1>11 DEF ChildEvent

------------------------
(* The Worker *)

\* What the steps of a Worker leave alone.
LEMMA ManagerVarsMap ==
  ASSUME UNCHANGED managerVars
  PROVE  UNCHANGED <<phase, epoch, SlotConfirmed, Closed, call, reply,
                     JobOf(operation), StageOf(recovery)>>
<1> QED
  BY ConfirmedKept DEF Closed, managerVars, lifeVars, callerVars

LEMMA GoneMaps ==
  /\ ~Serves => SlotWorker = Slot!Gone /\ SlotInbox = <<>>
  /\ ~Serves' => SlotWorker' = Slot!Gone /\ SlotInbox' = <<>>
<1>1. ASSUME ~Serves PROVE SlotWorker = Slot!Gone /\ SlotInbox = <<>>
  BY <1>1 DEF SlotInbox, Slot!Gone, Slot!NoSnap, SlotWorker, Serves
<1>2. ASSUME ~Serves' PROVE SlotWorker' = Slot!Gone /\ SlotInbox' = <<>>
  BY <1>2 DEF SlotInbox, Slot!Gone, Slot!NoSnap, SlotWorker, Serves
<1> QED
  BY <1>1, <1>2

LEMMA ConfigureMaps ==
  ASSUME TypeOK, NEW e \in Epochs, e = epoch, Configure(e), UNCHANGED managerVars
  PROVE  Slot!WorkerTakes
<1> DEFINE m == Head(toWorker[e])
           snap == WithoutRevision(m.snap)
<1>1. epoch # 0 /\ UNCHANGED epoch
  BY ManagerVarsMap DEF Epochs
<1>2. /\ procs[e].alive /\ procs'[e].alive /\ ~procs[e].stopping /\ ~procs'[e].stopping
      /\ Runs(procs'[e], m.snap) /\ m.snap.gen > procs[e].gen /\ m.type = "configure"
      /\ toWorker[e] # <<>> /\ toWorker'[e] = Tail(toWorker[e])
  BY ConfigureTakes
<1>3. Serves /\ Serves'
  BY <1>1, <1>2 DEF Serves, Worker
<1>4. toWorker[e] \in Seq(Request)
  BY DEF TypeOK, WorkerTypeOK
<1>5. snap.gen > SlotWorker.snap.gen
  BY <1>2, <1>3 DEF SlotWorker, Worker, WithoutRevision
<1>6. SlotWorker' = [alive |-> TRUE, snap |-> snap]
  BY <1>1, <1>2, <1>3 DEF SlotWorker, Worker, WithoutRevision, Runs
<1>7. [SlotWorker EXCEPT !.snap = snap] = [alive |-> TRUE, snap |-> snap]
  <2> DEFINE w == [SlotWorker EXCEPT !.snap = snap]
  <2> HIDE DEF snap
  <2>1. w.alive = TRUE /\ w.snap = snap /\ DOMAIN w = {"alive", "snap"}
        /\ w = [i \in DOMAIN w |-> w[i]]
    BY <1>3 DEF SlotWorker
  <2> HIDE DEF w
  <2>2. w = [alive |-> TRUE, snap |-> snap]
    BY <2>1
  <2> QED
    BY <2>2 DEF w
<1> QED
  BY <1>1, <1>2, <1>3, <1>4, <1>5, <1>6, <1>7, SnapsTail, ManagerVarsMap DEF Slot!WorkerTakes,
     SlotWorker, SlotInbox

\* The Worker is gone, or will not take another snapshot.
LEMMA EndMaps ==
  ASSUME UNCHANGED managerVars, ~Serves'
  PROVE  Slot!WorkerDies \/ UNCHANGED Slot!slotVars
<1>1. SlotWorker' = Slot!Gone /\ SlotInbox' = <<>>
  BY GoneMaps
<1>2. CASE Serves
  BY <1>1, <1>2, ManagerVarsMap DEF Slot!WorkerDies, SlotWorker
<1>3. CASE ~Serves
  BY <1>1, <1>3, GoneMaps, ManagerVarsMap, SlotKept
<1> QED
  BY <1>2, <1>3

LEMMA ProcessMaps ==
  ASSUME TypeOK, OneWorkerInv, ProcessStep
  PROVE  Slot!SlotNext \/ UNCHANGED Slot!slotVars
<1> USE DEF Slot!SlotNext, Slot!WorkerStep
<1>1. PICK e \in Epochs : WorkerStep(e)
  BY DEF ProcessStep
<1>2. UNCHANGED managerVars
  BY DEF ProcessStep
<1>3. (procs[e].alive /\ Dies(e)) \/ Configure(e) \/ Continues(e)
  BY <1>1, WorkerContinues
<1>4. e = epoch /\ procs[e].alive /\ epoch # 0 /\ UNCHANGED epoch
  BY <1>2, <1>3, ConfigureTakes, ManagerVarsMap DEF OneWorkerInv, NoOrphan, Epochs, Continues
<1>5. CASE Dies(e)
  BY <1>2, <1>4, <1>5, EndMaps DEF Serves, Worker, NoWorker, Dies, TypeOK, WorkerTypeOK
<1>6. CASE Configure(e)
  BY <1>2, <1>4, <1>6, ConfigureMaps
<1>7. CASE Continues(e)
  <2>1. CASE procs'[e].stopping
    BY <1>2, <1>4, <2>1, EndMaps DEF Serves, Worker
  <2>2. CASE ~procs'[e].stopping
    <3>1. Serves /\ Serves'
      BY <1>4, <1>7, <2>2 DEF Continues, Serves, Worker
    <3>2. SlotInbox' = SlotInbox
      BY <1>4, <1>7, <2>2, <3>1, SnapsTail DEF Continues, SlotInbox, TypeOK, WorkerTypeOK
    <3> QED
      BY <1>2, <1>4, <1>7, <3>1, <3>2, ManagerVarsMap, SlotKept DEF Continues, SlotWorker,
         Worker
  <2> QED
    BY <2>1, <2>2
<1> QED
  BY <1>3, <1>5, <1>6, <1>7

------------------------

LEMMA SlotStepMaps ==
  TypeOK /\ TypeOK' /\ OneWorkerInv /\ BooksInv /\ ServiceInv /\ SlotInv /\ [Next]_vars
    => [Slot!SlotNext]_(Slot!slotVars)
<1> SUFFICES ASSUME TypeOK, TypeOK', OneWorkerInv, BooksInv, ServiceInv, SlotInv, [Next]_vars
             PROVE  Slot!SlotNext \/ UNCHANGED Slot!slotVars
  OBVIOUS
<1>1. MessagesInv
  BY DEF ServiceInv
<1>2. CASE ManagerStep
  BY <1>1, <1>2, MicrotaskMaps, OperationEventMaps, ChildEventMaps, RecoveryEventMaps
     DEF ManagerStep
<1>3. CASE CallerStep
  BY <1>1, <1>3, CallerStepMaps
<1>4. CASE ProcessStep
  BY <1>4, ProcessMaps
<1>5. CASE UNCHANGED vars
  BY <1>5, ManagerVarsMap, ProcsKept, ChannelKept, SlotKept DEF vars, workerVars
<1> QED
  BY <1>2, <1>3, <1>4, <1>5 DEF Next

LEMMA SlotInitMaps == Init => Slot!SlotInit
<1> SUFFICES ASSUME Init PROVE Slot!SlotInit
  OBVIOUS
<1> QED
  BY GoneMaps, NothingMaps DEF Init, Slot!SlotInit, SlotConfirmed, NoSnapshot, Slot!NoSnap,
     Closed, Serves

\* The WorkerManager of supervisor/worker-manager.mjs implements the slot its callers rely
\* on: one job at a time, which a call starts, joins or is refused; the snapshots of the
\* configures reach the Worker in their order; a start or an apply that succeeds has had its
\* snapshot taken; an answer says what is confirmed.  The requests, timeouts, drains, signals
\* and probes in between, and every crash and recovery, map to its steps or to none.
THEOREM SlotImplemented == Spec => ImplementsSlot
<1> DEFINE IInv == TypeOK /\ OneWorkerInv /\ BooksInv /\ ServiceInv /\ SlotInv
<1>1. Init => IInv
  BY InitType, OneWorkerInit, BooksInit, ServiceInit, SlotInit
<1>2. IInv /\ [Next]_vars => IInv'
  BY NextType, OneWorkerStep, BooksStep, ServiceStep, SlotStep
<1>3. IInv /\ IInv' /\ [Next]_vars => [Slot!SlotNext]_(Slot!slotVars)
  BY SlotStepMaps
<1>4. Init => Slot!SlotInit
  BY SlotInitMaps
<1> QED
  BY <1>1, <1>2, <1>3, <1>4, PTL DEF Spec, ImplementsSlot, Slot!SlotSpec

------------------------
(* The account states *)

\* The revision of the account state in a message.
Carries(m) ==
  CASE m.type = "configure" -> m.snap.rev [] m.type = "account-state" -> m.rev [] OTHER -> 0

\* A revision that is newer than all the Worker has got or was sent.
High(r) == Worker.rev < r /\ \A m \in Of(toWorker[epoch]) : Carries(m) < r

\* The operation in flight confirms this revision, or it is confirmed.
Confirms(r) ==
  \/ operation.fn \in {"start", "apply"} /\ r <= operation.snap.rev
  \/ operation.fn = "account" /\ r <= operation.rev
  \/ operation.fn # "start" /\ r <= accountRevision

\* An update that waits is dropped when it calls again, or is the newest there is.
Pending == accountWaiting \union accountReady
PendingInv ==
  /\ accountWaiting # {} => Busy
  /\ \A r \in Pending : /\ r > 0 /\ r <= accountRoutingRevision /\ epoch \in Epochs
                        /\ Confirms(r) \/ High(r)

\* An update in a queue is newer than what the Worker will have when it gets to it.
OrderInv ==
  \A e \in Epochs : \A i \in DOMAIN toWorker[e] :
    toWorker[e][i].type = "account-state" =>
      /\ procs[e].rev < toWorker[e][i].rev
      /\ \A j \in DOMAIN toWorker[e] : j < i => Carries(toWorker[e][j]) < toWorker[e][i].rev

\* No revision is newer than the latest.
SentInv ==
  \A e \in Epochs : /\ procs[e].rev <= accountRoutingRevision
                    /\ \A m \in Of(toWorker[e]) : Carries(m) <= accountRoutingRevision
KnownInv ==
  /\ lastSnapshot.rev <= accountRoutingRevision /\ accountRevision <= accountRoutingRevision
  /\ recovery.snap.rev <= accountRoutingRevision
  /\ operation.snap.rev <= accountRoutingRevision
  /\ operation.fn = "account" => /\ accountRevision <= operation.rev
                                 /\ operation.rev <= accountRoutingRevision

RevisionsInv == PendingInv /\ OrderInv /\ SentInv /\ KnownInv

\* A Worker that lives never goes back to an older account state.
RevisionsGrow ==
  \A e \in Epochs : procs[e].alive /\ procs'[e].alive => procs'[e].rev >= procs[e].rev

RevisionsStay == \A e \in Epochs : procs'[e].rev = procs[e].rev

LEMMA CarriesType ==
  ASSUME NEW m \in Request PROVE Carries(m) \in Nat
BY DEF Carries, Request, Snapshot

\* The queue of a Worker grows by one message.
LEMMA OrderAppend ==
  ASSUME NEW q \in Seq(Request), NEW m \in Request, NEW n \in Nat, NEW bound \in Nat,
         \A i \in DOMAIN q : q[i].type = "account-state" =>
           n < q[i].rev /\ \A j \in DOMAIN q : j < i => Carries(q[j]) < q[i].rev,
         m.type = "account-state" => n < m.rev /\ \A k \in Of(q) : Carries(k) < m.rev,
         NEW p, p = Append(q, m)
  PROVE  \A i \in DOMAIN p : p[i].type = "account-state" =>
           n < p[i].rev /\ \A j \in DOMAIN p : j < i => Carries(p[j]) < p[i].rev
<1>1. /\ DOMAIN p = 1..(Len(q) + 1) /\ DOMAIN q = 1..Len(q) /\ p[Len(q) + 1] = m
      /\ \A i \in 1..Len(q) : p[i] = q[i]
      /\ Len(q) \in Nat
  OBVIOUS
<1>2. SUFFICES ASSUME NEW i \in DOMAIN p, p[i].type = "account-state"
               PROVE  n < p[i].rev /\ \A j \in DOMAIN p : j < i => Carries(p[j]) < p[i].rev
  OBVIOUS
<1>3. CASE i \in 1..Len(q)
  BY <1>1, <1>2, <1>3
<1>4. CASE i = Len(q) + 1
  BY <1>1, <1>2, <1>4 DEF Of
<1> QED
  BY <1>1, <1>3, <1>4

LEMMA OrderTail ==
  ASSUME NEW q \in Seq(Request), q # <<>>, NEW n \in Nat, NEW v \in Nat,
         \A i \in DOMAIN q : q[i].type = "account-state" =>
           n < q[i].rev /\ \A j \in DOMAIN q : j < i => Carries(q[j]) < q[i].rev,
         v = n \/ v = Carries(Head(q)), NEW p, p = Tail(q)
  PROVE  \A i \in DOMAIN p : p[i].type = "account-state" =>
           v < p[i].rev /\ \A j \in DOMAIN p : j < i => Carries(p[j]) < p[i].rev
<1>1. /\ DOMAIN q = 1..Len(q) /\ Len(q) \in Nat /\ Len(q) > 0
      /\ DOMAIN p = 1..(Len(q) - 1) /\ \A i \in 1..(Len(q) - 1) : p[i] = q[i + 1]
      /\ Head(q) = q[1]
  OBVIOUS
<1>2. SUFFICES ASSUME NEW i \in DOMAIN p, p[i].type = "account-state"
               PROVE  v < p[i].rev /\ \A j \in DOMAIN p : j < i => Carries(p[j]) < p[i].rev
  OBVIOUS
<1>3. i + 1 \in DOMAIN q /\ 1 \in DOMAIN q /\ 1 < i + 1 /\ p[i] = q[i + 1]
  BY <1>1
<1>4. ASSUME NEW j \in DOMAIN p, j < i PROVE Carries(p[j]) < p[i].rev
  BY <1>2, <1>3, <1>1, <1>4
<1> QED
  BY <1>1, <1>2, <1>3, <1>4

------------------------

\* The step sends nothing; an update may begin to wait.
LEMMA QuietKeepsRevisions ==
  ASSUME TypeOK, TypeOK', RevisionsInv, RevisionsStay, UNCHANGED <<epoch, toWorker>>,
         accountRoutingRevision' >= accountRoutingRevision,
         \A r \in Pending' :
           \/ r \in Pending /\ (Confirms(r) => Confirms(r)')
           \/ r = accountRoutingRevision' /\ r > accountRoutingRevision /\ epoch \in Epochs,
         accountWaiting' # {} => Busy', KnownInv'
  PROVE  RevisionsInv' /\ RevisionsGrow
<1>1. \A e \in Epochs : procs[e].rev \in Nat /\ procs'[e].rev = procs[e].rev
  BY DEF TypeOK, WorkerTypeOK, WorkerState, RevisionsStay
<1>2. accountRoutingRevision \in Nat /\ accountRoutingRevision' \in Nat
      /\ Pending' \subseteq Nat
      /\ \A e \in Epochs : \A m \in Of(toWorker[e]) : Carries(m) \in Nat
  BY OfTypes, CarriesType DEF TypeOK, Pending
<1>3. OrderInv' /\ SentInv' /\ RevisionsGrow
  BY <1>1, <1>2 DEF RevisionsGrow, OrderInv, RevisionsInv, SentInv
<1>4. ASSUME NEW r \in Pending'
      PROVE  /\ r > 0 /\ r <= accountRoutingRevision' /\ epoch' \in Epochs
             /\ Confirms(r)' \/ High(r)'
  <2>1. epoch \in Epochs => (High(r)' <=> High(r))
    BY <1>1 DEF High, Worker
  <2>2. CASE r \in Pending /\ (Confirms(r) => Confirms(r)')
    BY <1>2, <1>4, <2>1, <2>2 DEF RevisionsInv, PendingInv
  <2>3. CASE r = accountRoutingRevision' /\ r > accountRoutingRevision /\ epoch \in Epochs
    BY <1>2, <2>1, <2>3, <1>1 DEF High, Worker, RevisionsInv, SentInv
  <2> QED
    BY <1>4, <2>2, <2>3
<1> QED
  BY <1>3, <1>4 DEF RevisionsInv, PendingInv

\* The step sends a message: an update that is the newest there is, or something that
\* leaves the updates that wait the newest, or will confirm them.
LEMMA SendKeepsRevisions ==
  ASSUME TypeOK, TypeOK', RevisionsInv, RevisionsStay, UNCHANGED epoch, epoch \in Epochs,
         accountRoutingRevision' >= accountRoutingRevision,
         NEW m \in Request, Send(m.type, m.id, m.snap, m.rev),
         m.type = "account-state" => High(m.rev), Carries(m) <= accountRoutingRevision',
         \A r \in Pending' :
           r \in Pending /\ (Confirms(r) => Confirms(r)') /\ (Carries(m) < r \/ Confirms(r)'),
         accountWaiting' # {} => Busy', KnownInv'
  PROVE  RevisionsInv' /\ RevisionsGrow
<1>1. CASE ~Worker.alive
  BY <1>1, QuietKeepsRevisions DEF Send
<1>2. CASE Worker.alive
  <2>1. toWorker \in [Epochs -> Seq(Request)]
        /\ m = [type |-> m.type, id |-> m.id, snap |-> m.snap, rev |-> m.rev]
    BY DEF TypeOK, WorkerTypeOK, Request
  <2>2. /\ toWorker'[epoch] = Append(toWorker[epoch], m)
        /\ \A e \in Epochs : e # epoch => toWorker'[e] = toWorker[e]
    BY <1>2, <2>1 DEF Send
  <2>3. \A e \in Epochs : procs[e].rev \in Nat /\ procs'[e].rev = procs[e].rev
    BY DEF TypeOK, WorkerTypeOK, WorkerState, RevisionsStay
  <2>4. accountRoutingRevision \in Nat /\ accountRoutingRevision' \in Nat
        /\ Pending' \subseteq Nat /\ m.rev \in Nat /\ Carries(m) \in Nat
        /\ \A e \in Epochs : \A k \in Of(toWorker[e]) : Carries(k) \in Nat
    BY OfTypes, CarriesType DEF TypeOK, Pending, Request
  <2>5. \A k \in Of(toWorker'[epoch]) : k \in Of(toWorker[epoch]) \/ k = m
    BY <2>1, <2>2, OfAppend
  <2>6. OrderInv'
    <3>1. ASSUME NEW e \in Epochs PROVE
            \A i \in DOMAIN toWorker'[e] : toWorker'[e][i].type = "account-state" =>
              /\ procs'[e].rev < toWorker'[e][i].rev
              /\ \A j \in DOMAIN toWorker'[e] :
                   j < i => Carries(toWorker'[e][j]) < toWorker'[e][i].rev
      <4>1. CASE e # epoch
        BY <2>2, <2>3, <4>1 DEF RevisionsInv, OrderInv
      <4>2. CASE e = epoch
        <5>1. m.type = "account-state" =>
                procs[e].rev < m.rev /\ \A k \in Of(toWorker[e]) : Carries(k) < m.rev
          BY <4>2 DEF High, Worker
        <5>2. toWorker[e] \in Seq(Request) /\ procs[e].rev \in Nat
              /\ procs'[e].rev = procs[e].rev /\ toWorker'[e] = Append(toWorker[e], m)
          BY <2>1, <2>2, <2>3, <4>2
        <5> QED
          BY <5>1, <5>2, OrderAppend DEF RevisionsInv, OrderInv
      <4> QED
        BY <4>1, <4>2
    <3> QED
      BY <3>1 DEF OrderInv
  <2>7. SentInv'
    <3>1. ASSUME NEW e \in Epochs PROVE
            /\ procs'[e].rev <= accountRoutingRevision'
            /\ \A k \in Of(toWorker'[e]) : Carries(k) <= accountRoutingRevision'
      <4>1. /\ procs[e].rev <= accountRoutingRevision
            /\ \A k \in Of(toWorker[e]) : Carries(k) <= accountRoutingRevision
        BY DEF RevisionsInv, SentInv
      <4>2. procs'[e].rev <= accountRoutingRevision'
        BY <2>3, <2>4, <4>1
      <4>3. ASSUME NEW k \in Of(toWorker[e]) PROVE Carries(k) <= accountRoutingRevision'
        BY <2>4, <4>1
      <4> QED
        BY <2>2, <2>5, <4>2, <4>3
    <3> QED
      BY <3>1 DEF SentInv
  <2>8. ASSUME NEW r \in Pending'
        PROVE  /\ r > 0 /\ r <= accountRoutingRevision' /\ epoch' \in Epochs
               /\ Confirms(r)' \/ High(r)'
    BY <2>4, <2>8, <2>3, <2>5 DEF RevisionsInv, PendingInv, High, Worker
  <2> QED
    BY <2>3, <2>6, <2>7, <2>8 DEF RevisionsInv, PendingInv, RevisionsGrow
<1> QED
  BY <1>1, <1>2

\* A new Worker has nothing yet: whatever waits is newer.
LEMMA ForkKeepsRevisions ==
  ASSUME TypeOK, TypeOK', OneWorkerInv, MessagesInv, SlotInv, RevisionsInv,
         child = 0 \/ childExited, NEW c, NEW snap, NEW recovers, Fork(c, snap, recovers),
         UNCHANGED <<toWorker, factVars, accountRoutingRevision>>, MessagesRead,
         snap.rev <= accountRoutingRevision, recovery'.snap.rev <= accountRoutingRevision
  PROVE  RevisionsInv' /\ RevisionsGrow
<1>1. toWorker[epoch'] = <<>> /\ epoch' \in Epochs /\ procs'[epoch'] = Forked
      /\ UNCHANGED <<accountWaiting, accountReady>>
  BY ForkKeepsSlot DEF Fork
<1>2. \A e \in Epochs : e # epoch' => procs'[e] = procs[e]
  BY DEF Fork, TypeOK, WorkerTypeOK
<1>3. Forked.rev = 0
  BY DEF Forked, NoWorker
<1>4. accountRoutingRevision \in Nat /\ Pending \subseteq Nat
  BY DEF TypeOK, Pending
<1>5. OrderInv'
  BY <1>1, <1>2 DEF OrderInv, RevisionsInv
<1>6. SentInv'
  BY <1>1, <1>2, <1>3, <1>4 DEF SentInv, RevisionsInv, Of
<1>7. ASSUME NEW r \in Pending'
       PROVE  r > 0 /\ r <= accountRoutingRevision' /\ epoch' \in Epochs /\ High(r)'
  BY <1>1, <1>3, <1>7 DEF High, Worker, Of, RevisionsInv, PendingInv, Pending
<1> QED
  BY <1>5, <1>6, <1>7, NoneAlive DEF RevisionsInv, PendingInv, RevisionsGrow, Busy, KnownInv,
     factVars, Fork, NoOperation

\* What a Worker has is as new as it was, or as the message it has just read.
LEMMA WorkerRevises ==
  ASSUME TypeOK, NEW e \in Epochs, WorkerStep(e)
  PROVE  /\ \A f \in Epochs : f # e => procs'[f] = procs[f] /\ toWorker'[f] = toWorker[f]
         /\ \/ ~procs'[e].alive /\ procs'[e].rev = 0 /\ toWorker'[e] = <<>>
            \/ procs'[e].rev = procs[e].rev /\ toWorker'[e] = toWorker[e]
            \/ /\ toWorker[e] # <<>> /\ toWorker'[e] = Tail(toWorker[e])
               /\ procs'[e].rev = procs[e].rev \/ procs'[e].rev = Carries(Head(toWorker[e]))
               /\ procs'[e].rev >= procs[e].rev
<1> DEFINE q == toWorker[e]
           w == procs[e]
<1>1. /\ procs \in [Epochs -> WorkerState] /\ w \in WorkerState /\ w.rev \in Nat
      /\ toWorker \in [Epochs -> Seq(Request)]
  BY DEF TypeOK, WorkerTypeOK, WorkerState
<1>2. ASSUME NEW type, Receive(e, type)
      PROVE  /\ \A f \in Epochs : f # e => toWorker'[f] = toWorker[f]
             /\ q # <<>> /\ toWorker'[e] = Tail(q) /\ Head(q).type = type /\ Head(q) \in Request
  BY <1>1, <1>2 DEF Receive
<1>3. ASSUME NEW id, FailWorker(e, id)
      PROVE  procs'[e].rev = w.rev /\ \A f \in Epochs : f # e => procs'[f] = procs[f]
  BY <1>1, <1>3 DEF FailWorker, WorkerState
<1>4. CASE StartWorker(e)
  BY <1>1, <1>4 DEF StartWorker, WorkerState
<1>5. CASE Configure(e)
  <2> DEFINE m == Head(q)
             r == IF m.snap.rev < w.rev THEN w.rev ELSE m.snap.rev
             v == [w EXCEPT !.phase = "running", !.listening = TRUE,
                            !.gen = m.snap.gen, !.cfg = m.snap.cfg, !.rev = r]
  <2>1. Receive(e, "configure") /\ procs' = [procs EXCEPT ![e] = v]
    BY <1>1, <1>5 DEF Configure
  <2>2. q # <<>> /\ toWorker'[e] = Tail(q) /\ m.type = "configure" /\ m \in Request
    BY <1>2, <2>1
  <2>3. r >= w.rev /\ (r = w.rev \/ r = m.snap.rev)
    BY <1>1, <2>2 DEF Request, Snapshot
  <2> HIDE DEF r
  <2>4. v.rev = r
    BY <1>1 DEF WorkerState
  <2> HIDE DEF v
  <2> QED
    BY <1>2, <2>1, <2>2, <2>3, <2>4, <1>1 DEF Carries
<1>6. CASE ConfigureFails(e) \/ ApplyAccountStateFails(e)
  <2>1. PICK type, id : Receive(e, type) /\ FailWorker(e, id)
    BY <1>6 DEF ConfigureFails, ApplyAccountStateFails
  <2> QED
    BY <1>1, <1>2, <1>3, <2>1
<1>7. CASE ApplyAccountState(e)
  <2> DEFINE m == Head(q)
  <2>1. /\ Receive(e, "account-state") /\ procs' = [procs EXCEPT ![e].rev = m.rev]
        /\ m.rev > w.rev
    BY <1>7 DEF ApplyAccountState, MayApplyAccountState
  <2>2. q # <<>> /\ toWorker'[e] = Tail(q) /\ m.type = "account-state" /\ m \in Request
        /\ \A f \in Epochs : f # e => toWorker'[f] = toWorker[f]
    BY <1>2, <2>1
  <2>3. m.rev \in Nat
    BY <2>2 DEF Request
  <2> QED
    BY <1>1, <2>1, <2>2, <2>3 DEF Carries, WorkerState
<1>8. CASE BeginDrain(e)
  <2> DEFINE p == IF w.drains = {} /\ w.phase # "drained" THEN "draining" ELSE w.phase
             d == w.drains \union {Head(q).id}
  <2>1. Receive(e, "drain")
        /\ procs' = [procs EXCEPT ![e] = [w EXCEPT !.phase = p, !.listening = FALSE, !.drains = d]]
    BY <1>1, <1>8 DEF BeginDrain
  <2> HIDE DEF p, d
  <2> QED
    BY <1>1, <1>2, <2>1 DEF WorkerState
<1>9. CASE Drained(e)
  <2>1. PICK id \in w.drains :
          procs' = [procs EXCEPT ![e].phase = "drained", ![e].drains = @ \ {id}]
    BY <1>9 DEF Drained
  <2> DEFINE d == w.drains \ {id}
  <2> HIDE DEF d
  <2> QED
    BY <1>9, <1>1, <2>1 DEF Drained, WorkerState
<1>10. CASE Shutdown(e)
  BY <1>1, <1>2, <1>10 DEF WorkerState, Shutdown
<1>11. CASE UncaughtException(e)
  BY <1>3, <1>11 DEF UncaughtException
<1>12. CASE Dies(e)
  BY <1>1, <1>12 DEF Dies, NoWorker
<1> QED
  BY <1>4, <1>5, <1>6, <1>7, <1>8, <1>9, <1>10, <1>11, <1>12
     DEF WorkerStep, FinishProcess, Signalled, Crash

LEMMA ProcessKeepsRevisions ==
  ASSUME TypeOK, TypeOK', RevisionsInv, NEW e \in Epochs, WorkerStep(e), UNCHANGED managerVars
  PROVE  RevisionsInv' /\ RevisionsGrow
<1>1. UNCHANGED <<epoch, factVars, operation, recovery, accountWaiting, accountReady,
                  accountRoutingRevision>>
  BY DEF managerVars, lifeVars, callerVars
<1>2. \A f \in Epochs : f # e => procs'[f] = procs[f] /\ toWorker'[f] = toWorker[f]
  BY WorkerRevises
<1>3. /\ toWorker[e] \in Seq(Request) /\ procs[e].rev \in Nat /\ procs'[e].rev \in Nat
      /\ accountRoutingRevision \in Nat /\ Pending \subseteq Nat
      /\ \A m \in Of(toWorker[e]) : Carries(m) \in Nat
  BY OfTypes, CarriesType DEF TypeOK, WorkerTypeOK, WorkerState, Pending
<1> DEFINE Newer == /\ procs'[e].alive => procs'[e].rev >= procs[e].rev
                    /\ \A m \in Of(toWorker'[e]) : m \in Of(toWorker[e])
                    /\ \A r \in Nat : procs[e].rev < r /\ (\A m \in Of(toWorker[e]) : Carries(m) < r)
                                        => procs'[e].rev < r
                    /\ procs'[e].rev <= accountRoutingRevision
                    /\ \A i \in DOMAIN toWorker'[e] : toWorker'[e][i].type = "account-state" =>
                         /\ procs'[e].rev < toWorker'[e][i].rev
                         /\ \A j \in DOMAIN toWorker'[e] :
                              j < i => Carries(toWorker'[e][j]) < toWorker'[e][i].rev
<1>4. /\ procs[e].rev <= accountRoutingRevision
      /\ \A m \in Of(toWorker[e]) : Carries(m) <= accountRoutingRevision
      /\ \A i \in DOMAIN toWorker[e] : toWorker[e][i].type = "account-state" =>
           /\ procs[e].rev < toWorker[e][i].rev
           /\ \A j \in DOMAIN toWorker[e] :
                j < i => Carries(toWorker[e][j]) < toWorker[e][i].rev
  BY DEF RevisionsInv, SentInv, OrderInv
<1>5. Newer
  <2>1. CASE ~procs'[e].alive /\ procs'[e].rev = 0 /\ toWorker'[e] = <<>>
    BY <1>3, <2>1 DEF Of
  <2>2. CASE procs'[e].rev = procs[e].rev /\ toWorker'[e] = toWorker[e]
    BY <1>3, <1>4, <2>2
  <2>3. CASE /\ toWorker[e] # <<>> /\ toWorker'[e] = Tail(toWorker[e])
             /\ procs'[e].rev = procs[e].rev \/ procs'[e].rev = Carries(Head(toWorker[e]))
             /\ procs'[e].rev >= procs[e].rev
    BY <2>3, <1>3, <1>4, OfTail, OrderTail
  <2> QED
    BY <2>1, <2>2, <2>3, WorkerRevises
<1> HIDE DEF Newer
<1>6. OrderInv'
  BY <1>2, <1>5 DEF Newer, OrderInv, RevisionsInv
<1>7. SentInv'
  BY <1>1, <1>2, <1>5 DEF Newer, SentInv, RevisionsInv
<1>8. \A r \in Pending : High(r) => High(r)'
  <2> SUFFICES ASSUME NEW r \in Pending, High(r) PROVE High(r)'
    OBVIOUS
  <2>1. epoch \in Epochs /\ epoch' = epoch
    BY <1>1 DEF RevisionsInv, PendingInv
  <2>2. CASE e = epoch
    BY <1>3, <1>5, <2>1, <2>2 DEF Newer, High, Worker
  <2>3. CASE e # epoch
    BY <1>2, <2>1, <2>3 DEF High, Worker
  <2> QED
    BY <2>2, <2>3
<1>9. RevisionsGrow
  <2>1. ASSUME NEW f \in Epochs, procs[f].alive, procs'[f].alive
        PROVE  procs'[f].rev >= procs[f].rev
    <3>1. CASE f = e
      BY <1>5, <2>1, <3>1 DEF Newer
    <3>2. CASE f # e
      <4>1. procs'[f] = procs[f] /\ procs[f].rev \in Nat
        BY <1>2, <3>2 DEF TypeOK, WorkerTypeOK, WorkerState
      <4> QED
        BY <4>1
    <3> QED
      BY <3>1, <3>2
  <2> QED
    BY <2>1 DEF RevisionsGrow
<1> QED
  BY <1>6, <1>7, <1>1, <1>8, <1>9 DEF RevisionsInv, PendingInv, KnownInv, Pending, Confirms,
     factVars, Busy

------------------------
(* What the steps of the manager have in common *)

\* The operation in flight goes on, or one that carries no account state begins.
GoesOn ==
  \/ operation'.fn = operation.fn /\ operation'.snap = operation.snap
     /\ operation'.rev = operation.rev
  \/ /\ operation.fn = "none" /\ operation'.fn \in {"none", "stop", "close"}
     /\ operation'.snap.rev <= accountRoutingRevision

LEMMA SignalRevisionsStay ==
  ASSUME TypeOK, procs' = procs \/ procs' = [procs EXCEPT ![epoch].signalled = TRUE]
  PROVE  RevisionsStay
<1> SUFFICES ASSUME NEW e \in Epochs PROVE procs'[e].rev = procs[e].rev
  BY DEF RevisionsStay
<1>1. procs \in [Epochs -> WorkerState]
  BY DEF TypeOK, WorkerTypeOK
<1> QED
  BY <1>1 DEF WorkerState

LEMMA TerminateRevisionsStay ==
  ASSUME TypeOK, NEW o, NEW isExited, Terminate(o, isExited)
  PROVE  RevisionsStay
BY SignalRevisionsStay DEF Terminate

LEMMA NoRevision == NoOperation.fn = "none" /\ NoOperation.snap.rev = 0 /\ NoRecovery.snap.rev = 0
BY DEF NoOperation, NoRecovery, NoSnapshot

LEMMA SettleRecovery ==
  ASSUME TypeOK, KnownInv, NEW ok, Settle(ok)
  PROVE  recovery'.snap.rev <= accountRoutingRevision
<1> QED
  BY NoRevision DEF KnownInv, Settle, Recovery, TypeOK

LEMMA OnKeepsRevisions ==
  ASSUME TypeOK, TypeOK', RevisionsInv, RevisionsStay, GoesOn,
         UNCHANGED <<epoch, toWorker, factVars, accountRoutingRevision, accountWaiting,
                     accountReady>>,
         recovery'.snap.rev <= accountRoutingRevision
  PROVE  RevisionsInv' /\ RevisionsGrow
<1> QED
  BY QuietKeepsRevisions DEF Pending, Confirms, GoesOn, factVars, RevisionsInv, PendingInv,
     Busy, KnownInv, TypeOK

\* The operation ends without an outcome, and drops whatever waits for it.
LEMMA EndKeepsRevisions ==
  ASSUME TypeOK, TypeOK', RevisionsInv, RevisionsStay, operation' = NoOperation,
         UNCHANGED <<epoch, toWorker, factVars, accountRoutingRevision>>,
         accountReady' = {}, accountWaiting' = {},
         recovery'.snap.rev <= accountRoutingRevision
  PROVE  RevisionsInv' /\ RevisionsGrow
<1> QED
  BY NoRevision, QuietKeepsRevisions DEF RevisionsInv, KnownInv, factVars, TypeOK, Pending

LEMMA ThrownKeepsRevisions ==
  ASSUME TypeOK, TypeOK', RevisionsInv, accountReady = {}, NEW isExited, Thrown(isExited),
         UNCHANGED <<epoch, toWorker, factVars, accountRoutingRevision>>
  PROVE  RevisionsInv' /\ RevisionsGrow
<1>1. CASE operation.fn \in {"start", "stop"}
  BY <1>1, TerminateRevisionsStay, OnKeepsRevisions DEF RevisionsInv, KnownInv, callerVars,
     Terminate, GoesOn, TypeOK, Operation, Thrown
<1>2. CASE operation.fn \notin {"start", "stop"}
  BY <1>2, SettleRecovery, EndKeepsRevisions DEF Settle, RevisionsStay, RevisionsInv, Thrown
<1> QED
  BY <1>1, <1>2

\* The operation has confirmed what it was about: the updates that waited call again.
LEMMA SettleKeepsRevisions ==
  ASSUME TypeOK, TypeOK', RevisionsInv, Settle(TRUE),
         UNCHANGED <<epoch, toWorker, procs, accountRoutingRevision>>,
         \A r \in Pending : Confirms(r) => r <= accountRevision',
         lastSnapshot'.rev <= accountRoutingRevision, accountRevision' <= accountRoutingRevision
  PROVE  RevisionsInv' /\ RevisionsGrow
<1>1. recovery'.snap.rev <= accountRoutingRevision
  BY SettleRecovery DEF RevisionsInv
<1> QED
  BY <1>1, NoRevision, QuietKeepsRevisions DEF Confirms, KnownInv, Settle, Pending, TypeOK,
     RevisionsStay

\* The operation asks the Worker for something that is not about the account.
LEMMA AskKeepsRevisions ==
  ASSUME TypeOK, TypeOK', RevisionsInv, RevisionsStay, GoesOn, epoch \in Epochs,
         NEW type \in {"drain", "shutdown"}, NEW id \in Nat, Send(type, id, NoSnapshot, 0),
         UNCHANGED <<epoch, factVars, accountRoutingRevision, accountWaiting, accountReady>>,
         recovery'.snap.rev <= accountRoutingRevision
  PROVE  RevisionsInv' /\ RevisionsGrow
<1> DEFINE m == [type |-> type, id |-> id, snap |-> NoSnapshot, rev |-> 0]
<1>1. m \in Request /\ m.type = type /\ m.id = id /\ m.snap = NoSnapshot /\ m.rev = 0
  BY ConstantTypes DEF Request
<1>2. Carries(m) = 0
  BY <1>1 DEF Carries
<1> HIDE DEF m
<1>3. \A r \in Pending' : r \in Pending /\ (Confirms(r) => Confirms(r)') /\ Carries(m) < r
  BY <1>2 DEF Pending, Confirms, GoesOn, factVars, TypeOK, RevisionsInv, PendingInv
<1> QED
  BY <1>1, <1>2, <1>3, SendKeepsRevisions DEF TypeOK, RevisionsInv, PendingInv, Busy, GoesOn,
     KnownInv, factVars

\* The operation asks the Worker to take a snapshot: it will confirm what it carries.
LEMMA ConfigureKeepsRevisions ==
  ASSUME TypeOK, TypeOK', RevisionsInv, epoch \in Epochs,
         operation'.fn \in {"start", "apply"},
         operation.fn = "none" \/ (operation.fn = operation'.fn /\ operation.snap = operation'.snap),
         NEW snap, snap = operation'.snap, NEW id \in Nat, Send("configure", id, snap, 0),
         UNCHANGED <<epoch, procs, factVars, recovery, accountRoutingRevision, accountWaiting,
                     accountReady>>,
         operation'.fn = "start" => operation.fn = "start",
         operation'.snap.rev <= accountRoutingRevision
  PROVE  RevisionsInv' /\ RevisionsGrow
<1> DEFINE m == [type |-> "configure", id |-> id, snap |-> snap, rev |-> 0]
<1>1. m \in Request /\ m.type = "configure" /\ m.id = id /\ m.snap = snap /\ m.rev = 0
  BY DEF Request, TypeOK, Operation
<1>2. Carries(m) = operation'.snap.rev
  BY <1>1 DEF Carries
<1> HIDE DEF m
<1>3. accountRoutingRevision \in Nat /\ Pending' \subseteq Nat /\ operation'.snap.rev \in Nat
      /\ RevisionsStay
  BY DEF TypeOK, Pending, RevisionsStay, Operation, Snapshot
<1>4. \A r \in Pending' :
        r \in Pending /\ (Confirms(r) => Confirms(r)') /\ (Carries(m) < r \/ Confirms(r)')
  <2>1. \A r \in Pending' : Carries(m) < r \/ Confirms(r)'
    <3> SUFFICES ASSUME NEW r \in Pending' PROVE Carries(m) < r \/ Confirms(r)'
      OBVIOUS
    <3> QED
      BY <1>2, <1>3 DEF Confirms
  <2> QED
    BY <2>1 DEF Pending, Confirms, factVars
<1> QED
  BY <1>1, <1>2, <1>3, <1>4, SendKeepsRevisions DEF RevisionsInv, KnownInv, factVars, Busy

------------------------
(* The steps of the manager, one by one *)

LEMMA NothingWaits ==
  ASSUME RevisionsInv, BooksInv, ~Busy
  PROVE  accountWaiting = {} /\ operation = NoOperation /\ operation.fn = "none"
BY DEF RevisionsInv, PendingInv, Busy, BooksInv, OperationInv

LEMMA BusyChild ==
  ASSUME TypeOK, OneWorkerInv, child # 0
  PROVE  epoch \in Epochs /\ child = epoch
BY DEF TypeOK, OneWorkerInv, Epochs

LEMMA SnapshotRevision ==
  ASSUME NEW snap \in Snapshots
  PROVE  snap \in Snapshot /\ snap.rev <= accountRoutingRevision
BY DEF Snapshots, Snapshot

LEMMA BeginStartRevises ==
  ASSUME TypeOK, TypeOK', OneWorkerInv, BooksInv, MessagesInv, SlotInv, RevisionsInv,
         ~Busy, child = 0, NEW kind, NEW snap, BeginStart(kind, snap),
         snap.rev <= accountRoutingRevision, recovery'.snap.rev <= accountRoutingRevision
  PROVE  RevisionsInv' /\ RevisionsGrow
<1>1. UNCHANGED <<toWorker, factVars, accountRoutingRevision>> /\ MessagesRead
  BY DEF BeginStart, callFrame, MessagesRead
<1>2. ASSUME NEW c, Fork(c, snap, FALSE) PROVE RevisionsInv' /\ RevisionsGrow
  BY <1>1, <1>2, ForkKeepsRevisions
<1>3. ASSUME NEW c, ForkFails(c) PROVE RevisionsInv' /\ RevisionsGrow
  BY <1>1, <1>3, NothingWaits, OnKeepsRevisions DEF RevisionsStay, GoesOn, ForkFails
<1> QED
  BY <1>2, <1>3 DEF BeginStart

LEMMA BeginApplyRevises ==
  ASSUME TypeOK, TypeOK', OneWorkerInv, BooksInv, RevisionsInv, ~Busy, child # 0,
         NEW snap \in Snapshot, BeginApply(snap), snap.rev <= accountRoutingRevision
  PROVE  RevisionsInv' /\ RevisionsGrow
<1>1. UNCHANGED <<epoch, procs, factVars, recovery, accountRoutingRevision, accountWaiting,
                  accountReady>>
      /\ requestSequence + 1 \in Nat /\ RevisionsStay
  BY DEF BeginApply, lifeVars, callFrame, TypeOK, RevisionsStay
<1>2. CASE /\ Send("configure", requestSequence + 1, snap, 0)
           /\ operation' = [NoOperation EXCEPT !.fn = "apply", !.step = "configured",
                                               !.snap = snap, !.id = requestSequence + 1]
  BY <1>1, <1>2, NothingWaits, BusyChild, ConfigureKeepsRevisions DEF NoOperation
<1>3. CASE SendFails /\ UNCHANGED operation
  BY <1>1, <1>3, OnKeepsRevisions DEF SendFails, GoesOn, RevisionsInv, KnownInv
<1> QED
  BY <1>2, <1>3 DEF BeginApply

LEMMA BeginStopRevises ==
  ASSUME TypeOK, TypeOK', OneWorkerInv, BooksInv, RevisionsInv, ~Busy, child # 0,
         NEW kind, NEW snap \in Snapshot, BeginStop(kind, snap),
         snap.rev <= accountRoutingRevision, recovery'.snap.rev <= accountRoutingRevision
  PROVE  RevisionsInv' /\ RevisionsGrow
<1>1. UNCHANGED <<epoch, factVars, accountRoutingRevision, accountWaiting, accountReady>>
      /\ requestSequence + 1 \in Nat
  BY DEF BeginStop, callFrame, TypeOK
<1>2. GoesOn
  BY NothingWaits DEF GoesOn, BeginStop, Terminate, NoOperation
<1>3. CASE Send("drain", requestSequence + 1, NoSnapshot, 0) /\ UNCHANGED procs
  BY <1>1, <1>2, <1>3, BusyChild, AskKeepsRevisions DEF RevisionsStay
<1>4. ASSUME NEW o, SendFails, Terminate(o, childExited) PROVE RevisionsInv' /\ RevisionsGrow
  BY <1>1, <1>2, <1>4, TerminateRevisionsStay, OnKeepsRevisions DEF SendFails
<1> QED
  BY <1>3, <1>4 DEF BeginStop

\* An update is sent when it is newer than what is confirmed, and then it is newer than
\* whatever the Worker has or was sent.
LEMMA SubmitRevises ==
  ASSUME TypeOK, TypeOK', OneWorkerInv, BooksInv, RevisionsInv, NEW rev \in Nat,
         SubmitAccountState(rev), UNCHANGED accountFrame,
         accountRoutingRevision' >= accountRoutingRevision, rev <= accountRoutingRevision',
         accountReady' \subseteq accountReady,
         \/ rev = accountRoutingRevision' /\ rev > accountRoutingRevision
         \/ rev \in accountReady /\ \A r \in accountReady' : rev < r
  PROVE  RevisionsInv' /\ RevisionsGrow
<1>1. UNCHANGED <<lifeVars, factVars, recovery, procs>> /\ RevisionsStay
  BY DEF accountFrame, RevisionsStay
<1>2. /\ accountRoutingRevision \in Nat /\ accountRoutingRevision' \in Nat
      /\ accountReady \subseteq Nat /\ accountWaiting \subseteq Nat
      /\ accountRevision \in Nat /\ operation.rev \in Nat
      /\ lastSnapshot.rev \in Nat /\ recovery.snap.rev \in Nat /\ operation.snap.rev \in Nat
  BY DEF TypeOK, Operation, Recovery, Snapshot
<1>3. ASSUME UNCHANGED operation PROVE KnownInv' /\ \A r : Confirms(r) => Confirms(r)'
  BY <1>1, <1>2, <1>3 DEF RevisionsInv, KnownInv, Confirms, factVars
<1>4. CASE UNCHANGED <<operation, accountWaiting, toWorker>>
  BY <1>1, <1>3, <1>4, QuietKeepsRevisions DEF lifeVars, Pending, RevisionsInv, PendingInv, Busy
<1>5. CASE /\ ~Closed /\ Busy /\ accountWaiting' = accountWaiting \union {rev}
           /\ UNCHANGED <<operation, requestSequence, toWorker>>
  BY <1>1, <1>3, <1>5, BusyChild, QuietKeepsRevisions DEF lifeVars, Pending, Busy, BooksInv,
     OperationInv
<1>6. CASE /\ ~Busy /\ ~DropsAccountState(rev) /\ accountWaiting' = accountWaiting
           /\ Send("account-state", requestSequence + 1, NoSnapshot, rev)
           /\ operation' = [NoOperation EXCEPT !.fn = "account", !.rev = rev,
                              !.step = "account-state-applied", !.id = requestSequence + 1]
  <2>1. /\ rev > accountRevision /\ epoch \in Epochs /\ epoch' = epoch /\ accountWaiting' = {}
        /\ operation.fn = "none"
    BY <1>1, <1>2, <1>6, BusyChild, NothingWaits DEF DropsAccountState, lifeVars
  <2>2. /\ operation'.fn = "account" /\ operation'.rev = rev /\ operation'.snap.rev = 0
    BY <1>6, NoRevision DEF NoOperation
  <2>3. High(rev)
    <3>1. CASE rev = accountRoutingRevision' /\ rev > accountRoutingRevision
      <4>1. /\ procs[epoch].rev \in Nat
            /\ \A k \in Of(toWorker[epoch]) : Carries(k) \in Nat
        BY <2>1, OfTypes, CarriesType DEF TypeOK, WorkerTypeOK, WorkerState
      <4> QED
        BY <1>2, <3>1, <4>1, <2>1 DEF High, Worker, RevisionsInv, SentInv
    <3>2. CASE rev \in accountReady
      BY <3>2, <1>2, <2>1 DEF RevisionsInv, PendingInv, Pending, Confirms
    <3> QED
      BY <3>1, <3>2
  <2> DEFINE m == [type |-> "account-state", id |-> requestSequence + 1,
                   snap |-> NoSnapshot, rev |-> rev]
  <2>4. m \in Request /\ m.type = "account-state" /\ m.id = requestSequence + 1
        /\ m.snap = NoSnapshot /\ m.rev = rev
    BY ConstantTypes DEF Request, TypeOK
  <2>5. Carries(m) = rev
    BY <2>4 DEF Carries
  <2> HIDE DEF m
  <2>6. \A r \in Pending' :
          r \in Pending /\ (Confirms(r) => Confirms(r)') /\ (Carries(m) < r \/ Confirms(r)')
    <3> SUFFICES ASSUME NEW r \in accountReady'
                 PROVE  /\ r \in Pending /\ (Confirms(r) => Confirms(r)')
                        /\ rev < r \/ Confirms(r)'
      BY <2>1, <2>5 DEF Pending
    <3>1. r \in accountReady /\ r \in Nat
      BY <1>2
    <3>2. accountRevision' = accountRevision
      BY <1>1 DEF factVars
    <3>3. Confirms(r)' <=> r <= rev \/ r <= accountRevision
      BY <1>2, <2>2, <3>1, <3>2 DEF Confirms
    <3>4. Confirms(r) => r <= accountRevision
      BY <1>2, <2>1, <3>1 DEF Confirms
    <3> QED BY <1>2, <3>1, <3>3, <3>4 DEF Pending
  <2>7. KnownInv'
    BY <1>1, <1>2, <2>1, <2>2 DEF RevisionsInv, KnownInv, factVars
  <2> QED
    BY <1>1, <1>6, <2>1, <2>3, <2>4, <2>5, <2>6, <2>7, SendKeepsRevisions DEF Busy
<1> QED
  BY <1>4, <1>5, <1>6 DEF SubmitAccountState, SendFails

LEMMA RecoveryRevision ==
  ASSUME TypeOK, RevisionsInv
  PROVE  /\ recovery.snap.rev <= accountRoutingRevision
         /\ NoRecovery.snap.rev <= accountRoutingRevision
         /\ \A stage : [recovery EXCEPT !.stage = stage].snap = recovery.snap
         /\ lastSnapshot.rev <= accountRoutingRevision
         /\ NoSnapshot.rev <= accountRoutingRevision
         /\ operation.snap.rev <= accountRoutingRevision
<1> QED
  BY DEF NoRecovery, NoSnapshot, RevisionsInv, KnownInv, Recovery, TypeOK

\* Nothing moves but the recovery, or what a caller was answered.
LEMMA IdleRevises ==
  ASSUME TypeOK, TypeOK', RevisionsInv,
         UNCHANGED <<epoch, operation, factVars, accountRoutingRevision, accountWaiting,
                     accountReady, procs, toWorker>>,
         recovery'.snap.rev <= accountRoutingRevision
  PROVE  RevisionsInv' /\ RevisionsGrow
BY OnKeepsRevisions DEF GoesOn, RevisionsStay

LEMMA CallerStepRevises ==
  ASSUME TypeOK, TypeOK', OneWorkerInv, BooksInv, MessagesInv, SlotInv, RevisionsInv, CallerStep
  PROVE  RevisionsInv' /\ RevisionsGrow
<1>1. /\ recovery' = recovery \/ recovery' = NoRecovery =>
           recovery'.snap.rev <= accountRoutingRevision
      /\ NoSnapshot \in Snapshot /\ NoSnapshot.rev <= accountRoutingRevision
  BY RecoveryRevision, ConstantTypes
<1>2. ASSUME NEW kind, NEW want, Join(kind, want) PROVE RevisionsInv' /\ RevisionsGrow
  BY <1>1, <1>2, IdleRevises DEF Join, lifeVars, callFrame, workerVars
<1>3. ASSUME NEW kind, NEW want, NEW ok, AnswerNow(kind, want, ok),
             recovery' = recovery \/ recovery' = NoRecovery
      PROVE  RevisionsInv' /\ RevisionsGrow
  BY <1>1, <1>3, IdleRevises DEF AnswerNow, callFrame, workerVars
<1>4. ASSUME NEW snap \in Snapshots, Start(snap) PROVE RevisionsInv' /\ RevisionsGrow
  <2>1. CASE ~Busy /\ child = 0 /\ BeginStart("start", snap) /\ UNCHANGED recovery
    BY <1>1, <2>1, SnapshotRevision, BeginStartRevises
  <2> QED
    BY <1>2, <1>3, <1>4, <2>1 DEF Start
<1>5. ASSUME NEW snap \in Snapshots, ApplySnapshot(snap) PROVE RevisionsInv' /\ RevisionsGrow
  <2>1. CASE ~Busy /\ child # 0 /\ BeginApply(snap)
    BY <2>1, SnapshotRevision, BeginApplyRevises
  <2> QED
    BY <1>2, <1>3, <1>5, <2>1 DEF ApplySnapshot
<1>6. ASSUME NEW snap \in Snapshots, Restart(snap) PROVE RevisionsInv' /\ RevisionsGrow
  <2>1. CASE /\ ~Busy /\ recovery' = NoRecovery
             /\ IF child # 0 /\ phase # "stopped" THEN BeginStop("restart", snap)
                ELSE BeginStart("restart", snap)
    <3>1. CASE child # 0 /\ phase # "stopped"
      BY <1>1, <2>1, <3>1, SnapshotRevision, BeginStopRevises
    <3>2. CASE ~(child # 0 /\ phase # "stopped")
      BY <1>1, <2>1, <3>2, SnapshotRevision, BeginStartRevises DEF OneWorkerInv
    <3> QED
      BY <3>1, <3>2
  <2> QED
    BY <1>2, <1>6, <2>1 DEF Restart
<1>7. CASE Stop
  <2>1. CASE ~Busy /\ child # 0 /\ BeginStop("stop", NoSnapshot) /\ UNCHANGED recovery
    BY <1>1, <2>1, BeginStopRevises
  <2> QED
    BY <1>2, <1>3, <1>7, <2>1 DEF Stop
<1>8. CASE AccountStateChanges
  <2> DEFINE rev == accountRoutingRevision + 1
  <2> HIDE DEF rev
  <2> QED
    BY <1>8, SubmitRevises DEF AccountStateChanges, TypeOK
<1>9. CASE Close
  BY <1>1, <1>9, IdleRevises DEF Close, lifeVars, callerVars, workerVars
<1> QED
  BY <1>4, <1>5, <1>6, <1>7, <1>8, <1>9 DEF CallerStep

LEMMA CaughtRevision ==
  ASSUME TypeOK, RevisionsInv, NEW attempted, RecoveryCaught(attempted) \/ ScheduleRecovery
  PROVE  recovery'.snap.rev <= accountRoutingRevision
<1> QED
  BY RecoveryRevision DEF RecoveryCaught, ScheduleRecovery

LEMMA MicrotaskRevises ==
  ASSUME TypeOK, TypeOK', OneWorkerInv, BooksInv, RevisionsInv, Microtask
  PROVE  RevisionsInv' /\ RevisionsGrow
<1>1. CASE ResubmitAccountState
  <2>1. PICK rev \in accountReady : /\ \A other \in accountReady : rev <= other
                                    /\ accountReady' = accountReady \ {rev}
                                    /\ SubmitAccountState(rev)
    BY <1>1 DEF ResubmitAccountState
  <2> QED
    BY <2>1, <1>1, SubmitRevises DEF TypeOK, ResubmitAccountState, RevisionsInv, PendingInv,
       Pending
<1>2. CASE RecoveryRejected
  BY <1>2, CaughtRevision, IdleRevises DEF RecoveryRejected, recoveryFrame, callerVars, workerVars
<1>3. CASE PerformClose
  <2>1. /\ UNCHANGED <<epoch, factVars, recovery, callerVars, accountRoutingRevision, toWorker>>
        /\ \/ Terminate([NoOperation EXCEPT !.fn = "close"], childExited)
           \/ UNCHANGED <<operation, procs>>
    BY <1>3 DEF PerformClose
  <2>2. CASE Terminate([NoOperation EXCEPT !.fn = "close"], childExited)
    BY <2>1, <2>2, <1>3, RecoveryRevision, TerminateRevisionsStay, OnKeepsRevisions DEF
       callerVars, GoesOn, Terminate, NoOperation, PerformClose, Busy
  <2>3. CASE UNCHANGED <<operation, procs>>
    BY <2>1, <2>3, RecoveryRevision, IdleRevises DEF callerVars
  <2> QED
    BY <2>1, <2>2, <2>3
<1> QED
  BY <1>1, <1>2, <1>3 DEF Microtask

LEMMA ForkFailsRevises ==
  ASSUME TypeOK, TypeOK', RevisionsInv, accountReady = {}, NEW c, ForkFails(c),
         UNCHANGED <<toWorker, factVars, accountRoutingRevision>>,
         recovery'.snap.rev <= accountRoutingRevision
  PROVE  RevisionsInv' /\ RevisionsGrow
BY EndKeepsRevisions DEF ForkFails, RevisionsStay

LEMMA RecoveryEventRevises ==
  ASSUME TypeOK, TypeOK', OneWorkerInv, BooksInv, MessagesInv, SlotInv, RevisionsInv,
         accountReady = {}, RecoveryEvent
  PROVE  RevisionsInv' /\ RevisionsGrow
<1>1. ASSUME UNCHANGED recoveryFrame,
             \/ recovery' = NoRecovery \/ recovery'.snap = recovery.snap
             \/ RecoveryCaught(FALSE)
      PROVE  RevisionsInv' /\ RevisionsGrow
  BY <1>1, RecoveryRevision, CaughtRevision, IdleRevises
     DEF recoveryFrame, callerVars, workerVars
<1>2. CASE RecoveryStarts
  <2>1. UNCHANGED <<factVars, accountRoutingRevision, toWorker, toManager>> /\ MessagesRead
        /\ child = 0
    BY <1>2 DEF RecoveryStarts, MessagesRead, CanRecover
  <2>2. recovery'.snap.rev <= accountRoutingRevision
    BY <1>2, RecoveryRevision DEF RecoveryStarts
  <2>3. CASE Fork(NoCall, recovery.snap, TRUE)
    BY <2>1, <2>2, <2>3, RecoveryRevision, ForkKeepsRevisions
  <2>4. CASE ForkFails(NoCall)
    BY <2>1, <2>2, <2>4, ForkFailsRevises
  <2> QED
    BY <1>2, <2>3, <2>4 DEF RecoveryStarts
<1>3. CASE RecoveryTimer
  BY <1>1, <1>3, RecoveryRevision DEF RecoveryTimer
<1>4. CASE RecoveryNotReady
  BY <1>1, <1>4 DEF RecoveryNotReady
<1>5. CASE RecoveryObsolete
  BY <1>1, <1>5 DEF RecoveryObsolete
<1>6. ASSUME NEW free \in BOOLEAN, RecoveryPort(free) PROVE RevisionsInv' /\ RevisionsGrow
  BY <1>1, <1>6, RecoveryRevision DEF RecoveryPort
<1> QED
  BY <1>2, <1>3, <1>4, <1>5, <1>6 DEF RecoveryEvent

LEMMA OperationEventRevises ==
  ASSUME TypeOK, TypeOK', OneWorkerInv, BooksInv, MessagesInv, SlotInv, RevisionsInv,
         accountReady = {}, OperationEvent
  PROVE  RevisionsInv' /\ RevisionsGrow
<1>1. CASE MessageTimeout \/ HealthFails
  BY <1>1, ThrownKeepsRevisions DEF MessageTimeout, HealthFails, messageFrame
<1>2. CASE Started
  BY <1>2, RecoveryRevision, SettleKeepsRevisions DEF Confirms, Started, workerVars, BooksInv,
     OperationInv
<1>3. CASE ExitTimeout
  BY <1>3, SignalRevisionsStay, RecoveryRevision, OnKeepsRevisions DEF callerVars, ExitTimeout,
     lifeVars, GoesOn, TypeOK, Operation
<1>4. CASE KillTimeout
  BY <1>4, SettleRecovery, EndKeepsRevisions DEF Settle, RevisionsInv, KillTimeout, workerVars,
     RevisionsStay
<1>5. ASSUME NEW free \in BOOLEAN, PortChecked(free) PROVE RevisionsInv' /\ RevisionsGrow
  <2> DEFINE ok == free /\ operation.fn # "start" /\ ~operation.drainFailed
  <2>1. UNCHANGED <<epoch, factVars, procs, toWorker, accountRoutingRevision>> /\ Settle(ok)
        /\ operation.fn \in {"start", "stop", "close"} /\ ok \in BOOLEAN
        /\ (ok => operation.fn # "start")
    BY <1>5 DEF PortChecked, BooksInv, OperationInv
  <2> HIDE DEF ok
  <2>2. CASE ok = TRUE
    BY <2>1, <2>2, SettleKeepsRevisions DEF RevisionsInv, KnownInv, factVars, Confirms
  <2>3. CASE ok = FALSE
    BY <2>1, <2>3, SettleRecovery, EndKeepsRevisions DEF Settle, RevisionsInv, RevisionsStay
  <2> QED
    BY <2>1, <2>2, <2>3
<1>6. CASE RestartForks
  <2>1. /\ UNCHANGED <<factVars, recovery, toWorker, accountRoutingRevision>> /\ MessagesRead
        /\ child = 0 \/ childExited
    BY <1>6, ReleaseReads DEF RestartForks, callFrame, OneWorkerInv
  <2>2. CASE Fork(call, operation.snap, FALSE)
    BY <2>1, <2>2, RecoveryRevision, ForkKeepsRevisions
  <2>3. CASE ForkFails(call)
    BY <2>1, <2>3, RecoveryRevision, ForkFailsRevises
  <2> QED
    BY <1>6, <2>2, <2>3 DEF RestartForks
<1> QED
  BY <1>1, <1>2, <1>3, <1>4, <1>5, <1>6 DEF OperationEvent

LEMMA ChildEventRevises ==
  ASSUME TypeOK, TypeOK', OneWorkerInv, BooksInv, RevisionsInv, accountReady = {}, ChildEvent
  PROVE  RevisionsInv' /\ RevisionsGrow
<1>1. recovery' = recovery => recovery'.snap.rev <= accountRoutingRevision
  BY RecoveryRevision
<1>2. ASSUME UNCHANGED <<epoch, factVars, accountRoutingRevision, callerVars, recovery, procs,
                         toWorker>>,
             \/ operation' = operation \/ \E step : operation' = [operation EXCEPT !.step = step]
      PROVE  RevisionsInv' /\ RevisionsGrow
  BY <1>1, <1>2, OnKeepsRevisions DEF RevisionsStay, callerVars, GoesOn, TypeOK, Operation
<1>3. CASE OnReady
  <2>1. UNCHANGED <<epoch, factVars, accountRoutingRevision>> /\ epoch \in Epochs
        /\ operation.fn = "start" /\ operation.id \in Nat
    BY <1>3, BusyChild DEF OnReady, Incoming, messageFrame, BooksInv, OperationInv, TypeOK, Operation
  <2>2. CASE /\ Send("configure", operation.id, operation.snap, 0)
             /\ operation' = [operation EXCEPT !.step = "configured"]
             /\ UNCHANGED <<expectedExit, callerVars, closing, recovery, procs>>
    BY <2>1, <2>2, RecoveryRevision, ConfigureKeepsRevisions DEF callerVars, TypeOK, Operation
  <2>3. CASE SendFails /\ Thrown(childExited)
    BY <2>1, <2>3, ThrownKeepsRevisions DEF SendFails
  <2> QED
    BY <1>3, <2>2, <2>3 DEF OnReady
<1>4. CASE OnStartConfigured
  BY <1>2, <1>4 DEF OnStartConfigured, messageFrame
<1>5. CASE OnApplyConfigured
  BY <1>5, SettleKeepsRevisions DEF Confirms, RevisionsInv, KnownInv, Snapshot,
     OnApplyConfigured, messageFrame, TypeOK, Operation, Pending
<1>6. CASE OnAccountStateApplied
  <2>1. /\ UNCHANGED <<epoch, procs, toWorker, accountRoutingRevision>> /\ Settle(TRUE)
        /\ operation.fn = "account" /\ accountRevision' = operation.rev
        /\ lastSnapshot' = [lastSnapshot EXCEPT !.rev = operation.rev]
    BY <1>6 DEF OnAccountStateApplied, messageFrame, BooksInv, OperationInv
  <2> QED
    BY <2>1, SettleKeepsRevisions DEF Confirms, TypeOK, Operation, Pending, Snapshot,
       RevisionsInv, KnownInv
<1>7. CASE OnDrained
  <2>1. UNCHANGED <<epoch, factVars, accountRoutingRevision>> /\ epoch \in Epochs
        /\ requestSequence + 1 \in Nat
    BY <1>7, BusyChild DEF OnDrained, Incoming, messageFrame, TypeOK
  <2>2. CASE /\ Send("shutdown", requestSequence + 1, NoSnapshot, 0) /\ UNCHANGED procs
             /\ operation' = [operation EXCEPT !.step = "exit"]
             /\ UNCHANGED <<callerVars, recovery>>
    BY <1>1, <2>1, <2>2, AskKeepsRevisions DEF callerVars, RevisionsStay, GoesOn, TypeOK,
       Operation
  <2>3. CASE SendFails /\ Terminate(operation, childExited) /\ UNCHANGED <<callerVars, recovery>>
    BY <1>1, <2>1, <2>3, TerminateRevisionsStay, OnKeepsRevisions DEF callerVars, SendFails,
       Terminate, GoesOn, TypeOK, Operation
  <2>4. CASE UNCHANGED toWorker /\ Thrown(childExited)
    BY <2>1, <2>4, ThrownKeepsRevisions
  <2> QED
    BY <1>7, <2>2, <2>3, <2>4 DEF OnDrained
<1>8. CASE OnFatal
  BY <1>2, <1>8, ThrownKeepsRevisions DEF OnFatal, messageFrame
<1>9. CASE OnUnawaited
  BY <1>2, <1>9 DEF OnUnawaited, managerVars, lifeVars
<1>10. CASE HealthAnswers
  BY <1>2, <1>10 DEF HealthAnswers, lifeVars, workerVars
<1>11. CASE ChildCrashed
  BY <1>11, CaughtRevision, EndKeepsRevisions DEF ChildCrashed, RevisionsStay
<1>12. CASE ChildExits
  BY <1>2, <1>12, ThrownKeepsRevisions DEF ChildExits
<1> QED
  BY <1>3, <1>4, <1>5, <1>6, <1>7, <1>8, <1>9, <1>10, <1>11, <1>12 DEF ChildEvent

LEMMA RevisionsInit == Init => RevisionsInv
<1> SUFFICES ASSUME Init PROVE RevisionsInv
  OBVIOUS
<1> QED
  BY NoRevision DEF RevisionsInv, PendingInv, KnownInv, Init, OrderInv, SentInv, Of, WorkerInit,
     NoWorker, Pending, NoSnapshot

LEMMA RevisionsStep ==
  TypeOK /\ TypeOK' /\ OneWorkerInv /\ BooksInv /\ ServiceInv /\ SlotInv /\ RevisionsInv
    /\ [Next]_vars => RevisionsInv' /\ RevisionsGrow
<1> SUFFICES ASSUME TypeOK, TypeOK', OneWorkerInv, BooksInv, MessagesInv, SlotInv, RevisionsInv,
                    [Next]_vars
             PROVE  RevisionsInv' /\ RevisionsGrow
  BY DEF ServiceInv
<1>1. CASE ManagerStep
  BY <1>1, MicrotaskRevises, OperationEventRevises, ChildEventRevises, RecoveryEventRevises DEF
     ManagerStep, MicrotaskPending
<1>2. CASE CallerStep
  BY <1>2, CallerStepRevises
<1>3. CASE ProcessStep
  BY <1>3, ProcessKeepsRevisions DEF ProcessStep
<1>4. CASE UNCHANGED vars
  BY <1>4, RecoveryRevision, IdleRevises DEF vars, managerVars, lifeVars, callerVars, workerVars
<1> QED
  BY <1>1, <1>2, <1>3, <1>4 DEF Next

LEMMA InOrderNoneStale ==
  ASSUME TypeOK, RevisionsInv
  PROVE  NoStaleUpdate
<1> SUFFICES ASSUME NEW e \in Epochs, toWorker[e] # <<>>, Head(toWorker[e]).type = "account-state",
                    procs[e].phase = "running", ~procs[e].stopping
             PROVE  MayApplyAccountState(e, Head(toWorker[e]).rev)
  BY DEF NoStaleUpdate
<1>1. toWorker[e] \in Seq(Request)
  BY DEF TypeOK, WorkerTypeOK
<1>2. procs[e].rev \in Nat /\ Head(toWorker[e]).rev \in Nat
  <2>1. Head(toWorker[e]) \in Request
    BY <1>1
  <2> QED
    BY <2>1 DEF TypeOK, WorkerTypeOK, WorkerState, Request
<1> QED
  BY <1>1, <1>2 DEF MayApplyAccountState, RevisionsInv, OrderInv

\* Account states reach a Worker in the order they were read in, for every lag of the
\* snapshots: applyAccountState compares its revision with the confirmed one when it sends
\* it, a Worker that lives keeps the newest it was given, and so no update kills it as stale.
THEOREM AccountStatesInOrder == Spec => AccountStateInOrder
<1> DEFINE IInv == TypeOK /\ OneWorkerInv /\ BooksInv /\ ServiceInv /\ SlotInv /\ RevisionsInv
<1>1. Init => IInv
  BY InitType, OneWorkerInit, BooksInit, ServiceInit, SlotInit, RevisionsInit
<1>2. IInv /\ [Next]_vars => IInv'
  BY NextType, OneWorkerStep, BooksStep, ServiceStep, SlotStep, RevisionsStep
<1>3. IInv => NoStaleUpdate
  BY InOrderNoneStale
<1>4. IInv /\ [Next]_vars =>
        \A e \in Epochs : procs[e].alive /\ procs'[e].alive => procs'[e].rev >= procs[e].rev
  BY <1>2, RevisionsStep DEF RevisionsGrow
<1> QED
  BY <1>1, <1>2, <1>3, <1>4, PTL DEF Spec, AccountStateInOrder
=============================================================================
