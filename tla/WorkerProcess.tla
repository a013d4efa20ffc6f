--------------------------- MODULE WorkerProcess ---------------------------
(***************************************************************************)
(* The proxy Worker process of worker/worker-entry.mjs, seen from its IPC  *)
(* channel: what it does with each message of the Supervisor, and how it   *)
(* dies.  Processes are named by the epoch the Supervisor forked them in.  *)
(*                                                                         *)
(* Messages are handled one at a time (the "operation" promise chain), so  *)
(* a handler is one action; a drain is the exception, it is started by a   *)
(* message and completes when the last request in flight has ended.        *)
(***************************************************************************)
EXTENDS Naturals, Sequences

CONSTANTS
  Configs,        \* contents of a settings snapshot, compared for equality only
  NoConfig,       \* no settings yet
  MaxEpoch,       \* bound: forks
  MaxGeneration,  \* bound: snapshot generations
  MaxRevision,    \* bound: account routing revisions
  MaxRequests     \* bound: correlated IPC requests

ASSUME ConfigsAssumption == NoConfig \notin Configs
ASSUME BoundsAssumption ==
  /\ MaxEpoch \in Nat
  /\ MaxGeneration \in Nat
  /\ MaxRevision \in Nat
  /\ MaxRequests \in Nat

VARIABLES
  procs,      \* the module state of each Worker process
  toWorker,   \* IPC messages on their way to each Worker
  toManager   \* IPC messages on their way back

workerVars == <<procs, toWorker, toManager>>

Epochs   == 1..MaxEpoch
Snapshot == [gen : Nat, cfg : Configs \union {NoConfig}, rev : Nat]

NoSnapshot == [gen |-> 0, cfg |-> NoConfig, rev |-> 0]

\* A request of the Supervisor; "snap" is the payload of configure, and of
\* account-state, which uses its revision only.
Request == [type : {"configure", "account-state", "drain", "shutdown"},
            id : Nat, snap : Snapshot, rev : Nat]

\* A message of the Worker: lifecycle messages carry the generation it runs.
Message == [type : {"ready", "configured", "account-state-applied", "drained", "fatal"},
            id : Nat, gen : Nat]

NoWorker ==
  [alive |-> FALSE, phase |-> "none", stopping |-> FALSE, gen |-> 0, cfg |-> NoConfig,
   rev |-> 0, listening |-> FALSE, drains |-> {}, signalled |-> FALSE]

\* What fork() leaves: the process exists and has not run startWorker yet.
Forked == [NoWorker EXCEPT !.alive = TRUE, !.phase = "booting"]

WorkerInit ==
  /\ procs = [e \in Epochs |-> NoWorker]
  /\ toWorker = [e \in Epochs |-> <<>>]
  /\ toManager = [e \in Epochs |-> <<>>]

------------------------

Emit(e, type, id, gen) ==
  toManager' = [toManager EXCEPT ![e] = Append(@, [type |-> type, id |-> id, gen |-> gen])]

\* startWorker announces itself with the fixed request id "worker-ready".
StartWorker(e) ==
  /\ procs[e].alive /\ procs[e].phase = "booting"
  /\ procs' = [procs EXCEPT ![e].phase = "ready"]
  /\ Emit(e, "ready", 0, 0)
  /\ UNCHANGED toWorker

Receive(e, type) ==
  /\ procs[e].alive /\ procs[e].phase # "booting"
  /\ toWorker[e] # <<>> /\ Head(toWorker[e]).type = type
  /\ toWorker' = [toWorker EXCEPT ![e] = Tail(@)]

\* failWorker: the first failure stops the Worker and tells the Supervisor why,
\* any later one is silent.  closeResources closes the listening socket.
FailWorker(e, id) ==
  IF procs[e].stopping
  THEN UNCHANGED <<procs, toManager>>
  ELSE /\ procs' = [procs EXCEPT ![e].phase = "failed", ![e].stopping = TRUE,
                                 ![e].listening = FALSE]
       /\ Emit(e, "fatal", id, procs[e].gen)

\* configure is refused outside "ready" and "running", RuntimeSettingsSource
\* refuses a generation that does not increase, and the first configure fails
\* when the port cannot be bound.
MayConfigure(e, snap) ==
  /\ ~procs[e].stopping /\ procs[e].phase \in {"ready", "running"}
  /\ snap.gen > procs[e].gen

Configure(e) ==
  LET m == Head(toWorker[e]) IN
  /\ Receive(e, "configure")
  /\ MayConfigure(e, m.snap)
  /\ procs[e].phase = "running" \/ ~\E f \in Epochs : procs[f].listening
  /\ procs' = [procs EXCEPT ![e].phase = "running", ![e].listening = TRUE,
                            ![e].gen = m.snap.gen, ![e].cfg = m.snap.cfg,
                            ![e].rev = IF m.snap.rev < @ THEN @ ELSE m.snap.rev]
  /\ Emit(e, "configured", m.id, m.snap.gen)

ConfigureFails(e) ==
  LET m == Head(toWorker[e]) IN
  /\ Receive(e, "configure")
  /\ ~MayConfigure(e, m.snap) \/ procs[e].phase = "ready"
  /\ FailWorker(e, m.id)

\* applyAccountState: AccountRoutingStateSource.apply wants a newer revision.
MayApplyAccountState(e, rev) ==
  /\ ~procs[e].stopping /\ procs[e].phase = "running"
  /\ rev > procs[e].rev

ApplyAccountState(e) ==
  LET m == Head(toWorker[e]) IN
  /\ Receive(e, "account-state")
  /\ MayApplyAccountState(e, m.rev)
  /\ procs' = [procs EXCEPT ![e].rev = m.rev]
  /\ Emit(e, "account-state-applied", m.id, procs[e].gen)

ApplyAccountStateFails(e) ==
  LET m == Head(toWorker[e]) IN
  /\ Receive(e, "account-state")
  /\ ~MayApplyAccountState(e, m.rev)
  /\ FailWorker(e, m.id)

\* beginDrain closes the listening socket and leaves the answer to drainPromise.
BeginDrain(e) ==
  LET m == Head(toWorker[e]) IN
  /\ Receive(e, "drain")
  /\ procs' = [procs EXCEPT ![e].phase = IF procs[e].drains = {} /\ @ # "drained"
                                         THEN "draining" ELSE @,
                            ![e].listening = FALSE,
                            ![e].drains = @ \union {m.id}]
  /\ UNCHANGED toManager

\* The last request in flight has ended: drainPromise resolves.
Drained(e) ==
  /\ procs[e].alive
  /\ \E id \in procs[e].drains :
       /\ procs' = [procs EXCEPT ![e].phase = "drained", ![e].drains = @ \ {id}]
       /\ Emit(e, "drained", id, procs[e].gen)
  /\ UNCHANGED toWorker

Shutdown(e) ==
  /\ Receive(e, "shutdown")
  /\ procs' = IF procs[e].stopping THEN procs
              ELSE [procs EXCEPT ![e].stopping = TRUE, ![e].phase = "stopping",
                                 ![e].listening = FALSE]
  /\ UNCHANGED toManager

\* An uncaught exception or rejection: failWorker outside any request.
UncaughtException(e) ==
  /\ procs[e].alive /\ ~procs[e].stopping
  /\ FailWorker(e, 0)
  /\ UNCHANGED toWorker

------------------------
(* Death.  What the process had already written to the channel can still   *)
(* be read, what it had not read is lost.                                  *)

Dies(e) ==
  /\ procs' = [procs EXCEPT ![e] = NoWorker]
  /\ toWorker' = [toWorker EXCEPT ![e] = <<>>]
  /\ UNCHANGED toManager

\* finishProcess, once the resources are closed.
FinishProcess(e) == procs[e].alive /\ procs[e].stopping /\ Dies(e)

\* SIGTERM or SIGKILL takes effect: the Worker installs no signal handler.
Signalled(e) == procs[e].alive /\ procs[e].signalled /\ Dies(e)

\* The process is lost for any other reason.
Crash(e) == procs[e].alive /\ Dies(e)

WorkerStep(e) ==
  \/ StartWorker(e) \/ Configure(e) \/ ConfigureFails(e)
  \/ ApplyAccountState(e) \/ ApplyAccountStateFails(e)
  \/ BeginDrain(e) \/ Drained(e) \/ Shutdown(e) \/ UncaughtException(e)
  \/ FinishProcess(e) \/ Signalled(e) \/ Crash(e)

WorkerState ==
  [alive : BOOLEAN, stopping : BOOLEAN, listening : BOOLEAN, signalled : BOOLEAN,
   phase : {"none", "booting", "ready", "running", "draining", "drained", "stopping",
            "failed"},
   gen : Nat, cfg : Configs \union {NoConfig}, rev : Nat, drains : SUBSET Nat]

WorkerTypeOK ==
  /\ procs \in [Epochs -> WorkerState]
  /\ toWorker \in [Epochs -> Seq(Request)]
  /\ toManager \in [Epochs -> Seq(Message)]
=============================================================================
