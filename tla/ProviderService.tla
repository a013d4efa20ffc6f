--------------------------- MODULE ProviderService ---------------------------
(***************************************************************************)
(* The ProviderService of supervisor/provider-service.mjs: changes of the  *)
(* provider registry and of the proxy, each of them a transaction over the *)
(* registry file, the credential store, the Worker and the activity log,   *)
(* with a rollback written by hand.                                        *)
(*                                                                         *)
(* #runExclusive runs one operation at a time, so the state of the one that*)
(* runs is the record "op", and op.step is the await it is blocked in.  A  *)
(* block of code between two awaits is split into actions where it branches*)
(* and at the registry's commits: nothing else runs while it is Urgent.    *)
(*                                                                         *)
(* The Worker and its manager are WorkerSlot, which WorkerManager is       *)
(* checked to implement.  Everything outside that may go wrong (a commit,  *)
(* a credential, the log, an acknowledgement, a process) is a fault, and   *)
(* MaxFaults bounds how many do.                                           *)
(***************************************************************************)
EXTENDS Naturals, Sequences, FiniteSets

CONSTANTS
  Providers,       \* provider ids
  NoProvider,      \* null
  NoConfig,        \* no snapshot
  Operations,      \* bound: which operations are called
  InitialActive,   \* the preferred provider of the initial registry, or NoProvider
  Recording,       \* bound: may appending to the activity log fail
  AccountUpdates,  \* bound: are there account updates that take the manager's slot
  MaxGeneration,   \* bound: snapshot generations
  MaxFaults        \* bound: faults

Settings == {"weight", "mode", "capture", "details", "rules", "host"}
OperationKinds ==
  Settings \union {"group", "activate", "secret", "delete", "create", "test",
                   "start", "restart", "stop"}

ASSUME ProvidersAssumption == NoProvider \notin Providers
ASSUME InitialAssumption == InitialActive \in Providers \union {NoProvider}
ASSUME OperationsAssumption == Operations \subseteq OperationKinds
ASSUME SwitchesAssumption == Recording \in BOOLEAN /\ AccountUpdates \in BOOLEAN
ASSUME FaultsAssumption == MaxGeneration \in Nat /\ MaxFaults \in Nat

\* The registry document: who is configured, preferred and tested, and settings
\* that can take two values: weights, routing mode, Capture and its details, what
\* else a hot mutation edits of the snapshot (the mappings, rules, models, API key
\* authentication), and the listen address.
Document ==
  [providers : SUBSET Providers, active : Providers \union {NoProvider},
   tested : SUBSET Providers, settings : [Settings -> BOOLEAN]]

\* The part of a snapshot the properties tell apart: the provider that is first among
\* those of equal weight, the pool of tested ones, the settings and the secret.
Configurations ==
  [preferred : Providers \union {NoProvider}, pool : SUBSET Providers,
   settings : [Settings -> BOOLEAN], secret : BOOLEAN]

VARIABLES
  document,             \* the registry file
  locked,               \* ProviderRegistry.degradedLock
  credentials,          \* providers whose credential is in the credential store
  secret,               \* the secret in use, FALSE or its replacement TRUE
  confirmedGeneration,  \* confirmedGeneration
  confirmedSnapshot,    \* confirmedSnapshot, without its generation
  op,                   \* the operation #runExclusive runs
  outcome,              \* how the last one ended
  trusted,              \* history: the Worker was last built from the whole document
  faults                \* history: faults so far

VARIABLES phase, confirmed, worker, inbox, job, recovery, closed, call, reply

Slot == INSTANCE WorkerSlot WITH Configs <- Configurations

slotVars == <<phase, confirmed, worker, inbox, job, recovery, closed, call, reply>>
storeVars == <<document, locked, credentials, secret>>
factVars == <<confirmedGeneration, confirmedSnapshot>>
endVars == <<outcome, trusted>>
vars == <<storeVars, factVars, op, endVars, faults, slotVars>>

------------------------
(* An operation in progress.  prior is previousSnapshot, prev the document   *)
(* before it, warned commitWarning, broken rollbackFailure.                  *)

Steps == {"none", "probe", "set", "reset", "commit", "fallback", "build", "call", "called",
          "record", "select", "selected", "clear", "undo", "restore", "rebuild", "undocall", "undone",
          "cleanup", "cleaned", "forget", "unset", "unmark"}
UrgentSteps == {"reset", "commit", "fallback", "call", "undo", "undocall", "cleanup",
                "select", "clear", "unmark"}

NoDocument == [providers |-> {}, active |-> NoProvider, tested |-> {},
               settings |-> [s \in Settings |-> FALSE]]

NoOp ==
  [kind |-> "none", step |-> "none", id |-> NoProvider, prev |-> NoDocument,
   next |-> NoDocument, running |-> FALSE, prior |-> NoConfig, gen |-> 0,
   cand |-> NoConfig, persisted |-> FALSE, warned |-> FALSE, attempted |-> FALSE,
   broken |-> FALSE]

Results == {"none", "ok", "failed", "degraded", "committed", "unrecorded"}
NoOutcome == [kind |-> "none", result |-> "none"]

Hot == {"rules", "details", "secret", "delete"}
Gated == {"activate", "start", "restart"}

Idle == op = NoOp

\* Code that runs without giving up the event loop: between two awaits, and from the
\* answer of the manager to the next await.
Answered == op.step \in {"called", "undone", "cleaned"} /\ call.kind = "none"
Urgent == op.step \in UrgentSteps \/ Answered

Max2(a, b) == IF a >= b THEN a ELSE b

Init ==
  /\ document = [providers |-> Providers, active |-> InitialActive, tested |-> Providers,
                 settings |-> [s \in Settings |-> FALSE]]
  /\ locked = FALSE /\ credentials = Providers /\ secret = FALSE
  /\ confirmedGeneration = 0 /\ confirmedSnapshot = NoConfig
  /\ op = NoOp /\ outcome = NoOutcome /\ trusted = TRUE /\ faults = 0
  /\ Slot!SlotInit

------------------------
(* What an operation is built from *)

MayFail == faults < MaxFaults
Blame(failed) == /\ failed => MayFail
                 /\ faults' = IF failed THEN faults + 1 ELSE faults

\* ProviderRegistry.#commit: done, refused with nothing changed, or done and
\* reported as an error because the lock could not be released.  A lock that
\* stays behind makes every later commit fail.
Commits == {"done", "refused", "warned"}
Persist(new, c) ==
  /\ locked => c = "refused"
  /\ Blame(c # "done" /\ ~locked)
  /\ document' = IF c = "refused" THEN document ELSE new
  /\ IF c = "warned" THEN locked' \in BOOLEAN ELSE UNCHANGED locked

\* The operation ends and the next one of the queue may run.
WholeDocument == Hot \union {"activate", "weight", "mode", "start", "restart"}
Finish(result) ==
  /\ op' = NoOp
  /\ outcome' = [kind |-> op.kind, result |-> result]
  /\ trusted' = IF result = "degraded" THEN FALSE
                ELSE trusted \/ (result \in {"ok", "committed", "unrecorded"}
                                 /\ op.attempted /\ op.kind \in WholeDocument)

Go(step) == op' = [op EXCEPT !.step = step] /\ UNCHANGED endVars

\* #buildSnapshot: the tested providers whose credential can be read.
Config(doc, id, pool) ==
  [preferred |-> IF id \in pool THEN id ELSE NoProvider, pool |-> pool,
   settings |-> doc.settings, secret |-> secret]

\* isConfirmedWorkerState, which the default verifyWorkerHealth repeats.
IsConfirmed(gen) == reply.ok /\ reply.phase = "running" /\ reply.gen = gen

Want(gen, cfg) == [gen |-> gen, cfg |-> cfg]

\* The state to fall back to of a service that runs with nothing confirmed.
NothingToRestore == phase = "running" /\ confirmedSnapshot = NoConfig

------------------------
(* The begin of each operation, up to its first await or commit *)

Begin(kind, id, step, next, gen) ==
  /\ op' = [NoOp EXCEPT !.kind = kind, !.id = id, !.step = step, !.prev = document,
              !.next = next, !.running = (phase = "running"), !.prior = confirmedSnapshot,
              !.gen = gen]
  /\ UNCHANGED <<storeVars, factVars, endVars, faults, slotVars>>

\* Rejected before anything has changed.
Reject(kind) ==
  /\ outcome' = [kind |-> kind, result |-> "failed"]
  /\ UNCHANGED <<storeVars, factVars, op, trusted, faults, slotVars>>

\* The handler of a failed recovery runs before the next call is read.
MayCall(kind) ==
  /\ Idle /\ kind \in Operations /\ recovery # "rejected"
  /\ Max2(confirmedGeneration, confirmed.gen) + 2 <= MaxGeneration

\* Activation and the starts wait in the readiness gate, where a recovery that is
\* starting its Worker is before them.
GateFree == recovery # "attempt"

Toggle(s) == [document EXCEPT !.settings[s] = ~@]

\* activate(id): the snapshot is built before the registry changes.
Activate(id) ==
  /\ MayCall("activate") /\ GateFree /\ id \in document.providers
  /\ IF id \in document.tested
     THEN Begin("activate", id, "build", [document EXCEPT !.active = id],
                confirmedGeneration + 1)
     ELSE Reject("activate")

\* setProviderWeight(id): the snapshot is built after the registry has changed.
SetProviderWeight ==
  /\ MayCall("weight")
  /\ IF phase \in {"stopped", "running"}
     THEN Begin("weight", NoProvider, "commit", Toggle("weight"), confirmedGeneration)
     ELSE Reject("weight")

\* setRoutingMode(mode): built first if the Worker runs.
SetRoutingMode ==
  /\ MayCall("mode")
  /\ IF phase \in {"stopped", "running"} /\ ~NothingToRestore
        /\ (phase = "running" => document.active # NoProvider)
     THEN Begin("mode", NoProvider, IF phase = "running" THEN "build" ELSE "commit",
                Toggle("mode"), confirmedGeneration + IF phase = "running" THEN 1 ELSE 0)
     ELSE Reject("mode")

\* setCaptureEnabled(enabled): the candidate is a copy of the confirmed snapshot.
\* Without Capture there are no details.
WithCapture(settings, on) == [settings EXCEPT !["capture"] = on, !["details"] = @ /\ on]

SetCaptureEnabled ==
  /\ MayCall("capture")
  /\ IF phase \in {"stopped", "running"} /\ ~NothingToRestore
     THEN Begin("capture", NoProvider, "commit",
                [document EXCEPT !.settings = WithCapture(@, ~@["capture"])],
                confirmedGeneration + IF phase = "running" THEN 1 ELSE 0)
     ELSE Reject("capture")

\* setProxyHost(host): only while the proxy is stopped.
SetProxyHost ==
  /\ MayCall("host")
  /\ IF phase = "stopped"
     THEN Begin("host", NoProvider, "commit", Toggle("host"), confirmedGeneration)
     ELSE Reject("host")

\* #executeHotRegistryMutation up to its mutation.
HotAllowed == phase \in {"stopped", "running"} /\ ~NothingToRestore

BeginHot(kind, id, step, next) ==
  IF HotAllowed THEN Begin(kind, id, step, next, confirmedGeneration) ELSE Reject(kind)

\* Edits of what a snapshot shows of the document: routing rules, model mappings,
\* supported models, API key authentication and the fields of providers.
HotEdit(next) == MayCall("rules") /\ BeginHot("rules", NoProvider, "commit", next)

UpdateRoutingRuleGroup == HotEdit(Toggle("rules"))
DeleteRoutingRuleGroup == HotEdit(Toggle("rules"))
UpdateModelMappingGroup == HotEdit(Toggle("rules"))
SetApiKeyAuthEnabled == HotEdit(Toggle("rules"))

\* What is chosen may be what is in use: then nothing is written, but the Worker is
\* sent a snapshot all the same.
SetActiveRoutingRuleGroup == HotEdit(document) \/ HotEdit(Toggle("rules"))
SetProviderSupportedModels == HotEdit(document) \/ HotEdit(Toggle("rules"))

\* updateProvider without a secret: the test of a provider out of service may be reset.
UpdateProvider ==
  \E reset \in {{}} \union {{id} : id \in IF phase = "running" THEN {} ELSE document.tested} :
    HotEdit([Toggle("rules") EXCEPT !.tested = @ \ reset])

\* setCaptureDetailsEnabled(enabled): only with Capture.
SetCaptureDetailsEnabled ==
  /\ MayCall("details")
  /\ IF document.settings.details \/ document.settings.capture
     THEN BeginHot("details", NoProvider, "commit", Toggle("details"))
     ELSE Reject("details")

\* Groups no provider and no snapshot refers to: only the registry changes.
GroupEdit ==
  MayCall("group") /\ Begin("group", NoProvider, "commit", document, confirmedGeneration)

CreateModelMappingGroup == GroupEdit
DeleteModelMappingGroup == GroupEdit
CreateRoutingRuleGroup == GroupEdit

\* updateProvider with a replacement secret: the credential is written first, and
\* the test result of the provider survives only if it is in service.
UpdateSecret(id) ==
  /\ MayCall("secret") /\ id \in document.providers /\ ~secret
  /\ LET next == [Toggle("rules") EXCEPT
                    !.tested = IF phase = "running" THEN @ ELSE @ \ {id}]
     IN BeginHot("secret", id, "set", next)

\* deleteProvider(id): a preferred provider is replaced by a tested one.
DeleteProvider(id) ==
  /\ MayCall("delete") /\ id \in document.providers
  /\ \E fallback \in IF document.active # id THEN {document.active}
                     ELSE IF document.tested \ {id} = {} THEN {NoProvider}
                     ELSE document.tested \ {id} :
       BeginHot("delete", id, "commit",
                [document EXCEPT !.providers = @ \ {id}, !.tested = @ \ {id},
                                 !.active = fallback])

\* createProvider(input, secret): the credential is written first.
CreateProvider(id) ==
  /\ MayCall("create") /\ id \in Providers \ (document.providers \union credentials)
  /\ Begin("create", id, "set", [document EXCEPT !.providers = @ \union {id}],
           confirmedGeneration)

\* testProvider(id, model, {activateIfNone}): op.running is runningPoolMember and
\* op.warned, until the test is over, activateIfNone.
TestProvider(id, activateIfNone) ==
  /\ MayCall("test") /\ id \in document.providers
  /\ IF activateIfNone /\ document.active = NoProvider /\ phase # "stopped"
     THEN Reject("test")
     ELSE /\ op' = [NoOp EXCEPT !.kind = "test", !.id = id, !.step = "probe",
                      !.prev = document, !.next = document, !.warned = activateIfNone,
                      !.running = (id \in document.tested /\ phase = "running")]
          /\ UNCHANGED <<storeVars, factVars, endVars, faults, slotVars>>

\* startProxy and restartProxy; a Worker that runs is not started again.
StartProxy(kind) ==
  /\ MayCall(kind) /\ GateFree
  /\ CASE kind = "start" /\ phase = "running" ->
            Begin(kind, NoProvider, "record", document, confirmedGeneration)
       [] ~(kind = "start" /\ phase = "running") /\ document.active \in document.tested ->
            Begin(kind, document.active, "build", document,
                  Max2(confirmedGeneration, confirmed.gen) + 1)
       [] OTHER -> Reject(kind)

StopProxy == MayCall("stop") /\ Begin("stop", NoProvider, "call", document, 0)

------------------------
(* Forward: credential, commit, snapshot, Worker, log *)

\* credentialStore.set of createProvider and #updateWithReplacementSecret.
SetCredential(c) ==
  /\ op.step = "set"
  /\ Blame(c # "done")
  /\ IF c = "refused"
     THEN Finish("failed") /\ UNCHANGED <<secret, credentials>>
     ELSE /\ op' = [op EXCEPT !.warned = (c = "warned"),
                      !.step = IF op.kind = "secret" /\ op.id \notin op.next.tested
                               THEN "reset" ELSE "commit"]
          /\ IF op.kind = "secret"
             THEN secret' = TRUE /\ UNCHANGED credentials
             ELSE credentials' = credentials \union {op.id} /\ UNCHANGED secret
          /\ UNCHANGED endVars
  /\ UNCHANGED <<document, locked, factVars, slotVars>>

\* The first provider of a Worker in service must have passed its test.
NeedsFallback(doc) == op.kind \in Hot /\ op.running /\ doc.active \notin doc.tested

\* Where a commit leads: to the snapshot or straight to the Worker if it runs.
AfterHot(doc) ==
  IF NeedsFallback(doc) THEN "fallback"
  ELSE IF op.running THEN "build"
  ELSE IF op.kind = "delete" THEN "forget" ELSE "record"

AfterWeight == IF op.running THEN "build" ELSE "record"
AfterMode == IF op.running THEN "call" ELSE "record"
AfterCapture == IF op.running THEN "call" ELSE "record"
AfterActivation == "call"

AfterCommit(doc) ==
  CASE op.kind \in Hot -> AfterHot(doc)
    [] op.kind = "weight" -> AfterWeight
    [] op.kind = "mode" -> AfterMode
    [] op.kind = "capture" -> AfterCapture
    [] op.kind = "activate" -> AfterActivation
    [] OTHER -> "record"

\* A warned commit ends an operation as committed once its Worker is done, without
\* looking at the log; the mode and Capture write it to the log first.
EndsWarned(o, step) ==
  o.warned /\ step = "record" /\ o.kind \notin {"mode", "capture"}

Proceed(o, step) ==
  IF EndsWarned(o, step) THEN Finish("committed")
  ELSE op' = [o EXCEPT !.step = step] /\ UNCHANGED endVars

\* markTest of a replaced secret, which must be tested again.  A warned one looks
\* to #executeHotRegistryMutation like the whole mutation, warned.
ResetTest(c) ==
  LET doc == [document EXCEPT !.tested = @ \ {op.id}]
      o == [op EXCEPT !.persisted = TRUE, !.warned = TRUE]
  IN /\ op.step = "reset"
     /\ Persist(doc, c)
     /\ CASE c = "done" -> Go("commit")
          [] c = "warned" -> Proceed(o, AfterCommit(doc))
          [] c = "refused" -> Go("unset")
     /\ UNCHANGED <<credentials, secret, factVars, slotVars>>

\* Mutant of Commit: a refused commit is taken for one that was only warned.
MutantCommitTrusts(c) ==
  /\ op.step = "commit"
  /\ Persist(op.next, c)
  /\ Proceed([op EXCEPT !.persisted = TRUE, !.warned = @ \/ c # "done"],
             AfterCommit(op.next))
  /\ UNCHANGED <<credentials, secret, factVars, slotVars>>

\* Mutant of Commit: the credential is taken back after a commit that was warned.
MutantCommitTakesBack(c) ==
  /\ op.step = "commit"
  /\ Persist(op.next, c)
  /\ IF c # "done"
     THEN IF op.kind \in {"secret", "create"} THEN Go("unset") ELSE Finish("failed")
     ELSE Proceed([op EXCEPT !.persisted = TRUE], AfterCommit(op.next))
  /\ UNCHANGED <<credentials, secret, factVars, slotVars>>

\* A registry that had nothing to write, and could not release its lock, has failed.
NothingWritten(c) == op.kind = "rules" /\ op.next = op.prev /\ c = "warned"

\* The commit of the operation.
Commit(c) ==
  /\ op.step = "commit"
  /\ Persist(op.next, c)
  /\ IF c = "refused" \/ NothingWritten(c)
     THEN IF op.kind \in {"secret", "create"} THEN Go("unset") ELSE Finish("failed")
     ELSE Proceed([op EXCEPT !.persisted = TRUE, !.warned = @ \/ c = "warned"],
                  AfterCommit(op.next))
  /\ UNCHANGED <<credentials, secret, factVars, slotVars>>

\* The tested provider a hot mutation falls back to, or PROVIDER_POOL_EMPTY.
Fallback(c) ==
  /\ op.step = "fallback"
  /\ \/ /\ document.tested = {} /\ c = "done"
        /\ Go("undo")
        /\ UNCHANGED <<document, locked, faults>>
     \/ \E id \in document.tested :
          /\ Persist([document EXCEPT !.active = id], c)
          /\ IF c = "refused" THEN Go("undo")
             ELSE /\ op' = [op EXCEPT !.step = "build", !.warned = @ \/ c = "warned"]
                  /\ UNCHANGED endVars
  /\ UNCHANGED <<credentials, secret, factVars, slotVars>>

\* The credentials are read and the snapshot is built.  One of a provider other
\* than the preferred that cannot be read leaves that provider out.
Preferred == IF op.kind \in Gated THEN op.id ELSE document.active
Servable == document.tested \intersect credentials
MayBuild == Preferred \in credentials /\ (op.kind = "weight" => op.prior # NoConfig)

Build ==
  /\ op.step = "build"
  /\ MayBuild
  /\ \E pool \in SUBSET Servable \ {{}} :
       LET doc == IF op.persisted THEN document ELSE op.next
       IN /\ Preferred \in Servable => Preferred \in pool
          /\ Blame(pool # Servable)
          /\ op' = [op EXCEPT !.cand = Config(doc, Preferred, pool),
                      !.gen = IF op.kind \in Hot \union {"weight"} THEN @ + 1 ELSE @,
                      !.step = IF op.kind \in {"activate", "mode"} THEN "commit" ELSE "call"]
  /\ UNCHANGED <<storeVars, factVars, endVars, slotVars>>

\* The credential of the preferred provider cannot be read, or there is none, or no
\* provider is left for the pool, or a change of a weight has nothing to fall back to.
BuildFails ==
  /\ op.step = "build"
  /\ Blame(MayBuild /\ Servable # {})
  /\ IF op.persisted THEN Go("undo") ELSE Finish("failed")
  /\ UNCHANGED <<storeVars, factVars, slotVars>>

\* A start or restart was answered at once with no process forked.
ForkFailed == reply'.kind \in {"start", "restart"} /\ ~reply'.ok /\ phase' = "stopped"

\* The snapshot goes to the Worker, or the proxy is stopped.
CallWorker ==
  LET cfg == IF op.kind = "capture"
             THEN [op.prior EXCEPT !.settings = WithCapture(@, op.next.settings["capture"])]
             ELSE op.cand
      want == Want(op.gen, cfg)
  IN /\ op.step = "call"
     /\ op' = [op EXCEPT !.cand = cfg, !.attempted = TRUE, !.step = "called"]
     /\ CASE op.kind = "stop" -> Slot!Stop
          [] op.kind = "restart" -> Slot!Restart(want)
          [] op.kind = "start" \/ (op.kind = "activate" /\ phase # "running") ->
               Slot!Start(want)
          [] OTHER -> Slot!Apply(want)
     /\ Blame(ForkFailed)
     /\ UNCHANGED <<storeVars, factVars, endVars>>

\* The Worker confirms the candidate.  Only the routing mode waits for the log
\* before it takes the candidate for confirmed.
Confirm(gen, cfg) == confirmedGeneration' = gen /\ confirmedSnapshot' = cfg

WorkerConfirms ==
  /\ Answered /\ op.step = "called" /\ op.kind \notin {"stop", "mode"}
  /\ IsConfirmed(op.gen)
  /\ Confirm(op.gen, op.cand)
  /\ Proceed(op, IF op.kind = "delete" THEN "forget" ELSE "record")
  /\ UNCHANGED <<storeVars, faults, slotVars>>

ModeConfirmed ==
  /\ Answered /\ op.step = "called" /\ op.kind = "mode"
  /\ IsConfirmed(op.gen)
  /\ Proceed(op, "record")
  /\ UNCHANGED <<storeVars, factVars, faults, slotVars>>

\* It rejects, or answers for something else.
WorkerRefuses ==
  /\ Answered /\ op.step = "called" /\ op.kind # "stop"
  /\ ~IsConfirmed(op.gen)
  /\ Go(IF op.kind \in {"start", "restart"} THEN "cleanup" ELSE "undo")
  /\ UNCHANGED <<storeVars, factVars, faults, slotVars>>

WorkerStopped ==
  /\ Answered /\ op.step = "called" /\ op.kind = "stop"
  /\ IF reply.ok THEN Go("record") ELSE Finish("failed")
  /\ UNCHANGED <<storeVars, factVars, faults, slotVars>>

\* The credential of a deleted provider is deleted, last.
ForgetCredential(done) ==
  /\ op.step = "forget"
  /\ Blame(~done)
  /\ credentials' = IF done THEN credentials \ {op.id} ELSE credentials
  /\ Proceed([op EXCEPT !.warned = @ \/ ~done], "record")
  /\ UNCHANGED <<document, locked, secret, factVars, slotVars>>

\* The activity log takes the entry.
Recorded ==
  /\ op.step = "record" /\ op.kind # "mode"
  /\ IF op.kind = "test" /\ op.warned THEN Go("select")
     ELSE Finish(IF op.warned THEN "committed" ELSE "ok")
  /\ UNCHANGED <<storeVars, factVars, faults, slotVars>>

ModeRecorded ==
  /\ op.step = "record" /\ op.kind = "mode"
  /\ IF op.attempted THEN Confirm(op.gen, op.cand) ELSE UNCHANGED factVars
  /\ Finish(IF op.warned THEN "committed" ELSE "ok")
  /\ UNCHANGED <<storeVars, faults, slotVars>>

\* It does not: what that means depends on where the code appends the entry.
RecordFails ==
  /\ op.step = "record" /\ Recording
  /\ Blame(TRUE)
  /\ CASE op.kind \in {"activate", "weight", "mode", "capture"} -> Go("undo")
       [] op.kind \in {"start", "restart"} /\ op.attempted -> Go("cleanup")
       [] op.kind \in {"group", "host"} -> Finish("committed")
       [] op.kind = "rules" -> Finish("committed") \/ Finish("unrecorded")
       [] op.kind \in {"details", "secret", "delete", "create"} -> Finish("unrecorded")
       [] op.kind = "test" -> Finish(IF op.persisted THEN "committed" ELSE "failed")
       [] OTHER -> Finish("failed")
  /\ UNCHANGED <<storeVars, factVars, slotVars>>

------------------------
(* Tests of a provider *)

\* The probe has answered.  A failed one does not touch a provider in service.
Probed(passed, c) ==
  /\ op.step = "probe"
  /\ IF op.running /\ ~passed
     THEN /\ c = "done"
          /\ op' = [op EXCEPT !.step = "record", !.warned = FALSE]
          /\ UNCHANGED <<document, locked, endVars, faults>>
     ELSE /\ Persist([document EXCEPT !.tested = IF passed THEN @ \union {op.id}
                                                 ELSE @ \ {op.id}], c)
          /\ CASE c = "done" ->
                    /\ op' = [op EXCEPT !.step = "record", !.persisted = TRUE,
                                        !.warned = @ /\ passed]
                    /\ UNCHANGED endVars
               [] c = "warned" -> Finish("committed")
               [] c = "refused" -> Finish("failed")
  /\ UNCHANGED <<credentials, secret, factVars, slotVars>>

\* #selectInitialProvider: the first provider that passes becomes preferred.
SelectInitial(c) ==
  /\ op.step = "select"
  /\ IF document.active # NoProvider
     THEN c = "done" /\ Finish("ok") /\ UNCHANGED <<document, locked, faults>>
     ELSE /\ Persist([document EXCEPT !.active = op.id], c)
          /\ CASE c = "done" -> Go("selected")
               [] c = "warned" -> Finish("committed")
               [] c = "refused" -> Finish("failed")
  /\ UNCHANGED <<credentials, secret, factVars, slotVars>>

SelectionRecorded(done) ==
  /\ op.step = "selected"
  /\ done \/ Recording
  /\ Blame(~done)
  /\ IF done THEN Finish("ok") ELSE Go("clear")
  /\ UNCHANGED <<storeVars, factVars, slotVars>>

\* clearActiveIf
ClearSelection(c) ==
  /\ op.step = "clear"
  /\ Persist([document EXCEPT !.active = NoProvider], c)
  /\ Finish(IF c = "done" THEN "failed" ELSE "degraded")
  /\ UNCHANGED <<credentials, secret, factVars, slotVars>>

------------------------
(* Backward: registry, credential, Worker *)

Undone(broken) == Finish(IF broken THEN "degraded" ELSE "failed")

\* The step that follows the registry's rollback, once it is known to be broken.
UndoProceeds(broken, step) ==
  IF step = "none" THEN Undone(broken)
  ELSE op' = [op EXCEPT !.broken = broken, !.step = step] /\ UNCHANGED endVars

\* What the registry goes back to: all of the document, or what the operation wrote.
UndoHot == op.prev
UndoActivation == [document EXCEPT !.active = op.prev.active]
UndoWeight == [document EXCEPT !.settings["weight"] = op.prev.settings["weight"]]
UndoMode == [document EXCEPT !.settings["mode"] = op.prev.settings["mode"]]
UndoCapture == [document EXCEPT !.settings["capture"] = op.prev.settings["capture"],
                                !.settings["details"] = op.prev.settings["details"]]
UndoDetails == [document EXCEPT !.settings["details"] = op.prev.settings["details"]]

UndoneDocument ==
  CASE op.kind = "activate" -> UndoActivation
    [] op.kind = "weight" -> UndoWeight
    [] op.kind = "mode" -> UndoMode
    [] op.kind = "capture" -> UndoCapture
    [] op.kind = "details" -> UndoDetails
    [] OTHER -> UndoHot

\* Then the secret, then the Worker.  What undoes a change of the details is built
\* anew, everything else is undone with a copy of what was confirmed.
AfterUndo ==
  IF op.kind = "secret" THEN "restore"
  ELSE IF ~op.attempted THEN "none"
  ELSE IF op.kind = "details" THEN "rebuild" ELSE "undocall"

\* Mutant of Undo: the Worker keeps the candidate.
MutantUndoForgetsWorker(c) ==
  /\ op.step = "undo"
  /\ IF op.persisted THEN Persist(UndoneDocument, c)
     ELSE c = "done" /\ UNCHANGED <<document, locked, faults>>
  /\ UndoProceeds(c # "done", IF op.kind = "secret" THEN "restore" ELSE "none")
  /\ UNCHANGED <<credentials, secret, factVars, slotVars>>

\* The registry goes back to what it was.
Undo(c) ==
  /\ op.step = "undo"
  /\ IF op.persisted THEN Persist(UndoneDocument, c)
     ELSE c = "done" /\ UNCHANGED <<document, locked, faults>>
  /\ UndoProceeds(c # "done", AfterUndo)
  /\ UNCHANGED <<credentials, secret, factVars, slotVars>>

\* rollbackSideEffect of updateProvider: the old secret is written back.
RestoreSecret(c) ==
  /\ op.step = "restore"
  /\ Blame(c # "done")
  /\ secret' = (secret /\ c = "refused")
  /\ UndoProceeds(op.broken \/ c # "done", IF op.attempted THEN "undocall" ELSE "none")
  /\ UNCHANGED <<document, locked, credentials, factVars, slotVars>>

\* buildRollbackSnapshot of the details, from the document as it is by now.
Rebuild ==
  /\ op.step = "rebuild" /\ document.active \in Servable
  /\ \E pool \in SUBSET Servable :
       /\ document.active \in pool
       /\ Blame(pool # Servable)
       /\ op' = [op EXCEPT !.prior = Config(document, document.active, pool),
                           !.step = "undocall"]
  /\ UNCHANGED <<storeVars, factVars, endVars, slotVars>>

RebuildFails ==
  /\ op.step = "rebuild"
  /\ Blame(document.active \in Servable)
  /\ Undone(TRUE)
  /\ UNCHANGED <<storeVars, factVars, slotVars>>

FallsBackTo(cfg, gen) ==
  /\ op.step = "undocall"
  /\ op' = [op EXCEPT !.gen = gen, !.cand = cfg, !.step = "undone"]
  /\ Blame(ForkFailed)
  /\ UNCHANGED <<storeVars, factVars, endVars>>

\* Mutant of RollbackGeneration: the number the candidate had.
MutantRollbackGeneration == Max2(Max2(op.gen, confirmedGeneration), confirmed.gen)

\* Newer than anything the Worker may have been sent.
RollbackGeneration == Max2(Max2(op.gen, confirmedGeneration), confirmed.gen) + 1

\* The snapshot to fall back to is applied under a newer generation.
UndoCall ==
  /\ op.kind # "activate"
  /\ Slot!Apply(Want(RollbackGeneration, op.prior))
  /\ FallsBackTo(op.prior, RollbackGeneration)

\* A failed activation falls back to what is confirmed by now and restarts the Worker
\* if it does not run, or stops it if nothing was ever confirmed.
UndoActivationCall ==
  LET want == Want(RollbackGeneration, confirmedSnapshot)
  IN /\ op.kind = "activate"
     /\ CASE confirmedSnapshot = NoConfig -> Slot!Stop
          [] confirmedSnapshot # NoConfig /\ phase = "running" -> Slot!Apply(want)
          [] confirmedSnapshot # NoConfig /\ phase # "running" -> Slot!Restart(want)
     /\ FallsBackTo(confirmedSnapshot, RollbackGeneration)

UndoAnswered ==
  /\ Answered /\ op.step = "undone"
  /\ IF op.cand = NoConfig
     THEN Undone(op.broken \/ ~reply.ok \/ reply.phase # "stopped") /\ UNCHANGED factVars
     ELSE IF IsConfirmed(op.gen)
     THEN Undone(op.broken) /\ Confirm(op.gen, op.cand)
     ELSE Undone(TRUE) /\ UNCHANGED factVars
  /\ UNCHANGED <<storeVars, faults, slotVars>>

\* A start that failed stops what it may have started.
Cleanup ==
  /\ op.step = "cleanup"
  /\ Slot!Stop
  /\ op' = [op EXCEPT !.step = "cleaned"]
  /\ UNCHANGED <<storeVars, factVars, endVars, faults>>

CleanedUp ==
  /\ Answered /\ op.step = "cleaned"
  /\ Undone(~reply.ok)
  /\ UNCHANGED <<storeVars, factVars, faults, slotVars>>

\* Mutant of UndoCredential: the test of the provider stays reset.
MutantUndoCredential(c) ==
  /\ op.step = "unset" /\ op.kind = "secret"
  /\ Blame(c # "done")
  /\ secret' = (secret /\ c = "refused")
  /\ Undone(c # "done")
  /\ UNCHANGED <<document, locked, credentials, factVars, slotVars>>

\* #updateWithReplacementSecret writes the old secret back and restores the test
\* result it had reset.
UndoCredential(c) ==
  /\ op.step = "unset" /\ op.kind = "secret"
  /\ Blame(c # "done")
  /\ secret' = (secret /\ c = "refused")
  /\ IF document # op.prev /\ c = "done" THEN Go("unmark") ELSE Undone(c # "done")
  /\ UNCHANGED <<document, locked, credentials, factVars, slotVars>>

\* createProvider deletes the credential it wrote.
UndoCreate(c) ==
  /\ op.step = "unset" /\ op.kind = "create"
  /\ Blame(c # "done")
  /\ credentials' = IF c = "refused" THEN credentials ELSE credentials \ {op.id}
  /\ Undone(c # "done")
  /\ UNCHANGED <<document, locked, secret, factVars, slotVars>>

RestoreTest(c) ==
  /\ op.step = "unmark"
  /\ Persist(op.prev, c)
  /\ Undone(c # "done")
  /\ UNCHANGED <<credentials, secret, factVars, slotVars>>
------------------------
(* What the WorkerManager and the Worker do meanwhile *)

\* What happens on its own, and what the Worker does of a stop or of a snapshot it
\* refuses.  The readiness gate keeps a recovery from starting a Worker.
SlotProceeds ==
  \/ Slot!WorkerTakes \/ Slot!StartSends \/ Slot!Started \/ Slot!ApplyConfirmed
  \/ Slot!AccountApplied \/ Slot!CrashNoticed \/ Slot!RecoveryRetries
  \/ Slot!StopEnds(TRUE) \/ (job.fn = "start" /\ Slot!StopEnds(FALSE))
  \/ AccountUpdates /\ Slot!AccountBegins

Refuses == inbox # <<>> /\ Head(inbox).gen <= worker.snap.gen

Manager ==
  /\ ~Urgent
  /\ \/ SlotProceeds /\ UNCHANGED faults
     \/ Slot!RestartForks /\ Blame(job' = Slot!NoJob)
     \/ op.kind \notin Gated /\ Slot!RecoveryStarts /\ Blame(job' = Slot!NoJob)
     \/ Slot!WorkerDies /\ Blame(job.fn # "stop" /\ ~Refuses)
  /\ UNCHANGED <<storeVars, factVars, op, endVars>>

\* A lost acknowledgement, a Worker that would not exit, a port that stays taken,
\* the end of the patience of the recovery.
ManagerFails ==
  /\ ~Urgent
  /\ \/ Slot!MessageFails \/ Slot!StopFails \/ Slot!RecoveryGivesUp
     \/ job.fn = "stop" /\ Slot!StopEnds(FALSE)
  /\ Blame(TRUE)
  /\ UNCHANGED <<storeVars, factVars, op, endVars>>

------------------------

Calls ==
  \/ \E id \in Providers :
       \/ Activate(id) \/ UpdateSecret(id) \/ DeleteProvider(id) \/ CreateProvider(id)
       \/ \E activateIfNone \in BOOLEAN : TestProvider(id, activateIfNone)
  \/ SetProviderWeight \/ SetRoutingMode \/ SetCaptureEnabled \/ SetCaptureDetailsEnabled
  \/ UpdateProvider \/ SetProviderSupportedModels \/ SetApiKeyAuthEnabled
  \/ UpdateRoutingRuleGroup \/ DeleteRoutingRuleGroup \/ SetActiveRoutingRuleGroup
  \/ CreateRoutingRuleGroup
  \/ CreateModelMappingGroup \/ UpdateModelMappingGroup \/ DeleteModelMappingGroup
  \/ SetProxyHost \/ StartProxy("start") \/ StartProxy("restart") \/ StopProxy

Forward ==
  \/ \E c \in Commits : SetCredential(c) \/ ResetTest(c) \/ Commit(c) \/ Fallback(c)
  \/ Build \/ BuildFails \/ CallWorker
  \/ WorkerConfirms \/ ModeConfirmed \/ WorkerRefuses \/ WorkerStopped
  \/ \E done \in BOOLEAN : ForgetCredential(done) \/ SelectionRecorded(done)
  \/ Recorded \/ ModeRecorded \/ RecordFails
  \/ \E c \in Commits, passed \in BOOLEAN : Probed(passed, c)
  \/ \E c \in Commits : SelectInitial(c) \/ ClearSelection(c)

Backward ==
  \/ \E c \in Commits : Undo(c) \/ RestoreSecret(c) \/ UndoCredential(c) \/ UndoCreate(c) \/ RestoreTest(c)
  \/ Rebuild \/ RebuildFails \/ UndoCall \/ UndoActivationCall \/ UndoAnswered \/ Cleanup \/ CleanedUp

Next == Calls \/ Forward \/ Backward \/ Manager \/ ManagerFails

Spec == Init /\ [][Next]_vars

\* A ProviderService goes on while it is not blocked, and the manager and its Worker,
\* whose every wait has a timeout, do too.
FairSpec == Spec /\ WF_vars(Forward \/ Backward) /\ WF_vars(Manager)

------------------------
(* Properties *)

\* The shape of the state; the registry document never prefers a provider it does
\* not have (normalizeRegistry).
TypeOK ==
  /\ document \in Document
  /\ document.active \in document.providers \union {NoProvider}
  /\ document.tested \subseteq document.providers
  /\ locked \in BOOLEAN /\ secret \in BOOLEAN /\ trusted \in BOOLEAN
  /\ credentials \subseteq Providers
  /\ confirmedGeneration \in 0..MaxGeneration
  /\ confirmedSnapshot \in Configurations \union {NoConfig}
  /\ op.step \in Steps /\ op.kind \in OperationKinds \union {"none"}
  /\ op.gen \in 0..MaxGeneration
  /\ outcome.result \in Results
  /\ faults \in 0..MaxFaults

Ends(results) == ~Idle /\ op' = NoOp /\ outcome'.result \in results

\* Nothing of the manager is in flight between two operations.
Quiet == Idle /\ job = Slot!NoJob /\ inbox = <<>>

\* A Worker in service routes by the registry document the user sees: it prefers no
\* provider but the preferred one, it serves no deleted provider, and its settings
\* and secret are those on disk; after any operation, failed and rolled back or
\* committed with a warning, that does not report itself degraded.
Agreement ==
  Quiet /\ trusted /\ phase = "running" /\ worker.alive =>
    LET cfg == worker.snap.cfg
    IN /\ cfg.preferred \in {document.active, NoProvider}
       /\ cfg.pool \subseteq document.providers
       /\ cfg.settings = document.settings
       /\ cfg.secret = secret

\* An operation that reports a plain failure leaves the registry, the secret and
\* the credentials as it found them; a test keeps its result, not its selection.
FailedChangesNothing ==
  [][Ends({"failed"}) =>
       /\ IF op.kind = "test" THEN document'.active = op.prev.active
          ELSE document' = op.prev
       /\ op.kind = "secret" => ~secret'
       /\ op.kind = "create" => op.id \notin credentials']_vars

\* An operation that reports success, or a commit with a warning, has changed the
\* registry as it was asked to.
CommittedIsApplied ==
  [][Ends({"ok", "committed", "unrecorded"}) /\ op.kind # "test" =>
       /\ document'.settings = op.next.settings
       /\ document'.providers = op.next.providers
       /\ op.kind \in {"activate", "start", "restart"} => document'.active = op.next.active
       /\ op.kind = "secret" => secret']_vars

\* Every configured provider has its credential, in whichever order an operation
\* and its rollback touch the registry and the credential store.
ProvidersHaveCredentials == Idle => document.providers \subseteq credentials

\* One thing that goes wrong is rolled back: an operation reports itself degraded
\* only after two, or when the Worker is gone that the rollback would need.  (The
\* deletion of the last provider is always rolled back, so one is enough there, and
\* the rollbacks of a secret and of the details wait for the credential store before
\* they call the Worker, so that the recovery of one that died gets in between.)
OneFaultIsUndone ==
  [][Ends({"degraded"}) /\ faults' <= 1 /\ op.kind \notin {"delete", "secret", "details"} =>
       phase # "running" \/ ~worker.alive]_vars

\* No operation waits for ever: for the manager's slot, for an answer of a Worker
\* that is gone, or for a recovery that waits for the operation in the readiness gate.
TransactionEnds == ~Idle ~> Idle
=============================================================================
