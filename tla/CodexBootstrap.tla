--------------------------- MODULE CodexBootstrap ---------------------------
(***************************************************************************)
(* The bootstrap of the Codex configuration (codex-config.mjs) with the    *)
(* repair of the Codex history (codex-history-repair.mjs), and the status  *)
(* the Supervisor reads before it lets a Worker start (supervisor.mjs).    *)
(*                                                                         *)
(* A bootstrap takes the lock file of config.toml, plans the change, backs *)
(* up every rollout and every database that names another provider, writes *)
(* a journal (pending.json), publishes the new configuration, rewrites the *)
(* rollouts and the databases, verifies them and removes the journal.  It  *)
(* may fault or die at every step.  The lock carries its owner, a phase    *)
(* and what the bootstrap is bound to, so that the next bootstrap can tell *)
(* whether a dead owner's lock may be taken away.                          *)
(*                                                                         *)
(* Files are known by what they hold: a configuration is its hash, and the *)
(* lock of a run is told from every other by its owner.  As the README     *)
(* asks, Codex starts no session while a bootstrap is at work; it may      *)
(* append to one.                                                          *)
(***************************************************************************)
EXTENDS Naturals

CONSTANTS
  Clients,        \* processes that bootstrap: a Supervisor each
  Rollouts,       \* rollout-*.jsonl under sessions and archived_sessions
  Databases,      \* state_5.sqlite and sqlite/*, with threads.model_provider
  MaxRuns,        \* bound: bootstraps
  MaxWrites,      \* bound: what the user and Codex write
  MaxFaults,      \* bound: file operations that fail
  MaxDeaths,      \* bound: Supervisors that die
  MaxChecks       \* bound: readings of the status

VARIABLES
  config,         \* config.toml
  history,        \* what each rollout and database names, and its version
  backups,        \* <<item, version>> under backups/
  pending,        \* pending.json, or its other name while it is cleared
  lock,           \* config.toml.crp.lock
  runs,           \* the bootstraps of the clients
  stale,          \* the lock was taken on a look at the journal that was no longer true, or
                  \* while a run whose lock was renamed away was still at work, or had been
                  \* renamed away itself and put back
  status,         \* a reading of the status, by another process, and whether the user has
                  \* written the configuration since it began
  bounds          \* what of the bounds is used up

bootstrapVars == <<config, history, backups, pending, lock, runs, stale, status, bounds>>

Items == Rollouts \union Databases
Nobody == [client |-> "nobody", life |-> 0]

\* Configurations: two that name another provider; no file, or one that names the proxy's URL
\* without all of the patch; the patched one.
Configs == {"source", "other", "unbound", "target"}

\* planCodexProviderTransition: only another URL asks for the history.
Required(c) == c \in {"source", "other"}

NoBinding == [op |-> 0, source |-> "none", pendingRequired |-> FALSE]
NoPending == [at |-> "none", op |-> 0, source |-> "none"]
NoLock    == [owner |-> Nobody, phase |-> "absent", binding |-> NoBinding]
Unreadable(owner) == [owner |-> owner, phase |-> "unreadable", binding |-> NoBinding]
Blocked == Unreadable(Nobody)

BindingOf(p) == [op |-> p.op, source |-> p.source, pendingRequired |-> TRUE]
SamePending(p, b) == p.op = b.op /\ p.source = b.source

Idle(life) ==
  [pc |-> "idle", life |-> life, op |-> 0, seen |-> NoPending, mine |-> NoLock, claim |-> NoLock,
   source |-> "none", pend |-> NoPending, resumed |-> FALSE, published |-> FALSE,
   configOnly |-> FALSE, changes |-> {}, todo |-> {}, held |-> {}, callbackFailed |-> FALSE]

Owner(c) == [client |-> c, life |-> runs[c].life]
Dead(owner) == owner # Nobody /\ runs[owner.client].life # owner.life
OldItems == {i \in Items : history[i].provider = "old"}
Snapshot == {<<i, history[i].version>> : i \in OldItems}
Held == UNION {runs[c].held : c \in Clients}

------------------------
(* The steps of a bootstrap. *)

Step(c, r) == runs' = [runs EXCEPT ![c] = r]
Goto(c, pc) == Step(c, [runs[c] EXCEPT !.pc = pc])
At(c, pc) == runs[c].pc = pc
Use(bound, max) ==
  bounds[bound] < max /\ bounds' = [bounds EXCEPT ![bound] = @ + 1]
Fault == Use("faults", MaxFaults)
NoFault == UNCHANGED bounds
Files == <<config, history, backups, pending>>
Others == <<stale, status>>

\* The bootstrap ends: open transactions are rolled back, the lock is given back.
Ending(r) == [r EXCEPT !.pc = "release", !.changes = {}, !.todo = {}, !.held = {}]
Finish(c) == Step(c, Ending(runs[c]))

\* inspectPendingCodexHistoryRepair, before the lock.
Inspect(c) ==
  /\ At(c, "idle") /\ Use("runs", MaxRuns)
  /\ Step(c, [Idle(runs[c].life) EXCEPT !.pc = "lock", !.op = bounds.runs + 1,
                                       !.seen = pending])
  /\ UNCHANGED <<Files, lock, Others>>

\* Mutant of StaleLockCanBeRecovered: a completed lock is read like a prepared one.
MutantStaleLockCanBeRecovered(document, pend, hash) ==
  LET binding == document.binding
      ofSource == hash = binding.source
      ofTarget == hash = "target"
  IN IF binding = NoBinding THEN pend = NoPending
     ELSE IF pend # NoPending
       THEN binding.pendingRequired /\ SamePending(pend, binding) /\ (ofSource \/ ofTarget)
     ELSE document.phase = "prepared"
          /\ (IF binding.pendingRequired THEN ofSource ELSE ofSource \/ ofTarget)

StaleLockCanBeRecovered(document, pend, hash) ==
  LET binding == document.binding
      ofSource == hash = binding.source
      ofTarget == hash = "target"
      samePending == binding.pendingRequired /\ SamePending(pend, binding)
  IN IF binding = NoBinding THEN pend = NoPending
     ELSE IF document.phase = "completed" THEN ofTarget /\ (pend = NoPending \/ samePending)
     ELSE IF pend # NoPending THEN samePending /\ (ofSource \/ ofTarget)
     ELSE document.phase = "prepared" /\ (ofSource \/ (~binding.pendingRequired /\ ofTarget))

\* A run that took the lock and has not given it back, whether or not the file is still in
\* its place.
Holding(r) == r.pc \notin {"idle", "lock", "steal", "restore"}

\* acquireConfigLock: a lock that is there is taken away only from the dead, and only
\* when journal and configuration are what it says.
AcquireConfigLock(c) ==
  /\ At(c, "lock")
  /\ \/ /\ lock = NoLock /\ lock' = Unreadable(Owner(c))
        /\ stale' = (runs[c].seen # pending \/ \E k \in Clients \ {c} : Holding(runs[k]))
        /\ Goto(c, "token")
     \/ /\ lock # NoLock /\ UNCHANGED <<lock, stale>>
        /\ IF runs[c].claim = NoLock /\ lock.phase # "unreadable" /\ Dead(lock.owner)
              /\ StaleLockCanBeRecovered(lock, runs[c].seen, config)
             THEN Step(c, [runs[c] EXCEPT !.pc = "steal", !.claim = lock])
             ELSE Step(c, Idle(runs[c].life))
  /\ NoFault /\ UNCHANGED <<Files, status>>

\* claimOwnedPath renames whatever the lock is by now, and puts back what it did not mean.
StealLock(c) ==
  LET r == runs[c]
  IN /\ At(c, "steal")
     /\ \/ /\ lock = NoLock /\ lock' = Blocked /\ NoFault
           /\ Step(c, Idle(r.life))
        \/ lock = r.claim /\ lock' = NoLock /\ NoFault /\ Goto(c, "lock")
        \/ /\ lock = r.claim /\ lock' \in {lock, Blocked} /\ Fault
           /\ Step(c, Idle(r.life))
        \/ /\ lock # NoLock /\ lock # r.claim /\ lock' = NoLock /\ NoFault
           /\ Step(c, [r EXCEPT !.pc = "restore", !.claim = lock])
     /\ UNCHANGED <<Files, Others>>

RestoreLock(c) ==
  /\ At(c, "restore")
  /\ lock' = (IF lock = NoLock THEN runs[c].claim ELSE lock)
  /\ Step(c, Idle(runs[c].life))
  /\ stale' = (stale \/ lock = NoLock)
  /\ NoFault /\ UNCHANGED <<Files, status>>

WriteToken(c) ==
  LET r == runs[c]
      mine == [owner |-> Owner(c),
               phase |-> IF r.seen = NoPending THEN "acquired" ELSE "prepared",
               binding |-> IF r.seen = NoPending THEN NoBinding ELSE BindingOf(r.seen)]
  IN /\ At(c, "token")
     /\ \/ /\ lock' = (IF lock = Unreadable(Owner(c)) THEN mine ELSE lock)
           /\ runs' = [k \in Clients |->
                         IF k = c THEN [r EXCEPT !.pc = "read", !.mine = mine]
                         ELSE IF runs[k].claim = Unreadable(Owner(c))
                           THEN [runs[k] EXCEPT !.claim = mine] ELSE runs[k]]
           /\ NoFault
        \/ /\ Fault /\ lock' = (IF lock = Unreadable(Owner(c)) THEN NoLock ELSE lock)
           /\ Step(c, Idle(r.life))
     /\ UNCHANGED <<Files, Others>>

\* The configuration is read, the patch and the transition are planned.
Plan(c) ==
  LET r == [runs[c] EXCEPT !.source = config]
  IN /\ At(c, "read")
     /\ IF ~Required(config) /\ r.seen = NoPending
          THEN IF config = "target"
                 THEN Step(c, Ending(r))
                 ELSE Step(c, [r EXCEPT !.pc = "bind", !.configOnly = TRUE])
          ELSE Step(c, [r EXCEPT !.pc = "begin"])
     /\ NoFault /\ UNCHANGED <<Files, lock, Others>>

\* runCodexHistoryRepairTransition: the journal is read again, under the lock.
Begin(c) ==
  LET r == runs[c]
  IN /\ At(c, "begin")
     /\ Step(c, IF pending # NoPending
                  THEN [r EXCEPT !.pend = pending, !.resumed = TRUE, !.pc = "check",
                                 !.published = r.source = "target"]
                ELSE IF ~Required(r.source) \/ config # r.source THEN Ending(r)
                ELSE [r EXCEPT !.pc = "discover"])
     /\ NoFault /\ UNCHANGED <<Files, lock, Others>>

\* createManagedOperation: what was read of the rollouts is backed up first, the databases
\* are opened after it.
BackingUp(r) ==
  [r EXCEPT !.pc = "backUp", !.changes = {s \in Snapshot : s[1] \in Rollouts},
            !.todo = Databases]

Prepared(r) ==
  [r EXCEPT !.pc = IF r.todo # {} THEN "prepare" ELSE IF r.resumed THEN "resume" ELSE "bind"]

Discover(c) ==
  LET r == runs[c]
  IN /\ At(c, "discover")
     /\ \/ Snapshot # {} /\ NoFault /\ Step(c, BackingUp(r))
        \/ Snapshot = {} /\ NoFault /\ Step(c, [r EXCEPT !.pc = "bind", !.configOnly = TRUE])
        \/ Fault /\ Finish(c)
     /\ UNCHANGED <<Files, lock, Others>>

\* backupRollouts: what was read, not what is there by now.
BackUpRollouts(c) ==
  LET r == runs[c]
  IN /\ At(c, "backUp")
     /\ \/ backups' = backups \union r.changes /\ NoFault /\ Step(c, Prepared(r))
        \/ \E some \in SUBSET r.changes :
             backups' = backups \union some /\ Fault /\ Finish(c)
     /\ UNCHANGED <<config, history, pending, lock, Others>>

\* assertRolloutSnapshots
Unchanged(r) == \A ch \in r.changes : history[ch[1]].version = ch[2]

\* backupOpenDatabase: a copy under a name of its own.
BackUpDatabase(d) == backups' = backups \union {<<d, history[d].version>>}

\* prepareDatabaseSnapshots: one database after the other is locked by a transaction, and
\* backed up while it is; with nothing to change it is given back at once.
PrepareDatabase(c) ==
  LET r == runs[c]
  IN /\ At(c, "prepare")
     /\ \/ \E d \in r.todo \ Held :
             LET next == Prepared([r EXCEPT !.todo = @ \ {d}]) IN
             /\ NoFault
             /\ IF d \in OldItems
                  THEN /\ BackUpDatabase(d)
                       /\ Step(c, [next EXCEPT !.held = @ \union {d}])
                  ELSE UNCHANGED backups /\ Step(c, next)
        \/ r.todo \intersect Held # {} /\ UNCHANGED backups /\ NoFault /\ Finish(c)
        \/ UNCHANGED backups /\ Fault /\ Finish(c)
     /\ UNCHANGED <<config, history, pending, lock, Others>>

\* bindPreparedLock: the lock says what it stands for before anything is published.
BindPreparedLock(c) ==
  LET r == runs[c]
      binding == [op |-> r.op, source |-> r.source, pendingRequired |-> ~r.configOnly]
      mine == [r.mine EXCEPT !.phase = "prepared", !.binding = binding]
  IN /\ At(c, "bind")
     /\ \/ /\ r.mine.binding = NoBinding /\ lock = r.mine /\ Unchanged(r)
           /\ lock' = mine /\ NoFault
           /\ Step(c, [r EXCEPT !.mine = mine,
                                !.pc = IF r.configOnly THEN "publish" ELSE "journal"])
        \/ /\ r.mine.binding # NoBinding \/ lock # r.mine \/ ~Unchanged(r)
           /\ UNCHANGED lock /\ NoFault /\ Finish(c)
        \/ /\ r.mine.binding = NoBinding /\ lock = r.mine /\ Fault
           /\ lock' \in {lock, mine} /\ Finish(c)
     /\ UNCHANGED <<Files, Others>>

WriteJournal(c) ==
  LET r == runs[c]
      pend == [at |-> "pending", op |-> r.mine.binding.op, source |-> r.source]
  IN /\ At(c, "journal")
     /\ \/ /\ pending = NoPending /\ pending' = pend /\ NoFault
           /\ Step(c, [r EXCEPT !.pend = pend, !.pc = "check"])
        \/ pending # NoPending /\ UNCHANGED pending /\ NoFault /\ Finish(c)
        \/ pending = NoPending /\ Fault /\ pending' \in {pending, pend} /\ Finish(c)
     /\ UNCHANGED <<config, history, backups, lock, Others>>

\* assertBoundLock
Bound(r) ==
  /\ lock = r.mine
  /\ IF r.configOnly THEN ~r.mine.binding.pendingRequired
     ELSE r.mine.binding = BindingOf(r.pend)

\* What a fresh and a resumed run check before the configuration is published; a resumed
\* run looks for the history again, and backs up what is there now.
Publishing(r) == IF r.published THEN "confirm" ELSE "publish"

CheckRun(c) ==
  LET r == runs[c]
      mayGoOn == r.source \in {r.pend.source, "target"} /\ config = r.source /\ Bound(r)
  IN /\ At(c, "check")
     /\ \/ ~mayGoOn /\ NoFault /\ Finish(c)
        \/ mayGoOn /\ Fault /\ Finish(c)
        \/ /\ mayGoOn /\ NoFault
           /\ IF r.resumed THEN Step(c, BackingUp(r)) ELSE Goto(c, Publishing(r))
     /\ UNCHANGED <<Files, lock, Others>>

ResumeRun(c) ==
  /\ At(c, "resume")
  /\ IF Unchanged(runs[c]) /\ Bound(runs[c]) THEN Goto(c, Publishing(runs[c])) ELSE Finish(c)
  /\ NoFault /\ UNCHANGED <<Files, lock, Others>>

\* writeFileAtomically: the configuration is read once more before the rename; the call may
\* fail on both sides of it.
WriteFileAtomically(r, published, failed) ==
  IF config # r.source THEN ~published /\ failed /\ NoFault
  ELSE IF failed THEN Fault
  ELSE published /\ NoFault

\* publishConfig: a configuration that is there is backed up first.
PublishConfig(r, published, failed) ==
  \/ WriteFileAtomically(r, published, failed)
  \/ config = r.source /\ Fault /\ ~published /\ failed

\* publishTarget: whether the callback published is told by the configuration alone.
PublishTarget(c) ==
  LET r == runs[c]
      done == [r EXCEPT !.published = TRUE]
  IN /\ At(c, "publish")
     /\ \E published, failed \in BOOLEAN :
          /\ PublishConfig(r, published, failed)
          /\ config' = (IF published THEN "target" ELSE config)
          /\ Step(c, IF config' # "target" THEN Ending(r)
                     ELSE IF ~r.configOnly
                       THEN [done EXCEPT !.pc = "confirm", !.callbackFailed = failed]
                     ELSE IF failed THEN Ending(done)
                     ELSE [done EXCEPT !.pc = "complete"])
     /\ UNCHANGED <<history, backups, pending, lock, Others>>

\* The lock and the configuration are looked at once more before the history is touched.
Confirm(c) ==
  /\ At(c, "confirm")
  /\ IF Bound(runs[c]) /\ config = "target" THEN Goto(c, "rollouts") ELSE Finish(c)
  /\ NoFault /\ UNCHANGED <<Files, lock, Others>>

Renamed(items) ==
  history' = [i \in Items |-> IF i \in items
                THEN [provider |-> "new", version |-> history[i].version + 1] ELSE history[i]]

\* repairRollouts: each is compared with what was backed up, and replaced.
RepairRollouts(c) ==
  LET r == runs[c]
  IN /\ At(c, "rollouts")
     /\ \/ \E ch \in r.changes :
             \/ /\ history[ch[1]].version = ch[2]
                /\ Renamed({ch[1]}) /\ NoFault
                /\ Step(c, [r EXCEPT !.changes = @ \ {ch}])
             \/ history[ch[1]].version # ch[2] /\ UNCHANGED history /\ NoFault /\ Finish(c)
        \/ r.changes # {} /\ Fault /\ UNCHANGED history /\ Finish(c)
        \/ r.changes = {} /\ UNCHANGED history /\ NoFault /\ Goto(c, "databases")
     /\ UNCHANGED <<config, backups, pending, lock, Others>>

\* repairPreparedDatabases: the rows that were found are changed and committed.
RepairDatabases(c) ==
  LET r == runs[c]
  IN /\ At(c, "databases")
     /\ \/ /\ \E d \in r.held : Renamed({d}) /\ Step(c, [r EXCEPT !.held = @ \ {d}])
           /\ NoFault
        \/ r.held # {} /\ Fault /\ UNCHANGED history /\ Finish(c)
        \/ r.held = {} /\ UNCHANGED history /\ NoFault /\ Goto(c, "verify")
     /\ UNCHANGED <<config, backups, pending, lock, Others>>

\* verifyHistory, before the lock is completed and again after it was.
Verify(c) ==
  LET r == runs[c]
  IN /\ At(c, "verify") \/ At(c, "verifyAgain")
     /\ \/ OldItems = {} /\ NoFault
           /\ (At(c, "verify") => ~r.callbackFailed)
           /\ (At(c, "verifyAgain") => Bound(r) /\ config = "target")
           /\ Goto(c, IF At(c, "verify") THEN "complete" ELSE "clear")
        \/ /\ \/ OldItems # {}
              \/ At(c, "verify") /\ r.callbackFailed
              \/ At(c, "verifyAgain") /\ ~(Bound(r) /\ config = "target")
           /\ NoFault /\ Finish(c)
        \/ Fault /\ Finish(c)
     /\ UNCHANGED <<Files, lock, Others>>

\* completeBoundLock.  A run that changed the configuration only is done with it, whether or
\* not it finds the configuration as it wrote it.
CompleteLock(c) ==
  LET r == runs[c]
      mine == [r.mine EXCEPT !.phase = "completed"]
      ended == [r EXCEPT !.mine = mine]
  IN /\ At(c, "complete")
     /\ \/ /\ Bound(r) /\ lock' = mine /\ NoFault
           /\ Step(c, IF ~r.configOnly THEN [ended EXCEPT !.pc = "verifyAgain"]
                      ELSE Ending(ended))
        \/ ~Bound(r) /\ UNCHANGED lock /\ NoFault /\ Finish(c)
        \/ Bound(r) /\ lock' \in {lock, mine} /\ Fault /\ Finish(c)
     /\ UNCHANGED <<Files, Others>>

\* clearPending: the journal is renamed, looked at and removed.  One that is not where the
\* run found it stays as it is, a missing one is written again.
ClearPending(c) ==
  LET r == runs[c]
      asFound == pending # NoPending /\ pending.at = r.pend.at
      clearing == [pending EXCEPT !.at = "clearing"]
  IN /\ At(c, "clear")
     /\ \/ asFound /\ pending' = clearing /\ NoFault /\ Goto(c, "remove")
        \/ asFound /\ pending' \in {pending, clearing} /\ Fault /\ Finish(c)
        \/ pending # NoPending /\ ~asFound /\ UNCHANGED pending /\ NoFault /\ Finish(c)
        \/ pending = NoPending /\ UNCHANGED pending /\ NoFault /\ Goto(c, "restorePending")
     /\ UNCHANGED <<config, history, backups, lock, Others>>

RemovePending(c) ==
  LET r == runs[c]
      asClaimed == pending.at = "clearing" /\ pending.op = r.pend.op
  IN /\ At(c, "remove")
     /\ \/ asClaimed /\ pending' = NoPending /\ NoFault /\ Step(c, Ending(r))
        \/ asClaimed /\ UNCHANGED pending /\ Fault /\ Finish(c)
        \/ asClaimed /\ pending' = NoPending /\ Fault /\ Goto(c, "restorePending")
        \/ pending # NoPending /\ ~asClaimed /\ UNCHANGED pending /\ NoFault /\ Finish(c)
        \/ pending = NoPending /\ UNCHANGED pending /\ NoFault /\ Goto(c, "restorePending")
     /\ UNCHANGED <<config, history, backups, lock, Others>>

\* restorePendingMarker; when there is no journal again, the lock stays in its place.
RestorePending(c) ==
  LET r == runs[c]
  IN /\ At(c, "restorePending")
     /\ \/ /\ pending' = (IF pending = NoPending THEN [r.pend EXCEPT !.at = "pending"]
                         ELSE pending)
           /\ NoFault /\ Finish(c)
        \/ /\ UNCHANGED pending /\ Fault
           /\ Step(c, Idle(r.life))
     /\ UNCHANGED <<config, history, backups, lock, Others>>

\* releaseConfigLock.  A lock that is not the run's own is put back, a missing one replaced.
ReleaseLock(c) ==
  LET r == runs[c]
      ended == Idle(r.life)
  IN /\ At(c, "release")
     /\ \/ lock = r.mine /\ lock' = NoLock /\ NoFault /\ Step(c, ended)
        \/ lock = r.mine /\ lock' \in {lock, Blocked} /\ Fault /\ Step(c, ended)
        \/ lock = NoLock /\ lock' = Blocked /\ NoFault /\ Step(c, ended)
        \/ /\ lock # NoLock /\ lock # r.mine /\ lock' = NoLock /\ NoFault
           /\ Step(c, [r EXCEPT !.pc = "restore", !.claim = lock])
     /\ UNCHANGED <<Files, Others>>

------------------------
(* Everybody else. *)

\* A Supervisor dies; its transactions are rolled back, its files stay.
Die(c) ==
  /\ Use("deaths", MaxDeaths)
  /\ Step(c, Idle(runs[c].life + 1))
  /\ UNCHANGED <<Files, lock, Others>>

\* The user writes the configuration.
EditConfig(new) ==
  /\ Use("writes", MaxWrites)
  /\ config' = new /\ config # new
  /\ status' = [status EXCEPT !.edited = TRUE]
  /\ UNCHANGED <<history, backups, pending, lock, runs, stale>>

\* Codex appends to a session; a database is not written while a transaction holds it.
Append(i) ==
  /\ i \notin Held
  /\ Use("writes", MaxWrites)
  /\ history' = [history EXCEPT ![i].version = @ + 1]
  /\ UNCHANGED <<config, backups, pending, lock, runs, Others>>

\* Codex starts a session under the provider its configuration names.
StartSession(i) ==
  /\ \A c \in Clients : At(c, "idle")
  /\ Required(config)
  /\ Use("writes", MaxWrites)
  /\ history' = [history EXCEPT ![i] = [provider |-> "old", version |-> @.version + 1]]
  /\ UNCHANGED <<config, backups, pending, lock, runs, Others>>

\* inspectStatus: eight readings, one after the other.
Readings == <<"pending", "clearing", "lock", "text", "lock", "pending", "clearing", "lock">>

Good(reading) ==
  CASE reading = "pending"  -> pending.at # "pending"
    [] reading = "clearing" -> pending.at # "clearing"
    [] reading = "lock"     -> lock = NoLock
    [] reading = "text"     -> config = "target"

\* Mutant of InspectStatus: everything is read once only.
MutantInspectStatus ==
  /\ status.next \in 1..4
  /\ status' = [status EXCEPT !.next = IF @ = 4 THEN 9 ELSE @ + 1,
                              !.configured = @ /\ Good(Readings[status.next])]
  /\ UNCHANGED <<Files, lock, runs, stale, bounds>>

InspectStatus ==
  /\ status.next \in DOMAIN Readings
  /\ status' = [status EXCEPT !.next = @ + 1,
                              !.configured = @ /\ Good(Readings[status.next])]
  /\ UNCHANGED <<Files, lock, runs, stale, bounds>>

BeginStatus ==
  /\ status.next \notin DOMAIN Readings
  /\ Use("checks", MaxChecks)
  /\ status' = [next |-> 1, configured |-> TRUE, edited |-> FALSE]
  /\ UNCHANGED <<Files, lock, runs, stale>>

------------------------

\* A history of another provider only beside a configuration that names it.
Init ==
  /\ config \in Configs
  /\ history \in [Items -> [provider : {"old", "new"}, version : {0}]]
  /\ ~Required(config) => OldItems = {}
  /\ backups = {} /\ pending = NoPending /\ lock = NoLock
  /\ runs = [c \in Clients |-> Idle(0)]
  /\ stale = FALSE
  /\ status = [next |-> 0, configured |-> FALSE, edited |-> FALSE]
  /\ bounds = [runs |-> 0, writes |-> 0, faults |-> 0, deaths |-> 0, checks |-> 0]

BootstrapStep(c) ==
  \/ Inspect(c) \/ AcquireConfigLock(c) \/ StealLock(c) \/ RestoreLock(c) \/ WriteToken(c)
  \/ Plan(c) \/ Begin(c) \/ Discover(c) \/ BackUpRollouts(c) \/ PrepareDatabase(c)
  \/ BindPreparedLock(c) \/ WriteJournal(c) \/ ResumeRun(c)
  \/ CheckRun(c) \/ PublishTarget(c) \/ Confirm(c) \/ RepairRollouts(c) \/ RepairDatabases(c)
  \/ Verify(c) \/ CompleteLock(c) \/ ClearPending(c) \/ RemovePending(c)
  \/ RestorePending(c) \/ ReleaseLock(c) \/ Die(c)

Next ==
  \/ \E c \in Clients : BootstrapStep(c)
  \/ \E new \in {"source", "other"} : EditConfig(new)
  \/ \E i \in Items : Append(i) \/ StartSession(i)
  \/ BeginStatus \/ InspectStatus

Spec == Init /\ [][Next]_bootstrapVars

------------------------
(* Properties. *)

\* README.md: a pending repair or a config lock makes Codex not ready.  However its
\* readings fall between the steps of a bootstrap, and wherever one died, the status says
\* "configured" only of a history that names the configured provider everywhere, and that
\* stays so until the user writes the configuration.
ReadyIsRepaired ==
  status.next = 9 /\ status.configured /\ ~status.edited => config = "target" /\ OldItems = {}

\* No name of a provider is overwritten in a version that was not backed up, also not by
\* a resumed run, before which Codex went on writing.
ChangesBackedUp ==
  \A i \in Items :
    history[i].provider = "old" /\ history'[i].provider = "new"
      => <<i, history[i].version>> \in backups

\* A bootstrap that is called ready has repaired the history, and nothing is rewritten
\* without a backup.
RepairIsSafe == []ReadyIsRepaired /\ [][ChangesBackedUp]_bootstrapVars

\* Wherever a bootstrap dies, the next one can take its lock and go on: journal and
\* configuration are then as the lock says, unless the user or Codex wrote, or the lock was
\* disturbed (stale): taken on a look at the journal that was no longer true or beside a run
\* whose lock had been renamed away, or put back late.
LeftLockRecoverable ==
  /\ lock.phase \notin {"absent", "unreadable"} /\ Dead(lock.owner)
  /\ \A c \in Clients : At(c, "idle")
  /\ ~stale /\ bounds.writes = 0
  => StaleLockCanBeRecovered(lock, pending, config)
=============================================================================
